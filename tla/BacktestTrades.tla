--------------------------- MODULE BacktestTrades ---------------------------
(***************************************************************************)
(* What a backtest computes (backtest/engine.py, and the load of           *)
(* backtest/service.py).  A market is the history there is:                *)
(*   stored     execution bars, some of them outside the range, no two of  *)
(*              which open at once,                                        *)
(*   start, end the range asked for,                                       *)
(*   steps      per setup candle of the range, in order, its close and     *)
(*              what analyze(close) says: eligible and the setups so far,  *)
(*   costs      the assumed costs, and variants their multipliers,         *)
(*   segments, outOfSample  how the closed trades are divided.             *)
(* A plan carries the open of the candle that confirmed it.                *)
(***************************************************************************)
EXTENDS JournalReport

CONSTANTS
  ExpiryBars,    \* paper.json pendingExpiryBars
  SetupBars,     \* execution bars to a setup candle
  MaxLimit,      \* MAX_LIMIT: candles of one load
  MaxLoads       \* loads of one series

P == INSTANCE PaperPrices

InRange(market) == {b \in market.stored : b.at >= market.start /\ P!CloseOf(b) <= market.end}

(* Bars sorted by their open time.                                         *)
Earlier(bars, bar) == {b \in bars : b.at < bar.at}
ByOpen(bars) == [i \in 1 .. Cardinality(bars) |-> CHOOSE b \in bars : Cardinality(Earlier(bars, b)) = i - 1]

(* _load: backwards from the end, a chunk at a time, until a chunk brings  *)
(* nothing new or reaches the start.  A chunk is the last bars there are.  *)
ClosedBy(bars, until) == {b \in bars : P!CloseOf(b) <= until}
Chunk(stored, until) ==
  {b \in ClosedBy(stored, until) : Cardinality({c \in ClosedBy(stored, until) : c.at > b.at}) < MaxLimit}

NextEnd(chunk) == Min({b.at : b \in chunk})

LoadMore(market, load) ==
  LET chunk == Chunk(market.stored, load.until)
      new   == {b \in chunk : b.at >= market.start} \ load.bars
  IN  IF ~load.more THEN load
      ELSE [bars  |-> load.bars \cup new,
            more  |-> new # {} /\ Min({b.at : b \in chunk}) > market.start,
            until |-> IF chunk = {} THEN load.until ELSE NextEnd(chunk)]

NoLoad(market) == [bars |-> {}, more |-> TRUE, until |-> market.end]
Load(market) ==
  ByOpen(FoldLeft(LAMBDA load, i : LoadMore(market, load), NoLoad(market), [i \in 1 .. MaxLoads |-> i]).bars)

-----------------------------------------------------------------------------
(* _finish: the trade of a position that ended.  A fill beyond the stop is *)
(* measured from the limit.                                                *)
Trade(position, status) ==
  [setup |-> position.setup, at |-> position.params.created, params |-> position.params, status |-> status,
   fill |-> Nothing, filled |-> Nothing, exit |-> Nothing, exited |-> Nothing, reason |-> "none",
   ambiguous |-> FALSE, entry |-> Nothing, result |-> Nothing, net |-> Nothing, risk |-> Nothing,
   mfe |-> Nothing, mae |-> Nothing]

EntryOf(p, sim) == IF P!AtLeast(p, p.stop, sim.fill) THEN p.limit ELSE sim.fill

Measured(trade, p, sim, commission) ==
  LET fill == [direction |-> IF p.side > 0 THEN "BULLISH" ELSE "BEARISH", entry |-> EntryOf(p, sim),
               stop |-> p.stop, targets |-> {p.target}, opened |-> sim.filled]
      told == [exit |-> sim.exit, exited |-> sim.exited, reason |-> sim.reason, reported |-> {}]
      seen == {fill.entry, sim.exit, sim.best, sim.worst}
      made == Outcome(fill, told, [mfe |-> Best(fill, seen), mae |-> Worst(fill, seen),
                                   source |-> "CANDLES", synthetic |-> FALSE], {})
  IN  [trade EXCEPT !.exit = sim.exit, !.exited = sim.exited, !.reason = sim.reason, !.entry = fill.entry,
                    !.result = made.result, !.net = made.pnl - 2 * commission, !.risk = made.risk,
                    !.mfe = made.mfe, !.mae = made.mae]

Finish(position, status, commission) ==
  LET sim   == position.sim
      trade == [Trade(position, status) EXCEPT !.fill = sim.fill, !.filled = sim.filled, !.ambiguous = sim.ambiguous]
  IN  IF status = "CLOSED" THEN Measured(trade, position.params, sim, commission) ELSE trade

-----------------------------------------------------------------------------
(* run_variant.                                                            *)
Fresh ==
  [cursor |-> 0, position |-> Nothing, trades |-> <<>>, plans |-> {}, reached |-> {},
   ineligible |-> 0, confirmed |-> 0, skipped |-> 0, fills |-> 0]

Costs(market, multiplier) ==
  [half |-> market.costs.half * multiplier, slip |-> market.costs.slip * multiplier,
   commission |-> market.costs.commission * multiplier]

(* advance: the bars that closed since, against the position there is.     *)
Due(run, bars, until) == {i \in (run.cursor + 1) .. Len(bars) : P!CloseOf(bars[i]) <= until}

Advance(run, bars, until, costs) ==
  LET next   == run.cursor + Cardinality(Due(run, bars, until))
      moved  == [run EXCEPT !.cursor = next]
      sim    == P!Simulate(run.position.params, run.position.sim, SubSeq(bars, run.cursor + 1, next))
      filled == run.position.sim.fill = Nothing /\ sim.fill # Nothing
      held   == [moved EXCEPT !.fills = IF filled THEN @ + 1 ELSE @, !.position.sim = sim]
  IN  IF run.position = Nothing \/ next = run.cursor THEN moved
      ELSE IF sim.status \in P!Active THEN held
      ELSE [held EXCEPT !.position = Nothing,
                        !.trades = Append(@, Finish(held.position, sim.status, costs.commission))]

(* Mutant: a plan counts whenever it is seen first.                        *)
SeenAtAll(plan, time) == plan # Nothing
(* A plan counts on the step whose candle confirmed it.                    *)
ConfirmedNow(plan, time) == plan # Nothing /\ plan.at + SetupBars = time

Consider(run, setup, time, costs) ==
  LET plan == setup.plan
      key  == <<setup.id, plan.at>>
      seen == [run EXCEPT !.reached = @ \cup {<<setup.id, setup.state>>}]
      told == [seen EXCEPT !.plans = @ \cup {key}, !.confirmed = @ + 1]
      new  == [setup |-> setup.id, params |-> P!Params(plan, time, costs), sim |-> P!NewSim]
  IN  IF ~ConfirmedNow(plan, time) \/ key \in run.plans THEN seen
      ELSE IF run.position # Nothing
        THEN [told EXCEPT !.skipped = @ + 1, !.trades = Append(@, Trade(new, "SKIPPED_OVERLAP"))]
      ELSE [told EXCEPT !.position = new]

ReplayStep(run, bars, step, costs) ==
  LET now == Advance(run, bars, step.close, costs)
  IN  IF ~step.eligible THEN [now EXCEPT !.ineligible = @ + 1]
      ELSE FoldLeft(LAMBDA r, setup : Consider(r, setup, step.close, costs), now, step.setups)

ReplayEnd(run, bars, end, costs) ==
  LET now == Advance(run, bars, end, costs)
  IN  IF now.position = Nothing THEN now
      ELSE [now EXCEPT !.position = Nothing,
                       !.trades = Append(@, Finish(now.position, "OPEN_AT_END", costs.commission))]

Funnel(run, steps) ==
  LET Ending(status) == Cardinality({i \in DOMAIN run.trades : run.trades[i].status = status})
      States == {r[2] : r \in run.reached}
  IN  [steps |-> steps, ineligible |-> run.ineligible, setups |-> Cardinality({r[1] : r \in run.reached}),
       reached |-> [s \in States |-> Cardinality({r \in run.reached : r[2] = s})],
       confirmed |-> run.confirmed, skipped |-> run.skipped, fills |-> run.fills,
       expired |-> Ending("EXPIRED"), closed |-> Ending("CLOSED"), openAtEnd |-> Ending("OPEN_AT_END")]

-----------------------------------------------------------------------------
(* trade_sample and summarize_variant.  R is net of commission.            *)
TradeSample(trade) ==
  [id |-> trade.setup, at |-> trade.exited, pnl |-> trade.net, risk |-> trade.risk,
   win |-> 100 * trade.net > BreakEvenTolerance * trade.risk,
   breakeven |-> trade.result = "BREAK_EVEN" \/ 100 * Magnitude(trade.net) <= BreakEvenTolerance * trade.risk]

(* A segment is closed on the left; the last one has the end of the range. *)
Segment(samples, from, to, scale, last, end) ==
  {s \in samples : from <= scale * s.at /\ (scale * s.at < to \/ (last /\ s.at = end))}

(* Segments are equal parts of the range, so their bounds are fractions.   *)
Segments(samples, market) ==
  LET n    == market.segments
      span == market.end - market.start
      Bound(k) == market.start * n + span * k
  IN  [k \in 1 .. n |-> Segment(samples, Bound(k - 1), Bound(k), n, k = n, market.end)]

Summary(run, market) ==
  LET closed  == {t \in Range(run.trades) : t.status = "CLOSED"}
      samples == {TradeSample(t) : t \in closed}
      early   == {s \in samples : s.at < market.outOfSample}
  IN  [funnel |-> Funnel(run, Len(market.steps)), trades |-> run.trades,
       stats |-> GroupStats(samples), drawdown |-> Drawdown(Curve(samples)),
       segments |-> [k \in 1 .. market.segments |-> GroupStats(Segments(samples, market)[k])],
       inSample |-> GroupStats(early), outOfSample |-> GroupStats(samples \ early),
       ambiguous |-> Cardinality({t \in closed : t.ambiguous})]
=============================================================================
