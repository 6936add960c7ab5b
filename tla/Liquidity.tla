------------------------------ MODULE Liquidity -----------------------------
(***************************************************************************)
(* Liquidity pools of one series and the draw on liquidity                 *)
(* (liquidity/engine.py, scoring.py).  Candle i opens at time i - 1 and    *)
(* closes at time i; what is known at time t is active from candle t + 1,  *)
(* and after the last candle it is active but not evaluated.  A pool above *)
(* the market is BULLISH (BSL), one below BEARISH (SSL); its price is      *)
(* taken along that direction, so that a candle beyond it reaches further. *)
(***************************************************************************)
EXTENDS Swings

CONSTANTS
  PoolTouch, PoolEqual, MinApart, FailureWindow, AcceptanceWindow, RunExtension,
  TypePoints, ClusterPoints, ClusterMost, TouchPoints, NearPoints, NearZero, StackTolerance,
  StackPoints, StackMost, TrendPoints, Margins, DistinctPrice

ASSUME LiquidityAssumption ==
  {PoolTouch, PoolEqual, MinApart, FailureWindow, AcceptanceWindow, RunExtension} \subseteq Nat

Pool(id, type, side, scope, price, at, known, members) ==
  [id |-> id, type |-> type, side |-> side, scope |-> scope, price |-> price, at |-> at, known |-> known,
   members |-> members, state |-> "FRESH", touches |-> 0, inTouch |-> FALSE, since |-> 0, extreme |-> 0,
   atr |-> [sum |-> 0, bars |-> 0], best |-> 0]

Untaken(p) == p.state \in {"FRESH", "TOUCHED"}
SwingPool(w) == Pool(<<"SWING", w.kind, w.at>>, "SWING", w.kind, "INTERNAL", w.price, w.at, w.confirmed, {})
LevelPool(l) == Pool(<<l.type, l.side, l.period>>, l.type, l.side, "EXTERNAL", Along(l.side, l.price), 0, l.known, {})

(* The pools of candle i in the order of the code: highs, lows, levels.    *)
KnownBy(swings, kind, i) == {w \in swings : w.kind = kind /\ w.confirmed + 1 = i}
One(swings) == IF swings = {} THEN <<>> ELSE <<SwingPool(CHOOSE w \in swings : TRUE)>>
FromLevels(levels, i) ==
  LET due == SelectSeq(levels, LAMBDA l : Max({l.known, 0}) + 1 = i)
  IN  [j \in DOMAIN due |-> LevelPool(due[j])]

(***************************************************************************)
(* Equal highs and lows.                                                   *)
(***************************************************************************)
Matches(active, new, atr) ==
  {p \in ToSet(active) :
     /\ p.id # new.id /\ p.type = "SWING" /\ p.side = new.side /\ Untaken(p)
     /\ AtMost(IF p.price > new.price THEN p.price - new.price ELSE new.price - p.price, PoolEqual, atr)
     /\ (IF new.at > p.at THEN new.at - p.at ELSE p.at - new.at) >= MinApart}

Outermost(pools) == Max({p.price : p \in pools})
(* Mutant: a cluster stands at the swing that joined it last.              *)
JoinedAnyhow(e, new) == new.price
Joined(e, new) == Max({e.price, new.price})

WidestScope(pools) == IF \E p \in pools : p.scope = "EXTERNAL" THEN "EXTERNAL" ELSE "INTERNAL"

(* A new swing joins the first untaken cluster one of its matches is in,   *)
(* or makes one of its matches.                                            *)
Cluster(active, new, atr, i) ==
  LET matches == Matches(active, new, atr)
      all     == matches \cup {new}
      open(e) == e.type = "EQUAL" /\ e.side = new.side /\ Untaken(e) /\ \E m \in matches : m.id \in e.members
      first   == SelectInSeq(active, open)
  IN  CASE matches = {} -> active
        [] matches # {} /\ first # 0 ->
             [active EXCEPT ![first].members = @ \cup {new.id},
                            ![first].price = Joined(active[first], new),
                            ![first].scope = WidestScope({active[first], new})]
        [] OTHER ->
             Append(active, Pool(<<"EQUAL", new.side, Min({p.at : p \in all}), i>>, "EQUAL", new.side,
                                 WidestScope(all), Outermost(all), 0, i - 1, {p.id : p \in all}))

(* A swing's pool, and the clusters it is in, become external with the     *)
(* confirmation of the external pivot.                                     *)
Upgrade(active, external, i) ==
  LET ids == {SwingPool(w).id : w \in {v \in external : v.confirmed + 1 = i}}
  IN  [k \in DOMAIN active |->
         IF active[k].id \in ids \/ active[k].members \cap ids # {}
         THEN [active[k] EXCEPT !.scope = "EXTERNAL"] ELSE active[k]]

Activate(active, s, internal, external, levels, i) ==
  LET atr == AtrAt(s, Max({i - 1, 1}))
      swingPools == One(KnownBy(internal, "BULLISH", i)) \o One(KnownBy(internal, "BEARISH", i))
  IN  FoldLeft(LAMBDA pools, p : Cluster(Append(pools, p), p, atr, i),
               Upgrade(active, external, i), swingPools)
      \o FromLevels(levels, i)

(***************************************************************************)
(* A pool meets a candle.                                                  *)
(***************************************************************************)
Becomes(p, type, state, i) == [pool |-> [p EXCEPT !.state = state], events |-> <<[pool |-> p.id, type |-> type, at |-> i]>>]
Stays(p) == [pool |-> p, events |-> <<>>]

MeetUntaken(p, c, i, atr) ==
  LET reach == Reach(p.side, c)
      close == Along(p.side, c.close)
      out   == [p EXCEPT !.inTouch = FALSE]
  IN  CASE reach > p.price /\ close <= p.price ->
             Becomes([out EXCEPT !.since = i, !.extreme = reach], "SWEEP", "SWEPT", i)
        [] reach > p.price /\ close > p.price ->
             Becomes([out EXCEPT !.since = i, !.atr = atr, !.best = close], "BREAK", "BROKEN", i)
        [] reach <= p.price /\ AtMost(p.price - reach, PoolTouch, atr) ->
             IF p.inTouch THEN Stays(p)
             ELSE Becomes([p EXCEPT !.inTouch = TRUE, !.touches = @ + 1], "TOUCH", "TOUCHED", i)
        [] OTHER -> Stays(out)

MeetBroken(p, c, i) ==
  LET close == Along(p.side, c.close)
      now   == [p EXCEPT !.best = Max({@, close})]
  IN  CASE close <= p.price -> Becomes(now, "RECLAIM", "RECLAIMED", i)
        [] close > p.price /\ AtLeast(now.best - p.price, RunExtension, p.atr) -> Becomes(now, "RUN", "RUN", i)
        [] OTHER -> Stays(now)

Meet(p, c, i, atr) ==
  CASE Untaken(p) -> MeetUntaken(p, c, i, atr)
    [] p.state = "SWEPT" /\ i - p.since <= FailureWindow /\ Along(p.side, c.close) > p.extreme ->
         Becomes(p, "SWEEP_FAILED", "RUN", i)
    [] p.state = "BROKEN" /\ i - p.since \in 1 .. AcceptanceWindow -> MeetBroken(p, c, i)
    [] OTHER -> Stays(p)

LiquidityStep(all, s, internal, external, levels, i) ==
  LET active == Activate(all.pools, s, internal, external, levels, i)
      atr    == AtrAt(s, i)
      met    == [k \in DOMAIN active |-> Meet(active[k], s[i], i, atr)]
  IN  [pools  |-> [k \in DOMAIN met |-> met[k].pool],
       events |-> all.events \o FlattenSeq([k \in DOMAIN met |-> met[k].events])]

AnalyzeLiquidity(s, internal, external, levels) ==
  LET all == FoldLeftDomain(LAMBDA pools, i : LiquidityStep(pools, s, internal, external, levels, i),
                            [pools |-> <<>>, events |-> <<>>], s)
  IN  [all EXCEPT !.pools = Activate(@, s, internal, external, levels, Len(s) + 1)]

(***************************************************************************)
(* The draw on liquidity: scores in tenths of a point, and the untaken     *)
(* pool that leads them.  Equal pools: whichever.                          *)
(***************************************************************************)
Least(a, b) == IF a < b THEN a ELSE b
PriceOf(p) == Along(p.side, p.price)
Apart(a, b) == IF a > b THEN a - b ELSE b - a

TypeKey(p) ==
  CASE p.type = "SWING" -> IF p.scope = "EXTERNAL" THEN "EXTERNAL_SWING" ELSE "INTERNAL_SWING"
    [] OTHER -> p.type

Tenths(num, den) == (2 * 10 * num + den) \div (2 * den)

Magnet(p, untaken, close, atr, trend) ==
  LET stacked  == {o \in untaken : o.id # p.id /\ AtMost(Apart(PriceOf(o), PriceOf(p)), StackTolerance, atr)}
      distance == Apart(PriceOf(p), close) * atr.bars
      zero     == NearZero * atr.sum
      members  == Max({Cardinality(p.members) - 1, 0})
  IN  Least(1000,
        10 * (TypePoints[TypeKey(p)]
              + Least(ClusterMost, ClusterPoints * members + TouchPoints * p.touches)
              + Least(StackMost, StackPoints * Cardinality(stacked))
              + (IF p.side = trend THEN TrendPoints ELSE 0))
        + Tenths(NearPoints * Max({0, zero - distance}), zero))

Significance(type) ==
  CASE type = "WEEK" -> 3 [] type = "DAY" -> 2 [] type = "SESSION" -> 1 [] OTHER -> 0

CounterTrend(p, trend) == p.scope = "EXTERNAL" /\ trend = Against(p.side)

Leads(a, b) ==
  \/ a.score > b.score
  \/ a.score = b.score /\ Significance(a.pool.type) > Significance(b.pool.type)
  \/ a.score = b.score /\ Significance(a.pool.type) = Significance(b.pool.type) /\ a.distance <= b.distance

Leader(candidates) == CHOOSE a \in candidates : \A b \in candidates : Leads(a, b)

Confidence(margin) ==
  CASE margin >= 10 * Margins.high -> "HIGH"
    [] margin < 10 * Margins.high /\ margin >= 10 * Margins.moderate -> "MODERATE"
    [] margin < 10 * Margins.moderate /\ margin >= 10 * Margins.low -> "LOW"
    [] OTHER -> "UNCLEAR"

NoDraw == [primary |-> {}, secondary |-> {}, confidence |-> "UNCLEAR"]

SelectDol(pools, close, atr, trend) ==
  LET untaken    == {p \in ToSet(pools) : Untaken(p)}
      scored     == {[pool |-> p, score |-> Magnet(p, untaken, close, atr, trend),
                      distance |-> Apart(PriceOf(p), close)] : p \in untaken}
      candidates == {x \in scored : ~CounterTrend(x.pool, trend)}
      primary    == Leader(candidates)
      distinct   == {x \in candidates : ~AtMost(Apart(PriceOf(x.pool), PriceOf(primary.pool)), DistinctPrice, atr)}
      opposite   == {x \in candidates : x.pool.side # primary.pool.side}
      margin     == primary.score - (IF opposite = {} THEN 0 ELSE Leader(opposite).score)
  IN  IF atr.sum = 0 \/ candidates = {} THEN NoDraw
      ELSE [primary |-> {primary.pool}, secondary |-> IF distinct = {} THEN {} ELSE {Leader(distinct).pool},
            confidence |-> Confidence(margin)]
=============================================================================
