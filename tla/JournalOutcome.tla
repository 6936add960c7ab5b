--------------------------- MODULE JournalOutcome ---------------------------
(***************************************************************************)
(* What the journal computes (journal/engine.py): the violations it finds  *)
(* in a trade when it is logged, and the metrics of an outcome.  Prices    *)
(* are integers; R is a pair of profit and risk, tolerances are hundredths *)
(* of R, so that a comparison is one of products.                          *)
(***************************************************************************)
EXTENDS Integers, FiniteSetsExt, SequencesExt

CONSTANTS
  Nothing,            \* None
  BreakEvenTolerance, \* breakEvenToleranceR, in hundredths
  FullWinTolerance,   \* fullWinToleranceFraction
  FullLossTolerance,  \* fullLossToleranceR
  ChaseTolerance,     \* chaseToleranceR
  PostEntry,          \* postEntrySnapshotMinutes, in ticks
  MaxOpen,            \* maxOpenDays, in ticks
  Leeway              \* how far ahead of the clock a time may be: one minute

ASSUME JournalOutcomeAssumption ==
  /\ {BreakEvenTolerance, FullWinTolerance, FullLossTolerance} \subseteq 0 .. 99
  /\ {ChaseTolerance, PostEntry, MaxOpen, Leeway} \subseteq Nat

Directions == {"BULLISH", "BEARISH"}
Kinds == {"TRADE", "NO_TRADE", "MISSED_ENTRY"}
ExitStates ==
  [MANUAL |-> "MANUAL_EXIT", INVALIDATION |-> "INVALIDATION_EXIT", NEWS |-> "NEWS_EXIT",
   TRAILING_STOP |-> "TRAILING_STOP_EXIT"]
ExitReasons == DOMAIN ExitStates \cup {"TARGET", "STOP", "BREAK_EVEN_STOP"}
Results == {"FULL_WIN", "PARTIAL_WIN", "BREAK_EVEN", "PARTIAL_LOSS", "FULL_LOSS"}
           \cup {ExitStates[r] : r \in DOMAIN ExitStates}
Classifications == {"VALID_WIN", "VALID_LOSS", "BAD_PROCESS_WIN", "PROCESS_ERROR"}
Detectable == {"TRADED_ON_UNAVAILABLE_DECISION", "TRADED_DURING_NEWS_BLACKOUT", "TRADED_WHILE_RISK_LOCKED",
               "NO_CONFIRMED_PLAN", "AGAINST_PLAN_DIRECTION", "CHASED_ENTRY", "NO_STOP_PLACED", "RISK_ABOVE_LIMIT"}
Violations == Detectable \cup {"MOVED_STOP", "OVERSIZED_POSITION", "EXITED_EARLY_WITHOUT_REASON", "REVENGE_TRADE", "OTHER"}

(* A trade, what an outcome reports of it, and the engine's snapshot.      *)
(* opened and exited are times; riskPct and the limit are percentages.     *)
Request(prices, times) ==
  [exit : prices, exited : times, reason : ExitReasons, mfe : prices \cup {Nothing}, mae : prices \cup {Nothing},
   reported : SUBSET Violations]

Sign(direction) == IF direction = "BULLISH" THEN 1 ELSE -1
Magnitude(x) == IF x < 0 THEN -x ELSE x
Gain(fill, price) == Sign(fill.direction) * (price - fill.entry)
(* JournalTradeFill: the stop on the losing side, targets on the other.    *)
Sides(fill) ==
  /\ fill.stop # Nothing => Gain(fill, fill.stop) < 0
  /\ \A t \in fill.targets : Gain(fill, t) > 0

(* snapshot_timing                                                         *)
Timing(kind, fill, captured) ==
  IF kind # "TRADE" THEN "NOT_APPLICABLE"
  ELSE IF captured - fill.opened > PostEntry THEN "POST_ENTRY" ELSE "PRE_ENTRY"

(* detect_violations.  An unknown plan is no plan.                         *)
Detect(fill, snap) ==
  LET If(condition, violation) == IF condition THEN {violation} ELSE {}
      plan == snap.plan
  IN  If(snap.verdict = "UNAVAILABLE", "TRADED_ON_UNAVAILABLE_DECISION")
      \cup If(snap.news = "BLACKOUT", "TRADED_DURING_NEWS_BLACKOUT")
      \cup If(snap.risk = "LOCKED", "TRADED_WHILE_RISK_LOCKED")
      \cup (IF plan = Nothing THEN {"NO_CONFIRMED_PLAN"}
            ELSE IF plan.direction # fill.direction THEN {"AGAINST_PLAN_DIRECTION"}
            ELSE If(-100 * Gain(fill, plan.entry) > ChaseTolerance * plan.risk, "CHASED_ENTRY"))
      \cup If(fill.stop = Nothing, "NO_STOP_PLACED")
      \cup If(fill.riskPct # Nothing /\ snap.limit # Nothing /\ fill.riskPct > snap.limit, "RISK_ABOVE_LIMIT")

(* The most and the least favourable of some prices.                       *)
(* Mutant: the high is the best whatever the direction.                    *)
HighIsBest(fill, prices) == Max(prices)
Best(fill, prices)  == IF fill.direction = "BULLISH" THEN Max(prices) ELSE Min(prices)
Worst(fill, prices) == IF fill.direction = "BULLISH" THEN Min(prices) ELSE Max(prices)

(* check_outcome                                                           *)
Accepts(fill, req, now) ==
  /\ req.exited > fill.opened /\ req.exited <= now + Leeway
  /\ req.mfe # Nothing => Gain(fill, req.mfe) >= Gain(fill, Best(fill, {fill.entry, req.exit}))
  /\ req.mae # Nothing => Gain(fill, req.mae) <= Gain(fill, Worst(fill, {fill.entry, req.exit}))

-----------------------------------------------------------------------------
Unavailable == [mfe |-> Nothing, mae |-> Nothing, source |-> "UNAVAILABLE", synthetic |-> FALSE]

(* _candle_extremes: loads gives, per timeframe from the smallest, what a  *)
(* load would bring: TOO_LONG (more bars than a load may ask for), FAILS   *)
(* (it raises), WITHHELD, UNREACHED (starts after the entry), OVER (ends   *)
(* before the trade), GAP (no candle overlaps it), or COVERS a range.      *)
(* Only TOO_LONG goes on to the next one.  A trade longer than MaxOpen is  *)
(* not looked up.                                                          *)
CandleExtremes(fill, req, loads) ==
  LET tried == {i \in DOMAIN loads : loads[i].is # "TOO_LONG"}
      load  == loads[Min(tried)]
  IN  IF req.exited - fill.opened > MaxOpen \/ tried = {} \/ load.is # "COVERS" THEN Unavailable
      ELSE LET seen == {fill.entry, req.exit, load.high, load.low}
           IN  [mfe |-> Best(fill, seen), mae |-> Worst(fill, seen), source |-> "CANDLES", synthetic |-> load.synthetic]

(* _extremes: both typed in, else candles, with what was typed in instead. *)
Extremes(fill, req, loads) ==
  LET candles == CandleExtremes(fill, req, loads)
      Or(x, y) == IF x = Nothing THEN y ELSE x
  IN  IF req.mfe # Nothing /\ req.mae # Nothing
        THEN [mfe |-> req.mfe, mae |-> req.mae, source |-> "MANUAL", synthetic |-> FALSE]
      ELSE IF candles.source = "UNAVAILABLE" THEN candles
      ELSE [candles EXCEPT !.mfe = Or(req.mfe, @), !.mae = Or(req.mae, @)]

-----------------------------------------------------------------------------
(* compute_outcome.  risk is Nothing without a stop; r is then unknown.    *)
Risk(fill) == IF fill.stop = Nothing THEN Nothing ELSE Magnitude(fill.entry - fill.stop)
Pnl(fill, req) == Gain(fill, req.exit)
Planned(fill) == IF fill.targets = {} THEN Nothing ELSE Max({Gain(fill, t) : t \in fill.targets})

(* R beyond the break-even tolerance, or a profit where R is unknown.      *)
Win(fill, req) ==
  IF Risk(fill) = Nothing THEN Pnl(fill, req) > 0 ELSE 100 * Pnl(fill, req) > BreakEvenTolerance * Risk(fill)

Result(fill, req) ==
  LET risk == Risk(fill)
      pnl  == Pnl(fill, req)
  IN  IF req.reason \in DOMAIN ExitStates THEN ExitStates[req.reason]
      ELSE IF risk = Nothing
        THEN IF pnl > 0 THEN "PARTIAL_WIN" ELSE IF pnl < 0 THEN "PARTIAL_LOSS" ELSE "BREAK_EVEN"
      ELSE IF 100 * Magnitude(pnl) <= BreakEvenTolerance * risk THEN "BREAK_EVEN"
      ELSE IF pnl > 0
        THEN IF Planned(fill) # Nothing /\ 100 * pnl >= Planned(fill) * (100 - FullWinTolerance) THEN "FULL_WIN" ELSE "PARTIAL_WIN"
      ELSE IF 100 * pnl <= (FullLossTolerance - 100) * risk THEN "FULL_LOSS" ELSE "PARTIAL_LOSS"

Classification(win, violations) ==
  IF win THEN IF violations = {} THEN "VALID_WIN" ELSE "BAD_PROCESS_WIN"
  ELSE IF violations = {} THEN "VALID_LOSS" ELSE "PROCESS_ERROR"

(* The record of an outcome.  The efficiencies, and R of the extremes, are *)
(* kept as the gains they are quotients of.                                *)
Outcome(fill, req, extremes, detected) ==
  LET GainAt(p) == IF p = Nothing THEN Nothing ELSE Gain(fill, p)
      violations == detected \cup req.reported
  IN  [exited |-> req.exited, reason |-> req.reason, pnl |-> Pnl(fill, req), risk |-> Risk(fill),
       mfe |-> GainAt(extremes.mfe), mae |-> GainAt(extremes.mae),
       source |-> extremes.source, synthetic |-> extremes.synthetic,
       duration |-> req.exited - fill.opened,
       result |-> Result(fill, req), violations |-> violations,
       classification |-> Classification(Win(fill, req), violations)]
=============================================================================
