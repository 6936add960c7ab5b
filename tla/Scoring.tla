------------------------------- MODULE Scoring ------------------------------
(***************************************************************************)
(* The score of an open setup (services/scoring/engine.py), in tenths of a *)
(* point.  Evidence is what the evaluation looks at:                       *)
(*   side       LONG or SHORT,                                             *)
(*   htf, dol   the sides the bias and the primary pool of the decision    *)
(*              speak for, OTHER for neither,                              *)
(*   target, event, zones, touched, same, opposite   what the setup and    *)
(*              the no-wick candles since its sweep show,                  *)
(*   break, displaced   the confirmation break,                            *)
(*   time, exhausted    the session clock and the day's range,             *)
(*   plan, rr, locked   the entry plan, whether it pays, the risk gate,    *)
(*   macro      MacroBias' assessment, or Nothing.                         *)
(***************************************************************************)
EXTENDS Integers, Sequences, FiniteSetsExt

CONSTANTS
  Nothing,
  Weight,              \* by factor, as in scoring.json; so are the others
  Points, SessionPoints, MacroPoints,
  ConflictPoints,
  CorrelatedEvidence, CounterTrend,
  Floors,              \* of the grades A+, A, B, C
  ModerateFrom, HighFrom, VeryHighFrom, DowngradeFrom,
  Cap                  \* capWhileGatesMissing, a place in CONFIDENCE_ORDER

Factors == {"HTF", "LIQUIDITY", "STRUCTURE", "DISPLACEMENT", "PD_ARRAY", "NO_WICK",
            "SESSION", "MACRO", "ENTRY", "RISK_RR"}

ASSUME ScoringAssumption ==
  DOMAIN Weight = Factors /\ MapThenSumSet(LAMBDA f : Weight[f], Factors) = 1000

(* The evidence there may be, before macro is asked.                       *)
EvidenceOf ==
  [side : {"LONG", "SHORT"}, htf : {"LONG", "SHORT", "OTHER"}, dol : {"LONG", "SHORT", "OTHER"},
   target : BOOLEAN, event : BOOLEAN, zones : BOOLEAN, touched : BOOLEAN, same : BOOLEAN, opposite : BOOLEAN,
   break : {Nothing, "CHOCH", "MSS"}, displaced : BOOLEAN,
   time : {Nothing, "IDEAL", "ACCEPTABLE", "LOW_QUALITY", "AVOID"}, exhausted : BOOLEAN,
   plan : {Nothing, "RESEARCH", "CONFIRMED"}, rr : BOOLEAN, locked : BOOLEAN, macro : {Nothing}]

MacroStates == {"STRONG_CONFLICT", "CONFLICT", "NEUTRAL", "SUPPORTIVE", "STRONGLY_SUPPORTIVE"}

(* What the shipped scoring.json adds: no worse value is worth more, and   *)
(* the adjustment for correlated evidence takes no more than was given.    *)
ASSUME PointsAssumption ==
  /\ Nothing \notin {"CHOCH", "MSS", "IDEAL", "ACCEPTABLE", "LOW_QUALITY", "AVOID", "RESEARCH", "CONFIRMED"} \cup MacroStates
  /\ Weight \in [Factors -> Nat]
  /\ \A p \in {"htfAligned", "htfSetupBiasOnly", "dolTarget", "liquidityEvent", "mss", "choch", "displacement",
               "legZone", "zoneTouched", "noWick", "entryConfirmed", "entryResearchOnly", "rrMet"} : Points[p] \in Nat
  /\ Points.htfSetupBiasOnly <= Points.htfAligned /\ Points.choch <= Points.mss
  /\ Points.entryResearchOnly <= Points.entryConfirmed
  /\ SessionPoints \in [{"IDEAL", "ACCEPTABLE", "LOW_QUALITY", "AVOID"} -> Nat]
  /\ SessionPoints.AVOID <= SessionPoints.LOW_QUALITY /\ SessionPoints.LOW_QUALITY <= SessionPoints.ACCEPTABLE
  /\ SessionPoints.ACCEPTABLE <= SessionPoints.IDEAL
  /\ MacroPoints \in [MacroStates -> Nat]
  /\ MacroPoints.STRONG_CONFLICT <= MacroPoints.CONFLICT /\ MacroPoints.CONFLICT <= MacroPoints.NEUTRAL
  /\ MacroPoints.NEUTRAL <= MacroPoints.SUPPORTIVE /\ MacroPoints.SUPPORTIVE <= MacroPoints.STRONGLY_SUPPORTIVE
  /\ \A p \in {"htfOpposite", "dolOpposite", "timeAvoid", "timeLowQuality", "oppositeNoWick", "adrExhausted",
               "macroConflict", "macroStrongConflict"} : ConflictPoints[p] \in Nat
  /\ ConflictPoints.timeLowQuality <= ConflictPoints.timeAvoid
  /\ ConflictPoints.macroConflict <= ConflictPoints.macroStrongConflict
  /\ CorrelatedEvidence \in Int /\ CounterTrend \in Int /\ CounterTrend <= 0
  /\ Points.displacement + CorrelatedEvidence >= 0 /\ Weight["DISPLACEMENT"] + CorrelatedEvidence >= 0
  /\ Floors \in Seq(Int) /\ {ModerateFrom, HighFrom, VeryHighFrom, DowngradeFrom} \subseteq Int /\ Cap \in 0 .. 3

(* _macro_state: only an assessment of this side, of real data, counts.    *)
MacroState(e) ==
  IF e.macro = Nothing \/ ~e.macro.available \/ e.macro.synthetic \/ e.macro.side # e.side
  THEN Nothing ELSE e.macro.state

Against(e) == IF e.side = "LONG" THEN "SHORT" ELSE "LONG"

When(condition, points) == IF condition THEN points ELSE 0

Earned(e) == [f \in Factors |->
  CASE f = "HTF" -> IF e.htf = e.side THEN Points.htfAligned ELSE When(e.htf # Against(e), Points.htfSetupBiasOnly)
    [] f = "LIQUIDITY" -> When(e.target, Points.dolTarget) + When(e.event, Points.liquidityEvent)
    [] f = "STRUCTURE" -> When(e.break = "MSS", Points.mss) + When(e.break = "CHOCH", Points.choch)
    [] f = "DISPLACEMENT" -> When(e.displaced, Points.displacement)
    [] f = "PD_ARRAY" -> When(e.zones, Points.legZone) + When(e.touched, Points.zoneTouched)
    [] f = "NO_WICK" -> When(e.same, Points.noWick)
    [] f = "SESSION" -> IF e.time = Nothing THEN 0 ELSE SessionPoints[e.time]
    [] f = "MACRO" -> IF MacroState(e) = Nothing THEN 0 ELSE MacroPoints[MacroState(e)]
    [] f = "ENTRY" -> When(e.plan = "RESEARCH", Points.entryResearchOnly)
                        + When(e.plan = "CONFIRMED", Points.entryConfirmed)
    [] f = "RISK_RR" -> When(e.plan # Nothing /\ e.rr /\ ~e.locked, Points.rrMet)]

NotEvaluated(e) ==
  {f \in {"SESSION", "MACRO"} : IF f = "SESSION" THEN e.time = Nothing ELSE MacroState(e) = Nothing}

(* The displacement is the break's own qualifier; a setup against the bias *)
(* of the decision loses points beyond those it does not get.              *)
Adjustment(e) == When(e.displaced, CorrelatedEvidence) + When(e.htf = Against(e), CounterTrend)

Between(low, x, high) == Max({low, Min({x, high})})

Score(e) ==
  Between(0, MapThenSumSet(LAMBDA f : Min({Earned(e)[f], Weight[f]}), Factors) + Adjustment(e), 1000)

EvaluatedMax(e) == MapThenSumSet(LAMBDA f : Weight[f], Factors \ NotEvaluated(e))

(* Mutant: the two macro conflicts are taken for each other.               *)
StrongForWeak(e) ==
  When(MacroState(e) = "CONFLICT", ConflictPoints.macroStrongConflict)
    + When(MacroState(e) = "STRONG_CONFLICT", ConflictPoints.macroConflict)

MacroConflict(e) ==
  When(MacroState(e) = "STRONG_CONFLICT", ConflictPoints.macroStrongConflict)
    + When(MacroState(e) = "CONFLICT", ConflictPoints.macroConflict)

Conflict(e) ==
  Min({1000, When(e.htf = Against(e), ConflictPoints.htfOpposite)
               + When(e.dol = Against(e), ConflictPoints.dolOpposite)
               + When(e.time = "AVOID", ConflictPoints.timeAvoid)
               + When(e.time = "LOW_QUALITY", ConflictPoints.timeLowQuality)
               + When(e.opposite, ConflictPoints.oppositeNoWick)
               + When(e.exhausted, ConflictPoints.adrExhausted)
               + MacroConflict(e)})

(* grade_for: 4 for A+ down to 0 for D.                                    *)
Grade(score) == Cardinality({i \in DOMAIN Floors : score >= Floors[i]})

(* confidence_for, as a place in CONFIDENCE_ORDER, LOW being 0.            *)
Confidence(score, conflict) ==
  LET level == When(score >= ModerateFrom, 1) + When(score >= HighFrom, 1) + When(score >= VeryHighFrom, 1)
      told  == IF conflict >= DowngradeFrom THEN Max({0, level - 1}) ELSE level
  IN  Min({told, Cap})

Scored(e) ==
  LET score    == Score(e)
      conflict == Conflict(e)
  IN  [score |-> score, evaluatedMax |-> EvaluatedMax(e), grade |-> Grade(score),
       conflict |-> conflict, confidence |-> Confidence(score, conflict)]

(* _empty: no score, and the least confidence.                             *)
NotScored == [score |-> Nothing, evaluatedMax |-> Nothing, grade |-> Nothing, conflict |-> 0, confidence |-> 0]
=============================================================================
