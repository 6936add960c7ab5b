--------------------------- MODULE MarketPipeline ---------------------------
(***************************************************************************)
(* One analysis of a series: structure, then liquidity, then displacement  *)
(* and PD arrays, then no-wick candles (analysis/pipeline.py), and the     *)
(* reversals drawn from several timeframes (reversal/service.py).  A stage *)
(* that fails withholds its own result and leaves its mark on what would   *)
(* have used it; a result that is withheld is a set with nothing in it.    *)
(***************************************************************************)
EXTENDS Structure, Reversal, Sessions

CONSTANTS InternalPivot, ExternalPivot, QualifierLookback, LegLookback, QualifierGrade, Frames

ASSUME PipelineAssumption ==
  /\ {InternalPivot, ExternalPivot} \subseteq Nat \ {0} /\ {QualifierLookback, LegLookback} \subseteq Nat
  /\ QualifierGrade \in DOMAIN GradeAtr
  /\ \A f \in Frames : f.bars \in Nat \ {0} /\ f.always \in BOOLEAN

(***************************************************************************)
(* What is wrong with the data, and with the stages, of one analysis.      *)
(***************************************************************************)
StructureTypes == {"BOS", "CHOCH", "MSS"}
Scopes == {"INTERNAL", "EXTERNAL"}
PoolStates == {"FRESH", "TOUCHED", "SWEPT", "BROKEN", "RECLAIMED", "RUN"}
ZoneTypes == {"FVG", "IFVG", "REVERSAL_FVG"}
ZoneStates == {"FRESH", "TOUCHED", "PARTIAL", "HALF", "FULL", "INVALIDATED"}
BodyZoneStates == ActiveZone \cup TerminalZone \cup {"FULLY_REBALANCED", "FAILED"}
ReversalStates ==
  {"DISCOVERED", "REBALANCE_WATCH", "REBALANCE_TOUCH", "REACTION", "CONFIRMATION", "SETUP_ARMED",
   "ENTRY_ZONE_TOUCHED", "BLOCKED", "EXPIRED", "INVALIDATED", "ENTRY_MISSED"}

Stages == {"LIQUIDITY", "PD_ARRAY", "NO_WICK"}
Unusable == {"INVALID", "DISCONNECTED"}
Fine == [quality |-> "GOOD", synthetic |-> FALSE, days |-> TRUE, sessions |-> TRUE, failing |-> {}]

DataReasons(weather, n) ==
  (IF weather.synthetic THEN {"DATA_SYNTHETIC"} ELSE {})
  \cup (IF weather.quality \in Unusable \cup {"STALE"} THEN {weather.quality} ELSE {})
  \cup (IF n < MinCandles THEN {"INSUFFICIENT_CANDLES"} ELSE {})

FailedReasons(stage, weather) == IF stage \in weather.failing THEN {stage} ELSE {}
LevelReasons(weather) ==
  (IF weather.days THEN {} ELSE {"KEY_LEVELS_UNAVAILABLE"})
  \cup (IF weather.sessions THEN {} ELSE {"SESSION_LEVELS_UNAVAILABLE"})

(***************************************************************************)
(* Qualifiers of a break: liquidity of the other side taken shortly before *)
(* it, and a displacement in its direction.                                *)
(***************************************************************************)
Presence(found) == IF found THEN "PRESENT" ELSE "ABSENT"

LiquidityQualifier(event, taken) ==
  Presence(\E t \in ToSet(taken) : /\ t.type \in {"SWEEP", "RECLAIM"} /\ t.pool[2] = Against(event.direction)
                                   /\ t.at \in event.at - QualifierLookback .. event.at)

DisplacementQualifier(event, displacements) ==
  Presence(Strongest(displacements, event.direction, event.at - LegLookback .. event.at) >= QualifierGrade)

Qualify(level, taken, legs) ==
  [level EXCEPT !.events =
     [k \in DOMAIN @ |->
        [event |-> @[k],
         liquidity |-> IF taken = {} THEN "NOT_EVALUATED" ELSE LiquidityQualifier(@[k], CHOOSE t \in taken : TRUE),
         displacement |-> IF legs = {} THEN "NOT_EVALUATED" ELSE DisplacementQualifier(@[k], CHOOSE d \in legs : TRUE)]]]

(***************************************************************************)
(* The pipeline.                                                           *)
(***************************************************************************)
LevelsOf(feed, weather) ==
  (IF weather.days THEN KeyLevels(feed) ELSE <<>>)
  \o (IF weather.sessions THEN SessionLevels(feed, Instances(feed)) ELSE <<>>)

Qualities_(s, feed) == LET slots == SelectSeq([t \in DOMAIN feed |-> t], LAMBDA t : feed[t] # <<>>)
                       IN  [k \in DOMAIN slots |-> QualityAt(slots[k] - 1)]

LiquidityStage(s, feed, weather, structure) ==
  IF "LIQUIDITY" \in weather.failing \/ structure = {} THEN {}
  ELSE {AnalyzeLiquidity(s, DetectSwings(s, InternalPivot), DetectSwings(s, ExternalPivot), LevelsOf(feed, weather))}

(* Mutant: the first failure ends the analysis.                            *)
PdAfterLiquidity(s, weather, structure) ==
  IF weather.failing \cap {"LIQUIDITY", "PD_ARRAY"} # {} \/ structure = {} THEN {} ELSE {PdArraysOf(s)}

PdStage(s, weather, structure) ==
  IF "PD_ARRAY" \in weather.failing \/ structure = {} THEN {} ELSE {PdArraysOf(s)}

NoWickStage(s, feed, weather, structure, liquidity, pd) ==
  IF "NO_WICK" \in weather.failing \/ structure = {} THEN {}
  ELSE {AnalyzeNoWick(s, [structure |-> {[internal |-> st.internal.events, external |-> st.external.events] : st \in structure},
                          liquidity |-> {l.events : l \in liquidity}, pd |-> pd,
                          session |-> {Qualities_(s, feed)}])}

Draw(s, pools, trend) == SelectDol(pools, s[Len(s)].close, AtrAt(s, Len(s)), trend)

Assemble(s, weather, structure, liquidity, pd, noWick) ==
  LET base  == DataReasons(weather, Len(s))
      taken == {l.events : l \in liquidity}
      legs  == {p.displacements : p \in pd}
  IN  [structure |-> {[internal |-> Qualify(st.internal, taken, legs), external |-> Qualify(st.external, taken, legs)] :
                        st \in structure},
       liquidity |-> liquidity, pd |-> pd, noWick |-> noWick,
       draw |-> {Draw(s, l.pools, st.external.trend) : <<l, st>> \in liquidity \X structure},
       reasons |-> [structure |-> base,
                    liquidity |-> base \cup LevelReasons(weather) \cup (IF structure = {} THEN {} ELSE FailedReasons("LIQUIDITY", weather)),
                    pd |-> base \cup (IF structure = {} THEN {} ELSE FailedReasons("PD_ARRAY", weather)),
                    noWick |-> base \cup (IF structure = {} THEN {} ELSE FailedReasons("NO_WICK", weather))]]

StructureStage(s, weather) ==
  IF weather.quality \in Unusable \/ s = <<>> THEN {}
  ELSE {[internal |-> AnalyzeLevel(s, InternalPivot), external |-> AnalyzeLevel(s, ExternalPivot)]}

RunFrom(s, feed, weather, structure, liquidity, pd) ==
  Assemble(s, weather, structure, liquidity, pd, NoWickStage(s, feed, weather, structure, liquidity, pd))

RunStages(s, feed, weather, structure) ==
  RunFrom(s, feed, weather, structure, LiquidityStage(s, feed, weather, structure), PdStage(s, weather, structure))

RunPipeline(feed, weather) ==
  RunStages(ClosedOf(feed), feed, weather, StructureStage(ClosedOf(feed), weather))

(***************************************************************************)
(* Reversals.  A higher candle is the slots of its frame.                  *)
(***************************************************************************)
Merge(feed, slots) ==
  [open |-> feed[Min(slots)][1].open, close |-> feed[Max(slots)][1].close,
   high |-> HighOf(feed, slots), low |-> LowOf(feed, slots)]

Higher(feed, frame) ==
  [g \in 1 .. AsOf(feed) \div frame.bars |-> Merge(feed, Inside(feed, (g - 1) * frame.bars, g * frame.bars))]

HtfBias(states) ==
  CASE "UNCLEAR" \in states -> "UNCLEAR"
    [] states \in {{"BULLISH"}, {"BEARISH"}} -> CHOOSE state \in states : TRUE
    [] states \notin {{"BULLISH"}, {"BEARISH"}} /\ "UNCLEAR" \notin states /\ "TRANSITIONING" \in states -> "TRANSITIONING"
    [] OTHER -> IF states = {"RANGING"} THEN "RANGING" ELSE "MIXED"

OriginsOf(feed, weather, frame, s) ==
  LET displacements == Displacements(s)
      pd == [imrs |-> DetectImrs(s, displacements)]
  IN  IF s = <<>> \/ DataReasons(weather, Len(s)) # {} THEN {}
      ELSE BuildOrigins(AnalyzeNoWick(s, NoSource), pd, frame, [g \in DOMAIN s |-> IndexAt(feed, g * frame.bars)])

FrameState(s) == State(AnalyzeLevel(s, ExternalPivot), Len(s))

BiasOf(feed, weather, frames) ==
  IF \E f \in frames : DataReasons(weather, Len(Higher(feed, f))) # {} THEN "UNKNOWN"
  ELSE HtfBias({FrameState(Higher(feed, f)) : f \in frames})

NoPdArrays == [displacements |-> <<>>, zones |-> <<>>, events |-> <<>>, imrs |-> {}]

(* Displacements of an ineligible analysis are left out; its zones are not.*)
Reversals(feed, weather, s, result) ==
  LET pd    == CHOOSE p \in (IF result.pd = {} THEN {NoPdArrays} ELSE result.pd) : TRUE
      pools == UNION {ToSet(l.pools) : l \in result.liquidity}
  IN  AnalyzeReversals(UNION {OriginsOf(feed, weather, f, Higher(feed, f)) : f \in Frames}, s, BiasOf(feed, weather, Frames),
                       IF result.reasons.pd = {} THEN pd ELSE [pd EXCEPT !.displacements = <<>>],
                       pools)
=============================================================================
