--------------------------- MODULE DecisionProofs ---------------------------
(***************************************************************************)
(* The Master Decision, what it is scored by, and the risk gate it asks.   *)
(*                                                                         *)
(* For every calendar, window and configuration no stage, and no failure   *)
(* of one, gives a verdict that authority, data, risk or news forbid.  For *)
(* all points, weights and thresholds that are ordered as the shipped ones *)
(* a score never rewards worse evidence, and macro says the same to both   *)
(* sides.  For every account, every set of limits and every number of days *)
(* the limits of the risk gate hold; its invariant says how far the file   *)
(* may lag behind the account: a result that is not recorded can only make *)
(* the gate stricter.                                                      *)
(***************************************************************************)
EXTENDS EvaluationRequests, RiskGate, FiniteSetTheorems, SequenceTheorems, WellFoundedInduction, TLAPS

-----------------------------------------------------------------------------
(* A calendar that is accepted covers the windows.                         *)

\* An event matters while it is not CLEAR.
Matters(e, t) == Severity(e, t) > 0

Statuses == {"SCHEDULED", "RELEASED", "DELAYED", "CANCELLED"}

\* An event that matters is at most a lookback ago and a lookahead away.
LEMMA WindowsAreNear ==
    ASSUME NEW at \in Int, NEW i \in Gated, NEW t \in Int, NEW status \in Statuses,
           Matters([time |-> t, importance |-> i, status |-> status], at)
    PROVE  at - LookBack(i) <= t /\ t <= at + Lookahead
<1> DEFINE e == [time |-> t, importance |-> i, status |-> status]
<1>1. /\ Before[i] \in Nat /\ After[i] \in Nat /\ PostWait[i] \in Nat /\ Lead[i] \in Nat
      /\ DelayedMax \in Nat /\ Normalized \in Nat /\ Lookahead \in Nat
      /\ Lead[i] <= Lookahead /\ Before[i] <= Lookahead
  BY NewsAssumption, NewsSpecAssumption
<1>2. \/ InBlackout(e, at) \/ InPostWait(e, at) \/ InCaution(e, at)
      \/ InNormalized(e, at)
  BY DEF Matters, Severity
<1>3. e.time = t /\ e.importance = i
  OBVIOUS
<1>4. \/ BlackoutEnd(e) = t + DelayedMax \/ BlackoutEnd(e) = t + After[i]
  BY <1>3 DEF BlackoutEnd
<1> HIDE DEF e
<1>5. CASE InBlackout(e, at)
  BY <1>1, <1>3, <1>4, <1>5 DEF InBlackout, LookBack
<1>6. CASE InPostWait(e, at)
  BY <1>1, <1>3, <1>4, <1>6 DEF InPostWait, PostEnd, LookBack
<1>7. CASE InCaution(e, at)
  BY <1>1, <1>3, <1>7 DEF InCaution, HasBlackout, LookBack
<1>8. CASE InNormalized(e, at)
  BY <1>1, <1>3, <1>4, <1>8 DEF InNormalized, PostEnd, LookBack
<1> QED BY <1>2, <1>5, <1>6, <1>7, <1>8

\* The most severe state is at least every event's and is one of them.
IsWorst(events, t, k) ==
    /\ k = 0 \/ \E e \in events : Severity(e, t) = k
    /\ \A e \in events : Severity(e, t) <= k

LEMMA WorstIsWorst ==
    ASSUME NEW events, NEW t
    PROVE  Worst(events, t) \in 0 .. 4 /\ IsWorst(events, t, Worst(events, t))
<1>1. \A e \in events : Severity(e, t) \in 0 .. 4
  BY DEF Severity
<1>2. \E k \in 0 .. 4 : IsWorst(events, t, k)
  <2>1. CASE \E e \in events : Severity(e, t) = 4
    BY <1>1, <2>1 DEF IsWorst
  <2>2. CASE \A e \in events : Severity(e, t) \in 0 .. 3
    <3>1. CASE \E e \in events : Severity(e, t) = 3
      BY <2>2, <3>1 DEF IsWorst
    <3>2. CASE \A e \in events : Severity(e, t) \in 0 .. 2
      <4>1. CASE \E e \in events : Severity(e, t) = 2
        BY <3>2, <4>1 DEF IsWorst
      <4>2. CASE \A e \in events : Severity(e, t) \in 0 .. 1
        BY <4>2 DEF IsWorst
      <4> QED BY <3>2, <4>1, <4>2
    <3> QED BY <2>2, <3>1, <3>2
  <2> QED BY <1>1, <2>1, <2>2
<1>3. Worst(events, t) = CHOOSE k \in 0 .. 4 : IsWorst(events, t, k)
  BY DEF Worst, IsWorst
<1> QED BY <1>2, <1>3

\* Events that are CLEAR do not count.
LEMMA OnlyMatteringCount ==
    ASSUME NEW few, NEW many, NEW t, few \subseteq many,
           \A e \in many : Matters(e, t) => e \in few
    PROVE  Worst(few, t) = Worst(many, t)
<1>1. \A e \in many : Severity(e, t) \in 0 .. 4
  BY DEF Severity
<1>2. /\ Worst(few, t) \in 0 .. 4 /\ IsWorst(few, t, Worst(few, t))
      /\ Worst(many, t) \in 0 .. 4 /\ IsWorst(many, t, Worst(many, t))
  BY WorstIsWorst
<1>3. Worst(few, t) <= Worst(many, t)
  BY <1>2 DEF IsWorst
<1>4. Worst(many, t) <= Worst(few, t)
  BY <1>1, <1>2 DEF IsWorst, Matters
<1> QED BY <1>2, <1>3, <1>4

\* A calendar that is accepted has every event that matters.
LEMMA AcceptedIsComplete ==
    ASSUME NEW s \in Calendars, NEW t \in Times, s # NoSnapshot, ~CoverageProblem(s, t)
    PROVE  Worst(s.events, t) = Worst(World, t)
<1>1. /\ s \in Snapshot /\ t \in Int /\ World \subseteq Event
      /\ s.events = {e \in World : s.start <= e.time /\ e.time <= s.end}
  BY CalendarAssumption
<1>2. ASSUME NEW e \in World, Matters(e, t) PROVE e \in s.events
  <2>1. /\ e = [time |-> e.time, importance |-> e.importance, status |-> e.status]
        /\ e.time \in Int /\ e.status \in Statuses
    BY <1>1 DEF Event, Statuses
  <2>2. e.importance \in Gated
    BY <1>2 DEF Matters, Severity
  <2>3. t - LookBack(e.importance) <= e.time /\ e.time <= t + Lookahead
    BY <1>1, <1>2, <2>1, <2>2, WindowsAreNear
  <2>4. ~(s.end < t + Lookahead) /\ ~(s.start > t - LookBack(e.importance))
    BY <2>2 DEF CoverageProblem
  <2>5. /\ LookBack(e.importance) \in Int /\ Lookahead \in Int
        /\ s.start \in Int /\ s.end \in Int
    BY <1>1, <2>2, NewsAssumption DEF LookBack, Snapshot
  <2> QED BY <1>1, <2>1, <2>3, <2>4, <2>5
<1> QED BY <1>1, <1>2, OnlyMatteringCount

-----------------------------------------------------------------------------
(* What the stages are given.                                              *)

\* News states that forbid a trade, and those that do not.
Quiet == {"CLEAR", "NORMALIZED", "CAUTION"}

\* Blockers of their kinds do not overlap.
LEMMA KindsApart ==
    /\ UnavailableBlockers \cap (WaitBlockers \cup RiskBlockers \cup NewsBlockers) = {}
    /\ WaitBlockers \cap (RiskBlockers \cup NewsBlockers) = {}
BY DEF UnavailableBlockers, WaitBlockers, RiskBlockers, NewsBlockers

\* A calendar without a blocker is quiet; a blackout and a calendar that says
\* nothing have theirs.
LEMMA NewsIsConsistent ==
    ASSUME now \in Times, NEW news \in NewsReads
    PROVE  /\ news.state \in NewsStates /\ news.blockers \subseteq NewsBlockers
           /\ news.blockers = {} => news.state \in Quiet
           /\ news.state = "BLACKOUT" => "NEWS_BLACKOUT" \in news.blockers
           /\ news.state = "UNAVAILABLE" => "NEWS_DATA_UNAVAILABLE" \in news.blockers
           /\ news.state = "POST_NEWS_WAIT" => "NEWS_POST_WAIT" \in news.blockers
           /\ news.state # "UNAVAILABLE" => news.state = StateOf(Worst(World, now))
<1>1. PICK s \in Calendars : news = Assess(s, now)
  BY DEF NewsReads
<1> DEFINE state == IF s = NoSnapshot \/ CoverageProblem(s, now) THEN "UNAVAILABLE"
                    ELSE StateOf(Worst(s.events, now))
           fake == s.synthetic /\ state # "UNAVAILABLE"
<1>2. state \in NewsStates
  <2>1. StateOf(Worst(s.events, now)) \in NewsStates
    BY DEF StateOf, NewsStates
  <2> QED BY <2>1 DEF NewsStates
<1>5. state # "UNAVAILABLE" => state = StateOf(Worst(World, now))
  BY AcceptedIsComplete
<1>3. news = [state |-> state, blockers |-> BlockersOf(state, fake)]
  BY <1>1 DEF Assess
<1> HIDE DEF state, fake
<1>4. news.state = state /\ news.blockers = BlockersOf(state, fake)
  BY <1>3
<1> QED BY <1>2, <1>5, <1>4 DEF BlockersOf, NewsStates, NewsBlockers, Quiet

\* Risk without a blocker allows the trade.
LEMMA RiskIsConsistent ==
    ASSUME NEW risk \in RiskStatus
    PROVE  /\ BlockersOfRisk(risk) \subseteq RiskBlockers
           /\ BlockersOfRisk(risk) = {} => risk \in {"CLEAR", "WITHIN_LIMITS"}
BY DEF BlockersOfRisk, RiskStatus, RiskBlockers

LEMMA HardBlockersInclude ==
    ASSUME now \in Times, NEW run, NEW news \in NewsReads, NEW risk \in RiskStatus, NEW userSpec
    PROVE  LET hard == HardBlockers(run, news, risk, userSpec)
           IN  /\ hard \subseteq NewsBlockers \cup RiskBlockers \cup WaitBlockers
               /\ hard = {} => news.blockers = {} /\ BlockersOfRisk(risk) = {}
BY NewsIsConsistent, RiskIsConsistent DEF HardBlockers, WaitBlockers

-----------------------------------------------------------------------------
(* The invariant.                                                          *)

\* Up to the evaluation nothing but the gate and the pools has spoken, and a
\* plan that is on has been read together with the news.
StageShape ==
    /\ stage \in {"idle", "liquidity", "evaluation"} =>
         /\ ~Directional(decision) /\ decision.setup # "READY"
         /\ decision.news = "NONE" /\ decision.risk = "NOT_EVALUATED"
    /\ stage = "news" /\ Directional(decision) => decision.news # "NONE"

\* What news and risk said is among the blockers, and no stage removes it.
VetoIsTold ==
    /\ decision.news = "NONE" => decision.blockers \cap NewsBlockers = {}
    /\ decision.news \notin Quiet \cup {"NONE"} => decision.blockers # {}
    /\ decision.risk = "NOT_EVALUATED" => decision.blockers \cap RiskBlockers = {}
    /\ decision.risk \notin {"NOT_EVALUATED", "CLEAR", "WITHIN_LIMITS"}
         => decision.blockers # {}

IInv == /\ TypeOK /\ StageShape /\ VetoIsTold
        /\ AuthorityHolds /\ UnusableIsUnavailable /\ NoVetoedTrade /\ NewsIsTold
        /\ NothingOverlooked

\* The integrity check changes nothing that has authority.
LEMMA EnforcedIsSame ==
    ASSUME NEW d, Full \/ (~Directional(d) /\ d.setup # "READY")
    PROVE  Enforced(d) = d
BY DEF Enforced

LEMMA InitIsSafe == Init => IInv
BY DEF Init, IInv, TypeOK, StageShape, VetoIsTold, AuthorityHolds,
       UnusableIsUnavailable, NoVetoedTrade, NewsIsTold, NothingOverlooked, Undecided,
       Decision, Directional, Blocker, UnavailableBlockers, RiskBlockers, NewsBlockers

\* What the gate decides.
LEMMA GateIsSafe ==
    ASSUME NEW r
    PROVE  LET d == GateDecision(r)
           IN  /\ d \in Decision /\ ~Directional(d) /\ d.setup = "NOT_EVALUATED"
               /\ d.news = "NONE" /\ d.risk = "NOT_EVALUATED"
               /\ d.blockers \subseteq UnavailableBlockers \cup WaitBlockers
               /\ "SYSTEM_INTEGRITY_FAILURE" \notin d.blockers
               /\ d.verdict = "UNAVAILABLE"
                    <=> d.blockers \cap UnavailableBlockers # {}
<1> DEFINE d == GateDecision(r)
           B == GateBlockers(r)
<1>1. /\ B \subseteq UnavailableBlockers \cup WaitBlockers
      /\ "SYSTEM_INTEGRITY_FAILURE" \notin B
  BY DEF GateBlockers
<1>2. d = [verdict |-> IF B \cap UnavailableBlockers # {} THEN "UNAVAILABLE"
                       ELSE "WAIT",
           blockers |-> B, setup |-> "NOT_EVALUATED", news |-> "NONE",
           risk |-> "NOT_EVALUATED", plan |-> "NONE"]
  BY DEF GateDecision
<1> HIDE DEF B
<1>3. d \in Decision
  BY <1>1, <1>2 DEF Decision, Blocker
<1> HIDE DEF d
<1> QED BY <1>1, <1>2, <1>3 DEF d, Directional

\* What the evaluation makes of a decision without verdict.
LEMMA EvaluatedIsSafe ==
    ASSUME now \in Times, NEW d \in Decision, ~Directional(d), d.setup # "READY",
           NEW run \in Runs, NEW news \in NewsReads, NEW risk \in RiskStatus,
           NEW userSpec \in BOOLEAN
    PROVE  LET e == Evaluated(d, run, news, risk, userSpec)
           IN  /\ e \in Decision /\ e.news = news.state /\ e.risk = risk
               /\ e.blockers \cap UnavailableBlockers = d.blockers \cap UnavailableBlockers
               /\ news.blockers \cup BlockersOfRisk(risk) \subseteq e.blockers
               /\ \/ e.verdict = d.verdict /\ ~Directional(e) /\ e.setup # "READY"
                  \/ /\ Full /\ Directional(e) /\ e.plan = "CONTINUATION"
                     /\ news.blockers = {} /\ BlockersOfRisk(risk) = {}
                     /\ e.blockers \subseteq d.blockers
<1> DEFINE e == Evaluated(d, run, news, risk, userSpec)
           hard == HardBlockers(run, news, risk, userSpec)
           veto == news.blockers \cup BlockersOfRisk(risk)
           all == d.blockers \cup veto \cup hard
           kept == IF "INSTRUMENT_SPEC_MISSING" \in hard THEN all
                   ELSE all \ {"INSTRUMENT_SPEC_MISSING"}
           told == [d EXCEPT !.news = news.state, !.risk = risk,
                             !.blockers = d.blockers \cup veto]
           seen == [told EXCEPT !.blockers = kept, !.setup = "OPEN"]
<1>1. /\ d.verdict \in {"WAIT", "UNAVAILABLE", "LONG", "SHORT"}
      /\ d.blockers \subseteq Blocker
      /\ d.setup \in {"NOT_EVALUATED", "OPEN", "READY"}
      /\ d.plan \in {"NONE", "CONTINUATION", "REVERSAL"}
      /\ news.state \in NewsStates /\ risk \in RiskStatus
      /\ run.direction \in {"LONG", "SHORT"}
  BY NewsIsConsistent DEF Decision, Runs
<1>2. /\ veto \subseteq NewsBlockers \cup RiskBlockers
      /\ hard \subseteq NewsBlockers \cup RiskBlockers \cup WaitBlockers
      /\ hard = {} => veto = {}
  BY NewsIsConsistent, RiskIsConsistent, HardBlockersInclude
<1>3. \/ e = told
      \/ e = seen
      \/ /\ MayAuthorize(Outcome(run, news, risk, hard)) /\ e = Authorized(seen, run)
  BY DEF Evaluated
<1>4. MayAuthorize(Outcome(run, news, risk, hard)) => Full /\ hard = {}
  BY DEF MayAuthorize, Outcome
<1> HIDE DEF e, hard, veto
<1>5. /\ "INSTRUMENT_SPEC_MISSING" \in WaitBlockers
      /\ "ANALYSIS_GATES_NOT_IMPLEMENTED" \in WaitBlockers
      /\ veto \subseteq kept /\ kept \subseteq Blocker
      /\ kept \cap UnavailableBlockers = d.blockers \cap UnavailableBlockers
      /\ (d.blockers \cup veto) \cap UnavailableBlockers
           = d.blockers \cap UnavailableBlockers
      /\ d.blockers \cup veto \subseteq Blocker
      /\ hard = {} => kept \subseteq d.blockers
  <2>1. /\ "INSTRUMENT_SPEC_MISSING" \in WaitBlockers
        /\ "ANALYSIS_GATES_NOT_IMPLEMENTED" \in WaitBlockers
        /\ "INSTRUMENT_SPEC_MISSING" \notin NewsBlockers \cup RiskBlockers
    BY DEF WaitBlockers, NewsBlockers, RiskBlockers
  <2> QED BY <2>1, <1>1, <1>2, KindsApart DEF Blocker
<1> DEFINE low == d.blockers \cup veto
<1> HIDE DEF kept, low
<1>6. low \subseteq Blocker /\ kept \subseteq Blocker
  BY <1>5 DEF low
<1>7. /\ told \in Decision /\ seen \in Decision
      /\ told.verdict = d.verdict /\ seen.verdict = d.verdict
      /\ told.setup = d.setup /\ seen.setup = "OPEN"
      /\ told.news = news.state /\ seen.news = news.state
      /\ told.risk = risk /\ seen.risk = risk
      /\ told.blockers = low /\ seen.blockers = kept
  BY <1>1, <1>6 DEF Decision, low
<1> HIDE DEF told, seen
<1>8. CASE e = told
  BY <1>5, <1>7, <1>8 DEF low, Directional, e, veto
<1>9. CASE e = seen
  BY <1>5, <1>7, <1>9 DEF low, Directional, e, veto
<1>10. CASE MayAuthorize(Outcome(run, news, risk, hard)) /\ e = Authorized(seen, run)
  <2> DEFINE clear == kept \ {"ANALYSIS_GATES_NOT_IMPLEMENTED"}
  <2>1. /\ clear \subseteq Blocker /\ veto = {} /\ clear \subseteq d.blockers /\ Full
        /\ clear \cap UnavailableBlockers = d.blockers \cap UnavailableBlockers
    BY <1>2, <1>4, <1>5, <1>10, KindsApart
  <2>2. e = [seen EXCEPT !.verdict = run.direction, !.setup = "READY",
                         !.plan = "CONTINUATION", !.blockers = clear]
    BY <1>7, <1>10 DEF Authorized
  <2> HIDE DEF clear
  <2> HIDE DEF e
  <2>3. /\ e \in Decision /\ e.verdict = run.direction /\ e.plan = "CONTINUATION"
        /\ e.news = news.state /\ e.risk = risk /\ e.blockers = clear
    <3>1. seen \in Decision
      BY <1>7
    <3>2. DOMAIN seen = {"verdict", "blockers", "setup", "news", "risk", "plan"}
      BY <3>1 DEF Decision
    <3>3. /\ e.verdict = run.direction /\ e.plan = "CONTINUATION" /\ e.setup = "READY"
          /\ e.news = seen.news /\ e.risk = seen.risk /\ e.blockers = clear
      BY <2>2, <3>2
    <3>4. e \in Decision
      BY <1>1, <2>1, <2>2, <3>1 DEF Decision
    <3> QED
      BY <1>7, <3>3, <3>4
  <2>4. Directional(e)
    BY <1>1, <2>3 DEF Directional
  <2> QED BY <2>1, <2>3, <2>4 DEF e, veto
<1> QED BY <1>3, <1>8, <1>9, <1>10

-----------------------------------------------------------------------------
(* The stages keep it.                                                     *)

LEMMA GateKeeps == ASSUME IInv, NEW r \in Readings, Gate(r) PROVE IInv'
<1> DEFINE d == GateDecision(r)
<1>1. /\ d \in Decision /\ ~Directional(d) /\ d.setup = "NOT_EVALUATED"
      /\ d.news = "NONE" /\ d.risk = "NOT_EVALUATED"
      /\ d.blockers \subseteq UnavailableBlockers \cup WaitBlockers
      /\ "SYSTEM_INTEGRITY_FAILURE" \notin d.blockers
      /\ d.verdict = "UNAVAILABLE" <=> d.blockers \cap UnavailableBlockers # {}
  BY GateIsSafe
<1>2. decision' = d /\ stage' = "liquidity" /\ raised' = {} /\ setting' = setting
      /\ now' = now
  BY <1>1, EnforcedIsSame DEF Gate, Goes
<1> HIDE DEF d
<1>3. TypeOK' BY <1>1, <1>2 DEF IInv, TypeOK
<1>4. StageShape' BY <1>1, <1>2 DEF StageShape, Directional
<1>5. VetoIsTold' BY <1>1, <1>2, KindsApart DEF VetoIsTold
<1>6. AuthorityHolds' BY <1>1, <1>2 DEF AuthorityHolds, Directional, Full
<1>7. UnusableIsUnavailable' BY <1>1, <1>2 DEF UnusableIsUnavailable
<1>8. NoVetoedTrade' BY <1>1, <1>2 DEF NoVetoedTrade, Directional
<1>9. NewsIsTold' BY <1>1, <1>2 DEF NewsIsTold
<1>10. NothingOverlooked' BY <1>1, <1>2 DEF NothingOverlooked
<1> QED BY <1>3, <1>4, <1>5, <1>6, <1>7, <1>8, <1>9, <1>10 DEF IInv

LEMMA LiquidityKeeps ==
    ASSUME IInv, NEW dolUnclear \in BOOLEAN, Liquidity(dolUnclear) PROVE IInv'
<1> DEFINE B == IF dolUnclear THEN decision.blockers \cup {"DOL_UNCLEAR"}
                ELSE decision.blockers
           d == [decision EXCEPT !.blockers = B]
<1>1. /\ decision \in Decision /\ ~Directional(decision) /\ decision.setup # "READY"
      /\ decision.news = "NONE" /\ decision.risk = "NOT_EVALUATED"
  BY DEF IInv, TypeOK, StageShape, Liquidity
<1>2. /\ "DOL_UNCLEAR" \in WaitBlockers /\ "DOL_UNCLEAR" # "SYSTEM_INTEGRITY_FAILURE"
      /\ decision.blockers \subseteq B
      /\ B \subseteq decision.blockers \cup {"DOL_UNCLEAR"} /\ B \subseteq Blocker
  <2>1. "DOL_UNCLEAR" \in WaitBlockers BY DEF WaitBlockers
  <2> QED BY <1>1, <2>1 DEF Decision, Blocker
<1> HIDE DEF B
<1>3. /\ d \in Decision /\ d.blockers = B /\ d.verdict = decision.verdict
      /\ d.setup = decision.setup /\ d.news = decision.news
      /\ d.risk = decision.risk
  BY <1>1, <1>2 DEF Decision
<1>4. /\ decision' = Enforced(d) /\ stage' = "evaluation" /\ setting' = setting
      /\ now' = now
      /\ raised' = raised /\ stage = "liquidity"
  BY DEF Liquidity, Goes, B
<1> HIDE DEF d
<1>5. decision' = d
  BY <1>1, <1>3, <1>4, EnforcedIsSame DEF Directional
<1>6. TypeOK' BY <1>3, <1>4, <1>5 DEF IInv, TypeOK
<1>7. StageShape' BY <1>1, <1>3, <1>4, <1>5 DEF StageShape, Directional
<1>8. VetoIsTold'
  BY <1>1, <1>2, <1>3, <1>5, KindsApart DEF IInv, VetoIsTold
<1>9. AuthorityHolds'
  BY <1>1, <1>2, <1>3, <1>4, <1>5 DEF IInv, AuthorityHolds, Directional, Full
<1>10. UnusableIsUnavailable'
  BY <1>2, <1>3, <1>5, KindsApart DEF IInv, UnusableIsUnavailable
<1>11. NoVetoedTrade' BY <1>1, <1>3, <1>5 DEF NoVetoedTrade, Directional
<1>12. NewsIsTold' BY <1>1, <1>3, <1>4, <1>5 DEF NewsIsTold
<1>13. NothingOverlooked' BY <1>1, <1>3, <1>5 DEF NothingOverlooked
<1> QED BY <1>6, <1>7, <1>8, <1>9, <1>10, <1>11, <1>12, <1>13 DEF IInv

LEMMA EvaluationKeeps ==
    ASSUME IInv, NEW run \in Runs, NEW news \in NewsReads, NEW userSpec \in BOOLEAN,
           NEW risk \in Risks(run), Evaluation(run, news, risk, userSpec)
    PROVE  IInv'
<1> DEFINE e == Evaluated(decision, run, news, risk, userSpec)
<1>1. /\ decision \in Decision /\ ~Directional(decision) /\ decision.setup # "READY"
      /\ decision.news = "NONE" /\ decision.risk = "NOT_EVALUATED"
  BY DEF IInv, TypeOK, StageShape, Evaluation
<1>2. risk \in RiskStatus BY DEF Risks
<1>3. /\ e \in Decision /\ e.news = news.state /\ e.risk = risk
      /\ e.blockers \cap UnavailableBlockers
           = decision.blockers \cap UnavailableBlockers
      /\ news.blockers \cup BlockersOfRisk(risk) \subseteq e.blockers
      /\ \/ e.verdict = decision.verdict /\ ~Directional(e) /\ e.setup # "READY"
         \/ /\ Full /\ Directional(e) /\ e.plan = "CONTINUATION"
            /\ news.blockers = {} /\ BlockersOfRisk(risk) = {}
            /\ e.blockers \subseteq decision.blockers
  BY <1>1, <1>2, EvaluatedIsSafe DEF IInv, TypeOK
<1>4. /\ decision' = Enforced(e) /\ stage' = "news" /\ setting' = setting
      /\ now' = now
      /\ raised' = raised /\ Usable(decision)
  BY DEF Evaluation, Goes
<1> HIDE DEF e
<1>5. decision' = e
  BY <1>3, <1>4, EnforcedIsSame
<1>6. /\ news.state \in NewsStates
      /\ news.blockers = {} => news.state \in Quiet
      /\ news.state = "BLACKOUT" => "NEWS_BLACKOUT" \in news.blockers
      /\ news.state = "UNAVAILABLE" => "NEWS_DATA_UNAVAILABLE" \in news.blockers
      /\ news.state = "POST_NEWS_WAIT" => "NEWS_POST_WAIT" \in news.blockers
      /\ news.state # "UNAVAILABLE" => news.state = StateOf(Worst(World, now))
  BY NewsIsConsistent DEF IInv, TypeOK
<1>7. BlockersOfRisk(risk) = {} => risk \in {"CLEAR", "WITHIN_LIMITS"}
  BY <1>2, RiskIsConsistent
<1>8. "NONE" \notin NewsStates /\ "NOT_EVALUATED" \notin RiskStatus
  BY DEF NewsStates, RiskStatus
<1>9. TypeOK' BY <1>3, <1>4, <1>5 DEF IInv, TypeOK
<1>10. StageShape' BY <1>3, <1>4, <1>5, <1>6, <1>8 DEF StageShape
<1>11. VetoIsTold'
  BY <1>2, <1>3, <1>5, <1>6, <1>7, <1>8 DEF VetoIsTold
<1>12. AuthorityHolds'
  <2>1. "SYSTEM_INTEGRITY_FAILURE" \in UnavailableBlockers
    BY DEF UnavailableBlockers
  <2>2. "SYSTEM_INTEGRITY_FAILURE" \notin e.blockers
    BY <1>3, <2>1 DEF IInv, AuthorityHolds
  <2> QED BY <1>3, <1>4, <1>5, <2>2 DEF AuthorityHolds, Full
<1>13. UnusableIsUnavailable'
  BY <1>3, <1>4, <1>5 DEF IInv, UnusableIsUnavailable, Directional, Usable
<1>14. NoVetoedTrade'
  <2> SUFFICES ASSUME Directional(e)
               PROVE  /\ e.news \in {"NONE", "CLEAR", "NORMALIZED", "CAUTION"}
                      /\ e.risk \in {"NOT_EVALUATED", "CLEAR", "WITHIN_LIMITS"}
                      /\ e.blockers \cap (RiskBlockers \cup NewsBlockers) = {}
    BY <1>5 DEF NoVetoedTrade
  <2>1. decision.blockers \cap (RiskBlockers \cup NewsBlockers) = {}
    BY <1>1 DEF IInv, VetoIsTold
  <2> QED BY <1>3, <1>6, <1>7, <2>1 DEF Quiet
<1>15. NewsIsTold' BY <1>3, <1>4, <1>5, <1>6 DEF NewsIsTold
<1>16. NothingOverlooked' BY <1>3, <1>4, <1>5, <1>6 DEF NothingOverlooked
<1> QED BY <1>9, <1>10, <1>11, <1>12, <1>13, <1>14, <1>15, <1>16 DEF IInv

LEMMA NewsKeeps == ASSUME IInv, NEW news \in NewsReads, News(news) PROVE IInv'
<1> DEFINE B == decision.blockers \cup news.blockers
           d == [decision EXCEPT !.news = news.state, !.blockers = B]
<1>1. /\ decision \in Decision /\ decision.news = "NONE" /\ ~Directional(decision)
      /\ decision.setup = "READY" => Full
      /\ decision.blockers \cap NewsBlockers = {}
  BY DEF IInv, TypeOK, StageShape, VetoIsTold, AuthorityHolds, News, NeedsNews
<1>2. /\ news.state \in NewsStates /\ news.blockers \subseteq NewsBlockers
      /\ news.blockers = {} => news.state \in Quiet
      /\ news.state = "BLACKOUT" => "NEWS_BLACKOUT" \in news.blockers
      /\ news.state = "UNAVAILABLE" => "NEWS_DATA_UNAVAILABLE" \in news.blockers
      /\ news.state # "UNAVAILABLE" => news.state = StateOf(Worst(World, now))
  BY NewsIsConsistent DEF IInv, TypeOK
<1>3. B \subseteq Blocker /\ B \cap UnavailableBlockers
                              = decision.blockers \cap UnavailableBlockers
  BY <1>1, <1>2, KindsApart DEF Decision, Blocker
<1>4. B \cap RiskBlockers = decision.blockers \cap RiskBlockers
  <2>1. NewsBlockers \cap RiskBlockers = {} BY DEF NewsBlockers, RiskBlockers
  <2> QED BY <1>2, <2>1
<1>5. decision.blockers \subseteq B /\ news.blockers \subseteq B
  OBVIOUS
<1> HIDE DEF B
<1>6. /\ d \in Decision /\ d.blockers = B /\ d.verdict = decision.verdict
      /\ d.setup = decision.setup /\ d.news = news.state /\ d.risk = decision.risk
  BY <1>1, <1>2, <1>3 DEF Decision
<1>7. /\ decision' = Enforced(d) /\ stage' = "reversal" /\ setting' = setting
      /\ now' = now
      /\ raised' = raised
  BY DEF News, Goes, B
<1> HIDE DEF d
<1>8. decision' = d
  BY <1>1, <1>6, <1>7, EnforcedIsSame DEF Directional
<1>9. "NONE" \notin NewsStates BY DEF NewsStates
<1>10. TypeOK' BY <1>6, <1>7, <1>8 DEF IInv, TypeOK
<1>11. StageShape' BY <1>7 DEF StageShape
<1>12. VetoIsTold'
  BY <1>2, <1>4, <1>5, <1>6, <1>8, <1>9 DEF IInv, VetoIsTold
<1>13. AuthorityHolds'
  <2>1. "SYSTEM_INTEGRITY_FAILURE" \in UnavailableBlockers
    BY DEF UnavailableBlockers
  <2>2. "SYSTEM_INTEGRITY_FAILURE" \notin B
    BY <1>3, <2>1 DEF IInv, AuthorityHolds
  <2> QED BY <1>1, <1>6, <1>7, <1>8, <2>2 DEF AuthorityHolds, Full, Directional
<1>14. UnusableIsUnavailable'
  BY <1>3, <1>6, <1>8 DEF IInv, UnusableIsUnavailable
<1>15. NoVetoedTrade' BY <1>1, <1>6, <1>8 DEF NoVetoedTrade, Directional
<1>16. NewsIsTold' BY <1>2, <1>5, <1>6, <1>8, <1>9 DEF NewsIsTold
<1>17. NothingOverlooked' BY <1>2, <1>6, <1>7, <1>8 DEF NothingOverlooked
<1> QED BY <1>10, <1>11, <1>12, <1>13, <1>14, <1>15, <1>16, <1>17 DEF IInv

LEMMA ReversalKeeps ==
    ASSUME IInv, NEW direction \in {"LONG", "SHORT"}, Reversal(direction) PROVE IInv'
<1> DEFINE d == [decision EXCEPT !.verdict = direction, !.setup = "READY",
                                 !.plan = "REVERSAL"]
<1>1. decision \in Decision /\ Full /\ decision.blockers = {} /\ stage = "reversal"
  BY DEF IInv, TypeOK, Reversal, MayReverse
<1>2. /\ d \in Decision /\ d.blockers = {} /\ d.verdict = direction
      /\ d.news = decision.news /\ d.risk = decision.risk
  BY <1>1 DEF Decision
<1>3. /\ decision' = Enforced(d) /\ stage' = "done" /\ setting' = setting
      /\ now' = now
      /\ raised' = raised
  BY DEF Reversal, Goes
<1> HIDE DEF d
<1>4. decision' = d
  BY <1>1, <1>3, EnforcedIsSame
<1>5. /\ decision.news \in {"NONE", "CLEAR", "NORMALIZED", "CAUTION"}
      /\ decision.risk \in {"NOT_EVALUATED", "CLEAR", "WITHIN_LIMITS"}
  BY <1>1 DEF IInv, VetoIsTold, Quiet
<1>6. TypeOK' BY <1>2, <1>3, <1>4 DEF IInv, TypeOK
<1>7. StageShape' BY <1>3 DEF StageShape
<1>8. VetoIsTold' BY <1>2, <1>4, <1>5 DEF VetoIsTold, Quiet
<1>9. AuthorityHolds' BY <1>1, <1>2, <1>3, <1>4 DEF AuthorityHolds, Full
<1>10. UnusableIsUnavailable' BY <1>2, <1>4 DEF UnusableIsUnavailable
<1>11. NoVetoedTrade' BY <1>2, <1>4, <1>5 DEF NoVetoedTrade
<1>12. NewsIsTold' BY <1>1, <1>2, <1>3, <1>4, <1>5 DEF IInv, NewsIsTold
<1>13. NothingOverlooked' BY <1>2, <1>3, <1>4 DEF IInv, NothingOverlooked
<1> QED BY <1>6, <1>7, <1>8, <1>9, <1>10, <1>11, <1>12, <1>13 DEF IInv

LEMMA ReturnsKeeps == ASSUME IInv, Returns PROVE IInv'
<1>1. /\ setting' \in Setting /\ now' \in Times /\ stage' = "idle"
      /\ decision' = Undecided /\ raised' = {}
  BY DEF Returns, IInv, TypeOK
<1> QED BY <1>1 DEF IInv, TypeOK, StageShape, VetoIsTold, AuthorityHolds,
       UnusableIsUnavailable, NoVetoedTrade, NewsIsTold, NothingOverlooked, Undecided,
       Decision, Directional, Blocker, UnavailableBlockers, RiskBlockers, NewsBlockers

\* A stage that is skipped or raises leaves the decision as it was.
LEMMA OthersKeep == ASSUME IInv, Passes \/ Fails PROVE IInv' /\ decision' = decision
<1>1. /\ decision' = decision /\ setting' = setting /\ now' = now
      /\ raised \subseteq raised'
      /\ raised' \subseteq {"liquidity", "evaluation", "news", "reversal"}
  <2>1. CASE Passes
    BY <2>1 DEF Passes, Skips, Goes, IInv, TypeOK
  <2>2. CASE Fails
    <3>1. Enforced(decision) = decision
      BY EnforcedIsSame DEF IInv, AuthorityHolds
    <3> QED BY <2>2, <3>1 DEF Fails, Raises, Goes, IInv, TypeOK
  <2> QED BY <2>1, <2>2
<1>2. \/ stage = "liquidity" /\ stage' = "evaluation"
      \/ /\ stage = "evaluation" /\ stage' = "news"
      \/ /\ stage = "news" /\ stage' = "reversal"
         /\ ~NeedsNews \/ "news" \in raised'
      \/ stage = "reversal" /\ stage' = "done"
  BY DEF Passes, Fails, Skips, Raises, Goes
<1>3. TypeOK' BY <1>1, <1>2 DEF IInv, TypeOK
<1>4. StageShape' BY <1>1, <1>2 DEF IInv, StageShape, Directional
<1>5. VetoIsTold' BY <1>1 DEF IInv, VetoIsTold
<1>6. AuthorityHolds' BY <1>1 DEF IInv, AuthorityHolds, Full
<1>7. UnusableIsUnavailable' BY <1>1 DEF IInv, UnusableIsUnavailable
<1>8. NoVetoedTrade' BY <1>1 DEF IInv, NoVetoedTrade
<1>9. NewsIsTold' BY <1>1, <1>2 DEF IInv, NewsIsTold, NeedsNews
<1>10. NothingOverlooked' BY <1>1 DEF IInv, NothingOverlooked
<1> QED BY <1>1, <1>3, <1>4, <1>5, <1>6, <1>7, <1>8, <1>9, <1>10 DEF IInv

-----------------------------------------------------------------------------
(* The theorems.                                                           *)

LEMMA NextKeeps == ASSUME IInv, [Next]_vars PROVE IInv'
<1>1. CASE Next
  BY <1>1, GateKeeps, LiquidityKeeps, EvaluationKeeps, NewsKeeps, ReversalKeeps,
     ReturnsKeeps, OthersKeep DEF Next
<1>2. CASE UNCHANGED vars
  BY <1>2 DEF vars, IInv, TypeOK, StageShape, VetoIsTold, AuthorityHolds,
     UnusableIsUnavailable, NoVetoedTrade, NewsIsTold, NothingOverlooked, Full
<1> QED BY <1>1, <1>2

LEMMA Invariance == Spec => []IInv
<1>1. Init => IInv BY InitIsSafe
<1>2. IInv /\ [Next]_vars => IInv' BY NextKeeps
<1> QED BY <1>1, <1>2, PTL DEF Spec

(***************************************************************************)
(* Every decision that any stage leaves has its type, whatever raised.     *)
(***************************************************************************)
THEOREM TypeCorrect == Spec => []TypeOK
<1>1. IInv => TypeOK BY DEF IInv
<1> QED BY <1>1, Invariance, PTL

(***************************************************************************)
(* Without authority there is no directional verdict in any stage, and     *)
(* the integrity check never corrects one; unusable data makes a decision  *)
(* UNAVAILABLE and nothing else does.                                      *)
(***************************************************************************)
THEOREM Allowed == Spec => []VerdictIsAllowed
<1>1. IInv => VerdictIsAllowed BY DEF IInv, VerdictIsAllowed
<1> QED BY <1>1, Invariance, PTL

(***************************************************************************)
(* For every calendar: a LONG or SHORT never stands against a risk status  *)
(* or a news state that was read, and a finished decision on a known       *)
(* symbol has read the news or failed to.                                  *)
(***************************************************************************)
THEOREM Veto == Spec => []VetoHolds
<1>1. IInv => VetoHolds BY DEF IInv, VetoHolds
<1> QED BY <1>1, Invariance, PTL

(***************************************************************************)
(* For all windows within the lookahead, all events and all calendars that *)
(* hold the events of the span they cover: the news state that is told is  *)
(* the one that all events give.                                           *)
(***************************************************************************)
THEOREM Overlooked == Spec => []NothingOverlooked
<1>1. IInv => NothingOverlooked BY DEF IInv
<1> QED BY <1>1, Invariance, PTL

(***************************************************************************)
(* No stage after the evaluation changes a plan that is on.                *)
(***************************************************************************)
THEOREM PlanStays == Spec => ContinuationWins
<1> DEFINE Stays == Directional(decision) /\ stage # "done"
                      => decision'.verdict = decision.verdict
                         /\ decision'.plan = decision.plan
<1>1. IInv /\ [Next]_vars => [Stays]_vars
  <2> SUFFICES ASSUME IInv, Next, Directional(decision), stage # "done"
               PROVE  decision' = decision
    OBVIOUS
  <2>1. stage \notin {"idle", "liquidity", "evaluation"}
    BY DEF IInv, StageShape
  <2>2. ASSUME NEW news \in NewsReads, News(news) PROVE FALSE
    BY <2>2 DEF IInv, StageShape, News, NeedsNews
  <2>3. ASSUME NEW direction \in {"LONG", "SHORT"}, Reversal(direction) PROVE FALSE
    BY <2>3 DEF Reversal, MayReverse
  <2>4. CASE Passes \/ Fails
    BY <2>4, OthersKeep
  <2> QED BY <2>1, <2>2, <2>3, <2>4 DEF Next, Gate, Liquidity, Evaluation, Returns
<1> QED BY <1>1, Invariance, PTL DEF Spec, ContinuationWins

-----------------------------------------------------------------------------
(* What is added up over a set or a sequence.                              *)

\* Induction up to a number, over the set of the numbers for which something holds.
LEMMA UpTo ==
    ASSUME NEW n \in Nat, NEW P, 0 \in P, \A i \in 1 .. n : i - 1 \in P => i \in P
    PROVE  \A i \in 0 .. n : i \in P
<1> DEFINE rest == (0 .. n) \ P
<1>1. SUFFICES ASSUME rest # {} PROVE FALSE
  OBVIOUS
<1>2. rest \subseteq Nat
  OBVIOUS
<1> HIDE DEF rest
<1>3. \E m \in rest : \A k \in rest : ~(<<k, m>> \in OpToRel(<, Nat))
  BY <1>1, <1>2, NatLessThanWellFounded, WFMin
<1>4. PICK m \in rest : \A k \in rest : ~(k < m)
  BY <1>2, <1>3 DEF OpToRel
<1>5. m \in 0 .. n /\ m \notin P
  BY DEF rest
<1>6. m # 0 /\ m \in 1 .. n
  BY <1>5
<1>7. m - 1 \in 0 .. n /\ m - 1 < m
  BY <1>6
<1>8. m - 1 \in P
  BY <1>4, <1>7 DEF rest
<1> QED BY <1>5, <1>6, <1>8

\* Induction over the subsets of a finite set, which lose the element picked.
LEMMA OverSubsets ==
    ASSUME NEW S, IsFiniteSet(S), NEW pick, \A s \in SUBSET S : s # {} => pick[s] \in s,
           NEW P, {} \in P, \A s \in SUBSET S : s # {} /\ s \ {pick[s]} \in P => s \in P
    PROVE  \A s \in SUBSET S : s \in P
<1> DEFINE n == Cardinality(S)
           Q == {k \in 0 .. n : \A s \in SUBSET S : Cardinality(s) = k => s \in P}
<1>1. n \in Nat /\ \A s \in SUBSET S : IsFiniteSet(s) /\ Cardinality(s) \in 0 .. n
  <2>1. n \in Nat
    BY FS_CardinalityType
  <2>2. \A s \in SUBSET S : IsFiniteSet(s) /\ Cardinality(s) <= n
    BY FS_Subset
  <2>3. \A s \in SUBSET S : Cardinality(s) \in Nat
    BY <2>2, FS_CardinalityType
  <2> HIDE DEF n
  <2> QED BY <2>1, <2>2, <2>3
<1> HIDE DEF n
<1>2. 0 \in Q
  BY <1>1, FS_EmptySet
<1>3. ASSUME NEW k \in 1 .. n, k - 1 \in Q PROVE k \in Q
  <2> SUFFICES ASSUME NEW s \in SUBSET S, Cardinality(s) = k PROVE s \in P
    BY <1>1
  <2>1. s # {}
    BY <1>1, FS_EmptySet
  <2>2. s \ {pick[s]} \in SUBSET S /\ pick[s] \in s
    BY <2>1
  <2>3. Cardinality(s \ {pick[s]}) = k - 1
    BY <1>1, <2>2, FS_RemoveElement
  <2>4. s \ {pick[s]} \in P
    BY <1>3, <2>2, <2>3
  <2> QED BY <2>1, <2>4
<1> HIDE DEF Q
<1>4. \A k \in 0 .. n : k \in Q
  BY <1>1, <1>2, <1>3, UpTo
<1> QED BY <1>1, <1>4 DEF Q

\* f takes one step for each element of a set, the one picked last.
Steps(f, S, pick, base, step) ==
    \A s \in SUBSET S : f[s] = IF s = {} THEN base ELSE step[<<pick[s], f[s \ {pick[s]}]>>]

\* What is defined from a set without the element picked is defined for every
\* subset of a finite set.
LEMMA StepsExist ==
    ASSUME NEW S, IsFiniteSet(S), NEW pick, \A s \in SUBSET S : s # {} => pick[s] \in s,
           NEW V, NEW base \in V, NEW step, \A x \in S : \A v \in V : step[<<x, v>>] \in V
    PROVE  \E f \in [SUBSET S -> V] : Steps(f, S, pick, base, step)
<1> DEFINE n == Cardinality(S)
           Small(k) == {s \in SUBSET S : Cardinality(s) <= k}
           Fold(k, f) == \A s \in Small(k) :
                           f[s] = IF s = {} THEN base ELSE step[<<pick[s], f[s \ {pick[s]}]>>]
           P == {k \in 0 .. n : \E f \in [SUBSET S -> V] : Fold(k, f)}
<1>1. n \in Nat /\ \A s \in SUBSET S : IsFiniteSet(s) /\ Cardinality(s) \in Nat /\ Cardinality(s) <= n
  <2>1. n \in Nat
    BY FS_CardinalityType
  <2>2. \A s \in SUBSET S : IsFiniteSet(s) /\ Cardinality(s) <= n
    BY FS_Subset
  <2>3. \A s \in SUBSET S : Cardinality(s) \in Nat
    BY <2>2, FS_CardinalityType
  <2> HIDE DEF n
  <2> QED BY <2>1, <2>2, <2>3
<1>2. 0 \in P
  <2> DEFINE g == [s \in SUBSET S |-> base]
  <2>1. g \in [SUBSET S -> V]
    OBVIOUS
  <2>2. \A s \in Small(0) : s = {}
    <3> SUFFICES ASSUME NEW s \in Small(0) PROVE s = {}
      OBVIOUS
    <3>1. IsFiniteSet(s) /\ Cardinality(s) = 0
      BY <1>1
    <3> QED BY <3>1, FS_EmptySet
  <2>3. Fold(0, g)
    BY <2>2
  <2> HIDE DEF Fold, g
  <2>4. 0 \in 0 .. n
    BY <1>1
  <2>5. \E f \in [SUBSET S -> V] : Fold(0, f)
    BY <2>1, <2>3, Zenon
  <2> QED BY <2>4, <2>5, Zenon
<1> HIDE DEF n
<1>3. ASSUME NEW k \in 1 .. n, k - 1 \in P PROVE k \in P
  <2>1. PICK f \in [SUBSET S -> V] : Fold(k - 1, f)
    BY <1>3
  <2> DEFINE g == [s \in SUBSET S |-> IF s = {} THEN base ELSE step[<<pick[s], f[s \ {pick[s]}]>>]]
  <2>2. ASSUME NEW s \in SUBSET S, s # {}
        PROVE  pick[s] \in S /\ s \ {pick[s]} \in SUBSET S /\ f[s \ {pick[s]}] \in V
               /\ Cardinality(s \ {pick[s]}) = Cardinality(s) - 1
    <3>1. pick[s] \in s /\ IsFiniteSet(s)
      BY <2>2, <1>1
    <3> QED BY <3>1, FS_RemoveElement
  <2>3. g \in [SUBSET S -> V]
    BY <2>2
  <2>4. \A s \in Small(k - 1) : g[s] = f[s]
    <3> SUFFICES ASSUME NEW s \in Small(k - 1) PROVE g[s] = f[s]
      OBVIOUS
    <3>1. f[s] = IF s = {} THEN base ELSE step[<<pick[s], f[s \ {pick[s]}]>>]
      BY <2>1
    <3> QED BY <3>1
  <2>5. ASSUME NEW s \in Small(k), s # {} PROVE g[s] = step[<<pick[s], g[s \ {pick[s]}]>>]
    <3>1. s \ {pick[s]} \in SUBSET S /\ Cardinality(s) \in Nat /\ Cardinality(s) <= k
          /\ Cardinality(s \ {pick[s]}) = Cardinality(s) - 1
      BY <2>2, <2>5, <1>1
    <3>2. s \ {pick[s]} \in Small(k - 1)
      BY <3>1, <1>1
    <3>3. g[s \ {pick[s]}] = f[s \ {pick[s]}]
      BY <2>4, <3>2
    <3>4. g[s] = step[<<pick[s], f[s \ {pick[s]}]>>]
      BY <2>5
    <3> HIDE DEF g
    <3> QED BY <3>3, <3>4
  <2>6. g[{}] = base
    OBVIOUS
  <2> HIDE DEF g
  <2>7. Fold(k, g)
    BY <2>5, <2>6
  <2> HIDE DEF Fold
  <2>8. \E h \in [SUBSET S -> V] : Fold(k, h)
    BY <2>3, <2>7, Zenon
  <2>9. k \in 0 .. n
    BY <1>1
  <2> QED BY <2>8, <2>9, Zenon
<1> HIDE DEF P
<1>4. \A k \in 0 .. n : k \in P
  BY <1>1, <1>2, <1>3, UpTo
<1>5. n \in P
  BY <1>1, <1>4
<1>6. PICK f \in [SUBSET S -> V] : Fold(n, f)
  BY <1>5 DEF P
<1>7. \A s \in SUBSET S : s \in Small(n)
  BY <1>1
<1> QED BY <1>6, <1>7 DEF Steps

\* A set of numbers up to n has its largest.
LEMMA MaxIsLast ==
    ASSUME NEW n \in Nat, NEW s \in SUBSET (1 .. n), s # {}
    PROVE  Max(s) \in s /\ \A i \in s : i <= Max(s)
<1> DEFINE gaps == {n - i : i \in s}
<1>1. gaps \subseteq Nat /\ gaps # {}
  <2>1. \A i \in s : n - i \in Nat
    OBVIOUS
  <2> QED BY <2>1
<1> HIDE DEF gaps
<1>2. \E g \in gaps : \A h \in gaps : ~(<<h, g>> \in OpToRel(<, Nat))
  BY <1>1, NatLessThanWellFounded, WFMin
<1>3. PICK g \in gaps : \A h \in gaps : ~(h < g)
  BY <1>1, <1>2 DEF OpToRel
<1>4. PICK m \in s : g = n - m
  BY DEF gaps
<1>5. \A i \in s : i <= m
  <2> SUFFICES ASSUME NEW i \in s PROVE i <= m
    OBVIOUS
  <2>1. n - i \in gaps
    BY DEF gaps
  <2>2. ~(n - i < n - m)
    BY <2>1, <1>3, <1>4
  <2> QED BY <2>2
<1>6. \A i \in s : m >= i
  BY <1>5
<1>7. Max(s) \in s /\ \A i \in s : Max(s) >= i
  BY <1>6, Zenon DEF Max
<1> QED BY <1>7

\* f takes one step for each number of a set, the largest last.
TakesSteps(f, n, base, step) ==
    \A s \in SUBSET (1 .. n) : f[s] = IF s = {} THEN base ELSE step[<<Max(s), f[s \ {Max(s)}]>>]

\* What is defined from a set of numbers without its largest is defined for
\* every set of numbers up to n.
LEMMA FoldExists ==
    ASSUME NEW n \in Nat, NEW V, NEW base \in V, NEW step,
           \A i \in 1 .. n : \A v \in V : step[<<i, v>>] \in V
    PROVE  \E f \in [SUBSET (1 .. n) -> V] : TakesSteps(f, n, base, step)
<1> DEFINE pick == [s \in SUBSET (1 .. n) |-> Max(s)]
<1>1. \A s \in SUBSET (1 .. n) : pick[s] = Max(s)
  OBVIOUS
<1>2. \A s \in SUBSET (1 .. n) : s # {} => pick[s] \in s
  BY <1>1, MaxIsLast
<1>3. IsFiniteSet(1 .. n)
  BY FS_Interval
<1> HIDE DEF pick
<1>4. PICK f \in [SUBSET (1 .. n) -> V] : Steps(f, 1 .. n, pick, base, step)
  BY <1>2, <1>3, StepsExist
<1>5. TakesSteps(f, n, base, step)
  BY <1>1, <1>4 DEF Steps, TakesSteps
<1> QED BY <1>5

-----------------------------------------------------------------------------
(* The sum that macro is judged by.                                        *)

Part == [points : Int, weight : Nat]
Zero == [points |-> 0, weight |-> 0]
Plus(sum, p) == [points |-> sum.points + p.points, weight |-> sum.weight + p.weight]
AddUp(parts) == M!FoldLeft(LAMBDA sum, p : [points |-> sum.points + p.points, weight |-> sum.weight + p.weight],
           [points |-> 0, weight |-> 0], parts)

\* Parts add up to a part.
LEMMA AddUpIs ==
    ASSUME NEW parts \in Seq(Part)
    PROVE  AddUp(parts) \in Part
<1> DEFINE n == Len(parts)
           It(f) == f = [s \in SUBSET (DOMAIN parts) |->
                       IF s = {} THEN Zero ELSE Plus(f[s \ {M!Max(s)}], parts[M!Max(s)])]
           g == CHOOSE f : It(f)
<1>1. AddUp(parts) = g[DOMAIN parts]
  BY Zenon DEF AddUp, M!FoldLeft, M!MapThenFoldSet, Zero, Plus
<1>2. n \in Nat /\ DOMAIN parts = 1 .. n /\ \A i \in 1 .. n : parts[i] \in Part
  OBVIOUS
<1>3. \A s : M!Max(s) = Max(s)
  BY Zenon DEF M!Max, Max
<1>4. \E f : It(f)
  <2> DEFINE step == [q \in (1 .. n) \X Part |-> Plus(q[2], parts[q[1]])]
  <2>1. Zero \in Part
    BY DEF Zero, Part
  <2>2. \A i \in 1 .. n : \A v \in Part : step[<<i, v>>] = Plus(v, parts[i])
    OBVIOUS
  <2>3. \A i \in 1 .. n : \A v \in Part : Plus(v, parts[i]) \in Part
    BY <1>2 DEF Part, Plus
  <2> HIDE DEF step, n
  <2>4. PICK f \in [SUBSET (1 .. n) -> Part] : TakesSteps(f, n, Zero, step)
    <3>1. \A i \in 1 .. n : \A v \in Part : step[<<i, v>>] \in Part
      BY <2>2, <2>3
    <3>2. n \in Nat
      BY <1>2
    <3> QED BY <3>2, <2>1, <3>1, FoldExists, Zenon
  <2>5. ASSUME NEW s \in SUBSET (1 .. n), s # {}
        PROVE  f[s] = Plus(f[s \ {Max(s)}], parts[Max(s)])
    <3>1. Max(s) \in 1 .. n
      BY <1>2, <2>5, MaxIsLast
    <3>2. f[s \ {Max(s)}] \in Part
      OBVIOUS
    <3> QED BY <2>2, <2>4, <2>5, <3>1, <3>2 DEF TakesSteps
  <2>6. \A s \in SUBSET (1 .. n) :
          f[s] = IF s = {} THEN Zero ELSE Plus(f[s \ {Max(s)}], parts[Max(s)])
    BY <2>4, <2>5 DEF TakesSteps
  <2>7. f = [s \in SUBSET (1 .. n) |-> IF s = {} THEN Zero ELSE Plus(f[s \ {Max(s)}], parts[Max(s)])]
    BY <2>6
  <2>8. It(f)
    BY <1>2, <1>3, <2>7
  <2> HIDE DEF It
  <2> QED BY <2>8
<1>5. It(g)
  <2> HIDE DEF It
  <2> QED BY <1>4
<1> HIDE DEF n, g
<1>6. \A s \in SUBSET (1 .. n) : g[s] = IF s = {} THEN Zero ELSE Plus(g[s \ {Max(s)}], parts[Max(s)])
  BY <1>2, <1>3, <1>5
<1> HIDE DEF It
<1> DEFINE P == {k \in 0 .. n : g[1 .. k] \in Part}
<1>7. 0 \in P
  <2>1. g[1 .. 0] = Zero
    <3>1. 1 .. 0 = {} /\ {} \in SUBSET (1 .. n)
      OBVIOUS
    <3> QED BY <1>6, <3>1
  <2>2. Zero \in Part
    BY DEF Zero, Part
  <2> QED BY <1>2, <2>1, <2>2
<1>8. ASSUME NEW k \in 1 .. n, k - 1 \in P PROVE k \in P
  <2>1. 1 .. k \in SUBSET (1 .. n) /\ 1 .. k # {}
    BY <1>2
  <2>2. Max(1 .. k) = k
    <3>1. Max(1 .. k) \in 1 .. k /\ \A i \in 1 .. k : i <= Max(1 .. k)
      BY <1>2, <2>1, MaxIsLast
    <3> QED BY <1>2, <3>1
  <2>3. (1 .. k) \ {k} = 1 .. (k - 1)
    BY <1>2
  <2>4. g[1 .. k] = Plus(g[1 .. (k - 1)], parts[k])
    BY <1>6, <2>1, <2>2, <2>3
  <2>5. g[1 .. (k - 1)] \in Part
    BY <1>8
  <2>6. Plus(g[1 .. (k - 1)], parts[k]) \in Part
    BY <2>5, <1>2 DEF Part, Plus
  <2> QED BY <2>4, <2>6
<1> HIDE DEF P
<1>9. \A i \in 0 .. n : i \in P
  BY <1>2, <1>7, <1>8, UpTo
<1>10. n \in P
  BY <1>2, <1>9
<1> QED BY <1>1, <1>2, <1>10 DEF P

Sides == {"LONG", "SHORT", "NONE"}

\* Nothing is said of macro.
Silent(m) == m.failed \/ Drivers = <<>> \/ ~(Required \subseteq M!UsableSeries(m))

\* A sign, a direction, what a driver says and what a surprise says are all bounded
\* or whole, whatever the series hold.
LEMMA SignIs ==
    ASSUME NEW x
    PROVE  M!Sign(x) \in {-1, 0, 1}
BY DEF M!Sign

LEMMA DirectionIs ==
    ASSUME NEW series
    PROVE  M!Direction(series) \in {-1, 0, 1}
<1> DEFINE n == Len(series)
           change == series[n].value - series[n - Lookback].value
<1>1. M!Direction(series) = 0 \/ M!Direction(series) = M!Sign(change)
  BY Zenon DEF M!Direction
<1> HIDE DEF change
<1> QED BY <1>1, SignIs

\* A driver says a part, of the series it uses or of none.
LEMMA DriverIs ==
    ASSUME NEW i \in DOMAIN Drivers, NEW used, NEW m
    PROVE  M!ContributionOf(Drivers[i], used, m) \in Part
<1> DEFINE driver == Drivers[i]
           factor == IF used = Correlated /\ M!Correlation(m) = "INVERTED" THEN Inverted ELSE 100
           weight == driver.weight * factor
<1>1. driver.relationship \in {-1, 1} /\ driver.weight \in Nat /\ factor \in Nat
  BY MacroAssumption
<1>2. M!ContributionOf(driver, used, m)
        = IF used = Nothing THEN [weight |-> 0, points |-> 0]
          ELSE [weight |-> weight, points |-> M!Direction(m.series[used]) * driver.relationship * weight]
  BY DEF M!ContributionOf
<1> HIDE DEF driver, factor
<1>3. weight \in Nat
  BY <1>1
<1> HIDE DEF weight
<1>4. M!Direction(m.series[used]) \in {-1, 0, 1}
  BY DirectionIs
<1>5. M!Direction(m.series[used]) * driver.relationship * weight \in Int
  <2> SUFFICES ASSUME NEW d \in {-1, 0, 1}, NEW r \in {-1, 1}, NEW w \in Nat PROVE d * r * w \in Int
    BY <1>1, <1>3, <1>4
  <2> QED OBVIOUS
<1>6. M!ContributionOf(driver, used, m) \in Part
  BY <1>2, <1>3, <1>5 DEF Part
<1> QED BY <1>6 DEF driver

\* A driver is judged by the series found for it.
LEMMA ContributionIs ==
    ASSUME NEW i \in DOMAIN Drivers, NEW m
    PROVE  /\ M!Contribution(Drivers[i], m)
                = M!ContributionOf(Drivers[i], M!SeriesFor(Drivers[i], M!UsableSeries(m)), m)
           /\ M!Contribution(Drivers[i], m) \in Part
<1> DEFINE used == M!SeriesFor(Drivers[i], M!UsableSeries(m))
<1>1. M!Contribution(Drivers[i], m) = CHOOSE y \in {M!ContributionOf(Drivers[i], z, m) : z \in {used}} : TRUE
  BY Zenon DEF M!Contribution, M!Once
<1> HIDE DEF used
<1>2. {M!ContributionOf(Drivers[i], z, m) : z \in {used}} = {M!ContributionOf(Drivers[i], used, m)}
  OBVIOUS
<1>3. M!Contribution(Drivers[i], m) = M!ContributionOf(Drivers[i], used, m)
  BY <1>1, <1>2
<1> QED BY <1>3, DriverIs DEF used

\* A surprise says a part.
LEMMA SurpriseIs ==
    ASSUME NEW m, NEW trusted \in BOOLEAN
    PROVE  M!OfSurprise(M!DollarMove(m, trusted)) \in Seq(Part)
<1> DEFINE move == M!DollarMove(m, trusted)
           dxy == CHOOSE d \in M!DriversOf("DXY") : TRUE
<1>1. move \in {-1, 0, 1}
  BY SignIs DEF M!DollarMove
<1> HIDE DEF move
<1>2. CASE move = 0 \/ M!DriversOf("DXY") = {}
  BY <1>2 DEF M!OfSurprise, move
<1>3. CASE ~(move = 0 \/ M!DriversOf("DXY") = {})
  <2>1. dxy \in M!DriversOf("DXY")
    BY <1>3
  <2>2. M!OfSurprise(move) = <<[weight |-> 100 * Surprise, points |-> 100 * Surprise * move * dxy.relationship]>>
    BY <1>3 DEF M!OfSurprise
  <2> HIDE DEF dxy
  <2>3. PICK i \in DOMAIN Drivers : dxy = Drivers[i]
    BY <2>1 DEF M!DriversOf, M!Range
  <2>4. dxy.relationship \in {-1, 1} /\ Surprise \in Nat
    BY <2>3, MacroAssumption
  <2>5. 100 * Surprise * move * dxy.relationship \in Int /\ 100 * Surprise \in Nat
    <3> SUFFICES ASSUME NEW s \in Nat, NEW x \in {-1, 0, 1}, NEW r \in {-1, 1} PROVE 100 * s * x * r \in Int /\ 100 * s \in Nat
      BY <1>1, <2>4
    <3> QED OBVIOUS
  <2>6. [weight |-> 100 * Surprise, points |-> 100 * Surprise * move * dxy.relationship] \in Part
    BY <2>5 DEF Part
  <2>7. M!OfSurprise(move) \in Seq(Part)
    BY <2>2, <2>6
  <2> QED BY <2>7 DEF move
<1> QED BY <1>2, <1>3

Parts(m, trusted) ==
    [i \in DOMAIN Drivers |-> M!Contribution(Drivers[i], m)] \o M!OfSurprise(M!DollarMove(m, trusted))

\* So the sum of what drivers and surprises say is one.
LEMMA SumIs ==
    ASSUME NEW m, NEW trusted \in BOOLEAN
    PROVE  M!Sum(m, trusted) = AddUp(Parts(m, trusted)) /\ M!Sum(m, trusted) \in Part
<1>1. M!Sum(m, trusted) = AddUp(Parts(m, trusted))
  BY Zenon DEF M!Sum, AddUp, Parts
<1> DEFINE told == [i \in DOMAIN Drivers |-> M!Contribution(Drivers[i], m)]
<1>2. told \in [1 .. Len(Drivers) -> Part] /\ Len(Drivers) \in Nat
  BY ContributionIs, MacroAssumption
<1>3. told \in Seq(Part)
  BY <1>2
<1> HIDE DEF told
<1>4. told \o M!OfSurprise(M!DollarMove(m, trusted)) \in Seq(Part)
  BY <1>3, SurpriseIs, ConcatProperties
<1>5. Parts(m, trusted) \in Seq(Part)
  BY <1>4 DEF Parts, told
<1> QED BY <1>1, <1>5, AddUpIs

-----------------------------------------------------------------------------
(* What macro is judged by, and the mirror of it.                          *)

\* What is judged: nothing, or the sum.
LEMMA JudgeIs ==
    ASSUME NEW m, NEW side, NEW trusted
    PROVE  /\ Silent(m) => M!Judge(m, side, trusted) = M!Withheld(m, side)
           /\ ~Silent(m) => M!Judge(m, side, trusted) = M!Judged(m, side, M!Sum(m, trusted))
<1>1. Silent(m) => M!Judge(m, side, trusted) = M!Withheld(m, side)
  BY Zenon DEF Silent, M!Judge
<1>2. ASSUME ~Silent(m) PROVE M!Judge(m, side, trusted) = M!Judged(m, side, M!Sum(m, trusted))
  <2> DEFINE sum == M!Sum(m, trusted)
  <2>1. M!Judge(m, side, trusted) = CHOOSE y \in {M!Judged(m, side, z) : z \in {sum}} : TRUE
    BY <1>2, Zenon DEF Silent, M!Judge, M!Once
  <2> HIDE DEF sum
  <2>2. {M!Judged(m, side, z) : z \in {sum}} = {M!Judged(m, side, sum)}
    OBVIOUS
  <2>3. M!Judge(m, side, trusted) = M!Judged(m, side, sum)
    BY <2>1, <2>2
  <2> QED BY <2>3 DEF sum
<1> QED BY <1>1, <1>2

\* A series that is usable is fresh, and stays as it is when the others go.
OnlyFresh(m) == [m EXCEPT !.series = [id \in Fresh(m) |-> m.series[id]]]

LEMMA UsableIsFresh ==
    ASSUME NEW m \in Inputs
    PROVE  M!UsableSeries(m) \subseteq Fresh(m)
<1> SUFFICES ASSUME NEW id \in M!UsableSeries(m) PROVE id \in Fresh(m)
  OBVIOUS
<1> DEFINE series == m.series[id]
           n == Len(series)
<1>1. id \in DOMAIN m.series /\ n >= MinObservations /\ ~(m.today - series[n].day > MaxAgeDays)
  BY DEF M!UsableSeries, M!LongEnough, M!Stale
<1>2. series \in Seq([day : Int, value : Int]) /\ m.today \in Int
  BY <1>1, RequestAssumption
<1>3. MinObservations > 0 /\ MinObservations \in Nat /\ MaxAgeDays \in Nat
  BY MacroAssumption
<1> HIDE DEF series
<1>4. n \in Nat /\ n > 0 /\ series # <<>>
  BY <1>1, <1>2, <1>3
<1>5. series[n].day \in Int
  <2>1. series[n] \in [day : Int, value : Int]
    <3> DEFINE S == [day : Int, value : Int]
    <3>1. series \in Seq(S)
      BY <1>2
    <3> HIDE DEF S
    <3>2. series \in [1 .. Len(series) -> S]
      BY <3>1, LenProperties
    <3>3. n \in 1 .. Len(series)
      BY <1>4
    <3>4. series[n] \in S
      BY <3>2, <3>3
    <3> QED BY <3>4 DEF S
  <2> QED BY <2>1
<1>6. m.today - series[n].day <= MaxAgeDays
  BY <1>1, <1>2, <1>3, <1>5
<1> QED BY <1>1, <1>4, <1>6 DEF Fresh, series

\* What is usable does not depend on the series that are not fresh.
LEMMA FreshStays ==
    ASSUME NEW m \in Inputs
    PROVE  /\ M!UsableSeries(OnlyFresh(m)) = M!UsableSeries(m)
           /\ \A id \in Fresh(m) : OnlyFresh(m).series[id] = m.series[id]
           /\ OnlyFresh(m).failed = m.failed /\ OnlyFresh(m).synthetic = m.synthetic
           /\ OnlyFresh(m).releases = m.releases /\ OnlyFresh(m).closes = m.closes
<1> DEFINE k == OnlyFresh(m)
<1>1. DOMAIN m = {"failed", "synthetic", "series", "closes", "releases", "today"}
  BY RequestAssumption
<1>2. /\ k.failed = m.failed /\ k.synthetic = m.synthetic /\ k.today = m.today
      /\ k.releases = m.releases /\ k.closes = m.closes
  BY <1>1 DEF OnlyFresh
<1>3. k.series = [id \in Fresh(m) |-> m.series[id]]
  BY <1>1 DEF OnlyFresh
<1> HIDE DEF k
<1>4. Fresh(m) \subseteq DOMAIN m.series
  BY DEF Fresh
<1>5. M!UsableSeries(k) = M!UsableSeries(m)
  <2>1. ASSUME NEW id \in M!UsableSeries(m) PROVE id \in M!UsableSeries(k)
    <3>1. id \in Fresh(m)
      BY <2>1, UsableIsFresh
    <3>2. id \in DOMAIN k.series /\ k.series[id] = m.series[id]
      BY <1>3, <3>1
    <3> QED BY <1>2, <2>1, <3>2 DEF M!UsableSeries, M!LongEnough, M!Stale
  <2>2. ASSUME NEW id \in M!UsableSeries(k) PROVE id \in M!UsableSeries(m)
    <3>1. id \in DOMAIN k.series
      BY <2>2 DEF M!UsableSeries, M!LongEnough
    <3>2. id \in DOMAIN m.series /\ k.series[id] = m.series[id]
      BY <1>3, <1>4, <3>1
    <3> QED BY <1>2, <2>2, <3>2 DEF M!UsableSeries, M!LongEnough, M!Stale
  <2> QED BY <2>1, <2>2
<1> QED BY <1>2, <1>3, <1>5 DEF k

\* What a series adds to the sum is the same without those that are not fresh.
LEMMA SameContribution ==
    ASSUME NEW m \in Inputs, NEW i \in DOMAIN Drivers
    PROVE  M!Contribution(Drivers[i], OnlyFresh(m)) = M!Contribution(Drivers[i], m)
<1> DEFINE k == OnlyFresh(m)
           usable == M!UsableSeries(m)
           used == M!SeriesFor(Drivers[i], usable)
<1>1. /\ M!UsableSeries(k) = usable /\ usable \subseteq Fresh(m) /\ Fresh(m) \subseteq DOMAIN m.series
      /\ \A id \in Fresh(m) : k.series[id] = m.series[id] /\ k.closes = m.closes
  BY FreshStays, UsableIsFresh DEF Fresh
<1>2. used = Nothing \/ used \in usable
  BY Zenon DEF M!SeriesFor
<1>3. M!Contribution(Drivers[i], k) = M!ContributionOf(Drivers[i], used, k)
  BY <1>1, ContributionIs
<1>4. M!Contribution(Drivers[i], m) = M!ContributionOf(Drivers[i], used, m)
  BY ContributionIs
<1>5. ASSUME Correlated \in usable PROVE M!Correlation(k) = M!Correlation(m)
  <2>1. Correlated \in DOMAIN m.series /\ Correlated \in DOMAIN k.series
    <3>1. Correlated \in DOMAIN k.series
      BY <1>1, <1>5 DEF M!UsableSeries, M!LongEnough
    <3> QED BY <1>1, <1>5, <3>1
  <2>2. k.series[Correlated] = m.series[Correlated] /\ k.closes = m.closes
    BY <1>1, <1>5
  <2> HIDE DEF k
  <2> DEFINE relationship == (CHOOSE d \in M!DriversOf(Correlated) : TRUE).relationship
  <2>3. \A n : Correlated \in DOMAIN n.series =>
          M!Correlation(n) = IF M!DriversOf(Correlated) = {} THEN "UNAVAILABLE"
                             ELSE M!Regime(n.closes, n.series[Correlated], relationship)
    BY DEF M!Correlation
  <2> HIDE DEF relationship
  <2> QED BY <2>1, <2>2, <2>3
<1> HIDE DEF k, used
<1>6. M!ContributionOf(Drivers[i], used, k) = M!ContributionOf(Drivers[i], used, m)
  <2>1. CASE used = Nothing
    BY <2>1, Zenon DEF M!ContributionOf
  <2>2. CASE used \in usable
    <3>1. k.series[used] = m.series[used]
      BY <1>1, <2>2
    <3>2. (used = Correlated /\ M!Correlation(k) = "INVERTED") = (used = Correlated /\ M!Correlation(m) = "INVERTED")
      BY <1>5, <2>2
    <3> QED BY <3>1, <3>2 DEF M!ContributionOf
  <2> QED BY <1>2, <2>1, <2>2
<1> QED BY <1>3, <1>4, <1>6 DEF k

\* So is what is judged.
LEMMA SameJudgement ==
    ASSUME NEW m \in Inputs, NEW side, NEW trusted \in BOOLEAN
    PROVE  M!Judge(OnlyFresh(m), side, trusted) = M!Judge(m, side, trusted)
<1> DEFINE k == OnlyFresh(m)
<1>1. /\ M!UsableSeries(k) = M!UsableSeries(m) /\ k.failed = m.failed
      /\ k.synthetic = m.synthetic /\ k.releases = m.releases
  BY FreshStays
<1>2. [i \in DOMAIN Drivers |-> M!Contribution(Drivers[i], k)] = [i \in DOMAIN Drivers |-> M!Contribution(Drivers[i], m)]
  BY SameContribution
<1> HIDE DEF k
<1>3. M!DollarMove(k, trusted) = M!DollarMove(m, trusted)
  BY <1>1, Zenon DEF M!DollarMove
<1>4. Parts(k, trusted) = Parts(m, trusted)
  BY <1>2, <1>3, Zenon DEF Parts
<1>5. M!Sum(k, trusted) = M!Sum(m, trusted)
  BY <1>4, SumIs
<1>6. Silent(k) <=> Silent(m)
  BY <1>1 DEF Silent
<1>7. M!Withheld(k, side) = M!Withheld(m, side)
  BY <1>1 DEF M!Withheld
<1>8. \A sum : M!Judged(k, side, sum) = M!Judged(m, side, sum)
  BY <1>1 DEF M!Judged
<1>9. M!Judge(k, side, trusted) = M!Judge(m, side, trusted)
  BY <1>5, <1>6, <1>7, <1>8, JudgeIs, Zenon
<1> QED BY <1>9 DEF k

\* The thresholds are the same for both sides.
LEMMA StatesMirror ==
    ASSUME NEW p \in Int, NEW w \in Nat, w > 0
    PROVE  /\ M!StateAt(p, w) \in MacroStates
           /\ M!StateAt(-p, w) = Mirror[M!StateAt(p, w)]
           /\ M!Bias(p, w) = "BULLISH" <=> M!StateAt(p, w) \in {"SUPPORTIVE", "STRONGLY_SUPPORTIVE"}
           /\ M!Bias(p, w) = "BEARISH" <=> M!StateAt(p, w) \in {"CONFLICT", "STRONG_CONFLICT"}
           /\ M!Bias(p, w) \in {"BULLISH", "BEARISH", "NEUTRAL"}
<1> DEFINE x == 100 * p
           near == Supportive * w
           far == Strongly * w
<1>1. near \in Int /\ far \in Int /\ 0 < near /\ near < far
  <2> SUFFICES ASSUME NEW a \in Nat, NEW b \in Nat, 0 < a, a < b PROVE a * w \in Int /\ b * w \in Int /\ 0 < a * w /\ a * w < b * w
    BY MacroAssumption
  <2>1. b * w = a * w + (b - a) * w /\ (b - a) * w > 0 /\ a * w > 0
    OBVIOUS
  <2> QED BY <2>1
<1>2. x \in Int /\ 100 * (-p) = -x
  OBVIOUS
<1>3. -Supportive * w = -near /\ -Strongly * w = -far
  <2> SUFFICES ASSUME NEW a \in Nat PROVE -a * w = -(a * w)
    BY MacroAssumption
  <2> QED OBVIOUS
<1>4. M!StateAt(p, w) = IF x >= far THEN "STRONGLY_SUPPORTIVE" ELSE IF x >= near THEN "SUPPORTIVE"
                        ELSE IF x > -near THEN "NEUTRAL" ELSE IF x > -far THEN "CONFLICT" ELSE "STRONG_CONFLICT"
  BY <1>3 DEF M!StateAt
<1>5. M!StateAt(-p, w) = IF -x >= far THEN "STRONGLY_SUPPORTIVE" ELSE IF -x >= near THEN "SUPPORTIVE"
                         ELSE IF -x > -near THEN "NEUTRAL" ELSE IF -x > -far THEN "CONFLICT" ELSE "STRONG_CONFLICT"
  BY <1>2, <1>3 DEF M!StateAt
<1>6. M!Bias(p, w) = IF x >= near THEN "BULLISH" ELSE IF x <= -near THEN "BEARISH" ELSE "NEUTRAL"
  BY <1>3 DEF M!Bias
<1> HIDE DEF x, near, far
<1> QED BY <1>1, <1>2, <1>4, <1>5, <1>6 DEF Mirror, MacroStates

\* A judgement is an assessment of the side asked for; it is available unless silent.
LEMMA JudgeAssesses ==
    ASSUME NEW m \in Inputs, NEW side \in Sides, NEW trusted \in BOOLEAN
    PROVE  /\ M!Judge(m, side, trusted) \in Assessment
           /\ M!Judge(m, side, trusted).side = side
           /\ M!Judge(m, side, trusted).available <=> ~Silent(m)
           /\ ~Silent(m) => M!Judge(m, side, trusted).synthetic = m.synthetic
<1>1. m.failed \in BOOLEAN /\ m.synthetic \in BOOLEAN
  BY RequestAssumption
<1>2. CASE Silent(m)
  <2>1. M!Judge(m, side, trusted) = M!Withheld(m, side)
    BY <1>2, JudgeIs
  <2>2. M!Withheld(m, side) \in Assessment
    BY <1>1 DEF M!Withheld, Assessment, Sides
  <2> QED BY <1>2, <2>1, <2>2 DEF M!Withheld
<1>3. CASE ~Silent(m)
  <2> DEFINE sum == M!Sum(m, trusted)
             weight == IF sum.weight = 0 THEN 1 ELSE sum.weight
  <2>1. M!Judge(m, side, trusted) = M!Judged(m, side, sum)
    BY <1>3, JudgeIs
  <2>2. sum \in Part
    BY SumIs
  <2>3. sum.points \in Int /\ -sum.points \in Int /\ weight \in Nat /\ weight > 0
    BY <2>2 DEF Part
  <2>4. M!Judged(m, side, sum)
          = [available |-> TRUE, synthetic |-> m.synthetic, side |-> side,
             bias |-> M!Bias(sum.points, weight), state |-> M!StateFor(sum.points, weight, side)]
    BY DEF M!Judged
  <2> HIDE DEF sum, weight
  <2>5. M!Bias(sum.points, weight) \in {"BULLISH", "BEARISH", "NEUTRAL", "UNAVAILABLE"}
    BY DEF M!Bias
  <2>6. M!StateFor(sum.points, weight, side) \in MacroStates \cup {"NONE", "UNAVAILABLE"}
    BY <2>3, StatesMirror DEF M!StateFor
  <2>7. M!Judged(m, side, sum) \in Assessment
    BY <1>1, <2>4, <2>5, <2>6 DEF Assessment, Sides
  <2> QED BY <1>3, <2>1, <2>4, <2>7
<1> QED BY <1>2, <1>3

\* What is judged for one side mirrors what is judged for the other.
LEMMA JudgementsMirror ==
    ASSUME NEW m \in Inputs, NEW side \in {"LONG", "SHORT"}, NEW trusted \in BOOLEAN, ~Silent(m)
    PROVE  LET told  == M!Judge(m, side, trusted)
               other == M!Judge(m, IF side = "LONG" THEN "SHORT" ELSE "LONG", trusted)
               long  == IF side = "LONG" THEN told ELSE other
           IN  /\ other.state = Mirror[told.state] /\ other.bias = told.bias
               /\ told.bias = "BULLISH" <=> long.state \in {"SUPPORTIVE", "STRONGLY_SUPPORTIVE"}
               /\ told.bias = "BEARISH" <=> long.state \in {"CONFLICT", "STRONG_CONFLICT"}
<1> DEFINE sum == M!Sum(m, trusted)
           p == sum.points
           w == IF sum.weight = 0 THEN 1 ELSE sum.weight
<1>1. sum \in Part
  BY SumIs
<1>2. p \in Int /\ -p \in Int /\ -(-p) = p /\ w \in Nat /\ w > 0
  BY <1>1 DEF Part
<1>3. \A s : M!Judge(m, s, trusted) = M!Judged(m, s, sum)
  BY JudgeIs
<1>4. \A s : M!Judged(m, s, sum).state = M!StateFor(p, w, s) /\ M!Judged(m, s, sum).bias = M!Bias(p, w)
  BY DEF M!Judged
<1> HIDE DEF sum
<1>5. \A s : M!Judge(m, s, trusted).state = M!StateFor(p, w, s) /\ M!Judge(m, s, trusted).bias = M!Bias(p, w)
  BY <1>3, <1>4
<1> HIDE DEF p, w
<1>6. M!StateFor(p, w, "LONG") = M!StateAt(p, w) /\ M!StateFor(p, w, "SHORT") = M!StateAt(-p, w)
  BY DEF M!StateFor
<1>7. /\ M!StateAt(-p, w) = Mirror[M!StateAt(p, w)]
      /\ M!Bias(p, w) = "BULLISH" <=> M!StateAt(p, w) \in {"SUPPORTIVE", "STRONGLY_SUPPORTIVE"}
      /\ M!Bias(p, w) = "BEARISH" <=> M!StateAt(p, w) \in {"CONFLICT", "STRONG_CONFLICT"}
  BY <1>2, StatesMirror
<1>8. M!StateAt(p, w) = Mirror[M!StateAt(-p, w)]
  BY <1>2, StatesMirror
<1>9. CASE side = "LONG"
  BY <1>5, <1>6, <1>7, <1>9
<1>10. CASE side = "SHORT"
  BY <1>5, <1>6, <1>7, <1>8, <1>10
<1> QED BY <1>9, <1>10

-----------------------------------------------------------------------------
\* What the score is made from.
PointsFrom(earned) == MapThenSumSet(LAMBDA f : Min({earned[f], Weight[f]}), Factors)
WeightOf(factors) == MapThenSumSet(LAMBDA f : Weight[f], factors)

\* A score is the same without a macro that does not count.
LEMMA UnheardMacro ==
    ASSUME NEW e, "macro" \in DOMAIN e, MacroState(e) = Nothing
    PROVE  Scored(e) = Scored([e EXCEPT !.macro = Nothing])
<1> DEFINE b == [e EXCEPT !.macro = Nothing]
<1>1. /\ b.side = e.side /\ b.htf = e.htf /\ b.dol = e.dol /\ b.target = e.target /\ b.event = e.event
      /\ b.zones = e.zones /\ b.touched = e.touched /\ b.same = e.same /\ b.opposite = e.opposite
      /\ b.break = e.break /\ b.displaced = e.displaced /\ b.time = e.time /\ b.exhausted = e.exhausted
      /\ b.plan = e.plan /\ b.rr = e.rr /\ b.locked = e.locked
  OBVIOUS
<1>2. b.macro = Nothing
  OBVIOUS
<1> HIDE DEF b
<1>3. MacroState(b) = MacroState(e) /\ Against(b) = Against(e)
  BY <1>1, <1>2 DEF MacroState, Against
<1>4. Earned(b) = Earned(e)
  BY <1>1, <1>3 DEF Earned, When
<1>5. Adjustment(b) = Adjustment(e)
  BY <1>1, <1>3 DEF Adjustment
<1>6. \A x : Score(x) = Between(0, PointsFrom(Earned(x)) + Adjustment(x), 1000)
  BY Zenon DEF Score, PointsFrom
<1>7. Score(b) = Score(e)
  BY <1>4, <1>5, <1>6
<1>8. MacroConflict(b) = MacroConflict(e)
  BY <1>3 DEF MacroConflict
<1>9. Conflict(b) = Conflict(e)
  BY <1>1, <1>3, <1>8 DEF Conflict
<1>10. NotEvaluated(b) = NotEvaluated(e)
  BY <1>1, <1>3 DEF NotEvaluated
<1>11. \A x : EvaluatedMax(x) = WeightOf(Factors \ NotEvaluated(x))
  BY Zenon DEF EvaluatedMax, WeightOf
<1>12. EvaluatedMax(b) = EvaluatedMax(e)
  BY <1>10, <1>11
<1>13. Scored(b) = Scored(e)
  BY <1>7, <1>9, <1>12, Zenon DEF Scored
<1> QED BY <1>13 DEF b

\* An answer is fair when it is what the macro input gives, and the score is of it.
LEMMA AnswersAreFair ==
    ASSUME NEW m \in Inputs, NEW side \in Sides, NEW trusted \in BOOLEAN, NEW score, NEW outcome, NEW evidence,
           score.score # Nothing => evidence.macro = M!Judge(m, side, trusted)
                                    /\ "macro" \in DOMAIN evidence /\ score = Scored(evidence),
           answer' = [macro |-> M!Judge(m, side, trusted), score |-> score, outcome |-> outcome,
                      evidence |-> evidence, input |-> m, trusted |-> trusted]
    PROVE  MacroIsFair'
<1> DEFINE told == M!Judge(m, side, trusted)
           kept == [m EXCEPT !.series = [id \in Fresh(m) |-> m.series[id]]]
<1>1. /\ answer'.macro = told /\ answer'.score = score /\ answer'.evidence = evidence
      /\ answer'.input = m /\ answer'.trusted = trusted
  OBVIOUS
<1>2. /\ told \in Assessment /\ told.side = side /\ (told.available <=> ~Silent(m))
      /\ ~Silent(m) => told.synthetic = m.synthetic
  BY JudgeAssesses
<1>3. told = M!Judge(kept, told.side, trusted)
  BY <1>2, SameJudgement DEF OnlyFresh
<1>4. ASSUME score.score # Nothing, m.failed \/ m.synthetic \/ ~(Required \subseteq Fresh(m))
      PROVE  score = Scored([evidence EXCEPT !.macro = Nothing])
  <2>1. Silent(m) \/ m.synthetic
    BY <1>4, UsableIsFresh DEF Silent
  <2>2. ~told.available \/ told.synthetic
    BY <1>2, <2>1
  <2>3. MacroState(evidence) = Nothing
    BY <2>2, <1>4 DEF MacroState
  <2> QED BY <1>4, <2>3, UnheardMacro
<1> HIDE DEF told, kept
<1>5. UntrustedMacroIsSilent'
  BY <1>1, <1>3, <1>4, Zenon DEF UntrustedMacroIsSilent, WasScored, kept
<1>6. MacroMirrors'
  <2>1. SUFFICES ASSUME told.available, side # "NONE"
        PROVE  LET other == M!Judge(m, IF side = "LONG" THEN "SHORT" ELSE "LONG", trusted)
                   long  == IF side = "LONG" THEN told ELSE other
               IN  /\ other.state = Mirror[told.state] /\ other.bias = told.bias
                   /\ told.bias = "BULLISH" <=> long.state \in {"SUPPORTIVE", "STRONGLY_SUPPORTIVE"}
                   /\ told.bias = "BEARISH" <=> long.state \in {"CONFLICT", "STRONG_CONFLICT"}
    BY <1>1, <1>2 DEF MacroMirrors
  <2>2. side \in {"LONG", "SHORT"} /\ ~Silent(m)
    BY <2>1, <1>2 DEF Sides
  <2> QED BY <2>2, JudgementsMirror DEF told
<1> QED BY <1>5, <1>6 DEF MacroIsFair

\* An evaluation answers fairly.
LEMMA EvaluateIsFair ==
    ASSUME NEW q \in Requests, Evaluate(q.run, q.news, q.risk, q.userSpec, q.evidence, q.input, q.fails)
    PROVE  MacroIsFair'
<1> DEFINE m == q.input
           side == SideToCompare(q.run)
           trusted == Trusted(q.news)
           told == M!Judge(m, side, trusted)
           with == [q.evidence EXCEPT !.macro = told]
           seen == [q.run EXCEPT !.eligible = @ /\ ~q.fails]
           score == ScoreOf(with, seen)
           outcome == Outcome(seen, q.news, q.risk, HardBlockers(seen, q.news, q.risk, q.userSpec))
<1>1. m \in Inputs /\ q.evidence \in Evidence /\ q.run \in Runs
  BY DEF Requests
<1>2. trusted \in BOOLEAN
  BY DEF Trusted
<1>3. side \in Sides
  BY <1>1 DEF SideToCompare, Runs, Sides
<1>4. answer' = [macro |-> told, score |-> score, outcome |-> outcome, evidence |-> with,
                 input |-> m, trusted |-> trusted]
  BY Zenon DEF Evaluate
<1>5. q.evidence \in EvidenceOf
  BY <1>1, RequestAssumption
<1>6. "macro" \in DOMAIN with /\ with.macro = told
  BY <1>5 DEF EvidenceOf
<1>7. score = Scored(with) \/ score = NotScored
  BY DEF ScoreOf
<1>8. NotScored.score = Nothing
  BY DEF NotScored
<1> HIDE DEF m, side, trusted, told, with, seen, score, outcome
<1>9. score.score # Nothing => with.macro = told /\ "macro" \in DOMAIN with /\ score = Scored(with)
  BY <1>6, <1>7, <1>8
<1> QED BY <1>1, <1>2, <1>3, <1>4, <1>9, AnswersAreFair DEF told

\* And so does an assessment without a setup.
LEMMA AssessmentIsFair ==
    ASSUME NEW side \in Sides, NEW m \in Inputs, AssessMacro(side, m)
    PROVE  MacroIsFair'
<1>1. answer' = [macro |-> M!Judge(m, side, FALSE), score |-> NotScored, outcome |-> "NONE",
                 evidence |-> Nothing, input |-> m, trusted |-> FALSE]
  BY DEF AssessMacro
<1>2. NotScored.score = Nothing
  BY DEF NotScored
<1> QED BY <1>1, <1>2, AnswersAreFair

(***************************************************************************)
(* Whatever the drivers, thresholds and series are: a series that is not   *)
(* fresh counts no more than a missing one, an untrusted snapshot scores   *)
(* as none, and what supports one side is in conflict with the other       *)
(* (macro/engine.py assess, state_for; scoring/engine.py _macro_state).    *)
(***************************************************************************)
THEOREM MacroSpeaksTrue == RequestSpec => []MacroIsFair
<1>1. RequestInit => MacroIsFair
  BY DEF RequestInit, MacroIsFair, UntrustedMacroIsSilent, MacroMirrors
<1>2. MacroIsFair /\ [RequestNext(Requests, Inputs)]_<<vars, answer>> => MacroIsFair'
  <2> SUFFICES ASSUME MacroIsFair, [RequestNext(Requests, Inputs)]_<<vars, answer>> PROVE MacroIsFair'
    OBVIOUS
  <2>1. CASE answer' = answer
    BY <2>1 DEF MacroIsFair, UntrustedMacroIsSilent, MacroMirrors, WasScored
  <2>2. CASE answer' = Nothing
    BY <2>2 DEF MacroIsFair, UntrustedMacroIsSilent, MacroMirrors
  <2>3. ASSUME NEW q \in Requests, Evaluate(q.run, q.news, q.risk, q.userSpec, q.evidence, q.input, q.fails)
        PROVE  MacroIsFair'
    BY <2>3, EvaluateIsFair
  <2>4. ASSUME NEW side \in {"LONG", "SHORT", "NONE"}, NEW m \in Inputs, AssessMacro(side, m)
        PROVE  MacroIsFair'
    BY <2>4, AssessmentIsFair DEF Sides
  <2> QED BY <2>1, <2>2, <2>3, <2>4, Zenon DEF RequestNext, Decides, Answered
<1> QED BY <1>1, <1>2, PTL DEF RequestSpec

-----------------------------------------------------------------------------
(* Points, conflict, grade and confidence do not fall with better evidence. *)

Least(x, y) == IF x <= y THEN x ELSE y
Most(x, y) == IF x >= y THEN x ELSE y

\* The least and the most of two numbers.
LEMMA OfTwo ==
    ASSUME NEW x \in Int, NEW y \in Int
    PROVE  Min({x, y}) = Least(x, y) /\ Max({x, y}) = Most(x, y)
<1>1. Min({x, y}) \in {x, y} /\ \A z \in {x, y} : Min({x, y}) <= z
  <2>1. \E m \in {x, y} : \A z \in {x, y} : m <= z
    OBVIOUS
  <2> QED BY <2>1, Zenon DEF Min
<1>2. Max({x, y}) \in {x, y} /\ \A z \in {x, y} : Max({x, y}) >= z
  <2>1. \E m \in {x, y} : \A z \in {x, y} : m >= z
    OBVIOUS
  <2> QED BY <2>1, Zenon DEF Max
<1> QED BY <1>1, <1>2 DEF Least, Most

\* A score that is clamped.
LEMMA WithinIs ==
    ASSUME NEW x \in Int
    PROVE  Between(0, x, 1000) = Most(0, Least(x, 1000)) /\ Between(0, x, 1000) \in Int
<1>1. Min({x, 1000}) = Least(x, 1000) /\ Least(x, 1000) \in Int
  BY OfTwo DEF Least
<1>2. Max({0, Least(x, 1000)}) = Most(0, Least(x, 1000))
  BY <1>1, OfTwo
<1>3. Most(0, Least(x, 1000)) \in Int
  BY <1>1 DEF Most
<1> QED BY <1>1, <1>2, <1>3 DEF Between

-----------------------------------------------------------------------------
\* The points of a set of factors are its parts'.
Taken(earned) == [f \in Factors |-> Min({earned[f], Weight[f]})]

Picked == [s \in SUBSET Factors |-> CHOOSE f \in s : TRUE]

AddsUp(sums, taken) ==
    \A s \in SUBSET Factors :
       sums[s] = IF s = {} THEN 0 ELSE taken[Picked[s]] + sums[s \ {Picked[s]}]

\* There are finitely many factors, and one of a set is picked.
LEMMA FactorsAreFinite ==
    IsFiniteSet(Factors) /\ \A s \in SUBSET Factors : s # {} => Picked[s] \in s
<1>1. IsFiniteSet(Factors)
  <2>1. \A S, x : IsFiniteSet(S) => IsFiniteSet(S \cup {x})
    BY FS_AddElement
  <2>2. IsFiniteSet({"HTF", "LIQUIDITY", "STRUCTURE"})
    <3>1. IsFiniteSet((({} \cup {"HTF"}) \cup {"LIQUIDITY"}) \cup {"STRUCTURE"})
      BY <2>1, FS_EmptySet
    <3>2. (({} \cup {"HTF"}) \cup {"LIQUIDITY"}) \cup {"STRUCTURE"} = {"HTF", "LIQUIDITY", "STRUCTURE"}
      OBVIOUS
    <3> QED BY <3>1, <3>2
  <2>3. IsFiniteSet({"HTF", "LIQUIDITY", "STRUCTURE", "DISPLACEMENT", "PD_ARRAY", "NO_WICK"})
    <3> DEFINE T == {"HTF", "LIQUIDITY", "STRUCTURE"}
    <3>1. IsFiniteSet(((T \cup {"DISPLACEMENT"}) \cup {"PD_ARRAY"}) \cup {"NO_WICK"})
      BY <2>1, <2>2
    <3>2. ((T \cup {"DISPLACEMENT"}) \cup {"PD_ARRAY"}) \cup {"NO_WICK"}
            = {"HTF", "LIQUIDITY", "STRUCTURE", "DISPLACEMENT", "PD_ARRAY", "NO_WICK"}
      OBVIOUS
    <3> QED BY <3>1, <3>2
  <2> DEFINE T == {"HTF", "LIQUIDITY", "STRUCTURE", "DISPLACEMENT", "PD_ARRAY", "NO_WICK"}
  <2>4. IsFiniteSet((((T \cup {"SESSION"}) \cup {"MACRO"}) \cup {"ENTRY"}) \cup {"RISK_RR"})
    BY <2>1, <2>3
  <2>5. (((T \cup {"SESSION"}) \cup {"MACRO"}) \cup {"ENTRY"}) \cup {"RISK_RR"} = Factors
    BY DEF Factors
  <2> QED BY <2>4, <2>5
<1> QED BY <1>1 DEF Picked

\* Induction over the sets of factors.
LEMMA OverFactors ==
    ASSUME NEW P, {} \in P, \A s \in SUBSET Factors : s # {} /\ s \ {Picked[s]} \in P => s \in P
    PROVE  \A s \in SUBSET Factors : s \in P
BY FactorsAreFinite, OverSubsets

\* The points of all factors are the sum over them.
LEMMA PointsAddUp ==
    ASSUME NEW earned, \A f \in Factors : earned[f] \in Int
    PROVE  /\ Taken(earned) \in [Factors -> Int]
           /\ \E sums \in [SUBSET Factors -> Int] :
                AddsUp(sums, Taken(earned)) /\ PointsFrom(earned) = sums[Factors]
<1> DEFINE taken == Taken(earned)
           It(f) == f = [s \in SUBSET Factors |->
                       IF s = {} THEN 0
                       ELSE Min({earned[CHOOSE x \in s : TRUE], Weight[CHOOSE x \in s : TRUE]})
                              + f[s \ {CHOOSE x \in s : TRUE}]]
           g == CHOOSE f : It(f)
<1>1. taken \in [Factors -> Int]
  <2> SUFFICES ASSUME NEW f \in Factors PROVE Min({earned[f], Weight[f]}) \in Int
    BY DEF Taken
  <2>1. earned[f] \in Int /\ Weight[f] \in Int
    BY PointsAssumption
  <2> QED BY <2>1, OfTwo DEF Least
<1>2. PointsFrom(earned) = g[Factors]
  BY Zenon DEF PointsFrom, MapThenSumSet, MapThenFoldSet
<1>3. PICK f \in [SUBSET Factors -> Int] : AddsUp(f, taken)
  <2> DEFINE step == [q \in Factors \X Int |-> taken[q[1]] + q[2]]
  <2>1. \A x \in Factors : \A v \in Int : step[<<x, v>>] = taken[x] + v /\ taken[x] + v \in Int
    BY <1>1
  <2> HIDE DEF step, taken
  <2>2. PICK f \in [SUBSET Factors -> Int] : Steps(f, Factors, Picked, 0, step)
    <3>1. \A x \in Factors : \A v \in Int : step[<<x, v>>] \in Int
      BY <2>1
    <3>2. 0 \in Int
      OBVIOUS
    <3> QED BY <3>1, <3>2, FactorsAreFinite, StepsExist, Zenon
  <2>3. ASSUME NEW s \in SUBSET Factors, s # {}
        PROVE  f[s] = taken[Picked[s]] + f[s \ {Picked[s]}]
    <3>1. Picked[s] \in Factors
      BY FactorsAreFinite, <2>3
    <3>2. f[s \ {Picked[s]}] \in Int
      OBVIOUS
    <3> QED BY <2>1, <2>2, <2>3, <3>1, <3>2 DEF Steps
  <2> QED BY <2>2, <2>3 DEF AddsUp, Steps
<1>4. It(f)
  <2>1. ASSUME NEW s \in SUBSET Factors, s # {}
        PROVE  f[s] = Min({earned[CHOOSE x \in s : TRUE], Weight[CHOOSE x \in s : TRUE]})
                              + f[s \ {CHOOSE x \in s : TRUE}]
    <3>1. Picked[s] = (CHOOSE x \in s : TRUE) /\ Picked[s] \in Factors
      BY <2>1, FactorsAreFinite DEF Picked
    <3>2. taken[Picked[s]] = Min({earned[Picked[s]], Weight[Picked[s]]})
      BY <3>1 DEF Taken
    <3>3. f[s] = taken[Picked[s]] + f[s \ {Picked[s]}]
      BY <1>3, <2>1 DEF AddsUp
    <3> QED BY <3>1, <3>2, <3>3, Zenon
  <2>2. f[{}] = 0
    BY <1>3 DEF AddsUp
  <2> QED BY <2>1, <2>2
<1>5. It(g)
  <2> HIDE DEF It
  <2> QED BY <1>4
<1>6. g \in [SUBSET Factors -> Int] /\ AddsUp(g, taken)
  <2>1. \A s \in SUBSET Factors : s # {} =>
          g[s] = taken[Picked[s]] + g[s \ {Picked[s]}]
    <3> SUFFICES ASSUME NEW s \in SUBSET Factors, s # {}
                 PROVE  g[s] = taken[Picked[s]] + g[s \ {Picked[s]}]
      OBVIOUS
    <3>1. Picked[s] = (CHOOSE x \in s : TRUE) /\ Picked[s] \in Factors
      BY FactorsAreFinite DEF Picked
    <3>2. taken[Picked[s]] = Min({earned[Picked[s]], Weight[Picked[s]]})
      BY <3>1 DEF Taken
    <3> HIDE DEF g
    <3>3. g[s] = Min({earned[CHOOSE x \in s : TRUE], Weight[CHOOSE x \in s : TRUE]})
                              + g[s \ {CHOOSE x \in s : TRUE}]
      BY <1>5
    <3> QED BY <3>1, <3>2, <3>3, Zenon
  <2>2. g[{}] = 0
    <3> HIDE DEF g
    <3> QED BY <1>5
  <2>3. DOMAIN g = SUBSET Factors /\ g = [s \in SUBSET Factors |-> g[s]]
    <3> HIDE DEF g
    <3> QED BY <1>5
  <2> HIDE DEF g, It, taken
  <2> DEFINE P == {s \in SUBSET Factors : g[s] \in Int}
  <2>4. {} \in P
    BY <2>2
  <2>5. ASSUME NEW s \in SUBSET Factors, s # {}, s \ {Picked[s]} \in P PROVE s \in P
    <3>1. Picked[s] \in Factors
      BY FactorsAreFinite, <2>5
    <3>2. taken[Picked[s]] \in Int
      BY <1>1, <3>1
    <3>3. g[s \ {Picked[s]}] \in Int
      BY <2>5
    <3>4. g[s] = taken[Picked[s]] + g[s \ {Picked[s]}]
      BY <2>1, <2>5
    <3> QED BY <3>2, <3>3, <3>4
  <2> HIDE DEF P
  <2>6. \A s \in SUBSET Factors : s \in P
    BY <2>4, <2>5, OverFactors
  <2>7. \A s \in SUBSET Factors : g[s] \in Int
    BY <2>6 DEF P
  <2> QED BY <2>1, <2>2, <2>3, <2>7 DEF AddsUp
<1> HIDE DEF g
<1> QED BY <1>1, <1>2, <1>6

\* More of one factor and no less of the others is more points by as much.
LEMMA MorePoints ==
    ASSUME NEW low, NEW high, NEW one \in Factors, NEW more \in Int,
           \A f \in Factors : low[f] \in Int /\ high[f] \in Int,
           \A f \in Factors : Taken(low)[f] <= Taken(high)[f], Taken(low)[one] + more <= Taken(high)[one]
    PROVE  PointsFrom(low) \in Int /\ PointsFrom(high) \in Int /\ PointsFrom(low) + more <= PointsFrom(high)
<1> DEFINE a == Taken(low)
           b == Taken(high)
<1>1. PICK x \in [SUBSET Factors -> Int] : AddsUp(x, a) /\ PointsFrom(low) = x[Factors]
  BY PointsAddUp
<1>2. PICK y \in [SUBSET Factors -> Int] : AddsUp(y, b) /\ PointsFrom(high) = y[Factors]
  BY PointsAddUp
<1>3. a \in [Factors -> Int] /\ b \in [Factors -> Int]
  BY PointsAddUp
<1> HIDE DEF a, b
<1> DEFINE P == {s \in SUBSET Factors : x[s] <= y[s] /\ (one \in s => x[s] + more <= y[s])}
<1>4. {} \in P
  <2>1. \A z : AddsUp(z, a) \/ AddsUp(z, b) => z[{}] = 0
    BY DEF AddsUp
  <2>2. x[{}] = 0 /\ y[{}] = 0
    BY <1>1, <1>2, <2>1
  <2> QED BY <2>2
<1>5. ASSUME NEW s \in SUBSET Factors, s # {}, s \ {Picked[s]} \in P PROVE s \in P
  <2> DEFINE p == Picked[s]
             rest == s \ {p}
  <2>1. p \in s
    BY FactorsAreFinite, <1>5
  <2>2. x[s] = a[p] + x[rest] /\ y[s] = b[p] + y[rest]
    BY <1>1, <1>2, <1>5 DEF AddsUp
  <2>3. x[rest] <= y[rest] /\ (one \in rest => x[rest] + more <= y[rest])
    BY <1>5
  <2>4. a[p] \in Int /\ b[p] \in Int /\ x[rest] \in Int /\ y[rest] \in Int /\ a[p] <= b[p]
        /\ (p = one => a[p] + more <= b[p])
    BY <1>3, <2>1 DEF a, b
  <2>5. p # one /\ one \in s => one \in rest
    OBVIOUS
  <2> HIDE DEF p, rest
  <2>6. x[s] <= y[s]
    BY <2>2, <2>3, <2>4
  <2>7. one \in s => x[s] + more <= y[s]
    BY <2>2, <2>3, <2>4, <2>5
  <2> QED BY <2>6, <2>7
<1> HIDE DEF P
<1>6. \A s \in SUBSET Factors : s \in P
  BY <1>4, <1>5, OverFactors
<1>7. Factors \in P
  BY <1>6
<1> QED BY <1>1, <1>2, <1>7 DEF P

\* Evidence with the macro assessment that was made for it.
Fields == {"side", "htf", "dol", "target", "event", "zones", "touched", "same", "opposite", "break", "displaced",
           "time", "exhausted", "plan", "rr", "locked", "macro"}

Weighed(e) ==
    /\ DOMAIN e = Fields /\ e.side \in {"LONG", "SHORT"}
    /\ e.htf \in {"LONG", "SHORT", "OTHER"} /\ e.dol \in {"LONG", "SHORT", "OTHER"}
    /\ \A f \in {"target", "event", "zones", "touched", "same", "opposite", "displaced", "exhausted", "rr", "locked"} :
         e[f] \in BOOLEAN
    /\ e.break \in {Nothing, "CHOCH", "MSS"} /\ e.plan \in {Nothing, "RESEARCH", "CONFIRMED"}
    /\ e.time \in {Nothing, "IDEAL", "ACCEPTABLE", "LOW_QUALITY", "AVOID"}
    /\ MacroState(e) \in MacroStates \cup {Nothing}

\* b is e, or as good as it in each thing.
NoWorse(b, e) ==
    /\ b.side = e.side
    /\ b.htf = e.htf \/ (e.htf = Against(e) /\ b.htf = "OTHER") \/ (e.htf = "OTHER" /\ b.htf = e.side)
    /\ b.dol = e.dol \/ b.dol = "OTHER"
    /\ \A f \in {"target", "event", "zones", "touched", "same", "displaced", "rr"} : e[f] => b[f]
    /\ \A f \in {"opposite", "exhausted", "locked"} : b[f] => e[f]
    /\ b.break = e.break \/ (e.break = Nothing /\ b.break = "CHOCH") \/ (e.break = "CHOCH" /\ b.break = "MSS")
    /\ b.plan = e.plan \/ (e.plan = Nothing /\ b.plan = "RESEARCH") \/ (e.plan = "RESEARCH" /\ b.plan = "CONFIRMED")
    /\ b.time = e.time \/ <<"time", e.time, b.time>> \in Ladder(e)
    /\ MacroState(b) = MacroState(e) \/ <<MacroState(e), MacroState(b)>> \in MacroLadder

\* Every field but the one that changes stays as it is.
LEMMA OneThing ==
    ASSUME NEW e, DOMAIN e = Fields, NEW k, NEW v
    PROVE  /\ DOMAIN [e EXCEPT ![k] = v] = Fields
           /\ \A f \in Fields : [e EXCEPT ![k] = v][f] = IF f = k THEN v ELSE e[f]
OBVIOUS

\* A better value of one field is no worse in any thing.
LEMMA BetterEvidence ==
    ASSUME NEW e, Weighed(e), NEW s \in Ladder(e), e[s[1]] = s[2]
    PROVE  Weighed([e EXCEPT ![s[1]] = s[3]]) /\ NoWorse([e EXCEPT ![s[1]] = s[3]], e)
<1> DEFINE b == [e EXCEPT ![s[1]] = s[3]]
<1>1. DOMAIN b = Fields /\ \A f \in Fields : b[f] = IF f = s[1] THEN s[3] ELSE e[f]
  BY OneThing DEF Weighed
<1> HIDE DEF b
<1> DEFINE k == s[1]
           p == s[2]
           q == s[3]
<1>2. \/ k = "htf" /\ <<p, q>> \in {<<Against(e), "OTHER">>, <<"OTHER", e.side>>}
      \/ k = "dol" /\ q = "OTHER"
      \/ k = "break" /\ <<p, q>> \in {<<Nothing, "CHOCH">>, <<"CHOCH", "MSS">>}
      \/ k = "time" /\ <<p, q>> \in {<<"AVOID", "LOW_QUALITY">>, <<"LOW_QUALITY", "ACCEPTABLE">>,
                                    <<"ACCEPTABLE", "IDEAL">>}
      \/ k = "plan" /\ <<p, q>> \in {<<Nothing, "RESEARCH">>, <<"RESEARCH", "CONFIRMED">>}
      \/ k \in {"target", "event", "zones", "touched", "same", "displaced", "rr"} /\ q = TRUE
      \/ k \in {"opposite", "exhausted", "locked"} /\ q = FALSE
  <2>1. CASE s \in {<<"htf", Against(e), "OTHER">>, <<"htf", "OTHER", e.side>>, <<"dol", Against(e), "OTHER">>,
                   <<"break", Nothing, "CHOCH">>, <<"break", "CHOCH", "MSS">>}
    BY <2>1
  <2>2. CASE s \in {<<"time", "AVOID", "LOW_QUALITY">>, <<"time", "LOW_QUALITY", "ACCEPTABLE">>,
                   <<"time", "ACCEPTABLE", "IDEAL">>, <<"plan", Nothing, "RESEARCH">>,
                   <<"plan", "RESEARCH", "CONFIRMED">>}
    BY <2>2
  <2>3. CASE \E f \in {"target", "event", "zones", "touched", "same", "displaced", "rr"} : s = <<f, FALSE, TRUE>>
    <3>1. PICK f \in {"target", "event", "zones", "touched", "same", "displaced", "rr"} : s = <<f, FALSE, TRUE>>
      BY <2>3
    <3>2. s[1] = f /\ s[3] = TRUE
      BY <3>1
    <3> QED BY <3>2
  <2>4. CASE \E f \in {"opposite", "exhausted", "locked"} : s = <<f, TRUE, FALSE>>
    <3>1. PICK f \in {"opposite", "exhausted", "locked"} : s = <<f, TRUE, FALSE>>
      BY <2>4
    <3>2. s[1] = f /\ s[3] = FALSE
      BY <3>1
    <3> QED BY <3>2
  <2> QED BY <2>1, <2>2, <2>3, <2>4 DEF Ladder
<1> HIDE DEF k, p, q
<1>0. e[k] = p /\ DOMAIN b = Fields /\ \A f \in Fields : b[f] = IF f = k THEN q ELSE e[f]
  BY <1>1 DEF k, p, q
<1>3. k # "side" /\ k # "macro"
  BY <1>2
<1>4. b.side = e.side /\ b.macro = e.macro
  BY <1>0, <1>3 DEF Fields
<1>5. MacroState(b) = MacroState(e) /\ Against(b) = Against(e)
  BY <1>4 DEF MacroState, Against
<1>6. b.htf = e.htf \/ (e.htf = Against(e) /\ b.htf = "OTHER") \/ (e.htf = "OTHER" /\ b.htf = e.side)
  BY <1>0, <1>2 DEF Fields
<1>7. b.dol = e.dol \/ b.dol = "OTHER"
  BY <1>0, <1>2 DEF Fields
<1>8. b.break = e.break \/ (e.break = Nothing /\ b.break = "CHOCH") \/ (e.break = "CHOCH" /\ b.break = "MSS")
  BY <1>0, <1>2 DEF Fields
<1>9. b.plan = e.plan \/ (e.plan = Nothing /\ b.plan = "RESEARCH") \/ (e.plan = "RESEARCH" /\ b.plan = "CONFIRMED")
  BY <1>0, <1>2 DEF Fields
<1>10. b.time = e.time \/ (e.time = "AVOID" /\ b.time = "LOW_QUALITY")
       \/ (e.time = "LOW_QUALITY" /\ b.time = "ACCEPTABLE") \/ (e.time = "ACCEPTABLE" /\ b.time = "IDEAL")
  BY <1>0, <1>2 DEF Fields
<1>11. ASSUME NEW f \in {"target", "event", "zones", "touched", "same", "displaced", "rr"}
       PROVE  b[f] = e[f] \/ b[f] = TRUE
  BY <1>0, <1>2 DEF Fields
<1>12. ASSUME NEW f \in {"opposite", "exhausted", "locked"}
       PROVE  b[f] = e[f] \/ b[f] = FALSE
  BY <1>0, <1>2 DEF Fields
<1>13. Weighed(b)
  <2>1. e.side \in {"LONG", "SHORT"} /\ e.htf \in {"LONG", "SHORT", "OTHER"} /\ e.dol \in {"LONG", "SHORT", "OTHER"}
        /\ e.break \in {Nothing, "CHOCH", "MSS"} /\ e.plan \in {Nothing, "RESEARCH", "CONFIRMED"}
        /\ e.time \in {Nothing, "IDEAL", "ACCEPTABLE", "LOW_QUALITY", "AVOID"}
    BY DEF Weighed
  <2>2. b.htf \in {"LONG", "SHORT", "OTHER"} /\ b.dol \in {"LONG", "SHORT", "OTHER"}
    BY <2>1, <1>6, <1>7
  <2>3. b.break \in {Nothing, "CHOCH", "MSS"} /\ b.plan \in {Nothing, "RESEARCH", "CONFIRMED"}
    BY <2>1, <1>8, <1>9
  <2>4. b.time \in {Nothing, "IDEAL", "ACCEPTABLE", "LOW_QUALITY", "AVOID"}
    BY <2>1, <1>10
  <2>5. \A f \in {"target", "event", "zones", "touched", "same", "opposite", "displaced", "exhausted", "rr", "locked"} :
          e[f] \in BOOLEAN
    BY DEF Weighed
  <2>6. \A f \in {"target", "event", "zones", "touched", "same", "opposite", "displaced", "exhausted", "rr", "locked"} :
          b[f] \in BOOLEAN
    BY <2>5, <1>11, <1>12
  <2>7. MacroState(b) \in MacroStates \cup {Nothing}
    BY <1>5 DEF Weighed
  <2> QED BY <1>1, <1>4, <2>1, <2>2, <2>3, <2>4, <2>6, <2>7 DEF Weighed
<1>14. NoWorse(b, e)
  <2>1. b.time = e.time \/ <<"time", e.time, b.time>> \in Ladder(e)
    BY <1>10 DEF Ladder
  <2>2. \A f \in {"target", "event", "zones", "touched", "same", "displaced", "rr"} : e[f] => b[f]
    BY <1>11
  <2>3. \A f \in {"opposite", "exhausted", "locked"} : b[f] => e[f]
    BY <1>12
  <2> QED BY <1>4, <1>5, <1>6, <1>7, <1>8, <1>9, <2>1, <2>2, <2>3 DEF NoWorse
<1> QED BY <1>13, <1>14 DEF b

\* A better macro state is no worse in any thing.
LEMMA BetterMacro ==
    ASSUME NEW e, Weighed(e), e.macro \in Assessment, NEW s \in MacroLadder, MacroState(e) = s[1]
    PROVE  Weighed([e EXCEPT !.macro.state = s[2]]) /\ NoWorse([e EXCEPT !.macro.state = s[2]], e)
<1> DEFINE told == [e.macro EXCEPT !.state = s[2]]
           b == [e EXCEPT !.macro.state = s[2]]
<1>1. s[1] \in MacroStates /\ s[2] \in MacroStates /\ s = <<s[1], s[2]>>
  BY DEF MacroLadder, MacroStates
<1>2. Nothing \notin MacroStates /\ Nothing \notin Assessment
  BY PointsAssumption, RequestAssumption
<1>3. told \in Assessment /\ told.state = s[2] /\ told.available = e.macro.available
      /\ told.synthetic = e.macro.synthetic /\ told.side = e.macro.side
  BY <1>1 DEF Assessment
<1>4. b = [e EXCEPT !["macro"] = told]
  OBVIOUS
<1> HIDE DEF told, b
<1>5. DOMAIN b = Fields /\ \A f \in Fields : b[f] = IF f = "macro" THEN told ELSE e[f]
  BY <1>4, OneThing DEF Weighed
<1>6. b.macro = told /\ \A f \in Fields \ {"macro"} : b[f] = e[f]
  BY <1>5 DEF Fields
<1>7. b.side = e.side
  BY <1>6 DEF Fields
<1>8. MacroState(b) = s[2]
  BY <1>1, <1>2, <1>3, <1>6, <1>7 DEF MacroState
<1>9. Weighed(b)
  <2>1. MacroState(b) \in MacroStates \cup {Nothing}
    BY <1>1, <1>8
  <2>2. /\ b.htf = e.htf /\ b.dol = e.dol /\ b.break = e.break /\ b.plan = e.plan /\ b.time = e.time
        /\ \A f \in {"target", "event", "zones", "touched", "same", "opposite", "displaced", "exhausted", "rr", "locked"} :
              b[f] = e[f]
    BY <1>6 DEF Fields
  <2> QED BY <1>5, <1>7, <2>1, <2>2 DEF Weighed
<1>10. NoWorse(b, e)
  <2>1. <<MacroState(e), MacroState(b)>> \in MacroLadder
    BY <1>1, <1>8
  <2>2. /\ b.htf = e.htf /\ b.dol = e.dol /\ b.break = e.break /\ b.plan = e.plan /\ b.time = e.time
        /\ \A f \in {"target", "event", "zones", "touched", "same", "opposite", "displaced", "exhausted", "rr", "locked"} :
              b[f] = e[f]
    BY <1>6 DEF Fields
  <2> QED BY <1>7, <2>1, <2>2 DEF NoWorse
<1> QED BY <1>9, <1>10 DEF b

\* An improvement is no worse in any thing.
LEMMA ImprovedIsNoWorse ==
    ASSUME NEW e, Weighed(e), e.macro \in Assessment, NEW b \in Improvements(e)
    PROVE  Weighed(b) /\ NoWorse(b, e)
<1>1. CASE \E s \in Ladder(e) : e[s[1]] = s[2] /\ b = [e EXCEPT ![s[1]] = s[3]]
  BY <1>1, BetterEvidence
<1>2. CASE \E s \in MacroLadder : MacroState(e) = s[1] /\ b = [e EXCEPT !.macro.state = s[2]]
  BY <1>2, BetterMacro
<1> QED BY <1>1, <1>2, Zenon DEF Improvements

\* What each factor earns.
LEMMA EarnedIs ==
    ASSUME NEW e, Weighed(e)
    PROVE  /\ \A f \in Factors : Earned(e)[f] \in Int
           /\ Earned(e)["HTF"] = IF e.htf = e.side THEN Points.htfAligned
                                 ELSE When(e.htf # Against(e), Points.htfSetupBiasOnly)
           /\ Earned(e)["LIQUIDITY"] = When(e.target, Points.dolTarget) + When(e.event, Points.liquidityEvent)
           /\ Earned(e)["STRUCTURE"] = When(e.break = "MSS", Points.mss) + When(e.break = "CHOCH", Points.choch)
           /\ Earned(e)["DISPLACEMENT"] = When(e.displaced, Points.displacement)
           /\ Earned(e)["PD_ARRAY"] = When(e.zones, Points.legZone) + When(e.touched, Points.zoneTouched)
           /\ Earned(e)["NO_WICK"] = When(e.same, Points.noWick)
           /\ Earned(e)["SESSION"] = IF e.time = Nothing THEN 0 ELSE SessionPoints[e.time]
           /\ Earned(e)["MACRO"] = IF MacroState(e) = Nothing THEN 0 ELSE MacroPoints[MacroState(e)]
           /\ Earned(e)["ENTRY"] = When(e.plan = "RESEARCH", Points.entryResearchOnly)
                                     + When(e.plan = "CONFIRMED", Points.entryConfirmed)
           /\ Earned(e)["RISK_RR"] = When(e.plan # Nothing /\ e.rr /\ ~e.locked, Points.rrMet)
<1>1. /\ Earned(e)["HTF"] = IF e.htf = e.side THEN Points.htfAligned
                            ELSE When(e.htf # Against(e), Points.htfSetupBiasOnly)
      /\ Earned(e)["LIQUIDITY"] = When(e.target, Points.dolTarget) + When(e.event, Points.liquidityEvent)
      /\ Earned(e)["STRUCTURE"] = When(e.break = "MSS", Points.mss) + When(e.break = "CHOCH", Points.choch)
      /\ Earned(e)["DISPLACEMENT"] = When(e.displaced, Points.displacement)
      /\ Earned(e)["PD_ARRAY"] = When(e.zones, Points.legZone) + When(e.touched, Points.zoneTouched)
  BY DEF Earned, Factors
<1>2. /\ Earned(e)["NO_WICK"] = When(e.same, Points.noWick)
      /\ Earned(e)["SESSION"] = IF e.time = Nothing THEN 0 ELSE SessionPoints[e.time]
      /\ Earned(e)["MACRO"] = IF MacroState(e) = Nothing THEN 0 ELSE MacroPoints[MacroState(e)]
      /\ Earned(e)["ENTRY"] = When(e.plan = "RESEARCH", Points.entryResearchOnly)
                                + When(e.plan = "CONFIRMED", Points.entryConfirmed)
      /\ Earned(e)["RISK_RR"] = When(e.plan # Nothing /\ e.rr /\ ~e.locked, Points.rrMet)
  BY DEF Earned, Factors
<1>3. \A p \in {"htfAligned", "htfSetupBiasOnly", "dolTarget", "liquidityEvent", "mss", "choch", "displacement",
               "legZone", "zoneTouched", "noWick", "entryConfirmed", "entryResearchOnly", "rrMet"} : Points[p] \in Nat
  BY PointsAssumption
<1>4. \A c : \A n \in Nat : When(c, n) \in Int
  BY DEF When
<1>5. e.time # Nothing => SessionPoints[e.time] \in Int
  <2>1. e.time \in {Nothing, "IDEAL", "ACCEPTABLE", "LOW_QUALITY", "AVOID"}
    BY DEF Weighed
  <2>2. \A t \in {"IDEAL", "ACCEPTABLE", "LOW_QUALITY", "AVOID"} : SessionPoints[t] \in Int
    BY PointsAssumption
  <2> QED BY <2>1, <2>2
<1>6. MacroState(e) # Nothing => MacroPoints[MacroState(e)] \in Int
  BY PointsAssumption DEF Weighed
<1>8. Earned(e)["HTF"] \in Int /\ Earned(e)["LIQUIDITY"] \in Int /\ Earned(e)["STRUCTURE"] \in Int
      /\ Earned(e)["DISPLACEMENT"] \in Int /\ Earned(e)["PD_ARRAY"] \in Int
  BY <1>1, <1>3, <1>4
<1>9. Earned(e)["NO_WICK"] \in Int /\ Earned(e)["SESSION"] \in Int /\ Earned(e)["MACRO"] \in Int
      /\ Earned(e)["ENTRY"] \in Int /\ Earned(e)["RISK_RR"] \in Int
  BY <1>2, <1>3, <1>4, <1>5, <1>6
<1>10. \A f \in Factors : Earned(e)[f] \in Int
  BY <1>8, <1>9 DEF Factors
<1> QED BY <1>1, <1>2, <1>10

\* No factor earns less of better evidence.
LEMMA EarnsNoLess ==
    ASSUME NEW e, NEW b, Weighed(e), Weighed(b), NoWorse(b, e), NEW f \in Factors
    PROVE  Earned(e)[f] <= Earned(b)[f]
<1>1. Nothing \notin {"CHOCH", "MSS", "IDEAL", "ACCEPTABLE", "LOW_QUALITY", "AVOID", "RESEARCH", "CONFIRMED"} \cup MacroStates
  BY PointsAssumption
<1>2. \A p \in {"htfAligned", "htfSetupBiasOnly", "dolTarget", "liquidityEvent", "mss", "choch", "displacement",
               "legZone", "zoneTouched", "noWick", "entryConfirmed", "entryResearchOnly", "rrMet"} : Points[p] \in Nat
  BY PointsAssumption
<1>3. CASE f = "HTF"
  <2>1. Points.htfSetupBiasOnly <= Points.htfAligned /\ Points.htfSetupBiasOnly \in Nat /\ Points.htfAligned \in Nat
    BY <1>2, PointsAssumption
  <2>2. b.side = e.side /\ Against(b) = Against(e) /\ Against(e) # e.side /\ Against(e) # "OTHER" /\ e.side # "OTHER"
    BY DEF NoWorse, Weighed, Against
  <2>3. b.htf = e.htf \/ (e.htf = Against(e) /\ b.htf = "OTHER") \/ (e.htf = "OTHER" /\ b.htf = e.side)
    BY DEF NoWorse
  <2> QED BY <1>3, <2>1, <2>2, <2>3, EarnedIs DEF When
<1>4. CASE f = "LIQUIDITY"
  <2>1. (e.target => b.target) /\ (e.event => b.event)
    BY DEF NoWorse
  <2>2. Points.dolTarget \in Nat /\ Points.liquidityEvent \in Nat
    BY <1>2
  <2> QED BY <1>4, <2>1, <2>2, EarnedIs DEF When
<1>5. CASE f = "STRUCTURE"
  <2>1. b.break = e.break \/ (e.break = Nothing /\ b.break = "CHOCH") \/ (e.break = "CHOCH" /\ b.break = "MSS")
    BY DEF NoWorse
  <2>2. Points.mss \in Nat /\ Points.choch \in Nat /\ Points.choch <= Points.mss
    BY <1>2, PointsAssumption
  <2> QED BY <1>1, <1>5, <2>1, <2>2, EarnedIs DEF When
<1>6. CASE f = "DISPLACEMENT"
  <2>1. e.displaced => b.displaced
    BY DEF NoWorse
  <2>2. Points.displacement \in Nat
    BY <1>2
  <2> QED BY <1>6, <2>1, <2>2, EarnedIs DEF When
<1>7. CASE f = "PD_ARRAY"
  <2>1. (e.zones => b.zones) /\ (e.touched => b.touched)
    BY DEF NoWorse
  <2>2. Points.legZone \in Nat /\ Points.zoneTouched \in Nat
    BY <1>2
  <2> QED BY <1>7, <2>1, <2>2, EarnedIs DEF When
<1>8. CASE f = "NO_WICK"
  <2>1. e.same => b.same
    BY DEF NoWorse
  <2>2. Points.noWick \in Nat
    BY <1>2
  <2> QED BY <1>8, <2>1, <2>2, EarnedIs DEF When
<1>9. CASE f = "SESSION"
  <2>1. b.time = e.time \/ <<"time", e.time, b.time>> \in Ladder(e)
    BY DEF NoWorse
  <2>2. \/ b.time = e.time \/ (e.time = "AVOID" /\ b.time = "LOW_QUALITY")
        \/ (e.time = "LOW_QUALITY" /\ b.time = "ACCEPTABLE") \/ (e.time = "ACCEPTABLE" /\ b.time = "IDEAL")
    BY <2>1 DEF Ladder
  <2>3. /\ SessionPoints.AVOID <= SessionPoints.LOW_QUALITY /\ SessionPoints.LOW_QUALITY <= SessionPoints.ACCEPTABLE
        /\ SessionPoints.ACCEPTABLE <= SessionPoints.IDEAL
        /\ \A t \in {"IDEAL", "ACCEPTABLE", "LOW_QUALITY", "AVOID"} : SessionPoints[t] \in Nat
    BY PointsAssumption
  <2>4. e.time \in {Nothing, "IDEAL", "ACCEPTABLE", "LOW_QUALITY", "AVOID"}
    BY DEF Weighed
  <2> QED BY <1>1, <1>9, <2>2, <2>3, <2>4, EarnedIs
<1>10. CASE f = "MACRO"
  <2> DEFINE x == MacroState(e)
             y == MacroState(b)
  <2>1. y = x \/ <<x, y>> \in MacroLadder
    BY DEF NoWorse
  <2>2. x \in MacroStates \cup {Nothing}
    BY DEF Weighed
  <2>3. /\ Earned(e)["MACRO"] = IF x = Nothing THEN 0 ELSE MacroPoints[x]
        /\ Earned(b)["MACRO"] = IF y = Nothing THEN 0 ELSE MacroPoints[y]
    BY EarnedIs
  <2>4. /\ MacroPoints.STRONG_CONFLICT <= MacroPoints.CONFLICT /\ MacroPoints.CONFLICT <= MacroPoints.NEUTRAL
        /\ MacroPoints.NEUTRAL <= MacroPoints.SUPPORTIVE /\ MacroPoints.SUPPORTIVE <= MacroPoints.STRONGLY_SUPPORTIVE
        /\ \A t \in MacroStates : MacroPoints[t] \in Nat
    BY PointsAssumption
  <2> HIDE DEF x, y
  <2>5. \/ y = x \/ (x = "STRONG_CONFLICT" /\ y = "CONFLICT") \/ (x = "CONFLICT" /\ y = "NEUTRAL")
        \/ (x = "NEUTRAL" /\ y = "SUPPORTIVE") \/ (x = "SUPPORTIVE" /\ y = "STRONGLY_SUPPORTIVE")
    BY <2>1 DEF MacroLadder
  <2> QED BY <1>1, <1>10, <2>2, <2>3, <2>4, <2>5 DEF MacroStates
<1>11. CASE f = "ENTRY"
  <2>1. b.plan = e.plan \/ (e.plan = Nothing /\ b.plan = "RESEARCH") \/ (e.plan = "RESEARCH" /\ b.plan = "CONFIRMED")
    BY DEF NoWorse
  <2>2. Points.entryResearchOnly \in Nat /\ Points.entryConfirmed \in Nat
        /\ Points.entryResearchOnly <= Points.entryConfirmed
    BY <1>2, PointsAssumption
  <2> QED BY <1>1, <1>11, <2>1, <2>2, EarnedIs DEF When
<1>12. CASE f = "RISK_RR"
  <2>1. b.plan = e.plan \/ (e.plan = Nothing /\ b.plan = "RESEARCH") \/ (e.plan = "RESEARCH" /\ b.plan = "CONFIRMED")
    BY DEF NoWorse
  <2>2. (e.rr => b.rr) /\ (b.locked => e.locked)
    BY DEF NoWorse
  <2>3. Points.rrMet \in Nat
    BY <1>2
  <2> QED BY <1>1, <1>12, <2>1, <2>2, <2>3, EarnedIs DEF When
<1> QED BY <1>3, <1>4, <1>5, <1>6, <1>7, <1>8, <1>9, <1>10, <1>11, <1>12 DEF Factors

\* The displacement earns at least what its adjustment takes, and no bias
\* comes to be against a better setup.
LEMMA ScoresNoLess ==
    ASSUME NEW e, NEW b, Weighed(e), Weighed(b), NoWorse(b, e)
    PROVE  Score(e) \in Int /\ Score(b) \in Int /\ Score(e) <= Score(b)
<1> DEFINE low == Earned(e)
           high == Earned(b)
           gain == Taken(high)["DISPLACEMENT"] - Taken(low)["DISPLACEMENT"]
<1>1. \A f \in Factors : low[f] \in Int /\ high[f] \in Int
  BY EarnedIs
<1>2. \A f \in Factors : low[f] <= high[f]
  BY EarnsNoLess
<1>3. low["DISPLACEMENT"] = When(e.displaced, Points.displacement)
      /\ high["DISPLACEMENT"] = When(b.displaced, Points.displacement)
  BY EarnedIs
<1> HIDE DEF low, high
<1>4. \A f \in Factors : Weight[f] \in Nat
  BY PointsAssumption
<1>5. \A f \in Factors : Taken(low)[f] = Least(low[f], Weight[f]) /\ Taken(high)[f] = Least(high[f], Weight[f])
  <2> SUFFICES ASSUME NEW f \in Factors
               PROVE  Taken(low)[f] = Least(low[f], Weight[f]) /\ Taken(high)[f] = Least(high[f], Weight[f])
    OBVIOUS
  <2>1. low[f] \in Int /\ high[f] \in Int /\ Weight[f] \in Int
    BY <1>1, <1>4
  <2> QED BY <2>1, OfTwo DEF Taken
<1>6. \A f \in Factors : Taken(low)[f] <= Taken(high)[f]
  BY <1>1, <1>2, <1>4, <1>5 DEF Least
<1>7. "DISPLACEMENT" \in Factors
  BY DEF Factors
<1>8. Taken(low) \in [Factors -> Int] /\ Taken(high) \in [Factors -> Int]
  BY <1>1, PointsAddUp
<1>9. gain \in Int /\ gain >= 0 /\ Taken(low)["DISPLACEMENT"] + gain <= Taken(high)["DISPLACEMENT"]
  BY <1>6, <1>7, <1>8
<1>10. gain >= When(e.displaced, CorrelatedEvidence) - When(b.displaced, CorrelatedEvidence)
  <2>1. Points.displacement \in Nat /\ Weight["DISPLACEMENT"] \in Nat /\ CorrelatedEvidence \in Int
        /\ Points.displacement + CorrelatedEvidence >= 0 /\ Weight["DISPLACEMENT"] + CorrelatedEvidence >= 0
    BY <1>7, PointsAssumption
  <2>2. e.displaced => b.displaced
    BY DEF NoWorse
  <2>3. gain = Least(high["DISPLACEMENT"], Weight["DISPLACEMENT"]) - Least(low["DISPLACEMENT"], Weight["DISPLACEMENT"])
    BY <1>5, <1>7
  <2>4. e.displaced \in BOOLEAN /\ b.displaced \in BOOLEAN
    BY DEF Weighed
  <2> HIDE DEF gain
  <2> QED BY <1>3, <1>9, <2>1, <2>2, <2>3, <2>4 DEF When, Least
<1> HIDE DEF gain
<1>11. PointsFrom(low) \in Int /\ PointsFrom(high) \in Int /\ PointsFrom(low) + gain <= PointsFrom(high)
  BY <1>1, <1>6, <1>7, <1>9, MorePoints
<1>12. When(e.htf = Against(e), CounterTrend) <= When(b.htf = Against(b), CounterTrend)
  <2>1. b.side = e.side /\ Against(b) = Against(e) /\ Against(e) # "OTHER" /\ Against(e) # e.side
    BY DEF NoWorse, Weighed, Against
  <2>2. b.htf = Against(e) => e.htf = Against(e)
    BY <2>1 DEF NoWorse
  <2>3. CounterTrend \in Int /\ CounterTrend <= 0
    BY PointsAssumption
  <2> QED BY <2>1, <2>2, <2>3 DEF When
<1>13. Adjustment(e) \in Int /\ Adjustment(b) \in Int /\ Adjustment(e) <= Adjustment(b) + gain
  <2>1. CorrelatedEvidence \in Int /\ CounterTrend \in Int
    BY PointsAssumption
  <2> DEFINE a1 == When(e.displaced, CorrelatedEvidence)
             a2 == When(b.displaced, CorrelatedEvidence)
             c1 == When(e.htf = Against(e), CounterTrend)
             c2 == When(b.htf = Against(b), CounterTrend)
  <2>2. a1 \in Int /\ a2 \in Int /\ c1 \in Int /\ c2 \in Int
    BY <2>1 DEF When
  <2>3. Adjustment(e) = a1 + c1 /\ Adjustment(b) = a2 + c2
    BY DEF Adjustment
  <2>4. gain >= a1 - a2 /\ c1 <= c2
    BY <1>10, <1>12
  <2> HIDE DEF a1, a2, c1, c2
  <2> QED BY <1>9, <2>2, <2>3, <2>4
<1>14. \A x : Score(x) = Between(0, PointsFrom(Earned(x)) + Adjustment(x), 1000)
  BY Zenon DEF Score, PointsFrom
<1> DEFINE r == PointsFrom(low) + Adjustment(e)
           t == PointsFrom(high) + Adjustment(b)
<1>15. r \in Int /\ t \in Int /\ r <= t
  BY <1>9, <1>11, <1>13
<1>16. Score(e) = Between(0, r, 1000) /\ Score(b) = Between(0, t, 1000)
  BY <1>14 DEF low, high
<1> HIDE DEF r, t
<1>17. Between(0, r, 1000) = Most(0, Least(r, 1000)) /\ Between(0, t, 1000) = Most(0, Least(t, 1000))
  BY <1>15, WithinIs
<1> QED BY <1>15, <1>16, <1>17 DEF Most, Least

\* Better evidence has no more conflict.
LEMMA ConflictsNoMore ==
    ASSUME NEW e, NEW b, Weighed(e), Weighed(b), NoWorse(b, e)
    PROVE  Conflict(e) \in Int /\ Conflict(b) \in Int /\ Conflict(b) <= Conflict(e)
<1> DEFINE htf(x) == When(x.htf = Against(x), ConflictPoints.htfOpposite)
           dol(x) == When(x.dol = Against(x), ConflictPoints.dolOpposite)
           time(x) == When(x.time = "AVOID", ConflictPoints.timeAvoid)
                        + When(x.time = "LOW_QUALITY", ConflictPoints.timeLowQuality)
           wick(x) == When(x.opposite, ConflictPoints.oppositeNoWick)
           range(x) == When(x.exhausted, ConflictPoints.adrExhausted)
           sum(x) == htf(x) + dol(x) + time(x) + wick(x) + range(x) + MacroConflict(x)
<1>1. /\ \A p \in {"htfOpposite", "dolOpposite", "timeAvoid", "timeLowQuality", "oppositeNoWick", "adrExhausted",
                   "macroConflict", "macroStrongConflict"} : ConflictPoints[p] \in Nat
      /\ ConflictPoints.timeLowQuality <= ConflictPoints.timeAvoid
      /\ ConflictPoints.macroConflict <= ConflictPoints.macroStrongConflict
  BY PointsAssumption
<1>2. b.side = e.side /\ Against(b) = Against(e) /\ Against(e) # "OTHER" /\ Against(e) # e.side
  BY DEF NoWorse, Weighed, Against
<1>3. htf(e) \in Nat /\ htf(b) \in Nat /\ htf(b) <= htf(e)
  <2>1. b.htf = Against(e) => e.htf = Against(e)
    BY <1>2 DEF NoWorse
  <2> QED BY <1>1, <1>2, <2>1 DEF When
<1>4. dol(e) \in Nat /\ dol(b) \in Nat /\ dol(b) <= dol(e)
  <2>1. b.dol = Against(e) => e.dol = Against(e)
    BY <1>2 DEF NoWorse
  <2> QED BY <1>1, <1>2, <2>1 DEF When
<1>5. time(e) \in Nat /\ time(b) \in Nat /\ time(b) <= time(e)
  <2>1. b.time = e.time \/ <<"time", e.time, b.time>> \in Ladder(e)
    BY DEF NoWorse
  <2>2. \/ b.time = e.time \/ (e.time = "AVOID" /\ b.time = "LOW_QUALITY")
        \/ (e.time = "LOW_QUALITY" /\ b.time = "ACCEPTABLE") \/ (e.time = "ACCEPTABLE" /\ b.time = "IDEAL")
    BY <2>1 DEF Ladder
  <2> QED BY <1>1, <2>2 DEF When
<1>6. wick(e) \in Nat /\ wick(b) \in Nat /\ wick(b) <= wick(e)
  <2>1. b.opposite => e.opposite
    BY DEF NoWorse
  <2> QED BY <1>1, <2>1 DEF When
<1>7. range(e) \in Nat /\ range(b) \in Nat /\ range(b) <= range(e)
  <2>1. b.exhausted => e.exhausted
    BY DEF NoWorse
  <2> QED BY <1>1, <2>1 DEF When
<1>8. MacroConflict(e) \in Nat /\ MacroConflict(b) \in Nat /\ MacroConflict(b) <= MacroConflict(e)
  <2> DEFINE x == MacroState(e)
             y == MacroState(b)
  <2>1. y = x \/ <<x, y>> \in MacroLadder
    BY DEF NoWorse
  <2>2. /\ MacroConflict(e) = When(x = "STRONG_CONFLICT", ConflictPoints.macroStrongConflict)
                                + When(x = "CONFLICT", ConflictPoints.macroConflict)
        /\ MacroConflict(b) = When(y = "STRONG_CONFLICT", ConflictPoints.macroStrongConflict)
                                + When(y = "CONFLICT", ConflictPoints.macroConflict)
    BY DEF MacroConflict
  <2> HIDE DEF x, y
  <2>3. \/ y = x \/ (x = "STRONG_CONFLICT" /\ y = "CONFLICT") \/ (x = "CONFLICT" /\ y = "NEUTRAL")
        \/ (x = "NEUTRAL" /\ y = "SUPPORTIVE") \/ (x = "SUPPORTIVE" /\ y = "STRONGLY_SUPPORTIVE")
    BY <2>1 DEF MacroLadder
  <2> QED BY <1>1, <2>2, <2>3 DEF When
<1>9. Conflict(e) = Min({1000, sum(e)}) /\ Conflict(b) = Min({1000, sum(b)})
  <2>1. \A x : When(x.htf = Against(x), ConflictPoints.htfOpposite)
               + When(x.dol = Against(x), ConflictPoints.dolOpposite)
               + When(x.time = "AVOID", ConflictPoints.timeAvoid)
               + When(x.time = "LOW_QUALITY", ConflictPoints.timeLowQuality)
               + When(x.opposite, ConflictPoints.oppositeNoWick)
               + When(x.exhausted, ConflictPoints.adrExhausted)
               + MacroConflict(x) = sum(x) => Conflict(x) = Min({1000, sum(x)})
    BY Zenon DEF Conflict
  <2>2. \A c : \A n \in Nat : When(c, n) \in Int
    BY DEF When
  <2> DEFINE a1(x) == When(x.time = "AVOID", ConflictPoints.timeAvoid)
             a2(x) == When(x.time = "LOW_QUALITY", ConflictPoints.timeLowQuality)
  <2>3. \A x : a1(x) \in Int /\ a2(x) \in Int /\ time(x) = a1(x) + a2(x)
    BY <1>1, <2>2
  <2>4. \A x \in {e, b} : htf(x) + dol(x) + a1(x) + a2(x) + wick(x) + range(x) + MacroConflict(x)
                            = htf(x) + dol(x) + (a1(x) + a2(x)) + wick(x) + range(x) + MacroConflict(x)
    <3> SUFFICES ASSUME NEW x \in {e, b}
                 PROVE  htf(x) + dol(x) + a1(x) + a2(x) + wick(x) + range(x) + MacroConflict(x)
                            = htf(x) + dol(x) + (a1(x) + a2(x)) + wick(x) + range(x) + MacroConflict(x)
      OBVIOUS
    <3>1. htf(x) \in Int /\ dol(x) \in Int /\ wick(x) \in Int /\ range(x) \in Int /\ MacroConflict(x) \in Int
      BY <1>3, <1>4, <1>6, <1>7, <1>8
    <3>2. a1(x) \in Int /\ a2(x) \in Int
      BY <2>3
    <3> HIDE DEF a1, a2, htf, dol, wick, range
    <3> QED BY <3>1, <3>2
  <2> QED BY <2>1, <2>4
<1> HIDE DEF htf, dol, time, wick, range
<1>10. sum(e) \in Int /\ sum(b) \in Int /\ sum(b) <= sum(e)
  BY <1>3, <1>4, <1>5, <1>6, <1>7, <1>8
<1> HIDE DEF sum
<1>11. Min({1000, sum(e)}) = Least(1000, sum(e)) /\ Min({1000, sum(b)}) = Least(1000, sum(b))
  BY <1>10, OfTwo
<1> QED BY <1>9, <1>10, <1>11 DEF Least

\* A higher score has no lower grade.
LEMMA GradesNoLess ==
    ASSUME NEW low \in Int, NEW high \in Int, low <= high
    PROVE  Grade(low) \in Nat /\ Grade(high) \in Nat /\ Grade(low) <= Grade(high)
<1> DEFINE few == {i \in DOMAIN Floors : low >= Floors[i]}
           many == {i \in DOMAIN Floors : high >= Floors[i]}
<1>1. Len(Floors) \in Nat /\ DOMAIN Floors = 1 .. Len(Floors) /\ \A i \in DOMAIN Floors : Floors[i] \in Int
  <2>1. Floors \in Seq(Int)
    BY PointsAssumption
  <2>2. Floors \in [1 .. Len(Floors) -> Int] /\ Len(Floors) \in Nat
    BY <2>1, LenProperties
  <2> QED BY <2>2
<1>2. IsFiniteSet(1 .. Len(Floors))
  BY <1>1, FS_Interval
<1>3. many \in SUBSET (1 .. Len(Floors)) /\ few \in SUBSET many
  BY <1>1
<1>4. Grade(low) = Cardinality(few) /\ Grade(high) = Cardinality(many)
  BY DEF Grade
<1> HIDE DEF few, many
<1>5. IsFiniteSet(many) /\ IsFiniteSet(few) /\ Cardinality(few) <= Cardinality(many)
  BY <1>2, <1>3, FS_Subset
<1>6. Cardinality(few) \in Nat /\ Cardinality(many) \in Nat
  BY <1>5, FS_CardinalityType
<1> QED BY <1>4, <1>5, <1>6

\* A higher score with less conflict has no lower confidence.
LEMMA ConfidenceIsNoLess ==
    ASSUME NEW low \in Int, NEW high \in Int, low <= high, NEW less \in Int, NEW more \in Int, less <= more
    PROVE  Confidence(low, more) \in Int /\ Confidence(high, less) \in Int
           /\ Confidence(low, more) <= Confidence(high, less)
<1> DEFINE level(s) == When(s >= ModerateFrom, 1) + When(s >= HighFrom, 1) + When(s >= VeryHighFrom, 1)
           told(s, c) == IF c >= DowngradeFrom THEN Max({0, level(s) - 1}) ELSE level(s)
           is(s, c) == IF c >= DowngradeFrom THEN Most(0, level(s) - 1) ELSE level(s)
<1>1. ModerateFrom \in Int /\ HighFrom \in Int /\ VeryHighFrom \in Int /\ DowngradeFrom \in Int /\ Cap \in Int
  BY PointsAssumption
<1>2. level(low) \in Nat /\ level(high) \in Nat /\ level(low) <= level(high)
  BY <1>1 DEF When
<1> HIDE DEF level
<1>3. Max({0, level(low) - 1}) = Most(0, level(low) - 1) /\ Max({0, level(high) - 1}) = Most(0, level(high) - 1)
  <2>1. level(low) - 1 \in Int /\ level(high) - 1 \in Int /\ 0 \in Int
    BY <1>2
  <2> QED BY <2>1, OfTwo
<1>4. told(low, more) = is(low, more) /\ told(high, less) = is(high, less)
  BY <1>3
<1>5. is(low, more) \in Int /\ is(high, less) \in Int /\ is(low, more) <= is(high, less)
  BY <1>1, <1>2 DEF Most
<1>6. Confidence(low, more) = Min({told(low, more), Cap}) /\ Confidence(high, less) = Min({told(high, less), Cap})
  BY Zenon DEF Confidence, level
<1> HIDE DEF told, is
<1>7. Min({is(low, more), Cap}) = Least(is(low, more), Cap) /\ Min({is(high, less), Cap}) = Least(is(high, less), Cap)
  BY <1>1, <1>5, OfTwo
<1> QED BY <1>1, <1>4, <1>5, <1>6, <1>7 DEF Least

\* Better evidence scores no worse.
LEMMA ScoredNoWorse ==
    ASSUME NEW e, NEW b, Weighed(e), Weighed(b), NoWorse(b, e)
    PROVE  /\ Scored(b).score >= Scored(e).score /\ Scored(b).grade >= Scored(e).grade
           /\ Scored(b).confidence >= Scored(e).confidence /\ Scored(b).conflict <= Scored(e).conflict
<1>1. \A x : Scored(x).score = Score(x) /\ Scored(x).grade = Grade(Score(x))
             /\ Scored(x).confidence = Confidence(Score(x), Conflict(x)) /\ Scored(x).conflict = Conflict(x)
  BY DEF Scored
<1>2. Score(e) \in Int /\ Score(b) \in Int /\ Score(e) <= Score(b)
  BY ScoresNoLess
<1>3. Conflict(e) \in Int /\ Conflict(b) \in Int /\ Conflict(b) <= Conflict(e)
  BY ConflictsNoMore
<1>4. Grade(Score(e)) \in Nat /\ Grade(Score(b)) \in Nat /\ Grade(Score(e)) <= Grade(Score(b))
  BY <1>2, GradesNoLess
<1>5. Confidence(Score(e), Conflict(e)) \in Int /\ Confidence(Score(b), Conflict(b)) \in Int
      /\ Confidence(Score(e), Conflict(e)) <= Confidence(Score(b), Conflict(b))
  BY <1>2, <1>3, ConfidenceIsNoLess
<1> QED BY <1>1, <1>2, <1>3, <1>4, <1>5

\* What a setup is scored by: its evidence, with the assessment for its side.
LEMMA EvidenceIsWeighed ==
    ASSUME NEW ev \in EvidenceOf, NEW m \in Inputs, NEW trusted \in BOOLEAN, NEW side \in Sides,
           side = ev.side
    PROVE  LET with == [ev EXCEPT !.macro = M!Judge(m, side, trusted)]
           IN  Weighed(with) /\ with.macro \in Assessment
<1> DEFINE told == M!Judge(m, side, trusted)
           with == [ev EXCEPT !.macro = told]
<1>1. told \in Assessment /\ told.side = side /\ (told.available <=> ~Silent(m))
  BY JudgeAssesses
<1>2. ~Silent(m) /\ side # "NONE" => told.state \in MacroStates
  <2> SUFFICES ASSUME ~Silent(m), side # "NONE" PROVE told.state \in MacroStates
    OBVIOUS
  <2> DEFINE sum == M!Sum(m, trusted)
             weight == IF sum.weight = 0 THEN 1 ELSE sum.weight
  <2>1. told = M!Judged(m, side, sum)
    BY JudgeIs
  <2>2. sum \in Part
    BY SumIs
  <2>3. sum.points \in Int /\ -sum.points \in Int /\ weight \in Nat /\ weight > 0
    BY <2>2 DEF Part
  <2>4. M!Judged(m, side, sum).state = M!StateFor(sum.points, weight, side)
    BY DEF M!Judged
  <2> HIDE DEF sum, weight, told
  <2>5. M!StateFor(sum.points, weight, side) \in MacroStates
    BY <2>3, StatesMirror DEF M!StateFor, Sides
  <2> QED BY <2>1, <2>4, <2>5
<1> HIDE DEF told
<1>3. DOMAIN with = Fields /\ with.macro = told /\ \A f \in Fields \ {"macro"} : with[f] = ev[f]
  BY DEF EvidenceOf, Fields
<1>4. with.side = ev.side /\ ev.side \in {"LONG", "SHORT"}
  BY <1>3 DEF EvidenceOf, Fields
<1> HIDE DEF with
<1>5. MacroState(with) \in MacroStates \cup {Nothing}
  <2>1. MacroState(with) = Nothing \/ (told.available /\ told.side = with.side /\ MacroState(with) = told.state)
    BY <1>3 DEF MacroState
  <2> QED BY <1>1, <1>2, <1>4, <2>1
<1>6. /\ with.htf = ev.htf /\ with.dol = ev.dol /\ with.break = ev.break /\ with.plan = ev.plan /\ with.time = ev.time
      /\ \A f \in {"target", "event", "zones", "touched", "same", "opposite", "displaced", "exhausted", "rr", "locked"} :
            with[f] = ev[f]
  BY <1>3 DEF Fields
<1>7. /\ ev.htf \in {"LONG", "SHORT", "OTHER"} /\ ev.dol \in {"LONG", "SHORT", "OTHER"}
      /\ ev.break \in {Nothing, "CHOCH", "MSS"} /\ ev.plan \in {Nothing, "RESEARCH", "CONFIRMED"}
      /\ ev.time \in {Nothing, "IDEAL", "ACCEPTABLE", "LOW_QUALITY", "AVOID"}
  BY DEF EvidenceOf
<1>8. \A f \in {"target", "event", "zones", "touched", "same", "opposite", "displaced", "exhausted", "rr", "locked"} :
        ev[f] \in BOOLEAN
  BY DEF EvidenceOf
<1>9. Weighed(with)
  BY <1>3, <1>4, <1>5, <1>6, <1>7, <1>8 DEF Weighed
<1> QED BY <1>1, <1>3, <1>9 DEF with, told

\* An evaluation scores no improvement of its evidence lower.
LEMMA EvaluateRewards ==
    ASSUME NEW q \in Requests, Evaluate(q.run, q.news, q.risk, q.userSpec, q.evidence, q.input, q.fails)
    PROVE  BetterNeverScoresWorse'
<1> DEFINE m == q.input
           side == SideToCompare(q.run)
           trusted == Trusted(q.news)
           told == M!Judge(m, side, trusted)
           with == [q.evidence EXCEPT !.macro = told]
           seen == [q.run EXCEPT !.eligible = @ /\ ~q.fails]
           score == ScoreOf(with, seen)
           outcome == Outcome(seen, q.news, q.risk, HardBlockers(seen, q.news, q.risk, q.userSpec))
<1>1. m \in Inputs /\ q.evidence \in EvidenceOf /\ q.run \in Runs /\ trusted \in BOOLEAN
  BY RequestAssumption DEF Requests, Trusted
<1>2. answer' = [macro |-> told, score |-> score, outcome |-> outcome, evidence |-> with,
                 input |-> m, trusted |-> trusted]
  BY Zenon DEF Evaluate
<1>3. q.evidence.side = q.run.direction
  BY Zenon DEF Evaluate, Fits
<1>4. ASSUME score.score # Nothing PROVE side = q.evidence.side /\ side \in Sides /\ score = Scored(with)
  <2>1. NotScored.score = Nothing
    BY DEF NotScored
  <2>2. score = Scored(with) /\ seen.eligible /\ seen.current \in {"OPEN", "CONFIRMED"}
    BY <1>4, <2>1 DEF ScoreOf
  <2>3. q.run.eligible /\ q.run.current = seen.current
    BY <1>1, <2>2 DEF Runs
  <2> QED BY <1>1, <1>3, <2>2, <2>3 DEF SideToCompare, Runs, Sides
<1> SUFFICES ASSUME score.score # Nothing, NEW better \in Improvements(with)
             PROVE  LET s == Scored(better)
                    IN  /\ s.score >= score.score /\ s.grade >= score.grade
                        /\ s.confidence >= score.confidence /\ s.conflict <= score.conflict
  <2> HIDE DEF m, side, trusted, told, with, seen, score, outcome
  <2>1. answer'.score = score /\ answer'.evidence = with
    BY <1>2
  <2> QED BY <2>1, Zenon DEF BetterNeverScoresWorse, WasScored
<1>5. side = q.evidence.side /\ side \in Sides /\ score = Scored(with)
  BY <1>4
<1> HIDE DEF m, side, trusted, seen, score, outcome
<1>6. Weighed(with) /\ with.macro \in Assessment
  BY <1>1, <1>5, EvidenceIsWeighed
<1> HIDE DEF with
<1>7. Weighed(better) /\ NoWorse(better, with)
  BY <1>6, ImprovedIsNoWorse
<1> QED BY <1>5, <1>6, <1>7, ScoredNoWorse

(***************************************************************************)
(* For all points, weights, floors and thresholds ordered as the shipped   *)
(* ones: evidence that is better in one thing has no lower score, grade or *)
(* confidence and no more conflict (scoring/engine.py evaluate, grade_for, *)
(* confidence_for).                                                        *)
(***************************************************************************)
THEOREM BetterEvidenceCounts == RequestSpec => []BetterNeverScoresWorse
<1>1. RequestInit => BetterNeverScoresWorse
  BY DEF RequestInit, BetterNeverScoresWorse, WasScored
<1>2. BetterNeverScoresWorse /\ [RequestNext(Requests, Inputs)]_<<vars, answer>> => BetterNeverScoresWorse'
  <2> SUFFICES ASSUME BetterNeverScoresWorse, [RequestNext(Requests, Inputs)]_<<vars, answer>>
               PROVE  BetterNeverScoresWorse'
    OBVIOUS
  <2>1. CASE answer' = answer
    BY <2>1 DEF BetterNeverScoresWorse, WasScored
  <2>2. CASE answer' = Nothing
    BY <2>2 DEF BetterNeverScoresWorse, WasScored
  <2>3. ASSUME NEW q \in Requests, Evaluate(q.run, q.news, q.risk, q.userSpec, q.evidence, q.input, q.fails)
        PROVE  BetterNeverScoresWorse'
    BY <2>3, EvaluateRewards
  <2>4. ASSUME NEW side \in {"LONG", "SHORT", "NONE"}, NEW m \in Inputs, AssessMacro(side, m)
        PROVE  BetterNeverScoresWorse'
    <3>1. answer'.score = NotScored
      BY <2>4 DEF AssessMacro
    <3> QED BY <3>1 DEF BetterNeverScoresWorse, WasScored, NotScored
  <2> QED BY <2>1, <2>2, <2>3, <2>4, Zenon DEF RequestNext, Decides, Answered
<1> QED BY <1>1, <1>2, PTL DEF RequestSpec

-----------------------------------------------------------------------------
(* The risk gate.                                                          *)

FileLags ==
    file.day = day =>
       /\ file.balance - file.today = acct.balance - acct.today
       /\ file.balance - file.week = acct.balance - acct.week
       /\ Loss(file.today) + OpenRisk(file) >= Loss(acct.today) + OpenRisk(acct)
       /\ Loss(file.week) + OpenRisk(file) >= Loss(acct.week) + OpenRisk(acct)
       /\ file.balance - OpenRisk(file) <= acct.balance - OpenRisk(acct)
       /\ OpenCap(file) <= OpenCap(acct)

FileIsPast == file.day <= day

RiskIInv ==
    /\ RiskTypeOK /\ FileLags /\ FileIsPast
    /\ DailyLimitHolds /\ WeeklyLimitHolds /\ FloorHolds
    /\ acct.day = day

-----------------------------------------------------------------------------
(* Arithmetic of a percentage.                                             *)

LEMMA Share == ASSUME NEW p \in Nat, p <= 10000, NEW r \in Nat
               PROVE  r * p \in Nat /\ r * p <= 10000 * r
OBVIOUS

LEMMA Spread == ASSUME NEW a \in Int, NEW b \in Int, NEW p \in Nat
                PROVE  (a + b) * p = a * p + b * p
OBVIOUS

LEMMA Percents ==
    /\ RiskPct \in Nat /\ RiskPct <= 10000 /\ RiskPct > 0
    /\ DailyPct \in Nat /\ DailyPct <= 10000
    /\ WeeklyPct \in Nat /\ WeeklyPct <= 10000
    /\ OpenPct \in Nat /\ OpenPct <= 10000
    /\ PropDailyPct \in Nat /\ PropDailyPct <= 10000
    /\ PropTotalPct \in Nat /\ PropTotalPct <= 10000
BY PercentAssumption

LEMMA HalfCentIs == HalfCent \in Nat /\ HalfCent > 0
BY MoneyAssumption DEF HalfCent

\* What open positions can lose changes by what a slot changes by.
LEMMA OneSlot ==
    ASSUME NEW a, NEW b, a.open \in [Slots -> Nat], NEW s \in Slots, NEW x \in Nat,
           b.open = [a.open EXCEPT ![s] = x]
    PROVE  /\ OpenRisk(a) \in Nat /\ OpenRisk(b) \in Nat
           /\ OpenRisk(b) = OpenRisk(a) - a.open[s] + x
           /\ a.open[s] \in Nat /\ a.open[s] <= OpenRisk(a)
<1>1. /\ a.open[1] \in Nat /\ a.open[2] \in Nat /\ a.open[3] \in Nat
      /\ a.open[4] \in Nat /\ a.open[5] \in Nat
  BY DEF Slots
<1>2. \A t \in Slots : b.open[t] = IF t = s THEN x ELSE a.open[t]
  OBVIOUS
<1>3. /\ b.open[1] = IF 1 = s THEN x ELSE a.open[1]
      /\ b.open[2] = IF 2 = s THEN x ELSE a.open[2]
      /\ b.open[3] = IF 3 = s THEN x ELSE a.open[3]
      /\ b.open[4] = IF 4 = s THEN x ELSE a.open[4]
      /\ b.open[5] = IF 5 = s THEN x ELSE a.open[5]
  BY <1>2 DEF Slots
<1>4. s = 1 \/ s = 2 \/ s = 3 \/ s = 4 \/ s = 5
  BY DEF Slots
<1> QED BY <1>1, <1>3, <1>4 DEF OpenRisk

LEMMA RiskType == ASSUME NEW a \in Account PROVE OpenRisk(a) \in Nat
BY DEF OpenRisk, Account, Slots

LEMMA CapTypes ==
    ASSUME NEW a \in Account
    PROVE  /\ DailyCap(a) \in Int /\ WeeklyCap(a) \in Int /\ OpenCap(a) \in Int
           /\ PropDailyCap(a) \in Int /\ PropTotalCap(a) \in Int
           /\ a.balance * RiskPct \in Int
<1>1. OpenRisk(a) \in Nat BY RiskType
<1>2. a.balance \in Int /\ a.today \in Int /\ a.week \in Int BY DEF Account
<1>3. PropStart \in Int BY MoneyAssumption
<1>4. /\ Start(a, a.today) \in Int /\ Start(a, a.week) \in Int
      /\ Loss(a.today) \in Int /\ Loss(a.week) \in Int
  BY <1>2 DEF Start, Loss, Larger
<1> QED BY <1>1, <1>2, <1>3, <1>4, Percents
        DEF DailyCap, WeeklyCap, OpenCap, PropDailyCap, PropTotalCap

\* One of the caps is the least.
LEMMA LeastCap ==
    ASSUME NEW a \in Account
    PROVE  \E c \in Caps(a) : \A d \in Caps(a) : c <= d
<1>1. \A x, y \in Int : \E m \in {x, y} : m <= x /\ m <= y OBVIOUS
<1> DEFINE one == a.balance * RiskPct
           two == DailyCap(a)
           three == WeeklyCap(a)
           four == OpenCap(a)
           five == PropDailyCap(a)
           six == PropTotalCap(a)
<1>2. /\ one \in Int /\ two \in Int /\ three \in Int
      /\ four \in Int /\ five \in Int /\ six \in Int
  BY CapTypes
<1>3. Caps(a) = {one, two, three, four, five, six} BY DEF Caps
<1> HIDE DEF one, two, three, four, five, six
<1>4. PICK l \in {one, two} : l <= one /\ l <= two BY <1>1, <1>2
<1>5. PICK m \in {three, four} : m <= three /\ m <= four BY <1>1, <1>2
<1>6. PICK n \in {five, six} : n <= five /\ n <= six BY <1>1, <1>2
<1>7. PICK k \in {l, m} : k <= l /\ k <= m BY <1>1, <1>2, <1>4, <1>5
<1>8. PICK c \in {k, n} : c <= k /\ c <= n BY <1>1, <1>2, <1>4, <1>5, <1>6, <1>7
<1>9. c \in {one, two, three, four, five, six}
  BY <1>4, <1>5, <1>6, <1>7, <1>8
<1>10. /\ c <= one /\ c <= two /\ c <= three
       /\ c <= four /\ c <= five /\ c <= six
  BY <1>2, <1>4, <1>5, <1>6, <1>7, <1>8
<1> QED BY <1>3, <1>9, <1>10

\* A budget that is not empty is within every cap.
LEMMA EffectiveIsLeast ==
    ASSUME NEW a \in Account
    PROVE  /\ Effective(a) \in Nat
           /\ Effective(a) > 0 =>
                /\ Effective(a) <= DailyCap(a) /\ Effective(a) <= WeeklyCap(a)
                /\ Effective(a) <= OpenCap(a)
                /\ Effective(a) <= PropDailyCap(a) /\ Effective(a) <= PropTotalCap(a)
<1> DEFINE C == Caps(a)
           IsLeast(c) == \A d \in C : c <= d
<1>1. C \subseteq Int BY CapTypes DEF Caps
<1>2. \E c \in C : IsLeast(c) BY LeastCap
<1> DEFINE least == CHOOSE c \in C : IsLeast(c)
<1>3. least \in C /\ IsLeast(least) BY <1>2
<1>4. Effective(a) = Larger(0, least) BY DEF Effective
<1>5. /\ DailyCap(a) \in C /\ WeeklyCap(a) \in C /\ OpenCap(a) \in C
      /\ PropDailyCap(a) \in C /\ PropTotalCap(a) \in C
  BY DEF Caps
<1> HIDE DEF C, least
<1>6. least \in Int BY <1>1, <1>3
<1>7. /\ least <= DailyCap(a) /\ least <= WeeklyCap(a) /\ least <= OpenCap(a)
      /\ least <= PropDailyCap(a) /\ least <= PropTotalCap(a)
  BY <1>3, <1>5
<1> QED BY <1>4, <1>6, <1>7, CapTypes DEF Larger

\* A budget is what is left to the nearest cent.
LEMMA BudgetIsNear ==
    ASSUME NEW a \in Account, NEW b \in Budgets(a)
    PROVE  /\ b \in Nat /\ 10000 * b <= Effective(a) + HalfCent
           /\ Effective(a) <= 10000 * b + HalfCent
<1> DEFINE e == Effective(a)
           h == HalfCent
           q == e \div (2 * h)
<1>1. e \in Nat BY EffectiveIsLeast
<1>2. h \in Nat /\ h > 0 BY HalfCentIs
<1>3. Cent \in Nat BY MoneyAssumption
<1>4. b \in {Cent * q, Cent * q + Cent} /\ 10000 * b - e \in -h .. h BY DEF Budgets
<1> HIDE DEF e, h
<1>5. 2 * h \in Nat /\ 2 * h > 0 BY <1>2
<1>6. q \in Nat BY <1>1, <1>5
<1> HIDE DEF q
<1>7. Cent * q \in Nat BY <1>3, <1>6
<1>8. b \in Nat BY <1>3, <1>4, <1>7
<1> QED BY <1>1, <1>2, <1>4, <1>8 DEF e, h

\* With nothing left the budget is 0.00.
LEMMA EmptyBudget ==
    ASSUME NEW a \in Account, NEW b \in Budgets(a), Effective(a) = 0
    PROVE  b = 0
<1>1. HalfCent \in Nat /\ HalfCent > 0 /\ Cent \in Nat /\ Cent > 0 /\ HalfCent = 5000 * Cent
  BY HalfCentIs, MoneyAssumption DEF HalfCent
<1>2. 0 \div (2 * HalfCent) = 0 BY <1>1
<1>3. b \in {Cent * 0, Cent * 0 + Cent} /\ 10000 * b - 0 \in -HalfCent .. HalfCent
  BY <1>2 DEF Budgets
<1> QED BY <1>1, <1>3

\* The size of a plan never risks more than the budget.
LEMMA SizeFits ==
    ASSUME NEW b \in Nat, NEW p \in Plan
    PROVE  /\ Volume(b, p) \in Nat /\ Volume(b, p) * p.perVolume \in Nat
           /\ Volume(b, p) * p.perVolume <= b
<1> DEFINE v == p.perVolume
           q == b \div v
<1>1. v \in Nat /\ v > 0
  <2>1. v \in PerVolume BY DEF Plan
  <2>2. \A x \in PerVolume : x \in Nat /\ x > 0 BY MoneyAssumption
  <2> QED BY <2>1, <2>2
<1>2. Volume(b, p) = q BY DEF Volume
<1> HIDE DEF v
<1>3. q \in Nat /\ v * q <= b BY <1>1
<1> HIDE DEF q
<1>4. q * v \in Nat /\ q * v = v * q BY <1>1, <1>3
<1> QED BY <1>2, <1>3, <1>4 DEF v

-----------------------------------------------------------------------------
(* The invariant.                                                          *)

LEMMA RiskInitHolds == RiskInit => RiskIInv
<1> SUFFICES ASSUME RiskInit PROVE RiskIInv OBVIOUS
<1> USE DEF RiskInit, NewAccount
<1>1. Balance \in Nat /\ PropStart \in Nat /\ PropStart <= Balance
  BY MoneyAssumption
<1>2. RiskTypeOK BY <1>1 DEF RiskTypeOK, Account, Slots
<1>3. OpenRisk(acct) = 0 BY DEF OpenRisk, Slots
<1>4. /\ acct.balance = Balance /\ acct.today = 0 /\ acct.week = 0 /\ acct.day = 0
  OBVIOUS
<1>11. FileIsPast BY <1>4 DEF FileIsPast
<1>6. FileLags BY <1>1, <1>2, CapTypes DEF FileLags, RiskTypeOK, Account, Loss, Larger, OpenRisk, Slots
<1>7. Start(acct, 0) = Balance /\ Loss(0) = 0 BY <1>1, <1>4 DEF Start, Loss, Larger
<1>8. /\ Balance * DailyPct \in Nat /\ Balance * WeeklyPct \in Nat
      /\ Balance * PropDailyPct \in Nat
  BY <1>1, Share, Percents
<1>9. DailyLimitHolds /\ WeeklyLimitHolds
  BY <1>3, <1>4, <1>7, <1>8, HalfCentIs
     DEF DailyLimitHolds, WeeklyLimitHolds, DailyCap, WeeklyCap
<1>10. FloorHolds
  <2>1. 10000 - PropTotalPct \in Nat /\ 10000 - PropTotalPct <= 10000 BY Percents
  <2>2. PropStart * (10000 - PropTotalPct) <= 10000 * PropStart
        /\ PropStart * (10000 - PropTotalPct) \in Nat
    BY <1>1, <2>1, Share
  <2> QED BY <1>1, <1>3, <1>4, <1>7, <1>8, <2>2, HalfCentIs
          DEF FloorHolds, PropDailyCap, PropTotalCap
<1> QED BY <1>2, <1>4, <1>6, <1>9, <1>10, <1>11 DEF RiskIInv

\* Caps compare as the losses and the open risk do when the starts are the same.
LEMMA SameStart ==
    ASSUME NEW a \in Account, NEW b \in Account,
           b.balance - b.today = a.balance - a.today,
           b.balance - b.week = a.balance - a.week,
           Loss(b.today) + OpenRisk(b) <= Loss(a.today) + OpenRisk(a),
           Loss(b.week) + OpenRisk(b) <= Loss(a.week) + OpenRisk(a),
           a.balance - OpenRisk(a) <= b.balance - OpenRisk(b)
    PROVE  /\ DailyCap(a) <= DailyCap(b) /\ WeeklyCap(a) <= WeeklyCap(b)
           /\ PropDailyCap(a) <= PropDailyCap(b) /\ PropTotalCap(a) <= PropTotalCap(b)
<1>1. /\ a.balance \in Int /\ a.today \in Int /\ a.week \in Int
      /\ b.balance \in Int /\ b.today \in Int /\ b.week \in Int
  BY DEF Account
<1>2. OpenRisk(a) \in Nat /\ OpenRisk(b) \in Nat BY RiskType
<1>3. /\ Start(b, b.today) = Start(a, a.today) /\ Start(b, b.week) = Start(a, a.week)
      /\ Start(a, a.today) \in Int /\ Start(a, a.week) \in Int
      /\ Loss(a.today) \in Int /\ Loss(a.week) \in Int
      /\ Loss(b.today) \in Int /\ Loss(b.week) \in Int
  BY <1>1 DEF Start, Loss, Larger
<1>4. /\ Start(a, a.today) * DailyPct \in Int /\ Start(a, a.week) * WeeklyPct \in Int
      /\ Start(a, a.today) * PropDailyPct \in Int
      /\ PropStart * (10000 - PropTotalPct) \in Int
  BY <1>3, Percents, MoneyAssumption
<1>5. DailyCap(a) <= DailyCap(b) BY <1>2, <1>3, <1>4 DEF DailyCap
<1>6. WeeklyCap(a) <= WeeklyCap(b) BY <1>2, <1>3, <1>4 DEF WeeklyCap
<1>7. PropDailyCap(a) <= PropDailyCap(b) BY <1>2, <1>3, <1>4 DEF PropDailyCap
<1>8. PropTotalCap(a) <= PropTotalCap(b) BY <1>1, <1>2, <1>4 DEF PropTotalCap
<1> QED BY <1>5, <1>6, <1>7, <1>8

\* A limit that held for the old day or week holds for the new one.
LEMMA NewStart ==
    ASSUME NEW b \in Int, NEW x \in Int, NEW o \in Nat, NEW p \in Nat, p <= 10000, NEW h \in Nat,
           Larger(0, b - x) * p - 10000 * (Loss(x) + o) >= -h
    PROVE  Larger(0, b) * p - 10000 * o >= -h
<1>1. CASE b >= 0 /\ b - x >= 0
  <2>1. (b - x) * p - 10000 * (Loss(x) + o) >= -h BY <1>1 DEF Larger
  <2>2. CASE x >= 0
    <3>1. x \in Nat /\ Loss(x) = 0 BY <2>2 DEF Loss, Larger
    <3>2. x * p \in Nat BY <3>1, Share
    <3>3. b * p = (b - x) * p + x * p
      <4>1. b = (b - x) + x /\ b - x \in Int OBVIOUS
      <4> HIDE <2>1
      <4> QED BY <4>1, Spread
    <3>4. (b - x) * p \in Int /\ b * p \in Int OBVIOUS
    <3>5. b * p - 10000 * o >= -h BY <2>1, <3>1, <3>2, <3>3, <3>4
    <3> QED BY <1>1, <3>5 DEF Larger
  <2>3. CASE x < 0
    <3> DEFINE y == -x
    <3>1. y \in Nat /\ Loss(x) = y BY <2>3 DEF Loss, Larger
    <3>2. y * p \in Nat /\ y * p <= 10000 * y BY <3>1, Share
    <3>3. (b - x) * p = b * p + y * p
      <4>1. b - x = b + y BY <3>1
      <4> QED BY <3>1, <4>1, Spread
    <3>4. (b - x) * p \in Int /\ b * p \in Int OBVIOUS
    <3> HIDE DEF y
    <3>5. b * p - 10000 * o >= -h BY <2>1, <3>1, <3>2, <3>3, <3>4
    <3> QED BY <1>1, <3>5 DEF Larger
  <2> QED BY <2>2, <2>3
<1>2. CASE b < 0 /\ b - x >= 0
  <2> DEFINE d == b - x
  <2>1. d \in Nat /\ d * p \in Nat /\ d * p <= 10000 * d BY <1>2, Share
  <2>2. Larger(0, d) = d /\ Loss(x) = -x BY <1>2 DEF Loss, Larger
  <2>3. d * p - 10000 * (o - x) >= -h BY <2>2
  <2>4. -(10000 * o) >= -h
    <3>1. d = b - x OBVIOUS
    <3> HIDE DEF d
    <3> QED BY <1>2, <2>1, <2>3, <3>1
  <2>5. Larger(0, b) = 0 BY <1>2 DEF Larger
  <2> QED BY <2>4, <2>5
<1>3. CASE b - x < 0
  <2>1. Larger(0, b - x) = 0 BY <1>3 DEF Larger
  <2>2. Loss(x) \in Nat BY DEF Loss, Larger
  <2>3. -(10000 * o) >= -h BY <2>1, <2>2
  <2>4. Larger(0, b) \in Nat BY DEF Larger
  <2>5. Larger(0, b) * p \in Nat BY <2>4, Share
  <2> QED BY <2>3, <2>5
<1> QED BY <1>1, <1>2, <1>3

\* The file lags safely: what FileLags says gives every cap.
LEMMA LagIsSafe ==
    ASSUME RiskTypeOK, FileLags PROVE LateFileIsSafe
<1> SUFFICES ASSUME file.day = day
             PROVE /\ DailyCap(file) <= DailyCap(acct)
                   /\ WeeklyCap(file) <= WeeklyCap(acct)
                   /\ OpenCap(file) <= OpenCap(acct)
                   /\ PropDailyCap(file) <= PropDailyCap(acct)
                   /\ PropTotalCap(file) <= PropTotalCap(acct)
  BY DEF LateFileIsSafe
<1>1. file \in Account /\ acct \in Account BY DEF RiskTypeOK
<1>2. OpenRisk(file) \in Nat /\ OpenRisk(acct) \in Nat BY <1>1, RiskType
<1>3. /\ Loss(acct.today) + OpenRisk(acct) <= Loss(file.today) + OpenRisk(file)
      /\ Loss(acct.week) + OpenRisk(acct) <= Loss(file.week) + OpenRisk(file)
  <2>1. /\ Loss(acct.today) \in Int /\ Loss(file.today) \in Int
        /\ Loss(acct.week) \in Int /\ Loss(file.week) \in Int
    BY <1>1 DEF Account, Loss, Larger
  <2> QED BY <1>2, <2>1 DEF FileLags
<1>4. OpenCap(file) <= OpenCap(acct) BY DEF FileLags
<1>5. /\ acct.balance - acct.today = file.balance - file.today
      /\ acct.balance - acct.week = file.balance - file.week
      /\ file.balance - OpenRisk(file) <= acct.balance - OpenRisk(acct)
  BY DEF FileLags
<1> QED BY <1>1, <1>3, <1>4, <1>5, SameStart

LEMMA EnterHolds ==
    ASSUME RiskIInv, NEW p \in Plan, NEW market \in MarketLocks, NEW b \in Budgets(file),
           Enter(p, market, b)
    PROVE  RiskIInv'
<1> DEFINE risk == Volume(b, p) * p.perVolume
<1>1. PICK s \in Slots \ OpenSlots(acct) :
        acct' = [acct EXCEPT !.open[s] = risk, !.trades = @ + 1]
  BY DEF Enter
<1>2. file \in Account /\ acct \in Account BY DEF RiskIInv, RiskTypeOK
<1>3. /\ risk \in Nat /\ 10000 * risk <= Effective(file) + HalfCent
      /\ HalfCent \in Nat /\ HalfCent > 0
  <2>1. b \in Nat /\ 10000 * b <= Effective(file) + HalfCent BY <1>2, BudgetIsNear
  <2>2. risk \in Nat /\ risk <= b BY <2>1, SizeFits
  <2>3. Effective(file) \in Nat BY <1>2, EffectiveIsLeast
  <2> HIDE DEF risk
  <2> QED BY <2>1, <2>2, <2>3, HalfCentIs
<1>4. file.day = day
  <2>1. AccountLocks(file, day) = {} BY DEF Enter, Status, Locks
  <2> QED BY <2>1 DEF AccountLocks
<1>5. /\ Effective(file) > 0 =>
           /\ Effective(file) <= DailyCap(file) /\ Effective(file) <= WeeklyCap(file)
           /\ Effective(file) <= PropDailyCap(file) /\ Effective(file) <= PropTotalCap(file)
      /\ Effective(file) \in Nat
  BY <1>2, EffectiveIsLeast
<1>6. LateFileIsSafe BY LagIsSafe DEF RiskIInv
<1>7. /\ DailyCap(acct) >= -HalfCent /\ WeeklyCap(acct) >= -HalfCent
      /\ PropDailyCap(acct) >= -HalfCent /\ PropTotalCap(acct) >= -HalfCent
  BY DEF RiskIInv, DailyLimitHolds, WeeklyLimitHolds, FloorHolds
<1>8. /\ DailyCap(acct) \in Int /\ WeeklyCap(acct) \in Int
      /\ PropDailyCap(acct) \in Int /\ PropTotalCap(acct) \in Int
      /\ DailyCap(file) \in Int /\ WeeklyCap(file) \in Int
      /\ PropDailyCap(file) \in Int /\ PropTotalCap(file) \in Int
  BY <1>2, CapTypes
<1> HIDE DEF risk
<1>9. /\ 10000 * risk <= DailyCap(acct) + HalfCent
      /\ 10000 * risk <= WeeklyCap(acct) + HalfCent
      /\ 10000 * risk <= PropDailyCap(acct) + HalfCent
      /\ 10000 * risk <= PropTotalCap(acct) + HalfCent
  <2>1. CASE Effective(file) = 0
    <3>1. risk = 0
      <4>1. b = 0 BY <1>2, <2>1, EmptyBudget
      <4> QED BY <4>1, SizeFits DEF risk
    <3> QED BY <1>3, <1>7, <1>8, <3>1
  <2>2. CASE Effective(file) > 0
    <3>1. /\ DailyCap(file) <= DailyCap(acct) /\ WeeklyCap(file) <= WeeklyCap(acct)
          /\ PropDailyCap(file) <= PropDailyCap(acct)
          /\ PropTotalCap(file) <= PropTotalCap(acct)
      BY <1>4, <1>6 DEF LateFileIsSafe
    <3> QED BY <1>3, <1>5, <1>8, <2>2, <3>1
  <2> QED BY <1>5, <2>1, <2>2
<1>10. acct' \in Account
  <2>1. acct.open \in [Slots -> Nat] /\ s \in Slots BY <1>1, <1>2 DEF Account
  <2>2. [acct.open EXCEPT ![s] = risk] \in [Slots -> Nat] BY <1>3, <2>1
  <2>3. acct' = [acct EXCEPT !.open = [acct.open EXCEPT ![s] = risk],
                             !.trades = acct.trades + 1]
    BY <1>1, <1>2 DEF Account
  <2>4. acct.trades + 1 \in Nat BY <1>2 DEF Account
  <2> DEFINE o == [acct.open EXCEPT ![s] = risk]
  <2>5. o \in [Slots -> Nat] BY <2>2
  <2>6. acct' = [acct EXCEPT !.open = o, !.trades = acct.trades + 1] BY <2>3
  <2> HIDE DEF o
  <2> QED BY <1>2, <2>4, <2>5, <2>6 DEF Account
<1>11. /\ acct'.balance = acct.balance /\ acct'.today = acct.today
       /\ acct'.week = acct.week /\ acct'.day = acct.day
       /\ acct'.open = [acct.open EXCEPT ![s] = risk]
  BY <1>1, <1>2 DEF Account
<1>12. OpenRisk(acct') = OpenRisk(acct) + risk /\ OpenRisk(acct) \in Nat
  <2>1. acct.open \in [Slots -> Nat] /\ s \in Slots BY <1>1, <1>2 DEF Account
  <2>2. acct.open[s] = 0 BY <1>1, <2>1 DEF OpenSlots
  <2>3. /\ OpenRisk(acct') = OpenRisk(acct) - acct.open[s] + risk
        /\ OpenRisk(acct) \in Nat
    BY <1>3, <1>11, <2>1, OneSlot
  <2> QED BY <1>3, <2>2, <2>3
<1>13. /\ Start(acct', acct'.today) = Start(acct, acct.today)
       /\ Start(acct', acct'.week) = Start(acct, acct.week)
  BY <1>11 DEF Start
<1>14. /\ Start(acct, acct.today) \in Int /\ Start(acct, acct.week) \in Int
       /\ Loss(acct.today) \in Int /\ Loss(acct.week) \in Int
       /\ acct.balance \in Int
  BY <1>2 DEF Account, Start, Loss, Larger
<1>15. /\ Start(acct, acct.today) * DailyPct \in Int
       /\ Start(acct, acct.week) * WeeklyPct \in Int
       /\ Start(acct, acct.today) * PropDailyPct \in Int
       /\ PropStart * (10000 - PropTotalPct) \in Int
  BY <1>14, Percents, MoneyAssumption
<1>16. DailyCap(acct') = DailyCap(acct) - 10000 * risk
  BY <1>3, <1>11, <1>12, <1>13, <1>14, <1>15 DEF DailyCap
<1>17. WeeklyCap(acct') = WeeklyCap(acct) - 10000 * risk
  BY <1>3, <1>11, <1>12, <1>13, <1>14, <1>15 DEF WeeklyCap
<1>18. PropDailyCap(acct') = PropDailyCap(acct) - 10000 * risk
  BY <1>3, <1>11, <1>12, <1>13, <1>14, <1>15 DEF PropDailyCap
<1>19. PropTotalCap(acct') = PropTotalCap(acct) - 10000 * risk
  BY <1>3, <1>11, <1>12, <1>13, <1>14, <1>15 DEF PropTotalCap
<1>20. DailyLimitHolds' /\ WeeklyLimitHolds' /\ FloorHolds'
  BY <1>3, <1>8, <1>9, <1>16, <1>17, <1>18, <1>19
     DEF DailyLimitHolds, WeeklyLimitHolds, FloorHolds
<1>21. file' = acct' /\ day' = day /\ profile' = profile BY DEF Enter
<1>22. FileLags'
  <2>1. OpenRisk(acct') \in Nat /\ OpenCap(acct') \in Int BY <1>10, RiskType, CapTypes
  <2>2. /\ acct'.balance \in Int /\ acct'.today \in Int /\ acct'.week \in Int
        /\ Loss(acct'.today) \in Int /\ Loss(acct'.week) \in Int
    BY <1>10 DEF Account, Loss, Larger
  <2> QED BY <1>21, <2>1, <2>2 DEF FileLags
<1>23. RiskTypeOK' BY <1>10, <1>21 DEF RiskIInv, RiskTypeOK
<1>24. acct'.day = day' BY <1>11, <1>21 DEF RiskIInv
<1>25. FileIsPast' BY <1>11, <1>21 DEF RiskIInv, RiskTypeOK, FileIsPast
<1> QED BY <1>20, <1>22, <1>23, <1>24, <1>25 DEF RiskIInv

\* A closed position lowers no cap, whatever it brought.
LEMMA CloseHolds ==
    ASSUME RiskIInv, NEW s \in Slots, NEW recorded \in BOOLEAN, NEW pnl \in Results(s),
           Close(s, pnl, recorded)
    PROVE  RiskIInv'
<1> DEFINE r == acct.open[s]
           n == NextLosses(acct.losses, pnl)
           o == [acct.open EXCEPT ![s] = 0]
<1>1. file \in Account /\ acct \in Account BY DEF RiskIInv, RiskTypeOK
<1>2. /\ acct.balance \in Int /\ acct.today \in Int /\ acct.week \in Int
      /\ acct.open \in [Slots -> Nat] /\ acct.losses \in Nat
  BY <1>1 DEF Account
<1>3. r \in Nat BY <1>2
<1>4. pnl \in Int /\ pnl >= -r
  <2>1. CASE pnl \in Wins BY <1>3, <2>1, MoneyAssumption
  <2>2. CASE pnl \notin Wins
    <3>1. PICK x \in {acct.open[s]} \cup {y \in PartLosses : y <= acct.open[s]} : pnl = -x
      BY <2>2 DEF Results
    <3>2. x = r \/ (x \in PartLosses /\ x <= r) BY <3>1
    <3>3. \A y \in PartLosses : y \in Nat BY MoneyAssumption
    <3> QED BY <1>3, <3>1, <3>2, <3>3
  <2> QED BY <2>1, <2>2
<1>5. n \in Nat BY <1>2, <1>4 DEF NextLosses
<1>6. o \in [Slots -> Nat] BY <1>2
<1>7. acct' = [acct EXCEPT !.balance = acct.balance + pnl, !.today = acct.today + pnl,
                           !.week = acct.week + pnl, !.losses = n, !.open = o]
  BY <1>1 DEF Close, Account
<1>8. day' = day /\ profile' = profile /\ file' \in {file, acct'} BY DEF Close
<1> HIDE DEF n, o
<1>9. acct' \in Account
  <2>1. /\ acct.balance + pnl \in Int /\ acct.today + pnl \in Int
        /\ acct.week + pnl \in Int
    BY <1>2, <1>4
  <2> QED BY <1>1, <1>5, <1>6, <1>7, <2>1 DEF Account
<1>10. /\ acct'.balance = acct.balance + pnl /\ acct'.today = acct.today + pnl
       /\ acct'.week = acct.week + pnl /\ acct'.open = o /\ acct'.day = acct.day
  BY <1>1, <1>7 DEF Account
<1>11. /\ OpenRisk(acct') = OpenRisk(acct) - r
       /\ OpenRisk(acct) \in Nat /\ OpenRisk(acct') \in Nat
  <2>1. /\ OpenRisk(acct') = OpenRisk(acct) - acct.open[s] + 0
        /\ OpenRisk(acct) \in Nat /\ OpenRisk(acct') \in Nat
    BY <1>2, <1>10, OneSlot DEF o
  <2> QED BY <1>3, <2>1
<1> HIDE DEF r
<1>12. /\ Loss(acct'.today) <= Loss(acct.today) + r
       /\ Loss(acct'.week) <= Loss(acct.week) + r
       /\ Loss(acct'.today) \in Int /\ Loss(acct.today) \in Int
       /\ Loss(acct'.week) \in Int /\ Loss(acct.week) \in Int
  BY <1>2, <1>3, <1>4, <1>10 DEF Loss, Larger
<1>13. /\ acct'.balance - acct'.today = acct.balance - acct.today
       /\ acct'.balance - acct'.week = acct.balance - acct.week
       /\ Loss(acct'.today) + OpenRisk(acct') <= Loss(acct.today) + OpenRisk(acct)
       /\ Loss(acct'.week) + OpenRisk(acct') <= Loss(acct.week) + OpenRisk(acct)
       /\ acct.balance - OpenRisk(acct) <= acct'.balance - OpenRisk(acct')
  BY <1>2, <1>3, <1>4, <1>10, <1>11, <1>12
<1>14. /\ DailyCap(acct) <= DailyCap(acct') /\ WeeklyCap(acct) <= WeeklyCap(acct')
       /\ PropDailyCap(acct) <= PropDailyCap(acct')
       /\ PropTotalCap(acct) <= PropTotalCap(acct')
  BY <1>1, <1>9, <1>13, SameStart
<1>15. OpenCap(acct) <= OpenCap(acct')
  <2> DEFINE y == pnl + r
  <2>1. y \in Nat /\ pnl = y + (-r) BY <1>3, <1>4
  <2>2. y * OpenPct \in Nat /\ r * OpenPct \in Nat /\ r * OpenPct <= 10000 * r
    BY <1>3, <2>1, Percents, Share
  <2>3. (acct.balance + y) * OpenPct = acct.balance * OpenPct + y * OpenPct
    BY <1>2, <2>1, Percents, Spread
  <2>4. acct.balance + y = (acct.balance + pnl) + r BY <1>2, <1>3, <1>4
  <2>5. ((acct.balance + pnl) + r) * OpenPct
          = (acct.balance + pnl) * OpenPct + r * OpenPct
    <3>1. acct.balance + pnl \in Int /\ r \in Int BY <1>2, <1>3, <1>4
    <3> QED BY <3>1, Percents, Spread
  <2>6. /\ acct.balance * OpenPct \in Int /\ (acct.balance + pnl) * OpenPct \in Int
    BY <1>2, <1>4, Percents
  <2> HIDE DEF y
  <2> QED BY <1>3, <1>10, <1>11, <2>2, <2>3, <2>4, <2>5, <2>6 DEF OpenCap
<1>16. /\ DailyCap(acct') \in Int /\ WeeklyCap(acct') \in Int
       /\ PropDailyCap(acct') \in Int /\ PropTotalCap(acct') \in Int
       /\ DailyCap(acct) \in Int /\ WeeklyCap(acct) \in Int
       /\ PropDailyCap(acct) \in Int /\ PropTotalCap(acct) \in Int
  BY <1>1, <1>9, CapTypes
<1>17. DailyLimitHolds' /\ WeeklyLimitHolds' /\ FloorHolds'
  BY <1>14, <1>16, HalfCentIs DEF RiskIInv, DailyLimitHolds, WeeklyLimitHolds, FloorHolds
<1>18. RiskTypeOK'
  <2>1. file' \in Account BY <1>1, <1>8, <1>9
  <2> QED BY <1>8, <1>9, <2>1 DEF RiskIInv, RiskTypeOK
<1>19. acct'.day = day' BY <1>8, <1>10 DEF RiskIInv
<1>20. FileLags'
  <2>1. CASE file' = acct'
    <3>1. /\ OpenCap(acct') \in Int BY <1>9, CapTypes
    <3>2. /\ acct'.balance \in Int /\ acct'.today \in Int /\ acct'.week \in Int
      BY <1>9 DEF Account
    <3> QED BY <1>11, <1>12, <2>1, <3>1, <3>2 DEF FileLags
  <2>2. CASE file' = file
    <3> SUFFICES ASSUME file.day = day
                 PROVE /\ file.balance - file.today = acct'.balance - acct'.today
                       /\ file.balance - file.week = acct'.balance - acct'.week
                       /\ Loss(file.today) + OpenRisk(file) >= Loss(acct'.today) + OpenRisk(acct')
                       /\ Loss(file.week) + OpenRisk(file) >= Loss(acct'.week) + OpenRisk(acct')
                       /\ file.balance - OpenRisk(file) <= acct'.balance - OpenRisk(acct')
                       /\ OpenCap(file) <= OpenCap(acct')
      BY <1>8, <2>2 DEF FileLags
    <3>1. /\ file.balance - file.today = acct.balance - acct.today
          /\ file.balance - file.week = acct.balance - acct.week
          /\ Loss(file.today) + OpenRisk(file) >= Loss(acct.today) + OpenRisk(acct)
          /\ Loss(file.week) + OpenRisk(file) >= Loss(acct.week) + OpenRisk(acct)
          /\ file.balance - OpenRisk(file) <= acct.balance - OpenRisk(acct)
          /\ OpenCap(file) <= OpenCap(acct)
      BY DEF RiskIInv, FileLags
    <3>2. /\ Loss(file.today) \in Int /\ Loss(file.week) \in Int /\ file.balance \in Int
      BY <1>1 DEF Account, Loss, Larger
    <3>3. OpenRisk(file) \in Nat BY <1>1, RiskType
    <3>4. OpenCap(file) \in Int /\ OpenCap(acct) \in Int /\ OpenCap(acct') \in Int
      BY <1>1, <1>9, CapTypes
    <3> QED BY <1>2, <1>4, <1>10, <1>11, <1>12, <1>13, <1>15, <3>1, <3>2, <3>3, <3>4
  <2> QED BY <1>8, <2>1, <2>2
<1>21. FileIsPast'
  <2>1. file'.day \in {file.day, day} BY <1>8, <1>10 DEF RiskIInv
  <2> QED BY <1>1, <1>8, <2>1 DEF RiskIInv, RiskTypeOK, FileIsPast, Account
<1> QED BY <1>17, <1>18, <1>19, <1>20, <1>21 DEF RiskIInv

\* A new day or week starts with the losses of the old one off the count and the
\* balance they left; positions carried over still fit its limits.
LEMMA NextDayHolds == ASSUME RiskIInv, NextDay PROVE RiskIInv'
<1> DEFINE w == IF (day + 1) % WeekDays = 0 THEN 0 ELSE acct.week
<1>1. file \in Account /\ acct \in Account /\ day \in Nat /\ acct.day = day
  BY DEF RiskIInv, RiskTypeOK
<1>2. /\ acct.balance \in Int /\ acct.today \in Int /\ acct.week \in Int
      /\ OpenRisk(acct) \in Nat
  BY <1>1, RiskType DEF Account
<1>3. w = 0 \/ w = acct.week OBVIOUS
<1>4. acct' = [acct EXCEPT !.today = 0, !.trades = 0, !.day = day + 1, !.week = w]
  BY <1>1 DEF NextDay, Account
<1>5. day' = day + 1 /\ file' = file /\ profile' = profile BY DEF NextDay
<1> HIDE DEF w
<1>6. acct' \in Account
  <2> DEFINE n == day + 1
  <2>1. w \in Int /\ n \in Nat BY <1>1, <1>2, <1>3
  <2>2. acct' = [acct EXCEPT !.today = 0, !.trades = 0, !.day = n, !.week = w]
    BY <1>4
  <2>3. 0 \in Int /\ 0 \in Nat OBVIOUS
  <2> HIDE DEF n
  <2> QED BY <1>1, <2>1, <2>2, <2>3 DEF Account
<1>7. /\ acct'.balance = acct.balance /\ acct'.today = 0 /\ acct'.week = w
      /\ acct'.open = acct.open /\ acct'.day = day + 1
  BY <1>1, <1>4 DEF Account
<1>8. OpenRisk(acct') = OpenRisk(acct) BY <1>7 DEF OpenRisk
<1>9. Loss(0) = 0 BY DEF Loss, Larger
<1> DEFINE start == Start(acct, 0)
<1>10. /\ start * DailyPct - 10000 * OpenRisk(acct) >= -HalfCent
       /\ start * PropDailyPct - 10000 * OpenRisk(acct) >= -HalfCent
       /\ start * WeeklyPct - 10000 * OpenRisk(acct) >= -HalfCent
  <2>1. Larger(0, acct.balance - acct.today) * DailyPct
          - 10000 * (Loss(acct.today) + OpenRisk(acct)) >= -HalfCent
    BY DEF RiskIInv, DailyLimitHolds, DailyCap, Start
  <2>2. Larger(0, acct.balance - acct.today) * PropDailyPct
          - 10000 * (Loss(acct.today) + OpenRisk(acct)) >= -HalfCent
    BY DEF RiskIInv, FloorHolds, PropDailyCap, Start
  <2>3. Larger(0, acct.balance - acct.week) * WeeklyPct
          - 10000 * (Loss(acct.week) + OpenRisk(acct)) >= -HalfCent
    BY DEF RiskIInv, WeeklyLimitHolds, WeeklyCap, Start
  <2> DEFINE b == acct.balance
             t == acct.today
             x == acct.week
             o == OpenRisk(acct)
             h == HalfCent
  <2>4. b \in Int /\ t \in Int /\ x \in Int /\ o \in Nat /\ h \in Nat BY <1>2, HalfCentIs
  <2>5. start = Larger(0, b) BY <2>4 DEF Start
  <2> HIDE DEF b, t, x, o, h, start
  <2>6. Larger(0, b) * DailyPct - 10000 * o >= -h
    BY <2>1, <2>4, Percents, NewStart DEF b, t, o, h
  <2>7. Larger(0, b) * PropDailyPct - 10000 * o >= -h
    BY <2>2, <2>4, Percents, NewStart DEF b, t, o, h
  <2>8. Larger(0, b) * WeeklyPct - 10000 * o >= -h
    BY <2>3, <2>4, Percents, NewStart DEF b, x, o, h
  <2> QED BY <2>5, <2>6, <2>7, <2>8 DEF o, h
<1>11. /\ Start(acct', 0) = start /\ start \in Nat
       /\ Start(acct', acct.week) = Start(acct, acct.week)
  BY <1>2, <1>7 DEF Start, Larger
<1> HIDE DEF start
<1>12. /\ start * DailyPct \in Int /\ start * PropDailyPct \in Int
       /\ start * WeeklyPct \in Int
  BY <1>11, Percents
<1>13. DailyLimitHolds'
  BY <1>2, <1>7, <1>8, <1>9, <1>10, <1>11, <1>12 DEF DailyLimitHolds, DailyCap, HalfCent
<1>14. WeeklyLimitHolds'
  <2>1. CASE w = 0
    BY <1>2, <1>7, <1>8, <1>9, <1>10, <1>11, <1>12, <2>1
       DEF WeeklyLimitHolds, WeeklyCap, HalfCent
  <2>2. CASE w = acct.week
    <3>1. WeeklyCap(acct') = WeeklyCap(acct)
      BY <1>7, <1>8, <1>11, <2>2 DEF WeeklyCap
    <3> QED BY <3>1 DEF RiskIInv, WeeklyLimitHolds
  <2> QED BY <1>3, <2>1, <2>2
<1>15. FloorHolds'
  <2>1. PropTotalCap(acct') = PropTotalCap(acct) BY <1>7, <1>8 DEF PropTotalCap
  <2>2. PropDailyCap(acct') >= -HalfCent
    BY <1>2, <1>7, <1>8, <1>9, <1>10, <1>11, <1>12 DEF PropDailyCap, HalfCent
  <2> QED BY <2>1, <2>2 DEF RiskIInv, FloorHolds
<1>17. FileLags'
  <2> SUFFICES ASSUME file.day = day + 1
               PROVE /\ file.balance - file.today = acct'.balance - acct'.today
                     /\ file.balance - file.week = acct'.balance - acct'.week
                     /\ Loss(file.today) + OpenRisk(file) >= Loss(acct'.today) + OpenRisk(acct')
                     /\ Loss(file.week) + OpenRisk(file) >= Loss(acct'.week) + OpenRisk(acct')
                     /\ file.balance - OpenRisk(file) <= acct'.balance - OpenRisk(acct')
                     /\ OpenCap(file) <= OpenCap(acct')
    BY <1>5 DEF FileLags
  <2>1. file.day <= day BY DEF RiskIInv, FileIsPast
  <2>2. file.day \in Nat BY <1>1 DEF Account
  <2> QED BY <1>1, <2>1, <2>2
<1>18. RiskTypeOK' BY <1>1, <1>5, <1>6 DEF RiskIInv, RiskTypeOK
<1>19. FileIsPast' BY <1>1, <1>5 DEF RiskIInv, FileIsPast, Account
<1> QED BY <1>5, <1>7, <1>13, <1>14, <1>15, <1>17, <1>18, <1>19 DEF RiskIInv

LEMMA UpdateFileHolds == ASSUME RiskIInv, UpdateFile PROVE RiskIInv'
<1>1. acct \in Account /\ acct' = acct /\ day' = day /\ file' = acct /\ profile' = "OK"
  BY DEF RiskIInv, RiskTypeOK, UpdateFile
<1>2. RiskTypeOK' BY <1>1 DEF RiskIInv, RiskTypeOK
<1>3. FileLags'
  <2>1. OpenRisk(acct) \in Nat /\ OpenCap(acct) \in Int BY <1>1, RiskType, CapTypes
  <2>2. /\ acct.balance \in Int /\ acct.today \in Int /\ acct.week \in Int
        /\ Loss(acct.today) \in Int /\ Loss(acct.week) \in Int
    BY <1>1 DEF Account, Loss, Larger
  <2> QED BY <1>1, <2>1, <2>2 DEF FileLags
<1>4. FileIsPast' BY <1>1 DEF RiskIInv, RiskTypeOK, FileIsPast
<1> QED BY <1>1, <1>2, <1>3, <1>4
        DEF RiskIInv, DailyLimitHolds, WeeklyLimitHolds, FloorHolds

\* The invariant is inductive.
LEMMA StepHolds == RiskIInv /\ [RiskNext]_riskVars => RiskIInv'
<1> SUFFICES ASSUME RiskIInv, [RiskNext]_riskVars PROVE RiskIInv' OBVIOUS
<1>1. CASE \E p \in Plan, market \in MarketLocks, b \in Budgets(file) : Enter(p, market, b)
  BY <1>1, EnterHolds
<1>2. CASE \E s \in Slots, recorded \in BOOLEAN :
             \E pnl \in Results(s) : Close(s, pnl, recorded)
  BY <1>2, CloseHolds
<1>3. CASE NextDay BY <1>3, NextDayHolds
<1>4. CASE UpdateFile BY <1>4, UpdateFileHolds
<1>5. CASE BreakFile
  <2>1. UNCHANGED <<acct, file, day>> /\ profile' \in {"MISSING", "INVALID"}
    BY <1>5 DEF BreakFile
  <2> QED BY <2>1 DEF RiskIInv, RiskTypeOK, FileLags, FileIsPast,
                      DailyLimitHolds, WeeklyLimitHolds, FloorHolds
<1>6. CASE UNCHANGED riskVars
  BY <1>6 DEF riskVars, RiskIInv, RiskTypeOK, FileLags, FileIsPast,
              DailyLimitHolds, WeeklyLimitHolds, FloorHolds
<1> QED BY <1>1, <1>2, <1>3, <1>4, <1>5, <1>6 DEF RiskNext

\* RiskSpec keeps the invariant: what the file lags behind by only ever counts
\* against the trader (risk/engine.py budget_and_locks).
THEOREM RiskInductive == RiskSpec => []RiskIInv
BY RiskInitHolds, StepHolds, PTL DEF RiskSpec

\* The account and the file keep their types for every profile and calendar; in
\* particular a run of losses is never negative (risk/models.py AccountState).
THEOREM RiskTypeCorrect == RiskSpec => []RiskTypeOK
<1>1. RiskIInv => RiskTypeOK BY DEF RiskIInv
<1> QED BY <1>1, RiskInductive, PTL

\* For every account, set of limits, drawdown rules and number of days: what is
\* lost and what is still at risk stays within the daily and weekly limits and
\* above the drawdown floor, to the half cent a budget is rounded by; the halves
\* never add up (risk/engine.py budget_and_locks, _position).
THEOREM LimitsHold == RiskSpec => []LimitsAreKept
<1>1. RiskIInv => LimitsAreKept BY DEF RiskIInv, LimitsAreKept
<1> QED BY <1>1, RiskInductive, PTL

\* A file of the current day with results missing never makes the gate more
\* generous than the account itself would (risk/engine.py budget_and_locks).
THEOREM LateFile == RiskSpec => []LateFileIsSafe
<1>1. RiskIInv => LateFileIsSafe BY LagIsSafe DEF RiskIInv
<1> QED BY <1>1, RiskInductive, PTL
-----------------------------------------------------------------------------
(* The size of a plan.                                                     *)

\* A budget is empty only where a cap is spent, which is a lock.
LEMMA BudgetIsLeft ==
    ASSUME NEW a \in Account, a.balance > 0, CapLocks(a) = {}
    PROVE  Effective(a) > 0
<1> DEFINE C == Caps(a)
           IsLeast(c) == \A d \in C : c <= d
           least == CHOOSE c \in C : IsLeast(c)
<1>1. /\ DailyCap(a) > 0 /\ WeeklyCap(a) > 0 /\ OpenCap(a) > 0
      /\ PropDailyCap(a) > 0 /\ PropTotalCap(a) > 0
  <2>1. /\ ~(DailyCap(a) <= 0) /\ ~(WeeklyCap(a) <= 0) /\ ~(OpenCap(a) <= 0)
        /\ ~(PropDailyCap(a) <= 0) /\ ~(PropTotalCap(a) <= 0)
    BY DEF CapLocks
  <2> QED BY <2>1, CapTypes
<1>2. a.balance * RiskPct > 0
  <2>1. \A x, y \in Int : x > 0 /\ y > 0 => x * y > 0 OBVIOUS
  <2>2. a.balance \in Int /\ RiskPct \in Int BY Percents DEF Account
  <2> QED BY <2>1, <2>2, Percents
<1>3. \A c \in C : c \in Int /\ c > 0 BY <1>1, <1>2, CapTypes DEF Caps
<1>4. \E c \in C : IsLeast(c) BY LeastCap
<1>5. Effective(a) = Larger(0, least) BY DEF Effective
<1> HIDE DEF C
<1>6. least \in C BY <1>4
<1> HIDE DEF least
<1>7. least \in Int /\ least > 0 BY <1>3, <1>6
<1> QED BY <1>5, <1>7 DEF Larger

\* For every account and every plan: what is within limits has a size that can
\* be traded, or what is left of the caps is more than nothing and at most half
\* a cent, which _position is given as 0.00 (risk/engine.py budget_and_locks,
\* _position, assess).
THEOREM WithinLimitsIsSizedOrSpent == RiskSpec => []OnlyHalfACentIsUnsized
<1>1. RiskTypeOK => OnlyHalfACentIsUnsized
  <2> SUFFICES ASSUME RiskTypeOK, NEW p \in Plan, NEW b \in Budgets(file), Unsized(p, b)
               PROVE  Effective(file) \in 1 .. HalfCent
    BY DEF OnlyHalfACentIsUnsized
  <2>1. file \in Account /\ file.balance \in Int BY DEF RiskTypeOK, Account
  <2>2. /\ ~(file.balance <= 0) /\ Locks(file, b, day, p, {}) = {} /\ SizeVerified(p)
    BY DEF Unsized, Status
  <2>3. CapLocks(file) = {} /\ TradeLocks(b, p) = {} BY <2>2 DEF Locks
  <2>4. Effective(file) > 0 BY <2>1, <2>2, <2>3, BudgetIsLeft
  <2>5. p.flaw # "spec" BY <2>2 DEF SizeVerified
  <2>6. p.flaw # "stop" BY <2>3 DEF TradeLocks
  <2>7. Volume(b, p) < MinVolume BY DEF Unsized
  <2>8. ~(b > 0) BY <2>3, <2>5, <2>6, <2>7 DEF TradeLocks
  <2>9. b \in Nat /\ Effective(file) <= 10000 * b + HalfCent BY <2>1, BudgetIsNear
  <2>10. Effective(file) \in Nat /\ HalfCent \in Nat BY <2>1, EffectiveIsLeast, HalfCentIs
  <2> QED BY <2>4, <2>8, <2>9, <2>10
<1> QED BY <1>1, RiskTypeCorrect, PTL

=============================================================================
