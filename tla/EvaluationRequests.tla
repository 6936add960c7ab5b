-------------------------- MODULE EvaluationRequests ------------------------
(***************************************************************************)
(* What the evaluation and macro services answer when they are asked by    *)
(* themselves (services/scoring/service.py and services/macro/service.py): *)
(* the outcome, which DecisionGate has, with the score of the setup and    *)
(* the macro assessment that is made for its side first.  A request shares *)
(* nothing with another and nothing with a decision that is being made, so *)
(* one is asked while no other is.                                         *)
(***************************************************************************)
EXTENDS DecisionGate, Scoring, Sequences

CONSTANTS
    Evidence,     \* what the market may show of a setup
    Inputs,       \* of the macro assessment
    Drivers, Required, Correlated, Lookback, Volatility, MinObservations, FlatZ, MaxAgeDays,
    Matching, MinAbs, Inverted, Surprise, Hours, Supportive, Strongly

\* What the configuration of macro is checked for when it is read, and what the
\* shipped macro.json adds: that the series correlated with is a required one.
ASSUME MacroAssumption ==
    /\ Correlated \in Required
    /\ {Supportive, Strongly, Lookback, MinObservations, MaxAgeDays, Inverted, Surprise} \subseteq Nat
    /\ 0 < Supportive /\ Supportive < Strongly /\ Strongly <= 100
    /\ 0 < Lookback /\ Lookback < MinObservations
    /\ Len(Drivers) \in Nat /\ DOMAIN Drivers = 1 .. Len(Drivers)
    /\ \A i \in DOMAIN Drivers : Drivers[i].relationship \in {-1, 1} /\ Drivers[i].weight \in Nat \ {0}

Assessment ==
    [available : BOOLEAN, synthetic : BOOLEAN, side : {"LONG", "SHORT", "NONE"},
     bias : {"BULLISH", "BEARISH", "NEUTRAL", "UNAVAILABLE"}, state : MacroStates \cup {"NONE", "UNAVAILABLE"}]

\* What a market may show, and what a provider may answer with.
ASSUME RequestAssumption ==
    /\ Evidence \subseteq EvidenceOf /\ Nothing \notin Assessment
    /\ \A m \in Inputs : /\ DOMAIN m = {"failed", "synthetic", "series", "closes", "releases", "today"}
                         /\ m.failed \in BOOLEAN /\ m.synthetic \in BOOLEAN /\ m.today \in Int
                         /\ \A id \in DOMAIN m.series : m.series[id] \in Seq([day : Int, value : Int])

M == INSTANCE MacroBias WITH MaxAge <- MaxAgeDays

(* What was answered to the request, with what it was made from; or Nothing. *)
VARIABLES answer

\* A setup of data that cannot be decided on is no side to compare macro with.
SideToCompare(run) ==
    IF run.eligible /\ run.current \in {"OPEN", "CONFIRMED"} THEN run.direction ELSE "NONE"

\* The calendar's releases count when it can be had and is real.
Trusted(news) == news.state # "UNAVAILABLE" /\ "NEWS_DATA_SYNTHETIC" \notin news.blockers

\* A confirmed setup has its plan, and touched a zone of its leg.
Fits(e, run, risk) ==
    /\ e.side = run.direction /\ e.locked = (risk = "LOCKED")
    /\ (e.plan # Nothing) = (run.current = "CONFIRMED")
    /\ e.plan # Nothing => e.touched

ScoreOf(e, run) ==
    IF run.eligible /\ run.current \in {"OPEN", "CONFIRMED"} THEN Scored(e) ELSE NotScored

\* evaluate_with_run.  An evaluation that raises is made again as if the data
\* were not eligible, with the macro assessment it had.
Evaluate(run, news, risk, userSpec, e, input, fails) ==
    LET seen == [run EXCEPT !.eligible = @ /\ ~fails]
    IN  /\ stage = "idle" /\ answer = Nothing /\ setting.known /\ Fits(e, run, risk)
        /\ \E told \in {M!Judge(input, SideToCompare(run), Trusted(news))} :
             \E with \in {[e EXCEPT !.macro = told]} :
               answer' = [macro |-> told, score |-> ScoreOf(with, seen),
                          outcome |-> Outcome(seen, news, risk, HardBlockers(seen, news, risk, userSpec)),
                          evidence |-> with, input |-> input, trusted |-> Trusted(news)]
        /\ UNCHANGED vars

\* MacroService.assess with the side that the caller names, without a calendar.
AssessMacro(side, input) ==
    /\ stage = "idle" /\ answer = Nothing /\ setting.known
    /\ answer' = [macro |-> M!Judge(input, side, FALSE), score |-> NotScored, outcome |-> "NONE",
                  evidence |-> Nothing, input |-> input, trusted |-> FALSE]
    /\ UNCHANGED vars

Answered == answer # Nothing /\ answer' = Nothing /\ UNCHANGED vars

Decides == answer = Nothing /\ Next /\ UNCHANGED answer

\* What may be asked: of a setup run, with the news, risk and evidence it meets.
Requests ==
    {q \in [run : Runs, news : NewsReads, risk : RiskStatus, userSpec : BOOLEAN, evidence : Evidence,
            input : Inputs, fails : BOOLEAN] : q.risk \in Risks(q.run)}

\* Asked are the requests that are made, Read what macro alone is asked about.
RequestNext(Asked, Read) ==
    \/ Decides
    \/ \E q \in Asked : Evaluate(q.run, q.news, q.risk, q.userSpec, q.evidence, q.input, q.fails)
    \/ \E side \in {"LONG", "SHORT", "NONE"}, input \in Read : AssessMacro(side, input)
    \/ Answered

RequestInit == Init /\ answer = Nothing

RequestSpec == RequestInit /\ [][RequestNext(Requests, Inputs)]_<<vars, answer>>

-----------------------------------------------------------------------------
(* Properties.                                                             *)

\* The values of one thing, from a worse to a better one.
Ladder(e) ==
    {<<"htf", Against(e), "OTHER">>, <<"htf", "OTHER", e.side>>, <<"dol", Against(e), "OTHER">>,
     <<"break", Nothing, "CHOCH">>, <<"break", "CHOCH", "MSS">>,
     <<"time", "AVOID", "LOW_QUALITY">>, <<"time", "LOW_QUALITY", "ACCEPTABLE">>, <<"time", "ACCEPTABLE", "IDEAL">>,
     <<"plan", Nothing, "RESEARCH">>, <<"plan", "RESEARCH", "CONFIRMED">>}
    \cup {<<f, FALSE, TRUE>> : f \in {"target", "event", "zones", "touched", "same", "displaced", "rr"}}
    \cup {<<f, TRUE, FALSE>> : f \in {"opposite", "exhausted", "locked"}}

MacroLadder ==
    {<<"STRONG_CONFLICT", "CONFLICT">>, <<"CONFLICT", "NEUTRAL">>, <<"NEUTRAL", "SUPPORTIVE">>,
     <<"SUPPORTIVE", "STRONGLY_SUPPORTIVE">>}

\* Evidence that is better in one thing.
Improvements(e) ==
    {[e EXCEPT ![s[1]] = s[3]] : s \in {t \in Ladder(e) : e[t[1]] = t[2]}}
    \cup {[e EXCEPT !.macro.state = s[2]] : s \in {t \in MacroLadder : MacroState(e) = t[1]}}

\* The series that an input may be judged by.
Fresh(m) ==
    {id \in DOMAIN m.series :
       m.series[id] # <<>> /\ m.today - m.series[id][Len(m.series[id])].day <= MaxAgeDays}

WasScored == answer # Nothing /\ answer.score.score # Nothing

(***************************************************************************)
(* A score never rewards worse evidence: though several things enter it    *)
(* twice, as points, adjustments and conflict, what is better in one thing *)
(* has no lower score, grade or confidence and no more conflict (evaluate, *)
(* grade_for and confidence_for).                                          *)
(***************************************************************************)
BetterNeverScoresWorse ==
    WasScored =>
       \A better \in Improvements(answer.evidence) :
          LET s == Scored(better)
          IN  /\ s.score >= answer.score.score /\ s.grade >= answer.score.grade
              /\ s.confidence >= answer.score.confidence /\ s.conflict <= answer.score.conflict

(***************************************************************************)
(* A stale series counts no more than a missing one, whichever driver or   *)
(* correlation would read it; and a setup is scored as if there were no    *)
(* macro when the snapshot failed, is synthetic or lacks a fresh required  *)
(* series (assess, trend and _macro_state).                                *)
(***************************************************************************)
UntrustedMacroIsSilent ==
    answer # Nothing =>
       LET m    == answer.input
           kept == [m EXCEPT !.series = [id \in Fresh(m) |-> m.series[id]]]
       IN  /\ answer.macro = M!Judge(kept, answer.macro.side, answer.trusted)
           /\ WasScored /\ (m.failed \/ m.synthetic \/ ~(Required \subseteq Fresh(m)))
                => answer.score = Scored([answer.evidence EXCEPT !.macro = Nothing])

Mirror == [STRONGLY_SUPPORTIVE |-> "STRONG_CONFLICT", SUPPORTIVE |-> "CONFLICT", NEUTRAL |-> "NEUTRAL",
           CONFLICT |-> "SUPPORTIVE", STRONG_CONFLICT |-> "STRONGLY_SUPPORTIVE"]

(***************************************************************************)
(* What supports one side is in conflict with the other, at the thresholds *)
(* too, and the bias that is shown says the same as the state that is      *)
(* scored (state_for and the bias of assess).                              *)
(***************************************************************************)
MacroMirrors ==
    answer # Nothing /\ answer.macro.available /\ answer.macro.side # "NONE" =>
       LET told  == answer.macro
           other == M!Judge(answer.input, IF told.side = "LONG" THEN "SHORT" ELSE "LONG", answer.trusted)
           long  == IF told.side = "LONG" THEN told ELSE other
       IN  /\ other.state = Mirror[told.state] /\ other.bias = told.bias
           /\ told.bias = "BULLISH" <=> long.state \in {"SUPPORTIVE", "STRONGLY_SUPPORTIVE"}
           /\ told.bias = "BEARISH" <=> long.state \in {"CONFLICT", "STRONG_CONFLICT"}

(* Both: the macro bias says what its fresh series say, to either side.    *)
MacroIsFair == UntrustedMacroIsSilent /\ MacroMirrors
=============================================================================
