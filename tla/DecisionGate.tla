---------------------------- MODULE DecisionGate ----------------------------
(***************************************************************************)
(* The Master Decision: MarketStateService.evaluate, stage by stage.  Each *)
(* stage awaits another service, may raise (the exception is logged and    *)
(* the decision left as it was) and reads a world that may have changed    *)
(* since the stage before.  The gate, the evaluation with risk and news as *)
(* its inputs, the news fallback, the reversal and the authority check are *)
(* the code's; what candles, setups and the account say is chosen freely.  *)
(*                                                                         *)
(* The structure, PD array, no-wick, session and macro stages fill fields  *)
(* no guard reads, and are left out; so is the event that is published     *)
(* when the decision changed, which nothing subscribes to.                 *)
(***************************************************************************)
EXTENDS NewsGate

CONSTANTS
    World,          \* the events of the instrument's currencies there are
    Calendars,      \* what the calendar provider may return: snapshots
    Times           \* when the decision is asked for

\* A snapshot holds the events of the span it covers.
ASSUME CalendarAssumption ==
    /\ World \subseteq Event /\ Times \subseteq Int
    /\ Calendars \subseteq Snapshot \cup {NoSnapshot}
    /\ \A s \in Calendars \ {NoSnapshot} :
         s.events = {e \in World : s.start <= e.time /\ e.time <= s.end}

VARIABLES
    setting,    \* of the process and the instrument, for good
    now,        \* when the evaluation was asked for: every stage uses it
    stage,      \* the stage of evaluate that comes next
    decision,   \* the decision so far; what is returned when done
    raised      \* the stages of this evaluation that raised

vars == <<setting, now, stage, decision, raised>>

Setting == [authority : {"FULL", "FAIL_SAFE_ONLY"}, reversalOn : BOOLEAN,
            synthetic : BOOLEAN, known : BOOLEAN, spec : BOOLEAN,
            validated : BOOLEAN]

UnavailableBlockers ==
    {"SYSTEM_INTEGRITY_FAILURE", "UNKNOWN_SYMBOL", "PROVIDER_UNAVAILABLE",
     "NO_DATA", "DATA_INVALID", "DATA_STALE", "DATA_DISCONNECTED",
     "DATA_SYNTHETIC"}

WaitBlockers ==
    {"DATA_DELAYED", "DATA_GAP", "MARKET_CLOSED", "INSTRUMENT_SPEC_MISSING",
     "DOL_UNCLEAR", "ANALYSIS_GATES_NOT_IMPLEMENTED", "ENTRY_MISSED",
     "MARKET_NOT_VALIDATED"}

RiskBlockers == {"RISK_LOCKED", "POSITION_SIZE_UNVERIFIED",
                 "RISK_PROFILE_MISSING", "RISK_PROFILE_INVALID",
                 "RISK_GATE_MISSING"}

Blocker == UnavailableBlockers \cup WaitBlockers \cup RiskBlockers \cup NewsBlockers

RiskStatus == {"CLEAR", "WITHIN_LIMITS", "SIZE_UNVERIFIED", "LOCKED",
               "NOT_CONFIGURED", "INVALID_PROFILE", "UNAVAILABLE"}

\* setup is READY for LONG_READY and SHORT_READY, OPEN for any other state; plan
\* says whose entry, stop and targets the decision carries.
Decision == [verdict : {"WAIT", "UNAVAILABLE", "LONG", "SHORT"},
             blockers : SUBSET Blocker, setup : {"NOT_EVALUATED", "OPEN", "READY"},
             news : NewsStates \cup {"NONE"},
             risk : RiskStatus \cup {"NOT_EVALUATED"},
             plan : {"NONE", "CONTINUATION", "REVERSAL"}]

Full == setting.authority = "FULL"

Directional(d) == d.verdict \in {"LONG", "SHORT"}

Usable(d) == d.verdict # "UNAVAILABLE"

\* enforce_verdict_authority
Enforced(d) ==
    IF ~Full /\ (Directional(d) \/ d.setup = "READY")
    THEN [d EXCEPT !.verdict = "UNAVAILABLE", !.setup = "OPEN",
                   !.blockers = @ \cup {"SYSTEM_INTEGRITY_FAILURE"}]
    ELSE d

-----------------------------------------------------------------------------
(* The fail-safe gate over the data that was ingested.                     *)

Reading == [provider : BOOLEAN, closed : BOOLEAN,
            quality : {"CURRENT", "DELAYED", "STALE", "DISCONNECTED", "INVALID"},
            issues : SUBSET {"MISSING_BARS", "EMPTY_SERIES"}]

\* Readings the ingestion gives: without a provider there is no series.
Readings == {r \in Reading : r.provider \/ (r.quality = "DISCONNECTED" /\ r.issues = {})}

GateBlockers(r) ==
    {b \in UnavailableBlockers \cup WaitBlockers :
        \/ b = "ANALYSIS_GATES_NOT_IMPLEMENTED" /\ ~Full
        \/ b = "UNKNOWN_SYMBOL" /\ ~setting.known
        \/ b = "INSTRUMENT_SPEC_MISSING" /\ setting.known /\ ~setting.spec
        \/ b = "MARKET_NOT_VALIDATED" /\ setting.known /\ ~setting.validated
        \/ b \in {"PROVIDER_UNAVAILABLE", "DATA_DISCONNECTED"} /\ ~r.provider
        \/ b = "DATA_SYNTHETIC" /\ setting.synthetic
        \/ b = "DATA_INVALID" /\ r.quality = "INVALID"
        \/ b = "DATA_STALE" /\ r.quality = "STALE"
        \/ b = "DATA_DISCONNECTED" /\ r.quality = "DISCONNECTED"
        \/ b = "DATA_DELAYED" /\ r.quality = "DELAYED"
        \/ b = "DATA_GAP" /\ "MISSING_BARS" \in r.issues
        \/ b = "NO_DATA" /\ "EMPTY_SERIES" \in r.issues
        \/ b = "MARKET_CLOSED" /\ r.closed}

GateDecision(r) ==
    [verdict |-> IF GateBlockers(r) \cap UnavailableBlockers # {} THEN "UNAVAILABLE"
                 ELSE "WAIT",
     blockers |-> GateBlockers(r), setup |-> "NOT_EVALUATED", news |-> "NONE",
     risk |-> "NOT_EVALUATED", plan |-> "NONE"]

-----------------------------------------------------------------------------
(* The evaluation: setup run, news and risk, and its outcome.              *)

Runs == [eligible : BOOLEAN, current : {"NONE", "MISSED", "OPEN", "CONFIRMED"},
         direction : {"LONG", "SHORT"}]

NewsReads == {Assess(s, now) : s \in Calendars}

\* The gate sizes a plan, and only a plan.
Risks(run) == RiskStatus \ (IF run.current = "CONFIRMED" THEN {"CLEAR"}
                            ELSE {"WITHIN_LIMITS", "SIZE_UNVERIFIED"})

BlockersOfRisk(risk) ==
    {b \in RiskBlockers : \/ b = "RISK_LOCKED" /\ risk = "LOCKED"
                          \/ b = "POSITION_SIZE_UNVERIFIED" /\ risk = "SIZE_UNVERIFIED"
                          \/ b = "RISK_PROFILE_MISSING" /\ risk = "NOT_CONFIGURED"
                          \/ b = "RISK_PROFILE_INVALID" /\ risk = "INVALID_PROFILE"
                          \/ b = "RISK_GATE_MISSING" /\ risk = "UNAVAILABLE"}

\* Mutant: the risk blockers are forgotten.
NewsAndSpecOnly(run, news, risk, userSpec) ==
    news.blockers \cup (IF setting.spec \/ userSpec THEN {}
                        ELSE {"INSTRUMENT_SPEC_MISSING"})

HardBlockers(run, news, risk, userSpec) ==
    news.blockers \cup BlockersOfRisk(risk)
      \cup {b \in {"INSTRUMENT_SPEC_MISSING", "ENTRY_MISSED"} :
              \/ b = "INSTRUMENT_SPEC_MISSING" /\ ~setting.spec /\ ~userSpec
              \/ b = "ENTRY_MISSED" /\ run.current = "MISSED"}

Outcome(run, news, risk, hard) ==
    IF ~run.eligible THEN "UNAVAILABLE"
    ELSE IF run.current = "MISSED" THEN "NO_TRADE"
    ELSE IF run.current # "CONFIRMED" THEN "WAIT"
    ELSE IF risk = "LOCKED" \/ news.state = "BLACKOUT" THEN "NO_TRADE"
    ELSE IF hard = {} THEN "CONFIRMED_AWAITING_AUTHORITY"
    ELSE "CONFIRMED_PENDING_GATES"

\* Mutant: the authority is not asked.
AnyAuthority(outcome) == outcome = "CONFIRMED_AWAITING_AUTHORITY"

MayAuthorize(outcome) == Full /\ outcome = "CONFIRMED_AWAITING_AUTHORITY"

Authorized(d, run) ==
    [d EXCEPT !.verdict = run.direction, !.setup = "READY", !.plan = "CONTINUATION",
              !.blockers = @ \ {"ANALYSIS_GATES_NOT_IMPLEMENTED"}]

\* The decision with its evaluation: blockers always, the setup from eligible
\* data only, the plan when every gate of the evaluation is clear.
Evaluated(d, run, news, risk, userSpec) ==
    LET hard == HardBlockers(run, news, risk, userSpec)
        told == [d EXCEPT !.news = news.state, !.risk = risk,
                          !.blockers = @ \cup news.blockers \cup BlockersOfRisk(risk)]
        all  == told.blockers \cup hard
        kept == IF "INSTRUMENT_SPEC_MISSING" \in hard THEN all
                ELSE all \ {"INSTRUMENT_SPEC_MISSING"}
        seen == [told EXCEPT !.blockers = kept, !.setup = "OPEN"]
    IN  IF ~run.eligible THEN told
        ELSE IF MayAuthorize(Outcome(run, news, risk, hard)) THEN Authorized(seen, run)
        ELSE seen

-----------------------------------------------------------------------------
(* The stages.                                                             *)

Undecided == [verdict |-> "UNAVAILABLE", blockers |-> {"NO_DATA"},
              setup |-> "NOT_EVALUATED", news |-> "NONE",
              risk |-> "NOT_EVALUATED", plan |-> "NONE"]

Init == /\ setting \in Setting /\ now \in Times
        /\ stage = "idle" /\ decision = Undecided /\ raised = {}

\* A stage that passes, is skipped or raises.
Goes(to) == stage' = to /\ UNCHANGED <<setting, now>>

Skips(to) == Goes(to) /\ UNCHANGED <<decision, raised>>

Raises(to) == /\ Goes(to) /\ raised' = raised \cup {stage}
              /\ decision' = Enforced(decision)

Gate(r) ==
    /\ stage = "idle" /\ Goes("liquidity")
    /\ setting.known \/ (~r.provider /\ ~r.closed)
    /\ decision' = Enforced(GateDecision(r))
    /\ raised' = {}

Liquidity(dolUnclear) ==
    /\ stage = "liquidity" /\ Usable(decision) /\ Goes("evaluation")
    /\ decision' = Enforced([decision EXCEPT
          !.blockers = IF dolUnclear THEN @ \cup {"DOL_UNCLEAR"} ELSE @])
    /\ UNCHANGED raised

Evaluation(run, news, risk, userSpec) ==
    /\ stage = "evaluation" /\ Usable(decision) /\ Goes("news")
    /\ decision' = Enforced(Evaluated(decision, run, news, risk, userSpec))
    /\ UNCHANGED raised

\* The calendar is read for every known symbol whose evaluation did not,
\* whether its market data is usable or not.
NeedsNews == setting.known /\ decision.news = "NONE"

News(news) ==
    /\ stage = "news" /\ NeedsNews /\ Goes("reversal")
    /\ decision' = Enforced([decision EXCEPT !.news = news.state,
                                             !.blockers = @ \cup news.blockers])
    /\ UNCHANGED raised

\* Mutant: a continuation does not keep the reversal away.
MayReverseAlways == setting.reversalOn /\ Full /\ decision.blockers = {}

\* A reversal is looked for only when no gate blocks and no plan is on.
MayReverse == /\ setting.reversalOn /\ Full
              /\ ~Directional(decision) /\ decision.blockers = {}

Reversal(direction) ==
    /\ stage = "reversal" /\ Usable(decision) /\ MayReverse /\ Goes("done")
    /\ decision' = Enforced([decision EXCEPT
          !.verdict = direction, !.setup = "READY", !.plan = "REVERSAL"])
    /\ UNCHANGED raised

Passes ==
    \/ stage = "liquidity" /\ ~Usable(decision) /\ Skips("evaluation")
    \/ stage = "evaluation" /\ ~Usable(decision) /\ Skips("news")
    \/ stage = "news" /\ ~NeedsNews /\ Skips("reversal")
    \/ stage = "reversal" /\ Skips("done")      \* also: no confirmed reversal

Fails ==
    \/ stage = "liquidity" /\ Usable(decision) /\ Raises("evaluation")
    \/ stage = "evaluation" /\ Usable(decision) /\ Raises("news")
    \/ stage = "news" /\ NeedsNews /\ Raises("reversal")
    \/ stage = "reversal" /\ Usable(decision) /\ MayReverse /\ Raises("done")

\* The decision is returned.  Nothing of it is used again: the next call starts
\* from nothing, at its own time.
Returns ==
    /\ stage = "done" /\ stage' = "idle" /\ now' \in Times
    /\ decision' = Undecided /\ raised' = {}
    /\ UNCHANGED setting

Next ==
    \/ \E r \in Readings : Gate(r)
    \/ \E dolUnclear \in BOOLEAN : Liquidity(dolUnclear)
    \/ \E run \in Runs, news \in NewsReads, userSpec \in BOOLEAN :
         \E risk \in Risks(run) : Evaluation(run, news, risk, userSpec)
    \/ \E news \in NewsReads : News(news)
    \/ \E direction \in {"LONG", "SHORT"} : Reversal(direction)
    \/ Passes
    \/ Fails
    \/ Returns

Spec == Init /\ [][Next]_vars

-----------------------------------------------------------------------------
(* Properties.                                                             *)

TypeOK == /\ setting \in Setting /\ now \in Times /\ decision \in Decision
          /\ stage \in {"idle", "liquidity", "evaluation", "news", "reversal", "done"}
          /\ raised \subseteq {"liquidity", "evaluation", "news", "reversal"}

(***************************************************************************)
(* Without authority no stage ever makes a directional verdict or a ready  *)
(* setup, and the integrity check at the end of each stage never has       *)
(* anything to correct (enforce_verdict_authority).                        *)
(***************************************************************************)
AuthorityHolds ==
    /\ "SYSTEM_INTEGRITY_FAILURE" \notin decision.blockers
    /\ ~Full => ~Directional(decision) /\ decision.setup # "READY"

(***************************************************************************)
(* The verdict says what the blockers say: whatever later stages add or    *)
(* take away, a decision is UNAVAILABLE exactly when a blocker makes its   *)
(* data unusable (gate.evaluate, and the guards of the stages).            *)
(***************************************************************************)
UnusableIsUnavailable ==
    decision.verdict = "UNAVAILABLE"
       <=> decision.blockers \cap UnavailableBlockers # {}

(* Both: a verdict is one that the authority and the blockers allow.       *)
VerdictIsAllowed == AuthorityHolds /\ UnusableIsUnavailable

(***************************************************************************)
(* Risk and news have the final veto: a directional decision never shows a *)
(* risk status or news state that forbids it, whichever of the two stages  *)
(* read it and whatever raised on the way.                                 *)
(***************************************************************************)
NoVetoedTrade ==
    Directional(decision) =>
       /\ decision.news \in {"NONE", "CLEAR", "NORMALIZED", "CAUTION"}
       /\ decision.risk \in {"NOT_EVALUATED", "CLEAR", "WITHIN_LIMITS"}
       /\ decision.blockers \cap (RiskBlockers \cup NewsBlockers) = {}

(***************************************************************************)
(* News applies whatever the market data: every finished decision on a     *)
(* known symbol shows a news state, unless reading it raised; and a state  *)
(* that blocks is among the blockers.                                      *)
(***************************************************************************)
NewsIsTold ==
    /\ stage \in {"reversal", "done"} /\ setting.known /\ decision.news = "NONE"
          => "news" \in raised
    /\ decision.news = "BLACKOUT" => "NEWS_BLACKOUT" \in decision.blockers
    /\ decision.news = "UNAVAILABLE" => "NEWS_DATA_UNAVAILABLE" \in decision.blockers

(* Both: a veto is asked for, told, and stands.                            *)
VetoHolds == NoVetoedTrade /\ NewsIsTold

(***************************************************************************)
(* A continuation plan is never replaced within an evaluation: once a      *)
(* decision is directional no later stage changes verdict or plan.         *)
(***************************************************************************)
ContinuationWins ==
    [][Directional(decision) /\ stage # "done"
         => decision'.verdict = decision.verdict /\ decision'.plan = decision.plan]_vars

(***************************************************************************)
(* Nothing is overlooked: a news state that is told, whichever calendar it *)
(* was read from, is the one all events there are would give, so that an   *)
(* event outside a snapshot's span, however late its release, never reads  *)
(* as CLEAR (coverage_problem against windows_for).                        *)
(***************************************************************************)
NothingOverlooked ==
    decision.news \notin {"NONE", "UNAVAILABLE"} =>
       decision.news = StateOf(Worst(World, now))

=============================================================================
