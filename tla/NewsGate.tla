------------------------------ MODULE NewsGate ------------------------------
(***************************************************************************)
(* The news gate of SVC/news/engine.py: the windows around a calendar      *)
(* event, its state at a time, and what a calendar that covers enough says *)
(* for an instrument.  Times are in minutes; the events of a snapshot are  *)
(* those of the instrument's currencies.  SVC is                           *)
(* services/api/app/services of the repository.                            *)
(***************************************************************************)
EXTENDS Integers

CONSTANTS
    Gated,                            \* importances with a window in news.json
    Before, After, PostWait, Lead,    \* minutes of each of them
    DelayedMax, Normalized,
    MaxAge, Lookahead                 \* of a calendar, in minutes

ASSUME NewsAssumption ==
    /\ "LOW" \notin Gated
    /\ Before \in [Gated -> Nat] /\ After \in [Gated -> Nat]
    /\ PostWait \in [Gated -> Nat] /\ Lead \in [Gated -> Nat]
    /\ DelayedMax \in Nat /\ Normalized \in Nat
    /\ MaxAge \in Nat /\ Lookahead \in Nat

\* What the shipped news.json adds: nothing that is further away than the
\* lookahead has a window yet.
ASSUME NewsSpecAssumption ==
    \A i \in Gated : Lead[i] <= Lookahead /\ Before[i] <= Lookahead

Event == [time : Int, importance : Gated \cup {"LOW"},
          status : {"SCHEDULED", "RELEASED", "DELAYED", "CANCELLED"}]

Snapshot == [events : SUBSET Event, start : Int, end : Int, fetched : Int,
             synthetic : BOOLEAN]

\* A snapshot that could not be had.
NoSnapshot == [events |-> {}, start |-> 0, end |-> 0, fetched |-> 0,
               synthetic |-> FALSE, failed |-> TRUE]

-----------------------------------------------------------------------------
(* Windows of an event, each open at its end.                              *)

HasBlackout(e) == Before[e.importance] + After[e.importance] > 0

BlackoutEnd(e) ==
    e.time + (IF e.status = "DELAYED" THEN DelayedMax ELSE After[e.importance])

PostEnd(e) == BlackoutEnd(e) + PostWait[e.importance]

InBlackout(e, now) ==
    HasBlackout(e) /\ e.time - Before[e.importance] <= now /\ now < BlackoutEnd(e)

InPostWait(e, now) == HasBlackout(e) /\ BlackoutEnd(e) <= now /\ now < PostEnd(e)

InNormalized(e, now) ==
    HasBlackout(e) /\ PostEnd(e) <= now /\ now < PostEnd(e) + Normalized

InCaution(e, now) ==
    /\ e.time - Lead[e.importance] <= now
    /\ now < IF HasBlackout(e) THEN e.time - Before[e.importance]
                               ELSE e.time + Lead[e.importance]

\* Place in SEVERITY: CLEAR, NORMALIZED, CAUTION, POST_NEWS_WAIT, BLACKOUT.
Severity(e, now) ==
    IF e.status = "CANCELLED" \/ e.importance \notin Gated THEN 0
    ELSE IF InBlackout(e, now) THEN 4
    ELSE IF InPostWait(e, now) THEN 3
    ELSE IF InCaution(e, now) THEN 2
    ELSE IF InNormalized(e, now) THEN 1 ELSE 0

\* The most severe state of all events.
Worst(events, now) ==
    CHOOSE s \in 0 .. 4 : /\ s = 0 \/ \E e \in events : Severity(e, now) = s
                          /\ \A e \in events : Severity(e, now) <= s

-----------------------------------------------------------------------------
(* The assessment of a calendar.                                           *)

\* Mutant: as if every release came on time.
LookBackOnTime(i) == After[i] + PostWait[i] + Lead[i] + Normalized

LookBack(i) == After[i] + PostWait[i] + Lead[i] + DelayedMax + Normalized

CoverageProblem(s, now) ==
    \/ now - s.fetched > MaxAge
    \/ s.fetched > now + 5
    \/ s.end < now + Lookahead
    \/ \E i \in Gated : s.start > now - LookBack(i)

NewsStates == {"CLEAR", "NORMALIZED", "CAUTION", "POST_NEWS_WAIT", "BLACKOUT",
               "UNAVAILABLE"}

NewsBlockers == {"NEWS_BLACKOUT", "NEWS_POST_WAIT", "NEWS_DATA_UNAVAILABLE",
                 "NEWS_DATA_SYNTHETIC"}

StateOf(severity) ==
    CASE severity = 4 -> "BLACKOUT" [] severity = 3 -> "POST_NEWS_WAIT"
      [] severity = 2 -> "CAUTION" [] severity = 1 -> "NORMALIZED"
      [] OTHER -> "CLEAR"

BlockersOf(state, synthetic) ==
    {b \in NewsBlockers : \/ b = "NEWS_BLACKOUT" /\ state = "BLACKOUT"
                          \/ b = "NEWS_POST_WAIT" /\ state = "POST_NEWS_WAIT"
                          \/ b = "NEWS_DATA_UNAVAILABLE" /\ state = "UNAVAILABLE"
                          \/ b = "NEWS_DATA_SYNTHETIC" /\ synthetic}

Assess(s, now) ==
    LET state == IF s = NoSnapshot \/ CoverageProblem(s, now) THEN "UNAVAILABLE"
                 ELSE StateOf(Worst(s.events, now))
    IN  [state |-> state,
         blockers |-> BlockersOf(state, s.synthetic /\ state # "UNAVAILABLE")]

=============================================================================
