----------------------------- MODULE SimHistory -----------------------------
(***************************************************************************)
(* What the paper-trading component promises its readers about one         *)
(* simulation: an append-only timeline.  A sim appears once, its timeline  *)
(* only ever grows, and only along PENDING -> OPEN -> CLOSED or            *)
(* PENDING -> EXPIRED | CANCELLED; a finished timeline never changes; a    *)
(* deleted sim never comes back.  The implementation is PaperTrading.      *)
(***************************************************************************)
EXTENDS Sequences

CONSTANT Sims  \* the sim ids that may be drawn

VARIABLES
  timeline,    \* timeline[s]: the events a reader of sim s sees
  gone         \* the ids that were deleted by the user

historyVars == <<timeline, gone>>

ExitEvents == {"STOP_HIT", "TARGET_HIT", "CLOSED_MANUALLY"}

(* The status a timeline stands for. *)
Pending   == <<"CREATED">>
Open      == <<"CREATED", "FILLED">>
Expired   == <<"CREATED", "EXPIRED">>
Cancelled == <<"CREATED", "CANCELLED">>
Closed    == {<<"CREATED", "FILLED", e>> : e \in ExitEvents}

Successors(t) ==
  {u \in {Open, Expired, Cancelled} \cup Closed : t = Pending}
    \cup {u \in Closed : t = Open}

Appear(s) ==
  /\ timeline[s] = <<>>
  /\ s \notin gone
  /\ timeline' = [timeline EXCEPT ![s] = Pending]
  /\ gone' = gone

Grow(s) ==
  /\ \E u \in Successors(timeline[s]) : timeline' = [timeline EXCEPT ![s] = u]
  /\ gone' = gone

Vanish(s) ==
  /\ timeline[s] # <<>>
  /\ timeline' = [timeline EXCEPT ![s] = <<>>]
  /\ gone' = gone \cup {s}

HistoryInit ==
  /\ timeline = [s \in Sims |-> <<>>]
  /\ gone = {}

HistoryNext == \E s \in Sims : Appear(s) \/ Grow(s) \/ Vanish(s)

HistorySpec == HistoryInit /\ [][HistoryNext]_historyVars
=============================================================================
