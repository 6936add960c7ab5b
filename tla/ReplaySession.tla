---------------------------- MODULE ReplaySession ---------------------------
(***************************************************************************)
(* The replay service (services/replay/service.py): in-memory sessions     *)
(* with a cursor over closed history.  What changes a session holds the    *)
(* service's lock; a view of a session is computed without it, over two    *)
(* awaits.  Times are bar slots; a slot without a bar is a closed market.  *)
(***************************************************************************)
EXTENDS Integers, FiniteSets, Sequences

CONSTANTS
  Ids,          \* the session ids that can be drawn
  Tasks,        \* requests in flight
  None,         \* no session; no question; nothing shown
  Bars,         \* the close times of the closed bars
  Now,          \* the clock
  MaxSessions,  \* replay.json maxSessions
  MaxStep,      \* replay.json maxStepBars
  Horizon,      \* replay.json quizHorizonBars
  Slack,        \* bars loaded beyond those asked for: 200 in the code
  Extras        \* how much further the tries of _forward_cursor look, nearest first

ASSUME ReplayAssumption ==
  /\ None \notin Ids \cup Tasks /\ None \notin Nat
  /\ Now \in Nat /\ Bars \subseteq 1 .. Now
  /\ MaxSessions \in Nat /\ MaxStep \in Nat \ {0} /\ Horizon \in Nat \ {0} /\ Slack \in Nat
  /\ Extras \subseteq Nat

(* GUIDED moves and hides as MANUAL does; its narrative is left out.       *)
Modes == {"MANUAL", "BLIND", "QUIZ"}
ForwardOnly == {"BLIND", "QUIZ"}

(* asked: the cursor the open question was built at, its number is index.  *)
Session ==
  [mode : Modes, cursor : Nat, atEnd : BOOLEAN, ended : BOOLEAN,
   asked : Nat \cup {None}, index : Nat, graded : Seq(Nat \X Nat)]

ASSUME NoneAssumption == None \notin Session

VARIABLES
  open,      \* the keys of ReplayService._sessions
  sessions,  \* the session objects; a request keeps the one it has got
  drawn,     \* ids given to a session so far
  lock,      \* ReplayService._lock: the task that holds it, or None
  task,      \* the local state of each request
  shown      \* the view this step returned, or None

vars == <<open, sessions, drawn, lock, task, shown>>

Idle == [pc |-> "idle", id |-> None, bars |-> None, engine |-> None]

Init ==
  /\ open = {} /\ drawn = {}
  /\ sessions = [i \in Ids |-> None]
  /\ lock = None
  /\ task = [t \in Tasks |-> Idle]
  /\ shown = None

-----------------------------------------------------------------------------
(* _closed: the last bars that had closed by a time.                       *)
Closed(limit, until) ==
  LET known == {b \in Bars : b <= until}
  IN  {b \in known : Cardinality({c \in known : c > b}) < limit}

Greatest(S) == CHOOSE b \in S : \A c \in S : c <= b

Nth(S, n) == CHOOSE b \in S : Cardinality({c \in S : c <= b}) = n

(* _forward_cursor: the n-th bar after the cursor, looked for in a window  *)
(* that is widened as long as it holds too few bars and the clock is not   *)
(* reached; then the newest bar, and the session is at the end.            *)
After(cursor, n, until) == {b \in Closed(n + Slack, until) : b > cursor}

Until(cursor, n, extra) == IF cursor + n + extra < Now THEN cursor + n + extra ELSE Now

Found(cursor, n) ==
  {e \in Extras :
     /\ Cardinality(After(cursor, n, Until(cursor, n, e))) >= n
     /\ \A f \in Extras : f < e => Until(cursor, n, f) < Now}

Forward(cursor, n) ==
  IF Found(cursor, n) # {}
  THEN LET first == CHOOSE e \in Found(cursor, n) : \A f \in Found(cursor, n) : e <= f
       IN  [cursor |-> Nth(After(cursor, n, Until(cursor, n, first)), n), atEnd |-> FALSE]
  ELSE LET rest == After(cursor, n, Now)
       IN  [cursor |-> IF rest = {} THEN cursor ELSE Greatest(rest), atEnd |-> TRUE]

(* Back n bars, if the history goes that far.                              *)
Back(cursor, n) ==
  LET past == Closed(n + 1, cursor)
  IN  IF Cardinality(past) > n THEN Nth(past, 1) ELSE cursor

Moved(s, n) ==
  LET to == IF n > 0 THEN Forward(s.cursor, n) ELSE [cursor |-> Back(s.cursor, -n), atEnd |-> FALSE]
  IN  [s EXCEPT !.cursor = to.cursor, !.atEnd = to.atEnd]

-----------------------------------------------------------------------------
(* _expire, which every request runs first, drops the sessions nobody has  *)
(* used for six hours.  No request in flight is that old.                  *)
InFlight == {task[t].id : t \in Tasks}

Expires(spared) == \E dropped \in SUBSET (open \ (InFlight \cup spared)) : open' = open \ dropped

(* Mutant: the lock is not waited for.                                     *)
LockIgnored == TRUE

LockFree == lock = None

(* A request that changed session i goes on to state(i) without a pause:   *)
(* the candles are asked for up to the cursor of that moment.              *)
Loading(i, cursor) == [pc |-> "loaded", id |-> i, bars |-> cursor, engine |-> None]

(* create holds the lock from the check to the insertion.                  *)
CreateChecks(t) ==
  /\ task[t] = Idle /\ LockFree
  /\ Expires({})
  /\ Cardinality(open') < MaxSessions
  /\ \E i \in Ids \ drawn :
       /\ drawn' = drawn \cup {i}
       /\ task' = [task EXCEPT ![t] = [Idle EXCEPT !.pc = "create", !.id = i]]
  /\ lock' = t
  /\ shown' = None /\ UNCHANGED sessions

(* The start is snapped to the last bar closed by then; a quiz is asked    *)
(* its first question, when one can be built.                              *)
CreateInserts(t) ==
  /\ task[t].pc = "create"
  /\ \E mode \in Modes, start \in 1 .. Now - 1 :
       /\ Closed(2, start) # {}
       /\ LET cursor == Greatest(Closed(2, start))
          IN  /\ \E asked \in IF mode = "QUIZ" THEN {cursor, None} ELSE {None} :
                   sessions' = [sessions EXCEPT ![task[t].id] =
                     [mode |-> mode, cursor |-> cursor, atEnd |-> FALSE,
                      ended |-> FALSE, asked |-> asked, index |-> 0, graded |-> <<>>]]
              /\ task' = [task EXCEPT ![t] = Loading(task[t].id, cursor)]
  /\ open' = open \cup {task[t].id}
  /\ lock' = None
  /\ shown' = None /\ UNCHANGED drawn

CreateFails(t) ==
  /\ task[t].pc = "create"
  /\ lock' = None
  /\ task' = [task EXCEPT ![t] = Idle]
  /\ shown' = None /\ UNCHANGED <<open, sessions, drawn>>

(* step: the awaits for the new cursor change nothing while the lock is    *)
(* held, so the whole locked part is one step.                             *)
Step(t) ==
  /\ task[t] = Idle /\ LockFree
  /\ \E i \in open, n \in (-MaxStep .. MaxStep) \ {0} :
       /\ Expires({i})
       /\ ~sessions[i].ended /\ sessions[i].mode # "QUIZ"
       /\ n < 0 => sessions[i].mode \notin ForwardOnly
       /\ sessions' = [sessions EXCEPT ![i] = Moved(@, n)]
       /\ task' = [task EXCEPT ![t] = Loading(i, Moved(sessions[i], n).cursor)]
  /\ shown' = None /\ UNCHANGED <<drawn, lock>>

(* Mutant: any open question takes the answer.                             *)
AnyQuestion(s, question) == s.asked # None

IsOpen(s, question) == s.asked # None /\ question = s.index

(* Mutant: the graded question stays open until there is a new one.        *)
LeftOpen(s) == s

Closing(s) == [s EXCEPT !.asked = None]

(* answer: a request for an earlier question may arrive late.  The cursor  *)
(* moves and the question closes before the next one is built.             *)
Answers(t) ==
  /\ task[t] = Idle /\ LockFree
  /\ \E i \in open : \E question \in 0 .. sessions[i].index :
       LET s == sessions[i]
       IN  /\ Expires({i})
           /\ s.mode = "QUIZ" /\ ~s.ended /\ IsOpen(s, question)
           /\ sessions' = [sessions EXCEPT ![i] =
                Closing([Moved(s, Horizon) EXCEPT
                           !.graded = Append(@, <<question, s.index>>), !.index = @ + 1])]
           /\ task' = [task EXCEPT ![t] = [Idle EXCEPT !.pc = "ask", !.id = i]]
  /\ lock' = t
  /\ shown' = None /\ UNCHANGED drawn

Asks(t) ==
  /\ task[t].pc = "ask"
  /\ \E built \in BOOLEAN :
       LET s == sessions[task[t].id]
       IN  /\ sessions' = [sessions EXCEPT ![task[t].id].asked =
                            IF built /\ ~s.atEnd THEN s.cursor ELSE None]
           /\ task' = [task EXCEPT ![t] = Loading(task[t].id, s.cursor)]
  /\ lock' = None
  /\ shown' = None /\ UNCHANGED <<open, drawn>>

AskFails(t) ==
  /\ task[t].pc = "ask"
  /\ lock' = None
  /\ task' = [task EXCEPT ![t] = Idle]
  /\ shown' = None /\ UNCHANGED <<open, sessions, drawn>>

End ==
  /\ LockFree
  /\ \E i \in open :
       /\ Expires({i})
       /\ sessions' = [sessions EXCEPT ![i] = [@ EXCEPT !.ended = TRUE, !.asked = None]]
  /\ shown' = None /\ UNCHANGED <<drawn, lock, task>>

Delete ==
  /\ LockFree
  /\ \E i \in open, dropped \in SUBSET (open \ InFlight) : open' = open \ (dropped \cup {i})
  /\ shown' = None /\ UNCHANGED <<sessions, drawn, lock, task>>

(* status, and a request for a session that has just expired.              *)
Expire ==
  /\ Expires({}) /\ open' # open
  /\ shown' = None /\ UNCHANGED <<sessions, drawn, lock, task>>

-----------------------------------------------------------------------------
(* state: a view of the session, asked for without the lock.               *)
StateLoads(t) ==
  /\ task[t] = Idle
  /\ \E i \in open :
       /\ Expires({i})
       /\ task' = [task EXCEPT ![t] = Loading(i, sessions[i].cursor)]
  /\ shown' = None /\ UNCHANGED <<sessions, drawn, lock>>

(* show_engine.                                                            *)
ShowsEngine(s) ==
  \/ s.mode = "MANUAL"
  \/ s.mode = "QUIZ" /\ s.graded # <<>>
  \/ s.mode = "BLIND" /\ s.ended

(* The candles are there; the analysis is asked for at the cursor of then. *)
StateAnalyses(t) ==
  /\ task[t].pc = "loaded" /\ ShowsEngine(sessions[task[t].id])
  /\ task' = [task EXCEPT ![t] = [@ EXCEPT !.pc = "analysed", !.engine = sessions[task[t].id].cursor]]
  /\ shown' = None /\ UNCHANGED <<open, sessions, drawn, lock>>

(* The rest of the view is read from the session at the end.               *)
View(t) ==
  LET s == sessions[task[t].id]
  IN  [mode |-> s.mode, bars |-> task[t].bars, engine |-> task[t].engine, cursor |-> s.cursor,
       asked |-> s.asked, ended |-> s.ended]

StateReturns(t) ==
  /\ \/ task[t].pc = "analysed"
     \/ task[t].pc = "loaded" /\ ~ShowsEngine(sessions[task[t].id])
  /\ shown' = View(t)
  /\ task' = [task EXCEPT ![t] = Idle]
  /\ UNCHANGED <<open, sessions, drawn, lock>>

(* The history of the time is withheld, or an analysis raises.             *)
StateFails(t) ==
  /\ task[t].pc \in {"loaded", "analysed"}
  /\ task' = [task EXCEPT ![t] = Idle]
  /\ shown' = None /\ UNCHANGED <<open, sessions, drawn, lock>>

Next ==
  \/ \E t \in Tasks :
       \/ CreateChecks(t) \/ CreateInserts(t) \/ CreateFails(t)
       \/ Step(t) \/ Answers(t) \/ Asks(t) \/ AskFails(t)
       \/ StateLoads(t) \/ StateAnalyses(t) \/ StateReturns(t) \/ StateFails(t)
  \/ End \/ Delete \/ Expire

Spec == Init /\ [][Next]_vars

-----------------------------------------------------------------------------
(* Properties *)

Times == Nat \cup {None}

(* The types, and the lock is held exactly by the request that is inside    *)
(* its locked part.                                                         *)
TypeOK ==
  /\ open \subseteq drawn
  /\ sessions \in [Ids -> Session \cup {None}]
  /\ drawn \subseteq Ids
  /\ lock \in Tasks \cup {None}
  /\ \A t \in Tasks : task[t].pc \in {"create", "ask"} <=> lock = t
  /\ task \in [Tasks -> [pc : {"idle", "create", "ask", "loaded", "analysed"},
                         id : Ids \cup {None}, bars : Times, engine : Times]]
  /\ shown \in [mode : Modes, bars : Times, engine : Times, cursor : Nat, asked : Times,
               ended : BOOLEAN] \cup {None}

(* At most maxSessions sessions, however creates interleave.                *)
SessionCap == TypeOK /\ Cardinality(open) <= MaxSessions

(* A view that carries an open question shows no bar and no analysis past   *)
(* the moment it was asked, although its parts are read at different times  *)
(* and answers move the cursor meanwhile.                                   *)
QuestionHidesItsAnswer ==
  shown # None /\ shown.asked # None =>
    /\ shown.bars <= shown.asked
    /\ shown.engine # None => shown.engine <= shown.asked

(* In the modes that only move forward nothing beyond the view's cursor is  *)
(* shown, and a blind session shows no engine before it has ended.          *)
ForwardModesHideTheFuture ==
  shown # None /\ shown.mode \in ForwardOnly =>
    /\ shown.bars <= shown.cursor
    /\ shown.engine # None => shown.engine <= shown.cursor
    /\ shown.mode = "BLIND" /\ shown.engine # None => shown.ended

(* Together: no view tells what its reader is not to know yet.              *)
FutureIsHidden == QuestionHidesItsAnswer /\ ForwardModesHideTheFuture

(* Every answer is graded once, against the question it was given for.      *)
GradedOnce ==
  \A i \in open :
    LET s == sessions[i]
    IN  /\ Len(s.graded) = s.index
        /\ \A n \in 1 .. Len(s.graded) : s.graded[n] = <<n - 1, n - 1>>
=============================================================================
