---------------------------- MODULE PaperTrading ----------------------------
(***************************************************************************)
(* Paper trading: services/paper (engine.py, service.py, store.py).        *)
(*                                                                         *)
(* asyncio tasks (the monitor and the request handlers) create, advance,   *)
(* close, cancel and delete simulations kept in a database.  One asyncio   *)
(* lock serialises advance, close_now and cancel; create, delete and the   *)
(* reads do not take it.  Every await is a point where another task runs:  *)
(* an action is what one task does between two awaits.                     *)
(*                                                                         *)
(* Time is counted in closed execution bars: Len(feed) bars have closed.   *)
(* What a bar does to a sim is PaperEngine's.                              *)
(***************************************************************************)
EXTENDS PaperEngine, FiniteSets

CONSTANTS
  Sims,          \* sim ids (uuid4: each is drawn once)
  Tasks,         \* asyncio tasks: the monitor and the request handlers
  Monitor,       \* the task of run_forever
  Bars,          \* the bars the feed may deliver, a set of Bar records
  NoBar,         \* a bar slot the provider has no candle for
  None,          \* no row with this id; the lock is free; no sim in hand
  MaxOpenSims,   \* paper.json maxOpenSims
  ChunkBars,     \* bars one load adds: maxBarsPerAdvance - 3
  MaxChunks,     \* MAX_CHUNKS loads per advance
  Tampered,      \* the sims whose stored record may be changed from outside
  Warmed,        \* the sims of the symbol main.py keeps in the provider's cache
  MaxGap,        \* bound: at most this many empty slots in a row
  MaxBar         \* bound: the feed stops after this many bars

ASSUME FeedAssumption == Bars \subseteq Bar /\ NoBar \notin Bar
ASSUME LimitAssumption ==
  /\ MaxOpenSims \in Nat /\ MaxBar \in Nat /\ MaxGap \in Nat
  /\ ExpiryBars \in Nat \ {0} /\ ChunkBars \in Nat \ {0} /\ MaxChunks \in Nat \ {0}

VARIABLES
  feed,      \* the bar slots closed so far, oldest first (market data)
  rows,      \* paper_sims: rows[s] is a Row or None
  log,       \* paper_events of s in seq order
  used,      \* the ids drawn so far
  altered,   \* the sims whose creation record no longer matches its hash
  lock,      \* PaperService._lock: the task that holds it, or None
  task       \* the local state of every task

vars == <<feed, rows, log, used, altered, lock, task>>

Events   == {"CREATED", "FILLED", "EXPIRED", "CANCELLED",
             "STOP_HIT", "TARGET_HIT", "CLOSED_MANUALLY"}

(* A stored sim: the entry type of its record, the last bar closed at       *)
(* creation (born), the first bar opening at or after it (first), and its   *)
(* progress.  thru = 0 is processed_through = None.                         *)
Row == [entry : {"MARKET", "LIMIT"}, born : Nat, first : Nat,
        status : Statuses, pending : Nat, thru : Nat, reason : Reasons]

ASSUME NoneAssumption == None \notin Sims /\ None \notin Tasks /\ None \notin Row

NoSimRow == [entry |-> "LIMIT", born |-> 0, first |-> 0, status |-> "PENDING",
             pending |-> 0, thru |-> 0, reason |-> "none"]

Points == {"idle", "create", "cycle", "load", "sim", "count", "store", "reread", "reload"}
Ops    == {"advance", "close", "cancel", "finish"}

(* pc: where the task waits; ids: what is left of advance_all; sim, row,   *)
(* base, evs: `stored.id`, the working state, `stored.status`, new events; *)
(* now, at, upto, chunk: the bounds of the load loop; seq: `existing`.     *)
IdleTask == [pc |-> "idle", op |-> "advance", ids |-> {}, sim |-> None, row |-> NoSimRow,
             base |-> "PENDING", evs |-> <<>>, now |-> 0, at |-> 0, upto |-> 0,
             chunk |-> 0, seq |-> 0]

Locked == {"load", "sim", "count", "store", "reread", "reload"}

IsActive(s) == rows[s] # None /\ rows[s].status \in Active
ActiveSims  == {s \in Sims : IsActive(s)}

-----------------------------------------------------------------------------
(* Mutant: bars that opened before the creation are simulated too.         *)
EligibleTooEarly(r, k) == r.status \in Active /\ feed[k] # NoBar /\ k > r.thru

(* engine.step ignores a bar already processed or opened before creation.  *)
Eligible(r, k) == r.status \in Active /\ feed[k] # NoBar /\ k > r.thru /\ k >= r.first

-----------------------------------------------------------------------------
Init ==
  /\ feed = <<>>
  /\ rows = [s \in Sims |-> None]
  /\ log = [s \in Sims |-> <<>>]
  /\ used = {}
  /\ altered = {}
  /\ lock = None
  /\ task = [p \in Tasks |-> IdleTask]

(* The market: the next bar slot closes, with a candle or without one.     *)
(* A run of empty slots stays shorter than MaxGap.                         *)
BarCloses ==
  /\ Len(feed) < MaxBar
  /\ \E b \in Bars \cup {NoBar} :
       /\ b = NoBar => \E k \in 1 .. Len(feed) : k + MaxGap > Len(feed) /\ feed[k] # NoBar
       /\ feed' = Append(feed, b)
  /\ UNCHANGED <<rows, log, used, altered, lock, task>>

(* Somebody edits the stored creation record behind the application.       *)
RecordAltered(s) ==
  /\ s \in Tampered /\ rows[s] # None
  /\ altered' = altered \cup {s}
  /\ UNCHANGED <<feed, rows, log, used, lock, task>>

(* Mutant: an early return leaves the lock taken.                          *)
LockKept(p) == lock

LockAfter(p) == IF lock = p THEN None ELSE lock

(* A task ends one sim's work: the lock is released, and an advance_all    *)
(* goes on with the ids it has left.                                       *)
Release(p) ==
  /\ task' = [task EXCEPT ![p] = IF task[p].ids = {} THEN IdleTask
                                 ELSE [IdleTask EXCEPT !.pc = "cycle", !.ids = task[p].ids]]
  /\ lock' = LockAfter(p)

Goto(p, t) == task' = [task EXCEPT ![p] = t]

-----------------------------------------------------------------------------
(* create: the cap is read first; market data and the engine state are     *)
(* awaited before the row is inserted with its CREATED event.              *)
CreateCheck(p) ==
  /\ p # Monitor
  /\ task[p].pc = "idle"
  /\ Cardinality(ActiveSims) < MaxOpenSims
  /\ used # Sims
  /\ Goto(p, [IdleTask EXCEPT !.pc = "create", !.now = Len(feed)])
  /\ UNCHANGED <<feed, rows, log, used, altered, lock>>

CreateInsert(p) ==
  /\ task[p].pc = "create"
  /\ \E s \in Sims \ used, e \in {"MARKET", "LIMIT"}, f \in {1, 2} :
       /\ rows' = [rows EXCEPT ![s] = [NoSimRow EXCEPT !.entry = e, !.born = task[p].now,
                                                       !.first = task[p].now + f]]
       /\ log' = [log EXCEPT ![s] = <<"CREATED">>]
       /\ used' = used \cup {s}
  /\ Goto(p, IdleTask)
  /\ UNCHANGED <<feed, altered, lock>>

(* delete: one transaction, no lock.                                       *)
Delete(s) ==
  /\ rows[s] # None
  /\ rows' = [rows EXCEPT ![s] = None]
  /\ log' = [log EXCEPT ![s] = <<>>]
  /\ UNCHANGED <<feed, used, altered, lock, task>>

-----------------------------------------------------------------------------
(* Mutant: the query has no order.                                         *)
AnyActive(ids) ==
  /\ ids \subseteq ActiveSims
  /\ Cardinality(ids) <= MaxOpenSims
  /\ ids # ActiveSims => Cardinality(ids) = MaxOpenSims

(* advance_all (monitor, list request): a snapshot of at most MaxOpenSims  *)
(* active ids, oldest first, each then advanced under the lock.            *)
OldestActive(ids) ==
  /\ ids \subseteq ActiveSims
  /\ Cardinality(ids) <= MaxOpenSims
  /\ ids # ActiveSims => Cardinality(ids) = MaxOpenSims
  /\ \A s \in ids, t \in ActiveSims \ ids : rows[s].born <= rows[t].born

AdvanceAll(p) ==
  /\ task[p].pc = "idle"
  /\ \E ids \in SUBSET Sims :
       /\ OldestActive(ids) /\ ids # {}
       /\ Goto(p, [IdleTask EXCEPT !.pc = "cycle", !.ids = ids])
  /\ UNCHANGED <<feed, rows, log, used, altered, lock>>

LockFree == lock = None

(* The lock is taken and the row read.  advance skips a sim that is gone,  *)
(* finished or whose record was altered; close_now and cancel refuse one   *)
(* that is gone or finished.                                               *)
Begin(p, s, op, ids) ==
  /\ lock' = p
  /\ Goto(p, [IdleTask EXCEPT !.pc = "load", !.op = op, !.ids = ids, !.sim = s, !.row = rows[s],
                              !.base = rows[s].status, !.now = Len(feed)])

Advance(p, s) ==
  /\ LockFree
  /\ \/ task[p].pc = "idle" /\ p # Monitor
     \/ task[p].pc = "cycle" /\ s \in task[p].ids
  /\ \/ /\ IsActive(s) /\ s \notin altered
        /\ Begin(p, s, "advance", task[p].ids \ {s})
     \/ /\ ~IsActive(s) \/ s \in altered
        /\ Goto(p, [task[p] EXCEPT !.ids = @ \ {s},
                                   !.pc = IF task[p].ids \subseteq {s} THEN "idle" ELSE "cycle"])
        /\ lock' = lock
  /\ UNCHANGED <<feed, rows, log, used, altered>>

UserAction(p, s, op) ==
  /\ p # Monitor
  /\ LockFree
  /\ task[p].pc = "idle"
  /\ IsActive(s)
  /\ Begin(p, s, op, {})
  /\ UNCHANGED <<feed, rows, log, used, altered>>

CloseNow(p, s) == UserAction(p, s, "close")
Cancel(p, s)   == UserAction(p, s, "cancel")

-----------------------------------------------------------------------------
(* _advance: chunks of bars after processed_through, up to the clock read  *)
(* at the start.  A failed or withheld load ends the loop; what was        *)
(* simulated so far is still persisted.                                    *)
Since(r) == IF r.thru = 0 THEN r.born ELSE r.thru

ChunkEnd(t) == IF Since(t.row) + ChunkBars < t.now THEN Since(t.row) + ChunkBars ELSE t.now

LoadChunk(p) ==
  /\ task[p].pc = "load"
  /\ Goto(p, [task[p] EXCEPT !.pc = "sim", !.at = Since(task[p].row), !.upto = ChunkEnd(task[p]),
                             !.chunk = @ + 1])
  /\ UNCHANGED <<feed, rows, log, used, altered, lock>>

(* Out of the loop: its bounds are not used any more.                      *)
LeaveLoop(t) == [t EXCEPT !.pc = "count", !.now = 0, !.at = 0, !.upto = 0, !.chunk = 0]

LoadFails(p) ==
  /\ task[p].pc = "load"
  /\ Goto(p, LeaveLoop(task[p]))
  /\ UNCHANGED <<feed, rows, log, used, altered, lock>>

(* A provider whose cache is kept warm answers with its latest bars,       *)
(* whatever end it is asked for.  To a chunk that ends before them they    *)
(* open in the future: the series is invalid and the loop ends.            *)
LoadTooNew(p) ==
  /\ task[p].pc = "load"
  /\ task[p].sim \in Warmed /\ ChunkEnd(task[p]) < Len(feed)
  /\ Goto(p, LeaveLoop(task[p]))
  /\ UNCHANGED <<feed, rows, log, used, altered, lock>>

SimulateBar(p) ==
  LET t == task[p]
      k == t.at + 1
  IN  /\ t.pc = "sim" /\ t.row.status \in Active /\ t.at < t.upto
      /\ Goto(p, IF Eligible(t.row, k)
                 THEN [t EXCEPT !.at = k, !.row = StepRow(@, feed[k], k),
                                !.evs = @ \o StepEvents(t.row, feed[k])]
                 ELSE [t EXCEPT !.at = k])
      /\ UNCHANGED <<feed, rows, log, used, altered, lock>>

ChunkDone(p) ==
  LET t == task[p]
      last == t.row.status \notin Active \/ t.upto >= t.now \/ t.chunk = MaxChunks
  IN  /\ t.pc = "sim" /\ (t.row.status \notin Active \/ t.at >= t.upto)
      /\ Goto(p, IF last THEN LeaveLoop(t) ELSE [t EXCEPT !.pc = "load"])
      /\ UNCHANGED <<feed, rows, log, used, altered, lock>>

(* _persist: read how many events exist, then one transaction that checks  *)
(* the sequence number and the status it started from.                     *)
CountEvents(p) ==
  /\ task[p].pc = "count"
  /\ Goto(p, [task[p] EXCEPT !.pc = "store", !.seq = Len(log[task[p].sim])])
  /\ UNCHANGED <<feed, rows, log, used, altered, lock>>

(* Mutant: the update is not conditional on the row it started from.       *)
AcceptsAnything(t) == TRUE

StoreAccepts(t) ==
  /\ t.evs # <<>> => t.seq = Len(log[t.sim])
  /\ rows[t.sim] # None
  /\ rows[t.sim].status = t.base

(* Mutant: what the advance did to the sim is not looked at.               *)
ContinuesAnyway(t) == t.op \in {"close", "cancel"}

(* close_now wants an OPEN sim, cancel a PENDING one, after the advance.   *)
Continues(t) ==
  \/ t.op = "close" /\ t.row.status = "OPEN"
  \/ t.op = "cancel" /\ t.row.status = "PENDING"

StoreAdvance(p) ==
  LET t == task[p]
  IN  /\ t.pc = "store"
      /\ IF StoreAccepts(t)
         THEN /\ rows' = [rows EXCEPT ![t.sim] = t.row]
              /\ log' = [log EXCEPT ![t.sim] = @ \o t.evs]
         ELSE UNCHANGED <<rows, log>>
      /\ IF Continues(t)
         THEN Goto(p, [t EXCEPT !.pc = "reread", !.evs = <<>>]) /\ lock' = lock
         ELSE Release(p)
      /\ UNCHANGED <<feed, used, altered>>

(* close_now and cancel read the row again before their own event.         *)
Reread(p) ==
  LET t == task[p]
  IN  /\ t.pc = "reread"
      /\ \/ rows[t.sim] = None /\ Release(p)
         \/ /\ rows[t.sim] # None /\ t.op = "close"
            /\ Goto(p, [t EXCEPT !.pc = "reload", !.base = rows[t.sim].status])
            /\ lock' = lock
         \/ /\ rows[t.sim] # None /\ t.op = "cancel"
            /\ Goto(p, [t EXCEPT !.pc = "count", !.op = "finish", !.base = rows[t.sim].status,
                                 !.row = [@ EXCEPT !.status = "CANCELLED"],
                                 !.evs = <<"CANCELLED">>])
            /\ lock' = lock
      /\ UNCHANGED <<feed, rows, log, used, altered>>

(* A manual close needs the simulation to have reached the last closed bar.*)
IsLastBar(k) == k \in 1 .. Len(feed) /\ feed[k] # NoBar /\ \A j \in k + 1 .. Len(feed) : feed[j] = NoBar

Reload(p) ==
  LET t == task[p]
  IN  /\ t.pc = "reload"
      /\ \/ /\ IsLastBar(t.row.thru)
            /\ Goto(p, [t EXCEPT !.pc = "count", !.op = "finish", !.evs = <<"CLOSED_MANUALLY">>,
                                 !.row = [@ EXCEPT !.status = "CLOSED", !.reason = "MANUAL"]])
            /\ lock' = lock
         \/ ~IsLastBar(t.row.thru) /\ Release(p)
      /\ UNCHANGED <<feed, rows, log, used, altered>>

(* A store or data error ends the sim's work.                             *)
TaskFails(p) ==
  /\ task[p].pc \notin {"idle", "cycle"}
  /\ Release(p)
  /\ UNCHANGED <<feed, rows, log, used, altered>>

(* The API process restarts: the database is all that is left.             *)
Restart ==
  /\ task' = [p \in Tasks |-> IdleTask]
  /\ lock' = None
  /\ UNCHANGED <<feed, rows, log, used, altered>>

-----------------------------------------------------------------------------
Works(p) ==
  \/ LoadChunk(p) \/ LoadTooNew(p) \/ SimulateBar(p) \/ ChunkDone(p)
  \/ CountEvents(p) \/ StoreAdvance(p) \/ Reread(p) \/ Reload(p)

WorkStep(p) == Works(p) \/ LoadFails(p)

Next ==
  \/ BarCloses \/ Restart
  \/ \E s \in Sims : RecordAltered(s) \/ Delete(s)
  \/ \E p \in Tasks : CreateCheck(p) \/ CreateInsert(p) \/ AdvanceAll(p) \/ WorkStep(p) \/ TaskFails(p)
  \/ \E p \in Tasks, s \in Sims : Advance(p, s) \/ CloseNow(p, s) \/ Cancel(p, s)

Spec == Init /\ [][Next]_vars

-----------------------------------------------------------------------------
(* Properties *)

TaskRecord == [pc : Points, op : Ops, ids : SUBSET Sims, sim : Sims \cup {None}, row : Row,
               base : Statuses, evs : Seq(Events), now : Nat, at : Nat, upto : Nat,
               chunk : Nat, seq : Nat]

TasksTyped ==
  /\ task \in [Tasks -> TaskRecord]
  /\ \A p \in Tasks : task[p].pc \in Locked => task[p].sim \in Sims

TypeOK ==
  /\ feed \in Seq(Bars \cup {NoBar})
  /\ rows \in [Sims -> Row \cup {None}]
  /\ log \in [Sims -> Seq(Events)]
  /\ used \subseteq Sims /\ altered \subseteq Sims
  /\ lock \in Tasks \cup {None}
  /\ TasksTyped

(* The timeline a reader sees is the one SimHistory promises: created once, *)
(* grown only along the legal transitions by advance, close and cancel,     *)
(* frozen when finished, and never back after a delete.                     *)
History == INSTANCE SimHistory WITH timeline <- log, gone <- {s \in used : rows[s] = None}
TimelineIsHonest == History!HistorySpec

(* The stored status is always the one the stored events stand for, and a   *)
(* missing row has no orphan events (store.advance, store.delete_sim).      *)
StatusOf(t) ==
  CASE t = History!Pending -> "PENDING"
    [] t = History!Open -> "OPEN"
    [] t = History!Expired -> "EXPIRED"
    [] t = History!Cancelled -> "CANCELLED"
    [] t \in History!Closed -> "CLOSED"
    [] OTHER -> "no such history"

LogMatchesRow ==
  \A s \in Sims : IF rows[s] = None THEN log[s] = <<>> ELSE StatusOf(log[s]) = rows[s].status

(* However the bars were chunked, retried and interleaved, a stored sim is  *)
(* what one pass over the bars from its creation to processed_through gives:*)
(* no bar before the creation, none skipped, none counted twice, filled at  *)
(* the first bar that fills and closed at the first bar that exits.         *)
Seen(r) == {k \in r.first .. r.thru : feed[k] # NoBar}

FillsSeen(r) == {k \in Seen(r) : Fills(r, feed[k])}
ExitsSeen(r, f) ==
  {k \in Seen(r) : k >= f /\ "none" # ExitReason(feed[k], k = f /\ r.entry = "LIMIT" /\ feed[k].entry = "touch")}

OnePass(r) ==
  /\ r.thru # 0 => r.thru \in Seen(r)
  /\ r.status \notin {"OPEN", "CLOSED"} =>
       /\ FillsSeen(r) = {}
       /\ r.pending = Cardinality(Seen(r))
       /\ r.status = "EXPIRED" <=> r.pending = ExpiryBars
  /\ r.status \in {"OPEN", "CLOSED"} =>
       \E f \in FillsSeen(r) :
         /\ \A k \in FillsSeen(r) : f <= k
         /\ Cardinality({k \in Seen(r) : k < f}) = r.pending
         /\ r.pending < ExpiryBars
         /\ ExitsSeen(r, f) = IF r.status = "CLOSED" /\ r.reason # "MANUAL" THEN {r.thru} ELSE {}

SimulatedInOnePass == \A s \in Sims : rows[s] # None => OnePass(rows[s])

(* Why the two hold: only the task that holds the lock (PaperService._lock) *)
(* is between reading a sim and storing it, the sim it read is unfinished   *)
(* until then, and the events it is about to add lead to the status it is   *)
(* about to store.  With TypeOK and LogMatchesRow this is inductive.        *)
HandoverOf(t, p) ==
  t.pc \in Locked =>
    /\ lock = p /\ t.sim \in used
    /\ t.pc = "reread" => Continues(t)
    /\ t.pc = "reload" => t.op = "close" /\ t.row.status = "OPEN"
    /\ rows[t.sim] # None =>
         /\ rows[t.sim].status \in Active
         /\ StatusOf(log[t.sim] \o t.evs) = t.row.status
         /\ t.pc # "reread" => rows[t.sim].status = t.base
         /\ t.pc = "store" => t.seq = Len(log[t.sim])
         /\ t.pc \in {"reread", "reload"} => t.evs = <<>>

Handover == \A p \in Tasks : HandoverOf(task[p], p)

StoredIsUsed == \A s \in Sims \ used : rows[s] = None

-----------------------------------------------------------------------------
(* Fairness: asyncio runs every ready task (WF), its lock wakes waiters in  *)
(* FIFO order, so the monitor is not passed over for ever (SF), and         *)
(* run_forever starts a new cycle after every sleep (WF).                   *)
MonitorAdvances == \E s \in Sims : Advance(Monitor, s)

Fairness ==
  /\ \A p \in Tasks : WF_vars(WorkStep(p))
  /\ WF_vars(AdvanceAll(Monitor))
  /\ SF_vars(MonitorAdvances)

FairSpec == Spec /\ Fairness

(* active_ids never hands out a sim that has MaxOpenSims older ones before *)
(* it: the cap that create checks without the lock can be passed.          *)
InTurn(s) ==
  Cardinality({r \in ActiveSims \ {s} : rows[r].born <= rows[s].born}) < MaxOpenSims

(* A cache that is kept warm only answers a chunk that ends now; and a      *)
(* chunk the market was closed for brings no bar, so it is loaded again.    *)
InReach(s) ==
  LET end == Since(rows[s]) + ChunkBars
  IN  end < Len(feed) => s \notin Warmed /\ \E k \in Since(rows[s]) + 1 .. end : Eligible(rows[s], k)

(* A step that is also what the task would have done is no fault: a store   *)
(* call that had nothing to change ends as one that failed.                 *)
Fault ==
  /\ Restart \/ \E p \in Tasks : LoadFails(p) \/ TaskFails(p)
  /\ ~ \E p \in Tasks : Works(p) \/ \E s \in Sims : Advance(p, s)

CaughtUp(s) == rows[s] = None \/ s \in altered \/ \A k \in 1 .. Len(feed) : ~Eligible(rows[s], k)

(* If loads, store calls and the process stop failing, a sim catches up     *)
(* with the last bar of the feed over as many chunks and cycles as it takes,*)
(* or is finished or deleted, when it stays among the oldest the monitor    *)
(* takes, and its next chunk, when not the last, is one the provider        *)
(* answers with a bar (advance_all, _advance).  The code promises no more:  *)
(* README, 6.                                                               *)
EverySimCatchesUp ==
  <>[][~Fault]_vars =>
    \A s \in Sims : <>[](IsActive(s) => InTurn(s) /\ InReach(s)) => <>[]CaughtUp(s)
=============================================================================
