------------------------- MODULE PaperTradingProofs -------------------------
(***************************************************************************)
(* Proofs about PaperTrading, for every set of sims and tasks and every    *)
(* value of the limits.                                                    *)
(***************************************************************************)
EXTENDS PaperTrading, SequenceTheorems, FiniteSetTheorems, TLAPS

(* Timelines are short sequences: what appending to them gives.            *)
LEMMA Append1 ==
  ASSUME NEW S, NEW a \in S, NEW b \in S
  PROVE  <<a>> \o <<b>> = <<a, b>>
<1> DEFINE s == <<a>> \o <<b>>
           t == <<a, b>>
<1>1. s \in Seq(S) /\ t \in Seq(S)
  OBVIOUS
<1>2. Len(s) = 2 /\ Len(t) = 2 /\ s[1] = t[1] /\ s[2] = t[2]
  OBVIOUS
<1>3. \A i \in 1 .. Len(s) : s[i] = t[i]
  BY <1>2
<1> HIDE DEF s, t
<1>4. s = t
  BY <1>1, <1>2, <1>3, SeqEqual
<1> QED
  BY <1>4 DEF s, t

LEMMA Append2 ==
  ASSUME NEW S, NEW a \in S, NEW b \in S, NEW c \in S
  PROVE  <<a, b>> \o <<c>> = <<a, b, c>>
<1> DEFINE s == <<a, b>> \o <<c>>
           t == <<a, b, c>>
<1>1. s \in Seq(S) /\ t \in Seq(S)
  OBVIOUS
<1>2. Len(s) = 3 /\ Len(t) = 3 /\ s[1] = t[1] /\ s[2] = t[2] /\ s[3] = t[3]
  OBVIOUS
<1>3. \A i \in 1 .. Len(s) : s[i] = t[i]
  BY <1>2
<1> HIDE DEF s, t
<1>4. s = t
  BY <1>1, <1>2, <1>3, SeqEqual
<1> QED
  BY <1>4 DEF s, t

(* The histories that stand for each status.                               *)
LEMMA Histories ==
  ASSUME NEW l \in Seq(Events)
  PROVE  /\ StatusOf(l) = "PENDING" <=> l = <<"CREATED">>
         /\ StatusOf(l) = "OPEN" <=> l = <<"CREATED", "FILLED">>
         /\ StatusOf(l) = "EXPIRED" <=> l = <<"CREATED", "EXPIRED">>
         /\ StatusOf(l) = "CANCELLED" <=> l = <<"CREATED", "CANCELLED">>
         /\ StatusOf(l) = "CLOSED" <=>
              \E e \in {"STOP_HIT", "TARGET_HIT", "CLOSED_MANUALLY"} : l = <<"CREATED", "FILLED", e>>
<1> DEFINE p == <<"CREATED">>
           o == <<"CREATED", "FILLED">>
           x == <<"CREATED", "EXPIRED">>
           c == <<"CREATED", "CANCELLED">>
           C == {<<"CREATED", "FILLED", e>> : e \in {"STOP_HIT", "TARGET_HIT", "CLOSED_MANUALLY"}}
<1>1. Len(p) = 1 /\ Len(o) = 2 /\ Len(x) = 2 /\ Len(c) = 2 /\ \A u \in C : Len(u) = 3
  OBVIOUS
<1>2. o[2] = "FILLED" /\ x[2] = "EXPIRED" /\ c[2] = "CANCELLED"
  OBVIOUS
<1>3. StatusOf(l) = CASE l = p -> "PENDING" [] l = o -> "OPEN" [] l = x -> "EXPIRED"
                      [] l = c -> "CANCELLED" [] l \in C -> "CLOSED" [] OTHER -> "no such history"
  BY DEF StatusOf, History!Pending, History!Open, History!Expired, History!Cancelled,
         History!Closed, History!ExitEvents
<1>4. l \in C <=> \E e \in {"STOP_HIT", "TARGET_HIT", "CLOSED_MANUALLY"} :
                    l = <<"CREATED", "FILLED", e>>
  OBVIOUS
<1> HIDE DEF p, o, x, c, C
<1>5. p # o /\ p # x /\ p # c /\ o # x /\ o # c /\ x # c
        /\ p \notin C /\ o \notin C /\ x \notin C /\ c \notin C
  <2>1. o # x /\ o # c /\ x # c
    BY <1>2
  <2>2. p # o /\ p # x /\ p # c
    BY <1>1
  <2>3. p \notin C /\ o \notin C /\ x \notin C /\ c \notin C
    BY <1>1
  <2> QED
    BY <2>1, <2>2, <2>3
<1>6. /\ StatusOf(l) = "PENDING" <=> l = p
      /\ StatusOf(l) = "OPEN" <=> l = o
      /\ StatusOf(l) = "EXPIRED" <=> l = x
      /\ StatusOf(l) = "CANCELLED" <=> l = c
      /\ StatusOf(l) = "CLOSED" <=> l \in C
  BY <1>3, <1>5
<1> QED
  BY <1>4, <1>6 DEF p, o, x, c

(* From the timeline of an active status, appending events.                *)
LEMMA AppendToPending ==
  ASSUME NEW l \in Seq(Events), StatusOf(l) = "PENDING"
  PROVE  /\ StatusOf(l \o <<>>) = "PENDING"
         /\ StatusOf(l \o <<"FILLED">>) = "OPEN"
         /\ StatusOf(l \o <<"EXPIRED">>) = "EXPIRED"
         /\ StatusOf(l \o <<"CANCELLED">>) = "CANCELLED"
         /\ \A e \in {"STOP_HIT", "TARGET_HIT"} : StatusOf(l \o (<<"FILLED">> \o <<e>>)) = "CLOSED"
<1>1. l = <<"CREATED">>
  BY Histories
<1>2. \A e \in Events : <<"CREATED">> \o <<e>> = <<"CREATED", e>>
  BY Append1 DEF Events
<1>3. \A e \in Events : <<"CREATED">> \o (<<"FILLED">> \o <<e>>) = <<"CREATED", "FILLED", e>>
  <2> SUFFICES ASSUME NEW e \in Events
               PROVE  <<"CREATED">> \o (<<"FILLED">> \o <<e>>) = <<"CREATED", "FILLED", e>>
    OBVIOUS
  <2>1. <<"CREATED">> \in Seq(Events) /\ <<"FILLED">> \in Seq(Events) /\ <<e>> \in Seq(Events)
    BY DEF Events
  <2>2. <<"CREATED">> \o (<<"FILLED">> \o <<e>>) = (<<"CREATED">> \o <<"FILLED">>) \o <<e>>
    BY <2>1, ConcatAssociative
  <2>3. <<"CREATED">> \o <<"FILLED">> = <<"CREATED", "FILLED">>
    BY <1>2 DEF Events
  <2>4. <<"CREATED", "FILLED">> \o <<e>> = <<"CREATED", "FILLED", e>>
    BY Append2 DEF Events
  <2> QED
    BY <2>2, <2>3, <2>4
<1>4. l \o <<>> = l
  BY ConcatEmptySeq
<1>5. \A e \in Events : <<"CREATED", e>> \in Seq(Events) /\ <<"CREATED", "FILLED", e>> \in Seq(Events)
  BY DEF Events
<1>6. \A e \in {"STOP_HIT", "TARGET_HIT"} : StatusOf(<<"CREATED", "FILLED", e>>) = "CLOSED"
  BY <1>5, Histories DEF Events
<1>7. StatusOf(<<"CREATED", "FILLED">>) = "OPEN" /\ StatusOf(<<"CREATED", "EXPIRED">>) = "EXPIRED"
        /\ StatusOf(<<"CREATED", "CANCELLED">>) = "CANCELLED"
  BY <1>5, Histories DEF Events
<1> QED
  BY <1>1, <1>2, <1>3, <1>4, <1>6, <1>7 DEF Events

LEMMA AppendToOpen ==
  ASSUME NEW l \in Seq(Events), StatusOf(l) = "OPEN"
  PROVE  /\ StatusOf(l \o <<>>) = "OPEN"
         /\ \A e \in {"STOP_HIT", "TARGET_HIT", "CLOSED_MANUALLY"} : StatusOf(l \o <<e>>) = "CLOSED"
         /\ \A e \in {"STOP_HIT", "TARGET_HIT"} : StatusOf(l \o (<<>> \o <<e>>)) = "CLOSED"
<1>1. l = <<"CREATED", "FILLED">>
  BY Histories
<1>2. \A e \in Events : <<"CREATED", "FILLED">> \o <<e>> = <<"CREATED", "FILLED", e>>
  <2>1. "CREATED" \in Events /\ "FILLED" \in Events
    BY DEF Events
  <2> QED
    BY <2>1, Append2
<1>3. \A e \in Events : <<e>> \in Seq(Events) /\ <<"CREATED", "FILLED", e>> \in Seq(Events)
  BY DEF Events
<1>4. l \o <<>> = l /\ \A e \in Events : <<>> \o <<e>> = <<e>>
  BY <1>3, ConcatEmptySeq
<1>5. \A e \in {"STOP_HIT", "TARGET_HIT", "CLOSED_MANUALLY"} :
        StatusOf(<<"CREATED", "FILLED", e>>) = "CLOSED"
  BY <1>3, Histories DEF Events
<1> QED
  BY <1>1, <1>2, <1>4, <1>5 DEF Events

(* What one bar can do to a pending sim and to an open one.                *)
LEMMA ReasonOfBar ==
  ASSUME NEW bar, NEW intrabar
  PROVE  ExitReason(bar, intrabar) \in {"none", "STOP", "TARGET"}
  BY DEF ExitReason

LEMMA StepOfPending ==
  ASSUME NEW r \in Row, r.status = "PENDING", NEW bar, NEW k \in Nat
  PROVE  \/ StepEvents(r, bar) = <<>> /\ StepRow(r, bar, k).status = "PENDING"
         \/ StepEvents(r, bar) = <<"EXPIRED">> /\ StepRow(r, bar, k).status = "EXPIRED"
         \/ StepEvents(r, bar) = <<"FILLED">> /\ StepRow(r, bar, k).status = "OPEN"
         \/ \E e \in {"STOP_HIT", "TARGET_HIT"} :
              StepEvents(r, bar) = <<"FILLED">> \o <<e>> /\ StepRow(r, bar, k).status = "CLOSED"
<1> DEFINE exit == ExitReason(bar, FillsIntrabar(r, bar))
<1>1. exit \in {"none", "STOP", "TARGET"}
  BY ReasonOfBar
<1>2. CASE ~Fills(r, bar)
  <2>1. StepRow(r, bar, k).status = IF r.pending + 1 >= ExpiryBars THEN "EXPIRED" ELSE "PENDING"
    BY <1>2 DEF StepRow, Row
  <2>2. StepEvents(r, bar) = IF r.pending + 1 >= ExpiryBars THEN <<"EXPIRED">> ELSE <<>>
    BY <1>2 DEF StepEvents
  <2> QED
    BY <2>1, <2>2
<1>3. CASE Fills(r, bar)
  <2>1. StepRow(r, bar, k).status = IF exit = "none" THEN "OPEN" ELSE "CLOSED"
    BY <1>3 DEF StepRow, Row
  <2>2. StepEvents(r, bar) = <<"FILLED">> \o ExitEvents(exit)
    BY <1>3 DEF StepEvents
  <2>3. <<"FILLED">> \o <<>> = <<"FILLED">>
    BY ConcatEmptySeq DEF Events
  <2> HIDE DEF exit
  <2> QED
    BY <1>1, <2>1, <2>2, <2>3 DEF ExitEvents
<1> QED
  BY <1>2, <1>3

LEMMA StepOfOpen ==
  ASSUME NEW r \in Row, r.status = "OPEN", NEW bar, NEW k \in Nat
  PROVE  \/ StepEvents(r, bar) = <<>> /\ StepRow(r, bar, k).status = "OPEN"
         \/ \E e \in {"STOP_HIT", "TARGET_HIT"} :
              StepEvents(r, bar) = <<>> \o <<e>> /\ StepRow(r, bar, k).status = "CLOSED"
<1> DEFINE exit == ExitReason(bar, FillsIntrabar(r, bar))
<1>1. exit \in {"none", "STOP", "TARGET"}
  BY ReasonOfBar
<1>2. StepRow(r, bar, k).status = IF exit = "none" THEN "OPEN" ELSE "CLOSED"
  BY DEF StepRow, Row
<1>3. StepEvents(r, bar) = <<>> \o ExitEvents(exit)
  BY DEF StepEvents
<1>4. <<>> \o <<>> = <<>>
  BY ConcatEmptySeq
<1> HIDE DEF exit
<1> QED
  BY <1>1, <1>2, <1>3, <1>4 DEF ExitEvents

(* The engine keeps rows well-typed and its events in step with the status. *)
LEMMA StepTyped ==
  ASSUME NEW r \in Row, r.status \in Active, NEW bar, NEW k \in Nat
  PROVE  StepRow(r, bar, k) \in Row /\ StepEvents(r, bar) \in Seq(Events)
<1>1. StepRow(r, bar, k) \in Row
  <2> DEFINE exit == ExitReason(bar, FillsIntrabar(r, bar))
  <2>1. exit \in Reasons
    BY ReasonOfBar DEF Reasons
  <2>2. r.pending + 1 \in Nat
    BY DEF Row
  <2>3. CASE r.status = "PENDING" /\ ~Fills(r, bar)
    BY <2>2, <2>3 DEF StepRow, Row, Statuses, Active
  <2>4. CASE ~(r.status = "PENDING" /\ ~Fills(r, bar))
    <3>1. StepRow(r, bar, k) = [r EXCEPT !.thru = k, !.reason = exit,
                                         !.status = IF exit = "none" THEN "OPEN" ELSE "CLOSED"]
      BY <2>4 DEF StepRow
    <3> HIDE DEF exit
    <3> QED
      BY <2>1, <3>1 DEF Row, Statuses, Active
  <2> QED
    BY <2>3, <2>4
<1>2. \A e \in Events : /\ <<e>> \in Seq(Events)
                        /\ <<"FILLED">> \o <<e>> \in Seq(Events)
                        /\ <<>> \o <<e>> \in Seq(Events)
  <2> SUFFICES ASSUME NEW e \in Events
               PROVE  <<e>> \in Seq(Events) /\ <<"FILLED">> \o <<e>> \in Seq(Events)
                        /\ <<>> \o <<e>> \in Seq(Events)
    OBVIOUS
  <2>1. <<e>> \in Seq(Events) /\ <<"FILLED">> \in Seq(Events) /\ <<>> \in Seq(Events)
    BY DEF Events
  <2> QED
    BY <2>1, ConcatProperties
<1>3. <<>> \in Seq(Events)
  OBVIOUS
<1>4. StepEvents(r, bar) \in Seq(Events)
  <2>1. CASE r.status = "PENDING"
    BY <1>2, <1>3, <2>1, StepOfPending DEF Events
  <2>2. CASE r.status = "OPEN"
    BY <1>2, <1>3, <2>2, StepOfOpen DEF Events
  <2> QED
    BY <2>1, <2>2 DEF Active
<1> QED
  BY <1>1, <1>4

LEMMA StepKeepsStatus ==
  ASSUME NEW r \in Row, r.status \in Active, NEW bar, NEW k \in Nat,
         NEW l \in Seq(Events), StatusOf(l) = r.status
  PROVE  StatusOf(l \o StepEvents(r, bar)) = StepRow(r, bar, k).status
<1>1. CASE r.status = "PENDING"
  <2>1. StatusOf(l) = "PENDING"
    BY <1>1
  <2>2. CASE \E e \in {"STOP_HIT", "TARGET_HIT"} :
                StepEvents(r, bar) = <<"FILLED">> \o <<e>> /\ StepRow(r, bar, k).status = "CLOSED"
    BY ONLY <2>1, <2>2, AppendToPending, l \in Seq(Events)
  <2>3. CASE StepEvents(r, bar) = <<>> /\ StepRow(r, bar, k).status = "PENDING"
    BY ONLY <2>1, <2>3, AppendToPending, l \in Seq(Events)
  <2>4. CASE StepEvents(r, bar) = <<"EXPIRED">> /\ StepRow(r, bar, k).status = "EXPIRED"
    BY ONLY <2>1, <2>4, AppendToPending, l \in Seq(Events)
  <2>5. CASE StepEvents(r, bar) = <<"FILLED">> /\ StepRow(r, bar, k).status = "OPEN"
    BY ONLY <2>1, <2>5, AppendToPending, l \in Seq(Events)
  <2> QED
    BY <1>1, <2>2, <2>3, <2>4, <2>5, StepOfPending
<1>2. CASE r.status = "OPEN"
  <2>1. StatusOf(l) = "OPEN"
    BY <1>2
  <2>2. CASE \E e \in {"STOP_HIT", "TARGET_HIT"} :
                StepEvents(r, bar) = <<>> \o <<e>> /\ StepRow(r, bar, k).status = "CLOSED"
    BY ONLY <2>1, <2>2, AppendToOpen, l \in Seq(Events)
  <2>3. CASE StepEvents(r, bar) = <<>> /\ StepRow(r, bar, k).status = "OPEN"
    BY ONLY <2>1, <2>3, AppendToOpen, l \in Seq(Events)
  <2> QED
    BY <1>2, <2>2, <2>3, StepOfOpen
<1> QED
  BY <1>1, <1>2 DEF Active

-----------------------------------------------------------------------------
(* Type correctness *)

LEMMA IdleTyped == IdleTask \in TaskRecord
<1>1. NoSimRow \in Row
  BY DEF NoSimRow, Row, Statuses, Active, Reasons
<1> QED
  BY <1>1 DEF IdleTask, TaskRecord, Points, Ops, Statuses, Active

LEMMA GotoTyped ==
  ASSUME TypeOK, NEW p \in Tasks, NEW t \in TaskRecord, t.pc \in Locked => t.sim \in Sims, Goto(p, t)
  PROVE  TasksTyped'
  BY DEF Goto, TypeOK, TasksTyped

LEMMA ReleaseTyped ==
  ASSUME TypeOK, NEW p \in Tasks, Release(p)
  PROVE  TasksTyped' /\ lock' \in Tasks \cup {None}
<1> DEFINE t == IF task[p].ids = {} THEN IdleTask
                ELSE [IdleTask EXCEPT !.pc = "cycle", !.ids = task[p].ids]
<1>1. task[p] \in TaskRecord
  BY DEF TypeOK, TasksTyped
<1>2. [IdleTask EXCEPT !.pc = "cycle", !.ids = task[p].ids] \in TaskRecord
  BY <1>1, IdleTyped DEF TaskRecord, Points
<1>3. t \in TaskRecord
  BY <1>2, IdleTyped
<1>4. t.pc \notin Locked
  BY DEF IdleTask, Locked
<1>5. Goto(p, t)
  BY DEF Release, Goto
<1> HIDE DEF t
<1>6. TasksTyped'
  BY <1>3, <1>4, <1>5, GotoTyped
<1> QED
  BY <1>6 DEF Release, LockAfter, TypeOK

LEMMA BeginTyped ==
  ASSUME TypeOK, NEW p \in Tasks, NEW s \in Sims, NEW op \in Ops, NEW ids \in SUBSET Sims,
         IsActive(s), Begin(p, s, op, ids)
  PROVE  TasksTyped' /\ lock' \in Tasks \cup {None}
<1> DEFINE t == [IdleTask EXCEPT !.pc = "load", !.op = op, !.ids = ids, !.sim = s, !.row = rows[s],
                                 !.base = rows[s].status, !.now = Len(feed)]
<1>1. rows[s] \in Row /\ rows[s].status \in Statuses /\ Len(feed) \in Nat
  BY DEF TypeOK, IsActive, Row
<1>2. t \in TaskRecord
  BY <1>1, IdleTyped DEF TaskRecord, Points
<1>3. t.sim \in Sims
  BY DEF IdleTask
<1>4. Goto(p, t) /\ lock' = p
  BY DEF Begin
<1> HIDE DEF t
<1> QED
  BY <1>2, <1>3, <1>4, GotoTyped

(* What a task carries between two awaits.                                 *)
LEMMA TaskTyped ==
  ASSUME TypeOK, NEW p \in Tasks
  PROVE  /\ task[p] \in TaskRecord
         /\ task[p].row \in Row /\ task[p].base \in Statuses /\ task[p].evs \in Seq(Events)
         /\ task[p].now \in Nat /\ task[p].at \in Nat /\ task[p].upto \in Nat
         /\ task[p].chunk \in Nat /\ task[p].ids \subseteq Sims
         /\ task[p].pc \in Locked => task[p].sim \in Sims
  BY DEF TypeOK, TasksTyped, TaskRecord

(* To the loop, bars that are too new are one more load that failed.       *)
LEMMA TooNewFails ==
  ASSUME NEW p \in Tasks, LoadTooNew(p)
  PROVE  LoadFails(p)
  BY DEF LoadTooNew, LoadFails

LEMMA LoopTyped ==
  ASSUME TypeOK, NEW p \in Tasks, LoadChunk(p) \/ LoadFails(p) \/ SimulateBar(p) \/ ChunkDone(p)
  PROVE  TypeOK'
<1> DEFINE t == task[p]
           k == t.at + 1
<1>1. /\ t \in TaskRecord /\ t.row \in Row /\ t.evs \in Seq(Events)
      /\ t.now \in Nat /\ t.upto \in Nat /\ k \in Nat /\ t.chunk + 1 \in Nat
  BY TaskTyped
<1>2. t.pc \in Locked /\ t.sim \in Sims
  BY TaskTyped DEF LoadChunk, LoadFails, SimulateBar, ChunkDone, Locked
<1>3. LeaveLoop(t) \in TaskRecord /\ LeaveLoop(t).sim \in Sims
  BY <1>1, <1>2 DEF LeaveLoop, TaskRecord, Points
<1>4. CASE LoadChunk(p)
  <2>1. Since(t.row) \in Nat
    BY <1>1 DEF Since, Row
  <2>2. ChunkEnd(t) \in Nat
    BY <1>1, <2>1, LimitAssumption DEF ChunkEnd
  <2> DEFINE u == [t EXCEPT !.pc = "sim", !.at = Since(t.row), !.upto = ChunkEnd(t), !.chunk = @ + 1]
  <2>3. u \in TaskRecord /\ u.sim \in Sims
    BY <1>1, <1>2, <2>1, <2>2 DEF TaskRecord, Points
  <2>4. Goto(p, u)
    BY <1>4 DEF LoadChunk
  <2> HIDE DEF u
  <2> QED
    BY <1>4, <2>3, <2>4, GotoTyped DEF LoadChunk, TypeOK
<1>5. CASE LoadFails(p)
  BY <1>3, <1>5, GotoTyped DEF LoadFails, TypeOK
<1>6. CASE SimulateBar(p)
  <2>1. t.row.status \in Active
    BY <1>6 DEF SimulateBar
  <2>2. StepRow(t.row, feed[k], k) \in Row /\ StepEvents(t.row, feed[k]) \in Seq(Events)
    BY <1>1, <2>1, StepTyped
  <2>3. t.evs \o StepEvents(t.row, feed[k]) \in Seq(Events)
    BY <1>1, <2>2, ConcatProperties
  <2> DEFINE u == IF Eligible(t.row, k)
                  THEN [t EXCEPT !.at = k, !.row = StepRow(@, feed[k], k),
                                 !.evs = @ \o StepEvents(t.row, feed[k])]
                  ELSE [t EXCEPT !.at = k]
  <2>4. u \in TaskRecord /\ u.sim \in Sims
    BY <1>1, <1>2, <2>2, <2>3 DEF TaskRecord
  <2>5. Goto(p, u)
    BY <1>6 DEF SimulateBar
  <2> HIDE DEF u
  <2> QED
    BY <1>6, <2>4, <2>5, GotoTyped DEF SimulateBar, TypeOK
<1>7. CASE ChunkDone(p)
  <2>1. [t EXCEPT !.pc = "load"] \in TaskRecord /\ [t EXCEPT !.pc = "load"].sim \in Sims
    BY <1>1, <1>2 DEF TaskRecord, Points
  <2> QED
    BY <1>3, <1>7, <2>1, GotoTyped DEF ChunkDone, TypeOK
<1> QED
  BY <1>4, <1>5, <1>6, <1>7

LEMMA PersistTyped ==
  ASSUME TypeOK, NEW p \in Tasks, CountEvents(p) \/ StoreAdvance(p) \/ Reread(p) \/ Reload(p)
  PROVE  TypeOK'
<1> DEFINE t == task[p]
<1>1. /\ t \in TaskRecord /\ t.row \in Row /\ t.evs \in Seq(Events)
  BY TaskTyped
<1>2. t.pc \in Locked /\ t.sim \in Sims
  BY TaskTyped DEF CountEvents, StoreAdvance, Reread, Reload, Locked
<1>3. log[t.sim] \in Seq(Events) /\ Len(log[t.sim]) \in Nat /\ log[t.sim] \o t.evs \in Seq(Events)
  BY <1>1, <1>2, ConcatProperties, LenProperties DEF TypeOK
<1>4. rows[t.sim] # None => rows[t.sim].status \in Statuses
  BY <1>2 DEF TypeOK, Row
<1>5. <<>> \in Seq(Events) /\ \A e \in Events : <<e>> \in Seq(Events)
  OBVIOUS
<1>6. CASE CountEvents(p)
  <2> DEFINE u == [t EXCEPT !.pc = "store", !.seq = Len(log[t.sim])]
  <2>1. u \in TaskRecord /\ u.sim \in Sims
    BY <1>1, <1>2, <1>3 DEF TaskRecord, Points
  <2>2. Goto(p, u)
    BY <1>6 DEF CountEvents
  <2> HIDE DEF u
  <2> QED
    BY <1>6, <2>1, <2>2, GotoTyped DEF CountEvents, TypeOK
<1>7. CASE StoreAdvance(p)
  <2>1. rows' \in [Sims -> Row \cup {None}] /\ log' \in [Sims -> Seq(Events)]
    BY <1>1, <1>2, <1>3, <1>7 DEF StoreAdvance, TypeOK
  <2> DEFINE u == [t EXCEPT !.pc = "reread", !.evs = <<>>]
  <2>2. u \in TaskRecord /\ u.sim \in Sims
    BY <1>1, <1>2, <1>5 DEF TaskRecord, Points
  <2>3. (Goto(p, u) /\ lock' = lock) \/ Release(p)
    BY <1>7 DEF StoreAdvance
  <2> HIDE DEF u
  <2>4. TasksTyped' /\ lock' \in Tasks \cup {None}
    BY <2>2, <2>3, GotoTyped, ReleaseTyped DEF TypeOK
  <2> QED
    BY <1>7, <2>1, <2>4 DEF StoreAdvance, TypeOK
<1>8. CASE Reread(p)
  <2> DEFINE u == [t EXCEPT !.pc = "reload", !.base = rows[t.sim].status]
             r == [t.row EXCEPT !.status = "CANCELLED"]
             v == [t EXCEPT !.pc = "count", !.op = "finish", !.base = rows[t.sim].status,
                            !.row = r, !.evs = <<"CANCELLED">>]
  <2>1. rows[t.sim] # None => u \in TaskRecord /\ u.sim \in Sims
    BY <1>1, <1>2, <1>4 DEF TaskRecord, Points
  <2>2. r \in Row /\ <<"CANCELLED">> \in Seq(Events)
    BY <1>1, <1>5 DEF Row, Statuses, Events
  <2> HIDE DEF r
  <2>3. rows[t.sim] # None => v \in TaskRecord /\ v.sim \in Sims
    BY <1>1, <1>2, <1>4, <2>2 DEF TaskRecord, Points, Ops
  <2>4. \/ Release(p)
        \/ rows[t.sim] # None /\ Goto(p, u) /\ lock' = lock
        \/ rows[t.sim] # None /\ Goto(p, v) /\ lock' = lock
    BY <1>8 DEF Reread, r
  <2> HIDE DEF u, v
  <2>5. TasksTyped' /\ lock' \in Tasks \cup {None}
    BY <2>1, <2>3, <2>4, GotoTyped, ReleaseTyped DEF TypeOK
  <2> QED
    BY <1>8, <2>5 DEF Reread, TypeOK
<1>9. CASE Reload(p)
  <2> DEFINE r == [t.row EXCEPT !.status = "CLOSED", !.reason = "MANUAL"]
             u == [t EXCEPT !.pc = "count", !.op = "finish", !.evs = <<"CLOSED_MANUALLY">>, !.row = r]
  <2>1. r \in Row /\ <<"CLOSED_MANUALLY">> \in Seq(Events)
    BY <1>1, <1>5 DEF Row, Statuses, Reasons, Events
  <2> HIDE DEF r
  <2>2. u \in TaskRecord /\ u.sim \in Sims
    BY <1>1, <1>2, <2>1 DEF TaskRecord, Points, Ops
  <2>3. Release(p) \/ (Goto(p, u) /\ lock' = lock)
    BY <1>9 DEF Reload, r
  <2> HIDE DEF u
  <2>4. TasksTyped' /\ lock' \in Tasks \cup {None}
    BY <2>2, <2>3, GotoTyped, ReleaseTyped DEF TypeOK
  <2> QED
    BY <1>9, <2>4 DEF Reload, TypeOK
<1> QED
  BY <1>6, <1>7, <1>8, <1>9

(* The row a create inserts.                                               *)
LEMMA NewRowTyped ==
  ASSUME NEW e \in {"MARKET", "LIMIT"}, NEW b \in Nat, NEW f \in {1, 2}
  PROVE  [NoSimRow EXCEPT !.entry = e, !.born = b, !.first = b + f] \in Row
<1>1. NoSimRow \in Row /\ b + f \in Nat
  BY DEF NoSimRow, Row, Statuses, Active, Reasons
<1> QED
  BY <1>1 DEF Row

LEMMA RequestTyped ==
  ASSUME TypeOK, NEW p \in Tasks,
         CreateCheck(p) \/ CreateInsert(p) \/ AdvanceAll(p) \/ TaskFails(p)
  PROVE  TypeOK'
<1>1. /\ task[p] \in TaskRecord /\ task[p].now \in Nat
      /\ <<"CREATED">> \in Seq(Events) /\ Len(feed) \in Nat
  BY TaskTyped DEF Events, TypeOK
<1>2. CASE CreateCheck(p)
  <2> DEFINE u == [IdleTask EXCEPT !.pc = "create", !.now = Len(feed)]
  <2>1. u \in TaskRecord /\ u.pc \notin Locked
    BY <1>1, IdleTyped DEF TaskRecord, Points, Locked
  <2>2. Goto(p, u)
    BY <1>2 DEF CreateCheck
  <2> HIDE DEF u
  <2> QED
    BY <1>2, <2>1, <2>2, GotoTyped DEF CreateCheck, TypeOK
<1>3. CASE CreateInsert(p)
  <2> PICK s \in Sims \ used, e \in {"MARKET", "LIMIT"}, f \in {1, 2} :
        /\ rows' = [rows EXCEPT ![s] = [NoSimRow EXCEPT !.entry = e, !.born = task[p].now,
                                                        !.first = task[p].now + f]]
        /\ log' = [log EXCEPT ![s] = <<"CREATED">>]
        /\ used' = used \cup {s}
    BY <1>3 DEF CreateInsert
  <2> DEFINE r == [NoSimRow EXCEPT !.entry = e, !.born = task[p].now, !.first = task[p].now + f]
             c == <<"CREATED">>
  <2>1. r \in Row
    BY <1>1, NewRowTyped
  <2>a. c \in Seq(Events) /\ rows' = [rows EXCEPT ![s] = r] /\ log' = [log EXCEPT ![s] = c]
    BY <1>1
  <2> HIDE DEF r, c
  <2>2. rows' \in [Sims -> Row \cup {None}] /\ log' \in [Sims -> Seq(Events)] /\ used' \subseteq Sims
    <3>1. rows' \in [Sims -> Row \cup {None}]
      BY <2>1, <2>a DEF TypeOK
    <3>2. log' \in [Sims -> Seq(Events)]
      BY <2>a DEF TypeOK
    <3> QED
      BY <3>1, <3>2 DEF TypeOK
  <2>3. IdleTask.pc \notin Locked
    BY DEF IdleTask, Locked
  <2>4. TasksTyped'
    BY <1>3, <2>3, IdleTyped, GotoTyped DEF CreateInsert
  <2> QED
    BY <1>3, <2>2, <2>4 DEF CreateInsert, TypeOK
<1>4. CASE AdvanceAll(p)
  <2> PICK ids \in SUBSET Sims : Goto(p, [IdleTask EXCEPT !.pc = "cycle", !.ids = ids])
    BY <1>4 DEF AdvanceAll
  <2> DEFINE u == [IdleTask EXCEPT !.pc = "cycle", !.ids = ids]
  <2>1. u \in TaskRecord /\ u.pc \notin Locked
    BY IdleTyped DEF TaskRecord, Points, Locked
  <2>2. Goto(p, u)
    OBVIOUS
  <2> HIDE DEF u
  <2>3. TasksTyped'
    BY <2>1, <2>2, GotoTyped
  <2> QED
    BY <1>4, <2>3 DEF AdvanceAll, TypeOK
<1>5. CASE TaskFails(p)
  BY <1>5, ReleaseTyped DEF TaskFails, TypeOK
<1> QED
  BY <1>2, <1>3, <1>4, <1>5

LEMMA LockTyped ==
  ASSUME TypeOK, NEW p \in Tasks, NEW s \in Sims, Advance(p, s) \/ CloseNow(p, s) \/ Cancel(p, s)
  PROVE  TypeOK'
<1>1. task[p] \in TaskRecord /\ task[p].ids \subseteq Sims
  BY TaskTyped
<1>2. CASE Advance(p, s)
  <2>1. CASE IsActive(s) /\ Begin(p, s, "advance", task[p].ids \ {s})
    BY <1>1, <1>2, <2>1, BeginTyped DEF Advance, TypeOK, Ops
  <2>2. CASE ~(IsActive(s) /\ Begin(p, s, "advance", task[p].ids \ {s}))
    <3> DEFINE u == [task[p] EXCEPT !.ids = @ \ {s},
                                    !.pc = IF task[p].ids \subseteq {s} THEN "idle" ELSE "cycle"]
    <3>1. u \in TaskRecord /\ u.pc \notin Locked
      BY <1>1 DEF TaskRecord, Points, Locked
    <3>2. Goto(p, u) /\ lock' = lock
      BY <1>2, <2>2 DEF Advance
    <3> HIDE DEF u
    <3> QED
      BY <1>2, <3>1, <3>2, GotoTyped DEF Advance, TypeOK
  <2> QED
    BY <2>1, <2>2
<1>3. CASE CloseNow(p, s)
  BY <1>3, BeginTyped DEF CloseNow, UserAction, TypeOK, Ops
<1>4. CASE Cancel(p, s)
  BY <1>4, BeginTyped DEF Cancel, UserAction, TypeOK, Ops
<1> QED
  BY <1>2, <1>3, <1>4

LEMMA TypeStep == TypeOK /\ [Next]_vars => TypeOK'
<1> SUFFICES ASSUME TypeOK, [Next]_vars
             PROVE  TypeOK'
  OBVIOUS
<1>1. CASE BarCloses
  <2>1. feed' \in Seq(Bars \cup {NoBar})
    BY <1>1 DEF BarCloses, TypeOK
  <2> QED
    BY <1>1, <2>1 DEF BarCloses, TypeOK, TasksTyped
<1>2. CASE Restart
  <2>1. IdleTask.pc \notin Locked
    BY DEF IdleTask, Locked
  <2> QED
    BY <1>2, <2>1, IdleTyped DEF Restart, TypeOK, TasksTyped
<1>3. ASSUME NEW s \in Sims, RecordAltered(s) \/ Delete(s)
      PROVE  TypeOK'
  <2>1. CASE RecordAltered(s)
    BY <2>1 DEF RecordAltered, TypeOK, TasksTyped
  <2>2. CASE Delete(s)
    <3>1. rows' \in [Sims -> Row \cup {None}] /\ log' \in [Sims -> Seq(Events)]
      BY <2>2 DEF Delete, TypeOK
    <3> QED
      BY <2>2, <3>1 DEF Delete, TypeOK, TasksTyped
  <2> QED
    BY <1>3, <2>1, <2>2
<1>4. ASSUME NEW p \in Tasks, CreateCheck(p) \/ CreateInsert(p) \/ AdvanceAll(p) \/ TaskFails(p)
      PROVE  TypeOK'
  BY <1>4, RequestTyped
<1>5. ASSUME NEW p \in Tasks, WorkStep(p)
      PROVE  TypeOK'
  BY <1>5, LoopTyped, PersistTyped, TooNewFails DEF WorkStep, Works
<1>6. ASSUME NEW p \in Tasks, NEW s \in Sims, Advance(p, s) \/ CloseNow(p, s) \/ Cancel(p, s)
      PROVE  TypeOK'
  BY <1>6, LockTyped
<1>7. CASE UNCHANGED vars
  BY <1>7 DEF vars, TypeOK, TasksTyped
<1> QED
  BY <1>1, <1>2, <1>3, <1>4, <1>5, <1>6, <1>7 DEF Next

(* Every variable of the service, its tasks and its store keeps its type.  *)
THEOREM TypeCorrect == Spec => []TypeOK
<1>1. Init => TypeOK
  <2>1. IdleTask.pc \notin Locked
    BY DEF IdleTask, Locked
  <2> QED
    BY <2>1, IdleTyped DEF Init, TypeOK, TasksTyped
<1> QED
  BY <1>1, TypeStep, PTL DEF Spec

-----------------------------------------------------------------------------
(* The timeline and the row *)

Inv == TypeOK /\ LogMatchesRow /\ Handover /\ StoredIsUsed

(* Only one task is between reading a row and storing it.                  *)
LEMMA Exclusion ==
  ASSUME Inv, NEW p \in Tasks, NEW q \in Tasks, q # p
  PROVE  task[q].pc \in Locked => task[p].pc \notin Locked /\ lock # None
  BY NoneAssumption DEF Inv, Handover, HandoverOf

(* A task outside the critical section asks nothing of the others.         *)
LEMMA QuietStep ==
  ASSUME Inv, NEW p \in Tasks, NEW t, t.pc \notin Locked,
         task' = [task EXCEPT ![p] = t], UNCHANGED <<rows, log, used>>,
         lock' = lock \/ (lock = p /\ lock' = None)
  PROVE  (LogMatchesRow /\ Handover /\ StoredIsUsed)'
<1>1. LogMatchesRow' /\ StoredIsUsed'
  BY DEF Inv, LogMatchesRow, StoredIsUsed
<1>2. ASSUME NEW q \in Tasks
      PROVE  HandoverOf(task[q], q)'
  <2>1. CASE q = p
    BY <2>1 DEF HandoverOf, Inv, TypeOK, TasksTyped
  <2>2. CASE q # p /\ task[q].pc \in Locked
    <3>1. task'[q] = task[q] /\ lock' = lock
      BY <2>2 DEF Inv, TypeOK, TasksTyped, Handover, HandoverOf
    <3> QED
      BY <3>1 DEF Inv, Handover, HandoverOf, Continues
  <2>3. CASE q # p /\ task[q].pc \notin Locked
    BY <2>3 DEF HandoverOf, Inv, TypeOK, TasksTyped
  <2> QED
    BY <2>1, <2>2, <2>3
<1> QED
  BY <1>1, <1>2 DEF Handover

LEMMA ReleaseStep ==
  ASSUME Inv, NEW p \in Tasks, Release(p), UNCHANGED <<rows, log, used>>
  PROVE  (LogMatchesRow /\ Handover /\ StoredIsUsed)'
<1> DEFINE t == IF task[p].ids = {} THEN IdleTask
                ELSE [IdleTask EXCEPT !.pc = "cycle", !.ids = task[p].ids]
<1>1. t.pc \notin Locked
  BY DEF IdleTask, Locked
<1>2. task' = [task EXCEPT ![p] = t] /\ (lock' = lock \/ (lock = p /\ lock' = None))
  BY DEF Release, LockAfter
<1> HIDE DEF t
<1> QED
  BY <1>1, <1>2, QuietStep

(* The lock holder moves on without touching the store.                    *)
LEMMA HolderStep ==
  ASSUME Inv, NEW p \in Tasks, NEW t, task[p].pc \in Locked, HandoverOf(t, p),
         task' = [task EXCEPT ![p] = t], UNCHANGED <<rows, log, used, lock>>
  PROVE  (LogMatchesRow /\ Handover /\ StoredIsUsed)'
<1>1. LogMatchesRow' /\ StoredIsUsed'
  BY DEF Inv, LogMatchesRow, StoredIsUsed
<1>2. ASSUME NEW q \in Tasks
      PROVE  HandoverOf(task[q], q)'
  <2>1. CASE q = p
    <3>1. task'[q] = t
      BY <2>1 DEF Inv, TypeOK, TasksTyped
    <3> QED
      BY <2>1, <3>1 DEF HandoverOf, Continues
  <2>2. CASE q # p
    <3>1. task'[q] = task[q] /\ task[q].pc \notin Locked
      BY <2>2, Exclusion DEF Inv, TypeOK, TasksTyped
    <3> QED
      BY <3>1 DEF HandoverOf
  <2> QED
    BY <2>1, <2>2
<1> QED
  BY <1>1, <1>2 DEF Handover

LEMMA LoopStep ==
  ASSUME Inv, NEW p \in Tasks, LoadChunk(p) \/ LoadFails(p) \/ SimulateBar(p) \/ ChunkDone(p)
  PROVE  (LogMatchesRow /\ Handover /\ StoredIsUsed)'
<1> DEFINE t == task[p]
           k == t.at + 1
<1>1. /\ TypeOK /\ HandoverOf(t, p) /\ t \in TaskRecord
      /\ t.row \in Row /\ t.evs \in Seq(Events) /\ k \in Nat
  BY TaskTyped DEF Inv, Handover
<1>2. t.pc \in {"load", "sim"} /\ t.pc \in Locked /\ t.sim \in Sims
  BY <1>1, TaskTyped DEF LoadChunk, LoadFails, SimulateBar, ChunkDone, Locked
<1>3. log[t.sim] \in Seq(Events)
  BY <1>1, <1>2 DEF TypeOK
<1>4. HandoverOf(LeaveLoop(t), p)
  BY <1>1, <1>2 DEF HandoverOf, LeaveLoop, TaskRecord, Locked
<1>5. CASE LoadChunk(p)
  <2> DEFINE u == [t EXCEPT !.pc = "sim", !.at = Since(t.row), !.upto = ChunkEnd(t), !.chunk = @ + 1]
  <2>1. HandoverOf(u, p)
    BY <1>1, <1>2 DEF HandoverOf, TaskRecord, Locked
  <2>2. task' = [task EXCEPT ![p] = u] /\ UNCHANGED <<rows, log, used, lock>>
    BY <1>5 DEF LoadChunk, Goto
  <2> HIDE DEF u
  <2> QED
    BY <1>2, <2>1, <2>2, HolderStep
<1>6. CASE LoadFails(p)
  BY <1>2, <1>4, <1>6, HolderStep DEF LoadFails, Goto
<1>7. CASE SimulateBar(p)
  <2> DEFINE r == StepRow(t.row, feed[k], k)
             e == StepEvents(t.row, feed[k])
             v == [t EXCEPT !.at = k, !.row = r, !.evs = t.evs \o e]
             w == [t EXCEPT !.at = k]
             u == IF Eligible(t.row, k) THEN v ELSE w
  <2>1. t.row.status \in Active /\ t.pc = "sim"
    BY <1>7 DEF SimulateBar
  <2>2. r \in Row /\ e \in Seq(Events)
    BY <1>1, <2>1, StepTyped
  <2>3. rows[t.sim] # None => StatusOf(log[t.sim] \o (t.evs \o e)) = r.status
    <3>1. ASSUME rows[t.sim] # None
          PROVE  StatusOf(log[t.sim] \o (t.evs \o e)) = r.status
      <4>1. log[t.sim] \o t.evs \in Seq(Events) /\ StatusOf(log[t.sim] \o t.evs) = t.row.status
        BY <1>1, <1>2, <1>3, <3>1, ConcatProperties DEF HandoverOf
      <4>2. StatusOf((log[t.sim] \o t.evs) \o e) = r.status
        BY <1>1, <2>1, <4>1, StepKeepsStatus
      <4>3. (log[t.sim] \o t.evs) \o e = log[t.sim] \o (t.evs \o e)
        <5> DEFINE x == log[t.sim]
                   y == t.evs
        <5>1. x \in Seq(Events) /\ y \in Seq(Events) /\ e \in Seq(Events)
          BY <1>1, <1>3, <2>2
        <5> HIDE DEF x, y, e
        <5>2. (x \o y) \o e = x \o (y \o e)
          BY <5>1, ConcatAssociative
        <5> QED
          BY <5>2 DEF x, y
      <4> QED
        BY <4>2, <4>3
    <3> QED
      BY <3>1
  <2>4. task' = [task EXCEPT ![p] = u] /\ UNCHANGED <<rows, log, used, lock>>
    BY <1>7 DEF SimulateBar, Goto
  <2> HIDE DEF r, e
  <2>5. HandoverOf(v, p)
    BY <1>1, <1>2, <2>1, <2>3 DEF HandoverOf, TaskRecord
  <2>6. HandoverOf(w, p)
    BY <1>1, <1>2, <2>1 DEF HandoverOf, TaskRecord
  <2> HIDE DEF v, w
  <2>7. HandoverOf(u, p)
    BY <2>5, <2>6
  <2> HIDE DEF u
  <2> QED
    BY <1>2, <2>4, <2>7, HolderStep
<1>8. CASE ChunkDone(p)
  <2>1. HandoverOf([t EXCEPT !.pc = "load"], p)
    BY <1>1, <1>2 DEF HandoverOf, TaskRecord, Locked
  <2> QED
    BY <1>2, <1>4, <1>8, <2>1, HolderStep DEF ChunkDone, Goto
<1> QED
  BY <1>5, <1>6, <1>7, <1>8

LEMMA PersistStep ==
  ASSUME Inv, NEW p \in Tasks, CountEvents(p) \/ Reread(p) \/ Reload(p)
  PROVE  (LogMatchesRow /\ Handover /\ StoredIsUsed)'
<1> DEFINE t == task[p]
<1>1. TypeOK /\ HandoverOf(t, p) /\ t \in TaskRecord /\ t.row \in Row /\ t.evs \in Seq(Events)
  BY TaskTyped DEF Inv, Handover
<1>2. t.pc \in {"count", "reread", "reload"} /\ t.pc \in Locked /\ t.sim \in Sims
  BY <1>1, TaskTyped DEF CountEvents, Reread, Reload, Locked
<1>3. log[t.sim] \in Seq(Events) /\ log[t.sim] \o <<>> = log[t.sim]
  BY <1>1, <1>2, ConcatEmptySeq DEF TypeOK
<1>4. CASE CountEvents(p)
  <2> DEFINE u == [t EXCEPT !.pc = "store", !.seq = Len(log[t.sim])]
  <2>1. HandoverOf(u, p)
    BY <1>1, <1>2, <1>4 DEF HandoverOf, TaskRecord, CountEvents, Locked
  <2>2. task' = [task EXCEPT ![p] = u] /\ UNCHANGED <<rows, log, used, lock>>
    BY <1>4 DEF CountEvents, Goto
  <2> HIDE DEF u
  <2> QED
    BY <1>2, <2>1, <2>2, HolderStep
<1>5. CASE Reread(p)
  <2> DEFINE u == [t EXCEPT !.pc = "reload", !.base = rows[t.sim].status]
             r == [t.row EXCEPT !.status = "CANCELLED"]
             v == [t EXCEPT !.pc = "count", !.op = "finish", !.base = rows[t.sim].status,
                            !.row = r, !.evs = <<"CANCELLED">>]
  <2>1. t.pc = "reread" /\ Continues(t)
    BY <1>1, <1>2, <1>5 DEF Reread, HandoverOf
  <2>2. CASE rows[t.sim] = None
    BY <1>5, <2>2, ReleaseStep DEF Reread
  <2>3. CASE rows[t.sim] # None /\ t.op = "close"
    <3>1. HandoverOf(u, p)
      BY <1>1, <1>2, <2>1, <2>3 DEF HandoverOf, TaskRecord, Continues, Locked
    <3>2. task' = [task EXCEPT ![p] = u] /\ UNCHANGED <<rows, log, used, lock>>
      BY <1>5, <2>3 DEF Reread, Goto
    <3> HIDE DEF u
    <3> QED
      BY <1>2, <3>1, <3>2, HolderStep
  <2>4. CASE rows[t.sim] # None /\ t.op = "cancel"
    <3>1. StatusOf(log[t.sim]) = "PENDING"
      BY <1>1, <1>2, <1>3, <2>1, <2>4 DEF HandoverOf, Continues
    <3>2. StatusOf(log[t.sim] \o <<"CANCELLED">>) = "CANCELLED"
      BY <1>3, <3>1, AppendToPending
    <3>3. r.status = "CANCELLED"
      BY <1>1 DEF Row
    <3>4. task' = [task EXCEPT ![p] = v] /\ UNCHANGED <<rows, log, used, lock>>
      BY <1>5, <2>4 DEF Reread, Goto
    <3> HIDE DEF r
    <3>5. HandoverOf(v, p)
      BY <1>1, <1>2, <2>1, <2>4, <3>2, <3>3 DEF HandoverOf, TaskRecord, Locked
    <3> HIDE DEF v
    <3> QED
      BY <1>2, <3>4, <3>5, HolderStep
  <2> QED
    BY <2>1, <2>2, <2>3, <2>4 DEF Continues
<1>6. CASE Reload(p)
  <2> DEFINE r == [t.row EXCEPT !.status = "CLOSED", !.reason = "MANUAL"]
             u == [t EXCEPT !.pc = "count", !.op = "finish", !.evs = <<"CLOSED_MANUALLY">>, !.row = r]
  <2>1. t.pc = "reload" /\ (rows[t.sim] # None => StatusOf(log[t.sim]) = "OPEN")
    BY <1>1, <1>2, <1>3, <1>6 DEF HandoverOf, Reload
  <2>2. rows[t.sim] # None => StatusOf(log[t.sim] \o <<"CLOSED_MANUALLY">>) = "CLOSED"
    BY <1>3, <2>1, AppendToOpen
  <2>3. r.status = "CLOSED"
    BY <1>1 DEF Row
  <2>4. Release(p) \/ (task' = [task EXCEPT ![p] = u] /\ lock' = lock)
    BY <1>6 DEF Reload, Goto
  <2> HIDE DEF r
  <2>5. HandoverOf(u, p)
    BY <1>1, <1>2, <2>1, <2>2, <2>3 DEF HandoverOf, TaskRecord, Locked
  <2> HIDE DEF u
  <2>6. UNCHANGED <<rows, log, used>>
    BY <1>6 DEF Reload
  <2> QED
    BY <1>2, <2>4, <2>5, <2>6, HolderStep, ReleaseStep
<1> QED
  BY <1>4, <1>5, <1>6

(* The transaction: what is stored is what the events stand for.           *)
LEMMA StoreStep ==
  ASSUME Inv, NEW p \in Tasks, StoreAdvance(p)
  PROVE  (LogMatchesRow /\ Handover /\ StoredIsUsed)'
<1> DEFINE t == task[p]
           u == [t EXCEPT !.pc = "reread", !.evs = <<>>]
<1>1. /\ TypeOK /\ HandoverOf(t, p) /\ t \in TaskRecord /\ t.row \in Row
      /\ t.evs \in Seq(Events) /\ t.pc = "store" /\ t.pc \in Locked
  BY TaskTyped DEF Inv, Handover, StoreAdvance, Locked
<1>2. t.sim \in Sims /\ t.sim \in used /\ lock = p
  BY <1>1, TaskTyped DEF HandoverOf
<1>3. log[t.sim] \in Seq(Events) /\ log[t.sim] \o t.evs \in Seq(Events)
  BY <1>1, <1>2, ConcatProperties DEF TypeOK
<1>4. (log[t.sim] \o t.evs) \o <<>> = log[t.sim] \o t.evs
  BY <1>3, ConcatEmptySeq
<1>5. /\ rows' \in [Sims -> Row \cup {None}] /\ used' = used
      /\ \A s \in Sims : s # t.sim => rows'[s] = rows[s] /\ log'[s] = log[s]
  BY <1>1, <1>2 DEF StoreAdvance, TypeOK
<1>6. rows[t.sim] # None =>
        /\ rows'[t.sim] = t.row /\ log'[t.sim] = log[t.sim] \o t.evs
        /\ StatusOf(log[t.sim] \o t.evs) = t.row.status
  BY <1>1, <1>2 DEF StoreAdvance, StoreAccepts, HandoverOf, TypeOK
<1>7. rows[t.sim] = None => rows'[t.sim] = None /\ log'[t.sim] = log[t.sim]
  BY <1>1, <1>2 DEF StoreAdvance, StoreAccepts
<1>8. t.row # None
  BY <1>1, NoneAssumption
<1>9. LogMatchesRow'
  <2> SUFFICES ASSUME NEW s \in Sims
               PROVE  IF rows'[s] = None THEN log'[s] = <<>> ELSE StatusOf(log'[s]) = rows'[s].status
    BY DEF LogMatchesRow
  <2>1. IF rows[s] = None THEN log[s] = <<>> ELSE StatusOf(log[s]) = rows[s].status
    BY DEF Inv, LogMatchesRow
  <2>2. CASE s # t.sim
    BY <1>5, <2>1, <2>2
  <2>3. CASE s = t.sim
    BY <1>6, <1>7, <1>8, <2>1, <2>3
  <2> QED
    BY <2>2, <2>3
<1>10. StoredIsUsed'
  BY <1>2, <1>5 DEF Inv, StoredIsUsed
<1>11. \A q \in Tasks : q # p => task[q].pc \notin Locked
  BY <1>1, Exclusion
<1>12. CASE Continues(t)
  <2>1. task' = [task EXCEPT ![p] = u] /\ lock' = lock
    BY <1>1, <1>12 DEF StoreAdvance, Goto
  <2>2. /\ u.pc = "reread" /\ u.sim = t.sim /\ u.row = t.row /\ u.op = t.op /\ u.evs = <<>>
        /\ t.row.status \in Active
    BY <1>1, <1>12 DEF TaskRecord, Continues, Active
  <2>3. rows'[t.sim] # None =>
          rows'[t.sim].status \in Active /\ StatusOf(log'[t.sim] \o <<>>) = t.row.status
    BY <1>4, <1>6, <1>7, <2>2
  <2>4. Continues(u)
    BY <1>12, <2>2 DEF Continues
  <2> HIDE DEF u
  <2>5. ASSUME NEW q \in Tasks
        PROVE  HandoverOf(task[q], q)'
    <3>1. CASE q = p
      <4>1. task'[q] = u
        BY <2>1, <3>1 DEF Inv, TypeOK, TasksTyped
      <4>2. rows'[u.sim] # None =>
              rows'[u.sim].status \in Active /\ StatusOf(log'[u.sim] \o u.evs) = u.row.status
        BY <2>2, <2>3
      <4>3. lock' = q /\ u.sim \in used' /\ Continues(u) /\ u.pc = "reread" /\ u.evs = <<>>
        BY <1>2, <1>5, <2>1, <2>2, <2>4, <3>1
      <4> QED
        BY <4>1, <4>2, <4>3 DEF HandoverOf, Continues
    <3>2. CASE q # p
      <4>1. task'[q].pc \notin Locked
        BY <1>11, <2>1, <3>2 DEF Inv, TypeOK, TasksTyped
      <4> QED
        BY <4>1 DEF HandoverOf
    <3> QED
      BY <3>1, <3>2
  <2> QED
    BY <1>9, <1>10, <2>5 DEF Handover
<1>13. CASE ~Continues(t)
  <2>1. Release(p)
    BY <1>1, <1>13 DEF StoreAdvance
  <2>2. \A q \in Tasks : task'[q].pc \notin Locked
    BY <1>11, <2>1 DEF Release, LockAfter, IdleTask, Locked, Inv, TypeOK, TasksTyped
  <2> QED
    BY <1>9, <1>10, <2>2 DEF Handover, HandoverOf
<1> QED
  BY <1>12, <1>13

(* A request outside the lock; an insert uses an id no task has in hand.   *)
LEMMA RequestStep ==
  ASSUME Inv, NEW p \in Tasks,
         CreateCheck(p) \/ CreateInsert(p) \/ AdvanceAll(p) \/ TaskFails(p)
  PROVE  (LogMatchesRow /\ Handover /\ StoredIsUsed)'
<1>1. IdleTask.pc \notin Locked
  BY DEF IdleTask, Locked
<1>2. CASE CreateCheck(p)
  <2> DEFINE u == [IdleTask EXCEPT !.pc = "create", !.now = Len(feed)]
  <2>1. u.pc \notin Locked
    BY DEF IdleTask, Locked
  <2>2. task' = [task EXCEPT ![p] = u] /\ UNCHANGED <<rows, log, used, lock>>
    BY <1>2 DEF CreateCheck, Goto
  <2> HIDE DEF u
  <2> QED
    BY <2>1, <2>2, QuietStep
<1>3. CASE AdvanceAll(p)
  <2> PICK ids \in SUBSET Sims : Goto(p, [IdleTask EXCEPT !.pc = "cycle", !.ids = ids])
    BY <1>3 DEF AdvanceAll
  <2> DEFINE u == [IdleTask EXCEPT !.pc = "cycle", !.ids = ids]
  <2>1. u.pc \notin Locked
    BY DEF IdleTask, Locked
  <2>2. task' = [task EXCEPT ![p] = u] /\ UNCHANGED <<rows, log, used, lock>>
    BY <1>3 DEF AdvanceAll, Goto
  <2> HIDE DEF u
  <2> QED
    BY <2>1, <2>2, QuietStep
<1>4. CASE TaskFails(p)
  BY <1>4, ReleaseStep DEF TaskFails
<1>5. CASE CreateInsert(p)
  <2> PICK s \in Sims \ used, e \in {"MARKET", "LIMIT"}, f \in {1, 2} :
        /\ rows' = [rows EXCEPT ![s] = [NoSimRow EXCEPT !.entry = e, !.born = task[p].now,
                                                        !.first = task[p].now + f]]
        /\ log' = [log EXCEPT ![s] = <<"CREATED">>]
        /\ used' = used \cup {s}
    BY <1>5 DEF CreateInsert
  <2> DEFINE r == [NoSimRow EXCEPT !.entry = e, !.born = task[p].now, !.first = task[p].now + f]
             c == <<"CREATED">>
  <2>1. r.status = "PENDING" /\ StatusOf(c) = "PENDING"
    <3>1. c \in Seq(Events)
      BY DEF Events
    <3>2. r.status = "PENDING"
      BY DEF NoSimRow
    <3> QED
      BY <3>1, <3>2, Histories
  <2>2. rows' = [rows EXCEPT ![s] = r] /\ log' = [log EXCEPT ![s] = c]
    OBVIOUS
  <2> HIDE DEF r, c
  <2>3. /\ rows'[s] = r /\ log'[s] = c /\ r # None
        /\ \A x \in Sims : x # s => rows'[x] = rows[x] /\ log'[x] = log[x]
    <3>1. r # None
      <4>1. rows' \in [Sims -> Row \cup {None}] /\ TypeOK
        BY <1>5, RequestTyped DEF Inv, TypeOK
      <4>2. task[p].now \in Nat
        BY <4>1, TaskTyped
      <4>3. r \in Row
        BY <4>2, NewRowTyped DEF r
      <4> QED
        BY <4>3, NoneAssumption
    <3> QED
      BY <2>2, <3>1 DEF Inv, TypeOK
  <2>4. LogMatchesRow' /\ StoredIsUsed'
    <3>1. LogMatchesRow'
      <4>1. ASSUME NEW y \in Sims, y # s
            PROVE  IF rows'[y] = None THEN log'[y] = <<>> ELSE StatusOf(log'[y]) = rows'[y].status
        <5>1. rows'[y] = rows[y] /\ log'[y] = log[y]
          BY <2>3, <4>1
        <5> QED
          BY <5>1 DEF Inv, LogMatchesRow
      <4>2. rows'[s] # None /\ StatusOf(log'[s]) = rows'[s].status
        BY <2>1, <2>3
      <4> QED
        BY <4>1, <4>2 DEF LogMatchesRow
    <3>2. StoredIsUsed'
      BY <2>3 DEF Inv, StoredIsUsed
    <3> QED
      BY <3>1, <3>2
  <2>5. task' = [task EXCEPT ![p] = IdleTask] /\ lock' = lock /\ task[p].pc \notin Locked
    BY <1>5 DEF CreateInsert, Goto, Locked
  <2>6. ASSUME NEW q \in Tasks
        PROVE  HandoverOf(task[q], q)'
    <3>1. CASE task'[q].pc \notin Locked
      BY <3>1 DEF HandoverOf
    <3>2. CASE task'[q].pc \in Locked
      <4>1. task'[q] = task[q]
        BY <1>1, <2>5, <3>2 DEF Inv, TypeOK, TasksTyped
      <4>2. /\ HandoverOf(task[q], q) /\ task[q].sim \in Sims /\ task[q].sim \in used
            /\ task[q].sim # s
        BY <3>2, <4>1, TaskTyped DEF Inv, Handover, HandoverOf
      <4>3. rows'[task[q].sim] = rows[task[q].sim] /\ log'[task[q].sim] = log[task[q].sim]
        BY <2>3, <4>2
      <4>4. task[q].sim \in used'
        BY <4>2
      <4> QED
        BY <2>5, <4>1, <4>2, <4>3, <4>4 DEF HandoverOf, Continues
    <3> QED
      BY <3>1, <3>2
  <2> QED
    BY <2>4, <2>6 DEF Handover
<1> QED
  BY <1>2, <1>3, <1>4, <1>5

(* Taking the lock: it was free, so no other task was in the middle.       *)
LEMMA BeginStep ==
  ASSUME Inv, NEW p \in Tasks, NEW s \in Sims, NEW op, NEW ids,
         lock = None, IsActive(s), Begin(p, s, op, ids), UNCHANGED <<rows, log, used>>
  PROVE  (LogMatchesRow /\ Handover /\ StoredIsUsed)'
<1> DEFINE u == [IdleTask EXCEPT !.pc = "load", !.op = op, !.ids = ids, !.sim = s, !.row = rows[s],
                                !.base = rows[s].status, !.now = Len(feed)]
<1>1. LogMatchesRow' /\ StoredIsUsed'
  BY DEF Inv, LogMatchesRow, StoredIsUsed
<1>2. /\ u.pc = "load" /\ u.sim = s /\ u.row = rows[s] /\ u.base = rows[s].status /\ u.evs = <<>>
      /\ task' = [task EXCEPT ![p] = u] /\ lock' = p
  BY DEF Begin, Goto, IdleTask
<1>3. \A q \in Tasks : task[q].pc \notin Locked
  BY NoneAssumption DEF Inv, Handover, HandoverOf
<1>4. rows[s] # None /\ s \in used /\ StatusOf(log[s]) = rows[s].status
  BY DEF Inv, LogMatchesRow, StoredIsUsed, IsActive
<1>5. log[s] \o <<>> = log[s]
  BY ConcatEmptySeq DEF Inv, TypeOK
<1> HIDE DEF u
<1>6. ASSUME NEW q \in Tasks
      PROVE  HandoverOf(task[q], q)'
  <2>1. CASE q = p
    <3>1. task'[q] = u
      BY <1>2, <2>1 DEF Inv, TypeOK, TasksTyped
    <3>2. rows'[u.sim] = rows[s] /\ rows[s].status \in Active
      BY <1>2 DEF IsActive
    <3>3. StatusOf(log'[u.sim] \o u.evs) = u.row.status
      BY <1>2, <1>4, <1>5
    <3>4. lock' = q /\ u.sim \in used' /\ u.base = rows[s].status
      BY <1>2, <1>4, <2>1
    <3> QED
      BY <1>2, <3>1, <3>2, <3>3, <3>4 DEF HandoverOf
  <2>2. CASE q # p
    <3>1. task'[q].pc \notin Locked
      BY <1>2, <1>3, <2>2 DEF Inv, TypeOK, TasksTyped
    <3> QED
      BY <3>1 DEF HandoverOf
  <2> QED
    BY <2>1, <2>2
<1> QED
  BY <1>1, <1>6 DEF Handover

LEMMA InvStep == Inv /\ [Next]_vars => Inv'
<1> SUFFICES ASSUME Inv, [Next]_vars
             PROVE  (LogMatchesRow /\ Handover /\ StoredIsUsed)'
  BY TypeStep DEF Inv
<1>1. ASSUME UNCHANGED <<rows, log, used, lock, task>>
      PROVE  (LogMatchesRow /\ Handover /\ StoredIsUsed)'
  BY <1>1 DEF Inv, LogMatchesRow, StoredIsUsed, Handover, HandoverOf, Continues
<1>2. CASE BarCloses \/ UNCHANGED vars
  BY <1>1, <1>2 DEF BarCloses, vars
<1>3. CASE Restart
  <2>1. \A q \in Tasks : task'[q].pc \notin Locked
    BY <1>3 DEF Restart, IdleTask, Locked
  <2>2. UNCHANGED <<rows, log, used>>
    BY <1>3 DEF Restart
  <2> QED
    BY <2>1, <2>2 DEF Inv, LogMatchesRow, StoredIsUsed, Handover, HandoverOf
<1>4. ASSUME NEW s \in Sims, RecordAltered(s)
      PROVE  (LogMatchesRow /\ Handover /\ StoredIsUsed)'
  BY <1>1, <1>4 DEF RecordAltered
<1>5. ASSUME NEW s \in Sims, Delete(s)
      PROVE  (LogMatchesRow /\ Handover /\ StoredIsUsed)'
  <2>1. /\ rows'[s] = None /\ log'[s] = <<>> /\ UNCHANGED <<used, lock, task>>
        /\ \A x \in Sims : x # s => rows'[x] = rows[x] /\ log'[x] = log[x]
    BY <1>5 DEF Delete, Inv, TypeOK
  <2>2. LogMatchesRow' /\ StoredIsUsed'
    BY <2>1 DEF Inv, LogMatchesRow, StoredIsUsed
  <2>3. ASSUME NEW q \in Tasks, task[q].pc \in Locked
        PROVE  HandoverOf(task[q], q)'
    <3>1. HandoverOf(task[q], q) /\ task[q].sim \in Sims
      BY <2>3, TaskTyped DEF Inv, Handover
    <3>2. CASE task[q].sim = s
      BY <2>1, <2>3, <3>1, <3>2 DEF HandoverOf, Continues
    <3>3. CASE task[q].sim # s
      <4>1. rows'[task[q].sim] = rows[task[q].sim] /\ log'[task[q].sim] = log[task[q].sim]
        BY <2>1, <3>1, <3>3
      <4> QED
        BY <2>1, <3>1, <4>1 DEF HandoverOf, Continues
    <3> QED
      BY <3>2, <3>3
  <2>4. ASSUME NEW q \in Tasks, task[q].pc \notin Locked
        PROVE  HandoverOf(task[q], q)'
    BY <2>1, <2>4 DEF HandoverOf
  <2> QED
    BY <2>2, <2>3, <2>4 DEF Handover
<1>6. ASSUME NEW p \in Tasks, CreateCheck(p) \/ CreateInsert(p) \/ AdvanceAll(p) \/ TaskFails(p)
      PROVE  (LogMatchesRow /\ Handover /\ StoredIsUsed)'
  BY <1>6, RequestStep
<1>7. ASSUME NEW p \in Tasks, WorkStep(p)
      PROVE  (LogMatchesRow /\ Handover /\ StoredIsUsed)'
  BY <1>7, LoopStep, PersistStep, StoreStep, TooNewFails DEF WorkStep, Works
<1>8. ASSUME NEW p \in Tasks, NEW s \in Sims, CloseNow(p, s) \/ Cancel(p, s)
      PROVE  (LogMatchesRow /\ Handover /\ StoredIsUsed)'
  BY <1>8, BeginStep DEF CloseNow, Cancel, UserAction, LockFree
<1>9. ASSUME NEW p \in Tasks, NEW s \in Sims, Advance(p, s)
      PROVE  (LogMatchesRow /\ Handover /\ StoredIsUsed)'
  <2>1. CASE IsActive(s) /\ Begin(p, s, "advance", task[p].ids \ {s})
    BY <1>9, <2>1, BeginStep DEF Advance, LockFree
  <2>2. CASE ~(IsActive(s) /\ Begin(p, s, "advance", task[p].ids \ {s}))
    <3> DEFINE u == [task[p] EXCEPT !.ids = @ \ {s},
                                    !.pc = IF task[p].ids \subseteq {s} THEN "idle" ELSE "cycle"]
    <3>1. task[p] \in TaskRecord
      BY TaskTyped DEF Inv
    <3>2. u.pc \notin Locked
      BY <3>1 DEF TaskRecord, Locked
    <3>3. task' = [task EXCEPT ![p] = u] /\ UNCHANGED <<rows, log, used, lock>>
      BY <1>9, <2>2 DEF Advance, Goto
    <3> HIDE DEF u
    <3> QED
      BY <3>2, <3>3, QuietStep
  <2> QED
    BY <2>1, <2>2
<1> QED
  BY <1>2, <1>3, <1>4, <1>5, <1>6, <1>7, <1>8, <1>9 DEF Next

LEMMA InvHolds == Spec => []Inv
<1>1. Init => Inv
  <2>1. IdleTask.pc \notin Locked
    BY DEF IdleTask, Locked
  <2>2. Init => TypeOK
    BY <2>1, IdleTyped DEF Init, TypeOK, TasksTyped
  <2> QED
    BY <2>1, <2>2 DEF Init, Inv, LogMatchesRow, Handover, HandoverOf, StoredIsUsed
<1> QED
  BY <1>1, InvStep, PTL DEF Spec

(* However the monitor, the requests, deletes and restarts interleave, the *)
(* stored events of a sim are the history of its stored status.            *)
THEOREM TimelineMatchesStatus == Spec => []LogMatchesRow
<1>1. Inv => LogMatchesRow
  BY DEF Inv
<1> QED
  BY <1>1, InvHolds, PTL

-----------------------------------------------------------------------------
(* The refinement: PaperTrading implements SimHistory.                     *)

(* The events of one transaction move a timeline to a legal successor.     *)
LEMMA GrowsLegally ==
  ASSUME NEW l \in Seq(Events), NEW e \in Seq(Events),
         StatusOf(l) \in Active, StatusOf(l \o e) \in Statuses
  PROVE  l \o e = l \/ l \o e \in History!Successors(l)
<1> DEFINE n == l \o e
<1>1. n \in Seq(Events) /\ Len(n) = Len(l) + Len(e) /\ \A i \in 1 .. Len(l) : n[i] = l[i]
  BY ConcatProperties
<1>2. StatusOf(n) \in {"PENDING", "OPEN", "EXPIRED", "CANCELLED", "CLOSED"}
  BY DEF Statuses, Active
<1> HIDE DEF n
<1>3. n \in {History!Pending, History!Open, History!Expired, History!Cancelled} \cup History!Closed
  BY <1>1, <1>2, Histories
     DEF History!Pending, History!Open, History!Expired, History!Cancelled, History!Closed,
         History!ExitEvents
<1>4. CASE l = <<"CREATED">>
  BY <1>3, <1>4 DEF n, History!Successors, History!Pending
<1>5. CASE l = <<"CREATED", "FILLED">>
  <2>1. Len(l) = 2 /\ l[2] = "FILLED"
    BY <1>5
  <2>2. Len(n) >= 2 /\ n[2] = "FILLED"
    BY <1>1, <2>1, LenProperties
  <2>3. n # History!Pending /\ n # History!Expired /\ n # History!Cancelled
    BY <2>2 DEF History!Pending, History!Expired, History!Cancelled
  <2>4. l = History!Open
    BY <1>5 DEF History!Open
  <2> QED
    BY <1>3, <2>3, <2>4 DEF n, History!Successors
<1> QED
  BY <1>4, <1>5, Histories DEF Active

LEMMA NewTimelines ==
  /\ History!Pending = <<"CREATED">>
  /\ StatusOf(<<>>) \notin Statuses
<1>1. <<>> \in Seq(Events)
  OBVIOUS
<1>2. ASSUME StatusOf(<<>>) \in Statuses
      PROVE  FALSE
  <2>1. \/ <<>> = <<"CREATED">> \/ <<>> = <<"CREATED", "FILLED">> \/ <<>> = <<"CREATED", "EXPIRED">>
        \/ <<>> = <<"CREATED", "CANCELLED">>
        \/ \E e \in {"STOP_HIT", "TARGET_HIT", "CLOSED_MANUALLY"} : <<>> = <<"CREATED", "FILLED", e>>
    BY <1>1, <1>2, Histories DEF Statuses, Active
  <2> QED
    BY <2>1
<1> QED
  BY <1>2 DEF History!Pending

LEMMA StepRefines ==
  ASSUME Inv, Inv', [Next]_vars
  PROVE  [History!HistoryNext]_(History!historyVars)
<1> DEFINE gone == {s \in used : rows[s] = None}
<1> SUFFICES \/ UNCHANGED <<log, rows, used>>
             \/ log' = log /\ gone' = gone
             \/ \E s \in Sims : History!Appear(s) \/ History!Grow(s) \/ History!Vanish(s)
  BY DEF History!HistoryNext, History!historyVars
<1>1. CASE \E s \in Sims : Delete(s)
  <2> PICK s \in Sims : Delete(s)
    BY <1>1
  <2>1. rows[s] # None /\ rows' = [rows EXCEPT ![s] = None] /\ log' = [log EXCEPT ![s] = <<>>]
          /\ used' = used
    BY DEF Delete
  <2>2. s \in used /\ log[s] # <<>>
    BY <2>1, NewTimelines DEF Inv, StoredIsUsed, LogMatchesRow, TypeOK, Row
  <2>3. gone' = gone \cup {s}
    BY <2>1, <2>2 DEF Inv, TypeOK
  <2>4. History!Vanish(s)
    BY <2>1, <2>2, <2>3 DEF History!Vanish
  <2> QED
    BY <2>4
<1>2. CASE \E p \in Tasks : CreateInsert(p)
  <2> PICK s \in Sims \ used :
        /\ \E r : rows' = [rows EXCEPT ![s] = r]
        /\ log' = [log EXCEPT ![s] = <<"CREATED">>]
        /\ used' = used \cup {s}
    BY <1>2 DEF CreateInsert
  <2> PICK r : rows' = [rows EXCEPT ![s] = r]
    OBVIOUS
  <2>1. rows[s] = None /\ log[s] = <<>> /\ log'[s] # <<>>
    BY DEF Inv, StoredIsUsed, LogMatchesRow, TypeOK
  <2>2. rows'[s] # None
    BY <2>1 DEF Inv, LogMatchesRow
  <2>3. gone' = gone
    BY <2>2 DEF Inv, TypeOK
  <2>4. History!Appear(s)
    BY <2>1, <2>3, NewTimelines DEF History!Appear
  <2> QED
    BY <2>4
<1>3. CASE \E p \in Tasks : StoreAdvance(p)
  <2> PICK p \in Tasks : StoreAdvance(p)
    BY <1>3
  <2> DEFINE t == task[p]
  <2>1. HandoverOf(t, p) /\ t.sim \in Sims /\ t.row \in Row /\ t.evs \in Seq(Events) /\ t.pc = "store"
          /\ t.pc \in Locked /\ used' = used
    BY TaskTyped DEF Inv, Handover, StoreAdvance, Locked
  <2>2. CASE StoreAccepts(t)
    <3>1. /\ rows' = [rows EXCEPT ![t.sim] = t.row] /\ log' = [log EXCEPT ![t.sim] = @ \o t.evs]
          /\ rows[t.sim] # None /\ t.row # None
      BY <2>1, <2>2, NoneAssumption DEF StoreAdvance, StoreAccepts
    <3>2. StatusOf(log[t.sim]) \in Active /\ StatusOf(log[t.sim] \o t.evs) \in Statuses
      BY <2>1, <3>1 DEF HandoverOf, Inv, LogMatchesRow, Row
    <3>3. log[t.sim] \in Seq(Events)
      BY <2>1 DEF Inv, TypeOK
    <3>4. \/ log[t.sim] \o t.evs = log[t.sim]
          \/ log[t.sim] \o t.evs \in History!Successors(log[t.sim])
      BY <2>1, <3>2, <3>3, GrowsLegally
    <3>5. gone' = gone
      BY <2>1, <3>1 DEF Inv, TypeOK
    <3>6. CASE log[t.sim] \o t.evs = log[t.sim]
      BY <2>1, <3>1, <3>5, <3>6 DEF Inv, TypeOK
    <3>7. CASE log[t.sim] \o t.evs \in History!Successors(log[t.sim])
      BY <2>1, <3>1, <3>5, <3>7 DEF History!Grow
    <3> QED
      BY <3>4, <3>6, <3>7
  <2>3. CASE ~StoreAccepts(t)
    BY <2>1, <2>3 DEF StoreAdvance
  <2> QED
    BY <2>2, <2>3
<1>4. ASSUME ~(\E s \in Sims : Delete(s)), ~(\E p \in Tasks : CreateInsert(p) \/ StoreAdvance(p))
      PROVE  UNCHANGED <<log, rows, used>>
  BY <1>4
     DEF Next, vars, BarCloses, Restart, RecordAltered, CreateCheck, AdvanceAll, WorkStep, Works, TaskFails,
         Advance, CloseNow, Cancel, UserAction, LoadChunk, LoadFails, LoadTooNew, SimulateBar, ChunkDone,
         CountEvents, Reread, Reload
<1> QED
  BY <1>1, <1>2, <1>3, <1>4

(* The service and its store implement the abstract timeline.              *)
THEOREM ImplementsHistory == Spec => TimelineIsHonest
<1>1. Init => History!HistoryInit
  BY DEF Init, History!HistoryInit
<1>2. Inv /\ Inv' /\ [Next]_vars => [History!HistoryNext]_(History!historyVars)
  BY StepRefines
<1> QED
  BY <1>1, <1>2, InvHolds, PTL DEF Spec, TimelineIsHonest, History!HistorySpec

-----------------------------------------------------------------------------
(* One pass.  What every row satisfies, in the store and in the hands of a *)
(* task: it is what one pass over its bars gives, these bars have closed   *)
(* and it still has time when it waits.                                    *)
Pass(r) ==
  /\ r.born < r.first /\ r.born <= Len(feed) /\ r.thru <= Len(feed)
  /\ r.status = "PENDING" => r.pending < ExpiryBars
  /\ OnePass(r)

(* Between the last bar of its row and the one it is at, a task passed     *)
(* over empty slots only.                                                  *)
Passing(t) ==
  /\ t.now <= Len(feed)
  /\ t.pc \in Locked => Pass(t.row)
  /\ t.pc = "sim" => /\ t.upto <= Len(feed) /\ t.at <= Len(feed)
                     /\ \A k \in t.row.first .. t.at : k > t.row.thru => feed[k] = NoBar

PassInv ==
  /\ \A s \in Sims : rows[s] # None => Pass(rows[s])
  /\ \A p \in Tasks : Passing(task[p])

(* The bars a row has seen are finitely many and none is after its last.   *)
LEMMA SeenFacts ==
  ASSUME NEW r \in Row
  PROVE  /\ IsFiniteSet(Seen(r)) /\ Cardinality(Seen(r)) \in Nat
         /\ \A k \in Seen(r) : k \in r.first .. r.thru /\ feed[k] # NoBar
<1>1. r.first \in Int /\ r.thru \in Int /\ Seen(r) \in SUBSET (r.first .. r.thru)
  BY DEF Row, Seen
<1>2. IsFiniteSet(r.first .. r.thru)
  BY <1>1, FS_Interval
<1>3. IsFiniteSet(Seen(r))
  BY <1>1, <1>2, FS_Subset
<1> QED
  BY <1>3, FS_CardinalityType DEF Seen

(* A bar that closes changes nothing of what a row has seen.               *)
LEMMA PassLasts ==
  ASSUME NEW r \in Row, Pass(r), Len(feed) \in Nat, Len(feed') \in Nat, Len(feed) <= Len(feed'),
         \A k \in 1 .. Len(feed) : feed'[k] = feed[k]
  PROVE  Pass(r)'
<1>1. r.first \in Nat /\ r.born \in Nat /\ r.thru \in Nat /\ r.first >= 1 /\ r.thru <= Len(feed)
  BY DEF Row, Pass
<1>2. \A k \in r.first .. r.thru : feed'[k] = feed[k]
  BY <1>1
<1>3. Seen(r)' = Seen(r)
  BY <1>2 DEF Seen
<1>4. \A k \in Seen(r) : feed'[k] = feed[k]
  BY <1>2 DEF Seen
<1>5. FillsSeen(r)' = FillsSeen(r)
  BY <1>3, <1>4 DEF FillsSeen, Fills
<1>6. \A f : ExitsSeen(r, f)' = ExitsSeen(r, f)
  BY <1>3, <1>4 DEF ExitsSeen
<1>7. OnePass(r) => OnePass(r)'
  <2>1. Seen(r)' = Seen(r) /\ FillsSeen(r)' = FillsSeen(r) /\ \A f : ExitsSeen(r, f)' = ExitsSeen(r, f)
    BY <1>3, <1>5, <1>6
  <2> QED
    BY <2>1 DEF OnePass
<1> QED
  BY <1>1, <1>7 DEF Pass

(* What a bar does to the fields of a row.                                 *)
LEMMA StepFields ==
  ASSUME NEW r \in Row, r.status \in Active, NEW bar, NEW k \in Nat
  PROVE  LET q    == StepRow(r, bar, k)
             exit == ExitReason(bar, FillsIntrabar(r, bar))
         IN  /\ q.entry = r.entry /\ q.born = r.born /\ q.first = r.first /\ q.thru = k
             /\ r.status = "PENDING" /\ ~Fills(r, bar) =>
                  /\ q.pending = r.pending + 1
                  /\ q.status = IF r.pending + 1 >= ExpiryBars THEN "EXPIRED" ELSE "PENDING"
             /\ ~(r.status = "PENDING" /\ ~Fills(r, bar)) =>
                  /\ q.pending = r.pending /\ q.reason = exit
                  /\ q.status = IF exit = "none" THEN "OPEN" ELSE "CLOSED"
<1> DEFINE exit == ExitReason(bar, FillsIntrabar(r, bar))
<1>1. CASE r.status = "PENDING" /\ ~Fills(r, bar)
  BY <1>1 DEF StepRow, Row
<1>2. CASE ~(r.status = "PENDING" /\ ~Fills(r, bar))
  <2>1. StepRow(r, bar, k) = [r EXCEPT !.thru = k, !.reason = exit,
                                       !.status = IF exit = "none" THEN "OPEN" ELSE "CLOSED"]
    BY <1>2 DEF StepRow
  <2> HIDE DEF exit
  <2>2. /\ StepRow(r, bar, k).entry = r.entry /\ StepRow(r, bar, k).born = r.born
        /\ StepRow(r, bar, k).first = r.first /\ StepRow(r, bar, k).thru = k
        /\ StepRow(r, bar, k).pending = r.pending /\ StepRow(r, bar, k).reason = exit
        /\ StepRow(r, bar, k).status = IF exit = "none" THEN "OPEN" ELSE "CLOSED"
    BY <2>1 DEF Row
  <2> QED
    BY <1>2, <2>2 DEF exit
<1> QED
  BY <1>1, <1>2

(* The bar after the ones a row has seen: the row sees it too, and only it.*)
LEMMA SeenGrows ==
  ASSUME NEW r \in Row, NEW q \in Row, NEW k \in Nat, Pass(r), Eligible(r, k),
         q.first = r.first, q.thru = k,
         \A j \in r.first .. k - 1 : j > r.thru => feed[j] = NoBar
  PROVE  /\ Seen(q) = Seen(r) \cup {k} /\ k \notin Seen(r) /\ k \in Seen(q)
         /\ \A j \in Seen(r) : j < k
         /\ Cardinality(Seen(q)) = Cardinality(Seen(r)) + 1
<1>1. /\ k > r.thru /\ k >= r.first /\ feed[k] # NoBar
      /\ r.first \in Nat /\ r.thru \in Nat
  BY DEF Eligible, Row
<1>2. \A j \in Seen(r) : j \in Int /\ j <= r.thru
  BY <1>1 DEF Seen
<1>3. \A j \in Seen(r) : j < k
  BY <1>1, <1>2
<1>4. ASSUME NEW j \in q.first .. q.thru, feed[j] # NoBar
      PROVE  j \in Seen(r) \cup {k}
  <2>1. j \in Int /\ r.first <= j /\ j <= k
    BY <1>1, <1>4
  <2>2. CASE j = k
    BY <2>2
  <2>3. CASE j # k
    <3>1. j \in r.first .. k - 1
      BY <1>1, <2>1, <2>3
    <3>2. ~(j > r.thru)
      BY <1>4, <3>1
    <3> QED
      BY <1>1, <1>4, <2>1, <3>2 DEF Seen
  <2> QED
    BY <2>2, <2>3
<1>5. Seen(q) \subseteq Seen(r) \cup {k}
  BY <1>4 DEF Seen
<1>6. k \in Seen(q)
  BY <1>1 DEF Seen
<1>7. \A j \in Seen(r) : j \in Seen(q)
  BY <1>1, <1>3 DEF Seen
<1>8. Seen(q) = Seen(r) \cup {k}
  BY <1>5, <1>6, <1>7
<1>9. k \notin Seen(r)
  BY <1>3
<1>10. Cardinality(Seen(r) \cup {k}) = Cardinality(Seen(r)) + 1
  BY <1>9, SeenFacts, FS_AddElement
<1> QED
  BY <1>3, <1>6, <1>8, <1>9, <1>10

LEMMA StepPass ==
  ASSUME NEW r \in Row, NEW k \in 1 .. Len(feed), Len(feed) \in Nat, Pass(r), Eligible(r, k),
         \A j \in r.first .. k - 1 : j > r.thru => feed[j] = NoBar
  PROVE  Pass(StepRow(r, feed[k], k))
<1> DEFINE q    == StepRow(r, feed[k], k)
           exit == ExitReason(feed[k], FillsIntrabar(r, feed[k]))
<1>1. r.status \in Active /\ k \in Nat /\ k <= Len(feed) /\ k # 0
  BY DEF Eligible
<1>2. q \in Row
  BY <1>1, StepTyped
<1>3. /\ q.entry = r.entry /\ q.born = r.born /\ q.first = r.first /\ q.thru = k
      /\ r.status = "PENDING" /\ ~Fills(r, feed[k]) =>
           /\ q.pending = r.pending + 1
           /\ q.status = IF r.pending + 1 >= ExpiryBars THEN "EXPIRED" ELSE "PENDING"
      /\ ~(r.status = "PENDING" /\ ~Fills(r, feed[k])) =>
           /\ q.pending = r.pending /\ q.reason = exit
           /\ q.status = IF exit = "none" THEN "OPEN" ELSE "CLOSED"
  BY <1>1, StepFields
<1>4. exit \in {"none", "STOP", "TARGET"}
  BY ReasonOfBar
<1> HIDE DEF q, exit
<1>5. /\ Seen(q) = Seen(r) \cup {k} /\ k \notin Seen(r) /\ k \in Seen(q)
      /\ \A j \in Seen(r) : j < k
      /\ Cardinality(Seen(q)) = Cardinality(Seen(r)) + 1
  BY <1>1, <1>2, <1>3, SeenGrows
<1>6. \A j : Fills(q, feed[j]) <=> Fills(r, feed[j])
  BY <1>3 DEF Fills
<1>7. FillsSeen(q) = FillsSeen(r) \cup {j \in {k} : Fills(r, feed[k])}
  BY <1>5, <1>6 DEF FillsSeen
<1>8. \A j \in Seen(q) : j \in Int
  BY <1>1, <1>5, SeenFacts
<1>9. r.pending \in Nat /\ ExpiryBars \in Nat /\ Cardinality(Seen(r)) \in Nat
  BY SeenFacts, LimitAssumption DEF Row
<1>10. r.status = "PENDING" =>
         FillsSeen(r) = {} /\ r.pending = Cardinality(Seen(r)) /\ r.pending < ExpiryBars
  BY DEF Pass, OnePass
<1>15. r.status = "OPEN" =>
           \E f \in FillsSeen(r) :
             /\ \A j \in FillsSeen(r) : f <= j
             /\ Cardinality({j \in Seen(r) : j < f}) = r.pending
             /\ r.pending < ExpiryBars /\ ExitsSeen(r, f) = {}
  BY DEF Pass, OnePass
<1>11. q.thru \in Seen(q)
  BY <1>3, <1>5
<1>12. CASE r.status = "PENDING" /\ ~Fills(r, feed[k])
  <2>1. FillsSeen(q) = {}
    BY <1>7, <1>10, <1>12
  <2>2. q.pending = Cardinality(Seen(q))
    BY <1>3, <1>5, <1>10, <1>12
  <2>3. q.status \in {"PENDING", "EXPIRED"} /\ (q.status = "EXPIRED" <=> q.pending = ExpiryBars)
          /\ (q.status = "PENDING" => q.pending < ExpiryBars)
    BY <1>3, <1>9, <1>10, <1>12
  <2>4. OnePass(q)
    BY <1>11, <2>1, <2>2, <2>3 DEF OnePass
  <2> QED
    BY <1>1, <1>3, <2>3, <2>4 DEF Pass, q
<1>13. CASE r.status = "PENDING" /\ Fills(r, feed[k])
  <2>1. FillsSeen(q) = {k}
    BY <1>7, <1>10, <1>13
  <2>2. {j \in Seen(q) : j < k} = Seen(r)
    <3>1. ~(k < k)
      BY <1>1
    <3> QED
      BY <1>5, <3>1
  <2>3. ExitsSeen(q, k) = {j \in {k} : "none" # ExitReason(feed[k], k = k /\ q.entry = "LIMIT" /\ feed[k].entry = "touch")}
    <3>1. \A j \in Seen(q) : j >= k <=> j = k
      BY <1>1, <1>5, <1>8
    <3> QED
      BY <1>5, <3>1 DEF ExitsSeen
  <2>4. (k = k /\ q.entry = "LIMIT" /\ feed[k].entry = "touch") = FillsIntrabar(r, feed[k])
    BY <1>3, <1>13 DEF FillsIntrabar
  <2>5. ExitsSeen(q, k) = IF exit = "none" THEN {} ELSE {k}
    BY <2>3, <2>4 DEF exit
  <2>6. q.pending = r.pending /\ q.reason = exit /\ q.status = IF exit = "none" THEN "OPEN" ELSE "CLOSED"
    BY <1>3, <1>13
  <2>7. \A j \in FillsSeen(q) : k <= j
    BY <1>1, <2>1
  <2>8. ExitsSeen(q, k) = IF q.status = "CLOSED" /\ q.reason # "MANUAL" THEN {q.thru} ELSE {}
    BY <1>3, <1>4, <2>5, <2>6
  <2>9. Cardinality({j \in Seen(q) : j < k}) = q.pending /\ q.pending < ExpiryBars
    BY <1>10, <1>13, <2>2, <2>6
  <2>10. OnePass(q)
    BY <1>11, <2>1, <2>6, <2>7, <2>8, <2>9 DEF OnePass
  <2> QED
    BY <1>1, <1>3, <2>6, <2>10 DEF Pass, q
<1>14. CASE r.status = "OPEN"
  <2> PICK f \in FillsSeen(r) :
        /\ \A j \in FillsSeen(r) : f <= j
        /\ Cardinality({j \in Seen(r) : j < f}) = r.pending
        /\ r.pending < ExpiryBars /\ ExitsSeen(r, f) = {}
    BY <1>14, <1>15
  <2>1. f \in Seen(r) /\ f \in FillsSeen(q) /\ f < k /\ f \in Int /\ f # k
    BY <1>1, <1>5, <1>7, <1>8 DEF FillsSeen
  <2>2. \A j \in FillsSeen(q) : f <= j
    BY <1>1, <1>7, <2>1
  <2>3. {j \in Seen(q) : j < f} = {j \in Seen(r) : j < f}
    BY <1>1, <1>5, <2>1
  <2>4. ~FillsIntrabar(r, feed[k]) /\ FillsIntrabar(r, feed[k]) = FALSE
    BY <1>14 DEF FillsIntrabar
  <2>5. ExitsSeen(q, f) = IF exit = "none" THEN {} ELSE {k}
    <3>1. \A j \in Seen(r) : j >= f => ExitReason(feed[j], j = f /\ q.entry = "LIMIT" /\ feed[j].entry = "touch") = "none"
      BY <1>3 DEF ExitsSeen
    <3>2. (k = f /\ q.entry = "LIMIT" /\ feed[k].entry = "touch") = FALSE
      BY <2>1
    <3>3. ExitReason(feed[k], k = f /\ q.entry = "LIMIT" /\ feed[k].entry = "touch") = exit
      BY <2>4, <3>2 DEF exit
    <3>4. ExitsSeen(q, f) = {j \in {k} : exit # "none"}
      BY <1>1, <1>5, <2>1, <3>1, <3>3 DEF ExitsSeen
    <3> QED
      BY <3>4
  <2>6. q.pending = r.pending /\ q.reason = exit /\ q.status = IF exit = "none" THEN "OPEN" ELSE "CLOSED"
    BY <1>3, <1>14
  <2>7. ExitsSeen(q, f) = IF q.status = "CLOSED" /\ q.reason # "MANUAL" THEN {q.thru} ELSE {}
    BY <1>3, <1>4, <2>5, <2>6
  <2>8. Cardinality({j \in Seen(q) : j < f}) = q.pending /\ q.pending < ExpiryBars
    BY <2>3, <2>6
  <2>9. OnePass(q)
    BY <1>11, <2>1, <2>2, <2>6, <2>7, <2>8 DEF OnePass
  <2> QED
    BY <1>1, <1>3, <2>6, <2>9 DEF Pass, q
<1> QED
  BY <1>1, <1>12, <1>13, <1>14 DEF Active

LEMMA PassSame ==
  ASSUME feed' = feed
  PROVE  /\ \A r : Pass(r)' <=> Pass(r)
         /\ \A t : Passing(t)' <=> Passing(t)
<1>1. \A r : Seen(r)' = Seen(r)
  BY DEF Seen
<1>2. \A r : FillsSeen(r)' = FillsSeen(r)
  BY <1>1 DEF FillsSeen
<1>3. \A r, f : ExitsSeen(r, f)' = ExitsSeen(r, f)
  BY <1>1 DEF ExitsSeen
<1>4. \A r : OnePass(r)' <=> OnePass(r)
  BY <1>1, <1>2, <1>3 DEF OnePass
<1>5. \A r : Pass(r)' <=> Pass(r)
  BY <1>4 DEF Pass
<1> QED
  BY <1>5 DEF Passing

(* One task goes on, and what it holds is still what one pass gives.       *)
LEMMA PassMoves ==
  ASSUME TypeOK, PassInv, feed' = feed, rows' = rows,
         NEW p \in Tasks, NEW t, Passing(t), task' = [task EXCEPT ![p] = t]
  PROVE  PassInv'
<1>1. \A q \in Tasks : Passing(task'[q])
  BY DEF PassInv, TypeOK, TasksTyped
<1>2. \A s \in Sims : rows'[s] # None => Pass(rows'[s])
  BY DEF PassInv
<1> QED
  BY <1>1, <1>2, PassSame DEF PassInv

LEMMA IdlePassing ==
  ASSUME Len(feed) \in Nat
  PROVE  Passing(IdleTask)
  BY DEF Passing, IdleTask, Locked

LEMMA PassReleased ==
  ASSUME TypeOK, PassInv, feed' = feed, rows' = rows, NEW p \in Tasks, Release(p)
  PROVE  PassInv'
<1> DEFINE t == IF task[p].ids = {} THEN IdleTask
                ELSE [IdleTask EXCEPT !.pc = "cycle", !.ids = task[p].ids]
<1>1. Len(feed) \in Nat
  BY DEF TypeOK
<1>2. Passing(t)
  BY <1>1 DEF Passing, IdleTask, Locked
<1>3. task' = [task EXCEPT ![p] = t]
  BY DEF Release
<1> HIDE DEF t
<1> QED
  BY <1>2, <1>3, PassMoves

(* The loop: chunk after chunk, no bar is skipped and none comes twice.    *)
LEMMA PassInLoop ==
  ASSUME TypeOK, PassInv, NEW p \in Tasks,
         LoadChunk(p) \/ LoadFails(p) \/ SimulateBar(p) \/ ChunkDone(p)
  PROVE  PassInv'
<1> DEFINE t == task[p]
           k == t.at + 1
<1>1. /\ t \in TaskRecord /\ t.row \in Row /\ t.now \in Nat /\ t.at \in Nat /\ t.upto \in Nat
      /\ Len(feed) \in Nat
  BY TaskTyped DEF TypeOK
<1>2. /\ t.pc \in {"load", "sim"} /\ t.pc \in Locked /\ feed' = feed /\ rows' = rows
      /\ Passing(t) /\ Pass(t.row) /\ t.now <= Len(feed)
  BY DEF LoadChunk, LoadFails, SimulateBar, ChunkDone, Locked, PassInv, Passing
<1>3. Passing(LeaveLoop(t))
  BY <1>1, <1>2 DEF LeaveLoop, Passing, TaskRecord
<1>4. CASE LoadChunk(p)
  <2> DEFINE u == [t EXCEPT !.pc = "sim", !.at = Since(t.row), !.upto = ChunkEnd(t), !.chunk = @ + 1]
  <2>1. /\ t.row.born \in Nat /\ t.row.thru \in Nat /\ t.row.first \in Nat
        /\ t.row.born < t.row.first /\ t.row.born <= Len(feed) /\ t.row.thru <= Len(feed)
    BY <1>1, <1>2 DEF Row, Pass
  <2>2. Since(t.row) \in Nat /\ Since(t.row) <= Len(feed)
    BY <2>1 DEF Since
  <2>3. \A j \in t.row.first .. Since(t.row) : ~(j > t.row.thru)
    BY <2>1 DEF Since
  <2>4. ChunkEnd(t) <= Len(feed)
    BY <1>1, <1>2, <2>2, LimitAssumption DEF ChunkEnd
  <2>5. /\ u.pc = "sim" /\ u.at = Since(t.row) /\ u.upto = ChunkEnd(t) /\ u.row = t.row /\ u.now = t.now
    BY <1>1 DEF TaskRecord
  <2>6. task' = [task EXCEPT ![p] = u]
    BY <1>4 DEF LoadChunk, Goto
  <2> HIDE DEF u
  <2>7. Passing(u)
    BY <1>2, <2>2, <2>3, <2>4, <2>5 DEF Passing
  <2> QED
    BY <1>2, <2>6, <2>7, PassMoves
<1>5. CASE LoadFails(p)
  BY <1>2, <1>3, <1>5, PassMoves DEF LoadFails, Goto
<1>6. CASE SimulateBar(p)
  <2> DEFINE r == StepRow(t.row, feed[k], k)
             v == [t EXCEPT !.at = k, !.row = r, !.evs = @ \o StepEvents(t.row, feed[k])]
             w == [t EXCEPT !.at = k]
             u == IF Eligible(t.row, k) THEN v ELSE w
  <2>1. /\ t.pc = "sim" /\ t.row.status \in Active /\ t.at < t.upto /\ t.upto <= Len(feed)
        /\ \A j \in t.row.first .. t.at : j > t.row.thru => feed[j] = NoBar
    BY <1>2, <1>6 DEF SimulateBar, Passing
  <2>2. k \in 1 .. Len(feed) /\ k - 1 = t.at /\ k \in Nat
    <3>1. \A a, b, n \in Nat : a < b /\ b <= n => a + 1 \in 1 .. n /\ (a + 1) - 1 = a /\ a + 1 \in Nat
      OBVIOUS
    <3> QED
      BY <1>1, <2>1, <3>1
  <2>3. task' = [task EXCEPT ![p] = u]
    BY <1>6 DEF SimulateBar, Goto
  <2>4. Eligible(t.row, k) => Pass(r) /\ r.thru = k
    <3>1. t.row \in Row /\ Len(feed) \in Nat /\ Pass(t.row)
      BY <1>1, <1>2
    <3>2. \A j \in t.row.first .. k - 1 : j > t.row.thru => feed[j] = NoBar
      BY <2>1, <2>2
    <3> HIDE DEF k, t
    <3> QED
      BY <2>1, <2>2, <3>1, <3>2, StepPass, StepFields
  <2>5. /\ v.pc = "sim" /\ v.at = k /\ v.upto = t.upto /\ v.row = r /\ v.now = t.now
        /\ w.pc = "sim" /\ w.at = k /\ w.upto = t.upto /\ w.row = t.row /\ w.now = t.now
    BY <1>1, <2>1 DEF TaskRecord
  <2> HIDE DEF r, v, w
  <2>6. Eligible(t.row, k) => Passing(v)
    BY <1>2, <2>1, <2>2, <2>4, <2>5 DEF Passing
  <2>7. ~Eligible(t.row, k) => Passing(w)
    <3>1. ASSUME ~Eligible(t.row, k), NEW j \in t.row.first .. k, j > t.row.thru
          PROVE  feed[j] = NoBar
      <4>1. t.row.first \in Nat /\ j \in Int /\ t.row.first <= j /\ j <= k
        BY <1>1, <2>2 DEF Row
      <4>2. CASE j = k
        BY <2>1, <3>1, <4>1, <4>2 DEF Eligible
      <4>3. CASE j # k
        <5>1. j \in t.row.first .. t.at
          BY <2>2, <4>1, <4>3
        <5> QED
          BY <2>1, <3>1, <5>1
      <4> QED
        BY <4>2, <4>3
    <3> QED
      BY <1>2, <2>1, <2>2, <2>5, <3>1 DEF Passing
  <2>8. Passing(u)
    BY <2>6, <2>7
  <2> HIDE DEF u
  <2> QED
    BY <1>2, <2>3, <2>8, PassMoves
<1>7. CASE ChunkDone(p)
  <2> DEFINE u == [t EXCEPT !.pc = "load"]
  <2>1. Passing(u)
    BY <1>1, <1>2 DEF Passing, TaskRecord
  <2> HIDE DEF u
  <2>2. task' = [task EXCEPT ![p] = u] \/ task' = [task EXCEPT ![p] = LeaveLoop(t)]
    BY <1>7 DEF ChunkDone, Goto, u
  <2> QED
    BY <1>2, <1>3, <2>1, <2>2, PassMoves
<1> QED
  BY <1>4, <1>5, <1>6, <1>7

(* Storing and the events of close_now and cancel.                         *)
LEMMA PassStored ==
  ASSUME Inv, PassInv, NEW p \in Tasks,
         CountEvents(p) \/ StoreAdvance(p) \/ Reread(p) \/ Reload(p)
  PROVE  PassInv'
<1> DEFINE t == task[p]
<1>1. /\ TypeOK /\ t \in TaskRecord /\ t.row \in Row /\ t.now \in Nat /\ Len(feed) \in Nat
      /\ HandoverOf(t, p)
  BY TaskTyped DEF Inv, Handover, TypeOK
<1>2. /\ t.pc \in {"count", "store", "reread", "reload"} /\ t.pc \in Locked /\ feed' = feed
      /\ t.pc # "sim" /\ t.sim \in Sims
  BY <1>1, TaskTyped DEF CountEvents, StoreAdvance, Reread, Reload, Locked
<1>3. Passing(t) /\ Pass(t.row) /\ t.now <= Len(feed)
  BY <1>2 DEF PassInv, Passing
<1>4. CASE CountEvents(p)
  <2> DEFINE u == [t EXCEPT !.pc = "store", !.seq = Len(log[t.sim])]
  <2>1. Passing(u)
    BY <1>1, <1>3 DEF Passing, TaskRecord
  <2> HIDE DEF u
  <2>2. task' = [task EXCEPT ![p] = u] /\ rows' = rows
    BY <1>4 DEF CountEvents, Goto, u
  <2> QED
    BY <1>1, <1>2, <2>1, <2>2, PassMoves
<1>5. CASE StoreAdvance(p)
  <2> DEFINE u == [t EXCEPT !.pc = "reread", !.evs = <<>>]
             v == IF task[p].ids = {} THEN IdleTask
                  ELSE [IdleTask EXCEPT !.pc = "cycle", !.ids = task[p].ids]
  <2>1. Passing(u)
    BY <1>1, <1>3 DEF Passing, TaskRecord
  <2>2. Passing(v)
    BY <1>1 DEF Passing, IdleTask, Locked
  <2>3. task' = [task EXCEPT ![p] = u] \/ task' = [task EXCEPT ![p] = v]
    BY <1>5 DEF StoreAdvance, Goto, Release
  <2> HIDE DEF u, v
  <2>4. \A q \in Tasks : Passing(task'[q])
    BY <1>1, <2>1, <2>2, <2>3 DEF PassInv, TypeOK, TasksTyped
  <2>5. \A s \in Sims : rows'[s] = rows[s] \/ (s = t.sim /\ rows'[s] = t.row)
    BY <1>1, <1>2, <1>5 DEF StoreAdvance, TypeOK
  <2>6. \A s \in Sims : rows'[s] # None => Pass(rows'[s])
    BY <1>3, <2>5 DEF PassInv
  <2> QED
    BY <1>2, <2>4, <2>6, PassSame DEF PassInv
<1>6. CASE Reread(p)
  <2> DEFINE u == [t EXCEPT !.pc = "reload", !.base = rows[t.sim].status]
             r == [t.row EXCEPT !.status = "CANCELLED"]
             v == [t EXCEPT !.pc = "count", !.op = "finish", !.base = rows[t.sim].status,
                            !.row = r, !.evs = <<"CANCELLED">>]
  <2>1. Continues(t)
    BY <1>1, <1>2, <1>6 DEF Reread, HandoverOf
  <2>2. u.pc = "reload" /\ u.row = t.row /\ u.now = t.now
    BY <1>1 DEF TaskRecord
  <2>3. v.pc = "count" /\ v.row = r /\ v.now = t.now
    BY <1>1 DEF TaskRecord
  <2>4. t.op = "cancel" => Pass(r)
    <3> SUFFICES ASSUME t.op = "cancel"
                 PROVE  Pass(r)
      OBVIOUS
    <3>1. t.row.status = "PENDING"
      BY <2>1 DEF Continues
    <3>2. /\ r.entry = t.row.entry /\ r.first = t.row.first /\ r.thru = t.row.thru /\ r.born = t.row.born
          /\ r.pending = t.row.pending /\ r.status = "CANCELLED"
      BY <1>1 DEF Row
    <3> HIDE DEF r
    <3>3. Seen(r) = Seen(t.row)
      BY <3>2 DEF Seen
    <3>4. FillsSeen(r) = FillsSeen(t.row)
      BY <3>2, <3>3 DEF FillsSeen, Fills
    <3>5. OnePass(r)
      BY <1>3, <3>1, <3>2, <3>3, <3>4 DEF Pass, OnePass
    <3> QED
      BY <1>3, <3>2, <3>5 DEF Pass
  <2>5. /\ rows' = rows
        /\ \/ Release(p) \/ task' = [task EXCEPT ![p] = u]
           \/ t.op = "cancel" /\ task' = [task EXCEPT ![p] = v]
    BY <1>6 DEF Reread, Goto
  <2> HIDE DEF r, u, v
  <2>6. Passing(u)
    BY <1>3, <2>2 DEF Passing
  <2>7. t.op = "cancel" => Passing(v)
    BY <1>3, <2>3, <2>4 DEF Passing
  <2> QED
    BY <1>1, <1>2, <2>5, <2>6, <2>7, PassMoves, PassReleased
<1>7. CASE Reload(p)
  <2> DEFINE r == [t.row EXCEPT !.status = "CLOSED", !.reason = "MANUAL"]
             u == [t EXCEPT !.pc = "count", !.op = "finish", !.evs = <<"CLOSED_MANUALLY">>, !.row = r]
  <2>1. t.row.status = "OPEN"
    BY <1>1, <1>2, <1>7 DEF Reload, HandoverOf
  <2>2. u.pc = "count" /\ u.row = r /\ u.now = t.now
    BY <1>1 DEF TaskRecord
  <2>3. Pass(r)
    <3>1. /\ r.entry = t.row.entry /\ r.first = t.row.first /\ r.thru = t.row.thru /\ r.born = t.row.born
          /\ r.pending = t.row.pending /\ r.status = "CLOSED" /\ r.reason = "MANUAL"
      BY <1>1 DEF Row
    <3> HIDE DEF r
    <3>2. Seen(r) = Seen(t.row)
      BY <3>1 DEF Seen
    <3>3. FillsSeen(r) = FillsSeen(t.row)
      BY <3>1, <3>2 DEF FillsSeen, Fills
    <3>4. \A f : ExitsSeen(r, f) = ExitsSeen(t.row, f)
      BY <3>1, <3>2 DEF ExitsSeen
    <3>5. OnePass(r)
      BY <1>3, <2>1, <3>1, <3>2, <3>3, <3>4 DEF Pass, OnePass
    <3> QED
      BY <1>3, <3>1, <3>5 DEF Pass
  <2>4. rows' = rows /\ (Release(p) \/ task' = [task EXCEPT ![p] = u])
    BY <1>7 DEF Reload, Goto
  <2> HIDE DEF r, u
  <2>5. Passing(u)
    BY <1>3, <2>2, <2>3 DEF Passing
  <2> QED
    BY <1>1, <1>2, <2>4, <2>5, PassMoves, PassReleased
<1> QED
  BY <1>4, <1>5, <1>6, <1>7

(* A new sim has seen nothing and waits for bars that open after it.       *)
LEMMA PassNew ==
  ASSUME NEW e \in {"MARKET", "LIMIT"}, NEW b \in Nat, NEW f \in {1, 2}, b <= Len(feed), Len(feed) \in Nat,
         NEW r, r = [NoSimRow EXCEPT !.entry = e, !.born = b, !.first = b + f]
  PROVE  Pass(r)
<1>1. /\ r.born = b /\ r.first = b + f /\ r.thru = 0 /\ r.pending = 0 /\ r.status = "PENDING"
  BY DEF NoSimRow
<1>2. r.first .. r.thru = {}
  BY <1>1
<1>3. Seen(r) = {}
  BY <1>2 DEF Seen
<1>4. FillsSeen(r) = {} /\ Cardinality(Seen(r)) = 0
  BY <1>3, FS_EmptySet DEF FillsSeen
<1>5. 0 < ExpiryBars /\ 0 # ExpiryBars
  BY LimitAssumption
<1>6. OnePass(r)
  BY <1>1, <1>4, <1>5 DEF OnePass
<1>7. Pass(r)
  BY <1>1, <1>5, <1>6 DEF Pass
<1> QED
  BY <1>7

LEMMA PassRequested ==
  ASSUME TypeOK, PassInv, NEW p \in Tasks,
         CreateCheck(p) \/ CreateInsert(p) \/ AdvanceAll(p) \/ TaskFails(p)
  PROVE  PassInv'
<1>1. Len(feed) \in Nat /\ task[p].now \in Nat /\ Passing(IdleTask)
  BY TaskTyped, IdlePassing DEF TypeOK
<1>2. CASE CreateCheck(p)
  <2> DEFINE u == [IdleTask EXCEPT !.pc = "create", !.now = Len(feed)]
  <2>1. Passing(u)
    BY <1>1 DEF Passing, IdleTask, Locked
  <2>2. task' = [task EXCEPT ![p] = u] /\ UNCHANGED <<feed, rows>>
    BY <1>2 DEF CreateCheck, Goto
  <2> HIDE DEF u
  <2> QED
    BY <2>1, <2>2, PassMoves
<1>3. CASE AdvanceAll(p)
  <2> PICK ids \in SUBSET Sims : Goto(p, [IdleTask EXCEPT !.pc = "cycle", !.ids = ids])
    BY Zenon, <1>3 DEF AdvanceAll
  <2> DEFINE u == [IdleTask EXCEPT !.pc = "cycle", !.ids = ids]
  <2>1. Passing(u)
    BY <1>1 DEF Passing, IdleTask, Locked
  <2>2. task' = [task EXCEPT ![p] = u]
    BY DEF Goto
  <2>3. UNCHANGED <<feed, rows>>
    BY Zenon, <1>3 DEF AdvanceAll
  <2> HIDE DEF u
  <2> QED
    BY <2>1, <2>2, <2>3, PassMoves
<1>4. CASE TaskFails(p)
  BY <1>4, PassReleased DEF TaskFails
<1>5. CASE CreateInsert(p)
  <2> PICK s \in Sims \ used, e \in {"MARKET", "LIMIT"}, f \in {1, 2} :
        rows' = [rows EXCEPT ![s] = [NoSimRow EXCEPT !.entry = e, !.born = task[p].now,
                                                     !.first = task[p].now + f]]
    BY <1>5 DEF CreateInsert
  <2> DEFINE r == [NoSimRow EXCEPT !.entry = e, !.born = task[p].now, !.first = task[p].now + f]
  <2>1. task[p].now <= Len(feed)
    BY DEF PassInv, Passing
  <2>2. Pass(r)
    BY Zenon, <1>1, <2>1, PassNew
  <2>3. rows' = [rows EXCEPT ![s] = r]
    OBVIOUS
  <2> HIDE DEF r
  <2>4. \A x \in Sims : rows'[x] # None => Pass(rows'[x])
    BY <2>2, <2>3 DEF PassInv, TypeOK
  <2>5. task' = [task EXCEPT ![p] = IdleTask] /\ feed' = feed
    BY <1>5 DEF CreateInsert, Goto
  <2>6. \A q \in Tasks : Passing(task'[q])
    BY <1>1, <2>5 DEF PassInv, TypeOK, TasksTyped
  <2> QED
    BY <2>4, <2>5, <2>6, PassSame DEF PassInv
<1> QED
  BY <1>2, <1>3, <1>4, <1>5

LEMMA PassBegun ==
  ASSUME TypeOK, PassInv, NEW p \in Tasks, NEW s \in Sims, NEW op, NEW ids,
         IsActive(s), Begin(p, s, op, ids), UNCHANGED <<feed, rows>>
  PROVE  PassInv'
<1> DEFINE u == [IdleTask EXCEPT !.pc = "load", !.op = op, !.ids = ids, !.sim = s, !.row = rows[s],
                                !.base = rows[s].status, !.now = Len(feed)]
<1>1. Len(feed) \in Nat /\ Pass(rows[s])
  BY DEF TypeOK, PassInv, IsActive
<1>2. u.pc = "load" /\ u.row = rows[s] /\ u.now = Len(feed)
  BY DEF IdleTask
<1>3. task' = [task EXCEPT ![p] = u]
  BY DEF Begin, Goto
<1> HIDE DEF u
<1>4. Passing(u)
  BY <1>1, <1>2 DEF Passing
<1> QED
  BY <1>3, <1>4, PassMoves

LEMMA PassStep == Inv /\ PassInv /\ [Next]_vars => PassInv'
<1> SUFFICES ASSUME Inv, PassInv, [Next]_vars
             PROVE  PassInv'
  OBVIOUS
<1>1. TypeOK /\ Len(feed) \in Nat
  BY DEF Inv, TypeOK
<1>2. CASE BarCloses
  <2> PICK b \in Bars \cup {NoBar} : feed' = Append(feed, b)
    BY <1>2 DEF BarCloses
  <2>1. feed \in Seq(Bars \cup {NoBar})
    BY <1>1 DEF TypeOK
  <2>2. Len(feed') = Len(feed) + 1 /\ \A k \in 1 .. Len(feed) : feed'[k] = feed[k]
    BY <2>1, AppendProperties
  <2>3. \A r \in Row : Pass(r) => Pass(r)'
    BY <1>1, <2>2, PassLasts
  <2>4. UNCHANGED <<rows, task>>
    BY <1>2 DEF BarCloses
  <2>5. \A s \in Sims : rows'[s] # None => Pass(rows[s])'
    BY <1>1, <2>3, <2>4 DEF PassInv, TypeOK
  <2>6. ASSUME NEW q \in Tasks
        PROVE  Passing(task[q])'
    <3> DEFINE t == task[q]
    <3>1. t.row \in Row /\ t.now \in Nat /\ t.at \in Nat /\ t.upto \in Nat /\ t.row.first \in Nat
            /\ t.row.born \in Nat
      BY <1>1, TaskTyped DEF Row
    <3>2. Passing(t)
      BY DEF PassInv
    <3>3. t.pc \in Locked => Pass(t.row)'
      BY <2>3, <2>4, <3>1, <3>2 DEF Passing
    <3>4. t.now <= Len(feed') /\ (t.pc = "sim" => t.upto <= Len(feed') /\ t.at <= Len(feed'))
      BY <1>1, <2>2, <3>1, <3>2 DEF Passing
    <3>5. t.pc = "sim" => \A k \in t.row.first .. t.at : k > t.row.thru => feed'[k] = NoBar
      <4> SUFFICES ASSUME t.pc = "sim", NEW k \in t.row.first .. t.at, k > t.row.thru
                   PROVE  feed'[k] = NoBar
        OBVIOUS
      <4>1. t.row.born < t.row.first /\ t.at <= Len(feed) /\ feed[k] = NoBar
        BY <3>2 DEF Passing, Pass, Locked
      <4>2. k \in Int /\ k >= t.row.first /\ k <= t.at
        BY <3>1
      <4>3. k \in 1 .. Len(feed)
        <5>1. \A w, x, y, z \in Nat, i \in Int : w < x /\ i >= x /\ i <= y /\ y <= z => i \in 1 .. z
          OBVIOUS
        <5> QED
          BY <1>1, <3>1, <4>1, <4>2, <5>1
      <4> QED
        BY <2>2, <4>1, <4>3
    <3>6. task' = task
      BY <2>4
    <3> QED
      BY <3>3, <3>4, <3>5, <3>6 DEF Passing
  <2> QED
    BY <2>4, <2>5, <2>6 DEF PassInv
<1>3. CASE UNCHANGED <<feed, rows, task>>
  BY <1>3, PassSame DEF PassInv
<1>4. CASE Restart
  <2>1. \A q \in Tasks : task'[q] = IdleTask
    BY <1>4 DEF Restart
  <2>2. UNCHANGED <<feed, rows>>
    BY <1>4 DEF Restart
  <2>3. Passing(IdleTask)
    BY <1>1, IdlePassing
  <2> QED
    BY <2>1, <2>2, <2>3, PassSame DEF PassInv
<1>5. ASSUME NEW s \in Sims, RecordAltered(s)
      PROVE  PassInv'
  BY <1>3, <1>5 DEF RecordAltered
<1>6. ASSUME NEW s \in Sims, Delete(s)
      PROVE  PassInv'
  <2>1. UNCHANGED <<feed, task>> /\ \A x \in Sims : rows'[x] \in {rows[x], None}
    BY <1>1, <1>6 DEF Delete, TypeOK
  <2> QED
    BY <2>1, PassSame DEF PassInv
<1>7. ASSUME NEW p \in Tasks, CreateCheck(p) \/ CreateInsert(p) \/ AdvanceAll(p) \/ TaskFails(p)
      PROVE  PassInv'
  BY <1>1, <1>7, PassRequested
<1>8. ASSUME NEW p \in Tasks, WorkStep(p)
      PROVE  PassInv'
  BY <1>1, <1>8, PassInLoop, PassStored, TooNewFails DEF WorkStep, Works
<1>9. ASSUME NEW p \in Tasks, NEW s \in Sims, CloseNow(p, s) \/ Cancel(p, s)
      PROVE  PassInv'
  BY <1>1, <1>9, PassBegun DEF CloseNow, Cancel, UserAction
<1>10. ASSUME NEW p \in Tasks, NEW s \in Sims, Advance(p, s)
       PROVE  PassInv'
  <2>1. CASE IsActive(s) /\ Begin(p, s, "advance", task[p].ids \ {s})
    BY <1>1, <1>10, <2>1, PassBegun DEF Advance
  <2>2. CASE ~(IsActive(s) /\ Begin(p, s, "advance", task[p].ids \ {s}))
    <3> DEFINE u == [task[p] EXCEPT !.ids = @ \ {s},
                                    !.pc = IF task[p].ids \subseteq {s} THEN "idle" ELSE "cycle"]
    <3>1. task[p] \in TaskRecord /\ task[p].now <= Len(feed)
      BY <1>1, TaskTyped DEF PassInv, Passing
    <3>2. Passing(u)
      BY <3>1 DEF Passing, TaskRecord, Locked
    <3>3. task' = [task EXCEPT ![p] = u] /\ UNCHANGED <<feed, rows>>
      BY <1>10, <2>2 DEF Advance, Goto
    <3> HIDE DEF u
    <3> QED
      BY <1>1, <3>2, <3>3, PassMoves
  <2> QED
    BY <2>1, <2>2
<1>11. CASE UNCHANGED vars
  BY <1>3, <1>11 DEF vars
<1> QED
  BY <1>2, <1>4, <1>5, <1>6, <1>7, <1>8, <1>9, <1>10, <1>11 DEF Next

(* However the bars were loaded in chunks, retried after failures and      *)
(* restarts, and interleaved with requests, every stored sim is what one   *)
(* pass over its bars gives.                                               *)
THEOREM StoredIsOnePass == Spec => []SimulatedInOnePass
<1>1. Init => PassInv
  <2> SUFFICES ASSUME Init
               PROVE  PassInv
    OBVIOUS
  <2>1. Len(feed) \in Nat
    BY DEF Init
  <2> QED
    BY <2>1, IdlePassing DEF Init, PassInv
<1>2. PassInv => SimulatedInOnePass
  BY DEF PassInv, Pass, SimulatedInOnePass
<1> QED
  BY <1>1, <1>2, InvHolds, PassStep, PTL DEF Spec
=============================================================================
