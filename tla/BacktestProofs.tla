--------------------------- MODULE BacktestProofs ---------------------------
(***************************************************************************)
(* Proofs about BacktestRuns, for any number of runs and every market.     *)
(***************************************************************************)
EXTENDS BacktestRuns, FiniteSetTheorems, SequenceTheorems, WellFoundedInduction, TLAPS

-----------------------------------------------------------------------------
(* The inductive invariant.                                                *)

(* A row that ended with a result says so in all its fields at once.       *)
RowSound(row) ==
  /\ row = [status |-> row.status, done |-> row.done, hashed |-> row.hashed, result |-> row.result]
  /\ row.status \in ACTIVE \cup Ended /\ row.done \in 0 .. Steps
  /\ row.hashed = (row.result # <<>>)
  /\ row.hashed => row.status = "COMPLETED"

(* Results are what is appended; one that is complete has some.            *)
ReplaySound(w) ==
  /\ w = [bars |-> w.bars, run |-> w.run, results |-> w.results]
  /\ w.results \in Seq(Range(w.results))

(* An id is for one run: its row appears once, before its task.            *)
Begun(r) ==
  /\ r \notin drawn => rows[r] = None /\ start[r] = "none" /\ task[r] = "none"
  /\ start[r] # "none" => task[r] = "none"
  /\ start[r] = "checked" => rows[r] = None
  /\ start[r] = "inserted" => rows[r] = None \/ rows[r].status \in ACTIVE

(* Where the task is tells how far the replay and the row are.             *)
Worked(r) ==
  /\ task[r] \in {"none", "begin", "load"} => done[r] = 0
  /\ task[r] = "work" => done[r] < Steps
  /\ task[r] = "complete" => done[r] = Steps /\ replay[r].results # <<>>
  /\ task[r] \in {"begin", "load", "work", "complete"} => rows[r] = None \/ rows[r].status \in ACTIVE
  /\ task[r] \in {"failed", "cancelled"} => rows[r] = None \/ rows[r].status \in ACTIVE \/ rows[r].hashed
  /\ task[r] = "cancelled" => r \in cancel

Stored ==
  /\ range \in DOMAIN Markets
  /\ rows = [r \in Runs |-> rows[r]] /\ replay = [r \in Runs |-> replay[r]]
  /\ \A r \in Runs : rows[r] = None \/ RowSound(rows[r])
  /\ \A r \in Runs : ReplaySound(replay[r])

IInv == MemoryIsLive /\ Stored /\ \A r \in Runs : Begun(r) /\ Worked(r)

-----------------------------------------------------------------------------
(* The last candle of a run is the last of its last variant.               *)
LEMMA LastOfAll ==
  ASSUME NEW c \in Nat \ {0}, NEW v \in Nat \ {0}
  PROVE  c * v \in Nat \ {0} /\ 1 + ((c * v - 1) % c) = c
<1> DEFINE m == (c * v - 1) % c
           q == (c * v - 1) \div c
<1>1. c * v \in Nat /\ c * v >= c
  <2>1. v >= 1 /\ c >= 1
    OBVIOUS
  <2>2. v - 1 \in Nat /\ c * (v - 1) \in Nat
    BY <2>1
  <2>3. c * v = c * (v - 1) + c
    OBVIOUS
  <2> QED
    BY <2>2, <2>3
<1>2. c * v - 1 \in Nat
  BY <1>1
<1>3. m \in 0 .. c - 1 /\ q \in Int /\ c * v - 1 = c * q + m
  BY <1>2
<1> HIDE DEF m, q
<1>4. c * (v - q) = m + 1
  BY <1>3
<1>5. v - q = 1
  <2>1. v - q \in Int
    BY <1>3
  <2>2. CASE v - q <= 0
    <3>1. c * (v - q) <= 0
      BY <2>1, <2>2
    <3> QED
      BY <1>3, <1>4, <3>1
  <2>3. CASE v - q >= 2
    <3>1. c * (v - q) >= c * 2
      BY <2>1, <2>3
    <3> QED
      BY <1>3, <1>4, <3>1
  <2> QED
    BY <2>1, <2>2, <2>3
<1>6. c * 1 = c
  OBVIOUS
<1>7. m + 1 = c
  BY <1>4, <1>5, <1>6
<1> QED
  BY <1>1, <1>3, <1>7 DEF m

LEMMA StepsAre ==
  ASSUME IInv
  PROVE  /\ Candles \in Nat /\ Steps \in Nat /\ (Candles > 0 <=> Steps > 0)
         /\ Steps > 0 => 1 + ((Steps - 1) % Candles) = Candles
<1>1. Candles \in Nat /\ Len(market.variants) \in Nat \ {0}
  BY RunsAssumption DEF IInv, Stored, Candles, market
<1>2. CASE Candles = 0
  BY <1>1, <1>2 DEF Steps
<1>3. CASE Candles \in Nat \ {0}
  <2>1. Steps \in Nat \ {0} /\ 1 + ((Steps - 1) % Candles) = Candles
    BY <1>1, <1>3, LastOfAll DEF Steps
  <2> QED
    BY <1>3, <2>1
<1> QED
  BY <1>1, <1>2, <1>3

LEMMA AppendGrows ==
  ASSUME NEW s, s \in Seq(Range(s)), NEW e
  PROVE  Append(s, e) \in Seq(Range(Append(s, e))) /\ Append(s, e) # <<>>
<1> DEFINE S == Range(s) \cup {e}
           a == Append(s, e)
<1>1. s \in Seq(S) /\ Len(s) \in Nat
  <2>1. Range(s) \subseteq S
    OBVIOUS
  <2> HIDE DEF S
  <2>2. \A T, U : T \subseteq U => \A z \in Seq(T) : z \in Seq(U) /\ Len(z) \in Nat
    OBVIOUS
  <2> QED
    BY <2>1, <2>2
<1>2. a \in Seq(S) /\ Len(a) = Len(s) + 1
  BY <1>1
<1>3. DOMAIN a = 1 .. Len(a)
  BY <1>2
<1>4. \A i \in 1 .. Len(a) : a[i] \in Range(a)
  BY <1>3 DEF Range
<1> HIDE DEF S
<1>5. a = [i \in 1 .. Len(a) |-> a[i]]
  <2> HIDE DEF a
  <2>1. \E n \in Nat : a \in [1 .. n -> S]
    <3>1. a \in Seq(S)
      BY <1>2
    <3>2. a \in UNION {[1 .. n -> S] : n \in Nat}
      BY <3>1, SeqDef, Zenon
    <3> QED
      BY <3>2
  <2>2. PICK n \in Nat : a \in [1 .. n -> S]
    BY <2>1
  <2>3. a = [i \in 1 .. n |-> a[i]] /\ 1 .. n = 1 .. Len(a)
    BY <1>3, <2>2
  <2> QED
    BY <2>3
<1> HIDE DEF a
<1>6. Len(a) \in Nat
  BY <1>1, <1>2
<1>7. a \in Seq(Range(a))
  BY <1>4, <1>5, <1>6, SeqDef
<1>8. a # <<>>
  BY <1>1, <1>2
<1> QED
  BY <1>7, <1>8 DEF a

-----------------------------------------------------------------------------
(* What an action does to one run.                                         *)
Places == {"none", "begin", "load", "work", "complete", "failed", "cancelled", "clean"}

(* The other runs are where they were.                                     *)
Same(q) ==
  /\ rows'[q] = rows[q] /\ start'[q] = start[q] /\ task'[q] = task[q]
  /\ done'[q] = done[q] /\ replay'[q] = replay[q]
  /\ (q \in drawn' <=> q \in drawn) /\ (q \in cancel => q \in cancel')

LEMMA OneRun ==
  ASSUME IInv, NEW r \in Runs, range' = range,
         \A q \in Runs : q # r => Same(q),
         rows' = [q \in Runs |-> rows'[q]], replay' = [q \in Runs |-> replay'[q]],
         rows'[r] = None \/ RowSound(rows'[r]), ReplaySound(replay'[r]),
         drawn' \subseteq Runs, deleting' \subseteq Runs, running' \in Runs \cup {None},
         start' \in [Runs -> {"none", "checked", "inserted"}], task' \in [Runs -> Places],
         done' \in [Runs -> 0 .. Steps], asked' \in [Runs -> ACTIVE \cup Ended \cup {None}],
         running' \in Executing' \cup {None}, cancel' \subseteq Executing',
         Begun(r)', Worked(r)'
  PROVE  IInv'
<1>1. Steps' = Steps /\ range' \in DOMAIN Markets
  BY DEF Steps, Candles, market, IInv, Stored
<1>2. \A q \in Runs : rows'[q] = None \/ RowSound(rows'[q])
  BY DEF IInv, Stored, Same
<1>3. \A q \in Runs : ReplaySound(replay'[q])
  BY DEF IInv, Stored, Same
<1>4. Stored'
  BY <1>1, <1>2, <1>3 DEF Stored, RowSound, ReplaySound
<1>5. TypeOK'
  BY <1>1, <1>2 DEF TypeOK, RowSound, Places
<1>6. \A q \in Runs : Begun(q)' /\ Worked(q)'
  <2> SUFFICES ASSUME NEW q \in Runs, q # r PROVE Begun(q)' /\ Worked(q)'
    OBVIOUS
  <2>1. Begun(q) /\ Worked(q) /\ Same(q)
    BY DEF IInv
  <2> QED
    BY <1>1, <2>1 DEF Begun, Worked, Same
<1> QED
  BY <1>4, <1>5, <1>6 DEF IInv, MemoryIsLive

(* What is known of a run.                                                 *)
LEMMA RunIs ==
  ASSUME IInv, NEW r \in Runs
  PROVE  /\ rows[r] = None \/ RowSound(rows[r])
         /\ ReplaySound(replay[r]) /\ Begun(r) /\ Worked(r)
         /\ rows = [q \in Runs |-> rows[q]] /\ replay = [q \in Runs |-> replay[q]]
         /\ drawn \subseteq Runs /\ deleting \subseteq Runs /\ running \in Runs \cup {None}
         /\ start \in [Runs -> {"none", "checked", "inserted"}] /\ task \in [Runs -> Places]
         /\ done \in [Runs -> 0 .. Steps] /\ asked \in [Runs -> ACTIVE \cup Ended \cup {None}]
         /\ running \in Executing \cup {None} /\ cancel \subseteq Executing
BY DEF IInv, Stored, MemoryIsLive, TypeOK, Places

-----------------------------------------------------------------------------
(* start, cancel and delete                                                *)
LEMMA StartChecksKeeps == ASSUME IInv, NEW r \in Runs, StartChecks(r) PROVE IInv'
<1>1. /\ r \notin drawn /\ drawn' = drawn \cup {r} /\ start' = [start EXCEPT ![r] = "checked"]
      /\ UNCHANGED <<rows, running, cancel, task, range, done, replay, asked, deleting>>
  BY DEF StartChecks, work
<1>2. \A q \in Runs : q # r => Same(q)
  BY <1>1, RunIs DEF Same
<1>3. Begun(r)' /\ Worked(r)'
  BY <1>1, RunIs DEF Begun, Worked, Steps, Candles, market
<1> QED
  BY <1>1, <1>2, <1>3, RunIs, OneRun DEF Executing

LEMMA StartInsertsKeeps == ASSUME IInv, NEW r \in Runs, StartInserts(r) PROVE IInv'
<1>1. /\ start[r] = "checked" /\ rows' = [rows EXCEPT ![r] = Queued]
      /\ start' = [start EXCEPT ![r] = "inserted"]
      /\ UNCHANGED <<drawn, running, cancel, task, range, done, replay, asked, deleting>>
  BY DEF StartInserts, work
<1>2. \A q \in Runs : q # r => Same(q)
  BY <1>1, RunIs DEF Same
<1>3. RowSound(Queued) /\ Queued.status \in ACTIVE
  <2>1. Queued = [status |-> "QUEUED", done |-> 0, hashed |-> FALSE, result |-> <<>>]
    BY DEF Queued
  <2>2. "QUEUED" \in ACTIVE /\ 0 \in 0 .. Steps
    BY StepsAre DEF ACTIVE
  <2> QED
    BY <2>1, <2>2 DEF RowSound
<1>4. rows'[r] = Queued /\ rows' = [q \in Runs |-> rows'[q]]
  BY <1>1, RunIs
<1>5. task[r] = "none" /\ r \in drawn
  BY <1>1, RunIs DEF Begun
<1>6. Begun(r)' /\ Worked(r)'
  BY <1>1, <1>3, <1>4, <1>5, RunIs DEF Begun, Worked, Steps, Candles, market
<1> QED
  BY <1>1, <1>2, <1>3, <1>4, <1>6, RunIs, OneRun DEF Executing

LEMMA StartFailsKeeps == ASSUME IInv, NEW r \in Runs, StartFails(r) PROVE IInv'
<1>1. /\ start[r] # "none" /\ start' = [start EXCEPT ![r] = "none"]
      /\ UNCHANGED <<rows, drawn, running, cancel, task, range, done, replay, asked, deleting>>
  BY DEF StartFails, work
<1>2. \A q \in Runs : q # r => Same(q)
  BY <1>1, RunIs DEF Same
<1>3. Begun(r)' /\ Worked(r)'
  BY <1>1, RunIs DEF Begun, Worked, Steps, Candles, market
<1> QED
  BY <1>1, <1>2, <1>3, RunIs, OneRun DEF Executing

LEMMA StartOwnsKeeps == ASSUME IInv, NEW r \in Runs, StartOwns(r) PROVE IInv'
<1>1. /\ start[r] = "inserted" /\ start' = [start EXCEPT ![r] = "none"] /\ running' = r
      /\ task' = [task EXCEPT ![r] = "begin"]
      /\ UNCHANGED <<rows, drawn, cancel, range, done, replay, asked, deleting>>
  BY DEF StartOwns, work
<1>2. \A q \in Runs : q # r => Same(q)
  BY <1>1, RunIs DEF Same
<1>3. task[r] = "none" /\ r \in drawn
  BY <1>1, RunIs DEF Begun
<1>4. task'[r] = "begin" /\ start'[r] = "none" /\ task' \in [Runs -> Places]
      /\ start' \in [Runs -> {"none", "checked", "inserted"}]
  BY <1>1, RunIs DEF Places
<1>5. Begun(r)' /\ Worked(r)'
  BY <1>1, <1>3, <1>4, RunIs DEF Begun, Worked, Steps, Candles, market
<1>6. running' \in Executing' /\ Executing \subseteq Executing'
  BY <1>1, <1>2, <1>3, <1>4 DEF Executing, Same
<1> QED
  BY <1>1, <1>2, <1>4, <1>5, <1>6, RunIs, OneRun

LEMMA CancelReadsKeeps == ASSUME IInv, NEW r \in Runs, CancelReads(r) PROVE IInv'
<1>1. /\ rows[r] # None /\ asked' = [asked EXCEPT ![r] = rows[r].status]
      /\ UNCHANGED <<rows, drawn, running, cancel, start, task, range, done, replay, deleting>>
  BY DEF CancelReads, work
<1>2. rows[r].status \in ACTIVE \cup Ended
  BY <1>1, RunIs DEF RowSound
<1>3. \A q \in Runs : q # r => Same(q)
  BY <1>1 DEF Same
<1>4. Begun(r)' /\ Worked(r)'
  BY <1>1, RunIs DEF Begun, Worked, Steps, Candles, market
<1>5. asked' \in [Runs -> ACTIVE \cup Ended \cup {None}]
  BY <1>1, <1>2, RunIs
<1> QED
  BY <1>1, <1>3, <1>4, <1>5, RunIs, OneRun DEF Executing

(* What an accepted cancel is for is running, so its task is alive.        *)
LEMMA CancelMarksKeeps == ASSUME IInv, NEW r \in Runs, CancelMarks(r) PROVE IInv'
<1>1. /\ asked[r] # None /\ asked' = [asked EXCEPT ![r] = None]
      /\ cancel' = IF Reported(r, asked[r]) \in ACTIVE THEN cancel \cup {r} ELSE cancel
      /\ UNCHANGED <<rows, drawn, running, start, task, range, done, replay, deleting>>
  BY DEF CancelMarks, work
<1>2. \A q \in Runs : q # r => Same(q)
  BY <1>1 DEF Same
<1>3. Begun(r)' /\ Worked(r)'
  BY <1>1, RunIs DEF Begun, Worked, Steps, Candles, market
<1>4. Executing' = Executing
  BY <1>1 DEF Executing
<1>5. Reported(r, asked[r]) \in ACTIVE => r = running
  BY DEF Reported, ACTIVE
<1>6. None # r
  BY RunsAssumption
<1>7. cancel' \subseteq Executing'
  BY <1>1, <1>4, <1>5, <1>6, RunIs
<1>8. asked' \in [Runs -> ACTIVE \cup Ended \cup {None}]
  BY <1>1, RunIs
<1> QED
  BY <1>1, <1>2, <1>3, <1>4, <1>7, <1>8, RunIs, OneRun

LEMMA DeleteChecksKeeps == ASSUME IInv, NEW r \in Runs, DeleteChecks(r) PROVE IInv'
<1>1. /\ deleting' = deleting \cup {r}
      /\ UNCHANGED <<rows, drawn, running, cancel, start, task, range, done, replay, asked>>
  BY DEF DeleteChecks, work
<1>2. \A q \in Runs : q # r => Same(q)
  BY <1>1 DEF Same
<1>3. Begun(r)' /\ Worked(r)'
  BY <1>1, RunIs DEF Begun, Worked, Steps, Candles, market
<1> QED
  BY <1>1, <1>2, <1>3, RunIs, OneRun DEF Executing

LEMMA DeletesKeeps == ASSUME IInv, NEW r \in Runs, Deletes(r) PROVE IInv'
<1>1. /\ rows' = [rows EXCEPT ![r] = None] /\ deleting' = deleting \ {r}
      /\ UNCHANGED <<drawn, running, cancel, start, task, range, done, replay, asked>>
  BY DEF Deletes, work
<1>2. \A q \in Runs : q # r => Same(q)
  BY <1>1, RunIs DEF Same
<1>3. rows'[r] = None /\ rows' = [q \in Runs |-> rows'[q]]
  BY <1>1, RunIs
<1>4. Begun(r)' /\ Worked(r)'
  BY <1>1, <1>3, RunIs DEF Begun, Worked, Steps, Candles, market
<1> QED
  BY <1>1, <1>2, <1>3, <1>4, RunIs, OneRun DEF Executing

-----------------------------------------------------------------------------
(* The task.                                                               *)

(* The common part of its steps: one run's row, place, count and replay.   *)
Touches(r) ==
  /\ UNCHANGED <<range, drawn, start, asked, deleting>>
  /\ \E pc \in Places : task' = [task EXCEPT ![r] = pc]
  /\ \E n : done' = [done EXCEPT ![r] = n]
  /\ \E row : rows' = [rows EXCEPT ![r] = row]
  /\ \E w : replay' = [replay EXCEPT ![r] = w]

LEMMA TouchesOne ==
  ASSUME IInv, NEW r \in Runs, Touches(r),
         task[r] # "none",
         rows'[r] = None \/ RowSound(rows'[r]), ReplaySound(replay'[r]),
         done'[r] \in 0 .. Steps, Worked(r)',
         \/ running' = running /\ cancel' = cancel /\ task'[r] # "none"
         \/ running' = None /\ cancel' = cancel \ {r}
  PROVE  IInv'
<1>1. PICK pc \in Places : task' = [task EXCEPT ![r] = pc]
  BY DEF Touches
<1>2. PICK n : done' = [done EXCEPT ![r] = n]
  BY DEF Touches
<1>3. PICK row : rows' = [rows EXCEPT ![r] = row]
  BY DEF Touches
<1>4. PICK w : replay' = [replay EXCEPT ![r] = w]
  BY DEF Touches
<1>5. \A q \in Runs : q # r =>
        /\ rows'[q] = rows[q] /\ task'[q] = task[q] /\ done'[q] = done[q] /\ replay'[q] = replay[q]
  BY <1>1, <1>2, <1>3, <1>4, RunIs
<1>6. UNCHANGED <<range, drawn, start, asked, deleting>>
  BY DEF Touches
<1>7. CASE running' = running /\ cancel' = cancel /\ task'[r] # "none"
  <2>1. \A q \in Runs : q # r => Same(q)
    BY <1>5, <1>6, <1>7 DEF Same
  <2>2. Executing \subseteq Executing'
    BY <1>5, <1>7 DEF Executing
  <2>3. rows' = [q \in Runs |-> rows'[q]] /\ replay' = [q \in Runs |-> replay'[q]]
    BY <1>3, <1>4, RunIs
  <2>4. task' \in [Runs -> Places] /\ done' \in [Runs -> 0 .. Steps]
    BY <1>1, <1>2, RunIs
  <2>5. Begun(r)'
    BY <1>6, <1>7, RunIs DEF Begun
  <2> QED
    BY <1>6, <1>7, <2>1, <2>2, <2>3, <2>4, <2>5, RunIs, OneRun
<1>8. CASE running' = None /\ cancel' = cancel \ {r}
  <2>1. \A q \in Runs : q # r => Same(q)
    BY <1>5, <1>6, <1>8 DEF Same
  <2>2. cancel' \subseteq Executing'
    BY <1>5, <1>8, RunIs DEF Executing
  <2>3. rows' = [q \in Runs |-> rows'[q]] /\ replay' = [q \in Runs |-> replay'[q]]
    BY <1>3, <1>4, RunIs
  <2>4. task' \in [Runs -> Places] /\ done' \in [Runs -> 0 .. Steps]
    BY <1>1, <1>2, RunIs
  <2>5. Begun(r)'
    BY <1>6, RunIs DEF Begun
  <2> QED
    BY <1>6, <1>8, <2>1, <2>2, <2>3, <2>4, <2>5, RunIs, OneRun
<1> QED
  BY <1>7, <1>8

(* A store call: the row is what it was or, if it may be written, the new  *)
(* one; the task goes on, or its exception looks at the cancel set.        *)
LEMMA StoresIs ==
  ASSUME IInv, NEW r \in Runs, NEW row, NEW pc \in Places, Stores(r, row, pc)
  PROVE  /\ \E t \in Places : task' = [task EXCEPT ![r] = t]
         /\ \E x : rows' = [rows EXCEPT ![r] = x]
         /\ task'[r] = pc \/ task'[r] = "failed" \/ (task'[r] = "cancelled" /\ r \in cancel)
         /\ rows'[r] = rows[r] \/ (rows'[r] = row /\ rows[r] # None /\ ~rows[r].hashed)
         /\ task'[r] # "none" \/ task'[r] = pc
<1>1. /\ Raised(r) \in {"failed", "cancelled"} /\ (Raised(r) = "cancelled" => r \in cancel)
      /\ Raised(r) \in Places /\ Raised(r) # "none"
  BY DEF Raised, Places
<1>2. /\ TaskAt(r, pc) \/ TaskAt(r, Raised(r))
      /\ Update(r, row) \/ UNCHANGED rows
  BY DEF Stores
<1>3. PICK x : rows' = [rows EXCEPT ![r] = x] /\ (x = rows[r] \/ (x = row /\ Writable(r)))
  <2> DEFINE new == IF Writable(r) THEN row ELSE rows[r]
  <2>1. Update(r, row) => rows' = [rows EXCEPT ![r] = new]
    BY DEF Update
  <2>2. UNCHANGED rows => rows' = [rows EXCEPT ![r] = rows[r]]
    BY RunIs
  <2>3. new = rows[r] \/ (new = row /\ Writable(r))
    BY DEF Writable
  <2> HIDE DEF new
  <2> QED
    BY <1>2, <2>1, <2>2, <2>3
<1>4. rows'[r] = x
  BY <1>3, RunIs
<1>5. PICK t \in {pc, Raised(r)} : task' = [task EXCEPT ![r] = t]
  BY <1>2 DEF TaskAt
<1>6. task'[r] = t /\ t \in Places
  BY <1>1, <1>5, RunIs
<1>7. \E u \in Places : task' = [task EXCEPT ![r] = u]
  BY <1>5, <1>6
<1>8. rows'[r] = rows[r] \/ (rows'[r] = row /\ rows[r] # None /\ ~rows[r].hashed)
  BY <1>3, <1>4 DEF Writable
<1>9. t = pc \/ t = "failed" \/ (t = "cancelled" /\ r \in cancel)
  BY <1>5 DEF Raised
<1>10. t # "none" \/ t = pc
  BY <1>1, <1>5
<1>11. \E y : rows' = [rows EXCEPT ![r] = y]
  BY <1>3
<1> QED
  BY <1>6, <1>7, <1>8, <1>9, <1>10, <1>11

LEMMA ThreeFields ==
  ASSUME NEW w, NEW d, NEW e, w = [bars |-> w.bars, run |-> w.run, results |-> w.results]
  PROVE  [w EXCEPT !.run = d, !.results = Append(@, e)] = [bars |-> w.bars, run |-> d, results |-> Append(w.results, e)]
<1> DEFINE s == Append(w.results, e)
<1>1. [w EXCEPT !.run = d, !.results = Append(@, e)] = [w EXCEPT !.run = d, !.results = s]
  OBVIOUS
<1> HIDE DEF s
<1> DEFINE one == [w EXCEPT !.run = d]
           two == [one EXCEPT !.results = s]
<1>2. [w EXCEPT !.run = d, !.results = s] = two
  OBVIOUS
<1>3. one = [bars |-> w.bars, run |-> d, results |-> w.results]
  OBVIOUS
<1> HIDE DEF one
<1>4. two = [bars |-> w.bars, run |-> d, results |-> s]
  BY <1>3
<1> QED
  BY <1>1, <1>2, <1>4 DEF s

LEMMA StatusChanges ==
  ASSUME NEW row, RowSound(row), ~row.hashed, NEW s \in ACTIVE \cup Ended
  PROVE  RowSound([row EXCEPT !.status = s]) /\ [row EXCEPT !.status = s].status = s
<1>1. row = [status |-> row.status, done |-> row.done, hashed |-> row.hashed, result |-> row.result]
  BY DEF RowSound
<1>2. [row EXCEPT !.status = s] = [status |-> s, done |-> row.done, hashed |-> row.hashed, result |-> row.result]
  BY <1>1
<1> QED
  BY <1>2 DEF RowSound

LEMMA DoneChanges ==
  ASSUME NEW row, RowSound(row), NEW n \in 0 .. Steps
  PROVE  RowSound([row EXCEPT !.done = n]) /\ [row EXCEPT !.done = n].status = row.status
<1>1. row = [status |-> row.status, done |-> row.done, hashed |-> row.hashed, result |-> row.result]
  BY DEF RowSound
<1>2. [row EXCEPT !.done = n] = [status |-> row.status, done |-> n, hashed |-> row.hashed, result |-> row.result]
  BY <1>1
<1> QED
  BY <1>2 DEF RowSound

LEMMA ResultChanges ==
  ASSUME IInv, NEW row, RowSound(row), NEW result, result # <<>>
  PROVE  LET full == [row EXCEPT !.status = "COMPLETED", !.done = Steps, !.hashed = TRUE, !.result = result]
         IN  RowSound(full) /\ full.hashed
<1> DEFINE full == [row EXCEPT !.status = "COMPLETED", !.done = Steps, !.hashed = TRUE, !.result = result]
<1>1. row = [status |-> row.status, done |-> row.done, hashed |-> row.hashed, result |-> row.result]
  BY DEF RowSound
<1>2. full = [status |-> "COMPLETED", done |-> Steps, hashed |-> TRUE, result |-> result]
  <2> DEFINE yes == TRUE
             old == row.hashed
             one == [row EXCEPT !.status = "COMPLETED"]
             two == [one EXCEPT !.done = Steps]
             three == [two EXCEPT !.hashed = yes]
             four == [three EXCEPT !.result = result]
  <2>1. full = four
    OBVIOUS
  <2> HIDE DEF yes, old
  <2>2. one = [status |-> "COMPLETED", done |-> row.done, hashed |-> old, result |-> row.result]
    BY <1>1 DEF old
  <2> HIDE DEF one
  <2>3. two = [status |-> "COMPLETED", done |-> Steps, hashed |-> old, result |-> row.result]
    BY <2>2
  <2> HIDE DEF two
  <2>4. three = [status |-> "COMPLETED", done |-> Steps, hashed |-> yes, result |-> row.result]
    BY <2>3
  <2> HIDE DEF three
  <2>5. four = [status |-> "COMPLETED", done |-> Steps, hashed |-> yes, result |-> result]
    BY <2>4
  <2> HIDE DEF four
  <2> QED
    BY <2>1, <2>5 DEF yes
<1>3. Steps \in 0 .. Steps /\ "COMPLETED" \in ACTIVE \cup Ended
  BY StepsAre DEF Ended
<1> HIDE DEF full
<1>4. RowSound(full) /\ full.hashed
  BY <1>2, <1>3 DEF RowSound
<1> QED
  BY <1>4 DEF full

(* A variant's last candle leaves its summary; no candle takes one away.   *)
LEMMA ReplayedGrows ==
  ASSUME IInv, NEW w, ReplaySound(w), NEW n \in 1 .. Steps
  PROVE  ReplaySound(Replayed(w, n)) /\ (n = Steps => Replayed(w, n).results # <<>>)
<1> DEFINE variant == 1 + ((n - 1) \div Candles)
           candle  == 1 + ((n - 1) % Candles)
           costs   == Costs(market, market.variants[variant])
           run     == ReplayStep(w.run, w.bars, market.steps[candle], costs)
           told    == Summary(ReplayEnd(run, w.bars, market.end, costs), market)
           all     == Append(w.results, told)
<1>1. Replayed(w, n) = IF candle < Candles THEN [w EXCEPT !.run = run]
                       ELSE [w EXCEPT !.run = Fresh, !.results = Append(@, told)]
  BY DEF Replayed
<1>2. n = Steps => candle = Candles
  BY StepsAre
<1>3. w = [bars |-> w.bars, run |-> w.run, results |-> w.results] /\ w.results \in Seq(Range(w.results))
  BY DEF ReplaySound
<1> HIDE DEF candle, run, told
<1>4. [w EXCEPT !.run = run] = [bars |-> w.bars, run |-> run, results |-> w.results]
  BY <1>3
<1>5. [w EXCEPT !.run = Fresh, !.results = Append(@, told)] = [bars |-> w.bars, run |-> Fresh, results |-> all]
  BY <1>3, ThreeFields
<1>6. all \in Seq(Range(all)) /\ all # <<>>
  BY <1>3, AppendGrows
<1> HIDE DEF all
<1>7. ReplaySound([bars |-> w.bars, run |-> run, results |-> w.results])
  BY <1>3 DEF ReplaySound
<1>8. ReplaySound([bars |-> w.bars, run |-> Fresh, results |-> all])
  BY <1>6 DEF ReplaySound
<1>9. ~(Candles < Candles)
  BY StepsAre
<1>10. CASE candle < Candles
  BY <1>1, <1>2, <1>4, <1>7, <1>9, <1>10
<1>11. CASE ~(candle < Candles)
  BY <1>1, <1>5, <1>6, <1>8, <1>11
<1> QED
  BY <1>10, <1>11

LEMMA ReplaysIs ==
  ASSUME IInv, NEW r \in Runs, Replays(r)
  PROVE  /\ \E w : replay' = [replay EXCEPT ![r] = w]
         /\ done'[r] > done[r] /\ task[r] # "load" => replay'[r] = Replayed(replay[r], done'[r])
         /\ ~(done'[r] > done[r]) =>
              /\ ReplaySound(replay'[r])
              /\ task[r] # "clean" => replay'[r].results = replay[r].results
<1> DEFINE old == replay[r]
           new == IF task[r] = "load" /\ task'[r] = "work" THEN [old EXCEPT !.bars = Load(market)]
                  ELSE IF done'[r] > done[r] THEN Replayed(old, done'[r])
                  ELSE IF task[r] = "clean" THEN NoReplay ELSE old
<1>1. replay' = [replay EXCEPT ![r] = new]
  BY Zenon DEF Replays
<1>2. replay'[r] = new
  <2> HIDE DEF new
  <2> QED
    BY <1>1, RunIs
<1>3. old = [bars |-> old.bars, run |-> old.run, results |-> old.results] /\ old.results \in Seq(Range(old.results))
  BY RunIs DEF ReplaySound
<1>4. [old EXCEPT !.bars = Load(market)] = [bars |-> Load(market), run |-> old.run, results |-> old.results]
  BY <1>3
<1>5. ReplaySound([bars |-> Load(market), run |-> old.run, results |-> old.results])
  BY <1>3 DEF ReplaySound
<1>6. ReplaySound(NoReplay)
  <2>1. <<>> \in Seq(Range(<<>>))
    OBVIOUS
  <2>2. NoReplay = [bars |-> <<>>, run |-> Fresh, results |-> <<>>]
    BY DEF NoReplay
  <2> QED
    BY <2>1, <2>2 DEF ReplaySound
<1>7. ReplaySound(old)
  BY RunIs
<1>8. done'[r] > done[r] /\ task[r] # "load" => replay'[r] = Replayed(old, done'[r])
  BY <1>2
<1>9. ASSUME ~(done'[r] > done[r]) PROVE ReplaySound(new) /\ (task[r] # "clean" => new.results = old.results)
  <2>1. CASE task[r] = "load" /\ task'[r] = "work"
    <3>1. new = [bars |-> Load(market), run |-> old.run, results |-> old.results]
      BY <1>4, <2>1
    <3> HIDE DEF new
    <3> QED
      BY <1>5, <3>1
  <2>2. CASE ~(task[r] = "load" /\ task'[r] = "work")
    <3>1. new = IF task[r] = "clean" THEN NoReplay ELSE old
      BY <1>9, <2>2
    <3> HIDE DEF new
    <3> QED
      BY <1>6, <1>7, <3>1
  <2> QED
    BY <2>1, <2>2
<1> HIDE DEF new
<1> QED
  BY <1>1, <1>2, <1>8, <1>9

LEMMA Unmoved ==
  ASSUME IInv, NEW r \in Runs
  PROVE  /\ UNCHANGED rows => \E x : rows' = [rows EXCEPT ![r] = x]
         /\ UNCHANGED done => \E n : done' = [done EXCEPT ![r] = n]
         /\ UNCHANGED task => \E t \in Places : task' = [task EXCEPT ![r] = t]
<1>1. rows = [rows EXCEPT ![r] = rows[r]] /\ done = [done EXCEPT ![r] = done[r]]
      /\ task = [task EXCEPT ![r] = task[r]] /\ task[r] \in Places
  BY RunIs
<1> QED
  BY <1>1

LEMMA Moved ==
  ASSUME IInv, NEW r \in Runs, NEW pc \in Places, TaskAt(r, pc)
  PROVE  task'[r] = pc /\ \E t \in Places : task' = [task EXCEPT ![r] = t]
BY RunIs DEF TaskAt

LEMMA BeginKeeps == ASSUME IInv, NEW r \in Runs, Begin(r), Replays(r) PROVE IInv'
<1> DEFINE row == [rows[r] EXCEPT !.status = "RUNNING"]
<1>1. /\ task[r] = "begin" /\ Stores(r, row, "load")
      /\ UNCHANGED <<done, range, drawn, running, cancel, start, asked, deleting>>
  BY DEF Begin, Others
<1>2. rows[r] # None => RowSound(rows[r]) /\ rows[r].status \in ACTIVE
  BY <1>1, RunIs DEF Worked
<1>3. rows[r] # None /\ ~rows[r].hashed => RowSound(row) /\ row.status \in ACTIVE
  <2>1. "RUNNING" \in ACTIVE \cup Ended /\ "RUNNING" \in ACTIVE
    BY DEF ACTIVE
  <2> QED
    BY <1>2, <2>1, StatusChanges
<1> HIDE DEF row
<1>4. "load" \in Places /\ "load" # "none"
  BY DEF Places
<1>5. Touches(r)
  BY <1>1, <1>4, StoresIs, Unmoved, ReplaysIs DEF Touches
<1>6. /\ task'[r] \in {"load", "failed"} \/ (task'[r] = "cancelled" /\ r \in cancel)
      /\ rows'[r] = rows[r] \/ (rows'[r] = row /\ rows[r] # None /\ ~rows[r].hashed)
  BY <1>1, <1>4, StoresIs
<1>7. rows'[r] = None \/ (RowSound(rows'[r]) /\ rows'[r].status \in ACTIVE)
  BY <1>2, <1>3, <1>6
<1>8. done'[r] = 0 /\ ~(done'[r] > done[r])
  BY <1>1, RunIs DEF Worked
<1>9. Worked(r)'
  BY <1>1, <1>6, <1>7, <1>8 DEF Worked
<1>10. ReplaySound(replay'[r])
  BY <1>8, ReplaysIs
<1> QED
  BY <1>1, <1>5, <1>6, <1>7, <1>9, <1>10, RunIs, TouchesOne

LEMMA LoadsKeeps == ASSUME IInv, NEW r \in Runs, Loads(r), Replays(r) PROVE IInv'
<1>1. /\ task[r] = "load"
      /\ (Candles > 0 /\ TaskAt(r, "work")) \/ TaskAt(r, Raised(r))
      /\ UNCHANGED <<rows, done, range, drawn, running, cancel, start, asked, deleting>>
  BY DEF Loads, Others
<1>2. PICK pc \in Places :
         /\ TaskAt(r, pc)
         /\ \/ pc = "work" /\ Candles > 0
            \/ pc = "failed"
            \/ pc = "cancelled" /\ r \in cancel
  BY <1>1 DEF Raised, Places
<1>3. Touches(r)
  BY <1>1, <1>2, Moved, Unmoved, ReplaysIs DEF Touches
<1>4. task'[r] = pc
  BY <1>2, Moved
<1>5. done'[r] = 0 /\ ~(done'[r] > done[r]) /\ (pc = "work" => done'[r] < Steps)
  BY <1>1, <1>2, RunIs, StepsAre DEF Worked
<1>6. Worked(r)'
  <2>1. Steps' = Steps
    BY <1>1 DEF Steps, Candles, market
  <2> QED
    BY <1>1, <1>2, <1>4, <1>5, <2>1, RunIs DEF Worked
<1>7. ReplaySound(replay'[r])
  BY <1>5, ReplaysIs
<1> QED
  BY <1>1, <1>2, <1>3, <1>4, <1>6, <1>7, RunIs, TouchesOne

LEMMA CancelSeenKeeps == ASSUME IInv, NEW r \in Runs, CancelSeen(r), Replays(r) PROVE IInv'
<1>1. /\ task[r] = "work" /\ r \in cancel /\ TaskAt(r, "cancelled") /\ "cancelled" \in Places
      /\ UNCHANGED <<rows, done, range, drawn, running, cancel, start, asked, deleting>>
  BY DEF CancelSeen, Others, Places
<1>2. Touches(r)
  BY <1>1, Moved, Unmoved, ReplaysIs DEF Touches
<1>3. task'[r] = "cancelled"
  BY <1>1, Moved
<1>4. ~(done'[r] > done[r])
  BY <1>1, RunIs
<1>5. Worked(r)'
  BY <1>1, <1>3, RunIs DEF Worked
<1>6. ReplaySound(replay'[r])
  BY <1>4, ReplaysIs
<1> QED
  BY <1>1, <1>2, <1>3, <1>5, <1>6, RunIs, TouchesOne

LEMMA StepKeeps == ASSUME IInv, NEW r \in Runs, Step(r), Replays(r) PROVE IInv'
<1> DEFINE row == [rows[r] EXCEPT !.done = done'[r]]
<1>1. /\ task[r] = "work" /\ r \notin cancel
      /\ done' = [done EXCEPT ![r] = @ + 1]
      /\ UNCHANGED <<range, drawn, running, cancel, start, asked, deleting>>
  BY DEF Step, Others
<1>2. /\ done'[r] = Steps => Stores(r, row, "complete")
      /\ done'[r] # Steps => Stores(r, row, "work") \/ UNCHANGED <<rows, task>>
  BY Zenon DEF Step, LastCandle
<1>3. done[r] \in Nat /\ done[r] < Steps /\ Steps \in Nat /\ Steps' = Steps
  <2>1. Steps' = Steps
    BY <1>1 DEF Steps, Candles, market
  <2> QED
    BY <1>1, <2>1, RunIs, StepsAre DEF Worked
<1>4. /\ done'[r] = done[r] + 1 /\ done'[r] \in 0 .. Steps /\ done'[r] > done[r] /\ done'[r] \in 1 .. Steps
      /\ done'[r] # Steps => done'[r] < Steps
      /\ \E n : done' = [done EXCEPT ![r] = n]
  <2>1. done' = [done EXCEPT ![r] = done[r] + 1] /\ done'[r] = done[r] + 1
    BY <1>1, RunIs
  <2>2. \E n : done' = [done EXCEPT ![r] = n]
    BY <2>1
  <2>3. /\ done'[r] \in 0 .. Steps /\ done'[r] > done[r] /\ done'[r] \in 1 .. Steps
        /\ done'[r] # Steps => done'[r] < Steps
    <3>1. \A n : n = done[r] + 1 => n \in 1 .. Steps /\ n \in 0 .. Steps /\ n > done[r] /\ (n # Steps => n < Steps)
      BY <1>3
    <3> QED
      BY <2>1, <3>1
  <2> QED
    BY <2>1, <2>2, <2>3
<1>5. rows[r] # None => RowSound(rows[r]) /\ rows[r].status \in ACTIVE
  BY <1>1, RunIs DEF Worked
<1>6. rows[r] # None /\ ~rows[r].hashed => RowSound(row) /\ row.status \in ACTIVE
  BY <1>4, <1>5, DoneChanges
<1> HIDE DEF row
<1>7. /\ \E t \in Places : task' = [task EXCEPT ![r] = t]
      /\ \E x : rows' = [rows EXCEPT ![r] = x]
      /\ \/ task'[r] = "complete" /\ done'[r] = Steps
         \/ task'[r] = "work" /\ done'[r] # Steps
         \/ task'[r] = "failed"
         \/ task'[r] = "cancelled" /\ r \in cancel
      /\ rows'[r] = rows[r] \/ (rows'[r] = row /\ rows[r] # None /\ ~rows[r].hashed)
  <2>1. "complete" \in Places /\ "work" \in Places
    BY DEF Places
  <2>2. CASE done'[r] = Steps
    BY <1>2, <2>1, <2>2, StoresIs
  <2>3. CASE done'[r] # Steps /\ Stores(r, row, "work")
    BY <2>1, <2>3, StoresIs
  <2>4. CASE done'[r] # Steps /\ UNCHANGED <<rows, task>>
    BY <1>1, <2>4, Unmoved
  <2> QED
    BY <1>2, <2>2, <2>3, <2>4
<1>8. rows'[r] = None \/ (RowSound(rows'[r]) /\ rows'[r].status \in ACTIVE)
  BY <1>5, <1>6, <1>7
<1>9. replay'[r] = Replayed(replay[r], done'[r])
  BY <1>1, <1>4, ReplaysIs
<1>10. ReplaySound(replay'[r]) /\ (done'[r] = Steps => replay'[r].results # <<>>)
  BY <1>4, <1>9, RunIs, ReplayedGrows
<1>11. Touches(r)
  BY <1>1, <1>4, <1>7, ReplaysIs DEF Touches
<1>12. Worked(r)'
  BY <1>1, <1>3, <1>4, <1>7, <1>8, <1>10 DEF Worked
<1>13. task'[r] # "none"
  BY <1>7
<1> QED
  BY <1>1, <1>4, <1>8, <1>10, <1>11, <1>12, <1>13, RunIs, TouchesOne

LEMMA CompleteKeeps == ASSUME IInv, NEW r \in Runs, Complete(r), Replays(r) PROVE IInv'
<1>1. /\ task[r] = "complete" /\ Stores(r, Completed(r), "clean")
      /\ UNCHANGED <<done, range, drawn, running, cancel, start, asked, deleting>>
  BY DEF Complete, Others
<1>2. /\ replay[r].results # <<>>
      /\ rows[r] # None => RowSound(rows[r]) /\ rows[r].status \in ACTIVE
  BY <1>1, RunIs DEF Worked
<1>3. rows[r] # None => RowSound(Completed(r)) /\ Completed(r).hashed
  BY <1>2, ResultChanges DEF Completed
<1>4. "clean" \in Places
  BY DEF Places
<1>5. Touches(r)
  BY <1>1, <1>4, StoresIs, Unmoved, ReplaysIs DEF Touches
<1>6. /\ task'[r] \in {"clean", "failed"} \/ (task'[r] = "cancelled" /\ r \in cancel)
      /\ rows'[r] = rows[r] \/ (rows'[r] = Completed(r) /\ rows[r] # None)
  BY <1>1, <1>4, StoresIs
<1>7. rows'[r] = None \/ (RowSound(rows'[r]) /\ (rows'[r].status \in ACTIVE \/ rows'[r].hashed))
  BY <1>2, <1>3, <1>6
<1>8. done'[r] = done[r] /\ ~(done'[r] > done[r])
  BY <1>1, RunIs
<1>9. Worked(r)'
  BY <1>1, <1>6, <1>7 DEF Worked
<1>10. ReplaySound(replay'[r])
  BY <1>8, ReplaysIs
<1>11. task'[r] # "none"
  BY <1>6
<1> QED
  BY <1>1, <1>5, <1>7, <1>8, <1>9, <1>10, <1>11, RunIs, TouchesOne

(* The except block does not rewrite a result that was stored.             *)
LEMMA RecordIs ==
  ASSUME IInv, NEW r \in Runs, Record(r)
  PROVE  LET s == IF task[r] = "failed" THEN "FAILED" ELSE "CANCELLED"
         IN  /\ \E x : rows' = [rows EXCEPT ![r] = x]
             /\ \/ rows'[r] = rows[r]
                \/ rows'[r] = [rows[r] EXCEPT !.status = s] /\ rows[r] # None /\ ~rows[r].hashed
<1> DEFINE s == IF task[r] = "failed" THEN "FAILED" ELSE "CANCELLED"
           row == [rows[r] EXCEPT !.status = s]
           new == IF Writable(r) THEN row ELSE rows[r]
<1>1. Update(r, row) \/ UNCHANGED rows
  BY Zenon DEF Record
<1> HIDE DEF row
<1>2. Update(r, row) => rows' = [rows EXCEPT ![r] = new]
  BY DEF Update
<1>3. UNCHANGED rows => rows' = [rows EXCEPT ![r] = rows[r]]
  BY RunIs
<1>4. new = rows[r] \/ (new = row /\ rows[r] # None /\ ~rows[r].hashed)
  BY DEF Writable
<1> HIDE DEF new
<1>5. PICK x : rows' = [rows EXCEPT ![r] = x] /\ (x = rows[r] \/ (x = row /\ rows[r] # None /\ ~rows[r].hashed))
  BY <1>1, <1>2, <1>3, <1>4
<1>6. rows'[r] = x
  BY <1>5, RunIs
<1>7. \E y : rows' = [rows EXCEPT ![r] = y]
  BY <1>5
<1>8. rows'[r] = rows[r] \/ (rows'[r] = row /\ rows[r] # None /\ ~rows[r].hashed)
  BY <1>5, <1>6
<1> QED
  BY <1>7, <1>8 DEF row

LEMMA RecordKeeps == ASSUME IInv, NEW r \in Runs, Record(r), Replays(r) PROVE IInv'
<1> DEFINE s == IF task[r] = "failed" THEN "FAILED" ELSE "CANCELLED"
           row == [rows[r] EXCEPT !.status = s]
<1>1. /\ task[r] \in {"failed", "cancelled"} /\ TaskAt(r, "clean") /\ "clean" \in Places
      /\ UNCHANGED <<done, range, drawn, running, cancel, start, asked, deleting>>
  BY DEF Record, Others, Places
<1>2. s \in ACTIVE \cup Ended
  BY DEF Ended
<1>3. (\E x : rows' = [rows EXCEPT ![r] = x])
      /\ (rows'[r] = rows[r] \/ (rows'[r] = row /\ rows[r] # None /\ ~rows[r].hashed))
  BY RecordIs
<1> HIDE DEF s
<1>4. rows[r] # None /\ ~rows[r].hashed => RowSound(row)
  BY <1>2, RunIs, StatusChanges
<1> HIDE DEF row
<1>5. rows'[r] = None \/ RowSound(rows'[r])
  BY <1>3, <1>4, RunIs
<1>6. task'[r] = "clean"
  BY <1>1, Moved
<1>7. Touches(r)
  BY <1>1, <1>3, Moved, Unmoved, ReplaysIs DEF Touches
<1>8. done'[r] = done[r] /\ ~(done'[r] > done[r])
  BY <1>1, RunIs
<1>9. Worked(r)'
  BY <1>6 DEF Worked
<1>10. ReplaySound(replay'[r])
  BY <1>8, ReplaysIs
<1> QED
  BY <1>1, <1>5, <1>6, <1>7, <1>8, <1>9, <1>10, RunIs, TouchesOne

LEMMA CleanKeeps == ASSUME IInv, NEW r \in Runs, Clean(r), Replays(r) PROVE IInv'
<1>1. /\ task[r] = "clean" /\ TaskAt(r, "none") /\ "none" \in Places
      /\ done' = [done EXCEPT ![r] = 0] /\ running' = None /\ cancel' = cancel \ {r}
      /\ UNCHANGED <<rows, range, drawn, start, asked, deleting>>
  BY DEF Clean, Released, Places
<1>2. task'[r] = "none"
  BY <1>1, Moved
<1>3. Touches(r)
  BY <1>1, Moved, Unmoved, ReplaysIs DEF Touches
<1>4. done'[r] = 0 /\ 0 \in 0 .. Steps /\ ~(done'[r] > done[r])
  BY <1>1, RunIs, StepsAre
<1>5. Worked(r)'
  BY <1>2, <1>4 DEF Worked
<1>6. ReplaySound(replay'[r])
  BY <1>4, ReplaysIs
<1>7. rows'[r] = None \/ RowSound(rows'[r])
  BY <1>1, RunIs
<1> QED
  BY <1>1, <1>3, <1>4, <1>5, <1>6, <1>7, TouchesOne

(* A restart leaves the rows and the ids that were drawn.                  *)
LEMMA RestartKeeps == ASSUME IInv, Restart PROVE IInv'
<1>1. /\ running' = None /\ cancel' = {} /\ deleting' = {}
      /\ start' = [r \in Runs |-> "none"] /\ task' = [r \in Runs |-> "none"]
      /\ asked' = [r \in Runs |-> None] /\ done' = [r \in Runs |-> 0]
      /\ replay' = [r \in Runs |-> NoReplay]
      /\ UNCHANGED <<range, rows, drawn>>
  BY DEF Restart
<1>2. Steps' = Steps /\ 0 \in 0 .. Steps
  <2>1. Steps' = Steps
    BY <1>1 DEF Steps, Candles, market
  <2> QED
    BY <2>1, StepsAre
<1>3. ReplaySound(NoReplay)
  <2>1. <<>> \in Seq(Range(<<>>)) /\ NoReplay = [bars |-> <<>>, run |-> Fresh, results |-> <<>>]
    BY DEF NoReplay
  <2> QED
    BY <2>1 DEF ReplaySound
<1>4. Stored'
  <2>1. \A r \in Runs : rows'[r] = None \/ RowSound(rows'[r])
    BY <1>1 DEF IInv, Stored
  <2>2. \A r \in Runs : ReplaySound(replay'[r])
    BY <1>1, <1>3
  <2>3. rows' = [r \in Runs |-> rows'[r]] /\ replay' = [r \in Runs |-> replay'[r]] /\ range' \in DOMAIN Markets
    BY <1>1 DEF IInv, Stored
  <2> QED
    BY <1>2, <2>1, <2>2, <2>3 DEF Stored, RowSound, ReplaySound
<1>5. TypeOK'
  BY <1>1, <1>2 DEF IInv, MemoryIsLive, TypeOK
<1>6. \A r \in Runs : Begun(r)' /\ Worked(r)'
  <2> SUFFICES ASSUME NEW r \in Runs PROVE Begun(r)' /\ Worked(r)'
    OBVIOUS
  <2>1. Begun(r)
    BY DEF IInv
  <2> QED
    BY <1>1, <2>1 DEF Begun, Worked
<1> QED
  BY <1>1, <1>4, <1>5, <1>6 DEF IInv, MemoryIsLive

LEMMA NextKeeps == ASSUME IInv, [Next]_vars PROVE IInv'
<1>1. CASE UNCHANGED vars
  <2>1. UNCHANGED <<range, rows, drawn, running, cancel, start, task, done, replay, asked, deleting>>
    BY <1>1 DEF vars, work
  <2>2. Steps' = Steps
    BY <2>1 DEF Steps, Candles, market
  <2>3. Stored'
    BY <2>1, <2>2 DEF IInv, Stored, RowSound, ReplaySound
  <2>4. TypeOK'
    BY <2>1, <2>2 DEF IInv, MemoryIsLive, TypeOK
  <2>5. \A r \in Runs : Begun(r)' /\ Worked(r)'
    BY <2>1, <2>2 DEF IInv, Begun, Worked
  <2> QED
    BY <2>1, <2>3, <2>4, <2>5 DEF IInv, MemoryIsLive, Executing
<1>2. CASE Restart
  BY <1>2, RestartKeeps
<1>3. ASSUME NEW r \in Runs,
             \/ StartChecks(r) \/ StartInserts(r) \/ StartFails(r) \/ StartOwns(r)
             \/ CancelReads(r) \/ CancelMarks(r) \/ DeleteChecks(r) \/ Deletes(r)
      PROVE  IInv'
  BY <1>3, StartChecksKeeps, StartInsertsKeeps, StartFailsKeeps, StartOwnsKeeps, CancelReadsKeeps,
     CancelMarksKeeps, DeleteChecksKeeps, DeletesKeeps
<1>4. ASSUME NEW r \in Runs, Execute(r) /\ Replays(r) PROVE IInv'
  BY <1>4, BeginKeeps, LoadsKeeps, CancelSeenKeeps, StepKeeps, CompleteKeeps, RecordKeeps, CleanKeeps DEF Execute
<1> QED
  BY <1>1, <1>2, <1>3, <1>4 DEF Next

LEMMA InitHolds == Init => IInv
<1> SUFFICES ASSUME Init PROVE IInv
  OBVIOUS
<1>1. /\ range \in DOMAIN Markets /\ rows = [r \in Runs |-> None] /\ drawn \in SUBSET Runs
      /\ running = None /\ cancel = {} /\ deleting = {}
      /\ start = [r \in Runs |-> "none"] /\ task = [r \in Runs |-> "none"]
      /\ done = [r \in Runs |-> 0] /\ replay = [r \in Runs |-> NoReplay] /\ asked = [r \in Runs |-> None]
  BY DEF Init
<1>2. 0 \in 0 .. Steps
  <2>1. Candles \in Nat /\ Len(market.variants) \in Nat
    BY <1>1, RunsAssumption DEF Candles, market
  <2>2. \A c, v \in Nat : c * v \in Nat
    OBVIOUS
  <2>3. Steps \in Nat
    BY <2>1, <2>2 DEF Steps
  <2> QED
    BY <2>3
<1>3. ReplaySound(NoReplay)
  <2>1. <<>> \in Seq(Range(<<>>)) /\ NoReplay = [bars |-> <<>>, run |-> Fresh, results |-> <<>>]
    BY DEF NoReplay
  <2> QED
    BY <2>1 DEF ReplaySound
<1>4. Stored
  BY <1>1, <1>3 DEF Stored
<1>5. TypeOK
  BY <1>1, <1>2 DEF TypeOK
<1>6. \A r \in Runs : Begun(r) /\ Worked(r)
  BY <1>1 DEF Begun, Worked
<1> QED
  BY <1>1, <1>4, <1>5, <1>6 DEF IInv, MemoryIsLive

-----------------------------------------------------------------------------
(* The invariant holds of every execution.                                 *)
THEOREM InvariantHolds == Spec => []IInv
<1>1. Init => IInv
  BY InitHolds
<1>2. IInv /\ [Next]_vars => IInv'
  BY NextKeeps
<1> QED
  BY <1>1, <1>2, PTL DEF Spec

(* Nobody owns the service and no cancel request waits without a task that *)
(* is alive: a failure at any await leaves the service free, and what a    *)
(* cancel marks is a run that will look at it.                             *)
THEOREM MemoryHoldsNothingDead == Spec => []MemoryIsLive
<1>1. IInv => MemoryIsLive
  BY DEF IInv
<1> QED
  BY <1>1, InvariantHolds, PTL

-----------------------------------------------------------------------------
(* What a step may not do to a row.                                        *)
Honest(r) ==
  rows[r] # None =>
    /\ rows[r].hashed => rows'[r] \in {rows[r], None}
    /\ rows'[r] # None /\ rows[r].status # rows'[r].status =>
         /\ rows[r].status \in ACTIVE
         /\ rows'[r].status = "CANCELLED" => r \in cancel
         /\ rows'[r].status = "COMPLETED" => rows'[r].hashed /\ done[r] = Steps

LEMMA OthersAreHonest ==
  ASSUME IInv, NEW r \in Runs, \E x : rows' = [rows EXCEPT ![r] = x], Honest(r)
  PROVE  \A q \in Runs : Honest(q)
<1>1. \A q \in Runs : q # r => rows'[q] = rows[q]
  BY RunIs
<1> QED
  BY <1>1 DEF Honest

LEMMA UntouchedIsHonest == ASSUME UNCHANGED rows PROVE \A q \in Runs : Honest(q)
BY DEF Honest

LEMMA InsertIsHonest == ASSUME IInv, NEW r \in Runs, StartInserts(r) PROVE \A q \in Runs : Honest(q)
<1>1. rows[r] = None
  BY RunIs DEF StartInserts, Begun
<1>2. \E x : rows' = [rows EXCEPT ![r] = x]
  BY DEF StartInserts
<1>3. Honest(r)
  BY <1>1 DEF Honest
<1> QED
  BY <1>2, <1>3, OthersAreHonest

LEMMA DeleteIsHonest == ASSUME IInv, NEW r \in Runs, Deletes(r) PROVE \A q \in Runs : Honest(q)
<1>1. rows' = [rows EXCEPT ![r] = None]
  BY DEF Deletes
<1>2. rows'[r] = None /\ \E x : rows' = [rows EXCEPT ![r] = x]
  BY <1>1, RunIs
<1>3. Honest(r)
  BY <1>2 DEF Honest
<1> QED
  BY <1>2, <1>3, OthersAreHonest

LEMMA BeginIsHonest == ASSUME IInv, NEW r \in Runs, Begin(r) PROVE \A q \in Runs : Honest(q)
<1> DEFINE row == [rows[r] EXCEPT !.status = "RUNNING"]
<1>1. task[r] = "begin" /\ Stores(r, row, "load") /\ "load" \in Places
  BY DEF Begin, Places
<1>2. rows[r] # None => RowSound(rows[r]) /\ rows[r].status \in ACTIVE
  BY <1>1, RunIs DEF Worked
<1>3. rows[r] # None /\ ~rows[r].hashed => row.status = "RUNNING"
  <2>1. "RUNNING" \in ACTIVE \cup Ended
    BY DEF ACTIVE
  <2> QED
    BY <1>2, <2>1, StatusChanges
<1> HIDE DEF row
<1>4. (\E x : rows' = [rows EXCEPT ![r] = x])
      /\ (rows'[r] = rows[r] \/ (rows'[r] = row /\ rows[r] # None /\ ~rows[r].hashed))
  BY <1>1, StoresIs
<1>5. Honest(r)
  BY <1>2, <1>3, <1>4 DEF Honest
<1> QED
  BY <1>4, <1>5, OthersAreHonest

LEMMA StepIsHonest == ASSUME IInv, NEW r \in Runs, Step(r) PROVE \A q \in Runs : Honest(q)
<1> DEFINE row == [rows[r] EXCEPT !.done = done'[r]]
<1>1. task[r] = "work" /\ done' = [done EXCEPT ![r] = @ + 1] /\ "complete" \in Places /\ "work" \in Places
  BY DEF Step, Places
<1>2. Stores(r, row, "complete") \/ Stores(r, row, "work") \/ UNCHANGED rows
  BY Zenon DEF Step
<1>3. done'[r] \in 0 .. Steps
  <2>1. done[r] \in Nat /\ done[r] < Steps /\ Steps \in Nat
    BY <1>1, RunIs, StepsAre DEF Worked
  <2>2. done'[r] = done[r] + 1
    BY <1>1, RunIs
  <2> QED
    BY <2>1, <2>2
<1>4. rows[r] # None => RowSound(rows[r])
  BY RunIs
<1>5. rows[r] # None /\ ~rows[r].hashed => row.status = rows[r].status
  BY <1>3, <1>4, DoneChanges
<1> HIDE DEF row
<1>6. (\E x : rows' = [rows EXCEPT ![r] = x])
      /\ (rows'[r] = rows[r] \/ (rows'[r] = row /\ rows[r] # None /\ ~rows[r].hashed))
  BY <1>1, <1>2, StoresIs, Unmoved
<1>7. Honest(r)
  BY <1>5, <1>6 DEF Honest
<1> QED
  BY <1>6, <1>7, OthersAreHonest

LEMMA CompleteIsHonest == ASSUME IInv, NEW r \in Runs, Complete(r) PROVE \A q \in Runs : Honest(q)
<1>1. task[r] = "complete" /\ Stores(r, Completed(r), "clean") /\ "clean" \in Places
  BY DEF Complete, Places
<1>2. /\ replay[r].results # <<>> /\ done[r] = Steps
      /\ rows[r] # None => RowSound(rows[r]) /\ rows[r].status \in ACTIVE
  BY <1>1, RunIs DEF Worked
<1>3. rows[r] # None => Completed(r).hashed /\ RowSound(Completed(r))
  BY <1>2, ResultChanges DEF Completed
<1>4. rows[r] # None => Completed(r).status = "COMPLETED"
  BY <1>3 DEF RowSound
<1>5. (\E x : rows' = [rows EXCEPT ![r] = x])
      /\ (rows'[r] = rows[r] \/ (rows'[r] = Completed(r) /\ rows[r] # None /\ ~rows[r].hashed))
  BY <1>1, StoresIs
<1>6. Honest(r)
  BY <1>2, <1>3, <1>4, <1>5 DEF Honest
<1> QED
  BY <1>5, <1>6, OthersAreHonest

LEMMA RecordIsHonest == ASSUME IInv, NEW r \in Runs, Record(r) PROVE \A q \in Runs : Honest(q)
<1> DEFINE s == IF task[r] = "failed" THEN "FAILED" ELSE "CANCELLED"
           row == [rows[r] EXCEPT !.status = s]
<1>1. /\ task[r] \in {"failed", "cancelled"}
      /\ rows[r] # None => RowSound(rows[r]) /\ (rows[r].status \in ACTIVE \/ rows[r].hashed)
      /\ task[r] = "cancelled" => r \in cancel
  BY RunIs DEF Record, Worked
<1>2. (\E x : rows' = [rows EXCEPT ![r] = x])
      /\ (rows'[r] = rows[r] \/ (rows'[r] = row /\ rows[r] # None /\ ~rows[r].hashed))
  BY RecordIs
<1>3. s \in ACTIVE \cup Ended /\ s \in {"FAILED", "CANCELLED"} /\ (s = "CANCELLED" => r \in cancel)
  BY <1>1 DEF Ended
<1> HIDE DEF s
<1>4. rows[r] # None /\ ~rows[r].hashed => row.status = s
  BY <1>1, <1>3, StatusChanges
<1> HIDE DEF row
<1>5. Honest(r)
  BY <1>1, <1>2, <1>3, <1>4 DEF Honest
<1> QED
  BY <1>2, <1>5, OthersAreHonest

LEMMA NextIsHonest == ASSUME IInv, [Next]_vars PROVE \A q \in Runs : Honest(q)
<1>1. CASE UNCHANGED vars
  BY <1>1, UntouchedIsHonest DEF vars
<1>2. CASE Restart
  BY <1>2, UntouchedIsHonest DEF Restart
<1>3. ASSUME NEW r \in Runs,
             \/ StartChecks(r) \/ StartFails(r) \/ StartOwns(r)
             \/ CancelReads(r) \/ CancelMarks(r) \/ DeleteChecks(r)
      PROVE  \A q \in Runs : Honest(q)
  <2>1. UNCHANGED rows
    BY <1>3 DEF StartChecks, StartFails, StartOwns, CancelReads, CancelMarks, DeleteChecks
  <2> QED
    BY <2>1, UntouchedIsHonest
<1>4. ASSUME NEW r \in Runs, StartInserts(r) \/ Deletes(r) PROVE \A q \in Runs : Honest(q)
  BY <1>4, InsertIsHonest, DeleteIsHonest
<1>5. ASSUME NEW r \in Runs, Execute(r) PROVE \A q \in Runs : Honest(q)
  <2>1. Loads(r) \/ CancelSeen(r) \/ Clean(r) => UNCHANGED rows
    BY DEF Loads, CancelSeen, Clean
  <2> QED
    BY <1>5, <2>1, UntouchedIsHonest, BeginIsHonest, StepIsHonest, CompleteIsHonest, RecordIsHonest DEF Execute
<1> QED
  BY <1>1, <1>2, <1>3, <1>4, <1>5 DEF Next

(* A stored result is never rewritten, whatever fails once it is there: it *)
(* can only be deleted.  A row says CANCELLED only after an accepted       *)
(* cancel, COMPLETED only with its result and all of its candles replayed, *)
(* and an end is not left for another.                                     *)
THEOREM EndsAreHonest == Spec => EndIsHonest
<1>1. IInv /\ [Next]_vars =>
        [\A r \in Runs : rows[r] # None =>
           /\ rows[r].hashed => rows'[r] \in {rows[r], None}
           /\ rows'[r] # None /\ rows[r].status # rows'[r].status =>
                /\ rows[r].status \in ACTIVE
                /\ rows'[r].status = "CANCELLED" => r \in cancel
                /\ rows'[r].status = "COMPLETED" => rows'[r].hashed /\ done[r] = Steps]_vars
  BY NextIsHonest DEF Honest
<1> QED
  BY <1>1, InvariantHolds, PTL DEF Spec, EndIsHonest

-----------------------------------------------------------------------------
(* Induction up to a number, over the numbers for which something holds.   *)
LEMMA UpTo ==
    ASSUME NEW n \in Nat, NEW Q, 0 \in Q, \A i \in 1 .. n : i - 1 \in Q => i \in Q
    PROVE  \A i \in 0 .. n : i \in Q
<1> DEFINE rest == (0 .. n) \ Q
<1>1. SUFFICES ASSUME rest # {} PROVE FALSE
  OBVIOUS
<1>2. rest \subseteq Nat
  OBVIOUS
<1> HIDE DEF rest
<1>3. \E m \in rest : \A k \in rest : ~(<<k, m>> \in OpToRel(<, Nat))
  BY <1>1, <1>2, NatLessThanWellFounded, WFMin
<1>4. PICK m \in rest : \A k \in rest : ~(k < m)
  BY <1>2, <1>3 DEF OpToRel
<1>5. m \in 0 .. n /\ m \notin Q
  BY DEF rest
<1>6. m # 0 /\ m \in 1 .. n
  BY <1>5
<1>7. m - 1 \in 0 .. n /\ m - 1 < m
  BY <1>6
<1>8. m - 1 \in Q
  BY <1>4, <1>7 DEF rest
<1> QED BY <1>5, <1>6, <1>8

(* A set of numbers up to n has its largest.                               *)
LEMMA MaxIsLast ==
    ASSUME NEW n \in Nat, NEW s \in SUBSET (1 .. n), s # {}
    PROVE  Max(s) \in s /\ \A i \in s : i <= Max(s)
<1> DEFINE gaps == {n - i : i \in s}
<1>1. gaps \subseteq Nat /\ gaps # {}
  <2>1. \A i \in s : n - i \in Nat
    OBVIOUS
  <2> QED BY <2>1
<1> HIDE DEF gaps
<1>2. \E g \in gaps : \A h \in gaps : ~(<<h, g>> \in OpToRel(<, Nat))
  BY <1>1, NatLessThanWellFounded, WFMin
<1>3. PICK g \in gaps : \A h \in gaps : ~(h < g)
  BY <1>1, <1>2 DEF OpToRel
<1>4. PICK m \in s : g = n - m
  BY DEF gaps
<1>5. \A i \in s : i <= m
  <2> SUFFICES ASSUME NEW i \in s PROVE i <= m
    OBVIOUS
  <2>1. n - i \in gaps
    BY DEF gaps
  <2>2. ~(n - i < n - m)
    BY <2>1, <1>3, <1>4
  <2> QED BY <2>2
<1>6. \A i \in s : m >= i
  BY <1>5
<1>7. Max(s) \in s /\ \A i \in s : Max(s) >= i
  BY <1>6, Zenon DEF Max
<1> QED BY <1>7

(* f takes one step for each number of a set, the largest last.            *)
TakesSteps(f, n, base, step) ==
    \A s \in SUBSET (1 .. n) : f[s] = IF s = {} THEN base ELSE step[<<Max(s), f[s \ {Max(s)}]>>]

(* What is defined from a set of numbers without its largest is defined    *)
(* for every set of numbers up to n.                                       *)
LEMMA FoldExists ==
    ASSUME NEW n \in Nat, NEW V, NEW base \in V, NEW step,
           \A i \in 1 .. n : \A v \in V : step[<<i, v>>] \in V
    PROVE  \E f \in [SUBSET (1 .. n) -> V] : TakesSteps(f, n, base, step)
<1> DEFINE Fold(k, f) == \A s \in SUBSET (1 .. k) :
                           f[s] = IF s = {} THEN base ELSE step[<<Max(s), f[s \ {Max(s)}]>>]
           Q == {k \in 0 .. n : \E f \in [SUBSET (1 .. k) -> V] : Fold(k, f)}
<1>1. 0 \in Q
  <2>1. [s \in SUBSET (1 .. 0) |-> base] \in [SUBSET (1 .. 0) -> V]
    OBVIOUS
  <2>2. \A s \in SUBSET (1 .. 0) : s = {}
    OBVIOUS
  <2>3. Fold(0, [s \in SUBSET (1 .. 0) |-> base])
    BY <2>2
  <2> HIDE DEF Fold
  <2>4. \E f \in [SUBSET (1 .. 0) -> V] : Fold(0, f)
    BY <2>1, <2>3
  <2>5. 0 \in 0 .. n
    OBVIOUS
  <2> QED BY <2>4, <2>5, Zenon
<1>2. ASSUME NEW k \in 1 .. n, k - 1 \in Q PROVE k \in Q
  <2>1. PICK f \in [SUBSET (1 .. (k - 1)) -> V] : Fold(k - 1, f)
    BY <1>2
  <2> DEFINE g == [s \in SUBSET (1 .. k) |-> IF k \in s THEN step[<<k, f[s \ {k}]>>] ELSE f[s]]
  <2>0. \A i \in 1 .. k : i # k => i \in 1 .. (k - 1)
    OBVIOUS
  <2>2. \A s \in SUBSET (1 .. k) : s \ {k} \in SUBSET (1 .. (k - 1))
    BY <2>0
  <2>3. \A s \in SUBSET (1 .. k) : k \notin s => s \in SUBSET (1 .. (k - 1))
    BY <2>0
  <2>4. g \in [SUBSET (1 .. k) -> V]
    BY <2>2, <2>3
  <2>5. ASSUME NEW s \in SUBSET (1 .. k)
        PROVE  g[s] = IF s = {} THEN base ELSE step[<<Max(s), g[s \ {Max(s)}]>>]
    <3>1. CASE s = {}
      <4>1. f[s] = base
        BY <2>1, <3>1
      <4> QED BY <3>1, <4>1
    <3>2. CASE k \in s
      <4>1. Max(s) = k
        <5>1. s \in SUBSET (1 .. n) /\ s # {}
          BY <3>2
        <5>2. Max(s) \in s /\ \A i \in s : i <= Max(s)
          BY <5>1, MaxIsLast
        <5>3. Max(s) \in 1 .. k /\ k <= Max(s)
          BY <3>2, <5>2
        <5> QED BY <5>3
      <4>2. g[s] = step[<<k, f[s \ {k}]>>]
        BY <3>2
      <4>3. g[s \ {k}] = f[s \ {k}]
        OBVIOUS
      <4> HIDE DEF g
      <4> QED BY <3>2, <4>1, <4>2, <4>3
    <3>3. CASE s # {} /\ k \notin s
      <4>1. s \in SUBSET (1 .. (k - 1)) /\ k - 1 \in Nat
        BY <2>3, <3>3
      <4>2. Max(s) \in s
        BY <3>3, <4>1, MaxIsLast
      <4>3. f[s] = step[<<Max(s), f[s \ {Max(s)}]>>]
        BY <2>1, <3>3, <4>1
      <4>4. g[s] = f[s]
        BY <3>3
      <4>5. g[s \ {Max(s)}] = f[s \ {Max(s)}]
        BY <3>3
      <4> HIDE DEF g
      <4> QED BY <3>3, <4>3, <4>4, <4>5
    <3> QED BY <3>1, <3>2, <3>3
  <2> HIDE DEF g
  <2>6. Fold(k, g)
    BY <2>5
  <2> HIDE DEF Fold
  <2>7. \E f2 \in [SUBSET (1 .. k) -> V] : Fold(k, f2)
    BY <2>4, <2>6
  <2> QED BY <2>7
<1> HIDE DEF Q
<1>3. \A i \in 0 .. n : i \in Q
  <2> \A i \in 1 .. n : i - 1 \in Q => i \in Q
    BY <1>2
  <2> QED BY <1>1, UpTo
<1>4. n \in Q
  BY <1>3
<1> QED BY <1>4 DEF Q, TakesSteps

-----------------------------------------------------------------------------
(* Bars sorted by their open.                                              *)

(* Finitely many bars, no two of which open at once.                       *)
Dated(S) ==
  /\ IsFiniteSet(S) /\ \A b \in S : b.at \in Int
  /\ \A b, c \in S : b.at = c.at => b = c

Rank(S, b) == Cardinality(Earlier(S, b))

LEMMA FewerOf ==
  ASSUME NEW A, IsFiniteSet(A), NEW B \in SUBSET A
  PROVE  /\ IsFiniteSet(B) /\ Cardinality(B) \in Nat /\ Cardinality(A) \in Nat
         /\ Cardinality(B) <= Cardinality(A)
         /\ B # A => Cardinality(B) < Cardinality(A)
<1>1. /\ Cardinality(B) <= Cardinality(A) /\ IsFiniteSet(B)
      /\ B # A => Cardinality(B) # Cardinality(A)
  BY FS_Subset
<1>2. Cardinality(B) \in Nat /\ Cardinality(A) \in Nat
  BY <1>1, FS_CardinalityType
<1> QED
  BY <1>1, <1>2

LEMMA DatedPart ==
  ASSUME NEW S, Dated(S), NEW T \in SUBSET S
  PROVE  Dated(T)
<1>1. IsFiniteSet(T)
  BY FewerOf DEF Dated
<1> QED
  BY <1>1 DEF Dated

LEMMA RanksGrow ==
  ASSUME NEW S, Dated(S), NEW b \in S, NEW c \in S
  PROVE  /\ Rank(S, b) \in Nat /\ Rank(S, b) < Cardinality(S)
         /\ b.at < c.at => Rank(S, b) < Rank(S, c)
         /\ Rank(S, b) < Rank(S, c) => b.at < c.at
<1>1. IsFiniteSet(S) /\ \A x \in S : x.at \in Int
  BY DEF Dated
<1>2. \A x \in S : Earlier(S, x) \in SUBSET S /\ Earlier(S, x) # S
  BY <1>1 DEF Earlier
<1>3. \A x \in S : IsFiniteSet(Earlier(S, x)) /\ Rank(S, x) \in Nat
  BY <1>1, <1>2, FewerOf DEF Rank
<1>4. Rank(S, b) < Cardinality(S)
  BY <1>1, <1>2, FewerOf DEF Rank
<1>5. ASSUME NEW x \in S, NEW y \in S, x.at < y.at PROVE Rank(S, x) < Rank(S, y)
  <2>1. ASSUME NEW z \in Earlier(S, x) PROVE z \in Earlier(S, y)
    <3>1. z \in S /\ z.at < x.at
      BY DEF Earlier
    <3>2. z.at \in Int /\ x.at \in Int /\ y.at \in Int
      BY <1>1, <3>1
    <3>3. z.at < y.at
      BY <1>5, <3>1, <3>2
    <3> QED
      BY <3>1, <3>3 DEF Earlier
  <2>2. x \in Earlier(S, y)
    BY <1>5 DEF Earlier
  <2>3. x \notin Earlier(S, x)
    BY <1>1 DEF Earlier
  <2>4. Earlier(S, x) \in SUBSET Earlier(S, y) /\ Earlier(S, x) # Earlier(S, y)
    BY <2>1, <2>2, <2>3
  <2> QED
    BY <1>3, <2>4, FewerOf DEF Rank
<1>6. Rank(S, b) < Rank(S, c) => b.at < c.at
  <2>1. b.at \in Int /\ c.at \in Int /\ (b.at = c.at => b = c)
    BY DEF Dated
  <2>2. CASE b.at = c.at
    BY <1>3, <2>1, <2>2
  <2>3. CASE c.at < b.at
    <3>1. Rank(S, c) < Rank(S, b) /\ Rank(S, c) \in Nat /\ Rank(S, b) \in Nat
      BY <1>3, <1>5, <2>3
    <3> QED
      BY <3>1
  <2> QED
    BY <2>1, <2>2, <2>3
<1> QED
  BY <1>3, <1>4, <1>5, <1>6

(* Sorted bars are all of them, each once and the earlier first.           *)
Sorted(S, list) ==
  /\ list \in Seq(S) /\ Len(list) = Cardinality(S) /\ Cardinality(S) \in Nat
  /\ list = [i \in 1 .. Len(list) |-> list[i]]
  /\ \A i, j \in 1 .. Len(list) : i < j => list[i].at < list[j].at
  /\ \A b \in S : \E i \in 1 .. Len(list) : list[i] = b
  /\ \A i \in 1 .. Len(list) : list[i] \in S

LEMMA ByOpenIs == ASSUME NEW S, Dated(S) PROVE Sorted(S, ByOpen(S))
<1> DEFINE n == Cardinality(S)
           ranks == 0 .. (n - 1)
           f == [b \in S |-> Rank(S, b)]
<1>1. n \in Nat
  BY FS_CardinalityType DEF Dated
<1>2. IsFiniteSet(ranks) /\ Cardinality(ranks) = n
  <2>1. IsFiniteSet(ranks) /\ Cardinality(ranks) = IF 0 > n - 1 THEN 0 ELSE n - 1 - 0 + 1
    BY <1>1, FS_Interval
  <2> QED
    BY <1>1, <2>1
<1>3. f \in Injection(S, ranks)
  <2>1. f \in [S -> ranks]
    <3> SUFFICES ASSUME NEW b \in S PROVE Rank(S, b) \in ranks
      OBVIOUS
    <3>1. Rank(S, b) \in Nat /\ Rank(S, b) < n
      BY RanksGrow
    <3> QED
      BY <1>1, <3>1
  <2>2. \A b, c \in S : f[b] = f[c] => b = c
    <3> SUFFICES ASSUME NEW b \in S, NEW c \in S, b # c PROVE f[b] # f[c]
      OBVIOUS
    <3>1. b.at < c.at \/ c.at < b.at
      <4>1. b.at \in Int /\ c.at \in Int /\ b.at # c.at
        BY DEF Dated
      <4> QED
        BY <4>1
    <3>2. Rank(S, b) < Rank(S, c) \/ Rank(S, c) < Rank(S, b)
      BY <3>1, RanksGrow
    <3>3. Rank(S, b) \in Nat /\ Rank(S, c) \in Nat
      <4>1. Rank(S, b) \in Nat
        BY RanksGrow
      <4>2. Rank(S, c) \in Nat
        BY RanksGrow
      <4> QED
        BY <4>1, <4>2
    <3> QED
      BY <3>2, <3>3
  <2> HIDE DEF f
  <2> QED
    BY <2>1, <2>2 DEF Injection, IsInjective
<1>4. f \in Surjection(S, ranks)
  <2> HIDE DEF f, n, ranks
  <2>1. Cardinality(S) = Cardinality(ranks)
    BY <1>2 DEF n
  <2> QED
    BY <1>2, <1>3, <2>1, FS_Injection
<1>5. \A r \in ranks : \E b \in S : Rank(S, b) = r
  <2>1. \A r \in ranks : \E b \in S : f[b] = r
    <3> HIDE DEF f
    <3> QED
      BY <1>4 DEF Surjection
  <2> QED
    BY <2>1
<1> DEFINE at(i) == CHOOSE b \in S : Rank(S, b) = i - 1
<1>6. ByOpen(S) = [i \in 1 .. n |-> at(i)]
  BY DEF ByOpen, Rank
<1>7. \A i \in 1 .. n : at(i) \in S /\ Rank(S, at(i)) = i - 1
  <2> SUFFICES ASSUME NEW i \in 1 .. n PROVE at(i) \in S /\ Rank(S, at(i)) = i - 1
    OBVIOUS
  <2>1. i - 1 \in ranks
    BY <1>1
  <2>2. \E b \in S : Rank(S, b) = i - 1
    BY <1>5, <2>1
  <2> QED
    BY <2>2
<1> HIDE DEF at, f
<1>8. ByOpen(S) \in Seq(S) /\ Len(ByOpen(S)) = n
  BY <1>1, <1>6, <1>7
<1>9. ASSUME NEW i \in 1 .. n, NEW j \in 1 .. n, i < j PROVE ByOpen(S)[i].at < ByOpen(S)[j].at
  <2>1. ByOpen(S)[i] = at(i) /\ ByOpen(S)[j] = at(j)
    BY <1>6
  <2>2. Rank(S, at(i)) < Rank(S, at(j))
    BY <1>7, <1>9
  <2>3. at(i) \in S /\ at(j) \in S
    BY <1>7
  <2>4. at(i).at < at(j).at
    BY <2>2, <2>3, RanksGrow
  <2> QED
    BY <2>1, <2>4
<1>10. ASSUME NEW b \in S PROVE \E i \in 1 .. n : ByOpen(S)[i] = b
  <2> DEFINE r == Rank(S, b)
             c == at(r + 1)
  <2>1. r \in 0 .. (n - 1) /\ r + 1 \in 1 .. n /\ r \in Int
    <3>1. r \in Nat /\ r < n
      BY RanksGrow
    <3> QED
      BY <1>1, <3>1
  <2>2. Rank(S, c) = r /\ c \in S
    BY <1>7, <2>1
  <2>3. c = b
    <3> HIDE DEF c
    <3>2. b.at < c.at => Rank(S, b) < Rank(S, c)
      BY <2>2, RanksGrow
    <3>3. c.at < b.at => Rank(S, c) < Rank(S, b)
      BY <2>2, RanksGrow
    <3>4. c.at \in Int /\ b.at \in Int /\ ~(c.at < b.at) /\ ~(b.at < c.at)
      BY <2>1, <2>2, <3>2, <3>3 DEF r, Dated
    <3>5. c.at = b.at
      BY <3>4
    <3> QED
      BY <2>2, <3>5 DEF Dated
  <2> HIDE DEF r
  <2> QED
    BY <1>6, <2>1, <2>3
<1>11. ByOpen(S) = [i \in 1 .. Len(ByOpen(S)) |-> ByOpen(S)[i]] /\ \A i \in 1 .. n : ByOpen(S)[i] \in S
  BY <1>6, <1>7, <1>8
<1> QED
  BY <1>1, <1>8, <1>9, <1>10, <1>11 DEF Sorted

(* Of some bars there is a first and a last.                               *)
LEMMA EndsExist ==
  ASSUME NEW S, Dated(S), S # {}
  PROVE  /\ \E b \in S : \A c \in S : b.at <= c.at
         /\ \E b \in S : \A c \in S : c.at <= b.at
<1> DEFINE list == ByOpen(S)
           n == Len(list)
<1>1. /\ n \in Nat /\ \A i, j \in 1 .. n : i < j => list[i].at < list[j].at
      /\ \A b \in S : \E i \in 1 .. n : list[i] = b
      /\ \A i \in 1 .. n : list[i] \in S
  BY ByOpenIs DEF Sorted
<1> HIDE DEF list, n
<1>2. n > 0 /\ 1 \in 1 .. n /\ n \in 1 .. n
  BY <1>1
<1>3. \A i \in 1 .. n : list[i].at \in Int
  BY <1>1 DEF Dated
<1>4. \A i \in 1 .. n : list[1].at <= list[i].at /\ list[i].at <= list[n].at
  <2> SUFFICES ASSUME NEW i \in 1 .. n PROVE list[1].at <= list[i].at /\ list[i].at <= list[n].at
    OBVIOUS
  <2>1. i = 1 \/ 1 < i
    OBVIOUS
  <2>2. i = n \/ i < n
    BY <1>1
  <2>3. 1 < i => list[1].at < list[i].at
    BY <1>1, <1>2
  <2>4. i < n => list[i].at < list[n].at
    BY <1>1, <1>2
  <2> QED
    BY <1>2, <1>3, <2>1, <2>2, <2>3, <2>4
<1>5. \A c \in S : list[1].at <= c.at /\ c.at <= list[n].at
  BY <1>1, <1>4
<1>6. list[1] \in S /\ list[n] \in S
  BY <1>1, <1>2
<1> QED
  BY <1>5, <1>6

-----------------------------------------------------------------------------
(* The bars of a range, loaded in chunks.                                  *)

Later(S, b) == {c \in S : c.at > b.at}
Latest(S) == {b \in S : Cardinality(Later(S, b)) < MaxLimit}

(* The last of some bars: all of them or as many as asked for, none        *)
(* without those that come after it, and some if there are any.            *)
LEMMA LastIs ==
  ASSUME NEW S, Dated(S)
  PROVE  /\ Latest(S) \in SUBSET S
         /\ \A b \in Latest(S), c \in S : c.at >= b.at => c \in Latest(S)
         /\ Latest(S) = S \/ Cardinality(Latest(S)) >= MaxLimit
         /\ S # {} => Latest(S) # {}
<1> DEFINE T == Latest(S)
<1>1. IsFiniteSet(S) /\ \A b \in S : b.at \in Int
  BY DEF Dated
<1>2. \A b \in S : Later(S, b) \in SUBSET S
  BY DEF Later
<1>3. \A b \in S : IsFiniteSet(Later(S, b)) /\ Cardinality(Later(S, b)) \in Nat
  BY <1>1, <1>2, FewerOf
<1>4. MaxLimit \in Nat \ {0}
  BY HistoryAssumption
<1>5. ASSUME NEW b \in T, NEW c \in S, c.at >= b.at PROVE c \in T
  <2>1. b \in S /\ Cardinality(Later(S, b)) < MaxLimit
    BY DEF Latest
  <2>2. Later(S, c) \in SUBSET Later(S, b)
    <3> SUFFICES ASSUME NEW x \in Later(S, c) PROVE x \in Later(S, b)
      OBVIOUS
    <3>1. x \in S /\ x.at > c.at /\ x.at \in Int /\ c.at \in Int /\ b.at \in Int
      BY <1>1, <2>1 DEF Later
    <3>2. x.at > b.at
      BY <1>5, <3>1
    <3> QED
      BY <3>1, <3>2 DEF Later
  <2>3. Cardinality(Later(S, c)) <= Cardinality(Later(S, b))
    BY <1>3, <2>1, <2>2, FewerOf
  <2>4. Cardinality(Later(S, c)) < MaxLimit
    BY <1>3, <1>4, <2>1, <2>3
  <2> QED
    BY <2>4 DEF Latest
<1>6. T \in SUBSET S
  BY DEF Latest
<1>7. ASSUME T # S PROVE Cardinality(T) >= MaxLimit
  <2> DEFINE U == S \ T
  <2>1. U \in SUBSET S /\ U # {}
    BY <1>6, <1>7
  <2>2. Dated(U)
    BY <2>1, DatedPart
  <2> HIDE DEF U
  <2>3. PICK b \in U : \A c \in U : c.at <= b.at
    BY <2>1, <2>2, EndsExist
  <2>4. b \in S /\ b \notin T
    BY <2>3 DEF U
  <2>5. Later(S, b) \in SUBSET T
    <3> SUFFICES ASSUME NEW x \in Later(S, b) PROVE x \in T
      OBVIOUS
    <3>1. x \in S /\ x.at > b.at /\ x.at \in Int /\ b.at \in Int
      BY <1>1, <2>4 DEF Later
    <3>2. ~(x.at <= b.at)
      BY <3>1
    <3>3. x \notin U
      BY <2>3, <3>2
    <3> QED
      BY <3>1, <3>3 DEF U
  <2>6. IsFiniteSet(T)
    BY <1>1, <1>6, FewerOf
  <2>7. Cardinality(Later(S, b)) <= Cardinality(T) /\ Cardinality(T) \in Nat /\ Cardinality(Later(S, b)) \in Nat
    BY <2>5, <2>6, FewerOf
  <2>8. ~(Cardinality(Later(S, b)) < MaxLimit)
    BY <2>4 DEF Latest
  <2> QED
    BY <1>4, <2>7, <2>8
<1>8. ASSUME S # {} PROVE T # {}
  <2>1. PICK b \in S : \A c \in S : c.at <= b.at
    BY <1>8, EndsExist
  <2>2. Later(S, b) = {}
    <3> SUFFICES ASSUME NEW x \in Later(S, b) PROVE FALSE
      OBVIOUS
    <3>1. x \in S /\ x.at > b.at /\ x.at \in Int /\ b.at \in Int /\ x.at <= b.at
      BY <1>1, <2>1 DEF Later
    <3> QED
      BY <3>1
  <2>3. Cardinality(Later(S, b)) = 0
    BY <2>2, FS_EmptySet
  <2>4. b \in T
    BY <1>4, <2>3 DEF Latest
  <2> QED
    BY <2>4
<1> QED
  BY <1>5, <1>6, <1>7, <1>8

(* Of a market that there is, what the assumption says.                    *)
Sound(m) ==
  /\ Dated(m.stored) /\ \A b \in m.stored : SoundBar(b)
  /\ m.start \in Int /\ m.end \in Int /\ Cardinality(InRange(m)) <= MaxLimit * MaxLoads
  /\ m.steps \in Seq(Range(m.steps)) /\ Ordered(m.steps) /\ Len(m.steps) \in Nat
  /\ \A k \in 1 .. Len(m.steps) : SoundStep(m.steps[k]) /\ m.steps[k].close \in m.start .. m.end
  /\ m.costs.half \in Int /\ m.costs.slip \in Int
  /\ \A k \in 1 .. Len(m.variants) : m.variants[k] \in Int
  /\ m.segments \in Nat \ {0} /\ m.outOfSample \in Int

LEMMA MarketsAreSound == \A i \in DOMAIN Markets : Sound(Markets[i])
<1> SUFFICES ASSUME NEW i \in DOMAIN Markets PROVE Sound(Markets[i])
  OBVIOUS
<1> DEFINE m == Markets[i]
<1>1. /\ IsFiniteSet(m.stored) /\ \A b \in m.stored : SoundBar(b)
      /\ \A b, c \in m.stored : b.at = c.at => b = c
      /\ {m.start, m.end} \subseteq Int /\ Cardinality(InRange(m)) <= MaxLimit * MaxLoads
      /\ m.steps \in Seq(Range(m.steps)) /\ Ordered(m.steps)
      /\ \A k \in 1 .. Len(m.steps) : SoundStep(m.steps[k]) /\ m.steps[k].close \in m.start .. m.end
      /\ {m.costs.half, m.costs.slip, m.costs.commission} \subseteq Int
      /\ \A k \in 1 .. Len(m.variants) : m.variants[k] \in Int
      /\ m.segments \in Nat \ {0} /\ m.outOfSample \in Int
  BY HistoryAssumption
<1>2. Len(m.steps) \in Nat
  BY RunsAssumption
<1> HIDE DEF m
<1>3. \A b \in m.stored : b.at \in Int
  BY <1>1 DEF SoundBar
<1>4. Dated(m.stored)
  BY <1>1, <1>3 DEF Dated
<1>5. Sound(m)
  BY <1>1, <1>2, <1>4 DEF Sound
<1> QED
  BY <1>5 DEF m

LEMMA InRangeIs ==
  ASSUME NEW m, Sound(m)
  PROVE  /\ InRange(m) \in SUBSET m.stored /\ Dated(InRange(m)) /\ IsFiniteSet(InRange(m))
         /\ Cardinality(InRange(m)) \in Nat
         /\ \A b \in InRange(m) : SoundBar(b) /\ b.at \in Int /\ b.at >= m.start /\ b.at + 1 <= m.end
<1>1. InRange(m) \in SUBSET m.stored
  BY DEF InRange
<1>2. Dated(InRange(m))
  BY <1>1, DatedPart DEF Sound
<1>3. IsFiniteSet(InRange(m)) /\ Cardinality(InRange(m)) \in Nat
  BY <1>2, FS_CardinalityType DEF Dated
<1>4. \A b \in InRange(m) : SoundBar(b) /\ b.at \in Int /\ b.at >= m.start /\ b.at + 1 <= m.end
  BY <1>1, <1>2 DEF InRange, Sound, Dated, P!CloseOf
<1> QED
  BY <1>1, <1>2, <1>3, <1>4

(* What k loads bring: all of the range, or everything down to where the   *)
(* next one ends, which is at least k full loads.                          *)
LoadIs(m, k, load) ==
  /\ load = [bars |-> load.bars, more |-> load.more, until |-> load.until]
  /\ load.bars \in SUBSET InRange(m) /\ load.more \in BOOLEAN /\ load.until \in Int /\ load.until <= m.end
  /\ ~load.more => load.bars = InRange(m)
  /\ load.more => /\ load.bars = {b \in InRange(m) : b.at >= load.until}
                  /\ load.bars = InRange(m) \/ Cardinality(load.bars) >= k * MaxLimit

LEMMA LoadMoreIs ==
  ASSUME NEW m, Sound(m), NEW k \in Nat, NEW load, LoadIs(m, k, load)
  PROVE  LoadIs(m, k + 1, LoadMore(m, load))
<1> DEFINE R == InRange(m)
           S == ClosedBy(m.stored, load.until)
           chunk == Chunk(m.stored, load.until)
           new == {b \in chunk : b.at >= m.start} \ load.bars
           ats == {b.at : b \in chunk}
           next == [bars  |-> load.bars \cup new,
                    more  |-> new # {} /\ Min(ats) > m.start,
                    until |-> IF chunk = {} THEN load.until ELSE NextEnd(chunk)]
<1>1. LoadMore(m, load) = IF ~load.more THEN load ELSE next
  BY DEF LoadMore
<1>2. CASE ~load.more
  <2>1. LoadMore(m, load) = load
    BY <1>1, <1>2
  <2>2. LoadIs(m, k + 1, load)
    BY <1>2 DEF LoadIs
  <2> QED
    BY <2>1, <2>2
<1>3. CASE load.more
  <2>1. /\ load.bars \in SUBSET R /\ load.until \in Int /\ load.until <= m.end
        /\ load.bars = {b \in R : b.at >= load.until}
        /\ load.bars = R \/ Cardinality(load.bars) >= k * MaxLimit
    BY <1>3 DEF LoadIs
  <2>2. S \in SUBSET m.stored /\ Dated(S) /\ \A b \in m.stored : b \in S <=> b.at + 1 <= load.until
    <3>1. S \in SUBSET m.stored /\ \A b \in m.stored : b \in S <=> b.at + 1 <= load.until
      BY DEF ClosedBy, P!CloseOf
    <3> QED
      BY <3>1, DatedPart DEF Sound
  <2>3. chunk = Latest(S)
    BY DEF Chunk, Latest, Later
  <2>4. /\ R \in SUBSET m.stored /\ IsFiniteSet(R) /\ Cardinality(R) \in Nat /\ m.start \in Int /\ m.end \in Int
        /\ \A b \in R : b.at \in Int /\ b.at >= m.start /\ b.at + 1 <= m.end
        /\ \A b \in m.stored : b.at >= m.start /\ b.at + 1 <= m.end => b \in R
    BY InRangeIs DEF InRange, P!CloseOf, Sound
  <2> HIDE DEF S, R, chunk
  <2>5. /\ chunk \in SUBSET S /\ \A b \in chunk, c \in S : c.at >= b.at => c \in chunk
        /\ chunk = S \/ Cardinality(chunk) >= MaxLimit
        /\ S # {} => chunk # {}
    BY <2>2, <2>3, LastIs
  <2>6. \A b \in chunk : b \in m.stored /\ b.at \in Int /\ b.at < load.until
    <3>1. \A b \in m.stored : b.at \in Int
      BY DEF Sound, Dated
    <3> QED
      BY <2>1, <2>2, <2>5, <3>1
  <2>7. new = {b \in chunk : b.at >= m.start} /\ new \in SUBSET R /\ new \cap load.bars = {}
    <3>1. \A b \in chunk : b \notin load.bars
      BY <2>1, <2>6
    <3>2. \A b \in chunk : b.at >= m.start => b \in R
      BY <2>1, <2>4, <2>6
    <3> QED
      BY <3>1, <3>2
  <2> HIDE DEF new
  <2>8. CASE chunk = {}
    <3>1. S = {} /\ new = {}
      BY <2>5, <2>7, <2>8
    <3>2. load.bars = R
      <4>1. \A b \in R : b \in load.bars
        <5> SUFFICES ASSUME NEW b \in R PROVE b \in load.bars
          OBVIOUS
        <5>1. ~(b.at + 1 <= load.until) /\ b.at \in Int
          BY <2>2, <2>4, <3>1
        <5> QED
          BY <2>1, <5>1
      <4> QED
        BY <2>1, <4>1
    <3>3. next = [bars |-> R, more |-> FALSE, until |-> load.until]
      BY <2>8, <3>1, <3>2
    <3> HIDE DEF next
    <3>4. LoadIs(m, k + 1, next)
      BY <2>1, <3>3 DEF LoadIs, R
    <3> QED
      BY <1>1, <1>3, <3>4
  <2>9. CASE chunk # {}
    <3> DEFINE e == NextEnd(chunk)
    <3>1. e \in Int /\ e = Min(ats) /\ (\A b \in chunk : e <= b.at) /\ \E b \in chunk : b.at = e
      <4>1. Dated(chunk)
        BY <2>2, <2>5, DatedPart
      <4>2. PICK b \in chunk : \A c \in chunk : b.at <= c.at
        BY <2>9, <4>1, EndsExist
      <4>3. b.at \in ats /\ \A y \in ats : b.at <= y
        BY <4>2
      <4>4. Min(ats) \in ats /\ \A y \in ats : Min(ats) <= y
        BY <4>3, Zenon DEF Min
      <4>5. e = Min(ats)
        BY DEF NextEnd
      <4> HIDE DEF e
      <4> QED
        BY <2>6, <4>4, <4>5
    <3> HIDE DEF e, ats
    <3>2. e < load.until /\ e <= m.end
      BY <2>1, <2>4, <2>6, <3>1
    <3> DEFINE grown == load.bars \cup new
    <3>3. grown = {b \in R : b.at >= e}
      <4>1. ASSUME NEW b \in R, b.at >= e PROVE b \in grown
        <5>1. b.at \in Int /\ b \in m.stored
          BY <2>4
        <5>2. CASE b.at >= load.until
          BY <2>1, <5>2
        <5>3. CASE ~(b.at >= load.until)
          <6>1. b \in S
            BY <2>1, <2>2, <5>1, <5>3
          <6>2. PICK c \in chunk : c.at = e
            BY <3>1
          <6>3. b \in chunk
            BY <2>5, <4>1, <6>1, <6>2
          <6> QED
            BY <2>4, <2>7, <6>3
        <5> QED
          BY <5>2, <5>3
      <4>2. ASSUME NEW b \in grown PROVE b \in R /\ b.at >= e
        <5>1. CASE b \in load.bars
          BY <2>1, <2>4, <3>1, <3>2, <5>1
        <5>2. CASE b \in new
          BY <2>6, <2>7, <3>1, <5>2
        <5> QED
          BY <4>2, <5>1, <5>2
      <4> QED
        BY <4>1, <4>2
    <3> DEFINE go == new # {} /\ Min(ats) > m.start
    <3>4. next = [bars |-> grown, more |-> go, until |-> e]
      BY <2>9 DEF e
    <3>5. ~go => grown = R
      <4>1. CASE new = {}
        <5>1. PICK b \in chunk : b.at = e
          BY <3>1
        <5>2. ~(e >= m.start)
          BY <2>7, <4>1, <5>1
        <5> QED
          BY <2>4, <3>1, <3>3, <5>2
      <4>2. CASE ~(Min(ats) > m.start)
        BY <2>4, <3>1, <3>3, <4>2
      <4> QED
        BY <4>1, <4>2
    <3>6. ASSUME go PROVE grown = R \/ Cardinality(grown) >= (k + 1) * MaxLimit
      <4>1. new = chunk
        BY <2>4, <2>6, <2>7, <3>1, <3>6
      <4>2. CASE chunk = S
        <5>1. \A b \in R : b.at >= load.until \/ b \in S
          BY <2>1, <2>2, <2>4
        <5>2. \A b \in R : b \in grown
          BY <2>1, <4>1, <4>2, <5>1
        <5> QED
          BY <2>1, <2>7, <5>2
      <4>3. CASE load.bars = R
        BY <2>7, <4>3
      <4>4. CASE Cardinality(chunk) >= MaxLimit /\ Cardinality(load.bars) >= k * MaxLimit
        <5>1. IsFiniteSet(load.bars) /\ IsFiniteSet(new) /\ Cardinality(load.bars) \in Nat /\ Cardinality(new) \in Nat
          BY <2>1, <2>4, <2>7, FewerOf
        <5>2. Cardinality(grown) = Cardinality(load.bars) + Cardinality(new) - Cardinality(load.bars \cap new)
          BY <5>1, FS_Union
        <5>3. Cardinality(load.bars \cap new) = 0
          <6>1. load.bars \cap new = {}
            BY <2>7
          <6> QED
            BY <6>1, FS_EmptySet
        <5>4. MaxLimit \in Nat /\ k * MaxLimit \in Nat /\ (k + 1) * MaxLimit = k * MaxLimit + MaxLimit
          <6>1. MaxLimit \in Nat
            BY HistoryAssumption
          <6>2. \A x, y \in Nat : x * y \in Nat /\ (x + 1) * y = x * y + y
            OBVIOUS
          <6> QED
            BY <6>1, <6>2
        <5> HIDE DEF grown
        <5>5. Cardinality(grown) = Cardinality(load.bars) + Cardinality(new)
          BY <5>1, <5>2, <5>3
        <5> DEFINE x == Cardinality(grown)
                   y == Cardinality(load.bars)
                   z == Cardinality(new)
                   u == k * MaxLimit
        <5>6. x = y + z /\ y >= u /\ z >= MaxLimit /\ y \in Nat /\ z \in Nat /\ u \in Nat /\ MaxLimit \in Nat
          BY <4>1, <4>4, <5>1, <5>4, <5>5
        <5> HIDE DEF x, y, z, u
        <5>7. x >= u + MaxLimit
          BY <5>6
        <5> QED
          BY <5>4, <5>7 DEF x, u
      <4> QED
        BY <2>1, <2>5, <4>2, <4>3, <4>4
    <3> HIDE DEF next
    <3>7. next.bars = grown /\ next.more = go /\ next.until = e
      BY <3>4
    <3>8. grown \in SUBSET R
      BY <2>1, <2>7
    <3>9. go \in BOOLEAN
      OBVIOUS
    <3> HIDE DEF go, grown
    <3>10. next = [bars |-> next.bars, more |-> next.more, until |-> next.until]
      BY <3>4
    <3>11. LoadIs(m, k + 1, next)
      <4>1. /\ next.bars \in SUBSET InRange(m) /\ next.more \in BOOLEAN /\ next.until \in Int /\ next.until <= m.end
            /\ ~next.more => next.bars = InRange(m)
            /\ next.more => /\ next.bars = {b \in InRange(m) : b.at >= next.until}
                            /\ next.bars = InRange(m) \/ Cardinality(next.bars) >= (k + 1) * MaxLimit
        BY <3>1, <3>2, <3>3, <3>5, <3>6, <3>7, <3>8, <3>9 DEF R
      <4> QED
        BY <3>10, <4>1 DEF LoadIs
    <3> QED
      BY <1>1, <1>3, <3>11
  <2> QED
    BY <2>8, <2>9
<1> QED
  BY <1>2, <1>3 DEF LoadIs

(* The last of the numbers up to k, and the rest of them.                  *)
LEMMA LastNumber ==
  ASSUME NEW n \in Nat, NEW k \in 1 .. n
  PROVE  /\ 1 .. k \in SUBSET (1 .. n) /\ 1 .. k # {} /\ Max(1 .. k) = k
         /\ (1 .. k) \ {Max(1 .. k)} = 1 .. (k - 1) /\ 1 .. (k - 1) \in SUBSET (1 .. n)
<1>1. 1 .. k \in SUBSET (1 .. n) /\ 1 .. k # {} /\ 1 .. (k - 1) \in SUBSET (1 .. n)
  OBVIOUS
<1>2. Max(1 .. k) \in 1 .. k /\ \A i \in 1 .. k : i <= Max(1 .. k)
  BY <1>1, MaxIsLast
<1>3. Max(1 .. k) = k
  BY <1>2
<1>4. (1 .. k) \ {k} = 1 .. (k - 1)
  OBVIOUS
<1> QED
  BY <1>1, <1>3, <1>4

(* However a range is cut into chunks, its bars are all loaded, in order.  *)
LEMMA LoadIsRange == ASSUME NEW m, Sound(m) PROVE Load(m) = ByOpen(InRange(m))
<1> DEFINE R == InRange(m)
           n == MaxLoads
           base == NoLoad(m)
           seq == [i \in 1 .. n |-> i]
           V == {v \in [bars : SUBSET R, more : BOOLEAN, until : Int] : \E k \in Nat : LoadIs(m, k, v)}
           It(f) == f = [s \in SUBSET (DOMAIN seq) |-> IF s = {} THEN base ELSE LoadMore(m, f[s \ {Max(s)}])]
           g == CHOOSE f : It(f)
<1>1. Load(m) = ByOpen(g[DOMAIN seq].bars)
  BY Zenon DEF Load, FoldLeft, MapThenFoldSet
<1>2. n \in Nat /\ DOMAIN seq = 1 .. n
  BY HistoryAssumption
<1> HIDE DEF seq
<1>3. \A k \in Nat : \A v : LoadIs(m, k, v) => v \in [bars : SUBSET R, more : BOOLEAN, until : Int]
  <2> SUFFICES ASSUME NEW k \in Nat, NEW v, LoadIs(m, k, v) PROVE v \in [bars : SUBSET R, more : BOOLEAN, until : Int]
    OBVIOUS
  <2>1. v = [bars |-> v.bars, more |-> v.more, until |-> v.until] /\ v.bars \in SUBSET R /\ v.more \in BOOLEAN /\ v.until \in Int
    BY DEF LoadIs
  <2> HIDE DEF R
  <2> QED
    BY <2>1
<1>4. LoadIs(m, 0, base)
  <2>1. \A b \in R : b.at \in Int /\ b.at + 1 <= m.end
    BY InRangeIs
  <2>2. m.end \in Int /\ {} = {b \in R : b.at >= m.end}
    BY <2>1 DEF Sound
  <2>3. Cardinality({}) >= 0 * MaxLimit
    BY FS_EmptySet, HistoryAssumption
  <2> QED
    BY <2>2, <2>3 DEF NoLoad, LoadIs, R
<1>5. base \in V
  BY <1>3, <1>4
<1>6. \A v \in V : LoadMore(m, v) \in V
  BY <1>3, LoadMoreIs
<1> HIDE DEF V, base
<1>7. \E f : It(f)
  <2> DEFINE step == [q \in (1 .. n) \X V |-> LoadMore(m, q[2])]
  <2>1. \A i \in 1 .. n : \A v \in V : step[<<i, v>>] = LoadMore(m, v)
    OBVIOUS
  <2> HIDE DEF step
  <2>2. PICK f \in [SUBSET (1 .. n) -> V] : TakesSteps(f, n, base, step)
    <3>1. \A i \in 1 .. n : \A v \in V : step[<<i, v>>] \in V
      BY <1>6, <2>1
    <3> QED BY <1>2, <1>5, <3>1, FoldExists, Zenon
  <2>3. ASSUME NEW s \in SUBSET (1 .. n), s # {} PROVE f[s] = LoadMore(m, f[s \ {Max(s)}])
    <3>1. Max(s) \in 1 .. n
      BY <1>2, <2>3, MaxIsLast
    <3>2. f[s \ {Max(s)}] \in V
      OBVIOUS
    <3> QED BY <2>1, <2>2, <2>3, <3>1, <3>2 DEF TakesSteps
  <2>4. \A s \in SUBSET (1 .. n) : f[s] = IF s = {} THEN base ELSE LoadMore(m, f[s \ {Max(s)}])
    BY <2>2, <2>3 DEF TakesSteps
  <2>5. f = [s \in SUBSET (1 .. n) |-> IF s = {} THEN base ELSE LoadMore(m, f[s \ {Max(s)}])]
    BY <2>4
  <2>6. It(f)
    BY <1>2, <2>5
  <2> HIDE DEF It
  <2> QED BY <2>6
<1>8. It(g)
  <2> HIDE DEF It
  <2> QED BY <1>7
<1> HIDE DEF g
<1>9. \A s \in SUBSET (1 .. n) : g[s] = IF s = {} THEN base ELSE LoadMore(m, g[s \ {Max(s)}])
  BY <1>2, <1>8
<1> HIDE DEF It
<1> DEFINE Q == {k \in 0 .. n : LoadIs(m, k, g[1 .. k])}
<1>10. 0 \in Q
  <2>1. 1 .. 0 = {} /\ {} \in SUBSET (1 .. n) /\ 0 \in 0 .. n
    BY <1>2
  <2> QED BY <1>4, <1>9, <2>1
<1>11. ASSUME NEW k \in 1 .. n, k - 1 \in Q PROVE k \in Q
  <2>1. g[1 .. k] = LoadMore(m, g[1 .. (k - 1)])
    BY <1>2, <1>9, LastNumber
  <2>2. k - 1 \in Nat /\ k - 1 + 1 = k /\ k \in 0 .. n
    OBVIOUS
  <2>3. LoadIs(m, k - 1 + 1, LoadMore(m, g[1 .. (k - 1)]))
    BY <1>11, <2>2, LoadMoreIs
  <2> QED BY <2>1, <2>2, <2>3
<1> HIDE DEF Q
<1>12. n \in Q
  <2>1. \A i \in 0 .. n : i \in Q
    BY <1>2, <1>10, <1>11, UpTo
  <2> QED BY <1>2, <2>1
<1> DEFINE all == g[1 .. n]
<1>13. LoadIs(m, n, all)
  BY <1>12 DEF Q
<1> HIDE DEF all
<1>14. all.bars = R
  <2>1. all.bars \in SUBSET R /\ (all.bars = R \/ Cardinality(all.bars) >= n * MaxLimit)
    BY <1>13 DEF LoadIs
  <2>2. IsFiniteSet(R) /\ Cardinality(R) <= MaxLimit * n
    BY InRangeIs DEF Sound
  <2>3. n * MaxLimit = MaxLimit * n /\ n * MaxLimit \in Nat
    BY HistoryAssumption
  <2> HIDE DEF R, n
  <2>4. all.bars # R => Cardinality(all.bars) < Cardinality(R) /\ Cardinality(all.bars) \in Nat /\ Cardinality(R) \in Nat
    BY <2>1, <2>2, FewerOf
  <2> QED BY <2>1, <2>2, <2>3, <2>4
<1> QED
  BY <1>1, <1>2, <1>14 DEF all

-----------------------------------------------------------------------------
(* One bar against one order.                                              *)

OrderIs(m, p) ==
  /\ p.side \in {-1, 1} /\ p.limit \in Int /\ p.stop \in Int /\ p.target \in Int
  /\ p.created \in Int /\ p.half \in Int /\ p.slip \in Int
  /\ p.side * (p.limit - p.stop) > 0 /\ p.side * (p.target - p.limit) > 0
  /\ p.created >= m.start /\ p \in Orders


(* Prices of an order and a bar are integers.                              *)
LEMMA PricesAre ==
  ASSUME NEW m, NEW p, OrderIs(m, p), NEW bar, SoundBar(bar)
  PROVE  /\ bar.at \in Int /\ P!CloseOf(bar) \in Int /\ P!CloseOf(bar) = bar.at + 1
         /\ P!Entering(p, bar.open) \in Int
         /\ P!Leaving(p, bar.open) \in Int
         /\ P!Leaving(p, P!Low(p, bar)) \in Int /\ P!Leaving(p, P!High(p, bar)) \in Int
         /\ p.side * p.slip \in Int
<1>1. bar.at \in Int /\ bar.open \in Int /\ bar.high \in Int /\ bar.low \in Int
  BY DEF SoundBar
<1>2. P!Low(p, bar) \in Int /\ P!High(p, bar) \in Int
  BY <1>1 DEF P!Low, P!High
<1>3. \A x \in Int : P!Leaving(p, x) \in Int /\ P!Entering(p, x) \in Int
  BY DEF P!Leaving, P!Entering, OrderIs
<1>4. p.side * p.slip \in Int
  BY DEF OrderIs
<1> QED
  BY <1>1, <1>2, <1>3, <1>4 DEF P!CloseOf

(* What a bar opens beyond it reaches.                                     *)
LEMMA OpenIsReached ==
  ASSUME NEW m, NEW p, OrderIs(m, p), NEW bar, SoundBar(bar)
  PROVE  /\ P!OpensThrough(p, bar) => P!Reaches(p, bar)
         /\ P!AtLeast(p, p.stop, P!Leaving(p, bar.open)) => P!AtLeast(p, p.stop, P!Leaving(p, P!Low(p, bar)))
         /\ P!AtLeast(p, P!Leaving(p, bar.open), p.target) => P!AtLeast(p, P!Leaving(p, P!High(p, bar)), p.target)
<1>1. /\ bar.open \in Int /\ bar.high \in Int /\ bar.low \in Int /\ bar.low <= bar.open /\ bar.open <= bar.high
  BY DEF SoundBar
<1>2. p.limit \in Int /\ p.stop \in Int /\ p.target \in Int /\ p.half \in Int
  BY DEF OrderIs
<1>3. CASE p.side = 1
  BY <1>1, <1>2, <1>3 DEF P!OpensThrough, P!Reaches, P!AtLeast, P!Leaving, P!Entering, P!Low, P!High
<1>4. CASE p.side = -1
  BY <1>1, <1>2, <1>4 DEF P!OpensThrough, P!Reaches, P!AtLeast, P!Leaving, P!Entering, P!Low, P!High
<1> QED
  BY <1>3, <1>4 DEF OrderIs

(* An open position comes out of a bar as the engine without prices says.  *)
LEMMA ManagedIs ==
  ASSUME NEW m, NEW p, OrderIs(m, p), NEW bar, SoundBar(bar), NEW sim, NEW intrabar \in BOOLEAN
  PROVE  LET why == P!ExitReason(P!Seen(p, bar), intrabar)
         IN  /\ why \in {"none", "STOP", "TARGET"}
             /\ why = "none" => P!Managed(p, sim, bar, intrabar) = sim
             /\ why # "none" => \E price \in Int, ambiguous \in BOOLEAN :
                                   P!Managed(p, sim, bar, intrabar) = P!Close(sim, bar, why, price, ambiguous)
<1> DEFINE a == P!AtLeast(p, p.stop, P!Leaving(p, bar.open))
           b == P!AtLeast(p, p.stop, P!Leaving(p, P!Low(p, bar)))
           c == P!AtLeast(p, P!Leaving(p, bar.open), p.target)
           d == P!AtLeast(p, P!Leaving(p, P!High(p, bar)), p.target)
           why == P!ExitReason(P!Seen(p, bar), intrabar)
           open == P!Leaving(p, bar.open)
           slip == p.side * p.slip
<1>1. a \in BOOLEAN /\ b \in BOOLEAN /\ c \in BOOLEAN /\ d \in BOOLEAN /\ (a => b) /\ (c => d)
  BY OpenIsReached DEF P!AtLeast
<1>2. /\ P!Seen(p, bar).stop = IF a THEN "gap" ELSE IF b THEN "touch" ELSE "none"
      /\ P!Seen(p, bar).target = IF c THEN "gap" ELSE IF d THEN "touch" ELSE "none"
  BY DEF P!Seen
<1>3. why = IF ~b /\ (intrabar \/ ~d) THEN "none"
            ELSE IF intrabar \/ a \/ (b /\ ~c) THEN "STOP" ELSE "TARGET"
  <2> HIDE DEF a, b, c, d
  <2> QED
    BY <1>1, <1>2 DEF P!ExitReason
<1>4. P!Managed(p, sim, bar, intrabar) =
        IF ~intrabar /\ a THEN P!Close(sim, bar, "STOP", open - slip, FALSE)
        ELSE IF ~intrabar /\ c THEN P!Close(sim, bar, "TARGET", open, FALSE)
        ELSE IF b THEN P!Close(sim, bar, "STOP", p.stop - slip, (~intrabar /\ d) \/ intrabar)
        ELSE IF ~intrabar /\ d THEN P!Close(sim, bar, "TARGET", p.target, FALSE)
        ELSE sim
  BY DEF P!Managed
<1>5. open \in Int /\ slip \in Int /\ open - slip \in Int /\ p.stop - slip \in Int /\ p.target \in Int
  <2>1. open \in Int /\ slip \in Int
    BY PricesAre
  <2>2. p.stop \in Int /\ p.target \in Int
    BY DEF OrderIs
  <2> HIDE DEF open, slip
  <2> QED
    BY <2>1, <2>2
<1> HIDE DEF a, b, c, d, why, open, slip
<1>6. CASE ~intrabar /\ a
  <2>1. P!Managed(p, sim, bar, intrabar) = P!Close(sim, bar, "STOP", open - slip, FALSE) /\ why = "STOP"
    BY <1>1, <1>3, <1>4, <1>6
  <2> QED
    BY <1>5, <2>1 DEF why
<1>7. CASE ~(~intrabar /\ a) /\ ~intrabar /\ c
  <2>1. P!Managed(p, sim, bar, intrabar) = P!Close(sim, bar, "TARGET", open, FALSE) /\ why = "TARGET"
    BY <1>1, <1>3, <1>4, <1>7
  <2> QED
    BY <1>5, <2>1 DEF why
<1>8. CASE ~(~intrabar /\ a) /\ ~(~intrabar /\ c) /\ b
  <2> DEFINE amb == (~intrabar /\ d) \/ intrabar
  <2>1. P!Managed(p, sim, bar, intrabar) = P!Close(sim, bar, "STOP", p.stop - slip, amb) /\ why = "STOP"
    BY <1>1, <1>3, <1>4, <1>8
  <2>2. amb \in BOOLEAN
    OBVIOUS
  <2> HIDE DEF amb
  <2> QED
    BY <1>5, <2>1, <2>2 DEF why
<1>9. CASE ~(~intrabar /\ a) /\ ~(~intrabar /\ c) /\ ~b /\ ~intrabar /\ d
  <2>1. P!Managed(p, sim, bar, intrabar) = P!Close(sim, bar, "TARGET", p.target, FALSE) /\ why = "TARGET"
    BY <1>1, <1>3, <1>4, <1>9
  <2> QED
    BY <1>5, <2>1 DEF why
<1>10. CASE ~(~intrabar /\ a) /\ ~(~intrabar /\ c) /\ ~b /\ ~(~intrabar /\ d)
  <2>1. P!Managed(p, sim, bar, intrabar) = sim /\ why = "none"
    BY <1>1, <1>3, <1>4, <1>10
  <2> QED
    BY <2>1 DEF why
<1> QED
  BY <1>6, <1>7, <1>8, <1>9, <1>10

-----------------------------------------------------------------------------
(* The parts of a step.                                                    *)
LEMMA WaitsIs ==
  ASSUME NEW sim \in Sims, NEW bar, bar.at \in Int
  PROVE  LET new == P!Waits(sim, bar)
         IN  /\ new \in Sims /\ new.pending = sim.pending + 1 /\ new.thru = bar.at
             /\ new.fill = sim.fill /\ new.filled = sim.filled /\ new.reason = sim.reason
             /\ new.status = IF sim.pending + 1 >= ExpiryBars THEN "EXPIRED" ELSE sim.status
<1> DEFINE status == IF sim.pending + 1 >= ExpiryBars THEN "EXPIRED" ELSE sim.status
           count == sim.pending + 1
<1>1. P!Waits(sim, bar) = [sim EXCEPT !.pending = count, !.thru = bar.at, !.status = status]
  BY DEF P!Waits
<1>2. status \in P!Statuses /\ count \in Nat
  BY DEF P!Statuses, Sims
<1> HIDE DEF status, count
<1>3. [sim EXCEPT !.pending = count, !.thru = bar.at, !.status = status] \in Sims
  BY <1>2 DEF Sims, Maybe
<1> QED
  BY <1>1, <1>3 DEF Sims, status, count

LEMMA FilledIs ==
  ASSUME NEW m, NEW p, OrderIs(m, p), NEW sim \in Sims, NEW bar, SoundBar(bar)
  PROVE  LET new == P!Filled(p, sim, bar)
         IN  /\ new \in Sims /\ new.status = "OPEN" /\ new.filled = bar.at /\ new.reason = sim.reason
             /\ new.fill \in Int /\ P!AtLeast(p, p.limit, new.fill)
<1> DEFINE price == IF P!OpensThrough(p, bar) THEN P!Entering(p, bar.open) ELSE p.limit
<1>1. P!Filled(p, sim, bar) = [sim EXCEPT !.status = "OPEN", !.filled = bar.at, !.fill = price]
  BY DEF P!Filled
<1>2. price \in Int /\ P!AtLeast(p, p.limit, price) /\ bar.at \in Int
  <2>1. P!AtLeast(p, p.limit, p.limit)
    BY DEF P!AtLeast, OrderIs
  <2>2. p.limit \in Int
    BY DEF OrderIs
  <2> QED
    BY <2>1, <2>2, PricesAre DEF P!OpensThrough
<1> HIDE DEF price
<1>3. "OPEN" \in P!Statuses
  BY DEF P!Statuses, P!Active
<1> QED
  BY <1>1, <1>2, <1>3 DEF Sims, Maybe

LEMMA ExtendedIs ==
  ASSUME NEW m, NEW p, OrderIs(m, p), NEW sim \in Sims, NEW bar, SoundBar(bar)
  PROVE  LET new == P!Extended(p, sim, bar)
         IN  /\ new \in Sims /\ new.thru = bar.at /\ new.status = sim.status /\ new.reason = sim.reason
             /\ new.fill = sim.fill /\ new.filled = sim.filled
<1> DEFINE good == P!Leaving(p, P!High(p, bar))
           bad == P!Leaving(p, P!Low(p, bar))
           best == IF sim.best = Nothing \/ P!AtLeast(p, good, sim.best) THEN good ELSE sim.best
           worst == IF sim.worst = Nothing \/ P!AtLeast(p, sim.worst, bad) THEN bad ELSE sim.worst
<1>1. P!Extended(p, sim, bar) = [sim EXCEPT !.thru = bar.at, !.best = best, !.worst = worst]
  BY DEF P!Extended
<1>2. good \in Int /\ bad \in Int /\ bar.at \in Int
  BY PricesAre
<1> HIDE DEF good, bad
<1>3. best \in Maybe /\ worst \in Maybe
  BY <1>2 DEF Sims, Maybe
<1> HIDE DEF best, worst
<1> QED
  BY <1>1, <1>2, <1>3 DEF Sims, Maybe

LEMMA CloseIs ==
  ASSUME NEW sim \in Sims, NEW bar, bar.at \in Int, NEW why \in {"STOP", "TARGET"}, NEW price \in Int,
         NEW ambiguous \in BOOLEAN
  PROVE  LET new == P!Close(sim, bar, why, price, ambiguous)
         IN  /\ new \in Sims /\ new.status = "CLOSED" /\ new.reason = why /\ new.exited = P!CloseOf(bar)
             /\ new.fill = sim.fill /\ new.filled = sim.filled /\ new.thru = sim.thru
<1>1. "CLOSED" \in P!Statuses /\ why \in P!Reasons /\ P!CloseOf(bar) \in Int
  BY DEF P!Statuses, P!Reasons, P!CloseOf
<1> QED
  BY <1>1 DEF P!Close, Sims, Maybe

(* A position that is managed goes on or is closed for the reason that     *)
(* there is; its fill stays.                                               *)
LEMMA ManagedStep ==
  ASSUME NEW m, NEW p, OrderIs(m, p), NEW sim \in Sims, NEW bar, SoundBar(bar), NEW intrabar \in BOOLEAN,
         sim.status = "OPEN", sim.reason = "none"
  PROVE  LET why == P!ExitReason(P!Seen(p, bar), intrabar)
             new == P!Managed(p, P!Extended(p, sim, bar), bar, intrabar)
         IN  /\ new \in Sims /\ new.thru = bar.at /\ new.fill = sim.fill /\ new.filled = sim.filled
             /\ new.reason = why
             /\ IF why = "none" THEN new.status = "OPEN" ELSE new.status = "CLOSED" /\ new.exited = P!CloseOf(bar)
<1> DEFINE why == P!ExitReason(P!Seen(p, bar), intrabar)
           mid == P!Extended(p, sim, bar)
           new == P!Managed(p, mid, bar, intrabar)
<1>1. /\ mid \in Sims /\ mid.thru = bar.at /\ mid.status = "OPEN" /\ mid.reason = "none"
      /\ mid.fill = sim.fill /\ mid.filled = sim.filled
  BY ExtendedIs
<1> HIDE DEF mid
<1>2. /\ why \in {"none", "STOP", "TARGET"}
      /\ why = "none" => new = mid
      /\ why # "none" => \E price \in Int, ambiguous \in BOOLEAN : new = P!Close(mid, bar, why, price, ambiguous)
  BY ManagedIs
<1>3. bar.at \in Int
  BY DEF SoundBar
<1> HIDE DEF why, new
<1>4. CASE why = "none"
  BY <1>1, <1>2, <1>4 DEF why, new, mid
<1>5. CASE why # "none"
  <2>1. PICK price \in Int, ambiguous \in BOOLEAN : new = P!Close(mid, bar, why, price, ambiguous)
    BY <1>2, <1>5
  <2>2. why \in {"STOP", "TARGET"}
    BY <1>2, <1>5
  <2>3. /\ new \in Sims /\ new.status = "CLOSED" /\ new.reason = why /\ new.exited = P!CloseOf(bar)
        /\ new.fill = mid.fill /\ new.filled = mid.filled /\ new.thru = mid.thru
    BY <1>1, <1>3, <2>1, <2>2, CloseIs
  <2> QED
    BY <1>1, <1>5, <2>3 DEF why, new, mid
<1> QED
  BY <1>4, <1>5

-----------------------------------------------------------------------------
(* An order over the bars so far.                                          *)

LEMMA AheadIs ==
  ASSUME NEW m, Sound(m), NEW p, OrderIs(m, p)
  PROVE  /\ Ahead(m, p) \in SUBSET InRange(m) /\ Dated(Ahead(m, p)) /\ IsFiniteSet(Ahead(m, p))
         /\ \A b \in InRange(m) : b \in Ahead(m, p) <=> b.at >= p.created
         /\ \A b \in Ahead(m, p) : SoundBar(b) /\ b.at \in Int /\ b.at >= p.created
<1>1. m.start \in Int /\ p.created \in Int /\ p.created >= m.start
  BY DEF Sound, OrderIs
<1>2. \A b \in m.stored : b.at \in Int
  BY DEF Sound, Dated
<1>3. Ahead(m, p) \in SUBSET InRange(m)
  BY <1>1, <1>2 DEF Ahead, InRange
<1>4. \A b \in InRange(m) : b \in Ahead(m, p) <=> b.at >= p.created
  BY DEF Ahead, InRange
<1>5. Dated(InRange(m)) /\ \A b \in InRange(m) : SoundBar(b) /\ b.at \in Int
  BY InRangeIs
<1>6. Dated(Ahead(m, p))
  BY <1>3, <1>5, DatedPart
<1> QED
  BY <1>3, <1>4, <1>5, <1>6 DEF Dated

LEMMA EarliestIs ==
  ASSUME NEW T, Dated(T), T # {}
  PROVE  Earliest(T) \in T /\ \A c \in T : Earliest(T).at <= c.at
BY EndsExist DEF Earliest

(* The first of them is among the bars that passed.                        *)
Met(T, D) == T # {} /\ Earliest(T) \in D

(* The bars before one, and the next.                                      *)
LEMMA FirstIs ==
  ASSUME NEW A, Dated(A), NEW T \in SUBSET A, NEW bar \in A, NEW D, D = {b \in A : b.at < bar.at}, ~Met(T, D)
  PROVE  /\ bar \in T => T # {} /\ Earliest(T) = bar /\ Met(T, D \cup {bar})
         /\ bar \notin T => ~Met(T, D \cup {bar})
<1>1. CASE T = {}
  BY <1>1 DEF Met
<1>2. CASE T # {}
  <2> DEFINE first == Earliest(T)
  <2>1. first \in T /\ (\A c \in T : first.at <= c.at) /\ first \notin D
    BY <1>2, DatedPart, EarliestIs DEF Met
  <2> HIDE DEF first
  <2>2. first.at \in Int /\ bar.at \in Int /\ ~(first.at < bar.at)
    BY <2>1 DEF Dated
  <2>3. ASSUME bar \in T PROVE first = bar
    <3>1. first.at = bar.at
      BY <2>1, <2>2, <2>3
    <3> QED
      BY <2>1, <3>1 DEF Dated
  <2> QED
    BY <1>2, <2>1, <2>3 DEF Met, first
<1> QED
  BY <1>1, <1>2

(* Where an order is once some of the bars ahead of it passed.             *)
SimIs(m, p, sim, D) ==
  /\ sim \in Sims /\ sim.thru \in {Nothing} \cup {b.at : b \in D}
  /\ IF ~Met(Fills(m, p), D)
     THEN /\ sim.fill = Nothing /\ sim.filled = Nothing /\ sim.reason = "none"
          /\ IF Cardinality(D) < ExpiryBars THEN sim.status = "PENDING" /\ sim.pending = Cardinality(D)
             ELSE sim.status = "EXPIRED"
     ELSE /\ sim.fill \in Int /\ P!AtLeast(p, p.limit, sim.fill) /\ sim.filled = Earliest(Fills(m, p)).at
          /\ IF ~Met(Closes(m, p), D) THEN sim.status = "OPEN" /\ sim.reason = "none"
             ELSE /\ sim.status = "CLOSED" /\ sim.exited = P!CloseOf(Earliest(Closes(m, p)))
                  /\ sim.reason = How(p, Earliest(Closes(m, p)), Earliest(Fills(m, p)))

LEMMA SeenIs ==
  ASSUME NEW m, NEW p, OrderIs(m, p), NEW bar, SoundBar(bar)
  PROVE  /\ P!Seen(p, bar).entry # "none" <=> P!Reaches(p, bar)
         /\ P!Seen(p, bar).entry = "touch" <=> P!Reaches(p, bar) /\ ~P!OpensThrough(p, bar)
<1> DEFINE a == P!OpensThrough(p, bar)
           b == P!Reaches(p, bar)
<1>1. P!Seen(p, bar).entry = IF a THEN "gap" ELSE IF b THEN "touch" ELSE "none"
  BY DEF P!Seen
<1>2. a => b
  BY OpenIsReached
<1> HIDE DEF a, b
<1>3. (P!Seen(p, bar).entry # "none" <=> b) /\ (P!Seen(p, bar).entry = "touch" <=> b /\ ~a)
  BY <1>1, <1>2
<1> QED
  BY <1>3 DEF a, b

(* A bar that is not ahead of the order is passed over.                    *)
LEMMA BeforeIsIgnored ==
  ASSUME NEW p, NEW sim, NEW bar, bar.at < p.created
  PROVE  P!StepBar(p, sim, bar) = sim
BY DEF P!StepBar, P!Ignores

(* The next bar ahead takes an order to where it is with that bar.         *)
LEMMA StepBarIs ==
  ASSUME NEW m, Sound(m), NEW p, OrderIs(m, p), NEW bar \in Ahead(m, p),
         NEW D, D = {b \in Ahead(m, p) : b.at < bar.at}, NEW sim, SimIs(m, p, sim, D)
  PROVE  SimIs(m, p, P!StepBar(p, sim, bar), D \cup {bar})
<1> DEFINE A == Ahead(m, p)
           E == D \cup {bar}
           F == Fills(m, p)
           C == Closes(m, p)
           first == Earliest(F)
           last == Earliest(C)
           new == P!StepBar(p, sim, bar)
<1>1. Dated(A) /\ IsFiniteSet(A) /\ SoundBar(bar) /\ bar.at \in Int /\ ~(bar.at < p.created)
  <2>1. bar.at >= p.created /\ p.created \in Int /\ bar.at \in Int
    BY AheadIs DEF OrderIs
  <2> QED
    BY <2>1, AheadIs
<1>2. /\ IsFiniteSet(D) /\ Cardinality(D) \in Nat /\ Cardinality(E) = Cardinality(D) + 1
      /\ E = {b \in A : b.at <= bar.at} /\ bar \notin D
  <2>1. D \in SUBSET A /\ bar \notin D
    BY <1>1
  <2>2. IsFiniteSet(D) /\ Cardinality(D) \in Nat
    BY <1>1, <2>1, FewerOf
  <2>3. Cardinality(E) = Cardinality(D) + 1
    BY <2>1, <2>2, FS_AddElement
  <2>4. \A b \in A : b.at <= bar.at <=> b \in E
    <3> SUFFICES ASSUME NEW b \in A PROVE b.at <= bar.at <=> b \in E
      OBVIOUS
    <3>1. b.at \in Int /\ bar.at \in Int /\ (b.at = bar.at => b = bar)
      BY <1>1 DEF Dated
    <3> QED
      BY <3>1
  <2>5. E = {b \in A : b.at <= bar.at}
    BY <2>1, <2>4
  <2> QED
    BY <2>1, <2>2, <2>3, <2>5
<1>3. Nth(A, bar) = Cardinality(D) + 1 /\ ExpiryBars \in Nat /\ Nothing \notin Int
  BY <1>2, HistoryAssumption DEF Nth
<1>4. F \in SUBSET A /\ (bar \in F <=> Cardinality(D) + 1 <= ExpiryBars /\ P!Reaches(p, bar))
  <2>1. F \in SUBSET A /\ (bar \in F <=> Nth(A, bar) <= ExpiryBars /\ P!Seen(p, bar).entry # "none")
    BY DEF Fills
  <2> QED
    BY <1>1, <1>3, <2>1, SeenIs
<1>5. C \in SUBSET A /\ (bar \in C <=> F # {} /\ first.at <= bar.at /\ How(p, bar, first) # "none")
  BY DEF Closes
<1>6. ~Met(F, D) => (bar \in F => F # {} /\ first = bar /\ Met(F, E)) /\ (bar \notin F => ~Met(F, E))
  BY <1>1, <1>4, FirstIs
<1>7. ~Met(C, D) => (bar \in C => C # {} /\ last = bar /\ Met(C, E)) /\ (bar \notin C => ~Met(C, E))
  BY <1>1, <1>5, FirstIs
<1>8. /\ Met(F, D) => Met(F, E)
      /\ Met(C, D) => Met(C, E)
  BY DEF Met
<1>9. sim \in Sims /\ (sim.thru = Nothing \/ \E b \in D : sim.thru = b.at)
  BY DEF SimIs
<1>10. ~(sim.thru # Nothing /\ bar.at <= sim.thru)
  <2> SUFFICES ASSUME NEW b \in D, sim.thru = b.at PROVE ~(bar.at <= b.at)
    BY <1>9
  <2>1. b.at < bar.at /\ b.at \in Int
    BY <1>1 DEF Dated
  <2> QED
    BY <1>1, <2>1
<1>11. P!Ignores(p, sim, bar) <=> sim.status \notin {"PENDING", "OPEN"}
  BY <1>1, <1>10 DEF P!Ignores, P!Active
<1> DEFINE Thru(s) == s.thru \in {Nothing} \cup {b.at : b \in E}
<1>12. Thru(sim) /\ \A s : s.thru = bar.at => Thru(s)
  BY <1>9
<1> HIDE DEF A, E, F, C, first, last, new, Thru
<1>13. CASE ~Met(F, D) /\ ~(Cardinality(D) < ExpiryBars)
  <2>1. /\ sim.fill = Nothing /\ sim.filled = Nothing /\ sim.reason = "none" /\ sim.status = "EXPIRED"
    BY <1>13 DEF SimIs, F
  <2>2. new = sim
    BY <1>11, <2>1 DEF P!StepBar, new
  <2>3. bar \notin F /\ ~(Cardinality(E) < ExpiryBars)
    BY <1>2, <1>3, <1>4, <1>13
  <2>4. ~Met(F, E)
    BY <1>6, <1>13, <2>3
  <2>5. SimIs(m, p, sim, E)
    BY <1>9, <1>12, <2>1, <2>3, <2>4 DEF SimIs, F, Thru
  <2> QED
    BY <2>2, <2>5 DEF new, E
<1>14. CASE ~Met(F, D) /\ Cardinality(D) < ExpiryBars
  <2>1. /\ sim.fill = Nothing /\ sim.filled = Nothing /\ sim.reason = "none"
        /\ sim.status = "PENDING" /\ sim.pending = Cardinality(D)
    BY <1>14 DEF SimIs, F
  <2>2. ~P!Ignores(p, sim, bar)
    BY <1>11, <2>1
  <2>3. CASE ~P!Reaches(p, bar)
    <3>1. new = P!Waits(sim, bar)
      BY <2>1, <2>2, <2>3 DEF P!StepBar, new
    <3>2. /\ new \in Sims /\ new.pending = Cardinality(E) /\ new.thru = bar.at
          /\ new.fill = Nothing /\ new.filled = Nothing /\ new.reason = "none"
          /\ new.status = IF Cardinality(E) >= ExpiryBars THEN "EXPIRED" ELSE "PENDING"
      BY <1>1, <1>2, <1>9, <2>1, <3>1, WaitsIs
    <3>3. bar \notin F
      BY <1>4, <2>3
    <3>4. ~Met(F, E)
      BY <1>6, <1>14, <3>3
    <3>5. Cardinality(E) < ExpiryBars <=> ~(Cardinality(E) >= ExpiryBars)
      BY <1>2, <1>3
    <3>6. Thru(new)
      BY <1>12, <3>2
    <3>7. SimIs(m, p, new, E)
      BY <3>2, <3>4, <3>5, <3>6 DEF SimIs, F, Thru
    <3> QED
      BY <3>7 DEF new, E
  <2>4. CASE P!Reaches(p, bar)
    <3> DEFINE mid == P!Filled(p, sim, bar)
               intrabar == ~P!OpensThrough(p, bar)
               why == P!ExitReason(P!Seen(p, bar), intrabar)
    <3>1. new = P!Managed(p, P!Extended(p, mid, bar), bar, intrabar)
      BY <2>1, <2>2, <2>4 DEF P!StepBar, new
    <3>2. intrabar \in BOOLEAN
      OBVIOUS
    <3>3. /\ mid \in Sims /\ mid.status = "OPEN" /\ mid.filled = bar.at /\ mid.reason = "none"
          /\ mid.fill \in Int /\ P!AtLeast(p, p.limit, mid.fill)
      BY <1>1, <1>9, <2>1, FilledIs
    <3>4. bar \in F /\ first = bar /\ Met(F, E) /\ F # {}
      <4>1. Cardinality(D) + 1 <= ExpiryBars
        BY <1>2, <1>3, <1>14
      <4> QED
        BY <1>4, <1>6, <1>14, <2>4, <4>1
    <3>5. How(p, bar, first) = why
      <4>1. intrabar <=> P!Seen(p, bar).entry = "touch"
        BY <1>1, <2>4, SeenIs
      <4> QED
        BY <3>4, <4>1 DEF How
    <3> HIDE DEF mid, intrabar
    <3>6. /\ new \in Sims /\ new.thru = bar.at /\ new.fill = mid.fill /\ new.filled = mid.filled
          /\ new.reason = why
          /\ IF why = "none" THEN new.status = "OPEN" ELSE new.status = "CLOSED" /\ new.exited = P!CloseOf(bar)
      BY <1>1, <3>1, <3>2, <3>3, ManagedStep
    <3> HIDE DEF why
    <3>7. bar \in C <=> why # "none"
      <4>1. first.at <= bar.at
        BY <1>1, <3>4
      <4> QED
        BY <1>5, <3>4, <3>5, <4>1
    <3>8. ~Met(C, D)
      <4> SUFFICES ASSUME Met(C, D) PROVE FALSE
        OBVIOUS
      <4>1. last \in C /\ last \in D
        BY <1>1, <1>5, DatedPart, EarliestIs DEF Met, last
      <4>2. first.at <= last.at /\ last.at < bar.at
        BY <4>1 DEF C, Closes, first, F
      <4>3. last.at \in Int
        BY <1>1, <1>5, <4>1 DEF Dated
      <4> QED
        BY <1>1, <3>4, <4>2, <4>3
    <3>9. Thru(new)
      BY <1>12, <3>6
    <3>10. CASE why = "none"
      <4>1. ~Met(C, E)
        BY <1>7, <3>7, <3>8, <3>10
      <4>2. SimIs(m, p, new, E)
        BY <3>3, <3>4, <3>6, <3>9, <3>10, <4>1 DEF SimIs, F, C, first, Thru
      <4> QED
        BY <4>2 DEF new, E
    <3>11. CASE why # "none"
      <4>1. Met(C, E) /\ last = bar
        BY <1>7, <3>7, <3>8, <3>11
      <4>2. SimIs(m, p, new, E)
        BY <3>3, <3>4, <3>5, <3>6, <3>9, <3>11, <4>1 DEF SimIs, F, C, first, last, Thru
      <4> QED
        BY <4>2 DEF new, E
    <3> QED
      BY <3>10, <3>11
  <2> QED
    BY <2>3, <2>4
<1>15. CASE Met(F, D) /\ Met(C, D)
  <2>1. /\ sim.fill \in Int /\ P!AtLeast(p, p.limit, sim.fill) /\ sim.filled = first.at
        /\ sim.status = "CLOSED" /\ sim.exited = P!CloseOf(last) /\ sim.reason = How(p, last, first)
    BY <1>15 DEF SimIs, F, C, first, last
  <2>2. new = sim
    BY <1>11, <2>1 DEF P!StepBar, new
  <2>3. SimIs(m, p, sim, E)
    BY <1>8, <1>9, <1>12, <1>15, <2>1 DEF SimIs, F, C, first, last, Thru
  <2> QED
    BY <2>2, <2>3 DEF new, E
<1>16. CASE Met(F, D) /\ ~Met(C, D)
  <2>1. /\ sim.fill \in Int /\ P!AtLeast(p, p.limit, sim.fill) /\ sim.filled = first.at
        /\ sim.status = "OPEN" /\ sim.reason = "none"
    BY <1>16 DEF SimIs, F, C, first
  <2> DEFINE no == FALSE
             why == P!ExitReason(P!Seen(p, bar), no)
  <2>2. new = P!Managed(p, P!Extended(p, sim, bar), bar, no)
    <3>1. ~P!Ignores(p, sim, bar) /\ sim.status # "PENDING"
      BY <1>11, <2>1
    <3> QED
      BY <3>1 DEF P!StepBar, new
  <2>3. /\ new \in Sims /\ new.thru = bar.at /\ new.fill = sim.fill /\ new.filled = sim.filled
        /\ new.reason = why
        /\ IF why = "none" THEN new.status = "OPEN" ELSE new.status = "CLOSED" /\ new.exited = P!CloseOf(bar)
    <3>1. no \in BOOLEAN
      OBVIOUS
    <3> HIDE DEF no
    <3> QED
      BY <1>1, <1>9, <2>1, <2>2, <3>1, ManagedStep
  <2>4. F # {} /\ first \in D /\ first # bar /\ first.at <= bar.at
    <3>1. F # {} /\ first \in D
      BY <1>16 DEF Met, first
    <3>2. first.at < bar.at /\ first.at \in Int
      BY <1>1, <3>1 DEF Dated, A
    <3> QED
      BY <1>1, <1>2, <3>1, <3>2
  <2>5. How(p, bar, first) = why
    <3>1. (bar = first /\ P!Seen(p, bar).entry = "touch") <=> FALSE
      BY <2>4
    <3> QED
      BY <3>1 DEF How
  <2> HIDE DEF why
  <2>6. bar \in C <=> why # "none"
    BY <1>5, <2>4, <2>5
  <2>7. Met(F, E) /\ Thru(new)
    BY <1>8, <1>12, <1>16, <2>3
  <2>8. CASE why = "none"
    <3>1. ~Met(C, E)
      BY <1>7, <1>16, <2>6, <2>8
    <3>2. SimIs(m, p, new, E)
      BY <2>1, <2>3, <2>7, <2>8, <3>1 DEF SimIs, F, C, first, Thru
    <3> QED
      BY <3>2 DEF new, E
  <2>9. CASE why # "none"
    <3>1. Met(C, E) /\ last = bar
      BY <1>7, <1>16, <2>6, <2>9
    <3>2. SimIs(m, p, new, E)
      BY <2>1, <2>3, <2>5, <2>7, <2>9, <3>1 DEF SimIs, F, C, first, last, Thru
    <3> QED
      BY <3>2 DEF new, E
  <2> QED
    BY <2>8, <2>9
<1> QED
  BY <1>13, <1>14, <1>15, <1>16

-----------------------------------------------------------------------------
(* An order over a batch of bars.                                          *)

(* Whatever the order is, a bar leaves a state of it.                      *)
LEMMA StepBarStays ==
  ASSUME NEW m, NEW p, OrderIs(m, p), NEW bar, SoundBar(bar), NEW sim \in Sims
  PROVE  P!StepBar(p, sim, bar) \in Sims
<1> DEFINE pending == sim.status = "PENDING"
           intrabar == pending /\ ~P!OpensThrough(p, bar)
           open == IF pending THEN P!Filled(p, sim, bar) ELSE sim
           mid == P!Extended(p, open, bar)
           why == P!ExitReason(P!Seen(p, bar), intrabar)
<1>1. P!StepBar(p, sim, bar) = IF P!Ignores(p, sim, bar) THEN sim
                               ELSE IF pending /\ ~P!Reaches(p, bar) THEN P!Waits(sim, bar)
                               ELSE P!Managed(p, mid, bar, intrabar)
  BY DEF P!StepBar
<1>2. bar.at \in Int
  BY DEF SoundBar
<1>3. P!Waits(sim, bar) \in Sims
  BY <1>2, WaitsIs
<1>4. open \in Sims
  BY FilledIs
<1> HIDE DEF open
<1>5. mid \in Sims
  BY <1>4, ExtendedIs
<1>6. intrabar \in BOOLEAN
  OBVIOUS
<1> HIDE DEF mid, intrabar
<1>7. /\ why \in {"none", "STOP", "TARGET"}
      /\ why = "none" => P!Managed(p, mid, bar, intrabar) = mid
      /\ why # "none" => \E price \in Int, ambiguous \in BOOLEAN :
                            P!Managed(p, mid, bar, intrabar) = P!Close(mid, bar, why, price, ambiguous)
  BY <1>6, ManagedIs
<1> HIDE DEF why
<1>8. P!Managed(p, mid, bar, intrabar) \in Sims
  <2>1. CASE why = "none"
    BY <1>5, <1>7, <2>1
  <2>2. CASE why # "none"
    <3>1. why \in {"STOP", "TARGET"}
      BY <1>7, <2>2
    <3> QED
      BY <1>2, <1>5, <1>7, <2>2, <3>1, CloseIs
  <2> QED
    BY <2>1, <2>2
<1> QED
  BY <1>1, <1>3, <1>8

(* The bars ahead of an order among the first k of the range.              *)
Past(m, p, list, k) == {b \in Ahead(m, p) : \E i \in 1 .. k : list[i] = b}

LEMMA PastGrows ==
  ASSUME NEW m, Sound(m), NEW p, OrderIs(m, p), NEW list, Sorted(InRange(m), list), NEW k \in 1 .. Len(list)
  PROVE  /\ SoundBar(list[k]) /\ list[k].at \in Int
         /\ list[k].at < p.created => Past(m, p, list, k) = Past(m, p, list, k - 1)
         /\ ~(list[k].at < p.created) =>
              /\ list[k] \in Ahead(m, p)
              /\ Past(m, p, list, k - 1) = {b \in Ahead(m, p) : b.at < list[k].at}
              /\ Past(m, p, list, k) = Past(m, p, list, k - 1) \cup {list[k]}
<1> DEFINE bar == list[k]
           A == Ahead(m, p)
<1>1. /\ Len(list) \in Nat /\ \A i \in 1 .. Len(list) : list[i] \in InRange(m)
      /\ \A i, j \in 1 .. Len(list) : i < j => list[i].at < list[j].at
      /\ \A b \in InRange(m) : \E i \in 1 .. Len(list) : list[i] = b
  BY DEF Sorted
<1>2. bar \in InRange(m) /\ SoundBar(bar) /\ bar.at \in Int /\ p.created \in Int
  BY <1>1, InRangeIs DEF OrderIs
<1>3. A \in SUBSET InRange(m) /\ (\A b \in InRange(m) : b \in A <=> b.at >= p.created) /\ \A b \in A : b.at \in Int
  BY AheadIs
<1>4. \A i \in 1 .. Len(list) : list[i].at \in Int
  BY <1>1, InRangeIs
<1>5. \A i : i \in 1 .. k <=> i \in 1 .. (k - 1) \/ i = k
  BY <1>1
<1> HIDE DEF bar, A
<1>6. ASSUME bar.at < p.created PROVE Past(m, p, list, k) = Past(m, p, list, k - 1)
  <2>1. bar \notin A
    BY <1>2, <1>3, <1>6
  <2> QED
    BY <1>5, <2>1 DEF Past, bar, A
<1>7. ASSUME ~(bar.at < p.created)
      PROVE  /\ bar \in A /\ Past(m, p, list, k) = Past(m, p, list, k - 1) \cup {bar}
             /\ Past(m, p, list, k - 1) = {b \in A : b.at < bar.at}
  <2>1. bar \in A
    BY <1>2, <1>3, <1>7
  <2>2. Past(m, p, list, k) = Past(m, p, list, k - 1) \cup {bar}
    BY <1>5, <2>1 DEF Past, bar, A
  <2>3. ASSUME NEW b \in A, b.at < bar.at PROVE b \in Past(m, p, list, k - 1)
    <3>1. PICK i \in 1 .. Len(list) : list[i] = b
      BY <1>1, <1>3
    <3>2. ~(k < i) /\ i # k
      BY <1>1, <1>2, <1>3, <2>3, <3>1 DEF bar
    <3>3. i \in 1 .. (k - 1)
      BY <1>1, <3>2
    <3> QED
      BY <3>1, <3>3 DEF Past, A
  <2>4. ASSUME NEW b \in Past(m, p, list, k - 1) PROVE b \in A /\ b.at < bar.at
    <3>1. PICK i \in 1 .. (k - 1) : list[i] = b
      BY DEF Past
    <3>2. i \in 1 .. Len(list) /\ i < k
      BY <1>1
    <3> QED
      BY <1>1, <3>1, <3>2 DEF Past, A, bar
  <2> QED
    BY <2>1, <2>2, <2>3, <2>4
<1> QED
  BY <1>2, <1>6, <1>7 DEF bar, A

LEMMA NextBar ==
  ASSUME NEW m, Sound(m), NEW p, OrderIs(m, p), NEW list, Sorted(InRange(m), list), NEW k \in 1 .. Len(list),
         NEW sim, SimIs(m, p, sim, Past(m, p, list, k - 1))
  PROVE  SimIs(m, p, P!StepBar(p, sim, list[k]), Past(m, p, list, k))
<1>1. CASE list[k].at < p.created
  BY <1>1, BeforeIsIgnored, PastGrows
<1>2. CASE ~(list[k].at < p.created)
  BY <1>2, StepBarIs, PastGrows
<1> QED
  BY <1>1, <1>2

(* A batch of bars does to an order what its bars do one after another.    *)
LEMMA SimulateIs ==
  ASSUME NEW m, Sound(m), NEW p, OrderIs(m, p), NEW list, Sorted(InRange(m), list),
         NEW c \in Nat, NEW n \in Nat, c <= n, n <= Len(list),
         NEW sim, SimIs(m, p, sim, Past(m, p, list, c))
  PROVE  SimIs(m, p, P!Simulate(p, sim, SubSeq(list, c + 1, n)), Past(m, p, list, n))
<1> DEFINE seq == SubSeq(list, c + 1, n)
           k == n - c
           It(f) == f = [s \in SUBSET (DOMAIN seq) |->
                          IF s = {} THEN sim ELSE P!StepBar(p, f[s \ {Max(s)}], seq[Max(s)])]
           g == CHOOSE f : It(f)
<1>1. P!Simulate(p, sim, seq) = g[DOMAIN seq]
  BY Zenon DEF P!Simulate, P!FoldLeft, P!MapThenFoldSet, P!Max, Max
<1>2. k \in Nat /\ DOMAIN seq = 1 .. k /\ \A i \in 1 .. k : seq[i] = list[c + i] /\ c + i \in 1 .. Len(list)
  <2>1. list \in Seq(InRange(m)) /\ Len(list) \in Nat
    BY DEF Sorted
  <2>2. seq = [i \in 1 .. k |-> list[c + i]]
    BY <2>1
  <2>3. \A i \in 1 .. k : c + i \in 1 .. Len(list)
    BY <2>1
  <2> HIDE DEF seq
  <2> QED
    BY <2>2, <2>3
<1>3. \A i \in 1 .. k : SoundBar(seq[i])
  BY <1>2, PastGrows
<1> HIDE DEF seq
<1>4. sim \in Sims
  BY DEF SimIs
<1>5. \A i \in 1 .. k : \A v \in Sims : P!StepBar(p, v, seq[i]) \in Sims
  BY <1>3, StepBarStays
<1>6. \E f : It(f)
  <2> DEFINE step == [q \in (1 .. k) \X Sims |-> P!StepBar(p, q[2], seq[q[1]])]
  <2>1. \A i \in 1 .. k : \A v \in Sims : step[<<i, v>>] = P!StepBar(p, v, seq[i])
    OBVIOUS
  <2> HIDE DEF step, k
  <2>2. PICK f \in [SUBSET (1 .. k) -> Sims] : TakesSteps(f, k, sim, step)
    <3>1. \A i \in 1 .. k : \A v \in Sims : step[<<i, v>>] \in Sims
      BY <1>5, <2>1
    <3> QED
      BY <1>2, <1>4, <3>1, FoldExists, Zenon
  <2>3. ASSUME NEW s \in SUBSET (1 .. k), s # {} PROVE f[s] = P!StepBar(p, f[s \ {Max(s)}], seq[Max(s)])
    <3>1. Max(s) \in 1 .. k
      BY <1>2, <2>3, MaxIsLast
    <3>2. f[s \ {Max(s)}] \in Sims
      OBVIOUS
    <3> QED
      BY <2>1, <2>2, <2>3, <3>1, <3>2 DEF TakesSteps
  <2>4. \A s \in SUBSET (1 .. k) : f[s] = IF s = {} THEN sim ELSE P!StepBar(p, f[s \ {Max(s)}], seq[Max(s)])
    BY <2>2, <2>3 DEF TakesSteps
  <2>5. f = [s \in SUBSET (1 .. k) |-> IF s = {} THEN sim ELSE P!StepBar(p, f[s \ {Max(s)}], seq[Max(s)])]
    BY <2>4
  <2>6. It(f)
    BY <1>2, <2>5
  <2> HIDE DEF It
  <2> QED
    BY <2>6
<1>7. It(g)
  <2> HIDE DEF It
  <2> QED
    BY <1>6
<1> HIDE DEF g
<1>8. \A s \in SUBSET (1 .. k) : g[s] = IF s = {} THEN sim ELSE P!StepBar(p, g[s \ {Max(s)}], seq[Max(s)])
  BY <1>2, <1>7
<1> HIDE DEF It, k
<1> DEFINE Q == {i \in 0 .. k : SimIs(m, p, g[1 .. i], Past(m, p, list, c + i))}
<1>9. 0 \in Q
  <2>1. 1 .. 0 = {} /\ {} \in SUBSET (1 .. k) /\ 0 \in 0 .. k /\ c + 0 = c
    BY <1>2
  <2> QED
    BY <1>8, <2>1
<1>10. ASSUME NEW i \in 1 .. k, i - 1 \in Q PROVE i \in Q
  <2>1. g[1 .. i] = P!StepBar(p, g[1 .. (i - 1)], seq[i])
    BY <1>2, <1>8, LastNumber
  <2>2. c + i \in 1 .. Len(list) /\ seq[i] = list[c + i] /\ c + (i - 1) = (c + i) - 1 /\ i \in 0 .. k
    BY <1>2
  <2>3. SimIs(m, p, g[1 .. (i - 1)], Past(m, p, list, (c + i) - 1))
    BY <1>10, <2>2
  <2> DEFINE j == c + i
  <2> HIDE DEF j
  <2>4. SimIs(m, p, P!StepBar(p, g[1 .. (i - 1)], list[j]), Past(m, p, list, j))
    BY <2>2, <2>3, NextBar DEF j
  <2> QED
    BY <2>1, <2>2, <2>4 DEF j
<1> HIDE DEF Q
<1>11. k \in Q
  <2>1. \A i \in 0 .. k : i \in Q
    BY <1>2, <1>9, <1>10, UpTo
  <2> QED
    BY <1>2, <2>1
<1>12. c + k = n
  BY DEF k
<1> QED
  BY <1>1, <1>2, <1>11, <1>12 DEF Q, seq

-----------------------------------------------------------------------------
(* A position that ended.                                                  *)

(* The fields of a trade that tell what became of its plan.                *)
LEMMA FinishIs ==
  ASSUME NEW q, NEW status, NEW commission
  PROVE  LET t == Finish(q, status, commission)
         IN  /\ t.status = status /\ t.params = q.params /\ t.fill = q.sim.fill /\ t.filled = q.sim.filled
             /\ t.setup = q.setup /\ t.at = q.params.created
             /\ status # "CLOSED" => t.reason = "none"
             /\ status = "CLOSED" => /\ t.reason = q.sim.reason /\ t.exited = q.sim.exited
                                     /\ t.entry = EntryOf(q.params, q.sim)
<1> DEFINE base == Trade(q, status)
           trade == [base EXCEPT !.fill = q.sim.fill, !.filled = q.sim.filled, !.ambiguous = q.sim.ambiguous]
           full == Measured(trade, q.params, q.sim, commission)
           fields == {"setup", "at", "params", "status", "fill", "filled", "exit", "exited", "reason", "ambiguous",
                      "entry", "result", "net", "risk", "mfe", "mae"}
<1>1. /\ DOMAIN base = fields /\ base.status = status /\ base.params = q.params /\ base.reason = "none"
      /\ base.setup = q.setup /\ base.at = q.params.created
  BY DEF Trade
<1> HIDE DEF base
<1>2. /\ DOMAIN trade = fields /\ trade.status = status /\ trade.params = q.params /\ trade.reason = "none"
      /\ trade.fill = q.sim.fill /\ trade.filled = q.sim.filled /\ trade.setup = q.setup /\ trade.at = q.params.created
  BY <1>1
<1> HIDE DEF trade
<1>3. /\ full.status = trade.status /\ full.params = trade.params /\ full.fill = trade.fill
      /\ full.filled = trade.filled /\ full.reason = q.sim.reason /\ full.exited = q.sim.exited
      /\ full.entry = EntryOf(q.params, q.sim) /\ full.setup = trade.setup /\ full.at = trade.at
  <2> DEFINE p == q.params
             sim == q.sim
             fill == [direction |-> IF p.side > 0 THEN "BULLISH" ELSE "BEARISH", entry |-> EntryOf(p, sim),
                      stop |-> p.stop, targets |-> {p.target}, opened |-> sim.filled]
             told == [exit |-> sim.exit, exited |-> sim.exited, reason |-> sim.reason, reported |-> {}]
             seen == {fill.entry, sim.exit, sim.best, sim.worst}
             made == Outcome(fill, told, [mfe |-> Best(fill, seen), mae |-> Worst(fill, seen),
                                          source |-> "CANDLES", synthetic |-> FALSE], {})
             a == made.result
             b == made.pnl - 2 * commission
             c == made.risk
             d == made.mfe
             e == made.mae
             h == fill.entry
  <2>1. full = [trade EXCEPT !.exit = sim.exit, !.exited = sim.exited, !.reason = sim.reason, !.entry = h,
                             !.result = a, !.net = b, !.risk = c, !.mfe = d, !.mae = e]
    BY Zenon DEF Measured
  <2>2. h = EntryOf(p, sim)
    OBVIOUS
  <2> HIDE DEF full, a, b, c, d, e, h
  <2> QED
    BY <1>2, <2>1, <2>2
<1> HIDE DEF full
<1>4. Finish(q, status, commission) = IF status = "CLOSED" THEN full ELSE trade
  BY DEF Finish, full, trade, base
<1> QED
  BY <1>2, <1>3, <1>4

(* Entries lie between the stop and the target.                            *)
LEMMA EntryIsBetween ==
  ASSUME NEW m, NEW p, OrderIs(m, p), NEW sim, sim.fill \in Int, P!AtLeast(p, p.limit, sim.fill)
  PROVE  ~P!AtLeast(p, p.stop, EntryOf(p, sim)) /\ ~P!AtLeast(p, EntryOf(p, sim), p.target)
<1>1. /\ p.limit \in Int /\ p.stop \in Int /\ p.target \in Int
      /\ p.side * (p.limit - p.stop) > 0 /\ p.side * (p.target - p.limit) > 0
  BY DEF OrderIs
<1>2. CASE p.side = 1
  BY <1>1, <1>2 DEF P!AtLeast, EntryOf
<1>3. CASE p.side = -1
  BY <1>1, <1>3 DEF P!AtLeast, EntryOf
<1> QED
  BY <1>2, <1>3 DEF OrderIs

(* Nothing that comes before a bar that passed is left.                    *)
LEMMA PastIsClosed ==
  ASSUME NEW m, Sound(m), NEW p, OrderIs(m, p), NEW list, Sorted(InRange(m), list), NEW k \in 0 .. Len(list)
  PROVE  /\ Past(m, p, list, k) \in SUBSET Ahead(m, p)
         /\ \A b \in Past(m, p, list, k), c \in Ahead(m, p) : c.at <= b.at => c \in Past(m, p, list, k)
<1>1. /\ Len(list) \in Nat /\ \A i \in 1 .. Len(list) : list[i] \in InRange(m)
      /\ \A i, j \in 1 .. Len(list) : i < j => list[i].at < list[j].at
      /\ \A b \in InRange(m) : \E i \in 1 .. Len(list) : list[i] = b
  BY DEF Sorted
<1>2. Ahead(m, p) \in SUBSET InRange(m) /\ \A b \in Ahead(m, p) : b.at \in Int
  BY AheadIs
<1>3. ASSUME NEW b \in Past(m, p, list, k), NEW c \in Ahead(m, p), c.at <= b.at PROVE c \in Past(m, p, list, k)
  <2>1. b \in Ahead(m, p)
    BY DEF Past
  <2>2. PICK i \in 1 .. k : list[i] = b
    BY DEF Past
  <2>3. PICK j \in 1 .. Len(list) : list[j] = c
    BY <1>1, <1>2
  <2>4. i \in 1 .. Len(list) /\ ~(b.at < c.at)
    BY <1>1, <1>2, <1>3, <2>1
  <2>5. ~(i < j)
    BY <1>1, <2>2, <2>3, <2>4
  <2>6. j \in 1 .. k
    BY <1>1, <2>4, <2>5
  <2> QED
    BY <2>3, <2>6 DEF Past
<1> QED
  BY <1>3 DEF Past

(* An order that is over has come to what its plan comes to.               *)
LEMMA OverIsTrue ==
  ASSUME NEW m, Sound(m), NEW q, OrderIs(m, q.params), NEW list, Sorted(InRange(m), list), NEW k \in 0 .. Len(list),
         SimIs(m, q.params, q.sim, Past(m, q.params, list, k)), q.sim.status \notin P!Active, NEW commission
  PROVE  TellsTrue(m, Finish(q, q.sim.status, commission))
<1> DEFINE p == q.params
           sim == q.sim
           D == Past(m, p, list, k)
           A == Ahead(m, p)
           F == Fills(m, p)
           C == Closes(m, p)
           t == Finish(q, sim.status, commission)
<1>1. /\ t.status = sim.status /\ t.params = p /\ t.fill = sim.fill /\ t.filled = sim.filled
      /\ sim.status # "CLOSED" => t.reason = "none"
      /\ sim.status = "CLOSED" => t.reason = sim.reason /\ t.exited = sim.exited /\ t.entry = EntryOf(p, sim)
  BY FinishIs
<1>2. D \in SUBSET A /\ \A b \in D, c \in A : c.at <= b.at => c \in D
  BY PastIsClosed
<1>3. Dated(A) /\ IsFiniteSet(A) /\ \A b \in A : b.at \in Int
  BY AheadIs
<1>4. IsFiniteSet(D) /\ Cardinality(D) \in Nat /\ Cardinality(A) \in Nat /\ Cardinality(D) <= Cardinality(A)
  BY <1>2, <1>3, FewerOf
<1>5. ExpiryBars \in Nat
  BY HistoryAssumption
<1>6. C # {} => F # {}
  BY DEF Closes
<1>7. sim.status # "PENDING" /\ sim.status # "OPEN"
  BY DEF P!Active
<1> HIDE DEF t, D, A
<1>8. CASE ~Met(F, D)
  <2>1. /\ sim.filled = Nothing /\ ~(Cardinality(D) < ExpiryBars) /\ sim.status = "EXPIRED"
    BY <1>7, <1>8 DEF SimIs, D
  <2>2. F = {}
    <3> SUFFICES ASSUME F # {} PROVE FALSE
      OBVIOUS
    <3> DEFINE b == Earliest(F)
               B == {c \in A : c.at <= b.at}
    <3>1. F \in SUBSET A /\ \A x \in F : Nth(A, x) <= ExpiryBars
      BY DEF Fills, A
    <3>2. b \in F
      BY <1>3, <3>1, DatedPart, EarliestIs
    <3>3. b \in A /\ b \notin D /\ Cardinality(B) <= ExpiryBars
      BY <1>8, <3>1, <3>2 DEF Met, Nth
    <3> HIDE DEF b
    <3>4. D \cup {b} \in SUBSET B
      <4> SUFFICES ASSUME NEW c \in D PROVE c.at <= b.at
        BY <1>2, <1>3, <3>3
      <4>1. ~(b.at <= c.at)
        BY <1>2, <3>3
      <4> QED
        BY <1>2, <1>3, <3>3, <4>1
    <3>5. IsFiniteSet(B)
      <4>1. B \in SUBSET A
        OBVIOUS
      <4> QED
        BY <1>3, <4>1, FewerOf
    <3> HIDE DEF B
    <3>6. Cardinality(D \cup {b}) <= Cardinality(B) /\ Cardinality(B) \in Nat
      BY <3>4, <3>5, FewerOf
    <3>7. Cardinality(D \cup {b}) = Cardinality(D) + 1
      BY <1>4, <3>3, FS_AddElement
    <3> QED
      BY <1>4, <1>5, <2>1, <3>3, <3>6, <3>7
  <2>3. C = {} /\ Expires(m, p)
    BY <1>4, <1>5, <1>6, <2>1, <2>2 DEF Expires, A
  <2>4. Expected(m, p).status = "EXPIRED" /\ Expected(m, p).filled = Nothing /\ Expected(m, p).reason = "none"
    BY <2>2, <2>3 DEF Expected
  <2>5. TellsTrue(m, t)
    BY <1>1, <2>1, <2>4 DEF TellsTrue
  <2> QED
    BY <2>5 DEF t
<1>9. CASE Met(F, D)
  <2>1. /\ sim.fill \in Int /\ P!AtLeast(p, p.limit, sim.fill) /\ sim.filled = Earliest(F).at
        /\ Met(C, D) /\ sim.status = "CLOSED" /\ sim.exited = P!CloseOf(Earliest(C))
        /\ sim.reason = How(p, Earliest(C), Earliest(F))
    BY <1>7, <1>9 DEF SimIs, D
  <2>2. F # {} /\ C # {}
    BY <1>9, <2>1 DEF Met
  <2>3. /\ Expected(m, p).status = "CLOSED" /\ Expected(m, p).filled = Earliest(F).at
        /\ Expected(m, p).over = P!CloseOf(Earliest(C)) /\ Expected(m, p).reason = How(p, Earliest(C), Earliest(F))
    BY <2>2 DEF Expected
  <2>4. ~P!AtLeast(p, p.stop, t.entry) /\ ~P!AtLeast(p, t.entry, p.target)
    BY <1>1, <2>1, EntryIsBetween
  <2>5. TellsTrue(m, t)
    BY <1>1, <2>1, <2>3, <2>4 DEF TellsTrue
  <2> QED
    BY <2>5 DEF t
<1> QED
  BY <1>8, <1>9

(* An order that all bars have left is open at the end.                    *)
LEMMA OpenIsTrue ==
  ASSUME NEW m, Sound(m), NEW q, OrderIs(m, q.params), NEW D, D = Ahead(m, q.params),
         SimIs(m, q.params, q.sim, D), q.sim.status \in P!Active, NEW commission
  PROVE  TellsTrue(m, Finish(q, "OPEN_AT_END", commission))
<1> DEFINE p == q.params
           sim == q.sim
           F == Fills(m, p)
           C == Closes(m, p)
           t == Finish(q, "OPEN_AT_END", commission)
<1>1. t.status = "OPEN_AT_END" /\ t.params = p /\ t.filled = sim.filled /\ t.reason = "none"
  BY FinishIs
<1>2. Dated(D) /\ F \in SUBSET D /\ C \in SUBSET D
  BY AheadIs DEF Fills, Closes
<1>3. (Met(F, D) <=> F # {}) /\ (Met(C, D) <=> C # {})
  BY <1>2, DatedPart, EarliestIs DEF Met
<1>4. C # {} => F # {}
  BY DEF Closes
<1>5. sim.status \in {"PENDING", "OPEN"}
  BY DEF P!Active
<1> HIDE DEF t
<1>6. CASE F = {}
  <2>1. sim.filled = Nothing /\ Cardinality(D) < ExpiryBars
    BY <1>3, <1>5, <1>6 DEF SimIs
  <2>2. ~Expires(m, p) /\ C = {}
    <3>1. Cardinality(D) \in Nat /\ ExpiryBars \in Nat
      BY <1>2, FS_CardinalityType, HistoryAssumption DEF Dated
    <3> QED
      BY <1>4, <1>6, <2>1, <3>1 DEF Expires
  <2>3. Expected(m, p).status = "OPEN_AT_END" /\ Expected(m, p).filled = Nothing /\ Expected(m, p).reason = "none"
    BY <1>6, <2>2 DEF Expected
  <2>4. TellsTrue(m, t)
    BY <1>1, <2>1, <2>3 DEF TellsTrue
  <2> QED
    BY <2>4 DEF t
<1>7. CASE F # {}
  <2>1. sim.filled = Earliest(F).at /\ ~Met(C, D)
    BY <1>3, <1>5, <1>7 DEF SimIs
  <2>2. C = {} /\ ~Expires(m, p)
    BY <1>3, <1>7, <2>1 DEF Expires
  <2>3. /\ Expected(m, p).status = "OPEN_AT_END" /\ Expected(m, p).filled = Earliest(F).at
        /\ Expected(m, p).reason = "none"
    BY <1>7, <2>2 DEF Expected
  <2>4. TellsTrue(m, t)
    BY <1>1, <2>1, <2>3 DEF TellsTrue
  <2> QED
    BY <2>4 DEF t
<1> QED
  BY <1>6, <1>7

-----------------------------------------------------------------------------
(* A variant that is replayed up to a time.                                *)

(* The first c bars are those that closed by then.                         *)
ClosedTo(list, c, time) == \A i \in 1 .. Len(list) : i <= c <=> P!CloseOf(list[i]) <= time

(* The order that is placed, over the bars so far.                         *)
Placed(m, list, q, c) ==
  /\ OrderIs(m, q.params) /\ q = [setup |-> q.setup, params |-> q.params, sim |-> q.sim] /\ q.setup \in STRING
  /\ q.sim.status \in P!Active /\ SimIs(m, q.params, q.sim, Past(m, q.params, list, c))

Played(m, list, run, time) ==
  /\ run = [cursor |-> run.cursor, position |-> run.position, trades |-> run.trades, plans |-> run.plans,
            reached |-> run.reached, ineligible |-> run.ineligible, confirmed |-> run.confirmed,
            skipped |-> run.skipped, fills |-> run.fills]
  /\ run.cursor \in 0 .. Len(list) /\ ClosedTo(list, run.cursor, time)
  /\ run.trades \in Seq(Range(run.trades)) /\ \A t \in Range(run.trades) : Took(t) => TellsTrue(m, t)
  /\ run.position = Nothing \/ Placed(m, list, run.position, run.cursor)
  /\ run.ineligible \in Nat /\ run.confirmed \in Nat /\ run.skipped \in Nat /\ run.fills \in Nat

LEMMA DueIs ==
  ASSUME NEW m, Sound(m), NEW list, Sorted(InRange(m), list), NEW run, run.cursor \in 0 .. Len(list),
         NEW time \in Int, NEW until \in Int, time <= until, ClosedTo(list, run.cursor, time)
  PROVE  LET next == run.cursor + Cardinality(Due(run, list, until))
         IN  next \in run.cursor .. Len(list) /\ ClosedTo(list, next, until)
<1> DEFINE c == run.cursor
           n == Len(list)
           T == Due(run, list, until)
           close(i) == P!CloseOf(list[i])
<1>1. n \in Nat /\ c \in Nat /\ c <= n /\ \A i \in 1 .. n : close(i) \in Int
  <2>1. n \in Nat /\ \A i \in 1 .. n : list[i] \in InRange(m)
    BY DEF Sorted
  <2> QED
    BY <2>1, InRangeIs DEF P!CloseOf
<1>2. \A i, j \in 1 .. n : i <= j => close(i) <= close(j)
  <2> SUFFICES ASSUME NEW i \in 1 .. n, NEW j \in 1 .. n, i <= j PROVE close(i) <= close(j)
    OBVIOUS
  <2>1. list[i].at \in Int /\ list[j].at \in Int
    BY InRangeIs DEF Sorted
  <2>2. i < j => list[i].at < list[j].at
    BY DEF Sorted
  <2>3. i = j \/ i < j
    OBVIOUS
  <2> QED
    BY <2>1, <2>2, <2>3 DEF P!CloseOf
<1>3. T = {i \in (c + 1) .. n : close(i) <= until}
  BY DEF Due
<1>4. \A i \in 1 .. n : i <= c <=> close(i) <= time
  BY DEF ClosedTo
<1> HIDE DEF c, n, T, close
<1>5. \A i \in 1 .. n : i <= c => close(i) <= until
  BY <1>1, <1>4
<1>6. CASE T = {}
  <2>1. Cardinality(T) = 0
    BY <1>6, FS_EmptySet
  <2>2. \A i \in 1 .. n : i <= c <=> close(i) <= until
    BY <1>1, <1>3, <1>5, <1>6
  <2>3. c + Cardinality(T) = c
    BY <1>1, <2>1
  <2> QED
    BY <1>1, <2>2, <2>3 DEF c, n, T, close, ClosedTo
<1>7. CASE T # {}
  <2> DEFINE q == Max(T)
  <2>1. T \in SUBSET (1 .. n)
    BY <1>1, <1>3
  <2>2. q \in T /\ \A i \in T : i <= q
    BY <1>1, <1>7, <2>1, MaxIsLast
  <2> HIDE DEF q
  <2>3. q \in (c + 1) .. n /\ close(q) <= until
    BY <1>3, <2>2
  <2>4. T = (c + 1) .. q
    <3>1. ASSUME NEW i \in (c + 1) .. q PROVE i \in T
      <4>1. i \in (c + 1) .. n /\ i \in 1 .. n /\ q \in 1 .. n /\ i <= q
        BY <1>1, <2>3
      <4>2. close(i) <= close(q)
        BY <1>2, <4>1
      <4>3. close(i) <= until
        BY <1>1, <2>3, <4>1, <4>2
      <4> QED
        BY <1>3, <4>1, <4>3
    <3>2. \A i \in T : i \in (c + 1) .. q
      BY <1>1, <1>3, <2>2, <2>3
    <3> QED
      BY <3>1, <3>2
  <2>5. Cardinality(T) = q - c
    <3>1. c + 1 \in Int /\ q \in Int /\ ~(c + 1 > q)
      BY <1>1, <2>3
    <3>2. Cardinality((c + 1) .. q) = q - (c + 1) + 1
      BY <3>1, FS_Interval
    <3> QED
      BY <1>1, <2>4, <3>1, <3>2
  <2>6. c + Cardinality(T) = q /\ q \in c .. n
    BY <1>1, <2>3, <2>5
  <2>7. ASSUME NEW i \in 1 .. n PROVE i <= q <=> close(i) <= until
    <3>1. CASE i <= c
      BY <1>1, <1>5, <2>3, <3>1
    <3>2. CASE ~(i <= c)
      <4>1. i \in (c + 1) .. n
        BY <1>1, <3>2
      <4>2. i \in T <=> close(i) <= until
        BY <1>3, <4>1
      <4>3. i \in T <=> i <= q
        BY <1>1, <2>3, <2>4, <4>1
      <4> QED
        BY <4>2, <4>3
    <3> QED
      BY <3>1, <3>2
  <2> QED
    BY <2>6, <2>7 DEF c, n, T, close, ClosedTo
<1> QED
  BY <1>6, <1>7

(* The fields of a run that are written.                                   *)
LEMMA AppendedAre ==
  ASSUME NEW s, s \in Seq(Range(s)), NEW e
  PROVE  /\ Append(s, e) \in Seq(Range(Append(s, e)))
         /\ \A t \in Range(Append(s, e)) : t \in Range(s) \/ t = e
<1>1. Append(s, e) \in Seq(Range(Append(s, e)))
  BY AppendGrows
<1>2. \A t \in Range(Append(s, e)) : t \in Range(s) \/ t = e
  <2> SUFFICES ASSUME NEW t \in Range(Append(s, e)) PROVE t \in Range(s) \/ t = e
    OBVIOUS
  <2>1. DOMAIN s = 1 .. Len(s) /\ Len(s) \in Nat
    <3> DEFINE S == Range(s)
    <3>1. s \in Seq(S)
      OBVIOUS
    <3> HIDE DEF S
    <3> QED
      BY <3>1
  <2>2. DOMAIN Append(s, e) = 1 .. (Len(s) + 1) /\ Append(s, e)[Len(s) + 1] = e
        /\ \A i \in 1 .. Len(s) : Append(s, e)[i] = s[i]
    <3> DEFINE S == Range(s) \cup {e}
    <3>1. s \in Seq(S)
      <4> DEFINE S0 == Range(s)
      <4>1. s \in Seq(S0) /\ S0 \subseteq S
        OBVIOUS
      <4> HIDE DEF S0, S
      <4> QED
        BY <4>1
    <3>2. e \in S
      OBVIOUS
    <3> HIDE DEF S
    <3> QED
      BY <3>1, <3>2
  <2>3. PICK i \in 1 .. (Len(s) + 1) : Append(s, e)[i] = t
    BY <2>2 DEF Range
  <2>4. CASE i = Len(s) + 1
    BY <2>2, <2>3, <2>4
  <2>5. CASE i # Len(s) + 1
    <3>1. i \in 1 .. Len(s)
      BY <2>1, <2>5
    <3> QED
      BY <2>1, <2>2, <2>3, <3>1 DEF Range
  <2> QED
    BY <2>4, <2>5
<1> QED
  BY <1>1, <1>2

(* What becomes of the order: it is left, it is taken on, or it ends.       *)
Follows(m, list, run, next, costs) ==
  /\ next.plans = run.plans /\ next.confirmed = run.confirmed /\ next.skipped = run.skipped
  /\ \/ next.position = run.position /\ next.trades = run.trades /\ next.fills = run.fills
     \/ /\ run.position # Nothing
        /\ \E now :
             /\ now.setup = run.position.setup /\ now.params = run.position.params
             /\ run.position.sim.fill # Nothing => now.sim.fill # Nothing
             /\ next.fills = IF run.position.sim.fill = Nothing /\ now.sim.fill # Nothing THEN run.fills + 1 ELSE run.fills
             /\ \/ next.position = now /\ now # Nothing /\ next.trades = run.trades
                \/ /\ next.position = Nothing /\ now.sim.status \in {"CLOSED", "EXPIRED"}
                   /\ SimIs(m, now.params, now.sim, Past(m, now.params, list, next.cursor))
                   /\ next.trades = Append(run.trades, Finish(now, now.sim.status, costs.commission))

LEMMA PositionIs ==
  ASSUME NEW m, NEW list, NEW q, NEW c, Placed(m, list, q, c)
  PROVE  q # Nothing
<1>1. q.setup \in STRING /\ q.params \in Orders /\ q.sim \in Sims
      /\ q = [setup |-> q.setup, params |-> q.params, sim |-> q.sim]
  BY DEF Placed, OrderIs, SimIs
<1>2. q \in Positions
  BY <1>1 DEF Positions
<1> QED
  BY <1>2, HistoryAssumption

(* A fill is not undone by the bars that follow.                           *)
LEMMA FillStays ==
  ASSUME NEW m, NEW p, NEW list, NEW c \in Nat, NEW n \in Nat, c <= n, NEW old, NEW new,
         SimIs(m, p, old, Past(m, p, list, c)), SimIs(m, p, new, Past(m, p, list, n)), old.fill # Nothing
  PROVE  new.fill # Nothing
<1>1. Met(Fills(m, p), Past(m, p, list, c))
  BY DEF SimIs
<1>2. Past(m, p, list, c) \in SUBSET Past(m, p, list, n)
  BY DEF Past
<1>3. Met(Fills(m, p), Past(m, p, list, n))
  BY <1>1, <1>2 DEF Met
<1>4. new.fill \in Int
  BY <1>3 DEF SimIs
<1> QED
  BY <1>4, HistoryAssumption

(* The bars that closed since take a variant to the time they lead to.     *)
LEMMA AdvanceIs ==
  ASSUME NEW m, Sound(m), NEW list, Sorted(InRange(m), list), NEW run, NEW time \in Int, Played(m, list, run, time),
         NEW until \in Int, time <= until, NEW costs
  PROVE  /\ Played(m, list, Advance(run, list, until, costs), until)
         /\ Follows(m, list, run, Advance(run, list, until, costs), costs)
<1> DEFINE next == run.cursor + Cardinality(Due(run, list, until))
           p == run.position.params
           seq == SubSeq(list, run.cursor + 1, next)
           sim == P!Simulate(p, run.position.sim, seq)
           filled == run.position.sim.fill = Nothing /\ sim.fill # Nothing
           fills == IF filled THEN run.fills + 1 ELSE run.fills
           now == [setup |-> run.position.setup, params |-> p, sim |-> sim]
           trades == Append(run.trades, Finish(now, sim.status, costs.commission))
           With(position, list0, n) ==
             [cursor |-> next, position |-> position, trades |-> list0, plans |-> run.plans, reached |-> run.reached,
              ineligible |-> run.ineligible, confirmed |-> run.confirmed, skipped |-> run.skipped, fills |-> n]
<1>1. /\ run = [cursor |-> run.cursor, position |-> run.position, trades |-> run.trades, plans |-> run.plans,
                reached |-> run.reached, ineligible |-> run.ineligible, confirmed |-> run.confirmed,
                skipped |-> run.skipped, fills |-> run.fills]
      /\ run.cursor \in 0 .. Len(list) /\ ClosedTo(list, run.cursor, time)
      /\ run.trades \in Seq(Range(run.trades)) /\ (\A t \in Range(run.trades) : Took(t) => TellsTrue(m, t))
      /\ run.position = Nothing \/ Placed(m, list, run.position, run.cursor)
      /\ run.ineligible \in Nat /\ run.confirmed \in Nat /\ run.skipped \in Nat /\ run.fills \in Nat
  BY DEF Played
<1>2. next \in run.cursor .. Len(list) /\ ClosedTo(list, next, until)
  BY <1>1, DueIs
<1>3. next \in 0 .. Len(list) /\ run.cursor \in Nat /\ next \in Nat /\ run.cursor <= next /\ next <= Len(list)
      /\ Len(list) \in Nat
  <2>1. Len(list) \in Nat
    BY DEF Sorted
  <2> HIDE DEF next
  <2> QED
    BY <1>1, <1>2, <2>1
<1>4. fills \in Nat
  BY <1>1
<1>5. Advance(run, list, until, costs) =
        IF run.position = Nothing \/ next = run.cursor THEN [run EXCEPT !.cursor = next]
        ELSE IF sim.status \in P!Active
             THEN [[run EXCEPT !.cursor = next] EXCEPT !.fills = IF filled THEN @ + 1 ELSE @, !.position.sim = sim]
             ELSE [[[run EXCEPT !.cursor = next] EXCEPT !.fills = IF filled THEN @ + 1 ELSE @, !.position.sim = sim]
                     EXCEPT !.position = Nothing,
                            !.trades = Append(@, Finish([[run EXCEPT !.cursor = next]
                                         EXCEPT !.fills = IF filled THEN @ + 1 ELSE @, !.position.sim = sim].position,
                                         sim.status, costs.commission))]
  BY Zenon DEF Advance
<1>6. [run EXCEPT !.cursor = next] = With(run.position, run.trades, run.fills)
  <2> HIDE DEF next
  <2> QED
    BY <1>1
<1>7. (run.position = Nothing \/ next = run.cursor) =>
        Played(m, list, With(run.position, run.trades, run.fills), until)
  <2> SUFFICES ASSUME run.position = Nothing \/ next = run.cursor
               PROVE  Played(m, list, With(run.position, run.trades, run.fills), until)
    OBVIOUS
  <2>1. run.position = Nothing \/ Placed(m, list, run.position, next)
    BY <1>1
  <2> HIDE DEF next
  <2> QED
    BY <1>1, <1>2, <1>3, <2>1 DEF Played
<1>8. ASSUME run.position # Nothing
      PROVE  /\ OrderIs(m, p) /\ run.position = [setup |-> run.position.setup, params |-> p, sim |-> run.position.sim]
             /\ SimIs(m, p, sim, Past(m, p, list, next)) /\ run.position.setup \in STRING
  <2>1. /\ OrderIs(m, p) /\ run.position = [setup |-> run.position.setup, params |-> p, sim |-> run.position.sim]
        /\ run.position.setup \in STRING
        /\ SimIs(m, p, run.position.sim, Past(m, p, list, run.cursor))
    BY <1>1, <1>8 DEF Placed
  <2> HIDE DEF next, p
  <2> QED
    BY <1>3, <2>1, SimulateIs
<1>9. ASSUME run.position # Nothing
      PROVE  [[run EXCEPT !.cursor = next] EXCEPT !.fills = IF filled THEN @ + 1 ELSE @, !.position.sim = sim] =
               With(now, run.trades, fills)
  <2>1. run.position = [setup |-> run.position.setup, params |-> p, sim |-> run.position.sim]
    BY <1>8, <1>9
  <2> DEFINE b == filled
  <2> HIDE DEF next, b, sim
  <2>2. [run.position EXCEPT !.sim = sim] = now
    <3> HIDE DEF p
    <3> QED
      BY <2>1
  <2>3. [With(run.position, run.trades, run.fills) EXCEPT !.fills = IF b THEN @ + 1 ELSE @, !.position.sim = sim] =
          With([run.position EXCEPT !.sim = sim], run.trades, IF b THEN run.fills + 1 ELSE run.fills)
    <3> DEFINE n == IF b THEN run.fills + 1 ELSE run.fills
    <3> HIDE DEF now, p
    <3>1. [With(run.position, run.trades, run.fills) EXCEPT !.fills = IF b THEN @ + 1 ELSE @]
            = With(run.position, run.trades, n)
      OBVIOUS
    <3>2. [With(run.position, run.trades, n) EXCEPT !.position.sim = sim]
            = With([run.position EXCEPT !.sim = sim], run.trades, n)
      OBVIOUS
    <3> QED
      BY <3>1, <3>2
  <2> QED
    BY <1>6, <2>2, <2>3 DEF b
<1> DEFINE Moves == /\ now.setup = run.position.setup /\ now.params = run.position.params /\ now.sim = sim
                    /\ run.position.sim.fill # Nothing => now.sim.fill # Nothing
                    /\ fills = IF run.position.sim.fill = Nothing /\ now.sim.fill # Nothing THEN run.fills + 1
                               ELSE run.fills
<1>13. ASSUME run.position # Nothing PROVE Moves
  <2>1. SimIs(m, p, run.position.sim, Past(m, p, list, run.cursor))
    BY <1>1, <1>13 DEF Placed
  <2>2. now.setup = run.position.setup /\ now.params = run.position.params /\ now.sim = sim
    OBVIOUS
  <2> HIDE DEF next, sim, p
  <2>3. run.position.sim.fill # Nothing => sim.fill # Nothing
    BY <1>3, <1>8, <1>13, <2>1, FillStays
  <2> QED
    BY <2>2, <2>3
<1>10. CASE run.position = Nothing \/ next = run.cursor
  <2>1. Advance(run, list, until, costs) = With(run.position, run.trades, run.fills)
    BY <1>5, <1>6, <1>10
  <2>2. Follows(m, list, run, With(run.position, run.trades, run.fills), costs)
    <3> HIDE DEF next
    <3> QED
      BY DEF Follows
  <2> QED
    BY <1>7, <1>10, <2>1, <2>2
<1>11. CASE run.position # Nothing /\ next # run.cursor /\ sim.status \in P!Active
  <2>1. Advance(run, list, until, costs) = With(now, run.trades, fills)
    BY <1>5, <1>9, <1>11
  <2>2. Placed(m, list, now, next)
    <3> HIDE DEF next, p, sim
    <3> QED
      BY <1>8, <1>11 DEF Placed
  <2>3. Played(m, list, With(now, run.trades, fills), until)
    <3> HIDE DEF next, now, fills
    <3> QED
      BY <1>1, <1>2, <1>3, <1>4, <2>2 DEF Played
  <2>4. Follows(m, list, run, With(now, run.trades, fills), costs)
    <3>1. Moves /\ now # Nothing
      BY <1>11, <1>13, <2>2, PositionIs
    <3> HIDE DEF next, now, fills
    <3> QED
      BY <1>11, <3>1 DEF Follows
  <2> QED
    BY <2>1, <2>3, <2>4
<1>12. CASE run.position # Nothing /\ next # run.cursor /\ sim.status \notin P!Active
  <2>1. Advance(run, list, until, costs) =
          [With(now, run.trades, fills) EXCEPT !.position = Nothing,
             !.trades = Append(@, Finish(With(now, run.trades, fills).position, sim.status, costs.commission))]
    BY <1>5, <1>9, <1>12
  <2>2. [With(now, run.trades, fills) EXCEPT !.position = Nothing,
             !.trades = Append(@, Finish(With(now, run.trades, fills).position, sim.status, costs.commission))]
          = With(Nothing, trades, fills)
    <3> DEFINE e == Finish(now, sim.status, costs.commission)
               Added(all) == Append(all, e)
    <3>1. With(now, run.trades, fills).position = now
      OBVIOUS
    <3> HIDE DEF next, now, fills, sim, e, Added
    <3>2. [With(now, run.trades, fills) EXCEPT !.position = Nothing] = With(Nothing, run.trades, fills)
      OBVIOUS
    <3>3. [With(Nothing, run.trades, fills) EXCEPT !.trades = Added(@)] = With(Nothing, Added(run.trades), fills)
      OBVIOUS
    <3>4. [With(now, run.trades, fills) EXCEPT !.position = Nothing, !.trades = Append(@, e)]
            = With(Nothing, Append(run.trades, e), fills)
      BY <3>2, <3>3 DEF Added
    <3> QED
      BY <3>1, <3>4 DEF e
  <2>3. TellsTrue(m, Finish(now, sim.status, costs.commission))
    <3>1. now.params = p /\ now.sim = sim
      OBVIOUS
    <3>2. OrderIs(m, now.params) /\ SimIs(m, now.params, now.sim, Past(m, now.params, list, next))
          /\ now.sim.status \notin P!Active
      <4> HIDE DEF now, p, sim, next
      <4> QED
        BY <1>8, <1>12, <3>1
    <3> HIDE DEF now, next, p, sim
    <3>3. TellsTrue(m, Finish(now, now.sim.status, costs.commission))
      BY <1>3, <3>2, OverIsTrue
    <3> QED
      BY <3>1, <3>3
  <2>4. trades \in Seq(Range(trades)) /\ \A t \in Range(trades) : Took(t) => TellsTrue(m, t)
    <3> DEFINE e == Finish(now, sim.status, costs.commission)
    <3> HIDE DEF e
    <3>1. /\ Append(run.trades, e) \in Seq(Range(Append(run.trades, e)))
          /\ \A t \in Range(Append(run.trades, e)) : t \in Range(run.trades) \/ t = e
      BY <1>1, AppendedAre
    <3>2. TellsTrue(m, e)
      BY <2>3 DEF e
    <3>3. trades = Append(run.trades, e)
      BY DEF e
    <3> HIDE DEF trades
    <3> QED
      BY <1>1, <3>1, <3>2, <3>3
  <2>5. Played(m, list, With(Nothing, trades, fills), until)
    <3> HIDE DEF next, now, fills, trades
    <3> QED
      BY <1>1, <1>2, <1>3, <1>4, <2>4 DEF Played
  <2>6. Follows(m, list, run, With(Nothing, trades, fills), costs)
    <3>1. Moves
      BY <1>12, <1>13
    <3>2. sim.status \in {"CLOSED", "EXPIRED"}
      <4>1. SimIs(m, p, sim, Past(m, p, list, next))
        BY <1>8, <1>12
      <4> HIDE DEF next, sim, p
      <4>2. sim.status \in {"PENDING", "EXPIRED", "OPEN", "CLOSED"}
        BY <4>1 DEF SimIs
      <4> QED
        BY <1>12, <4>2 DEF P!Active
    <3>3. trades = Append(run.trades, Finish(now, sim.status, costs.commission))
      OBVIOUS
    <3>4. SimIs(m, now.params, now.sim, Past(m, now.params, list, With(Nothing, trades, fills).cursor))
      BY <1>8, <1>12
    <3> HIDE DEF next, now, fills, trades, sim
    <3> QED
      BY <1>12, <3>1, <3>2, <3>3, <3>4 DEF Follows
  <2> QED
    BY <2>1, <2>2, <2>5, <2>6
<1> QED
  BY <1>10, <1>11, <1>12

(* An order that is placed as its plan is confirmed has every bar ahead.   *)
LEMMA NewIsPlaced ==
  ASSUME NEW m, Sound(m), NEW list, Sorted(InRange(m), list), NEW time \in Int, m.start <= time,
         NEW c \in 0 .. Len(list), ClosedTo(list, c, time), NEW id \in STRING, NEW plan, SoundPlan(plan),
         NEW costs, costs.half \in Int, costs.slip \in Int
  PROVE  Placed(m, list, [setup |-> id, params |-> P!Params(plan, time, costs), sim |-> P!NewSim], c)
<1> DEFINE p == P!Params(plan, time, costs)
           q == [setup |-> id, params |-> p, sim |-> P!NewSim]
           D == Past(m, p, list, c)
<1>1. /\ p.side = plan.side /\ p.limit = plan.entry /\ p.stop = plan.stop /\ p.target = plan.tp1
      /\ p.created = time /\ p.half = costs.half /\ p.slip = costs.slip
  BY DEF P!Params
<1>2. OrderIs(m, p)
  <2>1. /\ plan.side \in {-1, 1} /\ plan.entry \in Int /\ plan.stop \in Int /\ plan.tp1 \in Int
        /\ plan.side * (plan.entry - plan.stop) > 0 /\ plan.side * (plan.tp1 - plan.entry) > 0
    BY DEF SoundPlan
  <2>2. m.start \in Int /\ time >= m.start
    BY DEF Sound
  <2>3. p \in Orders
    <3>1. p = [side |-> plan.side, limit |-> plan.entry, stop |-> plan.stop, target |-> plan.tp1,
               created |-> time, half |-> costs.half, slip |-> costs.slip]
      BY DEF P!Params
    <3> HIDE DEF p
    <3> QED
      BY <2>1, <3>1 DEF Orders
  <2> HIDE DEF p
  <2> QED
    BY <1>1, <2>1, <2>2, <2>3 DEF OrderIs
<1>3. D = {}
  <2> SUFFICES ASSUME NEW b \in D PROVE FALSE
    OBVIOUS
  <2>1. b \in Ahead(m, p) /\ \E i \in 1 .. c : list[i] = b
    BY DEF Past
  <2>2. PICK i \in 1 .. c : list[i] = b
    BY <2>1
  <2>3. Len(list) \in Nat
    BY DEF Sorted
  <2>4. b.at + 1 <= time
    BY <2>2, <2>3 DEF ClosedTo, P!CloseOf
  <2>5. b.at \in Int /\ b.at >= time
    <3> HIDE DEF p, D
    <3>1. b.at \in Int /\ b.at >= p.created
      BY <1>2, <2>1, AheadIs
    <3> QED
      BY <1>1, <3>1
  <2> QED
    BY <2>4, <2>5
<1>4. P!NewSim \in Sims
  BY DEF P!NewSim, Sims, Maybe, P!Statuses, P!Active, P!Reasons
<1>5. SimIs(m, p, P!NewSim, {})
  <2>1. ~Met(Fills(m, p), {})
    BY DEF Met
  <2>2. Cardinality({}) = 0 /\ 0 < ExpiryBars
    BY FS_EmptySet, HistoryAssumption
  <2>3. P!NewSim.thru = Nothing /\ P!NewSim.fill = Nothing /\ P!NewSim.filled = Nothing /\ P!NewSim.reason = "none"
        /\ P!NewSim.status = "PENDING" /\ P!NewSim.pending = 0
    BY DEF P!NewSim
  <2> QED
    BY <1>4, <2>1, <2>2, <2>3 DEF SimIs
<1>6. q.setup = id /\ q.params = p /\ q.sim = P!NewSim /\ q = [setup |-> q.setup, params |-> q.params, sim |-> q.sim]
  OBVIOUS
<1>7. P!NewSim.status \in P!Active
  BY DEF P!NewSim, P!Active
<1> HIDE DEF p, q
<1> QED
  BY <1>2, <1>3, <1>5, <1>6, <1>7 DEF Placed, D, p, q

(* A setup that is considered.                                             *)
New(setup, time, costs) ==
  [setup |-> setup.id, params |-> P!Params(setup.plan, time, costs), sim |-> P!NewSim]
Key(setup) == <<setup.id, setup.plan.at>>

(* A plan that a candle confirmed, and that was not seen before, is placed *)
(* or is skipped.                                                          *)
Counts(run, setup, time) == ConfirmedNow(setup.plan, time) /\ Key(setup) \notin run.plans

Decides(m, run, next, setup, time, costs) ==
  /\ next.fills = run.fills
  /\ IF Counts(run, setup, time)
     THEN /\ OrderIs(m, New(setup, time, costs).params)
          /\ next.plans = run.plans \cup {Key(setup)} /\ next.confirmed = run.confirmed + 1
          /\ IF run.position # Nothing
             THEN /\ next.position = run.position /\ next.skipped = run.skipped + 1
                  /\ next.trades = Append(run.trades, Trade(New(setup, time, costs), "SKIPPED_OVERLAP"))
             ELSE /\ next.position = New(setup, time, costs) /\ next.position # Nothing
                  /\ next.skipped = run.skipped /\ next.trades = run.trades
     ELSE /\ next.plans = run.plans /\ next.confirmed = run.confirmed
          /\ next.position = run.position /\ next.skipped = run.skipped /\ next.trades = run.trades

LEMMA ConsiderIs ==
  ASSUME NEW m, Sound(m), NEW list, Sorted(InRange(m), list), NEW run, NEW time \in Int, m.start <= time,
         Played(m, list, run, time), NEW setup, SoundSetup(setup),
         NEW costs, costs.half \in Int, costs.slip \in Int
  PROVE  LET next == Consider(run, setup, time, costs)
         IN  /\ Played(m, list, next, time) /\ next.cursor = run.cursor /\ next.ineligible = run.ineligible
             /\ next.fills = run.fills /\ next.confirmed \in Nat /\ next.skipped \in Nat
             /\ next.position \in {run.position, New(setup, time, costs)}
             /\ next.plans \in {run.plans, run.plans \cup {Key(setup)}}
             /\ next.reached = run.reached \cup {<<setup.id, setup.state>>}
             /\ next.trades \in {run.trades, Append(run.trades, Trade(New(setup, time, costs), "SKIPPED_OVERLAP"))}
             /\ Decides(m, run, next, setup, time, costs)
<1> DEFINE next == Consider(run, setup, time, costs)
           new == New(setup, time, costs)
           e == Trade(new, "SKIPPED_OVERLAP")
           reached == run.reached \cup {<<setup.id, setup.state>>}
           plans == run.plans \cup {Key(setup)}
           With(position, trades, all, confirmed, skipped) ==
             [cursor |-> run.cursor, position |-> position, trades |-> trades, plans |-> all, reached |-> reached,
              ineligible |-> run.ineligible, confirmed |-> confirmed, skipped |-> skipped, fills |-> run.fills]
<1>1. /\ run = [cursor |-> run.cursor, position |-> run.position, trades |-> run.trades, plans |-> run.plans,
                reached |-> run.reached, ineligible |-> run.ineligible, confirmed |-> run.confirmed,
                skipped |-> run.skipped, fills |-> run.fills]
      /\ run.cursor \in 0 .. Len(list) /\ ClosedTo(list, run.cursor, time)
      /\ run.trades \in Seq(Range(run.trades)) /\ (\A t \in Range(run.trades) : Took(t) => TellsTrue(m, t))
      /\ run.position = Nothing \/ Placed(m, list, run.position, run.cursor)
      /\ run.ineligible \in Nat /\ run.confirmed \in Nat /\ run.skipped \in Nat /\ run.fills \in Nat
  BY DEF Played
<1>2. \A confirmed \in Nat, skipped \in Nat : \A position, trades, all :
        /\ trades \in Seq(Range(trades)) /\ \A t \in Range(trades) : Took(t) => TellsTrue(m, t)
        /\ position = Nothing \/ Placed(m, list, position, run.cursor)
        => Played(m, list, With(position, trades, all, confirmed, skipped), time)
  <2> SUFFICES ASSUME NEW position, NEW trades, NEW all, NEW confirmed \in Nat, NEW skipped \in Nat,
                      trades \in Seq(Range(trades)), \A t \in Range(trades) : Took(t) => TellsTrue(m, t),
                      position = Nothing \/ Placed(m, list, position, run.cursor)
               PROVE  Played(m, list, With(position, trades, all, confirmed, skipped), time)
    OBVIOUS
  <2> HIDE DEF reached
  <2> QED
    BY <1>1 DEF Played
<1>3. PICK seen : seen = [run EXCEPT !.reached = @ \cup {<<setup.id, setup.state>>}]
  OBVIOUS
<1>4. seen = With(run.position, run.trades, run.plans, run.confirmed, run.skipped)
  <2> DEFINE Added(all) == all \cup {<<setup.id, setup.state>>}
  <2>1. seen = [run EXCEPT !.reached = Added(@)] /\ Added(run.reached) = reached
    BY <1>3
  <2> HIDE DEF reached, Added
  <2> QED
    BY <1>1, <2>1
<1> DEFINE told == With(run.position, run.trades, plans, run.confirmed + 1, run.skipped)
<1>5. [seen EXCEPT !.plans = @ \cup {Key(setup)}, !.confirmed = @ + 1] = told
  <2> DEFINE Added(all) == all \cup {Key(setup)}
  <2>1. Added(run.plans) = plans
    OBVIOUS
  <2> HIDE DEF reached, plans, Added
  <2>2. [With(run.position, run.trades, run.plans, run.confirmed, run.skipped) EXCEPT !.plans = Added(@)]
          = With(run.position, run.trades, plans, run.confirmed, run.skipped)
    BY <2>1
  <2>3. [With(run.position, run.trades, plans, run.confirmed, run.skipped) EXCEPT !.confirmed = @ + 1] = told
    OBVIOUS
  <2>4. [seen EXCEPT !.plans = Added(@), !.confirmed = @ + 1] = told
    BY <1>4, <2>2, <2>3
  <2> QED
    BY <2>4 DEF Added
<1>6. [told EXCEPT !.skipped = @ + 1, !.trades = Append(@, e)]
        = With(run.position, Append(run.trades, e), plans, run.confirmed + 1, run.skipped + 1)
  <2> DEFINE Added(all) == Append(all, e)
  <2> HIDE DEF reached, plans, Added, e
  <2>1. [told EXCEPT !.skipped = @ + 1] = With(run.position, run.trades, plans, run.confirmed + 1, run.skipped + 1)
    OBVIOUS
  <2>2. [With(run.position, run.trades, plans, run.confirmed + 1, run.skipped + 1) EXCEPT !.trades = Added(@)]
          = With(run.position, Added(run.trades), plans, run.confirmed + 1, run.skipped + 1)
    OBVIOUS
  <2> QED
    BY <2>1, <2>2 DEF Added
<1>7. [told EXCEPT !.position = new] = With(new, run.trades, plans, run.confirmed + 1, run.skipped)
  <2> HIDE DEF reached, plans, new
  <2> QED
    OBVIOUS
<1>8. next = IF ~ConfirmedNow(setup.plan, time) \/ Key(setup) \in run.plans THEN seen
             ELSE IF run.position # Nothing THEN [told EXCEPT !.skipped = @ + 1, !.trades = Append(@, e)]
             ELSE [told EXCEPT !.position = new]
  <2>1. next = IF ~ConfirmedNow(setup.plan, time) \/ Key(setup) \in run.plans THEN seen
               ELSE IF run.position # Nothing
                    THEN [[seen EXCEPT !.plans = @ \cup {Key(setup)}, !.confirmed = @ + 1]
                            EXCEPT !.skipped = @ + 1, !.trades = Append(@, e)]
               ELSE [[seen EXCEPT !.plans = @ \cup {Key(setup)}, !.confirmed = @ + 1] EXCEPT !.position = new]
    BY <1>3, Zenon DEF Consider, Key, New
  <2> HIDE DEF told, next, e, new
  <2> QED
    BY <1>5, <2>1
<1>9. CASE ~ConfirmedNow(setup.plan, time) \/ Key(setup) \in run.plans
  <2>1. next = With(run.position, run.trades, run.plans, run.confirmed, run.skipped)
    BY <1>4, <1>8, <1>9
  <2>2. Played(m, list, next, time)
    <3> HIDE DEF With, next
    <3> QED
      BY <1>1, <1>2, <2>1
  <2> HIDE DEF next, reached
  <2>3. Decides(m, run, next, setup, time, costs)
    BY <1>9, <2>1 DEF Decides, Counts
  <2> QED
    BY <1>1, <2>1, <2>2, <2>3 DEF next, reached
<1>12. ASSUME ~(~ConfirmedNow(setup.plan, time) \/ Key(setup) \in run.plans)
       PROVE  Placed(m, list, new, run.cursor) /\ new # Nothing /\ OrderIs(m, new.params)
  <2>1. SoundPlan(setup.plan) /\ setup.id \in STRING
    BY <1>12 DEF ConfirmedNow, SoundSetup
  <2>2. Placed(m, list, new, run.cursor)
    BY <1>1, <2>1, NewIsPlaced DEF New
  <2> HIDE DEF new
  <2> QED
    BY <2>2, PositionIs DEF Placed
<1>10. CASE ~(~ConfirmedNow(setup.plan, time) \/ Key(setup) \in run.plans) /\ run.position # Nothing
  <2> DEFINE trades == Append(run.trades, e)
  <2>1. next = With(run.position, trades, plans, run.confirmed + 1, run.skipped + 1)
    BY <1>6, <1>8, <1>10
  <2>2. trades \in Seq(Range(trades)) /\ \A t \in Range(trades) : Took(t) => TellsTrue(m, t)
    <3>1. ~Took(e)
      BY DEF Took, Trade
    <3> HIDE DEF e
    <3>2. /\ trades \in Seq(Range(trades)) /\ \A t \in Range(trades) : t \in Range(run.trades) \/ t = e
      BY <1>1, AppendedAre
    <3> HIDE DEF trades
    <3> QED
      BY <1>1, <3>1, <3>2
  <2> HIDE DEF trades, plans, reached
  <2>3. Played(m, list, next, time)
    <3>1. run.confirmed + 1 \in Nat /\ run.skipped + 1 \in Nat
      BY <1>1
    <3> HIDE DEF With, next
    <3> QED
      BY <1>1, <1>2, <2>1, <2>2, <3>1
  <2> HIDE DEF next
  <2>4. OrderIs(m, New(setup, time, costs).params)
    BY <1>10, <1>12 DEF new
  <2>5. Decides(m, run, next, setup, time, costs)
    BY <1>10, <2>1, <2>4 DEF Decides, Counts, plans, trades
  <2> QED
    BY <1>1, <2>1, <2>3, <2>5 DEF next, reached, plans, trades
<1>11. CASE ~(~ConfirmedNow(setup.plan, time) \/ Key(setup) \in run.plans) /\ run.position = Nothing
  <2>1. next = With(new, run.trades, plans, run.confirmed + 1, run.skipped)
    BY <1>7, <1>8, <1>11
  <2>2. Placed(m, list, new, run.cursor)
    BY <1>11, <1>12
  <2> HIDE DEF plans, reached, new
  <2>3. Played(m, list, next, time)
    <3>1. run.confirmed + 1 \in Nat
      BY <1>1
    <3> HIDE DEF With, next
    <3> QED
      BY <1>1, <1>2, <2>1, <2>2, <3>1
  <2> HIDE DEF next
  <2>4. OrderIs(m, New(setup, time, costs).params) /\ New(setup, time, costs) # Nothing
    BY <1>11, <1>12 DEF new
  <2>5. Decides(m, run, next, setup, time, costs)
    BY <1>11, <2>1, <2>4 DEF Decides, Counts, plans, new
  <2> QED
    BY <1>1, <2>1, <2>3, <2>5 DEF next, reached, plans, new
<1> QED
  BY <1>9, <1>10, <1>11

(* A sequence over some elements, over those and more.                     *)
LEMMA WiderSeq == \A T, U : T \subseteq U => \A s \in Seq(T) : s \in Seq(U)
OBVIOUS

LEMMA LongerSeq == \A T : \A s \in Seq(T), e \in T : Append(s, e) \in Seq(T)
OBVIOUS

LEMMA LengthIs == \A T : \A s \in Seq(T) : Len(s) \in Nat /\ DOMAIN s = 1 .. Len(s)
OBVIOUS

-----------------------------------------------------------------------------
(* When an order is over.                                                  *)
Over(m, p) == Expected(m, p).over

(* Of so many bars there is the n-th.                                      *)
LEMMA NthExists ==
  ASSUME NEW A, Dated(A), NEW n \in 1 .. Cardinality(A)
  PROVE  \E b \in A : Nth(A, b) = n
<1> DEFINE list == ByOpen(A)
           k == Len(list)
<1>1. /\ k = Cardinality(A) /\ k \in Nat
      /\ \A i, j \in 1 .. k : i < j => list[i].at < list[j].at
      /\ \A b \in A : \E i \in 1 .. k : list[i] = b
      /\ \A i \in 1 .. k : list[i] \in A
  BY ByOpenIs DEF Sorted
<1> HIDE DEF list, k
<1>2. n \in 1 .. k /\ \A i \in 1 .. n : i \in 1 .. k
  BY <1>1
<1>3. \A i \in 1 .. k : list[i].at \in Int
  BY <1>1 DEF Dated
<1> DEFINE b == list[n]
           T == {c \in A : c.at <= b.at}
           f == [i \in 1 .. n |-> list[i]]
<1>4. f \in Injection(1 .. n, T)
  <2>1. f \in [1 .. n -> T]
    <3> SUFFICES ASSUME NEW i \in 1 .. n PROVE list[i] \in T
      OBVIOUS
    <3>1. i = n \/ i < n
      OBVIOUS
    <3> QED
      BY <1>1, <1>2, <1>3, <3>1
  <2>2. \A i, j \in 1 .. n : f[i] = f[j] => i = j
    <3> SUFFICES ASSUME NEW i \in 1 .. n, NEW j \in 1 .. n, list[i] = list[j], i # j PROVE FALSE
      OBVIOUS
    <3>1. i < j \/ j < i
      OBVIOUS
    <3> QED
      BY <1>1, <1>2, <1>3, <3>1
  <2> HIDE DEF f, T
  <2> QED
    BY <2>1, <2>2 DEF Injection, IsInjective
<1>5. \A c \in T : \E i \in 1 .. n : f[i] = c
  <2> SUFFICES ASSUME NEW c \in A, c.at <= b.at PROVE \E i \in 1 .. n : f[i] = c
    OBVIOUS
  <2>1. PICK i \in 1 .. k : list[i] = c
    BY <1>1
  <2>2. ~(n < i)
    <3>1. ~(list[n].at < list[i].at)
      BY <1>2, <1>3, <2>1
    <3> QED
      BY <1>1, <1>2, <3>1
  <2>3. i \in 1 .. n
    BY <1>1, <2>2
  <2> QED
    BY <2>1, <2>3
<1>6. ExistsBijection(1 .. n, T)
  <2> HIDE DEF f, T
  <2>1. f \in Surjection(1 .. n, T)
    BY <1>4, <1>5 DEF Surjection, Injection
  <2> QED
    BY <1>4, <2>1 DEF ExistsBijection, Bijection
<1>7. Cardinality(T) = n
  <2> HIDE DEF T
  <2> QED
    BY <1>1, <1>6, FS_CountingElements
<1>8. b \in A
  BY <1>1, <1>2
<1> QED
  BY <1>7, <1>8 DEF Nth

(* The bars that passed are those that closed by then.                     *)
LEMMA PastIs ==
  ASSUME NEW m, Sound(m), NEW p, OrderIs(m, p), NEW list, Sorted(InRange(m), list), NEW k \in 0 .. Len(list),
         NEW time \in Int, ClosedTo(list, k, time)
  PROVE  Past(m, p, list, k) = {b \in Ahead(m, p) : P!CloseOf(b) <= time}
<1>1. Len(list) \in Nat /\ \A b \in InRange(m) : \E i \in 1 .. Len(list) : list[i] = b
  BY DEF Sorted
<1>2. Ahead(m, p) \in SUBSET InRange(m)
  BY AheadIs
<1>3. ASSUME NEW b \in Ahead(m, p) PROVE (\E i \in 1 .. k : list[i] = b) <=> P!CloseOf(b) <= time
  <2>1. PICK j \in 1 .. Len(list) : list[j] = b
    BY <1>1, <1>2
  <2>2. ASSUME NEW i \in 1 .. k, list[i] = b PROVE P!CloseOf(b) <= time
    BY <1>1, <2>2 DEF ClosedTo
  <2>3. ASSUME P!CloseOf(b) <= time PROVE j \in 1 .. k
    BY <1>1, <2>1, <2>3 DEF ClosedTo
  <2> QED
    BY <2>1, <2>2, <2>3
<1> QED
  BY <1>3 DEF Past

(* The bar whose close ends the wait for a fill.                           *)
WaitEnd(m, p) == CHOOSE b \in Ahead(m, p) : Nth(Ahead(m, p), b) = ExpiryBars

LEMMA LastWait ==
  ASSUME NEW m, Sound(m), NEW p, OrderIs(m, p), Expires(m, p)
  PROVE  WaitEnd(m, p) \in Ahead(m, p) /\ Nth(Ahead(m, p), WaitEnd(m, p)) = ExpiryBars
<1>1. Dated(Ahead(m, p)) /\ Cardinality(Ahead(m, p)) \in Nat
  BY AheadIs, FS_CardinalityType
<1>2. ExpiryBars \in 1 .. Cardinality(Ahead(m, p))
  BY <1>1, HistoryAssumption DEF Expires
<1>3. \E b \in Ahead(m, p) : Nth(Ahead(m, p), b) = ExpiryBars
  BY <1>1, <1>2, NthExists
<1> QED
  BY <1>3, Zenon DEF WaitEnd

(* An order is over after it was placed, and one that was closed is over   *)
(* within the range.                                                       *)
LEMMA OverIs ==
  ASSUME NEW m, Sound(m), NEW p, OrderIs(m, p), p.created <= m.end
  PROVE  /\ Over(m, p) \in Int /\ Over(m, p) > p.created
         /\ Closes(m, p) # {} => /\ Over(m, p) = P!CloseOf(Earliest(Closes(m, p))) /\ Over(m, p) <= m.end
                                 /\ Earliest(Closes(m, p)) \in Closes(m, p)
         /\ Closes(m, p) = {} /\ Expires(m, p) => Over(m, p) = P!CloseOf(WaitEnd(m, p))
         /\ Closes(m, p) = {} /\ ~Expires(m, p) => Over(m, p) = m.end + 1
<1> DEFINE A == Ahead(m, p)
           C == Closes(m, p)
<1>1. p.created \in Int /\ m.end \in Int
  BY DEF OrderIs, Sound
<1>2. \A b \in A : b.at \in Int /\ b.at >= p.created /\ P!CloseOf(b) = b.at + 1 /\ P!CloseOf(b) <= m.end
  BY AheadIs DEF Ahead, P!CloseOf
<1>3. Dated(C) /\ C \in SUBSET A
  <2>1. C \in SUBSET A /\ Dated(A)
    BY AheadIs DEF Closes
  <2> QED
    BY <2>1, DatedPart
<1>4. Over(m, p) = IF C # {} THEN P!CloseOf(Earliest(C))
                   ELSE IF Expires(m, p) THEN P!CloseOf(WaitEnd(m, p)) ELSE m.end + 1
  BY DEF Over, Expected, WaitEnd
<1> HIDE DEF A, C
<1>5. CASE C # {}
  <2>1. Earliest(C) \in C /\ Earliest(C) \in A
    BY <1>3, <1>5, EarliestIs
  <2> QED
    BY <1>1, <1>2, <1>4, <1>5, <2>1 DEF C
<1>6. CASE C = {} /\ Expires(m, p)
  <2>1. WaitEnd(m, p) \in A
    BY <1>6, LastWait DEF A
  <2> QED
    BY <1>1, <1>2, <1>4, <1>6, <2>1 DEF C
<1>7. CASE C = {} /\ ~Expires(m, p)
  BY <1>1, <1>4, <1>7 DEF C
<1> QED
  BY <1>5, <1>6, <1>7

(* An order is over by a time when the bars that closed by then end it.    *)
LEMMA OverWhen ==
  ASSUME NEW m, Sound(m), NEW q, OrderIs(m, q.params), q.params.created <= m.end,
         NEW list, Sorted(InRange(m), list), NEW k \in 0 .. Len(list), NEW time \in Int, time <= m.end,
         ClosedTo(list, k, time), SimIs(m, q.params, q.sim, Past(m, q.params, list, k))
  PROVE  Over(m, q.params) <= time <=> q.sim.status \notin P!Active
<1> DEFINE p == q.params
           sim == q.sim
           D == Past(m, p, list, k)
           A == Ahead(m, p)
           F == Fills(m, p)
           C == Closes(m, p)
           over == Over(m, p)
<1>1. D \in SUBSET A /\ (\A b \in D, c \in A : c.at <= b.at => c \in D)
      /\ \A b \in A : b \in D <=> P!CloseOf(b) <= time
  BY PastIsClosed, PastIs
<1>2. Dated(A) /\ IsFiniteSet(A) /\ \A b \in A : b.at \in Int
  BY AheadIs
<1>3. /\ C # {} => over = P!CloseOf(Earliest(C)) /\ Earliest(C) \in C
      /\ C = {} /\ Expires(m, p) => over = P!CloseOf(WaitEnd(m, p))
      /\ C = {} /\ ~Expires(m, p) => over = m.end + 1
  BY OverIs
<1>4. m.end \in Int
  BY DEF Sound
<1>5. ExpiryBars \in Nat \ {0}
  BY HistoryAssumption
<1>6. SimIs(m, p, sim, D)
  OBVIOUS
<1>7. C \in SUBSET A /\ F \in SUBSET A /\ (C # {} => F # {}) /\ \A c \in C : Earliest(F).at <= c.at
  BY DEF Closes, Fills
<1>8. F # {} => Earliest(F) \in F
  <2>1. Dated(F)
    BY <1>2, <1>7, DatedPart
  <2> QED
    BY <2>1, EarliestIs
<1> HIDE DEF D, A, F, C, over, sim, p
<1>9. C # {} /\ Met(C, D) => Met(F, D)
  BY <1>1, <1>3, <1>7, <1>8 DEF Met
<1>10. C # {} => (over <= time <=> Met(C, D))
  BY <1>1, <1>3, <1>7 DEF Met
<1>11. CASE sim.status \in P!Active
  <2>1. sim.status \in {"PENDING", "OPEN"}
    BY <1>11 DEF P!Active
  <2>2. CASE C # {}
    <3>1. ~Met(C, D)
      <4> SUFFICES ASSUME Met(C, D) PROVE FALSE
        OBVIOUS
      <4>1. Met(F, D)
        BY <1>9, <2>2
      <4>2. sim.status = "CLOSED"
        BY <1>6, <4>1 DEF SimIs, F, C
      <4> QED
        BY <2>1, <4>2
    <3> QED
      BY <1>10, <1>11, <2>2, <3>1 DEF sim, over, p
  <2>3. CASE C = {} /\ Expires(m, p)
    <3>1. F = {} /\ ~Met(F, D)
      BY <2>3 DEF Expires, Met, F
    <3>2. Cardinality(D) < ExpiryBars
      BY <1>6, <2>1, <3>1 DEF SimIs, F
    <3> DEFINE b == WaitEnd(m, p)
               B == {c \in A : c.at <= b.at}
    <3>3. b \in A /\ Cardinality(B) = ExpiryBars
      <4>1. OrderIs(m, p)
        BY DEF p
      <4> QED
        BY <2>3, <4>1, LastWait DEF A, Nth
    <3>4. b \notin D
      <4> SUFFICES ASSUME b \in D PROVE FALSE
        OBVIOUS
      <4>1. B \in SUBSET D
        BY <1>1
      <4>2. IsFiniteSet(D)
        BY <1>1, <1>2, FewerOf
      <4> HIDE DEF B
      <4>3. Cardinality(B) <= Cardinality(D) /\ Cardinality(D) \in Nat
        BY <4>1, <4>2, FewerOf
      <4> QED
        BY <1>5, <3>2, <3>3, <4>3
    <3>5. ~(over <= time)
      BY <1>1, <1>3, <2>3, <3>3, <3>4
    <3> QED
      BY <1>11, <3>5 DEF over, p, sim
  <2>4. CASE C = {} /\ ~Expires(m, p)
    <3>1. ~(over <= time)
      BY <1>3, <1>4, <2>4
    <3> QED
      BY <1>11, <3>1 DEF over, p, sim
  <2> QED
    BY <2>2, <2>3, <2>4
<1>12. CASE sim.status \notin P!Active
  <2> DEFINE t == Finish(q, sim.status, 0)
  <2>1. TellsTrue(m, t) /\ t.status = sim.status /\ t.params = p
    BY <1>12, OverIsTrue, FinishIs DEF sim, p
  <2> HIDE DEF t
  <2>2. Expected(m, p).status = sim.status
    BY <2>1 DEF TellsTrue
  <2>3. CASE C # {}
    <3>1. sim.status = "CLOSED"
      BY <2>2, <2>3 DEF Expected, C
    <3>2. Met(F, D) /\ Met(C, D)
      BY <1>6, <3>1 DEF SimIs, F, C
    <3> QED
      BY <1>10, <1>12, <2>3, <3>2 DEF over, p, sim
  <2>4. CASE C = {} /\ Expires(m, p)
    <3>1. F = {} /\ ~Met(F, D)
      BY <2>4 DEF Expires, Met, F
    <3>2. ~(Cardinality(D) < ExpiryBars)
      BY <1>6, <1>12, <3>1 DEF SimIs, F, P!Active
    <3> DEFINE b == WaitEnd(m, p)
               B == {c \in A : c.at <= b.at}
    <3>3. b \in A /\ Cardinality(B) = ExpiryBars
      <4>1. OrderIs(m, p)
        BY DEF p
      <4> QED
        BY <2>4, <4>1, LastWait DEF A, Nth
    <3> HIDE DEF b
    <3>4. b \in D
      <4> SUFFICES ASSUME b \notin D PROVE FALSE
        OBVIOUS
      <4>1. D \cup {b} \in SUBSET B
        <5> SUFFICES ASSUME NEW c \in D PROVE c.at <= b.at
          BY <1>1, <1>2, <3>3
        <5>1. ~(b.at <= c.at)
          BY <1>1, <3>3
        <5> QED
          BY <1>1, <1>2, <3>3, <5>1
      <4>2. IsFiniteSet(B)
        <5>1. B \in SUBSET A
          OBVIOUS
        <5> QED
          BY <1>2, <5>1, FewerOf
      <4> HIDE DEF B
      <4>3. Cardinality(D \cup {b}) <= Cardinality(B) /\ Cardinality(B) \in Nat
        BY <4>1, <4>2, FewerOf
      <4>4. IsFiniteSet(D) /\ Cardinality(D) \in Nat
        BY <1>1, <1>2, FewerOf
      <4>5. Cardinality(D \cup {b}) = Cardinality(D) + 1
        BY <4>4, FS_AddElement
      <4> QED
        BY <1>5, <3>2, <3>3, <4>3, <4>4, <4>5
    <3>5. over <= time
      BY <1>1, <1>3, <2>4, <3>3, <3>4 DEF b
    <3> QED
      BY <1>12, <3>5 DEF over, p, sim
  <2>5. CASE C = {} /\ ~Expires(m, p)
    <3>1. sim.status = "OPEN_AT_END"
      BY <2>2, <2>5 DEF Expected, C
    <3>2. sim.status \in P!Statuses
      BY <1>6 DEF SimIs, Sims
    <3> QED
      BY <3>1, <3>2 DEF P!Statuses, P!Active
  <2> QED
    BY <2>3, <2>4, <2>5
<1> QED
  BY <1>11, <1>12

-----------------------------------------------------------------------------
(* The trades of a run, the order that is placed among them as if it ended *)
(* now.                                                                    *)
Ending(q) == Finish(q, "OPEN_AT_END", 0)
Book(run) == Range(run.trades) \cup (IF run.position = Nothing THEN {} ELSE {Ending(run.position)})

PlanOf(t) == <<t.setup, t.at>>

Entered(m, t) ==
  /\ OrderIs(m, t.params) /\ t.at = t.params.created /\ t.at <= m.end
  /\ t.status \in {"SKIPPED_OVERLAP", "EXPIRED", "CLOSED", "OPEN_AT_END"}

(* An order stands in the way of a plan.                                   *)
Blocks(m, u, t) == Took(u) /\ u.at <= t.at /\ t.at < Over(m, u.params)

(* K has a trade each, the orders come one after another, and a plan that  *)
(* was skipped had one in its way.                                         *)
Ledger(m, S, K) ==
  /\ IsFiniteSet(S) /\ K = {PlanOf(t) : t \in S}
  /\ \A t, u \in S : PlanOf(t) = PlanOf(u) => t = u
  /\ \A t \in S : Entered(m, t)
  /\ \A t, u \in S : t # u /\ Took(t) /\ Took(u) => Over(m, t.params) <= u.at \/ Over(m, u.params) <= t.at
  /\ \A t \in S : ~Took(t) => \E u \in S : Blocks(m, u, t)

Skips(S) == {t \in S : ~Took(t)}
Fillings(S) == {t \in S : t.fill # Nothing}

(* What a run has counted by a time, of the plans K.                       *)
Counted(m, run, K, time) ==
  /\ Ledger(m, Book(run), K)
  /\ run.plans = {<<k[1], k[2] - SetupBars>> : k \in K}
  /\ run.confirmed = Cardinality(Book(run))
  /\ run.skipped = Cardinality(Skips(Book(run)))
  /\ run.fills = Cardinality(Fillings(Book(run)))
  /\ Len(run.trades) = Cardinality(Range(run.trades))
  /\ run.position # Nothing => Ending(run.position) \notin Range(run.trades)
  /\ \A t \in Book(run) : t.at <= time
  /\ \A t \in Range(run.trades) : Took(t) => Over(m, t.params) <= time

LEMMA EnteredIs ==
  ASSUME NEW m, Sound(m), NEW t, Entered(m, t)
  PROVE  t.at \in Int /\ Over(m, t.params) \in Int /\ t.at < Over(m, t.params) /\ t.at >= m.start
<1>1. OrderIs(m, t.params) /\ t.at = t.params.created /\ t.params.created <= m.end
  BY DEF Entered
<1>2. Over(m, t.params) \in Int /\ Over(m, t.params) > t.params.created
  BY <1>1, OverIs
<1> QED
  BY <1>1, <1>2 DEF OrderIs

(* An order that goes on is the same order.                                *)
Swap(S, d, e) == (S \ {d}) \cup {e}

LEMMA Replaced ==
  ASSUME NEW m, NEW S, NEW K, Ledger(m, S, K), NEW d \in S, NEW e, PlanOf(e) = PlanOf(d), e.at = d.at,
         e.params = d.params, Took(d), Took(e), Entered(m, e)
  PROVE  /\ Ledger(m, Swap(S, d, e), K) /\ (e \in S => e = d) /\ Cardinality(Swap(S, d, e)) = Cardinality(S)
         /\ Skips(Swap(S, d, e)) = Skips(S)
         /\ Fillings(Swap(S, d, e)) = IF e.fill = Nothing THEN Fillings(S) \ {d} ELSE Swap(Fillings(S), d, e)
<1> DEFINE T == (S \ {d}) \cup {e}
<1>1. /\ IsFiniteSet(S) /\ K = {PlanOf(t) : t \in S}
      /\ \A t, u \in S : PlanOf(t) = PlanOf(u) => t = u
      /\ \A t \in S : Entered(m, t)
      /\ \A t, u \in S : t # u /\ Took(t) /\ Took(u) => Over(m, t.params) <= u.at \/ Over(m, u.params) <= t.at
      /\ \A t \in S : ~Took(t) => \E u \in S : Blocks(m, u, t)
  BY DEF Ledger
<1>2. e \notin S \ {d}
  BY <1>1
<1>3. IsFiniteSet(T) /\ Cardinality(T) = Cardinality(S)
  <2>1. IsFiniteSet(S \ {d}) /\ Cardinality(S \ {d}) = Cardinality(S) - 1
    BY <1>1, FS_RemoveElement
  <2>2. IsFiniteSet(T) /\ Cardinality(T) = Cardinality(S \ {d}) + 1
    BY <1>2, <2>1, FS_AddElement
  <2>3. Cardinality(S) \in Nat
    BY <1>1, FS_CardinalityType
  <2> QED
    BY <2>1, <2>2, <2>3
<1>4. K = {PlanOf(t) : t \in T}
  BY <1>1
<1>5. \A t, u \in T : PlanOf(t) = PlanOf(u) => t = u
  BY <1>1
<1>6. \A t \in T : Entered(m, t)
  BY <1>1
<1>7. \A t, u \in T : t # u /\ Took(t) /\ Took(u) => Over(m, t.params) <= u.at \/ Over(m, u.params) <= t.at
  BY <1>1
<1>8. \A t \in T : ~Took(t) => \E u \in T : Blocks(m, u, t)
  <2> SUFFICES ASSUME NEW t \in T, ~Took(t) PROVE \E u \in T : Blocks(m, u, t)
    OBVIOUS
  <2>1. PICK u \in S : Blocks(m, u, t)
    BY <1>1
  <2>2. u = d => Blocks(m, e, t)
    BY <2>1 DEF Blocks
  <2> QED
    BY <2>1, <2>2
<1>9. Ledger(m, T, K)
  BY <1>3, <1>4, <1>5, <1>6, <1>7, <1>8 DEF Ledger
<1>10. Skips(T) = Skips(S)
  BY DEF Skips
<1>11. Fillings(T) = IF e.fill = Nothing THEN Fillings(S) \ {d} ELSE (Fillings(S) \ {d}) \cup {e}
  BY DEF Fillings
<1>12. T = Swap(S, d, e)
  BY DEF Swap
<1> QED
  BY <1>2, <1>3, <1>9, <1>10, <1>11, <1>12 DEF Swap

(* A plan more.                                                            *)
LEMMA Added ==
  ASSUME NEW m, Sound(m), NEW S, NEW K, Ledger(m, S, K), NEW e, Entered(m, e), PlanOf(e) \notin K, e.fill = Nothing,
         \/ Took(e) /\ \A t \in S : Took(t) => Over(m, t.params) <= e.at
         \/ ~Took(e) /\ \E u \in S : Blocks(m, u, e)
  PROVE  /\ Ledger(m, S \cup {e}, K \cup {PlanOf(e)}) /\ e \notin S
         /\ Cardinality(S \cup {e}) = Cardinality(S) + 1 /\ Fillings(S \cup {e}) = Fillings(S)
         /\ Cardinality(Skips(S \cup {e})) = Cardinality(Skips(S)) + (IF Took(e) THEN 0 ELSE 1)
<1> DEFINE T == S \cup {e}
<1>1. /\ IsFiniteSet(S) /\ K = {PlanOf(t) : t \in S}
      /\ \A t, u \in S : PlanOf(t) = PlanOf(u) => t = u
      /\ \A t \in S : Entered(m, t)
      /\ \A t, u \in S : t # u /\ Took(t) /\ Took(u) => Over(m, t.params) <= u.at \/ Over(m, u.params) <= t.at
      /\ \A t \in S : ~Took(t) => \E u \in S : Blocks(m, u, t)
  BY DEF Ledger
<1>2. e \notin S
  BY <1>1
<1>3. IsFiniteSet(T) /\ Cardinality(T) = Cardinality(S) + 1
  BY <1>1, <1>2, FS_AddElement
<1>4. K \cup {PlanOf(e)} = {PlanOf(t) : t \in T}
  BY <1>1
<1>5. \A t, u \in T : PlanOf(t) = PlanOf(u) => t = u
  BY <1>1
<1>6. \A t \in T : Entered(m, t)
  BY <1>1
<1>7. \A t, u \in T : t # u /\ Took(t) /\ Took(u) => Over(m, t.params) <= u.at \/ Over(m, u.params) <= t.at
  BY <1>1
<1>8. \A t \in T : ~Took(t) => \E u \in T : Blocks(m, u, t)
  BY <1>1
<1>9. Ledger(m, T, K \cup {PlanOf(e)})
  BY <1>3, <1>4, <1>5, <1>6, <1>7, <1>8 DEF Ledger
<1>10. Fillings(T) = Fillings(S)
  BY DEF Fillings
<1>11. Cardinality(Skips(T)) = Cardinality(Skips(S)) + (IF Took(e) THEN 0 ELSE 1)
  <2>1. Skips(S) \in SUBSET S /\ e \notin Skips(S)
    BY <1>2 DEF Skips
  <2>2. IsFiniteSet(Skips(S)) /\ Cardinality(Skips(S)) \in Nat
    BY <1>1, <2>1, FewerOf
  <2>3. CASE Took(e)
    <3>1. Skips(T) = Skips(S)
      BY <2>3 DEF Skips
    <3> QED
      BY <2>2, <2>3, <3>1
  <2>4. CASE ~Took(e)
    <3>1. Skips(T) = Skips(S) \cup {e}
      BY <2>4 DEF Skips
    <3>2. Cardinality(Skips(S) \cup {e}) = Cardinality(Skips(S)) + 1
      BY <2>1, <2>2, FS_AddElement
    <3> QED
      BY <2>4, <3>1, <3>2
  <2> QED
    BY <2>3, <2>4
<1> QED
  BY <1>2, <1>3, <1>9, <1>10, <1>11

(* The order that is placed, as a trade.                                   *)
LEMMA EndingIs ==
  ASSUME NEW q
  PROVE  /\ Took(Ending(q)) /\ Ending(q).setup = q.setup /\ Ending(q).at = q.params.created /\ Ending(q).params = q.params
         /\ Ending(q).fill = q.sim.fill /\ Ending(q).status = "OPEN_AT_END"
         /\ PlanOf(Ending(q)) = <<q.setup, q.params.created>>
BY FinishIs DEF Ending, Took, PlanOf

LEMMA RangeGrows ==
  ASSUME NEW s, s \in Seq(Range(s)), NEW e
  PROVE  Range(Append(s, e)) = Range(s) \cup {e} /\ Len(Append(s, e)) = Len(s) + 1 /\ Len(s) \in Nat
         /\ IsFiniteSet(Range(s))
<1> DEFINE S == Range(s) \cup {e}
           n == Len(s)
           all == Append(s, e)
<1>1. s \in Seq(S) /\ e \in S
  <2> DEFINE R == Range(s)
  <2>1. R \subseteq S /\ s \in Seq(R)
    OBVIOUS
  <2> HIDE DEF R, S
  <2>2. s \in Seq(S)
    BY <2>1, WiderSeq
  <2> QED
    BY <2>2 DEF S
<1>2. Range(s) = {s[i] : i \in DOMAIN s} /\ Range(all) = {all[i] : i \in DOMAIN all}
  BY DEF Range
<1> HIDE DEF S
<1>3. /\ n \in Nat /\ DOMAIN s = 1 .. n /\ Len(all) = n + 1 /\ DOMAIN all = 1 .. (n + 1)
      /\ all[n + 1] = e /\ \A i \in 1 .. n : all[i] = s[i]
  BY <1>1
<1> HIDE DEF n, all
<1>4. Range(all) = Range(s) \cup {e}
  <2>1. ASSUME NEW x \in Range(all) PROVE x \in Range(s) \cup {e}
    <3>1. PICK i \in 1 .. (n + 1) : x = all[i]
      BY <1>2, <1>3
    <3>2. i = n + 1 \/ i \in 1 .. n
      BY <1>3
    <3> QED
      BY <1>2, <1>3, <3>1, <3>2
  <2>2. ASSUME NEW x \in Range(s) PROVE x \in Range(all)
    <3>1. PICK i \in 1 .. n : x = s[i]
      BY <1>2, <1>3
    <3>2. i \in 1 .. (n + 1)
      BY <1>3
    <3> QED
      BY <1>2, <1>3, <3>1, <3>2
  <2>3. e \in Range(all)
    <3>1. n + 1 \in 1 .. (n + 1)
      BY <1>3
    <3> QED
      BY <1>2, <1>3, <3>1
  <2> QED
    BY <2>1, <2>2, <2>3
<1>5. IsFiniteSet(Range(s))
  <2>1. IsFiniteSet(1 .. n)
    BY <1>3, FS_Interval
  <2> DEFINE f == [i \in 1 .. n |-> s[i]]
  <2>2. f \in [1 .. n -> Range(s)] /\ \A x \in Range(s) : \E i \in 1 .. n : f[i] = x
    BY <1>2, <1>3
  <2> HIDE DEF f
  <2>3. f \in Surjection(1 .. n, Range(s))
    BY <2>2 DEF Surjection
  <2> QED
    BY <2>1, <2>3, FS_Surjection
<1> QED
  BY <1>3, <1>4, <1>5 DEF n, all

(* The bars that closed since do not change what is counted.               *)
LEMMA AdvanceCounts ==
  ASSUME NEW m, Sound(m), NEW list, Sorted(InRange(m), list), NEW run, NEW time \in Int, Played(m, list, run, time),
         NEW until \in Int, time <= until, until <= m.end, NEW costs, NEW K, Counted(m, run, K, time)
  PROVE  Counted(m, Advance(run, list, until, costs), K, until)
<1> DEFINE next == Advance(run, list, until, costs)
           q == run.position
           S == Book(run)
           R == Range(run.trades)
<1>1. Played(m, list, next, until) /\ Follows(m, list, run, next, costs)
  BY AdvanceIs
<1> HIDE DEF next
<1>2. /\ Ledger(m, S, K) /\ run.plans = {<<k[1], k[2] - SetupBars>> : k \in K}
      /\ run.confirmed = Cardinality(S) /\ run.skipped = Cardinality(Skips(S)) /\ run.fills = Cardinality(Fillings(S))
      /\ Len(run.trades) = Cardinality(R) /\ (q # Nothing => Ending(q) \notin R)
      /\ \A t \in S : t.at <= time
      /\ \A t \in R : Took(t) => Over(m, t.params) <= time
  BY DEF Counted
<1>3. \A t \in S : t.at \in Int /\ Over(m, t.params) \in Int /\ Entered(m, t)
  <2>1. \A t \in S : Entered(m, t)
    BY <1>2 DEF Ledger
  <2> HIDE DEF S
  <2> QED
    BY <2>1, EnteredIs
<1>4. R \in SUBSET S /\ (q = Nothing => S = R) /\ (q # Nothing => S = R \cup {Ending(q)})
  BY DEF Book
<1>5. /\ \A t \in S : t.at <= until
      /\ \A t \in R : Took(t) => Over(m, t.params) <= until
  <2> HIDE DEF S, R
  <2> QED
    BY <1>2, <1>3, <1>4
<1>6. next.plans = run.plans /\ next.confirmed = run.confirmed /\ next.skipped = run.skipped
  BY <1>1 DEF Follows
<1>7. CASE next.position = q /\ next.trades = run.trades /\ next.fills = run.fills
  <2>1. Book(next) = S
    BY <1>7 DEF Book
  <2> HIDE DEF S
  <2>2. Counted(m, next, K, until)
    BY <1>2, <1>5, <1>6, <1>7, <2>1 DEF Counted
  <2> QED
    BY <2>2 DEF next
<1>8. ASSUME q # Nothing, NEW now, now.setup = q.setup, now.params = q.params, q.sim.fill # Nothing => now.sim.fill # Nothing,
             next.fills = IF q.sim.fill = Nothing /\ now.sim.fill # Nothing THEN run.fills + 1 ELSE run.fills,
             NEW e, PlanOf(e) = <<q.setup, q.params.created>>, e.at = q.params.created, e.params = q.params, Took(e),
             e.fill = now.sim.fill, e.status \in {"EXPIRED", "CLOSED", "OPEN_AT_END"},
             Book(next) = R \cup {e}
      PROVE  /\ Ledger(m, Book(next), K) /\ e \notin R
             /\ next.confirmed = Cardinality(Book(next)) /\ next.skipped = Cardinality(Skips(Book(next)))
             /\ next.fills = Cardinality(Fillings(Book(next)))
             /\ \A t \in Book(next) : t.at <= until
  <2> DEFINE d == Ending(q)
             T == Book(next)
  <2>1. Took(d) /\ d.at = q.params.created /\ d.params = q.params /\ d.fill = q.sim.fill
        /\ PlanOf(d) = <<q.setup, q.params.created>>
    BY EndingIs
  <2>2. d \in S /\ R = S \ {d} /\ d \notin R
    BY <1>2, <1>4, <1>8
  <2> HIDE DEF d, R, S
  <2>3. Entered(m, e)
    <3>1. Entered(m, d)
      BY <1>3, <2>2
    <3> QED
      BY <1>8, <2>1, <3>1 DEF Entered
  <2>4. T = Swap(S, d, e)
    BY <1>8, <2>2 DEF Swap
  <2> HIDE DEF T
  <2>5. /\ Ledger(m, T, K) /\ (e \in S => e = d) /\ Cardinality(T) = Cardinality(S)
        /\ Skips(T) = Skips(S)
        /\ Fillings(T) = IF e.fill = Nothing THEN Fillings(S) \ {d} ELSE Swap(Fillings(S), d, e)
    <3>1. Ledger(m, S, K) /\ d \in S /\ Took(d) /\ Took(e) /\ e.at = d.at /\ e.params = d.params
      BY <1>2, <1>8, <2>1, <2>2
    <3>2. PlanOf(e) = PlanOf(d)
      BY <1>8, <2>1
    <3> HIDE DEF q
    <3> QED
      BY <2>3, <2>4, <3>1, <3>2, Replaced
  <2>6. next.fills = Cardinality(Fillings(T))
    <3> DEFINE F == Fillings(S)
    <3>1. F \in SUBSET S /\ IsFiniteSet(S) /\ (d \in F <=> q.sim.fill # Nothing) /\ e \notin F \ {d}
      BY <1>2, <2>1, <2>2, <2>5 DEF Fillings, Ledger
    <3>2. IsFiniteSet(F) /\ Cardinality(F) \in Nat
      BY <3>1, FewerOf
    <3> HIDE DEF F
    <3>3. IsFiniteSet(F \ {d}) /\ Cardinality(F \ {d}) = (IF d \in F THEN Cardinality(F) - 1 ELSE Cardinality(F))
      BY <3>2, FS_RemoveElement
    <3>4. Cardinality((F \ {d}) \cup {e}) = Cardinality(F \ {d}) + 1
      BY <3>1, <3>3, FS_AddElement
    <3>5. run.fills = Cardinality(F)
      BY <1>2 DEF F
    <3>6. Fillings(T) = IF e.fill = Nothing THEN F \ {d} ELSE (F \ {d}) \cup {e}
      BY <2>5 DEF F, Swap
    <3> QED
      BY <1>8, <3>1, <3>2, <3>3, <3>4, <3>5, <3>6
  <2>7. \A t \in T : t.at <= until
    BY <1>5, <1>8, <2>1, <2>2, <2>4 DEF Swap
  <2>8. e \notin R
    BY <2>2, <2>5
  <2> QED
    BY <1>2, <1>6, <2>5, <2>6, <2>7, <2>8 DEF T
<1>9. ASSUME q # Nothing, NEW now, now.setup = q.setup, now.params = q.params, q.sim.fill # Nothing => now.sim.fill # Nothing,
             next.fills = IF q.sim.fill = Nothing /\ now.sim.fill # Nothing THEN run.fills + 1 ELSE run.fills,
             next.position = now, now # Nothing, next.trades = run.trades
      PROVE  Counted(m, next, K, until)
  <2> DEFINE e == Ending(now)
  <2>1. /\ PlanOf(e) = <<q.setup, q.params.created>> /\ e.at = q.params.created /\ e.params = q.params /\ Took(e)
        /\ e.fill = now.sim.fill /\ e.status \in {"EXPIRED", "CLOSED", "OPEN_AT_END"}
    BY <1>9, EndingIs
  <2>2. Book(next) = R \cup {e}
    BY <1>9 DEF Book
  <2>3. /\ Ledger(m, Book(next), K) /\ e \notin R
        /\ next.confirmed = Cardinality(Book(next)) /\ next.skipped = Cardinality(Skips(Book(next)))
        /\ next.fills = Cardinality(Fillings(Book(next)))
        /\ \A t \in Book(next) : t.at <= until
    <3> HIDE DEF e, R, S, q
    <3> QED
      BY <1>8, <1>9, <2>1, <2>2
  <2> QED
    BY <1>2, <1>5, <1>6, <1>9, <2>3 DEF Counted
<1>10. ASSUME q # Nothing, NEW now, now.setup = q.setup, now.params = q.params, q.sim.fill # Nothing => now.sim.fill # Nothing,
              next.fills = IF q.sim.fill = Nothing /\ now.sim.fill # Nothing THEN run.fills + 1 ELSE run.fills,
              next.position = Nothing, now.sim.status \in {"CLOSED", "EXPIRED"},
              SimIs(m, now.params, now.sim, Past(m, now.params, list, next.cursor)),
              next.trades = Append(run.trades, Finish(now, now.sim.status, costs.commission))
       PROVE  Counted(m, next, K, until)
  <2> DEFINE e == Finish(now, now.sim.status, costs.commission)
  <2>1. /\ PlanOf(e) = <<q.setup, q.params.created>> /\ e.at = q.params.created /\ e.params = q.params /\ Took(e)
        /\ e.fill = now.sim.fill /\ e.status \in {"EXPIRED", "CLOSED", "OPEN_AT_END"}
    BY <1>10, FinishIs DEF PlanOf, Took
  <2> HIDE DEF e
  <2>2. Range(next.trades) = R \cup {e} /\ Len(next.trades) = Len(run.trades) + 1 /\ IsFiniteSet(R)
    <3>1. run.trades \in Seq(Range(run.trades))
      BY DEF Played
    <3> QED
      BY <1>10, <3>1, RangeGrows DEF e
  <2>3. Book(next) = R \cup {e}
    BY <1>10, <2>2 DEF Book
  <2>4. /\ Ledger(m, Book(next), K) /\ e \notin R
        /\ next.confirmed = Cardinality(Book(next)) /\ next.skipped = Cardinality(Skips(Book(next)))
        /\ next.fills = Cardinality(Fillings(Book(next)))
        /\ \A t \in Book(next) : t.at <= until
    <3> HIDE DEF R, S, q
    <3> QED
      BY <1>8, <1>10, <2>1, <2>3
  <2>5. Cardinality(Range(next.trades)) = Cardinality(R) + 1
    BY <2>2, <2>4, FS_AddElement
  <2>6. Over(m, e.params) <= until
    <3>1. next.cursor \in 0 .. Len(list) /\ ClosedTo(list, next.cursor, until)
      BY <1>1 DEF Played
    <3>2. OrderIs(m, now.params) /\ now.params.created <= m.end
      <4>1. Ending(q) \in S /\ Ending(q).params = q.params
        BY <1>4, <1>10, EndingIs
      <4> QED
        BY <1>3, <1>10, <4>1 DEF Entered
    <3>3. now.sim.status \notin P!Active
      BY <1>10 DEF P!Active
    <3>4. Over(m, now.params) <= until
      BY <1>10, <3>1, <3>2, <3>3, OverWhen
    <3> QED
      BY <1>10, <2>1, <3>4
  <2>7. \A t \in Range(next.trades) : Took(t) => Over(m, t.params) <= until
    BY <1>5, <2>2, <2>6
  <2> QED
    BY <1>2, <1>6, <1>10, <2>2, <2>4, <2>5, <2>7 DEF Counted
<1>11. CASE q # Nothing /\ ~(next.position = q /\ next.trades = run.trades /\ next.fills = run.fills)
  <2> HIDE DEF S, R
  <2>1. PICK now :
             /\ now.setup = q.setup /\ now.params = q.params
             /\ q.sim.fill # Nothing => now.sim.fill # Nothing
             /\ next.fills = IF q.sim.fill = Nothing /\ now.sim.fill # Nothing THEN run.fills + 1 ELSE run.fills
             /\ \/ next.position = now /\ now # Nothing /\ next.trades = run.trades
                \/ /\ next.position = Nothing /\ now.sim.status \in {"CLOSED", "EXPIRED"}
                   /\ SimIs(m, now.params, now.sim, Past(m, now.params, list, next.cursor))
                   /\ next.trades = Append(run.trades, Finish(now, now.sim.status, costs.commission))
    BY <1>1, <1>11 DEF Follows
  <2>2. Counted(m, next, K, until)
    <3> HIDE DEF q
    <3> QED
      BY <1>9, <1>10, <1>11, <2>1
  <2> QED
    BY <2>2 DEF next
<1>12. q # Nothing \/ (next.position = q /\ next.trades = run.trades /\ next.fills = run.fills)
  BY <1>1 DEF Follows
<1> QED
  BY <1>7, <1>11, <1>12

(* The plan that a setup brings, once its candle confirmed it.             *)
PlansOf(setup, time) == IF ConfirmedNow(setup.plan, time) THEN {<<setup.id, time>>} ELSE {}

(* A plan that is considered is counted once.                              *)
LEMMA ConsiderCounts ==
  ASSUME NEW m, Sound(m), NEW list, Sorted(InRange(m), list), NEW run, NEW time \in Int, m.start <= time, time <= m.end,
         Played(m, list, run, time), NEW setup, SoundSetup(setup),
         NEW costs, costs.half \in Int, costs.slip \in Int, NEW K, Counted(m, run, K, time)
  PROVE  Counted(m, Consider(run, setup, time, costs), K \cup PlansOf(setup, time), time)
<1> DEFINE next == Consider(run, setup, time, costs)
           q == run.position
           S == Book(run)
           R == Range(run.trades)
           new == New(setup, time, costs)
           key == <<setup.id, time>>
<1>1. Decides(m, run, next, setup, time, costs)
  BY ConsiderIs
<1> HIDE DEF next
<1>2. /\ Ledger(m, S, K) /\ run.plans = {<<k[1], k[2] - SetupBars>> : k \in K}
      /\ run.confirmed = Cardinality(S) /\ run.skipped = Cardinality(Skips(S)) /\ run.fills = Cardinality(Fillings(S))
      /\ Len(run.trades) = Cardinality(R) /\ (q # Nothing => Ending(q) \notin R)
      /\ \A t \in S : t.at <= time
      /\ \A t \in R : Took(t) => Over(m, t.params) <= time
  BY DEF Counted
<1>3. \A t \in S : t.at \in Int /\ Over(m, t.params) \in Int /\ Entered(m, t)
  <2>1. \A t \in S : Entered(m, t)
    BY <1>2 DEF Ledger
  <2> HIDE DEF S
  <2> QED
    BY <2>1, EnteredIs
<1>4. R \in SUBSET S /\ (q = Nothing => S = R) /\ (q # Nothing => S = R \cup {Ending(q)})
  BY DEF Book
<1>5. run.trades \in Seq(R)
  BY DEF Played
<1>6. ASSUME ~Counts(run, setup, time), PlansOf(setup, time) \in SUBSET K PROVE Counted(m, next, K \cup PlansOf(setup, time), time)
  <2>1. /\ next.plans = run.plans /\ next.confirmed = run.confirmed /\ next.fills = run.fills
        /\ next.position = q /\ next.skipped = run.skipped /\ next.trades = run.trades
    BY <1>1, <1>6 DEF Decides
  <2>2. K \cup PlansOf(setup, time) = K
    BY <1>6
  <2>3. Book(next) = S
    BY <2>1 DEF Book
  <2> HIDE DEF S, R
  <2> QED
    BY <1>2, <2>1, <2>2, <2>3 DEF Counted, R
<1>7. CASE ~ConfirmedNow(setup.plan, time)
  <2>1. ~Counts(run, setup, time) /\ PlansOf(setup, time) = {}
    BY <1>7 DEF Counts, PlansOf
  <2> QED
    BY <1>6, <2>1 DEF next
<1>8. CASE ConfirmedNow(setup.plan, time)
  <2>1. PlansOf(setup, time) = {key}
    BY <1>8 DEF PlansOf
  <2>2. SetupBars \in Int /\ setup.plan.at \in Int /\ setup.plan.at = time - SetupBars
    <3>1. SoundPlan(setup.plan) /\ setup.plan.at + SetupBars = time
      BY <1>8 DEF ConfirmedNow, SoundSetup
    <3>2. SetupBars \in Int
      BY HistoryAssumption
    <3>3. setup.plan.at \in Int
      BY <3>1 DEF SoundPlan
    <3> QED
      BY <3>1, <3>2, <3>3
  <2>3. Key(setup) = <<setup.id, time - SetupBars>>
    BY <2>2 DEF Key
  <2>4. Key(setup) \in run.plans <=> key \in K
    <3>1. ASSUME key \in K PROVE Key(setup) \in run.plans
      BY <1>2, <2>3, <3>1
    <3>2. ASSUME Key(setup) \in run.plans PROVE key \in K
      <4>1. PICK k \in K : Key(setup) = <<k[1], k[2] - SetupBars>>
        BY <1>2, <3>2
      <4>2. PICK t \in S : k = PlanOf(t)
        BY <1>2 DEF Ledger
      <4>3. k = <<t.setup, t.at>> /\ t.at \in Int
        BY <1>3, <4>2 DEF PlanOf
      <4>4. k[1] = t.setup /\ k[2] = t.at
        BY <4>3
      <4>5. t.setup = setup.id /\ t.at - SetupBars = time - SetupBars
        BY <2>3, <4>1, <4>4
      <4>6. t.at = time
        BY <2>2, <4>3, <4>5
      <4> QED
        BY <4>1, <4>3, <4>5, <4>6
    <3> QED
      BY <3>1, <3>2
  <2>5. CASE key \in K
    <3>1. ~Counts(run, setup, time) /\ PlansOf(setup, time) \in SUBSET K
      BY <2>1, <2>4, <2>5 DEF Counts
    <3> QED
      BY <1>6, <3>1 DEF next
  <2>6. CASE key \notin K
    <3>1. Counts(run, setup, time)
      BY <1>8, <2>4, <2>6 DEF Counts
    <3>2. /\ OrderIs(m, new.params) /\ next.fills = run.fills
          /\ next.plans = run.plans \cup {Key(setup)} /\ next.confirmed = run.confirmed + 1
          /\ q # Nothing => /\ next.position = q /\ next.skipped = run.skipped + 1
                            /\ next.trades = Append(run.trades, Trade(new, "SKIPPED_OVERLAP"))
          /\ q = Nothing => /\ next.position = new /\ new # Nothing
                            /\ next.skipped = run.skipped /\ next.trades = run.trades
      BY <1>1, <3>1 DEF Decides
    <3>3. new.params.created = time /\ new.setup = setup.id /\ new.sim.fill = Nothing
      BY DEF New, P!Params, P!NewSim
    <3>4. run.plans \cup {Key(setup)} = {<<k[1], k[2] - SetupBars>> : k \in K \cup {key}}
      <4>1. key[1] = setup.id /\ key[2] = time
        OBVIOUS
      <4> HIDE DEF key
      <4> QED
        BY <1>2, <2>3, <4>1
    <3>5. ASSUME NEW e, PlanOf(e) = key, e.at = time, e.params = new.params, e.fill = Nothing,
                 e.status \in {"SKIPPED_OVERLAP", "OPEN_AT_END"},
                 \/ Took(e) /\ \A t \in S : Took(t) => Over(m, t.params) <= e.at
                 \/ ~Took(e) /\ \E u \in S : Blocks(m, u, e),
                 Book(next) = S \cup {e},
                 next.skipped = run.skipped + IF Took(e) THEN 0 ELSE 1
          PROVE  /\ Ledger(m, Book(next), K \cup {key}) /\ e \notin S
                 /\ next.confirmed = Cardinality(Book(next)) /\ next.skipped = Cardinality(Skips(Book(next)))
                 /\ next.fills = Cardinality(Fillings(Book(next)))
                 /\ \A t \in Book(next) : t.at <= time
      <4> HIDE DEF S, R, q, new, key
      <4>1. Entered(m, e) /\ PlanOf(e) \notin K
        BY <2>6, <3>2, <3>3, <3>5 DEF Entered
      <4>2. Ledger(m, S, K)
        BY <1>2
      <4>3. /\ Ledger(m, S \cup {e}, K \cup {PlanOf(e)}) /\ e \notin S
            /\ Cardinality(S \cup {e}) = Cardinality(S) + 1 /\ Fillings(S \cup {e}) = Fillings(S)
            /\ Cardinality(Skips(S \cup {e})) = Cardinality(Skips(S)) + (IF Took(e) THEN 0 ELSE 1)
        BY <3>5, <4>1, <4>2, Added
      <4>4. \A t \in S \cup {e} : t.at <= time
        BY <1>2, <3>5
      <4> QED
        BY <1>2, <3>2, <3>5, <4>3, <4>4
    <3>6. CASE q # Nothing
      <4> DEFINE e == Trade(new, "SKIPPED_OVERLAP")
                 u == Ending(q)
      <4>1. /\ PlanOf(e) = key /\ e.at = time /\ e.params = new.params /\ e.fill = Nothing
            /\ e.status = "SKIPPED_OVERLAP" /\ ~Took(e)
        BY <3>3 DEF Trade, PlanOf, Took
      <4>2. /\ Took(u) /\ u.at = q.params.created /\ u.params = q.params
        BY EndingIs
      <4> HIDE DEF e, u
      <4>3. u \in S
        BY <1>4, <3>6 DEF u
      <4>4. Blocks(m, u, e)
        <5>1. run.cursor \in 0 .. Len(list) /\ ClosedTo(list, run.cursor, time) /\ Placed(m, list, q, run.cursor)
          BY <3>6 DEF Played
        <5>2. /\ OrderIs(m, q.params) /\ q.sim.status \in P!Active
              /\ SimIs(m, q.params, q.sim, Past(m, q.params, list, run.cursor))
          BY <5>1 DEF Placed
        <5>3. q.params.created <= m.end /\ Over(m, q.params) \in Int /\ u.at <= time
          BY <1>2, <1>3, <4>2, <4>3 DEF Entered
        <5> HIDE DEF q
        <5>4. ~(Over(m, q.params) <= time)
          BY <5>1, <5>2, <5>3, OverWhen
        <5> QED
          BY <4>1, <4>2, <5>3, <5>4 DEF Blocks
      <4>5. /\ next.position = q /\ next.skipped = run.skipped + 1 /\ next.trades = Append(run.trades, e)
        BY <3>2, <3>6 DEF e
      <4>6. Range(next.trades) = R \cup {e} /\ Len(next.trades) = Len(run.trades) + 1 /\ IsFiniteSet(R)
        BY <1>5, <4>5, RangeGrows
      <4>7. Book(next) = S \cup {e}
        BY <1>4, <3>6, <4>5, <4>6 DEF Book
      <4> HIDE DEF S, R, q, new, key
      <4>8. /\ Ledger(m, Book(next), K \cup {key}) /\ e \notin S
            /\ next.confirmed = Cardinality(Book(next)) /\ next.skipped = Cardinality(Skips(Book(next)))
            /\ next.fills = Cardinality(Fillings(Book(next)))
            /\ \A t \in Book(next) : t.at <= time
        BY <3>5, <4>1, <4>3, <4>4, <4>5, <4>7
      <4>9. e \notin R
        BY <1>4, <4>8
      <4>10. Len(next.trades) = Cardinality(Range(next.trades))
        <5>1. Cardinality(R \cup {e}) = Cardinality(R) + 1
          BY <4>6, <4>9, FS_AddElement
        <5> QED
          BY <1>2, <4>6, <5>1
      <4>11. u \notin Range(next.trades)
        BY <1>2, <3>6, <4>1, <4>2, <4>6 DEF u
      <4>12. next.plans = {<<k[1], k[2] - SetupBars>> : k \in K \cup {key}}
        BY <3>2, <3>4
      <4>13. \A t \in Range(next.trades) : Took(t) => Over(m, t.params) <= time
        BY <1>2, <4>1, <4>6
      <4>14. Counted(m, next, K \cup {key}, time)
        BY <4>5, <4>8, <4>10, <4>11, <4>12, <4>13 DEF Counted, u
      <4> QED
        BY <2>1, <4>14 DEF next
    <3>7. CASE q = Nothing
      <4> DEFINE e == Ending(new)
      <4>1. /\ PlanOf(e) = key /\ e.at = time /\ e.params = new.params /\ e.fill = Nothing
            /\ e.status = "OPEN_AT_END" /\ Took(e)
        BY <3>3, EndingIs
      <4> HIDE DEF e
      <4>2. next.position = new /\ new # Nothing /\ next.skipped = run.skipped /\ next.trades = run.trades
        BY <3>2, <3>7
      <4>3. Book(next) = S \cup {e}
        BY <1>4, <3>7, <4>2 DEF Book, e
      <4>4. \A t \in S : Took(t) => Over(m, t.params) <= e.at
        BY <1>2, <1>4, <3>7, <4>1
      <4>5. run.skipped \in Nat
        BY DEF Played
      <4> HIDE DEF S, R, q, new, key
      <4>6. /\ Ledger(m, Book(next), K \cup {key}) /\ e \notin S
            /\ next.confirmed = Cardinality(Book(next)) /\ next.skipped = Cardinality(Skips(Book(next)))
            /\ next.fills = Cardinality(Fillings(Book(next)))
            /\ \A t \in Book(next) : t.at <= time
        BY <3>5, <4>1, <4>2, <4>3, <4>4, <4>5
      <4>7. e \notin Range(next.trades)
        BY <1>4, <4>2, <4>6 DEF R
      <4>8. next.plans = {<<k[1], k[2] - SetupBars>> : k \in K \cup {key}}
        BY <3>2, <3>4
      <4>9. Len(next.trades) = Cardinality(Range(next.trades)) /\ \A t \in Range(next.trades) : Took(t) => Over(m, t.params) <= time
        BY <1>2, <4>2 DEF R
      <4>10. Counted(m, next, K \cup {key}, time)
        BY <4>2, <4>6, <4>7, <4>8, <4>9 DEF Counted, e
      <4> QED
        BY <2>1, <4>10 DEF next
    <3> QED
      BY <3>6, <3>7
  <2> QED
    BY <2>5, <2>6
<1> QED
  BY <1>7, <1>8

(* The setups of a step, considered in turn.                               *)
Considered(run, setups, time, costs) ==
  FoldLeft(LAMBDA r, setup : Consider(r, setup, time, costs), run, setups)

(* The plans that the first k setups bring.                                *)
Brought(setups, k, time) == UNION {PlansOf(setups[j], time) : j \in 1 .. k}

LEMMA SetupsAre ==
  ASSUME NEW m, Sound(m), NEW list, Sorted(InRange(m), list), NEW run, NEW time \in Int, m.start <= time, time <= m.end,
         Played(m, list, run, time), NEW K, Counted(m, run, K, time), NEW seq, Len(seq) \in Nat, DOMAIN seq = 1 .. Len(seq),
         \A i \in 1 .. Len(seq) : SoundSetup(seq[i]),
         NEW costs, costs.half \in Int, costs.slip \in Int
  PROVE  /\ Played(m, list, Considered(run, seq, time, costs), time)
         /\ Counted(m, Considered(run, seq, time, costs), K \cup Brought(seq, Len(seq), time), time)
<1> DEFINE k == Len(seq)
           It(f) == f = [s \in SUBSET (DOMAIN seq) |->
                          IF s = {} THEN run ELSE Consider(f[s \ {Max(s)}], seq[Max(s)], time, costs)]
           g == CHOOSE f : It(f)
           own(i) == New(seq[i], time, costs)
           trade(i) == Trade(own(i), "SKIPPED_OVERLAP")
           orders == {run.position} \cup {own(i) : i \in 1 .. k}
           trades == Range(run.trades) \cup {trade(i) : i \in 1 .. k}
           plans == run.plans \cup {Key(seq[i]) : i \in 1 .. k}
           reached == run.reached \cup {<<seq[i].id, seq[i].state>> : i \in 1 .. k}
           V == {v \in [cursor : {run.cursor}, position : orders, trades : Seq(trades), plans : SUBSET plans,
                        reached : SUBSET reached, ineligible : Nat, confirmed : Nat, skipped : Nat, fills : Nat] :
                   Played(m, list, v, time)}
<1>1. Considered(run, seq, time, costs) = g[DOMAIN seq]
  BY Zenon DEF Considered, FoldLeft, MapThenFoldSet
<1>2. run \in V
  <2>1. /\ run = [cursor |-> run.cursor, position |-> run.position, trades |-> run.trades, plans |-> run.plans,
                  reached |-> run.reached, ineligible |-> run.ineligible, confirmed |-> run.confirmed,
                  skipped |-> run.skipped, fills |-> run.fills]
        /\ run.trades \in Seq(Range(run.trades))
        /\ run.ineligible \in Nat /\ run.confirmed \in Nat /\ run.skipped \in Nat /\ run.fills \in Nat
    BY DEF Played
  <2>2. run.trades \in Seq(trades)
    <3> DEFINE T == Range(run.trades)
    <3>1. T \subseteq trades /\ run.trades \in Seq(T)
      BY <2>1
    <3> HIDE DEF T, trades
    <3> QED
      BY <3>1, WiderSeq
  <2>3. run.position \in orders /\ run.plans \in SUBSET plans /\ run.reached \in SUBSET reached
    OBVIOUS
  <2> HIDE DEF orders, trades, plans, reached
  <2> QED
    BY <2>1, <2>2, <2>3
<1>3. ASSUME NEW i \in 1 .. k, NEW v \in V PROVE Consider(v, seq[i], time, costs) \in V
  <2> DEFINE next == Consider(v, seq[i], time, costs)
             e == trade(i)
             key == Key(seq[i])
             mark == <<seq[i].id, seq[i].state>>
  <2>1. /\ v.cursor = run.cursor /\ v.position \in orders /\ v.trades \in Seq(trades) /\ v.plans \in SUBSET plans
        /\ v.reached \in SUBSET reached /\ v.ineligible \in Nat /\ v.fills \in Nat
        /\ Played(m, list, v, time)
    <3> HIDE DEF orders, trades, plans, reached
    <3> QED
      OBVIOUS
  <2>2. own(i) \in orders /\ e \in trades /\ key \in plans /\ mark \in reached
    OBVIOUS
  <2>3. /\ Played(m, list, next, time) /\ next.cursor = v.cursor /\ next.ineligible = v.ineligible
        /\ next.fills = v.fills /\ next.confirmed \in Nat /\ next.skipped \in Nat
        /\ next.position \in {v.position, own(i)}
        /\ next.plans \in {v.plans, v.plans \cup {key}}
        /\ next.reached = v.reached \cup {mark}
        /\ next.trades \in {v.trades, Append(v.trades, e)}
    <3> DEFINE setup == seq[i]
    <3>1. SoundSetup(setup) /\ Played(m, list, v, time)
      BY <2>1
    <3> HIDE DEF V, orders, trades, plans, reached, setup
    <3>2. LET new == Consider(v, setup, time, costs)
          IN  /\ Played(m, list, new, time) /\ new.cursor = v.cursor /\ new.ineligible = v.ineligible
              /\ new.fills = v.fills /\ new.confirmed \in Nat /\ new.skipped \in Nat
              /\ new.position \in {v.position, New(setup, time, costs)}
              /\ new.plans \in {v.plans, v.plans \cup {Key(setup)}}
              /\ new.reached = v.reached \cup {<<setup.id, setup.state>>}
              /\ new.trades \in {v.trades, Append(v.trades, Trade(New(setup, time, costs), "SKIPPED_OVERLAP"))}
      BY <3>1, ConsiderIs
    <3> QED
      BY <3>2 DEF setup
  <2>4. next = [cursor |-> next.cursor, position |-> next.position, trades |-> next.trades, plans |-> next.plans,
                reached |-> next.reached, ineligible |-> next.ineligible, confirmed |-> next.confirmed,
                skipped |-> next.skipped, fills |-> next.fills]
    BY <2>3 DEF Played
  <2> HIDE DEF next, orders, trades, plans, reached, own, e, key, mark
  <2>5. next.trades \in Seq(trades)
    <3>1. Append(v.trades, e) \in Seq(trades)
      BY <2>1, <2>2, LongerSeq
    <3> QED
      BY <2>1, <2>3, <3>1
  <2>6. next.position \in orders /\ next.plans \in SUBSET plans /\ next.reached \in SUBSET reached
    BY <2>1, <2>2, <2>3
  <2>7. next \in V
    BY <2>1, <2>3, <2>4, <2>5, <2>6
  <2> QED
    BY <2>7 DEF next
<1> HIDE DEF V
<1>4. \E f : It(f)
  <2> DEFINE step == [q \in (1 .. k) \X V |-> Consider(q[2], seq[q[1]], time, costs)]
  <2>1. \A i \in 1 .. k : \A v \in V : step[<<i, v>>] = Consider(v, seq[i], time, costs)
    OBVIOUS
  <2> HIDE DEF step
  <2>2. PICK f \in [SUBSET (1 .. k) -> V] : TakesSteps(f, k, run, step)
    <3>1. \A i \in 1 .. k : \A v \in V : step[<<i, v>>] \in V
      BY <1>3, <2>1
    <3> QED
      BY <1>2, <3>1, FoldExists, Zenon
  <2>3. ASSUME NEW s \in SUBSET (1 .. k), s # {} PROVE f[s] = Consider(f[s \ {Max(s)}], seq[Max(s)], time, costs)
    <3>1. Max(s) \in 1 .. k
      BY <2>3, MaxIsLast
    <3>2. f[s \ {Max(s)}] \in V
      OBVIOUS
    <3> QED
      BY <2>1, <2>2, <2>3, <3>1, <3>2 DEF TakesSteps
  <2>4. \A s \in SUBSET (1 .. k) :
          f[s] = IF s = {} THEN run ELSE Consider(f[s \ {Max(s)}], seq[Max(s)], time, costs)
    BY <2>2, <2>3 DEF TakesSteps
  <2>5. f = [s \in SUBSET (1 .. k) |->
               IF s = {} THEN run ELSE Consider(f[s \ {Max(s)}], seq[Max(s)], time, costs)]
    BY <2>4
  <2>6. It(f)
    BY <2>5
  <2> HIDE DEF It
  <2> QED
    BY <2>6
<1>5. It(g)
  <2> HIDE DEF It
  <2> QED
    BY <1>4
<1> HIDE DEF g
<1>6. \A s \in SUBSET (1 .. k) : g[s] = IF s = {} THEN run ELSE Consider(g[s \ {Max(s)}], seq[Max(s)], time, costs)
  BY <1>5
<1> HIDE DEF It
<1> DEFINE All(i) == K \cup Brought(seq, i, time)
           Q == {i \in 0 .. k : g[1 .. i] \in V /\ Counted(m, g[1 .. i], All(i), time)}
<1>7. 0 \in Q
  <2>1. 1 .. 0 = {} /\ {} \in SUBSET (1 .. k) /\ 0 \in 0 .. k
    OBVIOUS
  <2>2. All(0) = K
    BY <2>1 DEF Brought
  <2>3. g[1 .. 0] = run
    BY <1>6, <2>1
  <2> HIDE DEF All
  <2> QED
    BY <1>2, <2>1, <2>2, <2>3
<1>8. ASSUME NEW i \in 1 .. k, i - 1 \in Q PROVE i \in Q
  <2> DEFINE v == g[1 .. (i - 1)]
             setup == seq[i]
  <2>1. g[1 .. i] = Consider(v, setup, time, costs)
    BY <1>6, LastNumber
  <2>2. i \in 0 .. k
    OBVIOUS
  <2>3. v \in V /\ Counted(m, v, All(i - 1), time)
    BY <1>8
  <2>4. Played(m, list, v, time)
    BY <2>3 DEF V
  <2>5. All(i) = All(i - 1) \cup PlansOf(setup, time)
    <3>1. 1 .. i = (1 .. (i - 1)) \cup {i}
      OBVIOUS
    <3> QED
      BY <3>1 DEF Brought
  <2>6. SoundSetup(setup)
    OBVIOUS
  <2>7. Consider(v, setup, time, costs) \in V
    BY <1>3, <2>3
  <2> HIDE DEF All, v, setup
  <2>8. Counted(m, Consider(v, setup, time, costs), All(i - 1) \cup PlansOf(setup, time), time)
    BY <2>3, <2>4, <2>6, ConsiderCounts
  <2> QED
    BY <2>1, <2>2, <2>5, <2>7, <2>8
<1> HIDE DEF Q
<1>9. k \in Q
  <2>1. \A i \in 0 .. k : i \in Q
    BY <1>7, <1>8, UpTo
  <2> QED
    BY <2>1
<1> QED
  BY <1>1, <1>9 DEF Q, V

(* A candle of the replay.                                                 *)
PlansAt(step) == IF step.eligible THEN Brought(step.setups, Len(step.setups), step.close) ELSE {}

LEMMA ReplayStepIs ==
  ASSUME NEW m, Sound(m), NEW list, Sorted(InRange(m), list), NEW run, NEW time \in Int, Played(m, list, run, time),
         NEW step, SoundStep(step), m.start <= step.close, time <= step.close, step.close <= m.end,
         NEW costs, costs.half \in Int, costs.slip \in Int, NEW K, Counted(m, run, K, time)
  PROVE  /\ Played(m, list, ReplayStep(run, list, step, costs), step.close)
         /\ Counted(m, ReplayStep(run, list, step, costs), K \cup PlansAt(step), step.close)
<1> DEFINE now == Advance(run, list, step.close, costs)
<1>1. Played(m, list, now, step.close) /\ Counted(m, now, K, step.close)
  <2>1. step.close \in Int
    BY DEF SoundStep
  <2>2. Played(m, list, now, step.close)
    BY <2>1, AdvanceIs
  <2>3. Counted(m, now, K, step.close)
    BY <2>1, AdvanceCounts
  <2> QED
    BY <2>2, <2>3
<1>2. ReplayStep(run, list, step, costs) =
        IF ~step.eligible THEN [now EXCEPT !.ineligible = @ + 1]
        ELSE Considered(now, step.setups, step.close, costs)
  BY Zenon DEF ReplayStep, Considered
<1> HIDE DEF now
<1>3. CASE ~step.eligible
  <2> DEFINE next == [now EXCEPT !.ineligible = @ + 1]
  <2> DEFINE With(n) ==
        [cursor |-> now.cursor, position |-> now.position, trades |-> now.trades, plans |-> now.plans,
         reached |-> now.reached, ineligible |-> n, confirmed |-> now.confirmed,
         skipped |-> now.skipped, fills |-> now.fills]
  <2>1. next = With(now.ineligible + 1)
    <3>1. now = With(now.ineligible)
      BY <1>1 DEF Played
    <3>2. \A n : [With(n) EXCEPT !.ineligible = @ + 1] = With(n + 1)
      OBVIOUS
    <3> HIDE DEF With
    <3>3. [With(now.ineligible) EXCEPT !.ineligible = @ + 1] = With(now.ineligible + 1)
      BY <3>2
    <3> QED
      BY <3>1, <3>3
  <2>2. now.ineligible + 1 \in Nat
    BY <1>1 DEF Played
  <2> HIDE DEF next
  <2>3. Played(m, list, next, step.close)
    BY <1>1, <2>1, <2>2 DEF Played
  <2>4. /\ next.plans = now.plans /\ next.confirmed = now.confirmed /\ next.fills = now.fills
        /\ next.position = now.position /\ next.skipped = now.skipped /\ next.trades = now.trades
    BY <2>1
  <2>5. Book(next) = Book(now)
    BY <2>4 DEF Book
  <2>6. Counted(m, next, K, step.close)
    BY <1>1, <2>4, <2>5 DEF Counted
  <2>7. K \cup PlansAt(step) = K
    BY <1>3 DEF PlansAt
  <2> QED
    BY <1>2, <1>3, <2>3, <2>6, <2>7 DEF next
<1>4. CASE step.eligible
  <2>1. Len(step.setups) \in Nat /\ DOMAIN step.setups = 1 .. Len(step.setups) /\ step.close \in Int
        /\ \A i \in 1 .. Len(step.setups) : SoundSetup(step.setups[i])
    <3>1. /\ step.setups \in Seq(Range(step.setups)) /\ step.close \in Int
          /\ \A i \in 1 .. Len(step.setups) : SoundSetup(step.setups[i])
      BY DEF SoundStep
    <3> QED
      BY <3>1, LengthIs
  <2>2. /\ Played(m, list, Considered(now, step.setups, step.close, costs), step.close)
        /\ Counted(m, Considered(now, step.setups, step.close, costs),
                   K \cup Brought(step.setups, Len(step.setups), step.close), step.close)
    BY <1>1, <2>1, SetupsAre
  <2> QED
    BY <1>2, <1>4, <2>2 DEF PlansAt
<1> QED
  BY <1>3, <1>4

(* The end of a variant.                                                   *)
Told(m, trades) == \A t \in Range(trades) : Took(t) => TellsTrue(m, t)

(* The books of a run that ended: every plan of K is a trade.              *)
Settled(m, run, K) ==
  /\ Ledger(m, Range(run.trades), K)
  /\ run.trades \in Seq(Range(run.trades)) /\ Len(run.trades) = Cardinality(Range(run.trades))
  /\ run.confirmed = Cardinality(Range(run.trades))
  /\ run.skipped = Cardinality(Skips(Range(run.trades)))
  /\ run.fills = Cardinality(Fillings(Range(run.trades)))

LEMMA ReplayEndIs ==
  ASSUME NEW m, Sound(m), NEW list, Sorted(InRange(m), list), NEW run, NEW time \in Int, Played(m, list, run, time),
         time <= m.end, NEW costs, NEW K, Counted(m, run, K, time)
  PROVE  /\ Told(m, ReplayEnd(run, list, m.end, costs).trades)
         /\ Settled(m, ReplayEnd(run, list, m.end, costs), K)
<1> DEFINE now == Advance(run, list, m.end, costs)
           q == now.position
           e == Finish(q, "OPEN_AT_END", costs.commission)
           n == Len(list)
<1>1. Played(m, list, now, m.end) /\ Counted(m, now, K, m.end)
  <2>1. m.end \in Int /\ m.end <= m.end
    BY DEF Sound
  <2>2. Played(m, list, now, m.end)
    BY <2>1, AdvanceIs
  <2>3. Counted(m, now, K, m.end)
    BY <2>1, AdvanceCounts
  <2> QED
    BY <2>2, <2>3
<1>2. ReplayEnd(run, list, m.end, costs) =
        IF q = Nothing THEN now ELSE [now EXCEPT !.position = Nothing, !.trades = Append(@, e)]
  BY Zenon DEF ReplayEnd
<1> HIDE DEF now
<1>3. /\ now.cursor \in 0 .. n /\ ClosedTo(list, now.cursor, m.end)
      /\ now.trades \in Seq(Range(now.trades)) /\ (\A t \in Range(now.trades) : Took(t) => TellsTrue(m, t))
      /\ q = Nothing \/ Placed(m, list, q, now.cursor)
  BY <1>1 DEF Played
<1>4. n \in Nat /\ \A i \in 1 .. n : list[i] \in InRange(m)
  BY DEF Sorted
<1>5. now.cursor = n
  <2>1. CASE n = 0
    BY <1>3, <2>1
  <2>2. CASE n # 0
    <3>1. n \in 1 .. n /\ P!CloseOf(list[n]) <= m.end
      BY <1>4, <2>2, InRangeIs DEF P!CloseOf
    <3>2. n <= now.cursor
      BY <1>3, <3>1 DEF ClosedTo
    <3> QED
      BY <1>3, <1>4, <3>2
  <2> QED
    BY <2>1, <2>2
<1>6. CASE q = Nothing
  <2>1. Book(now) = Range(now.trades)
    BY <1>6 DEF Book
  <2>2. Settled(m, now, K)
    <3> HIDE DEF q
    <3> QED
      BY <1>1, <1>3, <2>1 DEF Counted, Settled
  <2> QED
    BY <1>2, <1>3, <1>6, <2>2 DEF Told
<1>7. CASE q # Nothing
  <2>1. /\ OrderIs(m, q.params) /\ q.sim.status \in P!Active
        /\ SimIs(m, q.params, q.sim, Past(m, q.params, list, n))
    BY <1>3, <1>5, <1>7 DEF Placed
  <2>2. Past(m, q.params, list, n) = Ahead(m, q.params)
    <3>1. Ahead(m, q.params) \in SUBSET InRange(m)
      BY <2>1, AheadIs
    <3>2. \A b \in InRange(m) : \E i \in 1 .. n : list[i] = b
      BY DEF Sorted
    <3> QED
      BY <3>1, <3>2 DEF Past
  <2> HIDE DEF q
  <2>3. TellsTrue(m, e)
    BY <2>1, <2>2, OpenIsTrue
  <2> HIDE DEF e
  <2>4. [now EXCEPT !.position = Nothing, !.trades = Append(@, e)].trades = Append(now.trades, e)
    <3> DEFINE Longer(all) == Append(all, e)
    <3>1. DOMAIN now = {"cursor", "position", "trades", "plans", "reached", "ineligible", "confirmed", "skipped", "fills"}
      BY <1>1 DEF Played
    <3> HIDE DEF Longer
    <3>2. [now EXCEPT !.position = Nothing, !.trades = Longer(@)].trades = Longer(now.trades)
      BY <3>1
    <3> QED
      BY <3>2 DEF Longer
  <2>5. \A t \in Range(Append(now.trades, e)) : t \in Range(now.trades) \/ t = e
    BY <1>3, AppendedAre
  <2> DEFINE all == Append(now.trades, e)
  <2> DEFINE end == ReplayEnd(run, list, m.end, costs)
  <2>6. end.trades = all
    BY <1>2, <1>7, <2>4 DEF q
  <2>7. end.confirmed = now.confirmed /\ end.skipped = now.skipped /\ end.fills = now.fills
    <3> DEFINE Longer(some) == Append(some, e)
    <3>1. DOMAIN now = {"cursor", "position", "trades", "plans", "reached", "ineligible", "confirmed", "skipped", "fills"}
      BY <1>1 DEF Played
    <3>2. end = [now EXCEPT !.position = Nothing, !.trades = Longer(@)]
      BY <1>2, <1>7 DEF q
    <3> HIDE DEF Longer, end
    <3> QED
      BY <3>1, <3>2
  <2> HIDE DEF end
  <2>8. Book(now) = Range(now.trades) \cup {e} /\ e \notin Range(now.trades)
    <3>1. e = Ending(q)
      BY DEF e, Ending, Finish
    <3>2. Ending(q) \notin Range(now.trades)
      BY <1>1, <1>7 DEF Counted, q
    <3> QED
      BY <1>7, <3>1, <3>2 DEF Book, q
  <2>9. Range(all) = Range(now.trades) \cup {e} /\ Len(all) = Len(now.trades) + 1 /\ IsFiniteSet(Range(now.trades))
    BY <1>3, RangeGrows
  <2>10. all \in Seq(Range(all))
    <3> DEFINE R == Range(now.trades)
               T == Range(all)
    <3>1. R \subseteq T /\ e \in T /\ now.trades \in Seq(R)
      BY <1>3, <2>9
    <3> HIDE DEF R, T
    <3>2. now.trades \in Seq(T)
      BY <3>1, WiderSeq
    <3>3. Append(now.trades, e) \in Seq(T)
      BY <3>1, <3>2, LongerSeq
    <3> QED
      BY <3>3 DEF T
  <2> HIDE DEF all
  <2>11. Len(all) = Cardinality(Range(all))
    <3>1. Len(now.trades) = Cardinality(Range(now.trades))
      BY <1>1 DEF Counted
    <3>2. Cardinality(Range(now.trades) \cup {e}) = Cardinality(Range(now.trades)) + 1
      BY <2>8, <2>9, FS_AddElement
    <3> QED
      BY <2>9, <3>1, <3>2
  <2>12. Settled(m, end, K)
    <3>1. Book(now) = Range(end.trades)
      BY <2>6, <2>8, <2>9
    <3>2. /\ Ledger(m, Book(now), K) /\ now.confirmed = Cardinality(Book(now))
          /\ now.skipped = Cardinality(Skips(Book(now))) /\ now.fills = Cardinality(Fillings(Book(now)))
      BY <1>1 DEF Counted
    <3> QED
      BY <2>6, <2>7, <2>10, <2>11, <3>1, <3>2 DEF Settled
  <2>13. Told(m, end.trades)
    BY <1>3, <2>3, <2>5, <2>6 DEF Told, all
  <2> QED
    BY <2>12, <2>13 DEF end
<1> QED
  BY <1>6, <1>7

LEMMA FreshIsPlayed ==
  ASSUME NEW m, Sound(m), NEW list, Sorted(InRange(m), list)
  PROVE  Played(m, list, Fresh, m.start) /\ Counted(m, Fresh, {}, m.start)
<1>1. /\ Fresh = [cursor |-> 0, position |-> Nothing, trades |-> <<>>, plans |-> {}, reached |-> {},
                  ineligible |-> 0, confirmed |-> 0, skipped |-> 0, fills |-> 0]
  BY DEF Fresh
<1>2. Len(list) \in Nat /\ \A i \in 1 .. Len(list) : list[i] \in InRange(m)
  BY DEF Sorted
<1>3. m.start \in Int /\ \A i \in 1 .. Len(list) : list[i].at \in Int /\ list[i].at >= m.start
  BY <1>2, InRangeIs DEF Sound
<1>4. ClosedTo(list, 0, m.start)
  BY <1>2, <1>3 DEF ClosedTo, P!CloseOf
<1>5. <<>> \in Seq(Range(<<>>)) /\ \A t \in Range(<<>>) : Took(t) => TellsTrue(m, t)
  BY DEF Range
<1>6. Played(m, list, Fresh, m.start)
  BY <1>1, <1>2, <1>4, <1>5 DEF Played
<1>7. Range(Fresh.trades) = {} /\ Book(Fresh) = {} /\ Len(Fresh.trades) = 0
  BY <1>1 DEF Range, Book
<1>8. Skips({}) = {} /\ Fillings({}) = {} /\ Cardinality({}) = 0 /\ IsFiniteSet({})
  BY FS_EmptySet DEF Skips, Fillings
<1>9. Ledger(m, {}, {})
  BY <1>8 DEF Ledger
<1>10. Fresh.plans = {} /\ Fresh.confirmed = 0 /\ Fresh.skipped = 0 /\ Fresh.fills = 0 /\ Fresh.position = Nothing
  BY <1>1
<1>11. Counted(m, Fresh, {}, m.start)
  BY <1>7, <1>8, <1>9, <1>10 DEF Counted
<1> QED
  BY <1>6, <1>11

-----------------------------------------------------------------------------
(* What a summary counts.                                                  *)

LEMMA Parts ==
  ASSUME NEW A, IsFiniteSet(A), NEW B \in SUBSET A
  PROVE  /\ IsFiniteSet(B) /\ IsFiniteSet(A \ B) /\ {Cardinality(A), Cardinality(B), Cardinality(A \ B)} \subseteq Nat
         /\ Cardinality(A) = Cardinality(B) + Cardinality(A \ B)
<1>1. IsFiniteSet(B) /\ IsFiniteSet(A \ B)
  BY FewerOf, FS_Difference
<1>2. B \cup (A \ B) = A /\ B \cap (A \ B) = {}
  OBVIOUS
<1>3. Cardinality(B \cup (A \ B)) = Cardinality(B) + Cardinality(A \ B) - Cardinality(B \cap (A \ B))
  BY <1>1, FS_Union
<1>4. Cardinality(A) \in Nat /\ Cardinality(B) \in Nat /\ Cardinality(A \ B) \in Nat
  BY <1>1, FS_CardinalityType
<1>5. Cardinality(B \cap (A \ B)) = 0
  BY <1>2, FS_EmptySet
<1>6. Cardinality(A) = Cardinality(B \cup (A \ B))
  BY <1>2
<1>7. Cardinality(A) = Cardinality(B) + Cardinality(A \ B)
  BY <1>3, <1>4, <1>5, <1>6
<1> QED
  BY <1>1, <1>4, <1>7

(* As many of the one as of the other.                                     *)
LEMMA AsMany ==
  ASSUME NEW A, NEW B, IsFiniteSet(A), NEW f, f \in [A -> B], \A x, y \in A : f[x] = f[y] => x = y,
         \A z \in B : \E x \in A : f[x] = z
  PROVE  IsFiniteSet(B) /\ Cardinality(B) = Cardinality(A)
<1>1. f \in Bijection(A, B)
  BY DEF Bijection, Injection, IsInjective, Surjection
<1>2. ExistsBijection(A, B)
  BY <1>1 DEF ExistsBijection
<1> QED
  BY <1>2, FS_Bijection

(* Every plan is one trade, and is skipped when an order was in its way.   *)
LEMMA PlansAreTrades ==
  ASSUME NEW m, Sound(m), NEW run, NEW K, Settled(m, run, K)
  PROVE  LET trades == Range(run.trades)
         IN  /\ Len(run.trades) = Cardinality(K) /\ {<<t.setup, t.at>> : t \in trades} = K
             /\ \A t \in trades :
                  ~Took(t) <=> \E u \in trades \ {t} : Took(u) /\ u.at <= t.at /\ t.at < Expected(m, u.params).over
<1> DEFINE R == Range(run.trades)
           f == [t \in R |-> PlanOf(t)]
<1>1. /\ IsFiniteSet(R) /\ K = {PlanOf(t) : t \in R} /\ Len(run.trades) = Cardinality(R)
      /\ \A t, u \in R : PlanOf(t) = PlanOf(u) => t = u
      /\ \A t \in R : Entered(m, t)
      /\ \A t, u \in R : t # u /\ Took(t) /\ Took(u) => Over(m, t.params) <= u.at \/ Over(m, u.params) <= t.at
      /\ \A t \in R : ~Took(t) => \E u \in R : Blocks(m, u, t)
  BY DEF Settled, Ledger
<1> HIDE DEF R
<1>2. Cardinality(K) = Cardinality(R)
  <2>1. /\ f \in [R -> K] /\ (\A t, u \in R : f[t] = f[u] => t = u)
        /\ \A z \in K : \E t \in R : f[t] = z
    BY <1>1
  <2> HIDE DEF f
  <2> QED
    BY <1>1, <2>1, AsMany
<1>3. {<<t.setup, t.at>> : t \in R} = K
  BY <1>1 DEF PlanOf
<1>4. ASSUME NEW t \in R
      PROVE ~Took(t) <=> \E u \in R \ {t} : Took(u) /\ u.at <= t.at /\ t.at < Over(m, u.params)
  <2>1. ASSUME ~Took(t) PROVE \E u \in R \ {t} : Took(u) /\ u.at <= t.at /\ t.at < Over(m, u.params)
    BY <1>1, <2>1 DEF Blocks
  <2>2. ASSUME Took(t), NEW u \in R \ {t}, Took(u), u.at <= t.at, t.at < Over(m, u.params) PROVE FALSE
    <3>1. /\ t.at \in Int /\ Over(m, t.params) \in Int /\ t.at < Over(m, t.params)
          /\ u.at \in Int /\ Over(m, u.params) \in Int
      BY <1>1, EnteredIs
    <3>2. Over(m, t.params) <= u.at \/ Over(m, u.params) <= t.at
      BY <1>1, <2>2
    <3> QED
      BY <2>2, <3>1, <3>2
  <2> QED
    BY <2>1, <2>2
<1> QED
  BY <1>1, <1>2, <1>3, <1>4 DEF R, Over

(* Counting the places of a list is counting what is on them, when nothing *)
(* is there twice.                                                         *)
LEMMA PlacesOf ==
  ASSUME NEW list, list \in Seq(Range(list)), Len(list) = Cardinality(Range(list)), IsFiniteSet(Range(list)), NEW status
  PROVE  Cardinality({i \in DOMAIN list : list[i].status = status}) = Cardinality({t \in Range(list) : t.status = status})
<1> DEFINE n == Len(list)
           R == Range(list)
           f == [i \in 1 .. n |-> list[i]]
           I == {i \in DOMAIN list : list[i].status = status}
           T == {t \in R : t.status = status}
           g == [i \in I |-> list[i]]
<1>1. n \in Nat /\ DOMAIN list = 1 .. n
  BY LengthIs
<1>2. (\A i \in 1 .. n : list[i] \in R) /\ \A t \in R : \E i \in 1 .. n : list[i] = t
  BY <1>1 DEF Range
<1>3. IsFiniteSet(1 .. n) /\ Cardinality(1 .. n) = n
  BY <1>1, FS_Interval
<1> HIDE DEF n, R
<1>4. \A i, j \in 1 .. n : list[i] = list[j] => i = j
  <2>1. f \in Surjection(1 .. n, R)
    BY <1>2 DEF Surjection
  <2>2. Cardinality(1 .. n) = Cardinality(R)
    BY <1>3 DEF n, R
  <2> HIDE DEF f
  <2>3. f \in Injection(1 .. n, R)
    BY <1>3, <2>1, <2>2, FS_SurjSameCardinalityImpliesInj
  <2>4. \A i, j \in 1 .. n : f[i] = f[j] => i = j
    BY <2>3 DEF Injection, IsInjective
  <2> QED
    BY <2>4 DEF f
<1>5. g \in [I -> T] /\ (\A i, j \in I : g[i] = g[j] => i = j) /\ \A t \in T : \E i \in I : g[i] = t
  BY <1>1, <1>2, <1>4
<1>6. IsFiniteSet(I)
  BY <1>1, <1>3, FewerOf
<1>7. Cardinality(T) = Cardinality(I)
  <2> HIDE DEF g, I, T, f
  <2>1. g \in [I -> T] /\ (\A x, y \in I : g[x] = g[y] => x = y) /\ \A z \in T : \E x \in I : g[x] = z
    BY <1>5
  <2>2. IsFiniteSet(T) /\ Cardinality(T) = Cardinality(I)
    <3>1. g \in Bijection(I, T)
      BY <2>1 DEF Bijection, Injection, IsInjective, Surjection
    <3>2. ExistsBijection(I, T)
      BY <3>1 DEF ExistsBijection
    <3> QED
      BY <1>6, <3>2, FS_Bijection
  <2> QED
    BY <2>2
<1> QED
  BY <1>7 DEF I, T, R

(* Each trade ended in one way.                                            *)
EndingIn(S, status) == {t \in S : t.status = status}

LEMMA WaysToEnd ==
  ASSUME NEW S, IsFiniteSet(S), \A t \in S : t.status \in {"SKIPPED_OVERLAP", "EXPIRED", "CLOSED", "OPEN_AT_END"}
  PROVE  Cardinality(S) = Cardinality(Skips(S)) + Cardinality(EndingIn(S, "EXPIRED")) + Cardinality(EndingIn(S, "CLOSED"))
                            + Cardinality(EndingIn(S, "OPEN_AT_END"))
<1> DEFINE A == S \ Skips(S)
           B == A \ EndingIn(S, "EXPIRED")
<1>1. Cardinality(S) = Cardinality(Skips(S)) + Cardinality(A) /\ IsFiniteSet(A)
      /\ Cardinality(S) \in Nat /\ Cardinality(Skips(S)) \in Nat /\ Cardinality(A) \in Nat
  <2>1. Skips(S) \in SUBSET S
    BY DEF Skips
  <2> QED
    BY <2>1, Parts
<1>2. Cardinality(A) = Cardinality(EndingIn(S, "EXPIRED")) + Cardinality(B) /\ IsFiniteSet(B)
      /\ Cardinality(EndingIn(S, "EXPIRED")) \in Nat /\ Cardinality(B) \in Nat
  <2>1. EndingIn(S, "EXPIRED") \in SUBSET A
    BY DEF EndingIn, Skips, Took
  <2> HIDE DEF A
  <2> QED
    BY <1>1, <2>1, Parts
<1>3. /\ EndingIn(S, "CLOSED") \in SUBSET B
      /\ B \ EndingIn(S, "CLOSED") = EndingIn(S, "OPEN_AT_END")
  BY DEF EndingIn, Skips, Took
<1> HIDE DEF B
<1>4. Cardinality(B) = Cardinality(EndingIn(S, "CLOSED")) + Cardinality(EndingIn(S, "OPEN_AT_END"))
      /\ Cardinality(EndingIn(S, "CLOSED")) \in Nat /\ Cardinality(EndingIn(S, "OPEN_AT_END")) \in Nat
  BY <1>2, <1>3, Parts
<1> QED
  BY <1>1, <1>2, <1>4

(* The samples of the closed trades: each trade is one, and no two end at  *)
(* the same time.                                                          *)
Samples(run) == {TradeSample(t) : t \in EndingIn(Range(run.trades), "CLOSED")}

LEMMA SamplesAre ==
  ASSUME NEW m, Sound(m), NEW run, NEW K, Settled(m, run, K), Told(m, run.trades)
  PROVE  /\ IsFiniteSet(Samples(run)) /\ Cardinality(Samples(run)) = Cardinality(EndingIn(Range(run.trades), "CLOSED"))
         /\ \A s \in Samples(run) : s.at \in Int /\ m.start < s.at /\ s.at <= m.end
<1> DEFINE R == Range(run.trades)
           C == EndingIn(R, "CLOSED")
           f == [t \in C |-> TradeSample(t)]
<1>1. /\ IsFiniteSet(R) /\ \A t \in R : Entered(m, t)
      /\ \A t, u \in R : t # u /\ Took(t) /\ Took(u) => Over(m, t.params) <= u.at \/ Over(m, u.params) <= t.at
  BY DEF Settled, Ledger
<1>2. C \in SUBSET R /\ \A t \in C : t.status = "CLOSED" /\ Took(t)
  BY DEF EndingIn, Took
<1>3. \A t : TradeSample(t).at = t.exited
  BY DEF TradeSample
<1> HIDE DEF R, C
<1>4. ASSUME NEW t \in C
      PROVE  /\ t.exited = Over(m, t.params) /\ t.at \in Int /\ Over(m, t.params) \in Int
             /\ m.start <= t.at /\ t.at < Over(m, t.params) /\ Over(m, t.params) <= m.end
  <2>1. TellsTrue(m, t)
    BY <1>2 DEF Told, R
  <2>2. Expected(m, t.params).status = "CLOSED" /\ t.exited = Over(m, t.params)
    BY <1>2, <2>1 DEF TellsTrue, Over
  <2>3. Closes(m, t.params) # {}
    BY <2>2 DEF Expected
  <2>4. Entered(m, t)
    BY <1>1, <1>2
  <2>5. OrderIs(m, t.params) /\ t.params.created <= m.end
    BY <2>4 DEF Entered
  <2>6. Over(m, t.params) <= m.end
    BY <2>3, <2>5, OverIs
  <2>7. t.at \in Int /\ Over(m, t.params) \in Int /\ t.at < Over(m, t.params) /\ t.at >= m.start
    BY <2>4, EnteredIs
  <2>8. m.start \in Int
    BY DEF Sound
  <2> QED
    BY <2>2, <2>6, <2>7, <2>8
<1>5. ASSUME NEW t \in C, NEW u \in C, TradeSample(t) = TradeSample(u) PROVE t = u
  <2> SUFFICES ASSUME t # u PROVE FALSE
    OBVIOUS
  <2>1. Over(m, t.params) = Over(m, u.params)
    BY <1>3, <1>4, <1>5
  <2>2. Over(m, t.params) <= u.at \/ Over(m, u.params) <= t.at
    BY <1>1, <1>2
  <2> QED
    BY <1>4, <2>1, <2>2
<1>6. IsFiniteSet(C)
  BY <1>1, <1>2, FewerOf
<1>7. Samples(run) = {TradeSample(t) : t \in C}
  BY DEF Samples, C, R
<1>8. IsFiniteSet(Samples(run)) /\ Cardinality(Samples(run)) = Cardinality(C)
  <2>1. /\ f \in [C -> Samples(run)] /\ (\A t, u \in C : f[t] = f[u] => t = u)
        /\ \A z \in Samples(run) : \E t \in C : f[t] = z
    BY <1>5, <1>7
  <2> HIDE DEF f
  <2> QED
    BY <1>6, <2>1, AsMany
<1>9. ASSUME NEW s \in Samples(run) PROVE s.at \in Int /\ m.start < s.at /\ s.at <= m.end
  <2>1. PICK t \in C : s = TradeSample(t)
    BY <1>7
  <2>2. s.at = Over(m, t.params) /\ m.start \in Int
    BY <1>3, <1>4, <2>1 DEF Sound
  <2> QED
    BY <1>4, <2>2
<1> QED
  BY <1>8, <1>9 DEF C, R

(* The counts of some groups, added up.                                    *)
LEMMA CountAllIs ==
  ASSUME NEW seq, Len(seq) \in Nat, DOMAIN seq = 1 .. Len(seq), NEW total, total \in [0 .. Len(seq) -> Int], total[0] = 0,
         \A i \in 1 .. Len(seq) : seq[i].count \in Int /\ total[i] = total[i - 1] + seq[i].count
  PROVE  CountAll(seq) = total[Len(seq)]
<1> DEFINE k == Len(seq)
           It(f) == f = [s \in SUBSET (DOMAIN seq) |-> IF s = {} THEN 0 ELSE f[s \ {Max(s)}] + seq[Max(s)].count]
           g == CHOOSE f : It(f)
<1>1. CountAll(seq) = g[DOMAIN seq]
  BY Zenon DEF CountAll, FoldLeft, MapThenFoldSet
<1> HIDE DEF k
<1>2. \E f : It(f)
  <2> DEFINE step == [q \in (1 .. k) \X Int |-> q[2] + seq[q[1]].count]
  <2>1. \A i \in 1 .. k : \A v \in Int : step[<<i, v>>] = v + seq[i].count /\ step[<<i, v>>] \in Int
    BY DEF k
  <2> HIDE DEF step
  <2>2. PICK f \in [SUBSET (1 .. k) -> Int] : TakesSteps(f, k, 0, step)
    <3>1. 0 \in Int /\ k \in Nat
      BY DEF k
    <3> QED
      BY <2>1, <3>1, FoldExists, Zenon
  <2>3. ASSUME NEW s \in SUBSET (1 .. k), s # {} PROVE f[s] = f[s \ {Max(s)}] + seq[Max(s)].count
    <3>1. Max(s) \in 1 .. k
      BY <2>3, MaxIsLast DEF k
    <3>2. f[s \ {Max(s)}] \in Int
      OBVIOUS
    <3> QED
      BY <2>1, <2>2, <2>3, <3>1, <3>2 DEF TakesSteps
  <2>4. \A s \in SUBSET (1 .. k) : f[s] = IF s = {} THEN 0 ELSE f[s \ {Max(s)}] + seq[Max(s)].count
    BY <2>2, <2>3 DEF TakesSteps
  <2>5. f = [s \in SUBSET (1 .. k) |-> IF s = {} THEN 0 ELSE f[s \ {Max(s)}] + seq[Max(s)].count]
    BY <2>4
  <2>6. It(f)
    BY <2>5 DEF k
  <2> HIDE DEF It
  <2> QED
    BY <2>6
<1>3. It(g)
  <2> HIDE DEF It
  <2> QED
    BY <1>2
<1> HIDE DEF g
<1>4. \A s \in SUBSET (1 .. k) : g[s] = IF s = {} THEN 0 ELSE g[s \ {Max(s)}] + seq[Max(s)].count
  BY <1>3 DEF k
<1> HIDE DEF It
<1> DEFINE Q == {i \in 0 .. k : g[1 .. i] = total[i]}
<1>5. k \in Nat /\ total \in [0 .. k -> Int] /\ total[0] = 0
      /\ \A i \in 1 .. k : seq[i].count \in Int /\ total[i] = total[i - 1] + seq[i].count
  BY DEF k
<1>6. 0 \in Q
  <2>1. 1 .. 0 = {} /\ {} \in SUBSET (1 .. k) /\ 0 \in 0 .. k
    BY <1>5
  <2> QED
    BY <1>4, <1>5, <2>1
<1>7. ASSUME NEW i \in 1 .. k, i - 1 \in Q PROVE i \in Q
  <2>1. g[1 .. i] = g[1 .. (i - 1)] + seq[i].count
    BY <1>4, <1>5, LastNumber
  <2>2. i \in 0 .. k
    BY <1>5
  <2> QED
    BY <1>5, <1>7, <2>1, <2>2
<1> HIDE DEF Q
<1>8. k \in Q
  <2>1. \A i \in 0 .. k : i \in Q
    BY <1>5, <1>6, <1>7, UpTo
  <2> QED
    BY <1>5, <2>1
<1> QED
  BY <1>1, <1>8 DEF Q, k

LEMMA TimesGrows ==
  ASSUME NEW n \in Nat \ {0}, NEW a \in Int, NEW b \in Int, a < b
  PROVE  n * a < n * b
<1> DEFINE d == b - a
<1>1. d \in Int /\ d >= 1 /\ b = a + d
  OBVIOUS
<1> HIDE DEF d
<1>2. n * d >= n
  BY <1>1
<1>3. n * (a + d) = n * a + n * d
  BY <1>1
<1> QED
  BY <1>1, <1>2, <1>3

(* The segments divide the samples: each sample is in one of them.         *)
LEMMA SegmentsDivide ==
  ASSUME NEW m, Sound(m), NEW samples, IsFiniteSet(samples),
         \A s \in samples : s.at \in Int /\ m.start < s.at /\ s.at <= m.end
  PROVE  CountAll([k \in 1 .. m.segments |-> GroupStats(Segments(samples, m)[k])]) = Cardinality(samples)
<1> DEFINE n == m.segments
           span == m.end - m.start
           Bound(k) == m.start * n + span * k
           Upto(k) == IF k = n THEN samples ELSE {s \in samples : n * s.at < Bound(k)}
           part(k) == Segments(samples, m)[k]
           seq == [k \in 1 .. n |-> GroupStats(part(k))]
           total == [k \in 0 .. n |-> Cardinality(Upto(k))]
<1>1. n \in Nat \ {0} /\ m.start \in Int /\ m.end \in Int /\ span \in Int
  BY DEF Sound
<1>2. \A k \in 1 .. n : part(k) = Segment(samples, Bound(k - 1), Bound(k), n, k = n, m.end)
  BY DEF Segments
<1>3. \A x : GroupStats(x).count = Cardinality(x)
  BY DEF GroupStats
<1>4. \A k \in 0 .. n : Bound(k) \in Int
  BY <1>1
<1>5. Bound(0) = m.start * n /\ Bound(n) = m.end * n /\ \A k \in 1 .. n : Bound(k) = Bound(k - 1) + span
  BY <1>1
<1>6. \A s \in samples : /\ n * s.at \in Int /\ n * s.at > Bound(0) /\ n * s.at <= Bound(n)
                         /\ (n * s.at = Bound(n) <=> s.at = m.end)
  <2>1. \A a, b \in Int : a < b => n * a < n * b
    <3> HIDE DEF n
    <3> QED
      BY <1>1, TimesGrows
  <2> SUFFICES ASSUME NEW s \in samples
               PROVE  /\ n * s.at \in Int /\ n * s.at > Bound(0) /\ n * s.at <= Bound(n)
                      /\ (n * s.at = Bound(n) <=> s.at = m.end)
    OBVIOUS
  <2>2. s.at \in Int /\ m.start < s.at /\ s.at <= m.end
    OBVIOUS
  <2>3. Bound(0) = n * m.start /\ Bound(n) = n * m.end
    BY <1>1, <1>5
  <2>4. n * s.at \in Int /\ n * m.start \in Int /\ n * m.end \in Int
    BY <1>1, <2>2
  <2> HIDE DEF n
  <2>5. n * m.start < n * s.at
    BY <1>1, <2>1, <2>2
  <2>6. s.at = m.end \/ n * s.at < n * m.end
    <3>1. s.at = m.end \/ s.at < m.end
      BY <1>1, <2>2
    <3> QED
      BY <1>1, <2>1, <2>2, <3>1
  <2> HIDE DEF Bound, n
  <2> QED
    BY <2>3, <2>4, <2>5, <2>6
<1>7. samples # {} => span > 0
  <2>1. ASSUME NEW s \in samples PROVE span > 0
    BY <1>1
  <2> QED
    BY <2>1
<1> HIDE DEF Bound, span, n, part
<1>8. Upto(0) = {} /\ Upto(n) = samples
  BY <1>1, <1>4, <1>6
<1>9. ASSUME NEW k \in 1 .. n PROVE Upto(k - 1) \in SUBSET Upto(k) /\ part(k) = Upto(k) \ Upto(k - 1)
  <2>1. k - 1 \in 0 .. n /\ k \in 0 .. n /\ k - 1 # n
    BY <1>1
  <2>2. Bound(k - 1) \in Int /\ Bound(k) \in Int /\ Bound(k) = Bound(k - 1) + span
    BY <1>4, <1>5, <2>1
  <2>3. part(k) = {s \in samples : Bound(k - 1) <= n * s.at /\ (n * s.at < Bound(k) \/ (k = n /\ s.at = m.end))}
    BY <1>2 DEF Segment
  <2>4. Upto(k - 1) = {s \in samples : n * s.at < Bound(k - 1)}
    BY <2>1
  <2>5. \A s \in samples : n * s.at \in Int
    BY <1>6
  <2>6. CASE k = n
    <3>1. Upto(k) = samples
      BY <2>6
    <3>2. \A s \in samples : n * s.at < Bound(k) \/ s.at = m.end
      BY <1>6, <2>2, <2>6
    <3> HIDE DEF Upto, part
    <3> QED
      BY <2>2, <2>3, <2>4, <2>5, <2>6, <3>1, <3>2
  <2>7. CASE k # n
    <3>1. Upto(k) = {s \in samples : n * s.at < Bound(k)}
      BY <2>7
    <3>2. \A s \in samples : n * s.at < Bound(k - 1) => n * s.at < Bound(k)
      BY <1>1, <1>7, <2>2, <2>5
    <3> HIDE DEF Upto, part
    <3> QED
      BY <2>2, <2>3, <2>4, <2>5, <2>7, <3>1, <3>2
  <2> QED
    BY <2>6, <2>7
<1>10. \A k \in 0 .. n : Upto(k) \in SUBSET samples
  OBVIOUS
<1> HIDE DEF Upto
<1>11. \A k \in 0 .. n : IsFiniteSet(Upto(k)) /\ Cardinality(Upto(k)) \in Nat
  BY <1>10, FewerOf
<1>12. ASSUME NEW k \in 1 .. n
       PROVE  Cardinality(part(k)) \in Nat /\ Cardinality(Upto(k)) = Cardinality(Upto(k - 1)) + Cardinality(part(k))
  <2>1. k \in 0 .. n /\ k - 1 \in 0 .. n
    BY <1>1
  <2>2. IsFiniteSet(Upto(k))
    BY <1>11, <2>1
  <2> QED
    BY <1>9, <2>2, Parts
<1>13. Len(seq) = n /\ DOMAIN seq = 1 .. n /\ \A k \in 1 .. n : seq[k].count = Cardinality(part(k))
  BY <1>1, <1>3
<1>14. total \in [0 .. n -> Int] /\ total[0] = 0 /\ total[n] = Cardinality(samples)
       /\ \A k \in 1 .. n : total[k] = total[k - 1] + Cardinality(part(k))
  <2>1. 0 \in 0 .. n /\ n \in 0 .. n /\ \A k \in 1 .. n : k \in 0 .. n /\ k - 1 \in 0 .. n
    BY <1>1
  <2>2. Cardinality({}) = 0
    BY FS_EmptySet
  <2>3. total \in [0 .. n -> Int]
    BY <1>11
  <2>4. \A k \in 0 .. n : total[k] = Cardinality(Upto(k))
    OBVIOUS
  <2> HIDE DEF total
  <2>5. total[0] = 0
    BY <1>8, <2>1, <2>2, <2>4
  <2>6. total[n] = Cardinality(samples)
    BY <1>8, <2>1, <2>4
  <2>7. ASSUME NEW k \in 1 .. n PROVE total[k] = total[k - 1] + Cardinality(part(k))
    BY <1>12, <2>1, <2>4
  <2> QED
    BY <2>3, <2>5, <2>6, <2>7
<1> HIDE DEF seq, total
<1>15. CountAll(seq) = total[n]
  <2>1. Len(seq) \in Nat /\ DOMAIN seq = 1 .. Len(seq) /\ total \in [0 .. Len(seq) -> Int] /\ total[0] = 0
        /\ \A k \in 1 .. Len(seq) : seq[k].count \in Int /\ total[k] = total[k - 1] + seq[k].count
    BY <1>1, <1>12, <1>13, <1>14
  <2>2. CountAll(seq) = total[Len(seq)]
    BY <2>1, CountAllIs
  <2> QED
    BY <1>13, <2>2
<1> QED
  BY <1>14, <1>15 DEF seq, part, n

(* The plans of the first k candles.                                       *)
PlansTo(m, k) == UNION {PlansAt(m.steps[i]) : i \in 1 .. k}

LEMMA AllPlans ==
  ASSUME NEW m, Sound(m)
  PROVE  PlansTo(m, Len(m.steps)) = PlansIn(m)
<1> DEFINE n == Len(m.steps)
           Of(step) == {<<s.id, step.close>> : s \in {x \in Range(step.setups) : ConfirmedNow(x.plan, step.close)}}
<1>1. DOMAIN m.steps = 1 .. n /\ \A k \in 1 .. n : SoundStep(m.steps[k])
  <2>1. m.steps \in Seq(Range(m.steps)) /\ \A k \in 1 .. n : SoundStep(m.steps[k])
    BY DEF Sound
  <2> QED
    BY <2>1, LengthIs
<1>2. ASSUME NEW k \in 1 .. n, m.steps[k].eligible PROVE PlansAt(m.steps[k]) = Of(m.steps[k])
  <2> DEFINE step == m.steps[k]
             setups == step.setups
             time == step.close
  <2>1. setups \in Seq(Range(setups))
    BY <1>1 DEF SoundStep
  <2>2. DOMAIN setups = 1 .. Len(setups)
    BY <2>1, LengthIs
  <2> HIDE DEF setups, time
  <2>3. Range(setups) = {setups[i] : i \in 1 .. Len(setups)}
    BY <2>2 DEF Range
  <2>4. Brought(setups, Len(setups), time)
          = {<<s.id, time>> : s \in {x \in Range(setups) : ConfirmedNow(x.plan, time)}}
    <3>1. ASSUME NEW p \in Brought(setups, Len(setups), time)
          PROVE  p \in {<<s.id, time>> : s \in {x \in Range(setups) : ConfirmedNow(x.plan, time)}}
      <4>1. PICK i \in 1 .. Len(setups) : p \in PlansOf(setups[i], time)
        BY DEF Brought
      <4>2. ConfirmedNow(setups[i].plan, time) /\ p = <<setups[i].id, time>>
        BY <4>1 DEF PlansOf
      <4> QED
        BY <2>3, <4>2
    <3>2. ASSUME NEW s \in Range(setups), ConfirmedNow(s.plan, time) PROVE <<s.id, time>> \in Brought(setups, Len(setups), time)
      <4>1. PICK i \in 1 .. Len(setups) : s = setups[i]
        BY <2>3
      <4>2. <<s.id, time>> \in PlansOf(setups[i], time)
        BY <3>2, <4>1 DEF PlansOf
      <4> QED
        BY <4>2 DEF Brought
    <3> QED
      BY <3>1, <3>2
  <2> QED
    BY <1>2, <2>4 DEF PlansAt, setups, time
<1>3. \A k \in 1 .. n : ~m.steps[k].eligible => PlansAt(m.steps[k]) = {}
  BY DEF PlansAt
<1>4. PlansIn(m) = UNION {Of(step) : step \in {x \in Range(m.steps) : x.eligible}}
  BY DEF PlansIn
<1>5. Range(m.steps) = {m.steps[k] : k \in 1 .. n}
  BY <1>1 DEF Range
<1> HIDE DEF Of, n
<1>6. ASSUME NEW p \in PlansTo(m, n) PROVE p \in PlansIn(m)
  <2>1. PICK k \in 1 .. n : p \in PlansAt(m.steps[k])
    BY DEF PlansTo
  <2>2. m.steps[k].eligible /\ p \in Of(m.steps[k])
    BY <1>2, <1>3, <2>1
  <2> QED
    BY <1>4, <1>5, <2>2
<1>7. ASSUME NEW p \in PlansIn(m) PROVE p \in PlansTo(m, n)
  <2>1. PICK step \in Range(m.steps) : step.eligible /\ p \in Of(step)
    BY <1>4
  <2>2. PICK k \in 1 .. n : step = m.steps[k]
    BY <1>5
  <2>3. p \in PlansAt(m.steps[k])
    BY <1>2, <2>1, <2>2
  <2> QED
    BY <2>3 DEF PlansTo
<1> QED
  BY <1>6, <1>7 DEF n

(* A summary of books that are settled accounts for every plan.            *)
LEMMA SummaryAccounts ==
  ASSUME NEW m, Sound(m), NEW run, Settled(m, run, PlansIn(m)), Told(m, run.trades)
  PROVE  Accounted(m, Summary(run, m))
<1> DEFINE R == Range(run.trades)
           C == EndingIn(R, "CLOSED")
           all == Samples(run)
           early == {s \in all : s.at < m.outOfSample}
           result == Summary(run, m)
           f == result.funnel
<1>1. /\ Ledger(m, R, PlansIn(m)) /\ IsFiniteSet(R)
      /\ run.trades \in Seq(R) /\ Len(run.trades) = Cardinality(R)
      /\ run.confirmed = Cardinality(R) /\ run.skipped = Cardinality(Skips(R)) /\ run.fills = Cardinality(Fillings(R))
  BY DEF Settled, Ledger
<1>2. /\ Len(run.trades) = Cardinality(PlansIn(m)) /\ {<<t.setup, t.at>> : t \in R} = PlansIn(m)
      /\ \A t \in R :
           ~Took(t) <=> \E u \in R \ {t} : Took(u) /\ u.at <= t.at /\ t.at < Expected(m, u.params).over
  BY PlansAreTrades
<1>3. \A status : Cardinality({i \in DOMAIN run.trades : run.trades[i].status = status}) = Cardinality(EndingIn(R, status))
  BY <1>1, PlacesOf DEF EndingIn
<1>4. Cardinality(R) = Cardinality(Skips(R)) + Cardinality(EndingIn(R, "EXPIRED")) + Cardinality(C)
                         + Cardinality(EndingIn(R, "OPEN_AT_END"))
  <2>1. \A t \in R : t.status \in {"SKIPPED_OVERLAP", "EXPIRED", "CLOSED", "OPEN_AT_END"}
    BY <1>1 DEF Ledger, Entered
  <2> HIDE DEF R
  <2> QED
    BY <1>1, <2>1, WaysToEnd
<1>5. /\ IsFiniteSet(all) /\ Cardinality(all) = Cardinality(C)
      /\ \A s \in all : s.at \in Int /\ m.start < s.at /\ s.at <= m.end
  BY SamplesAre
<1>6. CountAll([k \in 1 .. m.segments |-> GroupStats(Segments(all, m)[k])]) = Cardinality(all)
  <2> HIDE DEF all, C, R
  <2> QED
    BY <1>5, SegmentsDivide
<1>7. Cardinality(all) = Cardinality(early) + Cardinality(all \ early)
  <2>1. early \in SUBSET all
    OBVIOUS
  <2> HIDE DEF early, all, C, R
  <2> QED
    BY <1>5, <2>1, Parts
<1>8. all = {TradeSample(t) : t \in {t \in R : t.status = "CLOSED"}}
  BY DEF Samples, EndingIn
<1>9. /\ result.trades = run.trades /\ result.funnel = Funnel(run, Len(m.steps))
      /\ result.stats = GroupStats(all) /\ result.inSample = GroupStats(early)
      /\ result.outOfSample = GroupStats(all \ early)
      /\ result.segments = [k \in 1 .. m.segments |-> GroupStats(Segments(all, m)[k])]
  BY <1>8 DEF Summary
<1>10. \A x : GroupStats(x).count = Cardinality(x)
  BY DEF GroupStats
<1>11. /\ f.confirmed = run.confirmed /\ f.skipped = run.skipped /\ f.fills = run.fills
       /\ f.expired = Cardinality(EndingIn(R, "EXPIRED")) /\ f.closed = Cardinality(C)
       /\ f.openAtEnd = Cardinality(EndingIn(R, "OPEN_AT_END"))
  BY <1>3, <1>9 DEF Funnel
<1>12. Fillings(R) = {t \in R : t.fill # Nothing}
  BY DEF Fillings
<1> HIDE DEF result, all, early, C, R
<1>13. /\ Len(result.trades) = Cardinality(PlansIn(m)) /\ {<<t.setup, t.at>> : t \in Range(result.trades)} = PlansIn(m)
       /\ \A t \in Range(result.trades) :
            ~Took(t) <=> \E u \in Range(result.trades) \ {t} : Took(u) /\ u.at <= t.at /\ t.at < Expected(m, u.params).over
  BY <1>2, <1>9 DEF R
<1>14. /\ f.confirmed = Len(result.trades) /\ f.confirmed = f.skipped + f.expired + f.closed + f.openAtEnd
       /\ f.fills = Cardinality({t \in Range(result.trades) : t.fill # Nothing})
  <2>1. R = Range(result.trades)
    BY <1>9 DEF R
  <2> QED
    BY <1>1, <1>4, <1>9, <1>11, <1>12, <2>1
<1>15. result.stats.count = f.closed /\ f.closed = CountAll(result.segments)
       /\ f.closed = result.inSample.count + result.outOfSample.count
  BY <1>5, <1>6, <1>7, <1>9, <1>10, <1>11
<1>16. Accounted(m, result)
  BY <1>13, <1>14, <1>15 DEF Accounted
<1> QED
  BY <1>16 DEF result

-----------------------------------------------------------------------------
(* Where a candle stands in its variant.                                   *)
LEMMA ModIs ==
  ASSUME NEW c \in Nat \ {0}, NEW q \in Int, NEW r \in 0 .. (c - 1), NEW n \in Int, n = c * q + r
  PROVE  n % c = r
<1> DEFINE s == n % c
           p == n \div c
<1>1. s \in 0 .. (c - 1) /\ p \in Int /\ n = c * p + s
  OBVIOUS
<1> HIDE DEF s, p
<1>2. c * (p - q) = r - s /\ p - q \in Int
  BY <1>1
<1>3. p - q = 0
  <2>1. CASE p - q >= 1
    <3>1. c * (p - q) >= c
      BY <1>2, <2>1
    <3> QED
      BY <1>1, <1>2, <3>1
  <2>2. CASE p - q <= -1
    <3>1. c * (p - q) <= -c
      BY <1>2, <2>2
    <3> QED
      BY <1>1, <1>2, <3>1
  <2> QED
    BY <1>2, <2>1, <2>2
<1>4. c * 0 = 0
  OBVIOUS
<1>5. r = s
  BY <1>1, <1>2, <1>3, <1>4
<1> QED
  BY <1>5 DEF s

LEMMA CandleIs ==
  ASSUME NEW c \in Nat \ {0}, NEW v \in Nat \ {0}, NEW n \in 1 .. c * v
  PROVE  LET candle  == 1 + ((n - 1) % c)
             variant == 1 + ((n - 1) \div c)
         IN  /\ candle \in 1 .. c /\ variant \in 1 .. v
             /\ candle < c => n % c = candle
             /\ candle = c => n % c = 0
<1> DEFINE r == (n - 1) % c
           q == (n - 1) \div c
<1>1. c * v \in Nat /\ n \in Nat
  OBVIOUS
<1>2. r \in 0 .. (c - 1) /\ q \in Int /\ n - 1 = c * q + r
  BY <1>1
<1> HIDE DEF r, q
<1>3. n = c * q + (r + 1)
  BY <1>1, <1>2
<1>4. 1 + r < c => n % c = 1 + r
  <2> SUFFICES ASSUME 1 + r < c PROVE n % c = 1 + r
    OBVIOUS
  <2>1. 1 + r \in 0 .. (c - 1) /\ n = c * q + (1 + r)
    BY <1>2, <1>3
  <2> DEFINE s == 1 + r
  <2> HIDE DEF s
  <2>2. n % c = s
    BY <1>1, <1>2, <2>1, ModIs DEF s
  <2> QED
    BY <2>2 DEF s
<1>5. 1 + r = c => n % c = 0
  <2> SUFFICES ASSUME 1 + r = c PROVE n % c = 0
    OBVIOUS
  <2>1. c * (q + 1) = c * q + c
    BY <1>2
  <2> DEFINE p == q + 1
  <2>2. p \in Int /\ 0 \in 0 .. (c - 1) /\ n = c * p + 0
    BY <1>1, <1>2, <1>3, <2>1
  <2> HIDE DEF p
  <2>3. n % c = 0
    BY <1>1, <2>2, ModIs
  <2> QED
    BY <2>3
<1>6. q \in 0 .. (v - 1)
  <2>1. CASE q <= -1
    <3>1. c * q <= -c
      BY <1>2, <2>1
    <3> QED
      BY <1>1, <1>2, <3>1
  <2>2. CASE q >= v
    <3>1. c * q >= c * v
      BY <1>2, <2>2
    <3> QED
      BY <1>1, <1>2, <3>1
  <2> QED
    BY <1>2, <2>1, <2>2
<1> QED
  BY <1>2, <1>4, <1>5, <1>6 DEF r, q

-----------------------------------------------------------------------------
(* A run that is replayed.                                                 *)
GoodFor(m, results) == \A x \in Range(results) : Told(m, x.trades) /\ Accounted(m, x)

(* A variant begins with the range and is replayed to the close of its     *)
(* k-th candle.                                                            *)
TimeOf(k) == IF k = 0 THEN market.start ELSE market.steps[k].close

Going(w, k) ==
  /\ Played(market, w.bars, w.run, TimeOf(k))
  /\ Counted(market, w.run, PlansTo(market, k), TimeOf(k))

Playing(r) ==
  /\ GoodFor(market, replay[r].results)
  /\ rows[r] # None => GoodFor(market, rows[r].result)
  /\ task[r] \in {"none", "begin", "load"} => replay[r] = NoReplay
  /\ task[r] = "work" =>
       /\ replay[r].bars = Load(market)
       /\ Going(replay[r], done[r] % Candles)

LEMMA MarketIs ==
  ASSUME IInv
  PROVE  Sound(market) /\ Sorted(InRange(market), Load(market))
<1>1. Sound(market)
  BY MarketsAreSound DEF IInv, Stored, market
<1> HIDE DEF market
<1>2. Dated(InRange(market))
  BY <1>1, InRangeIs
<1> QED
  BY <1>1, <1>2, ByOpenIs, LoadIsRange

LEMMA ReplayedIs ==
  ASSUME IInv, NEW w, ReplaySound(w), NEW n \in 1 .. Steps, w.bars = Load(market),
         Going(w, (n - 1) % Candles), GoodFor(market, w.results)
  PROVE  LET next == Replayed(w, n)
         IN  next.bars = w.bars /\ Going(next, n % Candles) /\ GoodFor(market, next.results)
<1> DEFINE m == market
           c == Candles
           variant == 1 + ((n - 1) \div c)
           candle  == 1 + ((n - 1) % c)
           step    == m.steps[candle]
           costs   == Costs(m, m.variants[variant])
           run     == ReplayStep(w.run, w.bars, step, costs)
           told    == Summary(ReplayEnd(run, w.bars, m.end, costs), m)
           all     == Append(w.results, told)
           next    == Replayed(w, n)
<1>1. next = IF candle < c THEN [w EXCEPT !.run = run]
             ELSE [w EXCEPT !.run = Fresh, !.results = Append(@, told)]
  BY DEF Replayed
<1>2. w = [bars |-> w.bars, run |-> w.run, results |-> w.results] /\ w.results \in Seq(Range(w.results))
  BY DEF ReplaySound
<1>3. Sound(m) /\ Sorted(InRange(m), w.bars)
  BY MarketIs
<1>4. /\ c \in Nat \ {0} /\ Len(m.variants) \in Nat \ {0} /\ n \in 1 .. c * Len(m.variants)
      /\ c = Len(m.steps)
  <2>1. Steps \in Nat /\ Steps > 0
    BY StepsAre
  <2>2. c \in Nat \ {0} /\ Len(m.variants) \in Nat \ {0} /\ Steps = c * Len(m.variants)
    BY <2>1, StepsAre, RunsAssumption DEF IInv, Stored, market, Steps
  <2> QED
    BY <2>2 DEF Candles
<1>5. /\ candle \in 1 .. c /\ variant \in 1 .. Len(m.variants)
      /\ candle < c => n % c = candle
      /\ candle = c => n % c = 0
      /\ (n - 1) % c = candle - 1
  <2> DEFINE v == Len(m.variants)
  <2> HIDE DEF c, v
  <2>1. /\ candle \in 1 .. c /\ variant \in 1 .. v
        /\ candle < c => n % c = candle
        /\ candle = c => n % c = 0
    BY <1>4, CandleIs DEF v
  <2>2. (n - 1) % c = candle - 1
    <3> DEFINE k == (n - 1) % c
    <3>1. n - 1 \in Int /\ c \in Nat \ {0}
      BY <1>4
    <3>2. k \in Int
      BY <3>1
    <3> HIDE DEF k
    <3>3. candle = 1 + k
      BY DEF k
    <3> QED
      BY <3>2, <3>3 DEF k
  <2> QED
    BY <2>1, <2>2 DEF v
<1>6. /\ SoundStep(step) /\ step.close \in m.start .. m.end /\ m.start \in Int /\ m.end \in Int
      /\ \A i, j \in 1 .. c : i < j => m.steps[i].close < m.steps[j].close
      /\ \A i \in 1 .. c : m.steps[i].close \in Int
  <2>1. /\ \A i \in 1 .. c : SoundStep(m.steps[i]) /\ m.steps[i].close \in m.start .. m.end
        /\ m.start \in Int /\ m.end \in Int /\ Ordered(m.steps) /\ candle \in 1 .. c
    BY <1>3, <1>4, <1>5 DEF Sound
  <2> HIDE DEF m, candle
  <2>2. \A i \in 1 .. c : m.steps[i].close \in Int
    BY <2>1
  <2>3. \A i, j \in 1 .. c : i < j => m.steps[i].close < m.steps[j].close
    BY <1>4, <2>1 DEF Ordered
  <2> QED
    BY <2>1, <2>2, <2>3
<1>7. costs.half \in Int /\ costs.slip \in Int
  <2>1. m.variants[variant] \in Int /\ m.costs.half \in Int /\ m.costs.slip \in Int
    BY <1>3, <1>5 DEF Sound
  <2>2. \A x, y \in Int : x * y \in Int
    OBVIOUS
  <2>3. costs.half = m.costs.half * m.variants[variant] /\ costs.slip = m.costs.slip * m.variants[variant]
    BY DEF Costs
  <2> HIDE DEF costs, variant, m
  <2> QED
    BY <2>1, <2>2, <2>3
<1> DEFINE before == TimeOf((n - 1) % c)
<1>8. before \in Int /\ before <= step.close
  <2>1. CASE candle = 1
    <3>1. before = m.start
      BY <1>5, <2>1 DEF TimeOf
    <3> QED
      BY <1>6, <3>1
  <2>2. CASE candle # 1
    <3>1. candle - 1 \in 1 .. c /\ candle - 1 < candle /\ (n - 1) % c = candle - 1 /\ candle - 1 # 0
      <4>1. candle \in 1 .. c /\ c \in Nat
        BY <1>4, <1>5
      <4>2. (n - 1) % c = candle - 1
        BY <1>5
      <4> HIDE DEF candle, c
      <4>3. candle - 1 \in 1 .. c /\ candle - 1 < candle /\ candle - 1 # 0
        BY <2>2, <4>1
      <4> QED
        BY <4>2, <4>3
    <3>2. before = m.steps[candle - 1].close
      <4> HIDE DEF candle
      <4> QED
        BY <3>1 DEF TimeOf
    <3> HIDE DEF candle, before, m
    <3> QED
      BY <1>5, <1>6, <3>1, <3>2
  <2> QED
    BY <2>1, <2>2
<1>9. Played(m, w.bars, run, step.close) /\ Counted(m, run, PlansTo(m, candle), step.close)
  <2> DEFINE K == PlansTo(m, (n - 1) % c)
  <2>1. m.start <= step.close /\ step.close <= m.end
    BY <1>6
  <2>2. Played(m, w.bars, w.run, before) /\ Counted(m, w.run, K, before)
    BY DEF Going
  <2>3. PlansTo(m, candle) = K \cup PlansAt(step)
    <3>1. K = PlansTo(m, candle - 1) /\ candle \in Nat \ {0}
      <4>1. (n - 1) % c = candle - 1
        BY <1>5
      <4>2. candle \in 1 .. c /\ c \in Nat
        BY <1>4, <1>5
      <4> HIDE DEF candle, m
      <4> QED
        BY <4>1, <4>2
    <3> HIDE DEF K, candle
    <3>2. 1 .. candle = (1 .. (candle - 1)) \cup {candle}
      BY <3>1
    <3> QED
      BY <3>1, <3>2 DEF PlansTo, step
  <2> HIDE DEF m, step, costs, before, K
  <2>4. Played(m, w.bars, run, step.close) /\ Counted(m, run, K \cup PlansAt(step), step.close)
    BY <1>3, <1>6, <1>7, <1>8, <2>1, <2>2, ReplayStepIs
  <2> QED
    BY <2>3, <2>4
<1> HIDE DEF run, before
<1>10. CASE candle < c
  <2>1. next = [bars |-> w.bars, run |-> run, results |-> w.results]
    BY <1>1, <1>2, <1>10
  <2>2. TimeOf(n % c) = step.close
    <3>1. n % c = candle /\ candle # 0
      BY <1>5, <1>10
    <3> HIDE DEF candle
    <3> QED
      BY <3>1 DEF TimeOf, step
  <2>3. Played(m, w.bars, run, TimeOf(n % c)) /\ Counted(m, run, PlansTo(m, n % c), TimeOf(n % c))
    <3>1. n % c = candle
      BY <1>5, <1>10
    <3> HIDE DEF m, step, candle
    <3> QED
      BY <1>9, <2>2, <3>1
  <2> HIDE DEF m, next
  <2>4. Going(next, n % c)
    BY <2>1, <2>3 DEF m, Going
  <2> QED
    BY <2>1, <2>4 DEF m, next
<1>11. CASE ~(candle < c)
  <2>1. candle = c
    <3> HIDE DEF candle, c
    <3> QED
      BY <1>4, <1>5, <1>11
  <2>2. next = [bars |-> w.bars, run |-> Fresh, results |-> all]
    <3> HIDE DEF told
    <3> QED
      BY <1>1, <1>2, <1>11, ThreeFields
  <2>3. TimeOf(n % c) = m.start
    BY <1>5, <2>1 DEF TimeOf
  <2>4. Played(m, w.bars, Fresh, TimeOf(n % c)) /\ Counted(m, Fresh, PlansTo(m, n % c), TimeOf(n % c))
    <3>1. PlansTo(m, 0) = {} /\ n % c = 0
      BY <1>5, <2>1 DEF PlansTo
    <3> HIDE DEF m
    <3> QED
      BY <1>3, <2>3, <3>1, FreshIsPlayed
  <2>5. Told(m, told.trades) /\ Accounted(m, told)
    <3> DEFINE end == ReplayEnd(run, w.bars, m.end, costs)
    <3>1. PlansTo(m, candle) = PlansIn(m)
      <4>1. candle = Len(m.steps)
        BY <1>4, <2>1
      <4> HIDE DEF m, candle
      <4> QED
        BY <1>3, <4>1, AllPlans
    <3>2. Told(m, end.trades) /\ Settled(m, end, PlansIn(m))
      <4> HIDE DEF m, step, costs, candle
      <4>1. step.close <= m.end /\ step.close \in Int
        BY <1>6
      <4> QED
        BY <1>3, <1>9, <3>1, <4>1, ReplayEndIs
    <3> HIDE DEF end, m
    <3>3. Summary(end, m).trades = end.trades
      BY DEF Summary
    <3>4. Accounted(m, Summary(end, m))
      BY <1>3, <3>2, SummaryAccounts
    <3> QED
      BY <3>2, <3>3, <3>4 DEF end
  <2>6. GoodFor(m, all)
    <3> HIDE DEF told, m
    <3>1. \A x \in Range(all) : x \in Range(w.results) \/ x = told
      BY <1>2, AppendedAre
    <3>2. GoodFor(m, w.results)
      BY DEF m
    <3> HIDE DEF all
    <3> QED
      BY <2>5, <3>1, <3>2 DEF GoodFor
  <2> HIDE DEF m, next, all
  <2>7. Going(next, n % c)
    BY <2>2, <2>4 DEF m, Going
  <2> QED
    BY <2>2, <2>6, <2>7 DEF m, next
<1> QED
  BY <1>10, <1>11

(* A run whose bars are left alone, and that is not taken further.         *)
LEMMA StillPlaying ==
  ASSUME IInv, NEW r \in Runs, Playing(r), range' = range, replay'[r] = replay[r],
         rows'[r] = None \/ rows'[r] = rows[r] \/ GoodFor(market, rows'[r].result),
         \/ task'[r] = task[r] /\ done'[r] = done[r]
         \/ task'[r] \notin {"none", "begin", "load", "work"}
         \/ {task[r], task'[r]} \subseteq {"none", "begin", "load"}
  PROVE  Playing(r)'
<1>1. market' = market /\ Candles' = Candles
      /\ (Going(replay[r], done[r] % Candles))' = Going(replay'[r], done'[r] % Candles)
  BY DEF market, Candles, TimeOf, Going
<1>2. GoodFor(market, replay'[r].results) /\ (rows'[r] # None => GoodFor(market, rows'[r].result))
  BY DEF Playing
<1>3. task'[r] \in {"none", "begin", "load"} => replay'[r] = NoReplay
  BY DEF Playing
<1>4. ASSUME task'[r] = "work"
      PROVE  replay'[r].bars = Load(market) /\ Going(replay'[r], done'[r] % Candles)
  <2>1. task[r] = "work" /\ done'[r] = done[r]
    BY <1>4
  <2> QED
    BY <2>1 DEF Playing
<1> QED
  BY <1>1, <1>2, <1>3, <1>4 DEF Playing

LEMMA ResultStays ==
  ASSUME NEW row, RowSound(row), NEW x
  PROVE  [row EXCEPT !.status = x].result = row.result /\ [row EXCEPT !.done = x].result = row.result
<1>1. row = [status |-> row.status, done |-> row.done, hashed |-> row.hashed, result |-> row.result]
  BY DEF RowSound
<1> QED
  BY <1>1

LEMMA ReplayStays ==
  ASSUME IInv, NEW r \in Runs, Replays(r), task[r] # "clean", done'[r] = done[r],
         ~(task[r] = "load" /\ task'[r] = "work")
  PROVE  replay'[r] = replay[r]
<1> DEFINE new == IF task[r] = "load" /\ task'[r] = "work" THEN [replay[r] EXCEPT !.bars = Load(market)]
                  ELSE IF done'[r] > done[r] THEN Replayed(replay[r], done'[r])
                  ELSE IF task[r] = "clean" THEN NoReplay ELSE replay[r]
<1>1. replay' = [replay EXCEPT ![r] = new]
  BY Zenon DEF Replays
<1>2. replay'[r] = new
  <2> HIDE DEF new
  <2> QED
    BY <1>1, RunIs
<1>3. ~(done'[r] > done[r])
  BY RunIs
<1> QED
  BY <1>2, <1>3

(* A step of the task is about its own run.                                *)
LEMMA ExecuteTouches ==
  ASSUME IInv, NEW r \in Runs, Execute(r), Replays(r)
  PROVE  Touches(r)
<1>1. /\ {"load", "work", "complete", "clean", "none", "cancelled"} \subseteq Places
      /\ Raised(r) \in Places
  BY DEF Places, Raised
<1>2. \E w : replay' = [replay EXCEPT ![r] = w]
  BY ReplaysIs
<1>3. Others => UNCHANGED <<range, drawn, start, asked, deleting>>
  BY DEF Others
<1>4. CASE Begin(r)
  <2>1. Stores(r, [rows[r] EXCEPT !.status = "RUNNING"], "load") /\ UNCHANGED done /\ Others
    BY <1>4 DEF Begin
  <2> QED
    BY <1>1, <1>2, <1>3, <2>1, StoresIs, Unmoved DEF Touches
<1>5. CASE Loads(r)
  <2>1. (TaskAt(r, "work") \/ TaskAt(r, Raised(r))) /\ UNCHANGED <<rows, done>> /\ Others
    BY <1>5 DEF Loads
  <2> QED
    BY <1>1, <1>2, <1>3, <2>1, Moved, Unmoved DEF Touches
<1>6. CASE CancelSeen(r)
  <2>1. TaskAt(r, "cancelled") /\ UNCHANGED <<rows, done>> /\ Others
    BY <1>6 DEF CancelSeen
  <2> QED
    BY <1>1, <1>2, <1>3, <2>1, Moved, Unmoved DEF Touches
<1>7. CASE Step(r)
  <2> DEFINE row == [rows[r] EXCEPT !.done = done'[r]]
  <2>1. /\ done' = [done EXCEPT ![r] = @ + 1] /\ Others
        /\ Stores(r, row, "complete") \/ Stores(r, row, "work") \/ UNCHANGED <<rows, task>>
    BY <1>7, Zenon DEF Step
  <2>2. \E n : done' = [done EXCEPT ![r] = n]
    BY <2>1
  <2> HIDE DEF row
  <2>3. (\E pc \in Places : task' = [task EXCEPT ![r] = pc]) /\ \E x : rows' = [rows EXCEPT ![r] = x]
    BY <1>1, <2>1, StoresIs, Unmoved
  <2> QED
    BY <1>2, <1>3, <2>1, <2>2, <2>3 DEF Touches
<1>8. CASE Complete(r)
  <2>1. Stores(r, Completed(r), "clean") /\ UNCHANGED done /\ Others
    BY <1>8 DEF Complete
  <2> QED
    BY <1>1, <1>2, <1>3, <2>1, StoresIs, Unmoved DEF Touches
<1>9. CASE Record(r)
  <2>1. TaskAt(r, "clean") /\ UNCHANGED done /\ Others
    BY <1>9 DEF Record
  <2>2. \E x : rows' = [rows EXCEPT ![r] = x]
    BY <1>9, RecordIs
  <2> QED
    BY <1>1, <1>2, <1>3, <2>1, <2>2, Moved, Unmoved DEF Touches
<1>10. CASE Clean(r)
  <2>1. TaskAt(r, "none") /\ done' = [done EXCEPT ![r] = 0] /\ UNCHANGED <<range, rows, drawn, start, asked, deleting>>
    BY <1>10 DEF Clean
  <2>2. \E n : done' = [done EXCEPT ![r] = n]
    BY <2>1
  <2> QED
    BY <1>1, <1>2, <2>1, <2>2, Moved, Unmoved DEF Touches
<1> QED
  BY <1>4, <1>5, <1>6, <1>7, <1>8, <1>9, <1>10 DEF Execute

(* The other runs do not notice.                                           *)
LEMMA OthersPlay ==
  ASSUME IInv, NEW r \in Runs, Touches(r), NEW q \in Runs, q # r, Playing(q)
  PROVE  Playing(q)'
<1>1. rows'[q] = rows[q] /\ task'[q] = task[q] /\ done'[q] = done[q] /\ replay'[q] = replay[q] /\ range' = range
  BY RunIs DEF Touches
<1> QED
  BY <1>1, StillPlaying

LEMMA BeginPlays == ASSUME IInv, NEW r \in Runs, Playing(r), Begin(r), Replays(r) PROVE Playing(r)'
<1> DEFINE row == [rows[r] EXCEPT !.status = "RUNNING"]
<1>1. task[r] = "begin" /\ Stores(r, row, "load") /\ UNCHANGED <<done, range>> /\ "load" \in Places
  BY DEF Begin, Others, Places
<1>2. rows[r] # None => row.result = rows[r].result
  BY RunIs, ResultStays
<1> HIDE DEF row
<1>3. /\ task'[r] \in {"load", "failed", "cancelled"}
      /\ rows'[r] = rows[r] \/ (rows'[r] = row /\ rows[r] # None)
  BY <1>1, StoresIs
<1>4. replay'[r] = replay[r]
  BY <1>1, ReplayStays
<1>5. rows'[r] = None \/ rows'[r] = rows[r] \/ GoodFor(market, rows'[r].result)
  BY <1>2, <1>3 DEF Playing
<1> QED
  BY <1>1, <1>3, <1>4, <1>5, StillPlaying

(* The bars of the range are loaded, and the first variant begins.         *)
LEMMA LoadsPlays == ASSUME IInv, NEW r \in Runs, Playing(r), Loads(r), Replays(r) PROVE Playing(r)'
<1>1. /\ task[r] = "load" /\ UNCHANGED <<rows, done, range>>
      /\ (Candles > 0 /\ TaskAt(r, "work")) \/ TaskAt(r, Raised(r))
  BY DEF Loads, Others
<1>2. Raised(r) \in Places \ {"none", "begin", "load", "work"} /\ "work" \in Places
  BY DEF Raised, Places
<1>3. CASE TaskAt(r, Raised(r))
  <2>1. task'[r] = Raised(r)
    BY <1>2, <1>3, Moved
  <2>2. replay'[r] = replay[r]
    BY <1>1, <1>2, <2>1, ReplayStays
  <2> QED
    BY <1>1, <1>2, <2>1, <2>2, StillPlaying
<1>4. CASE Candles > 0 /\ TaskAt(r, "work")
  <2>1. task'[r] = "work"
    BY <1>2, <1>4, Moved
  <2>2. replay[r] = NoReplay /\ done[r] = 0
    BY <1>1, RunIs DEF Playing, Worked
  <2> DEFINE new == [replay[r] EXCEPT !.bars = Load(market)]
  <2>3. replay' = [replay EXCEPT ![r] = new]
    BY <1>1, <2>1, Zenon DEF Replays
  <2>4. replay'[r] = new
    <3> HIDE DEF new
    <3> QED
      BY <2>3, RunIs
  <2>5. replay'[r] = [bars |-> Load(market), run |-> Fresh, results |-> <<>>]
    BY <2>2, <2>4 DEF NoReplay
  <2>6. Candles \in Nat /\ 0 % Candles = 0
    <3>1. Candles \in Nat \ {0}
      BY <1>4, StepsAre
    <3>2. \A c \in Nat \ {0} : 0 % c = 0
      OBVIOUS
    <3> QED
      BY <3>1, <3>2
  <2>7. Played(market, Load(market), Fresh, TimeOf(0)) /\ Counted(market, Fresh, PlansTo(market, 0), TimeOf(0))
    <3>1. TimeOf(0) = market.start /\ PlansTo(market, 0) = {}
      BY DEF TimeOf, PlansTo
    <3> HIDE DEF TimeOf
    <3> QED
      BY <3>1, MarketIs, FreshIsPlayed
  <2>8. Going(replay'[r], done'[r] % Candles)
    BY <1>1, <2>2, <2>5, <2>6, <2>7 DEF Going
  <2>9. GoodFor(market, <<>>)
    BY DEF GoodFor, Range
  <2>10. market' = market /\ (Going(replay[r], done[r] % Candles))' = Going(replay'[r], done'[r] % Candles)
    BY <1>1 DEF market, Candles, TimeOf, Going
  <2>12. replay'[r].bars = Load(market) /\ replay'[r].results = <<>>
    BY <2>5
  <2>13. rows'[r] # None => GoodFor(market, rows'[r].result)
    BY <1>1 DEF Playing
  <2> QED
    BY <2>1, <2>8, <2>9, <2>10, <2>12, <2>13 DEF Playing
<1> QED
  BY <1>1, <1>3, <1>4

LEMMA CancelSeenPlays == ASSUME IInv, NEW r \in Runs, Playing(r), CancelSeen(r), Replays(r) PROVE Playing(r)'
<1>1. task[r] = "work" /\ TaskAt(r, "cancelled") /\ "cancelled" \in Places /\ UNCHANGED <<rows, done, range>>
  BY DEF CancelSeen, Others, Places
<1>2. task'[r] = "cancelled" /\ replay'[r] = replay[r]
  BY <1>1, Moved, ReplayStays
<1> QED
  BY <1>1, <1>2, StillPlaying

(* A candle more.                                                          *)
LEMMA StepPlays == ASSUME IInv, NEW r \in Runs, Playing(r), Step(r), Replays(r) PROVE Playing(r)'
<1> DEFINE row == [rows[r] EXCEPT !.done = done'[r]]
           n == done'[r]
           old == replay[r]
           new == replay'[r]
<1>1. /\ task[r] = "work" /\ done' = [done EXCEPT ![r] = @ + 1] /\ range' = range
      /\ {"complete", "work"} \subseteq Places
  BY DEF Step, Others, Places
<1>2. Stores(r, row, "complete") \/ Stores(r, row, "work") \/ UNCHANGED <<rows, task>>
  BY Zenon DEF Step
<1>3. done[r] \in Nat /\ done[r] < Steps /\ Steps \in Nat
  BY <1>1, RunIs, StepsAre DEF Worked
<1>4. n = done[r] + 1 /\ n \in 1 .. Steps /\ n > done[r] /\ n - 1 = done[r]
  <2>1. n = done[r] + 1
    BY <1>1, RunIs
  <2> HIDE DEF n
  <2> QED
    BY <1>3, <2>1
<1>5. rows[r] # None => row.result = rows[r].result
  BY RunIs, ResultStays
<1> HIDE DEF row
<1>6. /\ task'[r] \in {"complete", "work", "failed", "cancelled"}
      /\ rows'[r] = rows[r] \/ (rows'[r] = row /\ rows[r] # None)
  BY <1>1, <1>2, StoresIs
<1>7. new = Replayed(old, n)
  BY <1>1, <1>4, ReplaysIs
<1>8. /\ old.bars = Load(market) /\ Going(old, done[r] % Candles)
      /\ GoodFor(market, old.results) /\ ReplaySound(old)
  BY <1>1, RunIs DEF Playing
<1>9. new.bars = old.bars /\ Going(new, n % Candles) /\ GoodFor(market, new.results)
  <2>1. Going(old, (n - 1) % Candles)
    BY <1>4, <1>8
  <2> HIDE DEF n, old, new
  <2> QED
    BY <1>4, <1>7, <1>8, <2>1, ReplayedIs
<1>10. rows'[r] # None => GoodFor(market, rows'[r].result)
  BY <1>5, <1>6 DEF Playing
<1>11. market' = market /\ (Going(replay[r], done[r] % Candles))' = Going(new, n % Candles)
  BY <1>1 DEF market, Candles, TimeOf, Going
<1> QED
  BY <1>6, <1>8, <1>9, <1>10, <1>11 DEF Playing

LEMMA CompletePlays == ASSUME IInv, NEW r \in Runs, Playing(r), Complete(r), Replays(r) PROVE Playing(r)'
<1>1. task[r] = "complete" /\ Stores(r, Completed(r), "clean") /\ "clean" \in Places /\ UNCHANGED <<done, range>>
  BY DEF Complete, Others, Places
<1>2. rows[r] # None => Completed(r).result = replay[r].results
  <2>1. ASSUME rows[r] # None PROVE rows[r] = [status |-> rows[r].status, done |-> rows[r].done,
                                                hashed |-> rows[r].hashed, result |-> rows[r].result]
    BY <2>1, RunIs DEF RowSound
  <2>2. DOMAIN rows[r] = {"status", "done", "hashed", "result"} => Completed(r).result = replay[r].results
    BY DEF Completed
  <2> QED
    BY <2>1, <2>2
<1>3. /\ task'[r] \in {"clean", "failed", "cancelled"}
      /\ rows'[r] = rows[r] \/ (rows'[r] = Completed(r) /\ rows[r] # None)
  BY <1>1, StoresIs
<1>4. replay'[r] = replay[r]
  BY <1>1, ReplayStays
<1>5. rows'[r] = None \/ rows'[r] = rows[r] \/ GoodFor(market, rows'[r].result)
  BY <1>2, <1>3 DEF Playing
<1> QED
  BY <1>1, <1>3, <1>4, <1>5, StillPlaying

LEMMA RecordPlays == ASSUME IInv, NEW r \in Runs, Playing(r), Record(r), Replays(r) PROVE Playing(r)'
<1> DEFINE s == IF task[r] = "failed" THEN "FAILED" ELSE "CANCELLED"
           row == [rows[r] EXCEPT !.status = s]
<1>1. /\ task[r] \in {"failed", "cancelled"} /\ TaskAt(r, "clean") /\ "clean" \in Places
      /\ UNCHANGED <<done, range>>
  BY DEF Record, Others, Places
<1>2. rows'[r] = rows[r] \/ (rows'[r] = row /\ rows[r] # None)
  BY RecordIs
<1> HIDE DEF s
<1>3. rows[r] # None => row.result = rows[r].result
  BY RunIs, ResultStays
<1> HIDE DEF row
<1>4. task'[r] = "clean" /\ replay'[r] = replay[r]
  BY <1>1, Moved, ReplayStays
<1>5. rows'[r] = None \/ rows'[r] = rows[r] \/ GoodFor(market, rows'[r].result)
  BY <1>2, <1>3 DEF Playing
<1> QED
  BY <1>1, <1>4, <1>5, StillPlaying

(* Nothing of the replay is left for a run that comes later.               *)
LEMMA NothingIsPlayed ==
  ASSUME NEW r \in Runs, range' = range, task'[r] = "none", replay'[r] = NoReplay,
         rows'[r] # None => GoodFor(market, rows'[r].result)
  PROVE  Playing(r)'
<1>1. market' = market
  BY DEF market
<1>2. GoodFor(market, NoReplay.results)
  BY DEF GoodFor, NoReplay, Range
<1> QED
  BY <1>1, <1>2 DEF Playing

LEMMA CleanPlays == ASSUME IInv, NEW r \in Runs, Playing(r), Clean(r), Replays(r) PROVE Playing(r)'
<1>1. /\ task[r] = "clean" /\ TaskAt(r, "none") /\ "none" \in Places
      /\ done' = [done EXCEPT ![r] = 0] /\ UNCHANGED <<range, rows>>
  BY DEF Clean, Places
<1>2. task'[r] = "none" /\ ~(done'[r] > done[r])
  <2>1. done'[r] = 0 /\ done[r] \in Nat
    BY <1>1, RunIs, StepsAre
  <2> QED
    BY <1>1, <2>1, Moved
<1>3. replay'[r] = NoReplay
  <2> DEFINE new == IF task[r] = "load" /\ task'[r] = "work" THEN [replay[r] EXCEPT !.bars = Load(market)]
                    ELSE IF done'[r] > done[r] THEN Replayed(replay[r], done'[r])
                    ELSE IF task[r] = "clean" THEN NoReplay ELSE replay[r]
  <2>1. replay' = [replay EXCEPT ![r] = new]
    BY Zenon DEF Replays
  <2>2. new = NoReplay
    BY <1>1, <1>2
  <2> HIDE DEF new
  <2> QED
    BY <2>1, <2>2, RunIs
<1>4. rows'[r] # None => GoodFor(market, rows'[r].result)
  BY <1>1 DEF Playing
<1> QED
  BY <1>1, <1>2, <1>3, <1>4, NothingIsPlayed

(* A request leaves the replays alone and stores no result.                *)
LEMMA RequestsPlay ==
  ASSUME IInv, NEW r \in Runs, NEW q \in Runs, Playing(q),
         \/ StartChecks(r) \/ StartInserts(r) \/ StartFails(r) \/ StartOwns(r)
         \/ CancelReads(r) \/ CancelMarks(r) \/ DeleteChecks(r) \/ Deletes(r)
  PROVE  Playing(q)'
<1>1. UNCHANGED <<range, done, replay>>
  BY DEF StartChecks, StartInserts, StartFails, StartOwns, CancelReads, CancelMarks, DeleteChecks, Deletes, work
<1>2. rows'[q] = None \/ rows'[q] = rows[q] \/ GoodFor(market, rows'[q].result)
  <2>1. CASE StartInserts(r)
    <3>1. rows' = [rows EXCEPT ![r] = Queued]
      BY <2>1 DEF StartInserts
    <3>2. rows'[q] = rows[q] \/ rows'[q] = Queued
      BY <3>1, RunIs
    <3>3. GoodFor(market, Queued.result)
      BY DEF Queued, GoodFor, Range
    <3> QED
      BY <3>2, <3>3
  <2>2. CASE Deletes(r)
    <3>1. rows' = [rows EXCEPT ![r] = None]
      BY <2>2 DEF Deletes
    <3> QED
      BY <3>1, RunIs
  <2>3. CASE ~StartInserts(r) /\ ~Deletes(r)
    <3>1. UNCHANGED rows
      BY <2>3 DEF StartChecks, StartFails, StartOwns, CancelReads, CancelMarks, DeleteChecks
    <3> QED
      BY <3>1
  <2> QED
    BY <2>1, <2>2, <2>3
<1>3. CASE StartOwns(r)
  <2>1. start[r] = "inserted" /\ task' = [task EXCEPT ![r] = "begin"]
    BY <1>3 DEF StartOwns
  <2>2. task[r] = "none" /\ task'[r] = "begin" /\ (q # r => task'[q] = task[q])
    BY <2>1, RunIs DEF Begun
  <2> QED
    BY <1>1, <1>2, <2>2, StillPlaying
<1>4. CASE ~StartOwns(r)
  <2>1. UNCHANGED task
    BY <1>4 DEF StartChecks, StartInserts, StartFails, CancelReads, CancelMarks, DeleteChecks, Deletes
  <2> QED
    BY <1>1, <1>2, <2>1, StillPlaying
<1> QED
  BY <1>3, <1>4

LEMMA RestartPlays == ASSUME IInv, Restart, NEW r \in Runs, Playing(r) PROVE Playing(r)'
<1>1. /\ task' = [q \in Runs |-> "none"] /\ replay' = [q \in Runs |-> NoReplay] /\ UNCHANGED <<range, rows>>
  BY DEF Restart
<1>2. rows'[r] # None => GoodFor(market, rows'[r].result)
  BY <1>1 DEF Playing
<1> QED
  BY <1>1, <1>2, NothingIsPlayed

LEMMA NextPlays == ASSUME IInv, [Next]_vars, \A r \in Runs : Playing(r) PROVE \A r \in Runs : Playing(r)'
<1> SUFFICES ASSUME NEW q \in Runs PROVE Playing(q)'
  OBVIOUS
<1>1. CASE UNCHANGED vars
  <2>1. UNCHANGED <<range, rows, task, done, replay>>
    BY <1>1 DEF vars
  <2> QED
    BY <2>1, StillPlaying
<1>2. CASE Restart
  BY <1>2, RestartPlays
<1>3. ASSUME NEW r \in Runs,
             \/ StartChecks(r) \/ StartInserts(r) \/ StartFails(r) \/ StartOwns(r)
             \/ CancelReads(r) \/ CancelMarks(r) \/ DeleteChecks(r) \/ Deletes(r)
      PROVE  Playing(q)'
  BY <1>3, RequestsPlay
<1>4. ASSUME NEW r \in Runs, Execute(r) /\ Replays(r) PROVE Playing(q)'
  <2>1. Touches(r)
    BY <1>4, ExecuteTouches
  <2>2. CASE q # r
    BY <2>1, <2>2, OthersPlay
  <2>3. CASE q = r
    BY <1>4, <2>3, BeginPlays, LoadsPlays, CancelSeenPlays, StepPlays, CompletePlays, RecordPlays, CleanPlays
       DEF Execute
  <2> QED
    BY <2>2, <2>3
<1> QED
  BY <1>1, <1>2, <1>3, <1>4 DEF Next

(* What is stored and what is under way is good, and stays so.             *)
LEMMA Plays == Spec => [](IInv /\ \A r \in Runs : Playing(r))
<1> DEFINE I == IInv /\ \A r \in Runs : Playing(r)
<1>1. Init => I
  <2> SUFFICES ASSUME Init PROVE \A r \in Runs : Playing(r)
    BY InitHolds
  <2> SUFFICES ASSUME NEW r \in Runs PROVE Playing(r)
    OBVIOUS
  <2>1. rows[r] = None /\ task[r] = "none" /\ replay[r] = NoReplay
    BY DEF Init
  <2>2. GoodFor(market, NoReplay.results)
    BY DEF GoodFor, NoReplay, Range
  <2> QED
    BY <2>1, <2>2 DEF Playing
<1>2. I /\ [Next]_vars => I'
  <2> SUFFICES ASSUME IInv, \A r \in Runs : Playing(r), [Next]_vars PROVE IInv' /\ \A r \in Runs : Playing(r)'
    OBVIOUS
  <2> QED
    BY NextKeeps, NextPlays
<1>3. Init /\ [][Next]_vars => []I
  <2> HIDE DEF I
  <2> QED
    BY <1>1, <1>2, PTL
<1> QED
  BY <1>3, PTL DEF Spec

(* A stored result tells the truth of every trade that was taken: what     *)
(* bars there are in the range, however many loads brought them and one    *)
(* candle after another, decide alone how its plan ended.                  *)
THEOREM TradesHold == Spec => []TradesAreReplayed
<1>1. (\A r \in Runs : Playing(r)) => TradesAreReplayed
  <2> SUFFICES ASSUME \A r \in Runs : Playing(r), NEW r \in Runs, rows[r] # None,
                      NEW result \in Range(rows[r].result), NEW t \in Range(result.trades), Took(t)
               PROVE  TellsTrue(market, t)
    BY DEF TradesAreReplayed
  <2> QED
    BY DEF Playing, GoodFor, Told
<1> QED
  BY <1>1, Plays, PTL

(* Nor is a plan lost or counted twice: a stored result has each plan that *)
(* a candle could act on as one trade, skips it just when an order that    *)
(* was taken stood in its way, and its funnel, its segments and its two    *)
(* samples all add up to those trades.                                     *)
THEOREM PlansHold == Spec => []PlansAreAccounted
<1>1. (\A r \in Runs : Playing(r)) => PlansAreAccounted
  <2> SUFFICES ASSUME \A r \in Runs : Playing(r), NEW r \in Runs, rows[r] # None, NEW result \in Range(rows[r].result)
               PROVE  Accounted(market, result)
    BY DEF PlansAreAccounted
  <2> QED
    BY DEF Playing, GoodFor
<1> QED
  BY <1>1, Plays, PTL
=============================================================================
