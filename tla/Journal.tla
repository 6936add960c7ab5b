------------------------------- MODULE Journal ------------------------------
(***************************************************************************)
(* The trade journal (journal/service.py, store.py): requests that log a   *)
(* trade, append an outcome to it, read it, export everything or delete.   *)
(* Each call of the store is a transaction of its own, and other requests  *)
(* run between two of them.  Rows are kept with the hash of what was       *)
(* written; someone with the database can edit a row, not its hash.        *)
(***************************************************************************)
EXTENDS JournalReport

CONSTANTS
  Tasks,    \* requests in flight
  Ids,      \* bound: the ids uuid4 gives out, numbers: ids are compared
  MaxTime,  \* bound
  PageSize, \* listMaxLimit
  Forged,   \* what an edited row holds
  Scenes    \* bounds: what can happen in one behaviour; each has
            \*   stored: the entries there are at the start
            \*   logs: the creations asked for
            \*   reports: the outcomes asked for
            \*   loads: what candle loads bring
            \*   jobs: what else requests do, {"GET", "EXPORT", "DELETE", "EDIT", "CRASH"}
            \*   ids: ids given out; revisions: per entry; edits; busy: requests at once
            \*   foreignKeys: whether the database enforces them
            \*   ticks

Times == 0 .. MaxTime

VARIABLES
  now,
  scene,
  entries,  \* journal_entries
  outcomes, \* journal_outcomes, by entry and revision
  issued,   \* ids given out
  tasks     \* what each request holds between two transactions

vars == <<now, scene, entries, outcomes, issued, tasks>>

(* row: the entry read; rows: the page read; views: what was built so far. *)
(* History: there, the entries that have been there since the request      *)
(* began; closed, those of them that had outcomes then.                    *)
Idle == [at |-> "IDLE", job |-> Nothing, id |-> Nothing, asked |-> 0, log |-> Nothing, row |-> Nothing, rows |-> <<>>,
         cursor |-> Nothing, views |-> <<>>, report |-> Nothing, record |-> Nothing, revision |-> Nothing, there |-> {}, closed |-> {}]

InDb == DOMAIN entries
Revisions(id) == {k[2] : k \in {j \in DOMAIN outcomes : j[1] = id}}
Begun(job) == [Idle EXCEPT !.job = job, !.asked = now, !.there = InDb, !.closed = {id \in InDb : Revisions(id) # {}}]
MayBegin(t) == tasks[t].at = "IDLE" /\ Cardinality({u \in Tasks : tasks[u].at # "IDLE"}) < scene.busy
Init ==
  /\ now = 0
  /\ scene \in Scenes
  /\ entries = scene.stored.entries /\ outcomes = scene.stored.outcomes
  /\ issued = DOMAIN entries
  /\ tasks = [t \in Tasks |-> Idle]

-----------------------------------------------------------------------------
(* _build: what is shown of a row and the outcomes read with it.           *)
Integrity(row) == IF row.record = row.hash THEN "VERIFIED" ELSE "TAMPERED"

View(row, revisions) ==
  LET body   == IF row.record = Forged THEN row.hash ELSE row.record
      latest == IF revisions = <<>> THEN Nothing ELSE Last(revisions)
      result == IF latest = Nothing THEN Nothing ELSE IF latest.record = Forged THEN Forged ELSE latest.record.result
  IN  [id |-> row.id, kind |-> row.kind, symbol |-> row.symbol, trade |-> body.fill, dol |-> body.dol,
       synthetic |-> body.synthetic, detected |-> body.detected, integrity |-> Integrity(row),
       status |-> IF row.kind = "TRADE" /\ revisions = <<>> THEN "OPEN" ELSE "CLOSED",
       result |-> IF row.kind = "TRADE" THEN result ELSE row.kind,
       outcome |-> latest, revisions |-> revisions]

(* outcomes(): in the order of their revisions.  In an order, the i-th has *)
(* i - 1 before it.                                                        *)
Ascending(S) == [i \in 1 .. Cardinality(S) |-> CHOOSE x \in S : Cardinality({y \in S : y < x}) = i - 1]
OutcomesOf(id) ==
  LET revisions == Ascending(Revisions(id))
  IN  [i \in DOMAIN revisions |->
         LET o == outcomes[<<id, revisions[i]>>]
         IN  [revision |-> revisions[i], record |-> o.record, integrity |-> Integrity(o)]]

(* list_entries: newest first, then by id; limit + 1 rows tell whether     *)
(* there is a next page.  Mutant: rows of the cursor's time are skipped.   *)
NewerOnly(row, cursor) == cursor = Nothing \/ row.created < cursor[1]
Beyond(row, cursor) ==
  \/ cursor = Nothing
  \/ row.created < cursor[1]
  \/ row.created = cursor[1] /\ row.id < cursor[2]
Newer(a, b) == a.created > b.created \/ (a.created = b.created /\ a.id > b.id)
NewestFirst(S) == [i \in 1 .. Cardinality(S) |-> CHOOSE x \in S : Cardinality({y \in S : Newer(y, x)}) = i - 1]
Page(cursor) ==
  LET all  == NewestFirst({e \in Range(entries) : Beyond(e, cursor)})
      rows == SubSeq(all, 1, Min({Len(all), PageSize}))
  IN  [rows |-> rows,
       cursor |-> IF Len(all) > PageSize THEN <<Last(rows).created, Last(rows).id>> ELSE Nothing]

(* A row is inserted.                                                      *)
Put(table, key, row) == [k \in DOMAIN table \cup {key} |-> IF k = key THEN row ELSE table[k]]

Become(t, new) == tasks' = [tasks EXCEPT ![t] = new]
Done(t) == Become(t, Idle)

-----------------------------------------------------------------------------
(* create: a time ahead of the clock is refused.  The engine's state is    *)
(* captured over two awaits, and a failed evaluation leaves no plan.       *)
BeginCreate(t, log) ==
  /\ MayBegin(t) /\ log \in scene.logs
  /\ log.fill # Nothing => log.fill.opened <= now + Leeway
  /\ Become(t, [Begun("CREATE") EXCEPT !.at = "INSERT", !.log = log])
  /\ UNCHANGED <<now, scene, entries, outcomes, issued>>

Insert(t) ==
  /\ tasks[t].at = "INSERT"
  /\ \E id \in scene.ids \ issued, evaluated \in BOOLEAN :
       LET log  == tasks[t].log
           snap == IF evaluated THEN log.snap ELSE [log.snap EXCEPT !.plan = Nothing, !.limit = Nothing]
           body == [fill |-> log.fill, snap |-> snap, dol |-> log.dol, synthetic |-> log.synthetic,
                    detected |-> IF log.fill = Nothing THEN {} ELSE Detect(log.fill, snap),
                    timing |-> Timing(log.kind, log.fill, tasks[t].asked)]
       IN  /\ entries' = Put(entries, id, [id |-> id, created |-> tasks[t].asked, kind |-> log.kind, symbol |-> log.symbol,
                                           record |-> body, hash |-> body])
           /\ issued' = issued \cup {id}
  /\ Done(t)
  /\ UNCHANGED <<now, scene, outcomes>>

-----------------------------------------------------------------------------
(* record_outcome and get begin with the entry, then read its outcomes.    *)
BeginRecord(t, id, report) ==
  /\ Cardinality(Revisions(id)) < scene.revisions
  /\ MayBegin(t) /\ report \in scene.reports
  /\ Become(t, [Begun("RECORD") EXCEPT !.at = "ENTRY", !.id = id, !.report = report])
  /\ UNCHANGED <<now, scene, entries, outcomes, issued>>

BeginGet(t, id) ==
  /\ MayBegin(t) /\ "GET" \in scene.jobs
  /\ Become(t, [Begun("GET") EXCEPT !.at = "ENTRY", !.id = id])
  /\ UNCHANGED <<now, scene, entries, outcomes, issued>>

ReadEntry(t) ==
  /\ tasks[t].at = "ENTRY"
  /\ IF tasks[t].id \in InDb
     THEN Become(t, [tasks[t] EXCEPT !.at = "OUTCOMES", !.row = entries[tasks[t].id]])
     ELSE Done(t)   \* JournalEntryNotFoundError
  /\ UNCHANGED <<now, scene, entries, outcomes, issued>>

(* An outcome is for a trade that is as it was written, and fits it.       *)
Accepted(view, report) == view.kind = "TRADE" /\ view.integrity = "VERIFIED" /\ Accepts(view.trade, report, now)

(* The second read.  It ends a get, and the get at the end of a recording; *)
(* a recording goes on with the candles, or is refused.                    *)
ReadOutcomes(t) ==
  /\ tasks[t].at = "OUTCOMES"
  /\ LET view == View(tasks[t].row, OutcomesOf(tasks[t].id))
     IN  IF tasks[t].job = "RECORD" /\ Accepted(view, tasks[t].report)
         THEN Become(t, [tasks[t] EXCEPT !.at = "CANDLES", !.asked = now, !.row = Nothing, !.views = <<view>>])
         ELSE Done(t)
  /\ UNCHANGED <<now, scene, entries, outcomes, issued>>

LoadCandles(t) ==
  /\ tasks[t].at = "CANDLES"
  /\ \E loads \in scene.loads :
       LET view == tasks[t].views[1]
           r    == tasks[t].report
       IN  Become(t, [tasks[t] EXCEPT !.at = "MAX", !.views = <<>>,
                        !.record = Outcome(view.trade, r, Extremes(view.trade, r, loads), view.detected)])
  /\ UNCHANGED <<now, scene, entries, outcomes, issued>>

NextRevision(id) == Max(Revisions(id) \cup {0}) + 1

(* insert_outcome reads the last revision, then inserts the next.          *)
ReadMax(t) ==
  /\ tasks[t].at = "MAX"
  /\ Become(t, [tasks[t] EXCEPT !.at = "COMMIT", !.revision = NextRevision(tasks[t].id)])
  /\ UNCHANGED <<now, scene, entries, outcomes, issued>>

(* Mutant: no unique constraint on entry and revision.                     *)
Overwrites(id, revision) == TRUE
Unique(id, revision) == <<id, revision>> \notin DOMAIN outcomes

(* A key that is taken, or an entry that is gone where foreign keys are    *)
(* enforced, fails the transaction; without them the row stays an orphan.  *)
Commit(t) ==
  /\ tasks[t].at = "COMMIT"
  /\ LET id  == tasks[t].id
         rev == tasks[t].revision
     IN  IF Unique(id, rev) /\ (id \in InDb \/ ~scene.foreignKeys)
         THEN /\ outcomes' = Put(outcomes, <<id, rev>>, [at |-> tasks[t].asked, record |-> tasks[t].record, hash |-> tasks[t].record])
              /\ Become(t, [tasks[t] EXCEPT !.at = "ENTRY", !.job = "ANSWER"])
         ELSE Done(t) /\ UNCHANGED outcomes
  /\ UNCHANGED <<now, scene, entries, issued>>

-----------------------------------------------------------------------------
(* export: page by page, each page's outcomes after it; a list is a page.  *)
BeginExport(t) ==
  /\ MayBegin(t) /\ "EXPORT" \in scene.jobs
  /\ Become(t, [Begun("EXPORT") EXCEPT !.at = "PAGE"])
  /\ UNCHANGED <<now, scene, entries, outcomes, issued>>

ReadPage(t) ==
  /\ tasks[t].at = "PAGE"
  /\ LET page == Page(tasks[t].cursor)
     IN  Become(t, [tasks[t] EXCEPT !.at = "PAGE_OUTCOMES", !.rows = page.rows, !.cursor = page.cursor])
  /\ UNCHANGED <<now, scene, entries, outcomes, issued>>

Exported(t) ==
  tasks[t].views \o [i \in DOMAIN tasks[t].rows |-> View(tasks[t].rows[i], OutcomesOf(tasks[t].rows[i].id))]

ReadPageOutcomes(t) ==
  /\ tasks[t].at = "PAGE_OUTCOMES"
  /\ IF tasks[t].cursor = Nothing THEN Done(t)
     ELSE Become(t, [tasks[t] EXCEPT !.at = "PAGE", !.rows = <<>>, !.views = Exported(t)])
  /\ UNCHANGED <<now, scene, entries, outcomes, issued>>

-----------------------------------------------------------------------------
(* delete_entry: one transaction.                                          *)
Delete(id) ==
  /\ "DELETE" \in scene.jobs /\ id \in InDb
  /\ entries' = Restrict(entries, InDb \ {id})
  /\ outcomes' = Restrict(outcomes, {k \in DOMAIN outcomes : k[1] # id})
  /\ tasks' = [t \in Tasks |-> [tasks[t] EXCEPT !.there = @ \ {id}, !.closed = @ \ {id}]]
  /\ UNCHANGED <<now, scene, issued>>

(* A row is changed behind the journal's back.                             *)
Edit ==
  /\ "EDIT" \in scene.jobs
  /\ Cardinality({id \in InDb : entries[id].record = Forged})
     + Cardinality({k \in DOMAIN outcomes : outcomes[k].record = Forged}) < scene.edits
  /\ \/ /\ \E id \in InDb : entries' = [entries EXCEPT ![id].record = Forged]
        /\ UNCHANGED outcomes
     \/ /\ \E k \in DOMAIN outcomes : outcomes' = [outcomes EXCEPT ![k].record = Forged]
        /\ UNCHANGED entries
  /\ UNCHANGED <<now, scene, issued, tasks>>

(* The process stops; the database stays.                                  *)
Crash ==
  /\ "CRASH" \in scene.jobs /\ \E t \in Tasks : tasks[t] # Idle
  /\ tasks' = [t \in Tasks |-> Idle]
  /\ UNCHANGED <<now, scene, entries, outcomes, issued>>

Tick ==
  /\ now < scene.ticks
  /\ now' = now + 1
  /\ UNCHANGED <<scene, entries, outcomes, issued, tasks>>

Next ==
  \/ \E t \in Tasks :
       \/ \E log \in scene.logs : BeginCreate(t, log)
       \/ Insert(t)
       \/ \E id \in issued, report \in scene.reports : BeginRecord(t, id, report)
       \/ \E id \in issued : BeginGet(t, id)
       \/ ReadEntry(t)
       \/ ReadOutcomes(t)
       \/ LoadCandles(t)
       \/ ReadMax(t)
       \/ Commit(t)
       \/ BeginExport(t)
       \/ ReadPage(t)
       \/ ReadPageOutcomes(t)
  \/ \E id \in issued : Delete(id)
  \/ Edit
  \/ Crash
  \/ Tick

Spec == Init /\ [][Next]_vars

-----------------------------------------------------------------------------
(* A trade as it is entered, and the entry that was written of a request.  *)
IsTrade(fill) ==
  /\ fill.direction \in Directions /\ {fill.entry, fill.opened} \subseteq Int
  /\ fill.stop \in Int \cup {Nothing} /\ fill.targets \subseteq Int /\ Sides(fill)
IsEntry(id, e) ==
  /\ DOMAIN e = {"id", "created", "kind", "symbol", "record", "hash"}
  /\ e.id = id /\ e.created \in Times /\ e.kind \in Kinds
  /\ (e.kind = "TRADE" <=> e.hash.fill # Nothing)
  /\ e.kind = "TRADE" => IsTrade(e.hash.fill) /\ e.hash.detected \subseteq Detectable

Columns == {"at", "record", "hash"}

(* Rows are well formed, revisions start at 1 without gaps, and a request  *)
(* is about to commit the next of them or one that is taken.               *)
TypeOK ==
  /\ now \in 0 .. scene.ticks
  /\ InDb \subseteq issued /\ issued \subseteq Ids
  /\ \A id \in InDb : IsEntry(id, entries[id])
  /\ \A k \in DOMAIN outcomes :
       DOMAIN outcomes[k] = Columns /\ k[1] \in issued /\ (k[1] \in InDb => k[2] \in 1 .. Cardinality(Revisions(k[1])))
  /\ \A t \in Tasks : tasks[t].at = "COMMIT" /\ tasks[t].id \in InDb =>
       tasks[t].revision \in 1 .. Cardinality(Revisions(tasks[t].id)) + 1

(* The metrics of a stored outcome agree with one another: the extremes    *)
(* enclose entry and exit, so that the efficiencies are between 0 and 1;   *)
(* the result is a win exactly where the process class is one; a trade     *)
(* without a violation found or reported has a valid class.                *)
AddsUp(o, detected) ==
  /\ o.duration > 0
  /\ o.mfe # Nothing => o.mfe >= 0 /\ o.mfe >= o.pnl
  /\ o.mae # Nothing => o.mae <= 0 /\ o.mae <= o.pnl
  /\ (o.source = "UNAVAILABLE" <=> o.mfe = Nothing) /\ (o.mfe = Nothing <=> o.mae = Nothing)
  /\ detected \subseteq o.violations /\ o.classification \in Classifications
  /\ (o.violations = {} <=> o.classification \in {"VALID_WIN", "VALID_LOSS"})
  /\ o.result \in {"FULL_WIN", "PARTIAL_WIN"} => o.classification \in Wins
  /\ o.result \in {"BREAK_EVEN", "PARTIAL_LOSS", "FULL_LOSS"} => o.classification \notin Wins
  /\ o.result = "FULL_LOSS" => o.pnl < 0 /\ o.risk # Nothing

(* What is asked for is well formed, and the rows there are at the start   *)
(* are as the journal writes them.                                         *)
ASSUME ScenesAssumption ==
  /\ Nothing \notin Int \cup (Int \X Int) /\ MaxTime \in Nat /\ PageSize \in Nat \ {0} /\ Ids \subseteq Int
  /\ \A s \in Scenes :
       /\ s.ids \subseteq Ids /\ s.ticks \in Times
       /\ \A log \in s.logs : log.kind \in Kinds /\ (log.kind = "TRADE" <=> log.fill # Nothing)
                             /\ (log.kind = "TRADE" => IsTrade(log.fill))
       /\ \A r \in s.reports : {r.exit, r.exited} \subseteq Int /\ {r.mfe, r.mae} \subseteq Int \cup {Nothing}
                                /\ r.reported \subseteq Violations
       /\ \A loads \in s.loads : DOMAIN loads \subseteq Nat /\ \A i \in DOMAIN loads :
            loads[i].is = "COVERS" => {loads[i].high, loads[i].low} \subseteq Int
       /\ LET db  == s.stored
              Of(id) == {k[2] : k \in {j \in DOMAIN db.outcomes : j[1] = id}}
          IN  /\ IsFiniteSet(DOMAIN db.entries)
              /\ DOMAIN db.entries \subseteq Ids /\ \A id \in DOMAIN db.entries : IsEntry(id, db.entries[id])
              /\ IsFiniteSet(DOMAIN db.outcomes) /\ DOMAIN db.outcomes \subseteq (DOMAIN db.entries) \X Nat
              /\ \A id \in DOMAIN db.entries : Of(id) = 1 .. Cardinality(Of(id))
              /\ \A k \in DOMAIN db.outcomes : DOMAIN db.outcomes[k] = Columns
              /\ \A k \in DOMAIN db.outcomes : AddsUp(db.outcomes[k].hash, db.entries[k[1]].hash.detected)

(* The metrics of every outcome of an entry agree with one another and     *)
(* with what was found wrong when it was logged, whatever else is going on *)
(* when it is recorded.                                                    *)
OutcomesAddUp ==
  TypeOK /\ \A k \in DOMAIN outcomes : k[1] \in InDb => AddsUp(outcomes[k].hash, entries[k[1]].hash.detected)

(* The journal implements the append-only ledger: what was written, as its *)
(* hash has it, is never rewritten; revisions are appended one by one      *)
(* whatever two recordings do; a deleted entry goes with its outcomes.     *)
Pages(id) == [p \in {0} \cup Revisions(id) |-> IF p = 0 THEN entries[id].hash ELSE outcomes[<<id, p>>].hash]
Ledger == INSTANCE JournalLedger WITH ledger <- [id \in InDb |-> Pages(id)], gone <- issued \ InDb
LedgerIsKept == Ledger!Spec

Ends(t, at) == tasks[t].at = at /\ tasks'[t].at = "IDLE"

(* An answer is true although it was put together from several reads.  A   *)
(* recorded outcome is in its answer, and what had outcomes when the       *)
(* request began is not shown open, unless it was deleted meanwhile.  An   *)
(* export has every entry that was there all along, and none twice.        *)
RepliesAreTrue ==
  [][\A t \in Tasks :
       /\ Ends(t, "OUTCOMES") =>
            LET view == View(tasks[t].row, OutcomesOf(tasks[t].id))
            IN  /\ tasks[t].job = "ANSWER" /\ tasks[t].id \in tasks[t].there =>
                     \E o \in Range(view.revisions) : o.revision = tasks[t].revision /\ o.record \in {tasks[t].record, Forged}
                /\ view.id \in tasks[t].closed => view.status = "CLOSED"
       /\ (Ends(t, "PAGE_OUTCOMES") /\ tasks[t].cursor = Nothing) =>
            LET views == Exported(t)
            IN  /\ tasks[t].there \subseteq {v.id : v \in Range(views)}
                /\ \A i, j \in DOMAIN views : i # j => views[i].id # views[j].id
                /\ \A v \in Range(views) : v.id \in tasks[t].closed => v.status = "CLOSED"]_vars

(* The report over an export counts only closed trades all of whose rows   *)
(* are as written; wins, losses and break-evens make up the samples; the   *)
(* drawdown is the widest fall of the curve from any earlier point, and is *)
(* recovered, if it is, after its trough; a curve keeps its end.           *)
WidestFall(curve) ==
  LET At(i) == IF i = 0 THEN 0 ELSE curve[i]
  IN  Max({0} \cup UNION {{At(i) - At(j) : i \in 0 .. j} : j \in DOMAIN curve})
ReportAddsUp ==
  [][\A t \in Tasks : (Ends(t, "PAGE_OUTCOMES") /\ tasks[t].cursor = Nothing) =>
       \A symbol \in {Nothing} \cup {v.symbol : v \in Range(Exported(t))}, synthetic \in BOOLEAN :
         LET views == Exported(t)
             r     == Report(views, symbol, synthetic)
             stats == GroupStats(r.samples)
             curve == Curve(r.samples)
             d     == Drawdown(curve)
             dol   == DolAccuracy(r.samples)
         IN  /\ \A s \in r.samples : \E v \in Range(views) :
                  /\ v.id = s.id /\ v.integrity = "VERIFIED" /\ v.revisions # <<>>
                  /\ \A o \in Range(v.revisions) : o.record # Forged
             /\ Cardinality(r.samples) + r.filtered + r.decisions + r.tampered + r.notClosed + r.synthetic = Len(views)
             /\ stats.losses >= 0 /\ stats.wins + stats.losses + stats.breakeven = Cardinality(r.samples)
             /\ d.worst = WidestFall(curve)
             /\ d.recovered # Nothing => d.recovered > d.trough /\ curve[d.recovered] >= d.peak
             /\ dol.reached <= dol.evaluated /\ dol.evaluated <= dol.aligned
             /\ curve # <<>> => Last(Downsample(curve)) = Last(curve)]_vars
=============================================================================
