---------------------------- MODULE BacktestRuns ----------------------------
(***************************************************************************)
(* The backtest service (services/backtest/service.py and store.py): one   *)
(* process runs research jobs in background tasks.  A request is cut where *)
(* the code awaits: what stands between two awaits is one step, and a call *)
(* of the store is a step of its own.  What a run computes on the way is   *)
(* BacktestTrades'.                                                        *)
(***************************************************************************)
EXTENDS BacktestTrades

CONSTANTS
  Runs,   \* the run ids that can be drawn
  None,   \* no row; nothing running
  Markets \* a history, as in BacktestTrades, for each range a run may ask for

ASSUME RunsAssumption ==
  /\ None \notin Runs
  /\ \A i \in DOMAIN Markets :
       Len(Markets[i].steps) \in Nat /\ Len(Markets[i].variants) \in Nat \ {0}

(* A plan has its stop behind the entry and its target ahead of it         *)
(* (entry/plan.py:40-49); a range is of 14 days at most, so the loads get  *)
(* all of its bars (backtest.json, backtest/service.py:179).               *)
SoundBar(bar) == {bar.at, bar.open, bar.high, bar.low} \subseteq Int /\ bar.low <= bar.open /\ bar.open <= bar.high
SoundPlan(plan) ==
  /\ plan.side \in {-1, 1} /\ {plan.entry, plan.stop, plan.tp1, plan.at} \subseteq Int
  /\ plan.side * (plan.entry - plan.stop) > 0 /\ plan.side * (plan.tp1 - plan.entry) > 0
SoundSetup(setup) == setup.id \in STRING /\ (setup.plan = Nothing \/ SoundPlan(setup.plan))
SoundStep(step) ==
  /\ step.eligible \in BOOLEAN /\ step.close \in Int /\ step.setups \in Seq(Range(step.setups))
  /\ \A i \in 1 .. Len(step.setups) : SoundSetup(step.setups[i])
Ordered(steps) == \A i, j \in 1 .. Len(steps) : i < j => steps[i].close < steps[j].close

(* None is neither a number nor a position.                                *)
Maybe == Int \cup {Nothing}
Sims ==
  [status : P!Statuses, pending : Nat, fill : Maybe, filled : Maybe, exit : Maybe, exited : Maybe,
   reason : P!Reasons, ambiguous : BOOLEAN, best : Maybe, worst : Maybe, thru : Maybe]
Orders == [side : {-1, 1}, limit : Int, stop : Int, target : Int, created : Int, half : Int, slip : Int]
Positions == [setup : STRING, params : Orders, sim : Sims]

ASSUME HistoryAssumption ==
  /\ {ExpiryBars, MaxLimit, MaxLoads, SetupBars} \subseteq Nat \ {0} /\ Nothing \notin Int \cup Positions
  /\ \A i \in DOMAIN Markets : LET m == Markets[i] IN
       /\ IsFiniteSet(m.stored) /\ \A b \in m.stored : SoundBar(b)
       /\ \A b, c \in m.stored : b.at = c.at => b = c
       /\ {m.start, m.end} \subseteq Int /\ Cardinality(InRange(m)) <= MaxLimit * MaxLoads
       /\ m.steps \in Seq(Range(m.steps)) /\ Ordered(m.steps)
       /\ \A k \in 1 .. Len(m.steps) : SoundStep(m.steps[k]) /\ m.steps[k].close \in m.start .. m.end
       /\ {m.costs.half, m.costs.slip, m.costs.commission} \subseteq Int
       /\ \A k \in 1 .. Len(m.variants) : m.variants[k] \in Int
       /\ m.segments \in Nat \ {0} /\ m.outOfSample \in Int

Ended  == {"COMPLETED", "FAILED", "CANCELLED"}
ACTIVE == {"QUEUED", "RUNNING"}

VARIABLES
  range,     \* the range that is asked for
  rows,      \* backtest_runs
  drawn,     \* ids already given to a run
  running,   \* BacktestService._running
  cancel,    \* BacktestService._cancel
  start,     \* where the start request of r is: checked, inserted or nothing
  task,      \* where the background task of r is
  done,      \* the candles it has replayed, of all variants
  replay,    \* its bars, its current variant, the summaries of the others
  asked,     \* the status a cancel request of r has read, or None
  deleting   \* the runs a delete request has checked and not yet deleted

vars == <<range, rows, drawn, running, cancel, start, task, done, replay, asked, deleting>>

market == Markets[range]

(* The candles of a run; per variant, each candle that closes by the end.  *)
Candles == Len(market.steps)
Steps   == Candles * Len(market.variants)

(* hashed: the result and its hash are stored, in the same update.         *)
Queued == [status |-> "QUEUED", done |-> 0, hashed |-> FALSE, result |-> <<>>]

work == <<range, done, replay>>

NoReplay == [bars |-> <<>>, run |-> Fresh, results |-> <<>>]

Init ==
  /\ range \in DOMAIN Markets
  /\ rows = [r \in Runs |-> None]
  /\ drawn \in SUBSET Runs /\ running = None /\ cancel = {} /\ deleting = {}
  /\ start = [r \in Runs |-> "none"]
  /\ task = [r \in Runs |-> "none"]
  /\ done = [r \in Runs |-> 0]
  /\ replay = [r \in Runs |-> NoReplay]
  /\ asked = [r \in Runs |-> None]

(* Mutant: the guard of the SQL update is dropped.                         *)
AnyRow(r) == rows[r] # None

(* update: only a row that exists and has no result hash is written.       *)
Writable(r) == rows[r] # None /\ ~rows[r].hashed

Update(r, row) == rows' = [rows EXCEPT ![r] = IF Writable(r) THEN row ELSE @]

(* Mutant: what the row says.                                              *)
AsStored(r, status) == status

(* _build: an active row that is not the running one reads as FAILED.      *)
Reported(r, status) == IF status \in ACTIVE /\ r # running THEN "FAILED" ELSE status

-----------------------------------------------------------------------------
(* start: the check, the insert in a worker thread, the ownership.         *)
StartChecks(r) ==
  /\ r \notin drawn
  /\ running = None
  /\ drawn' = drawn \cup {r}
  /\ start' = [start EXCEPT ![r] = "checked"]
  /\ UNCHANGED <<rows, running, cancel, task, work, asked, deleting>>

StartInserts(r) ==
  /\ start[r] = "checked"
  /\ rows' = [rows EXCEPT ![r] = Queued]
  /\ start' = [start EXCEPT ![r] = "inserted"]
  /\ UNCHANGED <<drawn, running, cancel, task, work, asked, deleting>>

StartFails(r) ==
  /\ start[r] \in {"checked", "inserted"}
  /\ start' = [start EXCEPT ![r] = "none"]
  /\ UNCHANGED <<rows, drawn, running, cancel, task, work, asked, deleting>>

StartOwns(r) ==
  /\ start[r] = "inserted"
  /\ start' = [start EXCEPT ![r] = "none"]
  /\ running' = r
  /\ task' = [task EXCEPT ![r] = "begin"]
  /\ UNCHANGED <<rows, drawn, cancel, work, asked, deleting>>

-----------------------------------------------------------------------------
(* _execute.  An exception is raised between two awaits and looks at the   *)
(* cancel set at once; the store call of the except block comes later.     *)
Raised(r) == IF r \in cancel THEN "cancelled" ELSE "failed"

TaskAt(r, pc) == task' = [task EXCEPT ![r] = pc]

(* A step that ends in a store call: the call may raise, and a call that   *)
(* raises may have committed.                                              *)
Stores(r, row, pc) ==
  \/ Update(r, row) /\ TaskAt(r, pc)
  \/ (Update(r, row) \/ UNCHANGED rows) /\ TaskAt(r, Raised(r))

Others == UNCHANGED <<range, drawn, running, cancel, start, asked, deleting>>

Begin(r) ==
  /\ task[r] = "begin"
  /\ Stores(r, [rows[r] EXCEPT !.status = "RUNNING"], "load")
  /\ UNCHANGED done /\ Others

(* The history of the range: its setup candles and its bars.  None of one, *)
(* or a history that is withheld, ends the run.                            *)
Loads(r) ==
  /\ task[r] = "load"
  /\ \/ Candles > 0 /\ InRange(market) # {} /\ TaskAt(r, "work")
     \/ TaskAt(r, Raised(r))
  /\ UNCHANGED <<rows, done>> /\ Others

(* A candle of the replay: the cancel set is looked at first.              *)
CancelSeen(r) ==
  /\ task[r] = "work" /\ r \in cancel
  /\ TaskAt(r, "cancelled")
  /\ UNCHANGED <<rows, done>> /\ Others

LastCandle(n) == n = Steps

(* Progress is stored on some candles and on the last of each variant.     *)
Step(r) ==
  /\ task[r] = "work" /\ r \notin cancel
  /\ done' = [done EXCEPT ![r] = @ + 1]
  /\ IF LastCandle(done'[r]) THEN Stores(r, [rows[r] EXCEPT !.done = done'[r]], "complete")
     ELSE \/ Stores(r, [rows[r] EXCEPT !.done = done'[r]], "work")
          \/ done'[r] % Candles # 0 /\ UNCHANGED <<rows, task>>
  /\ Others

Completed(r) ==
  [rows[r] EXCEPT !.status = "COMPLETED", !.done = Steps, !.hashed = TRUE, !.result = replay[r].results]

Complete(r) ==
  /\ task[r] = "complete"
  /\ Stores(r, Completed(r), "clean")
  /\ UNCHANGED done /\ Others

(* The except block; its own store call may fail.                          *)
Record(r) ==
  /\ task[r] \in {"failed", "cancelled"}
  /\ \/ Update(r, [rows[r] EXCEPT !.status = IF task[r] = "failed" THEN "FAILED" ELSE "CANCELLED"])
     \/ UNCHANGED rows
  /\ TaskAt(r, "clean")
  /\ UNCHANGED done /\ Others

(* Mutant: the finally block forgets the cancel request.                   *)
OnlyRunning(r) == running' = None /\ UNCHANGED cancel

Released(r) == running' = None /\ cancel' = cancel \ {r}

Clean(r) ==
  /\ task[r] = "clean"
  /\ Released(r)
  /\ TaskAt(r, "none")
  /\ done' = [done EXCEPT ![r] = 0]
  /\ UNCHANGED <<range, rows, drawn, start, asked, deleting>>

(* The n-th candle, the first of a variant starting from nothing.  After   *)
(* its last candle a variant is summarised and the next one begins.        *)
Replayed(w, n) ==
  LET variant == 1 + ((n - 1) \div Candles)
      candle  == 1 + ((n - 1) % Candles)
      costs   == Costs(market, market.variants[variant])
      run     == ReplayStep(w.run, w.bars, market.steps[candle], costs)
  IN  IF candle < Candles THEN [w EXCEPT !.run = run]
      ELSE [w EXCEPT !.run = Fresh,
                     !.results = Append(@, Summary(ReplayEnd(run, w.bars, market.end, costs), market))]

(* What a step of the task does to its replay.                             *)
Replays(r) ==
  replay' = [replay EXCEPT ![r] =
    IF task[r] = "load" /\ task'[r] = "work" THEN [@ EXCEPT !.bars = Load(market)]
    ELSE IF done'[r] > done[r] THEN Replayed(@, done'[r])
    ELSE IF task[r] = "clean" THEN NoReplay ELSE @]

-----------------------------------------------------------------------------
(* cancel: reads the row in a thread, then judges what it read.            *)
CancelReads(r) ==
  /\ rows[r] # None /\ asked[r] = None
  /\ asked' = [asked EXCEPT ![r] = rows[r].status]
  /\ UNCHANGED <<rows, drawn, running, cancel, start, task, work, deleting>>

CancelMarks(r) ==
  /\ asked[r] # None
  /\ cancel' = IF Reported(r, asked[r]) \in ACTIVE THEN cancel \cup {r} ELSE cancel
  /\ asked' = [asked EXCEPT ![r] = None]
  /\ UNCHANGED <<rows, drawn, running, start, task, work, deleting>>

(* delete: the check, then the row in a thread.                            *)
DeleteChecks(r) ==
  /\ rows[r] # None /\ r # running
  /\ deleting' = deleting \cup {r}
  /\ UNCHANGED <<rows, drawn, running, cancel, start, task, work, asked>>

Deletes(r) ==
  /\ r \in deleting
  /\ rows' = [rows EXCEPT ![r] = None]
  /\ deleting' = deleting \ {r}
  /\ UNCHANGED <<drawn, running, cancel, start, task, work, asked>>

(* The process stops and starts again: only the rows are left.             *)
Restart ==
  /\ \E r \in Runs : start[r] # "none" \/ task[r] # "none"
  /\ running' = None /\ cancel' = {} /\ deleting' = {}
  /\ start' = [r \in Runs |-> "none"]
  /\ task' = [r \in Runs |-> "none"]
  /\ asked' = [r \in Runs |-> None]
  /\ done' = [r \in Runs |-> 0]
  /\ replay' = [r \in Runs |-> NoReplay]
  /\ UNCHANGED <<range, rows, drawn>>

Execute(r) ==
  Begin(r) \/ Loads(r) \/ CancelSeen(r) \/ Step(r) \/ Complete(r) \/ Record(r) \/ Clean(r)

Next ==
  \/ \E r \in Runs :
       \/ StartChecks(r) \/ StartInserts(r) \/ StartFails(r) \/ StartOwns(r)
       \/ Execute(r) /\ Replays(r)
       \/ CancelReads(r) \/ CancelMarks(r) \/ DeleteChecks(r) \/ Deletes(r)
  \/ Restart

(* The event loop runs every task that is ready.                           *)
Fairness == \A r \in Runs : WF_<<task, done, rows, running, cancel>>(Execute(r))

Spec == Init /\ [][Next]_vars /\ Fairness

-----------------------------------------------------------------------------
(* Properties *)

Executing == {r \in Runs : task[r] # "none"}

TypeOK ==
  /\ \A r \in Runs : rows[r] = None \/
       /\ rows[r].status \in ACTIVE \cup Ended /\ rows[r].done \in 0 .. Steps
       /\ rows[r].hashed = (rows[r].result # <<>>)
  /\ drawn \subseteq Runs /\ deleting \subseteq Runs
  /\ running \in Runs \cup {None}
  /\ start \in [Runs -> {"none", "checked", "inserted"}]
  /\ task \in [Runs -> {"none", "begin", "load", "work", "complete", "failed", "cancelled", "clean"}]
  /\ done \in [Runs -> 0 .. Steps]
  /\ asked \in [Runs -> ACTIVE \cup Ended \cup {None}]

(* What the service holds in memory is about a task that is alive: nobody   *)
(* owns the service, and no id waits in the cancel set, without one.        *)
MemoryIsLive == TypeOK /\ running \in Executing \cup {None} /\ cancel \subseteq Executing

(* A completed result is never rewritten, whatever fails after it is        *)
(* stored: its row can only be deleted.  A row says CANCELLED only after an *)
(* accepted cancel, COMPLETED only with all its candles done, and each only *)
(* once.                                                                    *)
EndIsHonest ==
  [][\A r \in Runs : rows[r] # None =>
       /\ rows[r].hashed => rows'[r] \in {rows[r], None}
       /\ rows'[r] # None /\ rows[r].status # rows'[r].status =>
            /\ rows[r].status \in ACTIVE
            /\ rows'[r].status = "CANCELLED" => r \in cancel
            /\ rows'[r].status = "COMPLETED" => rows'[r].hashed /\ done[r] = Steps]_vars

(* Every task ends, whatever fails, and leaves the service free of it: its  *)
(* run is then reported as ended.                                           *)
EveryRunEnds ==
  \A r \in Runs : task[r] # "none" ~> (task[r] = "none" /\ running # r /\ r \notin cancel)

-----------------------------------------------------------------------------
(* What a plan comes to: the first bar at which its order is filled, if    *)
(* that is one of the first ExpiryBars after the plan, and the first bar   *)
(* from there that closes it, told from every bar of the range at once.    *)
Ahead(m, p) == {b \in m.stored : b.at >= p.created /\ P!CloseOf(b) <= m.end}
Nth(bars, bar) == Cardinality({b \in bars : b.at <= bar.at})
Earliest(bars) == CHOOSE b \in bars : \A c \in bars : b.at <= c.at

Fills(m, p) == {b \in Ahead(m, p) : Nth(Ahead(m, p), b) <= ExpiryBars /\ P!Seen(p, b).entry # "none"}
How(p, bar, fill) == P!ExitReason(P!Seen(p, bar), bar = fill /\ P!Seen(p, bar).entry = "touch")
Closes(m, p) ==
  {b \in Ahead(m, p) : Fills(m, p) # {} /\ Earliest(Fills(m, p)).at <= b.at /\ How(p, b, Earliest(Fills(m, p))) # "none"}
Expires(m, p) == Fills(m, p) = {} /\ Cardinality(Ahead(m, p)) >= ExpiryBars

Expected(m, p) ==
  LET fill == Earliest(Fills(m, p))
      exit == Earliest(Closes(m, p))
  IN  [status |-> IF Closes(m, p) # {} THEN "CLOSED" ELSE IF Expires(m, p) THEN "EXPIRED" ELSE "OPEN_AT_END",
       filled |-> IF Fills(m, p) = {} THEN Nothing ELSE fill.at,
       over   |-> IF Closes(m, p) # {} THEN P!CloseOf(exit)
                  ELSE IF Expires(m, p) THEN P!CloseOf(CHOOSE b \in Ahead(m, p) : Nth(Ahead(m, p), b) = ExpiryBars)
                  ELSE m.end + 1,
       reason |-> IF Closes(m, p) = {} THEN "none" ELSE How(p, exit, fill)]

Took(t) == t.status # "SKIPPED_OVERLAP"

(* What a trade that was taken must say of its plan.                       *)
TellsTrue(m, t) ==
  LET told == Expected(m, t.params)
  IN  /\ t.status = told.status /\ t.filled = told.filled /\ t.reason = told.reason
      /\ t.status = "CLOSED" =>
           /\ t.exited = told.over
           /\ P!AtLeast(t.params, t.params.limit, t.fill)
           /\ ~P!AtLeast(t.params, t.params.stop, t.entry)
           /\ ~P!AtLeast(t.params, t.entry, t.params.target)

(* A stored result tells of every trade what the paper engine makes of its *)
(* plan over the bars of the range: however the bars were loaded in chunks *)
(* and handed over a candle at a time, none is lost, used twice, used      *)
(* before the plan was there or left from the variant before.  The engine  *)
(* with prices and the one without, which PaperTrading runs, agree, and    *)
(* what a closed trade is measured from lies between its stop and target.  *)
TradesAreReplayed ==
  \A r \in Runs : rows[r] # None => \A result \in Range(rows[r].result) : \A t \in Range(result.trades) :
     Took(t) => TellsTrue(market, t)

(* The plans that a step of the replay can act on, and when.               *)
PlansIn(m) ==
  UNION {{<<s.id, step.close>> : s \in {x \in Range(step.setups) : ConfirmedNow(x.plan, step.close)}} :
           step \in {x \in Range(m.steps) : x.eligible}}

CountAll(groups) == FoldLeft(LAMBDA n, s : n + s.count, 0, groups)

(* What a result must say of the plans.                                    *)
Accounted(m, result) ==
  LET trades == Range(result.trades)
      f      == result.funnel
  IN  /\ Len(result.trades) = Cardinality(PlansIn(m)) /\ {<<t.setup, t.at>> : t \in trades} = PlansIn(m)
      /\ \A t \in trades :
           ~Took(t) <=> \E u \in trades \ {t} : Took(u) /\ u.at <= t.at /\ t.at < Expected(m, u.params).over
      /\ f.confirmed = Len(result.trades) /\ f.confirmed = f.skipped + f.expired + f.closed + f.openAtEnd
      /\ f.fills = Cardinality({t \in trades : t.fill # Nothing})
      /\ result.stats.count = f.closed
      /\ f.closed = CountAll(result.segments)
      /\ f.closed = result.inSample.count + result.outOfSample.count

(* Every plan that a step could act on is one trade of each variant, and   *)
(* no other plan is: it is skipped exactly when an order taken before was  *)
(* not over yet, and the funnel counts each of them once.  The segments     *)
(* divide the closed trades, and so do the two samples.                    *)
PlansAreAccounted ==
  \A r \in Runs : rows[r] # None => \A result \in Range(rows[r].result) : Accounted(market, result)
=============================================================================
