# Verification of the Forex & Metals Command Center

This directory holds TLA+ modules, TLC configurations and TLAPS proofs for the
back end of the Forex & Metals Command Center
(`src/forex-metals-command-center`), a decision-support service that reads
candles, analyses them, follows setups, simulates trades on paper, backtests,
replays history and alerts, and places no orders.  Paths below are relative to
`src/forex-metals-command-center/`; `APP` is `services/api/app`, `SVC` is
`APP/services`, and the phase documents are `docs/phases/PHASE_N.md`.

Every definition is translated from the Python sources; `PROJECT.json` ("map")
names the lines each stands for.

1. The system and its components
2. The modules and how they correspond to the code
3. The runs: what each checks, its bounds, what it shows
4. Fairness
5. What is proved
6. What disagrees with the documents
7. What is not modelled
8. The plan

## 1. The system

One process runs everything: a FastAPI application on one asyncio loop
(`APP/main.py`).  Its lifespan starts the alert monitor
(`alerts.run_forever`), the paper monitor (`paper.run_forever`) and a cache
warmer; requests are handlers on the same loop.  A handler can be interrupted
only at an `await`; store calls and pure computations of the research services
are sent to worker threads (`asyncio.to_thread`), which is an await as well.  So
the unit of atomicity is *the code between two awaits*, and that is what one
TLA+ action is in the concurrent modules.  State that must survive a restart is
in SQLite, written in single transactions; all other state is lost.

| component | state it keeps | operations | what is hard | what makes it correct |
|---|---|---|---|---|
| **Paper trading** `SVC/paper` | tables of sims and events; one asyncio lock | create, advance (monitor and reads), close, cancel, delete | monitor, reads, close, cancel and delete interleave; loads and stores fail; restarts between simulate and store; gaps in the feed | a stored sim is what one pass over the bars gives; its timeline is append-only and agrees with its status; every active sim is brought up to date |
| **Setup machine** `SVC/setup_state`, `SVC/entry` | one open setup, its event chain, windows | one pass over closed candles | several transitions on one candle; four windows counted from different candles; guards whose order is a flag | allowed transitions only; no setup outlives its windows; a plan is earned and its stop is beyond the sweep |
| **Backtests** `SVC/backtest` | table of runs; `_running`, `_cancel` in memory | start, load, replay, summarise, progress, cancel, delete | check-then-await; a store call that raises after its commit; cancel of a task that is ending; bars loaded backwards in overlapping chunks and handed over a candle at a time | results are final and tell of every plan what the bars say; the service becomes free again |
| **Replay** `SVC/replay` | sessions in memory, cursor, open question; a lock | create, step, answer, end, delete, expire, view | views are computed without the lock over two awaits while answers move the cursor | no look-ahead; a question does not show its answer; grading once; the session cap |
| **Alerts** `SVC/alerts` | ring of alerts with cooldowns, last snapshot per symbol, ready watches | monitor loop, derive, add and remove watch, feed | what is "new" is decided against the last snapshot, which may be empty or taken in an outage; watches change between the two reads of a symbol | an event is told once, every alert has its cause, no symbol and no watch is forgotten |
| **Master decision** `SVC/market_state` | last decision per symbol | evaluate (stages that each may raise) | a failing stage must not open the gate | no directional verdict without authority and without every gate clear |
| **Scoring and evaluation** `SVC/scoring` | none | eligibility, points, adjustments, conflict, confidence, outcome | one fact counts in several places | the outcome follows the blockers; better evidence never scores worse |
| **Macro context** `SVC/macro` | none | trend of each driver, correlation, fallbacks, surprises, state and bias | stale and missing series; scores that land on thresholds | what is stale counts for nothing; what supports one side is in conflict with the other |
| **News gate** `SVC/news` | calendar cache | windows and coverage around events | failure of the calendar; overlapping windows | no calendar means blocked, never clear |
| **Risk gate** `SVC/risk` | profile file, cached by mtime and size | budget, locks, sizing | the file is written by hand and late; positions carried over a day or week change | losses and open risk stay within every limit; no valid profile means locked |
| **Trade journal** `SVC/journal` | entries, outcome revisions, hashes | log, record an outcome, read, export, delete | two revisions at once; a delete between read and write; answers put together from several transactions; rows edited in the database | an append-only ledger; answers that were true; outcomes whose numbers agree |
| **Analytics** `SVC/analytics` | none | report over an export | small and unverified samples | only intact trades count, and the groups add up |
| **Market data providers** `APP/providers` | token, account, routes, bar and quote cache; a lock and a rate gate | get quote, get bars, log in, renew, warm | every request may fail; a token expires while tasks wait; the cache serves old bars in an outage | what is shown is sound and final; the feed comes back |
| **Candle series** `SVC/candles`, `SVC/data_quality`, `SVC/timeframes` | none | screen, deduplicate, aggregate, rate, withhold | partial buckets, future bars, gaps | nothing open or invalid is shown as closed |
| **Market structure, liquidity, PD arrays, no-wick, sessions** | none: made anew from the closed candles | scan | facts that are known candles after their own; zones and pools that change state on every candle | each analysis is right about its candles, and the next keeps what it told |
| **Analysis pipeline** `SVC/analysis` | none | runs the engines in order; each stage may fail | stages fail independently, later ones use earlier ones | a missing stage never looks like an empty one |
| **Reversal setups** `SVC/reversal` | none | origins of higher timeframes walked over the decision timeframe | the past is walked with the pools of now | plans are sound; what was told stays told (it does not: section 6) |
| Setup service, scanner, assistant, replay questions, event bus, repository, HTTP API, web | see section 7 | | | |

The components meet in four places.  The analysis pipeline feeds the setup
machine, whose result is the input of paper sims (create reads the engine
state), backtests and the master decision.  The master decision and the
evaluation feed the alert monitor, which calls them at two different moments.
Replay and backtest load the same candle series with an earlier clock.  Paper
trading, backtest, replay and journal share no memory with one another: each has
its own store and lock, which is why each has a module of its own.

## 2. The modules

| component | modules | composed of |
|---|---|---|
| Paper trading | `SimHistory`, `PaperEngine`, `PaperPrices`, `PaperTrading`, `PaperTradingProofs` | `PaperTrading` runs `PaperEngine` and implements `SimHistory` |
| Setup machine | `SetupMachine`, `SetupProofs` | |
| Backtests | `BacktestTrades`, `BacktestRuns`, `BacktestProofs` | `BacktestTrades` runs `PaperPrices` and the statistics of `JournalReport` |
| Replay | `ReplaySession`, `ReplayProofs` | |
| Risk gate | `RiskGate`, `DecisionProofs` | |
| Decision, news, evaluation, macro | `NewsGate`, `DecisionGate`, `MacroBias`, `Scoring`, `EvaluationRequests`, `DecisionProofs` | `DecisionGate` extends `NewsGate`; `EvaluationRequests` puts both beside `Scoring` and `MacroBias` |
| Alerts | `AlertRules`, `AlertMonitor`, `AlertProofs` | the monitor applies the rules |
| Journal and analytics | `JournalOutcome`, `JournalReport`, `JournalLedger`, `Journal`, `JournalProofs` | `Journal` uses the first two and implements `JournalLedger` |
| Market data | `CandleSeries`, `MarketData`, `MarketDataProofs` | what the provider caches becomes a series |
| Market engines | `Swings`, `Structure`, `PdArrays`, `Liquidity`, `NoWick`, `Reversal`, `Sessions`, `MarketPipeline`, `MarketEngines` | the pipeline runs the engines; `MarketEngines` lets candles close |

The modules that begin with `MC` give the constants their values for TLC.
`DecisionProofs` holds what is proved of all the gates a decision passes, so the names of
`RiskGate` that `DecisionGate` has too begin with `Risk` (`RiskInit`, `RiskSpec`, ...).

### SimHistory and PaperTrading

`SimHistory` is the abstract specification: per sim an append-only timeline that
goes PENDING → OPEN → CLOSED, PENDING → EXPIRED or PENDING → CANCELLED, and that
never comes back after a deletion.  `PaperEngine` is `paper/engine.py` without
prices, `PaperTrading` models `service.py` and `store.py` around it and is shown to
implement the timeline
(`TimelineIsHonest == SimHistory!HistorySpec` under `timeline <- log`,
`gone <-` the used ids without a row).

* `feed` is the market: bar slots in order, each with a candle or without
  (`NoBar`).  A bar is described by what it does to a sim's three levels: not
  reached, touched, or gapped through at the open.  That is all `engine.step`
  looks at to decide what happens, so prices, spreads, R multiples and the price
  of a fill are left out here.  `PaperPrices` has them; it is what the backtests
  run, and their `TradesAreReplayed` compares the two engines on every bar.
* `rows` and `log` are the two tables.  `task` holds each asyncio task's local
  variables at its await: an action per stretch between awaits (`LoadChunk`,
  `SimulateBar`, `ChunkDone`, `CountEvents`, `StoreAdvance`, `Reread`,
  `Reload…`), so that create, delete, reads and the other tasks can come in
  between.  `SimulateBar` is finer than the code, which simulates a chunk
  without a pause; a finer grain only adds interleavings.
* Faults: a load that fails or is withheld, a store call that raises
  (`TaskFails`), a restart at any point, a creation record altered in the
  database.
* `LoadTooNew` is no fault: the provider ends its answer at the last candle when its
  cache is kept warm (`Warmed`: the sims of the symbol `main.py` warms), whatever `end` was
  asked for, so a chunk of the past comes back with bars that are too new and the
  advance ends as after a failed load.

### SetupMachine

One candle is one step.  Everything is mirrored so that the setup's direction is
up.  What the other engines say of a candle (bias, target pool, sweep, break,
zones born and killed, LTF reversal) is chosen freely, within what prices allow,
by the actions that look at it; the reaction of the machine is a function of
setup and candle (`OnPreLiquidity`, `OnWaitingBreak`, `OnArmed`, `OnRetracing`,
`OnTouched`, `OnBlocked`), one operator per handler of `engine.py`, in the order
in which the code runs them within a candle.  `trail` records the states emitted
on the candle, so that every transition of a cascade is checked and not only its
end.  One unit of price is one ATR, which keeps the distances of the flags
(`approachAtr`, `minTp1Atr`, `minRr`, `stopBufferAtr`) comparable.

### BacktestTrades and BacktestRuns

`BacktestRuns` is the life of a job.  Start, execute, cancel and delete are cut at
their awaits: `StartChecks`, `StartInserts`, `StartOwns` are the three stretches of
`start`; every store call may raise before or after its commit (`Stores`); the
except block looks at the cancel set when the exception arrives and stores later
(`Record`); the finally block is `Clean`.  What a run computes is in
`BacktestTrades`: the bars are loaded backwards in chunks that overlap
(`LoadMore`), plans are taken on the candle that confirms them (`ConfirmedNow`), one
position at a time, the paper engine is given the bars that closed since the last
candle, and the trades are summarised per variant of the costs, segment and
sample.  A `market` is the history and what the analysis says at each candle of
the range; `HistoryAssumption` says what every history is: prices of a bar in order, no two bars that
open at once, no more bars in the range than the loads can bring, candles in order,
plans with the stop behind the entry and the target ahead of it, setup ids that are
strings, a `Nothing` that is neither a number nor a position, and at least one segment.

### ReplaySession

Sessions, the lock and the requests in flight.  A view is computed by
`StateLoads`, `StateAnalyses`, `StateReturns`, the three moments at which
`state()` reads the session; `shown` is the view that the last step returned.
The cursor arithmetic of `_forward_cursor` (a window that is widened while it
holds too few bars, of which only the last `bars + 200` are loaded) is modelled
as it is, with smaller numbers (`Closed`, `After`, `Found`, `Forward`).

### RiskGate

The budget and locks of `risk/engine.py` (`Caps`, `CapLocks`, `AccountLocks`),
the size (`Volume`, `TradeLocks`) and the status, as a trader meets them over
days and weeks.  What the trader does is the environment: `Enter` follows a plan
that is WITHIN_LIMITS at the size the gate gives and records it, `Close` ends a
position with any result down to its stop, recorded in the file or not,
`NextDay` starts a day or a week while the file still has the old one,
`UpdateFile` writes the account as it is, `BreakFile` loses or spoils it.  `acct` is
the account as it is, `file` what the gate reads; the properties are about
`acct`.  Money is in units of which `Cent` make a cent, a percentage is in hundredths of a
percent, and a cap is in parts, 10000 to a unit, so that a percentage of an amount is a product.
`Budgets` is `_money`: the least cap rounded to the cent, a tie to either side, since the code
rounds a binary fraction.  The size is computed from the budget, the locks from the caps.  A plan has the money it loses
per volume step and at most one flaw; spread, conversion and spec checks are
such flaws.  The profile must have a `state` (`models.RiskProfileFile`), and
openings are recorded at once: a position the file does not know is outside what
the gate can promise.

### NewsGate and DecisionGate

`NewsGate` is `news/engine.py`: the windows of an event, its severity at a time,
which calendar covers enough (`CoverageProblem`) and the assessment.
`DecisionGate` is `market_state/service.py: evaluate`: the gate over the data
that was ingested, then the stages that can change verdict, blockers or plan:
liquidity (one blocker), evaluation (setup, risk and news: `HardBlockers`,
`Outcome` of `scoring/engine.py`), the news stage for decisions whose evaluation
did not tell the news, and the reversal.  Each stage is an action, and so is its
failure (`Fails`: logged, the decision stays as it was).  `Enforced` is the
integrity check `enforce_verdict_authority` after each stage.

* `setting` is what does not change while the process runs: the authority (the
  shipped specification says FAIL_SAFE_ONLY, the environment may say FULL), the
  reversal flag, a synthetic provider, a known instrument with or without spec
  and validation.  `now` is the one time an evaluation uses.
* `Readings` is what ingestion may find, `Runs` what the setup engine may
  say, `Risks` what the risk gate may say of it; all are chosen freely, since
  the services read their own data at their own moment.  The
  calendar is not free: each stage may get another snapshot, but a snapshot
  holds exactly the events `World` has in the span it covers.
* Structure, PD array, no-wick, session and macro stages fill fields that no
  guard reads and are left out.  So is `_publish_if_changed`: its memory of the
  last decision decides only whether an event without subscriber is sent.

### MacroBias, Scoring and EvaluationRequests

`MacroBias` is the macro assessment in integers (a z-score is compared by its
square, a score is a fraction); `Scoring` the points, adjustments, conflict, grade
and confidence of a setup, in tenths.  `EvaluationRequests` adds to `DecisionGate`
the two services that are asked by themselves: the evaluation, which first makes
the macro assessment for the setup's side, and the macro assessment alone.  A
request shares nothing with another or with a decision in the making, so one is
asked while no other is.

### AlertRules and AlertMonitor

`AlertRules` is pure: a look at a symbol, the memory of the look before, the alerts
that come out with their dedupe keys, and the checklist of a ready watch.
`AlertMonitor` is the loop of `alerts/service.py`: `StartCycle`, `Due`,
`ReadDecision`, `Evaluate`, and `Fail` wherever a read may raise; time, events, new
and removed watches and a restart come in between.  What a look reports (`Reported`) is any
part of the events that have happened: engines keep windows of what they say, a stage of the pipeline or the
whole analysis may fail, and a timeframe may be withheld, with and without candles for the
as-of.  The memory of the look before is overwritten by each of them, as in the code.

### JournalOutcome, JournalReport, JournalLedger and Journal

`JournalOutcome` computes what the journal computes of a trade (violations,
extremes, result, process class); `JournalReport` the report over an export.
`Journal` has requests whose every call of the store is a transaction of its own:
`ReadEntry`, `ReadOutcomes`, `LoadCandles`, `ReadMax`, `Commit` for a recording,
`ReadPage` and `ReadPageOutcomes` for an export.  A row is kept with the hash of
what was written; `Edit` changes a row and not its hash.  `JournalLedger` is the
abstract specification: pages are appended, an entry goes whole and does not come
back (`LedgerIsKept`).

### CandleSeries and MarketData

`MarketData` is the TradeLocker provider under the loads of the candle service and
the warmer of `main.py`.  One task runs until it waits: for an answer, for the token
lock or for the rate gate; a task's `stage` says where it is.  Every request may
fail, as often as the scene's `faults` allow.  `CandleSeries` turns bars into a
series: screening, duplicates, gaps, quality, and the aggregation to days and
weeks.  The price of a bar is how much of its slot had been traded when it was
read, which is what tells a final bar from one that was still forming.

### The market engines

`Swings` to `Sessions` are the engines, one module each, on integer prices; an
average true range is a sum over a number of bars that is compared without
dividing.  `MarketPipeline` is one analysis of a series, with the stages that
fail and what is wrong with the data (`weather`), and the reversals drawn from
several timeframes.  `MarketEngines` lets candle after candle close, or none come,
and makes every analysis anew as the code does; its properties compare an analysis
with its candles and with the analysis before it.

## 3. The runs

Bounds are constants of the modules; no run replaces a definition.

| run | question | instance | result |
|---|---|---|---|
| `paper_timeline` | Is a stored sim what one pass over the bars gives, is its timeline the promised one, whatever interleaves and fails, and does the monitor bring it up to date once faults stop? | 2 sims under a cap of 1, monitor + 2 requests, 3 bar slots (1 with two sims), gaps up to 1, chunks of 2 bars, 2 chunks, expiry 2; one sim of a warmed symbol, its record may be altered | holds |
| `setup_lifecycle` | Are all transitions allowed, all windows kept, and is every plan earned? | 6 candles, prices 1..3, a target at 4, windows 2/2/1, 2 trading days | holds |
| `backtest_jobs` | Are results final and end states true, does memory follow the tasks, does every run end, and does a result tell of every plan what all bars of the range say? | 2 runs over a quiet market; 1 run over each of 22 histories of 6 bars | holds |
| `replay_sessions` | Does a view never show too much, is grading done once, is the cap kept? | 2 ids, 2 requests, cap 1, bars at 1, 2, 5, clock 6 | holds |
| `risk_limits` | Do losses and open risk stay within the limits, with positions held over days and results recorded late? | balance 41 half-cents, 3 days, weeks of 2 days, 3 entries a day, 2 positions, 3 losses in a row | holds |
| `decision_gate` | Can any order of reads, or any stage that raises, give a verdict that authority, data, risk or news forbid?  Does better evidence score worse, or an untrusted series count? | every setting that can be, every reading, one delayed release, 6 calendars, 4 times; requests over 720 sorts of evidence of a side and 122 macro inputs | holds |
| `alerts` | Is an event told once, has each alert its cause, is every symbol and watch looked at? | 6 scenes, 3 symbols of which 2 fit, 1 event, up to 4 ticks, looks that report any part of what happened, 1 watch at a time, outages, failures, a restart | holds |
| `journal` | Does the journal keep an append-only ledger, are its answers true, do the numbers agree? | 10 scenes, 2 requests, 5 ids, pages of one row, 2 revisions, 2 edits | holds |
| `market_data` | Is what is shown sound and final, and does the feed come back from failures? | 16 scenes, 2 tasks and the warmer, 3 timeframes, up to 4 failures, tokens of 6 ticks | holds |
| `market_data_stuck` | Is one failure survived at the start? | the service starts, 1 failure | violated: section 6 |
| `market_engines` | Is each analysis right about its candles, does the next one keep what it told, and is a failure contained? | 6 price paths of up to 20 slots that branch 4 to 8 times, one of them also cut at 16 slots under 8 kinds of faults | holds |
| `reversal_lookahead` | Does what was told of a reversal stay told? | 1 price path | violated: section 6 |

Why these bounds are enough for what they ask:

* *Paper.* The actors that matter are the monitor and one request: the lock
  reduces everything else to a delete, which is an action of its own.  Three
  slots with chunks of two make an advance that needs two loads, one that starts
  in the middle of a chunk, a gap between a fill and an exit, and an expiry.
  Two creates that race pass the cap of one, so that a second sim is active and is not
  handed out until the first is over or deleted.  One of the two sims is of the warmed symbol,
  the other is not.  The action constraint `Racing` names what is left out: the requests
  race only to create; afterwards one of them works, on the first sim alone; and with two sims
  there is one bar.  For the safety properties the proofs cover any number of sims, tasks and bars.
* *Setup.* Six candles are sweep, break, retracement, touch, confirmation and one
  more, or a first setup that ends and a second that starts; windows of two
  and one are both met and missed.  Three prices order protective extreme,
  entry zone and close in every way.
* *Backtests.* The life cycle is checked with two runs, which the check-then-await
  needs, over a market without plans; the trades with one run (the other was drawn
  and given up), over histories chosen so that an order fills inside a bar, at a gap, beyond its
  stop, on the bar that closes it, on the last bar before it expires or not at
  all; that two plans overlap, come on one candle or follow each other; that a
  trade closes exactly where a segment ends; and that a bar reaches stop and
  target at once.  The load limit of three bars makes several overlapping chunks.
* *Replay.* Two requests interleave one view with one answer; the bars have a
  market gap longer than one widening of the window.
* *Risk.* The percentages are such that each cap is the one that binds on some
  path: the daily one on the first day, the weekly one on the second, the
  drawdown floor in the second week with a position carried over.  A unit is half a cent, and the
  percentages have hundredths, so that caps are rounded up, rounded down and to nothing.  The
  theorems cover all other numbers.
* *Decision.* Settings and readings are complete but for combinations no
  configuration has (an unknown symbol with a specification; the reversal flag
  under fail-safe authority, where it is not read).  One event suffices, since
  the worst of many is one of them; the four times are in its caution, blackout,
  wait and normalised windows, and the calendars cover them, begin one minute
  after it (too late), end too early, are too old, synthetic or missing.
  Release windows are of a few minutes; the theorems cover all.  Requests
  are asked in one sound setting, since the score does not read the others, with the
  shipped numbers of `scoring.json`; the two drivers have the shipped kind of weights, so that sums
  land on the thresholds, and series rise, stay, fall, are too old or missing.
* *Alerts.* A scene for each concern, since their product is too large: what is
  told without an event, events over five bars that looks report or not, the same over four bars
  with looks that are ineligible or without candles, a watch under either authority, and a restart.  Room for two of three
  symbols makes a watch that does not fit.
* *Journal.* Two recordings of one trade race with a delete, with and without
  foreign keys; an export of three pages meets a new, an edited and a deleted
  entry; and every kind of outcome of four trades is computed, with extremes typed
  in, from candles, from both and from neither.
* *Market data.* Loads of three timeframes and of the past share one cache with
  the warmer; bars are missing, doubled, faulty, repeated; the token expires while
  tasks queue, can or cannot be renewed; an outage lasts longer than the grace.
  After the last tick nothing ages any more, which is why liveness asks for a
  cache that is recent in the end.
* *Market engines.* The paths were chosen, and branch where it matters, so that every
  event, pool state, zone state and reversal state occurs, as do empty slots, both
  changes of character, members of an equal pool that are taken, inverted and
  reversal gaps that are confirmed and that fail, and a break on the candle at which its swing becomes
  known.  One path (`Flipping`) has a gap far wider than the origin that inverts it, so that an entry lies beyond
  the origin's far edge.  Windows, pivots and day lengths are shortened to fit; twenty slots are more than
  three days.  These are selected paths, not all paths, and what they show is no more than that.  `PlansAreSound` was also
  tried on about 125,000 random states, without a counterexample; the reason is that both candles of a fresh gap
  or rebalance close after the origin is known, and the walk ends a setup at the first close beyond the far edge.

Each property of a passing run has a mutant in `PROJECT.json`: a small change to
one mapped definition (an operator defined just before it, marked *Mutant* in
the module) under which TLC finds the property violated.  The type invariants of
modules without proofs are part of the first property of their run.

## 4. Fairness

`PaperTrading!FairSpec` assumes that the event loop runs every task that is
ready (weak fairness of each task's work steps), that `run_forever` starts a new
cycle after each sleep (weak fairness of `AdvanceAll(Monitor)`), and that the
lock is handed over: `asyncio.Lock` wakes its waiters in FIFO order, so a
monitor that wants it again and again gets it (strong fairness of the monitor's
`Advance`).  Requests, the market and faults are not fair.  The property starts
with "if faults stop": a feed that fails for ever rightly stops everything.  A step is
a `Fault` only when it is not also what the task would do without one: a store call that
changes nothing looks the same whether it failed or not, and an answer that is too new
(`LoadTooNew`) is what the provider gives.  Nor does the property speak of every sim: it
asks that the sim is handed to the monitor (`InTurn`) and that the provider can answer
its next chunk (`InReach`: the chunk ends now, or it is of a symbol that is not warmed and holds a
bar to simulate).  Each of these is needed, TLC finds a sim that is never
advanced without it, and section 6 says where the documents promise more.

`BacktestRuns!Spec` assumes weak fairness of `Execute` for each run: the task
is on the event loop and each of its store calls returns or raises.  `cancel`,
`delete`, starts and restarts are not fair.  The condition is stated over the
variables every step of `Execute` changes, without what the replay computes.

`AlertMonitor!FairSpec` assumes that time goes on, that `run_forever` never stops
(weak fairness of `StartCycle` and `Due`), and that a read which is tried again and
again succeeds some time (strong fairness of `ReadDecision` and of `Evaluate` for
each symbol).  Without the last, a symbol whose evaluation always raises is never
read, and rightly so.

`MarketData!Spec` assumes that every request ends (with its timeout at the
latest) and that the task then goes on (weak fairness of each task's steps), that
the warmer's loop begins another cycle (weak fairness of `Warm`), and that time
passes whatever the tasks do (strong fairness of `Tick`).  Failures are not
fair: there are as many as the scene has.

The other modules have no liveness: a setup or a replay session may stop for
ever when no candle or request comes, a journal request when the process stops.

## 5. What is proved

Eight modules hold theorems.  Each proves an inductive invariant of its component's
specification and draws the component's properties from it, for every value of the
constants that the assumptions named in the component's module allow.  The
assumptions say what the parameters are (numbers that are not negative, percentages up
to 100, a model value `None` or `Nothing` that is no row, id or number) and, where a
run starts from stored rows or a scripted scene, that these are rows and requests the
program can have.  TLC evaluates each of them in a run.

| module | theorem | states, under `Spec =>` |
|---|---|---|
| `PaperTradingProofs` | `TypeCorrect`, `TimelineMatchesStatus`, `StoredIsOnePass` | `[]TypeOK`, `[]LogMatchesRow`, `[]SimulatedInOnePass` |
| | `ImplementsHistory` | `TimelineIsHonest`: the service implements `SimHistory` |
| `SetupProofs` | `EveryTransitionIsLegal`, `NoSetupIsOverdue`, `PlansAreEarned` | `[]LegalTrail`, `[]InTime`, `[]PlanIsEarned` |
| `BacktestProofs` | `MemoryHoldsNothingDead` | `[]MemoryIsLive` |
| | `EndsAreHonest` | `EndIsHonest`, an action property |
| | `TradesHold`, `PlansHold` | `[]TradesAreReplayed`, `[]PlansAreAccounted` |
| `ReplayProofs` | `SessionsAreCapped`, `TheFutureIsHidden`, `AnswersAreGradedOnce` | `[]SessionCap`, `[]FutureIsHidden`, `[]GradedOnce` |
| `DecisionProofs` | `TypeCorrect`, `Allowed`, `Veto`, `Overlooked` | `[]TypeOK`, `[]VerdictIsAllowed`, `[]VetoHolds`, `[]NothingOverlooked` |
| | `PlanStays` | `ContinuationWins`, an action property |
| | `MacroSpeaksTrue`, `BetterEvidenceCounts` (`RequestSpec`) | `[]MacroIsFair`, `[]BetterNeverScoresWorse` |
| | `RiskTypeCorrect`, `LimitsHold`, `LateFile`, `WithinLimitsIsSizedOrSpent` (`RiskSpec`) | `[]RiskTypeOK`, `[]LimitsAreKept`, `[]LateFileIsSafe`, `[]OnlyHalfACentIsUnsized` |
| `MarketDataProofs` | `Inductive`, `SeriesAreSound`, `OldIsFinal` | `[]Inv`, `[]SeriesIsSound`, `[]OldCandlesAreFinal` |
| `AlertProofs` | `NothingIsToldTwice`, `AlertsHaveTheirCause` | `ToldOnce`, `AlertsAreEarned`, action properties |
| `JournalProofs` | `OutcomesAlwaysAddUp` | `[]OutcomesAddUp` |
| | `JournalImplementsLedger` | `LedgerIsKept`: the journal implements `JournalLedger` |
| | `RepliesAreAlwaysTrue` | `RepliesAreTrue`, an action property |

### Paper trading

The inductive invariant of the first two and of the refinement is
`TypeOK /\ LogMatchesRow /\ Handover /\ StoredIsUsed`.
`LogMatchesRow` alone is not inductive: a store could append events that were
computed from a row somebody else has changed since.  `Handover` says why that
cannot happen: only the holder of the lock is between read and store; until it
stores, the stored status is the one it read (create inserts only new ids, a
delete removes the row for good), and the events it carries lead from the
stored timeline to the status it is about to store.  `StoredIsUsed` is there for
deletes: an id without a row that was drawn is never inserted again, which makes
`gone` grow.  The proof has one step per action and conjunct; lemmas about the
engine (`StepOfPending`, `StepOfOpen`, `StepKeepsStatus`) reduce a bar to the
events it can add, and `Histories`, `AppendToPending`, `AppendToOpen` say what
those do to a timeline.  The refinement maps every step to a step of `SimHistory`
or to a stutter.

`StoredIsOnePass` adds `PassInv`: what one pass would give holds of every stored row
*and* of the copy each task has in hand (`Pass`), and the bars between the copy's last
bar and the task's position are empty slots (`Passing`), so that a chunk which begins
before the last simulated bar, ends at a gap or is loaded again after a failure
passes over nothing and counts nothing twice.  `SeenGrows` and `StepPass` are the step
of the engine: a bar after the last one adds one to the bars seen and decides what the
one-pass definition decides.

### Setup machine

The invariant says for the state of the open setup what its fields hold
(`StageAs`): nothing of a leg before the sweep, then the extreme as the lowest price
seen and zones born since, the break within its window, the touch within its window of
the break, on a zone of the leg that is older than the touch (`AwaitsBreak`,
`AwaitsTouch`, `AwaitsEntry`, `Planned`).  The three properties are not inductive
without these: a plan is made from indices stored candles ago, by a cascade of
handlers of which each relies on what the one before left.  There is one lemma per
handler (`PreLiquiditySound`, `WaitingBreakSound`, `ArmedSound`, `RetracingSound`,
`TouchedSound`, `BlockedSound`), in the direction of the cascade, and one per action.

### Backtests

`MemoryIsLive` is in its own strengthening: `Begun` ties an id to its one row and one
task, `Worked` ties the task's position to how far replay and row are, and `RowSound`
has the hash, the result and the status of a row together.  `EndsAreHonest` follows
action by action: only `Complete` writes a result, when the last candle of the last
variant is done (`LastOfAll`), and every other store leaves a row with a result as it
is.  `StoresIs` covers a store call that raises before or after its commit.

`TradesHold` compares a loop with a definition: what the program finds by loading chunks
backwards and handing bars to the engine a candle at a time, and what `Expected` says of the set
of all bars of the range at once.  Its invariant, on top of the first, is `Playing`:

* The bars of a task are those of the range, by their opens (`LoadIsRange`).  `LoadIs` is what is true between two
  chunks: everything that opens from the next end on is there, and a full chunk each time, so
  that the bound on the loads cannot cut the range.  `ByOpenIs` gives the sorted list without an induction
  on sequences: the rank of a bar is injective into as many numbers as there are bars.
* After any number of bars an order is where the set of those bars puts it (`SimIs`): not filled and
  so many bars older, expired, open since the first bar that fills it, or closed by the first bar
  from there that closes it.  `StepBarIs` is the step, over the cases of the engine; that the engine with prices and the one
  without decide alike is `ManagedIs`; `SimulateIs` takes a batch of bars, wherever it was cut.
* `Played` is a variant in progress: its cursor stands behind exactly the bars that have closed
  (`DueIs`), its position is where these bars put it, and every trade told before is true.
  `AdvanceIs`, `ConsiderIs`, `SetupsAre` and `ReplayEndIs` keep it over a candle and at the end; `OverIsTrue` and
  `OpenIsTrue` turn a position into a trade that tells what `Expected` says.  The bars still to come cannot
  change that, since every one of them opens later (`PastIsClosed`).
* A run begins with no replay and ends with none, and only results of variants that are over are
  stored (`NextPlays`).

`PlansHold` is about the same replay as a whole: no plan is lost or told twice, and a plan is
skipped for the one reason there is.  `Playing` has these parts for it:

* `Ledger` is the books of a variant in progress: every plan of a candle that is done has its
  one trade and every trade its plan; of two orders that were taken the earlier was over when the
  later was confirmed; a skipped plan had an order in its way.  The order that is working
  counts as the trade it would end in.  `Counted` adds the counters, which are the numbers of
  these trades, and that a told order was over by the time the candle closed.
* `OverWhen` is the bridge to the definition: an order whose sim the engine finds ended after some bars is
  one that `Over` says is over by that time, and the other way round.
* `AdvanceCounts` and `ConsiderCounts` keep the books over the bars and the plan of a candle,
  `ReplayStepIs` and `ReplayEndIs` over a candle and at the end, where `Settled` has no order left.
* `SummaryAccounts` is the summary of books that are settled: a trade has one way to end
  (`WaysToEnd`); the segments divide the closed trades (`SegmentsDivide`), and each is in one
  of the two samples (`SamplesAre`), since no two of them end at one time; `CountAllIs` adds
  up the counts of groups that do not meet.

Both are drawn from `Plays`, the invariant `IInv` with `Playing` for every run.

### Replay

`FutureIsHidden` is part of its invariant with the types.  `SessionsSound` relates
questions and grades within a session; `RequestsSound` says what a request in the
middle of a view has read: a cursor and question that are not ahead of the session's,
since in the modes that hide the future a cursor never falls.  `RoomKept` carries the
cap from the check of a create over its await to its insert.  Under these lie facts about bars:
`ForwardGoesOn` (a step forward, with the window widened and only the last bars
loaded, never ends before its start), `BackIsABar`, `StartIsABar`.

### Risk gate

The limits are not inductive: the gate reads the file, the limits are about the
account.  `FileLags` relates the two while the file is of the current day: the
day and the week started from the same balance in both, and what is lost plus
what is open is at least as much in the file as in the account, since a position
that closes loses at most what it had at risk.  Where a new day or week begins, the lemma
`NewStart` shows that a limit which held for the old start holds for the balance
that start left, because a percentage of a loss is at most the loss.

The limits hold to half a cent: `LimitsAreKept` lets what is left fall to `-HalfCent`, and no
further, however many plans are entered.  The half cents do not add up, because a plan is
entered only while every cap is positive (each cap that is not sets its lock), and the
budget is within half a cent of the least cap (`BudgetIsNear`), the size within the budget
(`SizeFits`: floor division).  `WithinLimitsIsSizedOrSpent` says what a plan that is WITHIN_LIMITS
and has no size means: where no lock is set every cap is positive (`BudgetIsLeft`), so its
budget was rounded to nothing, and the least cap is at most half a cent.

### Master decision and news

What is proved holds for all events, calendars and windows that the shipped
`news.json` satisfies (`NewsSpecAssumption`: no lead is longer than the lookahead).

* `VetoHolds` is not inductive: a reversal asks only that no blocker is
  left.  `VetoIsTold` says that what news and risk said is among the blockers and
  that no stage takes it away again; `StageShape` that nothing is directional
  before the evaluation, and that a plan which is on has read the news, so that
  the news stage cannot veto a verdict that is already given.
* `NothingOverlooked` rests on `WindowsAreNear` (an event with an open window is at
  most `LookBack` ago and `Lookahead` away, whatever its status) and
  `OnlyMatteringCount` (events that are CLEAR do not change the worst state):
  an accepted calendar has every event that counts.
* `EvaluatedIsSafe` has the case distinction of the evaluation: data not
  eligible, evaluated, or authorised, the last only with no blocker of its own.

### Evaluation and macro

Both properties compare two computations on the same request, so there is no state to carry: the
work is in the operators, and holds for all numbers a `scoring.json` and a `macro.json` of the
shipped shape can have (`PointsAssumption`: points grow with the evidence, weights and
floors are in order; `MacroAssumption`: thresholds are in order and of one sign;
`RequestAssumption`: every fact is of its kind, and the drivers have their series).

* `BetterEvidenceCounts`: evidence that is better in one thing is nowhere worse (`NoWorse`), and
  each of points, adjustments, conflict, grade and confidence is shown to be monotone in it, one
  lemma per factor.  The total is a fold over the factors; that a sum of greater terms is greater is an
  induction over the set of the terms that are already added.
* `MacroSpeaksTrue`: a driver whose series is not fresh contributes what a missing one
  does, so nothing (`SameContribution`, `SameJudgement`); the thresholds are of one sign, so a score cannot support
  both sides; and a snapshot that is not trusted leaves the state UNAVAILABLE, which scores as none.

### Market data and candle series

`Inv` is about what waits.  The cache, whenever it was filled, holds a history of the
broker *as it was at one instant* (`HistoryRead`); a task that goes on with bars has the end of a
history that is younger than the grace at the time the task asks for (`Answered`); and the
lock and the gate are held by exactly the tasks that wait for the answer they hold it
for (`Holds`).  Neither property is inductive without it: an answer is served many awaits
after it was read, by another task than the one that asked, or from a cache that was
filled before the process started.  There is one lemma per action.

From an answer to what is shown it is all data, and most of the module is about operators:

* `InOrderIs` (slots in order, each at its rank), `HistoryIs` (the history as a fold over the slots:
  in order, and both copies of a slot whose bars contradict each other are in it), `KeptIs`, `BuiltIs`:
  a candle of a series is a kept bar, closed exactly when its slot is over.
* `BucketIs`, `AggregateIs`, `DeriveIs`: a candle of a higher timeframe has its source bars as parts, is
  closed only when every source slot with an open market is among them and closed, and
  aggregation twice (weeks from days) keeps that.
* `KeptIsFinal`: a bar kept of a history as it was at `at` has all of its slot if the slot was over then;
  with an answer younger than the grace this is `OldIsFinal`.  `SameLatest` and `ShownLatest`: the
  last closed candle that is shown is the last of the series, so a quality of CURRENT is about it.

The attempt to prove `OldCandlesAreFinal` found the property false as it was first stated, in a case
the scenes of the run did not have: section 6 (the cut before the screening).  The property now
excepts that one bar (`Torn`) and a scene of the run has the case.  It also found that a slot both missing and doubled
was left open in the model; `BarsOf` now decides it.

### Alerts

`ToldOnce` and `AlertsAreEarned` are about steps, so the work is in the state between
them.  `ToldOnce` is about the events that were told and that no look has let go of since
(`heard`; `LetGo` takes out what a look does not report although it is within the grace of
its as-of, and without candles everything).  `Remembers` is the heart: such an event is in
the memory of the last look, or older than the grace at that memory's as-of; and while a look is
in progress it is not younger than the look's time.  With `LookFacts` (a look reports events that
have happened, at their times) the rule for new events cannot choose such an event.
Section 6 has what a look that lets go does.
`ToldHasItsCause` gives each alert type what must be true of the look that caused it
(one lemma per rule: `NewsCauses`, `RiskCauses`, `EventCauses`, ...), and `WatchesOK`
says that an id is of one watch, which makes `FiredIsFinal` hold through `RemoveWatch`.

### Journal

`Kept` has the tables: rows as they are written, revisions `1 .. n` without a gap,
outcomes whose hashed numbers add up.  `Holds` is what a request has in hand, and it
speaks of the entry *as it was written* (the hash, which an edit does not change) and
only while the entry is there: a delete makes what the request holds worthless, and since
ids do not come back nothing else can be taken for its entry.  A revision about to be
committed is the next one or one that is taken, so the unique key refuses exactly the
second of two recordings.  `OutcomeAddsUp` has the arithmetic: extremes from candles,
from the trader or from both enclose entry and exit, because both are among the prices
compared (`CandlesEnclose`, `ExtremesEnclose`).  For the refinement each action is
shown to be an append of one page, an erasure, or a stutter (`InsertLogs`,
`CommitAppends`, `DeleteErases`, `EditIsNone`).

`RepliesAreAlwaysTrue` has a second invariant, `TInv`, which TLC also finds to hold on the run's instance: the
outcome a recording answers with is in the database, and an export (`Exports`) has, of what
was there all along, what it has shown or holds as a page; all the rest lies beyond its
cursor, and nothing it has shown does.  It holds because an entry never changes its place
in the list (`Calm`), whatever is logged or deleted between two pages.  A page needs the
order of the rows without induction: `ListedAre` counts for each row those before it, an
injection of the rows into `1 .. n` and so one onto it, and `PageIs` follows: the rows that
a page leaves out, and only they, lie beyond the cursor it gives.

### Type invariants

The type invariants of paper trading, risk gate and decision are theorems and not listed with
their runs; those of the other modules are the first part of a property of their run, and
proved with it where that property is.

### Only model-checked

* Liveness (`EverySimCatchesUp`, `EveryRunEnds`, `NothingIsForgotten`,
  `FeedComesBack`): the provers do not do fairness.
* `ReportAddsUp`: counts over the samples of a report, and the widest fall of a running sum.
* All of `MarketEngines`: folds over candles, and the properties compare the folds of two
  series of which one is longer.

Induction over data is possible where it can be an induction over a set (the library's theorems with an
operator as parameter cannot be used): `UpTo` in `MarketDataProofs` takes the set of the numbers for
which something holds, and its least exception.  That is how the folds of the market data, of
the scoring and of the backtests are done.

## 6. What disagrees with the documents

Two runs are violated, each with a finding in `PROJECT.json` that quotes the text.

* `market_data_stuck`: `_authenticate` (`APP/providers/tradelocker.py:128`) keeps the
  token before it has resolved the account.  One failure of the second request leaves a
  provider that has a token, never logs in again and refuses every route, where
  `APP/main.py:55-58` promises a steady feed.  `FeedComesBack` therefore speaks of a provider
  that has its account.
* `reversal_lookahead`: the plan of a reversal takes the nearest pool of the
  analysis's last state, also for candles of the past (`SVC/reversal/engine.py:174`), where
  line 3 says "Candle-sequential, no lookahead".  A setup told as ready is told one
  candle later as missed at the same candle.  `PastIsKept` holds for everything else.

These were met while modelling.  The models contain them, so that no property says
what the code does not do; they have no run of their own.

* `SVC/paper/service.py:196`: `create` counts active sims, awaits market data and the
  engine state, then inserts, without the lock: two creates can both pass the cap of 50
  (`PHASE_16.md:47`: "fewer than 50 pending/open sims"), and `active_ids` never hands the
  youngest to the monitor until an older one ends.  `EverySimCatchesUp` leaves it out by `InTurn`.
* `APP/providers/tradelocker.py:309`: the cache of the latest bars is asked without regard to `end`.  For the
  symbol that `APP/main.py:58-84` keeps warm, a chunk of the past is answered with the latest
  bars, which open in the future of the chunk's end (`SVC/candles/normalize.py:203`: an invalid series), and a sim
  that is more than a chunk (1000 bars, about three and a half days) behind is not advanced while the cache is warm, where `PHASE_16.md:169` says "Long outages are
  caught up over several cycles".  For other symbols the answer reaches back three chunks from now (line 319), so that
  bars are passed over after about ten days.  `InReach` leaves the first out; the feed of the model keeps
  all its bars, so that the second is not in it.
* `SVC/paper/service.py:307`: the next chunk begins at the last bar that was simulated.  A chunk with no bar to
  simulate, when the market is closed for longer than a chunk, is loaded again for ever.  `InReach` leaves it out too.
* `SVC/paper/service.py:380`: `close_now` and `cancel` simulate a sim on without the
  integrity check of `advance` (`PHASE_16.md:73`: never simulated further).
* `SVC/backtest/service.py:133`: `start` reads `_running`, awaits the insert, then sets it:
  two runs at once (`PHASE_18.md:16`: one at a time).
* `SVC/replay/service.py:139`: after a closed market the widened window holds more bars
  than are loaded, and a step passes over bars nobody has seen (`PHASE_19.md:40`).
  `SVC/replay/service.py:248`: a step back between the load and the end of a view gives a
  view whose candles go past the cursor; `FutureIsHidden` is about the modes that forbid
  stepping back.
* `SVC/setup_state/engine.py:455`: with the shipped flags a confirmation is tried
  before the chase guard, and a plan can be confirmed on the candle that took the target,
  where `chase.py:13` has no entry after the move is done.
* `SVC/market_state/service.py:263` (with FULL authority, which is not shipped): a
  continuation is authorised over the gate's WAIT-class blockers.  Line 360: a
  reversal after an evaluation that raised is authorised although risk was never read,
  where the comment at line 326 has every gate clear.
* `SVC/risk/engine.py:165`: a remainder above 1e-9 and up to half a cent sets no lock and is rounded to 0.00, for which
  `_position` (line 308) gives no volume: the plan is WITHIN_LIMITS without a size, where `PHASE_9.md:77`
  has "`WITHIN_LIMITS` (plan sized)" and `tests/unit/test_risk_properties.py:86-87` expects LOCKED.
  `OnlyHalfACentIsUnsized` says that this is the only such case.  Rounded up, the budget passes a cap by up to half a cent, where
  line 81 of that test allows a percentage of 1e-6; `LimitsAreKept` is stated with the half cent.
* `SVC/alerts/rules.py:227`, `SVC/alerts/service.py:238`: each look overwrites what the one before has seen, also a look that lost
  events: a stage of the pipeline failed (`SVC/analysis/pipeline.py:213`), the analysis failed
  (`SVC/setup_state/service.py:91`), or H1, D1 or session data were withheld.  A told event that is within one setup bar of
  that look's as-of is new to the next good look, and told again once its cooldown is over, where line 5 of `rules.py` has
  "new when its id was not seen before".  `ToldOnce` is about events that no look has let go of.
* `SVC/alerts/rules.py:233`: after a look without candles there is no as-of, and the next
  usable look tells its whole history.  Lines 117 and 227: a risk lock that begins or ends while
  data are ineligible is remembered and never told.  `SVC/alerts/store.py:15`: the sequence begins
  again at 1 after a restart, behind the cursor of a client that polls with `since`.
* `SVC/journal/service.py:173`: the instant of a recording is taken before it waits for its
  revision, so the order of `recordedAt` need not be that of the revisions.
* `APP/providers/tradelocker.py:387`: the answer is cut to the bars asked for before the series is
  screened (`SVC/candles/normalize.py:160`).  When the cut falls between two contradicting bars of one
  slot, one of them is left and shown, where `PHASE_0.md:20` has all copies excluded.
* `SVC/scoring/engine.py:117`: the confidence is capped always, not only "while required
  gates are missing" (line 21).
* `SVC/reversal/engine.py:250`: the candle that makes an origin known can count as its
  rebalance, where line 8 has "a later candle".
* `SVC/reversal/engine.py:128`: an inverted gap confirms a reversal when it meets the body of the origin, and the entry is the gap's
  middle (line 327), which nothing compares with the far edge.  A gap wide enough puts the entry beyond the far
  edge, which is the protective level (`REVERSAL_SETUP_SPEC.md:33`), and beyond the stop when it is farther than the buffer:
  the setup is armed, and BLOCKED as ready once its entry is touched.  The path `Flipping` has the first; `PlansAreSound` is
  about plans that a zone of the turn itself confirms.

## 7. What is not modelled

Whole parts, each with its reason in `PROJECT.json`: the setup service and funnel, the
scanner, the assistant, the questions of a replay, the event bus, the candle
repository, the HTTP API and the web application.  They are display, wording, wiring,
functions of one answer, or used by nothing.

Inside modelled parts:

* *Paper, backtests.* Monte Carlo resampling, breakdowns by dimension, the views of a sim.
* *Setup.* The choice among pools and breaks of one candle (`SetupMachine` takes these
  facts as they may come, `MarketEngines` says which come), further targets, step texts.
* *Replay.* Masking, building and grading of questions, the guided narrative.
* *Risk.* The tolerance of 1e-9 in the locks; conversion, spread and specification checks are
  one flaw of a plan.
* *Evaluation and macro.* Warnings and texts; the rounding of the macro score to three places.
* *News.* The parsing of calendar files; the overview.
* *Alerts.* The ring buffer, paging, texts.
* *Journal and analytics.* The summary of a snapshot; analytics over paper sims, averages.
* *Market data.* Streams of quotes and bars (nothing subscribes to them), the offline
  providers, warnings about ranges.
* *Market engines.* The market is open at all times: no weekends, holidays or DST.  Time
  is the close of the last candle, so no candle is forming; the sliding window of
  the last 300 candles is longer than any path.  The quality score of zones, no-wick
  variants and relevance scores, the stop's buffer, reward ratio and choice of the
  shown reversal are left out.

## 8. The plan

Modelled, checked and proved: everything in the tables of sections 2 and 5.  What is
left, the most important first:

1. `FailureIsContained` and the structure part of `PastIsKept`, as far as they follow from
   what one candle does and not from the fold.
2. The alert monitor over `DecisionGate` itself, where it now has any verdict.
3. The questions of a replay over the engines, and calendars with closed days.
