------------------------------ MODULE MarketData -----------------------------
(***************************************************************************)
(* The live provider (providers/tradelocker.py) under the loads of the     *)
(* candle service (candles/service.py) and the warmer of main.py.  One     *)
(* event loop runs every task until it has to wait - for an answer, for    *)
(* the token lock, for the rate gate - and only then another one goes on.  *)
(*                                                                         *)
(* A task's stages: "QUOTE" and "BARS" look into a cache; "TOKEN", "ROUTE" *)
(* and "GATE" lead to the request itself, "CALL"; "FAILED" is the handler  *)
(* of whatever was raised on the way.  "LOGIN", "ACCOUNT" and "RENEW" are  *)
(* waited for under the token lock.                                        *)
(***************************************************************************)
EXTENDS CandleSeries

CONSTANTS
  Nothing,
  Tasks, Warmer,    \* the tasks that load series; the one that keeps the caches warm
  Ttl, QuoteTtl,    \* _BAR_CACHE_TTL, _QUOTE_CACHE_TTL
  StaleGrace,       \* _STALE_GRACE
  TokenMargin, TokenLife,
  Attempts,         \* requests sent before a 429 is given up
  WarmupBars, WarmLimit,
  Scenes            \* where it starts, what is asked, what the broker may do

ASSUME ProviderAssumption ==
  /\ Warmer \notin Tasks /\ Nothing \notin Tasks \cup {Warmer}
  /\ {Ttl, QuoteTtl, StaleGrace, Attempts, WarmLimit} \subseteq Nat \ {0}
  /\ {TokenMargin, TokenLife, WarmupBars} \subseteq Nat
  /\ Ttl <= StaleGrace

Load == [tf : {"H1", "D1", "W1"}, limit : Nat, past : {Nothing} \cup Nat]
Token == [expires : Nat, renewable : BOOLEAN]

(* The cache was read, and the instants asked for were, before the start.  *)
ASSUME NothingAssumption == Nothing \notin Token
ASSUME SceneAssumption == \A s \in Scenes :
  /\ {s.start, s.until, s.faults} \subseteq Nat /\ s.start <= s.until
  /\ s.read = Nothing \/ s.read \in 0 .. s.start
  /\ s.loads \in Seq(Load) /\ \A i \in DOMAIN s.loads : s.loads[i].past = Nothing \/ s.loads[i].past \in 0 .. s.start
  /\ s.token = Nothing \/ s.token \in Token
  /\ s.renewable \in BOOLEAN

VARIABLES
  scene,
  clock,
  left,         \* loads that are still asked for, as a sequence
  faults,       \* how often the broker still fails
  token,        \* [expires, renewable], or Nothing
  account,      \* whether _account_id is set
  route,        \* whether the instrument's route is cached
  lock, gate,   \* who holds the token lock and the rate gate
  running,      \* the task the event loop runs, or Nothing when all wait
  bars, quote,  \* the caches: [at, raw] and [at], or Nothing
  jobs          \* what every task is doing

vars == <<scene, clock, left, faults, token, account, route, lock, gate, running, bars, quote, jobs>>

Idle == [stage |-> "IDLE"]
Job(load, now, stage, for) ==
  [stage |-> stage, for |-> for, load |-> load, now |-> now, cached |-> Nothing, from |-> 0, tries |-> 0, answer |-> Nothing]

Waits(stage) == stage \in {"IDLE", "LOGIN", "ACCOUNT", "RENEW", "INSTRUMENTS", "CALL", "REPLIED"}
Blocked(stage, locked, gated) == (stage = "TOKEN" /\ locked # Nothing) \/ (stage = "GATE" /\ gated # Nothing)

(* What the broker holds of a slot at an instant, the scene's bad bars     *)
(* included; /history answers with what opened in a window.                *)
BarsOf(slot, at) ==
  LET seen == Min({at - slot * Bar, Bar})
      bar  == [slot |-> slot, seen |-> seen, fault |-> slot \in scene.faulty]
  IN  IF slot \in scene.missing \cup NoMarket THEN <<>>
      ELSE IF slot \in scene.doubled THEN <<bar, [bar EXCEPT !.seen = seen - 1]>>
      ELSE IF slot \in scene.repeated THEN <<bar, bar>>
      ELSE <<bar>>
History(from, end, at) ==
  LET slots == {s \in 0 .. (at \div Bar) : s * Bar >= from /\ s * Bar < end}
  IN  FoldLeft(LAMBDA all, s : all \o BarsOf(s, at), <<>>, InOrder(slots))

Init ==
  /\ scene \in Scenes
  /\ clock = scene.start
  /\ left = scene.loads
  /\ faults = scene.faults
  /\ token = scene.token
  /\ account = (scene.token # Nothing)
  /\ route = (scene.token # Nothing)
  /\ lock = Nothing /\ gate = Nothing /\ running = Nothing
  /\ bars = IF scene.read = Nothing THEN Nothing ELSE [at |-> scene.read, raw |-> History(0, scene.read, scene.read)]
  /\ quote = IF scene.read = Nothing THEN Nothing ELSE [at |-> scene.read]
  /\ jobs = [t \in Tasks \cup {Warmer} |-> Idle]

(* The task goes on with job, until it has to wait.                        *)
Goes(t, job) ==
  /\ jobs' = [jobs EXCEPT ![t] = job]
  /\ running' = IF Waits(jobs'[t].stage) \/ Blocked(jobs'[t].stage, lock', gate') THEN Nothing ELSE t

At(t, stage) == running \in {t, Nothing} /\ jobs[t].stage = stage
Runs(t, stage) == running = t /\ jobs[t].stage = stage
Answers(t, stage) == running = Nothing /\ jobs[t].stage = stage
To(t, stage) == Goes(t, [jobs[t] EXCEPT !.stage = stage])

Caches == <<bars, quote>>
Login  == <<token, account, route>>
World  == <<scene, clock, left>>

Fault == faults > 0 /\ faults' = faults - 1
Works == UNCHANGED faults

(* A request that carries the token is refused once it has expired.        *)
Accepted == Works /\ clock < token.expires
Refused == Fault \/ (Works /\ clock >= token.expires)

(***************************************************************************)
(* The token and the account.                                              *)
(***************************************************************************)
NeverExpires == token # Nothing
Valid == token # Nothing /\ clock < token.expires - TokenMargin

Raise(t) == To(t, "FAILED")
HasToken(t) == lock' = Nothing /\ To(t, IF jobs[t].for = "HEALTH" THEN "QUOTE" ELSE "ROUTE")

(* _ensure_token, once the lock is free.                                   *)
EnsureToken(t) ==
  /\ At(t, "TOKEN") /\ lock = Nothing
  /\ UNCHANGED <<World, faults, Login, gate, Caches>>
  /\ \/ Valid /\ HasToken(t)
     \/ ~Valid /\ lock' = t /\ To(t, IF token = Nothing \/ ~token.renewable THEN "LOGIN" ELSE "RENEW")

(* _authenticate: the token is kept before the account is asked for.       *)
Authenticate(t) ==
  /\ Answers(t, "LOGIN")
  /\ UNCHANGED <<World, account, route, gate, Caches>>
  /\ \/ Works /\ token' = [expires |-> clock + TokenLife, renewable |-> scene.renewable] /\ lock' = lock /\ To(t, "ACCOUNT")
     \/ Fault /\ token' = token /\ lock' = Nothing /\ Raise(t)

ResolveAccount(t) ==
  /\ Answers(t, "ACCOUNT")
  /\ UNCHANGED <<World, token, gate, Caches>>
  /\ \/ Accepted /\ account' = TRUE /\ route' = FALSE /\ HasToken(t)
     \/ Refused /\ UNCHANGED <<account, route>> /\ lock' = Nothing /\ Raise(t)

(* _refresh: a refusal leads to a login, a lost connection is raised.      *)
Refresh(t) ==
  /\ Answers(t, "RENEW")
  /\ UNCHANGED <<World, account, route, gate, Caches>>
  /\ \/ Works /\ token' = [token EXCEPT !.expires = clock + TokenLife] /\ HasToken(t)
     \/ Fault /\ token' = token /\ lock' = lock /\ To(t, "LOGIN")
     \/ Fault /\ token' = token /\ lock' = Nothing /\ Raise(t)

(* _instrument_route.                                                      *)
Route(t) ==
  /\ Runs(t, "ROUTE")
  /\ UNCHANGED <<World, faults, Login, lock, gate, Caches>>
  /\ To(t, IF route THEN "GATE" ELSE IF account THEN "INSTRUMENTS" ELSE "FAILED")

Instruments(t) ==
  /\ Answers(t, "INSTRUMENTS")
  /\ UNCHANGED <<World, token, account, lock, gate, Caches>>
  /\ \/ Accepted /\ route' = TRUE /\ To(t, "GATE")
     \/ Refused /\ route' = route /\ Raise(t)

(***************************************************************************)
(* Requests.                                                               *)
(***************************************************************************)
Enter(t) ==
  /\ At(t, "GATE") /\ gate = Nothing
  /\ gate' = t
  /\ UNCHANGED <<World, faults, Login, lock, Caches>>
  /\ Goes(t, [jobs[t] EXCEPT !.stage = "CALL", !.tries = @ + 1])

LastOf(raw, limit) == IF Len(raw) <= limit THEN raw ELSE SubSeq(raw, Len(raw) - limit + 1, Len(raw))

Replies(t, answer) == Goes(t, [jobs[t] EXCEPT !.stage = "REPLIED", !.answer = answer])
HasBars(t, raw) == IF t = Warmer THEN Goes(t, Idle) ELSE Replies(t, LastOf(raw, jobs[t].load.needed))

(* load_series, once the provider has answered with bars, or has not.      *)
Shown(series, limit) ==
  IF series.quality \in Withheld THEN [series EXCEPT !.candles = <<>>] ELSE [series EXCEPT !.candles = LastOf(@, limit)]
Loaded(series, load, now) ==
  Shown(IF load.tf = "H1" \/ series.quality \in Withheld THEN series ELSE Derive(series, load.tf, now), load.limit)
Reply(job) ==
  IF job.answer = Nothing THEN [quality |-> "DISCONNECTED", candles |-> <<>>, issues |-> {}]
  ELSE Loaded(BuildSeries(job.answer, job.now), job.load, job.now)

Answer(t) ==
  /\ Answers(t, "CALL")
  /\ gate' = Nothing
  /\ UNCHANGED <<World, Login, lock>>
  /\ \/ /\ Accepted
        /\ IF jobs[t].for = "QUOTE"
           THEN quote' = [at |-> clock] /\ bars' = bars /\ To(t, "BARS")
           ELSE LET raw == History(jobs[t].from, jobs[t].load.end, clock)
                IN  quote' = quote /\ bars' = [at |-> clock, raw |-> raw] /\ HasBars(t, raw)
     \/ /\ Refused /\ UNCHANGED Caches
        /\ \/ jobs[t].tries < Attempts /\ Goes(t, [jobs[t] EXCEPT !.stage = "GATE"])
           \/ Raise(t)

(***************************************************************************)
(* Caches, and what is served when a request failed.                       *)
(***************************************************************************)
EverRead(cached, ttl) == cached # Nothing
Recent(cached, ttl) == cached # Nothing /\ clock - cached.at < ttl
Fresh(limit) == Recent(bars, Ttl) /\ Len(bars.raw) >= limit

LookForQuote(t) ==
  /\ Runs(t, "QUOTE")
  /\ UNCHANGED <<World, faults, Login, lock, gate, Caches>>
  /\ IF Recent(quote, QuoteTtl) THEN To(t, "BARS")
     ELSE Goes(t, [jobs[t] EXCEPT !.stage = "TOKEN", !.for = "QUOTE", !.cached = quote, !.tries = 0])

LookForBars(t) ==
  /\ Runs(t, "BARS")
  /\ UNCHANGED <<World, faults, Login, lock, gate, Caches>>
  /\ LET needed == jobs[t].load.needed
     IN  IF Fresh(needed) THEN HasBars(t, bars.raw)
         ELSE Goes(t, [jobs[t] EXCEPT !.stage = "TOKEN", !.for = "BARS", !.cached = Nothing, !.tries = 0,
                                      !.from = clock - 3 * Bar * needed])

(* The quote is the one that was read before the request, the bars are     *)
(* read again.                                                             *)
Failed(t) ==
  /\ Runs(t, "FAILED")
  /\ UNCHANGED <<World, faults, Login, lock, gate, Caches>>
  /\ CASE jobs[t].for = "BARS" /\ Recent(bars, StaleGrace) -> HasBars(t, bars.raw)
       [] jobs[t].for = "BARS" /\ ~Recent(bars, StaleGrace) -> IF t = Warmer THEN Goes(t, Idle) ELSE Replies(t, Nothing)
       [] jobs[t].for = "QUOTE" /\ (t = Warmer \/ Recent(jobs[t].cached, StaleGrace)) -> To(t, "BARS")
       [] OTHER -> Replies(t, Nothing)

(***************************************************************************)
(* Who asks.                                                               *)
(***************************************************************************)
Needed(tf, limit) == (limit + 1) * Ratio(tf) + WarmupBars

(* load_series as of now, or of an earlier instant (replay, paper trading, *)
(* backtests); the bars are asked for up to it.                            *)
Begin(t) ==
  /\ running = Nothing /\ jobs[t].stage \in {"IDLE", "REPLIED"} /\ left # <<>>
  /\ left' = Tail(left)
  /\ UNCHANGED <<scene, clock, faults, Login, lock, gate, Caches>>
  /\ LET asked == Head(left)
         now   == IF asked.past = Nothing THEN clock ELSE asked.past
     IN  Goes(t, Job([tf |-> asked.tf, limit |-> asked.limit, needed |-> Needed(asked.tf, asked.limit), end |-> now],
                     now, "TOKEN", "HEALTH"))

(* A cycle of _warm_provider_cache: no health check, no series.  One that  *)
(* finds both caches recent changes nothing.                               *)
Warm ==
  /\ scene.warmer
  /\ running = Nothing /\ jobs[Warmer] = Idle
  /\ ~Recent(quote, QuoteTtl) \/ ~Fresh(WarmLimit)
  /\ UNCHANGED <<World, faults, Login, lock, gate, Caches>>
  /\ Goes(Warmer, Job([tf |-> "H1", limit |-> WarmLimit, needed |-> WarmLimit, end |-> clock], clock, "QUOTE", "QUOTE"))

Tick ==
  /\ running = Nothing /\ clock < scene.until
  /\ clock' = clock + 1
  /\ UNCHANGED <<scene, left, faults, Login, lock, gate, running, Caches, jobs>>

Step(t) ==
  \/ EnsureToken(t) \/ Authenticate(t) \/ ResolveAccount(t) \/ Refresh(t)
  \/ Route(t) \/ Instruments(t) \/ Enter(t) \/ Answer(t)
  \/ LookForQuote(t) \/ LookForBars(t) \/ Failed(t)

Next == Tick \/ Warm \/ (\E t \in Tasks : Begin(t)) \/ (\E t \in Tasks \cup {Warmer} : Step(t))

(* Tasks that can go on do, every request ends (with its timeout at the    *)
(* latest), the warmer begins another cycle, and time passes meanwhile.    *)
Fairness == WF_vars(Warm) /\ SF_vars(Tick) /\ \A t \in Tasks \cup {Warmer} : WF_vars(Step(t))

Spec == Init /\ [][Next]_vars /\ Fairness
-----------------------------------------------------------------------------
Replied == {jobs[t] : t \in {u \in Tasks : jobs[u].stage = "REPLIED"}}

(* Types; one task at most is running, and whoever holds the lock or the   *)
(* gate is waiting for the answer it holds it for.                         *)
TypeOK ==
  /\ clock \in 0 .. scene.until /\ faults \in Nat
  /\ account \in BOOLEAN /\ (route => account)
  /\ token # Nothing => token.expires \in Nat
  /\ running # Nothing => ~Waits(jobs[running].stage)
  /\ \A t \in Tasks \cup {Warmer} :
       /\ lock = t <=> jobs[t].stage \in {"LOGIN", "ACCOUNT", "RENEW"}
       /\ gate = t <=> jobs[t].stage = "CALL"
  /\ bars # Nothing => \A i \in 1 .. Len(bars.raw) - 1 : bars.raw[i].slot <= bars.raw[i + 1].slot

(***************************************************************************)
(* What is shown can be trusted, whatever the cache held when it was       *)
(* asked: nothing of a series that is not usable, nothing from after the   *)
(* instant it is for, in order, no candle twice; a series that calls       *)
(* itself CURRENT ends with the latest candle that is due; and a derived   *)
(* candle that is closed has every source bar of a market-open slot        *)
(* (candles/service.py:168-203, normalize.py, aggregate.py).               *)
(***************************************************************************)
SeriesIsSound ==
  TypeOK /\ \A job \in Replied : \A reply \in {Reply(job)} : \A c \in {reply.candles} :
    LET tf == job.load.tf
        closed == {c[i].slot : i \in {j \in DOMAIN c : c[j].closed}}
    IN  /\ reply.quality \in Withheld => c = <<>>
        /\ \A i, j \in DOMAIN c : i < j => c[i].slot < c[j].slot
        /\ \A i \in DOMAIN c : c[i].slot * Duration(tf) <= job.now
        /\ \A s \in closed : (s + 1) * Duration(tf) <= job.now
        /\ reply.quality = "CURRENT" /\ tf = "H1" /\ closed # {}
             => Cardinality(ExpectedSlots(tf, Max(closed), job.now - LagGrace)) <= CurrentMax
        /\ \A i \in DOMAIN c :
             c[i].closed => \A s \in InSlot(tf, c[i].slot) : MarketOpen(s) => s \in DOMAIN c[i].parts

(***************************************************************************)
(* A closed candle that is older than the grace has its final prices,      *)
(* however late the answer came and whichever cache it went through        *)
(* (tradelocker.py:65-73: closed bars do not change).  A younger one may   *)
(* have been read while it was forming; and of two bars that contradict    *)
(* each other the cut to the bars asked for may leave but one, that nobody *)
(* can tell from a good one.                                               *)
(***************************************************************************)
Torn(answer, slot) == slot \in scene.doubled /\ slot = answer[1].slot

OldCandlesAreFinal ==
  \A job \in Replied : \A candles \in {Reply(job).candles} : \A i \in DOMAIN candles :
    candles[i].closed => \A s \in DOMAIN candles[i].parts :
      (s + 1) * Bar <= job.now - StaleGrace /\ ~Torn(job.answer, s) => candles[i].parts[s] = Bar

(***************************************************************************)
(* Once the account was found, the feed comes back from any number of      *)
(* failures: in the end the cache holds recent bars (main.py:55-58).       *)
(***************************************************************************)
Steady == Recent(bars, Ttl)
FeedComesBack == (scene.warmer /\ <>account) => <>[]Steady

(* "A cached series is always available and the feed stays steady": in     *)
(* the end it is, when the broker fails but once (main.py:58).             *)
FeedIsSteady == scene.warmer => <>[]Steady
=============================================================================
