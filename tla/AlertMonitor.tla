---------------------------- MODULE AlertMonitor ----------------------------
(***************************************************************************)
(* The alert monitor (alerts/service.py): one loop that visits the         *)
(* monitored symbols in turn, decides whether a symbol is due, reads the   *)
(* decision, then the evaluation, and only then derives alerts and brings  *)
(* the ready watches up to date.  Each read is an await: ticks, events,    *)
(* and requests that add or remove watches come in between.  Everything    *)
(* lives in memory and a restart loses it.                                 *)
(***************************************************************************)
EXTENDS AlertRules

CONSTANTS
  Symbols,      \* instruments
  MaxMonitored, \* maxMonitoredSymbols
  MaxWatches,   \* maxReadyWatches
  MaxQuiet,     \* maxQuietSeconds, in ticks
  WatchIds,     \* bound: the ids uuid4 gives out, each once
  Sides,        \* bound: the directions of watches, Nothing for either
  MaxTime,      \* bound
  Scenes        \* bounds: what can happen in one behaviour; each has
                \*   configured: alerts.json monitoredSymbols, a sequence
                \*   authority: verdict_authority()
                \*   market: per symbol, the events that can happen
                \*   finds: per symbol, what else an evaluation can find
                \*   verdicts: per symbol, the verdicts it can get
                \*   outages: whether a series can be withheld or an analysis fail
                \*   fails: whether a read can raise
                \*   often: whether several cycles fit in a tick
                \*   ids: the watches there can be; restarts; ticks

Times == 0 .. MaxTime

ASSUME AlertMonitorAssumption ==
  /\ Nothing \notin Memory /\ Nothing \notin Nat
  /\ Events \cap WatchIds = {} /\ Sides \subseteq {Nothing, "BULLISH", "BEARISH"}
  /\ MaxMonitored \in Nat /\ MaxWatches \in Nat /\ MaxQuiet \in Nat
  /\ MaxTime \in Nat
  /\ \A c \in Scenes : /\ c.configured \in Seq(Symbols) /\ Len(c.configured) <= MaxMonitored
                       /\ c.market \in [Symbols -> SUBSET Events] /\ c.ids \subseteq WatchIds
                       /\ c.finds \in [Symbols -> SUBSET Finding] /\ c.verdicts \in [Symbols -> SUBSET Verdicts]
                       /\ c.restarts \in Nat /\ c.ticks \in Times

VARIABLES
  now,       \* the clock
  closes,    \* when bars closed
  happened,  \* per symbol: the events there were, and when
  scene,     \* what can happen
  memory,    \* _memory
  lastBar,   \* _last_bar
  lastFull,  \* _last_full
  feed,      \* the store
  watches,   \* _watches, in insertion order
  issued,    \* watch ids given out
  step,      \* where the loop is, and what it holds over its awaits
  restarts,
  polled,    \* the tick the last cycle started in
  heard      \* history: the events told that no look has let go of since

market == <<now, closes, happened, scene>>
mind   == <<memory, lastBar, lastFull, feed, heard>>
vars   == <<market, mind, watches, issued, step, restarts, polled>>

Idle == [at |-> "IDLE", todo |-> <<>>, asked |-> 0, verdict |-> Nothing]
Fresh ==
  /\ memory = [s \in Symbols |-> Nothing]
  /\ lastBar = [s \in {} |-> Nothing]
  /\ lastFull = [s \in Symbols |-> Nothing]
  /\ feed = [k \in {} |-> 0]
  /\ watches = <<>>
  /\ step = Idle
  /\ heard = [s \in Symbols |-> {}]

Init ==
  /\ now = 0 /\ closes = {} /\ happened = [s \in Symbols |-> [e \in {} |-> 0]]
  /\ scene \in Scenes
  /\ Fresh
  /\ issued = {} /\ restarts = 0 /\ polled = -1

Watch == [id : WatchIds, symbol : Symbols, side : Sides, state : WatchStates, checked : BOOLEAN]

Step    == [at : {"IDLE", "DUE", "DECISION", "EVALUATION"}, todo : Seq(Symbols), asked : Times,
            verdict : Verdicts \cup {Nothing}]
History == UNION {[es -> Times] : es \in SUBSET Events}

TypeOK ==
  /\ now \in 0 .. scene.ticks /\ closes \subseteq Times
  /\ happened \in [Symbols -> History]
  /\ \A s \in Symbols : DOMAIN happened[s] \subseteq scene.market[s] /\ \A e \in DOMAIN happened[s] : happened[s][e] \in closes
  /\ memory \in [Symbols -> Memory \cup {Nothing}]
  /\ DOMAIN lastBar \subseteq Symbols /\ Range(lastBar) \subseteq Times \cup {Nothing}
  /\ lastFull \in [Symbols -> Times \cup {Nothing}]
  /\ \A k \in DOMAIN feed : k[1] \in Symbols /\ k[2] \in DOMAIN Category /\ feed[k] \in Times
  /\ watches \in Seq(Watch) /\ Len(watches) <= MaxWatches /\ issued \subseteq WatchIds
  /\ step \in Step
  /\ restarts \in 0 .. scene.restarts /\ polled \in Times \cup {-1} /\ heard \in [Symbols -> SUBSET Events]

WatchSet == Range(watches)

(* monitored_symbols: the configured ones, then those that watches bring,  *)
(* in the order of the first watch of each.                                *)
Brings(i) ==
  /\ watches[i].symbol \notin Range(scene.configured)
  /\ \A j \in 1 .. i - 1 : watches[j].symbol # watches[i].symbol
Bringing == {i \in DOMAIN watches : Brings(i)}
Nth(n)   == CHOOSE i \in Bringing : Cardinality({j \in Bringing : j <= i}) = n
Extra    == [n \in 1 .. Cardinality(Bringing) |-> watches[Nth(n)].symbol]
Monitored ==
  LET all == scene.configured \o Extra IN SubSeq(all, 1, Min({Len(all), MaxMonitored}))

(* A dict with one more or one other entry.                                *)
Put(f, k, v) == [x \in DOMAIN f \cup {k} |-> IF x = k THEN v ELSE f[x]]

-----------------------------------------------------------------------------
(* The market.  A tick may close a bar, and an event is known at a close.  *)
Tick ==
  /\ now < scene.ticks
  /\ now' = now + 1
  /\ \/ UNCHANGED <<closes, happened>>
     \/ /\ closes' = closes \cup {now + 1}
        /\ \/ UNCHANGED happened
           \/ \E s \in Symbols : \E e \in scene.market[s] \ DOMAIN happened[s] :
                happened' = [happened EXCEPT ![s] = Put(@, e, now + 1)]
  /\ UNCHANGED <<scene, mind, watches, issued, step, restarts, polled>>

LastClose(t) ==
  LET past == {c \in closes : c <= t} IN IF past = {} THEN Nothing ELSE Max(past)

(* What the engines report at t: of the events known by then any may be    *)
(* missing, and may come back.  Pools are windowed; the daily, bias,       *)
(* session or execution series can be withheld, a stage of the pipeline or *)
(* the whole analysis can fail, and the look has candles all the same.     *)
Reported(s, t) ==
  LET known == {e \in DOMAIN happened[s] : happened[s][e] <= t}
  IN  {[e \in those |-> happened[s][e]] : those \in SUBSET known}

-----------------------------------------------------------------------------
(* The loop.                                                               *)
Symbol == Head(step.todo)

(* _unchecked_watch                                                        *)
UncheckedWatch(s, ws) == \E w \in Range(ws) : w.symbol = s /\ ~w.checked

(* On to the first symbol of todo: a new watch makes it due at once.       *)
Enter(todo, ws) ==
  IF todo = <<>> THEN Idle
  ELSE [at |-> IF UncheckedWatch(Head(todo), ws) THEN "DECISION" ELSE "DUE",
        todo |-> todo, asked |-> now, verdict |-> Nothing]

StartCycle ==
  /\ step.at = "IDLE" /\ (scene.often \/ polled # now)
  /\ polled' = now
  /\ step' = Enter(Monitored, watches)
  /\ UNCHANGED <<market, mind, watches, issued, restarts>>

(* Quiet for too long since the last full evaluation, or none yet.         *)
(* Mutant: only a new bar makes a symbol due.                              *)
NeverQuiet(s) == lastFull[s] = Nothing
Quiet(s) == IF lastFull[s] = Nothing THEN TRUE ELSE now - lastFull[s] >= MaxQuiet

(* _due: the last closed bar of the loaded series, None when it was        *)
(* withheld; it counts as looked at before it is evaluated.                *)
Due ==
  /\ step.at = "DUE"
  /\ \E bar \in {LastClose(step.asked)} \cup When(scene.outages, {Nothing}) :
       /\ lastBar' = Put(lastBar, Symbol, bar)
       /\ step' = IF lastBar' # lastBar \/ Quiet(Symbol)
                  THEN [step EXCEPT !.at = "DECISION", !.asked = now]
                  ELSE Enter(Tail(step.todo), watches)
  /\ UNCHANGED <<market, memory, lastFull, feed, heard, watches, issued, restarts, polled>>

ReadDecision ==
  /\ step.at = "DECISION"
  /\ \E v \in scene.verdicts[Symbol] : step' = [step EXCEPT !.at = "EVALUATION", !.verdict = v]
  /\ UNCHANGED <<market, mind, watches, issued, restarts, polled>>

(* A look: the decision read before, the evaluation read now.  What is     *)
(* withheld or fails mostly costs the look its eligibility (not that of the*)
(* no-wick stage or of the execution series); without candles it has       *)
(* neither an as-of nor events.                                            *)
Looks(s) ==
  LET worse == When(scene.outages, {[c EXCEPT !.eligible = FALSE] : c \in scene.finds[s]})
  IN  {Look(c, step.verdict, LastClose(step.asked), ev) :
         c \in scene.finds[s] \cup worse, ev \in Reported(s, step.asked)}
        \cup {Look(c, step.verdict, Nothing, [e \in {} |-> 0]) : c \in worse}

(* The events a look lets go of: those it does not report although they    *)
(* are still within the grace of its as-of, and without candles all.       *)
LetGo(s, look) ==
  IF look.asOf = Nothing THEN Events
  ELSE {e \in DOMAIN happened[s] \ DOMAIN look.events : happened[s][e] >= look.asOf - Grace}

(* Mutant: a fired watch is checked again.                                 *)
CheckedAgain(w, look) ==
  IF w.symbol # Symbol THEN w ELSE [w EXCEPT !.state = Checklist(look, w.side, scene.authority), !.checked = TRUE]

(* One watch after a look, and the READY alerts of those that fire.        *)
Checked(w, look) ==
  IF w.symbol # Symbol \/ w.state = "FIRED" THEN w
  ELSE [w EXCEPT !.state = Checklist(look, w.side, scene.authority), !.checked = TRUE]
Firing(look) ==
  {w \in WatchSet : w.symbol = Symbol /\ w.state # "FIRED" /\ Fires(look, w.side, scene.authority)}

(* The second half of _evaluate_symbol: no await from here on.             *)
Evaluate ==
  /\ step.at = "EVALUATION"
  /\ \E look \in Looks(Symbol) :
       LET s     == Symbol
           told  == Derive(look, memory[s])
           ready == {<<"READY", w.id>> : w \in Firing(look)}
       IN  /\ memory' = [memory EXCEPT ![s] = NextMemory(look, @)]
           /\ feed' = Add(feed, s, told \cup ready, step.asked)
           /\ watches' = [i \in DOMAIN watches |-> Checked(watches[i], look)]
           /\ heard' = [heard EXCEPT ![s] = (@ \cup (DOMAIN look.events \cap {a[2] : a \in told}))
                                              \ LetGo(s, look)]
  /\ lastFull' = [lastFull EXCEPT ![Symbol] = now]
  /\ step' = Enter(Tail(step.todo), watches')
  /\ UNCHANGED <<market, lastBar, issued, restarts, polled>>

(* Either read raises: one MONITOR_FAILURE, and on to the next symbol.     *)
Fail ==
  /\ scene.fails /\ step.at \in {"DECISION", "EVALUATION"}
  /\ feed' = Add(feed, Symbol, {<<"MONITOR_FAILURE", "monitor">>}, now)
  /\ step' = Enter(Tail(step.todo), watches)
  /\ UNCHANGED <<market, memory, lastBar, lastFull, heard, watches, issued, restarts, polled>>

-----------------------------------------------------------------------------
(* Requests.  Both run without an await.                                   *)
RoomFor(s) == s \in Range(Monitored) \/ Len(Monitored) < MaxMonitored

UnderLimit == Len(watches) < MaxWatches

(* add_watch: an open watch like it is returned as it is.                  *)
AddWatch(s, side) ==
  /\ UnderLimit /\ RoomFor(s)
  /\ ~\E w \in WatchSet : w.symbol = s /\ w.side = side /\ w.state # "FIRED"
  /\ \E id \in scene.ids \ issued :
       /\ watches' = Append(watches, [id |-> id, symbol |-> s, side |-> side, state |-> "WAITING", checked |-> FALSE])
       /\ issued' = issued \cup {id}
  /\ UNCHANGED <<market, mind, step, restarts, polled>>

RemoveWatch(id) ==
  /\ \E i \in DOMAIN watches : watches[i].id = id /\ watches' = RemoveAt(watches, i)
  /\ UNCHANGED <<market, mind, issued, step, restarts, polled>>

Restart ==
  /\ restarts < scene.restarts
  /\ restarts' = restarts + 1 /\ polled' = -1
  /\ memory' = [s \in Symbols |-> Nothing]
  /\ lastBar' = [s \in {} |-> Nothing]
  /\ lastFull' = [s \in Symbols |-> Nothing]
  /\ feed' = [k \in {} |-> 0]
  /\ watches' = <<>>
  /\ step' = Idle
  /\ heard' = [s \in Symbols |-> {}]
  /\ UNCHANGED <<market, issued>>

Next ==
  \/ Tick
  \/ StartCycle
  \/ Due
  \/ ReadDecision
  \/ Evaluate
  \/ Fail
  \/ \E s \in Symbols, side \in Sides : AddWatch(s, side)
  \/ \E id \in WatchIds : RemoveWatch(id)
  \/ Restart

(* run_forever: the loop never stops and time goes on.  A symbol whose     *)
(* reads are tried again and again is read some time.                      *)
Fairness ==
  /\ WF_vars(Tick)
  /\ WF_vars(StartCycle) /\ WF_vars(Due)
  /\ SF_vars(ReadDecision)
  /\ \A s \in Symbols : SF_vars(Evaluate /\ Symbol = s)

Spec     == Init /\ [][Next]_vars
FairSpec == Spec /\ Fairness

-----------------------------------------------------------------------------
Told(key) == key \in DOMAIN feed' /\ (key \notin DOMAIN feed \/ feed'[key] # feed[key])
NewKeys   == {k \in DOMAIN feed' : Told(k)}

(* An event that was told is not told again for as long as the process     *)
(* runs and every look since has either reported it or come when it was    *)
(* past the grace: not by the looks that follow when its cooldown is over, *)
(* nor when an old event goes and comes back (derive, AlertStore.add).     *)
(* Once a look has let go of it, it can be told again: README, 6.          *)
NothingTwice == \A k \in NewKeys : k[3] \in Events => k[3] \notin heard[k[1]]
ToldOnce     == []TypeOK /\ [][NothingTwice]_vars

(* The gates that raise alerts whatever the market data are worth.         *)
Untrusted == {"DATA_UNAVAILABLE", "DATA_RESTORED", "NEWS_BLACKOUT", "NEWS_CLEARED", "NEWS_COUNTDOWN",
              "MACRO_SHIFT", "MONITOR_FAILURE"}

(* An alert has its cause: of the market only from a usable decision; and  *)
(* READY for a watch that had not fired and fires now, under FULL          *)
(* authority, on a decision in its direction.  A fired watch stays so.     *)
Trusted == \A k \in NewKeys : k[2] \notin Untrusted => memory'[k[1]].verdict # "UNAVAILABLE"
ReadyIsEarned ==
  \A k \in NewKeys : k[2] = "READY" =>
    \E w \in WatchSet : /\ w.id = k[3] /\ w.state # "FIRED" /\ scene.authority = "FULL"
                        /\ step.verdict \in Wanted(w.side)
                        /\ \E v \in Range(watches') : v.id = w.id /\ v.state = "FIRED"
FiredIsFinal ==
  \A w \in WatchSet : w.state = "FIRED" => \A v \in Range(watches') : v.id = w.id => v.state = "FIRED"
AlertsAreEarned == [][Trusted /\ ReadyIsEarned /\ FiredIsFinal]_vars

(* A new watch is looked at, or is gone.                                   *)
EveryWatchIsChecked ==
  \A id \in WatchIds :
    (scene.often /\ \E w \in WatchSet : w.id = id) ~> (\A w \in WatchSet : w.id = id => w.checked)

(* A failing symbol is tried until it is read, although its bar counts as  *)
(* looked at: a configured symbol that was not evaluated for maxQuiet is.   *)
Overdue(s) == lastFull[s] = Nothing \/ now - lastFull[s] >= MaxQuiet
EverySymbolIsRead ==
  \A s \in Symbols : (scene.often /\ s \in Range(scene.configured) /\ Overdue(s)) ~> ~Overdue(s)

(* Both: neither a watch nor a symbol is left behind.                      *)
NothingIsForgotten == EveryWatchIsChecked /\ EverySymbolIsRead
=============================================================================
