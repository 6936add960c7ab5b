----------------------------- MODULE AlertRules -----------------------------
(***************************************************************************)
(* What the alert monitor says of one look at a symbol: alerts/rules.py    *)
(* (derive, memory_of), alerts/ready.py (checklist) and the feed with its  *)
(* dedupe keys (alerts/store.py).  All of it is pure: a look (Snapshot),   *)
(* the memory of the look before it, and what comes out.                   *)
(*                                                                         *)
(* An event is what the engines report, with what the rules ask of it: its *)
(* family, its kind, what it is on (a pool type, a zone) and whether its   *)
(* grade or strength reaches the configured minimum.  Texts, prices and    *)
(* directions of alerts are left out; an alert is its type and reference.  *)
(***************************************************************************)
EXTENDS Integers, Sequences, FiniteSets, FiniteSetsExt, SequencesExt

CONSTANTS
  Nothing,   \* None: no setup, no bias, a gate that was not read, no last bar
  Events,    \* the events that can happen
  Report,    \* what is reported of each
  Pools,     \* pools price can approach
  Locks,     \* RiskLock
  Warnings,  \* EntryWarning
  Sessions,  \* SessionName
  Setups,    \* ids of open setups
  Releases,  \* ids of HIGH or EXTREME calendar events
  Minutes,   \* news.json countdownMinutes
  Zones,     \* zones of PD arrays
  Grace,     \* alerts.json noveltyGraceBars, in ticks
  Cooldown   \* alerts.json categoryCooldownSeconds, in ticks

NewsStates == {"CLEAR", "CAUTION", "BLACKOUT", "POST_NEWS_WAIT", "NORMALIZED", "UNAVAILABLE"}
Biases     == {"BULLISH", "BEARISH", "NEUTRAL"}

(* What an alert can refer to other than an event: the engines' ids of     *)
(* events are their own.                                                   *)
References ==
  {"decision", "news", "monitor"} \cup Releases \cup {Nothing} \cup Locks \cup Pools
    \cup ((Releases \cup {Nothing}) \X Minutes) \cup (Biases \X Biases) \cup (Setups \X Warnings)
    \cup ((SUBSET Sessions) \X (SUBSET Sessions))

Families == {"setup", "structure", "liquidity", "pool", "displacement", "pd", "nowick", "nowickzone"}

ASSUME AlertRulesAssumption ==
  /\ Grace \in Nat /\ Minutes \subseteq Nat
  /\ \A c \in DOMAIN Cooldown : Cooldown[c] \in Nat \ {0}
  /\ \A e \in Events : Report[e].family \in Families /\ Report[e].strong \in BOOLEAN
  /\ \A e \in Events : e \notin References

KeyLevels    == {"PDH", "PDL", "PWH", "PWL"}
SessionPools == {"ASIA_HIGH", "ASIA_LOW", "LONDON_HIGH", "LONDON_LOW",
                 "NY_AM_HIGH", "NY_AM_LOW", "NY_PM_HIGH", "NY_PM_LOW"}
SetupAlerts ==
  [SETUP_ARMED |-> "SETUP_ARMED", ENTRY_ZONE_APPROACHING |-> "ENTRY_ZONE_APPROACHING",
   ENTRY_ZONE_TOUCHED |-> "ENTRY_ZONE_TOUCHED", BLOCKED |-> "ENTRY_CONFIRMED_PENDING_GATES",
   ENTRY_MISSED |-> "ENTRY_MISSED", INVALIDATED |-> "SETUP_INVALIDATED", EXPIRED |-> "SETUP_EXPIRED"]
PdAlerts ==
  [CREATED |-> "FVG_CREATED", IFVG_CONFIRMED |-> "FVG_CREATED", TOUCHED |-> "FVG_TOUCHED",
   INVALIDATED |-> "FVG_INVALIDATED"]
NoWickZoneAlerts == {"FULLY_REBALANCED", "REACTED", "FAILED"}

(* The category of each alert type, and with it the cooldown.              *)
Categories ==
  [INFORMATIONAL |-> {"FVG_CREATED", "FVG_INVALIDATED", "SESSION_CHANGE", "DATA_RESTORED", "NEWS_CLEARED"},
   WATCH    |-> {"LIQUIDITY_APPROACHING", "LIQUIDITY_SWEEP", "LIQUIDITY_RUN", "EQUAL_LEVEL_CREATED",
                 "KEY_LEVEL_INTERACTION", "SESSION_LIQUIDITY_EVENT", "DISPLACEMENT", "NO_WICK_EVENT",
                 "NO_WICK_REBALANCE", "FVG_TOUCHED", "MACRO_SHIFT"},
   SETUP    |-> {"STRUCTURE_BREAK", "SETUP_ARMED", "SETUP_INVALIDATED", "SETUP_EXPIRED"},
   ENTRY    |-> {"ENTRY_ZONE_APPROACHING", "ENTRY_ZONE_TOUCHED", "ENTRY_CONFIRMED_PENDING_GATES",
                 "ENTRY_MISSED", "EARLY_ENTRY_WARNING", "READY"},
   RISK     |-> {"RISK_LOCK", "RISK_LOCK_CLEARED", "NEWS_COUNTDOWN", "NEWS_BLACKOUT"},
   CRITICAL |-> {"DATA_UNAVAILABLE", "MONITOR_FAILURE"}]
AlertTypes == UNION {Categories[c] : c \in DOMAIN Categories}
Category   == [t \in AlertTypes |-> CHOOSE c \in DOMAIN Categories : t \in Categories[c]]

-----------------------------------------------------------------------------
(* A look: verdict is the decision's; everything else comes from the       *)
(* evaluation and the setup run, which are read later.  events maps those  *)
(* in the window to the bar they happened on; asOf is Nothing when the     *)
(* series was withheld.                                                    *)
(*   near: pools APPROACHING; offered: those external and untaken          *)
(*   setup: Nothing or the open setup [id, zones, done, side]              *)
(*   risk: Nothing or [ok, locks]; macro: Nothing or a bias                *)
(*   news: Nothing or [state, active, next, within, blocked]               *)
Verdicts == {"LONG", "SHORT", "WAIT", "NO_TRADE", "UNAVAILABLE"}

(* What an evaluation can find, and the look it makes of a decision.       *)
Finding ==
  [eligible : BOOLEAN, near : SUBSET Pools, offered : SUBSET Pools,
   setup : [id : Setups, zones : SUBSET Zones, done : BOOLEAN, side : {"BULLISH", "BEARISH"}] \cup {Nothing},
   warnings : SUBSET Warnings, risk : [ok : BOOLEAN, locks : SUBSET Locks] \cup {Nothing},
   news : [state : NewsStates, active : Releases \cup {Nothing}, next : Releases \cup {Nothing},
           within : Nat, blocked : BOOLEAN] \cup {Nothing},
   macro : Biases \cup {Nothing}, sessions : SUBSET Sessions]
Look(c, verdict, asOf, events) ==
  [verdict |-> verdict, asOf |-> asOf, events |-> events, eligible |-> c.eligible, near |-> c.near,
   offered |-> c.offered, setup |-> c.setup, warnings |-> c.warnings, risk |-> c.risk, news |-> c.news,
   macro |-> c.macro, sessions |-> c.sessions]

SetupId(look) == IF look.setup = Nothing THEN Nothing ELSE look.setup.id
Usable(look)  == look.verdict # "UNAVAILABLE"
Eligible(look) == look.eligible /\ Usable(look)

(* _crossed: the thresholds the next release has come within.              *)
Crossed(news) ==
  IF news = Nothing \/ news.next = Nothing THEN {} ELSE {<<news.next, m>> : m \in {n \in Minutes : news.within <= n}}

(* memory_of                                                               *)
MemoryOf(look) ==
  [asOf |-> look.asOf, seen |-> DOMAIN look.events, near |-> look.near, verdict |-> look.verdict,
   locks |-> IF look.risk = Nothing THEN {} ELSE look.risk.locks,
   warnings |-> look.warnings, setup |-> SetupId(look), sessions |-> look.sessions,
   news |-> IF look.news = Nothing THEN Nothing ELSE look.news.state,
   macro |-> look.macro, countdowns |-> Crossed(look.news)]

Memory ==
  [asOf : Nat \cup {Nothing}, seen : SUBSET Events, near : SUBSET Pools,
   verdict : Verdicts,
   locks : SUBSET Locks, warnings : SUBSET Warnings, setup : Setups \cup {Nothing},
   sessions : SUBSET Sessions, news : NewsStates \cup {Nothing}, macro : Biases \cup {Nothing},
   countdowns : SUBSET (Releases \X Minutes)]

When(condition, alerts) == IF condition THEN alerts ELSE {}

DecisionAlerts(look, prev) ==
  When(~Usable(look) /\ prev.verdict # "UNAVAILABLE", {<<"DATA_UNAVAILABLE", "decision">>})
    \cup When(Usable(look) /\ prev.verdict = "UNAVAILABLE", {<<"DATA_RESTORED", "decision">>})

(* Calendar-driven: told whatever the market data are worth.               *)
Blocked == {"BLACKOUT", "POST_NEWS_WAIT"}
NewsAlerts(look, prev) ==
  IF look.news = Nothing THEN {}
  ELSE LET fresh == Crossed(look.news) \ prev.countdowns
       IN  When(/\ look.news.state = "BLACKOUT" /\ prev.news # "BLACKOUT"
                /\ look.news.active # Nothing, {<<"NEWS_BLACKOUT", look.news.active>>})
             \cup When(prev.news \in Blocked /\ look.news.state \notin Blocked, {<<"NEWS_CLEARED", "news">>})
             \cup When(fresh # {}, {<<"NEWS_COUNTDOWN", <<look.news.next, Min({c[2] : c \in fresh})>> >>})

MacroAlerts(look, prev) ==
  When(Nothing \notin {look.macro, prev.macro} /\ look.macro # prev.macro,
       {<<"MACRO_SHIFT", <<prev.macro, look.macro>> >>})

(* What is remembered: countdowns add up and an outage of the macro data   *)
(* does not reset the last bias.                                           *)
Remembered(look, prev) ==
  [MemoryOf(look) EXCEPT
     !.countdowns = IF look.news = Nothing THEN @ ELSE @ \cup prev.countdowns,
     !.macro = IF @ = Nothing THEN prev.macro ELSE @]

RiskAlerts(look, prev) ==
  IF look.risk = Nothing THEN {}
  ELSE {<<"RISK_LOCK", l>> : l \in look.risk.locks \ prev.locks}
         \cup {<<"RISK_LOCK_CLEARED", l>> : l \in prev.locks \ look.risk.locks}

SessionAlerts(look, prev) ==
  When(look.sessions # prev.sessions,
       {<<"SESSION_CHANGE", <<look.sessions \ prev.sessions, prev.sessions \ look.sessions>> >>})

WarningAlerts(look, prev) ==
  IF look.setup = Nothing THEN {}
  ELSE {<<"EARLY_ENTRY_WARNING", <<look.setup.id, w>> >> :
          w \in look.warnings \ (IF prev.setup = look.setup.id THEN prev.warnings ELSE {})}

LiquidityTypes(r) ==
  CASE r.on \in KeyLevels                                                      -> {"KEY_LEVEL_INTERACTION"}
    [] r.on \in SessionPools /\ r.kind \in {"SWEEP", "RUN", "BREAK"}           -> {"SESSION_LIQUIDITY_EVENT"}
    [] r.on \notin KeyLevels \cup SessionPools /\ r.kind = "SWEEP"             -> {"LIQUIDITY_SWEEP"}
    [] r.on \notin KeyLevels \cup SessionPools /\ r.kind \in {"RUN", "BREAK"}  -> {"LIQUIDITY_RUN"}
    [] OTHER                                                                   -> {}

(* The type of alert an event raises: at most one.  A zone matters when it *)
(* is of the open setup or born of a strong displacement.                  *)
TypesOf(e, look) ==
  LET r == Report[e] IN
  CASE r.family = "setup"        -> {SetupAlerts[k] : k \in {r.kind} \cap DOMAIN SetupAlerts}
    [] r.family = "structure"    -> When(r.kind = "CONFIRMED", {"STRUCTURE_BREAK"})
    [] r.family = "liquidity"    -> LiquidityTypes(r)
    [] r.family = "pool"         -> When(r.kind \in {"EQH", "EQL"}, {"EQUAL_LEVEL_CREATED"})
    [] r.family = "displacement" -> When(r.strong, {"DISPLACEMENT"})
    [] r.family = "pd"           -> When(r.strong \/ (look.setup # Nothing /\ r.on \in look.setup.zones),
                                         {PdAlerts[k] : k \in {r.kind} \cap DOMAIN PdAlerts})
    [] r.family = "nowick"       -> When(r.strong, {"NO_WICK_EVENT"})
    [] r.family = "nowickzone"   -> When(r.kind \in NoWickZoneAlerts, {"NO_WICK_REBALANCE"})

(* new: not seen by the look before, nor older than one setup bar before   *)
(* its as-of.                                                              *)
(* Mutant: what happened since the look before is new, seen or not.        *)
RecentIsNew(e, look, prev) == prev.asOf # Nothing => look.events[e] >= prev.asOf - Grace

New(e, look, prev) ==
  /\ e \notin prev.seen
  /\ prev.asOf # Nothing => look.events[e] >= prev.asOf - Grace

EventAlerts(look, prev) ==
  (UNION {{<<t, e>> : t \in TypesOf(e, look)} : e \in {d \in DOMAIN look.events : New(d, look, prev)}})
    \cup {<<"LIQUIDITY_APPROACHING", p>> : p \in look.offered \ prev.near}

(* derive: the first look is a silent baseline; market alerts come only    *)
(* from data that are eligible for a decision.                             *)
Derive(look, prev) ==
  IF prev = Nothing THEN {}
  ELSE DecisionAlerts(look, prev) \cup NewsAlerts(look, prev) \cup MacroAlerts(look, prev)
         \cup When(Eligible(look), RiskAlerts(look, prev) \cup SessionAlerts(look, prev)
                                     \cup WarningAlerts(look, prev) \cup EventAlerts(look, prev))

NextMemory(look, prev) == IF prev = Nothing THEN MemoryOf(look) ELSE Remembered(look, prev)

-----------------------------------------------------------------------------
(* The feed: when the alert of a key <<symbol, type, reference>> last went  *)
(* out.  A key that cooled off is as good as one never seen, so it is       *)
(* dropped here at once and by _prune some time later.  Sequence numbers,   *)
(* the buffer and the counts of suppressed alerts are left out.             *)
CooledOff(key, since, at) == at - since >= Cooldown[Category[key[2]]]

Cooling(feed, at) == [k \in {x \in DOMAIN feed : ~CooledOff(x, feed[x], at)} |-> feed[k]]

(* add, for every alert of a look at once: their keys differ.               *)
Add(feed, symbol, alerts, at) ==
  LET cooling == Cooling(feed, at)
  IN  [k \in DOMAIN cooling \cup {<<symbol, a[1], a[2]>> : a \in alerts} |->
         IF k \in DOMAIN cooling THEN feed[k] ELSE at]

-----------------------------------------------------------------------------
(* checklist: what a ready watch of a side (or of either, Nothing) comes   *)
(* to on a look.                                                           *)
VerdictFor == [BULLISH |-> "LONG", BEARISH |-> "SHORT"]

Wanted(side) == IF side = Nothing THEN {"LONG", "SHORT"} ELSE {VerdictFor[side]}

Fires(look, side, authority) ==
  Usable(look) /\ authority = "FULL" /\ look.verdict \in Wanted(side)

(* The open setup is of the side and has done every step; risk and news    *)
(* are clear.                                                              *)
SetupDone(look, side) ==
  /\ look.setup # Nothing /\ look.setup.done
  /\ side # Nothing => look.setup.side = side
  /\ look.risk # Nothing /\ look.risk.ok
  /\ look.news # Nothing /\ ~look.news.blocked
  /\ look.news.state \in {"CLEAR", "NORMALIZED", "CAUTION"}

WatchStates == {"WAITING", "GATES_PENDING", "UNAVAILABLE", "FIRED"}
Checklist(look, side, authority) ==
  CASE Fires(look, side, authority) -> "FIRED"
    [] ~Usable(look)                -> "UNAVAILABLE"
    [] OTHER                        -> IF SetupDone(look, side) THEN "GATES_PENDING" ELSE "WAITING"
=============================================================================
