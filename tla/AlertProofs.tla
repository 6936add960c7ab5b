----------------------------- MODULE AlertProofs -----------------------------
(***************************************************************************)
(* What is proved of the alert monitor, for every set of symbols, events,  *)
(* watches and scenes: it tells no event twice that no look has let go of, *)
(* and no alert goes out without its cause.                                *)
(***************************************************************************)
EXTENDS AlertMonitor, SequenceTheorems, FiniteSetTheorems, WellFoundedInduction, TLAPS

-----------------------------------------------------------------------------
(* A non-empty set of naturals has a least element, and one that is        *)
(* bounded a greatest.                                                     *)
LEMMA LeastExists ==
  ASSUME NEW S \in SUBSET Nat, S # {}
  PROVE  \E x \in S : \A y \in S : x <= y
<1>1. \E x \in S : \A y \in S : ~ (<<y, x>> \in OpToRel(<, Nat))
  BY NatLessThanWellFounded, WFMin
<1>2. PICK x \in S : \A y \in S : ~ (y < x)
  BY <1>1 DEF OpToRel
<1>3. \A y \in S : x <= y
  BY <1>2
<1> QED
  BY <1>3

LEMMA MinFacts ==
  ASSUME NEW S \in SUBSET Nat, S # {}
  PROVE  Min(S) \in S
BY LeastExists DEF Min

LEMMA MaxFacts ==
  ASSUME NEW S \in SUBSET Nat, S # {}, NEW b \in Nat, \A x \in S : x <= b
  PROVE  Max(S) \in S /\ \A y \in S : Max(S) >= y
<1> DEFINE T == {b - x : x \in S}
<1>1. T \in SUBSET Nat /\ T # {}
  <2>1. \A x \in S : b - x \in Nat
    OBVIOUS
  <2> QED
    BY <2>1
<1>2. PICK m \in T : \A y \in T : m <= y
  BY <1>1, LeastExists
<1>3. PICK x \in S : m = b - x
  BY <1>2
<1>4. \A y \in S : x >= y
  <2> SUFFICES ASSUME NEW y \in S
               PROVE  x >= y
    OBVIOUS
  <2>1. b - x <= b - y
    BY <1>2, <1>3
  <2> QED
    BY <2>1
<1> QED
  BY <1>4 DEF Max

-----------------------------------------------------------------------------
(* The rules.                                                              *)
LookTyped(look) ==
  /\ look.verdict \in Verdicts /\ look.near \in SUBSET Pools /\ look.offered \in SUBSET Pools
  /\ look.setup \in [id : Setups, zones : SUBSET Zones, done : BOOLEAN, side : {"BULLISH", "BEARISH"}] \cup {Nothing}
  /\ look.warnings \in SUBSET Warnings
  /\ look.risk \in [ok : BOOLEAN, locks : SUBSET Locks] \cup {Nothing}
  /\ look.news \in [state : NewsStates, active : Releases \cup {Nothing}, next : Releases \cup {Nothing},
                    within : Nat, blocked : BOOLEAN] \cup {Nothing}
  /\ look.macro \in Biases \cup {Nothing} /\ look.sessions \in SUBSET Sessions
  /\ DOMAIN look.events \in SUBSET Events /\ look.asOf \in Nat \cup {Nothing}

LEMMA LooksAreTyped ==
  ASSUME NEW c \in Finding, NEW v \in Verdicts, NEW t \in Nat \cup {Nothing}, NEW es,
         DOMAIN es \in SUBSET Events
  PROVE  /\ LookTyped(Look(c, v, t, es))
         /\ Look(c, v, t, es).verdict = v /\ Look(c, v, t, es).asOf = t /\ Look(c, v, t, es).events = es
<1> DEFINE look == Look(c, v, t, es)
<1>1. /\ look.verdict = v /\ look.asOf = t /\ look.events = es /\ look.eligible = c.eligible
      /\ look.near = c.near /\ look.offered = c.offered /\ look.setup = c.setup
      /\ look.warnings = c.warnings /\ look.risk = c.risk /\ look.news = c.news
      /\ look.macro = c.macro /\ look.sessions = c.sessions
  BY DEF Look
<1> HIDE DEF look
<1>2. LookTyped(look)
  BY <1>1 DEF LookTyped, Finding
<1> QED
  BY <1>1, <1>2 DEF look

LEMMA CrossedFacts ==
  ASSUME NEW look, LookTyped(look)
  PROVE  Crossed(look.news) \in SUBSET (Releases \X Minutes)
BY DEF LookTyped, Crossed

LEMMA MemoryTyped ==
  ASSUME NEW look, LookTyped(look), NEW prev \in Memory \cup {Nothing}
  PROVE  LET m == NextMemory(look, prev)
         IN  /\ m \in Memory
             /\ m.asOf = look.asOf /\ m.seen = DOMAIN look.events /\ m.verdict = look.verdict
<1> DEFINE m == NextMemory(look, prev)
           b == MemoryOf(look)
<1>1. b.asOf = look.asOf /\ b.seen = DOMAIN look.events /\ b.verdict = look.verdict
  BY DEF MemoryOf
<1>2. b \in Memory
  BY CrossedFacts DEF MemoryOf, Memory, LookTyped, SetupId
<1>3. CASE prev = Nothing
  BY <1>1, <1>2, <1>3 DEF NextMemory
<1>4. CASE prev # Nothing
  <2>1. prev \in Memory /\ m = Remembered(look, prev)
    BY <1>4 DEF NextMemory
  <2> DEFINE cs == IF look.news = Nothing THEN b.countdowns ELSE b.countdowns \cup prev.countdowns
             bias == IF b.macro = Nothing THEN prev.macro ELSE b.macro
  <2>2. m = [[b EXCEPT !.countdowns = cs] EXCEPT !.macro = bias]
    BY <2>1, <1>2 DEF Remembered, Memory
  <2>3. cs \in SUBSET (Releases \X Minutes) /\ bias \in Biases \cup {Nothing}
    BY <1>2, <2>1 DEF Memory
  <2> HIDE DEF m, b, cs, bias
  <2> QED
    BY <1>1, <1>2, <2>2, <2>3 DEF Memory, m
<1> QED
  BY <1>3, <1>4

(* The types there are, and those of alerts told whatever the market data  *)
(* are worth.                                                              *)
LEMMA AlertTypesAre ==
  AlertTypes = {"FVG_CREATED", "FVG_INVALIDATED", "SESSION_CHANGE", "DATA_RESTORED", "NEWS_CLEARED",
                "LIQUIDITY_APPROACHING", "LIQUIDITY_SWEEP", "LIQUIDITY_RUN", "EQUAL_LEVEL_CREATED",
                "KEY_LEVEL_INTERACTION", "SESSION_LIQUIDITY_EVENT", "DISPLACEMENT", "NO_WICK_EVENT",
                "NO_WICK_REBALANCE", "FVG_TOUCHED", "MACRO_SHIFT",
                "STRUCTURE_BREAK", "SETUP_ARMED", "SETUP_INVALIDATED", "SETUP_EXPIRED",
                "ENTRY_ZONE_APPROACHING", "ENTRY_ZONE_TOUCHED", "ENTRY_CONFIRMED_PENDING_GATES",
                "ENTRY_MISSED", "EARLY_ENTRY_WARNING", "READY",
                "RISK_LOCK", "RISK_LOCK_CLEARED", "NEWS_COUNTDOWN", "NEWS_BLACKOUT",
                "DATA_UNAVAILABLE", "MONITOR_FAILURE"}
<1>1. AlertTypes = Categories.INFORMATIONAL \cup Categories.WATCH \cup Categories.SETUP
                     \cup Categories.ENTRY \cup Categories.RISK \cup Categories.CRITICAL
  <2>1. DOMAIN Categories = {"INFORMATIONAL", "WATCH", "SETUP", "ENTRY", "RISK", "CRITICAL"}
    BY DEF Categories
  <2>2. AlertTypes = UNION {Categories[c] : c \in {"INFORMATIONAL", "WATCH", "SETUP", "ENTRY", "RISK", "CRITICAL"}}
    BY Zenon, <2>1 DEF AlertTypes
  <2> QED
    BY Zenon, <2>2
<1>2. /\ Categories.INFORMATIONAL \cup Categories.WATCH
           = {"FVG_CREATED", "FVG_INVALIDATED", "SESSION_CHANGE", "DATA_RESTORED", "NEWS_CLEARED",
              "LIQUIDITY_APPROACHING", "LIQUIDITY_SWEEP", "LIQUIDITY_RUN", "EQUAL_LEVEL_CREATED",
              "KEY_LEVEL_INTERACTION", "SESSION_LIQUIDITY_EVENT", "DISPLACEMENT", "NO_WICK_EVENT",
              "NO_WICK_REBALANCE", "FVG_TOUCHED", "MACRO_SHIFT"}
      /\ Categories.SETUP \cup Categories.ENTRY
           = {"STRUCTURE_BREAK", "SETUP_ARMED", "SETUP_INVALIDATED", "SETUP_EXPIRED",
              "ENTRY_ZONE_APPROACHING", "ENTRY_ZONE_TOUCHED", "ENTRY_CONFIRMED_PENDING_GATES",
              "ENTRY_MISSED", "EARLY_ENTRY_WARNING", "READY"}
      /\ Categories.RISK \cup Categories.CRITICAL
           = {"RISK_LOCK", "RISK_LOCK_CLEARED", "NEWS_COUNTDOWN", "NEWS_BLACKOUT",
              "DATA_UNAVAILABLE", "MONITOR_FAILURE"}
  BY DEF Categories
<1> QED
  BY <1>1, <1>2

(* The causes of the alerts of each kind: the type, and what it refers to. *)
LEMMA DecisionCauses ==
  ASSUME NEW look, NEW prev, NEW a \in DecisionAlerts(look, prev)
  PROVE  a[1] \in {"DATA_UNAVAILABLE", "DATA_RESTORED"} /\ a[2] \in References
BY DEF DecisionAlerts, When, References

LEMMA NewsCauses ==
  ASSUME NEW look, LookTyped(look), NEW prev, NEW a \in NewsAlerts(look, prev)
  PROVE  a[1] \in {"NEWS_BLACKOUT", "NEWS_CLEARED", "NEWS_COUNTDOWN"} /\ a[2] \in References
<1> DEFINE fresh == Crossed(look.news) \ prev.countdowns
           n == Min({c[2] : c \in fresh})
<1>1. look.news # Nothing
  BY DEF NewsAlerts
<1>2. look.news.active \in Releases \cup {Nothing} /\ look.news.next \in Releases \cup {Nothing}
  BY <1>1 DEF LookTyped
<1>3. fresh # {} => n \in Minutes
  <2> HAVE fresh # {}
  <2>1. \A c \in fresh : c[2] \in Minutes
    BY CrossedFacts
  <2>2. Minutes \subseteq Nat
    BY AlertRulesAssumption
  <2> DEFINE S == {c[2] : c \in fresh}
  <2>3. S \subseteq Minutes /\ S # {}
    BY <2>1
  <2>4. Min(S) \in S
    BY <2>2, <2>3, MinFacts
  <2> QED
    BY <2>3, <2>4
<1>4. \/ a = <<"NEWS_BLACKOUT", look.news.active>>
      \/ a = <<"NEWS_CLEARED", "news">>
      \/ fresh # {} /\ a = <<"NEWS_COUNTDOWN", <<look.news.next, n>> >>
  BY <1>1 DEF NewsAlerts, When
<1> HIDE DEF fresh, n
<1> QED
  BY <1>2, <1>3, <1>4 DEF References

LEMMA MacroCauses ==
  ASSUME NEW look, LookTyped(look), NEW prev \in Memory, NEW a \in MacroAlerts(look, prev)
  PROVE  a[1] = "MACRO_SHIFT" /\ a[2] \in References
<1>1. a = <<"MACRO_SHIFT", <<prev.macro, look.macro>> >> /\ look.macro # Nothing /\ prev.macro # Nothing
  BY DEF MacroAlerts, When
<1>2. prev.macro \in Biases /\ look.macro \in Biases
  BY <1>1 DEF Memory, LookTyped
<1> QED
  BY <1>1, <1>2 DEF References

LEMMA RiskCauses ==
  ASSUME NEW look, LookTyped(look), NEW prev \in Memory, NEW a \in RiskAlerts(look, prev)
  PROVE  a[1] \in {"RISK_LOCK", "RISK_LOCK_CLEARED"} /\ a[2] \in References
<1>1. look.risk # Nothing
  BY DEF RiskAlerts
<1>2. look.risk.locks \subseteq Locks /\ prev.locks \subseteq Locks
  BY <1>1 DEF Memory, LookTyped
<1>3. \E l \in Locks : a = <<"RISK_LOCK", l>> \/ a = <<"RISK_LOCK_CLEARED", l>>
  BY <1>1, <1>2 DEF RiskAlerts
<1> QED
  BY <1>3 DEF References

LEMMA SessionCauses ==
  ASSUME NEW look, LookTyped(look), NEW prev \in Memory, NEW a \in SessionAlerts(look, prev)
  PROVE  a[1] = "SESSION_CHANGE" /\ a[2] \in References
<1> DEFINE gone == prev.sessions \ look.sessions
           come == look.sessions \ prev.sessions
<1>1. a = <<"SESSION_CHANGE", <<come, gone>> >>
  BY DEF SessionAlerts, When
<1>2. come \in SUBSET Sessions /\ gone \in SUBSET Sessions
  BY DEF Memory, LookTyped
<1> HIDE DEF come, gone
<1> QED
  BY <1>1, <1>2 DEF References

LEMMA WarningCauses ==
  ASSUME NEW look, LookTyped(look), NEW prev \in Memory, NEW a \in WarningAlerts(look, prev)
  PROVE  a[1] = "EARLY_ENTRY_WARNING" /\ a[2] \in References
<1>1. look.setup # Nothing
  BY DEF WarningAlerts
<1>2. look.setup.id \in Setups /\ look.warnings \subseteq Warnings
  BY <1>1 DEF LookTyped
<1>3. \E w \in Warnings : a = <<"EARLY_ENTRY_WARNING", <<look.setup.id, w>> >>
  BY <1>1, <1>2 DEF WarningAlerts
<1> QED
  BY <1>2, <1>3 DEF References

Telling == AlertTypes \ {"READY"}

LEMMA TypesFacts ==
  ASSUME NEW e, NEW look, NEW t \in TypesOf(e, look), Report[e].family \in Families
  PROVE  t \in Telling
<1> DEFINE r == Report[e]
<1>1. CASE r.family = "setup"
  <2>1. PICK k \in DOMAIN SetupAlerts : t = SetupAlerts[k]
    BY <1>1 DEF TypesOf
  <2>2. \A x \in DOMAIN SetupAlerts : SetupAlerts[x] \in Telling
    BY AlertTypesAre DEF SetupAlerts, Telling
  <2> QED
    BY <2>1, <2>2
<1>2. CASE r.family = "structure"
  BY <1>2, AlertTypesAre DEF TypesOf, When, Telling
<1>3. CASE r.family = "liquidity"
  <2>1. t \in LiquidityTypes(r)
    BY <1>3 DEF TypesOf
  <2> QED
    BY <2>1, AlertTypesAre DEF LiquidityTypes, Telling
<1>4. CASE r.family = "pool"
  BY <1>4, AlertTypesAre DEF TypesOf, When, Telling
<1>5. CASE r.family = "displacement"
  BY <1>5, AlertTypesAre DEF TypesOf, When, Telling
<1>6. CASE r.family = "pd"
  <2>1. PICK k \in DOMAIN PdAlerts : t = PdAlerts[k]
    BY <1>6 DEF TypesOf, When
  <2>2. \A x \in DOMAIN PdAlerts : PdAlerts[x] \in Telling
    BY AlertTypesAre DEF PdAlerts, Telling
  <2> QED
    BY <2>1, <2>2
<1>7. CASE r.family = "nowick"
  BY <1>7, AlertTypesAre DEF TypesOf, When, Telling
<1>8. CASE r.family = "nowickzone"
  BY <1>8, AlertTypesAre DEF TypesOf, When, Telling
<1> QED
  BY <1>1, <1>2, <1>3, <1>4, <1>5, <1>6, <1>7, <1>8 DEF Families

LEMMA EventCauses ==
  ASSUME NEW look, LookTyped(look), NEW prev, NEW a \in EventAlerts(look, prev)
  PROVE  /\ a[1] \in Telling
         /\ a[2] \in References \/ (a[2] \in DOMAIN look.events /\ New(a[2], look, prev))
<1>1. CASE \E p \in look.offered \ prev.near : a = <<"LIQUIDITY_APPROACHING", p>>
  <2>1. PICK p \in Pools : a = <<"LIQUIDITY_APPROACHING", p>>
    BY <1>1 DEF LookTyped
  <2> QED
    BY <2>1, AlertTypesAre DEF References, Telling
<1>2. CASE \E e \in DOMAIN look.events : New(e, look, prev) /\ \E t \in TypesOf(e, look) : a = <<t, e>>
  <2>1. PICK e \in DOMAIN look.events : New(e, look, prev) /\ \E t \in TypesOf(e, look) : a = <<t, e>>
    BY <1>2
  <2>2. PICK t \in TypesOf(e, look) : a = <<t, e>>
    BY <2>1
  <2>3. Report[e].family \in Families
    BY AlertRulesAssumption DEF LookTyped
  <2>4. t \in Telling
    BY <2>3, TypesFacts
  <2>5. a[1] = t /\ a[2] = e
    BY <2>2
  <2> QED
    BY <2>1, <2>4, <2>5
<1>3. \/ a \in UNION {{<<t, e>> : t \in TypesOf(e, look)} : e \in {d \in DOMAIN look.events : New(d, look, prev)}}
      \/ a \in {<<"LIQUIDITY_APPROACHING", p>> : p \in look.offered \ prev.near}
  BY Zenon DEF EventAlerts
<1>4. CASE a \in UNION {{<<t, e>> : t \in TypesOf(e, look)} : e \in {d \in DOMAIN look.events : New(d, look, prev)}}
  <2>1. PICK e \in {d \in DOMAIN look.events : New(d, look, prev)} : a \in {<<t, e>> : t \in TypesOf(e, look)}
    BY Zenon, <1>4
  <2>2. \E t \in TypesOf(e, look) : a = <<t, e>>
    BY Zenon, <2>1
  <2>3. e \in DOMAIN look.events /\ New(e, look, prev)
    BY Zenon, <2>1
  <2> QED
    BY Zenon, <1>2, <2>2, <2>3
<1> QED
  BY Zenon, <1>1, <1>3, <1>4

(* What is told of a look has its cause there.                             *)
LEMMA ToldHasItsCause ==
  ASSUME NEW look, LookTyped(look), NEW prev \in Memory \cup {Nothing}, NEW a \in Derive(look, prev)
  PROVE  /\ prev # Nothing
         /\ a[1] \in Telling /\ (a[1] \notin Untrusted => Usable(look))
         /\ a[2] \in Events => a[2] \in DOMAIN look.events /\ New(a[2], look, prev)
<1>1. prev # Nothing /\ prev \in Memory
  BY DEF Derive
<1>2. \/ a \in DecisionAlerts(look, prev) \cup NewsAlerts(look, prev) \cup MacroAlerts(look, prev)
      \/ /\ Eligible(look)
         /\ a \in RiskAlerts(look, prev) \cup SessionAlerts(look, prev)
                    \cup WarningAlerts(look, prev) \cup EventAlerts(look, prev)
  BY Zenon, <1>1 DEF Derive, When
<1>3. \A e \in Events : e \notin References
  BY AlertRulesAssumption
<1>4. CASE a \in DecisionAlerts(look, prev)
  <2>1. a[1] \in {"DATA_UNAVAILABLE", "DATA_RESTORED"} /\ a[2] \in References
    BY <1>4, DecisionCauses
  <2> QED
    BY <1>1, <1>3, <2>1, AlertTypesAre DEF Telling, Untrusted
<1>5. CASE a \in NewsAlerts(look, prev)
  <2>1. a[1] \in {"NEWS_BLACKOUT", "NEWS_CLEARED", "NEWS_COUNTDOWN"} /\ a[2] \in References
    BY <1>5, NewsCauses
  <2> QED
    BY <1>1, <1>3, <2>1, AlertTypesAre DEF Telling, Untrusted
<1>6. CASE a \in MacroAlerts(look, prev)
  <2>1. a[1] = "MACRO_SHIFT" /\ a[2] \in References
    BY <1>1, <1>6, MacroCauses
  <2> QED
    BY <1>1, <1>3, <2>1, AlertTypesAre DEF Telling, Untrusted
<1>7. CASE Eligible(look) /\ a \in RiskAlerts(look, prev) \cup SessionAlerts(look, prev) \cup WarningAlerts(look, prev)
  <2>1. a[1] \in {"RISK_LOCK", "RISK_LOCK_CLEARED", "SESSION_CHANGE", "EARLY_ENTRY_WARNING"} /\ a[2] \in References
    BY <1>1, <1>7, RiskCauses, SessionCauses, WarningCauses
  <2> QED
    BY <1>1, <1>3, <1>7, <2>1, AlertTypesAre DEF Telling, Eligible
<1>8. CASE Eligible(look) /\ a \in EventAlerts(look, prev)
  <2>1. /\ a[1] \in Telling
        /\ a[2] \in References \/ (a[2] \in DOMAIN look.events /\ New(a[2], look, prev))
    BY <1>8, EventCauses
  <2> QED
    BY Zenon, <1>1, <1>3, <1>8, <2>1 DEF Eligible
<1> QED
  BY <1>2, <1>4, <1>5, <1>6, <1>7, <1>8

-----------------------------------------------------------------------------
(* The invariant, part by part.                                            *)
MarketOK ==
  /\ scene \in Scenes /\ now \in 0 .. scene.ticks /\ closes \in SUBSET (0 .. now)
  /\ happened \in [Symbols -> History]
  /\ \A s \in Symbols : DOMAIN happened[s] \subseteq scene.market[s] /\ \A e \in DOMAIN happened[s] : happened[s][e] \in closes

MemoryOK == memory \in [Symbols -> Memory \cup {Nothing}] /\ heard \in [Symbols -> SUBSET Events]

LastOK ==
  /\ DOMAIN lastBar \subseteq Symbols /\ (\A s \in DOMAIN lastBar : lastBar[s] \in Times \cup {Nothing})
  /\ lastFull \in [Symbols -> Times \cup {Nothing}]

FeedOK == \A k \in DOMAIN feed : k[1] \in Symbols /\ k[2] \in DOMAIN Category /\ feed[k] \in Times

(* The ids of watches are their own, and given out.                        *)
WatchesOK ==
  /\ watches \in Seq(Watch) /\ Len(watches) <= MaxWatches /\ issued \in SUBSET WatchIds
  /\ \A i \in DOMAIN watches : watches[i].id \in issued
  /\ \A i, j \in DOMAIN watches : watches[i].id = watches[j].id => i = j

(* While the loop is at work, a symbol is in hand, asked for at some time  *)
(* before now.                                                             *)
StepOK ==
  /\ step \in Step
  /\ step.at # "IDLE" => step.todo # <<>> /\ step.asked <= now
  /\ step.at = "EVALUATION" => step.verdict \in Verdicts

(* An event that was told was there at the look before, or is older than   *)
(* what the next look can report as new.                                   *)
Remembers(s, e) ==
  /\ e \in DOMAIN happened[s] /\ memory[s] # Nothing /\ memory[s].asOf # Nothing
  /\ e \in memory[s].seen \/ happened[s][e] < memory[s].asOf - Grace
  /\ step.at # "IDLE" => happened[s][e] <= step.asked
HeardOK == \A s \in Symbols : \A e \in heard[s] : Remembers(s, e)

CountsOK == restarts \in 0 .. scene.restarts /\ polled \in Times \cup {-1}

Inv == MarketOK /\ MemoryOK /\ LastOK /\ FeedOK /\ WatchesOK /\ StepOK /\ HeardOK /\ CountsOK

LEMMA InvTyped == Inv => TypeOK
<1> SUFFICES ASSUME Inv
             PROVE  TypeOK
  OBVIOUS
<1>1. scene \in Scenes /\ scene.ticks \in Times
  BY AlertMonitorAssumption DEF Inv, MarketOK
<1>2. closes \subseteq Times
  <2>1. MaxTime \in Nat
    BY AlertMonitorAssumption
  <2> QED
    BY <1>1, <2>1 DEF Inv, MarketOK, Times
<1>3. Range(lastBar) \subseteq Times \cup {Nothing}
  BY DEF Inv, LastOK, Range
<1> QED
  BY <1>2, <1>3 DEF TypeOK, Inv, MarketOK, MemoryOK, LastOK, FeedOK, WatchesOK, StepOK, CountsOK

LEMMA HistoryFacts ==
  ASSUME MarketOK, NEW s \in Symbols
  PROVE  /\ happened[s] \in [DOMAIN happened[s] -> Times] /\ DOMAIN happened[s] \in SUBSET Events
         /\ \A e \in DOMAIN happened[s] : happened[s][e] \in Nat /\ happened[s][e] <= now
         /\ now \in Nat
<1>1. PICK es \in SUBSET Events : happened[s] \in [es -> Times]
  BY DEF MarketOK, History
<1>2. scene.ticks \in Nat
  BY AlertMonitorAssumption DEF MarketOK, Times
<1> QED
  BY <1>1, <1>2 DEF MarketOK

LEMMA LastCloseFacts ==
  ASSUME MarketOK, NEW t \in Nat
  PROVE  \/ LastClose(t) = Nothing /\ \A c \in closes : ~(c <= t)
         \/ LastClose(t) \in closes /\ LastClose(t) <= t /\ \A c \in closes : c <= t => c <= LastClose(t)
<1> DEFINE past == {c \in closes : c <= t}
<1>1. scene.ticks \in Nat
  BY AlertMonitorAssumption DEF MarketOK, Times
<1>2. past \in SUBSET Nat
  <2>1. now \in Nat /\ closes \in SUBSET (0 .. now)
    BY <1>1 DEF MarketOK
  <2>2. closes \in SUBSET Nat
    BY <2>1
  <2> QED
    BY <2>2
<1>3. CASE past = {}
  BY <1>3 DEF LastClose
<1>4. CASE past # {}
  <2>1. \A x \in past : x <= t
    OBVIOUS
  <2>2. Max(past) \in past /\ \A y \in past : Max(past) >= y
    <3> HIDE DEF past
    <3> QED
      BY <1>2, <1>4, <2>1, MaxFacts
  <2>3. LastClose(t) = Max(past)
    BY <1>4 DEF LastClose
  <2>4. \A c \in closes : c <= t => c \in past
    OBVIOUS
  <2>5. \A c \in past : c \in closes /\ c <= t /\ c \in Nat
    BY <1>2
  <2> HIDE DEF past
  <2> QED
    BY <2>2, <2>3, <2>4, <2>5
<1> QED
  BY <1>3, <1>4

(* A look reports events that happened before it was asked for.            *)
LEMMA LookFacts ==
  ASSUME MarketOK, StepOK, step.at = "EVALUATION", NEW s \in Symbols, NEW look \in Looks(s)
  PROVE  /\ LookTyped(look) /\ look.verdict = step.verdict
         /\ \A e \in DOMAIN look.events : /\ e \in DOMAIN happened[s] /\ look.events[e] = happened[s][e]
                                          /\ happened[s][e] <= step.asked
<1>1. scene.finds[s] \in SUBSET Finding
  BY AlertMonitorAssumption DEF MarketOK
<1>2. step.verdict \in Verdicts /\ step.asked \in Nat
  BY AlertMonitorAssumption DEF StepOK, Times, Step
<1>3. DOMAIN happened[s] \in SUBSET Events /\ closes \in SUBSET Nat
  <2>1. now \in Nat /\ \A e \in DOMAIN happened[s] : happened[s][e] \in closes
    BY HistoryFacts DEF MarketOK
  <2> QED
    BY HistoryFacts DEF MarketOK
<1> DEFINE v == step.verdict
           t == LastClose(step.asked)
           none == [e \in {} |-> 0]
           Tells(ev) == \A e \in DOMAIN ev : e \in DOMAIN happened[s] /\ ev[e] = happened[s][e] /\ happened[s][e] <= step.asked
           worse == {[c EXCEPT !.eligible = FALSE] : c \in scene.finds[s]}
<1>4. t \in Nat \cup {Nothing}
  BY <1>2, <1>3, LastCloseFacts
<1>5. ASSUME NEW ev \in Reported(s, step.asked)
      PROVE  DOMAIN ev \in SUBSET Events /\ Tells(ev)
  <2> DEFINE known == {e \in DOMAIN happened[s] : happened[s][e] <= step.asked}
  <2>1. PICK those \in SUBSET known : ev = [e \in those |-> happened[s][e]]
    BY DEF Reported
  <2> QED
    BY <1>3, <2>1
<1>6. DOMAIN none = {}
  OBVIOUS
<1>7. DOMAIN none \in SUBSET Events /\ Tells(none)
  BY <1>6
<1>8. worse \in SUBSET Finding
  <2> SUFFICES ASSUME NEW c \in scene.finds[s]
               PROVE  [c EXCEPT !.eligible = FALSE] \in Finding
    OBVIOUS
  <2>1. c \in Finding
    BY <1>1
  <2> QED
    BY <2>1 DEF Finding
<1>9. \/ \E c \in scene.finds[s] \cup worse : \E ev \in Reported(s, step.asked) : look = Look(c, v, t, ev)
      \/ \E c \in worse : look = Look(c, v, Nothing, none)
  BY DEF Looks, When
<1> HIDE DEF v, t, none, Tells, worse
<1>10. \E d \in Finding : \E u \in {t, Nothing} : \E es \in Reported(s, step.asked) \cup {none} :
         look = Look(d, v, u, es)
  BY <1>1, <1>8, <1>9
<1> PICK d \in Finding, u \in {t, Nothing}, es \in Reported(s, step.asked) \cup {none} : look = Look(d, v, u, es)
  BY <1>10
<1>11. v \in Verdicts /\ u \in Nat \cup {Nothing} /\ DOMAIN es \in SUBSET Events /\ Tells(es)
  BY <1>2, <1>4, <1>5, <1>7 DEF v
<1>12. LookTyped(look) /\ look.verdict = v /\ look.events = es
  BY <1>11, LooksAreTyped
<1> QED
  BY <1>11, <1>12 DEF v, Tells

-----------------------------------------------------------------------------
(* What is monitored, and where the loop goes.                             *)
LEMMA Separate == Nothing \notin Memory /\ Nothing \notin Nat /\ MaxTime \in Nat
BY AlertMonitorAssumption

LEMMA NowFacts ==
  ASSUME MarketOK
  PROVE  now \in Times /\ now \in Nat /\ scene \in Scenes
BY AlertMonitorAssumption DEF MarketOK, Times

LEMMA NthFacts ==
  ASSUME WatchesOK, NEW n \in 1 .. Cardinality(Bringing)
  PROVE  Nth(n) \in DOMAIN watches
<1> DEFINE b == Cardinality(Bringing)
           upto(i) == {j \in Bringing : j <= i}
           f == [i \in Bringing |-> Cardinality(upto(i))]
<1>1. Bringing \subseteq 1 .. Len(watches) /\ Len(watches) \in Nat
  BY DEF Bringing, WatchesOK
<1>2. IsFiniteSet(1 .. Len(watches))
  BY <1>1, FS_Interval
<1>3. IsFiniteSet(Bringing) /\ b \in Nat
  BY <1>1, <1>2, FS_Subset, FS_CardinalityType
<1>4. \A i \in Bringing : /\ IsFiniteSet(upto(i)) /\ Cardinality(upto(i)) <= b
                          /\ Cardinality(upto(i)) \in Nat /\ i \in upto(i) /\ Cardinality(upto(i)) # 0
  <2> TAKE i \in Bringing
  <2>1. upto(i) \in SUBSET Bringing /\ i \in upto(i)
    BY <1>1
  <2> HIDE DEF upto
  <2>2. IsFiniteSet(upto(i)) /\ Cardinality(upto(i)) <= b
    BY <1>3, <2>1, FS_Subset
  <2> QED
    BY <2>1, <2>2, FS_CardinalityType, FS_EmptySet
<1>5. \A i, j \in Bringing : i < j => Cardinality(upto(i)) # Cardinality(upto(j))
  <2> SUFFICES ASSUME NEW i \in Bringing, NEW j \in Bringing, i < j, Cardinality(upto(i)) = Cardinality(upto(j))
               PROVE  FALSE
    OBVIOUS
  <2>1. upto(i) \in SUBSET upto(j) /\ j \in upto(j) /\ j \notin upto(i)
    <3>1. \A x \in Bringing : x \in Int
      BY <1>1
    <3>2. i \in Int /\ j \in Int /\ i < j
      BY <3>1
    <3>3. \A x \in upto(i) : x \in upto(j)
      BY <3>1, <3>2
    <3>4. j \in upto(j) /\ j \notin upto(i)
      BY <3>1, <3>2
    <3> HIDE DEF upto
    <3> QED
      BY <3>3, <3>4
  <2>2. IsFiniteSet(upto(j))
    BY <1>4
  <2> HIDE DEF upto
  <2> QED
    BY <2>1, <2>2, FS_Subset
<1>6. f \in [Bringing -> 1 .. b]
  BY <1>3, <1>4
<1>7. \A i, j \in Bringing : f[i] = f[j] => i = j
  <2> SUFFICES ASSUME NEW i \in Bringing, NEW j \in Bringing, f[i] = f[j]
               PROVE  i = j
    OBVIOUS
  <2>1. Cardinality(upto(i)) = Cardinality(upto(j))
    OBVIOUS
  <2>2. ~(i < j) /\ ~(j < i)
    BY <1>5, <2>1
  <2> QED
    BY <1>1, <2>2
<1> HIDE DEF f
<1>8. f \in Injection(Bringing, 1 .. b)
  BY <1>6, <1>7 DEF Injection, IsInjective
<1>9. IsFiniteSet(1 .. b) /\ Cardinality(1 .. b) = b
  BY <1>3, FS_Interval
<1>10. f \in Surjection(Bringing, 1 .. b)
  BY <1>8, <1>9, FS_Injection
<1>11. PICK i \in Bringing : f[i] = n
  BY <1>10 DEF Surjection
<1>12. Cardinality({j \in Bringing : j <= i}) = n
  BY <1>11 DEF f
<1>13. Nth(n) \in Bringing
  BY <1>12 DEF Nth
<1> QED
  BY Zenon, <1>13 DEF Bringing

LEMMA MonitoredTyped ==
  ASSUME MarketOK, WatchesOK
  PROVE  Monitored \in Seq(Symbols)
<1> DEFINE all == scene.configured \o Extra
           m == Min({Len(all), MaxMonitored})
<1>1. scene.configured \in Seq(Symbols) /\ MaxMonitored \in Nat
  BY AlertMonitorAssumption DEF MarketOK
<1>2. Cardinality(Bringing) \in Nat
  <2>1. Bringing \subseteq 1 .. Len(watches) /\ Len(watches) \in Nat
    BY DEF Bringing, WatchesOK
  <2>2. IsFiniteSet(1 .. Len(watches))
    BY <2>1, FS_Interval
  <2>3. IsFiniteSet(Bringing)
    BY <2>1, <2>2, FS_Subset
  <2> QED
    BY <2>3, FS_CardinalityType
<1>3. \A n \in 1 .. Cardinality(Bringing) : watches[Nth(n)].symbol \in Symbols
  <2>1. \A i \in DOMAIN watches : watches[i] \in Watch
    BY DEF WatchesOK
  <2>2. \A i \in DOMAIN watches : watches[i].symbol \in Symbols
    BY <2>1 DEF Watch
  <2> QED
    BY Zenon, <2>2, NthFacts
<1>4. Extra \in Seq(Symbols)
  BY <1>2, <1>3 DEF Extra
<1>5. all \in Seq(Symbols) /\ Len(all) \in Nat
  BY <1>1, <1>4
<1>6. m \in Nat /\ m <= Len(all)
  <2>1. \E x \in {Len(all), MaxMonitored} : \A y \in {Len(all), MaxMonitored} : x <= y
    BY <1>1, <1>5
  <2>2. m \in {Len(all), MaxMonitored} /\ m <= Len(all)
    BY <2>1 DEF Min
  <2> QED
    BY <1>1, <1>5, <2>2
<1> HIDE DEF m, all
<1>7. \A i \in 1 .. m : all[i] \in Symbols
  BY <1>5, <1>6
<1>8. SubSeq(all, 1, m) \in Seq(Symbols)
  BY <1>6, <1>7, SubSeqProperties
<1> QED
  BY <1>8 DEF Monitored, all, m

LEMMA EnterFacts ==
  ASSUME MarketOK, NEW todo \in Seq(Symbols), NEW ws
  PROVE  LET st == Enter(todo, ws)
         IN  /\ st \in Step /\ st.at \in {"IDLE", "DUE", "DECISION"}
             /\ st.at # "IDLE" => st.todo # <<>> /\ st.asked = now
<1>1. 0 \in Times
  BY Separate DEF Times
<1>2. CASE todo = <<>>
  BY <1>1, <1>2 DEF Enter, Idle, Step
<1>3. CASE todo # <<>>
  BY <1>3, NowFacts DEF Enter, Step
<1> QED
  BY <1>2, <1>3

-----------------------------------------------------------------------------
(* The steps.                                                              *)
LEMMA HeardKept ==
  ASSUME MarketOK, HeardOK, UNCHANGED <<happened, memory, heard>>,
         step'.at # "IDLE" => step'.asked = now \/ (step.at # "IDLE" /\ step'.asked = step.asked)
  PROVE  HeardOK'
<1> SUFFICES ASSUME NEW s \in Symbols, NEW e \in heard[s]
             PROVE  Remembers(s, e)'
  BY DEF HeardOK
<1>1. Remembers(s, e)
  BY DEF HeardOK
<1>2. e \in DOMAIN happened[s] => happened[s][e] <= now
  BY HistoryFacts
<1> QED
  BY <1>1, <1>2 DEF Remembers

LEMMA InitEstablishes == Init => Inv
<1> SUFFICES ASSUME Init
             PROVE  Inv
  OBVIOUS
<1>1. scene.ticks \in Nat /\ scene.restarts \in Nat /\ scene \in Scenes
  BY AlertMonitorAssumption DEF Init, Times
<1>2. \A es \in SUBSET Events : \A f \in [es -> Times] : f \in History
  BY DEF History
<1> DEFINE none == [e \in {} |-> 0]
<1>3. none \in [{} -> Times]
  OBVIOUS
<1>4. none \in History /\ DOMAIN none = {}
  BY <1>2, <1>3
<1>5. happened = [s \in Symbols |-> none]
  BY DEF Init
<1> HIDE DEF none
<1>6. MarketOK
  BY <1>1, <1>4, <1>5 DEF Init, MarketOK
<1>7. MemoryOK
  BY DEF Init, Fresh, MemoryOK
<1>8. LastOK
  BY DEF Init, Fresh, LastOK
<1>9. FeedOK
  BY DEF Init, Fresh, FeedOK
<1>10. WatchesOK
  <2>1. watches = <<>> /\ issued = {} /\ MaxWatches \in Nat
    BY AlertMonitorAssumption DEF Init, Fresh
  <2>2. Len(watches) = 0 /\ DOMAIN watches = {} /\ watches \in Seq(Watch)
    BY <2>1
  <2> QED
    BY <2>1, <2>2 DEF WatchesOK
<1>11. StepOK
  BY Separate DEF Init, Fresh, StepOK, Idle, Times, Step
<1>12. HeardOK
  BY DEF Init, Fresh, HeardOK
<1>13. CountsOK
  BY <1>1 DEF Init, CountsOK
<1> QED
  BY <1>6, <1>7, <1>8, <1>9, <1>10, <1>11, <1>12, <1>13 DEF Inv

LEMMA TickKeeps == Inv /\ Tick => Inv'
<1> SUFFICES ASSUME Inv, Tick
             PROVE  Inv'
  OBVIOUS
<1>1. /\ scene.ticks \in Nat /\ now \in Nat /\ now + 1 <= scene.ticks /\ now' = now + 1 /\ now + 1 \in Times
      /\ scene' = scene /\ scene \in Scenes
  BY AlertMonitorAssumption DEF Tick, Inv, MarketOK, Times
<1>2. UNCHANGED <<memory, lastBar, lastFull, feed, heard, watches, issued, step, restarts, polled>>
  BY DEF Tick, mind
<1>3. closes \in SUBSET (0 .. now)
  BY DEF Inv, MarketOK
<1>4. closes' \in SUBSET (0 .. now') /\ closes \subseteq closes'
  <2>1. closes' = closes \/ closes' = closes \cup {now + 1}
    BY DEF Tick
  <2>2. \A c \in closes : c \in 0 .. now + 1
    BY <1>1, <1>3
  <2>3. now + 1 \in 0 .. now + 1 /\ now' = now + 1
    BY <1>1
  <2> QED
    BY <2>1, <2>2, <2>3
<1>5. \A s \in Symbols :
        /\ happened'[s] \in History /\ DOMAIN happened[s] \subseteq DOMAIN happened'[s]
        /\ DOMAIN happened'[s] \subseteq scene.market[s]
        /\ \A e \in DOMAIN happened'[s] : happened'[s][e] \in closes'
        /\ \A e \in DOMAIN happened[s] : happened'[s][e] = happened[s][e]
  <2>1. CASE happened' = happened
    BY <1>4, <2>1 DEF Inv, MarketOK
  <2>2. CASE /\ closes' = closes \cup {now + 1}
             /\ \E s \in Symbols : \E e \in scene.market[s] \ DOMAIN happened[s] :
                  happened' = [happened EXCEPT ![s] = Put(@, e, now + 1)]
    <3> PICK t \in Symbols : \E e \in scene.market[t] \ DOMAIN happened[t] :
               happened' = [happened EXCEPT ![t] = Put(@, e, now + 1)]
      BY <2>2
    <3> PICK d \in scene.market[t] \ DOMAIN happened[t] :
               happened' = [happened EXCEPT ![t] = Put(@, d, now + 1)]
      OBVIOUS
    <3>1. scene.market[t] \in SUBSET Events
      BY <1>1, AlertMonitorAssumption
    <3>2. /\ happened[t] \in [DOMAIN happened[t] -> Times] /\ DOMAIN happened[t] \in SUBSET Events
      BY HistoryFacts DEF Inv
    <3> DEFINE h == Put(happened[t], d, now + 1)
               es == DOMAIN happened[t] \cup {d}
    <3>3. /\ h \in [es -> Times] /\ es \in SUBSET Events /\ DOMAIN h = es
          /\ h[d] = now + 1 /\ \A e \in DOMAIN happened[t] : h[e] = happened[t][e]
      BY <1>1, <3>1, <3>2 DEF Put
    <3>4. h \in History
      BY <3>3 DEF History
    <3>5. \A e \in es : h[e] \in closes'
      BY <2>2, <3>3 DEF Inv, MarketOK
    <3>6. es \subseteq scene.market[t]
      BY DEF Inv, MarketOK
    <3>7. happened' = [happened EXCEPT ![t] = h] /\ happened \in [Symbols -> History]
      BY DEF Inv, MarketOK
    <3>8. \A e \in DOMAIN happened[t] : e \in es
      OBVIOUS
    <3> HIDE DEF h, es
    <3> TAKE s \in Symbols
    <3>9. CASE s = t
      BY <3>3, <3>4, <3>5, <3>6, <3>7, <3>8, <3>9
    <3>10. CASE s # t
      BY <1>4, <3>7, <3>10 DEF Inv, MarketOK
    <3> QED
      BY <3>9, <3>10
  <2> QED
    BY <2>1, <2>2 DEF Tick
<1>6. DOMAIN happened' = Symbols /\ happened' = [s \in Symbols |-> happened'[s]]
  BY DEF Tick, Inv, MarketOK
<1>7. happened' \in [Symbols -> History]
  BY <1>5, <1>6
<1>8. MarketOK'
  BY <1>1, <1>4, <1>5, <1>7 DEF MarketOK
<1>9. HeardOK'
  <2> SUFFICES ASSUME NEW s \in Symbols, NEW e \in heard[s]
               PROVE  Remembers(s, e)'
    BY <1>2 DEF HeardOK
  <2>1. Remembers(s, e)
    BY DEF Inv, HeardOK
  <2>2. happened'[s][e] = happened[s][e] /\ e \in DOMAIN happened'[s]
    BY <1>5, <2>1 DEF Remembers
  <2> QED
    BY <1>2, <2>1, <2>2 DEF Remembers
<1>10. StepOK'
  <2>1. step.asked <= now => step.asked <= now + 1
    BY <1>1 DEF Inv, StepOK, Times, Step
  <2> QED
    BY <1>1, <1>2, <2>1 DEF Inv, StepOK
<1>11. (MemoryOK /\ LastOK /\ FeedOK /\ WatchesOK /\ CountsOK)'
  BY <1>1, <1>2 DEF Inv, MemoryOK, LastOK, FeedOK, WatchesOK, CountsOK
<1> QED
  BY <1>8, <1>9, <1>10, <1>11 DEF Inv

(* A step of the loop that leaves the mind alone but for lastBar.          *)
LEMMA LoopMoves ==
  ASSUME Inv, UNCHANGED <<market, memory, lastFull, feed, heard, watches, issued, restarts>>,
         StepOK', LastOK', polled' \in Times \cup {-1},
         step'.at # "IDLE" => step'.asked = now \/ (step.at # "IDLE" /\ step'.asked = step.asked)
  PROVE  Inv'
<1>1. (MarketOK /\ MemoryOK /\ FeedOK /\ WatchesOK /\ CountsOK)'
  BY DEF Inv, market, MarketOK, MemoryOK, FeedOK, WatchesOK, CountsOK
<1>2. HeardOK'
  BY HeardKept DEF Inv, market
<1> QED
  BY <1>1, <1>2 DEF Inv

LEMMA EnteredStep ==
  ASSUME MarketOK, UNCHANGED now, NEW todo \in Seq(Symbols), NEW ws, step' = Enter(todo, ws)
  PROVE  /\ StepOK' /\ (step'.at # "IDLE" => step'.asked = now)
         /\ step'.at \in {"IDLE", "DUE", "DECISION"}
<1> DEFINE st == Enter(todo, ws)
<1>1. /\ st \in Step /\ st.at \in {"IDLE", "DUE", "DECISION"}
      /\ st.at # "IDLE" => st.todo # <<>> /\ st.asked = now
  BY EnterFacts
<1>2. step' = st /\ now' = now /\ now \in Nat
  BY NowFacts
<1> HIDE DEF st
<1> QED
  BY <1>1, <1>2 DEF StepOK

(* In the loop there is a symbol, and a rest.                              *)
LEMMA SymbolFacts ==
  ASSUME StepOK, step.at # "IDLE"
  PROVE  Symbol \in Symbols /\ Tail(step.todo) \in Seq(Symbols)
BY HeadTailProperties DEF StepOK, Symbol, Step

LEMMA LoopKeeps == Inv /\ (StartCycle \/ Due \/ ReadDecision) => Inv'
<1> SUFFICES ASSUME Inv, StartCycle \/ Due \/ ReadDecision
             PROVE  Inv'
  OBVIOUS
<1>1. MarketOK /\ now \in Times /\ now \in Nat /\ StepOK
  BY NowFacts DEF Inv
<1>2. CASE StartCycle
  <2>1. Monitored \in Seq(Symbols)
    BY MonitoredTyped DEF Inv
  <2>2. /\ step' = Enter(Monitored, watches) /\ polled' = now /\ UNCHANGED <<market, mind, watches, issued, restarts>>
    BY <1>2 DEF StartCycle
  <2>3. now' = now
    BY <2>2 DEF market
  <2>4. StepOK' /\ (step'.at # "IDLE" => step'.asked = now)
    BY <1>1, <2>1, <2>2, <2>3, EnteredStep
  <2>5. LastOK'
    BY <2>2 DEF Inv, LastOK, mind
  <2> QED
    BY <1>1, <2>2, <2>4, <2>5, LoopMoves DEF mind
<1>3. CASE Due
  <2>1. Symbol \in Symbols /\ Tail(step.todo) \in Seq(Symbols)
    BY <1>1, <1>3, SymbolFacts DEF Due
  <2>2. PICK bar \in {LastClose(step.asked)} \cup When(scene.outages, {Nothing}) :
           /\ lastBar' = Put(lastBar, Symbol, bar)
           /\ \/ step' = [step EXCEPT !.at = "DECISION", !.asked = now]
              \/ step' = Enter(Tail(step.todo), watches)
    BY <1>3 DEF Due
  <2>3. UNCHANGED <<market, memory, lastFull, feed, heard, watches, issued, restarts, polled>> /\ now' = now
    BY <1>3 DEF Due, market
  <2>4. step.asked \in Nat /\ MaxTime \in Nat /\ scene.ticks \in Times
    BY <1>1, AlertMonitorAssumption DEF StepOK, Times, MarketOK, Step
  <2>5. bar \in Times \cup {Nothing}
    <3>1. closes \subseteq Times
      BY <1>1, <2>4 DEF MarketOK, Times
    <3>2. LastClose(step.asked) \in Times \cup {Nothing}
      BY <1>1, <2>4, <3>1, LastCloseFacts
    <3>3. \A c, S, x : x \in When(c, S) => x \in S
      BY DEF When
    <3> QED
      BY <3>2, <3>3
  <2>6. LastOK'
    <3>1. DOMAIN lastBar' = DOMAIN lastBar \cup {Symbol}
      BY <2>2 DEF Put
    <3>2. \A s \in DOMAIN lastBar' : lastBar'[s] = IF s = Symbol THEN bar ELSE lastBar[s]
      BY <2>2 DEF Put
    <3> QED
      BY <2>1, <2>3, <2>5, <3>1, <3>2 DEF Inv, LastOK
  <2>7. CASE step' = [step EXCEPT !.at = "DECISION", !.asked = now]
    <3>1. StepOK' /\ step'.asked = now
      <4>1. step.at = "DUE"
        BY <1>3 DEF Due
      <4>2. step' \in Step /\ step'.at = "DECISION" /\ step'.todo = step.todo /\ step'.asked = now
        BY <1>1, <2>7 DEF StepOK, Step
      <4> QED
        BY <1>1, <2>3, <4>1, <4>2 DEF StepOK
    <3> QED
      BY <1>1, <2>3, <2>6, <3>1, LoopMoves DEF Inv, CountsOK
  <2>8. CASE step' = Enter(Tail(step.todo), watches)
    <3>1. StepOK' /\ (step'.at # "IDLE" => step'.asked = now)
      BY <1>1, <2>1, <2>3, <2>8, EnteredStep
    <3> QED
      BY <1>1, <2>3, <2>6, <3>1, LoopMoves DEF Inv, CountsOK
  <2> QED
    BY <2>2, <2>7, <2>8
<1>4. CASE ReadDecision
  <2>0. step.at = "DECISION"
    BY Zenon, <1>4 DEF ReadDecision
  <2>1. PICK v \in scene.verdicts[Symbol] : step' = [step EXCEPT !.at = "EVALUATION", !.verdict = v]
    BY Zenon, <1>4 DEF ReadDecision
  <2>2. v \in Verdicts
    <3>1. Symbol \in Symbols
      BY <1>1, <2>0, SymbolFacts
    <3>2. scene.verdicts \in [Symbols -> SUBSET Verdicts]
      BY <1>1, AlertMonitorAssumption DEF MarketOK
    <3> QED
      BY <3>1, <3>2
  <2>3. step.at = "DECISION" /\ UNCHANGED <<market, mind, watches, issued, restarts, polled>> /\ now' = now
    BY Zenon, <1>4 DEF ReadDecision, market
  <2>4. StepOK' /\ step'.asked = step.asked
    <3>1. /\ step' \in Step /\ step'.at = "EVALUATION" /\ step'.todo = step.todo
          /\ step'.asked = step.asked /\ step'.verdict = v
      BY <1>1, <2>1, <2>2 DEF StepOK, Step
    <3> QED
      BY <1>1, <2>2, <2>3, <3>1 DEF StepOK
  <2>5. LastOK'
    BY <2>3 DEF Inv, LastOK, mind
  <2> QED
    BY <1>1, <2>3, <2>4, <2>5, LoopMoves DEF Inv, CountsOK, mind
<1> QED
  BY <1>2, <1>3, <1>4

-----------------------------------------------------------------------------
(* The feed: what is told of a symbol is of it, and new.                   *)
LEMMA AddFacts ==
  ASSUME FeedOK, NEW s \in Symbols, NEW at \in Times, NEW alerts, \A a \in alerts : a[1] \in AlertTypes,
         feed' = Add(feed, s, alerts, at)
  PROVE  FeedOK' /\ \A k \in NewKeys : \E a \in alerts : k = <<s, a[1], a[2]>>
<1> DEFINE cooling == DOMAIN Cooling(feed, at)
           keys == {<<s, a[1], a[2]>> : a \in alerts}
<1>1. cooling \subseteq DOMAIN feed
  BY DEF Cooling
<1>2. feed' = [k \in cooling \cup keys |-> IF k \in cooling THEN feed[k] ELSE at]
  BY Zenon DEF Add
<1>3. DOMAIN Category = AlertTypes
  BY DEF Category
<1>4. \A k \in keys : \E a \in alerts : k = <<s, a[1], a[2]>>
  OBVIOUS
<1>5. \A k \in keys : k[1] \in Symbols /\ k[2] \in DOMAIN Category
  BY <1>3
<1> HIDE DEF cooling, keys
<1>6. DOMAIN feed' = cooling \cup keys
  BY <1>2
<1>7. \A k \in cooling \cup keys : feed'[k] = IF k \in cooling THEN feed[k] ELSE at
  BY <1>2
<1>8. FeedOK'
  <2> SUFFICES ASSUME NEW k \in DOMAIN feed'
               PROVE  k[1] \in Symbols /\ k[2] \in DOMAIN Category /\ feed'[k] \in Times
    BY DEF FeedOK
  <2>1. CASE k \in cooling
    BY <1>1, <1>7, <2>1 DEF FeedOK
  <2>2. CASE k \in keys /\ k \notin cooling
    BY <1>5, <1>7, <2>2
  <2> QED
    BY <1>6, <2>1, <2>2
<1>9. \A k \in NewKeys : k \in keys
  BY <1>1, <1>6, <1>7 DEF NewKeys, Told
<1> QED
  BY <1>4, <1>8, <1>9

LEMMA NothingNew == UNCHANGED feed => NewKeys = {}
BY DEF NewKeys, Told

LEMMA CheckedFacts ==
  ASSUME NEW w \in Watch, NEW look
  PROVE  /\ Checked(w, look) \in Watch /\ Checked(w, look).id = w.id
         /\ w.state = "FIRED" => Checked(w, look) = w
         /\ w.symbol = Symbol /\ Fires(look, w.side, scene.authority) => Checked(w, look).state = "FIRED"
<1> DEFINE st == Checklist(look, w.side, scene.authority)
<1>1. st \in WatchStates
  BY Zenon DEF Checklist, WatchStates
<1>2. Fires(look, w.side, scene.authority) => st = "FIRED"
  <2>1. Fires(look, w.side, scene.authority) => Usable(look)
    BY DEF Fires
  <2> QED
    BY <2>1 DEF Checklist
<1>3. CASE w.symbol # Symbol \/ w.state = "FIRED"
  BY <1>3 DEF Checked
<1>4. CASE ~(w.symbol # Symbol \/ w.state = "FIRED")
  <2>1. Checked(w, look) = [w EXCEPT !.state = st, !.checked = TRUE]
    BY <1>4 DEF Checked
  <2> HIDE DEF st
  <2>2. Checked(w, look) \in Watch /\ Checked(w, look).id = w.id /\ Checked(w, look).state = st
    BY <1>1, <2>1 DEF Watch
  <2> QED
    BY <1>2, <1>4, <2>2
<1> QED
  BY <1>3, <1>4

LEMMA CheckingKeeps ==
  ASSUME WatchesOK, NEW look, watches' = [i \in DOMAIN watches |-> Checked(watches[i], look)], issued' = issued
  PROVE  WatchesOK' /\ FiredIsFinal
<1>1. \A i \in DOMAIN watches : watches[i] \in Watch
  BY DEF WatchesOK
<1>2. DOMAIN watches' = DOMAIN watches /\ DOMAIN watches = 1 .. Len(watches) /\ Len(watches) \in Nat
  BY DEF WatchesOK
<1>3. \A i \in DOMAIN watches : watches'[i] \in Watch /\ watches'[i].id = watches[i].id
  BY <1>1, CheckedFacts
<1>4. watches' \in Seq(Watch) /\ Len(watches') = Len(watches)
  BY <1>2, <1>3
<1>5. WatchesOK'
  BY <1>2, <1>3, <1>4 DEF WatchesOK
<1>6. FiredIsFinal
  <2> SUFFICES ASSUME NEW w \in WatchSet, w.state = "FIRED", NEW v \in Range(watches'), v.id = w.id
               PROVE  v.state = "FIRED"
    BY DEF FiredIsFinal
  <2>1. PICK i \in DOMAIN watches : w = watches[i]
    BY DEF WatchSet, Range
  <2>2. PICK j \in DOMAIN watches' : v = watches'[j]
    BY DEF Range
  <2>3. i = j
    BY <1>2, <1>3, <2>1, <2>2 DEF WatchesOK
  <2>4. v = Checked(w, look)
    BY <1>2, <2>1, <2>2, <2>3
  <2>5. w \in Watch
    BY <1>1, <2>1
  <2> QED
    BY <2>4, <2>5, CheckedFacts
<1> QED
  BY <1>5, <1>6

-----------------------------------------------------------------------------
(* An evaluation.                                                          *)
Evaluated(look) ==
  LET s     == Symbol
      told  == Derive(look, memory[s])
      ready == {<<"READY", w.id>> : w \in Firing(look)}
  IN  /\ memory' = [memory EXCEPT ![s] = NextMemory(look, memory[s])]
      /\ feed' = Add(feed, s, told \cup ready, step.asked)
      /\ watches' = [i \in DOMAIN watches |-> Checked(watches[i], look)]
      /\ heard' = [heard EXCEPT ![s] = (heard[s] \cup (DOMAIN look.events \cap {a[2] : a \in told}))
                                         \ LetGo(s, look)]

LEMMA EvaluateMeans ==
  ASSUME Evaluate
  PROVE  /\ \E look \in Looks(Symbol) : Evaluated(look)
         /\ step.at = "EVALUATION" /\ lastFull' = [lastFull EXCEPT ![Symbol] = now]
         /\ step' = Enter(Tail(step.todo), watches')
         /\ UNCHANGED <<market, lastBar, issued, restarts, polled>>
BY Zenon DEF Evaluate, Evaluated

(* What an evaluation tells: events that are new to it, and the watches    *)
(* that fire.                                                              *)
LEMMA TellingFacts ==
  ASSUME Inv, step.at = "EVALUATION", NEW look \in Looks(Symbol), Evaluated(look)
  PROVE  /\ FeedOK'
         /\ \A k \in NewKeys :
              /\ k[1] = Symbol
              /\ \/ \E a \in Derive(look, memory[Symbol]) : k[2] = a[1] /\ k[3] = a[2]
                 \/ k[2] = "READY" /\ \E w \in Firing(look) : k[3] = w.id
<1> DEFINE s == Symbol
           told == Derive(look, memory[s])
           ready == {<<"READY", w.id>> : w \in Firing(look)}
<1>1. s \in Symbols /\ step.asked \in Times
  BY SymbolFacts DEF Inv, StepOK, Step
<1>2. memory[s] \in Memory \cup {Nothing}
  BY <1>1 DEF Inv, MemoryOK
<1>3. LookTyped(look)
  BY <1>1, LookFacts DEF Inv
<1>4. \A a \in told : a[1] \in Telling
  BY <1>2, <1>3, ToldHasItsCause
<1>5. \A a \in told \cup ready : a[1] \in AlertTypes
  BY <1>4, AlertTypesAre DEF Telling
<1>6. feed' = Add(feed, s, told \cup ready, step.asked)
  BY Zenon DEF Evaluated
<1>8. \A a \in ready : a[1] = "READY" /\ \E w \in Firing(look) : a[2] = w.id
  OBVIOUS
<1> HIDE DEF told, ready, s
<1>9. FeedOK' /\ \A k \in NewKeys : \E a \in told \cup ready : k = <<s, a[1], a[2]>>
  BY <1>1, <1>5, <1>6, AddFacts DEF Inv
<1>10. ASSUME NEW k \in NewKeys
       PROVE  /\ k[1] = s
              /\ \/ \E a \in told : k[2] = a[1] /\ k[3] = a[2]
                 \/ k[2] = "READY" /\ \E w \in Firing(look) : k[3] = w.id
  <2>1. PICK a \in told \cup ready : k = <<s, a[1], a[2]>>
    BY <1>9
  <2>2. k[1] = s /\ k[2] = a[1] /\ k[3] = a[2]
    BY <2>1
  <2>3. CASE a \in told
    BY Zenon, <2>2, <2>3
  <2>4. CASE a \in ready
    BY <1>8, <2>2, <2>4
  <2> QED
    BY <2>1, <2>3, <2>4
<1> QED
  BY Zenon, <1>9, <1>10 DEF told, s

LEMMA EvaluateKeeps ==
  ASSUME Inv, Evaluate
  PROVE  Inv' /\ NothingTwice /\ Trusted /\ ReadyIsEarned /\ FiredIsFinal
<1> DEFINE s == Symbol
<1>1. /\ step.at = "EVALUATION" /\ lastFull' = [lastFull EXCEPT ![s] = now]
      /\ step' = Enter(Tail(step.todo), watches')
      /\ UNCHANGED <<now, closes, happened, scene, lastBar, issued, restarts, polled>>
  BY EvaluateMeans DEF market
<1> PICK look \in Looks(s) : Evaluated(look)
  BY EvaluateMeans
<1>2. s \in Symbols /\ Tail(step.todo) \in Seq(Symbols) /\ step.asked \in Times
  BY <1>1, SymbolFacts DEF Inv, StepOK, Step
<1>3. memory[s] \in Memory \cup {Nothing}
  BY <1>2 DEF Inv, MemoryOK
<1>4. /\ LookTyped(look) /\ look.verdict = step.verdict
      /\ \A e \in DOMAIN look.events : /\ e \in DOMAIN happened[s] /\ look.events[e] = happened[s][e]
                                       /\ happened[s][e] <= step.asked
  BY <1>1, <1>2, LookFacts DEF Inv
<1>5. NextMemory(look, memory[s]) \in Memory /\ NextMemory(look, memory[s]) # Nothing
      /\ NextMemory(look, memory[s]).asOf = look.asOf /\ NextMemory(look, memory[s]).seen = DOMAIN look.events
      /\ NextMemory(look, memory[s]).verdict = look.verdict
  BY <1>3, <1>4, MemoryTyped, Separate
<1>6. /\ FeedOK'
      /\ \A k \in NewKeys :
           /\ k[1] = s
           /\ \/ \E a \in Derive(look, memory[s]) : k[2] = a[1] /\ k[3] = a[2]
              \/ k[2] = "READY" /\ \E w \in Firing(look) : k[3] = w.id
  BY <1>1, TellingFacts
<1>7. /\ memory' = [memory EXCEPT ![s] = NextMemory(look, memory[s])]
      /\ watches' = [i \in DOMAIN watches |-> Checked(watches[i], look)]
  BY Zenon DEF Evaluated
<1>8. PICK more \in SUBSET DOMAIN look.events :
        heard' = [heard EXCEPT ![s] = (heard[s] \cup more) \ LetGo(s, look)]
  <2> DEFINE more == DOMAIN look.events \cap {a[2] : a \in Derive(look, memory[s])}
  <2>1. heard' = [heard EXCEPT ![s] = (heard[s] \cup more) \ LetGo(s, look)]
    BY Zenon DEF Evaluated
  <2>2. more \in SUBSET DOMAIN look.events
    OBVIOUS
  <2> HIDE DEF more
  <2> QED
    BY <2>1, <2>2
<1>9. ASSUME NEW a \in Derive(look, memory[s])
      PROVE  /\ memory[s] # Nothing /\ a[1] \in Telling /\ (a[1] \notin Untrusted => Usable(look))
             /\ a[2] \in Events => a[2] \in DOMAIN look.events /\ New(a[2], look, memory[s])
  <2> DEFINE prev == memory[s]
  <2>1. a \in Derive(look, prev) /\ prev \in Memory \cup {Nothing}
    BY <1>3
  <2> HIDE DEF prev
  <2>2. /\ prev # Nothing /\ a[1] \in Telling /\ (a[1] \notin Untrusted => Usable(look))
        /\ a[2] \in Events => a[2] \in DOMAIN look.events /\ New(a[2], look, prev)
    BY <1>4, <2>1, ToldHasItsCause
  <2> QED
    BY <2>2 DEF prev
<1>10. ASSUME NEW w \in Firing(look)
       PROVE  /\ w \in WatchSet /\ w \in Watch /\ w.symbol = s /\ w.state # "FIRED"
              /\ Fires(look, w.side, scene.authority)
  BY DEF Firing, WatchSet, Range, Inv, WatchesOK
<1> HIDE DEF s
<1>11. MemoryOK'
  <2>1. DOMAIN look.events \in SUBSET Events
    BY <1>4 DEF LookTyped
  <2> QED
    BY <1>2, <1>5, <1>7, <1>8, <2>1 DEF Inv, MemoryOK
<1>12. MarketOK' /\ LastOK' /\ CountsOK'
  BY <1>1, <1>2, NowFacts DEF Inv, MarketOK, LastOK, CountsOK
<1>13. StepOK' /\ (step'.at # "IDLE" => step'.asked = now)
  BY <1>1, <1>2, EnteredStep DEF Inv
<1>14. WatchesOK' /\ FiredIsFinal
  BY <1>1, <1>7, CheckingKeeps DEF Inv
<1>15. HeardOK'
  <2> SUFFICES ASSUME NEW t \in Symbols, NEW e \in heard'[t]
               PROVE  Remembers(t, e)'
    BY DEF HeardOK
  <2>1. e \in DOMAIN happened[t] => happened[t][e] <= now
    BY HistoryFacts DEF Inv
  <2>2. CASE t # s
    <3>1. e \in heard[t] /\ memory'[t] = memory[t]
      BY <1>7, <1>8, <2>2 DEF Inv, MemoryOK
    <3>2. Remembers(t, e)
      BY <3>1 DEF Inv, HeardOK
    <3> QED
      BY <1>1, <1>13, <2>1, <3>1, <3>2 DEF Remembers
  <2>3. CASE t = s
    <3>1. e \notin LetGo(s, look) /\ (e \in heard[s] \/ e \in DOMAIN look.events)
      BY <1>2, <1>8, <2>3 DEF Inv, MemoryOK
    <3>2. memory'[s] = NextMemory(look, memory[s])
      BY <1>2, <1>7 DEF Inv, MemoryOK
    <3>3. e \in DOMAIN happened[s] /\ happened[s][e] <= step.asked
      BY <1>1, <1>2, <1>4, <3>1 DEF Inv, HeardOK, Remembers
    <3>4. /\ look.asOf # Nothing
          /\ e \in DOMAIN look.events \/ happened[s][e] < look.asOf - Grace
      <4>1. happened[s][e] \in Nat /\ e \in Events
        BY <1>2, <3>3, HistoryFacts DEF Inv
      <4>2. look.asOf \in Nat \cup {Nothing} /\ Grace \in Nat
        BY <1>4, AlertRulesAssumption DEF LookTyped
      <4> QED
        BY <3>1, <3>3, <4>1, <4>2 DEF LetGo
    <3>5. memory'[s] # Nothing /\ memory'[s].asOf = look.asOf /\ memory'[s].seen = DOMAIN look.events
      BY <1>5, <3>2
    <3>6. step'.at # "IDLE" => happened[s][e] <= step'.asked
      BY <1>13, <2>1, <2>3, <3>3
    <3> QED
      BY <1>1, <2>3, <3>3, <3>4, <3>5, <3>6 DEF Remembers
  <2> QED
    BY <2>2, <2>3
<1>16. NothingTwice
  <2> SUFFICES ASSUME NEW k \in NewKeys, k[3] \in Events, k[3] \in heard[s]
               PROVE  FALSE
    BY <1>6 DEF NothingTwice
  <2>1. k[3] \notin WatchIds
    BY AlertMonitorAssumption
  <2>2. CASE k[2] = "READY" /\ \E w \in Firing(look) : k[3] = w.id
    BY <1>10, <2>1, <2>2 DEF Watch
  <2>3. CASE \E a \in Derive(look, memory[s]) : k[2] = a[1] /\ k[3] = a[2]
    <3>1. k[3] \in DOMAIN look.events /\ New(k[3], look, memory[s]) /\ memory[s] \in Memory
      BY <1>3, <1>9, <2>3
    <3>2. Remembers(s, k[3])
      BY <1>2 DEF Inv, HeardOK
    <3>3. /\ k[3] \notin memory[s].seen /\ memory[s].asOf \in Nat
          /\ happened[s][k[3]] >= memory[s].asOf - Grace
      BY <1>4, <3>1, <3>2 DEF New, Remembers, Memory
    <3>4. happened[s][k[3]] < memory[s].asOf - Grace /\ happened[s][k[3]] \in Nat
      BY <1>2, <3>2, <3>3, HistoryFacts DEF Remembers, Inv
    <3>5. Grace \in Nat
      BY AlertRulesAssumption
    <3> QED
      BY <3>3, <3>4, <3>5
  <2> QED
    BY <1>6, <2>2, <2>3
<1>17. Trusted
  <2> SUFFICES ASSUME NEW k \in NewKeys, k[2] \notin Untrusted
               PROVE  memory'[s].verdict # "UNAVAILABLE"
    BY <1>6 DEF Trusted
  <2>1. Usable(look)
    <3>1. CASE k[2] = "READY" /\ \E w \in Firing(look) : k[3] = w.id
      BY <1>10, <3>1 DEF Fires
    <3>2. CASE \E a \in Derive(look, memory[s]) : k[2] = a[1] /\ k[3] = a[2]
      BY <1>9, <3>2
    <3> QED
      BY <1>6, <3>1, <3>2
  <2>2. memory'[s] = NextMemory(look, memory[s])
    BY <1>2, <1>7 DEF Inv, MemoryOK
  <2> QED
    BY <1>5, <2>1, <2>2 DEF Usable
<1>18. ReadyIsEarned
  <2> SUFFICES ASSUME NEW k \in NewKeys, k[2] = "READY"
               PROVE  \E w \in WatchSet : /\ w.id = k[3] /\ w.state # "FIRED" /\ scene.authority = "FULL"
                                          /\ step.verdict \in Wanted(w.side)
                                          /\ \E v \in Range(watches') : v.id = w.id /\ v.state = "FIRED"
    BY Zenon DEF ReadyIsEarned
  <2>1. \E w \in Firing(look) : k[3] = w.id
    BY <1>6, <1>9 DEF Telling
  <2>2. PICK w \in Firing(look) : k[3] = w.id
    BY <2>1
  <2>3. /\ w \in WatchSet /\ w \in Watch /\ w.symbol = s /\ w.state # "FIRED"
        /\ Fires(look, w.side, scene.authority)
    BY <1>10
  <2>4. PICK i \in DOMAIN watches : w = watches[i]
    BY <2>3 DEF WatchSet, Range
  <2>5. Checked(w, look).id = w.id /\ Checked(w, look).state = "FIRED"
    BY <2>3, CheckedFacts DEF s
  <2>6. Checked(w, look) \in Range(watches')
    BY <1>7, <2>4 DEF Range
  <2>7. scene.authority = "FULL" /\ step.verdict \in Wanted(w.side)
    BY <1>4, <2>3 DEF Fires
  <2> QED
    BY Zenon, <2>2, <2>3, <2>5, <2>6, <2>7
<1> QED
  BY <1>6, <1>11, <1>12, <1>13, <1>14, <1>15, <1>16, <1>17, <1>18 DEF Inv

-----------------------------------------------------------------------------
(* The other steps that change the feed or the watches.                    *)
LEMMA QuietWatches ==
  ASSUME WatchesOK, UNCHANGED <<watches, issued>>
  PROVE  WatchesOK' /\ FiredIsFinal
<1>1. WatchesOK'
  BY DEF WatchesOK
<1>2. \A w, v \in WatchSet : w.id = v.id => w = v
  BY DEF WatchSet, Range, WatchesOK
<1>3. \A v \in Range(watches') : v \in WatchSet
  BY DEF WatchSet, Range
<1> QED
  BY <1>1, <1>2, <1>3 DEF FiredIsFinal

LEMMA QuietFeed ==
  ASSUME UNCHANGED feed
  PROVE  NothingTwice /\ Trusted /\ ReadyIsEarned
BY NothingNew DEF NothingTwice, Trusted, ReadyIsEarned

LEMMA FailKeeps ==
  ASSUME Inv, Fail
  PROVE  Inv' /\ NothingTwice /\ Trusted /\ ReadyIsEarned /\ FiredIsFinal
<1> DEFINE one == {<<"MONITOR_FAILURE", "monitor">>}
<1>1. /\ step.at # "IDLE" /\ feed' = Add(feed, Symbol, one, now) /\ step' = Enter(Tail(step.todo), watches)
      /\ UNCHANGED <<now, closes, happened, scene, memory, lastBar, lastFull, heard, watches, issued, restarts, polled>>
  BY DEF Fail, market
<1>2. Symbol \in Symbols /\ Tail(step.todo) \in Seq(Symbols) /\ now \in Times
  BY <1>1, SymbolFacts, NowFacts DEF Inv
<1>3. \A a \in one : a[1] = "MONITOR_FAILURE" /\ a[2] = "monitor" /\ a[1] \in AlertTypes
  BY AlertTypesAre
<1> HIDE DEF one
<1>4. FeedOK' /\ \A k \in NewKeys : \E a \in one : k = <<Symbol, a[1], a[2]>>
  BY <1>1, <1>2, <1>3, AddFacts DEF Inv
<1>5. \A k \in NewKeys : k[2] = "MONITOR_FAILURE" /\ k[3] = "monitor"
  BY <1>3, <1>4
<1>6. NothingTwice /\ Trusted /\ ReadyIsEarned
  <2>1. "monitor" \notin Events
    BY AlertRulesAssumption DEF References
  <2> QED
    BY <1>5, <2>1 DEF NothingTwice, Trusted, ReadyIsEarned, Untrusted
<1>7. StepOK' /\ (step'.at # "IDLE" => step'.asked = now)
  BY <1>1, <1>2, EnteredStep DEF Inv
<1>8. HeardOK'
  BY <1>1, <1>7, HeardKept DEF Inv
<1>9. WatchesOK' /\ FiredIsFinal
  BY <1>1, QuietWatches DEF Inv
<1>10. MarketOK' /\ MemoryOK' /\ LastOK' /\ CountsOK'
  BY <1>1 DEF Inv, MarketOK, MemoryOK, LastOK, CountsOK
<1> QED
  BY <1>4, <1>6, <1>7, <1>8, <1>9, <1>10 DEF Inv

LEMMA OnlyWatchesChange ==
  ASSUME Inv, UNCHANGED <<market, mind, step, restarts, polled>>, WatchesOK'
  PROVE  Inv'
<1>1. StepOK' /\ (MarketOK /\ MemoryOK /\ LastOK /\ FeedOK /\ CountsOK)'
  BY DEF Inv, market, mind, StepOK, MarketOK, MemoryOK, LastOK, FeedOK, CountsOK
<1>2. HeardOK'
  BY HeardKept DEF Inv, market, mind
<1> QED
  BY <1>1, <1>2 DEF Inv

LEMMA AddWatchKeeps ==
  ASSUME Inv, NEW s \in Symbols, NEW side \in Sides, AddWatch(s, side)
  PROVE  Inv' /\ FiredIsFinal
<1> PICK id \in scene.ids \ issued :
      /\ watches' = Append(watches, [id |-> id, symbol |-> s, side |-> side, state |-> "WAITING", checked |-> FALSE])
      /\ issued' = issued \cup {id}
  BY Zenon DEF AddWatch
<1> DEFINE w == [id |-> id, symbol |-> s, side |-> side, state |-> "WAITING", checked |-> FALSE]
<1>1. id \in WatchIds
  BY AlertMonitorAssumption DEF Inv, MarketOK
<1>2. w \in Watch /\ w.id = id
  BY <1>1 DEF Watch, WatchStates
<1>3. Len(watches) < MaxWatches /\ MaxWatches \in Nat /\ Len(watches) \in Nat
  BY AlertMonitorAssumption DEF AddWatch, UnderLimit, Inv, WatchesOK
<1>4. watches' = Append(watches, w) /\ watches \in Seq(Watch)
  BY DEF Inv, WatchesOK
<1> HIDE DEF w
<1>5. /\ watches' \in Seq(Watch) /\ Len(watches') = Len(watches) + 1
      /\ \A i \in 1 .. Len(watches) : watches'[i] = watches[i]
      /\ watches'[Len(watches) + 1] = w
  BY <1>2, <1>4, AppendProperties
<1>6. DOMAIN watches' = 1 .. Len(watches) + 1 /\ DOMAIN watches = 1 .. Len(watches)
  BY <1>4, <1>5
<1>7. \A i \in DOMAIN watches' : i \in DOMAIN watches \/ i = Len(watches) + 1
  BY <1>3, <1>6
<1>8. \A i \in DOMAIN watches : watches'[i].id \in issued /\ watches'[i].id # id
  BY <1>5, <1>6 DEF Inv, WatchesOK
<1>9. \A i, j \in DOMAIN watches' : watches'[i].id = watches'[j].id => i = j
  <2> SUFFICES ASSUME NEW i \in DOMAIN watches', NEW j \in DOMAIN watches', watches'[i].id = watches'[j].id
               PROVE  i = j
    OBVIOUS
  <2>1. CASE i \in DOMAIN watches /\ j \in DOMAIN watches
    BY <1>5, <1>6, <2>1 DEF Inv, WatchesOK
  <2>2. CASE i = Len(watches) + 1
    BY <1>2, <1>5, <1>7, <1>8, <2>2
  <2>3. CASE j = Len(watches) + 1
    BY <1>2, <1>5, <1>7, <1>8, <2>3
  <2> QED
    BY <1>7, <2>1, <2>2, <2>3
<1>10. WatchesOK'
  <2>1. issued' \in SUBSET WatchIds /\ \A i \in DOMAIN watches' : watches'[i].id \in issued'
    BY <1>1, <1>2, <1>5, <1>7, <1>8 DEF Inv, WatchesOK
  <2> QED
    BY <1>3, <1>5, <1>9, <2>1 DEF WatchesOK
<1>11. Inv'
  BY <1>10, OnlyWatchesChange DEF AddWatch
<1>12. FiredIsFinal
  <2> SUFFICES ASSUME NEW u \in WatchSet, u.state = "FIRED", NEW v \in Range(watches'), v.id = u.id
               PROVE  v.state = "FIRED"
    BY DEF FiredIsFinal
  <2>1. PICK i \in DOMAIN watches : u = watches[i]
    BY DEF WatchSet, Range
  <2>2. PICK j \in DOMAIN watches' : v = watches'[j]
    BY DEF Range
  <2>3. i \in DOMAIN watches' /\ watches'[i] = u
    BY <1>3, <1>5, <1>6, <2>1
  <2>4. i = j
    BY <1>9, <2>2, <2>3
  <2> QED
    BY <2>2, <2>3, <2>4
<1> QED
  BY <1>11, <1>12

LEMMA RemoveWatchKeeps ==
  ASSUME Inv, NEW id \in WatchIds, RemoveWatch(id)
  PROVE  Inv' /\ FiredIsFinal
<1> PICK i \in DOMAIN watches : watches' = RemoveAt(watches, i)
  BY Zenon DEF RemoveWatch
<1> DEFINE n == Len(watches)
           before == SubSeq(watches, 1, i - 1)
           after  == SubSeq(watches, i + 1, n)
           old(j) == IF j < i THEN j ELSE j + 1
<1>1. watches \in Seq(Watch) /\ n \in Nat /\ i \in 1 .. n /\ DOMAIN watches = 1 .. n
  BY DEF Inv, WatchesOK
<1>2. \A j \in 1 .. n : watches[j] \in Watch
  BY <1>1
<1>3. /\ before \in Seq(Watch) /\ Len(before) = i - 1
      /\ \A j \in 1 .. i - 1 : before[j] = watches[j]
  <2>1. \A j \in 1 .. i - 1 : watches[j] \in Watch
    BY <1>1, <1>2
  <2>2. i - 1 \in Int /\ (IF 1 <= i - 1 THEN i - 1 - 1 + 1 ELSE 0) = i - 1
    BY <1>1
  <2>3. /\ before \in Seq(Watch) /\ Len(before) = IF 1 <= i - 1 THEN i - 1 - 1 + 1 ELSE 0
        /\ \A j \in 1 .. i - 1 - 1 + 1 : before[j] = watches[1 + j - 1]
    BY <2>1, <2>2, SubSeqProperties
  <2>4. \A j \in 1 .. i - 1 : j \in 1 .. i - 1 - 1 + 1 /\ 1 + j - 1 = j
    BY <1>1
  <2> QED
    BY <2>2, <2>3, <2>4
<1>4. /\ after \in Seq(Watch) /\ Len(after) = n - i
      /\ \A j \in 1 .. n - i : after[j] = watches[i + j]
  <2>1. \A j \in i + 1 .. n : watches[j] \in Watch
    BY <1>1, <1>2
  <2>2. i + 1 \in Int /\ n \in Int /\ (IF i + 1 <= n THEN n - (i + 1) + 1 ELSE 0) = n - i
    BY <1>1
  <2>3. /\ after \in Seq(Watch) /\ Len(after) = IF i + 1 <= n THEN n - (i + 1) + 1 ELSE 0
        /\ \A j \in 1 .. n - (i + 1) + 1 : after[j] = watches[i + 1 + j - 1]
    BY <2>1, <2>2, SubSeqProperties
  <2>4. \A j \in 1 .. n - i : j \in 1 .. n - (i + 1) + 1 /\ i + 1 + j - 1 = i + j
    BY <1>1
  <2> QED
    BY <2>2, <2>3, <2>4
<1>5. watches' = before \o after
  BY Zenon DEF RemoveAt
<1> HIDE DEF n, before, after
<1>6. /\ watches' \in Seq(Watch) /\ Len(watches') = n - 1
      /\ \A j \in 1 .. n - 1 : watches'[j] = IF j <= i - 1 THEN before[j] ELSE after[j - (i - 1)]
  <2>1. /\ before \o after \in Seq(Watch) /\ Len(before \o after) = Len(before) + Len(after)
        /\ \A j \in 1 .. Len(before) + Len(after) :
             (before \o after)[j] = IF j <= Len(before) THEN before[j] ELSE after[j - Len(before)]
    BY <1>3, <1>4, ConcatProperties
  <2>2. Len(before) + Len(after) = n - 1
    BY <1>1, <1>3, <1>4
  <2> QED
    BY <1>3, <1>5, <2>1, <2>2
<1>7. \A j \in 1 .. n - 1 : old(j) \in 1 .. n /\ watches'[j] = watches[old(j)]
  <2> SUFFICES ASSUME NEW j \in 1 .. n - 1
               PROVE  old(j) \in 1 .. n /\ watches'[j] = watches[old(j)]
    OBVIOUS
  <2>1. CASE j < i
    BY <1>1, <1>3, <1>6, <2>1
  <2>2. CASE ~(j < i)
    <3>1. j - (i - 1) \in 1 .. n - i /\ i + (j - (i - 1)) = j + 1 /\ ~(j <= i - 1) /\ j + 1 \in 1 .. n
      BY <1>1, <2>2
    <3> QED
      BY <1>4, <1>6, <2>2, <3>1
  <2> QED
    BY <2>1, <2>2
<1>8. DOMAIN watches' = 1 .. n - 1
  BY <1>6
<1>9. \A j, k \in 1 .. n - 1 : old(j) = old(k) => j = k
  BY <1>1
<1> HIDE DEF old
<1>10. issued' = issued /\ UNCHANGED <<market, mind, step, restarts, polled>>
  BY Zenon DEF RemoveWatch
<1>11. WatchesOK'
  <2>1. Len(watches') <= MaxWatches
    BY <1>1, <1>6, AlertMonitorAssumption DEF Inv, WatchesOK, n
  <2>2. \A j \in DOMAIN watches' : watches'[j].id \in issued'
    BY <1>1, <1>7, <1>8, <1>10 DEF Inv, WatchesOK
  <2>3. \A j, k \in DOMAIN watches' : watches'[j].id = watches'[k].id => j = k
    BY <1>1, <1>7, <1>8, <1>9 DEF Inv, WatchesOK
  <2> QED
    BY <1>6, <1>10, <2>1, <2>2, <2>3 DEF Inv, WatchesOK
<1>12. FiredIsFinal
  <2>1. \A v \in Range(watches') : v \in WatchSet
    BY <1>1, <1>7, <1>8 DEF Range, WatchSet
  <2>2. \A w, v \in WatchSet : w.id = v.id => w = v
    BY DEF WatchSet, Range, Inv, WatchesOK
  <2> QED
    BY <2>1, <2>2 DEF FiredIsFinal
<1> QED
  BY <1>10, <1>11, <1>12, OnlyWatchesChange

LEMMA RestartKeeps ==
  ASSUME Inv, Restart
  PROVE  Inv' /\ NothingTwice /\ Trusted /\ ReadyIsEarned /\ FiredIsFinal
<1>1. /\ UNCHANGED <<now, closes, happened, scene, issued>> /\ restarts < scene.restarts
      /\ restarts' = restarts + 1 /\ polled' = -1
      /\ memory' = [s \in Symbols |-> Nothing] /\ lastBar' = [s \in {} |-> Nothing]
      /\ lastFull' = [s \in Symbols |-> Nothing] /\ feed' = [k \in {} |-> 0] /\ watches' = <<>>
      /\ step' = Idle /\ heard' = [s \in Symbols |-> {}]
  BY Zenon DEF Restart, market
<1>2. MarketOK' /\ MemoryOK' /\ LastOK' /\ HeardOK'
  BY <1>1 DEF Inv, MarketOK, MemoryOK, LastOK, HeardOK
<1>3. FeedOK' /\ NewKeys = {}
  BY <1>1 DEF FeedOK, NewKeys
<1>4. WatchesOK' /\ Range(watches') = {}
  <2>1. MaxWatches \in Nat
    BY AlertMonitorAssumption
  <2>2. Len(watches') = 0 /\ DOMAIN watches' = {} /\ watches' \in Seq(Watch)
    BY <1>1
  <2> QED
    BY <1>1, <2>1, <2>2 DEF Inv, WatchesOK, Range
<1>5. StepOK'
  BY <1>1, Separate DEF StepOK, Idle, Step, Times
<1>6. CountsOK'
  <2>1. scene.restarts \in Nat
    BY AlertMonitorAssumption DEF Inv, MarketOK
  <2> QED
    BY <1>1, <2>1 DEF Inv, CountsOK
<1> QED
  BY <1>2, <1>3, <1>4, <1>5, <1>6 DEF Inv, NothingTwice, Trusted, ReadyIsEarned, FiredIsFinal

LEMMA StepKeeps ==
  Inv /\ [Next]_vars => Inv' /\ NothingTwice /\ Trusted /\ ReadyIsEarned /\ FiredIsFinal
<1> SUFFICES ASSUME Inv, [Next]_vars
             PROVE  Inv' /\ NothingTwice /\ Trusted /\ ReadyIsEarned /\ FiredIsFinal
  OBVIOUS
<1>1. CASE Tick
  BY <1>1, TickKeeps, QuietWatches, QuietFeed DEF Inv, Tick, mind
<1>2. CASE StartCycle \/ Due \/ ReadDecision
  <2>1. UNCHANGED <<feed, watches, issued>>
    BY Zenon, <1>2 DEF StartCycle, Due, ReadDecision, mind
  <2> QED
    BY <1>2, <2>1, LoopKeeps, QuietWatches, QuietFeed DEF Inv
<1>3. CASE Evaluate
  BY <1>3, EvaluateKeeps
<1>4. CASE Fail
  BY <1>4, FailKeeps
<1>5. ASSUME NEW s \in Symbols, NEW side \in Sides, AddWatch(s, side)
      PROVE  Inv' /\ NothingTwice /\ Trusted /\ ReadyIsEarned /\ FiredIsFinal
  <2>1. UNCHANGED feed
    BY Zenon, <1>5 DEF AddWatch, mind
  <2> QED
    BY <1>5, <2>1, AddWatchKeeps, QuietFeed
<1>6. ASSUME NEW id \in WatchIds, RemoveWatch(id)
      PROVE  Inv' /\ NothingTwice /\ Trusted /\ ReadyIsEarned /\ FiredIsFinal
  <2>1. UNCHANGED feed
    BY Zenon, <1>6 DEF RemoveWatch, mind
  <2> QED
    BY <1>6, <2>1, RemoveWatchKeeps, QuietFeed
<1>7. CASE Restart
  BY <1>7, RestartKeeps
<1>8. CASE UNCHANGED vars
  <2>1. UNCHANGED <<market, mind, watches, issued, step, restarts, polled, feed>>
    BY <1>8 DEF vars, mind
  <2>2. WatchesOK' /\ FiredIsFinal
    BY <2>1, QuietWatches DEF Inv
  <2>3. Inv'
    BY <2>1, <2>2, OnlyWatchesChange
  <2> QED
    BY <2>1, <2>2, <2>3, QuietFeed
<1> QED
  BY <1>1, <1>2, <1>3, <1>4, <1>5, <1>6, <1>7, <1>8 DEF Next

-----------------------------------------------------------------------------
(* The invariant: ids of watches are their own, and an event that was told *)
(* is remembered or too old to be new, however looks, outages, restarts,   *)
(* requests and windowed events interleave.                                *)
THEOREM InvariantHolds == Spec => []Inv
<1>1. Inv /\ [Next]_vars => Inv'
  BY StepKeeps
<1> QED
  BY <1>1, InitEstablishes, PTL DEF Spec

(* No event is told twice while the process runs and no look has let go of *)
(* it: each reported it, or came when it was past the grace.  Looks may    *)
(* miss any event, for as long as they like, and lose their eligibility or *)
(* their candles (derive, AlertStore.add).                                 *)
THEOREM NothingIsToldTwice == Spec => ToldOnce
<1>1. Inv /\ [Next]_vars => NothingTwice
  BY StepKeeps
<1>2. [][Next]_vars /\ []Inv => [][NothingTwice]_vars
  BY <1>1, PTL
<1>3. []Inv => []TypeOK
  BY InvTyped, PTL
<1> QED
  BY <1>2, <1>3, InvariantHolds, PTL DEF Spec, ToldOnce

(* Every alert of the market comes from a usable decision, every READY     *)
(* from a watch that fires then, and a fired watch stays so.               *)
THEOREM AlertsHaveTheirCause == Spec => AlertsAreEarned
<1>1. Inv /\ [Next]_vars => Trusted /\ ReadyIsEarned /\ FiredIsFinal
  BY StepKeeps
<1> QED
  BY <1>1, InvariantHolds, PTL DEF Spec, AlertsAreEarned
=============================================================================
