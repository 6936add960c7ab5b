---------------------------- MODULE SetupMachine ----------------------------
(***************************************************************************)
(* The setup state machine (services/setup_state/engine.py with chase.py   *)
(* and entry/plan.py): one pass over closed candles, one open setup at a   *)
(* time, each candle worked with what is known at its close.               *)
(*                                                                         *)
(* Everything is mirrored for a bearish setup, so prices are measured in   *)
(* the direction of the setup: higher is nearer the target.  A price is a  *)
(* small number and one unit is one ATR.  What the other engines report of *)
(* a candle (bias, pools, sweeps, breaks, zones) is a fact of that candle. *)
(***************************************************************************)
EXTENDS Integers, Sequences, FiniteSets

CONSTANTS
  None,            \* no setup yet; no bias; no plan
  Mode,            \* entry.json mode
  MssWindow,       \* setup.json mss.windowBars
  GraceBars,       \* retracement.zoneGraceBars
  RetraceWindow,   \* retracement.windowBars
  ConfirmWindow,   \* entry.json confirmationWindowBars
  ApproachAtr,     \* retracement.approachAtr
  StopBuffer,      \* entry.json stopBufferAtr
  MinTp1,          \* entry.json minTp1Atr
  MinRr,           \* entry.json minRr of the mode
  GuardAfterTouch, \* setup.json chaseGuardAfterTouchOnly
  ConfirmFirst,    \* setup.json confirmBeforeChaseGuard
  MaxPrice,        \* bound: candles trade between 1 and MaxPrice
  Targets,         \* bound: the prices of target pools
  MaxZones,        \* bound: zones born in one leg
  MaxDay,          \* bound: trading days
  MaxBar           \* bound: candles

Directions == {"BULLISH", "BEARISH"}
Prices == 1 .. MaxPrice

ASSUME SetupAssumption ==
  /\ None \notin Directions
  /\ Mode \in {"CONSERVATIVE", "STANDARD", "AGGRESSIVE"}
  /\ GuardAfterTouch \in BOOLEAN /\ ConfirmFirst \in BOOLEAN
  /\ MssWindow \in Nat \ {0} /\ RetraceWindow \in Nat \ {0} /\ ConfirmWindow \in Nat \ {0}
  /\ GraceBars \in Nat
  /\ ApproachAtr \in Nat /\ StopBuffer \in Nat /\ MinTp1 \in Nat /\ MinRr \in Nat
  /\ Targets \subseteq Nat \ {0}
  /\ MaxPrice \in Nat /\ MaxZones \in Nat /\ MaxDay \in Nat /\ MaxBar \in Nat

PreLiquidity == {"DISCOVERED", "WATCH", "SETUP_FORMING"}
WaitingBreak == {"LIQUIDITY_EVENT", "WAITING_FOR_MSS"}
Retracing    == {"SETUP_ARMED", "WAITING_FOR_RETRACEMENT", "ENTRY_ZONE_APPROACHING"}
Touched      == {"ENTRY_ZONE_TOUCHED", "WAITING_FOR_CONFIRMATION"}
Terminal     == {"INVALIDATED", "EXPIRED", "ENTRY_MISSED"}
States       == PreLiquidity \cup WaitingBreak \cup Retracing \cup Touched \cup {"BLOCKED"} \cup Terminal

(* Every transition the engine may emit.                                   *)
Allowed ==
  [DISCOVERED |-> {"WATCH", "INVALIDATED"},
   WATCH |-> {"SETUP_FORMING", "LIQUIDITY_EVENT", "DISCOVERED", "INVALIDATED"},
   SETUP_FORMING |-> {"WATCH", "LIQUIDITY_EVENT", "DISCOVERED", "INVALIDATED"},
   LIQUIDITY_EVENT |-> {"WAITING_FOR_MSS", "SETUP_ARMED", "INVALIDATED", "EXPIRED"},
   WAITING_FOR_MSS |-> {"SETUP_ARMED", "INVALIDATED", "EXPIRED"},
   SETUP_ARMED |-> {"WAITING_FOR_RETRACEMENT", "ENTRY_ZONE_APPROACHING", "ENTRY_ZONE_TOUCHED",
                    "INVALIDATED", "EXPIRED"},
   WAITING_FOR_RETRACEMENT |-> {"ENTRY_ZONE_APPROACHING", "ENTRY_ZONE_TOUCHED", "INVALIDATED", "EXPIRED"},
   ENTRY_ZONE_APPROACHING |-> {"ENTRY_ZONE_TOUCHED", "WAITING_FOR_RETRACEMENT", "INVALIDATED", "EXPIRED"},
   ENTRY_ZONE_TOUCHED |-> {"WAITING_FOR_CONFIRMATION", "BLOCKED", "ENTRY_MISSED", "INVALIDATED", "EXPIRED"},
   WAITING_FOR_CONFIRMATION |-> {"BLOCKED", "ENTRY_MISSED", "INVALIDATED", "EXPIRED"},
   BLOCKED |-> {"ENTRY_MISSED", "INVALIDATED", "EXPIRED"},
   INVALIDATED |-> {}, EXPIRED |-> {}, ENTRY_MISSED |-> {}]

VARIABLES
  now,     \* the candles worked so far
  today,   \* the trading day of the last one
  setup    \* the open setup, or the last one that ended, or None

vars == <<now, today, setup>>

(* An FVG of the leg; a confirmed IFVG counts as one.  dead = 0: it lives. *)
Zone == [born : Nat, edge : Prices, dead : Nat]

ASSUME NoneAssumption == None \notin Zone

(* trail: the states on this candle, the first being the one before it.    *)
(* An index of 0 is the code's -1.                                         *)
NewSetup(dir, day) ==
  [dir |-> dir, state |-> "DISCOVERED", trail |-> <<"DISCOVERED">>, day |-> day, target |-> 0,
   takenAt |-> 0, swept |-> 0, liqAt |-> 0, adverse |-> 0, mssAt |-> 0, protective |-> 0,
   zones |-> {}, zone |-> None, touchedAt |-> 0, retestAt |-> 0, retestClose |-> 0,
   entry |-> 0, confirmedAt |-> 0]

Running == setup # None /\ setup.state \notin Terminal

(* A candle: its prices and what the other engines report of it.           *)
(* target: the nearest eligible untaken target pool beyond the close, or 0 *)
(* sweep: it swept the opposite side; break: it confirmed an MSS or CHoCH  *)
(* with displacement; born: the edge of the zone it created, or 0; kills:  *)
(* the zones it invalidated; reaches: it took the setup's target pool;     *)
(* ltf: the close of the LTF reversal since the touch, or 0; up: it closes *)
(* with the direction, or is a meaningful no-wick candle.                  *)
Candle(lo, close) ==
  [lo |-> lo, close |-> close, target |-> 0, sweep |-> FALSE, near |-> FALSE, break |-> FALSE,
   born |-> 0, kills |-> {}, reaches |-> FALSE, ltf |-> 0, up |-> FALSE]

-----------------------------------------------------------------------------
(* emit and end                                                            *)
Emit(s, state) == [s EXCEPT !.state = state, !.trail = Append(@, state)]

Least(a, b) == IF a < b THEN a ELSE b

(* The zones of the setup's direction since its liquidity event.           *)
WithZones(s, c, at) ==
  [s EXCEPT !.zones = {IF z \in c.kills THEN [z EXCEPT !.dead = at] ELSE z : z \in @}
                        \cup {[born |-> at, edge |-> e, dead |-> 0] : e \in {c.born} \ {0}},
            !.takenAt = IF @ = 0 /\ c.reaches THEN at ELSE @]

(* collect_zones and live_zones                                            *)
LegZones(s)  == {z \in s.zones : z.born <= s.mssAt + GraceBars}
LiveZones(s) == {z \in LegZones(s) : z.dead = 0}

-----------------------------------------------------------------------------
(* waiting_break: a close beyond the swept extreme ends the setup; then a  *)
(* deeper sweep replaces the liquidity event; then the break is looked for.*)
(* Mutant: the protective extreme is the low of the break candle alone.    *)
AdverseForgotten(s, c) == c.lo

AdverseOf(s, c) == Least(s.adverse, c.lo)

BreakOverdue(s, at) == at - s.liqAt >= MssWindow

OnWaitingBreak(s, c, at, same) ==
  LET a == [s EXCEPT !.adverse = AdverseOf(s, c)]
      d == [a EXCEPT !.swept = IF ~same /\ c.sweep /\ c.lo < s.swept THEN c.lo ELSE @]
  IN  IF ~same /\ c.close < s.swept THEN Emit(a, "INVALIDATED")
      ELSE IF c.break THEN Emit([d EXCEPT !.mssAt = at, !.protective = d.adverse], "SETUP_ARMED")
      ELSE IF BreakOverdue(s, at) THEN Emit(d, "EXPIRED")
      ELSE IF ~same /\ s.state = "LIQUIDITY_EVENT" THEN Emit(d, "WAITING_FOR_MSS")
      ELSE d

(* pre_liquidity: the target and the day are refreshed until the sweep.    *)
(* Mutant: a setup with a target is left where it is.                      *)
StillDiscovered(s) == s

Watched(s) == IF s.state = "DISCOVERED" THEN Emit(s, "WATCH") ELSE s

OnPreLiquidity(s, c, at, day) ==
  LET w == Watched([s EXCEPT !.target = c.target, !.day = day])
      q == [w EXCEPT !.swept = c.lo, !.adverse = c.lo, !.liqAt = at]
  IN  IF c.target = 0
      THEN IF s.state = "DISCOVERED" THEN s ELSE Emit(s, "DISCOVERED")
      ELSE IF c.sweep
      THEN OnWaitingBreak(Emit(WithZones(q, c, at), "LIQUIDITY_EVENT"), c, at, TRUE)
      ELSE IF c.near /\ w.state = "WATCH" THEN Emit(w, "SETUP_FORMING")
      ELSE IF ~c.near /\ w.state = "SETUP_FORMING" THEN Emit(w, "WATCH")
      ELSE w

-----------------------------------------------------------------------------
(* confirm: the first entry model of the mode that offers a price, or 0.   *)
EntryOf(s, c, at) ==
  LET beyond == c.close > s.zone.edge
  IN  CASE Mode = "CONSERVATIVE" ->
             IF s.retestAt # 0 /\ at = s.retestAt + 1 /\ c.close > s.retestClose THEN c.close ELSE 0
        [] Mode = "AGGRESSIVE" /\ at = s.touchedAt -> s.zone.edge
        [] OTHER -> IF c.ltf # 0 THEN c.ltf ELSE IF beyond /\ c.up THEN c.close ELSE 0

(* What the attempt leaves behind when no model offers an entry.           *)
Retested(s, c, at) ==
  IF Mode = "CONSERVATIVE" /\ c.close > s.zone.edge /\ c.up /\ at > s.retestAt
  THEN [s EXCEPT !.retestAt = at, !.retestClose = c.close] ELSE s

Stop(s) == s.protective - StopBuffer

(* build_plan: what makes an entry tradeable.                              *)
GoodPlan(s, entry) ==
  /\ entry > Stop(s)
  /\ s.target - entry >= MinTp1
  /\ s.target - entry >= MinRr * (entry - Stop(s))

Finish(s, c, at) ==
  LET e == EntryOf(s, c, at)
  IN  IF GoodPlan(s, e) THEN Emit([s EXCEPT !.entry = e, !.confirmedAt = at], "BLOCKED")
      ELSE Emit(s, "ENTRY_MISSED")

Confirm(s, c, at) == IF EntryOf(s, c, at) # 0 THEN Finish(s, c, at) ELSE Retested(s, c, at)

-----------------------------------------------------------------------------
(* armed: the checks in the order of the code, then the touch and the wait.*)
ChaseGuardApplies(s) == s.takenAt # 0 /\ (GuardAfterTouch => s.touchedAt # 0)

OnTouched(s, c, at) ==
  LET r == Retested(s, c, at)
  IN  IF EntryOf(s, c, at) # 0 THEN Finish(s, c, at)
      ELSE IF at - s.touchedAt >= ConfirmWindow THEN Emit(r, "EXPIRED")
      ELSE IF s.state = "ENTRY_ZONE_TOUCHED" THEN Emit(r, "WAITING_FOR_CONFIRMATION")
      ELSE r

(* The usable zone with the nearest edge.                                  *)
Nearest(zones) == CHOOSE z \in zones : \A y \in zones : y.edge <= z.edge

Usable(s, at) == {z \in LiveZones(s) : z.born < at}

OnRetracing(s, c, at) ==
  LET zone == Nearest(Usable(s, at))
      near == c.close - zone.edge <= ApproachAtr
      t == [s EXCEPT !.zone = zone, !.touchedAt = at, !.retestAt = 0]
  IN  IF at - s.mssAt >= RetraceWindow THEN Emit(s, "EXPIRED")
      ELSE IF Usable(s, at) = {}
      THEN IF s.state = "SETUP_ARMED" THEN Emit(s, "WAITING_FOR_RETRACEMENT") ELSE s
      ELSE IF c.lo <= zone.edge THEN Confirm(Emit(t, "ENTRY_ZONE_TOUCHED"), c, at)
      ELSE IF near /\ s.state # "ENTRY_ZONE_APPROACHING" THEN Emit(s, "ENTRY_ZONE_APPROACHING")
      ELSE IF ~near /\ s.state # "WAITING_FOR_RETRACEMENT" THEN Emit(s, "WAITING_FOR_RETRACEMENT")
      ELSE s

OnArmed(s, c, at) ==
  LET first == ConfirmFirst /\ s.state \in Touched
      r == IF first THEN Retested(s, c, at) ELSE s
  IN  IF c.close < s.protective THEN Emit(s, "INVALIDATED")
      ELSE IF first /\ EntryOf(s, c, at) # 0 THEN Finish(s, c, at)
      ELSE IF ChaseGuardApplies(s) THEN Emit(r, "INVALIDATED")
      ELSE IF LegZones(s) # {} /\ LiveZones(s) = {} THEN Emit(r, "INVALIDATED")
      ELSE IF LegZones(s) = {} /\ at >= s.mssAt + GraceBars THEN Emit(r, "EXPIRED")
      ELSE IF s.state \in Touched THEN OnTouched(r, c, at)
      ELSE OnRetracing(r, c, at)

(* blocked: after the plan, until somebody may trade it.                   *)
ChaseReason(s, c) == c.close > s.entry /\ s.target - c.close < MinRr * (c.close - Stop(s))

OnBlocked(s, c) ==
  IF c.lo <= Stop(s) \/ c.close < s.protective THEN Emit(s, "INVALIDATED")
  ELSE IF s.takenAt # 0 \/ ChaseReason(s, c) THEN Emit(s, "ENTRY_MISSED")
  ELSE s

-----------------------------------------------------------------------------
(* One candle.  The facts a handler does not look at stay at their default.*)
Init == now = 0 /\ today = 0 /\ setup = None

Days == {today, today + 1} \cap 0 .. MaxDay

NextCandle(day) ==
  /\ now < MaxBar
  /\ now' = now + 1
  /\ today' = day

Start(s) == [s EXCEPT !.trail = <<s.state>>]

Shape == {c \in {Candle(l, k) : l \in Prices, k \in Prices} : c.lo <= c.close}

(* No setup is open and the bias timeframes disagree.                      *)
NoBias ==
  /\ ~Running
  /\ \E d \in Days : NextCandle(d)
  /\ setup' = setup

Quiet(c, t, n) == [c EXCEPT !.target = t, !.near = n]
Sweeping(c, t, b, e) == [c EXCEPT !.target = t, !.sweep = TRUE, !.break = b, !.born = e]

PreFacts(c) ==
  LET ahead == {p \in Targets : p > c.close}
  IN  {Quiet(c, t, n) : t \in {0} \cup ahead, n \in BOOLEAN}
        \cup {Sweeping(c, t, b, e) : t \in ahead, b \in BOOLEAN, e \in 0 .. c.close}

(* A setup opens on a candle after the one that ended the last, and the    *)
(* rest of that candle is worked at once.                                  *)
Discover ==
  /\ ~Running
  /\ \E day \in Days, dir \in Directions, shape \in Shape : \E c \in PreFacts(shape) :
       /\ NextCandle(day)
       /\ setup' = OnPreLiquidity(NewSetup(dir, day), c, now + 1, day)

(* HTF bias no longer the direction of the setup.                          *)
BiasChanges ==
  /\ Running
  /\ \E d \in Days : NextCandle(d)
  /\ setup' = Emit(Start(setup), "INVALIDATED")

(* Mutant: the end of the trading day is not looked at.                    *)
DayGoesOn(s, day) == FALSE

DayEnded(s, day) == s.state \notin PreLiquidity /\ day # s.day

DayEnds ==
  /\ Running
  /\ \E d \in Days : DayEnded(setup, d) /\ NextCandle(d)
  /\ setup' = Emit(Start(setup), "EXPIRED")

PreLiquidityCandle ==
  /\ Running /\ setup.state \in PreLiquidity
  /\ \E day \in Days, shape \in Shape : \E c \in PreFacts(shape) :
       /\ NextCandle(day)
       /\ setup' = OnPreLiquidity(Start(setup), c, now + 1, day)

(* A zone born after the grace bars is not collected and left out; one can *)
(* die only on a candle that closes below its edge.                        *)
Zoning(c, e, k) == [c EXCEPT !.born = e, !.kills = k]

ZoneFacts(c) ==
  LET collected == setup.mssAt = 0 \/ now + 1 <= setup.mssAt + GraceBars
      born == IF collected /\ Cardinality(setup.zones) < MaxZones THEN 0 .. c.close ELSE {0}
  IN  {Zoning(c, e, k) : e \in born, k \in SUBSET {z \in setup.zones : z.dead = 0 /\ c.close < z.edge}}

TargetFacts(c) == {[c EXCEPT !.reaches = r] : r \in {x \in BOOLEAN : c.close > setup.target => x}}

SameDay == \E day \in Days : ~DayEnded(setup, day) /\ NextCandle(day)

WaitingBreakCandle ==
  /\ Running /\ setup.state \in WaitingBreak
  /\ SameDay
  /\ \E shape \in Shape : \E z \in ZoneFacts(shape) : \E t \in TargetFacts(z) :
     \E sweep \in BOOLEAN, break \in BOOLEAN :
       LET c == [t EXCEPT !.sweep = sweep, !.break = break]
       IN  setup' = OnWaitingBreak(WithZones(Start(setup), c, now + 1), c, now + 1, FALSE)

ArmedCandle ==
  /\ Running /\ setup.state \in Retracing \cup Touched
  /\ SameDay
  /\ \E shape \in Shape : \E z \in ZoneFacts(shape) : \E t \in TargetFacts(z) :
     \E ltf \in {0} \cup shape.lo .. MaxPrice, up \in BOOLEAN :
       LET c == [t EXCEPT !.ltf = ltf, !.up = up]
       IN  setup' = OnArmed(WithZones(Start(setup), c, now + 1), c, now + 1)

BlockedCandle ==
  /\ Running /\ setup.state = "BLOCKED"
  /\ SameDay
  /\ \E shape \in Shape : \E c \in TargetFacts(shape) :
       setup' = OnBlocked(WithZones(Start(setup), c, now + 1), c)

Next ==
  \/ NoBias \/ Discover \/ BiasChanges \/ DayEnds
  \/ PreLiquidityCandle \/ WaitingBreakCandle \/ ArmedCandle \/ BlockedCandle

Spec == Init /\ [][Next]_vars

-----------------------------------------------------------------------------
(* Properties *)

SetupRecord ==
  [dir : Directions, state : States, trail : Seq(States), day : Nat, target : Nat, takenAt : Nat,
   swept : Nat, liqAt : Nat, adverse : Nat, mssAt : Nat, protective : Nat, zones : SUBSET Zone,
   zone : Zone \cup {None}, touchedAt : Nat, retestAt : Nat, retestClose : Nat, entry : Nat,
   confirmedAt : Nat]

(* The types, and what the engine's assert statements say of the optional  *)
(* fields in the states whose handler reads them.                          *)
TypeOK ==
  /\ now \in Nat /\ today \in Nat /\ setup \in SetupRecord \cup {None}
  /\ setup # None =>
       /\ setup.state \in WaitingBreak => setup.swept # 0 /\ setup.adverse # 0
       /\ setup.state \in Retracing \cup Touched \cup {"BLOCKED"} => setup.protective # 0 /\ setup.target # 0
       /\ setup.state \in Touched \cup {"BLOCKED"} => setup.zone # None
       /\ setup.state = "BLOCKED" => setup.entry # 0

(* emit never raises: on every candle, through every cascade of handlers,   *)
(* each state follows the one before it by an entry of ALLOWED.             *)
LegalTrail ==
  /\ TypeOK
  /\ setup # None => \A n \in 1 .. Len(setup.trail) - 1 : setup.trail[n + 1] \in Allowed[setup.trail[n]]

(* No setup outlives its windows: after each candle it is still in time for *)
(* the break, the retracement or the confirmation it waits for, on the      *)
(* trading day of its sweep, and with a zone or the grace to get one.       *)
InTime ==
  Running =>
    /\ setup.state \in WaitingBreak => now < setup.liqAt + MssWindow
    /\ setup.state \in Retracing => now < setup.mssAt + RetraceWindow
    /\ setup.state \in Touched => now < setup.touchedAt + ConfirmWindow
    /\ setup.state \notin PreLiquidity => setup.day = today
    /\ setup.state \in Retracing \cup Touched /\ now > setup.mssAt =>
         LiveZones(setup) # {} \/ (LegZones(setup) = {} /\ now < setup.mssAt + GraceBars)

(* A confirmed plan went through every step in order and in time, on a zone *)
(* of its own leg that existed before the touch, with its stop beyond the   *)
(* swept extreme and a reward worth the risk.                               *)
PlanIsEarned ==
  LET s == setup
  IN  s # None /\ s.confirmedAt # 0 =>
        /\ s.liqAt <= s.mssAt /\ s.mssAt <= s.liqAt + MssWindow
        /\ s.mssAt < s.touchedAt /\ s.touchedAt < s.mssAt + RetraceWindow
        /\ s.touchedAt <= s.confirmedAt /\ s.confirmedAt <= s.touchedAt + ConfirmWindow
        /\ s.zone.born >= s.liqAt /\ s.zone.born <= s.mssAt + GraceBars /\ s.zone.born < s.touchedAt
        /\ Stop(s) <= s.swept /\ Stop(s) < s.entry
        /\ s.target - s.entry >= MinTp1
        /\ s.target - s.entry >= MinRr * (s.entry - Stop(s))
=============================================================================
