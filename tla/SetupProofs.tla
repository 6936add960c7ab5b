---------------------------- MODULE SetupProofs -----------------------------
(***************************************************************************)
(* Proofs about SetupMachine, for every mode, window, price range and      *)
(* number of zones, days and candles.                                      *)
(***************************************************************************)
EXTENDS SetupMachine, FiniteSetTheorems, SequenceTheorems, WellFoundedInduction, TLAPS

-----------------------------------------------------------------------------
(* The inductive invariant: what the fields of a setup hold in each state. *)

(* The states on this candle end in the one the setup is in.               *)
Trail(s) ==
  /\ Len(s.trail) >= 1 /\ s.trail[Len(s.trail)] = s.state
  /\ \A n \in 1 .. Len(s.trail) - 1 : s.trail[n + 1] \in Allowed[s.trail[n]]

(* Before the sweep nothing is known of the leg.                           *)
Untouched(s) ==
  /\ s.liqAt = 0 /\ s.mssAt = 0 /\ s.touchedAt = 0 /\ s.confirmedAt = 0 /\ s.zones = {}

(* Since the sweep: the extreme is the lowest price seen and every zone is *)
(* of the leg.                                                             *)
Leg(s, at) ==
  /\ s.target # 0 /\ s.swept # 0 /\ s.liqAt <= at
  /\ \A z \in s.zones : s.liqAt <= z.born /\ z.born <= at

AwaitsBreak(s, at) ==
  /\ Leg(s, at) /\ s.adverse # 0 /\ s.adverse <= s.swept
  /\ s.mssAt = 0 /\ s.confirmedAt = 0
  /\ at < s.liqAt + MssWindow

Broken(s, at) ==
  /\ Leg(s, at) /\ s.protective # 0 /\ s.protective <= s.swept
  /\ s.liqAt <= s.mssAt /\ s.mssAt <= s.liqAt + MssWindow /\ s.mssAt <= at

(* Nothing was touched or confirmed while the setup waits for it.          *)
AwaitsTouch(s, at) == Broken(s, at) /\ s.confirmedAt = 0 /\ at < s.mssAt + RetraceWindow

OnItsZone(s, at) ==
  /\ Broken(s, at) /\ s.zone # None
  /\ s.liqAt <= s.zone.born /\ s.zone.born <= s.mssAt + GraceBars /\ s.zone.born < s.touchedAt
  /\ s.mssAt < s.touchedAt /\ s.touchedAt < s.mssAt + RetraceWindow /\ s.touchedAt <= at

AwaitsEntry(s, at) == OnItsZone(s, at) /\ s.confirmedAt = 0 /\ at < s.touchedAt + ConfirmWindow

Planned(s) ==
  /\ s.confirmedAt # 0 /\ s.entry # 0 /\ s.protective # 0 /\ s.target # 0 /\ s.zone # None
  /\ s.liqAt <= s.mssAt /\ s.mssAt <= s.liqAt + MssWindow
  /\ s.mssAt < s.touchedAt /\ s.touchedAt < s.mssAt + RetraceWindow
  /\ s.touchedAt <= s.confirmedAt /\ s.confirmedAt <= s.touchedAt + ConfirmWindow
  /\ s.zone.born >= s.liqAt /\ s.zone.born <= s.mssAt + GraceBars /\ s.zone.born < s.touchedAt
  /\ s.protective <= s.swept /\ GoodPlan(s, s.entry)

Zoned(s, at) ==
  at > s.mssAt => LiveZones(s) # {} \/ (LegZones(s) = {} /\ at < s.mssAt + GraceBars)

StageAs(s, state, at) ==
  /\ state \in PreLiquidity => Untouched(s)
  /\ state \in WaitingBreak => AwaitsBreak(s, at)
  /\ state \in Retracing => AwaitsTouch(s, at) /\ Zoned(s, at)
  /\ state \in Touched => AwaitsEntry(s, at) /\ Zoned(s, at)
  /\ state = "BLOCKED" => Planned(s)
  /\ state \in Terminal => s.confirmedAt = 0 \/ Planned(s)

Stage(s, at) == StageAs(s, s.state, at)

OfTheDay(s, day) == s.state \notin PreLiquidity \cup Terminal => s.day = day

Sound(s, at, day) == s \in SetupRecord /\ Trail(s) /\ Stage(s, at) /\ OfTheDay(s, day)

IInv ==
  /\ now \in Nat /\ today \in Nat
  /\ setup # None => Sound(setup, now, today)

-----------------------------------------------------------------------------
(* What the parameters are, and what a candle holds.                       *)
LEMMA Windows ==
  /\ MssWindow \in Nat \ {0} /\ RetraceWindow \in Nat \ {0} /\ ConfirmWindow \in Nat \ {0}
  /\ GraceBars \in Nat /\ StopBuffer \in Nat /\ MinTp1 \in Nat /\ MinRr \in Nat /\ MaxPrice \in Nat
BY SetupAssumption

LEMMA PricesAre == Prices \subseteq Nat \ {0} /\ \A p \in Prices : p <= MaxPrice
BY Windows DEF Prices

Fact ==
  [lo : Prices, close : Prices, target : Nat, sweep : BOOLEAN, near : BOOLEAN, break : BOOLEAN,
   born : Nat, kills : SUBSET Zone, reaches : BOOLEAN, ltf : Nat, up : BOOLEAN]

LEMMA ShapeIs ==
  ASSUME NEW c \in Shape
  PROVE  /\ c \in Fact /\ c.born = 0 /\ ~c.sweep
         /\ \A e \in 0 .. c.close : e \in Nat /\ e \in {0} \cup Prices
<1>1. PICK l \in Prices, k \in Prices : c = Candle(l, k)
  BY DEF Shape
<1>2. c \in Fact /\ c.born = 0 /\ ~c.sweep
  BY <1>1 DEF Candle, Fact
<1>3. c.close \in 1 .. MaxPrice
  BY <1>2 DEF Fact, Prices
<1> QED
  BY <1>2, <1>3, Windows DEF Prices

LEMMA PreFactsAre ==
  ASSUME NEW shape \in Shape, NEW c \in PreFacts(shape)
  PROVE  c \in Fact /\ c.born \in {0} \cup Prices /\ (c.sweep => c.target # 0)
<1>1. shape \in Fact /\ shape.born = 0 /\ ~shape.sweep
      /\ \A e \in 0 .. shape.close : e \in Nat /\ e \in {0} \cup Prices
  BY ShapeIs
<1>2. Targets \subseteq Nat \ {0}
  BY SetupAssumption
<1> DEFINE ahead == {p \in Targets : p > shape.close}
<1>3. \/ \E t \in {0} \cup ahead, n \in BOOLEAN : c = Quiet(shape, t, n)
      \/ \E t \in ahead, b \in BOOLEAN, e \in 0 .. shape.close : c = Sweeping(shape, t, b, e)
  BY DEF PreFacts
<1>4. CASE \E t \in {0} \cup ahead, n \in BOOLEAN : c = Quiet(shape, t, n)
  <2>1. PICK t \in {0} \cup Targets, n \in BOOLEAN : c = Quiet(shape, t, n)
    BY <1>4
  <2> QED
    BY <1>1, <1>2, <2>1 DEF Fact, Quiet
<1>5. CASE \E t \in ahead, b \in BOOLEAN, e \in 0 .. shape.close : c = Sweeping(shape, t, b, e)
  <2>1. PICK t \in Targets, b \in BOOLEAN, e \in 0 .. shape.close : c = Sweeping(shape, t, b, e)
    BY <1>5
  <2>2. t \in Nat \ {0} /\ e \in Nat /\ e \in {0} \cup Prices
    BY <1>1, <1>2
  <2> QED
    BY <1>1, <2>1, <2>2 DEF Fact, Sweeping
<1> QED
  BY <1>3, <1>4, <1>5

LEMMA ZoneFactsAre ==
  ASSUME NEW shape \in Shape, setup \in SetupRecord, NEW c \in ZoneFacts(shape)
  PROVE  c \in Fact /\ c.born \in {0} \cup Prices
<1>1. shape \in Fact /\ shape.born = 0
      /\ \A e \in 0 .. shape.close : e \in Nat /\ e \in {0} \cup Prices
  BY ShapeIs
<1>2. 0 \in 0 .. shape.close
  <2>1. shape.close \in Prices
    BY <1>1 DEF Fact
  <2>2. shape.close \in Nat
    BY <2>1, PricesAre
  <2> QED
    BY <2>2
<1>3. PICK e \in 0 .. shape.close, k \in SUBSET setup.zones : c = Zoning(shape, e, k)
  BY <1>2 DEF ZoneFacts
<1>4. k \in SUBSET Zone
  BY <1>3 DEF SetupRecord
<1> QED
  BY <1>1, <1>3, <1>4 DEF Fact, Zoning

LEMMA TargetFactsAre ==
  ASSUME NEW b \in Fact, NEW c \in TargetFacts(b)
  PROVE  c \in Fact /\ c.born = b.born
BY DEF TargetFacts, Fact

-----------------------------------------------------------------------------
(* What the steps of the handlers do to a setup.                           *)

(* emit moves the state and notes it, and touches nothing else.            *)
SameLeg(a, b) ==
  /\ a.dir = b.dir /\ a.day = b.day /\ a.target = b.target
  /\ a.swept = b.swept /\ a.liqAt = b.liqAt /\ a.adverse = b.adverse /\ a.mssAt = b.mssAt
  /\ a.protective = b.protective /\ a.zone = b.zone
  /\ a.touchedAt = b.touchedAt /\ a.entry = b.entry /\ a.confirmedAt = b.confirmedAt

SameBut(a, b) == SameLeg(a, b) /\ a.takenAt = b.takenAt /\ a.zones = b.zones

LEMMA EmitIs ==
  ASSUME NEW s \in SetupRecord, NEW st \in States
  PROVE  /\ Emit(s, st) \in SetupRecord /\ Emit(s, st).state = st
         /\ Emit(s, st).trail = Append(s.trail, st) /\ SameBut(Emit(s, st), s)
         /\ Emit(s, st).retestAt = s.retestAt /\ Emit(s, st).retestClose = s.retestClose
<1> DEFINE g == Append(s.trail, st)
<1>1. s.trail \in Seq(States)
  BY DEF SetupRecord
<1>2. g \in Seq(States)
  BY <1>1
<1>3. Emit(s, st) = [s EXCEPT !.state = st, !.trail = g]
  BY DEF Emit, SetupRecord
<1> HIDE DEF g
<1>4. Emit(s, st) \in SetupRecord
  BY <1>2, <1>3 DEF SetupRecord
<1>5. Emit(s, st).state = st /\ Emit(s, st).trail = g
  BY <1>3 DEF SetupRecord
<1>6. /\ SameBut(Emit(s, st), s)
      /\ Emit(s, st).retestAt = s.retestAt /\ Emit(s, st).retestClose = s.retestClose
  BY <1>3 DEF SetupRecord, SameBut, SameLeg
<1> QED
  BY <1>4, <1>5, <1>6 DEF g

LEMMA EmitTrail ==
  ASSUME NEW s \in SetupRecord, Trail(s), NEW st \in States, st \in Allowed[s.state]
  PROVE  Trail(Emit(s, st))
<1>1. Emit(s, st).state = st /\ Emit(s, st).trail = Append(s.trail, st) /\ s.trail \in Seq(States)
  BY EmitIs DEF SetupRecord
<1> DEFINE e == Emit(s, st)
           old == s.trail
<1> HIDE DEF e
<1>2. Len(old) >= 1 /\ old[Len(old)] = s.state /\ Len(old) \in Nat
      /\ \A n \in 1 .. Len(old) - 1 : old[n + 1] \in Allowed[old[n]]
  BY <1>1 DEF Trail
<1>3. e.state = st /\ e.trail = Append(old, st) /\ old \in Seq(States)
  BY <1>1 DEF e
<1> HIDE DEF old
<1>4. Len(e.trail) = Len(old) + 1 /\ e.trail[Len(old) + 1] = st
      /\ \A n \in 1 .. Len(old) : e.trail[n] = old[n]
  BY <1>2, <1>3
<1>5. \A n \in 1 .. Len(e.trail) - 1 : e.trail[n + 1] \in Allowed[e.trail[n]]
  <2> SUFFICES ASSUME NEW n \in 1 .. Len(e.trail) - 1 PROVE e.trail[n + 1] \in Allowed[e.trail[n]]
    OBVIOUS
  <2>1. CASE n = Len(old)
    BY <1>2, <1>4, <2>1
  <2>2. CASE n \in 1 .. Len(old) - 1
    <3>1. e.trail[n] = old[n] /\ e.trail[n + 1] = old[n + 1]
      BY <1>2, <1>4, <2>2
    <3> QED
      BY <1>2, <2>2, <3>1
  <2> QED
    BY <1>2, <1>4, <2>1, <2>2
<1>6. Trail(e)
  BY <1>2, <1>3, <1>4, <1>5 DEF Trail
<1> QED
  BY <1>6 DEF e

LEMMA Legal ==
  /\ \A st \in States \ Terminal : "INVALIDATED" \in Allowed[st]
  /\ \A st \in WaitingBreak \cup Retracing \cup Touched \cup {"BLOCKED"} : "EXPIRED" \in Allowed[st]
  /\ \A st \in Touched \cup {"BLOCKED"} : "ENTRY_MISSED" \in Allowed[st]
  /\ \A st \in Touched : "BLOCKED" \in Allowed[st]
  /\ \A st \in Retracing : "ENTRY_ZONE_TOUCHED" \in Allowed[st]
  /\ \A st \in Retracing \ {"WAITING_FOR_RETRACEMENT"} : "WAITING_FOR_RETRACEMENT" \in Allowed[st]
  /\ \A st \in Retracing \ {"ENTRY_ZONE_APPROACHING"} : "ENTRY_ZONE_APPROACHING" \in Allowed[st]
  /\ "WAITING_FOR_CONFIRMATION" \in Allowed["ENTRY_ZONE_TOUCHED"]
  /\ \A st \in WaitingBreak : "SETUP_ARMED" \in Allowed[st]
  /\ "WAITING_FOR_MSS" \in Allowed["LIQUIDITY_EVENT"]
  /\ \A st \in {"WATCH", "SETUP_FORMING"} : {"LIQUIDITY_EVENT", "DISCOVERED"} \subseteq Allowed[st]
  /\ "WATCH" \in Allowed["DISCOVERED"] /\ "WATCH" \in Allowed["SETUP_FORMING"]
  /\ "SETUP_FORMING" \in Allowed["WATCH"]
BY DEF Allowed, States, PreLiquidity, WaitingBreak, Retracing, Touched, Terminal

(* A setup that runs may be invalidated, and expire once liquidity is taken.*)
LEMMA MayEnd ==
  ASSUME NEW from, from \in States \ Terminal, NEW st, st \in {"INVALIDATED", "EXPIRED"},
         st = "EXPIRED" => from \notin PreLiquidity
  PROVE  st \in Allowed[from] /\ st \in Terminal
<1>1. CASE st = "INVALIDATED"
  BY <1>1, Legal DEF Terminal
<1>2. CASE st = "EXPIRED"
  <2>1. from \in WaitingBreak \cup Retracing \cup Touched \cup {"BLOCKED"}
    BY <1>2 DEF States
  <2> QED
    BY <1>2, <2>1, Legal DEF Terminal
<1> QED
  BY <1>1, <1>2

LEMMA SameFacts ==
  ASSUME NEW e, NEW s, SameBut(e, s), NEW at
  PROVE  /\ LegZones(e) = LegZones(s) /\ LiveZones(e) = LiveZones(s) /\ Stop(e) = Stop(s)
         /\ Untouched(s) => Untouched(e)
         /\ AwaitsBreak(s, at) => AwaitsBreak(e, at)
         /\ Broken(s, at) => Broken(e, at)
         /\ AwaitsTouch(s, at) => AwaitsTouch(e, at)
         /\ OnItsZone(s, at) => OnItsZone(e, at)
         /\ AwaitsEntry(s, at) => AwaitsEntry(e, at)
         /\ Zoned(s, at) => Zoned(e, at)
         /\ Planned(s) => Planned(e)
         /\ e.confirmedAt = s.confirmedAt /\ e.day = s.day
<1>1. LegZones(e) = LegZones(s) /\ LiveZones(e) = LiveZones(s) /\ Stop(e) = Stop(s)
  BY DEF SameBut, SameLeg, LegZones, LiveZones, Stop
<1>2. Zoned(s, at) => Zoned(e, at)
  BY <1>1 DEF SameBut, SameLeg, Zoned
<1>3. Planned(s) => Planned(e)
  BY <1>1 DEF SameBut, SameLeg, Planned, GoodPlan
<1> QED
  BY <1>1, <1>2, <1>3
     DEF SameBut, SameLeg, Untouched, AwaitsBreak, AwaitsTouch, AwaitsEntry, OnItsZone, Broken, Leg

(* A setup that moves to a state it may move to, with what it takes there. *)
LEMMA EmitSound ==
  ASSUME NEW s \in SetupRecord, Trail(s), NEW st \in States, st \in Allowed[s.state],
         NEW at, NEW day, StageAs(s, st, at), st \notin PreLiquidity \cup Terminal => s.day = day
  PROVE  Sound(Emit(s, st), at, day)
<1> DEFINE e == Emit(s, st)
<1>1. e \in SetupRecord /\ e.state = st /\ SameBut(e, s)
  BY EmitIs
<1>2. Trail(e)
  BY EmitTrail
<1> HIDE DEF e
<1>3. Stage(e, at) /\ OfTheDay(e, day)
  BY <1>1, SameFacts DEF Stage, StageAs, OfTheDay
<1> QED
  BY <1>1, <1>2, <1>3 DEF Sound, e

LEMMA EndSound ==
  ASSUME NEW s \in SetupRecord, Trail(s), NEW st \in Terminal, st \in Allowed[s.state],
         NEW at, NEW day, s.confirmedAt = 0 \/ Planned(s)
  PROVE  Sound(Emit(s, st), at, day)
<1>1. st \in States
  BY DEF States
<1>2. StageAs(s, st, at)
  BY DEF StageAs, PreLiquidity, WaitingBreak, Retracing, Touched, Terminal
<1> QED
  BY <1>1, <1>2, EmitSound

LEMMA StartIs ==
  ASSUME NEW s \in SetupRecord
  PROVE  /\ Start(s) \in SetupRecord /\ Start(s).state = s.state /\ SameBut(Start(s), s)
         /\ Trail(Start(s))
<1> DEFINE g == <<s.state>>
<1>1. s.state \in States
  BY DEF SetupRecord
<1>2. g \in Seq(States) /\ Len(g) = 1 /\ g[1] = s.state
  BY <1>1
<1>3. Start(s) = [s EXCEPT !.trail = g]
  BY DEF Start
<1> HIDE DEF g
<1>4. Start(s) \in SetupRecord /\ Start(s).state = s.state /\ SameBut(Start(s), s) /\ Start(s).trail = g
  <2>1. Start(s) \in SetupRecord
    BY <1>2, <1>3 DEF SetupRecord
  <2>2. Start(s).state = s.state /\ Start(s).trail = g
    BY <1>3 DEF SetupRecord
  <2>3. SameBut(Start(s), s)
    BY <1>3 DEF SetupRecord, SameBut, SameLeg
  <2> QED
    BY <2>1, <2>2, <2>3
<1>5. Len(g) >= 1 /\ g[Len(g)] = s.state /\ \A n \in 1 .. Len(g) - 1 : g[n + 1] \in Allowed[g[n]]
  <2>1. 1 .. Len(g) - 1 = {}
    BY <1>2
  <2> QED
    BY <1>2, <2>1
<1>6. Trail(Start(s))
  BY <1>4, <1>5 DEF Trail
<1> QED
  BY <1>4, <1>6

(* The zones of a candle are of the leg.                                   *)
LEMMA WithZonesIs ==
  ASSUME NEW s \in SetupRecord, NEW c \in Fact, c.born \in {0} \cup Prices, NEW at \in Nat
  PROVE  /\ WithZones(s, c, at) \in SetupRecord
         /\ WithZones(s, c, at).state = s.state /\ WithZones(s, c, at).trail = s.trail
         /\ SameLeg(WithZones(s, c, at), s)
         /\ \A z \in WithZones(s, c, at).zones : z.born = at \/ \E y \in s.zones : z.born = y.born
<1> DEFINE old == {IF z \in c.kills THEN [z EXCEPT !.dead = at] ELSE z : z \in s.zones}
           new == {[born |-> at, edge |-> e, dead |-> 0] : e \in {c.born} \ {0}}
           zones == old \cup new
           taken == IF s.takenAt = 0 /\ c.reaches THEN at ELSE s.takenAt
<1>1. WithZones(s, c, at) = [s EXCEPT !.zones = zones, !.takenAt = taken]
  BY DEF WithZones, SetupRecord
<1>2. s.zones \subseteq Zone /\ s.takenAt \in Nat
  BY DEF SetupRecord
<1>3. \A z \in old : z \in Zone /\ \E y \in s.zones : z.born = y.born
  BY <1>2 DEF Zone
<1>4. \A z \in new : z \in Zone /\ z.born = at
  BY DEF Zone
<1>5. zones \subseteq Zone /\ \A z \in zones : z.born = at \/ \E y \in s.zones : z.born = y.born
  BY <1>3, <1>4
<1>6. taken \in Nat
  BY <1>2
<1> HIDE DEF zones, taken
<1> DEFINE w == WithZones(s, c, at)
<1>7. w \in SetupRecord
  <2>1. zones \in SUBSET Zone
    BY <1>5
  <2> QED
    BY <1>1, <1>6, <2>1 DEF SetupRecord
<1>8. w.state = s.state /\ w.trail = s.trail /\ w.zones = zones /\ SameLeg(w, s)
  BY <1>1 DEF SetupRecord, SameLeg
<1> QED
  BY <1>5, <1>7, <1>8

LEMMA RetestedIs ==
  ASSUME NEW s \in SetupRecord, NEW c \in Fact, NEW at \in Nat
  PROVE  /\ Retested(s, c, at) \in SetupRecord
         /\ Retested(s, c, at).state = s.state /\ Retested(s, c, at).trail = s.trail
         /\ SameBut(Retested(s, c, at), s)
<1>1. c.close \in Nat
  BY PricesAre DEF Fact
<1> QED
  BY <1>1 DEF Retested, SetupRecord, SameBut, SameLeg

-----------------------------------------------------------------------------
(* waiting_break                                                           *)
LEMMA WaitingBreakSound ==
  ASSUME NEW s \in SetupRecord, Trail(s), s.state \in WaitingBreak, NEW c \in Fact,
         NEW at \in Nat, NEW day, NEW same \in BOOLEAN, Leg(s, at),
         s.adverse # 0, s.adverse <= s.swept, s.mssAt = 0, s.confirmedAt = 0,
         at <= s.liqAt + MssWindow, s.day = day
  PROVE  Sound(OnWaitingBreak(s, c, at, same), at, day)
<1> DEFINE low == AdverseOf(s, c)
           deep == IF ~same /\ c.sweep /\ c.lo < s.swept THEN c.lo ELSE s.swept
           a == [s EXCEPT !.adverse = low]
           d == [s EXCEPT !.adverse = low, !.swept = deep]
           b == [s EXCEPT !.adverse = low, !.swept = deep, !.mssAt = at, !.protective = low]
<1>1. c.lo \in Nat \ {0} /\ s.adverse \in Nat /\ s.swept \in Nat
  BY PricesAre DEF Fact, SetupRecord
<1>2. low \in Nat \ {0} /\ deep \in Nat \ {0} /\ low <= deep
  BY <1>1 DEF AdverseOf, Least, Leg
<1>3. OnWaitingBreak(s, c, at, same) =
        IF ~same /\ c.close < s.swept THEN Emit(a, "INVALIDATED")
        ELSE IF c.break THEN Emit(b, "SETUP_ARMED")
        ELSE IF BreakOverdue(s, at) THEN Emit(d, "EXPIRED")
        ELSE IF ~same /\ s.state = "LIQUIDITY_EVENT" THEN Emit(d, "WAITING_FOR_MSS")
        ELSE d
  BY DEF OnWaitingBreak, SetupRecord
<1> HIDE DEF low, deep
<1>4. a \in SetupRecord /\ a.state = s.state /\ a.trail = s.trail /\ a.confirmedAt = 0
  BY <1>2 DEF SetupRecord
<1>5. /\ d \in SetupRecord /\ d.state = s.state /\ d.trail = s.trail /\ d.confirmedAt = 0
      /\ d.adverse = low /\ d.swept = deep /\ d.mssAt = 0 /\ d.liqAt = s.liqAt
      /\ d.target = s.target /\ d.zones = s.zones /\ d.day = s.day
  BY <1>2 DEF SetupRecord
<1>6. /\ b \in SetupRecord /\ b.state = s.state /\ b.trail = s.trail /\ b.confirmedAt = 0
      /\ b.protective = low /\ b.swept = deep /\ b.mssAt = at /\ b.liqAt = s.liqAt
      /\ b.target = s.target /\ b.zones = s.zones /\ b.day = s.day
  BY <1>2 DEF SetupRecord
<1> HIDE DEF a, b, d
<1>7. Trail(a) /\ Trail(b) /\ Trail(d)
  BY <1>4, <1>5, <1>6 DEF Trail
<1>8. s.liqAt \in Nat
  BY DEF SetupRecord
<1>9. s.state \notin Terminal /\ s.state \in States /\ s.state \notin PreLiquidity
  BY DEF WaitingBreak, Terminal, States, PreLiquidity
<1>10. CASE ~same /\ c.close < s.swept
  <2>1. "INVALIDATED" \in Allowed[a.state] /\ "INVALIDATED" \in Terminal
    BY <1>4, <1>9, Legal DEF Terminal
  <2> QED
    BY <1>3, <1>4, <1>7, <1>10, <2>1, EndSound
<1>11. CASE ~(~same /\ c.close < s.swept) /\ c.break
  <2>1. "SETUP_ARMED" \in Allowed[b.state] /\ "SETUP_ARMED" \in States
    BY <1>6, Legal DEF States, Retracing
  <2>2. AwaitsTouch(b, at) /\ Zoned(b, at)
    BY <1>2, <1>6, <1>8, Windows DEF AwaitsTouch, Broken, Leg, Zoned
  <2>3. StageAs(b, "SETUP_ARMED", at)
    BY <2>2 DEF StageAs, PreLiquidity, WaitingBreak, Retracing, Touched, Terminal
  <2> QED
    BY <1>3, <1>6, <1>7, <1>11, <2>1, <2>3, EmitSound
<1>12. CASE ~(~same /\ c.close < s.swept) /\ ~c.break /\ BreakOverdue(s, at)
  <2>1. "EXPIRED" \in Allowed[d.state] /\ "EXPIRED" \in Terminal
    BY <1>5, Legal DEF Terminal
  <2> QED
    BY <1>3, <1>5, <1>7, <1>12, <2>1, EndSound
<1>13. CASE ~(~same /\ c.close < s.swept) /\ ~c.break /\ ~BreakOverdue(s, at)
  <2>1. AwaitsBreak(d, at)
    BY <1>2, <1>5, <1>8, <1>13, Windows DEF AwaitsBreak, Leg, BreakOverdue
  <2>2. CASE ~same /\ s.state = "LIQUIDITY_EVENT"
    <3>1. "WAITING_FOR_MSS" \in Allowed[d.state] /\ "WAITING_FOR_MSS" \in States
      BY <1>5, <2>2, Legal DEF States, WaitingBreak
    <3>2. StageAs(d, "WAITING_FOR_MSS", at)
      BY <2>1 DEF StageAs, PreLiquidity, WaitingBreak, Retracing, Touched, Terminal
    <3> QED
      BY <1>3, <1>5, <1>7, <1>13, <2>2, <3>1, <3>2, EmitSound
  <2>3. CASE ~(~same /\ s.state = "LIQUIDITY_EVENT")
    <3>1. Stage(d, at)
      BY <1>5, <2>1 DEF Stage, StageAs, PreLiquidity, WaitingBreak, Retracing, Touched, Terminal
    <3>2. OnWaitingBreak(s, c, at, same) = d
      BY <1>3, <1>13, <2>3
    <3> QED
      BY <1>5, <1>7, <3>1, <3>2 DEF Sound, OfTheDay
  <2> QED
    BY <2>2, <2>3
<1> QED
  BY <1>10, <1>11, <1>12, <1>13

-----------------------------------------------------------------------------
(* pre_liquidity                                                           *)
LEMMA PreLiquiditySound ==
  ASSUME NEW s \in SetupRecord, Trail(s), s.state \in PreLiquidity, Untouched(s),
         NEW c \in Fact, c.born \in {0} \cup Prices, c.sweep => c.target # 0,
         NEW at \in Nat \ {0}, NEW day \in Nat
  PROVE  Sound(OnPreLiquidity(s, c, at, day), at, day)
<1> DEFINE g == [s EXCEPT !.target = c.target, !.day = day]
           w == Watched(g)
           q == [w EXCEPT !.swept = c.lo, !.adverse = c.lo, !.liqAt = at]
           z == WithZones(q, c, at)
<1>1. OnPreLiquidity(s, c, at, day) =
        IF c.target = 0 THEN IF s.state = "DISCOVERED" THEN s ELSE Emit(s, "DISCOVERED")
        ELSE IF c.sweep THEN OnWaitingBreak(Emit(z, "LIQUIDITY_EVENT"), c, at, TRUE)
        ELSE IF c.near /\ w.state = "WATCH" THEN Emit(w, "SETUP_FORMING")
        ELSE IF ~c.near /\ w.state = "SETUP_FORMING" THEN Emit(w, "WATCH")
        ELSE w
  BY DEF OnPreLiquidity
<1>2. c.target \in Nat /\ c.lo \in Nat \ {0} /\ c.sweep \in BOOLEAN
  BY PricesAre DEF Fact
<1>3. /\ g \in SetupRecord /\ g.state = s.state /\ g.trail = s.trail /\ g.target = c.target /\ g.day = day
      /\ Untouched(g)
  BY <1>2 DEF SetupRecord, Untouched
<1>4. Trail(g)
  BY <1>3 DEF Trail
<1> HIDE DEF g
<1>5. /\ w \in SetupRecord /\ Trail(w) /\ w.target = c.target /\ w.day = day /\ Untouched(w)
      /\ w.state \in {"WATCH", "SETUP_FORMING"}
  <2>1. CASE g.state = "DISCOVERED"
    <3>1. "WATCH" \in Allowed[g.state] /\ "WATCH" \in States
      BY <2>1, Legal DEF States, PreLiquidity
    <3>2. w = Emit(g, "WATCH")
      BY <2>1 DEF Watched
    <3> HIDE DEF w
    <3> QED
      BY <1>3, <1>4, <3>1, <3>2, EmitIs, EmitTrail DEF SameBut, SameLeg, Untouched
  <2>2. CASE g.state # "DISCOVERED"
    BY <1>3, <1>4, <2>2 DEF Watched, PreLiquidity
  <2> QED
    BY <2>1, <2>2
<1> HIDE DEF w
<1>6. CASE c.target = 0
  <2>1. CASE s.state = "DISCOVERED"
    <3>1. Stage(s, at)
      BY <2>1 DEF Stage, StageAs, PreLiquidity, WaitingBreak, Retracing, Touched, Terminal
    <3> QED
      BY <1>1, <1>6, <2>1, <3>1 DEF Sound, OfTheDay
  <2>2. CASE s.state # "DISCOVERED"
    <3>1. "DISCOVERED" \in Allowed[s.state] /\ "DISCOVERED" \in States /\ "DISCOVERED" \in PreLiquidity
      BY <2>2, Legal DEF States, PreLiquidity
    <3>2. StageAs(s, "DISCOVERED", at)
      BY DEF StageAs, PreLiquidity, WaitingBreak, Retracing, Touched, Terminal
    <3> QED
      BY <1>1, <1>6, <2>2, <3>1, <3>2, EmitSound
  <2> QED
    BY <2>1, <2>2
<1>7. CASE c.target # 0 /\ c.sweep
  <2> DEFINE l == Emit(z, "LIQUIDITY_EVENT")
  <2>1. /\ q \in SetupRecord /\ q.state = w.state /\ q.trail = w.trail /\ q.target = c.target
        /\ q.day = day /\ q.swept = c.lo /\ q.adverse = c.lo /\ q.liqAt = at /\ q.zones = {}
        /\ q.mssAt = 0 /\ q.confirmedAt = 0
    BY <1>2, <1>5 DEF SetupRecord, Untouched
  <2> HIDE DEF q
  <2>2. /\ z \in SetupRecord /\ z.state = q.state /\ z.trail = q.trail
        /\ z.target = q.target /\ z.day = q.day /\ z.swept = q.swept /\ z.adverse = q.adverse
        /\ z.liqAt = q.liqAt /\ z.mssAt = q.mssAt /\ z.confirmedAt = q.confirmedAt
        /\ \A y \in z.zones : y.born = at
    <3>1. /\ z \in SetupRecord /\ z.state = q.state /\ z.trail = q.trail /\ SameLeg(z, q)
          /\ \A y \in z.zones : y.born = at \/ \E x \in q.zones : y.born = x.born
      BY <2>1, WithZonesIs
    <3> HIDE DEF z
    <3> QED
      BY <2>1, <3>1 DEF SameLeg
  <2> HIDE DEF z
  <2>3. Trail(z)
    BY <1>5, <2>1, <2>2 DEF Trail
  <2>4. "LIQUIDITY_EVENT" \in Allowed[z.state] /\ "LIQUIDITY_EVENT" \in States
    BY <1>5, <2>1, <2>2, Legal DEF States, WaitingBreak
  <2>5. /\ l \in SetupRecord /\ l.state = "LIQUIDITY_EVENT" /\ Trail(l) /\ l.target = c.target /\ l.day = day
        /\ l.swept = c.lo /\ l.adverse = c.lo /\ l.liqAt = at /\ l.mssAt = 0 /\ l.confirmedAt = 0
        /\ \A y \in l.zones : y.born = at
    <3>1. l \in SetupRecord /\ l.state = "LIQUIDITY_EVENT" /\ SameBut(l, z) /\ Trail(l)
      BY <2>2, <2>3, <2>4, EmitIs, EmitTrail
    <3> HIDE DEF l
    <3> QED
      BY <2>1, <2>2, <3>1 DEF SameBut, SameLeg
  <2> HIDE DEF l
  <2>6. Leg(l, at) /\ l.state \in WaitingBreak /\ at <= l.liqAt + MssWindow /\ l.adverse <= l.swept
        /\ l.adverse # 0
    BY <1>2, <1>7, <2>5, Windows DEF Leg, WaitingBreak
  <2>7. Sound(OnWaitingBreak(l, c, at, TRUE), at, day)
    BY <2>5, <2>6, WaitingBreakSound
  <2> QED
    BY <1>1, <1>7, <2>7 DEF l
<1>8. CASE c.target # 0 /\ ~c.sweep
  <2>1. /\ StageAs(w, "SETUP_FORMING", at) /\ StageAs(w, "WATCH", at)
        /\ {"SETUP_FORMING", "WATCH"} \subseteq States \cap PreLiquidity
    BY <1>5 DEF StageAs, PreLiquidity, WaitingBreak, Retracing, Touched, Terminal, States
  <2>2. CASE c.near /\ w.state = "WATCH"
    <3>1. "SETUP_FORMING" \in Allowed[w.state]
      BY <2>2, Legal
    <3> QED
      BY <1>1, <1>5, <1>8, <2>1, <2>2, <3>1, EmitSound
  <2>3. CASE ~c.near /\ w.state = "SETUP_FORMING"
    <3>1. "WATCH" \in Allowed[w.state]
      BY <2>3, Legal
    <3> QED
      BY <1>1, <1>5, <1>8, <2>1, <2>3, <3>1, EmitSound
  <2>4. CASE ~(c.near /\ w.state = "WATCH") /\ ~(~c.near /\ w.state = "SETUP_FORMING")
    <3>1. OnPreLiquidity(s, c, at, day) = w
      BY <1>1, <1>8, <2>4
    <3>2. Stage(w, at)
      BY <1>5, <2>1 DEF Stage
    <3> QED
      BY <1>5, <3>1, <3>2 DEF Sound, OfTheDay
  <2> QED
    BY <2>2, <2>3, <2>4
<1> QED
  BY <1>6, <1>7, <1>8

-----------------------------------------------------------------------------
(* armed: the zone, the touch and the entry                                *)

(* The usable zone with the nearest edge is one of them: edges are bounded.*)
LEMMA NearestIs ==
  ASSUME NEW zones \in SUBSET Zone, zones # {}
  PROVE  Nearest(zones) \in zones
<1> DEFINE gaps == {MaxPrice - z.edge : z \in zones}
<1>1. \A z \in zones : z.edge \in Nat /\ MaxPrice - z.edge \in Nat
  <2> SUFFICES ASSUME NEW z \in zones PROVE z.edge \in Nat /\ MaxPrice - z.edge \in Nat
    OBVIOUS
  <2>1. z.edge \in 1 .. MaxPrice
    BY DEF Zone, Prices
  <2> QED
    BY <2>1, Windows
<1>2. gaps \subseteq Nat /\ gaps # {}
  BY <1>1
<1> HIDE DEF gaps
<1>3. \E g \in gaps : \A h \in gaps : ~(<<h, g>> \in OpToRel(<, Nat))
  BY <1>2, NatLessThanWellFounded, WFMin
<1>4. PICK g \in gaps : \A h \in gaps : ~(h < g)
  BY <1>2, <1>3 DEF OpToRel
<1>5. PICK z \in zones : g = MaxPrice - z.edge
  BY DEF gaps
<1>6. \A y \in zones : y.edge <= z.edge
  <2> SUFFICES ASSUME NEW y \in zones PROVE y.edge <= z.edge
    OBVIOUS
  <2>1. ~(MaxPrice - y.edge < MaxPrice - z.edge)
    BY <1>4, <1>5 DEF gaps
  <2> QED
    BY <1>1, <2>1, Windows
<1> QED
  BY <1>6 DEF Nearest

LEMMA EntryIsAPrice ==
  ASSUME NEW s \in SetupRecord, s.zone # None, NEW c \in Fact, NEW at
  PROVE  EntryOf(s, c, at) \in Nat
<1>1. c.close \in Nat /\ c.ltf \in Nat
  BY PricesAre DEF Fact
<1>2. s.zone \in Zone
  BY DEF SetupRecord
<1>3. s.zone.edge \in Nat
  BY <1>2, PricesAre DEF Zone
<1>4. CASE Mode = "CONSERVATIVE"
  BY <1>1, <1>4 DEF EntryOf
<1>5. CASE Mode = "AGGRESSIVE" /\ at = s.touchedAt
  BY <1>3, <1>5 DEF EntryOf
<1>6. CASE Mode # "CONSERVATIVE" /\ ~(Mode = "AGGRESSIVE" /\ at = s.touchedAt)
  BY <1>1, <1>6 DEF EntryOf
<1> QED
  BY <1>4, <1>5, <1>6

LEMMA FinishSound ==
  ASSUME NEW s \in SetupRecord, Trail(s), s.state \in Touched, NEW c \in Fact,
         NEW at \in Nat \ {0}, NEW day, s.day = day, s.confirmedAt = 0,
         OnItsZone(s, at), at <= s.touchedAt + ConfirmWindow, EntryOf(s, c, at) # 0
  PROVE  Sound(Finish(s, c, at), at, day)
<1> DEFINE n == EntryOf(s, c, at)
           g == [s EXCEPT !.entry = n, !.confirmedAt = at]
<1>1. n \in Nat
  BY EntryIsAPrice DEF OnItsZone
<1>2. Finish(s, c, at) = IF GoodPlan(s, n) THEN Emit(g, "BLOCKED") ELSE Emit(s, "ENTRY_MISSED")
  BY DEF Finish
<1>3. n # 0
  OBVIOUS
<1> HIDE DEF n
<1>4. CASE GoodPlan(s, n)
  <2>1. /\ g \in SetupRecord /\ g.state = s.state /\ g.trail = s.trail /\ g.entry = n /\ g.confirmedAt = at
        /\ g.day = s.day /\ g.target = s.target /\ g.swept = s.swept /\ g.liqAt = s.liqAt
        /\ g.mssAt = s.mssAt /\ g.protective = s.protective /\ g.zone = s.zone /\ g.touchedAt = s.touchedAt
    BY <1>1 DEF SetupRecord
  <2> HIDE DEF g
  <2>2. GoodPlan(g, n)
    BY <1>4, <2>1 DEF GoodPlan, Stop
  <2>3. Planned(g)
    BY <1>3, <2>1, <2>2 DEF Planned, OnItsZone, Broken, Leg
  <2>4. StageAs(g, "BLOCKED", at)
    BY <2>3 DEF StageAs, PreLiquidity, WaitingBreak, Retracing, Touched, Terminal
  <2>5. "BLOCKED" \in Allowed[g.state] /\ "BLOCKED" \in States /\ Trail(g)
    BY <2>1, Legal DEF States, Trail
  <2> QED
    BY <1>2, <1>4, <2>1, <2>4, <2>5, EmitSound
<1>5. CASE ~GoodPlan(s, n)
  <2>1. "ENTRY_MISSED" \in Allowed[s.state] /\ "ENTRY_MISSED" \in Terminal
    BY Legal DEF Terminal
  <2> QED
    BY <1>2, <1>5, <2>1, EndSound
<1> QED
  BY <1>4, <1>5

(* What an attempt leaves behind changes nothing the invariant looks at.   *)
LEMMA AttemptKeeps ==
  ASSUME NEW s \in SetupRecord, Trail(s), NEW c \in Fact, NEW at \in Nat
  PROVE  /\ Retested(s, c, at) \in SetupRecord /\ Trail(Retested(s, c, at))
         /\ Retested(s, c, at).state = s.state /\ SameBut(Retested(s, c, at), s)
BY RetestedIs DEF Trail

LEMMA TouchedSound ==
  ASSUME NEW s \in SetupRecord, Trail(s), s.state \in Touched, NEW c \in Fact,
         NEW at \in Nat \ {0}, NEW day, s.day = day, s.confirmedAt = 0,
         OnItsZone(s, at), at <= s.touchedAt + ConfirmWindow, Zoned(s, at)
  PROVE  Sound(OnTouched(s, c, at), at, day)
<1> DEFINE r == Retested(s, c, at)
<1>1. r \in SetupRecord /\ Trail(r) /\ r.state = s.state /\ SameBut(r, s)
  BY AttemptKeeps
<1>2. OnTouched(s, c, at) =
        IF EntryOf(s, c, at) # 0 THEN Finish(s, c, at)
        ELSE IF at - s.touchedAt >= ConfirmWindow THEN Emit(r, "EXPIRED")
        ELSE IF s.state = "ENTRY_ZONE_TOUCHED" THEN Emit(r, "WAITING_FOR_CONFIRMATION")
        ELSE r
  BY DEF OnTouched
<1> HIDE DEF r
<1>3. OnItsZone(r, at) /\ Zoned(r, at) /\ r.confirmedAt = 0 /\ r.day = day /\ r.touchedAt = s.touchedAt
  BY <1>1, SameFacts DEF SameBut, SameLeg
<1>4. CASE EntryOf(s, c, at) # 0
  BY <1>2, <1>4, FinishSound
<1>5. CASE EntryOf(s, c, at) = 0 /\ at - s.touchedAt >= ConfirmWindow
  <2>1. "EXPIRED" \in Allowed[r.state] /\ "EXPIRED" \in Terminal
    BY <1>1, Legal DEF Terminal
  <2> QED
    BY <1>1, <1>2, <1>3, <1>5, <2>1, EndSound
<1>6. CASE EntryOf(s, c, at) = 0 /\ ~(at - s.touchedAt >= ConfirmWindow)
  <2>1. s.touchedAt \in Nat
    BY DEF SetupRecord
  <2>2. AwaitsEntry(r, at)
    BY <1>3, <1>6, <2>1, Windows DEF AwaitsEntry
  <2>3. CASE s.state = "ENTRY_ZONE_TOUCHED"
    <3>1. "WAITING_FOR_CONFIRMATION" \in Allowed[r.state] /\ "WAITING_FOR_CONFIRMATION" \in States
      BY <1>1, <2>3, Legal DEF States, Touched
    <3>2. StageAs(r, "WAITING_FOR_CONFIRMATION", at)
      BY <1>3, <2>2 DEF StageAs, PreLiquidity, WaitingBreak, Retracing, Touched, Terminal
    <3> QED
      BY <1>1, <1>2, <1>3, <1>6, <2>3, <3>1, <3>2, EmitSound
  <2>4. CASE s.state # "ENTRY_ZONE_TOUCHED"
    <3>1. Stage(r, at)
      BY <1>1, <1>3, <2>2 DEF Stage, StageAs, PreLiquidity, WaitingBreak, Retracing, Touched, Terminal
    <3> QED
      BY <1>1, <1>2, <1>3, <1>6, <2>4, <3>1 DEF Sound, OfTheDay
  <2> QED
    BY <2>3, <2>4
<1> QED
  BY <1>4, <1>5, <1>6

LEMMA RetracingSound ==
  ASSUME NEW s \in SetupRecord, Trail(s), s.state \in Retracing, NEW c \in Fact,
         NEW at \in Nat \ {0}, NEW day, s.day = day, s.confirmedAt = 0,
         Broken(s, at), s.mssAt < at, Zoned(s, at)
  PROVE  Sound(OnRetracing(s, c, at), at, day)
<1> DEFINE usable == Usable(s, at)
           zone == Nearest(usable)
           near == c.close - zone.edge <= ApproachAtr
           t == [s EXCEPT !.zone = zone, !.touchedAt = at, !.retestAt = 0]
           u == Emit(t, "ENTRY_ZONE_TOUCHED")
<1>1. OnRetracing(s, c, at) =
        IF at - s.mssAt >= RetraceWindow THEN Emit(s, "EXPIRED")
        ELSE IF usable = {}
        THEN IF s.state = "SETUP_ARMED" THEN Emit(s, "WAITING_FOR_RETRACEMENT") ELSE s
        ELSE IF c.lo <= zone.edge THEN Confirm(u, c, at)
        ELSE IF near /\ s.state # "ENTRY_ZONE_APPROACHING" THEN Emit(s, "ENTRY_ZONE_APPROACHING")
        ELSE IF ~near /\ s.state # "WAITING_FOR_RETRACEMENT" THEN Emit(s, "WAITING_FOR_RETRACEMENT")
        ELSE s
  BY DEF OnRetracing
<1>2. s.mssAt \in Nat /\ s.liqAt \in Nat
  BY DEF SetupRecord
<1>3. \A z \in usable : /\ z \in Zone /\ z \in s.zones /\ z \in LiveZones(s)
                        /\ z.born <= s.mssAt + GraceBars /\ z.born < at /\ s.liqAt <= z.born
  BY DEF Usable, LiveZones, LegZones, SetupRecord, Broken, Leg
<1> HIDE DEF usable, near
<1>4. CASE at - s.mssAt >= RetraceWindow
  <2>1. "EXPIRED" \in Allowed[s.state] /\ "EXPIRED" \in Terminal
    BY Legal DEF Terminal
  <2> QED
    BY <1>1, <1>4, <2>1, EndSound
<1>5. CASE ~(at - s.mssAt >= RetraceWindow) /\ ~(usable # {} /\ c.lo <= zone.edge)
  <2>1. AwaitsTouch(s, at)
    BY <1>2, <1>5, Windows DEF AwaitsTouch
  <2>2. \A st \in Retracing : StageAs(s, st, at) /\ st \in States
    BY <2>1 DEF StageAs, PreLiquidity, WaitingBreak, Retracing, Touched, Terminal, States
  <2>3. \/ OnRetracing(s, c, at) = s
        \/ s.state # "ENTRY_ZONE_APPROACHING" /\ OnRetracing(s, c, at) = Emit(s, "ENTRY_ZONE_APPROACHING")
        \/ s.state # "WAITING_FOR_RETRACEMENT" /\ OnRetracing(s, c, at) = Emit(s, "WAITING_FOR_RETRACEMENT")
    BY <1>1, <1>5
  <2>4. CASE OnRetracing(s, c, at) = s
    BY <2>2, <2>4 DEF Sound, OfTheDay, Stage
  <2>5. ASSUME NEW st \in {"ENTRY_ZONE_APPROACHING", "WAITING_FOR_RETRACEMENT"},
               s.state # st, OnRetracing(s, c, at) = Emit(s, st)
        PROVE  Sound(OnRetracing(s, c, at), at, day)
    <3>1. st \in Retracing /\ st \in States /\ st \in Allowed[s.state]
      BY <2>5, Legal DEF Retracing, States
    <3>2. Sound(Emit(s, st), at, day)
      BY <2>2, <3>1, EmitSound
    <3> QED
      BY <2>5, <3>2
  <2> QED
    BY <2>3, <2>4, <2>5
<1>6. CASE ~(at - s.mssAt >= RetraceWindow) /\ usable # {} /\ c.lo <= zone.edge
  <2>1. zone \in usable /\ usable \in SUBSET Zone
    BY <1>3, <1>6, NearestIs
  <2>2. zone \in Zone /\ zone # None
    BY <2>1, NoneAssumption
  <2> HIDE DEF zone
  <2>3. /\ t \in SetupRecord /\ t.state = s.state /\ t.trail = s.trail /\ t.zone = zone /\ t.touchedAt = at
        /\ t.day = s.day /\ t.target = s.target /\ t.swept = s.swept /\ t.liqAt = s.liqAt
        /\ t.mssAt = s.mssAt /\ t.protective = s.protective /\ t.zones = s.zones /\ t.confirmedAt = s.confirmedAt
    BY <2>2 DEF SetupRecord
  <2> HIDE DEF t
  <2>4. LiveZones(t) # {}
    BY <1>3, <2>1, <2>3 DEF LiveZones, LegZones
  <2>5. Trail(t) /\ Broken(t, at) /\ Zoned(t, at)
    BY <2>3, <2>4 DEF Trail, Broken, Leg, Zoned
  <2>6. OnItsZone(t, at)
    BY <1>2, <1>3, <1>6, <2>1, <2>2, <2>3, <2>5, Windows DEF OnItsZone
  <2>7. "ENTRY_ZONE_TOUCHED" \in Allowed[t.state] /\ "ENTRY_ZONE_TOUCHED" \in States
    BY <2>3, Legal DEF States, Touched
  <2>8. /\ u \in SetupRecord /\ Trail(u) /\ u.state = "ENTRY_ZONE_TOUCHED" /\ SameBut(u, t)
    BY <2>3, <2>5, <2>7, EmitIs, EmitTrail
  <2> HIDE DEF u
  <2>9. /\ OnItsZone(u, at) /\ Zoned(u, at) /\ u.confirmedAt = 0 /\ u.day = day /\ u.touchedAt = at
        /\ u.state \in Touched
    BY <2>3, <2>5, <2>6, <2>8, SameFacts DEF SameBut, SameLeg, Touched
  <2>10. OnRetracing(s, c, at) = Confirm(u, c, at)
    BY <1>1, <1>6
  <2>11. at <= u.touchedAt + ConfirmWindow /\ at < u.touchedAt + ConfirmWindow
    BY <2>9, Windows
  <2>12. CASE EntryOf(u, c, at) # 0
    BY <2>8, <2>9, <2>10, <2>11, <2>12, FinishSound DEF Confirm
  <2>13. CASE EntryOf(u, c, at) = 0
    <3> DEFINE r == Retested(u, c, at)
    <3>1. r \in SetupRecord /\ Trail(r) /\ r.state = u.state /\ SameBut(r, u)
      BY <2>8, AttemptKeeps
    <3>2. OnRetracing(s, c, at) = r
      BY <2>10, <2>13 DEF Confirm
    <3> HIDE DEF r
    <3>3. AwaitsEntry(r, at) /\ Zoned(r, at) /\ r.day = day
      BY <2>9, <2>11, <3>1, SameFacts DEF AwaitsEntry
    <3>4. Stage(r, at)
      BY <2>8, <3>1, <3>3 DEF Stage, StageAs, PreLiquidity, WaitingBreak, Retracing, Touched, Terminal
    <3> QED
      BY <3>1, <3>2, <3>3, <3>4 DEF Sound, OfTheDay
  <2> QED
    BY <2>12, <2>13
<1> QED
  BY <1>4, <1>5, <1>6

LEMMA ArmedSound ==
  ASSUME NEW s \in SetupRecord, Trail(s), s.state \in Retracing \cup Touched, NEW c \in Fact,
         NEW at \in Nat \ {0}, NEW day, s.day = day, s.confirmedAt = 0,
         Broken(s, at), s.mssAt < at,
         s.state \in Touched => OnItsZone(s, at) /\ at <= s.touchedAt + ConfirmWindow
  PROVE  Sound(OnArmed(s, c, at), at, day)
<1> DEFINE first == ConfirmFirst /\ s.state \in Touched
           r == IF first THEN Retested(s, c, at) ELSE s
<1>1. OnArmed(s, c, at) =
        IF c.close < s.protective THEN Emit(s, "INVALIDATED")
        ELSE IF first /\ EntryOf(s, c, at) # 0 THEN Finish(s, c, at)
        ELSE IF ChaseGuardApplies(s) THEN Emit(r, "INVALIDATED")
        ELSE IF LegZones(s) # {} /\ LiveZones(s) = {} THEN Emit(r, "INVALIDATED")
        ELSE IF LegZones(s) = {} /\ at >= s.mssAt + GraceBars THEN Emit(r, "EXPIRED")
        ELSE IF s.state \in Touched THEN OnTouched(r, c, at)
        ELSE OnRetracing(r, c, at)
  BY DEF OnArmed
<1>2. SameBut(s, s)
  BY DEF SameBut, SameLeg
<1>3. r \in SetupRecord /\ Trail(r) /\ r.state = s.state /\ SameBut(r, s)
  BY <1>2, AttemptKeeps
<1>4. first => s.state \in Touched
  OBVIOUS
<1> HIDE DEF r, first
<1>5. /\ Broken(r, at) /\ r.mssAt < at /\ r.confirmedAt = 0 /\ r.day = day
      /\ r.state \in Touched => OnItsZone(r, at) /\ at <= r.touchedAt + ConfirmWindow
      /\ Zoned(s, at) => Zoned(r, at)
  BY <1>3, SameFacts DEF SameBut, SameLeg
<1>6. /\ "INVALIDATED" \in Allowed[s.state] /\ "EXPIRED" \in Allowed[s.state]
      /\ "INVALIDATED" \in Terminal /\ "EXPIRED" \in Terminal
  BY Legal DEF Terminal, States, Retracing, Touched
<1>7. \A st \in {"INVALIDATED", "EXPIRED"} : Sound(Emit(r, st), at, day) /\ Sound(Emit(s, st), at, day)
  BY <1>3, <1>5, <1>6, EndSound
<1>8. CASE c.close < s.protective
  BY <1>1, <1>7, <1>8
<1>9. CASE ~(c.close < s.protective) /\ first /\ EntryOf(s, c, at) # 0
  BY <1>1, <1>4, <1>9, FinishSound
<1>10. CASE /\ ~(c.close < s.protective) /\ ~(first /\ EntryOf(s, c, at) # 0)
            /\ \/ ChaseGuardApplies(s)
               \/ LegZones(s) # {} /\ LiveZones(s) = {}
               \/ LegZones(s) = {} /\ at >= s.mssAt + GraceBars
  BY <1>1, <1>7, <1>10
<1>11. CASE /\ ~(c.close < s.protective) /\ ~(first /\ EntryOf(s, c, at) # 0) /\ ~ChaseGuardApplies(s)
            /\ ~(LegZones(s) # {} /\ LiveZones(s) = {})
            /\ ~(LegZones(s) = {} /\ at >= s.mssAt + GraceBars)
  <2>1. s.mssAt \in Nat
    BY DEF SetupRecord
  <2>2. Zoned(s, at)
    BY <1>11, <2>1, Windows DEF Zoned
  <2>3. OnArmed(s, c, at) = IF s.state \in Touched THEN OnTouched(r, c, at) ELSE OnRetracing(r, c, at)
    BY <1>1, <1>11
  <2>4. CASE s.state \in Touched
    BY <1>3, <1>5, <2>2, <2>3, <2>4, TouchedSound
  <2>5. CASE s.state \notin Touched
    BY <1>3, <1>5, <2>2, <2>3, <2>5, RetracingSound
  <2> QED
    BY <2>4, <2>5
<1> QED
  BY <1>8, <1>9, <1>10, <1>11

(* blocked: the plan stays what it was confirmed as.                       *)
LEMMA BlockedSound ==
  ASSUME NEW s \in SetupRecord, Trail(s), s.state = "BLOCKED", Planned(s),
         NEW c \in Fact, NEW at, NEW day, s.day = day
  PROVE  Sound(OnBlocked(s, c), at, day)
<1>1. /\ "INVALIDATED" \in Allowed[s.state] /\ "ENTRY_MISSED" \in Allowed[s.state]
      /\ "INVALIDATED" \in Terminal /\ "ENTRY_MISSED" \in Terminal
  BY Legal DEF Terminal, States
<1>2. Sound(Emit(s, "INVALIDATED"), at, day) /\ Sound(Emit(s, "ENTRY_MISSED"), at, day)
  BY <1>1, EndSound
<1>3. Sound(s, at, day)
  BY DEF Sound, Stage, StageAs, OfTheDay, PreLiquidity, WaitingBreak, Retracing, Touched, Terminal
<1> QED
  BY <1>2, <1>3 DEF OnBlocked

-----------------------------------------------------------------------------
(* One candle                                                              *)

(* What a running setup brings to its next candle.                         *)
LEMMA NextCandleFinds ==
  ASSUME NEW s \in SetupRecord, NEW before \in Nat, NEW at \in Nat, before < at, at <= before + 1,
         NEW c \in Fact, c.born \in {0} \cup Prices, NEW w, w = WithZones(Start(s), c, at)
  PROVE  /\ w \in SetupRecord /\ Trail(w) /\ w.state = s.state /\ w.day = s.day
         /\ AwaitsBreak(s, before) =>
              /\ Leg(w, at) /\ w.adverse # 0 /\ w.adverse <= w.swept /\ w.mssAt = 0
              /\ w.confirmedAt = 0 /\ at <= w.liqAt + MssWindow
         /\ AwaitsTouch(s, before) => Broken(w, at) /\ w.mssAt < at /\ w.confirmedAt = 0
         /\ AwaitsEntry(s, before) =>
              /\ OnItsZone(w, at) /\ w.mssAt < at /\ w.confirmedAt = 0
              /\ at <= w.touchedAt + ConfirmWindow
         /\ Planned(s) => Planned(w)
<1> DEFINE b == Start(s)
<1>1. b \in SetupRecord /\ b.state = s.state /\ SameBut(b, s) /\ Trail(b) /\ w = WithZones(b, c, at)
  BY StartIs
<1> HIDE DEF b
<1>2. /\ w \in SetupRecord /\ w.state = b.state /\ w.trail = b.trail /\ SameLeg(w, b)
      /\ \A z \in w.zones : z.born = at \/ \E y \in b.zones : z.born = y.born
  BY <1>1, WithZonesIs
<1>3. SameLeg(w, s) /\ Trail(w) /\ \A z \in w.zones : z.born = at \/ \E y \in s.zones : z.born = y.born
  BY <1>1, <1>2 DEF SameBut, SameLeg, Trail
<1>4. /\ s.liqAt \in Nat /\ s.mssAt \in Nat /\ s.touchedAt \in Nat /\ \A y \in s.zones : y.born \in Nat
  BY DEF SetupRecord, Zone
<1>5. Leg(s, before) => Leg(w, at)
  <2> SUFFICES ASSUME Leg(s, before) PROVE Leg(w, at)
    OBVIOUS
  <2>1. w.target # 0 /\ w.swept # 0 /\ w.liqAt = s.liqAt /\ s.liqAt <= before
    BY <1>3 DEF Leg, SameLeg
  <2>2. \A y \in s.zones : s.liqAt <= y.born /\ y.born <= before
    BY DEF Leg
  <2>3. \A z \in w.zones : s.liqAt <= z.born /\ z.born <= at
    BY <1>3, <1>4, <2>1, <2>2
  <2> QED
    BY <1>4, <2>1, <2>3 DEF Leg
<1>6. Broken(s, before) => Broken(w, at) /\ w.mssAt < at
  BY <1>3, <1>4, <1>5 DEF Broken, SameLeg
<1>7. AwaitsBreak(s, before) =>
        /\ Leg(w, at) /\ w.adverse # 0 /\ w.adverse <= w.swept /\ w.mssAt = 0
        /\ w.confirmedAt = 0 /\ at <= w.liqAt + MssWindow
  BY <1>3, <1>4, <1>5, Windows DEF AwaitsBreak, SameLeg
<1>8. AwaitsTouch(s, before) => Broken(w, at) /\ w.mssAt < at /\ w.confirmedAt = 0
  BY <1>3, <1>6 DEF AwaitsTouch, SameLeg
<1>9. AwaitsEntry(s, before) =>
        /\ OnItsZone(w, at) /\ w.mssAt < at /\ w.confirmedAt = 0
        /\ at <= w.touchedAt + ConfirmWindow
  BY <1>3, <1>4, <1>6, Windows DEF AwaitsEntry, OnItsZone, SameLeg
<1>10. Planned(s) => Planned(w)
  BY <1>3 DEF Planned, SameLeg, GoodPlan, Stop
<1>11. w.state = s.state /\ w.day = s.day
  BY <1>1, <1>2, <1>3 DEF SameLeg
<1> QED
  BY <1>2, <1>3, <1>7, <1>8, <1>9, <1>10, <1>11

LEMMA OneCandle ==
  ASSUME IInv, NEW day, day \in Days, NextCandle(day)
  PROVE  /\ now \in Nat /\ now + 1 \in Nat \ {0} /\ now' = now + 1 /\ day \in Nat /\ today' = day
         /\ setup # None => Sound(setup, now, today) /\ setup \in SetupRecord
BY DEF IInv, NextCandle, Days, Sound

LEMMA NewSetupIs ==
  ASSUME NEW dir \in Directions, NEW day \in Nat
  PROVE  /\ NewSetup(dir, day) \in SetupRecord /\ Trail(NewSetup(dir, day))
         /\ NewSetup(dir, day).state \in PreLiquidity /\ Untouched(NewSetup(dir, day))
<1> DEFINE s == NewSetup(dir, day)
<1>1. "DISCOVERED" \in States /\ "DISCOVERED" \in PreLiquidity
  BY DEF States, PreLiquidity
<1>2. s.trail = <<"DISCOVERED">> /\ s.state = "DISCOVERED" /\ Untouched(s)
  BY DEF NewSetup, Untouched
<1>3. s \in SetupRecord
  <2>1. <<"DISCOVERED">> \in Seq(States)
    BY <1>1
  <2> QED
    BY <1>1, <2>1 DEF NewSetup, SetupRecord
<1>4. Trail(s)
  <2>1. Len(s.trail) = 1 /\ s.trail[1] = s.state
    BY <1>2
  <2>2. 1 .. Len(s.trail) - 1 = {}
    BY <2>1
  <2> HIDE DEF s
  <2> QED
    BY <2>1, <2>2 DEF Trail
<1> QED
  BY <1>1, <1>2, <1>3, <1>4

LEMMA NoBiasKeeps == ASSUME IInv, NoBias PROVE IInv'
<1>1. PICK day \in Days : NextCandle(day)
  BY DEF NoBias
<1>2. now \in Nat /\ now + 1 \in Nat /\ now' = now + 1 /\ day \in Nat /\ today' = day
      /\ (setup # None => Sound(setup, now, today))
  BY <1>1, OneCandle
<1>3. setup # None => setup.state \in Terminal /\ setup' = setup
  BY DEF NoBias, Running
<1>4. setup # None => Sound(setup, now + 1, day)
  BY <1>2, <1>3 DEF Sound, Stage, StageAs, OfTheDay, PreLiquidity, WaitingBreak, Retracing, Touched, Terminal
<1>5. setup' = setup
  BY DEF NoBias
<1> QED
  BY <1>2, <1>4, <1>5 DEF IInv

LEMMA DiscoverKeeps == ASSUME IInv, Discover PROVE IInv'
<1>1. PICK day \in Days, dir \in Directions, shape \in Shape : \E c \in PreFacts(shape) :
        /\ NextCandle(day)
        /\ setup' = OnPreLiquidity(NewSetup(dir, day), c, now + 1, day)
  BY DEF Discover
<1>2. PICK c \in PreFacts(shape) :
        /\ NextCandle(day)
        /\ setup' = OnPreLiquidity(NewSetup(dir, day), c, now + 1, day)
  BY <1>1
<1>3. now + 1 \in Nat \ {0} /\ now' = now + 1 /\ day \in Nat /\ today' = day
  BY <1>2, OneCandle
<1>4. c \in Fact /\ c.born \in {0} \cup Prices /\ (c.sweep => c.target # 0)
  BY PreFactsAre
<1>5. Sound(OnPreLiquidity(NewSetup(dir, day), c, now + 1, day), now + 1, day)
  BY <1>3, <1>4, NewSetupIs, PreLiquiditySound
<1> QED
  BY <1>2, <1>3, <1>5 DEF IInv

LEMMA PreLiquidityCandleKeeps == ASSUME IInv, PreLiquidityCandle PROVE IInv'
<1>1. PICK day \in Days, shape \in Shape : \E c \in PreFacts(shape) :
        /\ NextCandle(day)
        /\ setup' = OnPreLiquidity(Start(setup), c, now + 1, day)
  BY DEF PreLiquidityCandle
<1>2. PICK c \in PreFacts(shape) :
        /\ NextCandle(day)
        /\ setup' = OnPreLiquidity(Start(setup), c, now + 1, day)
  BY <1>1
<1>3. /\ now + 1 \in Nat \ {0} /\ now' = now + 1 /\ day \in Nat /\ today' = day
      /\ setup \in SetupRecord /\ Sound(setup, now, today) /\ setup.state \in PreLiquidity
  BY <1>2, OneCandle DEF PreLiquidityCandle, Running
<1>4. c \in Fact /\ c.born \in {0} \cup Prices /\ (c.sweep => c.target # 0)
  BY PreFactsAre
<1>5. /\ Start(setup) \in SetupRecord /\ Trail(Start(setup)) /\ Start(setup).state \in PreLiquidity
      /\ SameBut(Start(setup), setup)
  BY <1>3, StartIs
<1>6. Untouched(Start(setup))
  BY <1>3, <1>5, SameFacts DEF Sound, Stage, StageAs
<1>7. Sound(OnPreLiquidity(Start(setup), c, now + 1, day), now + 1, day)
  BY <1>3, <1>4, <1>5, <1>6, PreLiquiditySound
<1> QED
  BY <1>2, <1>3, <1>7 DEF IInv

(* A running setup that ends on a candle, whatever the candle.             *)
LEMMA EndsKeeps ==
  ASSUME IInv, Running, NEW day, day \in Days, NextCandle(day), NEW st \in {"INVALIDATED", "EXPIRED"},
         st = "EXPIRED" => setup.state \notin PreLiquidity,
         setup' = Emit(Start(setup), st)
  PROVE  IInv'
<1>1. /\ now + 1 \in Nat \ {0} /\ now' = now + 1 /\ day \in Nat /\ today' = day
      /\ setup \in SetupRecord /\ Sound(setup, now, today) /\ setup.state \notin Terminal
  BY OneCandle DEF Running
<1>2. /\ Start(setup) \in SetupRecord /\ Trail(Start(setup)) /\ Start(setup).state = setup.state
      /\ SameBut(Start(setup), setup)
  BY <1>1, StartIs
<1>3. setup.confirmedAt = 0 \/ Planned(setup)
  BY <1>1 DEF Sound, Stage, StageAs, SetupRecord, States, Untouched, AwaitsBreak, AwaitsTouch, AwaitsEntry
<1>4. Start(setup).confirmedAt = 0 \/ Planned(Start(setup))
  BY <1>2, <1>3, SameFacts
<1>5. st \in Allowed[Start(setup).state] /\ st \in Terminal
  <2>1. setup.state \in States \ Terminal
    BY <1>1 DEF SetupRecord
  <2> QED
    BY <1>2, <2>1, MayEnd
<1>6. Sound(Emit(Start(setup), st), now + 1, day)
  BY <1>2, <1>4, <1>5, EndSound
<1> QED
  BY <1>1, <1>6 DEF IInv

LEMMA BiasChangesKeeps == ASSUME IInv, BiasChanges PROVE IInv'
<1>1. PICK day \in Days : NextCandle(day)
  BY DEF BiasChanges
<1> QED
  BY <1>1, EndsKeeps DEF BiasChanges

LEMMA DayEndsKeeps == ASSUME IInv, DayEnds PROVE IInv'
<1>1. PICK day \in Days : DayEnded(setup, day) /\ NextCandle(day)
  BY DEF DayEnds
<1>2. setup.state \notin PreLiquidity
  BY <1>1 DEF DayEnded
<1> QED
  BY <1>1, <1>2, EndsKeeps DEF DayEnds

(* What the candle of a setup on its day finds.                            *)
LEMMA SameDayFinds ==
  ASSUME IInv, Running, setup.state \notin PreLiquidity, SameDay
  PROVE  /\ now \in Nat /\ now + 1 \in Nat \ {0} /\ now' = now + 1 /\ today' \in Nat
         /\ setup \in SetupRecord /\ Stage(setup, now) /\ setup.day = today'
<1>1. PICK day \in Days : ~DayEnded(setup, day) /\ NextCandle(day)
  BY DEF SameDay
<1> QED
  BY <1>1, OneCandle DEF Running, DayEnded, Sound

LEMMA WaitingBreakCandleKeeps == ASSUME IInv, WaitingBreakCandle PROVE IInv'
<1>1. Running /\ setup.state \in WaitingBreak /\ setup.state \notin PreLiquidity /\ SameDay
  BY DEF WaitingBreakCandle, WaitingBreak, PreLiquidity
<1>2. /\ now \in Nat /\ now + 1 \in Nat \ {0} /\ now' = now + 1 /\ today' \in Nat
      /\ setup \in SetupRecord /\ Stage(setup, now) /\ setup.day = today'
  BY <1>1, SameDayFinds
<1>3. PICK shape \in Shape : \E z \in ZoneFacts(shape) : \E t \in TargetFacts(z) :
      \E sweep \in BOOLEAN, break \in BOOLEAN :
        LET c == [t EXCEPT !.sweep = sweep, !.break = break]
        IN  setup' = OnWaitingBreak(WithZones(Start(setup), c, now + 1), c, now + 1, FALSE)
  BY DEF WaitingBreakCandle
<1>4. PICK z \in ZoneFacts(shape) : \E t \in TargetFacts(z) :
      \E sweep \in BOOLEAN, break \in BOOLEAN :
        LET c == [t EXCEPT !.sweep = sweep, !.break = break]
        IN  setup' = OnWaitingBreak(WithZones(Start(setup), c, now + 1), c, now + 1, FALSE)
  BY <1>3
<1>5. PICK t \in TargetFacts(z), sweep \in BOOLEAN, break \in BOOLEAN :
        LET c == [t EXCEPT !.sweep = sweep, !.break = break]
        IN  setup' = OnWaitingBreak(WithZones(Start(setup), c, now + 1), c, now + 1, FALSE)
  BY <1>4
<1> DEFINE c == [t EXCEPT !.sweep = sweep, !.break = break]
           w == WithZones(Start(setup), c, now + 1)
<1>6. t \in Fact /\ t.born \in {0} \cup Prices
  BY <1>2, ZoneFactsAre, TargetFactsAre
<1>7. c \in Fact /\ c.born \in {0} \cup Prices
  BY <1>6 DEF Fact
<1>8. setup' = OnWaitingBreak(w, c, now + 1, FALSE)
  BY <1>5
<1> HIDE DEF c
<1>9. AwaitsBreak(setup, now)
  BY <1>1, <1>2 DEF Stage, StageAs
<1>10. /\ w \in SetupRecord /\ Trail(w) /\ w.state = setup.state /\ w.day = setup.day
       /\ Leg(w, now + 1) /\ w.adverse # 0 /\ w.adverse <= w.swept /\ w.mssAt = 0
       /\ w.confirmedAt = 0 /\ now + 1 <= w.liqAt + MssWindow
  <2> DEFINE at == now + 1
  <2>1. at \in Nat /\ now \in Nat /\ now < at /\ at <= now + 1 /\ at = now + 1
    BY <1>2
  <2>2. w = WithZones(Start(setup), c, at)
    OBVIOUS
  <2> HIDE DEF at, w
  <2>3. QED
    BY <1>2, <1>7, <1>9, <2>1, <2>2, NextCandleFinds
<1> HIDE DEF w
<1>11. Sound(OnWaitingBreak(w, c, now + 1, FALSE), now + 1, today')
  BY <1>1, <1>2, <1>7, <1>10, WaitingBreakSound
<1> QED
  BY <1>2, <1>8, <1>11 DEF IInv

LEMMA ArmedCandleKeeps == ASSUME IInv, ArmedCandle PROVE IInv'
<1>1. Running /\ setup.state \in Retracing \cup Touched /\ setup.state \notin PreLiquidity /\ SameDay
  BY DEF ArmedCandle, Retracing, Touched, PreLiquidity
<1>2. /\ now \in Nat /\ now + 1 \in Nat \ {0} /\ now' = now + 1 /\ today' \in Nat
      /\ setup \in SetupRecord /\ Stage(setup, now) /\ setup.day = today'
  BY <1>1, SameDayFinds
<1>3. PICK shape \in Shape : \E z \in ZoneFacts(shape) : \E t \in TargetFacts(z) :
      \E ltf \in {0} \cup shape.lo .. MaxPrice, up \in BOOLEAN :
        LET c == [t EXCEPT !.ltf = ltf, !.up = up]
        IN  setup' = OnArmed(WithZones(Start(setup), c, now + 1), c, now + 1)
  BY DEF ArmedCandle
<1>4. PICK z \in ZoneFacts(shape) : \E t \in TargetFacts(z) :
      \E ltf \in {0} \cup shape.lo .. MaxPrice, up \in BOOLEAN :
        LET c == [t EXCEPT !.ltf = ltf, !.up = up]
        IN  setup' = OnArmed(WithZones(Start(setup), c, now + 1), c, now + 1)
  BY <1>3
<1>5. PICK t \in TargetFacts(z), ltf \in {0} \cup shape.lo .. MaxPrice, up \in BOOLEAN :
        LET c == [t EXCEPT !.ltf = ltf, !.up = up]
        IN  setup' = OnArmed(WithZones(Start(setup), c, now + 1), c, now + 1)
  BY <1>4
<1> DEFINE c == [t EXCEPT !.ltf = ltf, !.up = up]
           w == WithZones(Start(setup), c, now + 1)
<1>6. t \in Fact /\ t.born \in {0} \cup Prices
  BY <1>2, ZoneFactsAre, TargetFactsAre
<1>7. c \in Fact /\ c.born \in {0} \cup Prices
  <2>1. shape.lo \in Nat
    BY ShapeIs, PricesAre DEF Fact
  <2>2. ltf \in Nat
    BY <2>1, Windows
  <2> QED
    BY <1>6, <2>2 DEF Fact
<1>8. setup' = OnArmed(w, c, now + 1)
  BY <1>5
<1> HIDE DEF c
<1>9. /\ setup.state \in Retracing => AwaitsTouch(setup, now)
      /\ setup.state \in Touched => AwaitsEntry(setup, now)
  BY <1>2 DEF Stage, StageAs
<1>10. /\ w \in SetupRecord /\ Trail(w) /\ w.state = setup.state /\ w.day = setup.day
       /\ AwaitsTouch(setup, now) => Broken(w, now + 1) /\ w.mssAt < now + 1 /\ w.confirmedAt = 0
       /\ AwaitsEntry(setup, now) =>
            /\ OnItsZone(w, now + 1) /\ w.mssAt < now + 1 /\ w.confirmedAt = 0
            /\ now + 1 <= w.touchedAt + ConfirmWindow
  <2> DEFINE at == now + 1
  <2>1. at \in Nat /\ now \in Nat /\ now < at /\ at <= now + 1 /\ at = now + 1
    BY <1>2
  <2>2. w = WithZones(Start(setup), c, at)
    OBVIOUS
  <2> HIDE DEF at, w
  <2>3. QED
    BY <1>2, <1>7, <2>1, <2>2, NextCandleFinds
<1> HIDE DEF w
<1>11. OnItsZone(w, now + 1) => Broken(w, now + 1)
  BY DEF OnItsZone
<1>12. \A st \in Touched : st \notin Retracing
  BY DEF Touched, Retracing
<1>13. Sound(OnArmed(w, c, now + 1), now + 1, today')
  BY <1>1, <1>2, <1>7, <1>9, <1>10, <1>11, <1>12, ArmedSound
<1> QED
  BY <1>2, <1>8, <1>13 DEF IInv

LEMMA BlockedCandleKeeps == ASSUME IInv, BlockedCandle PROVE IInv'
<1>1. Running /\ setup.state = "BLOCKED" /\ setup.state \notin PreLiquidity /\ SameDay
  BY DEF BlockedCandle, PreLiquidity
<1>2. /\ now \in Nat /\ now + 1 \in Nat \ {0} /\ now' = now + 1 /\ today' \in Nat
      /\ setup \in SetupRecord /\ Stage(setup, now) /\ setup.day = today'
  BY <1>1, SameDayFinds
<1>0. PICK shape \in Shape : \E c \in TargetFacts(shape) :
        setup' = OnBlocked(WithZones(Start(setup), c, now + 1), c)
  BY DEF BlockedCandle
<1>3. PICK c \in TargetFacts(shape) : setup' = OnBlocked(WithZones(Start(setup), c, now + 1), c)
  BY <1>0
<1> DEFINE w == WithZones(Start(setup), c, now + 1)
<1>4. c \in Fact /\ c.born \in {0} \cup Prices
  BY ShapeIs, TargetFactsAre
<1>5. Planned(setup)
  BY <1>1, <1>2 DEF Stage, StageAs
<1>6. w \in SetupRecord /\ Trail(w) /\ w.state = setup.state /\ w.day = setup.day /\ Planned(w)
  <2> DEFINE at == now + 1
  <2>1. at \in Nat /\ now \in Nat /\ now < at /\ at <= now + 1 /\ at = now + 1
    BY <1>2
  <2>2. w = WithZones(Start(setup), c, at)
    OBVIOUS
  <2> HIDE DEF at, w
  <2>3. QED
    BY <1>2, <1>4, <1>5, <2>1, <2>2, NextCandleFinds
<1>7. setup' = OnBlocked(w, c)
  BY <1>3
<1> HIDE DEF w
<1>8. Sound(OnBlocked(w, c), now + 1, today')
  BY <1>1, <1>2, <1>4, <1>6, BlockedSound
<1> QED
  BY <1>2, <1>7, <1>8 DEF IInv

-----------------------------------------------------------------------------
(* Theorems                                                                *)

(* The inductive invariant holds in every state.                           *)
THEOREM InvariantHolds == Spec => []IInv
<1>1. Init => IInv
  BY DEF Init, IInv
<1>2. IInv /\ [Next]_vars => IInv'
  <2>1. ASSUME IInv, Next PROVE IInv'
    BY <2>1, NoBiasKeeps, DiscoverKeeps, BiasChangesKeeps, DayEndsKeeps, PreLiquidityCandleKeeps,
       WaitingBreakCandleKeeps, ArmedCandleKeeps, BlockedCandleKeeps DEF Next
  <2>2. ASSUME IInv, UNCHANGED vars PROVE IInv'
    BY <2>2 DEF IInv, vars
  <2> QED
    BY <2>1, <2>2
<1> QED
  BY <1>1, <1>2, PTL DEF Spec

LEMMA TypesHold == IInv => TypeOK
<1> SUFFICES ASSUME IInv, setup # None PROVE TypeOK
  BY DEF IInv, TypeOK
<1>1. setup \in SetupRecord /\ Stage(setup, now)
  BY DEF IInv, Sound
<1>2. setup.state \in WaitingBreak => setup.swept # 0 /\ setup.adverse # 0
  BY <1>1 DEF Stage, StageAs, AwaitsBreak, Leg
<1>3. /\ setup.state \in Retracing => AwaitsTouch(setup, now)
      /\ setup.state \in Touched => AwaitsEntry(setup, now)
      /\ setup.state = "BLOCKED" => Planned(setup)
  BY <1>1 DEF Stage, StageAs
<1>4. setup.state \in Retracing \cup Touched \cup {"BLOCKED"} => setup.protective # 0 /\ setup.target # 0
  BY <1>3 DEF AwaitsTouch, AwaitsEntry, OnItsZone, Broken, Leg, Planned
<1>5. setup.state \in Touched \cup {"BLOCKED"} => setup.zone # None
  BY <1>3 DEF AwaitsEntry, OnItsZone, Planned
<1>6. setup.state = "BLOCKED" => setup.entry # 0
  BY <1>3 DEF Planned
<1> QED
  BY <1>1, <1>2, <1>4, <1>5, <1>6 DEF IInv, TypeOK

(* emit never raises: through every cascade of handlers on one candle each *)
(* state follows the one before it by an entry of ALLOWED, and each        *)
(* handler finds the optional fields it reads.                             *)
THEOREM EveryTransitionIsLegal == Spec => []LegalTrail
<1>1. ASSUME IInv PROVE LegalTrail
  BY <1>1, TypesHold DEF LegalTrail, IInv, Sound, Trail
<1> QED
  BY <1>1, InvariantHolds, PTL

(* No setup outlives a window or the trading day of its sweep.             *)
THEOREM NoSetupIsOverdue == Spec => []InTime
<1>1. ASSUME IInv, Running PROVE InTime
  <2>1. setup \in SetupRecord /\ Stage(setup, now) /\ OfTheDay(setup, today) /\ setup.state \notin Terminal
    BY <1>1 DEF IInv, Running, Sound
  <2>2. /\ setup.state \in WaitingBreak => now < setup.liqAt + MssWindow
        /\ setup.state \in Retracing => now < setup.mssAt + RetraceWindow /\ Zoned(setup, now)
        /\ setup.state \in Touched => now < setup.touchedAt + ConfirmWindow /\ Zoned(setup, now)
    BY <2>1 DEF Stage, StageAs, AwaitsBreak, AwaitsTouch, AwaitsEntry
  <2>3. setup.state \notin PreLiquidity => setup.day = today
    BY <2>1 DEF OfTheDay
  <2> QED
    BY <2>2, <2>3 DEF InTime, Zoned
<1>2. ASSUME IInv PROVE InTime
  BY <1>1, <1>2 DEF InTime
<1> QED
  BY <1>2, InvariantHolds, PTL

(* A confirmed plan went through sweep, break, zone and touch in order and *)
(* in time, with its stop beyond the swept extreme and its reward worth    *)
(* the risk; and it stays so to the end of its setup.                      *)
THEOREM PlansAreEarned == Spec => []PlanIsEarned
<1>1. ASSUME IInv, setup # None, setup.confirmedAt # 0 PROVE Planned(setup)
  BY <1>1 DEF IInv, Sound, Stage, StageAs, SetupRecord, States, Untouched, AwaitsBreak, AwaitsTouch, AwaitsEntry
<1>2. ASSUME IInv, setup # None, Planned(setup) PROVE PlanIsEarned
  <2>1. setup.protective \in Nat /\ setup.swept \in Nat
    BY <1>2 DEF IInv, Sound, SetupRecord
  <2>2. Stop(setup) <= setup.swept
    BY <1>2, <2>1, Windows DEF Planned, Stop
  <2>3. Stop(setup) \in Int
    BY <2>1, Windows DEF Stop
  <2>4. Stop(setup) < setup.entry
    BY <1>2, <2>3 DEF Planned, GoodPlan
  <2> QED
    BY <1>2, <2>2, <2>4 DEF PlanIsEarned, Planned, GoodPlan
<1>3. ASSUME IInv PROVE PlanIsEarned
  BY <1>1, <1>2, <1>3 DEF PlanIsEarned
<1> QED
  BY <1>3, InvariantHolds, PTL
=============================================================================
