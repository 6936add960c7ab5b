------------------------------ MODULE Reversal ------------------------------
(***************************************************************************)
(* Reversal setups (reversal/engine.py, origins.py, service.py): one per   *)
(* origin zone of a higher timeframe, walked over the closed candles of    *)
(* the decision timeframe from the candle the origin was known at.  All of *)
(* it is computed anew from the inputs as they are now.                    *)
(***************************************************************************)
EXTENDS NoWick, Liquidity

CONSTANTS RebalanceWindow, ReactionWindow, ReactionWick, ReactionGrade, FlipWindow, EntryWindow,
          AllowedBiases

ASSUME ReversalAssumption ==
  /\ {RebalanceWindow, ReactionWindow, ReactionWick, FlipWindow, EntryWindow} \subseteq Nat
  /\ ReactionGrade \in DOMAIN GradeAtr

(***************************************************************************)
(* Origins: the active no-wick zones and the immediate rebalances.         *)
(***************************************************************************)
NoWickOrigin(z, frame, known) ==
  [kind |-> "NO_WICK", frame |-> frame, made |-> z.made, direction |-> z.direction,
   top |-> Max({z.open, z.close}), bottom |-> Min({z.open, z.close}), far |-> z.extreme, known |-> known]

ImrOrigin(z, frame, known) ==
  [kind |-> "IMR", frame |-> frame, made |-> z.made, direction |-> z.direction,
   top |-> z.top, bottom |-> z.bottom, far |-> IF z.direction = "BULLISH" THEN z.bottom ELSE z.top, known |-> known]

(* known: the candle of the decision series at whose close a higher candle *)
(* is known.                                                               *)
BuildOrigins(noWick, pd, frame, known) ==
  {NoWickOrigin(z, frame, known[z.made]) : z \in ActiveNoWick(noWick)}
  \cup {ImrOrigin(z, frame, known[z.made]) : z \in pd.imrs}

BiasGate(origin, bias) == origin.frame.always \/ bias \in AllowedBiases

(***************************************************************************)
(* What a candle does to a setup.  Price comes back against the direction. *)
(***************************************************************************)
Near(o) == Along(o.direction, IF o.direction = "BULLISH" THEN o.top ELSE o.bottom)
FarEdge(o) == Along(o.direction, o.far)

Breaks(o, c) == Along(o.direction, c.close) < FarEdge(o)
Rebalances(o, c) == Rear(o.direction, c) <= Near(o)

WickBehind(o, c) ==
  Min({Along(o.direction, c.open), Along(o.direction, c.close)}) - Rear(o.direction, c)

Rejects(o, c, i, displacements) ==
  \/ /\ Range_(c) > 0 /\ Rebalances(o, c) /\ Along(o.direction, c.close) > Near(o)
     /\ WickBehind(o, c) * 100 >= ReactionWick * Range_(c)
  \/ Strongest(displacements, o.direction, {i}) >= ReactionGrade

OverlapsOrigin(o, z) == z.bottom <= o.top /\ z.top >= o.bottom

(* The zones that confirm on candle i: an inverted gap at the origin that  *)
(* is confirmed there, or a gap or an immediate rebalance made there.      *)
Confirming(o, i, pd) ==
  {[kind |-> "IFVG_FLIP", made |-> pd.zones[e.zone].made, top |-> pd.zones[e.zone].top, bottom |-> pd.zones[e.zone].bottom] :
     e \in {e \in At(pd.events, i) : /\ e.type = "IFVG_CONFIRMED" /\ pd.zones[e.zone].direction = o.direction
                                     /\ OverlapsOrigin(o, pd.zones[e.zone])}}
  \cup {[kind |-> "NEW_FVG", made |-> i, top |-> z.top, bottom |-> z.bottom] :
          z \in {z \in ToSet(pd.zones) : z.made = i /\ z.type = "FVG" /\ z.direction = o.direction}}
  \cup {[kind |-> "IMR", made |-> i, top |-> z.top, bottom |-> z.bottom] :
          z \in {z \in pd.imrs : z.made = i /\ z.direction = o.direction}}

(***************************************************************************)
(* The plan: the middle of the latest, then tightest, confirming zone and  *)
(* the nearest untaken pool beyond it.  The entry is kept doubled.         *)
(***************************************************************************)
Fresher(a, b) == a.made > b.made \/ (a.made = b.made /\ a.top - a.bottom <= b.top - b.bottom)
EntryZone(zones) == CHOOSE a \in zones : \A b \in zones : Fresher(a, b)

(* Mutant: any untaken pool of the side is a target.                       *)
AnyPool(pools, direction, entry) == {p \in pools : Untaken(p) /\ p.side = direction}

Ahead(pools, direction, entry) ==
  {p \in pools : Untaken(p) /\ p.side = direction /\ 2 * p.price > Along(direction, entry)}
Closer(a, b) == a.price < b.price \/ (a.price = b.price /\ Significance(a.type) >= Significance(b.type))
NearestTarget(pools, direction, entry) ==
  LET beyond == Ahead(pools, direction, entry)
  IN  IF beyond = {} THEN {} ELSE {(CHOOSE a \in beyond : \A b \in beyond : Closer(a, b)).price}

NoPlan == [zones |-> {}, entry |-> 0, target |-> {}]
Plan(o, zones, pools) ==
  LET z == EntryZone(zones)
  IN  [zones |-> zones, entry |-> z.top + z.bottom, target |-> NearestTarget(pools, o.direction, z.top + z.bottom)]

EntryTouched(s, c) == 2 * Rear(s.origin.direction, c) <= Along(s.origin.direction, s.plan.entry)
TargetReached(s, c) == \E price \in s.plan.target : Reach(s.origin.direction, c) >= price

(***************************************************************************)
(* The walk.  The trail tells the states in order, the candle with each.   *)
(***************************************************************************)
Over == {"INVALIDATED", "EXPIRED", "ENTRY_MISSED"}
Walking(s) == s.state \notin Over \cup {"BLOCKED"}

Discovered(o) ==
  [origin |-> o, state |-> "DISCOVERED", rebalanced |-> 0, reaction |-> 0, armed |-> 0, plan |-> NoPlan, trail |-> <<>>]

Emit(s, state, i) == [s EXCEPT !.state = state, !.trail = Append(@, [state |-> state, at |-> i])]

AwaitRebalance(s, c, i) ==
  CASE Rebalances(s.origin, c) -> Emit([s EXCEPT !.rebalanced = i], "REBALANCE_TOUCH", i)
    [] ~Rebalances(s.origin, c) /\ i - s.origin.known > RebalanceWindow -> Emit(s, "EXPIRED", i)
    [] OTHER -> IF s.state = "DISCOVERED" THEN Emit(s, "REBALANCE_WATCH", i) ELSE s

AwaitReaction(s, c, i, displacements) ==
  CASE Rejects(s.origin, c, i, displacements) -> Emit([s EXCEPT !.reaction = i], "REACTION", i)
    [] ~Rejects(s.origin, c, i, displacements) /\ i - s.rebalanced > ReactionWindow -> Emit(s, "EXPIRED", i)
    [] OTHER -> s

AwaitConfirmation(s, i, pd, pools) ==
  LET zones == Confirming(s.origin, i, pd)
  IN  CASE zones # {} -> Emit(Emit([s EXCEPT !.armed = i, !.plan = Plan(s.origin, zones, pools)],
                                   "CONFIRMATION", i), "SETUP_ARMED", i)
        [] zones = {} /\ i - s.reaction > FlipWindow -> Emit(s, "EXPIRED", i)
        [] OTHER -> s

AwaitEntry(s, c, i) ==
  CASE TargetReached(s, c) -> Emit(s, "ENTRY_MISSED", i)
    [] ~TargetReached(s, c) /\ EntryTouched(s, c) -> Emit(Emit(s, "ENTRY_ZONE_TOUCHED", i), "BLOCKED", i)
    [] OTHER -> IF i - s.armed > EntryWindow THEN Emit(s, "EXPIRED", i) ELSE s

Walk(s, c, i, pd, pools) ==
  CASE ~Walking(s) \/ i < s.origin.known -> s
    [] Walking(s) /\ i >= s.origin.known /\ Breaks(s.origin, c) -> Emit(s, "INVALIDATED", i)
    [] OTHER -> IF s.rebalanced = 0 THEN AwaitRebalance(s, c, i)
                ELSE IF s.reaction = 0 THEN AwaitReaction(s, c, i, pd.displacements)
                ELSE IF s.armed = 0 THEN AwaitConfirmation(s, i, pd, pools)
                ELSE AwaitEntry(s, c, i)

AnalyzeReversals(origins, s, bias, pd, pools) ==
  {FoldLeftDomain(LAMBDA setup, i : Walk(setup, s[i], i, pd, pools), Discovered(o), s) :
     o \in {o \in origins : BiasGate(o, bias) /\ o.known <= Len(s)}}
=============================================================================
