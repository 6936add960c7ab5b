------------------------------ MODULE PdArrays ------------------------------
(***************************************************************************)
(* Displacements, fair value gaps and immediate rebalances of one series   *)
(* (pd_arrays/displacement.py, fvg.py, imr.py).  A zone is named by its    *)
(* place in the order of creation.                                         *)
(***************************************************************************)
EXTENDS Swings

CONSTANTS MinBody, MaxLeg, GradeAtr, StrongBody,   \* displacement, percents; GradeAtr by rank
          MinGap, TouchTolerance, TouchMaxFill, HalfFill, ConfirmWindow, ImrMinGrade

ASSUME PdAssumption ==
  /\ {MinBody, MaxLeg, StrongBody, MinGap, TouchTolerance, TouchMaxFill, HalfFill, ConfirmWindow} \subseteq Nat
  /\ GradeAtr \in Seq(Nat) /\ ImrMinGrade \in DOMAIN GradeAtr

Moderate == 2

Size(x) == IF x < 0 THEN -x ELSE x
Body(c) == Size(c.close - c.open)
Range_(c) == c.high - c.low

(***************************************************************************)
(* Displacement.                                                           *)
(***************************************************************************)
Heading(c) ==
  IF Range_(c) <= 0 \/ c.close = c.open \/ Body(c) * 100 < MinBody * Range_(c) THEN "NONE"
  ELSE IF c.close > c.open THEN "BULLISH" ELSE "BEARISH"

(* Whether the average of body/range over a leg is below the percentage.   *)
ThinBodies(s, leg) ==
  LET ranges(but) == FoldFunctionOnSet(LAMBDA a, b : a * b, 1, [j \in leg |-> Range_(s[j])], leg \ {but})
      bodies == MapThenSumSet(LAMBDA j : Body(s[j]) * ranges(j), leg)
  IN  bodies * 100 < StrongBody * Cardinality(leg) * ranges(0)

(* The rank of the grade of a leg, 0 for none.                             *)
Grade(s, leg, atr) ==
  LET size == Size(s[Max(leg)].close - s[Min(leg)].open)
      rank == Cardinality({g \in DOMAIN GradeAtr : AtLeast(size, GradeAtr[g], atr)})
  IN  IF rank > Moderate /\ ThinBodies(s, leg) THEN Moderate ELSE rank

NoRun == [start |-> 1, heading |-> "NONE", rank |-> 0, events |-> <<>>]

Leg(run, i) == Max({run.start, i - MaxLeg + 1}) .. i

(* A leg tells of a grade that no candle of its run has told of.           *)
Displace(run, s, i) ==
  LET heading == Heading(s[i])
      now     == IF heading = "NONE" \/ heading # run.heading
                 THEN [run EXCEPT !.start = i, !.heading = heading, !.rank = 0] ELSE run
      atr     == AtrBefore(s, Min(Leg(now, i)))
      grade   == Grade(s, Leg(now, i), atr)
  IN  IF heading = "NONE" \/ atr.sum = 0 \/ grade <= now.rank THEN now
      ELSE [now EXCEPT !.rank = grade,
                       !.events = Append(@, [at |-> i, direction |-> heading, rank |-> grade])]

Displacements(s) == FoldLeftDomain(LAMBDA run, i : Displace(run, s, i), NoRun, s).events

Strongest(displacements, direction, bars) ==
  Max({0} \cup {d.rank : d \in {e \in ToSet(displacements) : e.at \in bars /\ e.direction = direction}})

(***************************************************************************)
(* Zones.  A bullish zone is entered from above, a bearish one from below: *)
(* along its direction, price falls from Entry to Far.                     *)
(***************************************************************************)
Entry(z) == Along(z.direction, IF z.direction = "BULLISH" THEN z.top ELSE z.bottom)
Far(z)   == Along(z.direction, IF z.direction = "BULLISH" THEN z.bottom ELSE z.top)

Through(z, c) == Along(z.direction, c.close) < Far(z)
Retested(z, c) == Reach(z.direction, c) > Entry(z) /\ Rear(z.direction, c) <= Entry(z)

Valid(z) == z.state # "INVALIDATED" /\ (z.type \in {"FVG", "REVERSAL_FVG"} \/ z.status = "CONFIRMED_IFVG")
Active(z) == Valid(z) /\ z.state # "FULL"

Fills == <<"FRESH", "TOUCHED", "PARTIAL", "HALF", "FULL">>
FillEvents == <<"CREATED", "TOUCHED", "PARTIAL_FILL", "HALF_FILL", "FULL_FILL">>
RankOf(state) == CHOOSE r \in DOMAIN Fills : Fills[r] = state

Zone(type, direction, top, bottom, i, parent, status, grade) ==
  [type |-> type, direction |-> direction, top |-> top, bottom |-> bottom, made |-> i, parent |-> parent,
   status |-> status, grade |-> grade, state |-> "FRESH", fill |-> 0, from |-> i + 1, ended |-> 0]

(* What a close through a zone leaves behind: nothing after a reversal.    *)
Spawned(z, k, i) ==
  CASE z.type = "FVG" -> <<Zone("IFVG", Against(z.direction), z.top, z.bottom, i, k, "POTENTIAL_IFVG", 0)>>
    [] z.type = "IFVG" -> <<Zone("REVERSAL_FVG", Against(z.direction), z.top, z.bottom, i, k, "NONE", 0)>>
    [] OTHER -> <<>>

(* Mutant: any return confirms an IFVG, one that closes through it too.    *)
AdvanceAnyhow(z, c, i) ==
  IF i - z.made > ConfirmWindow THEN [zone |-> [z EXCEPT !.status = "FAILED_IFVG"], events |-> <<"IFVG_FAILED">>]
  ELSE IF i > z.made /\ Retested(z, c)
       THEN [zone |-> [z EXCEPT !.status = "CONFIRMED_IFVG", !.from = i + 1], events |-> <<"IFVG_CONFIRMED">>]
       ELSE [zone |-> z, events |-> <<>>]

(* An IFVG is confirmed by a later candle that comes back into the zone    *)
(* and does not close through it; it fails when one does, or too late.     *)
Advance(z, c, i) ==
  CASE i - z.made > ConfirmWindow \/ (i > z.made /\ Through(z, c)) ->
         [zone |-> [z EXCEPT !.status = "FAILED_IFVG"], events |-> <<"IFVG_FAILED">>]
    [] i - z.made \in 1 .. ConfirmWindow /\ ~Through(z, c) /\ Retested(z, c) ->
         [zone |-> [z EXCEPT !.status = "CONFIRMED_IFVG", !.from = i + 1], events |-> <<"IFVG_CONFIRMED">>]
    [] OTHER -> [zone |-> z, events |-> <<>>]

FillRank(fill, size) ==
  CASE fill >= size -> 5
    [] fill < size /\ fill * 100 >= HalfFill * size -> 4
    [] fill * 100 < HalfFill * size /\ fill * 100 >= TouchMaxFill * size -> 3
    [] OTHER -> 2

Mitigate(z, c, i, atr) ==
  LET size == z.top - z.bottom
      deep == Entry(z) - Rear(z.direction, c)
      fill == Max({z.fill, Min({size, deep})})
      rank == FillRank(fill, size)
  IN  CASE Through(z, c) -> [zone |-> [z EXCEPT !.fill = size, !.state = "INVALIDATED", !.ended = i],
                             events |-> <<"INVALIDATED">>]
        [] ~Through(z, c) /\ AtMost(-deep, TouchTolerance, atr) ->
             IF rank > RankOf(z.state)
             THEN [zone |-> [z EXCEPT !.fill = fill, !.state = Fills[rank]], events |-> <<FillEvents[rank]>>]
             ELSE [zone |-> [z EXCEPT !.fill = fill], events |-> <<>>]
        [] OTHER -> [zone |-> z, events |-> <<>>]

Turn(z, c, i, atr) ==
  CASE z.type = "IFVG" /\ z.status = "POTENTIAL_IFVG" -> Advance(z, c, i)
    [] Valid(z) /\ i >= z.from -> Mitigate(z, c, i, atr)
    [] OTHER -> [zone |-> z, events |-> <<>>]

Told(k, i, kinds) == [j \in DOMAIN kinds |-> [zone |-> k, type |-> kinds[j], at |-> i]]

(* A gap between the candles around a third.                               *)
Gap(s, i, displacements) ==
  LET a == s[i - 2]
      c == s[i]
      atr == AtrBefore(s, i - 2)
      Fvg(direction, top, bottom) ==
        IF AtLeast(top - bottom, MinGap, atr)
        THEN <<Zone("FVG", direction, top, bottom, i, 0, "NONE", Strongest(displacements, direction, i - 2 .. i))>>
        ELSE <<>>
  IN  CASE i <= 2 \/ AtrBefore(s, i - 2).sum = 0 -> <<>>
        [] i > 2 /\ AtrBefore(s, i - 2).sum > 0 /\ c.low > a.high -> Fvg("BULLISH", c.low, a.high)
        [] i > 2 /\ AtrBefore(s, i - 2).sum > 0 /\ c.high < a.low -> Fvg("BEARISH", a.low, c.high)
        [] OTHER -> <<>>

SpawnedEvent == [IFVG |-> "IFVG_POTENTIAL", REVERSAL_FVG |-> "REVERSAL_FVG_CREATED", FVG |-> "CREATED"]

(* One candle: every zone, then the zones it turned into, then a new gap.  *)
ZonesAfter(all, s, i, displacements) ==
  LET atr     == AtrAt(s, i)
      turns   == [k \in DOMAIN all.zones |-> Turn(all.zones[k], s[i], i, atr)]
      ended   == SelectSeq([k \in DOMAIN turns |-> k],
                           LAMBDA k : turns[k].zone.ended = i)
      spawned == FlattenSeq([j \in DOMAIN ended |-> Spawned(all.zones[ended[j]], ended[j], i)])
      new     == spawned \o Gap(s, i, displacements)
      n       == Len(all.zones)
  IN  [zones  |-> [k \in DOMAIN turns |-> turns[k].zone] \o new,
       events |-> all.events \o FlattenSeq([k \in DOMAIN turns |-> Told(k, i, turns[k].events)])
                  \o [j \in DOMAIN new |-> [zone |-> n + j, type |-> SpawnedEvent[new[j].type], at |-> i]]]

DetectFvgs(s, displacements) ==
  FoldLeftDomain(LAMBDA all, i : ZonesAfter(all, s, i, displacements), [zones |-> <<>>, events |-> <<>>], s)

(***************************************************************************)
(* Immediate rebalances: a displacement whose next candle comes back to    *)
(* the candle before it and closes beyond.  They are never evaluated.      *)
(***************************************************************************)
Imr(s, i, direction, displacements) ==
  LET edge == Reach(direction, s[i - 2])
      rank == Strongest(displacements, direction, {i - 1})
  IN  IF rank >= ImrMinGrade /\ Along(direction, s[i].close) > edge /\ Rear(direction, s[i]) <= edge
      THEN {[direction |-> direction, made |-> i, top |-> Max({s[i].close, Along(direction, edge)}),
             bottom |-> Min({s[i].close, Along(direction, edge)}), grade |-> rank]}
      ELSE {}

DetectImrs(s, displacements) ==
  UNION {LET up == Imr(s, i, "BULLISH", displacements)
         IN  IF up # {} THEN up ELSE Imr(s, i, "BEARISH", displacements) : i \in 3 .. Len(s)}

(* A reversal gap may only confirm when no other inefficiency is active.   *)
ReversalFvgEligible(pd) ==
  pd.imrs = {} /\ \A k \in DOMAIN pd.zones : Active(pd.zones[k]) => pd.zones[k].type = "REVERSAL_FVG"

PdArraysOf(s) ==
  LET displacements == Displacements(s)
      fvgs == DetectFvgs(s, displacements)
  IN  [displacements |-> displacements, zones |-> fvgs.zones, events |-> fvgs.events,
       imrs |-> DetectImrs(s, displacements),
       eligible |-> ReversalFvgEligible([zones |-> fvgs.zones, imrs |-> DetectImrs(s, displacements)])]
=============================================================================
