------------------------------- MODULE NoWick -------------------------------
(***************************************************************************)
(* No-wick candles of one series, the facts they are scored on, and the    *)
(* zones over their bodies (no_wick/engine.py, features.py, zones.py).     *)
(* What an engine that failed would tell is a set with nothing in it.      *)
(***************************************************************************)
EXTENDS PdArrays

CONSTANTS TrueBody, TrueWick, NearBody, NearWick, OneBody, OneWick,   \* percents of the range
          Strengths,                                                \* percents of ATR, by rank
          Lookback, ZoneTouch, ZoneApproach, ZoneReaction, ZoneReactionWindow,
          DisplacementPoints, StructurePoints, LiquidityPoints, FvgPoints, TrendMatch, SessionPoints

ASSUME NoWickAssumption ==
  /\ {TrueBody, TrueWick, NearBody, NearWick, OneBody, OneWick, Lookback, ZoneTouch, ZoneApproach,
      ZoneReaction, ZoneReactionWindow, LiquidityPoints, FvgPoints, TrendMatch} \subseteq Nat
  /\ Strengths \in Seq(Nat) /\ DisplacementPoints \in [0 .. Len(GradeAtr) -> Nat]

(***************************************************************************)
(* Classification.  The origin-side wick is behind the body.               *)
(***************************************************************************)
BodyDirection(c) == IF c.close > c.open THEN "BULLISH" ELSE "BEARISH"
Origin(c) == Along(BodyDirection(c), c.open) - Rear(BodyDirection(c), c)
Destination(c) == Reach(BodyDirection(c), c) - Along(BodyDirection(c), c.close)

Solid(c, body) == Body(c) * 100 >= body * Range_(c)
Missing(wick, c, percent) == wick * 100 <= percent * Range_(c)
Marubozu(c, body, wick) == Solid(c, body) /\ Missing(Origin(c), c, wick) /\ Missing(Destination(c), c, wick)

Shape(c) ==
  CASE c.close = c.open -> "NONE"
    [] c.close # c.open /\ Marubozu(c, TrueBody, TrueWick) -> "TRUE_MARUBOZU"
    [] c.close # c.open /\ ~Marubozu(c, TrueBody, TrueWick) /\ Marubozu(c, NearBody, NearWick) -> "NEAR_MARUBOZU"
    [] OTHER -> IF ~Solid(c, OneBody) THEN "NONE"
                ELSE IF Missing(Origin(c), c, OneWick) THEN "NO_ORIGIN_WICK"
                ELSE IF Missing(Destination(c), c, OneWick) THEN "NO_DESTINATION_WICK" ELSE "NONE"

Insignificant == 0
StrengthOf(c, atr) == Cardinality({k \in DOMAIN Strengths : AtLeast(Body(c), Strengths[k], atr)})

InsideBar(s, i) == i > 1 /\ s[i].high <= s[i - 1].high /\ s[i].low >= s[i - 1].low

(***************************************************************************)
(* Context: facts of candle i, or of the candles before it.  A factor is   *)
(* NOT_EVALUATED when its engine told nothing.                             *)
(***************************************************************************)
At(events, i) == {e \in ToSet(events) : e.at = i}
Highest(points) == Max({0} \cup points)

(* The last break that set a trend.  Of two on one candle the log lists a  *)
(* BOS before an MSS, and the bearish one of a kind before the bullish.    *)
Later(a, b) ==
  \/ a = b
  \/ a.at > b.at
  \/ a.at = b.at /\ (a.type = "MSS" \/ (b.type = "BOS" /\ a.direction = "BULLISH"))

TrendAt(external, i) ==
  LET breaks == {e \in ToSet(external) : e.at <= i /\ e.status = "CONFIRMED" /\ e.type \in {"BOS", "MSS"}}
  IN  IF breaks = {} THEN "NONE" ELSE (CHOOSE a \in breaks : \A b \in breaks : Later(a, b)).direction

OfDisplacement(displacements, direction, i) == DisplacementPoints[Strongest(displacements, direction, {i})]
OfStructure(structure, direction, i) ==
  Highest({StructurePoints[e.type] : e \in {b \in At(structure.internal, i) \cup At(structure.external, i) :
                                              b.status = "CONFIRMED" /\ b.direction = direction}})
OfTrend(structure, direction, i) == IF TrendAt(structure.external, i) = direction THEN TrendMatch ELSE 0
OfLiquidity(events, direction, i) ==
  IF \E e \in ToSet(events) : /\ e.at \in i - Lookback .. i
                              /\ e.type \in {"SWEEP", "RECLAIM"} /\ e.pool[2] = Against(direction)
  THEN LiquidityPoints ELSE 0
OfFvg(pd, direction, i) ==
  IF \E e \in At(pd.events, i) : e.type = "CREATED" /\ pd.zones[e.zone].direction = direction THEN FvgPoints ELSE 0

(* Each source is a set: {what its engine told}, or {} when it told nothing.*)
NoSource == [structure |-> {}, liquidity |-> {}, pd |-> {}, session |-> {}]

Points(sources, direction, i) ==
  [displacement |-> {OfDisplacement(pd.displacements, direction, i) : pd \in sources.pd},
   structure    |-> {OfStructure(st, direction, i) : st \in sources.structure},
   trend        |-> {OfTrend(st, direction, i) : st \in sources.structure},
   liquidity    |-> {OfLiquidity(events, direction, i) : events \in sources.liquidity},
   fvg          |-> {OfFvg(pd, direction, i) : pd \in sources.pd},
   session      |-> {SessionPoints[quality[i]] : quality \in sources.session}]

Context(points) == Min({100, MapThenSumSet(LAMBDA f : MapThenSumSet(LAMBDA p : p, points[f]), DOMAIN points)})

(***************************************************************************)
(* Zones.  Price rebalances a zone from its close towards its open.        *)
(***************************************************************************)
References == <<0, 25, 50, 75, 100>>
ReferenceEvents == <<"TOUCHED", "REBALANCE_25", "REBALANCE_50", "REBALANCE_75", "FULLY_REBALANCED">>
ReferenceStates == <<"TOUCHED", "PARTIAL", "HALF_REBALANCED", "HALF_REBALANCED", "FULLY_REBALANCED">>
TerminalZone == {"REACTED", "INVALIDATED"}
ActiveZone == {"FRESH", "APPROACHING", "TOUCHED", "PARTIAL", "HALF_REBALANCED"}

Overlaps(c, i, pd) ==
  LET low  == Min({c.open, c.close})
      high == Max({c.open, c.close})
      Meets(z) == z.made <= i /\ z.bottom < high /\ z.top > low
  IN  {<<"ZONE", k>> : k \in {k \in DOMAIN pd.zones : Meets(pd.zones[k])
                                                    /\ (pd.zones[k].ended # 0 => pd.zones[k].ended > i)}}
      \cup {<<"IMR", z.made>> : z \in {z \in pd.imrs : Meets(z)}}

BodyZone(s, i, atr, overlaps) ==
  [direction |-> BodyDirection(s[i]), close |-> s[i].close, open |-> s[i].open, made |-> i, atr |-> atr,
   extreme |-> IF BodyDirection(s[i]) = "BULLISH" THEN s[i].low ELSE s[i].high, overlaps |-> overlaps,
   state |-> "FRESH", depth |-> 0, hit |-> 0, touched |-> 0, failed |-> FALSE]

ToldOf(z, kinds, i) == [j \in DOMAIN kinds |-> [zone |-> z.made, type |-> kinds[j], at |-> i]]

(* How deep price came, and every reference it reached for the first time. *)
Rebalance(z, c, i) ==
  LET body  == Size(z.close - z.open)
      in    == Along(z.direction, z.close) - Rear(z.direction, c)
      depth == Max({z.depth, Min({body, in})})
      hit   == Cardinality({r \in DOMAIN References : depth * 100 >= References[r] * body})
  IN  IF AtMost(-in, ZoneTouch, z.atr)
      THEN [zone |-> [z EXCEPT !.depth = depth, !.hit = hit, !.touched = IF @ = 0 THEN i ELSE @,
                               !.state = IF z.failed \/ hit = z.hit THEN @ ELSE ReferenceStates[hit]],
            events |-> ToldOf(z, SubSeq(ReferenceEvents, z.hit + 1, hit), i)]
      ELSE [zone |-> z, events |-> <<>>]

Beyond(z, level, c) == Along(z.direction, c.close) < Along(z.direction, level)
Reacts(z, c, i) ==
  /\ ~z.failed /\ z.touched # 0 /\ i - z.touched <= ZoneReactionWindow
  /\ AtLeast(Along(z.direction, c.close) - Along(z.direction, z.close), ZoneReaction, z.atr)

Resolve(r, state, i) ==
  [zone |-> [r.zone EXCEPT !.state = state, !.failed = @ \/ state = "FAILED"],
   events |-> r.events \o ToldOf(r.zone, <<state>>, i)]

EvaluateZone(z, c, i) ==
  LET r == Rebalance(z, c, i)
  IN  CASE z.state \in TerminalZone -> [zone |-> z, events |-> <<>>]
        [] z.state \notin TerminalZone /\ Beyond(z, z.extreme, c) -> Resolve(r, "INVALIDATED", i)
        [] z.state \notin TerminalZone /\ ~Beyond(z, z.extreme, c) /\ Beyond(z, z.open, c) /\ ~z.failed ->
             Resolve(r, "FAILED", i)
        [] OTHER -> IF Reacts(r.zone, c, i) THEN Resolve(r, "REACTED", i) ELSE r

(***************************************************************************)
(* The pass over the series.                                               *)
(***************************************************************************)
NothingNoWick == [events |-> <<>>, zones |-> <<>>, zoneEvents |-> <<>>]

NoWickEvent(s, i, atr, sources) ==
  LET points == Points(sources, BodyDirection(s[i]), i)
  IN  [at |-> i, direction |-> BodyDirection(s[i]), shape |-> Shape(s[i]), strength |-> StrengthOf(s[i], atr),
       inside |-> InsideBar(s, i), points |-> points, context |-> Context(points)]

NoWickStep(all, s, sources, i) ==
  LET met == [k \in DOMAIN all.zones |-> EvaluateZone(all.zones[k], s[i], i)]
      atr == AtrBefore(s, i)
      no  == atr.sum = 0 \/ Shape(s[i]) = "NONE"
      new == IF no THEN <<>> ELSE <<NoWickEvent(s, i, atr, sources)>>
  IN  [events     |-> all.events \o new,
       zones      |-> [k \in DOMAIN met |-> met[k].zone]
                      \o (IF no \/ StrengthOf(s[i], atr) = Insignificant THEN <<>>
                          ELSE <<BodyZone(s, i, atr, UNION {Overlaps(s[i], i, pd) : pd \in sources.pd})>>),
       zoneEvents |-> all.zoneEvents \o FlattenSeq([k \in DOMAIN met |-> met[k].events])]

(* APPROACHING is seen by the reader only.                                 *)
Seen(z, close, atr) ==
  IF z.state = "FRESH" /\ atr.sum > 0 /\ AtMost(Size(close - z.close), ZoneApproach, atr)
  THEN [z EXCEPT !.state = "APPROACHING"] ELSE z

AnalyzeNoWick(s, sources) ==
  LET all == FoldLeftDomain(LAMBDA acc, i : NoWickStep(acc, s, sources, i), NothingNoWick, s)
  IN  [all EXCEPT !.zones = [k \in DOMAIN @ |-> Seen(@[k], s[Len(s)].close, AtrBefore(s, Len(s) + 1))]]

ActiveNoWick(noWick) == {z \in ToSet(noWick.zones) : z.state \in ActiveZone}
=============================================================================
