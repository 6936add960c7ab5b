---------------------------- MODULE MarketEngines ---------------------------
(***************************************************************************)
(* The market engines at work: slot after slot a candle closes, or none    *)
(* comes, and every analysis is made anew from the whole series.  Nothing  *)
(* is remembered between two analyses but the candles.                     *)
(***************************************************************************)
EXTENDS MarketPipeline

CONSTANT Scenes    \* scripts: what may come in each slot, and what may be wrong with the data

VARIABLES scene, feed, weather, sessions, analysis, setups

vars == <<scene, feed, weather, sessions, analysis, setups>>

Init ==
  /\ scene \in Scenes
  /\ feed = <<>>
  /\ weather = Fine
  /\ sessions = AnalyzeSessions(<<>>)
  /\ analysis = RunPipeline(<<>>, Fine)
  /\ setups = {}

CloseSlot ==
  /\ Len(feed) < Len(scene.script)
  /\ \E slot \in scene.script[Len(feed) + 1] : feed' = Append(feed, slot)
  /\ weather' \in scene.weathers
  /\ sessions' = AnalyzeSessions(feed')
  /\ analysis' = RunPipeline(feed', weather')
  /\ setups' = Reversals(feed', weather', ClosedOf(feed'), analysis')
  /\ UNCHANGED scene

Next == CloseSlot

Spec == Init /\ [][Next]_vars

Series == ClosedOf(feed)

(***************************************************************************)
(* Types.                                                                  *)
(***************************************************************************)
LevelsShown(level) == [level EXCEPT !.events = [k \in DOMAIN @ |-> @[k].event]]
Trends == Directions \cup {"NONE"}

\* The analysis has the shape its consumers read: every state, event and zone
\* is one the contracts name, at a candle of the series.
TypeOK ==
  /\ scene \in Scenes /\ weather \in scene.weathers \cup {Fine} /\ weather.failing \subseteq Stages
  /\ Len(feed) <= Len(scene.script) /\ \A t \in DOMAIN feed : feed[t] \in scene.script[t]
  /\ \A st \in analysis.structure : \A level \in {st.internal, st.external} :
       /\ level.trend \in Trends
       /\ \A k \in DOMAIN level.events : level.events[k].event.type \in StructureTypes
  /\ \A l \in analysis.liquidity : \A p \in ToSet(l.pools) : p.state \in PoolStates /\ p.scope \in Scopes
  /\ \A pd \in analysis.pd : \A z \in ToSet(pd.zones) :
       z.type \in ZoneTypes /\ z.state \in ZoneStates /\ z.made \in 1 .. Len(Series)
  /\ \A nw \in analysis.noWick : \A z \in ToSet(nw.zones) : z.state \in BodyZoneStates
  /\ \A x \in setups : x.state \in ReversalStates

(***************************************************************************)
(* Structure.                                                              *)
(***************************************************************************)
Watched(level, kind) == Targets(level, kind) \cup Protected(level, kind)

\* structure/engine.py: no level that is still watched is behind the last
\* close, so that no candle ever closes through both sides; a swing is broken
\* once; and the trend is the direction of the last BOS or MSS, which the
\* no-wick engine works out for itself from the events.
StructureHolds ==
  TypeOK /\ \A st \in analysis.structure : \A level \in {LevelsShown(st.internal), LevelsShown(st.external)} :
    /\ \A kind \in Directions : \A w \in Watched(level, kind) : Along(kind, Series[Len(Series)].close) <= w.price
    /\ \A k \in DOMAIN level.events : ~level.events[k].ambiguous
    /\ \A j, k \in DOMAIN level.events :
         level.events[j].swing = level.events[k].swing /\ j < k =>
           level.events[j].status = "POTENTIAL" /\ level.events[k].status = "CONFIRMED"
    /\ level.trend = TrendAt(level.events, Len(Series))
    /\ \A kind \in Directions : level.protected[kind] # {} => level.trend = Against(kind)

(***************************************************************************)
(* Liquidity.                                                              *)
(***************************************************************************)
Traded(p) == \E i \in p.known + 1 .. Len(Series) : Reach(p.side, Series[i]) > p.price
Members(l, p) == {m \in ToSet(l.pools) : m.id \in p.members}

\* liquidity/engine.py: a pool is taken exactly when a candle has traded beyond
\* its price since it became known; an equal pool stands at its outermost
\* member and is taken with it.
PoolsAreTrue ==
  \A l \in analysis.liquidity : \A p \in ToSet(l.pools) :
    /\ p.type # "EQUAL" => (Untaken(p) <=> ~Traded(p))
    /\ p.type = "EQUAL" =>
         /\ Cardinality(Members(l, p)) = Cardinality(p.members)
         /\ \E m \in Members(l, p) : m.price = p.price /\ (Untaken(p) <=> Untaken(m))
         /\ \A m \in Members(l, p) : m.price <= p.price /\ (m.scope = "EXTERNAL" => p.scope = "EXTERNAL")

(***************************************************************************)
(* PD arrays.                                                              *)
(***************************************************************************)
Candles(from) == {Series[i] : i \in from .. Len(Series)}

\* pd_arrays/fvg.py: no candle has closed through a zone that can be used, an
\* inverted gap comes from the candle that ended its gap and is confirmed in
\* its window, and a reversal gap from a candle that ended a confirmed one.
ZonesAreHonest ==
  \A pd \in analysis.pd : \A k \in DOMAIN pd.zones :
    LET z == pd.zones[k]
    IN  /\ Valid(z) => \A c \in Candles(z.made + 1) : ~Through(z, c)
        /\ z.state = "FULL" => \E c \in Candles(z.from) : Rear(z.direction, c) <= Far(z)
        /\ z.parent # 0 =>
             /\ pd.zones[z.parent].ended = z.made /\ pd.zones[z.parent].direction = Against(z.direction)
             /\ z.type = "REVERSAL_FVG" => pd.zones[z.parent].status = "CONFIRMED_IFVG"
        /\ z.status = "CONFIRMED_IFVG" => z.from - 1 \in z.made + 1 .. z.made + ConfirmWindow

(***************************************************************************)
(* The past.                                                               *)
(***************************************************************************)
Healthy(x) == x.structure # {} /\ x.liquidity # {} /\ x.pd # {} /\ x.noWick # {}
It(set) == CHOOSE x \in set : TRUE
Cut(event) == [at |-> event.at, direction |-> event.direction, shape |-> event.shape, strength |-> event.strength]

EventsOf(l, p) == SelectSeq(l.events, LAMBDA e : e.pool = p.id)

EnginesKeep(old, new) ==
  /\ IsPrefix(LevelsShown(It(old.structure).internal).events, LevelsShown(It(new.structure).internal).events)
  /\ IsPrefix(LevelsShown(It(old.structure).external).events, LevelsShown(It(new.structure).external).events)
  /\ IsPrefix(It(old.pd).displacements, It(new.pd).displacements)
  /\ IsPrefix(It(old.pd).events, It(new.pd).events)
  /\ It(old.pd).imrs \subseteq It(new.pd).imrs
  /\ IsPrefix([k \in DOMAIN It(old.noWick).events |-> Cut(It(old.noWick).events[k])],
              [k \in DOMAIN It(new.noWick).events |-> Cut(It(new.noWick).events[k])])
  /\ IsPrefix(It(old.noWick).zoneEvents, It(new.noWick).zoneEvents)
  /\ \A p \in ToSet(It(old.liquidity).pools) : \A q \in ToSet(It(new.liquidity).pools) :
       q.id = p.id => IsPrefix(EventsOf(It(old.liquidity), p), EventsOf(It(new.liquidity), q))

SessionsKeep(old, new) ==
  /\ {i \in old.instances : i.state \in {"COMPLETE", "INCOMPLETE"}} \subseteq new.instances
  /\ {j \in old.judas : j.swing.status # "CANDIDATE"} \subseteq new.judas
  /\ \A j \in old.judas : \E k \in new.judas :
       /\ k.session = j.session /\ k.day = j.day
       /\ k.swing.direction = j.swing.direction /\ k.swing.extreme = j.swing.extreme
  /\ old.sweeps \subseteq new.sweeps

\* Every engine: what was told of a candle stays told.  When another candle
\* closes, structure, displacement, gap and no-wick events are only added to,
\* and so are the events of a liquidity pool that is still there; a session
\* that has ended, a Judas swing that is resolved and a raid stay as they are.
PastIsKept ==
  [][/\ Healthy(analysis) /\ Healthy(analysis') => EnginesKeep(analysis, analysis')
     /\ SessionsKeep(sessions, sessions')]_vars

(***************************************************************************)
(* The pipeline.                                                           *)
(***************************************************************************)
Evaluated(level) == \A k \in DOMAIN level.events :
  [liquidity |-> level.events[k].liquidity # "NOT_EVALUATED", displacement |-> level.events[k].displacement # "NOT_EVALUATED"]
    = [liquidity |-> analysis.liquidity # {}, displacement |-> analysis.pd # {}]

\* analysis/pipeline.py: a stage that fails withholds its own result and makes
\* it ineligible, leaves the results of the others as they would be, and is
\* told from one that ran and found nothing.
FailureIsContained ==
  \A whole \in {RunPipeline(feed, [weather EXCEPT !.failing = {}])} :
      weather.failing # {} /\ analysis.structure # {} =>
        /\ "PD_ARRAY" \notin weather.failing => analysis.pd = whole.pd /\ analysis.reasons.pd = whole.reasons.pd
        /\ "LIQUIDITY" \notin weather.failing => analysis.liquidity = whole.liquidity /\ analysis.draw = whole.draw
        /\ "LIQUIDITY" \in weather.failing => analysis.draw = {} /\ analysis.reasons.liquidity # {}
        /\ "PD_ARRAY" \in weather.failing => analysis.reasons.pd # {}
        /\ \A nw \in analysis.noWick : \A w \in whole.noWick :
             [k \in DOMAIN nw.events |-> Cut(nw.events[k])] = [k \in DOMAIN w.events |-> Cut(w.events[k])]
        /\ \A st \in analysis.structure : Evaluated(st.internal) /\ Evaluated(st.external)

(***************************************************************************)
(* Reversals.                                                              *)
(***************************************************************************)
\* reversal/engine.py: no plan is lost or won as it is made.  Its target lies beyond
\* its entry; and its entry lies ahead of the origin's far edge, behind which the
\* stop stands, whenever a gap or a rebalance left by the turn itself confirms it.
\* An inverted gap need only meet the origin's body: its middle, where nothing else
\* confirms, may lie beyond the far edge (README, section 6).
PlansAreSound ==
  \A x \in setups : x.armed # 0 =>
    /\ \A price \in x.plan.target : 2 * price > Along(x.origin.direction, x.plan.entry)
    /\ \/ Along(x.origin.direction, x.plan.entry) > 2 * FarEdge(x.origin)
       \/ \A z \in x.plan.zones : z.kind = "IFVG_FLIP" /\ OverlapsOrigin(x.origin, z)

\* "Candle-sequential, no lookahead": what was told of a setup stays told.
ReversalsAreKept ==
  [][\A x \in setups : \A y \in setups' : x.origin = y.origin => IsPrefix(x.trail, y.trail)]_vars
=============================================================================
