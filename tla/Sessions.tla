------------------------------ MODULE Sessions ------------------------------
(***************************************************************************)
(* Trading sessions, the levels they and the closed days and weeks leave   *)
(* behind, Judas swings and one-move sweeps (sessions/levels.py, judas.py, *)
(* sweep_confluence.py, adr.py, clock.py, liquidity/key_levels.py).        *)
(*                                                                         *)
(* A feed is a sequence of slots, each <<candle>> or <<>> where no candle  *)
(* came; slot t is the time from t - 1 to t, day d the DayLength slots     *)
(* after time d * DayLength, week w the WeekLength days after day          *)
(* w * WeekLength.  The market is open in every slot.                      *)
(***************************************************************************)
EXTENDS Swings

CONSTANTS DayLength, WeekLength, Windows, KillZones, TimeQuality, Outside, Qualities,
          Days, Weeks, PoolSessions, PoolInstances, JudasSessions,
          RangeLookback, RangeLeast, RangeBounds, AdrDays, ExpansionBounds, Midnight

ASSUME SessionAssumption ==
  /\ {DayLength, WeekLength, PoolInstances, AdrDays} \subseteq Nat \ {0}
  /\ {Days, Weeks, RangeLookback, RangeLeast, Midnight} \subseteq Nat
  /\ RangeBounds \in Seq(Nat) /\ ExpansionBounds \in Seq(Nat)
  /\ \A name \in DOMAIN Windows : Windows[name].from < Windows[name].to /\ Windows[name].to <= DayLength

DayOf(time) == time \div DayLength
DayStart(day) == day * DayLength
WeekOf(day) == day \div WeekLength

Filled(feed) == {t \in DOMAIN feed : feed[t] # <<>>}
AsOf(feed) == Max({0} \cup Filled(feed))
ClosedOf(feed) == FlattenSeq(feed)

(* The number of closed candles at a time: the index of the last of them.  *)
IndexAt(feed, time) == Cardinality({t \in Filled(feed) : t <= time})

HighOf(feed, slots) == Max({feed[t][1].high : t \in slots})
LowOf(feed, slots) == Min({feed[t][1].low : t \in slots})

(***************************************************************************)
(* Session instances.  Levels are sets, empty while there is no candle.    *)
(***************************************************************************)
Slots(start, end) == start + 1 .. end
Inside(feed, start, end) == Slots(start, end) \cap Filled(feed)

InstanceState(feed, start, end) ==
  CASE AsOf(feed) <= start -> "NOT_STARTED"
    [] start < AsOf(feed) /\ AsOf(feed) < end -> "FORMING"
    [] OTHER -> IF Slots(start, end) \subseteq Filled(feed) THEN "COMPLETE" ELSE "INCOMPLETE"

Instance(feed, name, day) ==
  LET start  == DayStart(day) + Windows[name].from
      end    == DayStart(day) + Windows[name].to
      inside == Inside(feed, start, end)
  IN  [session |-> name, day |-> day, start |-> start, end |-> end, state |-> InstanceState(feed, start, end),
       high |-> IF inside = {} THEN {} ELSE {HighOf(feed, inside)},
       low |-> IF inside = {} THEN {} ELSE {LowOf(feed, inside)}]

DaysSeen(feed) == {DayOf(t - 1) : t \in Filled(feed)} \cup (IF Filled(feed) = {} THEN {} ELSE {DayOf(AsOf(feed))})

Instances(feed) ==
  {i \in {Instance(feed, name, day) : name \in DOMAIN Windows, day \in DaysSeen(feed)} :
     i.state = "NOT_STARTED" => i.day = DayOf(AsOf(feed))}

CompleteOf(instances, name) == {i \in instances : i.session = name /\ i.state = "COMPLETE"}
Width(i) == (CHOOSE x \in i.high : TRUE) - (CHOOSE x \in i.low : TRUE)

(* The last of some instances of one session, oldest first.                *)
LastOf(instances, most) ==
  {i \in instances : Cardinality({j \in instances : j.start > i.start}) < most}

PreviousSession(instances) ==
  LET done == {i \in instances : i.state = "COMPLETE"}
  IN  {i \in done : \A j \in done : j.end < i.end \/ (j.end = i.end /\ j.start <= i.start)}

(* A percentage falls in the first band whose bound it is below.           *)
Band(num, den, bounds) == Cardinality({k \in DOMAIN bounds : num >= bounds[k] * den})

AsianRange(instances, i) ==
  LET earlier == {j \in CompleteOf(instances, "ASIA") : j.start < i.start}
      window  == LastOf(earlier, RangeLookback)
      total   == MapThenSumSet(Width, window)
  IN  IF i \in CompleteOf(instances, "ASIA") /\ Cardinality(window) >= RangeLeast /\ total > 0
      THEN {Band(Width(i) * Cardinality(window) * 100, total, RangeBounds)} ELSE {}

(***************************************************************************)
(* Levels for liquidity pools, known from the close that proves them.      *)
(***************************************************************************)
Level(type, side, price, period, known) ==
  [type |-> type, side |-> side, price |-> price, period |-> period, known |-> known]

Pair(type, high, low, period, known) ==
  <<Level(type, "BULLISH", high, period, known), Level(type, "BEARISH", low, period, known)>>

InTimeOrder(instances) ==
  FlattenSeq([t \in 1 .. Max({0} \cup {i.end : i \in instances}) |-> SetToSeq({i \in instances : i.end = t})])

SessionLevels(feed, instances) ==
  LET done == UNION {LastOf(CompleteOf(instances, name), PoolInstances) : name \in PoolSessions}
      rows == InTimeOrder(done)
  IN  FlattenSeq([k \in DOMAIN rows |->
        Pair("SESSION", CHOOSE x \in rows[k].high : TRUE, CHOOSE x \in rows[k].low : TRUE,
             rows[k].start, IndexAt(feed, rows[k].end))])

DaySlots(feed, day) == Inside(feed, DayStart(day), DayStart(day + 1))
ClosedDays(feed) == {day \in DaysSeen(feed) : DayStart(day + 1) <= AsOf(feed) /\ DaySlots(feed, day) # {}}

DayLevels(feed, day) ==
  Pair("DAY", HighOf(feed, DaySlots(feed, day)), LowOf(feed, DaySlots(feed, day)), day,
       IndexAt(feed, DayStart(day + 1)))

(* A week is complete with its last day, or once a day of a later week has *)
(* closed.                                                                 *)
ProvenBy(days, week) ==
  LET own   == {day \in days : WeekOf(day) = week}
      later == {day \in days : WeekOf(day) > week}
  IN  IF Max(own) % WeekLength = WeekLength - 1 THEN {Max(own)} ELSE IF later # {} THEN {Min(later)} ELSE {}

WeekLevels(feed, days, week) ==
  LET slots == UNION {DaySlots(feed, day) : day \in {day \in days : WeekOf(day) = week}}
  IN  Pair("WEEK", HighOf(feed, slots), LowOf(feed, slots), week,
           IndexAt(feed, DayStart(Max(ProvenBy(days, week)) + 1)))

Latest(numbers, most) == {n \in numbers : Cardinality({m \in numbers : m > n}) < most}
Ascending(numbers) == SelectSeq([n \in 1 .. Max({0} \cup numbers) + 1 |-> n - 1], LAMBDA n : n \in numbers)

KeyLevels(feed) ==
  LET days  == ClosedDays(feed)
      shown == Ascending(Latest(days, Days))
      weeks == {week \in {WeekOf(day) : day \in days} : ProvenBy(days, week) # {}}
      kept  == Ascending(Latest(weeks, Weeks))
  IN  FlattenSeq([k \in DOMAIN shown |-> DayLevels(feed, shown[k])])
      \o FlattenSeq([k \in DOMAIN kept |-> WeekLevels(feed, days, kept[k])])

(***************************************************************************)
(* Judas swings against the complete Asian range of the same day.          *)
(***************************************************************************)
NoJudas == [status |-> "NONE", direction |-> "NONE", extreme |-> 0, resolved |-> 0]

(* The first candle beyond the range: a fake move, or a decision.          *)
Sweeps(swing, c, high, low) ==
  CASE c.high <= high /\ c.low >= low -> swing
    [] c.high > high /\ c.low >= low /\ c.close <= high ->
         [swing EXCEPT !.status = "CANDIDATE", !.direction = "BEARISH", !.extreme = Along("BEARISH", c.high)]
    [] c.low < low /\ c.high <= high /\ c.close >= low ->
         [swing EXCEPT !.status = "CANDIDATE", !.direction = "BULLISH", !.extreme = Along("BULLISH", c.low)]
    [] OTHER -> [swing EXCEPT !.status = "DECIDED"]

Settles(swing, c, high, low, t) ==
  CASE Along(swing.direction, c.close) < swing.extreme -> [swing EXCEPT !.status = "FAILED", !.resolved = t]
    [] Along(swing.direction, c.close) >= swing.extreme
         /\ 2 * Along(swing.direction, c.close) > Along(swing.direction, high + low) ->
         [swing EXCEPT !.status = "CONFIRMED", !.resolved = t]
    [] OTHER -> swing

JudasStep(swing, c, high, low, t) ==
  CASE swing.status = "NONE" -> Sweeps(swing, c, high, low)
    [] swing.status = "CANDIDATE" -> Settles(swing, c, high, low, t)
    [] OTHER -> swing

Scan(feed, i, high, low) ==
  FoldLeftDomain(LAMBDA swing, t : IF t \in Inside(feed, i.start, i.end)
                                   THEN JudasStep(swing, feed[t][1], high, low, t) ELSE swing, NoJudas, feed)

Ended(swing, i, asOf) ==
  IF swing.status = "CANDIDATE" /\ asOf >= i.end THEN [swing EXCEPT !.status = "FAILED", !.resolved = i.end] ELSE swing

(* The Asian range an instance is judged by, if it was complete before.    *)
AsiaBefore(instances, i) == {a \in CompleteOf(instances, "ASIA") : a.day = i.day /\ a.end <= i.start}

Judas(feed, instances) ==
  {j \in {[session |-> i.session, day |-> i.day,
           swing |-> Ended(Scan(feed, i, CHOOSE x \in a.high : TRUE, CHOOSE x \in a.low : TRUE), i, AsOf(feed))] :
            <<i, a>> \in {<<i, a>> \in instances \X CompleteOf(instances, "ASIA") :
                            i.session \in JudasSessions /\ i.state # "NOT_STARTED" /\ a \in AsiaBefore(instances, i)}} :
     j.swing.status \in {"CANDIDATE", "CONFIRMED", "FAILED"}}

(***************************************************************************)
(* One New York candle that takes the London and the Asian extreme after   *)
(* London held inside the Asian one.  The first session of a day counts.   *)
(***************************************************************************)
NewYork == {"NY_AM", "NY_PM"}

Spans(c, asia, london, side) ==
  LET outer == Along(side, CHOOSE x \in (IF side = "BULLISH" THEN asia.high ELSE asia.low) : TRUE)
      inner == Along(side, CHOOSE x \in (IF side = "BULLISH" THEN london.high ELSE london.low) : TRUE)
  IN  inner < outer /\ Rear(side, c) <= inner /\ Reach(side, c) >= outer

Raids(feed, i, asia, london) ==
  {[at |-> t, side |-> side] : <<t, side>> \in
     {<<t, side>> \in Inside(feed, i.start, i.end) \X Directions : Spans(feed[t][1], asia, london, side)}}

(* The first raid of a window, the lows before the highs on one candle.    *)
FirstRaid(raids) ==
  {r \in raids : \A o \in raids : r.at < o.at \/ (r.at = o.at /\ (r.side = "BEARISH" \/ r = o))}

SweepConfluences(feed, instances) ==
  LET raids == UNION {{[session |-> i.session, day |-> i.day, start |-> i.start, side |-> r.side, at |-> r.at] :
                         r \in FirstRaid(Raids(feed, i, asia, london))} :
                      <<i, asia, london>> \in
                        {<<i, asia, london>> \in instances \X CompleteOf(instances, "ASIA") \X CompleteOf(instances, "LONDON") :
                           /\ i.session \in NewYork /\ i.state # "NOT_STARTED"
                           /\ asia.day = i.day /\ london.day = i.day /\ london.end <= i.start}}
  IN  {r \in raids : \A o \in raids : o.day = r.day /\ o.side = r.side => o.start >= r.start}

(***************************************************************************)
(* Opens, the average daily range and the quality of a time.               *)
(***************************************************************************)
OpenAt(feed, time) == IF time + 1 \in Filled(feed) THEN {feed[time + 1][1].open} ELSE {}

Opens(feed) ==
  LET day == DayOf(AsOf(feed) - 1)
  IN  IF Filled(feed) = {} THEN [daily |-> {}, midnight |-> {}, weekly |-> {}]
      ELSE [daily |-> OpenAt(feed, DayStart(day)), midnight |-> OpenAt(feed, DayStart(day) + Midnight),
            weekly |-> OpenAt(feed, DayStart(WeekOf(day) * WeekLength))]

Expansion(feed) ==
  LET day   == DayOf(AsOf(feed) - 1)
      prior == Latest({d \in ClosedDays(feed) : d < day}, AdrDays)
      total == MapThenSumSet(LAMBDA d : HighOf(feed, DaySlots(feed, d)) - LowOf(feed, DaySlots(feed, d)), prior)
      today == DaySlots(feed, day)
  IN  IF Filled(feed) = {} \/ Cardinality(prior) < AdrDays \/ total = 0 THEN {}
      ELSE {Band((HighOf(feed, today) - LowOf(feed, today)) * AdrDays * 100, total, ExpansionBounds)}

ActiveAt(windows, time) ==
  {name \in DOMAIN windows : time - DayStart(DayOf(time)) \in windows[name].from .. windows[name].to - 1}

QualityAt(time) ==
  LET names == (ActiveAt(Windows, time) \cup ActiveAt(KillZones, time)) \cap DOMAIN TimeQuality
      ranks == {SelectInSeq(Qualities, LAMBDA q : q = TimeQuality[name]) : name \in names}
  IN  IF names = {} THEN Outside ELSE Qualities[Max(ranks)]

Exhausted == Len(ExpansionBounds)
Downgrade(quality) ==
  Qualities[Max({1, SelectInSeq(Qualities, LAMBDA q : q = quality) - 1})]

SessionQuality(feed) ==
  IF Expansion(feed) = {Exhausted} THEN Downgrade(QualityAt(AsOf(feed))) ELSE QualityAt(AsOf(feed))

AnalyzeSessions(feed) ==
  LET instances == Instances(feed)
  IN  [instances |-> instances, previous |-> PreviousSession(instances),
       ranges |-> [i \in CompleteOf(instances, "ASIA") |-> AsianRange(instances, i)],
       opens |-> Opens(feed), expansion |-> Expansion(feed), quality |-> SessionQuality(feed),
       judas |-> Judas(feed, instances), sweeps |-> SweepConfluences(feed, instances)]
=============================================================================
