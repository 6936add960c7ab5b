----------------------------- MODULE CandleSeries ----------------------------
(***************************************************************************)
(* From the bars a provider returns to a validated series: screening,      *)
(* duplicates, quality, and the higher timeframes built from it            *)
(* (candles/normalize.py, data_quality/, timeframes/).  Time is an integer *)
(* and slot k of a timeframe of length n covers [k * n, (k + 1) * n).  A   *)
(* bar's prices are abstracted to how much of its slot had been traded     *)
(* when they were read: Bar of it is all there is.                         *)
(***************************************************************************)
EXTENDS Integers, FiniteSets, Sequences, SequencesExt, FiniteSetsExt

CONSTANTS
  Bar,          \* length of a source bar
  DaySlots,     \* source bars to a derived bucket, derived buckets to a week
  WeekDays,
  NoMarket,     \* the source slots in which the market is closed
  LagGrace,     \* candleLag.graceSeconds
  CurrentMax,   \* candleLag.currentMaxMissingBars
  DelayedMax    \* candleLag.delayedMaxMissingBars

ASSUME SeriesAssumption ==
  /\ {Bar, DaySlots, WeekDays} \subseteq Nat \ {0}
  /\ {LagGrace, CurrentMax, DelayedMax} \subseteq Nat
  /\ CurrentMax <= DelayedMax

Ratio(tf) == CASE tf = "H1" -> 1 [] tf = "D1" -> DaySlots [] tf = "W1" -> DaySlots * WeekDays
Duration(tf) == Ratio(tf) * Bar

(* Best to worst: the worst of several is the one that counts.             *)
Qualities == <<"LIVE", "CURRENT", "DELAYED", "STALE", "DISCONNECTED", "INVALID">>
OnlyOutages == {"DISCONNECTED"}
Withheld == {"INVALID", "DISCONNECTED"}
Worst(qualities) ==
  IF qualities = {} THEN "INVALID" ELSE Qualities[Max({i \in DOMAIN Qualities : Qualities[i] \in qualities})]

MarketOpen(slot) == slot \notin NoMarket
InSlot(tf, slot) == (slot * Ratio(tf)) .. ((slot + 1) * Ratio(tf) - 1)
HasOpenMarket(tf, slot) == \E s \in InSlot(tf, slot) : MarketOpen(s)

(* expected_slots: after one slot, closed by an instant, with a market.    *)
ExpectedSlots(tf, after, until) ==
  {s \in (after + 1) .. (until \div Duration(tf)) : (s + 1) * Duration(tf) <= until /\ HasOpenMarket(tf, s)}

(***************************************************************************)
(* build_series.  A raw bar is [slot, seen, fault]: a bar that fails a     *)
(* screen (symbol, timeframe, time zone, alignment, prices) is faulty.     *)
(***************************************************************************)
Before(slots, slot) == {s \in slots : s < slot}
InOrder(slots) == [i \in 1 .. Cardinality(slots) |-> CHOOSE s \in slots : Cardinality(Before(slots, s)) = i - 1]

Copies(raw, slot) == {raw[i] : i \in {j \in DOMAIN raw : raw[j].slot = slot /\ ~raw[j].fault}}
Agree(copies) == Cardinality(copies) = 1

(* The bars that are kept, as a function of the slot, and what was wrong   *)
(* with the others.                                                        *)
Kept(raw) ==
  [s \in {x \in {raw[i].slot : i \in DOMAIN raw} : Agree(Copies(raw, x))} |-> (CHOOSE b \in Copies(raw, s) : TRUE).seen]

Issue(code, error, at) == [code |-> code, error |-> error, at |-> at]
Screened(raw) ==
  {Issue("SCREENED", TRUE, raw[i].slot) : i \in {j \in DOMAIN raw : raw[j].fault}}
  \cup {Issue("DUPLICATE_CONFLICT", TRUE, s) : s \in {raw[i].slot : i \in {j \in DOMAIN raw : Cardinality(Copies(raw, raw[j].slot)) > 1}}}

(* Of every gap the slots that are missing; the code reports them as one.  *)
MissingBars(slots) ==
  IF slots = {} THEN {}
  ELSE {Issue("MISSING_BARS", FALSE, s) : s \in ExpectedSlots("H1", Min(slots), Bar * Max(slots)) \ slots}

Future(slots, now) == {Issue("NON_UTC_TIMESTAMP", TRUE, s) : s \in {x \in slots : x * Bar > now}}
Empty(slots, screened) == IF slots = {} /\ \A i \in screened : ~i.error THEN {Issue("EMPTY_SERIES", TRUE, 0)} ELSE {}

Lag(missing) == CASE missing <= CurrentMax -> "CURRENT" [] missing \in (CurrentMax + 1) .. DelayedMax -> "DELAYED" [] OTHER -> "STALE"
Classify(closed, errors, now) ==
  IF errors \/ closed = {} THEN "INVALID" ELSE Lag(Cardinality(ExpectedSlots("H1", Max(closed), now - LagGrace)))

IsOver(slot, now) == (slot + 1) * Bar <= now
Candle(bars, slot, quality, now) ==
  [slot |-> slot, closed |-> IsOver(slot, now), quality |-> quality, parts |-> [p \in {slot} |-> bars[p]]]

Labelled(bars, order, issues, quality, now) ==
  [candles |-> [i \in DOMAIN order |-> Candle(bars, order[i], quality, now)], issues |-> issues, quality |-> quality]
Judged(bars, issues, now) ==
  Labelled(bars, InOrder(DOMAIN bars), issues,
           Classify({s \in DOMAIN bars : IsOver(s, now)}, \E i \in issues : i.error, now), now)
Checked(bars, screened, now) ==
  Judged(bars, screened \cup MissingBars(DOMAIN bars) \cup Future(DOMAIN bars, now) \cup Empty(DOMAIN bars, screened), now)

BuildSeries(raw, now) == Checked(Kept(raw), Screened(raw), now)

(***************************************************************************)
(* aggregate and aggregate_weekly: candles of one timeframe grouped into   *)
(* the slots of a higher one.  A bucket is closed only when every one of   *)
(* its slots that has a market is present and closed and it is over.       *)
(***************************************************************************)
Expected(from, ratio, slot) == {s \in (slot * ratio) .. ((slot + 1) * ratio - 1) : HasOpenMarket(from, s)}
Complete(members, expected) == expected \subseteq {c.slot : c \in members}

Bucket(slot, members, expected, over) ==
  [slot    |-> slot,
   closed  |-> Complete(members, expected) /\ (\A c \in members : c.closed) /\ over,
   whole   |-> Complete(members, expected),
   quality |-> Worst({c.quality : c \in members}),
   parts   |-> [p \in UNION {DOMAIN c.parts : c \in members} |-> (CHOOSE c \in members : p \in DOMAIN c.parts).parts[p]]]

Grouped(candles, from, to, ratio, order, now) ==
  [i \in DOMAIN order |->
     Bucket(order[i], {candles[j] : j \in {k \in DOMAIN candles : candles[k].slot \div ratio = order[i]}},
            Expected(from, ratio, order[i]), (order[i] + 1) * Duration(to) <= now)]

(* A bucket that is over and not whole is reported, so that gaps show.     *)
Aggregate(candles, from, to, now) ==
  LET ratio == Ratio(to) \div Ratio(from)
  IN  Grouped(candles, from, to, ratio, InOrder({candles[i].slot \div ratio : i \in DOMAIN candles}), now)
Incomplete(buckets, tf, now) ==
  {Issue("INCOMPLETE_BUCKET", FALSE, b.slot * Ratio(tf)) :
     b \in {buckets[i] : i \in {j \in DOMAIN buckets : ~buckets[j].whole /\ (buckets[j].slot + 1) * Duration(tf) <= now}}}

(* The derived series without its first bucket, which may start half way,  *)
(* and without what was reported of it.                                    *)
WithoutEdge(derived, issues, tf) ==
  IF Len(derived) <= 1 THEN [candles |-> derived, issues |-> issues]
  ELSE [candles |-> Tail(derived), issues |-> {i \in issues : i.at # derived[1].slot * Ratio(tf)}]

Onto(series, edged) ==
  [series EXCEPT !.candles = [i \in DOMAIN edged.candles |-> [edged.candles[i] EXCEPT !.quality = series.quality]],
                 !.issues = @ \cup edged.issues]

Weekly(days, weeks, now) == WithoutEdge(weeks, Incomplete(days, "D1", now) \cup Incomplete(weeks, "W1", now), "W1")
FromDays(series, days, tf, now) ==
  Onto(series, IF tf = "D1" THEN WithoutEdge(days, Incomplete(days, "D1", now), "D1")
               ELSE Weekly(days, Aggregate(days, "D1", "W1", now), now))
Derive(series, tf, now) == FromDays(series, Aggregate(series.candles, "H1", "D1", now), tf, now)
=============================================================================
