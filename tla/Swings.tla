------------------------------- MODULE Swings -------------------------------
(***************************************************************************)
(* Pivot swings and average true ranges of closed candles                  *)
(* (structure/swings.py, pd_arrays/displacement.py).  A candle is          *)
(* [open, high, low, close], a series a sequence of candles; an average is *)
(* a sum over a number of bars, compared without dividing, and a           *)
(* multiple of it is given in percent.                                     *)
(***************************************************************************)
EXTENDS Integers, FiniteSets, SequencesExt

CONSTANTS AtrPeriod, EqualTolerance

ASSUME AtrAssumption == AtrPeriod \in Nat \ {0} /\ EqualTolerance \in Nat

Directions == {"BULLISH", "BEARISH"}
Against(direction) == IF direction = "BULLISH" THEN "BEARISH" ELSE "BULLISH"

(* Prices seen from the side a direction moves to: what is further is      *)
(* greater.  Candle d's extreme, and a price between two candles.          *)
Along(direction, price) == IF direction = "BULLISH" THEN price ELSE -price
Reach(direction, c) == Along(direction, IF direction = "BULLISH" THEN c.high ELSE c.low)
Rear(direction, c) == Along(direction, IF direction = "BULLISH" THEN c.low ELSE c.high)

TrueRange(s, i) ==
  IF i = 1 THEN s[i].high - s[i].low
  ELSE Max({s[i].high, s[i - 1].close}) - Min({s[i].low, s[i - 1].close})

Atr(s, bars) == [sum |-> MapThenSumSet(LAMBDA j : TrueRange(s, j), bars), bars |-> Cardinality(bars)]
AtrAt(s, i) == Atr(s, {j \in 1 .. i : j > i - AtrPeriod})
AtrBefore(s, i) == Atr(s, {j \in 1 .. i - 1 : j >= i - AtrPeriod})

AtMost(size, percent, atr) == size * 100 * atr.bars <= percent * atr.sum
AtLeast(size, percent, atr) == size * 100 * atr.bars >= percent * atr.sum

(* The kind of a swing is the direction its break has: a swing high is     *)
(* broken by a bullish candle.                                             *)
Pivot(s, kind, i, length) ==
  /\ \A k \in i - length .. i - 1 : Reach(kind, s[i]) > Reach(kind, s[k])
  /\ \A k \in i + 1 .. i + length : Reach(kind, s[i]) >= Reach(kind, s[k])

Pivots(s, kind, length) == {i \in length + 1 .. Len(s) - length : Pivot(s, kind, i, length)}

(* HH, LH and EH of swing highs, LL, HL and EL of swing lows: further, not *)
(* as far, or level with the swing before it.                              *)
Label(ahead, level) == IF level THEN "EQUAL" ELSE IF ahead > 0 THEN "FURTHER" ELSE "SHORT"

Swing(s, kind, i, length, pivots) ==
  LET earlier == {j \in pivots : j < i}
      ahead   == Reach(kind, s[i]) - Reach(kind, s[Max(earlier)])
      size    == IF ahead > 0 THEN ahead ELSE -ahead
  IN  [kind |-> kind, at |-> i, confirmed |-> i + length, price |-> Reach(kind, s[i]),
       label |-> IF earlier = {} THEN "NONE"
                 ELSE Label(ahead, AtMost(size, EqualTolerance, AtrAt(s, i + length)))]

DetectSwings(s, length) ==
  UNION {LET pivots == Pivots(s, kind, length)
         IN  {Swing(s, kind, i, length, pivots) : i \in pivots} : kind \in Directions}
=============================================================================
