------------------------------ MODULE MacroBias -----------------------------
(***************************************************************************)
(* The macro assessment (services/macro/engine.py and service.py) in       *)
(* integers: a z-score is compared by its square, a score is a fraction,   *)
(* and weights, thresholds and changes are in hundredths.  A series is a   *)
(* sequence of [day, value] in order of days; an input is                  *)
(*   failed     the provider gave no snapshot,                             *)
(*   synthetic  what the snapshot says of itself,                          *)
(*   series     its series, a function of their ids,                       *)
(*   closes     the market's daily closes, <<>> when they cannot be had,   *)
(*   releases   of the calendar: keyword and surprise (by their sign), how *)
(*              many hours ago, whether important and released,            *)
(*   today.                                                                *)
(***************************************************************************)
EXTENDS Integers, SequencesExt

CONSTANTS
  Nothing,
  Drivers,             \* of the market: series, relationship, weight, fallback
  Required,            \* series without which nothing is said
  Correlated,          \* correlation.series
  Lookback, Volatility, MinObservations, FlatZ, MaxAge,
  Matching, MinAbs,    \* correlation.observations and minAbs
  Inverted,            \* invertedWeightFactor
  Surprise, Hours,     \* surprise.weight and lookbackHours
  Supportive, Strongly \* thresholds

(* Of(x), with x computed once.                                            *)
Once(Of(_), x) == CHOOSE y \in {Of(z) : z \in {x}} : TRUE

Total(numbers) == FoldLeft(LAMBDA sum, x : sum + x, 0, numbers)
Squares(numbers) == Total([i \in DOMAIN numbers |-> numbers[i] * numbers[i]])
Newest(seq, n) == SubSeq(seq, IF Len(seq) > n THEN Len(seq) - n + 1 ELSE 1, Len(seq))
Sign(x) == IF x > 0 THEN 1 ELSE IF x < 0 THEN -1 ELSE 0

(* trend: the direction of the last change, FLAT within FlatZ deviations.  *)
Direction(series) ==
  LET n      == Len(series)
      change == series[n].value - series[n - Lookback].value
      steps  == Newest([i \in 1 .. n - 1 |-> series[i + 1].value - series[i].value], Volatility)
      k      == Len(steps)
      spread == k * Squares(steps) - Total(steps) * Total(steps)    \* k * k times the variance
  IN  IF k > 1 /\ spread > 0 /\ (100 * change * k) * (100 * change * k) <= FlatZ * FlatZ * Lookback * spread
        THEN 0 ELSE Sign(change)

Stale(series, today) == today - series[Len(series)].day > MaxAge

LongEnough(m) == {id \in DOMAIN m.series : Len(m.series[id]) >= MinObservations}

UsableSeries(m) == {id \in LongEnough(m) : ~Stale(m.series[id], m.today)}

-----------------------------------------------------------------------------
(* correlation: daily changes of the market and of a series, on the days   *)
(* both have.                                                              *)
Changes(closes, series) ==
  LET On(day) == {c \in Range(closes) : c.day = day}
      both    == SelectSeq(series, LAMBDA o : On(o.day) # {})
      Close(o) == (CHOOSE c \in On(o.day) : TRUE).value
      pairs   == IF both = <<>> THEN <<>> ELSE [i \in 1 .. Len(both) - 1 |-> <<both[i], both[i + 1]>>]
      fit     == SelectSeq(pairs, LAMBDA p : Close(p[1]) > 0 /\ p[1].value # 0)
      Change(old, new) == (100 * (new - old)) \div old
  IN  [i \in DOMAIN fit |-> <<Change(Close(fit[i][1]), Close(fit[i][2])), Change(fit[i][1].value, fit[i][2].value)>>]

(* By the covariance and variances, each n * n times what it is.           *)
RegimeOf(X, Y, relationship) ==
  LET n    == Len(X)
      cov  == n * Total([i \in DOMAIN X |-> X[i] * Y[i]]) - Total(X) * Total(Y)
      varX == n * Squares(X) - Total(X) * Total(X)
      varY == n * Squares(Y) - Total(Y) * Total(Y)
  IN  IF n < Matching \/ n < 3 \/ varX = 0 \/ varY = 0 THEN "UNAVAILABLE"
      ELSE IF (100 * cov) * (100 * cov) < (MinAbs * varX) * (MinAbs * varY) THEN "WEAK"
      ELSE IF cov * relationship > 0 THEN "ALIGNED" ELSE "INVERTED"

Regime(closes, series, relationship) ==
  Once(LAMBDA last : RegimeOf([i \in DOMAIN last |-> last[i][1]], [i \in DOMAIN last |-> last[i][2]], relationship),
       Newest(Changes(closes, series), Matching))

DriversOf(id) == {d \in Range(Drivers) : d.series = id}

Correlation(m) ==
  IF DriversOf(Correlated) = {} \/ Correlated \notin DOMAIN m.series THEN "UNAVAILABLE"
  ELSE Regime(m.closes, m.series[Correlated], (CHOOSE d \in DriversOf(Correlated) : TRUE).relationship)

(* surprise_sign: where the released surprises move the dollar.  A         *)
(* calendar that is synthetic or cannot be had supplies none.              *)
DollarMove(m, trusted) ==
  LET counted == SelectSeq(m.releases, LAMBDA e : e.released /\ e.important /\ 0 <= e.ago /\ e.ago <= Hours)
  IN  IF trusted THEN Sign(Total([i \in DOMAIN counted |-> counted[i].keyword * Sign(counted[i].surprise)])) ELSE 0

-----------------------------------------------------------------------------
(* assess.                                                                 *)
SeriesFor(driver, usable) ==
  IF driver.series \in usable THEN driver.series
  ELSE IF driver.fallback \in usable THEN driver.fallback ELSE Nothing

ContributionOf(driver, used, m) ==
  LET weight == driver.weight * (IF used = Correlated /\ Correlation(m) = "INVERTED" THEN Inverted ELSE 100)
  IN  IF used = Nothing THEN [weight |-> 0, points |-> 0]
      ELSE [weight |-> weight, points |-> Direction(m.series[used]) * driver.relationship * weight]

Contribution(driver, m) ==
  Once(LAMBDA used : ContributionOf(driver, used, m), SeriesFor(driver, UsableSeries(m)))

OfSurprise(move) ==
  IF move = 0 \/ DriversOf("DXY") = {} THEN <<>>
  ELSE <<[weight |-> 100 * Surprise,
          points |-> 100 * Surprise * move * (CHOOSE d \in DriversOf("DXY") : TRUE).relationship]>>

(* Mutant: a score at the threshold is not conflict yet.                   *)
HalfOpen(points, weight) ==
  IF 100 * points >= Strongly * weight THEN "STRONGLY_SUPPORTIVE"
  ELSE IF 100 * points >= Supportive * weight THEN "SUPPORTIVE"
  ELSE IF 100 * points >= -Supportive * weight THEN "NEUTRAL"
  ELSE IF 100 * points > -Strongly * weight THEN "CONFLICT" ELSE "STRONG_CONFLICT"

StateAt(points, weight) ==
  IF 100 * points >= Strongly * weight THEN "STRONGLY_SUPPORTIVE"
  ELSE IF 100 * points >= Supportive * weight THEN "SUPPORTIVE"
  ELSE IF 100 * points > -Supportive * weight THEN "NEUTRAL"
  ELSE IF 100 * points > -Strongly * weight THEN "CONFLICT" ELSE "STRONG_CONFLICT"

(* state_for: for a short the score counts with its other sign.            *)
StateFor(points, weight, side) ==
  IF side = "NONE" THEN "NONE"
  ELSE StateAt(IF side = "LONG" THEN points ELSE -points, weight)

Bias(points, weight) ==
  IF 100 * points >= Supportive * weight THEN "BULLISH"
  ELSE IF 100 * points <= -Supportive * weight THEN "BEARISH" ELSE "NEUTRAL"

Withheld(m, side) ==
  [available |-> FALSE, synthetic |-> ~m.failed /\ m.synthetic, side |-> side, bias |-> "UNAVAILABLE",
   state |-> IF side = "NONE" THEN "NONE" ELSE "UNAVAILABLE"]

Sum(m, trusted) ==
  FoldLeft(LAMBDA sum, p : [points |-> sum.points + p.points, weight |-> sum.weight + p.weight],
           [points |-> 0, weight |-> 0],
           [i \in DOMAIN Drivers |-> Contribution(Drivers[i], m)] \o OfSurprise(DollarMove(m, trusted)))

(* Nothing evaluated is a score of 0.                                      *)
Judged(m, side, sum) ==
  LET weight == IF sum.weight = 0 THEN 1 ELSE sum.weight
  IN  [available |-> TRUE, synthetic |-> m.synthetic, side |-> side,
       bias |-> Bias(sum.points, weight), state |-> StateFor(sum.points, weight, side)]

Judge(m, side, trusted) ==
  IF m.failed \/ Drivers = <<>> \/ ~(Required \subseteq UsableSeries(m)) THEN Withheld(m, side)
  ELSE Once(LAMBDA sum : Judged(m, side, sum), Sum(m, trusted))
=============================================================================
