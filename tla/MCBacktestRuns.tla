--------------------------- MODULE MCBacktestRuns ---------------------------
(***************************************************************************)
(* BacktestRuns for TLC: two runs over a market where nothing is planned,  *)
(* for the life cycle, or one run over markets where plans are.            *)
(***************************************************************************)
EXTENDS BacktestRuns

CONSTANTS r1, r2

(* Bars around a long at 20 with stop 10 and target 30, half spread 1.     *)
Bars ==
  [quiet |-> <<25, 26, 24, 25>>,  dips |-> <<25, 25, 18, 21>>,  under |-> <<18, 21, 17, 20>>,
   drops |-> <<21, 22, 8, 9>>,    crash |-> <<9, 10, 8, 9>>,    rise |-> <<25, 32, 24, 31>>,
   jump  |-> <<33, 34, 32, 33>>,  wild |-> <<20, 33, 8, 20>>,
   swing |-> <<25, 34, 17, 30>>]

BarAt(name, at) ==
  [at |-> at, open |-> Bars[name][1], high |-> Bars[name][2], low |-> Bars[name][3], close |-> Bars[name][4]]

(* The same bar for a short: prices are mirrored at 20.                    *)
Mirror(bar) == [bar EXCEPT !.open = 40 - @, !.high = 40 - bar.low, !.low = 40 - bar.high, !.close = 40 - @]

Long(at)  == [side |-> 1, entry |-> 20, stop |-> 10, tp1 |-> 30, at |-> at]
Short(at) == [side |-> -1, entry |-> 20, stop |-> 30, tp1 |-> 10, at |-> at]

Setup(id, state, plan) == [id |-> id, state |-> state, plan |-> plan]
At(close, eligible, setups) == [close |-> close, eligible |-> eligible, setups |-> setups]

(* Bar 0 closes before the range and bar 9 after it.                       *)
Market(names, steps) ==
  [stored |-> {BarAt(names[i], i - 1) : i \in DOMAIN names}, start |-> 1, end |-> 9, steps |-> steps,
   costs |-> [half |-> 1, slip |-> 1, commission |-> 1], variants |-> <<1, 2>>, segments |-> 2, outOfSample |-> 6]

Quiet == [Market(<<"quiet", "quiet">>, <<At(2, TRUE, <<>>)>>) EXCEPT !.variants = <<1>>]

(* Bars, and no setup candle that closes in the range.                     *)
Empty == [Quiet EXCEPT !.steps = <<>>]

(* Candles 1-2, 3-4, 5-6, 7-8.  A plan of the first; one of the third, for *)
(* another setup, while the first is listed on.                            *)
TwoPlans(second) ==
  <<At(3, TRUE, <<Setup("a", "BLOCKED", Long(1))>>),
    At(5, TRUE, <<Setup("a", "BLOCKED", Long(1)), Setup("b", "WATCH", Nothing)>>),
    At(7, TRUE, <<Setup("a", "BLOCKED", Long(1)), Setup("b", "BLOCKED", second)>>)>>
(* A plan of a candle whose analysis could not be decided on, and two of   *)
(* one candle.                                                             *)
Missed ==
  <<At(3, FALSE, <<Setup("a", "BLOCKED", Long(1))>>),
    At(5, TRUE, <<Setup("a", "BLOCKED", Long(1)), Setup("b", "BLOCKED", Short(3)), Setup("c", "BLOCKED", Long(3))>>)>>

Around(names) == <<"wild">> \o <<"quiet", "quiet">> \o names \o <<"wild">>

Early == <<"quiet", "dips", "under", "drops", "crash", "wild", "swing">>

(* The bars of a range, named by two of them: the first order ends before  *)
(* the second plan; it is open until the end; it ends where a segment ends. *)
TwoOrders == Range(Early) \X {"dips", "drops"}
Overlapping == {"dips", "under"} \X {"wild"}
OnTheBound == {"dips", "under"} \X {"crash"}
TwoAtOnce == {"jump", "wild"} \X {"rise", "crash"}

Path(m) ==
  IF m \in TwoOrders THEN <<m[1], m[1], "jump", "under", m[2], "quiet">>
  ELSE IF m \in Overlapping THEN <<m[1], "quiet", "quiet", "quiet", "quiet", "drops">>
  ELSE IF m \in OnTheBound THEN <<m[1], "drops", "quiet", "quiet", "dips", "quiet">>
  ELSE <<"quiet", "quiet", m[1], "dips", m[2], "quiet">>

MCMarkets ==
  [m \in {<<"quiet", "quiet">>, <<"empty", "empty">>} \cup TwoOrders \cup Overlapping \cup OnTheBound \cup TwoAtOnce |->
     IF m = <<"quiet", "quiet">> THEN Quiet
     ELSE IF m = <<"empty", "empty">> THEN Empty
     ELSE Market(Around(Path(m)), IF m \in TwoAtOnce THEN Missed ELSE TwoPlans(Long(5)))]

(* With plans, r2 was drawn and given up before.                           *)
MCInit == Init /\ drawn = IF Len(market.steps) > 1 THEN {r2} ELSE {}
MCSpec == MCInit /\ [][Next]_vars /\ Fairness
=============================================================================
