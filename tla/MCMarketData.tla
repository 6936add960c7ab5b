---------------------------- MODULE MCMarketData -----------------------------
(* The provider and the series built from it, for TLC.                     *)
EXTENDS MarketData

Live(tf, limit) == [tf |-> tf, limit |-> limit, past |-> Nothing]
Past(tf, limit, at) == [tf |-> tf, limit |-> limit, past |-> at]

Broker == [missing |-> {}, faulty |-> {}, doubled |-> {}, repeated |-> {}, renewable |-> TRUE]
LoggedIn == [expires |-> 99, renewable |-> TRUE]
Scene(from, until, read, in, loads, n, warmer) ==
  Broker @@ [start |-> from, until |-> until, read |-> read, loads |-> loads, faults |-> n, token |-> in, warmer |-> warmer]

(* Loads of several timeframes and instants share one cache.               *)
Mixed(read, loads, n) == Scene(13, 16, read, LoggedIn, loads, n, FALSE)
Outage(loads) == Scene(12, 18, 12, LoggedIn, loads, 4, FALSE)
Once(loads) == Scene(16, 17, Nothing, LoggedIn, loads, 0, FALSE)
Glitches ==
  {[Once(<<Live("H1", 3), Live("D1", 2)>>) EXCEPT !.missing = {3}], [Once(<<Live("D1", 1), Live("W1", 1)>>) EXCEPT !.missing = {4}],
   [Once(<<Live("H1", 3)>>) EXCEPT !.faulty = {4}], [Once(<<Live("H1", 3)>>) EXCEPT !.doubled = {3}],
   [Once(<<Live("H1", 3)>>) EXCEPT !.doubled = {3}, !.repeated = {4, 5}],
   [Once(<<Live("W1", 2), Live("H1", 3)>>) EXCEPT !.repeated = {3}],
   [Once(<<Live("H1", 3)>>) EXCEPT !.missing = {4, 5}], [Once(<<Live("H1", 1)>>) EXCEPT !.missing = 0 .. 9]}

(* The first login, a token that runs out, and failures meanwhile.         *)
Starting(loads, n) == Scene(15, 16, Nothing, Nothing, loads, n, TRUE)
Expiring(renewable) ==
  [Scene(13, 15, 13, [expires |-> 15, renewable |-> renewable], <<Live("H1", 2)>>, 1, TRUE) EXCEPT !.renewable = renewable]

MCScenes ==
  {Mixed(13, <<Live("H1", 2), Live("D1", 1)>>, 1), Mixed(Nothing, <<Live("H1", 2), Past("H1", 2, 7), Live("H1", 1)>>, 0),
   Mixed(5, <<Live("H1", 1), Past("D1", 1, 12)>>, 1), Outage(<<Live("H1", 2)>>),
   Starting(<<>>, 3), Starting(<<Live("H1", 2)>>, 1), Expiring(TRUE), Expiring(FALSE)} \cup Glitches
(* The broker fails once, while the service starts.                        *)
OneFailure == {[Starting(<<>>, 1) EXCEPT !.until = 26]}
=============================================================================
