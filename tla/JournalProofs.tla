---------------------------- MODULE JournalProofs ---------------------------
(***************************************************************************)
(* Proofs about Journal, for any number of requests and entries and every  *)
(* trade and outcome: that what is stored of an outcome adds up, that the  *)
(* journal implements the append-only ledger, and that what it replies,    *)
(* put together from several reads, is true.                               *)
(***************************************************************************)
EXTENDS Journal, FiniteSetTheorems, SequenceTheorems, WellFoundedInduction, TLAPS

-----------------------------------------------------------------------------
(* What the operators return.                                              *)

IsReport(r) ==
  /\ {r.exit, r.exited} \subseteq Int /\ {r.mfe, r.mae} \subseteq Int \cup {Nothing}
  /\ r.reported \subseteq Violations

AreLoads(loads) ==
  /\ DOMAIN loads \subseteq Nat
  /\ \A i \in DOMAIN loads : loads[i].is = "COVERS" => {loads[i].high, loads[i].low} \subseteq Int

LEMMA LeastOf ==
  ASSUME NEW S, S \subseteq Nat, S # {}
  PROVE  Min(S) \in S
<1>1. \E x \in S : \A y \in S : ~(<<y, x>> \in OpToRel(<, Nat))
  BY NatLessThanWellFounded, WFMin
<1>2. PICK x \in S : \A y \in S : ~(y < x)
  BY <1>1 DEF OpToRel
<1>3. \A y \in S : x =< y
  BY <1>2
<1> QED
  BY <1>2, <1>3 DEF Min

(* Four prices have a highest and a lowest.                                *)
LEMMA HighestOfFour ==
  ASSUME NEW a \in Int, NEW b \in Int, NEW c \in Int, NEW d \in Int
  PROVE  Max({a, b, c, d}) \in {a, b, c, d} /\ \A y \in {a, b, c, d} : Max({a, b, c, d}) >= y
<1> DEFINE S == {a, b, c, d}
<1>1. \A p, q \in Int : \E x \in {p, q} : x >= p /\ x >= q
  OBVIOUS
<1>2. \E x \in S : \A y \in S : x >= y
  <2>1. PICK x \in {a, b} : x >= a /\ x >= b
    BY <1>1
  <2>2. PICK y \in {c, d} : y >= c /\ y >= d
    BY <1>1
  <2>3. PICK z \in {x, y} : z >= x /\ z >= y
    BY <1>1
  <2> QED
    BY <2>1, <2>2, <2>3
<1> HIDE DEF S
<1>3. Max(S) \in S /\ \A y \in S : Max(S) >= y
  BY <1>2 DEF Max
<1> QED
  BY <1>3 DEF S

Below(x, S) == \A y \in S : x <= y

LEMMA LowestOfFour ==
  ASSUME NEW a \in Int, NEW b \in Int, NEW c \in Int, NEW d \in Int
  PROVE  Min({a, b, c, d}) \in {a, b, c, d} /\ Below(Min({a, b, c, d}), {a, b, c, d})
<1> DEFINE S == {a, b, c, d}
<1>1. \A p, q \in Int : \E x \in {p, q} : x <= p /\ x <= q
  OBVIOUS
<1>2. \E x \in S : \A y \in S : x <= y
  <2>1. PICK x \in {a, b} : x <= a /\ x <= b
    BY <1>1
  <2>2. PICK y \in {c, d} : y <= c /\ y <= d
    BY <1>1
  <2>3. PICK z \in {x, y} : z <= x /\ z <= y
    BY <1>1
  <2> QED
    BY <2>1, <2>2, <2>3
<1> HIDE DEF S
<1>3. Min(S) \in S /\ Below(Min(S), S)
  BY <1>2 DEF Min, Below
<1> QED
  BY <1>3 DEF S

(* The best of some prices gains at least what each of them does.          *)
LEMMA BestGains ==
  ASSUME NEW fill, IsTrade(fill), NEW a \in Int, NEW b \in Int, NEW c \in Int, NEW d \in Int
  PROVE  LET S == {a, b, c, d}
         IN  /\ Best(fill, S) \in Int /\ Worst(fill, S) \in Int
             /\ \A p \in S : Gain(fill, Best(fill, S)) >= Gain(fill, p) /\ Gain(fill, Worst(fill, S)) <= Gain(fill, p)
<1> DEFINE S == {a, b, c, d}
<1>0. Max(S) \in S /\ (\A y \in S : Max(S) >= y) /\ Min(S) \in S /\ (\A y \in S : Min(S) <= y)
  <2>1. Max(S) \in S /\ \A y \in S : Max(S) >= y
    BY HighestOfFour, Zenon
  <2>2. Min(S) \in S /\ Below(Min(S), S)
    BY LowestOfFour, Zenon
  <2> QED
    BY <2>1, <2>2 DEF Below
<1>1. /\ Max(S) \in Int /\ \A y \in S : Max(S) >= y
      /\ Min(S) \in Int /\ \A y \in S : Min(S) <= y
      /\ S \subseteq Int
  BY <1>0
<1> SUFFICES /\ Best(fill, S) \in Int /\ Worst(fill, S) \in Int
             /\ \A p \in S : Gain(fill, Best(fill, S)) >= Gain(fill, p) /\ Gain(fill, Worst(fill, S)) <= Gain(fill, p)
  OBVIOUS
<1> HIDE DEF S
<1>2. fill.entry \in Int /\ fill.direction \in {"BULLISH", "BEARISH"}
  BY DEF IsTrade, Directions
<1>3. CASE fill.direction = "BULLISH"
  <2>1. Best(fill, S) = Max(S) /\ Worst(fill, S) = Min(S)
    BY <1>3 DEF Best, Worst
  <2>2. \A p \in Int : Gain(fill, p) = p - fill.entry
    BY <1>2, <1>3 DEF Gain, Sign
  <2> QED
    BY <1>1, <1>2, <2>1, <2>2
<1>4. CASE fill.direction # "BULLISH"
  <2>1. Best(fill, S) = Min(S) /\ Worst(fill, S) = Max(S)
    BY <1>4 DEF Best, Worst
  <2>2. \A p \in Int : Gain(fill, p) = fill.entry - p
    BY <1>2, <1>4 DEF Gain, Sign
  <2> QED
    BY <1>1, <1>2, <2>1, <2>2
<1> QED
  BY <1>3, <1>4

LEMMA GainIs ==
  ASSUME NEW fill, IsTrade(fill)
  PROVE  (\A p \in Int : Gain(fill, p) \in Int) /\ Gain(fill, fill.entry) = 0
<1>1. fill.entry \in Int /\ Sign(fill.direction) \in {1, -1}
  BY DEF IsTrade, Sign
<1> QED
  BY <1>1 DEF Gain

(* What check_outcome lets through.                                        *)
Checked(fill, req) ==
  /\ req.exited > fill.opened
  /\ req.mfe # Nothing => Gain(fill, req.mfe) >= 0 /\ Gain(fill, req.mfe) >= Gain(fill, req.exit)
  /\ req.mae # Nothing => Gain(fill, req.mae) <= 0 /\ Gain(fill, req.mae) <= Gain(fill, req.exit)

LEMMA AcceptsChecks ==
  ASSUME NEW fill, IsTrade(fill), NEW req, IsReport(req), NEW at, Accepts(fill, req, at)
  PROVE  Checked(fill, req)
<1> DEFINE S == {fill.entry, req.exit}
<1>1. fill.entry \in Int /\ req.exit \in Int
  BY DEF IsTrade, IsReport
<1>2. S = {fill.entry, req.exit, req.exit, req.exit}
  OBVIOUS
<1>3. /\ Best(fill, S) \in Int /\ Worst(fill, S) \in Int
      /\ \A p \in S : Gain(fill, Best(fill, S)) >= Gain(fill, p) /\ Gain(fill, Worst(fill, S)) <= Gain(fill, p)
  BY <1>1, <1>2, BestGains
<1>4. /\ Gain(fill, Best(fill, S)) >= Gain(fill, fill.entry) /\ Gain(fill, Best(fill, S)) >= Gain(fill, req.exit)
      /\ Gain(fill, Worst(fill, S)) <= Gain(fill, fill.entry) /\ Gain(fill, Worst(fill, S)) <= Gain(fill, req.exit)
  BY <1>3
<1>5. /\ req.exited > fill.opened
      /\ req.mfe # Nothing => Gain(fill, req.mfe) >= Gain(fill, Best(fill, S))
      /\ req.mae # Nothing => Gain(fill, req.mae) <= Gain(fill, Worst(fill, S))
  BY DEF Accepts
<1>6. req.mfe # Nothing => Gain(fill, req.mfe) \in Int
  BY GainIs DEF IsReport
<1>7. req.mae # Nothing => Gain(fill, req.mae) \in Int
  BY GainIs DEF IsReport
<1> HIDE DEF S
<1>8. Gain(fill, Best(fill, S)) \in Int /\ Gain(fill, Worst(fill, S)) \in Int /\ Gain(fill, req.exit) \in Int
  BY <1>1, <1>3, GainIs
<1> QED
  BY <1>4, <1>5, <1>6, <1>7, <1>8, GainIs DEF Checked

(* The extremes of a trade enclose its entry and its exit, wherever they   *)
(* come from, or there are none.                                           *)
Enclose(fill, req, e) ==
  /\ {e.mfe, e.mae} \subseteq Int \cup {Nothing}
  /\ e.mfe # Nothing => Gain(fill, e.mfe) >= 0 /\ Gain(fill, e.mfe) >= Gain(fill, req.exit)
  /\ e.mae # Nothing => Gain(fill, e.mae) <= 0 /\ Gain(fill, e.mae) <= Gain(fill, req.exit)
  /\ e.source = "UNAVAILABLE" <=> e.mfe = Nothing
  /\ e.mfe = Nothing <=> e.mae = Nothing

LEMMA CandlesEnclose ==
  ASSUME NEW fill, IsTrade(fill), NEW req, IsReport(req), NEW loads, AreLoads(loads)
  PROVE  /\ Enclose(fill, req, CandleExtremes(fill, req, loads))
         /\ CandleExtremes(fill, req, loads).source # "UNAVAILABLE" =>
              \E m, n, s : CandleExtremes(fill, req, loads) = [mfe |-> m, mae |-> n, source |-> "CANDLES", synthetic |-> s]
<1> DEFINE tried == {i \in DOMAIN loads : loads[i].is # "TOO_LONG"}
           load == loads[Min(tried)]
           seen == {fill.entry, req.exit, load.high, load.low}
           e    == CandleExtremes(fill, req, loads)
           some == [mfe |-> Best(fill, seen), mae |-> Worst(fill, seen), source |-> "CANDLES", synthetic |-> load.synthetic]
<1>1. Unavailable = [mfe |-> Nothing, mae |-> Nothing, source |-> "UNAVAILABLE", synthetic |-> FALSE]
  BY DEF Unavailable
<1>2. Enclose(fill, req, Unavailable)
  BY <1>1 DEF Enclose
<1>3. ASSUME tried # {}, load.is = "COVERS" PROVE Enclose(fill, req, some)
  <2>1. Min(tried) \in DOMAIN loads
    <3>1. tried \subseteq Nat
      BY DEF AreLoads
    <3>2. Min(tried) \in tried
      BY <1>3, <3>1, LeastOf
    <3> QED
      BY <3>2
  <2>2. load.high \in Int /\ load.low \in Int
    BY <1>3, <2>1 DEF AreLoads
  <2> HIDE DEF load
  <2>3. fill.entry \in Int /\ req.exit \in Int
    BY DEF IsTrade, IsReport
  <2>4. /\ Best(fill, seen) \in Int /\ Worst(fill, seen) \in Int
        /\ \A p \in seen : Gain(fill, Best(fill, seen)) >= Gain(fill, p) /\ Gain(fill, Worst(fill, seen)) <= Gain(fill, p)
    BY <2>2, <2>3, BestGains, Zenon
  <2>5. fill.entry \in seen /\ req.exit \in seen
    OBVIOUS
  <2> HIDE DEF seen
  <2>6. Nothing \notin Int
    BY ScenesAssumption
  <2>7. Gain(fill, fill.entry) = 0
    BY GainIs
  <2> QED
    BY <2>4, <2>5, <2>6, <2>7 DEF Enclose
<1>4. e = IF req.exited - fill.opened > MaxOpen \/ tried = {} \/ load.is # "COVERS" THEN Unavailable ELSE some
  BY DEF CandleExtremes
<1>5. CASE e = Unavailable
  BY <1>1, <1>2, <1>5
<1>6. CASE tried # {} /\ load.is = "COVERS" /\ e = some
  BY <1>3, <1>6
<1> QED
  BY <1>4, <1>5, <1>6

LEMMA ExtremesEnclose ==
  ASSUME NEW fill, IsTrade(fill), NEW req, IsReport(req), Checked(fill, req), NEW loads, AreLoads(loads)
  PROVE  Enclose(fill, req, Extremes(fill, req, loads))
<1> DEFINE candles == CandleExtremes(fill, req, loads)
           manual == [mfe |-> req.mfe, mae |-> req.mae, source |-> "MANUAL", synthetic |-> FALSE]
           m == IF req.mfe = Nothing THEN candles.mfe ELSE req.mfe
           n == IF req.mae = Nothing THEN candles.mae ELSE req.mae
           mixed == [candles EXCEPT !.mfe = m, !.mae = n]
<1>1. Extremes(fill, req, loads)
        = IF req.mfe # Nothing /\ req.mae # Nothing THEN manual
          ELSE IF candles.source = "UNAVAILABLE" THEN candles ELSE mixed
  BY DEF Extremes
<1>2. /\ Enclose(fill, req, candles)
      /\ candles.source # "UNAVAILABLE" =>
           \E u, v, s : candles = [mfe |-> u, mae |-> v, source |-> "CANDLES", synthetic |-> s]
  BY CandlesEnclose
<1> HIDE DEF candles
<1>3. req.mfe # Nothing /\ req.mae # Nothing => Enclose(fill, req, manual)
  BY DEF Enclose, Checked, IsReport
<1>4. ASSUME candles.source # "UNAVAILABLE" PROVE Enclose(fill, req, mixed)
  <2>1. PICK u, v, s : candles = [mfe |-> u, mae |-> v, source |-> "CANDLES", synthetic |-> s]
    BY <1>2, <1>4
  <2> DEFINE one == [candles EXCEPT !.mfe = m]
  <2>2. mixed = [one EXCEPT !.mae = n]
    OBVIOUS
  <2> HIDE DEF m, n
  <2>3. one = [mfe |-> m, mae |-> v, source |-> "CANDLES", synthetic |-> s]
    BY <2>1
  <2> HIDE DEF one
  <2>4. mixed = [mfe |-> m, mae |-> n, source |-> "CANDLES", synthetic |-> s]
    BY <2>2, <2>3
  <2>5. /\ mixed.mfe = m /\ mixed.mae = n /\ mixed.source = "CANDLES"
    BY <2>4
  <2> HIDE DEF mixed
  <2>6. /\ m \in Int /\ m # Nothing /\ Gain(fill, m) >= 0 /\ Gain(fill, m) >= Gain(fill, req.exit)
    BY <1>2, <1>4, ScenesAssumption DEF m, Enclose, Checked, IsReport
  <2>7. /\ n \in Int /\ n # Nothing /\ Gain(fill, n) <= 0 /\ Gain(fill, n) <= Gain(fill, req.exit)
    BY <1>2, <1>4, ScenesAssumption DEF n, Enclose, Checked, IsReport
  <2> QED
    BY <2>5, <2>6, <2>7 DEF Enclose
<1> QED
  BY <1>1, <1>2, <1>3, <1>4

(* Beyond the tolerance there is a win or a loss, and within it neither.   *)
LEMMA RiskIs ==
  ASSUME NEW fill, IsTrade(fill), Risk(fill) # Nothing
  PROVE  /\ Risk(fill) \in Nat /\ BreakEvenTolerance * Risk(fill) \in Nat
         /\ Magnitude(Risk(fill)) = Risk(fill)
<1>1. fill.entry \in Int /\ fill.stop \in Int /\ Risk(fill) = Magnitude(fill.entry - fill.stop)
  BY DEF IsTrade, Risk
<1>2. Risk(fill) \in Nat
  BY <1>1 DEF Magnitude
<1>3. BreakEvenTolerance \in Nat
  BY JournalOutcomeAssumption
<1>4. \A x, y \in Nat : x * y \in Nat
  OBVIOUS
<1> QED
  BY <1>2, <1>3, <1>4 DEF Magnitude

LEMMA ResultIs ==
  ASSUME NEW fill, IsTrade(fill), NEW req, IsReport(req)
  PROVE  /\ Result(fill, req) \in {"FULL_WIN", "PARTIAL_WIN"} => Win(fill, req)
         /\ Result(fill, req) \in {"BREAK_EVEN", "PARTIAL_LOSS", "FULL_LOSS"} => ~Win(fill, req)
         /\ Result(fill, req) = "FULL_LOSS" => Pnl(fill, req) < 0 /\ Risk(fill) # Nothing
<1> DEFINE pnl == Pnl(fill, req)
           risk == Risk(fill)
           margin == BreakEvenTolerance * risk
           planned == Planned(fill) # Nothing /\ 100 * pnl >= Planned(fill) * (100 - FullWinTolerance)
           full == 100 * pnl <= (FullLossTolerance - 100) * risk
<1>1. pnl \in Int
  BY GainIs DEF Pnl, IsReport
<1>2. risk # Nothing => margin \in Nat
  BY RiskIs
<1>3. \A r \in DOMAIN ExitStates :
        ExitStates[r] \in {"MANUAL_EXIT", "INVALIDATION_EXIT", "NEWS_EXIT", "TRAILING_STOP_EXIT"}
  BY DEF ExitStates
<1>4. Win(fill, req) <=> IF risk = Nothing THEN pnl > 0 ELSE 100 * pnl > margin
  BY DEF Win
<1>5. Result(fill, req) =
        IF req.reason \in DOMAIN ExitStates THEN ExitStates[req.reason]
        ELSE IF risk = Nothing
          THEN IF pnl > 0 THEN "PARTIAL_WIN" ELSE IF pnl < 0 THEN "PARTIAL_LOSS" ELSE "BREAK_EVEN"
        ELSE IF 100 * Magnitude(pnl) <= margin THEN "BREAK_EVEN"
        ELSE IF pnl > 0 THEN IF planned THEN "FULL_WIN" ELSE "PARTIAL_WIN"
        ELSE IF full THEN "FULL_LOSS" ELSE "PARTIAL_LOSS"
  BY DEF Result
<1> HIDE DEF pnl, risk, margin, planned, full
<1>6. CASE req.reason \in DOMAIN ExitStates
  BY <1>3, <1>5, <1>6
<1>7. CASE req.reason \notin DOMAIN ExitStates /\ risk = Nothing
  <2>1. Result(fill, req) = IF pnl > 0 THEN "PARTIAL_WIN" ELSE IF pnl < 0 THEN "PARTIAL_LOSS" ELSE "BREAK_EVEN"
    BY <1>5, <1>7
  <2> QED
    BY <1>1, <1>4, <1>7, <2>1
<1>8. CASE req.reason \notin DOMAIN ExitStates /\ risk # Nothing
  <2>1. Result(fill, req) =
          IF 100 * Magnitude(pnl) <= margin THEN "BREAK_EVEN"
          ELSE IF pnl > 0 THEN IF planned THEN "FULL_WIN" ELSE "PARTIAL_WIN"
          ELSE IF full THEN "FULL_LOSS" ELSE "PARTIAL_LOSS"
    BY <1>5, <1>8
  <2>2. Win(fill, req) <=> 100 * pnl > margin
    BY <1>4, <1>8
  <2>3. margin \in Nat
    BY <1>2, <1>8
  <2>4. CASE pnl > 0
    <3>1. Magnitude(pnl) = pnl
      BY <1>1, <2>4 DEF Magnitude
    <3> QED
      BY <1>1, <1>8, <2>1, <2>2, <2>3, <2>4, <3>1
  <2>5. CASE pnl = 0
    <3>1. 100 * Magnitude(pnl) <= margin
      BY <2>3, <2>5 DEF Magnitude
    <3> QED
      BY <2>1, <2>2, <2>3, <2>5, <3>1
  <2>6. CASE pnl < 0
    <3>1. ~(100 * pnl > margin)
      BY <1>1, <2>3, <2>6
    <3>2. Result(fill, req) \in {"BREAK_EVEN", "FULL_LOSS", "PARTIAL_LOSS"}
      BY <1>1, <2>1, <2>6
    <3>3. Pnl(fill, req) < 0 /\ Risk(fill) # Nothing
      BY <1>8, <2>6 DEF pnl, risk
    <3> QED
      BY <2>2, <3>1, <3>2, <3>3
  <2> QED
    BY <1>1, <2>4, <2>5, <2>6
<1> QED
  BY <1>6, <1>7, <1>8 DEF pnl, risk

LEMMA OutcomeAddsUp ==
  ASSUME NEW fill, IsTrade(fill), NEW req, IsReport(req), Checked(fill, req),
         NEW e, Enclose(fill, req, e), NEW detected, detected \subseteq Detectable
  PROVE  AddsUp(Outcome(fill, req, e, detected), detected)
<1> DEFINE o == Outcome(fill, req, e, detected)
           violations == detected \cup req.reported
           GainAt(p) == IF p = Nothing THEN Nothing ELSE Gain(fill, p)
<1>1. /\ o.pnl = Gain(fill, req.exit) /\ o.risk = Risk(fill)
      /\ o.mfe = GainAt(e.mfe) /\ o.mae = GainAt(e.mae) /\ o.source = e.source
      /\ o.duration = req.exited - fill.opened
      /\ o.result = Result(fill, req) /\ o.violations = violations
      /\ o.classification = Classification(Win(fill, req), violations)
  BY DEF Outcome, Pnl
<1> HIDE DEF o
<1>2. o.duration > 0
  BY <1>1 DEF Checked, IsTrade, IsReport
<1>3. Nothing \notin Int
  BY ScenesAssumption
<1>4. /\ (e.mfe # Nothing => Gain(fill, e.mfe) \in Int) /\ (e.mae # Nothing => Gain(fill, e.mae) \in Int)
  BY GainIs DEF Enclose
<1>5. /\ (o.mfe = Nothing <=> e.mfe = Nothing) /\ (o.mae = Nothing <=> e.mae = Nothing)
      /\ e.mfe # Nothing => o.mfe = Gain(fill, e.mfe)
      /\ e.mae # Nothing => o.mae = Gain(fill, e.mae)
  BY <1>1, <1>3, <1>4
<1>6. /\ o.mfe # Nothing => o.mfe >= 0 /\ o.mfe >= o.pnl
      /\ o.mae # Nothing => o.mae <= 0 /\ o.mae <= o.pnl
      /\ (o.source = "UNAVAILABLE" <=> o.mfe = Nothing) /\ (o.mfe = Nothing <=> o.mae = Nothing)
  BY <1>1, <1>5 DEF Enclose
<1>7. /\ o.classification = IF Win(fill, req) THEN IF violations = {} THEN "VALID_WIN" ELSE "BAD_PROCESS_WIN"
                            ELSE IF violations = {} THEN "VALID_LOSS" ELSE "PROCESS_ERROR"
      /\ detected \subseteq o.violations
  BY <1>1 DEF Classification
<1> HIDE DEF violations
<1>8. /\ o.classification \in Classifications
      /\ (o.violations = {} <=> o.classification \in {"VALID_WIN", "VALID_LOSS"})
      /\ (o.classification \in Wins <=> Win(fill, req))
  BY <1>1, <1>7 DEF Classifications, Wins
<1>9. /\ o.result \in {"FULL_WIN", "PARTIAL_WIN"} => Win(fill, req)
      /\ o.result \in {"BREAK_EVEN", "PARTIAL_LOSS", "FULL_LOSS"} => ~Win(fill, req)
      /\ o.result = "FULL_LOSS" => o.pnl < 0 /\ o.risk # Nothing
  BY <1>1, ResultIs DEF Pnl
<1> QED
  BY <1>2, <1>6, <1>7, <1>8, <1>9 DEF AddsUp, o

LEMMA DetectedIs ==
  ASSUME NEW fill, NEW snap
  PROVE  Detect(fill, snap) \subseteq Detectable
BY DEF Detect, Detectable

-----------------------------------------------------------------------------
(* The inductive invariant.                                                *)

Kept ==
  /\ scene \in Scenes /\ now \in 0 .. scene.ticks
  /\ InDb \subseteq issued /\ issued \subseteq Ids
  /\ tasks = [t \in Tasks |-> tasks[t]]
  /\ \A id \in InDb : IsEntry(id, entries[id])
  /\ \A k \in DOMAIN outcomes : DOMAIN outcomes[k] = Columns /\ k = <<k[1], k[2]>> /\ k[1] \in issued
  /\ \A id \in InDb : \E n \in Nat : Revisions(id) = 1 .. n
  /\ \A k \in DOMAIN outcomes : k[1] \in InDb => AddsUp(outcomes[k].hash, entries[k[1]].hash.detected)

(* What a request holds is about the entry as it was written, which no     *)
(* other request changes; it is of no use once the entry is gone, whose id *)
(* does not come back.                                                     *)
Holds(T) ==
  /\ DOMAIN T = DOMAIN Idle
  /\ T.at = "INSERT" => T.log \in scene.logs /\ T.asked \in 0 .. now
  /\ T.at \in {"ENTRY", "OUTCOMES", "CANDLES", "MAX", "COMMIT"} => T.id \in issued
  /\ T.at \in {"ENTRY", "OUTCOMES"} /\ T.job = "RECORD" => T.report \in scene.reports
  /\ T.at = "CANDLES" => T.report \in scene.reports
  /\ T.id \in InDb =>
       /\ T.at = "OUTCOMES" => T.row.hash = entries[T.id].hash /\ T.row.kind = entries[T.id].kind
       /\ T.at = "CANDLES" =>
            /\ entries[T.id].kind = "TRADE" /\ Checked(entries[T.id].hash.fill, T.report)
            /\ T.views[1].trade = entries[T.id].hash.fill
            /\ T.views[1].detected = entries[T.id].hash.detected
       /\ T.at \in {"MAX", "COMMIT"} => AddsUp(T.record, entries[T.id].hash.detected)
       /\ T.at = "COMMIT" => T.revision = 1 \/ \E m \in Revisions(T.id) : T.revision = m + 1

IInv == Kept /\ \A t \in Tasks : Holds(tasks[t])

-----------------------------------------------------------------------------
(* What the steps of a request make of what it holds.                      *)
LEMMA IdleIs == /\ DOMAIN Idle = {"at", "job", "id", "asked", "log", "row", "rows", "cursor", "views", "report", "record",
                                  "revision", "there", "closed"}
                /\ Idle.at = "IDLE"
BY DEF Idle

LEMMA BegunIs ==
  ASSUME NEW job
  PROVE  DOMAIN Begun(job) = DOMAIN Idle /\ Begun(job).job = job /\ Begun(job).asked = now
<1> DEFINE closed == {id \in InDb : Revisions(id) # {}}
           one   == [Idle EXCEPT !.job = job]
           two   == [one EXCEPT !.asked = now]
           three == [two EXCEPT !.there = InDb]
           four  == [three EXCEPT !.closed = closed]
<1> HIDE DEF closed
<1>1. Begun(job) = four
  BY DEF Begun, closed
<1>2. DOMAIN one = DOMAIN Idle /\ one.job = job
  BY IdleIs
<1> HIDE DEF one
<1>3. DOMAIN two = DOMAIN Idle /\ two.job = job /\ two.asked = now
  BY <1>2, IdleIs
<1> HIDE DEF two
<1>4. DOMAIN three = DOMAIN Idle /\ three.job = job /\ three.asked = now
  BY <1>3, IdleIs
<1> HIDE DEF three
<1>5. DOMAIN four = DOMAIN Idle /\ four.job = job /\ four.asked = now
  BY <1>4, IdleIs
<1> QED
  BY <1>1, <1>5

(* Setting some fields leaves the others.                                  *)
LEMMA Sets ==
  ASSUME NEW T, DOMAIN T = DOMAIN Idle, NEW a, NEW b, NEW c, NEW d
  PROVE  /\ LET U == [T EXCEPT !.at = a, !.log = b]
            IN  DOMAIN U = DOMAIN Idle /\ U.at = a /\ U.log = b /\ U.asked = T.asked
         /\ LET U == [T EXCEPT !.at = a, !.id = b, !.report = c]
            IN  DOMAIN U = DOMAIN Idle /\ U.at = a /\ U.id = b /\ U.report = c /\ U.job = T.job
         /\ LET U == [T EXCEPT !.at = a, !.id = b]
            IN  DOMAIN U = DOMAIN Idle /\ U.at = a /\ U.id = b /\ U.job = T.job
         /\ LET U == [T EXCEPT !.at = a, !.row = b]
            IN  DOMAIN U = DOMAIN Idle /\ U.at = a /\ U.row = b /\ U.id = T.id /\ U.job = T.job /\ U.report = T.report
         /\ LET U == [T EXCEPT !.at = a, !.asked = b, !.row = c, !.views = d]
            IN  DOMAIN U = DOMAIN Idle /\ U.at = a /\ U.views = d /\ U.id = T.id /\ U.report = T.report
         /\ LET U == [T EXCEPT !.at = a, !.views = b, !.record = c]
            IN  DOMAIN U = DOMAIN Idle /\ U.at = a /\ U.record = c /\ U.id = T.id
         /\ LET U == [T EXCEPT !.at = a, !.revision = b]
            IN  DOMAIN U = DOMAIN Idle /\ U.at = a /\ U.revision = b /\ U.id = T.id /\ U.record = T.record
         /\ LET U == [T EXCEPT !.at = a, !.job = b]
            IN  DOMAIN U = DOMAIN Idle /\ U.at = a /\ U.job = b /\ U.id = T.id
         /\ LET U == [T EXCEPT !.at = a]
            IN  DOMAIN U = DOMAIN Idle /\ U.at = a
         /\ LET U == [T EXCEPT !.at = a, !.rows = b, !.cursor = c]
            IN  DOMAIN U = DOMAIN Idle /\ U.at = a
         /\ LET U == [T EXCEPT !.at = a, !.rows = b, !.views = c]
            IN  DOMAIN U = DOMAIN Idle /\ U.at = a
BY IdleIs, SMTT(60)

LEMMA KeptIs ==
  ASSUME IInv
  PROVE  /\ scene \in Scenes /\ now \in Nat /\ now <= scene.ticks /\ scene.ticks \in Times
         /\ scene.ids \subseteq Ids
         /\ \A r \in scene.reports : IsReport(r)
         /\ \A loads \in scene.loads : AreLoads(loads)
<1>1. scene \in Scenes /\ now \in 0 .. scene.ticks
  BY DEF IInv, Kept
<1>2. /\ scene.ticks \in Times /\ scene.ids \subseteq Ids
      /\ \A r \in scene.reports : IsReport(r)
  BY <1>1, ScenesAssumption DEF IsReport
<1>3. \A loads \in scene.loads : AreLoads(loads)
  BY <1>1, ScenesAssumption DEF AreLoads
<1> QED
  BY <1>1, <1>2, <1>3

(* A step that keeps the entries there are, and takes no revision away.    *)
Steady ==
  /\ scene' = scene /\ now' \in Int /\ now <= now' /\ issued \subseteq issued'
  /\ \A id \in issued : id \in InDb' =>
       /\ id \in InDb /\ entries'[id].hash = entries[id].hash /\ entries'[id].kind = entries[id].kind
       /\ Revisions(id) \subseteq Revisions(id)'

LEMMA HoldsOn ==
  ASSUME IInv, Steady, NEW T, Holds(T)
  PROVE  Holds(T)'
<1>1. now \in Nat
  BY KeptIs
<1>2. T.at = "INSERT" => T.log \in scene'.logs /\ T.asked \in 0 .. now'
  BY <1>1 DEF Holds, Steady
<1>3. T.at \in {"ENTRY", "OUTCOMES", "CANDLES", "MAX", "COMMIT"} => T.id \in issued'
  BY DEF Holds, Steady
<1>4. /\ T.at \in {"ENTRY", "OUTCOMES"} /\ T.job = "RECORD" => T.report \in scene'.reports
      /\ T.at = "CANDLES" => T.report \in scene'.reports
  BY DEF Holds, Steady
<1>5. ASSUME T.id \in InDb', T.at \in {"OUTCOMES", "CANDLES", "MAX", "COMMIT"}
      PROVE  /\ T.id \in InDb /\ entries'[T.id].hash = entries[T.id].hash /\ entries'[T.id].kind = entries[T.id].kind
             /\ Revisions(T.id) \subseteq Revisions(T.id)'
  BY <1>5 DEF Steady, Holds
<1>6. T.id \in InDb' =>
       /\ T.at = "OUTCOMES" => T.row.hash = entries'[T.id].hash /\ T.row.kind = entries'[T.id].kind
       /\ T.at = "CANDLES" =>
            /\ entries'[T.id].kind = "TRADE" /\ Checked(entries'[T.id].hash.fill, T.report)
            /\ T.views[1].trade = entries'[T.id].hash.fill
            /\ T.views[1].detected = entries'[T.id].hash.detected
       /\ T.at \in {"MAX", "COMMIT"} => AddsUp(T.record, entries'[T.id].hash.detected)
       /\ T.at = "COMMIT" => T.revision = 1 \/ \E m \in Revisions(T.id)' : T.revision = m + 1
  BY <1>5 DEF Holds
<1> QED
  BY <1>2, <1>3, <1>4, <1>6 DEF Holds, Checked, AddsUp

LEMMA HeldOn ==
  ASSUME IInv, Steady, NEW t \in Tasks, tasks'[t] = tasks[t]
  PROVE  Holds(tasks[t])'
<1>1. PICK T : T = tasks[t]
  OBVIOUS
<1>2. Holds(T)
  BY <1>1 DEF IInv
<1>3. Holds(T)'
  BY <1>2, HoldsOn
<1>4. T = tasks'[t]
  BY <1>1
<1> QED
  BY <1>3, <1>4 DEF Holds

-----------------------------------------------------------------------------
(* A step of a request that leaves the database as it is.                  *)
LEMMA TaskStep ==
  ASSUME IInv, NEW t \in Tasks, NEW new, Become(t, new), Holds(new),
         UNCHANGED <<now, scene, entries, outcomes, issued>>
  PROVE  IInv'
<1>1. tasks' = [tasks EXCEPT ![t] = new] /\ tasks = [u \in Tasks |-> tasks[u]]
  BY DEF Become, IInv, Kept
<1>2. tasks'[t] = new /\ tasks' = [u \in Tasks |-> tasks'[u]] /\ \A u \in Tasks : u # t => tasks'[u] = tasks[u]
  BY <1>1
<1>3. Steady
  BY KeptIs DEF Steady, InDb, Revisions
<1>4. Holds(tasks[t])'
  BY <1>2, <1>3, HoldsOn DEF Holds
<1>5. \A u \in Tasks : Holds(tasks[u])'
  BY <1>2, <1>3, <1>4, HeldOn
<1>6. Kept'
  <2>1. InDb' = InDb /\ \A id : Revisions(id)' = Revisions(id)
    BY DEF InDb, Revisions
  <2>2. /\ scene' \in Scenes /\ now' \in 0 .. scene'.ticks
        /\ InDb' \subseteq issued' /\ issued' \subseteq Ids
    BY <2>1 DEF IInv, Kept
  <2>3. \A id \in InDb' : IsEntry(id, entries'[id]) /\ \E n \in Nat : Revisions(id)' = 1 .. n
    BY <2>1 DEF IInv, Kept
  <2>4. \A k \in DOMAIN outcomes' :
          /\ DOMAIN outcomes'[k] = Columns /\ k = <<k[1], k[2]>> /\ k[1] \in issued'
          /\ k[1] \in InDb' => AddsUp(outcomes'[k].hash, entries'[k[1]].hash.detected)
    BY <2>1 DEF IInv, Kept
  <2> QED
    BY <1>2, <2>1, <2>2, <2>3, <2>4 DEF Kept, IsEntry, AddsUp
<1> QED
  BY <1>5, <1>6 DEF IInv

LEMMA IdleHolds == Holds(Idle)
BY IdleIs DEF Holds

LEMMA DoneKeeps ==
  ASSUME IInv, NEW t \in Tasks, Done(t), UNCHANGED <<now, scene, entries, outcomes, issued>>
  PROVE  IInv'
BY IdleHolds, TaskStep DEF Done

LEMMA BeginCreateKeeps ==
  ASSUME IInv, NEW t \in Tasks, NEW log, BeginCreate(t, log)
  PROVE  IInv'
<1> DEFINE new == [Begun("CREATE") EXCEPT !.at = "INSERT", !.log = log]
<1>1. log \in scene.logs /\ Become(t, new) /\ UNCHANGED <<now, scene, entries, outcomes, issued>>
  BY DEF BeginCreate
<1>2. DOMAIN new = DOMAIN Idle /\ new.at = "INSERT" /\ new.log = log /\ new.asked = now
  BY BegunIs, Sets
<1> HIDE DEF new
<1>3. Holds(new)
  BY <1>1, <1>2, KeptIs DEF Holds
<1> QED
  BY <1>1, <1>3, TaskStep

LEMMA BeginRecordKeeps ==
  ASSUME IInv, NEW t \in Tasks, NEW id \in issued, NEW report, BeginRecord(t, id, report)
  PROVE  IInv'
<1> DEFINE new == [Begun("RECORD") EXCEPT !.at = "ENTRY", !.id = id, !.report = report]
<1>1. report \in scene.reports /\ Become(t, new) /\ UNCHANGED <<now, scene, entries, outcomes, issued>>
  BY DEF BeginRecord
<1>2. DOMAIN new = DOMAIN Idle /\ new.at = "ENTRY" /\ new.id = id /\ new.report = report
  BY BegunIs, Sets
<1> HIDE DEF new
<1>3. Holds(new)
  BY <1>1, <1>2 DEF Holds
<1> QED
  BY <1>1, <1>3, TaskStep

LEMMA BeginGetKeeps ==
  ASSUME IInv, NEW t \in Tasks, NEW id \in issued, BeginGet(t, id)
  PROVE  IInv'
<1> DEFINE new == [Begun("GET") EXCEPT !.at = "ENTRY", !.id = id]
<1>1. Become(t, new) /\ UNCHANGED <<now, scene, entries, outcomes, issued>>
  BY DEF BeginGet
<1>2. DOMAIN new = DOMAIN Idle /\ new.at = "ENTRY" /\ new.id = id /\ new.job = "GET"
  BY BegunIs, Sets
<1> HIDE DEF new
<1>3. Holds(new)
  BY <1>2 DEF Holds
<1> QED
  BY <1>1, <1>3, TaskStep

LEMMA ReadEntryKeeps ==
  ASSUME IInv, NEW t \in Tasks, ReadEntry(t)
  PROVE  IInv'
<1> DEFINE T == tasks[t]
           new == [T EXCEPT !.at = "OUTCOMES", !.row = entries[T.id]]
<1>1. /\ T.at = "ENTRY"
      /\ (Become(t, new) /\ T.id \in InDb) \/ Done(t)
      /\ UNCHANGED <<now, scene, entries, outcomes, issued>>
  BY DEF ReadEntry
<1>2. Holds(T)
  BY DEF IInv
<1>3. ASSUME T.id \in InDb PROVE Holds(new)
  <2>1. DOMAIN T = DOMAIN Idle
    BY <1>2 DEF Holds
  <2>2. /\ DOMAIN new = DOMAIN Idle /\ new.at = "OUTCOMES" /\ new.row = entries[T.id]
        /\ new.id = T.id /\ new.job = T.job /\ new.report = T.report
    BY <2>1, Sets
  <2> HIDE DEF new
  <2> QED
    BY <1>1, <1>2, <2>2 DEF Holds
<1> HIDE DEF new
<1> QED
  BY <1>1, <1>3, TaskStep, DoneKeeps

LEMMA ViewIs ==
  ASSUME NEW row, NEW revisions
  PROVE  /\ View(row, revisions).kind = row.kind
         /\ View(row, revisions).integrity = "VERIFIED" =>
              View(row, revisions).trade = row.hash.fill /\ View(row, revisions).detected = row.hash.detected
BY DEF View, Integrity

(* An outcome is accepted for the trade that was logged.                   *)
LEMMA ReadOutcomesKeeps ==
  ASSUME IInv, NEW t \in Tasks, ReadOutcomes(t)
  PROVE  IInv'
<1> DEFINE T    == tasks[t]
           view == View(T.row, OutcomesOf(T.id))
           new  == [T EXCEPT !.at = "CANDLES", !.asked = now, !.row = Nothing, !.views = <<view>>]
<1>1. /\ T.at = "OUTCOMES"
      /\ (Become(t, new) /\ T.job = "RECORD" /\ Accepted(view, T.report)) \/ Done(t)
      /\ UNCHANGED <<now, scene, entries, outcomes, issued>>
  BY DEF ReadOutcomes
<1>2. Holds(T)
  BY DEF IInv
<1>3. /\ view.kind = T.row.kind
      /\ view.integrity = "VERIFIED" => view.trade = T.row.hash.fill /\ view.detected = T.row.hash.detected
  BY ViewIs
<1> HIDE DEF view
<1>4. ASSUME T.job = "RECORD", Accepted(view, T.report) PROVE Holds(new)
  <2>1. DOMAIN T = DOMAIN Idle /\ T.id \in issued /\ T.report \in scene.reports
    BY <1>1, <1>2, <1>4 DEF Holds
  <2>2. /\ DOMAIN new = DOMAIN Idle /\ new.at = "CANDLES" /\ new.views = <<view>>
        /\ new.id = T.id /\ new.report = T.report
    BY <2>1, Sets
  <2>3. view.kind = "TRADE" /\ view.integrity = "VERIFIED" /\ Accepts(view.trade, T.report, now)
    BY <1>4 DEF Accepted
  <2>4. ASSUME T.id \in InDb
        PROVE  /\ entries[T.id].kind = "TRADE" /\ Checked(entries[T.id].hash.fill, T.report)
               /\ view.trade = entries[T.id].hash.fill /\ view.detected = entries[T.id].hash.detected
    <3>1. T.row.hash = entries[T.id].hash /\ T.row.kind = entries[T.id].kind
      BY <1>1, <1>2, <2>4 DEF Holds
    <3>2. entries[T.id].kind = "TRADE" /\ view.trade = entries[T.id].hash.fill
          /\ view.detected = entries[T.id].hash.detected
      BY <1>3, <2>3, <3>1
    <3>3. IsTrade(entries[T.id].hash.fill)
      BY <2>4, <3>2 DEF IInv, Kept, IsEntry
    <3>4. IsReport(T.report)
      BY <2>1, KeptIs
    <3> QED
      BY <2>3, <3>2, <3>3, <3>4, AcceptsChecks
  <2>5. new.views[1] = view
    BY <2>2
  <2> HIDE DEF new
  <2> QED
    BY <2>1, <2>2, <2>4, <2>5 DEF Holds
<1> HIDE DEF new
<1> QED
  BY <1>1, <1>4, TaskStep, DoneKeeps

LEMMA LoadCandlesKeeps ==
  ASSUME IInv, NEW t \in Tasks, LoadCandles(t)
  PROVE  IInv'
<1> DEFINE T    == tasks[t]
           view == T.views[1]
           record(loads) == Outcome(view.trade, T.report, Extremes(view.trade, T.report, loads), view.detected)
           new(loads) == [T EXCEPT !.at = "MAX", !.views = <<>>, !.record = record(loads)]
<1>1. /\ T.at = "CANDLES" /\ UNCHANGED <<now, scene, entries, outcomes, issued>>
      /\ \E loads \in scene.loads : Become(t, new(loads))
  BY Zenon DEF LoadCandles
<1>2. PICK loads \in scene.loads : Become(t, new(loads))
  BY <1>1
<1>3. Holds(T)
  BY DEF IInv
<1>4. DOMAIN T = DOMAIN Idle /\ T.id \in issued /\ IsReport(T.report) /\ AreLoads(loads)
  BY <1>1, <1>3, KeptIs DEF Holds
<1>5. /\ DOMAIN new(loads) = DOMAIN Idle /\ new(loads).at = "MAX" /\ new(loads).record = record(loads)
      /\ new(loads).id = T.id
  BY <1>4, Sets
<1>6. ASSUME T.id \in InDb PROVE AddsUp(record(loads), entries[T.id].hash.detected)
  <2> DEFINE fill == entries[T.id].hash.fill
             detected == entries[T.id].hash.detected
  <2>1. /\ entries[T.id].kind = "TRADE" /\ Checked(fill, T.report)
        /\ view.trade = fill /\ view.detected = detected
    BY <1>1, <1>3, <1>6 DEF Holds
  <2>2. IsTrade(fill) /\ detected \subseteq Detectable
    BY <1>6, <2>1 DEF IInv, Kept, IsEntry
  <2>3. Enclose(fill, T.report, Extremes(fill, T.report, loads))
    BY <1>4, <2>1, <2>2, ExtremesEnclose
  <2>4. AddsUp(Outcome(fill, T.report, Extremes(fill, T.report, loads), detected), detected)
    BY <1>4, <2>1, <2>2, <2>3, OutcomeAddsUp
  <2> QED
    BY <2>1, <2>4
<1> HIDE DEF new, record
<1>7. Holds(new(loads))
  BY <1>4, <1>5, <1>6 DEF Holds
<1> QED
  BY <1>1, <1>2, <1>7, TaskStep

-----------------------------------------------------------------------------
(* Revisions.                                                              *)
LEMMA NextIs ==
  ASSUME IInv, NEW id \in InDb
  PROVE  NextRevision(id) = 1 \/ \E m \in Revisions(id) : NextRevision(id) = m + 1
<1>1. PICK n \in Nat : Revisions(id) = 1 .. n
  BY DEF IInv, Kept
<1>2. Revisions(id) \cup {0} = 0 .. n
  BY <1>1
<1>3. n \in 0 .. n /\ \A y \in 0 .. n : n >= y
  OBVIOUS
<1>4. Max(0 .. n) \in 0 .. n /\ \A y \in 0 .. n : Max(0 .. n) >= y
  BY <1>3 DEF Max
<1>5. Max(0 .. n) = n
  BY <1>3, <1>4
<1>6. NextRevision(id) = n + 1
  BY <1>2, <1>5 DEF NextRevision
<1>7. n = 0 \/ n \in Revisions(id)
  BY <1>1
<1> QED
  BY <1>6, <1>7

LEMMA ReadMaxKeeps ==
  ASSUME IInv, NEW t \in Tasks, ReadMax(t)
  PROVE  IInv'
<1> DEFINE T == tasks[t]
           new == [T EXCEPT !.at = "COMMIT", !.revision = NextRevision(T.id)]
<1>1. T.at = "MAX" /\ Become(t, new) /\ UNCHANGED <<now, scene, entries, outcomes, issued>>
  BY DEF ReadMax
<1>2. Holds(T)
  BY DEF IInv
<1>3. DOMAIN T = DOMAIN Idle
  BY <1>2 DEF Holds
<1>4. /\ DOMAIN new = DOMAIN Idle /\ new.at = "COMMIT" /\ new.revision = NextRevision(T.id)
      /\ new.id = T.id /\ new.record = T.record
  BY <1>3, Sets
<1>5. T.id \in InDb => NextRevision(T.id) = 1 \/ \E m \in Revisions(T.id) : NextRevision(T.id) = m + 1
  BY NextIs
<1> HIDE DEF new
<1>6. Holds(new)
  BY <1>1, <1>2, <1>4, <1>5 DEF Holds
<1> QED
  BY <1>1, <1>6, TaskStep

(* The revision a request commits is the next one, or is taken.            *)
LEMMA CommitIsNext ==
  ASSUME IInv, NEW T, Holds(T), T.at = "COMMIT", T.id \in InDb, <<T.id, T.revision>> \notin DOMAIN outcomes,
         NEW n \in Nat, Revisions(T.id) = 1 .. n
  PROVE  T.revision = n + 1
<1>1. T.revision = 1 \/ \E m \in 1 .. n : T.revision = m + 1
  BY DEF Holds
<1>2. T.revision \notin Revisions(T.id)
  <2> SUFFICES ASSUME T.revision \in Revisions(T.id) PROVE FALSE
    OBVIOUS
  <2>1. PICK k \in DOMAIN outcomes : k[1] = T.id /\ k[2] = T.revision
    BY DEF Revisions
  <2>2. k = <<k[1], k[2]>>
    BY DEF IInv, Kept
  <2> QED
    BY <2>1, <2>2
<1> QED
  BY <1>1, <1>2

-----------------------------------------------------------------------------
(* Steps that change the database.                                         *)
LEMMA DbStep ==
  ASSUME IInv, Steady, tasks' = [t \in Tasks |-> tasks'[t]], \A t \in Tasks : tasks'[t] = tasks[t] \/ Holds(tasks[t])',
         now' <= scene.ticks, issued' \subseteq Ids, InDb' \subseteq issued',
         \A id \in InDb' : IsEntry(id, entries'[id]) /\ \E n \in Nat : Revisions(id)' = 1 .. n,
         \A k \in DOMAIN outcomes' :
           /\ DOMAIN outcomes'[k] = Columns /\ k = <<k[1], k[2]>> /\ k[1] \in issued'
           /\ k[1] \in InDb' => AddsUp(outcomes'[k].hash, entries'[k[1]].hash.detected)
  PROVE  IInv'
<1>1. scene' \in Scenes /\ now' \in 0 .. scene'.ticks
  BY KeptIs DEF Steady, Times
<1>2. Kept'
  BY <1>1 DEF Kept, IsEntry, AddsUp
<1>3. \A t \in Tasks : Holds(tasks[t])'
  BY HeldOn DEF Holds
<1> QED
  BY <1>2, <1>3 DEF IInv

LEMMA TaskDone ==
  ASSUME IInv, NEW t \in Tasks, NEW new, Become(t, new)
  PROVE  tasks' = [u \in Tasks |-> tasks'[u]] /\ tasks'[t] = new /\ \A u \in Tasks : u # t => tasks'[u] = tasks[u]
BY DEF Become, IInv, Kept

LEMMA TickKeeps == ASSUME IInv, Tick PROVE IInv'
<1>1. /\ now < scene.ticks /\ now' = now + 1 /\ UNCHANGED <<scene, entries, outcomes, issued, tasks>>
  BY DEF Tick
<1>2. now \in Nat /\ scene.ticks \in Nat
  BY KeptIs DEF Times
<1>3. InDb' = InDb /\ \A id : Revisions(id)' = Revisions(id)
  BY <1>1 DEF InDb, Revisions
<1>4. Steady
  BY <1>1, <1>2, <1>3 DEF Steady
<1>5. now' <= scene.ticks
  BY <1>1, <1>2
<1>6. /\ issued' \subseteq Ids /\ InDb' \subseteq issued'
      /\ \A id \in InDb' : IsEntry(id, entries'[id]) /\ \E n \in Nat : Revisions(id)' = 1 .. n
      /\ tasks' = [t \in Tasks |-> tasks'[t]]
  BY <1>1, <1>3 DEF IInv, Kept
<1>7. \A k \in DOMAIN outcomes' :
        /\ DOMAIN outcomes'[k] = Columns /\ k = <<k[1], k[2]>> /\ k[1] \in issued'
        /\ k[1] \in InDb' => AddsUp(outcomes'[k].hash, entries'[k[1]].hash.detected)
  BY <1>1, <1>3 DEF IInv, Kept
<1> QED
  BY <1>1, <1>4, <1>5, <1>6, <1>7, DbStep

LEMMA CrashKeeps == ASSUME IInv, Crash PROVE IInv'
<1>1. /\ tasks' = [t \in Tasks |-> Idle] /\ UNCHANGED <<now, scene, entries, outcomes, issued>>
  BY DEF Crash
<1>2. InDb' = InDb /\ \A id : Revisions(id)' = Revisions(id)
  BY <1>1 DEF InDb, Revisions
<1>3. Steady /\ now' <= scene.ticks
  BY <1>1, <1>2, KeptIs DEF Steady
<1>4. /\ issued' \subseteq Ids /\ InDb' \subseteq issued'
      /\ \A id \in InDb' : IsEntry(id, entries'[id]) /\ \E n \in Nat : Revisions(id)' = 1 .. n
      /\ tasks' = [t \in Tasks |-> tasks'[t]]
  BY <1>1, <1>2 DEF IInv, Kept
<1>5. \A k \in DOMAIN outcomes' :
        /\ DOMAIN outcomes'[k] = Columns /\ k = <<k[1], k[2]>> /\ k[1] \in issued'
        /\ k[1] \in InDb' => AddsUp(outcomes'[k].hash, entries'[k[1]].hash.detected)
  BY <1>1, <1>2 DEF IInv, Kept
<1>6. \A t \in Tasks : Holds(tasks[t])'
  BY <1>1, IdleIs DEF Holds
<1> QED
  BY <1>1, <1>3, <1>4, <1>5, <1>6, DbStep

(* What is written of a trade when it is logged.                           *)
LEMMA InsertIs ==
  ASSUME IInv, NEW t \in Tasks, Insert(t)
  PROVE  \E id \in Ids \ issued : \E row :
           /\ IsEntry(id, row) /\ entries' = Put(entries, id, row) /\ issued' = issued \cup {id}
           /\ Done(t) /\ UNCHANGED <<now, scene, outcomes>>
<1> DEFINE log == tasks[t].log
           snap(evaluated) == IF evaluated THEN log.snap ELSE [log.snap EXCEPT !.plan = Nothing, !.limit = Nothing]
           body(evaluated) == [fill |-> log.fill, snap |-> snap(evaluated), dol |-> log.dol, synthetic |-> log.synthetic,
                               detected |-> IF log.fill = Nothing THEN {} ELSE Detect(log.fill, snap(evaluated)),
                               timing |-> Timing(log.kind, log.fill, tasks[t].asked)]
           row(id, evaluated) == [id |-> id, created |-> tasks[t].asked, kind |-> log.kind, symbol |-> log.symbol,
                                  record |-> body(evaluated), hash |-> body(evaluated)]
<1>1. /\ tasks[t].at = "INSERT" /\ Done(t) /\ UNCHANGED <<now, scene, outcomes>>
      /\ \E id \in scene.ids \ issued, evaluated \in BOOLEAN :
           entries' = Put(entries, id, row(id, evaluated)) /\ issued' = issued \cup {id}
  BY Zenon DEF Insert
<1>2. PICK id \in scene.ids \ issued, evaluated \in BOOLEAN :
        entries' = Put(entries, id, row(id, evaluated)) /\ issued' = issued \cup {id}
  BY <1>1
<1>3. log \in scene.logs /\ tasks[t].asked \in 0 .. now
  BY <1>1 DEF IInv, Holds
<1>4. log.kind \in Kinds /\ (log.kind = "TRADE" <=> log.fill # Nothing) /\ (log.kind = "TRADE" => IsTrade(log.fill))
  BY <1>3, ScenesAssumption, KeptIs
<1>5. body(evaluated).fill = log.fill /\ body(evaluated).detected \subseteq Detectable
  <2> HIDE DEF snap
  <2>1. body(evaluated).detected = IF log.fill = Nothing THEN {} ELSE Detect(log.fill, snap(evaluated))
    OBVIOUS
  <2> QED
    BY <2>1, DetectedIs
<1> HIDE DEF body
<1>6. /\ DOMAIN row(id, evaluated) = {"id", "created", "kind", "symbol", "record", "hash"}
      /\ row(id, evaluated).id = id /\ row(id, evaluated).created = tasks[t].asked
      /\ row(id, evaluated).kind = log.kind /\ row(id, evaluated).hash = body(evaluated)
  OBVIOUS
<1> HIDE DEF row
<1>7. tasks[t].asked \in Times
  <2>1. scene.ticks \in Int /\ scene.ticks <= MaxTime /\ now <= scene.ticks /\ now \in Nat
    BY KeptIs DEF Times
  <2>2. tasks[t].asked \in Int /\ 0 <= tasks[t].asked /\ tasks[t].asked <= now
    BY <1>3, <2>1
  <2>3. tasks[t].asked <= MaxTime
    BY <2>1, <2>2, ScenesAssumption
  <2> QED
    BY <2>2, <2>3 DEF Times
<1>8. IsEntry(id, row(id, evaluated))
  BY <1>4, <1>5, <1>6, <1>7 DEF IsEntry
<1>9. id \in Ids \ issued
  BY KeptIs
<1> QED
  BY <1>1, <1>2, <1>8, <1>9

LEMMA InsertKeeps == ASSUME IInv, NEW t \in Tasks, Insert(t) PROVE IInv'
<1>1. PICK id \in Ids \ issued : \E row :
        /\ IsEntry(id, row) /\ entries' = Put(entries, id, row) /\ issued' = issued \cup {id}
        /\ Done(t) /\ UNCHANGED <<now, scene, outcomes>>
  BY InsertIs
<1>2. PICK row :
        /\ IsEntry(id, row) /\ entries' = Put(entries, id, row) /\ issued' = issued \cup {id}
        /\ Done(t) /\ UNCHANGED <<now, scene, outcomes>>
  BY <1>1
<1>3. id \notin InDb
  BY DEF IInv, Kept
<1>4. InDb' = InDb \cup {id} /\ entries'[id] = row /\ \A j \in InDb : entries'[j] = entries[j]
  <2>1. /\ DOMAIN Put(entries, id, row) = DOMAIN entries \cup {id} /\ Put(entries, id, row)[id] = row
        /\ \A k \in DOMAIN entries : k # id => Put(entries, id, row)[k] = entries[k]
    BY DEF Put
  <2>2. id \notin DOMAIN entries
    BY <1>3 DEF InDb
  <2> QED
    BY <1>2, <2>1, <2>2 DEF InDb
<1>5. \A j : Revisions(j)' = Revisions(j)
  BY <1>2 DEF Revisions
<1>6. Steady /\ now' <= scene.ticks
  BY <1>2, <1>4, <1>5, KeptIs DEF Steady
<1>7. Revisions(id) = {}
  BY DEF Revisions, IInv, Kept
<1>8. \A j \in InDb' : IsEntry(j, entries'[j]) /\ \E n \in Nat : Revisions(j)' = 1 .. n
  <2>1. 1 .. 0 = {}
    OBVIOUS
  <2>2. IsEntry(id, entries'[id]) /\ Revisions(id)' = 1 .. 0
    BY <1>2, <1>4, <1>5, <1>7, <2>1
  <2>3. \A j \in InDb : IsEntry(j, entries'[j]) /\ \E n \in Nat : Revisions(j)' = 1 .. n
    BY <1>4, <1>5 DEF IInv, Kept
  <2> QED
    BY <1>4, <2>2, <2>3
<1>9. \A k \in DOMAIN outcomes' :
        /\ DOMAIN outcomes'[k] = Columns /\ k = <<k[1], k[2]>> /\ k[1] \in issued'
        /\ k[1] \in InDb' => AddsUp(outcomes'[k].hash, entries'[k[1]].hash.detected)
  BY <1>2, <1>4 DEF IInv, Kept
<1>10. /\ tasks' = [u \in Tasks |-> tasks'[u]] /\ issued' \subseteq Ids /\ InDb' \subseteq issued'
       /\ \A u \in Tasks : tasks'[u] = tasks[u] \/ tasks'[u] = Idle
  BY <1>2, <1>4, TaskDone DEF Done, IInv, Kept
<1>11. \A u \in Tasks : tasks'[u] = Idle => Holds(tasks[u])'
  BY IdleIs DEF Holds
<1> QED
  BY <1>6, <1>8, <1>9, <1>10, <1>11, DbStep
LEMMA CommitIs ==
  ASSUME NEW t, Commit(t)
  PROVE  LET T   == tasks[t]
             row == [at |-> T.asked, record |-> T.record, hash |-> T.record]
         IN  /\ T.at = "COMMIT" /\ UNCHANGED <<now, scene, entries, issued>>
             /\ \/ /\ <<T.id, T.revision>> \notin DOMAIN outcomes /\ outcomes' = Put(outcomes, <<T.id, T.revision>>, row)
                   /\ Become(t, [T EXCEPT !.at = "ENTRY", !.job = "ANSWER"])
                \/ Done(t) /\ UNCHANGED outcomes
BY Zenon DEF Commit, Unique

(* A revision is appended: the next one.                                   *)
LEMMA CommitKeeps == ASSUME IInv, NEW t \in Tasks, Commit(t) PROVE IInv'
<1> DEFINE T   == tasks[t]
           row == [at |-> T.asked, record |-> T.record, hash |-> T.record]
           key == <<T.id, T.revision>>
           new == [T EXCEPT !.at = "ENTRY", !.job = "ANSWER"]
<1>1. /\ T.at = "COMMIT" /\ UNCHANGED <<now, scene, entries, issued>>
      /\ \/ key \notin DOMAIN outcomes /\ outcomes' = Put(outcomes, key, row) /\ Become(t, new)
         \/ Done(t) /\ UNCHANGED outcomes
  BY CommitIs, Zenon
<1>2. ASSUME key \notin DOMAIN outcomes, outcomes' = Put(outcomes, key, row), Become(t, new)
      PROVE  IInv'
  <2>1. Holds(T)
    BY DEF IInv
  <2>2. /\ DOMAIN outcomes' = DOMAIN outcomes \cup {key} /\ outcomes'[key] = row
        /\ \A k \in DOMAIN outcomes : k # key => outcomes'[k] = outcomes[k]
    <3> HIDE DEF key, row
    <3> QED
      BY <1>2 DEF Put
  <2>3. InDb' = InDb /\ \A j : j # T.id => Revisions(j)' = Revisions(j)
    BY <1>1, <2>2 DEF Revisions, InDb
  <2>4. \A j : j = T.id => Revisions(j)' = Revisions(j) \cup {T.revision}
    <3>1. key[1] = T.id /\ key[2] = T.revision
      OBVIOUS
    <3>2. DOMAIN outcomes' = DOMAIN outcomes \cup {key}
      BY <2>2
    <3> DEFINE mine == {k \in DOMAIN outcomes : k[1] = T.id}
    <3>3. {k \in DOMAIN outcomes' : k[1] = T.id} = mine \cup {key}
      BY <3>1, <3>2
    <3>4. {k[2] : k \in mine \cup {key}} = {k[2] : k \in mine} \cup {T.revision}
      BY <3>1
    <3> QED
      BY <3>3, <3>4 DEF Revisions
  <2>5. Steady /\ now' <= scene.ticks
    <3>1. \A id \in issued : Revisions(id) \subseteq Revisions(id)'
      <4> SUFFICES ASSUME NEW id \in issued PROVE Revisions(id) \subseteq Revisions(id)'
        OBVIOUS
      <4>1. CASE id = T.id
        BY <2>4, <4>1
      <4>2. CASE id # T.id
        BY <2>3, <4>2
      <4> QED
        BY <4>1, <4>2
    <3> QED
      BY <1>1, <2>3, <3>1, KeptIs DEF Steady
  <2>6. \A id \in InDb' : IsEntry(id, entries'[id]) /\ \E n \in Nat : Revisions(id)' = 1 .. n
    <3>1. ASSUME NEW j, j = T.id, j \in InDb PROVE \E n \in Nat : Revisions(j)' = 1 .. n
      <4>1. PICK n \in Nat : Revisions(T.id) = 1 .. n
        BY <3>1 DEF IInv, Kept
      <4>2. T.revision = n + 1
        BY <1>1, <1>2, <2>1, <3>1, <4>1, CommitIsNext
      <4>3. (1 .. n) \cup {n + 1} = 1 .. (n + 1) /\ n + 1 \in Nat
        OBVIOUS
      <4>4. Revisions(j)' = (1 .. n) \cup {n + 1}
        BY <2>4, <3>1, <4>1, <4>2
      <4> QED
        BY <4>3, <4>4
    <3>2. \A id \in InDb : IsEntry(id, entries[id]) /\ \E n \in Nat : Revisions(id) = 1 .. n
      BY DEF IInv, Kept
    <3> SUFFICES ASSUME NEW id \in InDb' PROVE IsEntry(id, entries'[id]) /\ \E n \in Nat : Revisions(id)' = 1 .. n
      OBVIOUS
    <3>3. id \in InDb /\ IsEntry(id, entries'[id])
      BY <1>1, <2>3, <3>2
    <3>4. CASE id = T.id
      BY <3>1, <3>3, <3>4
    <3>5. CASE id # T.id
      BY <2>3, <3>2, <3>3, <3>5
    <3> QED
      BY <3>3, <3>4, <3>5
  <2>7. /\ DOMAIN row = Columns /\ key = <<key[1], key[2]>> /\ key[1] = T.id /\ T.id \in issued
        /\ T.id \in InDb => AddsUp(row.hash, entries[T.id].hash.detected)
    BY <1>1, <2>1 DEF Columns, Holds
  <2> HIDE DEF key, row
  <2>8. \A k \in DOMAIN outcomes' :
          /\ DOMAIN outcomes'[k] = Columns /\ k = <<k[1], k[2]>> /\ k[1] \in issued'
          /\ k[1] \in InDb' => AddsUp(outcomes'[k].hash, entries'[k[1]].hash.detected)
    <3>1. \A k \in DOMAIN outcomes :
            /\ DOMAIN outcomes[k] = Columns /\ k = <<k[1], k[2]>> /\ k[1] \in issued
            /\ k[1] \in InDb => AddsUp(outcomes[k].hash, entries[k[1]].hash.detected)
      BY DEF IInv, Kept
    <3> QED
      BY <1>1, <1>2, <2>2, <2>3, <2>7, <3>1
  <2>9. DOMAIN new = DOMAIN Idle /\ new.at = "ENTRY" /\ new.job = "ANSWER" /\ new.id = T.id
    BY <2>1, Sets DEF Holds
  <2>10. /\ tasks' = [u \in Tasks |-> tasks'[u]] /\ issued' \subseteq Ids /\ InDb' \subseteq issued'
         /\ tasks'[t] = new /\ \A u \in Tasks : u # t => tasks'[u] = tasks[u]
    BY <1>1, <1>2, <2>3, TaskDone DEF IInv, Kept
  <2> HIDE DEF new
  <2>11. Holds(tasks[t])'
    BY <1>1, <2>1, <2>7, <2>9, <2>10 DEF Holds
  <2> QED
    BY <2>5, <2>6, <2>8, <2>10, <2>11, DbStep
<1> HIDE DEF key, row, new
<1> QED
  BY <1>1, <1>2, DoneKeeps

-----------------------------------------------------------------------------
(* Exports hold nothing that is written.                                   *)
LEMMA BeginExportKeeps == ASSUME IInv, NEW t \in Tasks, BeginExport(t) PROVE IInv'
<1> DEFINE new == [Begun("EXPORT") EXCEPT !.at = "PAGE"]
<1>1. Become(t, new) /\ UNCHANGED <<now, scene, entries, outcomes, issued>>
  BY DEF BeginExport
<1>2. DOMAIN new = DOMAIN Idle /\ new.at = "PAGE"
  BY BegunIs, Sets
<1> HIDE DEF new
<1>3. Holds(new)
  BY <1>2 DEF Holds
<1> QED
  BY <1>1, <1>3, TaskStep

LEMMA ReadPageKeeps == ASSUME IInv, NEW t \in Tasks, ReadPage(t) PROVE IInv'
<1> DEFINE page == Page(tasks[t].cursor)
           new == [tasks[t] EXCEPT !.at = "PAGE_OUTCOMES", !.rows = page.rows, !.cursor = page.cursor]
<1>1. Become(t, new) /\ UNCHANGED <<now, scene, entries, outcomes, issued>>
  BY DEF ReadPage
<1> HIDE DEF page
<1>2. DOMAIN tasks[t] = DOMAIN Idle
  BY DEF IInv, Holds
<1>3. DOMAIN new = DOMAIN Idle /\ new.at = "PAGE_OUTCOMES"
  BY <1>2, Sets
<1> HIDE DEF new
<1>4. Holds(new)
  BY <1>3 DEF Holds
<1> QED
  BY <1>1, <1>4, TaskStep

LEMMA ReadPageOutcomesKeeps == ASSUME IInv, NEW t \in Tasks, ReadPageOutcomes(t) PROVE IInv'
<1> DEFINE new == [tasks[t] EXCEPT !.at = "PAGE", !.rows = <<>>, !.views = Exported(t)]
<1>1. (Done(t) \/ Become(t, new)) /\ UNCHANGED <<now, scene, entries, outcomes, issued>>
  BY DEF ReadPageOutcomes
<1>2. DOMAIN tasks[t] = DOMAIN Idle
  BY DEF IInv, Holds
<1>3. DOMAIN new = DOMAIN Idle /\ new.at = "PAGE"
  BY <1>2, Sets
<1> HIDE DEF new
<1>4. Holds(new)
  BY <1>3 DEF Holds
<1> QED
  BY <1>1, <1>4, TaskStep, DoneKeeps

-----------------------------------------------------------------------------
(* An entry goes with its outcomes; what requests hold of it is void.      *)
LEMMA Alike ==
  ASSUME NEW T, NEW a, NEW b, Holds(T)
  PROVE  Holds([T EXCEPT !.there = a, !.closed = b])
<1> DEFINE U == [T EXCEPT !.there = a, !.closed = b]
<1>1. DOMAIN T = DOMAIN Idle
  BY DEF Holds
<1>2. /\ DOMAIN U = DOMAIN Idle /\ U.at = T.at /\ U.job = T.job /\ U.id = T.id /\ U.asked = T.asked /\ U.log = T.log
      /\ U.row = T.row /\ U.views = T.views /\ U.report = T.report /\ U.record = T.record /\ U.revision = T.revision
  BY <1>1, IdleIs, SMTT(60)
<1> HIDE DEF U
<1>3. Holds(U)
  BY <1>2 DEF Holds
<1> QED
  BY <1>3 DEF U

LEMMA DeleteKeeps == ASSUME IInv, NEW id \in issued, Delete(id) PROVE IInv'
<1> DEFINE new(t) == [tasks[t] EXCEPT !.there = @ \ {id}, !.closed = @ \ {id}]
<1>1. /\ id \in InDb /\ UNCHANGED <<now, scene, issued>>
      /\ entries' = Restrict(entries, InDb \ {id})
      /\ outcomes' = Restrict(outcomes, {k \in DOMAIN outcomes : k[1] # id})
      /\ tasks' = [t \in Tasks |-> new(t)]
  BY Zenon DEF Delete
<1> HIDE DEF new
<1>2. InDb' = InDb \ {id} /\ \A j \in InDb' : entries'[j] = entries[j]
  BY <1>1 DEF Restrict, InDb
<1>3. /\ DOMAIN outcomes' = {k \in DOMAIN outcomes : k[1] # id}
      /\ \A k \in DOMAIN outcomes' : outcomes'[k] = outcomes[k]
  BY <1>1 DEF Restrict
<1>4. \A j : j # id => Revisions(j)' = Revisions(j)
  BY <1>3 DEF Revisions
<1>5. Steady /\ now' <= scene.ticks
  <2>1. \A j \in issued : j \in InDb' =>
          /\ j \in InDb /\ entries'[j].hash = entries[j].hash /\ entries'[j].kind = entries[j].kind
          /\ Revisions(j) \subseteq Revisions(j)'
    BY <1>2, <1>4
  <2>2. scene' = scene /\ now' = now /\ issued' = issued
    BY <1>1
  <2> QED
    BY <2>1, <2>2, KeptIs DEF Steady
<1>6. issued' \subseteq Ids /\ InDb' \subseteq issued'
  BY <1>1, <1>2 DEF IInv, Kept
<1>7. \A j \in InDb' : IsEntry(j, entries'[j]) /\ \E n \in Nat : Revisions(j)' = 1 .. n
  BY <1>2, <1>4 DEF IInv, Kept
<1>8. \A k \in DOMAIN outcomes' :
        /\ DOMAIN outcomes'[k] = Columns /\ k = <<k[1], k[2]>> /\ k[1] \in issued'
        /\ k[1] \in InDb' => AddsUp(outcomes'[k].hash, entries'[k[1]].hash.detected)
  BY <1>1, <1>2, <1>3 DEF IInv, Kept
<1>9. \A t \in Tasks : Holds(tasks[t])'
  <2> SUFFICES ASSUME NEW t \in Tasks PROVE Holds(tasks[t])'
    OBVIOUS
  <2>1. Holds(new(t))
    <3>1. Holds(tasks[t])
      BY DEF IInv
    <3> DEFINE there == tasks[t].there \ {id}
               closed == tasks[t].closed \ {id}
    <3>2. new(t) = [tasks[t] EXCEPT !.there = there, !.closed = closed]
      <4>1. DOMAIN tasks[t] = DOMAIN Idle
        BY <3>1 DEF Holds
      <4> QED
        BY <4>1, IdleIs DEF new
    <3> HIDE DEF there, closed
    <3>3. Holds([tasks[t] EXCEPT !.there = there, !.closed = closed])
      BY <3>1, Alike, Zenon
    <3> QED
      BY <3>2, <3>3, Zenon
  <2>2. tasks'[t] = new(t)
    BY <1>1
  <2> QED
    BY <1>5, <2>1, <2>2, HoldsOn DEF Holds
<1>10. tasks' = [t \in Tasks |-> tasks'[t]]
  BY <1>1
<1> QED
  BY <1>5, <1>6, <1>7, <1>8, <1>9, <1>10, DbStep

(* An edited row keeps the hash of what was written.                       *)
LEMMA EditIs ==
  ASSUME IInv, Edit
  PROVE  /\ UNCHANGED <<now, scene, issued, tasks>> /\ InDb' = InDb
         /\ \A id \in InDb : /\ IsEntry(id, entries'[id]) /\ entries'[id].hash = entries[id].hash
                            /\ entries'[id].kind = entries[id].kind
         /\ DOMAIN outcomes' = DOMAIN outcomes
         /\ \A k \in DOMAIN outcomes : DOMAIN outcomes'[k] = Columns /\ outcomes'[k].hash = outcomes[k].hash
         /\ \A j : Revisions(j)' = Revisions(j)
<1>1. /\ UNCHANGED <<now, scene, issued, tasks>>
      /\ \/ (\E id \in InDb : entries' = [entries EXCEPT ![id].record = Forged]) /\ UNCHANGED outcomes
         \/ (\E k \in DOMAIN outcomes : outcomes' = [outcomes EXCEPT ![k].record = Forged]) /\ UNCHANGED entries
  BY DEF Edit
<1>2. /\ \A id \in InDb : IsEntry(id, entries[id]) /\ \E n \in Nat : Revisions(id) = 1 .. n
      /\ \A k \in DOMAIN outcomes :
           /\ DOMAIN outcomes[k] = Columns /\ k = <<k[1], k[2]>> /\ k[1] \in issued
           /\ k[1] \in InDb => AddsUp(outcomes[k].hash, entries[k[1]].hash.detected)
  BY DEF IInv, Kept
<1>3. InDb' = InDb /\ \A id \in InDb : IsEntry(id, entries'[id]) /\ entries'[id].hash = entries[id].hash
                                         /\ entries'[id].kind = entries[id].kind
  <2>1. CASE UNCHANGED entries
    BY <1>2, <2>1 DEF InDb
  <2>2. ASSUME NEW id \in InDb, entries' = [entries EXCEPT ![id].record = Forged]
        PROVE  InDb' = InDb /\ \A j \in InDb : IsEntry(j, entries'[j]) /\ entries'[j].hash = entries[j].hash
                                                 /\ entries'[j].kind = entries[j].kind
    <3> DEFINE row == [entries[id] EXCEPT !.record = Forged]
    <3>1. InDb' = InDb /\ entries'[id] = row /\ \A j \in InDb : j # id => entries'[j] = entries[j]
      BY <2>2 DEF InDb
    <3>2. DOMAIN entries[id] = {"id", "created", "kind", "symbol", "record", "hash"}
      BY <1>2 DEF IsEntry
    <3>3. /\ DOMAIN row = DOMAIN entries[id] /\ row.id = entries[id].id /\ row.created = entries[id].created
          /\ row.kind = entries[id].kind /\ row.hash = entries[id].hash
      BY <3>2
    <3> HIDE DEF row
    <3>4. IsEntry(id, row)
      BY <1>2, <3>3 DEF IsEntry
    <3> QED
      BY <1>2, <3>1, <3>3, <3>4
  <2> QED
    BY <1>1, <2>1, <2>2
<1>4. DOMAIN outcomes' = DOMAIN outcomes
      /\ \A k \in DOMAIN outcomes : DOMAIN outcomes'[k] = Columns /\ outcomes'[k].hash = outcomes[k].hash
  <2>1. CASE UNCHANGED outcomes
    BY <1>2, <2>1
  <2>2. ASSUME NEW k \in DOMAIN outcomes, outcomes' = [outcomes EXCEPT ![k].record = Forged]
        PROVE  DOMAIN outcomes' = DOMAIN outcomes
               /\ \A j \in DOMAIN outcomes : DOMAIN outcomes'[j] = Columns /\ outcomes'[j].hash = outcomes[j].hash
    <3> DEFINE row == [outcomes[k] EXCEPT !.record = Forged]
    <3>1. DOMAIN outcomes' = DOMAIN outcomes /\ outcomes'[k] = row
          /\ \A j \in DOMAIN outcomes : j # k => outcomes'[j] = outcomes[j]
      BY <2>2
    <3>2. DOMAIN row = Columns /\ row.hash = outcomes[k].hash
      BY <1>2 DEF Columns
    <3> HIDE DEF row
    <3> QED
      BY <1>2, <3>1, <3>2
  <2> QED
    BY <1>1, <2>1, <2>2
<1>5. \A j : Revisions(j)' = Revisions(j)
  BY <1>4 DEF Revisions
<1> QED
  BY <1>1, <1>3, <1>4, <1>5

LEMMA EditKeeps == ASSUME IInv, Edit PROVE IInv'
<1>1. UNCHANGED <<now, scene, issued, tasks>> /\ \A j : Revisions(j)' = Revisions(j)
  BY EditIs
<1>2. /\ \A id \in InDb : IsEntry(id, entries[id]) /\ \E n \in Nat : Revisions(id) = 1 .. n
      /\ \A k \in DOMAIN outcomes :
           /\ DOMAIN outcomes[k] = Columns /\ k = <<k[1], k[2]>> /\ k[1] \in issued
           /\ k[1] \in InDb => AddsUp(outcomes[k].hash, entries[k[1]].hash.detected)
  BY DEF IInv, Kept
<1>3. InDb' = InDb /\ \A id \in InDb : IsEntry(id, entries'[id]) /\ entries'[id].hash = entries[id].hash
                                         /\ entries'[id].kind = entries[id].kind
  BY EditIs
<1>4. DOMAIN outcomes' = DOMAIN outcomes
      /\ \A k \in DOMAIN outcomes : DOMAIN outcomes'[k] = Columns /\ outcomes'[k].hash = outcomes[k].hash
  BY EditIs
<1>5. Steady /\ now' <= scene.ticks
  BY <1>1, <1>3, KeptIs DEF Steady
<1>6. /\ issued' \subseteq Ids /\ InDb' \subseteq issued' /\ tasks' = [t \in Tasks |-> tasks'[t]]
      /\ \A t \in Tasks : tasks'[t] = tasks[t]
  BY <1>1, <1>3 DEF IInv, Kept
<1>7. \A j \in InDb' : IsEntry(j, entries'[j]) /\ \E n \in Nat : Revisions(j)' = 1 .. n
  BY <1>1, <1>2, <1>3
<1>8. \A k \in DOMAIN outcomes' :
        /\ DOMAIN outcomes'[k] = Columns /\ k = <<k[1], k[2]>> /\ k[1] \in issued'
        /\ k[1] \in InDb' => AddsUp(outcomes'[k].hash, entries'[k[1]].hash.detected)
  BY <1>1, <1>2, <1>3, <1>4
<1> QED
  BY <1>5, <1>6, <1>7, <1>8, DbStep

-----------------------------------------------------------------------------
LEMMA Counted ==
  ASSUME NEW n \in Nat
  PROVE  Cardinality(1 .. n) = n /\ Cardinality(0 .. n) = n + 1 /\ {0} \cup 1 .. n = 0 .. n
<1>1. Cardinality(1 .. n) = IF 1 > n THEN 0 ELSE n - 1 + 1
  BY FS_Interval
<1>2. Cardinality(0 .. n) = IF 0 > n THEN 0 ELSE n - 0 + 1
  BY FS_Interval
<1>3. {0} \cup 1 .. n = 0 .. n
  OBVIOUS
<1> QED
  BY <1>1, <1>2, <1>3

LEMMA InitHolds == Init => IInv
<1> SUFFICES ASSUME Init PROVE IInv
  OBVIOUS
<1> DEFINE db == scene.stored
           Of(id) == {k[2] : k \in {j \in DOMAIN db.outcomes : j[1] = id}}
<1>1. /\ now = 0 /\ scene \in Scenes /\ entries = db.entries /\ outcomes = db.outcomes
      /\ issued = DOMAIN entries /\ tasks = [t \in Tasks |-> Idle]
  BY DEF Init
<1>2. /\ scene.ticks \in Times
      /\ DOMAIN db.entries \subseteq Ids /\ \A id \in DOMAIN db.entries : IsEntry(id, db.entries[id])
      /\ IsFiniteSet(DOMAIN db.outcomes) /\ DOMAIN db.outcomes \subseteq (DOMAIN db.entries) \X Nat
      /\ \A id \in DOMAIN db.entries : Of(id) = 1 .. Cardinality(Of(id))
      /\ \A k \in DOMAIN db.outcomes : DOMAIN db.outcomes[k] = Columns
      /\ \A k \in DOMAIN db.outcomes : AddsUp(db.outcomes[k].hash, db.entries[k[1]].hash.detected)
  BY <1>1, ScenesAssumption
<1> HIDE DEF db
<1>3. \A id \in InDb : \E n \in Nat : Revisions(id) = 1 .. n
  <2> SUFFICES ASSUME NEW id \in InDb PROVE \E n \in Nat : Revisions(id) = 1 .. n
    OBVIOUS
  <2>1. Revisions(id) = Of(id)
    BY <1>1 DEF Revisions
  <2>2. IsFiniteSet({j \in DOMAIN db.outcomes : j[1] = id})
    BY <1>2, FS_Subset
  <2>3. IsFiniteSet(Of(id))
    <3> DEFINE mine == {j \in DOMAIN db.outcomes : j[1] = id}
               revisions == {k[2] : k \in mine}
               second == [k \in mine |-> k[2]]
    <3>1. IsFiniteSet(mine) /\ Of(id) = revisions
      BY <2>2
    <3> HIDE DEF mine
    <3>2. second \in Surjection(mine, revisions)
      BY DEF Surjection
    <3> HIDE DEF revisions, second
    <3> QED
      BY <3>1, <3>2, FS_Surjection
  <2>4. Cardinality(Of(id)) \in Nat
    BY <2>3, FS_CardinalityType
  <2>5. Of(id) = 1 .. Cardinality(Of(id))
    BY <1>1, <1>2 DEF InDb
  <2> HIDE DEF Of
  <2> QED
    BY <2>1, <2>4, <2>5
<1>4. now \in 0 .. scene.ticks
  BY <1>1, <1>2, ScenesAssumption DEF Times
<1>5. \A k \in DOMAIN outcomes : k = <<k[1], k[2]>> /\ k[1] \in issued
  BY <1>1, <1>2
<1>6. Kept
  BY <1>1, <1>2, <1>3, <1>4, <1>5 DEF Kept, InDb
<1>7. \A t \in Tasks : Holds(tasks[t])
  BY <1>1, IdleHolds
<1> QED
  BY <1>6, <1>7 DEF IInv

LEMMA NextKeeps == IInv /\ [Next]_vars => IInv'
<1> SUFFICES ASSUME IInv, [Next]_vars PROVE IInv'
  OBVIOUS
<1>1. CASE UNCHANGED vars
  <2>1. /\ UNCHANGED <<now, scene, entries, outcomes, issued, tasks>>
        /\ InDb' = InDb /\ \A j : Revisions(j)' = Revisions(j)
    BY <1>1 DEF vars, InDb, Revisions
  <2>2. Kept'
    BY <2>1 DEF IInv, Kept, IsEntry, AddsUp
  <2>3. Steady
    BY <2>1, KeptIs DEF Steady
  <2>4. \A t \in Tasks : Holds(tasks[t])'
    BY <2>1, <2>3, HeldOn
  <2> QED
    BY <2>2, <2>4 DEF IInv
<1>2. ASSUME NEW t \in Tasks, NEW log, BeginCreate(t, log) PROVE IInv'
  BY <1>2, BeginCreateKeeps
<1>3. ASSUME NEW t \in Tasks, Insert(t) PROVE IInv'
  BY <1>3, InsertKeeps
<1>4. ASSUME NEW t \in Tasks, NEW id \in issued, NEW report, BeginRecord(t, id, report) PROVE IInv'
  BY <1>4, BeginRecordKeeps
<1>5. ASSUME NEW t \in Tasks, NEW id \in issued, BeginGet(t, id) PROVE IInv'
  BY <1>5, BeginGetKeeps
<1>6. ASSUME NEW t \in Tasks, ReadEntry(t) PROVE IInv'
  BY <1>6, ReadEntryKeeps
<1>7. ASSUME NEW t \in Tasks, ReadOutcomes(t) PROVE IInv'
  BY <1>7, ReadOutcomesKeeps
<1>8. ASSUME NEW t \in Tasks, LoadCandles(t) PROVE IInv'
  BY <1>8, LoadCandlesKeeps
<1>9. ASSUME NEW t \in Tasks, ReadMax(t) PROVE IInv'
  BY <1>9, ReadMaxKeeps
<1>10. ASSUME NEW t \in Tasks, Commit(t) PROVE IInv'
  BY <1>10, CommitKeeps
<1>11. ASSUME NEW t \in Tasks, BeginExport(t) PROVE IInv'
  BY <1>11, BeginExportKeeps
<1>12. ASSUME NEW t \in Tasks, ReadPage(t) PROVE IInv'
  BY <1>12, ReadPageKeeps
<1>13. ASSUME NEW t \in Tasks, ReadPageOutcomes(t) PROVE IInv'
  BY <1>13, ReadPageOutcomesKeeps
<1>14. ASSUME NEW id \in issued, Delete(id) PROVE IInv'
  BY <1>14, DeleteKeeps
<1>15. CASE Edit
  BY <1>15, EditKeeps
<1>16. CASE Crash
  BY <1>16, CrashKeeps
<1>17. CASE Tick
  BY <1>17, TickKeeps
<1> QED
  BY <1>1, <1>2, <1>3, <1>4, <1>5, <1>6, <1>7, <1>8, <1>9, <1>10, <1>11, <1>12, <1>13, <1>14, <1>15, <1>16, <1>17
     DEF Next

(* What is stored and what the requests hold of it fits together at every  *)
(* moment, whatever other requests, edits and crashes come between.        *)
THEOREM InvariantHolds == Spec => []IInv
BY InitHolds, NextKeeps, PTL DEF Spec

(* Rows are well formed, revisions have no gaps, and the metrics of every  *)
(* outcome agree with one another and with what was found wrong when its   *)
(* trade was logged.                                                       *)
THEOREM OutcomesAlwaysAddUp == Spec => []OutcomesAddUp
<1>1. IInv => OutcomesAddUp
  <2> SUFFICES ASSUME IInv PROVE OutcomesAddUp
    OBVIOUS
  <2>1. /\ now \in 0 .. scene.ticks /\ InDb \subseteq issued /\ issued \subseteq Ids
        /\ \A id \in InDb : IsEntry(id, entries[id])
    BY DEF IInv, Kept
  <2>2. \A id \in InDb : Cardinality(Revisions(id)) \in Nat /\ Revisions(id) = 1 .. Cardinality(Revisions(id))
    BY Counted DEF IInv, Kept
  <2>3. ASSUME NEW k \in DOMAIN outcomes
        PROVE  /\ DOMAIN outcomes[k] = Columns /\ k[1] \in issued
               /\ k[1] \in InDb => k[2] \in 1 .. Cardinality(Revisions(k[1]))
    <3>1. k[2] \in Revisions(k[1])
      BY DEF Revisions
    <3> QED
      BY <2>2, <3>1 DEF IInv, Kept
  <2>4. ASSUME NEW t \in Tasks, tasks[t].at = "COMMIT", tasks[t].id \in InDb
        PROVE  tasks[t].revision \in 1 .. Cardinality(Revisions(tasks[t].id)) + 1
    <3> DEFINE n == Cardinality(Revisions(tasks[t].id))
    <3>1. n \in Nat /\ Revisions(tasks[t].id) = 1 .. n
      BY <2>2, <2>4
    <3>2. tasks[t].revision = 1 \/ \E m \in Revisions(tasks[t].id) : tasks[t].revision = m + 1
      BY <2>4 DEF IInv, Holds
    <3> HIDE DEF n
    <3>3. tasks[t].revision = 1 \/ \E m \in 1 .. n : tasks[t].revision = m + 1
      BY <3>1, <3>2
    <3>4. tasks[t].revision \in 1 .. n + 1
      BY <3>1, <3>3
    <3> QED
      BY <3>4 DEF n
  <2>5. \A k \in DOMAIN outcomes : k[1] \in InDb => AddsUp(outcomes[k].hash, entries[k[1]].hash.detected)
    BY DEF IInv, Kept
  <2> QED
    BY <2>1, <2>3, <2>4, <2>5 DEF OutcomesAddUp, TypeOK
<1> QED
  BY <1>1, InvariantHolds, PTL

-----------------------------------------------------------------------------
(* The ledger: the entries there are, each with the pages written of it.   *)
Book == [id \in InDb |-> Pages(id)]
Erased == issued \ InDb

LEMMA BookIs ==
  /\ Ledger!vars = <<Book, Erased>>
  /\ DOMAIN Book = InDb /\ \A id \in InDb : Book[id] = Pages(id)
BY DEF Ledger!vars, Book, Erased

LEMMA PagesAre ==
  ASSUME NEW id
  PROVE  /\ DOMAIN Pages(id) = {0} \cup Revisions(id) /\ Pages(id)[0] = entries[id].hash
         /\ \A p \in Revisions(id) : p # 0 => Pages(id)[p] = outcomes[<<id, p>>].hash
BY DEF Pages

(* A step that writes nothing anew.                                        *)
LEMMA PagesStay ==
  ASSUME NEW id, entries'[id].hash = entries[id].hash, Revisions(id)' = Revisions(id),
         \A p \in Revisions(id) : outcomes'[<<id, p>>].hash = outcomes[<<id, p>>].hash
  PROVE  Pages(id)' = Pages(id)
BY DEF Pages

LEMMA BookStays ==
  ASSUME issued' = issued, InDb' = InDb, \A id \in InDb : Pages(id)' = Pages(id)
  PROVE  UNCHANGED Ledger!vars
BY DEF Ledger!vars, Pages

LEMMA SameCount ==
  ASSUME NEW S
  PROVE  Ledger!Cardinality(S) = Cardinality(S)
BY Zenon DEF Ledger!Cardinality, Cardinality

(* The steps of the ledger, by the entries there are and their pages.      *)
LEMMA LogIs ==
  ASSUME NEW id, id \notin InDb \cup Erased, InDb' = InDb \cup {id}, Erased' = Erased,
         (DOMAIN Pages(id))' = {0}, \A j \in InDb : Pages(j)' = Pages(j)
  PROVE  Ledger!Log(id)
BY DEF Ledger!Log, Ledger!Others, Ledger!Restrict, Erased, Pages

LEMMA AppendIs ==
  ASSUME NEW id \in InDb, InDb' = InDb, Erased' = Erased,
         (DOMAIN Pages(id))' = 0 .. Cardinality(DOMAIN Pages(id)), DOMAIN Pages(id) \subseteq (DOMAIN Pages(id))',
         \A p \in DOMAIN Pages(id) : Pages(id)'[p] = Pages(id)[p],
         \A j \in InDb : j # id => Pages(j)' = Pages(j)
  PROVE  Ledger!AppendTo(id)
<1>1. [p \in DOMAIN Pages(id) |-> Pages(id)'[p]] = [p \in DOMAIN Pages(id) |-> Pages(id)[p]]
  OBVIOUS
<1>2. [p \in DOMAIN Pages(id) |-> Pages(id)[p]] = Pages(id)
  BY DEF Pages
<1>3. Ledger!Restrict(Pages(id)', DOMAIN Pages(id)) = Pages(id)
  BY <1>1, <1>2 DEF Ledger!Restrict
<1>4. Ledger!Others(id)
  BY DEF Ledger!Others, Ledger!Restrict, Pages
<1>5. Book[id] = Pages(id) /\ Book'[id] = Pages(id)' /\ DOMAIN Book = InDb /\ DOMAIN Book' = InDb'
  BY DEF Book
<1>6. Ledger!Restrict(Book'[id], DOMAIN Book[id]) = Book[id]
  BY <1>3, <1>5, Zenon
<1>7. DOMAIN Book'[id] = 0 .. Ledger!Cardinality(DOMAIN Book[id])
  BY <1>5, SameCount, Zenon
<1>8. id \in DOMAIN Book \cap DOMAIN Book'
  BY <1>5
<1> QED
  BY <1>4, <1>6, <1>7, <1>8, Zenon DEF Ledger!AppendTo, Erased, Book

LEMMA EraseIs ==
  ASSUME NEW id \in InDb, InDb' = InDb \ {id}, Erased' = Erased \cup {id}, \A j \in InDb' : Pages(j)' = Pages(j)
  PROVE  Ledger!Erase(id)
BY DEF Ledger!Erase, Ledger!Restrict, Erased, Pages

-----------------------------------------------------------------------------
(* Each step is one of the ledger, or none.                                *)
LEMMA WrittenAre ==
  ASSUME IInv, NEW id, NEW p \in Revisions(id)
  PROVE  <<id, p>> \in DOMAIN outcomes
<1>1. PICK k \in DOMAIN outcomes : k[1] = id /\ k[2] = p
  BY DEF Revisions
<1>2. k = <<k[1], k[2]>>
  BY DEF IInv, Kept
<1> QED
  BY <1>1, <1>2

LEMMA DatabaseStays ==
  ASSUME UNCHANGED <<entries, outcomes, issued>>
  PROVE  UNCHANGED Ledger!vars
BY DEF Ledger!vars, InDb, Pages, Revisions

LEMMA EditIsNone == ASSUME IInv, Edit PROVE UNCHANGED Ledger!vars
<1>1. /\ issued' = issued /\ InDb' = InDb /\ \A j : Revisions(j)' = Revisions(j)
      /\ \A id \in InDb : entries'[id].hash = entries[id].hash
      /\ \A k \in DOMAIN outcomes : outcomes'[k].hash = outcomes[k].hash
  BY EditIs
<1>2. \A id \in InDb : Pages(id)' = Pages(id)
  <2> SUFFICES ASSUME NEW id \in InDb PROVE Pages(id)' = Pages(id)
    OBVIOUS
  <2>1. \A p \in Revisions(id) : outcomes'[<<id, p>>].hash = outcomes[<<id, p>>].hash
    BY <1>1, WrittenAre
  <2> QED
    BY <1>1, <2>1, PagesStay
<1> QED
  BY <1>1, <1>2, BookStays

LEMMA InsertLogs == ASSUME IInv, NEW t \in Tasks, Insert(t) PROVE \E id \in Ids : Ledger!Log(id)
<1>1. PICK id \in Ids \ issued : \E row :
        /\ IsEntry(id, row) /\ entries' = Put(entries, id, row) /\ issued' = issued \cup {id}
        /\ Done(t) /\ UNCHANGED <<now, scene, outcomes>>
  BY InsertIs
<1>2. PICK row : entries' = Put(entries, id, row) /\ issued' = issued \cup {id} /\ outcomes' = outcomes
  BY <1>1
<1>3. id \notin InDb /\ InDb \subseteq issued /\ Revisions(id) = {}
  BY DEF IInv, Kept, Revisions
<1>4. InDb' = InDb \cup {id} /\ \A j \in InDb : entries'[j] = entries[j]
  <2>1. DOMAIN Put(entries, id, row) = DOMAIN entries \cup {id}
        /\ \A k \in DOMAIN entries : k # id => Put(entries, id, row)[k] = entries[k]
    BY DEF Put
  <2> QED
    BY <1>2, <1>3, <2>1 DEF InDb
<1>5. \A j : Revisions(j)' = Revisions(j)
  BY <1>2 DEF Revisions
<1>6. \A j \in InDb : Pages(j)' = Pages(j)
  BY <1>2, <1>4, <1>5, PagesStay
<1>7. (DOMAIN Pages(id))' = {0}
  <2>1. (DOMAIN Pages(id))' = {0} \cup Revisions(id)'
    BY DEF Pages
  <2> QED
    BY <1>3, <1>5, <2>1
<1>8. id \notin InDb \cup Erased /\ Erased' = Erased
  BY <1>2, <1>3, <1>4 DEF Erased
<1>9. Ledger!Log(id)
  BY <1>4, <1>6, <1>7, <1>8, LogIs
<1> QED
  BY <1>9

LEMMA DeleteErases == ASSUME IInv, NEW id \in issued, Delete(id) PROVE \E j \in Ids : Ledger!Erase(j)
<1>1. /\ id \in InDb /\ UNCHANGED <<now, scene, issued>>
      /\ entries' = Restrict(entries, InDb \ {id})
      /\ outcomes' = Restrict(outcomes, {k \in DOMAIN outcomes : k[1] # id})
  BY Zenon DEF Delete
<1>2. InDb' = InDb \ {id} /\ \A j \in InDb' : entries'[j] = entries[j]
  BY <1>1 DEF Restrict, InDb
<1>3. /\ DOMAIN outcomes' = {k \in DOMAIN outcomes : k[1] # id}
      /\ \A k \in DOMAIN outcomes' : outcomes'[k] = outcomes[k]
  BY <1>1 DEF Restrict
<1>4. \A j \in InDb' : Pages(j)' = Pages(j)
  <2> SUFFICES ASSUME NEW j \in InDb' PROVE Pages(j)' = Pages(j)
    OBVIOUS
  <2>1. j # id /\ Revisions(j)' = Revisions(j)
    BY <1>2, <1>3 DEF Revisions
  <2>2. \A p \in Revisions(j) : <<j, p>> \in DOMAIN outcomes
    BY WrittenAre
  <2>3. \A p \in Revisions(j) : outcomes'[<<j, p>>] = outcomes[<<j, p>>]
    BY <1>3, <2>1, <2>2
  <2> QED
    BY <1>2, <2>1, <2>3, PagesStay
<1>5. Erased' = Erased \cup {id} /\ id \in Ids
  BY <1>1, <1>2 DEF Erased, IInv, Kept
<1>6. Ledger!Erase(id)
  BY <1>1, <1>2, <1>4, <1>5, EraseIs
<1> QED
  BY <1>5, <1>6

(* Two recordings append one after the other, or one of them fails.        *)
LEMMA CommitAppends ==
  ASSUME IInv, NEW t \in Tasks, Commit(t)
  PROVE  (\E id \in Ids : Ledger!AppendTo(id)) \/ UNCHANGED Ledger!vars
<1> DEFINE T   == tasks[t]
           row == [at |-> T.asked, record |-> T.record, hash |-> T.record]
           key == <<T.id, T.revision>>
<1>1. /\ T.at = "COMMIT" /\ UNCHANGED <<now, scene, entries, issued>>
      /\ \/ key \notin DOMAIN outcomes /\ outcomes' = Put(outcomes, key, row)
         \/ UNCHANGED outcomes
  BY CommitIs, Zenon
<1>2. CASE UNCHANGED outcomes
  BY <1>1, <1>2, DatabaseStays
<1>3. ASSUME key \notin DOMAIN outcomes, outcomes' = Put(outcomes, key, row)
      PROVE  (\E id \in Ids : Ledger!AppendTo(id)) \/ UNCHANGED Ledger!vars
  <2>1. DOMAIN outcomes' = DOMAIN outcomes \cup {key} /\ \A k \in DOMAIN outcomes : outcomes'[k] = outcomes[k]
    <3> HIDE DEF key, row
    <3> QED
      BY <1>3 DEF Put
  <2>2. PICK id, rev : id = T.id /\ rev = T.revision
    OBVIOUS
  <2>3. InDb' = InDb /\ Erased' = Erased /\ issued' = issued
    BY <1>1 DEF InDb, Erased
  <2>4. \A j : j # id => Revisions(j)' = Revisions(j)
    BY <2>1, <2>2 DEF Revisions
  <2>5. \A j, p : p \in Revisions(j) => outcomes'[<<j, p>>] = outcomes[<<j, p>>]
    BY <2>1, WrittenAre
  <2>6. \A j \in InDb : j # id => Pages(j)' = Pages(j)
    BY <1>1, <2>4, <2>5, PagesStay
  <2>7. CASE id \notin InDb
    BY <2>3, <2>6, <2>7, BookStays
  <2>8. CASE id \in InDb
    <3>1. PICK n \in Nat : Revisions(id) = 1 .. n
      BY <2>8 DEF IInv, Kept
    <3>2. Holds(T)
      BY DEF IInv
    <3>3. rev = n + 1
      BY <1>1, <1>3, <2>2, <2>8, <3>1, <3>2, CommitIsNext
    <3>4. Revisions(id)' = Revisions(id) \cup {rev}
      <4> DEFINE mine == {k \in DOMAIN outcomes : k[1] = id}
      <4>1. key[1] = id /\ key[2] = rev
        BY <2>2
      <4> HIDE DEF key
      <4>2. {k \in DOMAIN outcomes' : k[1] = id} = mine \cup {key}
        BY <2>1, <4>1
      <4>3. {k[2] : k \in mine \cup {key}} = {k[2] : k \in mine} \cup {rev}
        BY <4>1
      <4> QED
        BY <4>2, <4>3 DEF Revisions
    <3>5. DOMAIN Pages(id) = 0 .. n /\ Cardinality(0 .. n) = n + 1
      BY <3>1, Counted, PagesAre
    <3>6. (DOMAIN Pages(id))' = 0 .. (n + 1)
      <4>1. (DOMAIN Pages(id))' = {0} \cup Revisions(id)'
        BY DEF Pages
      <4>2. {0} \cup (1 .. n \cup {n + 1}) = 0 .. (n + 1)
        OBVIOUS
      <4> QED
        BY <3>1, <3>3, <3>4, <4>1, <4>2
    <3>7. (DOMAIN Pages(id))' = 0 .. Cardinality(DOMAIN Pages(id)) /\ DOMAIN Pages(id) \subseteq (DOMAIN Pages(id))'
      BY <3>5, <3>6
    <3>8. \A p \in DOMAIN Pages(id) : Pages(id)'[p] = Pages(id)[p]
      <4> SUFFICES ASSUME NEW p \in 0 .. n PROVE Pages(id)'[p] = Pages(id)[p]
        BY <3>5
      <4>1. Pages(id)'[p] = IF p = 0 THEN entries'[id].hash ELSE outcomes'[<<id, p>>].hash
        BY <3>5, <3>7 DEF Pages
      <4>2. Pages(id)[p] = IF p = 0 THEN entries[id].hash ELSE outcomes[<<id, p>>].hash
        BY <3>5 DEF Pages
      <4>3. p # 0 => outcomes'[<<id, p>>] = outcomes[<<id, p>>]
        BY <2>5, <3>1
      <4> QED
        BY <1>1, <4>1, <4>2, <4>3
    <3>9. Ledger!AppendTo(id)
      BY <2>3, <2>6, <2>8, <3>7, <3>8, AppendIs
    <3>10. id \in Ids
      BY <2>8 DEF IInv, Kept
    <3> QED
      BY <3>9, <3>10
  <2> QED
    BY <2>7, <2>8
<1> HIDE DEF key, row
<1> QED
  BY <1>1, <1>2, <1>3

LEMMA StepIsOne == ASSUME IInv, [Next]_vars PROVE [Ledger!Next]_(Ledger!vars)
<1>1. CASE UNCHANGED <<entries, outcomes, issued>>
  BY <1>1, DatabaseStays
<1>2. ASSUME NEW t \in Tasks, Insert(t) PROVE Ledger!Next
  BY <1>2, InsertLogs, Zenon DEF Ledger!Next
<1>3. ASSUME NEW t \in Tasks, Commit(t) PROVE Ledger!Next \/ UNCHANGED Ledger!vars
  BY <1>3, CommitAppends, Zenon DEF Ledger!Next
<1>4. ASSUME NEW id \in issued, Delete(id) PROVE Ledger!Next
  BY <1>4, DeleteErases, Zenon DEF Ledger!Next
<1>5. CASE Edit
  BY <1>5, EditIsNone
<1>6. \/ UNCHANGED <<entries, outcomes, issued>>
      \/ \E t \in Tasks : Insert(t) \/ Commit(t)
      \/ \E id \in issued : Delete(id)
      \/ Edit
  BY ZenonT(40) DEF Next, vars, BeginCreate, BeginRecord, BeginGet, ReadEntry, ReadOutcomes, LoadCandles, ReadMax,
     BeginExport, ReadPage, ReadPageOutcomes, Crash, Tick
<1> QED
  BY <1>1, <1>2, <1>3, <1>4, <1>5, <1>6, Zenon

LEMMA InitIsOne == ASSUME Init, IInv PROVE Ledger!Init
<1>1. issued = InDb /\ InDb \subseteq Ids
  BY DEF Init, InDb, IInv, Kept
<1>2. ASSUME NEW id \in InDb PROVE Ledger!Numbered(Pages(id))
  <2>1. PICK n \in Nat : Revisions(id) = 1 .. n
    BY DEF IInv, Kept
  <2>2. DOMAIN Pages(id) = 0 .. n /\ Ledger!Cardinality(0 .. n) = n + 1
    BY <2>1, Counted, PagesAre, SameCount
  <2>3. n + 1 - 1 = n
    OBVIOUS
  <2> QED
    BY <2>2, <2>3 DEF Ledger!Numbered
<1>3. DOMAIN Book \subseteq Ids /\ \A id \in DOMAIN Book : Ledger!Numbered(Book[id])
  BY <1>1, <1>2, BookIs
<1>4. issued \ InDb = {}
  BY <1>1
<1> QED
  BY <1>3, <1>4, Zenon DEF Ledger!Init, Book

(* The journal implements the append-only ledger: what is written is never *)
(* rewritten, revisions are appended one by one, an entry goes whole and   *)
(* its id does not come back, whatever requests, edits and crashes do.     *)
THEOREM JournalImplementsLedger == Spec => LedgerIsKept
<1>1. Init => Ledger!Init
  BY InitHolds, InitIsOne
<1>2. IInv /\ [Next]_vars => [Ledger!Next]_(Ledger!vars)
  BY StepIsOne
<1> QED
  BY <1>1, <1>2, InvariantHolds, PTL DEF Spec, LedgerIsKept, Ledger!Spec

-----------------------------------------------------------------------------
(* Rows in the order in which they are listed.                             *)
AreRows(S) ==
  /\ IsFiniteSet(S)
  /\ \A e \in S : e.created \in Int /\ e.id \in Int
  /\ \A d, e \in S : d.id = e.id => d = e

LEMMA NewerIsAnOrder ==
  ASSUME NEW S, AreRows(S)
  PROVE  /\ \A e \in S : ~Newer(e, e)
         /\ \A d, e \in S : d # e => Newer(d, e) \/ Newer(e, d)
         /\ \A c, d, e \in S : Newer(c, d) /\ Newer(d, e) => Newer(c, e)
         /\ \A d, e \in S : Newer(d, e) => ~Newer(e, d)
BY DEF AreRows, Newer

LEMMA IsSequence ==
  ASSUME NEW S, NEW n \in Nat, NEW f \in [1 .. n -> S]
  PROVE  f \in Seq(S) /\ Len(f) = n
<1>1. f = [i \in 1 .. n |-> f[i]] /\ \A i \in 1 .. n : f[i] \in S
  OBVIOUS
<1>2. f \in Seq(S)
  BY <1>1
<1>3. DOMAIN f = 1 .. n /\ Len(f) \in Nat /\ DOMAIN f = 1 .. Len(f)
  BY <1>2, LenProperties
<1> QED
  BY <1>2, <1>3

LEMMA ListedAre ==
  ASSUME NEW S, AreRows(S)
  PROVE  LET all == NewestFirst(S)
             n   == Cardinality(S)
         IN  /\ n \in Nat /\ all \in Seq(S) /\ Len(all) = n
             /\ \A i, j \in 1 .. n : i < j => Newer(all[i], all[j])
             /\ \A e \in S : \E i \in 1 .. n : all[i] = e
<1> DEFINE n        == Cardinality(S)
           Ahead(e) == {y \in S : Newer(y, e)}
           Place(e) == Cardinality(Ahead(e)) + 1
           place    == [e \in S |-> Place(e)]
           At(i)    == CHOOSE x \in S : Cardinality({y \in S : Newer(y, x)}) = i - 1
           all      == [i \in 1 .. n |-> At(i)]
<1>1. IsFiniteSet(S) /\ n \in Nat
  BY FS_CardinalityType DEF AreRows
<1>2. \A e \in S : Cardinality(Ahead(e)) \in Nat /\ Cardinality(Ahead(e)) < n
  <2> SUFFICES ASSUME NEW e \in S PROVE Cardinality(Ahead(e)) \in Nat /\ Cardinality(Ahead(e)) < n
    OBVIOUS
  <2>1. Ahead(e) \in SUBSET S /\ e \notin Ahead(e)
    BY NewerIsAnOrder
  <2> HIDE DEF Ahead
  <2>2. /\ IsFiniteSet(Ahead(e)) /\ Cardinality(Ahead(e)) <= Cardinality(S)
        /\ Cardinality(S) = Cardinality(Ahead(e)) => S = Ahead(e)
    BY <1>1, <2>1, FS_Subset
  <2>3. Cardinality(Ahead(e)) \in Nat
    BY <2>2, FS_CardinalityType
  <2> QED
    BY <1>1, <2>1, <2>2, <2>3
<1>3. \A d, e \in S : Newer(d, e) => Place(d) < Place(e)
  <2> SUFFICES ASSUME NEW d \in S, NEW e \in S, Newer(d, e) PROVE Place(d) < Place(e)
    OBVIOUS
  <2>1. Ahead(d) \in SUBSET Ahead(e) /\ d \in Ahead(e) /\ d \notin Ahead(d) /\ Ahead(e) \in SUBSET S
    BY NewerIsAnOrder
  <2>2. Cardinality(Ahead(d)) \in Nat /\ Cardinality(Ahead(e)) \in Nat
    BY <1>2
  <2> HIDE DEF Ahead
  <2>3. IsFiniteSet(Ahead(e))
    BY <1>1, <2>1, FS_Subset
  <2>4. /\ Cardinality(Ahead(d)) <= Cardinality(Ahead(e))
        /\ Cardinality(Ahead(e)) = Cardinality(Ahead(d)) => Ahead(e) = Ahead(d)
    BY <2>1, <2>3, FS_Subset
  <2> QED
    BY <2>1, <2>2, <2>4
<1>4. \A e \in S : Place(e) \in 1 .. n
  BY <1>1, <1>2
<1> HIDE DEF Place
<1>5. \A d, e \in S : Place(d) = Place(e) => d = e
  BY <1>3, <1>4, NewerIsAnOrder
<1>6. place \in Injection(S, 1 .. n)
  <2>1. place \in [S -> 1 .. n]
    BY <1>4
  <2>2. \A d, e \in S : place[d] = place[e] => d = e
    BY <1>5
  <2> QED
    BY <2>1, <2>2 DEF Injection, IsInjective
<1>7. IsFiniteSet(1 .. n) /\ Cardinality(1 .. n) = n
  BY <1>1, Counted, FS_Interval
<1>8. place \in Surjection(S, 1 .. n)
  <2> HIDE DEF place
  <2> QED
    BY <1>6, <1>7, FS_Injection
<1>9. \A i \in 1 .. n : \E e \in S : Place(e) = i
  BY <1>8 DEF Surjection
<1>10. \A i \in 1 .. n : At(i) \in S /\ Place(At(i)) = i
  <2> SUFFICES ASSUME NEW i \in 1 .. n PROVE At(i) \in S /\ Place(At(i)) = i
    OBVIOUS
  <2>1. \E x \in S : Cardinality({y \in S : Newer(y, x)}) = i - 1
    <3>1. PICK e \in S : Place(e) = i
      BY <1>9
    <3>2. Cardinality(Ahead(e)) = i - 1
      BY <1>2, <3>1 DEF Place
    <3> QED
      BY <3>2
  <2>2. At(i) \in S /\ Cardinality({y \in S : Newer(y, At(i))}) = i - 1
    BY <2>1
  <2> HIDE DEF At
  <2> QED
    BY <2>2 DEF Place
<1> HIDE DEF At
<1>11. all \in [1 .. n -> S]
  BY <1>10
<1>12. all \in Seq(S) /\ Len(all) = n
  BY <1>1, <1>11, IsSequence
<1>13. \A i, j \in 1 .. n : i < j => Newer(all[i], all[j])
  <2> SUFFICES ASSUME NEW i \in 1 .. n, NEW j \in 1 .. n, i < j PROVE Newer(At(i), At(j))
    OBVIOUS
  <2>1. At(i) \in S /\ At(j) \in S /\ Place(At(i)) = i /\ Place(At(j)) = j
    BY <1>10
  <2>2. At(i) # At(j) /\ ~Newer(At(j), At(i))
    BY <1>1, <1>3, <2>1
  <2> QED
    BY <2>1, <2>2, NewerIsAnOrder
<1>14. \A e \in S : \E i \in 1 .. n : all[i] = e
  <2> SUFFICES ASSUME NEW e \in S PROVE \E i \in 1 .. n : all[i] = e
    OBVIOUS
  <2>1. Place(e) \in 1 .. n /\ all[Place(e)] = At(Place(e))
    BY <1>4
  <2>2. At(Place(e)) = e
    BY <1>4, <1>5, <1>10
  <2> QED
    BY <2>1, <2>2
<1>15. NewestFirst(S) = all
  BY DEF NewestFirst, At
<1> QED
  BY <1>1, <1>12, <1>13, <1>14, <1>15, Zenon

(* The outcomes of an entry that is there: one for each of its revisions.  *)
LEMMA OutcomesAre ==
  ASSUME IInv, NEW id \in InDb, NEW n \in Nat, Revisions(id) = 1 .. n
  PROVE  /\ DOMAIN OutcomesOf(id) = 1 .. n
         /\ \A i \in 1 .. n : OutcomesOf(id)[i].revision = i /\ OutcomesOf(id)[i].record = outcomes[<<id, i>>].record
<1> DEFINE At(i)     == CHOOSE x \in 1 .. n : Cardinality({y \in 1 .. n : y < x}) = i - 1
           all       == [i \in 1 .. n |-> At(i)]
           Shown(i)  == [revision |-> all[i], record |-> outcomes[<<id, all[i]>>].record,
                         integrity |-> Integrity(outcomes[<<id, all[i]>>])]
<1>1. \A i \in 1 .. n : At(i) = i
  <2>1. ASSUME NEW x \in 1 .. n PROVE Cardinality({y \in 1 .. n : y < x}) = x - 1
    <3>1. {y \in 1 .. n : y < x} = 1 .. (x - 1) /\ x - 1 \in Nat
      OBVIOUS
    <3> QED
      BY <3>1, Counted
  <2> SUFFICES ASSUME NEW i \in 1 .. n PROVE At(i) = i
    OBVIOUS
  <2>2. \E x \in 1 .. n : Cardinality({y \in 1 .. n : y < x}) = i - 1
    BY <2>1
  <2>3. At(i) \in 1 .. n /\ Cardinality({y \in 1 .. n : y < At(i)}) = i - 1
    BY <2>2
  <2> HIDE DEF At
  <2>4. At(i) - 1 = i - 1
    BY <2>1, <2>3
  <2> QED
    BY <2>3, <2>4
<1>2. Cardinality(Revisions(id)) = n
  BY Counted
<1>3. Ascending(Revisions(id)) = all
  <2>1. Ascending(Revisions(id))
          = [i \in 1 .. Cardinality(Revisions(id)) |->
               CHOOSE x \in Revisions(id) : Cardinality({y \in Revisions(id) : y < x}) = i - 1]
    BY Zenon DEF Ascending
  <2> QED
    BY <1>2, <2>1, Zenon
<1> HIDE DEF At
<1>4. DOMAIN all = 1 .. n /\ \A i \in 1 .. n : all[i] = i
  BY <1>1
<1> HIDE DEF all
<1>5. OutcomesOf(id) = [i \in 1 .. n |-> Shown(i)]
  BY <1>3, <1>4, Zenon DEF OutcomesOf
<1>6. \A i \in 1 .. n : OutcomesOf(id)[i] = Shown(i)
  BY <1>5
<1> QED
  BY <1>4, <1>5, <1>6

-----------------------------------------------------------------------------
(* A page.                                                                 *)
LEMMA LeastOfTwo ==
  ASSUME NEW a \in Int, NEW b \in Int
  PROVE  Min({a, b}) = IF a <= b THEN a ELSE b
<1>1. \E x \in {a, b} : \A y \in {a, b} : x <= y
  OBVIOUS
<1>2. Min({a, b}) \in {a, b} /\ \A y \in {a, b} : Min({a, b}) <= y
  BY <1>1 DEF Min
<1> QED
  BY <1>2

IsCursor(c) == c = Nothing \/ c \in Int \X Int

(* The rows that are listed: those there are beyond the cursor, and which  *)
(* of them are not on the page lie beyond the next one.                    *)
PageIsOf(page, cursor) ==
  LET rows == page.rows
  IN  /\ rows \in Seq(Range(entries)) /\ Len(rows) \in Nat /\ DOMAIN rows = 1 .. Len(rows)
      /\ \A i \in DOMAIN rows : rows[i].id \in InDb /\ rows[i] = entries[rows[i].id] /\ Beyond(rows[i], cursor)
      /\ \A i, j \in DOMAIN rows : i # j => rows[i].id # rows[j].id
      /\ IsCursor(page.cursor)
      /\ \A id \in InDb : Beyond(entries[id], cursor) =>
           (\E i \in DOMAIN rows : rows[i].id = id) \/ (page.cursor # Nothing /\ Beyond(entries[id], page.cursor))
      /\ page.cursor # Nothing =>
           /\ \A i \in DOMAIN rows : ~Beyond(rows[i], page.cursor)
           /\ \A id \in InDb : ~Beyond(entries[id], cursor) => ~Beyond(entries[id], page.cursor)

LEMMA EntryIs ==
  ASSUME IInv, NEW id \in InDb
  PROVE  entries[id].id = id /\ entries[id].created \in Int /\ id \in Int
BY ScenesAssumption DEF IInv, Kept, IsEntry, Times

LEMMA PageIs ==
  ASSUME IInv, IsFiniteSet(InDb), NEW cursor, IsCursor(cursor)
  PROVE  PageIsOf(Page(cursor), cursor)
<1> DEFINE S    == {e \in Range(entries) : Beyond(e, cursor)}
           all  == NewestFirst(S)
           n    == Cardinality(S)
           m    == Min({Len(all), PageSize})
           rows == SubSeq(all, 1, m)
           next == IF Len(all) > PageSize THEN <<Last(rows).created, Last(rows).id>> ELSE Nothing
           page == [rows |-> rows, cursor |-> next]
<1>1. Page(cursor) = page
  BY DEF Page
<1>2. \A e \in Range(entries) : e.id \in InDb /\ e = entries[e.id] /\ e.created \in Int /\ e.id \in Int
  BY EntryIs DEF Range, InDb
<1>3. \A id \in InDb : entries[id] \in Range(entries) /\ entries[id].id = id
  BY EntryIs DEF Range, InDb
<1>4. AreRows(S)
  <2>1. IsFiniteSet(Range(entries))
    <3> DEFINE f == [id \in InDb |-> entries[id]]
    <3>1. f \in Surjection(InDb, Range(entries))
      BY DEF Surjection, Range, InDb
    <3> HIDE DEF f
    <3> QED
      BY <3>1, FS_Surjection
  <2>2. IsFiniteSet(S)
    BY <2>1, FS_Subset
  <2> HIDE DEF S
  <2>3. S \subseteq Range(entries)
    BY DEF S
  <2> QED
    BY <1>2, <2>2, <2>3 DEF AreRows
<1> HIDE DEF S
<1>5. /\ n \in Nat /\ all \in Seq(S) /\ Len(all) = n
      /\ \A i, j \in 1 .. n : i < j => Newer(all[i], all[j])
      /\ \A e \in S : \E i \in 1 .. n : all[i] = e
  BY <1>4, ListedAre, Zenon
<1> HIDE DEF n, all
<1>6. PageSize \in Nat /\ PageSize > 0
  BY ScenesAssumption
<1>7. m = (IF n <= PageSize THEN n ELSE PageSize) /\ m \in 0 .. n
  BY <1>5, <1>6, LeastOfTwo
<1> HIDE DEF m
<1>8. \A i \in 1 .. n : all[i] \in S
  BY <1>5, LenProperties
<1>9. /\ rows \in Seq(S) /\ Len(rows) = m /\ DOMAIN rows = 1 .. m
      /\ \A i \in 1 .. m : rows[i] = all[i]
  <2>1. \A i \in 1 .. m : all[i] \in S
    BY <1>5, <1>7, <1>8
  <2>2. 1 \in Int /\ m \in Int /\ m - 1 + 1 = m /\ m \in Nat /\ \A i \in 1 .. m : 1 + i - 1 = i
    BY <1>5, <1>7
  <2>3. /\ rows \in Seq(S) /\ Len(rows) = (IF 1 <= m THEN m - 1 + 1 ELSE 0)
        /\ \A i \in 1 .. m - 1 + 1 : rows[i] = all[1 + i - 1]
    BY <2>1, <2>2, SubSeqProperties
  <2>4. Len(rows) = m
    BY <2>2, <2>3
  <2> QED
    BY <2>2, <2>3, <2>4, LenProperties
<1> HIDE DEF rows
<1>10. /\ n > PageSize => m = PageSize /\ next = <<rows[m].created, rows[m].id>>
       /\ n <= PageSize => m = n /\ next = Nothing
  BY <1>5, <1>6, <1>7, <1>9 DEF Last
<1> HIDE DEF next
<1>11. S \subseteq Range(entries) /\ \A e \in S : Beyond(e, cursor)
  BY DEF S
<1>12. rows \in Seq(Range(entries))
  BY <1>9, <1>11
<1>13. \A i \in 1 .. m : rows[i].id \in InDb /\ rows[i] = entries[rows[i].id] /\ Beyond(rows[i], cursor)
  BY <1>2, <1>7, <1>8, <1>9, <1>11
<1>14. \A i, j \in 1 .. m : i # j => rows[i].id # rows[j].id
  <2>1. ASSUME NEW i \in 1 .. m, NEW j \in 1 .. m, i < j PROVE rows[i].id # rows[j].id
    <3>1. Newer(all[i], all[j]) /\ all[i] \in S /\ all[j] \in S /\ i \in 1 .. n /\ j \in 1 .. n
      BY <1>5, <1>7, <1>8, <2>1
    <3>2. all[i] # all[j]
      BY <1>4, <3>1, NewerIsAnOrder
    <3> QED
      BY <1>4, <1>9, <3>1, <3>2 DEF AreRows
  <2> QED
    BY <1>7, <2>1
<1>15. n > PageSize => m \in 1 .. n /\ all[m] \in S /\ rows[m] = all[m] /\ rows[m].created \in Int /\ rows[m].id \in Int
  BY <1>2, <1>5, <1>6, <1>8, <1>9, <1>10, <1>11
<1>16. next # Nothing => n > PageSize /\ next[1] = all[m].created /\ next[2] = all[m].id
  BY <1>5, <1>6, <1>10, <1>15
<1>17. IsCursor(next)
  BY <1>5, <1>6, <1>10, <1>15 DEF IsCursor
<1>18. n > PageSize => next # Nothing
  BY <1>10, <1>15, ScenesAssumption
<1>19. \A e \in S : e.created \in Int /\ e.id \in Int
  BY <1>4 DEF AreRows
<1>20. ASSUME next # Nothing, NEW i \in 1 .. m PROVE ~Beyond(rows[i], next)
  <2>1. i \in 1 .. n /\ all[i] \in S /\ all[m] \in S /\ (i = m \/ Newer(all[i], all[m]))
    BY <1>5, <1>7, <1>8, <1>15, <1>16, <1>20
  <2>2. all[i].created \in Int /\ all[i].id \in Int /\ all[m].created \in Int /\ all[m].id \in Int
    BY <1>19, <2>1
  <2> QED
    BY <1>9, <1>16, <1>20, <2>1, <2>2 DEF Beyond, Newer
<1>21. ASSUME next # Nothing, NEW id \in InDb, ~Beyond(entries[id], cursor) PROVE ~Beyond(entries[id], next)
  <2>1. all[m] \in S /\ Beyond(all[m], cursor) /\ all[m].created \in Int /\ all[m].id \in Int
    BY <1>11, <1>15, <1>16, <1>19, <1>21
  <2>2. cursor # Nothing /\ cursor \in Int \X Int
    BY <1>21 DEF Beyond, IsCursor
  <2>3. cursor[1] \in Int /\ cursor[2] \in Int
    BY <2>2
  <2>4. entries[id].created \in Int /\ entries[id].id \in Int
    BY EntryIs
  <2> QED
    BY <1>16, <1>21, <2>1, <2>2, <2>3, <2>4 DEF Beyond
<1>22. ASSUME NEW id \in InDb, Beyond(entries[id], cursor)
       PROVE  (\E i \in 1 .. m : rows[i].id = id) \/ (next # Nothing /\ Beyond(entries[id], next))
  <2>1. entries[id] \in S /\ entries[id].id = id
    BY <1>3, <1>22 DEF S
  <2>2. PICK i \in 1 .. n : all[i] = entries[id]
    BY <1>5, <2>1
  <2>3. CASE i <= m
    BY <1>5, <1>7, <1>9, <2>1, <2>2, <2>3
  <2>4. CASE i > m
    <3>1. n > PageSize /\ m \in 1 .. n
      BY <1>5, <1>6, <1>7, <1>10, <1>15, <2>4
    <3>2. Newer(all[m], all[i]) /\ next # Nothing
      BY <1>5, <1>18, <2>4, <3>1
    <3>3. all[i].created \in Int /\ all[i].id \in Int /\ all[m].created \in Int /\ all[m].id \in Int
      BY <1>8, <1>19, <3>1
    <3>4. Beyond(all[i], next)
      BY <1>16, <3>2, <3>3 DEF Beyond, Newer
    <3> QED
      BY <2>2, <3>2, <3>4
  <2> QED
    BY <1>5, <1>7, <2>3, <2>4
<1>23. page.rows = rows /\ page.cursor = next
  OBVIOUS
<1> HIDE DEF page
<1>24. m \in Nat
  BY <1>5, <1>7
<1> QED
  BY <1>1, <1>9, <1>12, <1>13, <1>14, <1>17, <1>20, <1>21, <1>22, <1>23, <1>24 DEF PageIsOf

-----------------------------------------------------------------------------
(* Why replies are true: what a request holds besides.                     *)
IsSeq(s) == s \in Seq(Range(s))
Has(s, id) == \E i \in DOMAIN s : s[i].id = id
Distinct(s) == \A i, j \in DOMAIN s : i # j => s[i].id # s[j].id
Apart(s, r) == \A i \in DOMAIN s, j \in DOMAIN r : s[i].id # r[j].id
ShownClosed(views, closed) == \A i \in DOMAIN views : views[i].id \in closed => views[i].status = "CLOSED"

(* An entry in front of a cursor is not listed again.                      *)
Passed(id, cursor) == id \in issued /\ (id \in InDb => ~Beyond(entries[id], cursor))

(* An export has, of what was there all along, what is in its views or in  *)
(* the page it holds; the rest lies beyond its cursor.                     *)
Exports(T) ==
  /\ IsSeq(T.views) /\ IsSeq(T.rows) /\ IsCursor(T.cursor)
  /\ Distinct(T.views) /\ ShownClosed(T.views, T.closed)
  /\ T.at = "PAGE" =>
       /\ \A i \in DOMAIN T.views : Passed(T.views[i].id, T.cursor)
       /\ \A id \in T.there : Has(T.views, id) \/ Beyond(entries[id], T.cursor)
  /\ T.at = "PAGE_OUTCOMES" =>
       /\ Distinct(T.rows) /\ Apart(T.views, T.rows)
       /\ T.cursor # Nothing =>
            /\ \A i \in DOMAIN T.views : Passed(T.views[i].id, T.cursor)
            /\ \A i \in DOMAIN T.rows : Passed(T.rows[i].id, T.cursor)
       /\ \A id \in T.there :
            Has(T.views, id) \/ Has(T.rows, id) \/ (T.cursor # Nothing /\ Beyond(entries[id], T.cursor))

(* What was there when a request began and was not deleted since is there; *)
(* an outcome that was recorded is in the database, as it was or edited.   *)
Truthful(T) ==
  /\ T.there \subseteq InDb /\ T.closed \subseteq T.there /\ \A id \in T.closed : Revisions(id) # {}
  /\ T.at = "OUTCOMES" => T.row.id = T.id
  /\ T.at \in {"ENTRY", "OUTCOMES"} /\ T.job = "ANSWER" /\ T.id \in T.there =>
       <<T.id, T.revision>> \in DOMAIN outcomes /\ outcomes[<<T.id, T.revision>>].record \in {T.record, Forged}
  /\ T.at \in {"PAGE", "PAGE_OUTCOMES"} => Exports(T)

TInv == IsFiniteSet(InDb) /\ \A t \in Tasks : Truthful(tasks[t])

(* A step that leaves entries in their place in the list, takes no outcome *)
(* of an entry that stays, and changes one only behind the journal's back. *)
Calm ==
  /\ issued \subseteq issued'
  /\ \A id \in issued : id \in InDb' =>
       /\ id \in InDb /\ entries'[id].created = entries[id].created /\ entries'[id].id = entries[id].id
       /\ Revisions(id) \subseteq Revisions(id)'
  /\ \A k \in DOMAIN outcomes : k[1] \in InDb' =>
       k \in DOMAIN outcomes' /\ outcomes'[k].record \in {outcomes[k].record, Forged}

LEMMA PassedOn ==
  ASSUME IInv, Calm, NEW cursor
  PROVE  /\ \A id : Passed(id, cursor) => Passed(id, cursor)'
         /\ \A id \in InDb : id \in InDb' => (Beyond(entries'[id], cursor) <=> Beyond(entries[id], cursor))
BY DEF Calm, Passed, Beyond, IInv, Kept

LEMMA TruthOn ==
  ASSUME IInv, Calm, NEW T, Truthful(T), T.there \subseteq InDb'
  PROVE  Truthful(T)'
<1>1. T.there \subseteq InDb /\ InDb \subseteq issued /\ T.closed \subseteq T.there
  BY DEF Truthful, IInv, Kept
<1>2. \A id \in T.closed : Revisions(id)' # {}
  BY <1>1 DEF Truthful, Calm
<1>3. ASSUME T.at \in {"ENTRY", "OUTCOMES"}, T.job = "ANSWER", T.id \in T.there
      PROVE  <<T.id, T.revision>> \in DOMAIN outcomes' /\ outcomes'[<<T.id, T.revision>>].record \in {T.record, Forged}
  <2> DEFINE k == <<T.id, T.revision>>
  <2>1. k \in DOMAIN outcomes /\ outcomes[k].record \in {T.record, Forged} /\ k[1] \in InDb'
    BY <1>3 DEF Truthful
  <2> HIDE DEF k
  <2>2. k \in DOMAIN outcomes' /\ outcomes'[k].record \in {T.record, Forged}
    BY <2>1 DEF Calm
  <2> QED
    BY <2>2 DEF k
<1>4. ASSUME Exports(T) PROVE Exports(T)'
  <2>1. \A id : Passed(id, T.cursor) => Passed(id, T.cursor)'
    BY PassedOn
  <2>2. \A id \in T.there : Beyond(entries[id], T.cursor) => Beyond(entries'[id], T.cursor)
    BY <1>1, PassedOn
  <2> QED
    BY <1>4, <2>1, <2>2 DEF Exports, Beyond
<1> QED
  BY <1>1, <1>2, <1>3, <1>4 DEF Truthful

LEMMA SameTruth ==
  ASSUME NEW t, NEW T, T = tasks'[t], Truthful(T)'
  PROVE  Truthful(tasks[t])'
<1>1. Exports(T)' => Exports(tasks[t])'
  BY DEF Exports, Passed, Beyond
<1> QED
  BY <1>1 DEF Truthful

LEMMA TruthfulOn ==
  ASSUME IInv, TInv, Calm, NEW t \in Tasks, tasks'[t] = tasks[t], tasks[t].there \subseteq InDb'
  PROVE  Truthful(tasks[t])'
<1>1. PICK T : T = tasks[t]
  OBVIOUS
<1>2. Truthful(T)
  BY <1>1 DEF TInv
<1>3. Truthful(T)'
  BY <1>1, <1>2, TruthOn
<1>4. T = tasks'[t]
  BY <1>1
<1> QED
  BY <1>3, <1>4, SameTruth

(* A step of a request that leaves the database as it is.                  *)
LEMMA TruthStep ==
  ASSUME IInv, TInv, NEW t \in Tasks, NEW new, Become(t, new), Truthful(new),
         UNCHANGED <<now, scene, entries, outcomes, issued>>
  PROVE  TInv'
<1>1. tasks'[t] = new /\ \A u \in Tasks : u # t => tasks'[u] = tasks[u]
  BY TaskDone
<1>2. InDb' = InDb /\ \A id : Revisions(id)' = Revisions(id)
  BY DEF InDb, Revisions
<1>3. Calm
  BY <1>2 DEF Calm
<1>4. Truthful(tasks[t])'
  <2>1. Truthful(new)'
    BY <1>2, <1>3, TruthOn DEF Truthful
  <2> QED
    BY <1>1, <2>1, SameTruth
<1>5. \A u \in Tasks : u # t => Truthful(tasks[u])'
  <2> SUFFICES ASSUME NEW u \in Tasks, u # t PROVE Truthful(tasks[u])'
    OBVIOUS
  <2>1. tasks[u].there \subseteq InDb'
    BY <1>2 DEF TInv, Truthful
  <2> QED
    BY <1>1, <1>3, <2>1, TruthfulOn
<1>6. IsFiniteSet(InDb)'
  BY <1>2 DEF TInv
<1> QED
  BY <1>4, <1>5, <1>6 DEF TInv

(* A step that changes the database.                                       *)
LEMMA TruthDb ==
  ASSUME IInv, TInv, Calm, IsFiniteSet(InDb)', NEW t,
         \A u \in Tasks : u # t => tasks'[u] = tasks[u] /\ tasks[u].there \subseteq InDb',
         t \in Tasks => Truthful(tasks[t])'
  PROVE  TInv'
<1>1. \A u \in Tasks : Truthful(tasks[u])'
  BY TruthfulOn
<1> QED
  BY <1>1 DEF TInv

LEMMA IdleHas == /\ Idle.job = Nothing /\ Idle.there = {} /\ Idle.closed = {} /\ Idle.views = <<>> /\ Idle.rows = <<>>
                 /\ Idle.cursor = Nothing
BY DEF Idle

LEMMA IdleIsTruthful == Truthful(Idle)
BY IdleIs, IdleHas DEF Truthful

LEMMA DoneIsTrue ==
  ASSUME IInv, TInv, NEW t \in Tasks, Done(t), UNCHANGED <<now, scene, entries, outcomes, issued>>
  PROVE  TInv'
BY IdleIsTruthful, TruthStep DEF Done

(* A request begins with what is there.                                    *)
Opened == {id \in InDb : Revisions(id) # {}}

LEMMA BegunHas ==
  ASSUME NEW job
  PROVE  /\ Begun(job).there = InDb /\ Begun(job).closed = Opened
         /\ Begun(job).views = <<>> /\ Begun(job).rows = <<>> /\ Begun(job).cursor = Nothing
<1> DEFINE one   == [Idle EXCEPT !.job = job]
           two   == [one EXCEPT !.asked = now]
           three == [two EXCEPT !.there = InDb]
           four  == [three EXCEPT !.closed = Opened]
           Blank(T) == DOMAIN T = DOMAIN Idle /\ T.views = <<>> /\ T.rows = <<>> /\ T.cursor = Nothing
<1>1. Begun(job) = four
  BY DEF Begun, Opened
<1>2. Blank(one)
  BY IdleIs, IdleHas
<1> HIDE DEF one
<1>3. Blank(two)
  BY <1>2, IdleIs
<1> HIDE DEF two
<1>4. Blank(three) /\ three.there = InDb
  BY <1>3, IdleIs
<1> HIDE DEF three
<1>5. Blank(four) /\ four.there = InDb /\ four.closed = Opened
  BY <1>4, IdleIs
<1> QED
  BY <1>1, <1>5

Same(T, U, fields) == \A f \in fields : U[f] = T[f]
Past == {"there", "closed"}

(* Setting some fields leaves what was there, what was shown and the rest. *)
LEMMA SetsLeave ==
  ASSUME NEW T, DOMAIN T = DOMAIN Idle, NEW a, NEW b, NEW c, NEW d
  PROVE  /\ LET U == [T EXCEPT !.at = a, !.log = b] IN Same(T, U, Past \cup {"job"})
         /\ LET U == [T EXCEPT !.at = a, !.id = b, !.report = c] IN Same(T, U, Past \cup {"job"})
         /\ LET U == [T EXCEPT !.at = a, !.id = b] IN Same(T, U, Past \cup {"job"})
         /\ LET U == [T EXCEPT !.at = a, !.row = b] IN Same(T, U, Past \cup {"job", "id", "record", "revision"})
         /\ LET U == [T EXCEPT !.at = a, !.asked = b, !.row = c, !.views = d] IN Same(T, U, Past \cup {"job"})
         /\ LET U == [T EXCEPT !.at = a, !.views = b, !.record = c] IN Same(T, U, Past \cup {"job"})
         /\ LET U == [T EXCEPT !.at = a, !.revision = b] IN Same(T, U, Past \cup {"job"})
         /\ LET U == [T EXCEPT !.at = a, !.job = b] IN Same(T, U, Past \cup {"id", "record", "revision"})
         /\ LET U == [T EXCEPT !.at = a] IN Same(T, U, Past \cup {"job", "views", "rows", "cursor"})
         /\ LET U == [T EXCEPT !.at = a, !.rows = b, !.cursor = c]
            IN  Same(T, U, Past \cup {"job", "views"}) /\ U.rows = b /\ U.cursor = c
         /\ LET U == [T EXCEPT !.at = a, !.rows = b, !.views = c]
            IN  Same(T, U, Past \cup {"job", "cursor"}) /\ U.rows = b /\ U.views = c
BY IdleIs, SMTT(60) DEF Same, Past

(* A request that neither lists nor answers a recording.                   *)
LEMMA PlainIsTruthful ==
  ASSUME NEW T, NEW U, Truthful(T), Same(T, U, Past \cup {"job"}), U.at \notin {"OUTCOMES", "PAGE", "PAGE_OUTCOMES"},
         U.at = "ENTRY" => U.job # "ANSWER"
  PROVE  Truthful(U)
<1>1. U.there = T.there /\ U.closed = T.closed
  BY DEF Same, Past
<1> QED
  BY <1>1 DEF Truthful

LEMMA BegunIsTruthful ==
  ASSUME NEW job, job # "ANSWER", NEW U, Same(Begun(job), U, Past \cup {"job"}),
         U.at \notin {"OUTCOMES", "PAGE", "PAGE_OUTCOMES"}
  PROVE  Truthful(U)
<1>1. U.there = InDb /\ U.closed = Opened /\ U.job = job
  BY BegunIs, BegunHas DEF Same, Past
<1> QED
  BY <1>1 DEF Truthful, Opened

LEMMA BeginCreateIsTrue ==
  ASSUME IInv, TInv, NEW t \in Tasks, NEW log, BeginCreate(t, log)
  PROVE  TInv'
<1> DEFINE new == [Begun("CREATE") EXCEPT !.at = "INSERT", !.log = log]
<1>1. Become(t, new) /\ UNCHANGED <<now, scene, entries, outcomes, issued>>
  BY DEF BeginCreate
<1>2. new.at = "INSERT" /\ Same(Begun("CREATE"), new, Past \cup {"job"})
  <2>1. new.at = "INSERT"
    BY BegunIs, Sets
  <2>2. Same(Begun("CREATE"), new, Past \cup {"job"})
    BY BegunIs, SetsLeave
  <2> QED
    BY <2>1, <2>2
<1> HIDE DEF new
<1>3. Truthful(new)
  BY <1>2, BegunIsTruthful
<1> QED
  BY <1>1, <1>3, TruthStep

LEMMA BeginRecordIsTrue ==
  ASSUME IInv, TInv, NEW t \in Tasks, NEW id, NEW report, BeginRecord(t, id, report)
  PROVE  TInv'
<1> DEFINE new == [Begun("RECORD") EXCEPT !.at = "ENTRY", !.id = id, !.report = report]
<1>1. Become(t, new) /\ UNCHANGED <<now, scene, entries, outcomes, issued>>
  BY DEF BeginRecord
<1>2. new.at = "ENTRY" /\ Same(Begun("RECORD"), new, Past \cup {"job"})
  <2>1. new.at = "ENTRY"
    BY BegunIs, Sets
  <2>2. Same(Begun("RECORD"), new, Past \cup {"job"})
    BY BegunIs, SetsLeave
  <2> QED
    BY <2>1, <2>2
<1> HIDE DEF new
<1>3. Truthful(new)
  BY <1>2, BegunIsTruthful
<1> QED
  BY <1>1, <1>3, TruthStep

LEMMA BeginGetIsTrue ==
  ASSUME IInv, TInv, NEW t \in Tasks, NEW id, BeginGet(t, id)
  PROVE  TInv'
<1> DEFINE new == [Begun("GET") EXCEPT !.at = "ENTRY", !.id = id]
<1>1. Become(t, new) /\ UNCHANGED <<now, scene, entries, outcomes, issued>>
  BY DEF BeginGet
<1>2. new.at = "ENTRY" /\ Same(Begun("GET"), new, Past \cup {"job"})
  <2>1. new.at = "ENTRY"
    BY BegunIs, Sets
  <2>2. Same(Begun("GET"), new, Past \cup {"job"})
    BY BegunIs, SetsLeave
  <2> QED
    BY <2>1, <2>2
<1> HIDE DEF new
<1>3. Truthful(new)
  BY <1>2, BegunIsTruthful
<1> QED
  BY <1>1, <1>3, TruthStep

LEMMA BeginExportIsTrue ==
  ASSUME IInv, TInv, NEW t \in Tasks, BeginExport(t)
  PROVE  TInv'
<1> DEFINE new == [Begun("EXPORT") EXCEPT !.at = "PAGE"]
<1>1. Become(t, new) /\ UNCHANGED <<now, scene, entries, outcomes, issued>>
  BY DEF BeginExport
<1>2. new.at = "PAGE" /\ Same(Begun("EXPORT"), new, Past \cup {"job", "views", "rows", "cursor"})
  <2>1. new.at = "PAGE"
    BY BegunIs, Sets
  <2>2. Same(Begun("EXPORT"), new, Past \cup {"job", "views", "rows", "cursor"})
    BY BegunIs, SetsLeave
  <2> QED
    BY <2>1, <2>2
<1> HIDE DEF new
<1>3. /\ new.there = InDb /\ new.closed = Opened
      /\ new.views = <<>> /\ new.rows = <<>> /\ new.cursor = Nothing
  BY <1>2, BegunHas DEF Same, Past
<1>4. Exports(new)
  <2>1. IsSeq(<<>>) /\ DOMAIN <<>> = {}
    BY DEF IsSeq
  <2>2. \A id : Beyond(entries[id], Nothing)
    BY DEF Beyond
  <2> QED
    BY <1>2, <1>3, <2>1, <2>2 DEF Exports, IsCursor, Distinct, ShownClosed
<1>5. Truthful(new)
  BY <1>2, <1>3, <1>4 DEF Truthful, Opened
<1> QED
  BY <1>1, <1>5, TruthStep

LEMMA ReadEntryIsTrue ==
  ASSUME IInv, TInv, NEW t \in Tasks, ReadEntry(t)
  PROVE  TInv'
<1> DEFINE T == tasks[t]
           new == [T EXCEPT !.at = "OUTCOMES", !.row = entries[T.id]]
<1>1. /\ T.at = "ENTRY"
      /\ (Become(t, new) /\ T.id \in InDb) \/ Done(t)
      /\ UNCHANGED <<now, scene, entries, outcomes, issued>>
  BY DEF ReadEntry
<1>2. Truthful(T) /\ DOMAIN T = DOMAIN Idle
  BY DEF TInv, IInv, Holds
<1>3. ASSUME T.id \in InDb PROVE Truthful(new)
  <2>1. new.at = "OUTCOMES" /\ new.row = entries[T.id]
    BY <1>2, Sets
  <2>2. Same(T, new, Past \cup {"job", "id", "record", "revision"})
    BY <1>2, SetsLeave
  <2> HIDE DEF new
  <2>3. /\ new.there = T.there /\ new.closed = T.closed /\ new.job = T.job /\ new.id = T.id
        /\ new.record = T.record /\ new.revision = T.revision
    BY <2>2 DEF Same, Past
  <2>4. new.row.id = new.id
    BY <1>3, <2>1, <2>3, EntryIs
  <2> QED
    BY <1>1, <1>2, <2>1, <2>3, <2>4 DEF Truthful
<1> HIDE DEF new
<1> QED
  BY <1>1, <1>3, TruthStep, DoneIsTrue

LEMMA ReadOutcomesIsTrue ==
  ASSUME IInv, TInv, NEW t \in Tasks, ReadOutcomes(t)
  PROVE  TInv'
<1> DEFINE T    == tasks[t]
           view == View(T.row, OutcomesOf(T.id))
           new  == [T EXCEPT !.at = "CANDLES", !.asked = now, !.row = Nothing, !.views = <<view>>]
<1>1. /\ Become(t, new) \/ Done(t)
      /\ UNCHANGED <<now, scene, entries, outcomes, issued>>
  BY DEF ReadOutcomes
<1>2. Truthful(T) /\ DOMAIN T = DOMAIN Idle
  BY DEF TInv, IInv, Holds
<1> HIDE DEF view
<1>3. new.at = "CANDLES" /\ Same(T, new, Past \cup {"job"})
  <2>1. new.at = "CANDLES"
    BY <1>2, Sets
  <2>2. Same(T, new, Past \cup {"job"})
    BY <1>2, SetsLeave
  <2> QED
    BY <2>1, <2>2
<1> HIDE DEF new
<1>4. Truthful(new)
  BY <1>2, <1>3, PlainIsTruthful
<1> QED
  BY <1>1, <1>4, TruthStep, DoneIsTrue

LEMMA LoadCandlesIsTrue ==
  ASSUME IInv, TInv, NEW t \in Tasks, LoadCandles(t)
  PROVE  TInv'
<1>1. /\ UNCHANGED <<now, scene, entries, outcomes, issued>>
      /\ \E record : Become(t, [tasks[t] EXCEPT !.at = "MAX", !.views = <<>>, !.record = record])
  BY Zenon DEF LoadCandles
<1>2. PICK record : Become(t, [tasks[t] EXCEPT !.at = "MAX", !.views = <<>>, !.record = record])
  BY <1>1
<1> DEFINE new == [tasks[t] EXCEPT !.at = "MAX", !.views = <<>>, !.record = record]
<1>3. Truthful(tasks[t]) /\ DOMAIN tasks[t] = DOMAIN Idle
  BY DEF TInv, IInv, Holds
<1>4. new.at = "MAX" /\ Same(tasks[t], new, Past \cup {"job"})
  <2>1. new.at = "MAX"
    BY <1>3, Sets
  <2>2. Same(tasks[t], new, Past \cup {"job"})
    BY <1>3, SetsLeave
  <2> QED
    BY <2>1, <2>2
<1>5. Become(t, new)
  BY <1>2
<1> HIDE DEF new
<1>6. Truthful(new)
  BY <1>3, <1>4, PlainIsTruthful
<1> QED
  BY <1>1, <1>5, <1>6, TruthStep

LEMMA ReadMaxIsTrue ==
  ASSUME IInv, TInv, NEW t \in Tasks, ReadMax(t)
  PROVE  TInv'
<1> DEFINE T == tasks[t]
           new == [T EXCEPT !.at = "COMMIT", !.revision = NextRevision(T.id)]
<1>1. Become(t, new) /\ UNCHANGED <<now, scene, entries, outcomes, issued>>
  BY DEF ReadMax
<1>2. Truthful(T) /\ DOMAIN T = DOMAIN Idle
  BY DEF TInv, IInv, Holds
<1>3. new.at = "COMMIT" /\ Same(T, new, Past \cup {"job"})
  <2>1. new.at = "COMMIT"
    BY <1>2, Sets
  <2>2. Same(T, new, Past \cup {"job"})
    BY <1>2, SetsLeave
  <2> QED
    BY <2>1, <2>2
<1> HIDE DEF new
<1>4. Truthful(new)
  BY <1>2, <1>3, PlainIsTruthful
<1> QED
  BY <1>1, <1>4, TruthStep

LEMMA StillDatabase ==
  ASSUME IInv, TInv, UNCHANGED <<entries, outcomes, issued>>
  PROVE  Calm /\ InDb' = InDb /\ IsFiniteSet(InDb)' /\ \A u \in Tasks : tasks[u].there \subseteq InDb'
<1>1. InDb' = InDb /\ \A id : Revisions(id)' = Revisions(id)
  BY DEF InDb, Revisions
<1>2. Calm
  BY <1>1 DEF Calm
<1> QED
  BY <1>1, <1>2 DEF TInv, Truthful

LEMMA TickIsTrue ==
  ASSUME IInv, TInv, UNCHANGED <<entries, outcomes, issued, tasks>>
  PROVE  TInv'
<1>1. Calm /\ InDb' = InDb /\ IsFiniteSet(InDb)' /\ \A u \in Tasks : tasks[u].there \subseteq InDb'
  BY StillDatabase
<1>2. \A u \in Tasks : Truthful(tasks[u])'
  BY <1>1, TruthfulOn
<1> QED
  BY <1>1, <1>2 DEF TInv

LEMMA IdleIsTruthfulOn ==
  ASSUME NEW t, tasks'[t] = Idle
  PROVE  Truthful(tasks[t])'
BY IdleIs, IdleHas DEF Truthful

LEMMA CrashIsTrue == ASSUME IInv, TInv, Crash PROVE TInv'
<1>1. tasks' = [t \in Tasks |-> Idle] /\ UNCHANGED <<entries, outcomes, issued>>
  BY DEF Crash
<1>2. IsFiniteSet(InDb)'
  BY <1>1, StillDatabase
<1>3. \A t \in Tasks : Truthful(tasks[t])'
  BY <1>1, IdleIsTruthfulOn
<1> QED
  BY <1>2, <1>3 DEF TInv

LEMMA InsertIsTrue == ASSUME IInv, TInv, NEW t \in Tasks, Insert(t) PROVE TInv'
<1>1. PICK id \in Ids \ issued : \E row :
        /\ IsEntry(id, row) /\ entries' = Put(entries, id, row) /\ issued' = issued \cup {id}
        /\ Done(t) /\ UNCHANGED <<now, scene, outcomes>>
  BY InsertIs
<1>2. PICK row : entries' = Put(entries, id, row) /\ issued' = issued \cup {id} /\ outcomes' = outcomes /\ Done(t)
  BY <1>1
<1>3. id \notin InDb /\ InDb \subseteq issued
  BY DEF IInv, Kept
<1>4. InDb' = InDb \cup {id} /\ \A j \in InDb : entries'[j] = entries[j]
  <2>1. DOMAIN Put(entries, id, row) = DOMAIN entries \cup {id}
        /\ \A k \in DOMAIN entries : k # id => Put(entries, id, row)[k] = entries[k]
    BY DEF Put
  <2> QED
    BY <1>2, <1>3, <2>1 DEF InDb
<1>5. \A j : Revisions(j)' = Revisions(j)
  BY <1>2 DEF Revisions
<1>6. Calm
  BY <1>2, <1>4, <1>5 DEF Calm
<1>7. IsFiniteSet(InDb)'
  BY <1>4, FS_AddElement DEF TInv
<1>8. tasks'[t] = Idle /\ \A u \in Tasks : u # t => tasks'[u] = tasks[u]
  BY <1>2, TaskDone DEF Done
<1>9. Truthful(tasks[t])'
  BY <1>8, IdleIsTruthfulOn
<1>10. \A u \in Tasks : tasks[u].there \subseteq InDb'
  BY <1>4 DEF TInv, Truthful
<1> QED
  BY <1>6, <1>7, <1>8, <1>9, <1>10, TruthDb

(* The outcome a recording answers with is in the database.                *)
LEMMA CommitIsTrue == ASSUME IInv, TInv, NEW t \in Tasks, Commit(t) PROVE TInv'
<1> DEFINE T   == tasks[t]
           row == [at |-> T.asked, record |-> T.record, hash |-> T.record]
           key == <<T.id, T.revision>>
           new == [T EXCEPT !.at = "ENTRY", !.job = "ANSWER"]
<1>1. /\ T.at = "COMMIT" /\ UNCHANGED <<now, scene, entries, issued>>
      /\ \/ key \notin DOMAIN outcomes /\ outcomes' = Put(outcomes, key, row) /\ Become(t, new)
         \/ Done(t) /\ UNCHANGED outcomes
  BY CommitIs, Zenon
<1>2. ASSUME key \notin DOMAIN outcomes, outcomes' = Put(outcomes, key, row), Become(t, new)
      PROVE  TInv'
  <2>1. Truthful(T) /\ DOMAIN T = DOMAIN Idle
    BY DEF TInv, IInv, Holds
  <2>2. /\ DOMAIN outcomes' = DOMAIN outcomes \cup {key} /\ outcomes'[key] = row
        /\ \A k \in DOMAIN outcomes : outcomes'[k] = outcomes[k]
    <3> HIDE DEF key, row
    <3> QED
      BY <1>2 DEF Put
  <2>3. InDb' = InDb /\ \A j : Revisions(j) \subseteq Revisions(j)'
    BY <1>1, <2>2 DEF Revisions, InDb
  <2>4. Calm
    <3> HIDE DEF key
    <3> QED
      BY <1>1, <2>2, <2>3 DEF Calm
  <2>5. IsFiniteSet(InDb)' /\ \A u \in Tasks : tasks[u].there \subseteq InDb'
    BY <2>3 DEF TInv, Truthful
  <2>6. tasks'[t] = new /\ \A u \in Tasks : u # t => tasks'[u] = tasks[u]
    BY <1>2, TaskDone
  <2>7. new.at = "ENTRY"
    BY <2>1, Sets
  <2>8. Same(T, new, Past \cup {"id", "record", "revision"})
    BY <2>1, SetsLeave
  <2>9. row.record = T.record
    OBVIOUS
  <2> HIDE DEF new, row
  <2>10. /\ new.there = T.there /\ new.closed = T.closed
         /\ new.id = T.id /\ new.record = T.record /\ new.revision = T.revision
    BY <2>8 DEF Same, Past
  <2>11. T.there \subseteq InDb' /\ T.closed \subseteq T.there /\ \A id \in T.closed : Revisions(id)' # {}
    BY <2>1, <2>3, <2>5 DEF Truthful
  <2>12. Truthful(tasks[t])'
    BY <2>2, <2>6, <2>7, <2>9, <2>10, <2>11 DEF Truthful
  <2> QED
    BY <2>4, <2>5, <2>6, <2>12, TruthDb
<1> HIDE DEF key, row, new
<1> QED
  BY <1>1, <1>2, DoneIsTrue

(* An edit leaves entries in their place and changes what is recorded.     *)
LEMMA EditIsTrue == ASSUME IInv, TInv, Edit PROVE TInv'
<1>1. /\ UNCHANGED <<now, scene, issued, tasks>> /\ InDb' = InDb /\ DOMAIN outcomes' = DOMAIN outcomes
      /\ \A id \in InDb : IsEntry(id, entries'[id])
      /\ \A j : Revisions(j)' = Revisions(j)
  BY EditIs
<1>2. \A id \in InDb : entries'[id].id = entries[id].id
  BY <1>1, EntryIs DEF IsEntry
<1>3. /\ (\E id \in InDb : entries' = [entries EXCEPT ![id].record = Forged]) \/ UNCHANGED entries
      /\ (\E k \in DOMAIN outcomes : outcomes' = [outcomes EXCEPT ![k].record = Forged]) \/ UNCHANGED outcomes
  BY DEF Edit
<1>4. \A id \in InDb : entries'[id].created = entries[id].created
  <2>1. ASSUME NEW id \in InDb, entries' = [entries EXCEPT ![id].record = Forged], NEW j \in InDb
        PROVE  entries'[j].created = entries[j].created
    BY <2>1 DEF InDb
  <2> QED
    BY <1>3, <2>1
<1>5. \A k \in DOMAIN outcomes : outcomes'[k].record \in {outcomes[k].record, Forged}
  <2>1. ASSUME NEW k \in DOMAIN outcomes, outcomes' = [outcomes EXCEPT ![k].record = Forged], NEW j \in DOMAIN outcomes
        PROVE  outcomes'[j].record \in {outcomes[j].record, Forged}
    <3>1. DOMAIN outcomes[k] = Columns
      BY DEF IInv, Kept
    <3> QED
      BY <2>1, <3>1 DEF Columns
  <2> QED
    BY <1>3, <2>1
<1>6. Calm
  BY <1>1, <1>2, <1>4, <1>5 DEF Calm
<1>7. \A u \in Tasks : tasks'[u] = tasks[u] /\ tasks[u].there \subseteq InDb'
  BY <1>1 DEF TInv, Truthful
<1>8. \A u \in Tasks : Truthful(tasks[u])'
  BY <1>6, <1>7, TruthfulOn
<1> QED
  BY <1>1, <1>8 DEF TInv

(* A deleted entry is not asked of a reply any more.                       *)
LEMMA WithoutIsTruthful ==
  ASSUME NEW T, Truthful(T), NEW U, Same(T, U, DOMAIN Idle \ Past), NEW id,
         U.there = T.there \ {id}, U.closed = T.closed \ {id}
  PROVE  Truthful(U)
<1>1. /\ U.at = T.at /\ U.job = T.job /\ U.id = T.id /\ U.row = T.row /\ U.record = T.record /\ U.revision = T.revision
      /\ U.views = T.views /\ U.rows = T.rows /\ U.cursor = T.cursor
  BY IdleIs DEF Same, Past
<1>2. Exports(T) => Exports(U)
  BY <1>1 DEF Exports, ShownClosed
<1> QED
  BY <1>1, <1>2 DEF Truthful

LEMMA DeleteIsTrue == ASSUME IInv, TInv, NEW id \in issued, Delete(id) PROVE TInv'
<1> DEFINE new(t) == [tasks[t] EXCEPT !.there = @ \ {id}, !.closed = @ \ {id}]
<1>1. /\ id \in InDb /\ UNCHANGED <<now, scene, issued>>
      /\ entries' = Restrict(entries, InDb \ {id})
      /\ outcomes' = Restrict(outcomes, {k \in DOMAIN outcomes : k[1] # id})
      /\ tasks' = [t \in Tasks |-> new(t)]
  BY Zenon DEF Delete
<1>2. InDb' = InDb \ {id} /\ \A j \in InDb' : entries'[j] = entries[j]
  BY <1>1 DEF Restrict, InDb
<1>3. /\ DOMAIN outcomes' = {k \in DOMAIN outcomes : k[1] # id}
      /\ \A k \in DOMAIN outcomes' : outcomes'[k] = outcomes[k]
  BY <1>1 DEF Restrict
<1>4. \A j : j # id => Revisions(j)' = Revisions(j)
  BY <1>3 DEF Revisions
<1>5. Calm
  BY <1>1, <1>2, <1>3, <1>4 DEF Calm
<1>6. IsFiniteSet(InDb)'
  BY <1>2, FS_RemoveElement DEF TInv
<1>7. \A t \in Tasks : Truthful(tasks[t])'
  <2> SUFFICES ASSUME NEW t \in Tasks PROVE Truthful(tasks[t])'
    OBVIOUS
  <2>1. Truthful(tasks[t]) /\ DOMAIN tasks[t] = DOMAIN Idle
    BY DEF TInv, IInv, Holds
  <2>2. /\ Same(tasks[t], new(t), DOMAIN Idle \ Past)
        /\ new(t).there = tasks[t].there \ {id} /\ new(t).closed = tasks[t].closed \ {id}
    BY <2>1, IdleIs DEF Same, Past
  <2>3. tasks'[t] = new(t)
    BY <1>1
  <2>4. PICK U : U = new(t)
    OBVIOUS
  <2> HIDE DEF new
  <2>5. Truthful(U) /\ U.there \subseteq InDb'
    <3>1. Truthful(U)
      BY <2>1, <2>2, <2>4, WithoutIsTruthful
    <3> QED
      BY <1>2, <2>1, <2>2, <2>4, <3>1 DEF Truthful
  <2>6. Truthful(U)'
    BY <1>5, <2>5, TruthOn
  <2>7. U = tasks'[t]
    BY <2>3, <2>4
  <2> QED
    BY <2>6, <2>7, SameTruth
<1> QED
  BY <1>6, <1>7 DEF TInv

-----------------------------------------------------------------------------
(* What has outcomes is not shown open.                                    *)
LEMMA ShownOf ==
  ASSUME IInv, NEW T, Truthful(T), NEW row, NEW id, id = row.id
  PROVE  LET view == View(row, OutcomesOf(id))
         IN  view.id = id /\ (id \in T.closed => view.status = "CLOSED") /\ view.revisions = OutcomesOf(id)
<1>1. View(row, OutcomesOf(id)).id = id /\ View(row, OutcomesOf(id)).revisions = OutcomesOf(id)
  BY DEF View
<1>2. View(row, OutcomesOf(id)).status = IF row.kind = "TRADE" /\ OutcomesOf(id) = <<>> THEN "OPEN" ELSE "CLOSED"
  BY DEF View
<1>3. ASSUME id \in T.closed PROVE OutcomesOf(id) # <<>>
  <2>1. id \in InDb /\ Revisions(id) # {}
    BY <1>3 DEF Truthful
  <2>2. PICK n \in Nat : Revisions(id) = 1 .. n
    BY <2>1 DEF IInv, Kept
  <2>3. DOMAIN OutcomesOf(id) # {}
    BY <2>1, <2>2, OutcomesAre
  <2>4. DOMAIN <<>> = {}
    OBVIOUS
  <2> QED
    BY <2>3, <2>4
<1> QED
  BY <1>1, <1>2, <1>3

(* What an export has shown once the outcomes of a page are read.          *)
LEMMA ExportedIs ==
  ASSUME IInv, TInv, NEW t \in Tasks, tasks[t].at = "PAGE_OUTCOMES"
  PROVE  LET T == tasks[t]
             v == Exported(t)
         IN  /\ IsSeq(v) /\ Distinct(v) /\ ShownClosed(v, T.closed)
             /\ \A id : Has(v, id) <=> Has(T.views, id) \/ Has(T.rows, id)
<1> DEFINE T    == tasks[t]
           At(j) == View(T.rows[j], OutcomesOf(T.rows[j].id))
           more == [j \in DOMAIN T.rows |-> At(j)]
           a    == Len(T.views)
           b    == Len(T.rows)
           S    == Range(T.views) \cup {more[j] : j \in DOMAIN T.rows}
           v    == Exported(t)
<1>1. Truthful(T) /\ Exports(T)
  BY DEF TInv, Truthful
<1>2. \A j \in DOMAIN T.rows : At(j).id = T.rows[j].id /\ (At(j).id \in T.closed => At(j).status = "CLOSED")
  BY <1>1, ShownOf
<1>3. v = T.views \o more
  BY DEF Exported
<1>4. /\ T.views \in Seq(Range(T.views)) /\ T.rows \in Seq(Range(T.rows))
      /\ a \in Nat /\ b \in Nat /\ DOMAIN T.views = 1 .. a /\ DOMAIN T.rows = 1 .. b
  <2>1. T.views \in Seq(Range(T.views)) /\ T.rows \in Seq(Range(T.rows))
    BY <1>1 DEF Exports, IsSeq
  <2> QED
    BY <2>1, LenProperties
<1> HIDE DEF At
<1>5. more \in Seq(S) /\ Len(more) = b /\ \A j \in 1 .. b : more[j] = At(j)
  <2>1. more \in [1 .. b -> S]
    BY <1>4
  <2> HIDE DEF S
  <2>2. more \in Seq(S) /\ Len(more) = b
    BY <1>4, <2>1, IsSequence
  <2> QED
    BY <1>4, <2>2
<1>6. T.views \in Seq(S)
  BY <1>4 DEF Range
<1> HIDE DEF more, S, v, a, b
<1>7. /\ v \in Seq(S) /\ Len(v) = a + b
      /\ \A i \in 1 .. a + b : v[i] = IF i <= a THEN T.views[i] ELSE more[i - a]
  BY <1>3, <1>4, <1>5, <1>6, ConcatProperties DEF a
<1>8. DOMAIN v = 1 .. a + b
  BY <1>7, LenProperties
<1>9. \A i \in 1 .. a : i \in DOMAIN v /\ v[i] = T.views[i]
  BY <1>4, <1>7, <1>8
<1>10. \A j \in 1 .. b : a + j \in DOMAIN v /\ v[a + j] = At(j)
  <2> SUFFICES ASSUME NEW j \in 1 .. b PROVE a + j \in DOMAIN v /\ v[a + j] = At(j)
    OBVIOUS
  <2>1. a + j \in 1 .. a + b /\ ~(a + j <= a) /\ a + j - a = j
    BY <1>4
  <2>2. \A k \in 1 .. a + b : k = a + j => v[k] = At(j)
    <3> SUFFICES ASSUME NEW k \in 1 .. a + b, k = a + j PROVE v[k] = At(j)
      OBVIOUS
    <3>1. ~(k <= a) /\ k - a = j
      BY <1>4
    <3>2. v[k] = more[k - a]
      BY <1>7, <3>1
    <3> QED
      BY <1>5, <3>1, <3>2
  <2> QED
    BY <1>8, <2>1, <2>2
<1>11. \A i \in DOMAIN v : i \in 1 .. a \/ \E j \in 1 .. b : i = a + j
  <2> SUFFICES ASSUME NEW i \in 1 .. a + b, ~(i <= a) PROVE \E j \in 1 .. b : i = a + j
    BY <1>4, <1>8
  <2>1. i - a \in 1 .. b /\ i = a + (i - a)
    BY <1>4
  <2> QED
    BY <2>1
<1>12. IsSeq(v)
  <2>1. v \in [1 .. a + b -> Range(v)] /\ a + b \in Nat
    <3>1. v = [i \in 1 .. a + b |-> v[i]]
      BY <1>7, <1>8, LenProperties
    <3> QED
      BY <1>4, <1>8, <3>1 DEF Range
  <2> QED
    BY <2>1, IsSequence DEF IsSeq
<1>13. Distinct(T.views) /\ Distinct(T.rows) /\ Apart(T.views, T.rows) /\ ShownClosed(T.views, T.closed)
  BY <1>1 DEF Exports
<1>14. Distinct(v)
  <2> SUFFICES ASSUME NEW i \in DOMAIN v, NEW k \in DOMAIN v, i # k PROVE v[i].id # v[k].id
    BY DEF Distinct
  <2>1. CASE i \in 1 .. a /\ k \in 1 .. a
    BY <1>4, <1>9, <1>13, <2>1 DEF Distinct
  <2>2. ASSUME i \in 1 .. a, NEW j \in 1 .. b, k = a + j PROVE v[i].id # v[k].id
    <3>1. v[i] = T.views[i] /\ v[k] = At(j)
      BY <1>9, <1>10, <2>2
    <3> QED
      BY <1>2, <1>4, <1>13, <2>2, <3>1 DEF Apart
  <2>3. ASSUME k \in 1 .. a, NEW j \in 1 .. b, i = a + j PROVE v[i].id # v[k].id
    <3>1. v[k] = T.views[k] /\ v[i] = At(j)
      BY <1>9, <1>10, <2>3
    <3> QED
      BY <1>2, <1>4, <1>13, <2>3, <3>1 DEF Apart
  <2>4. ASSUME NEW j \in 1 .. b, i = a + j, NEW l \in 1 .. b, k = a + l PROVE v[i].id # v[k].id
    <3>1. j # l
      BY <2>4
    <3> QED
      <4>1. v[i] = At(j) /\ v[k] = At(l)
        BY <1>10, <2>4
      <4>2. v[i].id = T.rows[j].id /\ v[k].id = T.rows[l].id /\ j \in DOMAIN T.rows /\ l \in DOMAIN T.rows
        BY <1>2, <1>4, <4>1
      <4> QED
        BY <1>13, <3>1, <4>2 DEF Distinct
  <2> QED
    BY <1>11, <2>1, <2>2, <2>3, <2>4
<1>15. ShownClosed(v, T.closed)
  <2> SUFFICES ASSUME NEW i \in DOMAIN v, v[i].id \in T.closed PROVE v[i].status = "CLOSED"
    BY DEF ShownClosed
  <2>1. CASE i \in 1 .. a
    BY <1>4, <1>9, <1>13, <2>1 DEF ShownClosed
  <2>2. ASSUME NEW j \in 1 .. b, i = a + j PROVE v[i].status = "CLOSED"
    BY <1>2, <1>4, <1>10, <2>2
  <2> QED
    BY <1>11, <2>1, <2>2
<1>16. \A id : Has(v, id) <=> Has(T.views, id) \/ Has(T.rows, id)
  <2> SUFFICES ASSUME NEW id PROVE Has(v, id) <=> Has(T.views, id) \/ Has(T.rows, id)
    OBVIOUS
  <2>1. Has(T.views, id) => Has(v, id)
    BY <1>4, <1>9 DEF Has
  <2>2. Has(T.rows, id) => Has(v, id)
    BY <1>2, <1>4, <1>10 DEF Has
  <2>3. ASSUME NEW i \in DOMAIN v, v[i].id = id PROVE Has(T.views, id) \/ Has(T.rows, id)
    <3>1. CASE i \in 1 .. a
      BY <1>4, <1>9, <2>3, <3>1 DEF Has
    <3>2. ASSUME NEW j \in 1 .. b, i = a + j PROVE Has(T.rows, id)
      BY <1>2, <1>4, <1>10, <2>3, <3>2 DEF Has
    <3> QED
      BY <1>11, <3>1, <3>2
  <2> QED
    BY <2>1, <2>2, <2>3 DEF Has
<1> QED
  BY <1>12, <1>14, <1>15, <1>16 DEF v

LEMMA ReadPageIsTrue ==
  ASSUME IInv, TInv, NEW t \in Tasks, ReadPage(t)
  PROVE  TInv'
<1> DEFINE T    == tasks[t]
           page == Page(T.cursor)
           rows == page.rows
           next == page.cursor
           new  == [T EXCEPT !.at = "PAGE_OUTCOMES", !.rows = rows, !.cursor = next]
<1>1. T.at = "PAGE" /\ Become(t, new) /\ UNCHANGED <<now, scene, entries, outcomes, issued>>
  BY DEF ReadPage
<1>2. Truthful(T) /\ Exports(T) /\ DOMAIN T = DOMAIN Idle
  BY <1>1 DEF TInv, Truthful, IInv, Holds
<1>3. PageIsOf(page, T.cursor)
  <2>1. IsFiniteSet(InDb) /\ IsCursor(T.cursor)
    BY <1>2 DEF TInv, Exports
  <2>2. PICK cursor : cursor = T.cursor
    OBVIOUS
  <2>3. PageIsOf(Page(cursor), cursor)
    BY <2>1, <2>2, PageIs
  <2> QED
    BY <2>2, <2>3
<1> HIDE DEF page
<1>4. new.at = "PAGE_OUTCOMES"
  BY <1>2, Sets
<1>5. Same(T, new, Past \cup {"job", "views"}) /\ new.rows = rows /\ new.cursor = next
  <2>1. Same(T, new, Past \cup {"job", "views"})
    BY <1>2, SetsLeave
  <2>2. new.rows = rows /\ new.cursor = next
    BY <1>2, IdleIs
  <2> QED
    BY <2>1, <2>2
<1> HIDE DEF new
<1>6. new.there = T.there /\ new.closed = T.closed /\ new.views = T.views
  BY <1>5 DEF Same, Past
<1>7. /\ \A i \in DOMAIN T.views : Passed(T.views[i].id, T.cursor)
      /\ \A id \in T.there : Has(T.views, id) \/ Beyond(entries[id], T.cursor)
      /\ T.there \subseteq InDb /\ InDb \subseteq issued
  BY <1>1, <1>2 DEF Exports, Truthful, IInv, Kept
<1>8. /\ rows \in Seq(Range(entries)) /\ Len(rows) \in Nat /\ DOMAIN rows = 1 .. Len(rows)
      /\ \A i \in DOMAIN rows : rows[i].id \in InDb /\ rows[i] = entries[rows[i].id] /\ Beyond(rows[i], T.cursor)
      /\ Distinct(rows) /\ IsCursor(next)
      /\ \A id \in InDb : Beyond(entries[id], T.cursor) =>
           Has(rows, id) \/ (next # Nothing /\ Beyond(entries[id], next))
      /\ next # Nothing =>
           /\ \A i \in DOMAIN rows : ~Beyond(rows[i], next)
           /\ \A id \in InDb : ~Beyond(entries[id], T.cursor) => ~Beyond(entries[id], next)
  BY <1>3 DEF PageIsOf, Distinct, Has
<1> HIDE DEF rows, next
<1>9. IsSeq(rows)
  <2>1. rows \in [1 .. Len(rows) -> Range(rows)]
    <3>1. rows = [i \in 1 .. Len(rows) |-> rows[i]]
      BY <1>8, LenProperties
    <3> QED
      BY <1>8, <3>1 DEF Range
  <2> QED
    BY <1>8, <2>1, IsSequence DEF IsSeq
<1>10. Apart(T.views, rows)
  <2> SUFFICES ASSUME NEW i \in DOMAIN T.views, NEW j \in DOMAIN rows PROVE T.views[i].id # rows[j].id
    BY DEF Apart
  <2>1. Passed(T.views[i].id, T.cursor) /\ rows[j].id \in InDb /\ Beyond(entries[rows[j].id], T.cursor)
    BY <1>7, <1>8
  <2> QED
    BY <2>1 DEF Passed
<1>11. next # Nothing =>
         /\ \A i \in DOMAIN T.views : Passed(T.views[i].id, next)
         /\ \A i \in DOMAIN rows : Passed(rows[i].id, next)
  BY <1>7, <1>8 DEF Passed
<1>12. \A id \in T.there : Has(T.views, id) \/ Has(rows, id) \/ (next # Nothing /\ Beyond(entries[id], next))
  BY <1>7, <1>8
<1>13. Exports(new)
  BY <1>2, <1>4, <1>5, <1>6, <1>8, <1>9, <1>10, <1>11, <1>12 DEF Exports
<1>14. Truthful(new)
  BY <1>2, <1>4, <1>6, <1>13 DEF Truthful
<1> QED
  BY <1>1, <1>14, TruthStep

LEMMA ReadPageOutcomesIsTrue ==
  ASSUME IInv, TInv, NEW t \in Tasks, ReadPageOutcomes(t)
  PROVE  TInv'
<1> DEFINE T   == tasks[t]
           v   == Exported(t)
           new == [T EXCEPT !.at = "PAGE", !.rows = <<>>, !.views = v]
<1>1. /\ T.at = "PAGE_OUTCOMES" /\ UNCHANGED <<now, scene, entries, outcomes, issued>>
      /\ Done(t) \/ (T.cursor # Nothing /\ Become(t, new))
  BY DEF ReadPageOutcomes
<1>2. Truthful(T) /\ Exports(T) /\ DOMAIN T = DOMAIN Idle
  BY <1>1 DEF TInv, Truthful, IInv, Holds
<1>3. /\ IsSeq(v) /\ Distinct(v) /\ ShownClosed(v, T.closed)
      /\ \A id : Has(v, id) <=> Has(T.views, id) \/ Has(T.rows, id)
  BY <1>1, ExportedIs
<1> HIDE DEF v
<1>4. new.at = "PAGE"
  BY <1>2, Sets
<1>5. Same(T, new, Past \cup {"job", "cursor"}) /\ new.rows = <<>> /\ new.views = v
  <2>1. Same(T, new, Past \cup {"job", "cursor"})
    BY <1>2, SetsLeave
  <2>2. new.rows = <<>> /\ new.views = v
    BY <1>2, IdleIs
  <2> QED
    BY <2>1, <2>2
<1> HIDE DEF new
<1>6. new.there = T.there /\ new.closed = T.closed /\ new.cursor = T.cursor
  BY <1>5 DEF Same, Past
<1>7. ASSUME T.cursor # Nothing PROVE Truthful(new)
  <2>1. /\ \A i \in DOMAIN T.views : Passed(T.views[i].id, T.cursor)
        /\ \A i \in DOMAIN T.rows : Passed(T.rows[i].id, T.cursor)
        /\ \A id \in T.there : Has(T.views, id) \/ Has(T.rows, id) \/ Beyond(entries[id], T.cursor)
    BY <1>1, <1>2, <1>7 DEF Exports
  <2>2. \A i \in DOMAIN v : Passed(v[i].id, T.cursor)
    <3>1. \A i \in DOMAIN v : Has(T.views, v[i].id) \/ Has(T.rows, v[i].id)
      BY <1>3 DEF Has
    <3> QED
      BY <2>1, <3>1 DEF Has
  <2>3. \A id \in T.there : Has(v, id) \/ Beyond(entries[id], T.cursor)
    BY <1>3, <2>1
  <2>4. IsSeq(<<>>)
    BY DEF IsSeq
  <2>5. Exports(new)
    BY <1>2, <1>3, <1>4, <1>5, <1>6, <2>2, <2>3, <2>4 DEF Exports
  <2> QED
    BY <1>2, <1>4, <1>6, <2>5 DEF Truthful
<1> QED
  BY <1>1, <1>7, TruthStep, DoneIsTrue

-----------------------------------------------------------------------------
LEMMA InitIsTrue == Init => TInv
<1> SUFFICES ASSUME Init PROVE TInv
  OBVIOUS
<1>1. scene \in Scenes /\ entries = scene.stored.entries /\ tasks = [t \in Tasks |-> Idle]
  BY DEF Init
<1>2. IsFiniteSet(DOMAIN scene.stored.entries)
  BY <1>1, ScenesAssumption
<1> QED
  BY <1>1, <1>2, IdleIsTruthful DEF TInv, InDb

LEMMA NextIsTrue == IInv /\ TInv /\ [Next]_vars => TInv'
<1> SUFFICES ASSUME IInv, TInv, [Next]_vars PROVE TInv'
  OBVIOUS
<1>1. CASE UNCHANGED vars
  BY <1>1, TickIsTrue DEF vars
<1>2. ASSUME NEW t \in Tasks, NEW log, BeginCreate(t, log) PROVE TInv'
  BY <1>2, BeginCreateIsTrue
<1>3. ASSUME NEW t \in Tasks, Insert(t) PROVE TInv'
  BY <1>3, InsertIsTrue
<1>4. ASSUME NEW t \in Tasks, NEW id, NEW report, BeginRecord(t, id, report) PROVE TInv'
  BY <1>4, BeginRecordIsTrue
<1>5. ASSUME NEW t \in Tasks, NEW id, BeginGet(t, id) PROVE TInv'
  BY <1>5, BeginGetIsTrue
<1>6. ASSUME NEW t \in Tasks, ReadEntry(t) PROVE TInv'
  BY <1>6, ReadEntryIsTrue
<1>7. ASSUME NEW t \in Tasks, ReadOutcomes(t) PROVE TInv'
  BY <1>7, ReadOutcomesIsTrue
<1>8. ASSUME NEW t \in Tasks, LoadCandles(t) PROVE TInv'
  BY <1>8, LoadCandlesIsTrue
<1>9. ASSUME NEW t \in Tasks, ReadMax(t) PROVE TInv'
  BY <1>9, ReadMaxIsTrue
<1>10. ASSUME NEW t \in Tasks, Commit(t) PROVE TInv'
  BY <1>10, CommitIsTrue
<1>11. ASSUME NEW t \in Tasks, BeginExport(t) PROVE TInv'
  BY <1>11, BeginExportIsTrue
<1>12. ASSUME NEW t \in Tasks, ReadPage(t) PROVE TInv'
  BY <1>12, ReadPageIsTrue
<1>13. ASSUME NEW t \in Tasks, ReadPageOutcomes(t) PROVE TInv'
  BY <1>13, ReadPageOutcomesIsTrue
<1>14. ASSUME NEW id \in issued, Delete(id) PROVE TInv'
  BY <1>14, DeleteIsTrue
<1>15. CASE Edit
  BY <1>15, EditIsTrue
<1>16. CASE Crash
  BY <1>16, CrashIsTrue
<1>17. CASE Tick
  BY <1>17, TickIsTrue DEF Tick
<1> QED
  BY <1>1, <1>2, <1>3, <1>4, <1>5, <1>6, <1>7, <1>8, <1>9, <1>10, <1>11, <1>12, <1>13, <1>14, <1>15, <1>16, <1>17
     DEF Next

(* What is about to be answered at the end of a read or of a recording.    *)
LEMMA AnswerIsTrue ==
  ASSUME IInv, TInv, NEW t \in Tasks, tasks[t].at = "OUTCOMES"
  PROVE  LET view == View(tasks[t].row, OutcomesOf(tasks[t].id))
         IN  /\ tasks[t].job = "ANSWER" /\ tasks[t].id \in tasks[t].there =>
                  \E o \in Range(view.revisions) : o.revision = tasks[t].revision /\ o.record \in {tasks[t].record, Forged}
             /\ view.id \in tasks[t].closed => view.status = "CLOSED"
<1> DEFINE T    == tasks[t]
           all  == OutcomesOf(T.id)
           view == View(T.row, all)
<1>1. Truthful(T) /\ T.row.id = T.id
  BY DEF TInv, Truthful
<1>2. view.id = T.id /\ (T.id \in T.closed => view.status = "CLOSED") /\ view.revisions = all
  <2>1. PICK row, id : row = T.row /\ id = T.id /\ id = row.id
    BY <1>1
  <2> QED
    BY <1>1, <2>1, ShownOf
<1>3. ASSUME T.job = "ANSWER", T.id \in T.there
      PROVE  \E o \in Range(all) : o.revision = T.revision /\ o.record \in {T.record, Forged}
  <2>1. /\ T.id \in InDb /\ <<T.id, T.revision>> \in DOMAIN outcomes
        /\ outcomes[<<T.id, T.revision>>].record \in {T.record, Forged}
    BY <1>1, <1>3 DEF Truthful
  <2>2. PICK n \in Nat : Revisions(T.id) = 1 .. n
    BY <2>1 DEF IInv, Kept
  <2>3. T.revision \in 1 .. n
    <3> DEFINE k == <<T.id, T.revision>>
    <3>1. k \in DOMAIN outcomes /\ k[1] = T.id /\ k[2] = T.revision
      BY <2>1
    <3> HIDE DEF k
    <3> QED
      BY <2>2, <3>1 DEF Revisions
  <2>4. /\ DOMAIN all = 1 .. n
        /\ \A i \in 1 .. n : all[i].revision = i /\ all[i].record = outcomes[<<T.id, i>>].record
    BY <2>1, <2>2, OutcomesAre
  <2> HIDE DEF all
  <2>5. all[T.revision] \in Range(all)
    BY <2>3, <2>4 DEF Range
  <2> QED
    BY <2>1, <2>3, <2>4, <2>5
<1> HIDE DEF view, all
<1> QED
  BY <1>2, <1>3 DEF view, all

LEMMA ExportIsTrue ==
  ASSUME IInv, TInv, NEW t \in Tasks, tasks[t].at = "PAGE_OUTCOMES", tasks[t].cursor = Nothing
  PROVE  LET views == Exported(t)
         IN  /\ tasks[t].there \subseteq {v.id : v \in Range(views)}
             /\ \A i, j \in DOMAIN views : i # j => views[i].id # views[j].id
             /\ \A v \in Range(views) : v.id \in tasks[t].closed => v.status = "CLOSED"
<1> DEFINE T     == tasks[t]
           views == Exported(t)
<1>1. Truthful(T) /\ Exports(T)
  BY DEF TInv, Truthful
<1>2. /\ Distinct(views) /\ ShownClosed(views, T.closed)
      /\ \A id : Has(views, id) <=> Has(T.views, id) \/ Has(T.rows, id)
  BY ExportedIs
<1> HIDE DEF views
<1>3. \A id \in T.there : Has(views, id)
  BY <1>1, <1>2 DEF Exports
<1>4. T.there \subseteq {v.id : v \in Range(views)}
  BY <1>3 DEF Has, Range
<1>5. \A v \in Range(views) : v.id \in T.closed => v.status = "CLOSED"
  BY <1>2 DEF ShownClosed, Range
<1> QED
  BY <1>2, <1>4, <1>5 DEF Distinct, views

(* An answer is true although it was put together from several reads: a    *)
(* recorded outcome is in its answer, what had outcomes is not shown open, *)
(* and an export has every entry that was there all along, none twice,     *)
(* whatever is logged, deleted or edited between its pages.                *)
THEOREM RepliesAreAlwaysTrue == Spec => RepliesAreTrue
<1>1. IInv /\ TInv /\ [Next]_vars =>
        [\A t \in Tasks :
           /\ Ends(t, "OUTCOMES") =>
                LET view == View(tasks[t].row, OutcomesOf(tasks[t].id))
                IN  /\ tasks[t].job = "ANSWER" /\ tasks[t].id \in tasks[t].there =>
                         \E o \in Range(view.revisions) :
                           o.revision = tasks[t].revision /\ o.record \in {tasks[t].record, Forged}
                    /\ view.id \in tasks[t].closed => view.status = "CLOSED"
           /\ (Ends(t, "PAGE_OUTCOMES") /\ tasks[t].cursor = Nothing) =>
                LET views == Exported(t)
                IN  /\ tasks[t].there \subseteq {v.id : v \in Range(views)}
                    /\ \A i, j \in DOMAIN views : i # j => views[i].id # views[j].id
                    /\ \A v \in Range(views) : v.id \in tasks[t].closed => v.status = "CLOSED"]_vars
  BY AnswerIsTrue, ExportIsTrue, Zenon DEF Ends
<1>2. Spec => []TInv
  BY InitIsTrue, NextIsTrue, InvariantHolds, PTL DEF Spec
<1> QED
  BY <1>1, <1>2, InvariantHolds, PTL DEF Spec, RepliesAreTrue
=============================================================================
