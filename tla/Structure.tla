----------------------------- MODULE Structure ------------------------------
(***************************************************************************)
(* Breaks of structure of one level: structure/engine.py.  Candles are     *)
(* processed in order; a candle only meets swings that an earlier candle   *)
(* confirmed.  At most one swing of a kind is the target or is protected,  *)
(* so both are sets with one swing or none.                                *)
(***************************************************************************)
EXTENDS Swings

CONSTANTS MinCandles, RangingBars

ASSUME StructureAssumption == MinCandles \in Nat /\ RangingBars \in Nat

NoSwing == [kind \in Directions |-> {}]
Start == [trend |-> "NONE", transitioning |-> FALSE, latest |-> NoSwing, protected |-> NoSwing,
          broken |-> {}, touched |-> {}, lastBreak |-> 0, events |-> <<>>]

Classify(trend, direction, throughProtected) ==
  CASE throughProtected -> "MSS"
    [] ~throughProtected /\ trend \in {"NONE", direction} -> "BOS"
    [] OTHER -> "CHOCH"

Targets(st, kind) == st.latest[kind] \ st.broken
Protected(st, kind) == IF st.trend = Against(kind) THEN st.protected[kind] \ st.broken ELSE {}

Closed(kind, swings, c) == {w \in swings : Along(kind, c.close) > w.price}
Wicked(kind, swings, c) == {w \in swings : Reach(kind, c) > w.price}

Event(st, i, kind, status, swing, protected, ambiguous) ==
  [at |-> i, type |-> Classify(st.trend, kind, protected), direction |-> kind, status |-> status,
   swing |-> swing, before |-> st.trend, ambiguous |-> ambiguous]

(* A close beyond the protected swing, else beyond the target.             *)
Break(st, i, kind, c, ambiguous) ==
  LET mss == Closed(kind, Protected(st, kind), c)
      hit == Closed(kind, Targets(st, kind), c)
  IN  IF mss \cup hit = {} THEN <<>>
      ELSE <<Event(st, i, kind, "CONFIRMED", CHOOSE w \in (IF mss # {} THEN mss ELSE hit) : TRUE,
                   mss # {}, ambiguous)>>

(* A wick beyond a swing, once per swing, while nothing of the side broke. *)
Potential(st, i, kind, c) ==
  LET mss == Wicked(kind, Protected(st, kind), c) \ st.touched
      hit == Wicked(kind, Targets(st, kind) \ Protected(st, kind), c) \ st.touched
  IN  [j \in 1 .. Cardinality(mss) |-> Event(st, i, kind, "POTENTIAL", CHOOSE w \in mss : TRUE, TRUE, FALSE)]
      \o [j \in 1 .. Cardinality(hit) |-> Event(st, i, kind, "POTENTIAL", CHOOSE w \in hit : TRUE, FALSE, FALSE)]

(* The protected swings when a break sets the trend: the opposite swing    *)
(* that is confirmed and unbroken, else the one that was protected.        *)
Protect(st, kind, broken) ==
  LET latest == st.latest[Against(kind)] \ broken
  IN  [NoSwing EXCEPT ![Against(kind)] =
         IF latest # {} THEN latest
         ELSE IF st.trend = kind THEN st.protected[Against(kind)] \ broken ELSE {}]

AfterBreak(st, i, up, down, broken) ==
  CASE up \o down = <<>> -> st
    [] up # <<>> /\ down # <<>> ->
         [st EXCEPT !.trend = "NONE", !.transitioning = FALSE, !.protected = NoSwing, !.lastBreak = i]
    [] OTHER ->
         LET e == (up \o down)[1]
         IN  IF e.type = "CHOCH" THEN [st EXCEPT !.transitioning = TRUE, !.lastBreak = i]
             ELSE [st EXCEPT !.trend = e.direction, !.transitioning = FALSE, !.lastBreak = i,
                             !.protected = Protect(st, e.direction, broken)]

SwingsOf(events) == {events[j].swing : j \in DOMAIN events}

(* Mutant: a candle that closes beyond both marks the protected swing only.*)
ClosedFirst(st, c) ==
  UNION {IF Closed(kind, Protected(st, kind), c) # {} THEN Closed(kind, Protected(st, kind), c)
         ELSE Closed(kind, Targets(st, kind), c) : kind \in Directions}

ClosedBy(st, c) == UNION {Closed(kind, Targets(st, kind) \cup Protected(st, kind), c) : kind \in Directions}

(* Mutant: a swing is known at its own candle.                             *)
KnownAtPivot(swings, kind, i) == {w \in swings : w.kind = kind /\ w.at = i}

Confirmed(swings, kind, i) == {w \in swings : w.kind = kind /\ w.confirmed = i}

(* One candle: breaks, the trend they leave, wicks that are classified     *)
(* against the trend before it, and last the swings it confirms.           *)
Candle(st, s, swings, i) ==
  LET c      == s[i]
      bull   == Closed("BULLISH", Targets(st, "BULLISH") \cup Protected(st, "BULLISH"), c) # {}
      bear   == Closed("BEARISH", Targets(st, "BEARISH") \cup Protected(st, "BEARISH"), c) # {}
      up     == Break(st, i, "BULLISH", c, bear)
      down   == Break(st, i, "BEARISH", c, bull)
      wicks  == (IF bull THEN <<>> ELSE Potential(st, i, "BULLISH", c))
                \o (IF bear THEN <<>> ELSE Potential(st, i, "BEARISH", c))
      broken == st.broken \cup ClosedBy(st, c)
      new    == [kind \in Directions |-> Confirmed(swings, kind, i)]
  IN  [AfterBreak(st, i, up, down, broken) EXCEPT
         !.broken = broken,
         !.touched = @ \cup SwingsOf(wicks),
         !.events = @ \o up \o down \o wicks,
         !.latest = [kind \in Directions |-> IF new[kind] # {} THEN new[kind] ELSE @[kind]]]

AnalyzeLevel(s, length) ==
  LET swings == DetectSwings(s, length)
  IN  FoldLeftDomain(LAMBDA st, i : Candle(st, s, swings, i), Start, s)

(* The state shown for a level (_state): breaks older than RangingBars, or *)
(* swings since the last break that contract or expand, make a range.      *)
Contracting(st) ==
  \E high \in st.latest["BULLISH"], low \in st.latest["BEARISH"] :
    /\ st.lastBreak # 0 /\ high.confirmed > st.lastBreak /\ low.confirmed > st.lastBreak
    /\ <<high.label, low.label>> \in {<<"SHORT", "SHORT">>, <<"SHORT", "EQUAL">>, <<"EQUAL", "SHORT">>,
                                      <<"EQUAL", "EQUAL">>, <<"FURTHER", "FURTHER">>}

State(st, n) ==
  CASE n < MinCandles \/ st.trend = "NONE" -> "UNCLEAR"
    [] n >= MinCandles /\ st.trend # "NONE" /\ st.transitioning -> "TRANSITIONING"
    [] n >= MinCandles /\ st.trend # "NONE" /\ ~st.transitioning
         /\ (Contracting(st) \/ st.lastBreak = 0 \/ n - st.lastBreak > RangingBars) -> "RANGING"
    [] OTHER -> st.trend
=============================================================================
