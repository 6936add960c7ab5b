------------------------------ MODULE MCJournal -----------------------------
(* The journal for TLC.                                                    *)
EXTENDS Journal

Long(stop, targets)  == [direction |-> "BULLISH", entry |-> 20, stop |-> stop, targets |-> targets, opened |-> 0, riskPct |-> 2]
Short(stop, targets) == [direction |-> "BEARISH", entry |-> 20, stop |-> stop, targets |-> targets, opened |-> 0, riskPct |-> Nothing]
Calm == [verdict |-> "LONG", news |-> "CLEAR", risk |-> "OK", limit |-> 2, plan |-> [direction |-> "BULLISH", entry |-> 20, risk |-> 10]]
Log(kind, fill, snap) == [kind |-> kind, symbol |-> "X", fill |-> fill, snap |-> snap, dol |-> Nothing, synthetic |-> FALSE]
Asked(exit, reason, mfe, mae, reported) ==
  [exit |-> exit, exited |-> 1, reason |-> reason, mfe |-> mfe, mae |-> mae, reported |-> reported]
Is(kind) == [is |-> kind]
Covers(high, low) == [is |-> "COVERS", high |-> high, low |-> low, synthetic |-> FALSE]

(* Rows there are at the start, as the journal writes them.                *)
Row(id, created, log, symbol) ==
  LET body == [fill |-> log.fill, snap |-> log.snap, dol |-> log.dol, synthetic |-> log.synthetic,
               detected |-> IF log.fill = Nothing THEN {} ELSE Detect(log.fill, log.snap),
               timing |-> Timing(log.kind, log.fill, created)]
  IN  [id |-> id, created |-> created, kind |-> log.kind, symbol |-> symbol, record |-> body, hash |-> body]
Written(fill, report, loads) ==
  LET o == Outcome(fill, report, Extremes(fill, report, loads), Detect(fill, Calm))
  IN  [at |-> 1, record |-> o, hash |-> o]
None == [k \in {} |-> 0]
Nil == [stored |-> [entries |-> None, outcomes |-> None], logs |-> {}, reports |-> {}, loads |-> {}, jobs |-> {},
        ids |-> {}, revisions |-> 2, edits |-> 1, busy |-> 1, foreignKeys |-> TRUE, ticks |-> 0]
One(fill) == [entries |-> 1 :> Row(1, 0, Log("TRADE", fill, Calm), "X"), outcomes |-> None]

(* Two recordings and reads of one trade, which can be deleted meanwhile.  *)
Race(keys, jobs, loads) ==
  [Nil EXCEPT !.stored = One(Long(10, {40})), !.reports = {Asked(40, "TARGET", Nothing, Nothing, {}), Asked(10, "STOP", Nothing, Nothing, {})},
     !.loads = loads, !.jobs = jobs, !.ids = {1}, !.busy = 2, !.foreignKeys = keys]

(* An export, a row to a page, while entries are logged, edited, deleted.  *)
Trade(fill, dol) == [Log("TRADE", fill, Calm) EXCEPT !.dol = dol]
Stored ==
  [entries |-> (1 :> Row(1, 0, Trade(Long(10, {40}), [side |-> "BSL", price |-> 30]), "X"))
               @@ (2 :> Row(2, 0, Trade(Short(30, {5}), [side |-> "BSL", price |-> 30]), "X"))
               @@ (3 :> Row(3, 0, Trade(Long(15, {}), Nothing), "Y"))
               @@ (4 :> Row(4, 0, Log("NO_TRADE", Nothing, Calm), "X")),
   outcomes |-> (<<1, 1>> :> Written(Long(10, {40}), Asked(40, "TARGET", Nothing, Nothing, {}), <<Covers(41, 15)>>))
                @@ (<<2, 1>> :> Written(Short(30, {5}), Asked(35, "STOP", Nothing, Nothing, {}), <<Is("FAILS")>>))
                @@ (<<3, 1>> :> Written(Long(15, {}), Asked(20, "STOP", Nothing, Nothing, {}), <<Is("GAP")>>))
                @@ (<<3, 2>> :> Written(Long(15, {}), Asked(26, "MANUAL", 30, 18, {"MOVED_STOP"}), <<>>))]
First(n) == [entries |-> Restrict(Stored.entries, 1 .. n),
             outcomes |-> Restrict(Stored.outcomes, {k \in DOMAIN Stored.outcomes : k[1] <= n})]
Paging == [Nil EXCEPT !.stored = First(2), !.logs = {Log("MISSED_ENTRY", Nothing, Calm)},
             !.jobs = {"EXPORT", "DELETE"}, !.ids = 1 .. 4, !.busy = 2]
Audit == [Nil EXCEPT !.stored = Stored, !.jobs = {"EXPORT", "DELETE", "EDIT"}, !.ids = 1 .. 4, !.edits = 2]

(* What is detected when a trade is logged.                                *)
Snaps == {Calm,
          [verdict |-> "UNAVAILABLE", news |-> "BLACKOUT", risk |-> "LOCKED", limit |-> 1, plan |-> [direction |-> "BEARISH", entry |-> 20, risk |-> 10]],
          [Calm EXCEPT !.plan.entry = 17]}
Logging == [Nil EXCEPT !.logs = {Log("TRADE", f, s) : f \in {Long(10, {40}), Long(Nothing, {}), [Short(30, {5}) EXCEPT !.opened = 1]}, s \in Snaps}
                                \cup {Log("NO_TRADE", Nothing, Calm)},
              !.jobs = {"GET", "CRASH"}, !.ids = {1}, !.ticks = 2]

(* Every kind of outcome of a trade.                                       *)
Loads == {<<>>, <<Is("TOO_LONG"), Covers(45, 2)>>, <<Covers(21, 19)>>, <<Is("FAILS"), Covers(45, 2)>>}
Sums(fill) ==
  [Nil EXCEPT !.stored = One(fill), !.ids = {1}, !.revisions = 1, !.loads = Loads, !.ticks = 1,
     !.reports = {Asked(x, why[1], mfe, mae, why[2]) : x \in {2, 10, 11, 12, 19, 20, 21, 22, 34, 38},
                    why \in {<<"TARGET", {}>>, <<"MANUAL", {"OTHER"}>>}, mfe \in {Nothing, 20, 45, 2}, mae \in {Nothing, 20, 45, 2}}]

MCScenes ==
  {Race(TRUE, {"GET", "DELETE"}, {<<Is("FAILS")>>, <<Covers(35, 15)>>}), Race(FALSE, {"DELETE"}, {<<>>}), Race(TRUE, {"EDIT"}, {<<>>}),
   Paging, Audit, Logging}
  \cup {Sums(f) : f \in {Long(10, {40}), Long(Nothing, {}), Short(30, {5}), Short(30, {})}}
Anyone == Permutations(Tasks)
=============================================================================
