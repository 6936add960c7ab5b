---------------------------- MODULE JournalReport ---------------------------
(***************************************************************************)
(* The analytics report over an export of the journal (analytics/          *)
(* service.py, engine.py).  A view is what the journal shows of an entry;  *)
(* gains are in units of R, kept as the entry's pnl and risk.              *)
(***************************************************************************)
EXTENDS JournalOutcome

CONSTANTS
  LimitedFrom, ModerateFrom, StrongerFrom, \* sampleSizeLabels
  CurvePoints                              \* equityCurveMaxPoints

ASSUME JournalReportAssumption ==
  /\ 1 <= LimitedFrom /\ LimitedFrom < ModerateFrom /\ ModerateFrom < StrongerFrom
  /\ CurvePoints \in Nat \ {0}

Wins == {"VALID_WIN", "BAD_PROCESS_WIN"}
Label(n) ==
  IF n >= StrongerFrom THEN "STRONGER_EVIDENCE" ELSE IF n >= ModerateFrom THEN "MODERATE"
  ELSE IF n >= LimitedFrom THEN "LIMITED" ELSE "INSUFFICIENT"

(* Mutant: of the outcomes only the one that counts is looked at.          *)
LatestIntact(view) ==
  view.integrity = "VERIFIED" /\ (view.outcome # Nothing => view.outcome.integrity = "VERIFIED")
(* Every revision is as it was written, and so is the entry.               *)
Intact(view) == view.integrity = "VERIFIED" /\ \A o \in Range(view.revisions) : o.integrity = "VERIFIED"

Closed(view) == view.kind = "TRADE" /\ view.status = "CLOSED" /\ view.outcome # Nothing

(* journal_sample: the latest revision.                                    *)
Sample(view) ==
  LET o == view.outcome.record
  IN  [id |-> view.id, symbol |-> view.symbol, direction |-> view.trade.direction, at |-> o.exited,
       pnl |-> o.pnl, risk |-> o.risk, win |-> o.classification \in Wins,
       breakeven |-> \/ o.result = "BREAK_EVEN"
                     \/ o.risk # Nothing /\ 100 * Magnitude(o.pnl) <= BreakEvenTolerance * o.risk,
       violations |-> o.violations, dol |-> view.dol, entry |-> view.trade.entry, mfe |-> o.mfe,
       synthetic |-> view.synthetic \/ o.synthetic]

(* report: each entry goes into one count or is a sample.                  *)
Report(views, symbol, includeSynthetic) ==
  LET Of(set, Test(_)) == {v \in set : Test(v)}
      own      == Of(Range(views), LAMBDA v : symbol \in {Nothing, v.symbol})
      trades   == Of(own, LAMBDA v : v.kind = "TRADE")
      intact   == Of(trades, Intact)
      samples  == {Sample(v) : v \in Of(intact, Closed)}
      counted  == {s \in samples : includeSynthetic \/ ~s.synthetic}
  IN  [samples |-> counted,
       filtered |-> Cardinality(Range(views)) - Cardinality(own),
       decisions |-> Cardinality(own) - Cardinality(trades),
       tampered |-> Cardinality(trades) - Cardinality(intact),
       notClosed |-> Cardinality(intact) - Cardinality(samples),
       synthetic |-> Cardinality(samples) - Cardinality(counted)]

(* group_stats                                                             *)
GroupStats(samples) ==
  LET Count(Test(_)) == Cardinality({s \in samples : Test(s)})
      wins      == Count(LAMBDA s : s.win)
      breakeven == Count(LAMBDA s : ~s.win /\ s.breakeven)
  IN  [count |-> Cardinality(samples), label |-> Label(Cardinality(samples)), wins |-> wins, breakeven |-> breakeven,
       losses |-> Cardinality(samples) - wins - breakeven, rCount |-> Count(LAMBDA s : s.risk # Nothing)]

(* dol_accuracy: of the samples with the draw in their direction and ahead *)
(* of the entry, those whose best price got to it.                         *)
DolAccuracy(samples) ==
  LET known     == {s \in samples : s.dol # Nothing}
      Ahead(s)  == Sign(s.direction) * (s.dol.price - s.entry)
      aligned   == {s \in known : (s.dol.side = "BSL") = (s.direction = "BULLISH")}
      evaluated == {s \in aligned : s.mfe # Nothing /\ Ahead(s) > 0}
  IN  [unknown |-> Cardinality(samples \ known), opposed |-> Cardinality(known \ aligned),
       aligned |-> Cardinality(aligned), evaluated |-> Cardinality(evaluated),
       reached |-> Cardinality({s \in evaluated : s.mfe >= Ahead(s)})]

-----------------------------------------------------------------------------
(* drawdown.  A curve is the cumulative R in close order, as integers: the *)
(* risks of the samples with an R are made equal by the factor Common.     *)
Common(samples) == ProductSet({s.risk : s \in samples})
InOrder(samples) ==
  SetToSortSeq(samples, LAMBDA a, b : a.at < b.at \/ (a.at = b.at /\ a.id < b.id))
Curve(samples) ==
  LET known   == {s \in samples : s.risk # Nothing}
      ordered == InOrder(known)
      R(s)    == s.pnl * (Common(known) \div s.risk)
  IN  [i \in DOMAIN ordered |-> FoldLeft(LAMBDA sum, s : sum + R(s), 0, SubSeq(ordered, 1, i))]

(* The walk of drawdown(): the running peak, and the widest fall from it.  *)
(* Points are numbered from 1; 0 is the start of the curve at zero.        *)
Fall(equity, peak) == peak - equity
Start == [peak |-> 0, worst |-> 0, from |-> 0, trough |-> 0]
Walk(curve) ==
  FoldLeft(LAMBDA d, i :
             LET peak == IF curve[i] > d.peak THEN curve[i] ELSE d.peak
             IN  IF Fall(curve[i], peak) > d.worst
                 THEN [peak |-> peak, worst |-> Fall(curve[i], peak), from |-> peak, trough |-> i]
                 ELSE [d EXCEPT !.peak = peak],
           Start, [i \in DOMAIN curve |-> i])

Drawdown(curve) ==
  LET d     == Walk(curve)
      after == {j \in DOMAIN curve : j > d.trough /\ curve[j] >= d.from}
  IN  [worst |-> d.worst, peak |-> d.from, trough |-> d.trough,
       recovered |-> IF d.trough = 0 \/ after = {} THEN Nothing ELSE Min(after)]

(* downsample: some of the points in order, and the last.                  *)
Downsample(points) ==
  LET n == Len(points)
  IN  IF n <= CurvePoints THEN points
      ELSE [i \in 1 .. CurvePoints |-> IF i = CurvePoints THEN points[n] ELSE points[1 + ((i - 1) * n) \div CurvePoints]]
=============================================================================
