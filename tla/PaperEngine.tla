----------------------------- MODULE PaperEngine ----------------------------
(***************************************************************************)
(* services/paper/engine.py without prices: one bar against one simulated  *)
(* order.  A bar is described by what it does to the order's levels:       *)
(* whether the entry, the stop and the target are not reached, touched     *)
(* inside the bar, or gapped through at its open.  PaperPrices has the     *)
(* prices; that both come to the same is checked with the backtests.       *)
(***************************************************************************)
EXTENDS Integers, Sequences

CONSTANT ExpiryBars    \* paper.json pendingExpiryBars

Reach == {"none", "touch", "gap"}
Bar == [entry : Reach, stop : Reach, target : Reach]

Active   == {"PENDING", "OPEN"}
Statuses == Active \cup {"CLOSED", "EXPIRED", "CANCELLED"}
Reasons  == {"none", "STOP", "TARGET", "MANUAL"}

Fills(r, bar) == r.entry = "MARKET" \/ bar.entry # "none"

FillsIntrabar(r, bar) == r.status = "PENDING" /\ r.entry = "LIMIT" /\ bar.entry = "touch"

(* Gaps at the open come first, the stop before the target; then touches,  *)
(* the stop again first.  On an intrabar fill only the stop can trigger.   *)
ExitReason(bar, intrabar) ==
  IF bar.stop = "none" /\ (intrabar \/ bar.target = "none") THEN "none"
  ELSE IF intrabar \/ bar.stop = "gap" \/ (bar.stop = "touch" /\ bar.target # "gap")
       THEN "STOP" ELSE "TARGET"

StepRow(r, bar, k) ==
  IF r.status = "PENDING" /\ ~Fills(r, bar)
  THEN [r EXCEPT !.pending = @ + 1, !.thru = k,
                 !.status = IF r.pending + 1 >= ExpiryBars THEN "EXPIRED" ELSE "PENDING"]
  ELSE LET exit == ExitReason(bar, FillsIntrabar(r, bar))
       IN  [r EXCEPT !.thru = k, !.reason = exit,
                     !.status = IF exit = "none" THEN "OPEN" ELSE "CLOSED"]

ExitEvents(exit) ==
  IF exit = "STOP" THEN <<"STOP_HIT">> ELSE IF exit = "TARGET" THEN <<"TARGET_HIT">> ELSE <<>>

StepEvents(r, bar) ==
  IF r.status = "PENDING" /\ ~Fills(r, bar)
  THEN IF r.pending + 1 >= ExpiryBars THEN <<"EXPIRED">> ELSE <<>>
  ELSE (IF r.status = "PENDING" THEN <<"FILLED">> ELSE <<>>)
         \o ExitEvents(ExitReason(bar, FillsIntrabar(r, bar)))
=============================================================================
