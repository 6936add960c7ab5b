--------------------------- MODULE MCPaperTrading ---------------------------
(***************************************************************************)
(* Small instances of PaperTrading for TLC.                                *)
(***************************************************************************)
EXTENDS PaperTrading

CONSTANTS s1, s2, mon, r1, r2

B(e, s, t) == [entry |-> e, stop |-> s, target |-> t]

(* Nothing reached; limit and target touched in one bar; a gap through the *)
(* limit, then the stop.                                                   *)
MCBars == {B("none", "none", "none"), B("touch", "none", "touch"), B("gap", "touch", "none")}

(* Bounds: two requests race only to create, before there is a sim; the    *)
(* one that also works on a sim has s1 alone to work on; while a create is *)
(* under way, and with two sims, there is at most one bar.                 *)
Racing ==
  /\ \A p \in {r1, r2} : task[p].pc # "create" /\ task'[p].pc = "create" => used = {}
  /\ task'[r2].pc \in {"idle", "create"}
  /\ task'[r1].pc \notin {"idle", "create"} => used' = {s1} /\ task'[r2].pc = "idle"
  /\ used' = Sims \/ (\E p \in {r1, r2} : task'[p].pc = "create") => Len(feed') <= 1
=============================================================================
