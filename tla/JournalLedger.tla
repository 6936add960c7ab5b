---------------------------- MODULE JournalLedger ---------------------------
(***************************************************************************)
(* What the journal promises to keep: of every entry what was written when *)
(* it was logged and, after it, the outcomes in the order they were        *)
(* appended.  Nothing of it is rewritten; an entry can only go whole, and  *)
(* does not come back.                                                     *)
(***************************************************************************)
EXTENDS Naturals, FiniteSets, Functions

CONSTANT Ids

VARIABLES
  ledger,  \* per entry its pages, page 0 what was logged
  gone     \* ids of erased entries

vars == <<ledger, gone>>

Numbered(pages) == DOMAIN pages = 0 .. Cardinality(DOMAIN pages) - 1

Init ==
  /\ DOMAIN ledger \subseteq Ids /\ \A id \in DOMAIN ledger : Numbered(ledger[id])
  /\ gone = {}

Others(id) == Restrict(ledger', DOMAIN ledger' \ {id}) = Restrict(ledger, DOMAIN ledger \ {id})

Log(id) ==
  /\ id \notin DOMAIN ledger \cup gone
  /\ id \in DOMAIN ledger' /\ DOMAIN ledger'[id] = {0} /\ Others(id)
  /\ UNCHANGED gone

(* One page more; those there were are as they were.                       *)
AppendTo(id) ==
  /\ id \in DOMAIN ledger \cap DOMAIN ledger'
  /\ DOMAIN ledger'[id] = 0 .. Cardinality(DOMAIN ledger[id])
  /\ Restrict(ledger'[id], DOMAIN ledger[id]) = ledger[id] /\ Others(id)
  /\ UNCHANGED gone

Erase(id) ==
  /\ id \in DOMAIN ledger
  /\ ledger' = Restrict(ledger, DOMAIN ledger \ {id})
  /\ gone' = gone \cup {id}

Next == \E id \in Ids : Log(id) \/ AppendTo(id) \/ Erase(id)

Spec == Init /\ [][Next]_vars
=============================================================================
