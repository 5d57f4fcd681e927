----------------------------- MODULE CostLedger -----------------------------
(***************************************************************************)
(* What CostLedger promises its callers: each operation reads, decides on  *)
(* and replaces the whole document in one indivisible step.  LockedLedger  *)
(* models how the code does it and is shown to implement this module.      *)
(***************************************************************************)
EXTENDS LedgerDocument

CONSTANT Requests     \* the calls the processes of the system make

VARIABLE doc

Init == doc = EmptyLedger

Apply(r) == Accepts(doc, r) /\ doc' = Result(doc, r)

Next == \E r \in Requests : Apply(r)

Spec == Init /\ [][Next]_doc
=============================================================================
