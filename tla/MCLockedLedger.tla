--------------------------- MODULE MCLockedLedger ---------------------------
(***************************************************************************)
(* LockedLedger with two processes and the callers of the code in small:   *)
(* two GPU sessions reserved once each (together they fit under the cap),  *)
(* API calls reserved alone or as a phase, and their settlements.          *)
(***************************************************************************)
EXTENDS LockedLedger, TLC

MCEntryIds == {"g1", "g2", "a1", "a2", "anonymous"}
MCAmounts == 1..2
MCDescriptions == {"estimate", "cost"}
MCHardStops == [gpu |-> 3, api |-> 2, total |-> 4]

Est(k, n)  == [kind |-> k, amount |-> n, description |-> "estimate", status |-> "estimated"]
Cost(k, n) == [kind |-> k, amount |-> n, description |-> "cost", status |-> "incurred"]

Call(op, items) ==
  [op |-> op, items |-> items, required |-> {}, rejectIncurred |-> {},
   exclusive |-> FALSE, ceiling |-> 4]

OnceGpu(i, n) == [Call("reserve_once", i :> Est("gpu", n)) EXCEPT !.exclusive = TRUE, !.ceiling = 3]

MCRequests ==
  { OnceGpu("g1", 2), OnceGpu("g2", 1),
    Call("settle_reservation", "g1" :> Cost("gpu", 1)),
    Call("settle_reservation", "g2" :> Cost("gpu", 1)),
    Call("reserve", "a1" :> Est("api", 1)),
    [Call("reserve_batch", ("a1" :> Est("api", 1)) @@ ("a2" :> Est("api", 1)))
       EXCEPT !.rejectIncurred = {"a1", "a2"}],
    [Call("reserve_batch", "a2" :> Est("api", 1)) EXCEPT !.required = {"a1"}],
    Call("settle_reservation", "a1" :> Cost("api", 1)),
    Call("settle_reservation", "a1" :> Cost("api", 2)),
    Call("append", "anonymous" :> Cost("api", 1)) }
=============================================================================
