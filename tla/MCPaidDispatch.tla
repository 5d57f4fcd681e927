--------------------------- MODULE MCPaidDispatch ---------------------------
(***************************************************************************)
(* PaidDispatch with two processes, two requests of bound 2 and 1, of      *)
(* which the second may cost 2, phases that overlap, and a ledger too      *)
(* small for both phases beside other spending.                            *)
(***************************************************************************)
EXTENDS PaidDispatch, TLC

MCReqs == {"q1", "q2"}
MCEntryIds == MCReqs \cup {"gpu1"}
MCPhases == {{"q1"}, {"q1", "q2"}}
MCBound == [r \in MCReqs |-> IF r = "q1" THEN 2 ELSE 1]
MCAmounts == 0..2
MCDescriptions == {"preflight", "response", "other"}
MCHardStops == [gpu |-> 2, api |-> 3, total |-> 4]
MCResponses == { [outcome |-> "ok", cost |-> 1], [outcome |-> "ok", cost |-> 2],
                 [outcome |-> "no_usage", cost |-> 1], [outcome |-> "http_error", cost |-> 0] }

WorkerSymmetry == Permutations(Workers)
=============================================================================
