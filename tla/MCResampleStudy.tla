---------------------------- MODULE MCResampleStudy ----------------------------
EXTENDS ResampleStudy, TLC
CONSTANTS g1, g2, h1, h2
MCAnswered == { [final |-> 1, second |-> 1, last |-> 1],
                [final |-> 1, second |-> Malformed, last |-> 1] }
MCClassified == LET yes == [changed |-> TRUE, matched |-> TRUE, sure |-> TRUE]
                IN {<<yes, yes>>, <<Malformed>>}
(* Bound: generation is over, for this study, once a paid plan names it. *)
MCTurns == (On("idle") /\ paidPlan = Nothing) \/ \A g \in Generators : At(g, "idle")
MCSymmetry == Permutations(Generators) \cup Permutations(Hosts)
=============================================================================
