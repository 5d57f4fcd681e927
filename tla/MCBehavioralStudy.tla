--------------------------- MODULE MCBehavioralStudy ---------------------------
EXTENDS BehavioralStudy, TLC
CONSTANTS g1, g2, j1, j2, h1, h2, a1, a2
MCEnvironment == [a \in Approvals |-> "e"]
MCAnswered == { [final |-> 1, second |-> 1, last |-> 1],
                [final |-> 1, second |-> Malformed, last |-> 1] }
MCCells == {{1}}
(* Bound: generation and adjudication take turns, as their hosts do: one   *)
(* fetches the files of the other before it starts.                        *)
MCTurns == (\E g \in Generators : ~At(g, "idle")) => \A j \in Judges : On(j, "idle")
(* Bound: a new approval arrives before the baseline has a first verdict.  *)
MCEarlyApproval == approval' # approval => bundle["baseline"][1] = Nothing
MCSymmetry == Permutations(Generators) \cup Permutations(Hosts) \cup Permutations(Approvals)
=============================================================================
