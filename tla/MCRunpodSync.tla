---------------------------- MODULE MCRunpodSync ----------------------------
(***************************************************************************)
(* RunpodSync with two sessions of one Pod and two runs of the transfer    *)
(* program, which may race in one session or follow one another.           *)
(***************************************************************************)
EXTENDS RunpodSync, TLC

Symmetry == Permutations(Attempts) \cup Permutations(Sessions)

(* States are told apart by what a later step or a property still reads:   *)
(* not the next command of a failure, nor what went into its last word.    *)
Ended(a) == at[a].pc \in {"done", "failed", "refused", "killed"}
Failing(a) == at[a].pc \in {"failing", "stopping", "sweep"}
Live(a) == [at[a] EXCEPT !.next = IF Ended(a) \/ Failing(a) THEN 1 ELSE @,
                         !.request = IF Ended(a) THEN "untried" ELSE @,
                         !.stop = IF Ended(a) THEN "untried" ELSE @]
StillRead == <<host, pod, late, stops, claims, bundle, contacted, [a \in Attempts |-> Live(a)]>>
=============================================================================
