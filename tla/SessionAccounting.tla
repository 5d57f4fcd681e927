-------------------------- MODULE SessionAccounting --------------------------
(***************************************************************************)
(* What the GPU controls promise about money: a session is reserved in the *)
(* ledger before its Pod can run, its Pod runs at most once and never      *)
(* beside another one, and its estimate is replaced only when the run is   *)
(* over (by its cost) or provably never happened (by zero).  GpuSession    *)
(* models the scripts and processes and is shown to implement this module. *)
(***************************************************************************)
CONSTANT Sessions

VARIABLES account,  \* the ledger entry of each session
          running,  \* sessions whose Pod is running, hence billed
          ran       \* sessions whose Pod has run

vars == <<account, running, ran>>

Open == {s \in Sessions : account[s] = "estimated"}

Init == /\ account = [s \in Sessions |-> "none"]
        /\ running = {}
        /\ ran = {}

Enter(s, value) == account' = [account EXCEPT ![s] = value]

Reserve(s) == /\ account[s] = "none" /\ Open = {}
              /\ Enter(s, "estimated")
              /\ UNCHANGED <<running, ran>>

Start(s) == /\ s \in Open \ ran
            /\ running = {}
            /\ running' = {s}
            /\ ran' = ran \cup {s}
            /\ UNCHANGED account

Stop == /\ running' = {}
        /\ UNCHANGED <<account, ran>>

CloseUnstarted(s) == /\ s \in Open \ ran
                     /\ Enter(s, "zero")
                     /\ UNCHANGED <<running, ran>>

CloseStopped(s) == /\ s \in (Open \cap ran) \ running
                   /\ Enter(s, "billed")
                   /\ UNCHANGED <<running, ran>>

Next == \/ Stop
        \/ \E s \in Sessions : \/ Reserve(s) \/ Start(s)
                               \/ CloseUnstarted(s) \/ CloseStopped(s)

Spec == Init /\ [][Next]_vars
=============================================================================
