---------------------------- MODULE GenerationPhase ----------------------------
(***************************************************************************)
(* GPU generation of behavioral rollouts: behavioral_phases.py and the     *)
(* behavior-generate command of cli.py.  A plan is frozen before a model   *)
(* is constructed, microbatches are committed one file each, and a phase   *)
(* is closed by a merged file and a manifest that names every batch.  A    *)
(* command may be killed between any two steps and started again; the      *)
(* rented GPUs hold one copy of the model at a time.                       *)
(***************************************************************************)
EXTENDS Integers, Sequences

CONSTANTS Generators,  \* behavior-generate commands
          BatchCount,  \* microbatches of a phase
          Hosts,       \* observed backend provenances (software of a Pod)
          Approvals,   \* paid-run approvals
          Environment, \* approval -> the execution environment it binds
          Nothing      \* an absent file

ASSUME GenerationAssumption == /\ BatchCount \in Nat \ {0}
                               /\ Nothing \notin Hosts \cup Approvals \cup Generators
                               /\ Nothing \notin [host : Hosts]

Phases == {"baseline", "treatment"}
Batches == 1..BatchCount

VARIABLES
  approval,  \* the approval in force
  plan,      \* generation_plan.json of each phase
  receipt,   \* paid-phase receipt of each phase's GPU command
  batches,   \* batch files of each phase
  merged,    \* generation_rows.jsonl of each phase
  manifest,  \* generation_manifest.json of each phase
  gpu,       \* command whose model is loaded
  gen        \* each command

files == <<plan, receipt, batches, merged, manifest>>
generationVars == <<approval, files, gpu, gen>>

Idle == [pc |-> "idle", phase |-> "baseline", next |-> 1, first |-> 0, rows |-> <<>>,
         host |-> Nothing, sums |-> Nothing]

GenerationInit ==
  /\ approval \in Approvals
  /\ plan = [p \in Phases |-> Nothing] /\ receipt = [p \in Phases |-> Nothing]
  /\ batches = [p \in Phases |-> [b \in Batches |-> Nothing]]
  /\ merged = [p \in Phases |-> Nothing] /\ manifest = [p \in Phases |-> Nothing]
  /\ gpu = Nothing /\ gen = [g \in Generators |-> Idle]

-----------------------------------------------------------------------------
Phase(g) == gen[g].phase
At(g, pc) == gen[g].pc = pc
Goto(g, pc) == gen' = [gen EXCEPT ![g].pc = pc]
Release(g) == gpu' = IF gpu = g THEN Nothing ELSE gpu
(* Refused, out of batches, or killed: memory and model are gone. *)
End(g) == gen' = [gen EXCEPT ![g] = Idle] /\ Release(g)

Leave(g) == ~At(g, "idle") /\ End(g) /\ UNCHANGED <<approval, files>>

(* The plan binds the requests, hence a treatment's thresholds, and the    *)
(* approved environment.  An existing plan must be that plan.  A command   *)
(* on a closed phase writes nothing and is left out.                       *)
PlanOf(contract) == [contract |-> contract, environment |-> Environment[approval]]
Start(g, p, contract) ==
  /\ At(g, "idle") /\ manifest[p] = Nothing
  /\ plan[p] \in {Nothing, PlanOf(contract)}
  /\ plan' = [plan EXCEPT ![p] = PlanOf(contract)]
  /\ gen' = [gen EXCEPT ![g] = [Idle EXCEPT !.pc = "load", !.phase = p]]
  /\ UNCHANGED <<approval, receipt, batches, merged, manifest, gpu>>

(* Batch files must be contiguous; a hole refuses the resume. *)
Load(g) ==
  LET here == gen[g]
      row == batches[Phase(g)][here.next]
  IN /\ At(g, "load") /\ here.next \in Batches
     /\ \/ /\ row # Nothing /\ here.first = 0
           /\ gen' = [gen EXCEPT ![g].next = @ + 1, ![g].rows = Append(@, row)]
           /\ UNCHANGED gpu
        \/ /\ row # Nothing /\ here.first # 0 /\ End(g)
        \/ /\ row = Nothing
           /\ gen' = [gen EXCEPT ![g].next = @ + 1,
                                 ![g].first = IF @ = 0 THEN here.next ELSE @]
           /\ UNCHANGED gpu
     /\ UNCHANGED <<approval, files>>

Loaded(g) ==
  /\ At(g, "load") /\ gen[g].next \notin Batches
  /\ Goto(g, IF gen[g].first = 0 THEN "compare" ELSE "authorize")
  /\ UNCHANGED <<approval, files, gpu>>

(* One immutable receipt per phase: plan and approval, or a refusal. *)
Authorize(g) ==
  LET wanted == [plan |-> plan[Phase(g)], approval |-> approval]
  IN /\ At(g, "authorize")
     /\ IF receipt[Phase(g)] \in {Nothing, wanted}
        THEN /\ receipt' = [receipt EXCEPT ![Phase(g)] = wanted]
             /\ Goto(g, "construct") /\ UNCHANGED gpu
        ELSE End(g) /\ UNCHANGED receipt
     /\ UNCHANGED <<approval, plan, batches, merged, manifest>>

(* mutated form: a resumed phase accepts whatever software it finds. *)
ConstructAnywhere(g) ==
  /\ At(g, "construct") /\ gpu = Nothing
  /\ \E h \in Hosts :
       gpu' = g /\ gen' = [gen EXCEPT ![g].pc = "generate", ![g].host = h]
  /\ UNCHANGED <<approval, files>>
(* The constructed backend must be the one of the committed batches. *)
Construct(g) ==
  /\ At(g, "construct") /\ gpu = Nothing
  /\ \E h \in Hosts :
       IF gen[g].rows = <<>> \/ Head(gen[g].rows).host = h
       THEN gpu' = g /\ gen' = [gen EXCEPT ![g].pc = "generate", ![g].host = h]
       ELSE End(g)
  /\ UNCHANGED <<approval, files>>

(* mutated form: a batch is written without looking for another writer's. *)
GenerateOver(g) == At(g, "generate") /\ Goto(g, "commit") /\ UNCHANGED <<gpu, approval, files>>
(* Another writer's batch where this one belongs stops the command. *)
Generate(g) ==
  /\ At(g, "generate")
  /\ IF batches[Phase(g)][gen[g].first] = Nothing THEN Goto(g, "commit") /\ UNCHANGED gpu
     ELSE End(g)
  /\ UNCHANGED <<approval, files>>

Commit(g) ==
  LET row == [host |-> gen[g].host]
      b == gen[g].first
  IN /\ At(g, "commit")
     /\ batches' = [batches EXCEPT ![Phase(g)][b] = row]
     /\ gen' = [gen EXCEPT ![g].rows = Append(@, row), ![g].first = @ + 1,
                           ![g].pc = IF b = BatchCount THEN "compare" ELSE "generate"]
     /\ UNCHANGED <<approval, plan, receipt, merged, manifest, gpu>>

-----------------------------------------------------------------------------
(* Closing a phase: merged rows, then a manifest over the files on disk.   *)

OneHost(rows) == \A i, j \in 1..Len(rows) : rows[i].host = rows[j].host

CompareMerged(g) ==
  /\ At(g, "compare")
  /\ IF ~OneHost(gen[g].rows) \/ merged[Phase(g)] \notin {Nothing, gen[g].rows} THEN End(g)
     ELSE Goto(g, IF merged[Phase(g)] = Nothing THEN "merge" ELSE "sum") /\ UNCHANGED gpu
  /\ UNCHANGED <<approval, files>>
Merge(g) ==
  /\ At(g, "merge")
  /\ merged' = [merged EXCEPT ![Phase(g)] = gen[g].rows]
  /\ Goto(g, "sum")
  /\ UNCHANGED <<approval, plan, receipt, batches, manifest, gpu>>

ManifestOf(g) == [plan |-> plan[Phase(g)], rows |-> gen[g].rows,
                  merged |-> merged[Phase(g)], batches |-> batches[Phase(g)]]
Sum(g) ==
  /\ At(g, "sum")
  /\ IF manifest[Phase(g)] = Nothing
     THEN /\ gen' = [gen EXCEPT ![g].pc = "close", ![g].sums = ManifestOf(g)]
          /\ UNCHANGED gpu
     ELSE End(g)   \* the same manifest is a success, another one a refusal
  /\ UNCHANGED <<approval, files>>
Close(g) ==
  /\ At(g, "close")
  /\ manifest' = [manifest EXCEPT ![Phase(g)] = gen[g].sums]
  /\ End(g)
  /\ UNCHANGED <<approval, plan, receipt, batches, merged>>

(* What a later phase reads, or a refusal: every file is what the manifest *)
(* says, and every row comes from one backend.                             *)
Loads(p) ==
  /\ plan[p] # Nothing /\ manifest[p] # Nothing
  /\ manifest[p].plan = plan[p]
  /\ manifest[p].batches = batches[p] /\ manifest[p].merged = merged[p]
  /\ merged[p] = [b \in Batches |-> batches[p][b]] /\ manifest[p].rows = merged[p]
  /\ OneHost(merged[p])

GenerateStep(g) ==
  \/ Load(g) \/ Loaded(g) \/ Authorize(g) \/ Construct(g) \/ Generate(g) \/ Commit(g)
  \/ CompareMerged(g) \/ Merge(g) \/ Sum(g) \/ Close(g)

(* A new approval is installed while no paid command is running. *)
Reapprove == /\ \A g \in Generators : At(g, "idle")
             /\ approval' \in Approvals \ {approval}
             /\ UNCHANGED <<files, gpu, gen>>

=============================================================================
