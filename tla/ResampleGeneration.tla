--------------------------- MODULE ResampleGeneration ---------------------------
(***************************************************************************)
(* GPU generation of the resampling half: for each frozen anchor, paired   *)
(* retain and resample continuations in two unconditional stages.          *)
(* resample_phases.py and resample-generate of cli.py, over one store of   *)
(* rows per stage (RecordCheckpoint).  One approval: what a new one        *)
(* changes is in BehavioralStudy.                                          *)
(***************************************************************************)
EXTENDS RecordCheckpoint, Integers, FiniteSets

CONSTANTS Generators,    \* resample-generate commands
          Hosts,         \* observed backend provenances
          AnchorCount, PerStage, Microbatch

ASSUME ResampleAssumption ==
  /\ AnchorCount \in Nat \ {0} /\ PerStage \in Nat \ {0} /\ Microbatch \in Nat \ {0}
  /\ Nothing \notin Hosts \cup Generators

Stages == <<"initial", "stage_two">>
StageSize == 2 * PerStage * AnchorCount
Units == 0..(2 * StageSize - 1)

(* The frozen order: stage, anchor, sample, arm; both arms share a seed.   *)
Stage(u) == Stages[1 + (u \div StageSize)]
Anchor(u) == (u % StageSize) \div (2 * PerStage)
Arm(u) == IF u % 2 = 0 THEN "retain" ELSE "resample"
Pair(u) == u \div 2
UnitsOf(s) == { u \in Units : Stage(u) = s }
First(s) == IF s = "initial" THEN 0 ELSE StageSize
Order(s) == [i \in 1..StageSize |-> First(s) + i - 1]
WholeOrder == [i \in 1..(2 * StageSize) |-> i - 1]

VARIABLES
  stores,        \* generation rows of each stage
  registrations, \* prefix_registrations.jsonl exists
  combined,      \* gpu_intermediates.jsonl
  genManifest,   \* gpu_generation_manifest.json
  gpu, gen       \* whose model is loaded; each command

generation == <<stores, registrations, combined, genManifest>>
generationVars == <<generation, gpu, gen>>

Idle == [pc |-> "idle", todo |-> {}, host |-> Nothing, done |-> {}, batch |-> <<>>]

GenerationInit ==
  /\ stores = [s \in {"initial", "stage_two"} |-> EmptyStore]
  /\ registrations = FALSE /\ combined = Nothing /\ genManifest = Nothing
  /\ gpu = Nothing /\ gen = [g \in Generators |-> Idle]

-----------------------------------------------------------------------------
At(g, pc) == gen[g].pc = pc
Goto(g, pc) == gen' = [gen EXCEPT ![g].pc = pc]
End(g) == gen' = [gen EXCEPT ![g] = Idle] /\ gpu' = IF gpu = g THEN Nothing ELSE gpu
(* The stage a command works on, of those it found open when it began. *)
Current(g) == IF "initial" \in gen[g].todo THEN "initial" ELSE "stage_two"

Start(g) ==
  LET closed == { s \in DOMAIN stores : Final(stores[s]) }
      open == DOMAIN stores \ closed
  IN /\ At(g, "idle") /\ \A s \in closed : LoadsFinal(stores[s], Order(s))
     /\ gen' = [gen EXCEPT ![g] = [Idle EXCEPT !.todo = open,
                                     !.pc = IF open = {} THEN "combine" ELSE "construct"]]
     /\ UNCHANGED <<generation, gpu>>

Construct(g) ==
  /\ At(g, "construct") /\ gpu = Nothing
  /\ gpu' = g
  /\ \E h \in Hosts : gen' = [gen EXCEPT ![g].pc = "register", ![g].host = h]
  /\ UNCHANGED generation

Register(g) ==
  /\ At(g, "register") /\ registrations' = TRUE /\ Goto(g, "resume")
  /\ UNCHANGED <<stores, combined, genManifest, gpu>>

(* mutated form: rows of other software are resumed as well. *)
ResumeAnyRows(g) ==
  LET s == Current(g)
  IN /\ At(g, "resume")
     /\ gen' = [gen EXCEPT ![g].pc = "generate", ![g].done = DOMAIN stores[s].records]
     /\ UNCHANGED <<generation, gpu>>
(* Every row found must be of this allocation and of this very backend. *)
Resume(g) ==
  LET s == Current(g)
      found == stores[s].records
  IN /\ At(g, "resume")
     /\ IF /\ DOMAIN found \subseteq UnitsOf(s)
           /\ \A u \in DOMAIN found : found[u].host = gen[g].host
        THEN /\ gen' = [gen EXCEPT ![g].pc = "generate", ![g].done = DOMAIN found]
             /\ UNCHANGED gpu
        ELSE End(g)
     /\ UNCHANGED generation

(* A continuation is invalid for good, valid, or valid with a replacement  *)
(* far enough from the anchor and of its length ("eligible").              *)
Outcomes(u) == IF Arm(u) = "retain" THEN {"invalid", "valid"} ELSE {"invalid", "valid", "eligible"}
Batch(u) == (u - First(Stage(u))) \div Microbatch

Generate(g) ==
  LET s == Current(g)
      missing == UnitsOf(s) \ gen[g].done
      pending == { u \in missing : \A v \in missing : Batch(u) <= Batch(v) }
  IN /\ At(g, "generate")
     /\ IF missing = {} THEN Goto(g, "merge")
        ELSE \E drawn \in [pending -> {"invalid", "valid", "eligible"}] :
               /\ \A u \in pending : drawn[u] \in Outcomes(u)
               /\ gen' = [gen EXCEPT ![g].pc = "commit", ![g].batch = drawn]
     /\ UNCHANGED <<generation, gpu>>

CommitRow(g) ==
  LET s == Current(g)
      batch == gen[g].batch
      u == CHOOSE v \in DOMAIN batch : \A w \in DOMAIN batch : v <= w
      row == [host |-> gen[g].host, outcome |-> batch[u]]
      rest == DOMAIN batch \ {u}
  IN /\ At(g, "commit")
     /\ IF MayCommit(stores[s], u, row)
        THEN /\ stores' = [stores EXCEPT ![s] = WithRecord(@, u, row)]
             /\ gen' = [gen EXCEPT ![g].done = @ \cup {u}, ![g].batch = Restrict(batch, rest),
                                   ![g].pc = IF rest = {} THEN "generate" ELSE "commit"]
             /\ UNCHANGED gpu
        ELSE End(g) /\ UNCHANGED stores
     /\ UNCHANGED <<registrations, combined, genManifest>>

MergeStage(g) ==
  LET s == Current(g)
  IN /\ At(g, "merge")
     /\ IF MayMerge(stores[s], Order(s))
        THEN stores' = [stores EXCEPT ![s] = Merged(@, Order(s))] /\ Goto(g, "close") /\ UNCHANGED gpu
        ELSE End(g) /\ UNCHANGED stores
     /\ UNCHANGED <<registrations, combined, genManifest>>
CloseStage(g) ==
  LET s == Current(g)
      rest == gen[g].todo \ {s}
  IN /\ At(g, "close")
     /\ IF MayClose(stores[s], Order(s))
        THEN /\ stores' = [stores EXCEPT ![s] = Closed(@, Order(s))]
             /\ gen' = [gen EXCEPT ![g].todo = rest, ![g].done = {},
                                   ![g].pc = IF rest = {} THEN "combine" ELSE "resume"]
             /\ UNCHANGED gpu
        ELSE End(g) /\ UNCHANGED stores
     /\ UNCHANGED <<registrations, combined, genManifest>>

AllRows == stores["initial"].merged \o stores["stage_two"].merged
Combine(g) ==
  /\ At(g, "combine")
  /\ IF combined \in {Nothing, AllRows}
     THEN combined' = AllRows /\ Goto(g, "manifest") /\ UNCHANGED gpu
     ELSE End(g) /\ UNCHANGED combined
  /\ UNCHANGED <<stores, registrations, genManifest>>
GenManifest == [rows |-> combined, registrations |-> registrations]
WriteManifest(g) ==
  /\ At(g, "manifest")
  /\ genManifest' = IF genManifest = Nothing THEN GenManifest ELSE genManifest
  /\ End(g)
  /\ UNCHANGED <<stores, registrations, combined>>

(* Killed, or stopped by an error of the backend. *)
Leave(g) == ~At(g, "idle") /\ End(g) /\ UNCHANGED generation

GenerateStep(g) ==
  \/ Start(g) \/ Construct(g) \/ Register(g) \/ Resume(g) \/ Generate(g) \/ CommitRow(g)
  \/ MergeStage(g) \/ CloseStage(g) \/ Combine(g) \/ WriteManifest(g) \/ Leave(g)

(* What adjudication reads, or a refusal. *)
GenerationLoads ==
  /\ genManifest # Nothing /\ genManifest = GenManifest
  /\ \A s \in DOMAIN stores : LoadsFinal(stores[s], Order(s))
  /\ combined = AllRows

=============================================================================
