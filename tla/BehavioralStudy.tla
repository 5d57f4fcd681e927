---------------------------- MODULE BehavioralStudy ----------------------------
(***************************************************************************)
(* The behavioral half of the study: baseline generation, baseline         *)
(* adjudication, published thresholds, treatment generation, treatment     *)
(* adjudication, release.  behavioral_adjudication_phase.py and the        *)
(* behavior-adjudicate command of cli.py, composed with GenerationPhase.   *)
(* A unit is the one rollout of a microbatch.  The paid calls themselves,  *)
(* at most one per request and replayed afterwards, are PaidDispatch.      *)
(*                                                                         *)
(* A record keeps its origin: "paid", or "replay" of a stored response;    *)
(* usage metadata tells the two apart and enters the record's hash.        *)
(***************************************************************************)
EXTENDS GenerationPhase, FinalConsensus

CONSTANTS Judges,   \* behavior-adjudicate commands
          Answered, \* measurements the judges' responses may amount to
          Cells,    \* units of each task x condition cell of a phase
          TableCount \* tables and summaries of a release (the code has seven)

ASSUME StudyAssumption == /\ Answered \subseteq Measurements
                          /\ Cells \subseteq SUBSET Batches
                          /\ TableCount \in Nat \ {0}

VARIABLES
  responses,  \* paid responses of each phase's units
  apiPlan, attempts, apiReceipt,  \* paid plan, attempt receipts, phase receipt
  bundle,     \* the six checkpoint files of each adjudication phase
  usage,      \* API usage audit of each phase
  consensus,  \* consensus rows of each phase
  verdict,    \* adjudication_manifest.json of each phase
  thresholds, \* behavioral_thresholds.json
  outputs,    \* the released files
  judge       \* each command

money == <<responses, apiPlan, attempts, apiReceipt>>
results == <<consensus, verdict, thresholds, outputs>>
adjudicationVars == <<money, bundle, usage, results, judge>>
vars == <<generationVars, adjudicationVars>>

SixFiles == <<"primary_rows", "primary_manifest", "primary_raw", "independent_final_manifest",
              "independent_final_raw", "independent_final_usage">>
Independent == {"independent_final_manifest", "independent_final_usage"}
Outputs == 1..(TableCount + 2)   \* tables, the release, the sampling manifest
ReleaseManifest == TableCount + 1
SamplingManifest == TableCount + 2

Bench == [pc |-> "idle", phase |-> "baseline", source |-> Nothing, pending |-> {},
          units |-> <<>>, file |-> 1, asked |-> {}, audit |-> {}, inventory |-> Nothing,
          content |-> Nothing]

PerPhase(x) == [p \in Phases |-> x]
Init == /\ GenerationInit
        /\ responses = PerPhase([u \in Batches |-> Nothing])
        /\ apiPlan = PerPhase(Nothing) /\ attempts = PerPhase({}) /\ apiReceipt = PerPhase(Nothing)
        /\ bundle = PerPhase([f \in 1..6 |-> Nothing]) /\ usage = PerPhase({})
        /\ consensus = PerPhase(Nothing) /\ verdict = PerPhase(Nothing)
        /\ thresholds = Nothing /\ outputs = [o \in Outputs |-> Nothing]
        /\ judge = [j \in Judges |-> Bench]

-----------------------------------------------------------------------------
(* What is read from disk. *)

Case(j) == judge[j].phase
On(j, pc) == judge[j].pc = pc
Move(j, pc) == judge' = [judge EXCEPT ![j].pc = pc]
Retire(j) == judge' = [judge EXCEPT ![j] = Bench]

(* The baseline verdict passed its gates and names the rows on disk. *)
BaselineLoads == /\ verdict["baseline"] # Nothing /\ verdict["baseline"].passed
                 /\ consensus["baseline"] = verdict["baseline"].rows

(* The published thresholds are those of this baseline verdict. *)
ThresholdsBound == thresholds # Nothing /\ thresholds.source = verdict["baseline"]

(* Frozen thresholds carry no claim about the verdict to generation. *)
Contract(p) == IF p = "baseline" THEN "fixed rules" ELSE thresholds

SameEnvironment == /\ plan["treatment"].environment = plan["baseline"].environment
                   /\ Head(merged["treatment"]).host
                        = Head(verdict["baseline"].source.rows).host

(* Six files of one length, and independent records that match their usage. *)
BundleLoads(p) ==
  LET six == bundle[p]
  IN \/ \A f \in 1..6 : six[f] = Nothing
     \/ /\ \A f \in 1..6 : six[f] # Nothing
        /\ \A f, h \in 1..6 : Len(six[f]) = Len(six[h])
        /\ \A f, h \in {4, 6} : six[f] = six[h]

-----------------------------------------------------------------------------
(* Generation, as composed. *)

StartGeneration(g, p) == /\ p = "treatment" => thresholds # Nothing
                         /\ Start(g, p, Contract(p))

ReapproveAll == /\ \A j \in Judges : On(j, "idle")
                /\ Reapprove

Generation == \/ \E g \in Generators : (\E p \in Phases : StartGeneration(g, p))
                                       \/ GenerateStep(g) \/ Leave(g)
              \/ ReapproveAll

-----------------------------------------------------------------------------
(* Before an adjudication phase may pay. *)

Pending(p) == { u \in Batches : responses[p][u] = Nothing }

Begin(j, p) ==
  /\ On(j, "idle") /\ Loads(p)
  /\ p = "treatment" => BaselineLoads /\ ThresholdsBound
  /\ judge' = [judge EXCEPT ![j] = [Bench EXCEPT !.pc = "plan", !.phase = p,
                                      !.source = manifest[p], !.pending = Pending(p)]]
  /\ UNCHANGED <<money, bundle, usage, results>>

(* A retry keeps the frozen plan, and must ask for no more than it. *)
FreezePaidPlan(j) ==
  LET p == Case(j)
      fresh == [source |-> judge[j].source, contract |-> Contract(p), pending |-> judge[j].pending]
  IN /\ On(j, "plan")
     /\ IF apiPlan[p] = Nothing
        THEN apiPlan' = [apiPlan EXCEPT ![p] = fresh] /\ Move(j, "attempt")
        ELSE /\ IF /\ [apiPlan[p] EXCEPT !.pending = {}] = [fresh EXCEPT !.pending = {}]
                   /\ fresh.pending \subseteq apiPlan[p].pending
                THEN Move(j, "attempt") ELSE Retire(j)
             /\ UNCHANGED apiPlan
     /\ UNCHANGED <<responses, attempts, apiReceipt, bundle, usage, results>>

Attempt(j) ==
  LET p == Case(j)
  IN /\ On(j, "attempt")
     /\ IF \A earlier \in attempts[p] : judge[j].pending \subseteq earlier
        THEN attempts' = [attempts EXCEPT ![p] = @ \cup {judge[j].pending}] /\ Move(j, "authorize")
        ELSE Retire(j) /\ UNCHANGED attempts
     /\ UNCHANGED <<responses, apiPlan, apiReceipt, bundle, usage, results>>

AuthorizeCalls(j) ==
  LET p == Case(j)
      wanted == [plan |-> apiPlan[p], approval |-> approval]
  IN /\ On(j, "authorize")
     /\ IF apiReceipt[p] \in {Nothing, wanted}
        THEN apiReceipt' = [apiReceipt EXCEPT ![p] = wanted] /\ Move(j, "open")
        ELSE Retire(j) /\ UNCHANGED apiReceipt
     /\ UNCHANGED <<responses, apiPlan, attempts, bundle, usage, results>>

(* mutated form: the two phases may come from different software. *)
OpenAnywhere(j) ==
  LET p == Case(j)
  IN /\ On(j, "open")
     /\ IF /\ Loads(p) /\ manifest[p] = judge[j].source /\ BundleLoads(p)
           /\ p = "treatment" => BaselineLoads /\ plan["treatment"].contract = thresholds
        THEN judge' = [judge EXCEPT ![j].pc = "ask",
                                    ![j].units = IF bundle[p][1] = Nothing THEN <<>> ELSE bundle[p][4]]
        ELSE Retire(j)
     /\ UNCHANGED <<money, bundle, usage, results>>
(* mutated form: a finished checkpoint is judged again from the start. *)
OpenAfresh(j) ==
  LET p == Case(j)
  IN /\ On(j, "open")
     /\ IF /\ Loads(p) /\ manifest[p] = judge[j].source
           /\ p = "treatment" => /\ BaselineLoads /\ SameEnvironment
                                 /\ plan["treatment"].contract = thresholds
        THEN Move(j, "ask") ELSE Retire(j)
     /\ UNCHANGED <<money, bundle, usage, results>>
(* Generation and baseline are read again; the checkpoint is resumed. *)
Open(j) ==
  LET p == Case(j)
  IN /\ On(j, "open")
     /\ IF /\ Loads(p) /\ manifest[p] = judge[j].source /\ BundleLoads(p)
           /\ p = "treatment" => /\ BaselineLoads /\ SameEnvironment
                                 /\ plan["treatment"].contract = thresholds
        THEN judge' = [judge EXCEPT ![j].pc = "ask",
                                    ![j].units = IF bundle[p][1] = Nothing THEN <<>> ELSE bundle[p][4]]
        ELSE Retire(j)
     /\ UNCHANGED <<money, bundle, usage, results>>

-----------------------------------------------------------------------------
(* Judging: three calls per unit, then six files, then the usage audit.    *)

Unit(j) == Len(judge[j].units) + 1

Ask(j) ==
  LET p == Case(j)
      u == Unit(j)
      Record(origin) == judge' = [judge EXCEPT ![j].pc = "checkpoint", ![j].file = 1,
                                               ![j].units = Append(@, origin),
                                               ![j].asked = @ \cup {u}]
  IN /\ On(j, "ask") /\ u \in Batches
     /\ \/ /\ responses[p][u] = Nothing
           /\ \E m \in Answered : responses' = [responses EXCEPT ![p][u] = m]
           /\ Record("paid")
        \/ responses[p][u] # Nothing /\ Record("replay") /\ UNCHANGED responses
     /\ UNCHANGED <<apiPlan, attempts, apiReceipt, bundle, usage, results>>

(* Each of the six files is replaced atomically, one after another. *)
Checkpoint(j) ==
  LET f == judge[j].file
  IN /\ On(j, "checkpoint")
     /\ bundle' = [bundle EXCEPT ![Case(j)][f] = judge[j].units]
     /\ judge' = [judge EXCEPT ![j].file = IF f = 6 THEN 1 ELSE f + 1,
                               ![j].pc = IF f = 6 THEN "audit" ELSE "checkpoint"]
     /\ UNCHANGED <<money, usage, results>>

(* The usage audit is read, extended and written without a lock. *)
ReadAudit(j) == /\ On(j, "audit")
                /\ judge' = [judge EXCEPT ![j].pc = "append", ![j].audit = usage[Case(j)]]
                /\ UNCHANGED <<money, bundle, usage, results>>
AppendAudit(j) ==
  /\ On(j, "append")
  /\ usage' = [usage EXCEPT ![Case(j)] = judge[j].audit \cup judge[j].asked]
  /\ Move(j, IF judge[j].inventory = Nothing THEN "ask" ELSE "publish")
  /\ UNCHANGED <<money, bundle, results>>

-----------------------------------------------------------------------------
(* Gates, verdict, thresholds and release. *)

Spanned(p) == IF p = "baseline" THEN {"baseline"} ELSE Phases
(* The treatment verdict measures both phases again, cell by cell. *)
Passes(p) ==
  LET rows == [x \in Spanned(p) \X Batches |-> responses[x[1]][x[2]]]
      groups == { {q} \X units : q \in Spanned(p), units \in Cells \cup {Batches} }
  IN ConsensusGate(rows) /\ QualityGate(rows, groups)

Rows(j) == [units |-> judge[j].units, measured |-> responses[Case(j)]]
VerdictOf(j) ==
  [source |-> judge[j].source, rows |-> Rows(j), passed |-> Passes(Case(j)),
   baseline |-> IF Case(j) = "baseline" THEN Nothing ELSE verdict["baseline"]]

(* A baseline that fails its gates leaves no rows, verdict or thresholds. *)
WriteRows(j) ==
  /\ On(j, "ask") /\ Unit(j) \notin Batches
  /\ IF Case(j) = "baseline" /\ ~Passes("baseline") THEN Retire(j) /\ UNCHANGED consensus
     ELSE consensus' = [consensus EXCEPT ![Case(j)] = Rows(j)] /\ Move(j, "verdict")
  /\ UNCHANGED <<money, bundle, usage, verdict, thresholds, outputs>>

(* The inventory is what this verdict will publish. *)
WriteVerdict(j) ==
  /\ On(j, "verdict")
  /\ verdict' = [verdict EXCEPT ![Case(j)] = VerdictOf(j)]
  /\ IF VerdictOf(j).passed
     THEN judge' = [judge EXCEPT ![j].pc = "audit", ![j].file = 1, ![j].inventory = VerdictOf(j)]
     ELSE Retire(j)
  /\ UNCHANGED <<money, bundle, usage, consensus, thresholds, outputs>>

(* Thresholds and released files are written once, or must be equal. *)
PublishThresholds(j) ==
  /\ On(j, "publish") /\ Case(j) = "baseline"
  /\ IF thresholds = Nothing THEN Move(j, "put") ELSE Retire(j)
  /\ UNCHANGED <<money, bundle, usage, results>>
PutThresholds(j) ==
  /\ On(j, "put") /\ Case(j) = "baseline"
  /\ thresholds' = [source |-> judge[j].inventory]
  /\ Retire(j)
  /\ UNCHANGED <<money, bundle, usage, consensus, verdict, outputs>>

Complete(p) == \A f \in {2, 4} : bundle[p][f] # Nothing /\ Len(bundle[p][f]) = BatchCount
Tables == { o \in Outputs : o < ReleaseManifest }
(* The release names the tables and the audit that are on disk. *)
Content(j, o) ==
  CASE o \in Tables -> [verdict |-> judge[j].inventory, baseline |-> bundle["baseline"][4],
                        treatment |-> bundle["treatment"][4]]
    [] o = ReleaseManifest -> [tables |-> [t \in Tables |-> outputs[t]], usage |-> usage["treatment"]]
    [] o = SamplingManifest -> [release |-> outputs[ReleaseManifest], rollouts |-> outputs[1]]

PublishOutput(j) ==
  LET o == judge[j].file
      next == IF o = SamplingManifest THEN Bench ELSE [judge[j] EXCEPT !.file = o + 1]
  IN /\ On(j, "publish") /\ Case(j) = "treatment"
     /\ \E content \in {Content(j, o)} :
          judge' = [judge EXCEPT ![j] =
            IF o = 1 /\ ~(Complete("baseline") /\ Complete("treatment")) THEN Bench
            ELSE IF outputs[o] = Nothing THEN [@ EXCEPT !.pc = "put", !.content = content]
            ELSE IF outputs[o] = content THEN next ELSE Bench]
     /\ UNCHANGED <<money, bundle, usage, results>>
PutOutput(j) ==
  LET o == judge[j].file
  IN /\ On(j, "put") /\ Case(j) = "treatment"
     /\ outputs' = [outputs EXCEPT ![o] = judge[j].content]
     /\ judge' = [judge EXCEPT ![j] = IF o = SamplingManifest THEN Bench
                    ELSE [@ EXCEPT !.pc = "publish", !.file = o + 1, !.content = Nothing]]
     /\ UNCHANGED <<money, bundle, usage, consensus, verdict, thresholds>>

Kill(j) == ~On(j, "idle") /\ Retire(j) /\ UNCHANGED <<money, bundle, usage, results>>

JudgeStep(j) ==
  \/ FreezePaidPlan(j) \/ Attempt(j) \/ AuthorizeCalls(j) \/ Open(j) \/ Ask(j) \/ Checkpoint(j)
  \/ ReadAudit(j) \/ AppendAudit(j) \/ WriteRows(j) \/ WriteVerdict(j)
  \/ PublishThresholds(j) \/ PutThresholds(j) \/ PublishOutput(j) \/ PutOutput(j)

Adjudication == \E j \in Judges : (\E p \in Phases : Begin(j, p)) \/ JudgeStep(j) \/ Kill(j)

Next == \/ Generation /\ UNCHANGED adjudicationVars
        \/ Adjudication /\ UNCHANGED generationVars

Spec == Init /\ [][Next]_vars

-----------------------------------------------------------------------------
(* Properties. *)

Released == outputs[SamplingManifest] # Nothing

(* However many commands were killed or raced for a phase, its committed   *)
(* rollouts come from one backend: the comparison is made once, when a     *)
(* command constructs its model, against rows it loaded earlier.           *)
NoMixedPhase == \A p \in Phases : \A b, c \in Batches :
  batches[p][b] # Nothing /\ batches[p][c] # Nothing => batches[p][b].host = batches[p][c].host

(* A phase that has been closed is never refused by those that read it     *)
(* later: nothing that a straggling command still writes disagrees with    *)
(* the manifest (_load_and_hash_generation).                               *)
ClosedPhaseLoads == \A p \in Phases : manifest[p] # Nothing => Loads(p)

(* Preregistration: no treatment rollout exists before thresholds that a   *)
(* passed baseline verdict fixed, and that verdict is still the one on     *)
(* disk, also after adjudication was killed and repeated.                  *)
ThresholdsFirst ==
  (\E b \in Batches : batches["treatment"][b] # Nothing) =>
     /\ thresholds # Nothing /\ thresholds.source = verdict["baseline"]
     /\ verdict["baseline"].passed

(* A sampling manifest is only written for one verdict: both phases whole, *)
(* from one environment, judged to the last unit, both gates passed, and   *)
(* every table computed from the checkpoints that verdict was made of.     *)
ReleaseIsWhole == Released =>
  /\ ThresholdsBound /\ verdict["treatment"].passed /\ SameEnvironment
  /\ \A p \in Phases : Loads(p) /\ verdict[p].source = manifest[p]
                        /\ verdict[p].rows.units = bundle[p][4]
                        /\ verdict[p].rows.measured = responses[p]
  /\ \A t \in Tables : outputs[t].verdict = verdict["treatment"]
  /\ outputs[ReleaseManifest].tables = [t \in Tables |-> outputs[t]]
  /\ outputs[SamplingManifest].release = outputs[ReleaseManifest]

=============================================================================
