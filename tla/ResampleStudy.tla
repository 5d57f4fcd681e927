----------------------------- MODULE ResampleStudy -----------------------------
(***************************************************************************)
(* Adjudication and release of the resampling half: every valid unit is    *)
(* judged by two final judges, eligible replacements by two classifiers,   *)
(* one immutable row is committed per unit, and a release is frozen.       *)
(* resample_adjudication_phase.py and resample-adjudicate of cli.py,       *)
(* composed with ResampleGeneration.  How a response is paid at most once  *)
(* is PaidDispatch.  One command at a time; it may be killed anywhere.     *)
(***************************************************************************)
EXTENDS ResampleGeneration, FinalConsensus

(* A classifier says whether the feature changed and the control function *)
(* is matched, and how surely; both say the same and surely, or nothing is *)
(* concluded.  After a malformed first answer the second is not asked for. *)
RouteAnswers == [changed : BOOLEAN, matched : BOOLEAN, sure : BOOLEAN]
ClassAnswers == { <<a, b>> : a \in RouteAnswers, b \in RouteAnswers \cup {Malformed} } \cup {<<Malformed>>}
WellFormed(c) == Malformed \notin { c[i] : i \in DOMAIN c }
Concluded(c) == WellFormed(c) /\ [c[1] EXCEPT !.sure = TRUE] = c[2] /\ c[1].sure
Replaces(c) == Concluded(c) /\ c[1].changed /\ c[1].matched

CONSTANTS Answered,      \* what the two final judges may answer
          Classified,    \* what the two classifier routes may amount to
          MinimumValid, MinimumPairs, MaximumGap, MinimumOverall

ASSUME AttritionAssumption ==
  /\ {MinimumValid, MinimumPairs, MaximumGap} \subseteq Nat /\ MinimumOverall \in 0..100
  /\ Answered \subseteq Measurements /\ Nothing \notin Answered
  /\ Classified \subseteq ClassAnswers /\ Nothing \notin Classified

VARIABLES
  finals,    \* stored answers of the final judges, by unit
  classes,   \* stored answers of the classifiers, by unit
  paidPlan,  \* paid_plan.json
  judged,    \* the store of judged rows
  quality, verdict, artifact, execution, validation,   \* frozen files
  audit,     \* openrouter_usage_audit.jsonl: the calls it lists
  judge      \* the command

money == <<finals, classes, paidPlan>>
release == <<quality, verdict, artifact, execution, validation>>
adjudicationVars == <<money, judged, audit, release, judge>>
vars == <<generationVars, adjudicationVars>>

Bench == [pc |-> "idle", unit |-> 0, known |-> {}, asked |-> {}]

Init ==
  /\ GenerationInit
  /\ finals = [u \in Units |-> Nothing] /\ classes = [u \in Units |-> Nothing]
  /\ paidPlan = Nothing /\ judged = EmptyStore /\ audit = {} /\ judge = Bench
  /\ quality = Nothing /\ verdict = Nothing
  /\ artifact = Nothing /\ execution = Nothing /\ validation = Nothing

On(pc) == judge.pc = pc
Move(pc) == judge' = [judge EXCEPT !.pc = pc]
Retire == judge' = Bench

-----------------------------------------------------------------------------
(* The gates.  Attrition is known before anything is paid for.             *)

Outcome(u) == combined[u + 1].outcome
ValidUnits == { u \in Units : Outcome(u) # "invalid" }
ValidIn(a, arm) == { u \in ValidUnits : Anchor(u) = a /\ Arm(u) = arm }
PairsOf(a) == { Pair(u) : u \in ValidIn(a, "retain") } \cap { Pair(u) : u \in ValidIn(a, "resample") }
Gap(a) == Cardinality(ValidIn(a, "retain")) - Cardinality(ValidIn(a, "resample"))

AttritionGate ==
  /\ Reaches(Cardinality(ValidUnits), Cardinality(Units), MinimumOverall)
  /\ \A a \in 0..(AnchorCount - 1) :
       /\ \A arm \in {"retain", "resample"} : Cardinality(ValidIn(a, arm)) >= MinimumValid
       /\ Cardinality(PairsOf(a)) >= MinimumPairs
       /\ 100 * (IF Gap(a) < 0 THEN -Gap(a) ELSE Gap(a)) <= MaximumGap * 2 * PerStage

(* mutated form: unknown finals leave the denominator. *)
MeasuredGateOfKnown(rows) ==
  LET known == { u \in DOMAIN rows : Known(rows[u]) }
  IN /\ Reaches(Exacts(Only(rows, known)), Cardinality(known), MinimumExactAgreement)
     /\ Reaches(Cardinality(known), Cardinality(known), MinimumFinalKnownRate)
(* Over every valid continuation, whatever was said of it. *)
MeasuredGate(rows) ==
  /\ Reaches(Exacts(rows), Total(rows), MinimumExactAgreement)
  /\ Reaches(Knowns(rows), Total(rows), MinimumFinalKnownRate)

QualityOf(rows) ==
  LET measured == [u \in { v \in Units : rows[v + 1].final # Nothing } |-> rows[u + 1].final]
  IN [rows |-> rows, passed |-> AttritionGate /\ MeasuredGate(measured)]

-----------------------------------------------------------------------------
(* Before anything is paid for. *)

(* mutated form: attrition is only looked at with the quality gate. *)
BeginUngated ==
  /\ On("idle") /\ GenerationLoads
  /\ Move("plan")
  /\ UNCHANGED <<money, judged, audit, release>>
Begin ==
  /\ On("idle") /\ GenerationLoads /\ AttritionGate
  /\ Move("plan")
  /\ UNCHANGED <<money, judged, audit, release>>

NeedsClass(u) == Arm(u) = "resample" /\ Outcome(u) = "eligible"
Requests == { <<"final", u>> : u \in ValidUnits }
              \cup { <<"class", u>> : u \in { v \in Units : NeedsClass(v) } }
Stored(r) == IF r[1] = "final" THEN finals[r[2]] # Nothing ELSE classes[r[2]] # Nothing
Unpaid == { r \in Requests : ~Stored(r) }

(* A retry keeps the frozen plan, and must ask for no more than it. *)
FreezePaidPlan ==
  /\ On("plan")
  /\ IF paidPlan = Nothing
     THEN paidPlan' = [source |-> genManifest, pending |-> Unpaid] /\ Move("open")
     ELSE /\ IF paidPlan.source = genManifest /\ Unpaid \subseteq paidPlan.pending
             THEN Move("open") ELSE Retire
          /\ UNCHANGED paidPlan
  /\ UNCHANGED <<finals, classes, judged, audit, release>>

(* A row of the store is authenticated against the source it was made of. *)
SourceOf(u) == [unit |-> u, row |-> combined[u + 1]]
Authentic(rows) == \A u \in DOMAIN rows : rows[u].source = SourceOf(u)

Open ==
  /\ On("open")
  /\ judge' = IF Final(judged) THEN
                IF LoadsFinal(judged, WholeOrder) THEN [judge EXCEPT !.pc = "quality"] ELSE Bench
              ELSE IF Authentic(judged.records)
              THEN [judge EXCEPT !.pc = "classify", !.known = DOMAIN judged.records] ELSE Bench
  /\ UNCHANGED <<money, judged, audit, release>>

-----------------------------------------------------------------------------
(* One unit after another in frozen order: classifiers, judges, its row.   *)
(* Answers of committed rows are taken from those rows, answers paid for   *)
(* by an earlier command from their stores; both are the stored answer.    *)

U == judge.unit
Recorded(u) == u \in judge.known

(* mutated form: what an earlier command was answered is not looked up. *)
ClassifyAfresh ==
  /\ On("classify") /\ U \in Units
  /\ IF NeedsClass(U) /\ ~Recorded(U)
     THEN /\ \E c \in Classified : classes' = [classes EXCEPT ![U] = c]
          /\ judge' = [judge EXCEPT !.pc = "judge", !.asked = @ \cup {<<"class", U>>}]
     ELSE Move("judge") /\ UNCHANGED classes
  /\ UNCHANGED <<finals, paidPlan, judged, audit, release>>
Classify ==
  /\ On("classify") /\ U \in Units
  /\ IF NeedsClass(U) /\ ~Recorded(U)
     THEN /\ \E c \in Classified :
               classes' = IF classes[U] = Nothing THEN [classes EXCEPT ![U] = c] ELSE classes
          /\ judge' = [judge EXCEPT !.pc = "judge", !.asked = @ \cup {<<"class", U>>}]
     ELSE Move("judge") /\ UNCHANGED classes
  /\ UNCHANGED <<finals, paidPlan, judged, audit, release>>

JudgeFinal ==
  /\ On("judge")
  /\ IF U \in ValidUnits /\ ~Recorded(U)
     THEN /\ \E m \in Answered :
               finals' = IF finals[U] = Nothing THEN [finals EXCEPT ![U] = m] ELSE finals
          /\ judge' = [judge EXCEPT !.pc = "commit", !.asked = @ \cup {<<"final", U>>}]
     ELSE Move("commit") /\ UNCHANGED finals
  /\ UNCHANGED <<classes, paidPlan, judged, audit, release>>

(* A retained sentence is its own reference; a replacement must have been  *)
(* judged to replace.  A malformed classification qualifies nothing.       *)
Intervention(u) ==
  u \in ValidUnits /\ (Arm(u) = "resample" => NeedsClass(u) /\ Replaces(classes[u]))

RowFor(u) ==
  [source |-> SourceOf(u), final |-> finals[u], class |-> classes[u],
   intervention |-> Intervention(u),
   confirmatory |-> Intervention(u) /\ Known(finals[u])]

CommitUnit ==
  /\ On("commit")
  /\ IF MayCommit(judged, U, RowFor(U))
     THEN /\ judged' = WithRecord(judged, U, RowFor(U))
          /\ judge' = IF Recorded(U) THEN [judge EXCEPT !.pc = "classify", !.unit = U + 1]
                      ELSE [judge EXCEPT !.pc = "usage"]
     ELSE Retire /\ UNCHANGED judged
  /\ UNCHANGED <<money, audit, release>>

(* The audit file is replaced by the calls of this process. *)
WriteUsage ==
  /\ On("usage") \/ On("last usage")
  /\ audit' = judge.asked
  /\ judge' = IF On("usage") THEN [judge EXCEPT !.pc = "classify", !.unit = U + 1]
              ELSE [judge EXCEPT !.pc = "artifact"]
  /\ UNCHANGED <<money, judged, release>>

-----------------------------------------------------------------------------
(* Closing, verdict and release.  A file that exists must be equal.        *)

Merge ==
  /\ On("classify") /\ U \notin Units
  /\ IF MayMerge(judged, WholeOrder)
     THEN judged' = Merged(judged, WholeOrder) /\ Move("close") ELSE Retire /\ UNCHANGED judged
  /\ UNCHANGED <<money, audit, release>>
Close ==
  /\ On("close")
  /\ IF MayClose(judged, WholeOrder)
     THEN judged' = Closed(judged, WholeOrder) /\ Move("quality") ELSE Retire /\ UNCHANGED judged
  /\ UNCHANGED <<money, audit, release>>

Verifies(file, content) == file \in {Nothing, content}

FreezeQuality ==
  LET content == QualityOf(judged.merged)
  IN /\ On("quality")
     /\ IF Verifies(quality, content) THEN quality' = content /\ Move("verdict")
        ELSE Retire /\ UNCHANGED quality
     /\ UNCHANGED <<money, judged, audit, verdict, artifact, execution, validation>>
(* The verdict of a gate that failed is frozen too, and ends the command.  *)
FreezeVerdict ==
  LET content == [source |-> genManifest, store |-> judged.manifest, quality |-> quality]
  IN /\ On("verdict")
     /\ IF Verifies(verdict, content)
        THEN verdict' = content /\ IF quality.passed THEN Move("last usage") ELSE Retire
        ELSE Retire /\ UNCHANGED verdict
     /\ UNCHANGED <<money, judged, audit, quality, artifact, execution, validation>>

(* Both stages, both arms and every sample of every anchor, once each. *)
Inventoried(rows) == Len(rows) = 2 * StageSize /\ { rows[i].source.unit : i \in DOMAIN rows } = Units
FreezeArtifact ==
  /\ On("artifact")
  /\ IF Inventoried(judged.merged) /\ Verifies(artifact, judged.merged) THEN artifact' = judged.merged /\ Move("execution")
     ELSE Retire /\ UNCHANGED artifact
  /\ UNCHANGED <<money, judged, audit, quality, verdict, execution, validation>>
ExecutionOf == [artifact |-> artifact, verdict |-> verdict, plan |-> paidPlan, audit |-> audit]
FreezeExecution ==
  /\ On("execution")
  /\ IF Verifies(execution, ExecutionOf) THEN execution' = ExecutionOf /\ Move("validation")
     ELSE Retire /\ UNCHANGED execution
  /\ UNCHANGED <<money, judged, audit, quality, verdict, artifact, validation>>
FreezeValidation ==
  LET content == [artifact |-> artifact, execution |-> execution]
  IN /\ On("validation")
     /\ validation' = IF Verifies(validation, content) THEN content ELSE validation
     /\ Retire
     /\ UNCHANGED <<money, judged, audit, quality, verdict, artifact, execution>>

Kill == ~On("idle") /\ Retire /\ UNCHANGED <<money, judged, audit, release>>

Adjudication ==
  \/ Begin \/ FreezePaidPlan \/ Open \/ Classify \/ JudgeFinal \/ CommitUnit \/ WriteUsage
  \/ Merge \/ Close \/ FreezeQuality \/ FreezeVerdict \/ FreezeArtifact \/ FreezeExecution
  \/ FreezeValidation \/ Kill

Next == \/ (\E g \in Generators : GenerateStep(g)) /\ UNCHANGED adjudicationVars
        \/ Adjudication /\ UNCHANGED generationVars

Spec == Init /\ [][Next]_vars

-----------------------------------------------------------------------------
(* Properties. *)

(* However often a stage was interrupted, its continuations come from one  *)
(* backend, those already merged and those still to come.                  *)
OneBackendPerStage == \A s \in DOMAIN stores : \A u, v \in DOMAIN stores[s].records :
  stores[s].records[u].host = stores[s].records[v].host

(* Money is only spent on a generation that can still be released: every   *)
(* answer belongs to a valid unit of a closed generation that passed every *)
(* attrition gate, a classification to an eligible replacement, and both   *)
(* were announced in the frozen plan.                                      *)
PaidIsReleasable ==
  LET paid == { <<"final", u>> : u \in { v \in Units : finals[v] # Nothing } }
                \cup { <<"class", u>> : u \in { v \in Units : classes[v] # Nothing } }
  IN paid # {} => /\ GenerationLoads /\ AttritionGate
                  /\ paid \subseteq Requests /\ paid \subseteq paidPlan.pending

(* Whether a pair enters the analysis is settled before its outcome is     *)
(* known: once a unit's final is stored, kills and repeated commands       *)
(* neither ask a classifier about it nor change what one said.             *)
EligibilityFirst == [][ \A u \in Units : finals[u] # Nothing => classes'[u] = classes[u] ]_vars

(* A validated release is of one generation: rows of every frozen unit in  *)
(* order, each with the stored answers, and of every ten valid units at    *)
(* least nine exact; nothing of it was replaced by a resumed command.      *)
ReleaseIsFaithful == validation # Nothing =>
  /\ validation.artifact = artifact /\ validation.execution = execution
  /\ execution.artifact = artifact /\ execution.verdict = verdict
  /\ verdict.source = genManifest /\ GenerationLoads /\ LoadsFinal(judged, WholeOrder)
  /\ Len(artifact) = Cardinality(Units)
  /\ \A u \in Units : artifact[u + 1] = RowFor(u)
  /\ 10 * Cardinality({ u \in ValidUnits : Exact(finals[u]) }) >= 9 * Cardinality(ValidUnits)
  /\ 20 * Cardinality({ u \in ValidUnits : Known(finals[u]) }) >= 19 * Cardinality(ValidUnits)

(* README: existing content-addressed outputs "must match byte-for-byte;   *)
(* the pipeline does not silently overwrite or reinterpret them".  The     *)
(* usage audit a frozen execution manifest names by its hash.              *)
AuditIsNamed == execution # Nothing => execution.audit = audit

=============================================================================
