------------------------------ MODULE LensStudy ------------------------------
(***************************************************************************)
(* The observational half: `positions` asks a judge where each selected    *)
(* trace first states its estimate and freezes five token positions per    *)
(* trace; `lens` masks the cells whose probe was already said, runs the    *)
(* compatibility gate and reads both lenses at those positions.            *)
(* lens_positions.py, lens_command.py, lens_runner.py and cli.py.          *)
(* Every fitted layer is read alike, so a record stands for all of them.   *)
(***************************************************************************)
EXTENDS TokenSpans, Sequences

CONSTANTS
  TraceCount,   \* selected traces, in the order of the anchor manifest
  PromptCount,  \* tokens of the rendered prompt
  Concepts, Direction,  \* the probe universes; the one whose sign is flipped
  Layouts,      \* what a frozen trace and its anchor may look like
  Judgments,    \* where a judge may see the first estimate
  MaxBeat,      \* bound: heartbeats of the session's watcher
  Unknown, Nothing

Traces == 1..TraceCount
PositionOrder == {"prompt_end", "first_estimate_pre", "anchor_pre", "anchor_post", "final_answer_pre"}

ASSUME LensAssumption ==
  /\ {TraceCount, PromptCount} \subseteq Nat \ {0} /\ MaxBeat \in Nat
  /\ Direction \in Concepts

\* A completion is the lengths of its decoded prefixes, which need not grow,
\* and the tokens at which a concept was mentioned.
ASSUME LayoutAssumption ==
  \A f \in Layouts : /\ \E n \in DOMAIN f.bounds : n \in Nat /\ f.bounds \in [0..n -> Nat]
                     /\ f.mention \in [Concepts -> SUBSET Int]

VARIABLES
  frozen,    \* trace -> [bounds, text, anchor, mention, above]: rollouts and anchors
  answers,   \* the paid responses of the judge, by trace
  positions, spans, summary,                       \* files of `positions`
  design, gate, authorization,                     \* frozen before a lens run
  compat, failure, records, execution, validation, \* files of `lens`
  analysis,  \* the evidence analysis_summary.json names
  beat,      \* updated_at of the watcher of the one active session
  run        \* the command: what it does, the trace it is at, its attempts

\* What the files may hold; an absent one holds none of it.
Cells == Traces \X PositionOrder \X Concepts
Gates == [session : {"active"}, updated : Nat]
Designs == [Cells -> BOOLEAN]
Authorizations == [gate : Gates, design : Designs]
Attempts == [stage : {"smoke", "full", "short"}, passed : BOOLEAN]
Compats == [attempts : Seq(Attempts), ready : BOOLEAN]
Failures == [compat : Compats, authorization : Authorizations, design : Designs]
Readings == [upto : Int, sign : {-1, 1}]
ASSUME AbsentAssumption == Nothing \notin Gates /\ Nothing \notin Failures /\ Nothing \notin Readings

positionFiles == <<positions, spans, summary>>
gateFiles == <<design, gate, authorization>>
lensFiles == <<compat, failure, records, execution, validation>>
vars == <<frozen, answers, positionFiles, gateFiles, lensFiles, analysis, beat, run>>

Idle == [pc |-> "idle", trace |-> 0, attempts |-> <<>>]
At(pc) == run.pc = pc
Goto(pc) == run' = [run EXCEPT !.pc = pc]
Stop == run' = Idle
Agrees(file, content) == file \in {Nothing, content}   \* freeze or verify

Init ==
  /\ frozen \in [Traces -> Layouts] /\ answers = [t \in Traces |-> Nothing]
  /\ positions = Nothing /\ spans = Nothing /\ summary = Nothing
  /\ design = Nothing /\ gate = Nothing /\ authorization = Nothing
  /\ compat = Nothing /\ failure = Nothing /\ records = Nothing
  /\ execution = Nothing /\ validation = Nothing /\ analysis = Nothing
  /\ beat = 0 /\ run = Idle

-----------------------------------------------------------------------------
(* Positions.                                                              *)

\* A quote must be found in the source it is said to come from.
Resolves(f, j) == \/ j = Unknown
                  \/ j.source = "trace" /\ InReasoning(f.text, j.from, j.to)
                  \/ j.source = "answer" /\ InAnswer(f.bounds, f.text, j.from, j.to)
PreToken(start) == IF start = 0 THEN PromptCount - 1 ELSE PromptCount + start - 1

FirstSpan(f, j) == Envelope(f.bounds, j.from, j.to)
AnchorSpan(f) == Envelope(f.bounds, f.anchor[1], f.anchor[2])
AnswerSpan(f) == Envelope(f.bounds, f.text[2], f.text[2] + 1)
RowBuilds(f, j) ==
  /\ j # Unknown
  /\ Maps(f.bounds, j.from, j.to) /\ Maps(f.bounds, f.anchor[1], f.anchor[2])
  /\ Maps(f.bounds, f.text[2], f.text[2] + 1)
Indices(first, anchor, answer) ==
  [p \in PositionOrder |->
     CASE p = "prompt_end" -> PromptCount - 1
       [] p = "first_estimate_pre" -> PreToken(first.start)
       [] p = "anchor_pre" -> PreToken(anchor.start)
       [] p = "anchor_post" -> PromptCount + anchor.end - 1
       [] p = "final_answer_pre" -> PreToken(answer.start)]
Row(f, j) == [first |-> FirstSpan(f, j), anchor |-> AnchorSpan(f), answer |-> AnswerSpan(f),
              indices |-> Indices(FirstSpan(f, j), AnchorSpan(f), AnswerSpan(f)),
              above |-> f.above]

BeginPositions ==
  /\ At("idle") /\ positions = Nothing /\ summary = Nothing
  /\ run' = [Idle EXCEPT !.pc = "measure", !.trace = 1]
  /\ UNCHANGED <<frozen, analysis, answers, positionFiles, gateFiles, lensFiles, beat>>
Ask ==
  /\ At("measure") /\ answers[run.trace] = Nothing
  /\ \E j \in Judgments : answers' = [answers EXCEPT ![run.trace] = j]
  /\ UNCHANGED <<frozen, analysis, positionFiles, gateFiles, lensFiles, beat, run>>
\* The answer is committed and its row built; one that cannot be ends the
\* command, and will end every later one: it is replayed from the store.
Measure ==
  LET f == frozen[run.trace]  j == answers[run.trace]
  IN /\ At("measure") /\ j # Nothing
     /\ IF Resolves(f, j) /\ RowBuilds(f, j)
        THEN IF run.trace < TraceCount THEN run' = [run EXCEPT !.trace = @ + 1]
                                       ELSE Goto("positions")
        ELSE Stop
     /\ UNCHANGED <<frozen, analysis, answers, positionFiles, gateFiles, lensFiles, beat>>

Rows == [t \in Traces |-> Row(frozen[t], answers[t])]
FreezePositions ==
  /\ At("positions") /\ Agrees(positions, Rows) /\ positions' = Rows /\ Goto("spans")
  /\ UNCHANGED <<frozen, analysis, answers, spans, summary, gateFiles, lensFiles, beat>>
FreezeSpans ==
  /\ At("spans") /\ Agrees(spans, answers) /\ spans' = answers /\ Goto("summary")
  /\ UNCHANGED <<frozen, analysis, answers, positions, summary, gateFiles, lensFiles, beat>>
SummaryOf == [positions |-> positions, spans |-> spans]
FreezeSummary ==
  /\ At("summary") /\ Agrees(summary, SummaryOf) /\ summary' = SummaryOf /\ Stop
  /\ UNCHANGED <<frozen, analysis, answers, positions, spans, gateFiles, lensFiles, beat>>

(* What a position row must satisfy before a model is loaded: the indices   *)
(* follow from its spans, the anchor is the frozen one, and neither the     *)
(* anchor nor the first estimate lies after the answer's first token.       *)
InCompletion(f, span) == 0 <= span.start /\ span.start < span.end /\ span.end \in DOMAIN f.bounds
LensGate(f, r) ==
  /\ \A span \in {r.first, r.anchor, r.answer} : InCompletion(f, span)
  /\ r.anchor = AnchorSpan(f) /\ r.above = f.above
  /\ r.indices = [p \in PositionOrder |->
                    CASE p = "prompt_end" -> PromptCount - 1
                      [] p = "first_estimate_pre" -> PromptCount + r.first.start - 1
                      [] p = "anchor_pre" -> PromptCount + r.anchor.start - 1
                      [] p = "anchor_post" -> PromptCount + r.anchor.end - 1
                      [] p = "final_answer_pre" -> PromptCount + r.answer.start - 1]
  /\ r.anchor.end <= r.answer.start /\ r.first.start <= r.answer.start
LensInputs == /\ positions # Nothing /\ DOMAIN positions = Traces
              /\ \A t \in Traces : LensGate(frozen[t], positions[t])

\* What `positions` says of a complete release, without paying again.
CheckpointHolds == DOMAIN spans = Traces /\ \A t \in Traces : spans[t] = answers[t]
SpanIsCommitted(t) == Resolves(frozen[t], spans[t])
Restores(f, span, from, to) == Maps(f.bounds, from, to) /\ span = Envelope(f.bounds, from, to)
RecomputesRow(t) ==
  LET f == frozen[t]  row == positions[t]
  IN /\ spans[t] # Unknown /\ Restores(f, row.first, spans[t].from, spans[t].to)
     /\ Restores(f, row.anchor, f.anchor[1], f.anchor[2])
     /\ Restores(f, row.answer, f.text[2], f.text[2] + 1)
     /\ row.indices = Indices(row.first, row.anchor, row.answer) /\ row.above = f.above
PositionsRelease ==
  /\ positions # Nothing /\ summary # Nothing /\ summary = SummaryOf
  /\ CheckpointHolds /\ \A t \in Traces : SpanIsCommitted(t) /\ RecomputesRow(t)
  /\ LensInputs

-----------------------------------------------------------------------------
(* The probe design: a cell is lost, for both lenses, when its concept was  *)
(* mentioned at or before the token it is read at.                          *)

\* mutated form: the prefix leaves out the token that is read
CollisionsBefore(f, c, index) == {m \in f.mention[c] : m < index}
Collisions(f, c, index) == {m \in f.mention[c] : m <= index}
Eligible(t, p, c) == Collisions(frozen[t], c, positions[t].indices[p]) = {}
Fits(d) == DOMAIN d = Cells
Design == [k \in Cells |-> Eligible(k[1], k[2], k[3])]

BeginLens ==
  /\ At("idle") /\ records = Nothing /\ LensInputs
  /\ run' = [Idle EXCEPT !.pc = "design"]
  /\ UNCHANGED <<frozen, analysis, answers, positionFiles, gateFiles, lensFiles, beat>>
FreezeDesign ==
  /\ At("design") /\ Agrees(design, Design) /\ design' = Design /\ Goto("gate")
  /\ UNCHANGED <<frozen, analysis, answers, positionFiles, gate, authorization, lensFiles, beat>>
\* The record of the active session names the watcher's last heartbeat.
SessionGate == [session |-> "active", updated |-> beat]
FreezeGate ==
  /\ At("gate")
  /\ IF Agrees(gate, SessionGate) THEN gate' = SessionGate /\ Goto("authorize")
                                  ELSE Stop /\ UNCHANGED gate
  /\ UNCHANGED <<frozen, analysis, answers, positionFiles, design, authorization, lensFiles, beat>>
AuthorizationOf == [gate |-> gate, design |-> design]
FreezeAuthorization ==
  /\ At("authorize") /\ Agrees(authorization, AuthorizationOf)
  /\ authorization' = AuthorizationOf /\ Goto("prepare")
  /\ UNCHANGED <<frozen, analysis, answers, positionFiles, design, gate, lensFiles, beat>>

(* The gate: one smoke of the small model, then at most two attempts of the *)
(* large one, the second on a shorter prefix.                               *)
\* mutated form: a recorded failure does not stop a new attempt
MayRunAfterFailure == records = Nothing /\ execution = Nothing
MayRun == records = Nothing /\ execution = Nothing /\ failure = Nothing
Prepare ==
  /\ At("prepare") /\ IF MayRun /\ Fits(design) THEN Goto("smoke") ELSE Stop
  /\ UNCHANGED <<frozen, analysis, answers, positionFiles, gateFiles, lensFiles, beat>>
Tried(stage, passed) == Append(run.attempts, [stage |-> stage, passed |-> passed])
Attempt(stage, next) ==
  /\ At(stage)
  /\ \E passed \in BOOLEAN :
       run' = [run EXCEPT !.attempts = Tried(stage, passed),
                          !.pc = IF passed /\ stage = "smoke" THEN "full"
                                 ELSE IF passed THEN "passed" ELSE next]
  /\ UNCHANGED <<frozen, analysis, answers, positionFiles, gateFiles, lensFiles, beat>>
Smoke == Attempt("smoke", "failed")
Full == Attempt("full", "short")
Short == Attempt("short", "failed")

CompatOf(ready) == [attempts |-> run.attempts, ready |-> ready]
TwoAttemptsFailed(c) ==
  /\ ~c.ready /\ Len(c.attempts) = 3
  /\ c.attempts = << [stage |-> "smoke", passed |-> TRUE], [stage |-> "full", passed |-> FALSE],
                     [stage |-> "short", passed |-> FALSE] >>
WriteCompat ==
  \/ /\ At("passed") /\ compat' = CompatOf(TRUE) /\ Goto("forward")
     /\ UNCHANGED <<frozen, analysis, answers, positionFiles, gateFiles, failure, records, execution, validation, beat>>
  \/ /\ At("failed") /\ compat' = CompatOf(FALSE)
     /\ IF TwoAttemptsFailed(CompatOf(FALSE)) THEN Goto("failure") ELSE Stop
     /\ UNCHANGED <<frozen, analysis, answers, positionFiles, gateFiles, failure, records, execution, validation, beat>>
FailureOf == [compat |-> compat, authorization |-> authorization, design |-> design]
WriteFailure ==
  /\ At("failure") /\ failure' = FailureOf
  /\ Stop
  /\ UNCHANGED <<frozen, analysis, answers, positionFiles, gateFiles, compat, records, execution, validation, beat>>

(* One forward per trace serves both lenses; a trace that fails ends the    *)
(* command before anything is written.                                      *)
Sign(t, c) == IF c = Direction /\ ~positions[t].above THEN -1 ELSE 1
Readout(t, p, c) == IF Eligible(t, p, c)
                    THEN [upto |-> positions[t].indices[p], sign |-> Sign(t, c)]
                    ELSE Nothing
Records == [k \in Cells |-> [j |-> Readout(k[1], k[2], k[3]), r |-> Readout(k[1], k[2], k[3])]]
Forward ==
  /\ At("forward") /\ (Goto("records") \/ Stop)
  /\ UNCHANGED <<frozen, analysis, answers, positionFiles, gateFiles, lensFiles, beat>>
WriteRecords ==
  /\ At("records") /\ records' = Records /\ Goto("execution")
  /\ UNCHANGED <<frozen, analysis, answers, positionFiles, gateFiles, compat, failure, execution, validation, beat>>
ExecutionOf == [records |-> records, compat |-> compat, design |-> design, authorization |-> authorization]
WriteExecution ==
  /\ At("execution")
  /\ execution' = ExecutionOf
  /\ Stop
  /\ UNCHANGED <<frozen, analysis, answers, positionFiles, gateFiles, compat, failure, records, validation, beat>>

\* A finished command and every later one validate; so does one that finds
\* records.  Without the execution manifest they cannot.
ValidationOf == [records |-> records, execution |-> execution, authorization |-> authorization]
LoadedAuthorization == gate # Nothing /\ design # Nothing /\ authorization = AuthorizationOf
Validate ==
  /\ At("idle") /\ records # Nothing /\ execution # Nothing
  /\ LoadedAuthorization /\ Agrees(validation, ValidationOf)
  /\ validation' = ValidationOf
  /\ UNCHANGED <<frozen, analysis, answers, positionFiles, gateFiles, compat, failure, records, execution, beat, run>>

-----------------------------------------------------------------------------
(* `analyze`: the files of a study are its evidence when the positions and  *)
(* the probe design follow again from the frozen traces, and the lens was   *)
(* either read and validated or could not be run in two attempts.           *)

DesignHolds == design # Nothing /\ Fits(design) /\ design = Design
LensGrid == \A k \in Cells : \A value \in {records[k].j, records[k].r} : (value # Nothing) = design[k]
CompatLoads(ready) ==
  /\ compat # Nothing /\ compat.ready = ready /\ compat.attempts[1] = [stage |-> "smoke", passed |-> TRUE]
  /\ IF ready THEN compat.attempts[Len(compat.attempts)].passed ELSE TwoAttemptsFailed(compat)
ReleasedLens ==
  /\ LensGrid /\ failure = Nothing /\ execution # Nothing /\ validation # Nothing
  /\ CompatLoads(TRUE) /\ LoadedAuthorization /\ execution = ExecutionOf
  /\ validation = ValidationOf
\* mutated form: a gate that has not passed is enough to leave the lens out
FailedLensAnyAttempt == records = Nothing /\ execution = Nothing /\ compat # Nothing /\ ~compat.ready
FailedLens ==
  /\ records = Nothing /\ execution = Nothing /\ validation = Nothing
  /\ CompatLoads(FALSE) /\ LoadedAuthorization /\ failure = FailureOf
Evidence ==
  /\ PositionsRelease /\ DesignHolds
  /\ IF records # Nothing THEN ReleasedLens ELSE FailedLens
EvidenceFiles == [positions |-> positions, spans |-> spans, design |-> design, compat |-> compat,
                  lens |-> records, failure |-> failure]
Analyze ==
  /\ At("idle") /\ Evidence /\ analysis' = EvidenceFiles
  /\ UNCHANGED <<frozen, answers, positionFiles, gateFiles, lensFiles, beat, run>>

-----------------------------------------------------------------------------
Heartbeat ==
  /\ beat < MaxBeat /\ beat' = beat + 1
  /\ UNCHANGED <<frozen, analysis, answers, positionFiles, gateFiles, lensFiles, run>>
Kill ==
  /\ ~At("idle") /\ Stop
  /\ UNCHANGED <<frozen, analysis, answers, positionFiles, gateFiles, lensFiles, beat>>

Next ==
  \/ BeginPositions \/ Ask \/ Measure \/ FreezePositions \/ FreezeSpans \/ FreezeSummary
  \/ BeginLens \/ FreezeDesign \/ FreezeGate \/ FreezeAuthorization \/ Prepare
  \/ Smoke \/ Full \/ Short \/ WriteCompat \/ WriteFailure
  \/ Forward \/ WriteRecords \/ WriteExecution \/ Validate \/ Analyze
  \/ Heartbeat \/ Kill
Spec == Init /\ [][Next]_vars

-----------------------------------------------------------------------------
(* Properties.                                                             *)

\* A value is released only for a cell whose probe had not been said by the
\* token it is read at, and what is read before a span, the first estimate's,
\* the anchor's or the answer's, has seen no character of it
\* (lens_positions.py, freeze_causal_probe_design, analyze_trace_same_forward).
SeenBy(t, upto) == LET i == upto - PromptCount + 1
                   IN IF i <= 0 THEN 0 ELSE frozen[t].bounds[i]
ReadoutIsCausal == records # Nothing =>
  \A k \in Cells : LET t == k[1]  p == k[2]  value == records[k].j
    IN /\ records[k].r = value
       /\ value # Nothing =>
            /\ \A m \in frozen[t].mention[k[3]] : m > value.upto
            /\ p = "first_estimate_pre" => SeenBy(t, value.upto) <= answers[t].from
            /\ p = "anchor_pre" => SeenBy(t, value.upto) <= frozen[t].anchor[1]
            /\ p = "final_answer_pre" => SeenBy(t, value.upto) <= frozen[t].text[2]

\* The lens has one outcome, and it is final: the study says it could not be
\* run only when the smoke passed and both attempts failed, and then nothing
\* was read, then or later; an execution manifest names records read after a
\* gate that passed, under the authorization that stands, whatever runs were
\* started since (lens_command.py: the failure root "forbids additional
\* primary attempts"; run_frozen_lens_command, _command_lens).
LensOutcomeIsFinal ==
  /\ failure # Nothing =>
       /\ TwoAttemptsFailed(failure.compat) /\ compat = failure.compat
       /\ records = Nothing /\ execution = Nothing
  /\ execution # Nothing =>
       /\ compat = execution.compat /\ records = execution.records
       /\ compat.attempts[1].passed /\ compat.attempts[Len(compat.attempts)].passed
       /\ authorization = execution.authorization /\ authorization = AuthorizationOf
       /\ {k \in Cells : records[k].j # Nothing} = {k \in Cells : design[k]}

\* A study is analysed once its lens is settled, read or given up for good:
\* no command run afterwards changes the evidence a summary names, so that the
\* same analysis can always be made again (_validate_primary_analysis_evidence,
\* "Fail closed before statistics, figures, or report artifacts can be written").
AnalysisIsFinal == analysis # Nothing =>
  /\ analysis = EvidenceFiles
  /\ At("idle") => Evidence
=============================================================================
