# Verification of the model-forensics paid-run controls

This directory holds TLA+ models of `model_forensics`, the TLC configurations that check
them, and TLAPS proofs. The program runs a preregistered experiment: it spends money on a rented
8-GPU RunPod Pod and on paid judging APIs, under hard dollar caps, from several host programs that
may die at any point. The core of the system is therefore its *accounting and recovery* code,
and around it the phases of the study, whose outputs must survive kills, reruns and changes of
software without losing, repeating or mixing measurements.

Paths below are relative to the repository (`src/model_forensics/x.py` is
`src/src/model_forensics/x.py` in `PROJECT.json`).

## 1. Inventory

| part | state it keeps | operations | what makes it correct |
|---|---|---|---|
| **Cost ledger** `budget.py`, `io.py` | one YAML document of entries (`estimated` / `incurred`), a lock file | `append`, `reserve`, `reserve_batch`, `reserve_once`, `settle_reservation`, `totals`, `document` | committed cost never above a hard stop; no update lost; one-use reservations used once; crash leaves old or new document |
| **Paid API calls** `providers.py`, `paid_response_store.py` | response checkpoints, uncertain-attempt markers, per-request claim locks, ledger entries; in memory: the frozen phase inventory | `preflight_openrouter_phase`, `authorize`, `complete_json` | a request is paid at most once over all runs and crashes; every settlement has durable evidence; a reserved phase can finish |
| **GPU session** `runpod_lifecycle.py`, `runpod_watchdog.py`, `runpod_host_control.py`, `runpod_recovery.py`, `runpod_no_start.py`, `gpu_budget.py`, `scripts/gpu_budget_*.py` | the lifecycle record, reservation receipts, watcher state, host acknowledgement, stop request, no-start and external-stop receipts, settlement files; at the provider: the Pod | reserve, re-arm, watch, stop, attest, settle (and create / recover a created Pod) | no run without a reservation, never two, an estimate closed at zero only if the Pod never ran, a running Pod watched, or on record as unwatched, and eventually stopped |
| **Paid bundle rotation** `paid_bundle_rotation.py`, `freeze_paid_bundle.py` | canonical private controls (two quote locks, approval, quote spec), archive directories with a manifest and a completion marker, a shared/exclusive lock | freeze, approve, `rotate_paid_bundle`, `paid_bundle_lock` | no control is ever lost; archives are immutable; interrupted rotation resumes to the same archive; never while money is reserved or a Pod may run |
| **Selective sync** `runpod_sync*.py` | bundle, claim, remote stage, installed tree | prepare, transfer once, verify, install, promote | a claim is used once; an interrupted install is recoverable |
| **Session records** `runpod_sessions.py`, `paid_phase_receipt.py`, `runpod_lifecycle_state.py` | session directories, completion evidence, one receipt per phase and replay lock | claim, validate completed sessions, freeze a phase's receipt | a phase runs under one plan and one approval; sessions are sequential |
| **Bootstrap and its failure stop** `scripts/bootstrap_gpu.sh`, `runpod_bootstrap_failure.py` | session directory, environment lock, stop state inside the Pod | preflights, claim, arm, setup, stop the bound Pod | a session is armed by one run; a failed start does not leave a Pod that bills |
| **Generation** `behavioral_phases.py`, `record_checkpoint.py`, `resample_phases.py`, `resample_runner.py`, `sampling.py`, `vllm_prefix.py`, `behavior-generate` and `resample-generate` of `cli.py` | frozen plan, receipt, one immutable file per microbatch or row, merged file, manifest | plan, commit, resume, merge, close; two stages of paired continuations | a resumed phase loses, repeats and mixes nothing; a closed phase can always be read again |
| **Adjudication** `adjudication.py`, `calibration.py`, `behavioral_adjudication_phase.py`, `resample_adjudication_phase.py`, `classification.py`, `replacement_provider.py`, `pilot_pairs.py` | paid plan, stored answers, checkpoints, consensus rows, verdict, thresholds, release | two final judges, two classifiers, consensus, gates, release | only independent agreeing judges count; thresholds precede treatment; a release is of one whole verdict; money is only spent on what can be released |
| **Lens** `token_spans.py`, `estimate_spans.py`, `lens_positions.py`, `lens_command.py`, `lens_runner.py`, `lens_failure_release.py` | positions and spans, probe design, session gate and authorization, compatibility receipts or a failure root, records, execution manifest, validation | locate the first estimate, freeze positions, compatibility attempts, readout | a readout has seen nothing of what it predicts; the lens has one final outcome |
| **Analysis** `analysis.py`, `statistics.py` | effects, criteria, association, verdicts, summary | select pairs, bound missing data, decide, report | what is asserted does not hang on missing measurements; the lens speaks only with its association |
| **Anchors** `anchors.py` | frozen selection | rank and select | deterministic |
| **Approval and freeze gates** `approval.py`, `execution_bindings.py`, `freeze_paid_bundle.py` | content-addressed private files | build, validate | every paid phase has exactly its approval |
| **Time ledger** `timeledger.py`, **command line** `cli.py`, configuration and release tooling | small files | start, stop; orchestration | - |

**How they interact.** Every dollar goes through the cost ledger: the GPU scripts reserve and settle
under `reserve_once` / `settle_reservation`, API phases under `reserve_batch` / `reserve` /
`settle_reservation`, storage under `reserve`. The re-arm client reads the ledger and the reservation
receipt, requires the host watcher's acknowledgement, and writes the lifecycle record; the watcher
reads that record, the stop request and the provider, and stops the Pod; the attestation
commands read the record and the provider, compare the record again and close it; the settle
script reads their receipt and the closed record. Inside a session, the commands of `cli.py` read
the frozen outputs of the phase before them: baseline generation, baseline adjudication,
thresholds, treatment generation and adjudication, resampling and its adjudication, positions, lens,
analysis, report. There is no central process: all synchronisation is through files.

**Hard behaviours.** Processes racing on one file; death between two durable writes (ledger /
receipt, marker / transport / checkpoint, receipt / lifecycle, ledger / settlement, the six files of
an adjudication checkpoint, merged file / manifest); a provider that
acts late, twice or never on a request; a watcher deadline racing a start; a polling client writing
stale copies; an approval or a software environment that changes between two runs of a phase; a
straggling command that wakes up after its phase was closed; missing and malformed measurements that
could overturn a conclusion. `PROJECT.json` lists them under `hazards`, each at its line.

## 2. Modules

### Cost ledger

* `LedgerDocument` - the document as a value (entry id -> entry) and, for each operation, when it is
  accepted (`…Accepts`) and what it writes (`AddMissing`, `ReplaceEntries`). Amounts are whole
  micro-dollars, as the code rounds to six decimals. An entry appended without an id gets an id of
  its own.
* `CostLedger` - the abstract promise: one indivisible step per operation.
* `LockedLedger` - the implementation: `Begin`, `Acquire` (flock), `Load`, `Write`
  (`atomic_write_text`), `Reject`, `Return`, and `Die` anywhere. `grants` is a history of normal
  returns of `reserve_once`.

### Paid API calls

* `PaidDispatch` - several processes, each running a phase: `PreflightStart/Load/Reserve/Check` are
  the whole-phase preflight, `Authorize` the dispatch guard, `Claim … Settle` the steps of
  `_complete_json_claimed` in order, one action per durable write or external call. A crash loses
  the process's memory and its flocks and nothing else. The provider answers (`Send`) with any
  response of `Responses`, charges its cost, and the answer may be lost (`TransportFails`). A cost may
  exceed the conservative bound of its request, which the code settles as it is (`providers.py:1063-1076`).
  Ledger operations are single steps: the calls made (`LedgerCalls`) are calls `LockedLedger` serves
  as `CostLedger` does, and `UsesCostLedger` says that nothing else changes the ledger.
  `dispatched` and `charged` are histories of what the provider saw.
* `LedgerProofs` - the theorems below, about `LockedLedger` and `PaidDispatch`, and how they meet.

### GPU session

* `SessionAccounting` - what the controls promise about money, as a five-action specification over
  the ledger entry of each session, the running Pod and the sessions that have run.
* `GpuSession` - the programs and the provider, one action per durable write or provider call; it is
  checked to implement `SessionAccounting`.

Simplifications, all in the direction of fewer distinctions: a session stands for its nonce, phase,
approval and reservation; the Pod status `RUNNING` stands for PROVISIONING / STARTING / RUNNING;
`lastStartedAt` is a count of starts; a lifecycle record is compared by content; heartbeat age is
abstracted to the liveness of the watcher process; time windows and amounts of billing rows are
abstracted to "billed" or "zero". The model starts from a first session already settled; creating the first Pod is not modelled. One re-arm client, one watcher, one
reserve script, one settle script and one attestation command of each kind run at a time; they interleave
with one another. The no-start command starts only when no re-arm client runs, as its
documentation requires (`docs/runpod_no_start_reconciliation.md`).

* `PodProofs` - the proofs about this module and about `PodBootstrap`, the Pod from the host and from inside.

An attestation compares the lifecycle record (`CompareLifecycle`) and replaces it (`ReplaceLifecycle`) in two
steps, as the code holds no lock between them: the polling re-arm client may write in between, and its
record is then overwritten. `WatchDeadline` is guarded by nothing but the watcher's state, since the readiness
deadline of the code is absolute: it passes with a start on its way too, and `late` remembers the sessions
whose watcher then found the Pod exited and left (`StopConfirmed`). Watchers and clients may be killed at any step.

`PromptProvider` is an assumption about RunPod that the code of the no-start command also makes, and the only one: a
requested start takes effect (or is lost) before that command, having waited out its quiet window, observes a second time.

### Paid bundle rotation

* `PaidBundleRotationProofs` - the theorems below.
* `PaidBundleRotation` - the rotation (`Begin` with or without a bundle id, `ManifestStep`,
  `ReplayStep`, `LoadStep`, `ArchiveStep`, `VerifyStep`, `CheckSource`, `RemoveSource`,
  `CompleteStep`, `Finish`), each durable file step an action of its own (write the pending twin,
  link it to the destination, drop the twin), a refusal or death at any point (`Stop`), a death in
  the middle of a staging write (`StopMidWrite`); and the programs that read or write the same
  controls under the shared lock: freezing the quotes, approving, reserving, re-arming.

The content of a control is the quote window it belongs to, a manifest is the function from the
controls it records to their windows, and since the code's default bundle id is a hash of these
records, the default id *is* that function. The list of records is a set of controls whose turns come in the
order of the paths (`Turn`). One quote spec stands for both specs of the code. A
rotation holds the ledger lock too, so `Settle` waits for it.

An operator may write or rewrite a spec at any moment, also while a rotation runs, as the freeze of a spec takes
neither lock (`WriteSpec`).

What the run taught: resuming without an id works because both required quote locks sort before the
optional controls, so whatever is removed first leaves either a full set or an incomplete one that
no new archive can be built from; a manifest write cut short blocks its bundle id for good (refusal,
nothing lost); freezing again over a half-removed bundle strands the old archive, which then needs
its explicit id; a preview that dies between the two quote locks leaves a lone lock that neither a
freeze nor a rotation accepts. All are refusals, never losses (`NothingLost`, `RecoveryNeverStrands`). A spec
edited during a rotation is the one exception: what is removed is then what was written last, and a spec that comes
back after its removal stays under a rotation that succeeds. A lock or an approval cannot (`SuccessLeavesNoLock`),
because what writes them takes the shared lock.
That an archive never changes holds by the shape of the code, which only ever adds a file that is
missing or the same, and is not run as a property.

### Selective sync

* `RunpodSync` - runs of the transfer program (`Start`, `CheckClaim`, `MakeBundle`, `FillBundle`,
  `Clear`, `Claim`, then `Check` / `Send` / `Return` or `Timeout` for each of seven remote commands,
  and the failure path `RequestStop`, `EmergencyStop`, `Sweep`, `Report`), and what the Pod does meanwhile: the
  four commands that build the stage, the verifications, and the install with its two renames and
  its rollback as separate actions. The watcher may stop the Pod or die at any moment, a program may
  be killed, an SSH client may give up while its command goes on, the stop request or the
  provider stop of a failing program may fail, and `rm -rf` empties a tree it has
  opened even after a rename (`Erode`).
* `RunpodSyncProofs` - the proofs that one attempt transfers, that a failure leaves or names its stop, and of what
  becomes of the checkouts on the Pod.

An attempt stands for its plan and for the checkout that plan produces, since plans carry their
creation time; the file inventory of a plan and everything `verify_selective_sync` compares is one
condition ("whole"). Sessions are re-armed at least five minutes apart (`Arm`), so that plans of an
earlier session have expired: a settlement and a new reservation lie between.

The failure path collects what fails on it and `Report` says it: the cause alone, or also that the request, the
stop, or both are missing (`says`). What an ended attempt went through and nothing reads again is left out of the
fingerprint of a state (`StillRead`, the `VIEW` of the run).

What the run taught: the bundle directory, not the claim, decides a race of two attempts; a Pod
stop between the two renames leaves no checkout in place, and although the old one is safe in the
archive, no later install accepts the workspace until it is put back by hand.

### Bootstrap of the Pod

* `PodBootstrap` - `scripts/bootstrap_gpu.sh` in the tree a transfer installed. A *run* is one invocation:
  `Verify` (the exact-tree check that comes first), `Check` (stale artifacts), `Budget` and `WritePending`
  (`gpu_budget_preflight.py` looks for its output and writes it later), `Prepare`, `Claim` and `Move`
  (the three steps of `prepare_runpod_session_directory`), `Launch`, `Identify`, `AwaitArmed`, `Preflight`,
  `Setup`, `Validate`. `Fail` is any command that fails before success, `Kill` a death without the
  trap. `EarlyStop` is the first trap; `LeaveRequest`, `DirectStop`, `Inspect` and the emergency watchdog
  are the second one, in its order. `Dog…` is `run_watchdog` as launched in the Pod. The Pod may be stopped
  by any of them or by the host, and then its container and all processes in it end.
* `PodProofs` also holds the proof that one run arms. One module proves about both, so the operators of
  this one that would have the names of `GpuSession`'s are called `BootInit`, `BootNext`, `BootSpec`, ...

One tree serves one session: the next transfer archives the old tree with its `.runpod` and
`.venv-gpu` (`runpod_sync_transfer.py`). `run[r].path` and `launched` are the script's variables
`STOP_REQUEST_PATH` and `WATCHDOG_PID`, `known` says that the session hash and the private
copies of the credentials are set; a process identity is the run that launched the process. The lifecycle
record, receipt and ledger are those the transfer verified, so the emergency watchdog can start;
leaving a stop request and the write of a state file succeed.

What the run taught: two guards keep a session from being armed twice, and each is needed. A run that
failed before its claim leaves `emergency_stop.request`, which every later run looks for; one that failed
after its launch leaves a request only its own watchdog reads, and there the claimed directory
bars the way. Runs that overlap are told apart by the `mkdir` alone.

### Generation

* `GenerationPhase` - `behavior-generate`. Each command freezes or verifies the plan (`Start`), loads the
  committed batches one by one (`Load`, `Loaded`), has its receipt frozen (`Authorize`), constructs its
  model if batches are missing (`Construct`, where the backend is compared with the rows loaded
  *before*), commits one file per microbatch (`Generate`, `Commit`), merges the rows and closes the phase
  with a manifest over the files then on disk (`CompareMerged` to `Close`). The rented GPUs hold one
  model, so one command at a time is between construction and its end; nothing else orders the two. `Reapprove` replaces
  the approval in force, which the receipt of a phase does not allow for. A command over a closed phase
  writes nothing and is left out; a later phase reads by `Loads`.
* `RecordCheckpoint` - `record_checkpoint.py` as operators on a store `[records, merged, manifest]`.
* `ResampleGeneration` - `resample-generate`: two unconditional stages of paired retain / resample
  rows in the frozen order, each in a store, and the combined files of both.

A host is an observed backend provenance; a continuation is the host it came from and the unit it is
for. Approvals bind an environment; two approvals of one environment differ only in their identity.

### Adjudication

* `FinalConsensus` - pure operators: what two judges' finals amount to, the reasons for a missing
  final, the gates in percent. A malformed response is not an UNKNOWN.
* `BehavioralStudy` - composes `GenerationPhase` with `behavior-adjudicate`: paid plan and receipt,
  the primary and the independent judge (answers are stored once paid, and replayed), the checkpoint
  of *six* files written one after another in the code's order, the usage audit, consensus, gates, the
  verdict, thresholds after the baseline, tables, release and sampling manifest after the treatment.
  A record keeps its origin, since usage metadata tells a paid answer from a replayed one and
  enters the hashes: that is what makes a checkpoint cut short differ from the one a rerun writes.
* `BehavioralStudyProofs` - the proofs about it, in three layers: generation, closing, adjudication (by any
  number of commands).
* `ResampleStudy` - composes `ResampleGeneration` with `resample-adjudicate`: attrition gates before
  any money, the paid plan, final judges for every valid unit, two classifiers for eligible
  replacements (the second is not asked after a malformed first answer), one immutable row per
  unit, quality, verdict, artifact, execution manifest, validation, and the usage audit.
* `ResampleStudyProofs` - the proofs of its four safety properties, and that a generation that loads,
  a committed row and a validated release never change.

That a request is paid at most once and then replayed is `PaidDispatch`; these modules take it
as a stored answer. A unit is one rollout and a microbatch has one unit in `BehavioralStudy`.

What the runs taught: a command that waited out another's whole phase still writes only what agrees
with the manifest, because rows are compared and files frozen rather than replaced
(`ClosedPhaseLoads`); the backend comparison is made once against rows loaded earlier, and is enough
only because the GPUs hold one model (`NoMixedPhase`); a kill between the six checkpoint files leaves a
phase whose loader refuses for good and for which money was spent (section 5).

### Lens

* `TokenSpans` - from characters to generated tokens, by the two binary searches of the code, over
  tokens of several or no characters; the checks of `map_completion_span`.
* `LensStudy` - `positions` (one judgment per trace, stored when paid; four spans and five positions per
  trace; probes that collide with them masked), the gates frozen before a run, compatibility smoke and
  two attempts, the failure root or the readout, execution manifest and validation, and what
  `analyze` may use. `Heartbeat` is the session's watcher, whose time is part of the gate.

All fitted layers are read alike, so one record stands for all of them; tensors, hashes and scores are
left out. A record is what it was read at and whether each probe was masked there.
* `LensStudyProofs` - the proofs of its three properties, and of what the two binary searches find.

### Analysis

* `SentenceEffects` - pair eligibility, cluster means, the bounds on missing outcomes, coverage,
  conclusions of a class of sentences. One is `Whole` units, so rates are integers.
* `BehavioralCriteria` - the behavioural criteria, their cells, gates, bounds and margins.
* `StudyAnalysis` - `analyze` and `report`: inventories, effects, criteria, lens criteria, association,
  verdicts of the hypotheses, summary, and what `report` checks again before it shows anything. A
  bootstrap interval is any interval with ends in `Ends` that contains the estimate.
* `StudyAnalysisProofs` - the proofs of its three properties, with the lemmas on sums, rates and bounds they need.

What the run taught: no hypothesis can be formally supported - only the accuracy effect is
confirmatory, and every hypothesis needs at least one descriptive criterion - which is what the
preregistration intends by "described"; the movement criterion is bounded in its neutral rate only and
drops the pairs with a missing outcome (section 5), so `CriteriaSurvive` speaks of it when none is missing;
and the coverage gate of a class counts retained halves that could not be delivered.

## 3. Runs

| run | question | bounds | distinct states |
|---|---|---|---|
| `ledger` | safety and refinement of the ledger | 2 processes, requests of every kind over 5 ids, caps small enough to be hit | 111,859 |
| `dispatch` | paid once, evidence, coverage, completion | 2 processes, 2 requests, 2 overlapping phases, 4 kinds of answer, other spending up to the cap | 499,026 |
| `gpu` | accounting refinement, lifecycle safety, unwatched Pods on record, finite runs; watchers and clients may die | 2 sessions after a settled first | 1,019,354 |
| `bootstrap` | one run arms, a failed run stops the Pod | 2 runs, overlapping or in sequence | 98,040 |
| `rotation` | nothing lost, no rotation under reserved money or over a lock, reruns finish; specs edited at any time | 2 peers, 2 windows, 1 archive directory | 87,735 |
| `sync` | one transfer per session, no checkout lost, a failure stops the Pod or says that it may not have | 2 attempts, 2 sessions | 1,624,088 |
| `behavior` | both generation and both adjudication phases: closed phases stay readable and of one software, thresholds first, whole releases | 2 generation commands, 1 adjudication command, 2 microbatches, 2 backends, 2 approvals | 624,232 |
| `resample` | stages of one software, no money on what cannot be released, pairs chosen without outcomes, faithful release | 2 generation commands, 1 adjudication command, 1 anchor, 1 pair per stage | 463,598 |
| `lens` | causal readout, one final outcome, final evidence | 2 traces, 2 probes, 3 layouts, 6 judgments, 2 heartbeats | 130,896 |
| `analysis` | conclusions and criteria survive every completion of the missing data | 6 anchors, 2 pairs each, 3 rollouts per cell, chosen studies, interval ends -60, 0, 60 | 470,967 |
| `resample_audit` | the first disagreement of section 5 | as `resample` | - |
| `analysis_movement` | the second disagreement of section 5 | as `analysis`, over studies with half of the accuracy outcomes missing | - |

**Why these bounds are enough.** Two processes already give every race on one file;
one of the dispatch answers costs more than the bound of the second request, and the caps
(`api` 3, `total` 4) admit one phase or the other beside foreign spending but not both; two sessions after a first one make reuse of nonces, unsettled predecessors, stale receipts and
overlapping reservations possible, and the starts of a Pod are bounded by the sessions. Two
microbatches allow a phase that is half done by a dead command, two backends a resumption on other
software, two approvals one change in the middle. One pair per stage has a retained and a replaced
row in each of two stages, which is every position the code treats differently; the `Classified`
routes are a plain yes and a malformed first answer, the ones that lead on. The lens layouts place
the anchor inside a token or across two and the probe before or after it; the traces are
chosen from them freely. The studies of `analysis` combine full, half-known, undelivered and missing
outcomes around the thresholds of the gates.

Two bounds restrict interleavings and are named where they are used. `MCTurns`: generation and
adjudication take turns, as their hosts do - the adjudication host works on fetched files. In
`resample` it also ends generation once a paid plan names it. `MCEarlyApproval`: the second
approval of `behavior` arrives before the baseline has a verdict file.

Deadlock is not checked where the system really stops: when the sessions, attempts or archives are
used up, the Pod is terminated, a study is released or refused for good. Symmetry (processes,
sessions, attempts, commands, backends, approvals) is used only in runs without liveness
properties, and no definition of their modules tells two members of a set apart.

**Fairness.** `GpuSession` (`FairSpec`): the watcher's loop keeps running, its deadline - absolute and
monotonic in the code - is eventually acted on (strong fairness, since the loop alternates between
looking and sleeping), and the provider obeys a POST /stop that is repeated every five seconds
without bound. `RunEnds` is claimed only for executions in which watchers eventually are no longer killed,
and not of a Pod whose watcher was killed or left with the start on its way (`Bereft`).
`PaidBundleRotation` (`FairSpec`): a running rotation keeps running; the operator reruns it, without an id, whenever the lock is free (strong fairness, as the lock does not wait and a
rerun can be refused); processes holding the shared lock return; Pods are stopped and reservations
settled. `Resumes` is claimed only for executions in which kills, other writers and new paid work
eventually cease. `PodBootstrap`
(`BootFairSpec`): a trap that is not killed goes on, the watchdog arms or refuses and reads its stop request (its loop
sleeps fifteen seconds), and of stop calls repeated without bound one takes effect; nothing is
assumed of the script's commands, of the watchdog's deadline or of the host. The study modules assume no
fairness: an operator may never rerun a command, and several of their refusals are final by design.

## 4. Proofs

`LedgerProofs` proves of `LockedLedger`, for any set of processes, requests, ids, amounts and caps:
`LedgerTypeOK`, `CapsRespected`, `OneUseGrants`, `OneGpuSession`, the action property `NoLostUpdate`, and
that `LockedLedger` implements `CostLedger`. The inductive invariant `LockInv` adds to them that the
process in the critical section holds the lock (`LockHeld`), that the copy it decided on is what is on
disk (`SnapshotFresh`) - without which a write need not extend the file - and that a granted one-use
id is recorded (`GrantsRecorded`). Assumptions: `LedgerAssumption` (amounts are naturals, the three
caps exist), `ProcsAssumption`, and `CallsAssumption`, which says that GPU estimates are made only by
`reserve_once` with exclusivity, as the only GPU caller (`reserve_gpu_phase_budget`) does.

Of `PaidDispatch` it proves for any processes, requests, phases, bounds and answers: `TypeOK`,
`AtMostOnePaidAttempt`, `AttemptLeavesTrace`, `EvidenceKept`, `SpendCovered` and `PhaseRunsToCompletion`. The
inductive invariant `IInv` says that a
call owns its request (it holds the claim, so two calls never have the same one), that nothing was
sent before the marker, and that an answer on its way to the store is guarded by the marker. The step
proof splits into the acting process and the others, which `OthersUndisturbed` shows untouched by any
step that stays within its own claims. `LInv` relates the ledger to the store: an entry of a request is its
estimate or the cost of its durable response (`Told`), a call holds the answer the store holds (`Holds`), and
what a process past its preflight may ask for is in the ledger (`Planned`). `PhaseRunsToCompletion` then
needs that a settlement raises no total. A total is a sum over a finite set, a recursive function in the
library; that it exists and grows with each amount is proved by the smallest subset for which it would fail
(`SmallestSubset`, from the library's well-founded order of finite subsets). Assumption: `DispatchAssumption`
(a request's bound and cost are amounts, a phase is a finite set of requests). TLC checked `LInv` on the
instance of `dispatch` first.

The two meet in `CostLedger`. `PaidDispatch` takes ledger operations as single steps; `DispatchRefinesLedger`
shows that each of its steps is one accepted call of `LedgerCalls` or leaves the ledger alone (`UsesCostLedger`), and
`CallsAreWellFormed` that these calls are such as `CallsAssumption` asks of the callers of the locked file. So the file
`LockedLedger` shares between processes that die anywhere is, to these programs, the ledger they assume.
TLC checked `UsesCostLedger` on the instance of `dispatch` first.

`BehavioralStudyProofs` proves `NoMixedPhase`, `ClosedPhaseLoads`, `MeasuredThresholdsFirst` and `MeasuredRelease` of
the composed behavioural study for any microbatches, commands of both kinds, backends, approvals, answers and tables, in
three layers. *Generation*: the comparison of backends is made once, against rows loaded before
the model is constructed, so the invariant `GInv` has to say why that is enough: batches are committed
without holes (`Contiguous`), what a command loaded is the beginning of what is on disk (`Remembers`,
`Placed`), and a loaded model owns the GPUs and is of the software of the loaded rows (`Owns`). A
command that loaded too few rows meets the next writer's batch before it writes one. *Closing*: who merges
or closes a phase holds every batch (`CInv`), so a straggler that merges or closes it again writes what is
there, and nobody commits to it any more. Hence no file of a closed phase changes (`ClosedPhaseFinal`), which
is all that adjudication needs to know of generation. *Adjudication*: any number of commands may judge a phase at
once, and a verdict may then be replaced by another's. What cannot change is what it is of: once paid, an answer is
final, so a verdict certifies the one set of measurements of the one closed phase (`Certifies`, `Settled`), whoever
wrote it. Thresholds are of a verdict of the baseline that passed (`Fixed`, `Preregistered`), nothing is released before what it
rests on (`Published`), and of each command `Knows` says what it has in hand. `MeasuredThresholdsFirst`: before a
treatment rollout there are thresholds of the measurements of the closed baseline, all of them paid for, whose gates
passed. `MeasuredRelease`: a sampling manifest stands for two closed phases of one environment,
measured to the last unit, and for thresholds, verdicts and tables of exactly these measurements. What is not claimed
of several commands is the origin of a record (paid or replayed), nor that a file names the very verdict
that is on disk: this is the stronger claim of `ThresholdsFirst` and `ReleaseIsWhole`, which two commands can break (section 5)
and which are model-checked for one, in the run `behavior`. Assumptions:
`GenerationAssumption` (a batch that does not exist is none of the rows), `StudyAssumption`, and as hypothesis of the
theorems `AbsentFile` (an absent file is no answer, no sequence and none of six kinds of record; it quantifies over all
contents, which TLC cannot evaluate). TLC checked `GInv` and `CInv` on the instance of `behavior` and with one generation
command without its two bounds on interleavings (3,427,526 states); `JInv` and both theorems about adjudication it
checked with two adjudication commands, over 3.8 million states without a violation, but not to the end.

`ResampleStudyProofs` proves `OneBackendPerStage`, `PaidIsReleasable`, `ReleaseIsFaithful` and
the action property `EligibilityFirst` for any anchors, samples, microbatches, commands, backends, answers and gates. The invariant
`GInv` says that the rows of a stage are a beginning of the frozen order (`Prefixes`), that whoever writes holds
the loaded model and is of the backend of every row of its stage (`Owns`), and that what a command no longer has to do is
closed (`Finished`). So a generation that loads is over (`GenerationIsOver`), whatever its commands
still do, and with it everything adjudication derives from it: the valid units, the requests, the attrition
gates. `JInv` says of the command that nothing is paid without a plan and the plan lists every request (`Funded`); that a
committed row is what the stored answers say, and no answer of it is asked for again (`RowsStand`, `Progress`:
the rows on disk are those the command found and those of the units behind it); and how far the release
follows from the files before it (`Weighed` to `Validated`), a chain that also makes it final
(`ReleaseIsFinal`). Two cardinalities are needed, of intervals and their subsets, from the library. Assumptions:
`ResampleAssumption` (sizes are positive), `AttritionAssumption` (no answer is the absent file), `ValuesAssumption`, and
for what rests on `JInv` the hypothesis `AbsentFile` (the absent file is none of three kinds of record, for all
contents). One adjudication command at a time is part of the model. For `EligibilityFirst`, `ClassFirst` says that who
asks for the final of a unit has stored its classification before, so that a repeated command finds it. TLC checked
`GInv` and `JInv` first, on the instance of `resample`, and with one generation command without its bound
on turns (2,673,292 states).

`PodProofs` proves `OneArming` of `PodBootstrap` for any number of runs. The invariant `BInv` says of every run
that the session directory is its own from the claim on (`Owns`); that a failed run left its request where the
path then pointed, and that this path is the session's only if it had armed (`Leaves`); and that a run which
looked after a failure finds the directory taken by another (`Barred`). The step that needs all three
is `Check`: no request at the first path means that whoever failed before had armed, hence claimed. Assumption:
`BootstrapAssumption` (`Nobody` is not a run).

`RunpodSyncProofs` proves `OneTransfer`, `StopIsTold`, `InstalledKept` and the action property
`SuccessIsInstalled` for any attempts and sessions. The invariant
`SInv` says why the bundle directory decides the race: while an attempt copies, and until it claims, the
directory is the one it made (`Holds`), and a claim is of the attempt's own session, whose directory is
whole and its own (`Owns`). So no other attempt can be in the part of the program that may remove the
directory, nor find it absent. `Accounts` adds what a failing attempt knows is true: a request it made
is still there, a Pod whose stop it confirmed stays down for the session, and it says no more than that.
`DInv` does the same for the trees on the Pod: a command runs for an attempt that sent it on a Pod that is up, and a plan that is not too old is of the armed
session (`Runs`), so the one install that moves trees is that of the session's claimer (`OneInstaller`);
`Swaps` says how far it is, `Restorable` that with nothing in place there is an archived checkout to put
back, and `Reports` that what was verified in place stays there in its session and is at worst archived
later. TLC checked its parts on the instance of `sync` first. Assumption: `SyncAssumption` (the first
checkout is not an attempt's; `Nothing` is no attempt, session or bundle; an attempt is not the name of a place).

`PodProofs` also proves `StoppedIsStopped`, `SettlementTrue`, `UnwatchedIsOnRecord`, the action property
`ClosesWhatWasAttested` and that `GpuSession` implements `SessionAccounting`, for any sessions and bounds.
The invariant `GInv` answers why a lifecycle record can be trusted although its writers crash between
the record and the call it announces: `LifeSound` says of each record how far the Pod can have come since
the baseline it carries (nothing started yet; a start on its way; running or just ended; over for good),
`ClientSound` that a re-arm client works on the record that is there or on one an external stop has
closed since, and `AttestSound` what of that which an attesting command read is still true when it
replaces the record: between its comparison and its replacement the client may have written, but only a further observation
of the same run, so what is closed is the attested run all the same (`ClosesWhatWasAttested`). `WatchSound` says of each step of a
watcher what it can still miss, and gives `UnwatchedIsOnRecord`. `SettlementTrue` needs only a small
invariant of its own and holds whatever the provider does; the other theorems state as a hypothesis what they
take from the environment, `PromptProvider`, as the run `gpu` does. Assumptions: `SessionsAssumption`, and
`RecordAssumption` (`NoRecord` is not a lifecycle record). TLC checked the parts of
`GInv` on the instance of `gpu`.

`PaidBundleRotationProofs` proves `OpenSpendKeepsQuote`, `NothingLost` and the action properties
`SuccessLeavesNoLock` and `RecoveryNeverStrands`, for any processes, windows, bundle ids and number of
archives. `QInv` says why the quote lock of a reservation stays: a rotation that runs is alone and found
nothing reserved (`Alone`), and whoever is about to reserve read the window that is still canonical
(`Quoted`). `RInv` says where a rotation stands: the manifest on disk is the one it follows (`Fixed`), what
is left of the locks and the approval is what that manifest records (`Matched`), and once it removes, every record is in
the archive and only those are gone that had their turn (`Removing`, `Emptied`). For `NothingLost` it remains
that installing never changes an installed content (`BundlesGrow`); for `RecoveryNeverStrands`, that the required
locks are removed first (`LocksGoFirst`), so that a half-removed bundle is never taken for new controls.
All of them hold also when specs are edited during a rotation: of the source of a spec the invariant then says
nothing. Assumption: `RotationAssumption`.

`LensStudyProofs` proves `ReadoutIsCausal` and the action properties `LensOutcomeIsFinal` and `AnalysisIsFinal` for any
traces, tokenisations, judgments, gates and bounds. The invariant `LInv` says what was measured: a frozen row is that of
stored answers that were found in their source and whose spans map (`Measured`); what a lens run stands on: the
design is that of the frozen positions, and the authorization names that design and the gate (`Stands`);
how its attempts went, by where it is (`AttemptsGo`); and that the outcome is one (`Outcome`): before a
run there is neither, a readout follows a gate that passed, and a failure root follows two failed attempts and is followed by
nothing. `AInv` adds that an analysis names the evidence on disk and that no command past its checks is left to
change it. `ReadoutIsCausal` needs of a span only what the checks of `Maps` guarantee, whatever its decoder does.

`SearchesFind` says what the two binary searches return, in any completion: a boundary at which the prefixes
pass the character looked for, and with growing prefixes that is the one. `GrowingPrefixesMap`: then the checks
that follow the searches refuse no span that is nonempty and inside the text. The
searches are recursive functions, and induction over an interval cannot be written here; it is
replaced by a smallest interval on which a search would fail (`DescentExists`, `DescentKeeps`, from the library's
well-founded order of the naturals), whose half is smaller. Assumptions: `LensAssumption`, `LayoutAssumption`
(the prefixes of a completion are numbered from zero), `AbsentAssumption` (the absent file is no gate, failure or
reading). TLC checked `LInv` and `AInv` first, on the instance of `lens`.

`TypeOK`, `LedgerTypeOK`, `LockInv`, `IInv` and `OneGpuSession` are proved and not run again: TLC checked them while the proofs
were made.

`StudyAnalysisProofs` proves `LensNeedsAssociation` and the action properties `ConclusionSurvives` and
`CriteriaSurvive` for any studies, anchors, interval ends, precision (`Whole`) and margins. For the first, `AInv`
says that what was computed so far is of this study and that what was written shows no more than that. The
other two say that nothing is asserted which missing measurements could overturn, and their argument is about
the operators: the bound of an estimate over what was measured contains its bound over any completion
(`SumsBracket`, `BoundsWithin`), and a narrower bound meets, or is denied, what the wider one was (`MeetsKeeps`,
`DeniesKeeps`). That differs from one estimate to the next. A rate gains at most its missing rows
(`RatesWithin`), and differences, distances and halves of bounds keep the order. A revision moves the
count by at most one either way (`SumExtends`). A stop is a ratio whose denominator moves too, because a
missing trajectory may not be at risk at all (`RatiosCompare`). The movement towards the neutral rate is not monotone
in that rate, and is extreme at an end of its interval or where it meets one of two means (`NearerBracket`): the
points the code evaluates suffice; what is completed there is the neutral rate. The outcomes of pairs are not
completed by the code, so the theorem speaks of this criterion when no outcome of an accuracy pair is missing
(`PairsAreMeasured`); with one missing it may fail (section 5). The invariant that goes with it, `Inventoried`, says that effects are
estimated only of a study as large as was designed. Sums over finite sets are defined by taking one element after another; `SumStep`
and what follows from it are proved by the smallest subset for which they would fail. Assumptions:
`EffectAssumption`, `UnknownAssumption` (anchors are finite; `Unknown` is no measurement, no truth
value and not the conclusion `inconclusive`) and `StudyAssumption` (a measurement is of its kind or
missing).

Only model-checked: `RunEnds` of `GpuSession`, `Resumes` of `PaidBundleRotation` and `FailureStops` of
`PodBootstrap`, because they are liveness, which is out of the prover's reach as ENABLED is; `ThresholdsFirst` and
`ReleaseIsWhole`, which hold of one adjudication command at a time and not of several; and
that the system does not deadlock where the runs check it. Every other property of the passing runs has a theorem.
Induction over data cannot be written here; where it is needed (sums, the extremes of a set, binary
searches), an argument by a smallest counterexample replaces it.

## 5. Disagreements found

Two are kept as runs that TLC must find violated:

* `resample_audit`: `resample-adjudicate` writes its API usage audit anew at the end of every run, and
  a repeated run makes no calls. Repeated after the release, or after a kill between the execution
  manifest and the validation, it empties the audit that the frozen manifest names by hash, and is then
  refused. `README.md` says the pipeline does not silently overwrite existing outputs.
* `analysis_movement`: the criterion `accuracy_sentence_moves_toward_neutral_baseline` is bounded in its neutral rate
  (`analysis.py:1535-1560`), but a pair with a missing outcome is dropped from its two means (`:1418-1426`) and no best
  or worst assignment is made of it. With half of the outcomes missing the criterion is asserted, and enters a
  verdict, although another assignment would deny it. `config/preregistration.yaml:131-133` asks for such bounds of every
  behavioural contrast a verdict uses, and `README.md:338-339` says unmeasurable outcomes are kept for them.

Others were met while modelling. The passing runs hold in spite of them.

* *Late start.* The watcher's readiness deadline counts from its launch (`runpod_watchdog.py:1806`, `:1832`); if it
  passes while `POST /start` is on its way, the watcher sees EXITED, takes it for a confirmed stop, leaves, and the Pod
  then runs unwatched, contrary to the docstring at `:1775`. It is one of the two cases of `UnwatchedIsOnRecord`:
  the record says that a start was requested and its money stays reserved, but nothing ends the run without an operator.
* *A compare-and-swap that is none.* `docs/runpod_lifecycle.md:213` says `gpu-recover-stop` CAS-transitions the lifecycle.
  The code compares and then replaces without a lock (`runpod_recovery.py:434-437`), and the polling re-arm client may write
  between (`runpod_lifecycle.py:1840`). What is lost is a further observation of the same run; the record closed is
  still of the attested one (`ClosesWhatWasAttested`).
* *A second sync attempt whose stop request fails.* An attempt that finds a claim makes the request outside any `try`
  (`runpod_sync_transfer.py:592-594`): when that raises, the provider stop on the next line is never called, although
  `RUNPOD.md:174-176` and `docs/runpod_lifecycle.md:154-156` say the two are independent. The failure path of the claimed
  attempt (`:793-801`) collects the error and goes on. `StopIsTold` holds because the error is then not silent.
* *Replay of a no-start attestation* asks the provider again (`runpod_no_start.py:579`);
  `docs/runpod_no_start_reconciliation.md:29-31` says it does not. The code is the more
  conservative of the two.
* *A polling re-arm client* overwrites the lifecycle record an attestation has closed
  (`runpod_lifecycle.py:1840`).
* *A quote spec rewritten by hand during a rotation.* The code looks at a source once, before it removes it
  (`paid_bundle_rotation.py:1140`), and success is reported over a spec that came back;
  `docs/paid_bundle_rotation.md:51-52` says a concurrently recreated file fails closed. `SuccessLeavesNoLock` is what is left.
* *A sync attempt refused by its last look at the guard* leaves its bundle directory, which blocks
  every later attempt of the session (`runpod_sync_transfer.py:616`); the failure path that would remove
  it is entered only after the claim (`:827`).
* *A torn adjudication checkpoint.* The six files of `behavioral_adjudication_phase.py:482-504` are
  written one after another, without a manifest over them. After a kill in between, the loader
  refuses (`:275-283`) and a rerun cannot write them again, because a replayed answer's usage differs
  from a paid one's. The phase is stuck until the files are removed by hand.
* *Two adjudication commands at once* lose usage rows (`cli.py:1630` rewrites the audit without a
  lock). With two in `Judges` TLC also violates `ThresholdsFirst`: one pays for an answer and the other replays
  it, their checkpoints differ in the usage metadata, and the verdict whose thresholds are published is
  then replaced by the other's. The treatment phase is refused from then on, as it should be; what was generated
  before it is no longer preregistered by the verdict on disk, though still by its measurements (`MeasuredThresholdsFirst`).
* *A lens command retried in its session.* The gate a lens run freezes contains the time of the watcher's
  last heartbeat (`runpod_sessions.py:1014`), so a run that failed and is retried after another heartbeat is
  refused by its own gate (`cli.py:6770`); `README.md:216-217` says an active GPU attempt can resume.
* *A failed bootstrap that returns before the Pod is EXITED.* `docs/runpod_lifecycle.md:168-170` and
  `RUNPOD.md:202-203` say it does not. The first trap makes one stop call and returns whatever came
  of it (`bootstrap_gpu.sh:60`), and the second hands over to a live watchdog without waiting, or
  returns unconfirmed when the session hash was never derived (`:176-183`). `FailureStops` is what is
  left: with the hash known, the Pod is stopped in the end.
* *An environment that is never reused.* `RUNPOD.md:255` says later phases do not reinstall. The tree a
  transfer installs has no `.venv-gpu`, and the exact-tree check refuses one with a setup lock
  under `.runpod`, so the branch at `bootstrap_gpu.sh:461-482` is not reached.
* *A kill inside the lens or positions output files* leaves files that the next run refuses
  (`lens_command.py:1090`, `:1133`; `cli.py:6566`, `:6627`): safe, but final.

## 6. Plan

What is left is anchor selection as operators, if its ranking can be stated without its text features,
and the creation of the first Pod, if the command line ever admits it again.

## 7. Not modelled

* Inside the **bootstrap**: the provider evidence a stop call demands, what the preflight measures on the GPUs,
  and the installation of the software are one outcome each.
* **Creation of the first Pod** and its recovery: the frozen command line refuses both for this study,
  whose Pod exists.
* **Anchors**: a ranking by hashes and text features, frozen before the halves that use it begin.
* **Investigation time ledger**: a log by one program which no gate reads.
* **Configuration, prompts, schemas, release tooling, calibration and smoke commands**: constants,
  validation and one-shot checks without behaviour over time.
* Reading a judge's response (span and number parsing), the prefix engine, sampling seeds, tensors and
  numerical readouts, the statistical bootstrap itself, figures and descriptive fits; wording and layout of files,
  hash computation (contents are compared instead), network encoding.
