----------------------------- MODULE GpuSession -----------------------------
(***************************************************************************)
(* One research Pod and the host programs that reserve, re-arm, watch,     *)
(* stop, attest and settle its paid sessions: gpu_budget_reserve.py and    *)
(* gpu_budget_settle.py over gpu_budget.py, rearm_approved_pod of          *)
(* runpod_lifecycle.py, wait_for_rearm_then_run_watchdog and run_watchdog  *)
(* of runpod_watchdog.py, request_host_stop of runpod_host_control.py,     *)
(* attest_external_stop of runpod_recovery.py and attest_no_start of       *)
(* runpod_no_start.py.  They share the lifecycle record, the receipts and  *)
(* the ledger, talk to the provider over HTTP, and may raise or die        *)
(* between any two steps.                                                  *)
(*                                                                         *)
(* A session stands for its nonce, its phase, its approval and its         *)
(* reservation.  A lifecycle record is compared by content, which is what  *)
(* its record_hash does.  The Pod status RUNNING also stands for           *)
(* PROVISIONING and STARTING; lastStartedAt is a count of starts.          *)
(***************************************************************************)
EXTENDS Naturals, FiniteSets

CONSTANTS Sessions,        \* sessions still to be run
          First,           \* the settled session the lifecycle starts from
          NoSession, NoRecord,
          PromptProvider   \* TRUE: a requested start takes effect before the
                           \* second observation of the no-start command

ASSUME SessionsAssumption == /\ First \notin Sessions /\ NoSession \notin Sessions \cup {First}
                             /\ PromptProvider \in BOOLEAN

AllSessions == Sessions \cup {First}
Closures == {"external", "nostart"}

IntentOps == {"rearm_intent", "rearm_patched", "rearm_start_intent"}
FailedOps == {"rearm_verification_failed", "rearm_failed_terminal"}
StartOps  == {"rearm_start_intent", "rearm_start_requested", "rearm_start_pending",
              "rearm_timeout", "rearmed"} \cup FailedOps
TransitionOps == IntentOps \cup StartOps

Record == [op : {"stopped"} \cup TransitionOps, session : AllSessions, prior : AllSessions,
           history : SUBSET AllSessions, base : Nat, by : {"none"} \cup Closures,
           of : {"none"} \cup TransitionOps]

ASSUME RecordAssumption == NoRecord \notin Record

VARIABLES pod,         \* the provider's Pod: status, environment, starts
          wire,        \* a POST /start that has not taken effect yet
          life,        \* .runpod/pod_lifecycle.json
          ledger, reservations,     \* ledger entries and reservation receipts
          receipt,     \* no-start and external-stop receipts: the record they close
          settlement,  \* settlement.json of each session
          reserving, settling,      \* the two scripts, between their two writes
          client,      \* the re-arm client
          watch, ack, stopRequest,  \* the host watcher, its acknowledgement, stop requests
          attester,    \* the two attestation commands
          ran,         \* history: the sessions that have run
          late         \* history: those whose watcher left with a start on its way

money == <<ledger, reservations, settlement, reserving, settling>>
provider == <<pod, wire, ran>>
watcher == <<watch, ack, stopRequest, late>>
closing == <<receipt, attester>>
vars == <<provider, life, money, client, watcher, closing>>

Idle == [pc |-> "idle", before |-> NoRecord, rec |-> NoRecord]
NoWatch == [pc |-> "none", session |-> NoSession, acked |-> FALSE, seen |-> NoRecord]
Unsnapped == [pc |-> "idle", snap |-> NoRecord]

FirstRecord == [op |-> "stopped", session |-> First, prior |-> First,
                history |-> {}, base |-> 0, by |-> "external", of |-> "rearmed"]

Init == /\ pod = [status |-> "EXITED", env |-> First, starts |-> 1]
        /\ wire = NoSession
        /\ life = FirstRecord
        /\ ledger = [s \in AllSessions |-> IF s = First THEN "billed" ELSE "none"]
        /\ reservations = {First}
        /\ receipt = [k \in Closures |-> [s \in AllSessions |-> NoRecord]]
        /\ settlement = ledger
        /\ reserving = NoSession /\ settling = NoSession
        /\ client = Idle
        /\ watch = NoWatch
        /\ ack = [s \in AllSessions |-> NoRecord]
        /\ stopRequest = {}
        /\ attester = [k \in Closures |-> Unsnapped]
        /\ ran = {} /\ late = {}

(* A start that may still take effect. *)
StartPending == wire # NoSession \/ client.pc = "post"

-----------------------------------------------------------------------------
(* gpu_budget_reserve.py: reserve_once in the ledger, then the receipt.    *)

ReserveLedger(s) ==
  /\ reserving = NoSession
  /\ s \notin reservations
  /\ ledger[s] = "none"
  /\ \A t \in AllSessions : ledger[t] # "estimated"
  /\ ledger' = [ledger EXCEPT ![s] = "estimated"]
  /\ reserving' = s
  /\ UNCHANGED <<provider, life, reservations, settlement, settling, client, watcher, closing>>

ReserveReceipt ==
  /\ reserving # NoSession
  /\ reservations' = reservations \cup {reserving}
  /\ reserving' = NoSession
  /\ UNCHANGED <<provider, life, ledger, settlement, settling, client, watcher, closing>>

ReserveCrash ==
  /\ reserving # NoSession
  /\ reserving' = NoSession
  /\ UNCHANGED <<provider, life, ledger, reservations, settlement, settling, client, watcher,
                 closing>>

-----------------------------------------------------------------------------
(* rearm_approved_pod, one step for each durable write or provider call.   *)

Used == life.history \cup {life.session}

(* validate_host_rearm_ack and validate_host_rearm_waiting_state: the       *)
(* acknowledgement names this stopped record and this live process, whose   *)
(* heartbeat still says waiting_for_start.                                  *)
WatcherLive(s, before) ==
  watch.pc \in {"waiting", "looked"} /\ watch.session = s /\ watch.acked /\ ack[s] = before

Intended(s, before) ==
  [op |-> "rearm_intent", session |-> s, prior |-> before.session,
   history |-> before.history \cup {before.session}, base |-> before.base, by |-> "none",
   of |-> "none"]

ClientGoto(l) == client' = [client EXCEPT !.pc = l]

Rearm(s) ==
  /\ client.pc = "idle"
  /\ life.op = "stopped"
  /\ s \in reservations /\ ledger[s] = "estimated"      \* authorize_gpu_lifecycle
  /\ s \notin Used
  /\ ledger[life.session] \in {"zero", "billed"}
  /\ WatcherLive(s, life)
  /\ client' = [pc |-> "checked", before |-> life, rec |-> Intended(s, life)]
  /\ UNCHANGED <<provider, life, money, watcher, closing>>

(* _replace_state: the client writes its own copy over whatever is there.   *)
Replace(op) == life' = [client.rec EXCEPT !.op = op]

WriteIntent ==
  LET baseline == [client.rec EXCEPT !.base = pod.starts] IN
  /\ client.pc = "checked"
  /\ pod.status = "EXITED" /\ pod.env = client.rec.prior
  /\ life' = baseline
  /\ client' = [client EXCEPT !.pc = "intent", !.rec = baseline]
  /\ UNCHANGED <<provider, money, watcher, closing>>

PatchEnvironment ==
  /\ client.pc = "intent"
  /\ pod' = [pod EXCEPT !.env = client.rec.session]
  /\ ClientGoto("patching")
  /\ UNCHANGED <<wire, ran, life, money, watcher, closing>>

Advance(from, op, to) == /\ client.pc = from
                         /\ Replace(op)
                         /\ ClientGoto(to)
                         /\ UNCHANGED <<provider, money, watcher, closing>>

WritePatched ==
  /\ Advance("patching", "rearm_patched", "patched")
  /\ pod.status = "EXITED" /\ pod.env = client.rec.session /\ pod.starts = client.rec.base

WriteStartIntent == Advance("patched", "rearm_start_intent", "intended")

CheckWatcherSkipped ==      \* mutated form: the watcher is not looked at again
  /\ client.pc = "intended"
  /\ ClientGoto("post")
  /\ UNCHANGED <<provider, life, money, watcher, closing>>

CheckWatcher ==
  /\ client.pc = "intended"
  /\ WatcherLive(client.rec.session, client.before)
  /\ ClientGoto("post")
  /\ UNCHANGED <<provider, life, money, watcher, closing>>

PostStart ==
  /\ client.pc = "post"
  /\ wire' = client.rec.session
  /\ ClientGoto("posting")
  /\ UNCHANGED <<pod, ran, life, money, watcher, closing>>

WriteStartRequested == Advance("posting", "rearm_start_requested", "polling")

(* _wait_for_running_v1: every poll is recorded; EXITED is still accepted.  *)
Poll == /\ Advance("polling", "rearm_start_pending", "polling")
        /\ pod.status # "TERMINATED"

PollReady == /\ pod.status = "RUNNING"
             /\ Advance("polling", "rearm_start_pending", "ready")

EndRearm(from, op) == /\ client.pc = from
                      /\ Replace(op)
                      /\ client' = Idle
                      /\ UNCHANGED <<provider, money, watcher, closing>>

PollTimeout == EndRearm("polling", "rearm_timeout")
PollFails == \/ EndRearm("polling", "rearm_verification_failed")
             \/ pod.status = "TERMINATED" /\ EndRearm("polling", "rearm_failed_terminal")
WriteRearmed == EndRearm("ready", "rearmed")

(* Any check that fails raises; the client may also die or be interrupted.  *)
ClientAbandons == /\ client.pc # "idle"
                  /\ client' = Idle
                  /\ UNCHANGED <<provider, life, money, watcher, closing>>

ClientStep == \/ \E s \in Sessions : Rearm(s)
              \/ WriteIntent \/ PatchEnvironment \/ WritePatched \/ WriteStartIntent
              \/ CheckWatcher \/ PostStart \/ WriteStartRequested
              \/ Poll \/ PollReady \/ PollTimeout \/ PollFails \/ WriteRearmed
              \/ ClientAbandons

-----------------------------------------------------------------------------
(* The provider: a start takes effect some time after it was requested, or  *)
(* never; the Pod may be terminated from outside.                           *)

StartTakesEffect ==
  /\ wire # NoSession
  /\ wire' = NoSession
  /\ IF pod.status = "EXITED"
     THEN /\ pod' = [pod EXCEPT !.status = "RUNNING", !.starts = @ + 1]
          /\ ran' = ran \cup {pod.env}
     ELSE UNCHANGED <<pod, ran>>
  /\ UNCHANGED <<life, money, client, watcher, closing>>

StartLost ==
  /\ wire # NoSession
  /\ wire' = NoSession
  /\ UNCHANGED <<pod, ran, life, money, client, watcher, closing>>

PodTerminated ==
  /\ pod.status # "TERMINATED"
  /\ pod' = [pod EXCEPT !.status = "TERMINATED"]
  /\ UNCHANGED <<wire, ran, life, money, client, watcher, closing>>

-----------------------------------------------------------------------------
(* wait_for_rearm_then_run_watchdog, then run_watchdog.                     *)

WatchGoto(l) == watch' = [watch EXCEPT !.pc = l]

OnlyWatch == UNCHANGED <<provider, life, money, client, stopRequest, late, closing>>

WatchStart(s) ==      \* bind_lifecycle_pod(waiting_for_rearm)
  /\ watch.pc = "none"
  /\ s \in reservations
  /\ life.op = "stopped" /\ s \notin Used
  /\ watch' = [pc |-> "waiting", session |-> s, acked |-> FALSE, seen |-> NoRecord]
  /\ OnlyWatch /\ UNCHANGED ack

Bound == life.op = "stopped" \/ life.session = watch.session

(* Deadline and stop request are looked at before the lifecycle is read.    *)
WatchLook ==
  /\ watch.pc = "waiting"
  /\ watch.session \notin stopRequest
  /\ watch' = IF Bound THEN [watch EXCEPT !.pc = "looked", !.seen = life]
                       ELSE [watch EXCEPT !.pc = "stopping"]
  /\ OnlyWatch /\ UNCHANGED ack

(* EXITED: acknowledge a stopped record once, exclusively, or raise.        *)
WatchSeesExited ==
  LET claims == watch.seen.op = "stopped" /\ ~watch.acked IN
  /\ watch.pc = "looked" /\ pod.status = "EXITED"
  /\ IF claims /\ ack[watch.session] # NoRecord
     THEN watch' = NoWatch /\ UNCHANGED ack
     ELSE /\ watch' = [watch EXCEPT !.pc = "waiting", !.acked = @ \/ claims, !.seen = NoRecord]
          /\ ack' = IF claims THEN [ack EXCEPT ![watch.session] = watch.seen] ELSE ack
  /\ OnlyWatch

(* A failed GET, or live metadata that does not validate yet, is retried.   *)
WatchRetries ==
  /\ watch.pc = "looked"
  /\ watch' = [watch EXCEPT !.pc = "waiting", !.seen = NoRecord]
  /\ OnlyWatch /\ UNCHANGED ack

WatchSeesRunning ==
  /\ watch.pc = "looked" /\ pod.status = "RUNNING"
  /\ WatchGoto(IF watch.seen.op = "stopped" THEN "stopping" ELSE "armed")
  /\ OnlyWatch /\ UNCHANGED ack

WatchDeadlineExits ==      \* mutated form: the readiness timeout raises without stopping
  /\ watch.pc \in {"waiting", "armed"}
  /\ watch' = NoWatch
  /\ OnlyWatch /\ UNCHANGED ack

(* The readiness deadline, counted from the launch of the watcher, or the   *)
(* runtime deadline, unsafe metadata, a failed write of the watchdog's own  *)
(* state.  It passes whether or not a start is on its way.                  *)
WatchDeadline ==
  /\ watch.pc \in {"waiting", "armed"}
  /\ WatchGoto("stopping")
  /\ OnlyWatch /\ UNCHANGED ack

WatchObeysRequest ==
  /\ watch.pc \in {"waiting", "armed"} /\ watch.session \in stopRequest
  /\ WatchGoto("stopping")
  /\ OnlyWatch /\ UNCHANGED ack

WatchSeesStopped ==
  /\ watch.pc = "armed" /\ pod.status # "RUNNING"
  /\ watch' = NoWatch
  /\ OnlyWatch /\ UNCHANGED ack

WatchSeesTerminated ==
  /\ watch.pc = "looked" /\ pod.status = "TERMINATED"
  /\ watch' = NoWatch
  /\ OnlyWatch /\ UNCHANGED ack

(* _stop_until_confirmed: the status before each POST /stop decides.        *)
StopConfirmed ==
  /\ watch.pc = "stopping" /\ pod.status # "RUNNING"
  /\ watch' = NoWatch
  /\ late' = IF StartPending THEN late \cup {watch.session} ELSE late
  /\ UNCHANGED <<provider, life, money, client, ack, stopRequest, closing>>

StopPosted ==
  /\ watch.pc = "stopping" /\ pod.status = "RUNNING"
  /\ pod' = [pod EXCEPT !.status = "EXITED"]
  /\ UNCHANGED <<wire, ran, life, money, client, watcher, closing>>

(* Whose watcher was killed is kept for the properties alone.               *)
WatchKilled ==
  /\ watch.pc # "none"
  /\ watch' = [NoWatch EXCEPT !.session = watch.session]
  /\ OnlyWatch /\ UNCHANGED ack

WatchStep == \/ \E s \in Sessions : WatchStart(s)
             \/ WatchLook \/ WatchSeesExited \/ WatchRetries \/ WatchSeesRunning
             \/ WatchDeadline \/ WatchObeysRequest \/ WatchSeesStopped \/ WatchSeesTerminated
             \/ StopConfirmed \/ StopPosted \/ WatchKilled

(* request_host_stop *)
RequestStop ==
  /\ life.op = "rearmed"
  /\ watch.pc = "armed" /\ watch.session = life.session /\ watch.acked
  /\ stopRequest' = stopRequest \cup {life.session}
  /\ UNCHANGED <<provider, life, money, client, watch, ack, late, closing>>

-----------------------------------------------------------------------------
(* attest_no_start and attest_external_stop: load the record, observe the   *)
(* provider, write the receipt once, compare the lifecycle with the record  *)
(* loaded, replace it.  No lock is held between the comparison and the      *)
(* replacement.  The documentation allows the no-start command only after   *)
(* the re-arm client has ended.                                             *)

AttestGoto(k, l) == attester' = [attester EXCEPT ![k].pc = l]

OnlyAttester == UNCHANGED <<provider, life, money, client, watcher>>

Eligible(k) == IF k = "nostart" THEN IntentOps ELSE StartOps

(* An existing receipt must continue exactly this record; an external-stop  *)
(* receipt is then replayed at once.                                        *)
AttestLoadsAny(k) ==      \* mutated form: an existing receipt need not be of this record
  LET existing == receipt[k][life.session] IN
  /\ attester[k].pc = "idle"
  /\ k = "nostart" => client.pc = "idle"
  /\ life.op \in Eligible(k)
  /\ attester' = [attester EXCEPT ![k] =
        [pc |-> IF k = "external" /\ existing # NoRecord THEN "receipted" ELSE "loaded",
         snap |-> life]]
  /\ OnlyAttester /\ UNCHANGED receipt

AttestLoad(k) ==
  LET existing == receipt[k][life.session] IN
  /\ attester[k].pc = "idle"
  /\ k = "nostart" => client.pc = "idle"
  /\ life.op \in Eligible(k)
  /\ existing \in {NoRecord, life}
  /\ attester' = [attester EXCEPT ![k] =
        [pc |-> IF k = "external" /\ existing = life THEN "receipted" ELSE "loaded", snap |-> life]]
  /\ OnlyAttester /\ UNCHANGED receipt

(* REST GETs of the Pod and of its billing rows. *)
NeverStarted(r) == /\ pod.status = "EXITED" /\ pod.starts = r.base
                   /\ \/ pod.env = r.session
                      \/ pod.env = r.prior /\ r.op = "rearm_intent"
RanAndStopped(r) == pod.status = "EXITED" /\ pod.starts > r.base /\ pod.env = r.session

ObserveOnce ==        \* mutated form: one observation for every operation
  LET snap == attester["nostart"].snap IN
  /\ attester["nostart"].pc = "loaded"
  /\ NeverStarted(snap)
  /\ AttestGoto("nostart", "proved")
  /\ OnlyAttester /\ UNCHANGED receipt

ObserveNoStart ==
  LET snap == attester["nostart"].snap IN
  /\ attester["nostart"].pc = "loaded"
  /\ NeverStarted(snap)
  /\ AttestGoto("nostart", IF snap.op = "rearm_start_intent" THEN "quiet" ELSE "proved")
  /\ OnlyAttester /\ UNCHANGED receipt

ObserveAgain ==
  /\ attester["nostart"].pc = "quiet"
  /\ PromptProvider => ~StartPending
  /\ NeverStarted(attester["nostart"].snap)
  /\ AttestGoto("nostart", "proved")
  /\ OnlyAttester /\ UNCHANGED receipt

ObserveAnyExit ==        \* mutated form: EXITED alone proves the stop
  /\ attester["external"].pc = "loaded"
  /\ pod.status = "EXITED"
  /\ AttestGoto("external", "proved")
  /\ OnlyAttester /\ UNCHANGED receipt

ObserveExternalStop ==
  /\ attester["external"].pc = "loaded"
  /\ RanAndStopped(attester["external"].snap)
  /\ AttestGoto("external", "proved")
  /\ OnlyAttester /\ UNCHANGED receipt

WriteReceipt(k) ==
  LET snap == attester[k].snap IN
  /\ attester[k].pc = "proved"
  /\ receipt[k][snap.session] \in {NoRecord, snap}
  /\ receipt' = [receipt EXCEPT ![k][snap.session] = snap]
  /\ AttestGoto(k, "receipted")
  /\ OnlyAttester

(* A copy of the record it closes; its updated_at is the receipt's, so that *)
(* it tells which record and which receipt it was made of.                  *)
StoppedRecord(r, k) == [r EXCEPT !.op = "stopped", !.by = k, !.of = r.op]

(* _atomic_replace_lifecycle: the comparison, then os.replace.              *)
CompareLifecycle(k) ==
  /\ attester[k].pc = "receipted"
  /\ life = attester[k].snap
  /\ AttestGoto(k, "compared")
  /\ OnlyAttester /\ UNCHANGED receipt

ReplaceLifecycle(k) ==
  /\ attester[k].pc = "compared"
  /\ life' = StoppedRecord(attester[k].snap, k)
  /\ attester' = [attester EXCEPT ![k] = Unsnapped]
  /\ UNCHANGED <<provider, money, client, watcher, receipt>>

(* A failed check, a lost comparison, or the death of the command. *)
AttestAbandons(k) ==
  /\ attester[k].pc # "idle"
  /\ attester' = [attester EXCEPT ![k] = Unsnapped]
  /\ OnlyAttester /\ UNCHANGED receipt

AttestStep == \/ ObserveNoStart \/ ObserveAgain \/ ObserveExternalStop
              \/ \E k \in Closures : \/ AttestLoad(k) \/ WriteReceipt(k)
                                     \/ CompareLifecycle(k)
                                     \/ ReplaceLifecycle(k) \/ AttestAbandons(k)

-----------------------------------------------------------------------------
(* gpu_budget_settle.py: check the bindings, settle the ledger, then write  *)
(* settlement.json exclusively.  An exact repetition is idempotent.         *)

Amount(k) == IF k = "nostart" THEN "zero" ELSE "billed"

SettleFileFirst(s, k) ==        \* mutated form: settlement.json is written before the ledger
  /\ settling = NoSession
  /\ s \in reservations
  /\ receipt[k][s] # NoRecord
  /\ life = StoppedRecord(receipt[k][s], k)
  /\ settlement[s] \in {"none", Amount(k)}
  /\ settlement' = [settlement EXCEPT ![s] = Amount(k)]
  /\ settling' = s
  /\ UNCHANGED <<provider, life, ledger, reservations, reserving, client, watcher, closing>>

SettleLedger(s, k) ==
  /\ settling = NoSession
  /\ s \in reservations
  /\ receipt[k][s] # NoRecord
  /\ life = StoppedRecord(receipt[k][s], k)
  /\ settlement[s] \in {"none", Amount(k)}
  /\ ledger[s] \in {"estimated", Amount(k)}
  /\ ledger' = [ledger EXCEPT ![s] = Amount(k)]
  /\ settling' = s
  /\ UNCHANGED <<provider, life, reservations, settlement, reserving, client, watcher, closing>>

SettleFile ==
  /\ settling # NoSession
  /\ settlement' = [settlement EXCEPT ![settling] = IF @ = "none" THEN ledger[settling] ELSE @]
  /\ settling' = NoSession
  /\ UNCHANGED <<provider, life, ledger, reservations, reserving, client, watcher, closing>>

SettleCrash ==
  /\ settling # NoSession
  /\ settling' = NoSession
  /\ UNCHANGED <<provider, life, ledger, reservations, settlement, reserving, client, watcher,
                 closing>>

MoneyStep == \/ \E s \in Sessions : ReserveLedger(s) \/ \E k \in Closures : SettleLedger(s, k)
             \/ ReserveReceipt \/ ReserveCrash \/ SettleFile \/ SettleCrash

Next == \/ ClientStep \/ WatchStep \/ RequestStop \/ AttestStep \/ MoneyStep
        \/ StartTakesEffect \/ StartLost \/ PodTerminated

Spec == Init /\ [][Next]_vars

(* A living watcher keeps running, a passed deadline stays passed, and the  *)
(* provider obeys a repeated POST /stop.                                    *)
FairSpec == /\ Spec
            /\ SF_vars(WatchDeadline)
            /\ WF_vars(WatchLook \/ WatchSeesExited \/ WatchRetries \/ WatchSeesRunning)
            /\ WF_vars(StopPosted)

-----------------------------------------------------------------------------

(* The scripts and processes keep the promise about money: no session runs  *)
(* unreserved, twice, or beside another, and an estimate is closed at zero  *)
(* only if it never ran and at a cost only when its run is over.            *)
Accounting == INSTANCE SessionAccounting
                WITH account <- [s \in Sessions |-> ledger[s]],
                     running <- {s \in Sessions : pod.status = "RUNNING" /\ pod.env = s},
                     ran <- ran
ImplementsSessionAccounting == Accounting!Spec

(* A lifecycle that says stopped is right, and stays right: no Pod runs and *)
(* no start is on its way that could contradict it.                         *)
StoppedIsStopped == life.op = "stopped" => pod.status # "RUNNING" /\ wire = NoSession

(* Whoever writes to the lifecycle meanwhile, a transition to stopped writes *)
(* the record its receipt attests, and replaces a record of the same run:   *)
(* it never closes another session, nor one that is closed already.         *)
ClosesWhatWasAttested ==
  [][life'.op = "stopped" /\ life' # life =>
       LET attested == receipt[life'.by][life.session] IN
       /\ life.op # "stopped"
       /\ life' = StoppedRecord(attested, life'.by)
       /\ attested.base = life.base /\ attested.history = life.history]_vars

(* The settlement file, when there is one, states what the ledger charges,  *)
(* even if the script died between the two writes and was run again.        *)
SettlementTrue == \A s \in AllSessions : settlement[s] # "none" => settlement[s] = ledger[s]

(* The two ways a session loses its watcher with the Pod still to be        *)
(* stopped: it was killed, or gave up over the exited Pod with the start    *)
(* of that session on its way.                                              *)
Bereft(s) == s \in late \/ (watch.pc = "none" /\ watch.session = s)

(* A Pod runs unwatched in these two cases only, whatever became of the     *)
(* re-arm client, and is then on record as a start that was requested, with *)
(* its money still reserved.                                                *)
UnwatchedIsOnRecord ==
  pod.status = "RUNNING" /\ watch.pc = "none" =>
    /\ Bereft(pod.env) /\ life.session = pod.env
    /\ life.op \in StartOps /\ ledger[pod.env] = "estimated"

(* In no other case does a Pod run for ever, whatever became of the client, *)
(* once watchers are no longer killed.                                      *)
RunEnds == <>[][~WatchKilled]_vars =>
             (pod.status = "RUNNING" ~> pod.status # "RUNNING" \/ Bereft(pod.env))
=============================================================================
