------------------------------ MODULE PodProofs ------------------------------
(***************************************************************************)
(* What is proved of the Pod: from the host, whose programs start, watch,  *)
(* stop and settle it, and from inside, where the bootstrap script arms a  *)
(* session.                                                                *)
(*                                                                         *)
(* GpuSession, for any sessions: the GPU controls keep the promise of      *)
(* SessionAccounting, a lifecycle that says stopped is right, a transition *)
(* to stopped writes the record its receipt attests over one of the same   *)
(* run, the settlement file states what the ledger charges, and a Pod runs *)
(* unwatched only if its start was late.  What the programs read from the  *)
(* lifecycle tells how far the Pod can have come since the baseline of the *)
(* record: Fresh, Waiting, Running or Over.                                *)
(*                                                                         *)
(* PodBootstrap, for any runs of the script: one of them arms a watchdog,  *)
(* and none that looked for artifacts after another had failed.  Two       *)
(* guards make it so.  A run that failed before it claimed the session     *)
(* left its stop request at the path every later run looks at; one that    *)
(* failed afterwards left a request only its watchdog reads, but then the  *)
(* session directory is taken, and stays taken.                            *)
(***************************************************************************)
EXTENDS GpuSession, PodBootstrap, TLAPS

ClientSteps == {"idle", "checked", "intent", "patching", "patched", "intended", "post",
                "posting", "polling", "ready"}
AttestSteps == {"idle", "loaded", "quiet", "proved", "receipted", "compared"}
Evident == {"proved", "receipted", "compared"}
Entries == {"none", "estimated", "zero", "billed"}
Records == Record \cup {NoRecord}

Typed == /\ pod \in [status : {"EXITED", "RUNNING", "TERMINATED"}, env : AllSessions, starts : Nat]
         /\ wire \in Sessions \cup {NoSession}
         /\ life \in Record
         /\ ledger \in [AllSessions -> Entries] /\ settlement \in [AllSessions -> Entries]
         /\ client \in [pc : ClientSteps, before : Records, rec : Records]
         /\ client.pc # "idle" => client.rec \in Record
         /\ receipt \in [Closures -> [AllSessions -> Records]]
         /\ attester \in [Closures -> [pc : AttestSteps, snap : Records]]
         /\ ran \subseteq Sessions

(* How far the Pod has come since the baseline of the lifecycle record. *)
Fresh   == /\ pod.status # "RUNNING" /\ wire = NoSession
           /\ pod.starts = life.base /\ life.session \notin ran
Waiting == /\ pod.status # "RUNNING" /\ wire = life.session
           /\ pod.starts = life.base /\ life.session \notin ran
Running == /\ pod.status = "RUNNING" /\ wire = NoSession
           /\ pod.starts > life.base /\ life.session \in ran
Over    == /\ pod.status # "RUNNING" /\ wire = NoSession
           /\ pod.starts > life.base /\ life.session \in ran \cup {First}

Unposted == {"intended", "post"}
Posted == {"posting", "polling", "ready"}
Ahead == {"intent", "patching", "patched"} \cup Unposted \cup Posted
Patched(r) == r.op \in StartOps \cup {"rearm_patched"}

LifeSound ==
  /\ life.op = "stopped" => \/ life.by = "nostart" /\ Fresh
                            \/ life.by = "external" /\ Over
  /\ life.op # "stopped" => /\ Fresh \/ Waiting \/ Running \/ Over
                            /\ life.session \in Sessions
                            /\ Over \/ ledger[life.session] = "estimated"
  /\ life.op \in {"rearm_intent", "rearm_patched"} => Fresh
  /\ Patched(life) \/ client.pc \in Posted => pod.env = life.session
  /\ life.op = "rearmed" => Running \/ Over

(* The client's copy is the lifecycle's, but for an external stop. *)
ClientSound ==
  /\ client.pc # "idle" => client.rec.op = "rearm_intent" /\ client.rec.session \in Sessions
  /\ client.pc = "checked" =>
       /\ life.op = "stopped"
       /\ client.rec.session \notin Used /\ client.rec.history = Used
       /\ ledger[client.rec.session] = "estimated"
  /\ client.pc \in Ahead => /\ life.session = client.rec.session
                            /\ life.history = client.rec.history
                            /\ life.base = client.rec.base
  /\ client.pc \in {"intent", "patching"} => life.op = "rearm_intent"
  /\ client.pc = "patched" => life.op = "rearm_patched"
  /\ client.pc \in Unposted => life.op = "rearm_start_intent" /\ Fresh
  /\ client.pc \in Posted => life.op \in StartOps \/ Over
  /\ client.pc = "ready" => Running \/ Over

(* What a command holds was the lifecycle's, and a receipt proves its end. *)
HoldsRecord(k) ==
  attester[k].pc # "idle" =>
    /\ attester[k].snap \in Record
    /\ attester[k].snap.session \in Used
    /\ attester[k].pc \in {"receipted", "compared"} =>
         receipt[k][attester[k].snap.session] = attester[k].snap

NoStart == attester["nostart"]
(* The record is still there and nobody can start its Pod, or is gone.     *)
NoStartSound ==
  NoStart.pc # "idle" =>
    /\ NoStart.snap.op \in IntentOps
    /\ \/ /\ life = NoStart.snap /\ client.pc = "idle"
          /\ NoStart.pc \in Evident => Fresh
       \/ /\ life.op = "stopped" \/ life.session # NoStart.snap.session
          /\ client.pc # "idle" => client.rec.session # NoStart.snap.session
    /\ NoStart.pc = "compared" => life = NoStart.snap

ExternalStop == attester["external"]
ExternalStopSound ==
  ExternalStop.pc # "idle" =>
    /\ Patched(ExternalStop.snap)
    /\ ExternalStop.snap.session = life.session =>
         /\ ExternalStop.snap.base = life.base
         /\ ExternalStop.pc \in Evident => Over
    /\ ExternalStop.pc = "compared" => /\ life.op # "stopped"
                                       /\ ExternalStop.snap.session = life.session
                                       /\ ExternalStop.snap.history = life.history

ReceiptSound ==
  /\ \A k \in Closures, s \in AllSessions :
       receipt[k][s] # NoRecord => receipt[k][s].session = s /\ s \in Used
  /\ receipt["external"][life.session] # NoRecord => Over
  /\ ran \subseteq Used

AttestSound == /\ \A k \in Closures : HoldsRecord(k)
               /\ NoStartSound /\ ExternalStopSound /\ ReceiptSound

GInv == Typed /\ LifeSound /\ ClientSound /\ AttestSound

-----------------------------------------------------------------------------
(* What each program leaves alone. *)
LEMMA ClientLeaves ==
  ASSUME ClientStep  PROVE UNCHANGED <<ran, ledger, settlement, watch, late, receipt, attester>>
BY DEF ClientStep, Rearm, WriteIntent, PatchEnvironment, WritePatched, WriteStartIntent,
   CheckWatcher, PostStart, WriteStartRequested, Poll, PollReady, PollTimeout, PollFails,
   WriteRearmed, ClientAbandons, Advance, EndRearm, provider, money, watcher, closing

LEMMA WatchLeaves ==
  ASSUME WatchStep \/ RequestStop, ~StopPosted
  PROVE  UNCHANGED <<pod, wire, ran, life, ledger, settlement, client, receipt, attester>>
BY DEF WatchStep, WatchStart, WatchLook, WatchSeesExited, WatchRetries, WatchSeesRunning,
   WatchDeadline, WatchObeysRequest, WatchSeesStopped, WatchSeesTerminated, StopConfirmed,
   WatchKilled, OnlyWatch, RequestStop, provider, money, closing

LEMMA AttestLeaves ==
  ASSUME AttestStep  PROVE UNCHANGED <<pod, wire, ran, ledger, settlement, client, watch, late>>
BY DEF AttestStep, ObserveNoStart, ObserveAgain, ObserveExternalStop, AttestLoad, WriteReceipt,
       CompareLifecycle, ReplaceLifecycle, AttestAbandons, AttestGoto,
       OnlyAttester, provider, money, watcher

LEMMA MoneyLeaves ==
  ASSUME MoneyStep
  PROVE  UNCHANGED <<pod, wire, ran, life, client, watch, late, receipt, attester>>
BY DEF MoneyStep, ReserveLedger, SettleLedger, ReserveReceipt, ReserveCrash, SettleFile,
   SettleCrash, provider, watcher, closing

LEMMA ProviderLeaves ==
  ASSUME StartTakesEffect \/ StartLost \/ PodTerminated \/ StopPosted
  PROVE  UNCHANGED <<life, ledger, settlement, client, watch, late, receipt, attester>>
BY DEF StartTakesEffect, StartLost, PodTerminated, StopPosted, money, watcher, closing

-----------------------------------------------------------------------------
LEMMA InitSound == Init => GInv
<1> SUFFICES ASSUME Init  PROVE GInv
  OBVIOUS
<1>1. Typed
  BY SessionsAssumption
     DEF Init, Typed, FirstRecord, Record, Records, Idle, Unsnapped, AllSessions, Entries,
         ClientSteps, AttestSteps, Closures, TransitionOps, StartOps
<1>2. LifeSound /\ ClientSound
  BY SessionsAssumption DEF Init, FirstRecord, LifeSound, ClientSound, Over, Patched, StartOps,
     FailedOps, Idle, Ahead, Posted, Unposted
<1>3. AttestSound
  BY SessionsAssumption DEF Init, AttestSound, HoldsRecord, NoStartSound, NoStart, Evident,
     ExternalStopSound, ExternalStop, ReceiptSound, Unsnapped, Closures, AllSessions, FirstRecord
<1> QED
  BY <1>1, <1>2, <1>3 DEF GInv

(* Steps of the watcher and of the two ledger scripts. *)
LEMMA Elsewhere ==
  ASSUME GInv, UNCHANGED <<pod, wire, ran, life, client, receipt, attester>>,
         ledger' \in [AllSessions -> Entries], settlement' \in [AllSessions -> Entries],
         \A s \in Sessions : ledger[s] = "estimated" =>
            ledger'[s] = "estimated" \/ (life.op = "stopped" /\ s = life.session)
  PROVE  GInv'
<1>1. Typed'
  BY DEF GInv, Typed
<1>2. LifeSound'
  BY DEF GInv, LifeSound, Fresh, Waiting, Running, Over
<1>3. ClientSound'
  BY DEF GInv, ClientSound, Fresh, Running, Over, Used
<1>4. AttestSound'
  BY DEF GInv, AttestSound, HoldsRecord, NoStartSound, NoStart, Evident, ExternalStopSound,
     ExternalStop, ReceiptSound, Fresh, Over, Used
<1> QED
  BY <1>1, <1>2, <1>3, <1>4 DEF GInv

LEMMA MoneyKeeps == ASSUME GInv, MoneyStep  PROVE GInv'
<1>1. UNCHANGED <<pod, wire, ran, life, client, receipt, attester>>
  BY MoneyLeaves
<1>0. ledger \in [AllSessions -> Entries] /\ settlement \in [AllSessions -> Entries]
  BY DEF GInv, Typed
<1>2. CASE UNCHANGED <<ledger, settlement>>
  BY <1>0, <1>1, <1>2, Elsewhere
<1>3. CASE SettleFile
  <2>1. settlement' \in [AllSessions -> Entries] /\ ledger' = ledger
    BY <1>3 DEF SettleFile, GInv, Typed, Entries
  <2> QED
    BY <1>0, <1>1, <2>1, Elsewhere
<1>4. ASSUME NEW s \in Sessions, ReserveLedger(s)  PROVE GInv'
  <2>1. /\ ledger' = [ledger EXCEPT ![s] = "estimated"] /\ settlement' = settlement
        /\ ledger \in [AllSessions -> Entries] /\ settlement \in [AllSessions -> Entries]
    BY <1>4 DEF ReserveLedger, GInv, Typed
  <2>2. ledger' \in [AllSessions -> Entries]
    BY <2>1 DEF Entries
  <2> QED
    BY <1>1, <2>1, <2>2, Elsewhere DEF AllSessions
<1>5. ASSUME NEW s \in Sessions, NEW k \in Closures, SettleLedger(s, k)  PROVE GInv'
  <2>1. /\ ledger' = [ledger EXCEPT ![s] = Amount(k)] /\ settlement' = settlement
        /\ ledger \in [AllSessions -> Entries] /\ settlement \in [AllSessions -> Entries]
        /\ life = StoppedRecord(receipt[k][s], k) /\ receipt[k][s] # NoRecord
    BY <1>5 DEF SettleLedger, GInv, Typed
  <2>2. ledger' \in [AllSessions -> Entries]
    BY <2>1 DEF Entries, Amount
  <2>3. receipt[k][s] \in Record /\ receipt[k][s].session = s
    BY <2>1 DEF GInv, Typed, Records, AttestSound, ReceiptSound, AllSessions
  <2>4. life.op = "stopped" /\ life.session = s
    BY <2>1, <2>3 DEF StoppedRecord, Record
  <2> QED
    BY <1>1, <2>1, <2>2, <2>4, Elsewhere DEF AllSessions
<1> QED
  BY <1>2, <1>3, <1>4, <1>5 DEF MoneyStep, ReserveReceipt, ReserveCrash, SettleCrash

LEMMA WatchKeeps == ASSUME GInv, WatchStep \/ RequestStop, ~StopPosted  PROVE GInv'
<1>1. ledger \in [AllSessions -> Entries] /\ settlement \in [AllSessions -> Entries]
  BY DEF GInv, Typed
<1> QED
  BY <1>1, WatchLeaves, Elsewhere

(* What the stage of the run decides of the other parts. *)
LEMMA ProviderKeeps ==
  ASSUME GInv, UNCHANGED <<life, money, client, closing>>, Typed',
         pod'.env = pod.env,
         (pod.status # "RUNNING" /\ wire = NoSession)
           => (pod'.status # "RUNNING" /\ UNCHANGED <<wire, ran>>),
         Fresh => Fresh', Over => Over', Running => Running' \/ Over',
         Waiting => Waiting' \/ Fresh' \/ Running',
         ran' \subseteq ran \cup {life.session}
  PROVE  GInv'
<1>1. LifeSound'
  BY DEF GInv, LifeSound, money, Patched
<1>2. ClientSound'
  BY DEF GInv, ClientSound, money, Used
<1>3. AttestSound'
  BY DEF GInv, AttestSound, HoldsRecord, NoStartSound, NoStart, Evident, ExternalStopSound,
     ExternalStop, ReceiptSound, Used, closing, Patched
<1> QED
  BY <1>1, <1>2, <1>3 DEF GInv

LEMMA PodKeeps ==
  ASSUME GInv, StartTakesEffect \/ StartLost \/ PodTerminated \/ StopPosted
  PROVE  GInv'
<1> USE DEF Fresh, Waiting, Running, Over
<1>0. life.base \in Nat /\ pod.starts \in Nat
  BY DEF GInv, Typed, Record
<1>1. wire # NoSession => Waiting
  BY DEF GInv, LifeSound
<1>2. UNCHANGED <<life, money, client, closing>>
  BY DEF StartTakesEffect, StartLost, PodTerminated, StopPosted
<1>3. CASE StartTakesEffect
  <2>1. wire # NoSession /\ wire' = NoSession /\ life.op # "stopped"
    BY <1>3 DEF StartTakesEffect, GInv, LifeSound
  <2>2. CASE pod.status = "EXITED"
    <3>1. /\ pod' = [pod EXCEPT !.status = "RUNNING", !.starts = @ + 1]
          /\ ran' = ran \cup {pod.env}
      BY <1>3, <2>2 DEF StartTakesEffect
    <3>2. pod.env = life.session /\ life.session \in Sessions
      BY <1>1, <2>1 DEF GInv, LifeSound, Patched, IntentOps, StartOps, FailedOps, TransitionOps,
         Typed, Record
    <3>3. Typed'
      <4>1. pod' \in [status : {"EXITED", "RUNNING", "TERMINATED"}, env : AllSessions, starts : Nat]
        <5>1. /\ pod \in [status : {"EXITED", "RUNNING", "TERMINATED"}, env : AllSessions, starts : Nat]
              /\ pod.starts + 1 \in Nat
          BY <1>0 DEF GInv, Typed
        <5>2. pod' = [status |-> "RUNNING", env |-> pod.env, starts |-> pod.starts + 1]
          BY <3>1, <5>1
        <5> QED
          BY <5>1, <5>2
      <4>2. UNCHANGED <<life, ledger, settlement, client, receipt, attester>>
        BY <1>2 DEF money, closing
      <4>3. wire' = NoSession /\ ran' \subseteq Sessions
        BY <2>1, <3>1, <3>2 DEF GInv, Typed
      <4> QED
        BY <4>1, <4>2, <4>3 DEF GInv, Typed
    <3>4. pod'.status = "RUNNING" /\ pod'.starts = pod.starts + 1 /\ pod'.env = pod.env
      BY <3>1 DEF GInv, Typed
    <3>5. ran' = ran \cup {life.session} /\ life' = life /\ Waiting
      BY <1>1, <1>2, <2>1, <3>1, <3>2
    <3>6. Running' /\ ~Fresh /\ ~Over /\ ~Running
      BY <1>0, <2>1, <3>4, <3>5
    <3> QED
      BY <1>2, <2>1, <3>3, <3>4, <3>5, <3>6, ProviderKeeps
  <2>3. CASE pod.status # "EXITED"
    <3>1. UNCHANGED <<pod, ran>>
      BY <1>3, <2>3 DEF StartTakesEffect
    <3>2. Typed'
      BY <1>2, <2>1, <3>1 DEF GInv, Typed, money, closing
    <3> QED
      BY <1>1, <1>2, <2>1, <3>1, <3>2, ProviderKeeps
  <2> QED
    BY <2>2, <2>3
<1>4. CASE StartLost
  <2>1. wire' = NoSession /\ UNCHANGED <<pod, ran>> /\ wire # NoSession
    BY <1>4 DEF StartLost
  <2>2. Typed'
    BY <1>2, <2>1 DEF GInv, Typed, money, closing
  <2> QED
    BY <1>1, <1>2, <2>1, <2>2, ProviderKeeps
<1>5. CASE PodTerminated \/ StopPosted
  <2>1. PICK st \in {"EXITED", "TERMINATED"} : pod' = [pod EXCEPT !.status = st]
    BY <1>5 DEF PodTerminated, StopPosted
  <2>2. UNCHANGED <<wire, ran>> /\ (Waiting => pod.status # "RUNNING" )
    BY <1>5 DEF PodTerminated, StopPosted
  <2>3. pod'.status = st /\ pod'.starts = pod.starts /\ pod'.env = pod.env
    BY <2>1 DEF GInv, Typed
  <2>4. Typed'
    BY <1>2, <2>1, <2>2 DEF GInv, Typed, money, closing
  <2> QED
    BY <1>1, <1>2, <2>2, <2>3, <2>4, ProviderKeeps
<1> QED
  BY <1>3, <1>4, <1>5
-----------------------------------------------------------------------------
(* The client goes on, or ends, over a record of the same run. *)
LEMMA AttestFollows ==
  ASSUME GInv, client.pc \in Ahead,
         client'.pc = "idle" \/ client'.rec = client.rec,
         UNCHANGED <<wire, ran, closing>>, pod'.status = pod.status, pod'.starts = pod.starts,
         life'.session = life.session, life'.base = life.base, life'.history = life.history,
         life' = life \/ life'.op # "stopped"
  PROVE  AttestSound'
<1> USE DEF Fresh, Over, Used, closing
<1>1. client.pc # "idle" /\ life.session = client.rec.session
  BY DEF GInv, ClientSound, Ahead, Unposted, Posted
<1>2. \A k \in Closures : HoldsRecord(k)'
  BY DEF GInv, AttestSound, HoldsRecord
<1>3. NoStartSound'
  BY <1>1 DEF GInv, AttestSound, NoStartSound, NoStart, Evident
<1>4. ExternalStopSound' /\ ReceiptSound'
  BY DEF GInv, AttestSound, ExternalStopSound, ExternalStop, Evident, Patched, ReceiptSound
<1> QED
  BY <1>2, <1>3, <1>4 DEF AttestSound

LEMMA WriteKeeps ==
  ASSUME GInv, NEW op \in StartOps \cup {"rearm_patched"}, client.pc \in Ahead,
         life' = [client.rec EXCEPT !.op = op], pod.env = life.session,
         UNCHANGED <<provider, money, closing>>,
         op = "rearm_patched" => Fresh,
         op = "rearmed" => Running \/ Over,
         NEW pc \in {"patched"} \cup Unposted \cup Posted,
         client' \in {Idle, [client EXCEPT !.pc = pc]},
         pc = "patched" => op = "rearm_patched",
         pc \in Unposted => (op = "rearm_start_intent" /\ Fresh),
         pc \in Posted => op \in StartOps,
         pc = "ready" => Running \/ Over
  PROVE  GInv'
<1> USE DEF Fresh, Waiting, Running, Over, provider, money, closing
<1>1. /\ client.rec \in Record /\ client.pc # "idle"
      /\ life.session = client.rec.session /\ life.history = client.rec.history
      /\ life.base = client.rec.base /\ life.session \in Sessions
      /\ client.rec.op = "rearm_intent"
  BY DEF GInv, Typed, ClientSound, Ahead, Unposted, Posted
<1>2. /\ life' \in Record /\ life'.op = op /\ life'.session = life.session
      /\ life'.base = life.base /\ life'.history = life.history
  BY <1>1 DEF Record, TransitionOps, IntentOps, StartOps, FailedOps
<1>3. \/ client'.pc = "idle" /\ client' = Idle
      \/ /\ client'.pc = pc /\ client'.rec = client.rec
         /\ client' \in [pc : ClientSteps, before : Records, rec : Records]
  BY DEF Idle, GInv, Typed, ClientSteps, Unposted, Posted
<1>4. Typed'
  BY <1>1, <1>2, <1>3 DEF GInv, Typed, Idle, ClientSteps, Records
<1>5. (Fresh \/ Waiting \/ Running \/ Over) /\ (Over \/ ledger[life.session] = "estimated")
  BY DEF GInv, LifeSound, ClientSound, Ahead, Posted, Unposted, StartOps, FailedOps
<1>6. LifeSound'
  BY <1>1, <1>2, <1>5 DEF LifeSound, Patched, StartOps, FailedOps
<1>7. ClientSound'
  BY <1>1, <1>2, <1>3 DEF ClientSound, Ahead, Posted, Unposted, StartOps, FailedOps
<1>8. AttestSound'
  BY <1>2, <1>3, AttestFollows DEF StartOps, FailedOps
<1> QED
  BY <1>4, <1>6, <1>7, <1>8 DEF GInv

(* Steps of the client that write nothing. *)
LEMMA GoesOn ==
  ASSUME GInv, UNCHANGED <<life, wire, ran, money, closing>>, client.pc \in Ahead,
         pod'.status = pod.status, pod'.starts = pod.starts, Typed',
         client'.rec = client.rec, client'.pc \in Ahead,
         \/ pod' = pod
         \/ life.op = "rearm_intent",
         \/ client.pc = "intent" /\ client'.pc = "patching"
         \/ client.pc = "intended" /\ client'.pc = "post"
  PROVE  GInv'
<1> USE DEF Fresh, Waiting, Running, Over
<1>1. LifeSound'
  BY DEF GInv, LifeSound, Patched, StartOps, FailedOps, money, Posted
<1>2. ClientSound'
  BY DEF GInv, ClientSound, Used, Ahead, Posted, Unposted
<1>3. AttestSound'
  BY AttestFollows
<1> QED
  BY <1>1, <1>2, <1>3 DEF GInv

LEMMA RearmKeeps == ASSUME NEW s \in Sessions, GInv, Rearm(s)  PROVE GInv'
<1> USE DEF Fresh, Waiting, Running, Over, provider, money, closing
<1>1. /\ life.op = "stopped" /\ ledger[s] = "estimated" /\ s \notin Used /\ client.pc = "idle"
      /\ client' = [pc |-> "checked", before |-> life, rec |-> Intended(s, life)]
      /\ UNCHANGED <<pod, wire, ran, life, ledger, settlement, attester, receipt>>
  BY DEF Rearm
<1>2. /\ life \in Record /\ Intended(s, life) \in Record
      /\ Intended(s, life).op = "rearm_intent" /\ Intended(s, life).session = s
      /\ Intended(s, life).history = Used
  BY DEF GInv, Typed, Intended, Record, TransitionOps, IntentOps, AllSessions, Used
<1>3. client'.pc = "checked" /\ client'.rec = Intended(s, life)
  BY <1>1
<1>4. Typed'
  BY <1>1, <1>2 DEF GInv, Typed, ClientSteps, Records
<1>5. LifeSound'
  BY <1>1, <1>3 DEF GInv, LifeSound, Patched, Posted
<1>6. ClientSound'
  BY <1>1, <1>2, <1>3 DEF ClientSound, Ahead, Posted, Unposted, Used
<1>7. AttestSound'
  <2>1. \A k \in Closures : HoldsRecord(k)'
    BY <1>1 DEF GInv, AttestSound, HoldsRecord, Used
  <2>2. NoStartSound'
    BY <1>1, <1>2, <1>3 DEF GInv, AttestSound, HoldsRecord, NoStartSound, NoStart, Evident, Used,
       Closures, IntentOps
  <2>3. ExternalStopSound' /\ ReceiptSound'
    BY <1>1 DEF GInv, AttestSound, ExternalStopSound, ExternalStop, Evident, Patched, ReceiptSound,
       Used
  <2> QED
    BY <2>1, <2>2, <2>3 DEF AttestSound
<1> QED
  BY <1>4, <1>5, <1>6, <1>7 DEF GInv

(* The baseline is taken while nothing can start the Pod. *)
LEMMA WriteIntentKeeps == ASSUME GInv, WriteIntent  PROVE GInv'
<1> USE DEF Fresh, Waiting, Running, Over, provider, money, closing
<1> DEFINE baseline == [client.rec EXCEPT !.base = pod.starts]
<1>1. /\ client.pc = "checked" /\ pod.status = "EXITED" /\ life' = baseline
      /\ client' = [client EXCEPT !.pc = "intent", !.rec = baseline]
      /\ UNCHANGED <<pod, wire, ran, ledger, settlement, attester, receipt>>
  BY DEF WriteIntent
<1>2. /\ client.rec \in Record /\ client.rec.op = "rearm_intent" /\ client.rec.session \in Sessions
      /\ client.rec.session \notin Used /\ client.rec.history = Used /\ life.op = "stopped"
      /\ ledger[client.rec.session] = "estimated"
  BY <1>1 DEF GInv, Typed, ClientSound
<1>3. /\ baseline \in Record /\ baseline.op = "rearm_intent" /\ baseline.session = client.rec.session
      /\ baseline.history = Used /\ baseline.base = pod.starts
  BY <1>2 DEF Record, GInv, Typed
<1>4. /\ client'.pc = "intent" /\ client'.rec = baseline
      /\ client' \in [pc : ClientSteps, before : Records, rec : Records]
  BY <1>1, <1>3 DEF GInv, Typed, ClientSteps, Records
<1>5. wire = NoSession /\ client.rec.session \notin ran
  BY <1>2 DEF GInv, LifeSound, AttestSound, ReceiptSound
<1> HIDE DEF baseline
<1>6. Typed'
  BY <1>1, <1>3, <1>4 DEF GInv, Typed
<1>7. LifeSound'
  BY <1>1, <1>2, <1>3, <1>4, <1>5 DEF LifeSound, Patched, StartOps, FailedOps, Posted
<1>8. ClientSound'
  BY <1>1, <1>2, <1>3, <1>4, <1>5 DEF ClientSound, Ahead, Posted, Unposted
<1>9. AttestSound'
  <2>1. Used \subseteq Used' /\ life'.session \notin Used
    BY <1>1, <1>2, <1>3 DEF Used
  <2>2. \A k \in Closures : HoldsRecord(k)'
    BY <1>1, <2>1 DEF GInv, AttestSound, HoldsRecord
  <2>3. NoStartSound'
    BY <1>1, <1>2, <1>3, <1>4, <2>1 DEF GInv, AttestSound, HoldsRecord, NoStartSound, NoStart,
       Evident, Closures, IntentOps
  <2>4. ExternalStopSound' /\ ReceiptSound'
    BY <1>1, <2>1, <1>2, <1>3 DEF GInv, AttestSound, HoldsRecord, ExternalStopSound, ExternalStop,
       Evident, Patched, ReceiptSound, Closures, AllSessions
  <2> QED
    BY <2>2, <2>3, <2>4 DEF AttestSound
<1> QED
  BY <1>6, <1>7, <1>8, <1>9 DEF GInv

LEMMA ClientKeeps == ASSUME GInv, ClientStep  PROVE GInv'
<1> USE DEF provider, money, closing
<1>1. CASE \E s \in Sessions : Rearm(s)
  BY <1>1, RearmKeeps
<1>2. CASE WriteIntent
  BY <1>2, WriteIntentKeeps
<1>3. CASE PatchEnvironment
  <2>1. /\ client.pc = "intent" /\ client' = [client EXCEPT !.pc = "patching"]
        /\ pod' = [pod EXCEPT !.env = client.rec.session]
        /\ UNCHANGED <<life, wire, ran, money, closing>>
    BY <1>3 DEF PatchEnvironment, ClientGoto
  <2>2. client.rec.session \in AllSessions /\ life.op = "rearm_intent"
    BY <2>1 DEF GInv, ClientSound, AllSessions
  <2>3. /\ client'.pc = "patching" /\ client'.rec = client.rec
        /\ pod'.status = pod.status /\ pod'.starts = pod.starts
    BY <2>1 DEF GInv, Typed
  <2>4. Typed'
    BY <2>1, <2>2 DEF GInv, Typed, ClientSteps
  <2> QED
    BY <2>1, <2>2, <2>3, <2>4, GoesOn DEF Ahead
<1>4. CASE CheckWatcher
  <2>1. /\ client.pc = "intended" /\ client' = [client EXCEPT !.pc = "post"]
        /\ UNCHANGED <<pod, life, wire, ran, money, closing>>
    BY <1>4 DEF CheckWatcher, ClientGoto
  <2>2. client'.pc = "post" /\ client'.rec = client.rec
    BY <2>1 DEF GInv, Typed
  <2>3. Typed'
    BY <2>1 DEF GInv, Typed, ClientSteps
  <2> QED
    BY <2>1, <2>2, <2>3, GoesOn DEF Ahead, Unposted
<1>5. CASE WritePatched
  <2>1. /\ client.pc = "patching" /\ pod.env = client.rec.session
        /\ life' = [client.rec EXCEPT !.op = "rearm_patched"]
        /\ client' = [client EXCEPT !.pc = "patched"]
        /\ UNCHANGED <<provider, money, closing>>
    BY <1>5 DEF WritePatched, Advance, Replace, ClientGoto
  <2>2. life.session = client.rec.session /\ Fresh
    BY <2>1 DEF GInv, ClientSound, LifeSound, Ahead
  <2> QED
    BY <2>1, <2>2, WriteKeeps DEF Ahead, Unposted, Posted
<1>6. CASE WriteStartIntent
  <2>1. /\ client.pc = "patched"
        /\ life' = [client.rec EXCEPT !.op = "rearm_start_intent"]
        /\ client' = [client EXCEPT !.pc = "intended"]
        /\ UNCHANGED <<provider, money, closing>>
    BY <1>6 DEF WriteStartIntent, Advance, Replace, ClientGoto
  <2>2. pod.env = life.session /\ Fresh
    BY <2>1 DEF GInv, ClientSound, LifeSound, Patched
  <2> QED
    BY <2>1, <2>2, WriteKeeps DEF Ahead, Unposted, Posted, StartOps
<1>7. CASE WriteStartRequested \/ Poll \/ PollReady \/ PollTimeout \/ PollFails \/ WriteRearmed
  <2>1. client.pc \in Posted /\ pod.env = life.session
    BY <1>7 DEF WriteStartRequested, Poll, PollReady, PollTimeout, PollFails, WriteRearmed, Advance,
                EndRearm, Posted, GInv, LifeSound
  <2>2. CASE WriteStartRequested
    <3>1. /\ life' = [client.rec EXCEPT !.op = "rearm_start_requested"]
          /\ client' = [client EXCEPT !.pc = "polling"]
          /\ UNCHANGED <<provider, money, closing>>
      BY <2>2 DEF WriteStartRequested, Advance, Replace, ClientGoto
    <3> QED
      BY <2>1, <3>1, WriteKeeps DEF Ahead, Unposted, Posted, StartOps
  <2>3. CASE Poll
    <3>1. /\ life' = [client.rec EXCEPT !.op = "rearm_start_pending"]
          /\ client' = [client EXCEPT !.pc = "polling"]
          /\ UNCHANGED <<provider, money, closing>>
      BY <2>3 DEF Poll, Advance, Replace, ClientGoto
    <3> QED
      BY <2>1, <3>1, WriteKeeps DEF Ahead, Unposted, Posted, StartOps
  <2>4. CASE PollReady
    <3>1. /\ life' = [client.rec EXCEPT !.op = "rearm_start_pending"]
          /\ client' = [client EXCEPT !.pc = "ready"]
          /\ UNCHANGED <<provider, money, closing>> /\ pod.status = "RUNNING"
      BY <2>4 DEF PollReady, Advance, Replace, ClientGoto
    <3>2. Running
      BY <2>1, <3>1 DEF GInv, ClientSound, LifeSound, Fresh, Waiting, Over, StartOps, FailedOps
    <3> QED
      BY <2>1, <3>1, <3>2, WriteKeeps DEF Ahead, Unposted, Posted, StartOps
  <2>5. CASE PollTimeout \/ PollFails \/ WriteRearmed
    <3>1. PICK op \in {"rearm_timeout", "rearm_verification_failed", "rearm_failed_terminal", "rearmed"} :
            /\ life' = [client.rec EXCEPT !.op = op] /\ client' = Idle
            /\ UNCHANGED <<provider, money, closing>>
            /\ op = "rearmed" => client.pc = "ready"
      BY <2>5 DEF PollTimeout, PollFails, WriteRearmed, EndRearm, Replace
    <3>2. op = "rearmed" => Running \/ Over
      BY <3>1 DEF GInv, ClientSound
    <3>3. op \in StartOps /\ "polling" \in Posted /\ client.pc \in Ahead
      BY <2>1, <3>1 DEF StartOps, FailedOps, Posted, Ahead
    <3> QED
      BY <2>1, <3>1, <3>2, <3>3, WriteKeeps DEF Unposted, Posted
  <2> QED
    BY <1>7, <2>2, <2>3, <2>4, <2>5
<1>8. CASE PostStart
  <2> USE DEF Fresh, Waiting, Running, Over
  <2>1. /\ client.pc = "post" /\ wire' = client.rec.session
        /\ client' = [client EXCEPT !.pc = "posting"]
        /\ UNCHANGED <<pod, ran, life, ledger, settlement, attester, receipt>>
    BY <1>8 DEF PostStart, ClientGoto
  <2>2. /\ client.rec.session = life.session /\ life.session \in Sessions /\ Fresh
        /\ life.op = "rearm_start_intent" /\ life.base \in Nat /\ pod.env = life.session
    BY <2>1 DEF GInv, ClientSound, LifeSound, Unposted, Ahead, Typed, Record, Patched, StartOps
  <2>3. client'.pc = "posting" /\ client'.rec = client.rec
    BY <2>1 DEF GInv, Typed
  <2>4. Typed'
    BY <2>1, <2>2 DEF GInv, Typed, ClientSteps
  <2>5. Waiting' /\ ~Over
    BY <2>1, <2>2
  <2>6. LifeSound'
    BY <2>1, <2>2, <2>3, <2>5 DEF GInv, LifeSound, Patched
  <2>7. ClientSound'
    BY <2>1, <2>2, <2>3 DEF GInv, ClientSound, Used, Ahead, Posted, Unposted, StartOps
  <2>8. AttestSound'
    BY <2>1, <2>2, <2>3, <2>5 DEF GInv, AttestSound, HoldsRecord, NoStartSound, NoStart, Evident,
       ExternalStopSound, ExternalStop, ReceiptSound, Used, Patched
  <2> QED
    BY <2>4, <2>6, <2>7, <2>8 DEF GInv
<1>9. CASE ClientAbandons
  <2> USE DEF Fresh, Waiting, Running, Over
  <2>1. /\ client' = Idle /\ client'.pc = "idle" /\ client.pc # "idle"
        /\ UNCHANGED <<pod, wire, ran, life, ledger, settlement, attester, receipt>>
    BY <1>9 DEF ClientAbandons, Idle
  <2>2. Typed'
    BY <2>1 DEF GInv, Typed, ClientSteps, Idle, Records
  <2>3. LifeSound'
    BY <2>1 DEF GInv, LifeSound, Patched, Posted
  <2>4. ClientSound'
    BY <2>1 DEF ClientSound, Ahead, Posted, Unposted
  <2>5. AttestSound'
    BY <2>1 DEF GInv, AttestSound, HoldsRecord, NoStartSound, NoStart, Evident, ExternalStopSound,
       ExternalStop, ReceiptSound, Used, Patched
  <2> QED
    BY <2>2, <2>3, <2>4, <2>5 DEF GInv
<1> QED
  BY <1>1, <1>2, <1>3, <1>4, <1>5, <1>6, <1>7, <1>8, <1>9 DEF ClientStep

-----------------------------------------------------------------------------
(* An attestation command goes on, or ends, and writes no lifecycle. *)
LEMMA AttestWalks ==
  ASSUME GInv, UNCHANGED <<provider, life, money, client>>,
         Typed', \A k \in Closures : HoldsRecord(k)', NoStartSound', ExternalStopSound', ReceiptSound'
  PROVE  GInv'
<1> USE DEF provider, money, Fresh, Waiting, Running, Over
<1>1. LifeSound' /\ ClientSound'
  BY DEF GInv, LifeSound, ClientSound, Used, Patched
<1> QED
  BY <1>1 DEF GInv, AttestSound

(* What a command that compared replaces is still the record of its run.   *)
LEMMA ReplacesSameRun ==
  ASSUME GInv, NEW k \in Closures, attester[k].pc = "compared",
         life' = StoppedRecord(attester[k].snap, k)
  PROVE  /\ life' \in Record /\ life'.op = "stopped" /\ life'.by = k
         /\ life'.session = life.session /\ life'.base = life.base /\ life'.history = life.history
         /\ life.op # "stopped"
         /\ receipt[k][life.session] = attester[k].snap
<1> DEFINE snap == attester[k].snap
<1>1. snap \in Record /\ receipt[k][snap.session] = snap
  BY DEF GInv, AttestSound, HoldsRecord
<1>2. snap.op \in TransitionOps
  BY DEF GInv, AttestSound, NoStartSound, NoStart, ExternalStopSound, ExternalStop, Patched,
     Closures, TransitionOps, IntentOps
<1>3. /\ snap.session = life.session /\ snap.base = life.base /\ snap.history = life.history
      /\ life.op # "stopped"
  BY DEF GInv, AttestSound, NoStartSound, NoStart, ExternalStopSound, ExternalStop, Evident,
     Closures, IntentOps
<1> HIDE DEF snap
<1>4. life' = [snap EXCEPT !.op = "stopped", !.by = k, !.of = snap.op]
  BY DEF StoppedRecord, snap
<1>5. /\ life' \in Record /\ life'.op = "stopped" /\ life'.by = k /\ life'.session = snap.session
      /\ life'.base = snap.base /\ life'.history = snap.history
  BY <1>1, <1>2, <1>4 DEF Record
<1> QED
  BY <1>1, <1>3, <1>5 DEF snap

LEMMA AttestKeeps == ASSUME PromptProvider, GInv, AttestStep  PROVE GInv'
<1> USE DEF provider, money, Fresh, Waiting, Running, Over
<1>0. /\ "nostart" \in Closures /\ "external" \in Closures /\ "nostart" # "external"
      /\ life \in Record /\ life # NoRecord /\ life.session \in AllSessions
      /\ life.base \in Nat /\ pod.starts \in Nat
  BY RecordAssumption DEF Closures, GInv, Typed, Record
<1>1. CASE ObserveNoStart \/ ObserveAgain
  <2>1. PICK l \in {"quiet", "proved"} :
          /\ attester' = [attester EXCEPT !["nostart"].pc = l]
          /\ UNCHANGED <<provider, life, money, client, watcher, receipt>>
    BY <1>1 DEF ObserveNoStart, ObserveAgain, AttestGoto, OnlyAttester
  <2>2. NoStart.pc \in {"loaded", "quiet"} /\ NeverStarted(NoStart.snap)
    BY <1>1 DEF ObserveNoStart, ObserveAgain, NoStart
  <2>3. /\ attester'["nostart"].pc = l /\ attester'["nostart"].snap = NoStart.snap
        /\ attester'["external"] = attester["external"]
    BY <2>1 DEF GInv, Typed, Closures, NoStart
  <2>4. (l = "proved" /\ life = NoStart.snap) => Fresh
    <3> SUFFICES ASSUME l = "proved", life = NoStart.snap  PROVE Fresh
      OBVIOUS
    <3>1. pod.status = "EXITED" /\ pod.starts = life.base /\ life.op \in IntentOps
      BY <2>2 DEF NeverStarted, GInv, AttestSound, NoStartSound
    <3>2. CASE ObserveAgain
      BY <1>0, <3>1, <3>2 DEF ObserveAgain, StartPending, GInv, LifeSound, IntentOps
    <3>3. CASE ObserveNoStart
      <4>1. NoStart.snap.op # "rearm_start_intent"
        BY <2>1, <2>2, <2>3, <3>3 DEF ObserveNoStart, AttestGoto, NoStart, GInv, Typed, Closures
      <4> QED
        BY <3>1, <4>1 DEF GInv, LifeSound, IntentOps
    <3> QED
      BY <1>1, <3>2, <3>3
  <2>5. Typed'
    BY <2>1 DEF GInv, Typed, AttestSteps
  <2>6. \A k \in Closures : HoldsRecord(k)'
    BY <2>1, <2>2, <2>3 DEF GInv, AttestSound, HoldsRecord, NoStart, Used, Closures
  <2>7. NoStartSound'
    BY <2>1, <2>2, <2>3, <2>4 DEF GInv, AttestSound, NoStartSound, NoStart, Evident
  <2>8. ExternalStopSound' /\ ReceiptSound'
    BY <2>1, <2>3 DEF GInv, AttestSound, ExternalStopSound, ExternalStop, Evident, ReceiptSound,
       Used, Patched
  <2> QED
    BY <2>1, <2>5, <2>6, <2>7, <2>8, AttestWalks
<1>2. CASE ObserveExternalStop
  <2>1. /\ attester' = [attester EXCEPT !["external"].pc = "proved"]
        /\ UNCHANGED <<provider, life, money, client, watcher, receipt>>
        /\ ExternalStop.pc = "loaded" /\ RanAndStopped(ExternalStop.snap)
    BY <1>2 DEF ObserveExternalStop, AttestGoto, OnlyAttester, ExternalStop
  <2>2. /\ attester'["external"].pc = "proved" /\ attester'["external"].snap = ExternalStop.snap
        /\ attester'["nostart"] = attester["nostart"]
    BY <2>1 DEF GInv, Typed, Closures, ExternalStop
  <2>3. ExternalStop.snap.session = life.session => Over
    BY <1>0, <2>1 DEF RanAndStopped, GInv, LifeSound, AttestSound, ExternalStopSound
  <2>4. Typed'
    BY <2>1 DEF GInv, Typed, AttestSteps
  <2>5. \A k \in Closures : HoldsRecord(k)'
    BY <2>1, <2>2 DEF GInv, AttestSound, HoldsRecord, ExternalStop, Used, Closures
  <2>6. ExternalStopSound'
    BY <2>1, <2>2, <2>3 DEF GInv, AttestSound, ExternalStopSound, ExternalStop, Evident, Patched
  <2>7. NoStartSound' /\ ReceiptSound'
    BY <2>1, <2>2 DEF GInv, AttestSound, NoStartSound, NoStart, Evident, ReceiptSound, Used
  <2> QED
    BY <2>1, <2>4, <2>5, <2>6, <2>7, AttestWalks
<1>3. ASSUME NEW k \in Closures, AttestLoad(k)  PROVE GInv'
  <2>1. PICK l \in {"loaded", "receipted"} :
          /\ attester' = [attester EXCEPT ![k] = [pc |-> l, snap |-> life]]
          /\ l = "receipted" => k = "external" /\ receipt[k][life.session] = life
          /\ UNCHANGED <<provider, life, money, client, watcher, receipt>>
    BY <1>3 DEF AttestLoad, OnlyAttester
  <2>2. (k = "nostart" => client.pc = "idle") /\ life.op \in Eligible(k)
    BY <1>3 DEF AttestLoad
  <2>3. /\ attester'[k].pc = l /\ attester'[k].snap = life
        /\ \A j \in Closures \ {k} : attester'[j] = attester[j]
    BY <2>1 DEF GInv, Typed
  <2>4. Typed'
    BY <1>0, <2>1 DEF GInv, Typed, AttestSteps, Records
  <2>5. \A j \in Closures : HoldsRecord(j)'
    BY <1>0, <2>1, <2>3 DEF GInv, AttestSound, HoldsRecord, Used
  <2>6. NoStartSound'
    BY <1>0, <2>1, <2>2, <2>3 DEF GInv, AttestSound, NoStartSound, NoStart, Evident, Eligible
  <2>7. l = "receipted" => Over
    BY <1>0, <2>1 DEF GInv, AttestSound, ReceiptSound
  <2>8. ExternalStopSound'
    BY <1>0, <2>1, <2>2, <2>3, <2>7 DEF GInv, AttestSound, ExternalStopSound, ExternalStop,
       Evident, Patched, Eligible, Closures
  <2>9. ReceiptSound'
    BY <2>1 DEF GInv, AttestSound, ReceiptSound, Used
  <2> QED
    BY <2>1, <2>4, <2>5, <2>6, <2>8, <2>9, AttestWalks
<1>4. ASSUME NEW k \in Closures, AttestAbandons(k)  PROVE GInv'
  <2>1. /\ attester' = [attester EXCEPT ![k] = Unsnapped]
        /\ UNCHANGED <<provider, life, money, client, watcher, receipt>>
    BY <1>4 DEF AttestAbandons, OnlyAttester
  <2>2. \A j \in Closures : attester'[j].pc = "idle" \/ attester'[j] = attester[j]
    BY <2>1 DEF GInv, Typed, Unsnapped
  <2>3. Typed'
    BY <2>1 DEF GInv, Typed, AttestSteps, Records, Unsnapped
  <2>4. \A j \in Closures : HoldsRecord(j)'
    BY <2>1, <2>2 DEF GInv, AttestSound, HoldsRecord, Used
  <2>5. NoStartSound' /\ ExternalStopSound' /\ ReceiptSound'
    BY <1>0, <2>1, <2>2 DEF GInv, AttestSound, NoStartSound, NoStart, Evident, ExternalStopSound,
       ExternalStop, Patched, ReceiptSound, Used
  <2> QED
    BY <2>1, <2>3, <2>4, <2>5, AttestWalks
<1>5. ASSUME NEW k \in Closures, WriteReceipt(k)  PROVE GInv'
  <2> DEFINE snap == attester[k].snap
  <2>1. /\ attester[k].pc = "proved" /\ receipt[k][snap.session] \in {NoRecord, snap}
        /\ receipt' = [receipt EXCEPT ![k][snap.session] = snap]
        /\ attester' = [attester EXCEPT ![k].pc = "receipted"]
        /\ UNCHANGED <<provider, life, money, client, watcher>>
    BY <1>5 DEF WriteReceipt, AttestGoto, OnlyAttester
  <2>2. snap \in Record /\ snap.session \in AllSessions /\ snap.session \in Used
    BY <2>1 DEF GInv, AttestSound, HoldsRecord, Record
  <2>3. /\ attester'[k].pc = "receipted" /\ attester'[k].snap = snap
        /\ \A j \in Closures \ {k} : attester'[j] = attester[j]
    BY <2>1 DEF GInv, Typed
  <2>4. /\ receipt'[k][snap.session] = snap
        /\ \A j \in Closures, s \in AllSessions :
             receipt'[j][s] = receipt[j][s] \/ (j = k /\ s = snap.session)
    BY <2>1, <2>2 DEF GInv, Typed
  <2>5. Typed'
    BY <2>1, <2>2 DEF GInv, Typed, AttestSteps, Records
  <2> HIDE DEF snap
  <2>6. \A j \in Closures : HoldsRecord(j)'
    BY <2>1, <2>2, <2>3, <2>4 DEF GInv, AttestSound, HoldsRecord, Used, Record, snap
  <2>7. NoStartSound'
    BY <1>0, <2>1, <2>3 DEF GInv, AttestSound, NoStartSound, NoStart, Evident, snap
  <2>8. (k = "external" /\ snap.session = life.session) => Over
    BY <2>1 DEF GInv, AttestSound, ExternalStopSound, ExternalStop, Evident, snap
  <2>9. ExternalStopSound'
    BY <1>0, <2>1, <2>3, <2>8 DEF GInv, AttestSound, ExternalStopSound, ExternalStop, Evident,
       Patched, snap
  <2>10. ReceiptSound'
    BY <1>0, <2>1, <2>2, <2>4, <2>8 DEF GInv, AttestSound, ReceiptSound, Used
  <2> QED
    BY <2>1, <2>5, <2>6, <2>7, <2>9, <2>10, AttestWalks
<1>6. ASSUME NEW k \in Closures, CompareLifecycle(k)  PROVE GInv'
  <2>1. /\ attester[k].pc = "receipted" /\ life = attester[k].snap
        /\ attester' = [attester EXCEPT ![k].pc = "compared"]
        /\ UNCHANGED <<provider, life, money, client, watcher, receipt>>
    BY <1>6 DEF CompareLifecycle, AttestGoto, OnlyAttester
  <2>2. /\ attester'[k].pc = "compared" /\ attester'[k].snap = life
        /\ \A j \in Closures \ {k} : attester'[j] = attester[j]
    BY <2>1 DEF GInv, Typed
  <2>3. Typed'
    BY <2>1 DEF GInv, Typed, AttestSteps
  <2>4. \A j \in Closures : HoldsRecord(j)'
    BY <2>1, <2>2 DEF GInv, AttestSound, HoldsRecord, Used
  <2>5. NoStartSound'
    BY <1>0, <2>1, <2>2 DEF GInv, AttestSound, NoStartSound, NoStart, Evident
  <2>6. life.op # "stopped"
    BY <2>1 DEF GInv, AttestSound, NoStartSound, NoStart, ExternalStopSound, ExternalStop, Patched,
       IntentOps, StartOps, FailedOps, Closures
  <2>7. ExternalStopSound'
    BY <1>0, <2>1, <2>2, <2>6 DEF GInv, AttestSound, ExternalStopSound, ExternalStop, Evident,
       Patched
  <2>8. ReceiptSound'
    BY <2>1 DEF GInv, AttestSound, ReceiptSound, Used
  <2> QED
    BY <2>1, <2>3, <2>4, <2>5, <2>7, <2>8, AttestWalks
<1>7. ASSUME NEW k \in Closures, ReplaceLifecycle(k)  PROVE GInv'
  <2>1. /\ attester[k].pc = "compared"
        /\ life' = StoppedRecord(attester[k].snap, k)
        /\ attester' = [attester EXCEPT ![k] = Unsnapped]
        /\ UNCHANGED <<pod, wire, ran, ledger, settlement, client, receipt>>
    BY <1>7 DEF ReplaceLifecycle
  <2>0. attester[k].snap \in Record
    BY <2>1 DEF GInv, AttestSound, HoldsRecord
  <2>2. /\ life' \in Record /\ life'.op = "stopped" /\ life'.by = k
        /\ life'.session = life.session /\ life'.base = life.base /\ life'.history = life.history
        /\ life.op # "stopped"
    BY <2>1, ReplacesSameRun
  <2>3. /\ k = "nostart" => Fresh /\ client.pc = "idle" /\ life = NoStart.snap
        /\ k = "external" => Over
    BY <1>0, <2>1 DEF GInv, AttestSound, NoStartSound, NoStart, ExternalStopSound, ExternalStop,
       Evident, IntentOps
  <2>12. ~(Fresh /\ Over)
    BY <1>0
  <2>4. \A j \in Closures : attester'[j].pc = "idle" \/ (j # k /\ attester'[j] = attester[j])
    BY <2>1 DEF GInv, Typed, Unsnapped
  <2>11. \A j \in Closures : attester'[j].pc # "compared"
    BY <2>1, <2>3, <2>4, <2>12 DEF GInv, AttestSound, NoStartSound, NoStart, ExternalStopSound,
       ExternalStop, Evident, Closures
  <2>5. Typed'
    BY <2>1, <2>2 DEF GInv, Typed, AttestSteps, Records, Unsnapped
  <2>6. LifeSound'
    BY <2>1, <2>2, <2>3 DEF GInv, LifeSound, Patched, Closures, StartOps, FailedOps
  <2>7. ClientSound'
    BY <1>0, <2>1, <2>2, <2>3 DEF GInv, ClientSound, LifeSound, Used, Ahead, Posted, Unposted,
       Closures
  <2>8. \A j \in Closures : HoldsRecord(j)'
    BY <2>1, <2>2, <2>4 DEF GInv, AttestSound, HoldsRecord, Used
  <2>9. NoStartSound'
    BY <1>0, <2>1, <2>2, <2>3, <2>4, <2>11 DEF GInv, AttestSound, NoStartSound, NoStart, Evident,
       ClientSound, LifeSound, IntentOps, Ahead, Posted, Unposted
  <2>10. ExternalStopSound' /\ ReceiptSound'
    BY <1>0, <2>1, <2>2, <2>4, <2>11 DEF GInv, AttestSound, ExternalStopSound, ExternalStop,
       Evident, ReceiptSound, Used, Patched
  <2> QED
    BY <2>5, <2>6, <2>7, <2>8, <2>9, <2>10 DEF GInv, AttestSound
<1> QED
  BY <1>1, <1>2, <1>3, <1>4, <1>5, <1>6, <1>7 DEF AttestStep
-----------------------------------------------------------------------------
LEMMA StepKeeps == ASSUME PromptProvider, GInv, [Next]_vars  PROVE GInv'
<1>1. CASE UNCHANGED vars
  <2>1. /\ UNCHANGED <<pod, wire, ran, life, client, receipt, attester, ledger, settlement>>
        /\ ledger \in [AllSessions -> Entries] /\ settlement \in [AllSessions -> Entries]
    BY <1>1 DEF vars, provider, money, closing, GInv, Typed
  <2> QED
    BY <2>1, Elsewhere
<1>2. CASE WatchStep \/ RequestStop
  BY <1>2, WatchKeeps, PodKeeps
<1> QED
  BY <1>1, <1>2, MoneyKeeps, PodKeeps, ClientKeeps, AttestKeeps DEF Next

(* The inductive invariant of the GPU session: what the lifecycle record    *)
(* says is how far the Pod can have come, whoever crashed between two       *)
(* writes, if a requested start takes effect within the quiet window.       *)
THEOREM GpuInvariance == ASSUME PromptProvider  PROVE Spec => []GInv
<1>1. ASSUME GInv, [Next]_vars  PROVE GInv'
  BY <1>1, StepKeeps
<1> QED
  BY <1>1, InitSound, PTL DEF Spec

(* A lifecycle that says stopped is right and stays right: no Pod runs and  *)
(* no start is on its way that could contradict it (attest_no_start,        *)
(* attest_external_stop, _replace_state).                                   *)
THEOREM StoppedIsStoppedSafe == ASSUME PromptProvider  PROVE Spec => []StoppedIsStopped
<1>1. GInv => StoppedIsStopped
  BY DEF GInv, LifeSound, StoppedIsStopped, Fresh, Over
<1> QED
  BY <1>1, GpuInvariance, PTL

-----------------------------------------------------------------------------
(* The scripts and processes keep the promise about money, step by step.   *)
Account == [s \in Sessions |-> ledger[s]]
RunningNow == {s \in Sessions : pod.status = "RUNNING" /\ pod.env = s}

LEMMA AbstractNext ==
  ASSUME \/ RunningNow' = {} /\ UNCHANGED <<Account, ran>>
         \/ UNCHANGED <<Account, RunningNow, ran>>
         \/ \E s \in Sessions :
              \/ /\ Account[s] = "none" /\ \A t \in Sessions : Account[t] # "estimated"
                 /\ Account' = [Account EXCEPT ![s] = "estimated"] /\ UNCHANGED <<RunningNow, ran>>
              \/ /\ Account[s] = "estimated" /\ s \notin ran /\ RunningNow = {}
                 /\ RunningNow' = {s} /\ ran' = ran \cup {s} /\ UNCHANGED Account
              \/ /\ Account[s] = "estimated" /\ s \notin ran
                 /\ Account' = [Account EXCEPT ![s] = "zero"] /\ UNCHANGED <<RunningNow, ran>>
              \/ /\ Account[s] = "estimated" /\ s \in ran /\ s \notin RunningNow
                 /\ Account' = [Account EXCEPT ![s] = "billed"] /\ UNCHANGED <<RunningNow, ran>>
  PROVE  [Accounting!Next]_(Accounting!vars)
BY DEF Account, RunningNow, Accounting!Next, Accounting!vars, Accounting!Stop, Accounting!Reserve,
       Accounting!Start, Accounting!CloseUnstarted, Accounting!CloseStopped, Accounting!Open,
       Accounting!Enter

LEMMA MoneyAccounts == ASSUME GInv, MoneyStep  PROVE [Accounting!Next]_(Accounting!vars)
<1>1. UNCHANGED <<pod, wire, ran, life>> /\ UNCHANGED <<RunningNow, ran>>
  BY MoneyLeaves DEF RunningNow
<1>2. ledger \in [AllSessions -> Entries] /\ Sessions \subseteq AllSessions
  BY DEF GInv, Typed, AllSessions
<1>3. CASE UNCHANGED ledger
  BY <1>1, <1>3, AbstractNext DEF Account
<1>4. ASSUME NEW s \in Sessions, NEW e, ledger' = [ledger EXCEPT ![s] = e]
      PROVE  Account' = [Account EXCEPT ![s] = e]
  BY <1>2, <1>4 DEF Account
<1>5. ASSUME NEW s \in Sessions, ReserveLedger(s)  PROVE [Accounting!Next]_(Accounting!vars)
  <2>1. Account[s] = "none" /\ \A t \in Sessions : Account[t] # "estimated"
    BY <1>2, <1>5 DEF ReserveLedger, Account
  <2>2. Account' = [Account EXCEPT ![s] = "estimated"]
    BY <1>4, <1>5 DEF ReserveLedger
  <2> QED
    BY <1>1, <2>1, <2>2, AbstractNext
<1>6. ASSUME NEW s \in Sessions, NEW k \in Closures, SettleLedger(s, k)
      PROVE  [Accounting!Next]_(Accounting!vars)
  <2>1. /\ ledger' = [ledger EXCEPT ![s] = Amount(k)] /\ ledger[s] \in {"estimated", Amount(k)}
        /\ life = StoppedRecord(receipt[k][s], k) /\ receipt[k][s] # NoRecord
    BY <1>6 DEF SettleLedger
  <2>2. receipt[k][s] \in Record /\ receipt[k][s].session = s
    BY <2>1, <1>2 DEF GInv, Typed, Records, AttestSound, ReceiptSound
  <2>3. life.op = "stopped" /\ life.session = s /\ life.by = k
    BY <2>1, <2>2 DEF StoppedRecord, Record
  <2>4. (k = "nostart" => Fresh) /\ (k = "external" => Over)
    BY <2>3 DEF GInv, LifeSound
  <2>5. CASE ledger[s] = Amount(k)
    BY <1>1, <1>2, <2>1, <2>5, <1>3
  <2>6. CASE ledger[s] = "estimated"
    <3>1. Account[s] = "estimated" /\ Account' = [Account EXCEPT ![s] = Amount(k)]
      BY <1>4, <2>1, <2>6 DEF Account
    <3>2. CASE k = "nostart"
      BY <1>1, <2>3, <2>4, <3>1, <3>2, AbstractNext DEF Fresh, Amount
    <3>3. CASE k = "external"
      <4>1. s \in ran /\ s \notin RunningNow
        BY <2>3, <2>4, <3>3, SessionsAssumption DEF Over, RunningNow
      <4> QED
        BY <1>1, <3>1, <3>3, <4>1, AbstractNext DEF Amount
    <3> QED
      BY <3>2, <3>3 DEF Closures
  <2> QED
    BY <2>1, <2>5, <2>6
<1> QED
  BY <1>3, <1>5, <1>6 DEF MoneyStep, ReserveReceipt, ReserveCrash, SettleFile, SettleCrash

LEMMA StepAccounts == ASSUME GInv, [Next]_vars  PROVE [Accounting!Next]_(Accounting!vars)
<1>1. CASE UNCHANGED <<pod, ledger, ran>>
  BY <1>1, AbstractNext DEF Account, RunningNow
<1>2. CASE MoneyStep
  BY <1>2, MoneyAccounts
<1>3. CASE PatchEnvironment
  <2>1. /\ pod' = [pod EXCEPT !.env = client.rec.session] /\ UNCHANGED <<ledger, ran>>
        /\ client.pc = "intent"
    BY <1>3 DEF PatchEnvironment, money
  <2>2. pod.status # "RUNNING" /\ pod'.status # "RUNNING"
    BY <2>1 DEF GInv, Typed, ClientSound, LifeSound, Fresh
  <2> QED
    BY <2>1, <2>2, AbstractNext DEF Account, RunningNow
<1>4. CASE PodTerminated \/ StopPosted
  <2>1. PICK st \in {"EXITED", "TERMINATED"} : pod' = [pod EXCEPT !.status = st]
    BY <1>4 DEF PodTerminated, StopPosted
  <2>2. pod'.status # "RUNNING" /\ UNCHANGED <<ledger, ran>>
    BY <1>4, <2>1 DEF PodTerminated, StopPosted, money, GInv, Typed
  <2> QED
    BY <2>2, AbstractNext DEF Account, RunningNow
<1>5. CASE StartTakesEffect
  <2>1. CASE pod.status # "EXITED"
    BY <1>1, <1>5, <2>1 DEF StartTakesEffect, money
  <2>2. CASE pod.status = "EXITED"
    <3>1. /\ pod' = [pod EXCEPT !.status = "RUNNING", !.starts = @ + 1]
          /\ ran' = ran \cup {pod.env} /\ ledger' = ledger /\ wire # NoSession
      BY <1>5, <2>2 DEF StartTakesEffect, money
    <3>2. pod'.status = "RUNNING" /\ pod'.env = pod.env
      BY <3>1 DEF GInv, Typed
    <3>3. /\ Waiting /\ life.session \in Sessions /\ pod.env = life.session
          /\ ledger[life.session] = "estimated"
      BY <3>1 DEF GInv, LifeSound, Fresh, Waiting, Running, Over, Patched, IntentOps, StartOps,
         FailedOps, TransitionOps, Typed, Record
    <3>4. RunningNow = {} /\ RunningNow' = {life.session} /\ Account' = Account
      BY <2>2, <3>1, <3>2, <3>3 DEF RunningNow, Account
    <3>5. Account[life.session] = "estimated" /\ life.session \notin ran
      BY <3>3 DEF Account, Waiting
    <3> QED
      BY <3>1, <3>3, <3>4, <3>5, AbstractNext
  <2> QED
    BY <2>1, <2>2
<1>6. CASE ClientStep /\ ~PatchEnvironment
  <2>1. pod' = pod
    BY <1>6 DEF ClientStep, Rearm, WriteIntent, WritePatched, WriteStartIntent, CheckWatcher,
       PostStart, WriteStartRequested, Poll, PollReady, PollTimeout, PollFails, WriteRearmed,
       ClientAbandons, Advance, EndRearm, provider
  <2> QED
    BY <1>1, <1>6, <2>1, ClientLeaves
<1>7. CASE (WatchStep \/ RequestStop) /\ ~StopPosted
  BY <1>1, <1>7, WatchLeaves
<1>8. CASE AttestStep
  BY <1>1, <1>8, AttestLeaves
<1>9. CASE StartLost \/ UNCHANGED vars
  BY <1>1, <1>9 DEF StartLost, vars, provider, money
<1> QED
  BY <1>2, <1>3, <1>4, <1>5, <1>6, <1>7, <1>8, <1>9 DEF Next

(* The GPU controls implement the promise about money: no session runs      *)
(* unreserved, twice or beside another, and an estimate is closed at zero   *)
(* only if it never ran and at a cost only when its run is over.            *)
THEOREM GpuImplementsAccounting == ASSUME PromptProvider  PROVE Spec => ImplementsSessionAccounting
<1>1. Init => Accounting!Init
  BY SessionsAssumption DEF Init, Accounting!Init, AllSessions
<1>2. ASSUME GInv, [Next]_vars  PROVE [Accounting!Next]_(Accounting!vars)
  BY <1>2, StepAccounts
<1> QED
  BY <1>1, <1>2, GpuInvariance, PTL DEF Spec, ImplementsSessionAccounting, Accounting!Spec
-----------------------------------------------------------------------------
(* The settlement file, when there is one, states what the ledger charges,  *)
(* though the script may die between its two writes and be run again        *)
(* (gpu_budget_settle.py), whatever the provider does.                      *)
THEOREM SettlementTrueSafe == Spec => []SettlementTrue
<1> DEFINE Files == /\ ledger \in [AllSessions -> Entries] /\ settlement \in [AllSessions -> Entries]
                    /\ SettlementTrue
<1>1. Init => Files
  BY DEF Init, Entries, SettlementTrue
<1>2. ASSUME Files, [Next]_vars  PROVE Files'
  <2>1. CASE UNCHANGED <<ledger, settlement>>
    BY <1>2, <2>1 DEF SettlementTrue
  <2>2. ASSUME NEW s \in Sessions, ReserveLedger(s)  PROVE Files'
    BY <1>2, <2>2 DEF ReserveLedger, SettlementTrue, Entries
  <2>3. ASSUME NEW s \in Sessions, NEW k \in Closures, SettleLedger(s, k)  PROVE Files'
    BY <1>2, <2>3 DEF SettleLedger, SettlementTrue, Entries, Amount
  <2>4. CASE SettleFile
    BY <1>2, <2>4 DEF SettleFile, SettlementTrue, Entries
  <2>5. CASE ClientStep
    BY <2>1, <2>5, ClientLeaves
  <2>6. CASE (WatchStep \/ RequestStop) /\ ~StopPosted
    BY <2>1, <2>6, WatchLeaves
  <2>7. CASE AttestStep
    BY <2>1, <2>7, AttestLeaves
  <2>8. CASE StartTakesEffect \/ StartLost \/ PodTerminated \/ StopPosted \/ UNCHANGED vars
    BY <2>1, <2>8, ProviderLeaves DEF vars, money
  <2>9. CASE ReserveReceipt \/ ReserveCrash \/ SettleCrash
    BY <2>1, <2>9 DEF ReserveReceipt, ReserveCrash, SettleCrash
  <2> QED
    BY <1>2, <2>2, <2>3, <2>4, <2>5, <2>6, <2>7, <2>8, <2>9 DEF Next, MoneyStep
<1>3. Files => SettlementTrue
  OBVIOUS
<1> QED
  BY <1>1, <1>2, <1>3, PTL DEF Spec

-----------------------------------------------------------------------------
(* Only a command that compared writes a stopped record. *)
LEMMA StoppedByReplacing ==
  ASSUME GInv, [Next]_vars, life'.op = "stopped", life' # life
  PROVE  \E k \in Closures : ReplaceLifecycle(k)
<1>1. ~MoneyStep
  BY MoneyLeaves
<1>2. ~WatchStep \/ StopPosted
  BY WatchLeaves
<1>3. ~RequestStop /\ ~StartTakesEffect /\ ~StartLost /\ ~PodTerminated /\ ~StopPosted
  BY DEF RequestStop, StartTakesEffect, StartLost, PodTerminated, StopPosted
<1>4. ~ClientStep
  <2>1. client.pc # "idle" => client.rec \in Record /\ client.rec.op = "rearm_intent"
    BY DEF GInv, Typed, ClientSound
  <2>2. ASSUME NEW op \in TransitionOps, client.pc # "idle"
        PROVE  life' # [client.rec EXCEPT !.op = op]
    BY <2>1, <2>2 DEF Record, TransitionOps, IntentOps, StartOps, FailedOps
  <2>3. ~WriteIntent
    BY <2>1 DEF WriteIntent, Record
  <2>4. /\ ~WritePatched /\ ~WriteStartIntent /\ ~WriteStartRequested /\ ~Poll /\ ~PollReady
        /\ ~PollTimeout /\ ~PollFails /\ ~WriteRearmed
    BY <2>2 DEF WritePatched, WriteStartIntent, WriteStartRequested, Poll, PollReady, PollTimeout,
       PollFails, WriteRearmed, Advance, EndRearm, Replace, TransitionOps, IntentOps, StartOps,
       FailedOps
  <2>5. /\ ~PatchEnvironment /\ ~CheckWatcher /\ ~PostStart /\ ~ClientAbandons
        /\ \A s \in Sessions : ~Rearm(s)
    BY DEF PatchEnvironment, CheckWatcher, PostStart, ClientAbandons, Rearm
  <2> QED
    BY <2>3, <2>4, <2>5 DEF ClientStep
<1>5. AttestStep
  BY <1>1, <1>2, <1>3, <1>4 DEF Next, vars
<1> QED
  BY <1>5 DEF AttestStep, ObserveNoStart, ObserveAgain, ObserveExternalStop, AttestLoad,
     WriteReceipt, CompareLifecycle, AttestAbandons, OnlyAttester

(* Whoever writes to the lifecycle meanwhile, also between the comparison   *)
(* and the replacement, a transition to stopped writes the record its       *)
(* receipt attests over a record of the same run (attest_no_start,          *)
(* attest_external_stop and _atomic_replace_lifecycle).                     *)
THEOREM ClosesWhatWasAttestedSafe == ASSUME PromptProvider  PROVE Spec => ClosesWhatWasAttested
<1>1. ASSUME GInv, [Next]_vars
      PROVE  [life'.op = "stopped" /\ life' # life =>
                LET attested == receipt[life'.by][life.session] IN
                /\ life.op # "stopped"
                /\ life' = StoppedRecord(attested, life'.by)
                /\ attested.base = life.base /\ attested.history = life.history]_vars
  <2> SUFFICES ASSUME life'.op = "stopped", life' # life
               PROVE  LET attested == receipt[life'.by][life.session] IN
                      /\ life.op # "stopped"
                      /\ life' = StoppedRecord(attested, life'.by)
                      /\ attested.base = life.base /\ attested.history = life.history
    OBVIOUS
  <2>1. PICK k \in Closures : ReplaceLifecycle(k)
    BY <1>1, StoppedByReplacing
  <2>2. attester[k].pc = "compared" /\ life' = StoppedRecord(attester[k].snap, k)
    BY <2>1 DEF ReplaceLifecycle
  <2>3. /\ life'.by = k /\ life.op # "stopped" /\ receipt[k][life.session] = attester[k].snap
        /\ life'.base = life.base /\ life'.history = life.history
    BY <1>1, <2>2, ReplacesSameRun
  <2>4. life'.base = attester[k].snap.base /\ life'.history = attester[k].snap.history
    BY <1>1, <2>2 DEF GInv, AttestSound, HoldsRecord, StoppedRecord, Record
  <2> QED
    BY <2>2, <2>3, <2>4
<1> QED
  BY <1>1, GpuInvariance, PTL DEF Spec, ClosesWhatWasAttested
-----------------------------------------------------------------------------
(* While a start may take effect, and while the Pod runs, the watcher it    *)
(* was acknowledged by is at work and bound to the run, unless it was       *)
(* killed or left over the exited Pod.                                      *)
Kept == /\ watch.pc \in {"waiting", "looked", "stopping"}
        /\ watch.session = life.session /\ watch.acked
WatchSound ==
  /\ pod.status = "RUNNING" =>
       (watch.pc # "none" /\ watch.session = life.session) \/ Bereft(life.session)
  /\ pod.status = "EXITED" /\ StartPending => Kept \/ Bereft(life.session)
WatchSteps == {"none", "waiting", "looked", "stopping", "armed"}
Watching == /\ watch \in [pc : WatchSteps, session : Sessions \cup {NoSession}, acked : BOOLEAN,
                          seen : Records]
            /\ WatchSound

LEMMA WatchLooks ==
  ASSUME PromptProvider, GInv, Watching, WatchStep, ~StopPosted
  PROVE  Watching'
<1>1. UNCHANGED <<pod, StartPending, life>> /\ late \subseteq late'
  BY DEF WatchStep, WatchStart, WatchLook, WatchSeesExited, WatchRetries, WatchSeesRunning,
         WatchDeadline, WatchObeysRequest, WatchSeesStopped, WatchSeesTerminated, StopConfirmed,
         WatchKilled, OnlyWatch, StartPending, provider
<1>2. (pod.status = "EXITED" /\ StartPending) => Kept \/ Bereft(life.session)
  BY DEF Watching, WatchSound
<1>3. life.op = "stopped" => pod.status # "RUNNING" /\ ~StartPending
  BY DEF GInv, LifeSound, ClientSound, StartPending, Fresh, Over, Unposted
<1> DEFINE Typed2 == watch' \in [pc : WatchSteps, session : Sessions \cup {NoSession},
                                 acked : BOOLEAN, seen : Records]
           Bereft2 == \/ life.session \in late'
                      \/ watch'.pc = "none" /\ watch'.session = life.session
           Run2 == pod.status = "RUNNING" =>
                     (watch'.pc # "none" /\ watch'.session = life.session) \/ Bereft2
           Start2 == (pod.status = "EXITED" /\ StartPending) =>
                        \/ Bereft2
                        \/ /\ watch'.pc \in {"waiting", "looked", "stopping"}
                           /\ watch'.session = life.session /\ watch'.acked
<1> SUFFICES Typed2 /\ Run2 /\ Start2
  BY <1>1 DEF Watching, WatchSound, Kept, Bereft
<1> USE DEF Watching, WatchSound, WatchSteps, Records, Kept, Bereft
<1>4. CASE \E s \in Sessions : WatchStart(s)
  BY <1>1, <1>2, <1>3, <1>4 DEF WatchStart
<1>5. CASE WatchLook
  <2>1. life \in Record /\ watch.pc = "waiting"
    BY <1>5 DEF WatchLook, GInv, Typed
  <2>2. watch' = IF Bound THEN [watch EXCEPT !.pc = "looked", !.seen = life]
                          ELSE [watch EXCEPT !.pc = "stopping"]
    BY <1>5 DEF WatchLook
  <2> QED
    BY <1>1, <1>2, <2>1, <2>2
<1>6. CASE WatchSeesExited
  <2> DEFINE claims == watch.seen.op = "stopped" /\ ~watch.acked
  <2>1. /\ watch.pc = "looked" /\ pod.status = "EXITED"
        /\ \/ claims /\ watch' = NoWatch
           \/ watch' = [watch EXCEPT !.pc = "waiting", !.acked = @ \/ claims, !.seen = NoRecord]
    BY <1>6 DEF WatchSeesExited
  <2>2. claims \in BOOLEAN
    OBVIOUS
  <2>3. CASE watch' = NoWatch /\ claims
    BY <1>1, <1>2, <2>1, <2>3 DEF NoWatch
  <2> HIDE DEF claims
  <2>4. CASE watch' = [watch EXCEPT !.pc = "waiting", !.acked = @ \/ claims, !.seen = NoRecord]
    <3>1. (watch.acked \/ claims) \in BOOLEAN
      BY <2>2
    <3>2. watch' = [pc |-> "waiting", session |-> watch.session, acked |-> watch.acked \/ claims,
                   seen |-> NoRecord]
      BY <2>4
    <3> QED
      BY <1>1, <1>2, <2>1, <3>1, <3>2
  <2> QED
    BY <2>1, <2>3, <2>4
<1>7. CASE WatchRetries
  BY <1>1, <1>2, <1>7 DEF WatchRetries
<1>8. CASE WatchSeesRunning
  BY <1>1, <1>2, <1>8 DEF WatchSeesRunning, WatchGoto
<1>9. CASE WatchDeadline \/ WatchObeysRequest
  <2>1. watch.pc \in {"waiting", "armed"} /\ watch' = [watch EXCEPT !.pc = "stopping"]
    BY <1>9 DEF WatchDeadline, WatchObeysRequest, WatchGoto
  <2> QED
    BY <1>1, <1>2, <2>1
<1>10. CASE WatchSeesStopped \/ WatchSeesTerminated \/ StopConfirmed
  <2>1. /\ watch' = [pc |-> "none", session |-> NoSession, acked |-> FALSE, seen |-> NoRecord]
        /\ pod.status # "RUNNING"
    BY <1>10 DEF WatchSeesStopped, WatchSeesTerminated, StopConfirmed, NoWatch
  <2>2. (pod.status = "EXITED" /\ StartPending) =>
           life.session \in late \/ late' = late \cup {life.session}
    BY <1>2, <1>10 DEF WatchSeesStopped, WatchSeesTerminated, StopConfirmed
  <2> QED
    BY <1>1, <2>1, <2>2
<1>11. CASE WatchKilled
  <2>1. /\ watch.pc # "none"
        /\ watch' = [pc |-> "none", session |-> watch.session, acked |-> FALSE, seen |-> NoRecord]
    BY <1>11 DEF WatchKilled, NoWatch
  <2> QED
    BY <1>1, <1>2, <2>1
<1> QED
  BY <1>4, <1>5, <1>6, <1>7, <1>8, <1>9, <1>10, <1>11 DEF WatchStep

LEMMA WatchedStep ==
  ASSUME PromptProvider, GInv, Watching, [Next]_vars
  PROVE  Watching'
<1> USE DEF Watching, WatchSound, Kept, Bereft, StartPending
<1>1. ASSUME UNCHANGED <<watch, late>>,
             (pod.status = "RUNNING" /\ pod'.status = "RUNNING") => life'.session = life.session,
             (pod'.status = "RUNNING" /\ pod.status # "RUNNING") => life' = life,
             pod'.status = "RUNNING" => (pod.status = "RUNNING" \/ (pod.status = "EXITED" /\ StartPending)),
             (pod'.status = "EXITED" /\ StartPending')
               => (pod.status = "EXITED" /\ StartPending /\ life'.session = life.session)
      PROVE  Watching'
  BY <1>1
<1>2. CASE MoneyStep \/ UNCHANGED vars
  <2>1. UNCHANGED <<pod, wire, ran, life, client, watch, late>>
    BY <1>2, MoneyLeaves DEF provider, watcher, vars
  <2> QED
    BY <2>1, <1>1
<1>3. CASE AttestStep
  <2>1. UNCHANGED <<pod, wire, ran, client, watch, late>>
    BY <1>3, AttestLeaves
  <2>2. life'.session = life.session
    <3>1. CASE \E k \in Closures : ReplaceLifecycle(k)
      BY <3>1, ReplacesSameRun DEF ReplaceLifecycle
    <3>2. CASE ~\E k \in Closures : ReplaceLifecycle(k)
      BY <1>3, <3>2 DEF AttestStep, ObserveNoStart, ObserveAgain, ObserveExternalStop, AttestLoad,
         WriteReceipt, CompareLifecycle, AttestAbandons, OnlyAttester
    <3> QED
      BY <3>1, <3>2
  <2> QED
    BY <2>1, <2>2, <1>1
<1>4. CASE StartTakesEffect \/ StartLost \/ PodTerminated \/ StopPosted
  <2>1. UNCHANGED <<life, client, watch, late>>
    BY <1>4, ProviderLeaves
  <2>2. CASE StartTakesEffect
    <3>1. (pod'.status = "RUNNING" /\ pod.status = "EXITED") \/ pod' = pod
      BY <2>2 DEF StartTakesEffect, GInv, Typed
    <3>2. wire # NoSession /\ wire' = NoSession
      BY <2>2 DEF StartTakesEffect
    <3> QED
      BY <2>1, <3>1, <3>2, <1>1
  <2>3. CASE StartLost
    BY <2>1, <2>3, <1>1 DEF StartLost
  <2>4. CASE PodTerminated
    <3>1. pod'.status = "TERMINATED"
      BY <2>4 DEF PodTerminated, GInv, Typed
    <3> QED
      BY <2>1, <3>1, <1>1
  <2>5. CASE StopPosted
    <3>1. pod'.status = "EXITED" /\ pod.status = "RUNNING" /\ wire' = wire
      BY <2>5 DEF StopPosted, GInv, Typed
    <3>2. ~StartPending
      BY <3>1 DEF GInv, LifeSound, ClientSound, Fresh, Waiting, Running, Over, Unposted
    <3> QED
      BY <2>1, <3>1, <3>2, <1>1
  <2> QED
    BY <1>4, <2>2, <2>3, <2>4, <2>5
<1>5. CASE WatchStep /\ ~StopPosted
  BY <1>5, WatchLooks
<1>6. CASE RequestStop
  <2>1. UNCHANGED <<pod, wire, life, client, watch, late>>
    BY <1>6 DEF RequestStop, provider
  <2> QED
    BY <2>1, <1>1
<1>7. CASE ClientStep
  <2>1. UNCHANGED <<watch, late>> /\ pod'.status = pod.status
    BY <1>7, ClientLeaves DEF ClientStep, Rearm, WriteIntent, PatchEnvironment, WritePatched,
       WriteStartIntent, CheckWatcher, PostStart, WriteStartRequested, Poll, PollReady, PollTimeout,
       PollFails, WriteRearmed, ClientAbandons, Advance, EndRearm, provider, GInv, Typed
  <2>2. CASE CheckWatcher
    <3>1. /\ WatcherLive(client.rec.session, client.before) /\ life' = life /\ client.pc = "intended"
      BY <2>2 DEF CheckWatcher
    <3>2. life.session = client.rec.session
      BY <3>1 DEF GInv, ClientSound, Ahead, Unposted
    <3> QED
      BY <2>1, <3>1, <3>2 DEF WatcherLive
  <2>3. CASE PostStart
    <3>1. client.pc = "post" /\ life' = life
      BY <2>3 DEF PostStart
    <3> QED
      BY <2>1, <3>1, <1>1
  <2>4. CASE ~CheckWatcher /\ ~PostStart
    <3>0. client \in [pc : ClientSteps, before : Records, rec : Records]
      BY DEF GInv, Typed
    <3>1. wire' = wire /\ client'.pc # "post"
      <4>1. CASE \E s \in Sessions : Rearm(s)
        BY <4>1 DEF Rearm, provider
      <4>2. CASE WriteIntent
        BY <3>0, <4>2 DEF WriteIntent, provider
      <4>3. CASE PatchEnvironment
        BY <3>0, <4>3 DEF PatchEnvironment, ClientGoto
      <4>4. CASE WritePatched \/ WriteStartIntent \/ WriteStartRequested \/ Poll \/ PollReady
        BY <3>0, <4>4 DEF WritePatched, WriteStartIntent, WriteStartRequested, Poll, PollReady,
           Advance, ClientGoto, provider
      <4>5. CASE PollTimeout \/ PollFails \/ WriteRearmed \/ ClientAbandons
        BY <4>5 DEF PollTimeout, PollFails, WriteRearmed, ClientAbandons, EndRearm, Idle, provider
      <4> QED
        BY <1>7, <2>4, <4>1, <4>2, <4>3, <4>4, <4>5 DEF ClientStep
    <3>2. CASE WriteIntent \/ \E s \in Sessions : Rearm(s)
      <4>1. wire = NoSession /\ pod.status # "RUNNING"
        BY <3>2 DEF WriteIntent, Rearm, GInv, ClientSound, LifeSound, Fresh, Over
      <4> QED
        BY <2>1, <3>1, <4>1, <1>1
    <3>3. CASE ~WriteIntent /\ ~(\E s \in Sessions : Rearm(s))
      <4>1. life'.session = life.session
        <5>1. \/ life' = life
              \/ /\ client.pc \in Ahead
                 /\ \E op \in TransitionOps : life' = [client.rec EXCEPT !.op = op]
          BY <1>7, <2>4, <3>3 DEF ClientStep, PatchEnvironment, WritePatched, WriteStartIntent,
             WriteStartRequested, Poll, PollReady, PollTimeout, PollFails, WriteRearmed,
             ClientAbandons, Advance, EndRearm, Replace, Ahead, Unposted, Posted, TransitionOps,
             IntentOps, StartOps, FailedOps
        <5>2. client.pc \in Ahead => client.rec \in Record /\ life.session = client.rec.session
          BY DEF GInv, Typed, ClientSound, Ahead, Unposted, Posted
        <5> QED
          BY <5>1, <5>2 DEF Record
      <4> QED
        BY <2>1, <3>1, <4>1, <1>1
    <3> QED
      BY <3>2, <3>3
  <2> QED
    BY <2>2, <2>3, <2>4
<1> QED
  BY <1>2, <1>3, <1>4, <1>5, <1>6, <1>7 DEF Next

(* A Pod runs unwatched only when its watcher was killed, or its own start  *)
(* was still on its way as its watcher gave up over the exited Pod          *)
(* (wait_for_rearm_then_run_watchdog, _stop_until_confirmed): it is then on *)
(* record as a requested start and its money is reserved, whatever became   *)
(* of the re-arm client.                                                    *)
THEOREM UnwatchedIsOnRecordSafe ==
  ASSUME PromptProvider  PROVE Spec => []UnwatchedIsOnRecord
<1>1. Init => Watching
  BY DEF Init, Watching, WatchSound, NoWatch, WatchSteps, Records, StartPending, Idle
<1>2. ASSUME GInv, Watching, [Next]_vars  PROVE Watching'
  BY <1>2, WatchedStep
<1>3. ASSUME GInv, Watching  PROVE UnwatchedIsOnRecord
  <2> SUFFICES ASSUME pod.status = "RUNNING", watch.pc = "none"
               PROVE  /\ Bereft(pod.env) /\ life.session = pod.env
                      /\ life.op \in StartOps /\ ledger[pod.env] = "estimated"
    BY DEF UnwatchedIsOnRecord
  <2>1. ~Fresh /\ ~Over /\ Bereft(life.session)
    BY <1>3 DEF Fresh, Over, Watching, WatchSound
  <2>2. life.op \notin {"stopped", "rearm_intent", "rearm_patched"}
    BY <1>3, <2>1 DEF GInv, LifeSound
  <2>3. life.op \in StartOps
    BY <1>3, <2>2 DEF GInv, Typed, Record, TransitionOps, IntentOps, StartOps
  <2>4. life.session = pod.env /\ ledger[life.session] = "estimated"
    BY <1>3, <2>1, <2>2, <2>3 DEF GInv, LifeSound, Patched
  <2> QED
    BY <2>1, <2>3, <2>4
<1> QED
  BY <1>1, <1>2, <1>3, GpuInvariance, PTL DEF Spec

-----------------------------------------------------------------------------
(* Inside the Pod: one run of the bootstrap arms a session.                  *)

Paths == {"emergency", "session"}
Steps == {"new", "early", "refused", "success", "request", "stop", "inspect", "emergency", "killed"}
           \cup Working \cup Returned
Claimed == {"move", "launch", "identify", "arm", "preflight", "setup", "validate", "success"}
Moved == Claimed \ {"move"}
Launched == Moved \ {"launch"}
Asked == {"stop", "inspect", "emergency"} \cup Returned

BootTyped == /\ run \in [Runs -> [pc : Steps, path : Paths, known : BOOLEAN, launched : BOOLEAN,
                              after : SUBSET Runs]]
         /\ session \in [maker : Runs \cup {Nobody}, receipt : BOOLEAN]
         /\ armings \subseteq Runs

(* The session directory is the run's own from its claim on. *)
Owns(r) == /\ run[r].pc \in Claimed => session.maker = r
           /\ run[r].pc \in Moved => session.receipt
           /\ run[r].pc \in Launched => r \in armings
           /\ r \in armings => session.maker = r /\ session.receipt
(* What a failed run leaves for later runs to find. *)
Leaves(r) == /\ run[r].path = "session" => r \in armings
             /\ run[r].pc \in Asked => run[r].path \in requests
(* A run after a failure finds the directory taken. *)
Barred(r) == run[r].after # {} => session.maker \notin {Nobody, r}

Sound(r) == Owns(r) /\ Leaves(r) /\ Barred(r)
BInv == BootTyped /\ \A r \in Runs : Sound(r)

-----------------------------------------------------------------------------
LEMMA BootInitTyped == BootInit => BInv
BY BootstrapAssumption DEF BootInit, BInv, BootTyped, Sound, Owns, Leaves, Barred, Steps, Paths,
   Working, Returned, Claimed, Moved, Launched, Asked

(* A run's record changes, field by field. *)
LEMMA OneRecord ==
  ASSUME BootTyped, NEW r \in Runs, run' = [s \in Runs |-> run'[s]],
         \A s \in Runs \ {r} : run'[s] = run[s],
         run'[r] \in [pc : Steps, path : Paths, known : BOOLEAN, launched : BOOLEAN,
                     after : SUBSET Runs],
         UNCHANGED session, armings' \subseteq Runs
  PROVE  BootTyped'
<1>1. \A s \in Runs : run'[s] \in [pc : Steps, path : Paths, known : BOOLEAN,
                                   launched : BOOLEAN, after : SUBSET Runs]
  BY DEF BootTyped
<1>2. run' \in [Runs -> [pc : Steps, path : Paths, known : BOOLEAN, launched : BOOLEAN,
                        after : SUBSET Runs]]
  BY <1>1
<1> QED
  BY <1>2 DEF BootTyped

(* A run that does not act, while directory and requests only grow. *)
LEMMA Bystander ==
  ASSUME NEW s \in Runs, BInv, run'[s] = run[s],
         requests \subseteq requests', (s \in armings') <=> (s \in armings),
         session'.maker = session.maker \/ (session.maker = Nobody /\ session'.maker # s),
         session'.maker # Nobody \/ session.maker = Nobody,
         session.receipt => session'.receipt
  PROVE  Sound(s)'
BY BootstrapAssumption DEF BInv, Sound, Owns, Leaves, Barred

(* A run that only goes on, to a step that owes nothing new. *)
LEMMA Walks ==
  ASSUME NEW r \in Runs, BInv, NEW pc \in Steps, Goto(r, pc),
         UNCHANGED <<session, armings>>, requests \subseteq requests',
         pc \in Claimed => run[r].pc \in Claimed,
         pc \in Moved => run[r].pc \in Moved,
         pc \in Launched => run[r].pc \in Launched,
         pc \in Asked => run[r].path \in requests'
  PROVE  BInv'
<1>1. BootTyped'
  BY DEF BInv, BootTyped, Goto
<1>2. Sound(r)'
  BY DEF BInv, BootTyped, Goto, Sound, Owns, Leaves, Barred
<1>3. ASSUME NEW s \in Runs, s # r  PROVE Sound(s)'
  <2>1. run'[s] = run[s]
    BY <1>3 DEF BInv, BootTyped, Goto
  <2> QED
    BY <2>1, Bystander
<1> QED
  BY <1>1, <1>2, <1>3 DEF BInv

(* The looking run finds no request of a failed one: that one had armed.   *)
LEMMA CheckKeeps == ASSUME NEW r \in Runs, BInv, Check(r)  PROVE BInv'
<1>1. run[r].pc = "check" /\ r \notin Failed /\ Failed \subseteq Runs
  BY DEF Check, At, Failed, Returned
<1>2. UNCHANGED <<session, requests, armings>>
  BY DEF Check, OnlyRun, tree
<1>3. run' = [run EXCEPT ![r].pc = "budget", ![r].known = TRUE, ![r].after = Failed]
  BY DEF Check
<1>4. BootTyped'
  <2>1. "budget" \in Steps
    BY DEF Steps, Working
  <2>2. run' = [s \in Runs |-> run'[s]] /\ \A s \in Runs \ {r} : run'[s] = run[s]
    BY <1>3 DEF BInv, BootTyped
  <2>3. run'[r] = [run[r] EXCEPT !.pc = "budget", !.known = TRUE, !.after = Failed]
    BY <1>3 DEF BInv, BootTyped
  <2>4. run'[r] \in [pc : Steps, path : Paths, known : BOOLEAN, launched : BOOLEAN,
                    after : SUBSET Runs]
    BY <1>1, <2>1, <2>3 DEF BInv, BootTyped
  <2>5. BootTyped /\ armings' \subseteq Runs
    BY <1>2 DEF BInv, BootTyped
  <2> QED
    BY <1>2, <2>2, <2>4, <2>5, OneRecord
<1>5. ASSUME NEW f \in Failed  PROVE session.maker = f
  <2>1. f \in Runs /\ run[f].path \in requests /\ Sound(f)
    BY DEF BInv, Sound, Leaves, Asked, Failed
  <2>2. run[f].path = "session"
    BY <2>1 DEF BInv, BootTyped, Paths, Check
  <2> QED
    BY <2>1, <2>2 DEF Sound, Leaves, Owns
<1>6. Sound(r)'
  <2>1. Barred(r)'
    BY <1>1, <1>2, <1>3, <1>5, BootstrapAssumption DEF BInv, BootTyped, Barred
  <2>2. Owns(r)' /\ Leaves(r)'
    BY <1>1, <1>2, <1>3
       DEF BInv, BootTyped, Sound, Owns, Leaves, Claimed, Moved, Launched, Asked, Returned
  <2> QED
    BY <2>1, <2>2 DEF Sound
<1>7. ASSUME NEW s \in Runs, s # r  PROVE Sound(s)'
  <2>1. run'[s] = run[s]
    BY <1>3, <1>7 DEF BInv, BootTyped
  <2> QED
    BY <1>2, <2>1, Bystander
<1> QED
  BY <1>4, <1>6, <1>7 DEF BInv

LEMMA ClaimKeeps == ASSUME NEW r \in Runs, BInv, Claim(r)  PROVE BInv'
<1>1. /\ run[r].pc = "claim" /\ session.maker = Nobody
      /\ run' = [run EXCEPT ![r].pc = "move"]
      /\ session' = [session EXCEPT !.maker = r]
      /\ UNCHANGED <<requests, armings>>
  BY DEF Claim, At, Goto, OnlySession
<1>2. BootTyped'
  BY <1>1 DEF BInv, BootTyped, Steps, Working
<1>3. Sound(r)'
  BY <1>1, BootstrapAssumption
     DEF BInv, BootTyped, Sound, Owns, Leaves, Barred, Claimed, Moved, Launched, Asked, Returned
<1>4. ASSUME NEW s \in Runs, s # r  PROVE Sound(s)'
  <2>1. run'[s] = run[s] /\ session'.maker = r /\ session'.receipt = session.receipt
    BY <1>1, <1>4 DEF BInv, BootTyped
  <2> QED
    BY <1>1, <1>4, <2>1, Bystander, BootstrapAssumption
<1> QED
  BY <1>2, <1>3, <1>4 DEF BInv

LEMMA MoveKeeps == ASSUME NEW r \in Runs, BInv, Move(r)  PROVE BInv'
<1>1. /\ run[r].pc = "move"
      /\ run' = [run EXCEPT ![r].pc = "launch"]
      /\ session' = [session EXCEPT !.receipt = TRUE]
      /\ UNCHANGED <<requests, armings>>
  BY DEF Move, At, Goto, OnlySession
<1>2. BootTyped' /\ session'.maker = session.maker /\ session'.receipt
  BY <1>1 DEF BInv, BootTyped, Steps, Working
<1>3. Sound(r)'
  BY <1>1, <1>2
     DEF BInv, BootTyped, Sound, Owns, Leaves, Barred, Claimed, Moved, Launched, Asked, Returned
<1>4. ASSUME NEW s \in Runs, s # r  PROVE Sound(s)'
  <2>1. run'[s] = run[s]
    BY <1>1, <1>4 DEF BInv, BootTyped
  <2> QED
    BY <1>1, <1>2, <2>1, Bystander
<1> QED
  BY <1>2, <1>3, <1>4 DEF BInv

LEMMA LaunchKeeps == ASSUME NEW r \in Runs, BInv, Launch(r)  PROVE BInv'
<1>1. /\ run[r].pc = "launch"
      /\ run' = [run EXCEPT ![r].pc = "identify", ![r].path = "session", ![r].launched = TRUE]
      /\ armings' = armings \cup {r}
      /\ UNCHANGED <<session, requests>>
  BY DEF Launch, At, tree
<1>2. BootTyped'
  <2>1. "identify" \in Steps /\ "session" \in Paths
    BY DEF Steps, Working, Paths
  <2>2. run' = [s \in Runs |-> run'[s]] /\ \A s \in Runs \ {r} : run'[s] = run[s]
    BY <1>1 DEF BInv, BootTyped
  <2>3. run'[r] = [run[r] EXCEPT !.pc = "identify", !.path = "session", !.launched = TRUE]
    BY <1>1 DEF BInv, BootTyped
  <2>4. run'[r] \in [pc : Steps, path : Paths, known : BOOLEAN, launched : BOOLEAN,
                    after : SUBSET Runs]
    BY <2>1, <2>3 DEF BInv, BootTyped
  <2>5. BootTyped /\ armings' \subseteq Runs
    BY <1>1 DEF BInv, BootTyped
  <2> QED
    BY <1>1, <2>2, <2>4, <2>5, OneRecord
<1>3. Sound(r)'
  BY <1>1
     DEF BInv, BootTyped, Sound, Owns, Leaves, Barred, Claimed, Moved, Launched, Asked, Returned
<1>4. ASSUME NEW s \in Runs, s # r  PROVE Sound(s)'
  <2>1. run'[s] = run[s] /\ (s \in armings' <=> s \in armings)
    BY <1>1, <1>4 DEF BInv, BootTyped
  <2> QED
    BY <1>1, <2>1, Bystander
<1> QED
  BY <1>2, <1>3, <1>4 DEF BInv

LEMMA FailKeeps == ASSUME NEW r \in Runs, BInv, Fail(r)  PROVE BInv'
<1>1. PICK known \in BOOLEAN : run' = [run EXCEPT ![r].pc = "request", ![r].known = known]
  BY DEF Fail, BInv, BootTyped
<1>2. UNCHANGED <<session, requests, armings>>
  BY DEF Fail, OnlyRun, tree
<1>3. BootTyped'
  <2>1. "request" \in Steps
    BY DEF Steps
  <2>2. run' = [s \in Runs |-> run'[s]] /\ \A s \in Runs \ {r} : run'[s] = run[s]
    BY <1>1 DEF BInv, BootTyped
  <2>3. run'[r] = [run[r] EXCEPT !.pc = "request", !.known = known]
    BY <1>1 DEF BInv, BootTyped
  <2>4. run'[r] \in [pc : Steps, path : Paths, known : BOOLEAN, launched : BOOLEAN,
                    after : SUBSET Runs]
    BY <2>1, <2>3 DEF BInv, BootTyped
  <2>5. BootTyped /\ armings' \subseteq Runs
    BY <1>2 DEF BInv, BootTyped
  <2> QED
    BY <1>2, <2>2, <2>4, <2>5, OneRecord
<1>4. Sound(r)'
  BY <1>1, <1>2
     DEF BInv, BootTyped, Sound, Owns, Leaves, Barred, Claimed, Moved, Launched, Asked, Returned
<1>5. ASSUME NEW s \in Runs, s # r  PROVE Sound(s)'
  <2>1. run'[s] = run[s]
    BY <1>1, <1>5 DEF BInv, BootTyped
  <2> QED
    BY <1>2, <2>1, Bystander
<1> QED
  BY <1>3, <1>4, <1>5 DEF BInv

(* Nothing the invariant speaks of. *)
LEMMA BootElsewhere == ASSUME BInv, UNCHANGED <<run, session, requests, armings>>  PROVE BInv'
BY DEF BInv, BootTyped, Sound, Owns, Leaves, Barred

LEMMA ProgressKeeps == ASSUME NEW r \in Runs, BInv, Progress(r)  PROVE BInv'
<1> USE DEF At, Steps, Working, Returned, Claimed, Moved, Launched, Asked
<1>1. CASE Verify(r)
  <2>1. Goto(r, "check") \/ Goto(r, "early")
    BY <1>1 DEF Verify
  <2> QED
    BY <1>1, <2>1, Walks DEF Verify, OnlyRun, tree
<1>2. CASE Check(r)
  BY <1>2, CheckKeeps
<1>3. CASE Budget(r)
  BY <1>3, Walks DEF Budget, OnlyRun, tree
<1>4. CASE WritePending(r)
  BY <1>4, Walks DEF WritePending
<1>5. CASE Prepare(r)
  BY <1>5, Walks DEF Prepare, OnlyRun, tree
<1>6. CASE Claim(r)
  BY <1>6, ClaimKeeps
<1>7. CASE Move(r)
  BY <1>7, MoveKeeps
<1>8. CASE Launch(r)
  BY <1>8, LaunchKeeps
<1>9. CASE Identify(r)
  BY <1>9, Walks DEF Identify
<1>10. CASE AwaitArmed(r)
  BY <1>10, Walks DEF AwaitArmed, OnlyRun, tree
<1>11. CASE Preflight(r)
  BY <1>11, Walks DEF Preflight
<1>12. CASE Setup(r)
  BY <1>12, Walks DEF Setup, OnlyRun, tree
<1>13. CASE Validate(r)
  BY <1>13, Walks DEF Validate, OnlyRun, tree
<1> QED
  BY <1>1, <1>2, <1>3, <1>4, <1>5, <1>6, <1>7, <1>8, <1>9, <1>10, <1>11, <1>12, <1>13 DEF Progress

LEMMA CleanupKeeps == ASSUME NEW r \in Runs, BInv, Kill(r) \/ Cleanup(r)  PROVE BInv'
<1> USE DEF At, Steps, Working, Returned, Claimed, Moved, Launched, Asked
<1>0. run[r].pc \in {"stop", "inspect", "emergency"} => run[r].path \in requests
  BY DEF BInv, Sound, Leaves
<1>1. CASE Kill(r)
  BY <1>1, Walks DEF Kill, OnlyRun, tree
<1>2. CASE EarlyStop(r)
  BY <1>2, Walks DEF EarlyStop, tree
<1>3. CASE LeaveRequest(r)
  BY <1>3, Walks DEF LeaveRequest
<1>4. CASE DirectStop(r)
  <2>1. Goto(r, "stopped") \/ Goto(r, "inspect")
    BY <1>4 DEF DirectStop
  <2> QED
    BY <1>0, <1>4, <2>1, Walks DEF DirectStop, tree
<1>5. CASE Inspect(r)
  <2>1. Goto(r, "handed") \/ Goto(r, "emergency") \/ Goto(r, "unconfirmed")
    BY <1>5 DEF Inspect
  <2> QED
    BY <1>0, <1>5, <2>1, Walks DEF Inspect, OnlyRun, tree
<1>6. CASE EmergencyStops(r)
  BY <1>6, BootElsewhere DEF EmergencyStops, OnlyEmergency
<1>7. CASE EmergencyConfirms(r)
  BY <1>0, <1>7, Walks DEF EmergencyConfirms, OnlyEmergency
<1> QED
  BY <1>1, <1>2, <1>3, <1>4, <1>5, <1>6, <1>7 DEF Cleanup

-----------------------------------------------------------------------------
(* The inductive invariant of the bootstrap, through failures and kills.   *)
THEOREM BootstrapInvariance == BootSpec => []BInv
<1>1. ASSUME BInv, [BootNext]_bootVars  PROVE BInv'
  <2>1. CASE \E r \in Runs : Progress(r) \/ Fail(r) \/ Kill(r) \/ Cleanup(r)
    BY <1>1, <2>1, ProgressKeeps, FailKeeps, CleanupKeeps
  <2>2. CASE \/ DogArms \/ DogRefuses \/ DogObeysRequest \/ DogStops \/ DogSeesExited \/ DogPosts
             \/ DogDies \/ HostStops \/ ContainerEnds
    <3>1. UNCHANGED <<run, session, requests, armings>>
      BY <2>2 DEF DogArms, DogRefuses, DogObeysRequest, DogStops, DogSeesExited, DogPosts, DogDies,
                  HostStops, ContainerEnds, OnlyDog, tree
    <3> QED
      BY <1>1, <3>1, BootElsewhere
  <2>3. CASE UNCHANGED bootVars
    BY <1>1, <2>3, BootElsewhere DEF bootVars, tree
  <2> QED
    BY <1>1, <2>1, <2>2, <2>3 DEF BootNext
<1> QED
  BY BootInitTyped, <1>1, PTL DEF BootSpec

(* However many runs overlap or follow one another, one arms a watchdog,   *)
(* the one whose directory holds the receipt, and none that came after a   *)
(* failure (bootstrap_gpu.sh, prepare_runpod_session_directory).           *)
THEOREM OneArmingSafe == BootSpec => []OneArming
<1>1. BInv => OneArming
  <2>1. ASSUME BInv, NEW r \in armings
        PROVE  session = [maker |-> r, receipt |-> TRUE] /\ run[r].after = {}
    BY <2>1, BootstrapAssumption DEF BInv, BootTyped, Sound, Owns, Barred
  <2>2. ASSUME BInv  PROVE { r \in Runs : At(r, "success") } \subseteq armings
    BY <2>2 DEF BInv, Sound, Owns, At, Launched, Moved, Claimed
  <2> QED
    BY <2>1, <2>2 DEF OneArming
<1> QED
  BY <1>1, BootstrapInvariance, PTL
=============================================================================
