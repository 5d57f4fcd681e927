---------------------------- MODULE PodBootstrap ----------------------------
(***************************************************************************)
(* The bootstrap inside the rented Pod, between the transfer of a          *)
(* session's tree and its first GPU command: scripts/bootstrap_gpu.sh with *)
(* its two exit traps, the claim of the session directory                  *)
(* (runpod_sessions.py), the direct stop of runpod_bootstrap_failure.py    *)
(* and the watchdog in the Pod (run_watchdog of runpod_watchdog.py), of    *)
(* the session and of an emergency.                                        *)
(*                                                                         *)
(* One tree serves one session: a transfer archives the previous one.  A   *)
(* run is one invocation of the script in this tree; runs may overlap, may *)
(* fail at any command or on a lost connection, and may be killed without  *)
(* their trap.  The lifecycle record, the receipt and the ledger are those *)
(* the transfer verified; nothing in the Pod changes them.  When the Pod   *)
(* has exited its container and every process in it end, and the tree      *)
(* stays.                                                                  *)
(***************************************************************************)
CONSTANTS Runs,     \* invocations of the script
          Nobody    \* no run

ASSUME BootstrapAssumption == Nobody \notin Runs

VARIABLES
  desired,   \* the provider's desired status of the Pod
  up,        \* its container is alive
  pending,   \* gpu_budget_bootstrap.pending.json exists
  session,   \* the session directory: its maker, and whether the receipt is in it
  requests,  \* stop requests: "session" and "emergency"
  record,    \* status in the session's watchdog state file
  emergency, \* the emergency watchdog's state file exists
  identity,  \* runpod_watchdog.pid: the run whose watchdog it identifies
  preflight, \* gpu_preflight.json: the watchdog it is bound to
  dog,       \* the session's watchdog: its step, and the run that launched it
  run,       \* each run of the script
  armings    \* history: the runs that launched a watchdog

tree == <<pending, session, requests, emergency, identity, preflight>>
bootVars == <<desired, up, tree, record, dog, run, armings>>

BootInit ==
  /\ desired = "RUNNING" /\ up = TRUE
  /\ pending = FALSE /\ session = [maker |-> Nobody, receipt |-> FALSE]
  /\ requests = {} /\ record = "none" /\ emergency = FALSE
  /\ identity = Nobody /\ preflight = Nobody
  /\ dog = [pc |-> "none", by |-> Nobody]
  /\ run = [r \in Runs |-> [pc |-> "new", path |-> "emergency", known |-> FALSE,
                            launched |-> FALSE, after |-> {}]]
  /\ armings = {}

At(r, pc) == run[r].pc = pc
Goto(r, pc) == run' = [run EXCEPT ![r].pc = pc]

(* Between the second trap and success. *)
Working == {"check", "budget", "write", "prepare", "claim", "move", "launch", "identify",
            "arm", "preflight", "setup", "validate"}
(* After the second trap left its stop request, and after it has returned. *)
Returned == {"stopped", "handed", "unconfirmed"}
Failed == { r \in Runs : run[r].pc \in {"stop", "inspect", "emergency"} \cup Returned }

DogLives == dog.pc \in {"starting", "armed", "stopping"}
(* The process recorded in runpod_watchdog.pid is that process, and alive. *)
IdentityLives == identity # Nobody /\ identity = dog.by /\ DogLives

-----------------------------------------------------------------------------
(* The script, up to success. *)

OnlyRun == UNCHANGED <<desired, up, tree, record, dog, armings>>

(* Its first act: the private tree is exactly the one transferred. *)
Untouched == ~pending /\ session.maker = Nobody /\ requests = {} /\ ~emergency
Verify(r) == /\ up /\ At(r, "new")
             /\ (Untouched /\ Goto(r, "check")) \/ Goto(r, "early")
             /\ OnlyRun

(* The session hash is known, no artifact of another run is in the way.    *)
Check(r) == /\ up /\ At(r, "check")
            /\ ~pending /\ "emergency" \notin requests /\ ~emergency
            /\ run' = [run EXCEPT ![r].pc = "budget", ![r].known = TRUE, ![r].after = Failed]
            /\ OnlyRun

(* gpu_budget_preflight.py looks for its output, and writes it later. *)
Budget(r) == /\ up /\ At(r, "budget") /\ ~pending
             /\ Goto(r, "write")
             /\ OnlyRun
WritePending(r) == /\ up /\ At(r, "write")
                   /\ pending' = TRUE /\ Goto(r, "prepare")
                   /\ UNCHANGED <<desired, up, session, requests, emergency, identity, preflight,
                                  record, dog, armings>>

(* Every session directory must be that of a settled session.              *)
Prepare(r) == /\ up /\ At(r, "prepare")
              /\ pending /\ session.maker = Nobody
              /\ Goto(r, "claim")
              /\ OnlyRun

OnlySession == UNCHANGED <<desired, up, requests, emergency, identity, preflight, record, dog, armings>>

(* mutated form: a directory that exists is taken over. *)
ClaimFound(r) == /\ up /\ At(r, "claim")
                 /\ session' = [session EXCEPT !.maker = r]
                 /\ Goto(r, "move")
                 /\ UNCHANGED pending /\ OnlySession
Claim(r) == /\ up /\ At(r, "claim") /\ session.maker = Nobody
            /\ session' = [session EXCEPT !.maker = r]
            /\ Goto(r, "move")
            /\ UNCHANGED pending /\ OnlySession

Move(r) == /\ up /\ At(r, "move") /\ pending
           /\ pending' = FALSE /\ session' = [session EXCEPT !.receipt = TRUE]
           /\ Goto(r, "launch")
           /\ OnlySession

(* From here on a failure asks the session's own watchdog to stop.         *)
Launch(r) == /\ up /\ At(r, "launch")
             /\ dog' = [pc |-> "starting", by |-> r]
             /\ armings' = armings \cup {r}
             /\ run' = [run EXCEPT ![r].pc = "identify", ![r].path = "session", ![r].launched = TRUE]
             /\ UNCHANGED <<desired, up, tree, record>>

Identify(r) == /\ up /\ At(r, "identify")
               /\ identity = Nobody /\ dog.by = r /\ DogLives
               /\ identity' = r /\ Goto(r, "arm")
               /\ UNCHANGED <<desired, up, pending, session, requests, emergency, preflight,
                              record, dog, armings>>

(* At most 45 looks, a second apart. *)
AwaitArmed(r) == /\ up /\ At(r, "arm")
                 /\ IdentityLives /\ record = "armed"
                 /\ Goto(r, "preflight")
                 /\ OnlyRun

Preflight(r) == /\ up /\ At(r, "preflight")
                /\ IdentityLives /\ record = "armed"
                /\ preflight' = identity /\ Goto(r, "setup")
                /\ UNCHANGED <<desired, up, pending, session, requests, emergency, identity,
                               record, dog, armings>>

Setup(r) == up /\ At(r, "setup") /\ Goto(r, "validate") /\ OnlyRun

(* Everything is looked at again after the long installation.              *)
Validate(r) == /\ up /\ At(r, "validate")
               /\ session.receipt /\ record = "armed" /\ IdentityLives /\ preflight = identity
               /\ Goto(r, "success")
               /\ OnlyRun

Progress(r) == \/ Verify(r) \/ Check(r) \/ Budget(r) \/ WritePending(r) \/ Prepare(r)
               \/ Claim(r) \/ Move(r) \/ Launch(r) \/ Identify(r) \/ AwaitArmed(r)
               \/ Preflight(r) \/ Setup(r) \/ Validate(r)

-----------------------------------------------------------------------------
(* The script, failing. *)

(* A command fails, a condition does not hold, the connection is lost.     *)
Fail(r) == /\ up /\ run[r].pc \in Working
           /\ \E known \in IF At(r, "check") THEN BOOLEAN ELSE {run[r].known} :
                run' = [run EXCEPT ![r].pc = "request", ![r].known = known]
           /\ OnlyRun

Kill(r) == /\ up /\ run[r].pc \notin {"new", "success", "refused", "killed"} \cup Returned
           /\ Goto(r, "killed")
           /\ OnlyRun

(* The first trap: one authenticated stop, whatever comes of it.           *)
EarlyStop(r) == /\ up /\ At(r, "early")
                /\ desired' \in {desired, "EXITED"} /\ Goto(r, "refused")
                /\ UNCHANGED <<up, tree, record, dog, armings>>

(* The second trap: leave a stop request, try the provider, and see what   *)
(* is left to do.                                                          *)
(* mutated form: the path of the request is still the one set at first.    *)
LeaveRequestAtFirstPath(r) ==
  /\ up /\ At(r, "request")
  /\ requests' = requests \cup {"emergency"} /\ Goto(r, "stop")
  /\ UNCHANGED <<desired, up, pending, session, emergency, identity, preflight, record, dog, armings>>
LeaveRequest(r) ==
  /\ up /\ At(r, "request")
  /\ requests' = requests \cup {run[r].path} /\ Goto(r, "stop")
  /\ UNCHANGED <<desired, up, pending, session, emergency, identity, preflight, record, dog, armings>>

DirectStop(r) == /\ up /\ At(r, "stop")
                 /\ \/ desired' = "EXITED" /\ Goto(r, "stopped")
                    \/ desired' \in {desired, "EXITED"} /\ Goto(r, "inspect")
                 /\ UNCHANGED <<up, tree, record, dog, armings>>

Inspect(r) == /\ up /\ At(r, "inspect")
              /\ Goto(r, IF run[r].launched /\ IdentityLives THEN "handed"
                         ELSE IF run[r].known THEN "emergency" ELSE "unconfirmed")
              /\ OnlyRun

(* A watchdog whose deadline has passed, run in the foreground.            *)
OnlyEmergency == UNCHANGED <<up, pending, session, requests, identity, preflight,
                             record, dog, armings>>
EmergencyStops(r) == /\ up /\ At(r, "emergency") /\ desired = "RUNNING"
                     /\ desired' \in {"RUNNING", "EXITED"} /\ emergency' = TRUE
                     /\ UNCHANGED run /\ OnlyEmergency
EmergencyConfirms(r) == /\ up /\ At(r, "emergency") /\ desired = "EXITED"
                        /\ emergency' = TRUE /\ Goto(r, "stopped")
                        /\ UNCHANGED desired /\ OnlyEmergency

Cleanup(r) == \/ EarlyStop(r) \/ LeaveRequest(r) \/ DirectStop(r) \/ Inspect(r)
              \/ EmergencyStops(r) \/ EmergencyConfirms(r)

-----------------------------------------------------------------------------
(* The session's watchdog in the Pod. *)

OnlyDog == UNCHANGED <<up, tree, run, armings>>
DogGoto(pc) == dog' = [dog EXCEPT !.pc = pc]

DogArms == /\ up /\ dog.pc = "starting" /\ desired = "RUNNING"
           /\ DogGoto("armed") /\ record' = "armed"
           /\ UNCHANGED desired /\ OnlyDog
(* What it sees of the Pod is wrong, or its deadline has passed.          *)
DogRefuses == /\ up /\ dog.pc = "starting"
              /\ DogGoto("stopping") /\ record' \in {record, "live_verification_failed"}
              /\ UNCHANGED desired /\ OnlyDog

DogObeysRequest == /\ up /\ dog.pc = "armed" /\ "session" \in requests
                   /\ DogGoto("stopping")
                   /\ UNCHANGED <<desired, record>> /\ OnlyDog
(* Its deadline passes, or the provider's metadata becomes unsafe.         *)
DogStops == /\ up /\ dog.pc = "armed"
            /\ DogGoto("stopping")
            /\ record' \in {record, "metadata_unsafe_stop_pending"}
            /\ UNCHANGED desired /\ OnlyDog
DogSeesExited == /\ up /\ dog.pc \in {"armed", "stopping"} /\ desired = "EXITED"
                 /\ DogGoto("gone") /\ record' = "stopped_confirmed"
                 /\ UNCHANGED desired /\ OnlyDog
DogPosts == /\ up /\ dog.pc = "stopping" /\ desired = "RUNNING"
            /\ desired' \in {"RUNNING", "EXITED"} /\ record' = "stop_retry"
            /\ UNCHANGED dog /\ OnlyDog
DogDies == /\ up /\ DogLives
           /\ DogGoto("killed")
           /\ UNCHANGED <<desired, record>> /\ OnlyDog

(* The host's watcher stops the Pod. *)
HostStops == /\ desired = "RUNNING" /\ desired' = "EXITED"
             /\ UNCHANGED <<up, tree, record, dog, run, armings>>
ContainerEnds == /\ desired = "EXITED" /\ up /\ up' = FALSE
                 /\ UNCHANGED <<desired, tree, record, dog, run, armings>>

BootNext ==
  \/ \E r \in Runs : Progress(r) \/ Fail(r) \/ Kill(r) \/ Cleanup(r)
  \/ DogArms \/ DogRefuses \/ DogObeysRequest \/ DogStops \/ DogSeesExited \/ DogPosts
  \/ DogDies \/ HostStops \/ ContainerEnds

BootSpec == BootInit /\ [][BootNext]_bootVars

(* A process that is not killed goes on, and of the stop calls that are    *)
(* repeated one takes effect.  The watchdog's deadline is hours away, so   *)
(* nothing is assumed of DogStops or of the host.                          *)
BootFairSpec ==
  /\ BootSpec
  /\ \A r \in Runs : /\ WF_bootVars(LeaveRequest(r)) /\ WF_bootVars(DirectStop(r))
                     /\ WF_bootVars(Inspect(r))
                     /\ SF_bootVars(EmergencyStops(r) /\ desired' = "EXITED")
  /\ WF_bootVars(DogArms \/ DogRefuses) /\ WF_bootVars(DogObeysRequest)
  /\ SF_bootVars(DogPosts /\ desired' = "EXITED")

-----------------------------------------------------------------------------
(* Properties. *)

(* However many runs overlap, one arms a watchdog: the one whose directory *)
(* holds the receipt.  And "the same phase/session identity cannot be      *)
(* re-armed" (bootstrap_gpu.sh:282): a run that looked for artifacts after *)
(* another had failed, claimed or not, never comes that far.               *)
OneArming ==
  /\ \A r \in armings : /\ session = [maker |-> r, receipt |-> TRUE]
                        /\ run[r].after = {}
  /\ { r \in Runs : At(r, "success") } \subseteq armings

(* A run that fails with the session hash known stops the Pod, itself or   *)
(* by the watchdog it hands over to, without waiting for the deadline and  *)
(* whatever other runs do - unless it is killed without its trap, or the   *)
(* watchdog it relied on dies after it has returned.                       *)
FailureStops ==
  \A r \in Runs : At(r, "request") /\ run[r].known
                    ~> \/ desired = "EXITED" \/ At(r, "killed")
                       \/ At(r, "handed") /\ dog.pc = "killed"
=============================================================================
