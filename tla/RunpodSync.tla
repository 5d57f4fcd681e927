------------------------------ MODULE RunpodSync ------------------------------
(***************************************************************************)
(* The one-shot transfer of a session's controls and exact source to the   *)
(* rented Pod: runpod_sync.py (plan, bundle), runpod_sync_transfer.py      *)
(* (claim, guarded remote commands, staged install with rollback, failure  *)
(* path) and runpod_sync_verify.py (the check both trees must pass).       *)
(*                                                                         *)
(* An attempt is one run of the transfer program; it also stands for the   *)
(* plan that run builds, since plans carry their creation time, and for    *)
(* the checkout that plan produces on the Pod's persistent workspace.      *)
(* Programs die, the Pod stops under running commands, an SSH client gives *)
(* up while its command goes on, and a stage is removed under it.          *)
(***************************************************************************)
EXTENDS Integers, Sequences, SequencesExt

CONSTANTS Attempts,   \* runs of the transfer program
          Sessions,   \* GPU sessions
          Original,   \* the checkout in place before the first transfer
          Nothing     \* no session, attempt or bundle

ASSUME SyncAssumption == /\ Original \notin Attempts /\ Nothing \notin Attempts \cup Sessions
                         /\ Nothing \notin [owner : Attempts, whole : BOOLEAN]
                         /\ Attempts \cap {"nowhere", "stage", "destination"} = {}

Trees == Attempts \cup {Original}
Commands == <<"clone", "checkout", "prepare", "rsync", "verify", "install", "verify_installed">>

VARIABLES
  armed,      \* session of the re-armed lifecycle record
  used,       \* sessions armed so far
  podUp,      \* the provider runs the Pod
  watcher,    \* "armed" with a live heartbeat, or "gone"
  stops,      \* sessions with a durable stop request
  late,       \* plans older than five minutes
  at,         \* step of each attempt, its session, its next remote command; what
              \* became of its stop request, of its own stop, what its error says
  claims,     \* durable claim of each session
  bundle,     \* local bundle directory of each session
  remote,     \* what the Pod executes for each attempt, and its result
  sweeping,   \* attempts whose stage is being removed on the Pod
  cond,       \* condition of each checkout
  place,      \* where it is: stage, destination, or the archive of an attempt
  archives,   \* attempts whose archive directory exists
  contacted   \* history: attempts that issued a remote command

host == <<armed, used, watcher>>
local == <<stops, at, claims, bundle>>
disk == <<cond, place, archives>>
pod == <<podUp, remote, sweeping, disk>>
vars == <<host, late, local, pod, contacted>>

Init == /\ armed = Nothing /\ used = {} /\ podUp = FALSE /\ watcher = "gone"
        /\ stops = {} /\ late = {}
        /\ at = [a \in Attempts |->
                   [pc |-> "new", session |-> Nothing, next |-> 1,
                    request |-> "untried", stop |-> "untried", says |-> "nothing"]]
        /\ claims = [s \in Sessions |-> Nothing]
        /\ bundle = [s \in Sessions |-> Nothing]
        /\ remote = [a \in Attempts |-> "none"] /\ sweeping = {}
        /\ cond = [t \in Trees |-> IF t = Original THEN "whole" ELSE "absent"]
        /\ place = [t \in Trees |-> IF t = Original THEN "destination" ELSE "nowhere"]
        /\ archives = {} /\ contacted = {}

-----------------------------------------------------------------------------
(* The host guard, its watcher and the Pod. *)

Session(a) == at[a].session
At(a, pc) == at[a].pc = pc
Goto(a, pc) == at' = [at EXCEPT ![a].pc = pc]

(* The watcher's acknowledgement and heartbeat vouch for session s. *)
WatcherVouches(s) == watcher = "armed" /\ s \notin stops
(* Lifecycle, watcher and plan age are what they were when it was built. *)
Guard(a) == armed = Session(a) /\ WatcherVouches(Session(a)) /\ a \notin late

(* A stopped Pod ends what runs on it; its workspace stays as it is. *)
PodDown == /\ podUp' = FALSE
           /\ remote' = [a \in Attempts |->
                           IF remote[a] \in {"none", "ok"} THEN remote[a] ELSE "failed"]
           /\ sweeping' = {}

(* Stop and settle one session, reserve and re-arm the next; this takes    *)
(* longer than the five minutes a plan is valid.                           *)
Arm(s) == /\ ~podUp /\ watcher = "gone" /\ s \notin used
          /\ armed' = s /\ used' = used \cup {s} /\ podUp' = TRUE /\ watcher' = "armed"
          /\ late' = { a \in Attempts : ~At(a, "new") }
          /\ UNCHANGED <<local, remote, sweeping, disk, contacted>>

(* The watcher stops the Pod at its deadline or on a stop request. *)
WatcherStops == /\ watcher = "armed" /\ watcher' = "gone"
                /\ PodDown
                /\ UNCHANGED <<armed, used, late, local, disk, contacted>>
WatcherDies == /\ watcher = "armed" /\ watcher' = "gone"
               /\ UNCHANGED <<armed, used, late, local, pod, contacted>>

Expire(a) == /\ ~At(a, "new") /\ a \notin late
             /\ late' = late \cup {a}
             /\ UNCHANGED <<host, local, pod, contacted>>

-----------------------------------------------------------------------------
(* Before the claim. *)

Start(a) == /\ At(a, "new")
            /\ armed # Nothing /\ WatcherVouches(armed)
            /\ at' = [at EXCEPT ![a].pc = "planned", ![a].session = armed]
            /\ UNCHANGED <<host, late, stops, claims, bundle, pod, contacted>>

(* An existing claim means a second attempt: it stops the session. *)
CheckClaim(a) == /\ At(a, "planned")
                 /\ Goto(a, IF claims[Session(a)] = Nothing THEN "unclaimed" ELSE "failing")
                 /\ UNCHANGED <<host, late, stops, claims, bundle, pod, contacted>>

(* mutated form: a refused attempt removes the directory it found. *)
MakeBundleCleaning(a) ==
  /\ At(a, "unclaimed")
  /\ IF bundle[Session(a)] = Nothing /\ Guard(a)
     THEN bundle' = [bundle EXCEPT ![Session(a)] = [owner |-> a, whole |-> FALSE]] /\ Goto(a, "copying")
     ELSE bundle' = [bundle EXCEPT ![Session(a)] = Nothing] /\ Goto(a, "refused")
  /\ UNCHANGED <<host, late, stops, claims, pod, contacted>>
(* The bundle directory of a session must be new; a found one is left. *)
MakeBundle(a) ==
  /\ At(a, "unclaimed")
  /\ IF bundle[Session(a)] = Nothing /\ Guard(a)
     THEN bundle' = [bundle EXCEPT ![Session(a)] = [owner |-> a, whole |-> FALSE]] /\ Goto(a, "copying")
     ELSE Goto(a, "refused") /\ UNCHANGED bundle
  /\ UNCHANGED <<host, late, stops, claims, pod, contacted>>

(* Copy and re-hash every planned file and write the manifest, or remove   *)
(* the directory again.                                                    *)
FillBundle(a) ==
  /\ At(a, "copying")
  /\ \/ /\ Guard(a)
        /\ bundle' = [bundle EXCEPT ![Session(a)] = [owner |-> a, whole |-> TRUE]]
        /\ Goto(a, "bundled")
     \/ bundle' = [bundle EXCEPT ![Session(a)] = Nothing] /\ Goto(a, "refused")
  /\ UNCHANGED <<host, late, stops, claims, pod, contacted>>

(* The last look before the claim; a refusal leaves the bundle behind. *)
Clear(a) == /\ At(a, "bundled")
            /\ Goto(a, IF Guard(a) THEN "cleared" ELSE "refused")
            /\ UNCHANGED <<host, late, stops, claims, bundle, pod, contacted>>

Claim(a) == /\ At(a, "cleared")
            /\ IF claims[Session(a)] = Nothing
               THEN claims' = [claims EXCEPT ![Session(a)] = a] /\ Goto(a, "check")
               ELSE Goto(a, "refused") /\ UNCHANGED claims
            /\ UNCHANGED <<host, late, stops, bundle, pod, contacted>>

-----------------------------------------------------------------------------
(* The claimed transfer: look at the guard, run a command, and so on. *)

(* mutated form: the final look at the guard is left out. *)
CheckExceptLast(a) ==
  /\ At(a, "check")
  /\ Goto(a, IF at[a].next > Len(Commands) THEN "done" ELSE IF Guard(a) THEN "send" ELSE "failing")
  /\ UNCHANGED <<host, late, stops, claims, bundle, pod, contacted>>
Check(a) ==
  /\ At(a, "check")
  /\ Goto(a, IF ~Guard(a) THEN "failing" ELSE IF at[a].next > Len(Commands) THEN "done" ELSE "send")
  /\ UNCHANGED <<host, late, stops, claims, bundle, pod, contacted>>

Send(a) ==
  /\ At(a, "send")
  /\ IF podUp THEN remote' = [remote EXCEPT ![a] = Commands[at[a].next]] /\ Goto(a, "wait")
     ELSE Goto(a, "failing") /\ UNCHANGED remote
  /\ contacted' = contacted \cup {a}
  /\ UNCHANGED <<host, late, stops, claims, bundle, podUp, sweeping, disk>>

Return(a) ==
  /\ At(a, "wait") /\ remote[a] \in {"ok", "failed"}
  /\ remote' = [remote EXCEPT ![a] = "none"]
  /\ at' = IF remote[a] = "ok" THEN [at EXCEPT ![a].pc = "check", ![a].next = @ + 1]
           ELSE [at EXCEPT ![a].pc = "failing"]
  /\ UNCHANGED <<host, late, stops, claims, bundle, podUp, sweeping, disk, contacted>>

(* The SSH client gives up; the remote command goes on. *)
Timeout(a) == /\ At(a, "wait") /\ remote[a] \notin {"ok", "failed"}
              /\ Goto(a, "failing")
              /\ UNCHANGED <<host, late, stops, claims, bundle, pod, contacted>>

(* Failing: a stop request, a bounded provider stop, a clean-up.  The      *)
(* request may raise before or after its file exists; the holder of the    *)
(* claim then goes on to the provider, a second attempt ends there.        *)
RequestStop(a) ==
  /\ At(a, "failing")
  /\ \/ /\ stops' = stops \cup {Session(a)}
        /\ at' = [at EXCEPT ![a].pc = "stopping", ![a].request = "made"]
     \/ /\ stops' \in {stops, stops \cup {Session(a)}}
        /\ at' = IF claims[Session(a)] = a
                 THEN [at EXCEPT ![a].pc = "stopping", ![a].request = "raised"]
                 ELSE [at EXCEPT ![a].pc = "refused", ![a].request = "raised", ![a].says = "raised"]
  /\ UNCHANGED <<host, late, claims, bundle, pod, contacted>>

(* Five tries to stop the exact Pod; they may all fail. *)
EmergencyStop(a) ==
  /\ At(a, "stopping")
  /\ \E stop \in {"confirmed", "unconfirmed"} :
       /\ IF stop = "confirmed" THEN PodDown ELSE UNCHANGED <<podUp, remote, sweeping>>
       /\ at' = IF claims[Session(a)] = a
                THEN [at EXCEPT ![a].pc = "sweep", ![a].stop = stop]
                ELSE [at EXCEPT ![a].pc = "refused", ![a].stop = stop,
                                ![a].says = IF stop = "confirmed" THEN "cause" ELSE "unstopped"]
  /\ UNCHANGED <<host, late, stops, claims, bundle, disk, contacted>>

(* mutated form: a failed request hides a failed stop. *)
ReportRequestFirst(a) == IF at[a].request # "made" THEN "unrequested"
                         ELSE IF at[a].stop # "confirmed" THEN "unstopped" ELSE "cause"
(* What the error says: that the stop is unconfirmed, else that it was not *)
(* requested, else only what failed the transfer.                          *)
Report(a) == IF at[a].stop # "confirmed" THEN "unstopped"
             ELSE IF at[a].request # "made" THEN "unrequested" ELSE "cause"

Sweep(a) == /\ At(a, "sweep")
            /\ sweeping' = IF podUp /\ place[a] = "stage" THEN sweeping \cup {a} ELSE sweeping
            /\ at' = [at EXCEPT ![a].pc = "failed", ![a].says = Report(a)]
            /\ UNCHANGED <<host, late, stops, claims, bundle, podUp, remote, disk, contacted>>

Kill(a) == /\ at[a].pc \notin {"new", "done", "failed", "refused", "killed"}
           /\ Goto(a, "killed")
           /\ UNCHANGED <<host, late, stops, claims, bundle, pod, contacted>>

AttemptStep(a) ==
  \/ CheckClaim(a) \/ MakeBundle(a) \/ FillBundle(a) \/ Clear(a) \/ Claim(a)
  \/ Check(a) \/ Send(a) \/ Return(a) \/ Timeout(a)
  \/ RequestStop(a) \/ EmergencyStop(a) \/ Sweep(a)

-----------------------------------------------------------------------------
(* On the Pod. *)

Environment == <<host, late, local, podUp, contacted>>
Result(a, r) == remote' = [remote EXCEPT ![a] = r]
InPlace == { t \in Trees : place[t] = "destination" }
Verified(a, where) == cond[a] = "whole" /\ place[a] = where /\ a \notin late

(* clone, checkout, prepare and rsync take a stage from one form to the next. *)
Forms == { <<"clone", "absent", "cloned">>, <<"checkout", "cloned", "source">>,
           <<"prepare", "source", "source">>, <<"rsync", "source", "whole">> }
BuildStage(a) ==
  \E f \in Forms :
    /\ remote[a] = f[1]
    /\ IF cond[a] = f[2]
       THEN /\ cond' = [cond EXCEPT ![a] = f[3]] /\ place' = [place EXCEPT ![a] = "stage"]
            /\ Result(a, "ok")
       ELSE Result(a, "failed") /\ UNCHANGED <<cond, place>>
    /\ UNCHANGED <<Environment, sweeping, archives>>

VerifyTree(a) ==
  \E where \in {"stage", "destination"} :
    /\ remote[a] = (IF where = "stage" THEN "verify" ELSE "verify_installed")
    /\ Result(a, IF Verified(a, where) THEN "ok" ELSE "failed")
    /\ UNCHANGED <<Environment, sweeping, disk>>

CommandFails(a) == /\ remote[a] \in ToSet(Commands)
                   /\ Result(a, "failed")
                   /\ UNCHANGED <<Environment, sweeping, disk>>

(* install: both checkouts exist, the stage verifies, its archive is new. *)
InstallBegin(a) ==
  /\ remote[a] = "install"
  /\ IF InPlace # {} /\ Verified(a, "stage") /\ a \notin archives
     THEN archives' = archives \cup {a} /\ Result(a, "archiving")
     ELSE Result(a, "failed") /\ UNCHANGED archives
  /\ UNCHANGED <<Environment, sweeping, cond, place>>

(* mutated form: the old checkout is removed, not archived. *)
RemoveOld(a) ==
  /\ remote[a] = "archiving"
  /\ place' = [t \in Trees |-> IF t \in InPlace THEN "nowhere" ELSE place[t]]
  /\ Result(a, "moved")
  /\ UNCHANGED <<Environment, sweeping, cond, archives>>
ArchiveOld(a) ==
  /\ remote[a] = "archiving"
  /\ place' = [t \in Trees |-> IF t \in InPlace THEN a ELSE place[t]]
  /\ Result(a, "moved")
  /\ UNCHANGED <<Environment, sweeping, cond, archives>>

Promote(a) ==
  /\ remote[a] = "moved"
  /\ IF place[a] = "stage"
     THEN place' = [place EXCEPT ![a] = "destination"] /\ Result(a, "promoted")
     ELSE Result(a, "restoring") /\ UNCHANGED place
  /\ UNCHANGED <<Environment, sweeping, cond, archives>>

VerifyPromoted(a) ==
  /\ remote[a] = "promoted"
  /\ Result(a, IF Verified(a, "destination") THEN "ok" ELSE "unpromoting")
  /\ UNCHANGED <<Environment, sweeping, disk>>

(* Rollback: the failed checkout back to its stage, then the old one back. *)
Unpromote(a) ==
  /\ remote[a] = "unpromoting"
  /\ place' = [place EXCEPT ![a] = "stage"]
  /\ Result(a, "restoring")
  /\ UNCHANGED <<Environment, sweeping, cond, archives>>
Restore(a) ==
  /\ remote[a] = "restoring"
  /\ place' = [t \in Trees |-> IF place[t] = a THEN "destination" ELSE place[t]]
  /\ Result(a, "failed")
  /\ UNCHANGED <<Environment, sweeping, cond, archives>>

(* rm -rf of a stage empties the tree it opened, also after a rename. *)
Erode(a) == /\ a \in sweeping /\ cond[a] # "eroded"
            /\ cond' = [cond EXCEPT ![a] = "eroded"]
            /\ UNCHANGED <<Environment, remote, sweeping, place, archives>>
EndSweep(a) ==
  /\ a \in sweeping /\ cond[a] = "eroded"
  /\ sweeping' = sweeping \ {a}
  /\ IF place[a] = "stage"
     THEN cond' = [cond EXCEPT ![a] = "absent"] /\ place' = [place EXCEPT ![a] = "nowhere"]
     ELSE UNCHANGED <<cond, place>>
  /\ UNCHANGED <<Environment, remote, archives>>

RemoteStep(a) ==
  \/ BuildStage(a) \/ VerifyTree(a) \/ CommandFails(a)
  \/ InstallBegin(a) \/ ArchiveOld(a) \/ Promote(a) \/ VerifyPromoted(a)
  \/ Unpromote(a) \/ Restore(a) \/ Erode(a) \/ EndSweep(a)

Next == \/ \E s \in Sessions : Arm(s)
        \/ WatcherStops \/ WatcherDies
        \/ \E a \in Attempts : Expire(a) \/ Start(a) \/ AttemptStep(a) \/ Kill(a) \/ RemoteStep(a)

Spec == Init /\ [][Next]_vars

-----------------------------------------------------------------------------
(* Properties. *)

InstallSteps == {"archiving", "moved", "promoted", "unpromoting", "restoring"}

(* The Pod is contacted by at most one attempt of a session, the one that  *)
(* holds its claim, and the bundle it transfers stays whole and its own:   *)
(* no other attempt, before or after, removes or replaces it.              *)
OneTransfer ==
  \A a \in contacted : /\ claims[Session(a)] = a
                       /\ bundle[Session(a)] = [owner |-> a, whole |-> TRUE]

(* The checkout found at first and each one a transfer reported installed  *)
(* stay whole, in place or archived, through all later installs, rollbacks *)
(* and clean-ups, also those a stopped Pod cut short.  With no checkout in *)
(* place, the one to put back is in the archive of the very attempt whose  *)
(* own checkout did not make it.                                           *)
InstalledKept ==
  /\ \A t \in {Original} \cup { a \in Attempts : At(a, "done") } :
       cond[t] = "whole" /\ place[t] \in {"destination"} \cup Attempts
  /\ InPlace = {} => \E a \in archives : /\ place[a] \in {"stage", "nowhere"}
                                        /\ \E t \in Trees : place[t] = a

(* A transfer reports success only for a session still re-armed, watched   *)
(* and without stop request, with its verified checkout in place.          *)
SuccessIsInstalled ==
  [][ \A a \in Attempts : ~At(a, "done") /\ at'[a].pc = "done" =>
        /\ armed = Session(a) /\ WatcherVouches(armed)
        /\ Verified(a, "destination") ]_vars

(* A failed transfer, and a second attempt that finds a claim, may fail to *)
(* request the stop, to stop the Pod, or both; but an error that does not  *)
(* say so is true: whoever ends without naming the stop has left a durable *)
(* request, and the Pod of its session is down from then on, whatever      *)
(* others start, stop or clean up; naming the request alone, it is down.   *)
StopIsTold ==
  \A a \in Attempts :
    /\ at[a].says = "cause" => Session(a) \in stops
    /\ at[a].says \in {"cause", "unrequested"} /\ armed = Session(a) => ~podUp
=============================================================================
