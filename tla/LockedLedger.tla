---------------------------- MODULE LockedLedger ----------------------------
(***************************************************************************)
(* How several processes share the ledger file: every CostLedger operation *)
(* opens the lock file, takes flock(LOCK_EX), loads the YAML document,     *)
(* decides on the loaded copy, replaces the file atomically, unlocks and   *)
(* returns.  A process may die anywhere; the kernel then drops its flock   *)
(* and the file holds the old or the new document, never a mixture.        *)
(***************************************************************************)
EXTENDS LedgerDocument

CONSTANTS Procs, Requests, NoProc, NoRequest

ASSUME ProcsAssumption == NoProc \notin Procs /\ NoRequest \notin Requests
ASSUME CallsAssumption == WellFormedCalls(Requests)

VARIABLES file,      \* the document on disk
          lock,      \* holder of the flock, or NoProc
          at,        \* where each process is inside its operation
          req,       \* the operation each process is running
          snapshot,  \* the copy _load_unlocked returned to it
          grants     \* history: normal returns of reserve_once, per entry id

ledgerVars == <<file, lock, at, req, snapshot, grants>>

Critical == {"locked", "loaded", "written"}
Steps == {"idle", "waiting"} \cup Critical

LedgerInit ==
  /\ file = EmptyLedger
  /\ lock = NoProc
  /\ at = [p \in Procs |-> "idle"]
  /\ req = [p \in Procs |-> NoRequest]
  /\ snapshot = [p \in Procs |-> EmptyLedger]
  /\ grants = [i \in EntryIds |-> 0]

Begin(p, r) ==
  /\ at[p] = "idle"
  /\ at' = [at EXCEPT ![p] = "waiting"]
  /\ req' = [req EXCEPT ![p] = r]
  /\ UNCHANGED <<file, lock, snapshot, grants>>

AcquireUnlocked(p) ==       \* mutated form: the flock is not exclusive
  /\ at[p] = "waiting"
  /\ lock' = p
  /\ at' = [at EXCEPT ![p] = "locked"]
  /\ UNCHANGED <<file, req, snapshot, grants>>

Acquire(p) ==
  /\ at[p] = "waiting"
  /\ lock = NoProc
  /\ lock' = p
  /\ at' = [at EXCEPT ![p] = "locked"]
  /\ UNCHANGED <<file, req, snapshot, grants>>

Load(p) ==
  /\ at[p] = "locked"
  /\ snapshot' = [snapshot EXCEPT ![p] = file]
  /\ at' = [at EXCEPT ![p] = "loaded"]
  /\ UNCHANGED <<file, lock, req, grants>>

(* A replay (the result is the loaded document) does not write the file.   *)
Write(p) ==
  /\ at[p] = "loaded"
  /\ Accepts(snapshot[p], req[p])
  /\ file' = IF Result(snapshot[p], req[p]) = snapshot[p]
             THEN file ELSE Result(snapshot[p], req[p])
  /\ at' = [at EXCEPT ![p] = "written"]
  /\ UNCHANGED <<lock, req, snapshot, grants>>

Leave(p) ==
  /\ lock' = IF lock = p THEN NoProc ELSE lock
  /\ at' = [at EXCEPT ![p] = "idle"]
  /\ req' = [req EXCEPT ![p] = NoRequest]
  /\ snapshot' = [snapshot EXCEPT ![p] = EmptyLedger]

Reject(p) ==
  /\ at[p] = "loaded"
  /\ ~Accepts(snapshot[p], req[p])
  /\ Leave(p)
  /\ UNCHANGED <<file, grants>>

Return(p) ==
  /\ at[p] = "written"
  /\ Leave(p)
  /\ grants' = [i \in EntryIds |->
                  IF req[p].op = "reserve_once" /\ i \in DOMAIN req[p].items
                  THEN grants[i] + 1 ELSE grants[i]]
  /\ UNCHANGED file

DieTruncates(p) ==        \* mutated form: the document is rewritten in place
  /\ at[p] # "idle"
  /\ Leave(p)
  /\ file' = IF at[p] = "loaded" THEN EmptyLedger ELSE file
  /\ UNCHANGED grants

Die(p) ==
  /\ at[p] # "idle"
  /\ Leave(p)
  /\ UNCHANGED <<file, grants>>

Proceed(p) == Load(p) \/ Write(p) \/ Reject(p) \/ Return(p)

LedgerNext ==
  \E p \in Procs : \/ \E r \in Requests : Begin(p, r)
                  \/ Acquire(p)
                  \/ Proceed(p)
                  \/ Die(p)

LedgerSpec == LedgerInit /\ [][LedgerNext]_ledgerVars

-----------------------------------------------------------------------------
Atomic == INSTANCE CostLedger WITH doc <- file

LedgerTypeOK ==
  /\ IsLedger(file)
  /\ lock \in Procs \cup {NoProc}
  /\ at \in [Procs -> Steps]
  /\ req \in [Procs -> Requests \cup {NoRequest}]
  /\ snapshot = [p \in Procs |-> snapshot[p]]
  /\ \A p \in Procs : IsLedger(snapshot[p])
  /\ \A p \in Procs : at[p] # "idle" => req[p] \in Requests
  /\ grants \in [EntryIds -> Nat]

(* Hard stops: whatever the processes do, and wherever they die, the       *)
(* committed GPU, API and overall cost on disk stays within the caps.      *)
CapsRespected == WithinLimits(file)

(* reserve_once never lets two callers proceed under one identity.         *)
OneUseGrants == \A i \in EntryIds : grants[i] <= 1

(* At most one unsettled GPU reservation exists.                           *)
OneGpuSession == OneGpuEstimate(file)

(* No process's write undoes another's: entries are never lost, and an     *)
(* incurred entry never changes again.                                     *)
NoLostUpdate == [][Extends(file, file')]_ledgerVars

(* Every operation takes effect as one indivisible CostLedger step.        *)
ImplementsCostLedger == Atomic!Spec

(* The inductive invariant behind them: who is inside the critical section *)
(* holds the lock, what it decided on is what is on disk, and a pending    *)
(* one-use return is the first for its id.                                 *)
LockHeld     == \A p \in Procs : at[p] \in Critical <=> lock = p
SnapshotFresh == \A p \in Procs : at[p] = "loaded" => snapshot[p] = file
GrantsRecorded ==
  /\ \A i \in EntryIds : grants[i] >= 1 => i \in DOMAIN file
  /\ \A p \in Procs : at[p] = "written" /\ req[p].op = "reserve_once" =>
        \A i \in DOMAIN req[p].items : i \in DOMAIN file /\ grants[i] = 0

LockInv == /\ LedgerTypeOK
           /\ LockHeld
           /\ SnapshotFresh
           /\ CapsRespected
           /\ OneGpuSession
           /\ OneUseGrants
           /\ GrantsRecorded

=============================================================================
