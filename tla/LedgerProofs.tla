---------------------------- MODULE LedgerProofs ----------------------------
(***************************************************************************)
(* The cost ledger and the paid calls that live on it.                     *)
(*                                                                         *)
(* First the ledger: for any number of processes, entries, amounts and     *)
(* hard stops it keeps its types, caps, one-use grants and one GPU         *)
(* session, loses no update, and implements the one-step CostLedger.       *)
(*                                                                         *)
(* Then the paid calls, which take CostLedger steps: for any processes,    *)
(* requests, phases, bounds and answers the store and the claims never let *)
(* a request reach the paid provider twice, a request that went out always *)
(* left a durable trace, and evidence is never lost.  What was sent is in  *)
(* the ledger, and no hard stop halts a reserved phase while its answers   *)
(* cost no more than their bounds: the sums behind                         *)
(* the hard stops are reasoned about by smallest subsets, since a sum over *)
(* a finite set is a recursive function.                                   *)
(***************************************************************************)
EXTENDS LockedLedger, PaidDispatch, FiniteSetTheorems, WellFoundedInduction, TLAPS

-----------------------------------------------------------------------------
(* Lemmas about documents *)

LEMMA TotalOfEmpty == ASSUME NEW k, NEW s PROVE Total(EmptyLedger, k, s) = 0
<1>1. DOMAIN EmptyLedger = {}
  BY DEF EmptyLedger
<1>2. {i \in DOMAIN EmptyLedger : EmptyLedger[i].kind \in k /\ EmptyLedger[i].status \in s} = {}
  BY <1>1
<1> DEFINE f(x) == EmptyLedger[x].amount
           ch(z) == CHOOSE x \in z : TRUE
           F(g) == g = [z \in SUBSET {} |-> IF z = {} THEN 0 ELSE f(ch(z)) + g[z \ {ch(z)}]]
<1>3. F([z \in SUBSET {} |-> 0])
  <2> SUFFICES [z \in SUBSET {} |-> 0] =
      [z \in SUBSET {} |-> IF z = {} THEN 0
           ELSE f(ch(z)) + [w \in SUBSET {} |-> 0][z \ {ch(z)}]]
    OBVIOUS
  <2> HIDE DEF f, ch
  <2> QED OBVIOUS
<1>4. F(CHOOSE g : F(g))
  <2> HIDE DEF F
  <2> QED BY <1>3
<1>5. (CHOOSE g : F(g))[{}] = 0
  <2>1. {} \in SUBSET {} OBVIOUS
  <2> DEFINE h == CHOOSE g : F(g)
  <2>2. h = [z \in SUBSET {} |-> IF z = {} THEN 0 ELSE f(ch(z)) + h[z \ {ch(z)}]]
    BY <1>4
  <2> HIDE DEF h, f, ch
  <2> QED BY <2>1, <2>2
<1>6. Total(EmptyLedger, k, s) = (CHOOSE g : F(g))[{}]
  BY <1>2 DEF Total, MapThenSumSet, MapThenFoldSet
<1>7. QED
  BY <1>5, <1>6

LEMMA EmptyWithinLimits == WithinLimits(EmptyLedger) /\ IsLedger(EmptyLedger)
                           /\ OneGpuEstimate(EmptyLedger)
<1>1. DOMAIN EmptyLedger = {} /\ EmptyLedger \in [{} -> Entry]
  BY DEF EmptyLedger
<1>2. QED
  BY <1>1, TotalOfEmpty, LedgerAssumption
  DEF WithinLimits, Committed, IsLedger, OneGpuEstimate, Outstanding

(* What an accepted call writes back: a ledger within the caps that extends *)
(* the loaded one and holds at most one GPU estimate.                       *)
LEMMA AcceptedResult ==
  ASSUME NEW d, IsLedger(d), NEW r \in Requests, Accepts(d, r)
  PROVE  /\ IsLedger(Result(d, r))
         /\ WithinLimits(Result(d, r))
         /\ Extends(d, Result(d, r))
<1>1. IsRequest(r) /\ IsLedger(r.items)
  BY CallsAssumption DEF WellFormedCalls, IsRequest
<1>2. CASE r.op = "settle_reservation"
  <2>1. SettleAccepts(d, r) /\ Result(d, r) = ReplaceEntries(d, r.items)
    BY <1>2 DEF Accepts, Result
  <2>2. IsLedger(ReplaceEntries(d, r.items))
    BY <1>1 DEF IsLedger, ReplaceEntries
  <2>3. Extends(d, ReplaceEntries(d, r.items))
    BY <2>1, <1>1 DEF Extends, SettleAccepts, ReplaceEntries, IsLedger
  <2>4. QED BY <2>1, <2>2, <2>3 DEF SettleAccepts
<1>3. CASE r.op # "settle_reservation"
  <2>1. Result(d, r) = AddMissing(d, r.items)
    BY <1>3 DEF Result
  <2>2. IsLedger(AddMissing(d, r.items))
    BY <1>1 DEF IsLedger, AddMissing
  <2>3. Extends(d, AddMissing(d, r.items))
    BY DEF Extends, AddMissing
  <2>4. WithinLimits(AddMissing(d, r.items))
    BY <1>3 DEF Accepts, AppendAccepts, ReserveAccepts, ReserveBatchAccepts, ReserveOnceAccepts
  <2>5. QED BY <2>1, <2>2, <2>3, <2>4
<1>4. QED BY <1>2, <1>3

LEMMA AcceptedGpu ==
  ASSUME NEW d, IsLedger(d), NEW r \in Requests, Accepts(d, r), OneGpuEstimate(d)
  PROVE  OneGpuEstimate(Result(d, r))
<1> DEFINE e == Result(d, r)
<1>1. /\ IsRequest(r) /\ IsLedger(r.items)
      /\ \A i \in DOMAIN r.items : r.items[i].kind = "gpu" /\ r.items[i].status = "estimated"
            => r.op = "reserve_once" /\ r.exclusive
  BY CallsAssumption DEF WellFormedCalls, IsRequest
<1>2. CASE r.op = "settle_reservation"
  <2>1. \A i \in DOMAIN e : i \in DOMAIN d /\ (i \in DOMAIN r.items \/ e[i] = d[i])
    BY <1>2 DEF Result, ReplaceEntries
  <2>2. \A i \in DOMAIN e : i \in DOMAIN r.items => e[i].status = "incurred"
    BY <1>1, <1>2 DEF Result, ReplaceEntries, IsRequest
  <2>3. QED BY <2>1, <2>2 DEF OneGpuEstimate, Outstanding
<1>3. CASE r.op = "reserve_once" /\ r.exclusive
  <2>1. PICK k \in EntryIds : DOMAIN r.items = {k}
    BY <1>1, <1>3 DEF IsRequest, SingleOps
  <2>2. k \notin DOMAIN d /\ NoOutstandingKind(d, r)
    BY <1>3, <2>1 DEF Accepts, ReserveOnceAccepts
  <2>3. DOMAIN e = DOMAIN d \cup {k} /\ e[k] = r.items[k] /\ \A i \in DOMAIN d : e[i] = d[i]
    BY <1>3, <2>1, <2>2 DEF Result, AddMissing
  <2>4. CASE r.items[k].kind = "gpu"
    <3>1. \A i \in DOMAIN d : d[i].kind = "gpu" => d[i].status # "estimated"
      BY <2>1, <2>2, <2>4 DEF NoOutstandingKind
    <3>2. QED BY <2>3, <3>1 DEF OneGpuEstimate, Outstanding
  <2>5. CASE r.items[k].kind # "gpu"
    BY <2>3, <2>5 DEF OneGpuEstimate, Outstanding
  <2>6. QED BY <2>4, <2>5
<1>4. CASE r.op # "settle_reservation" /\ ~(r.op = "reserve_once" /\ r.exclusive)
  <2>1. \A i \in DOMAIN r.items : ~(r.items[i].kind = "gpu" /\ r.items[i].status = "estimated")
    BY <1>1, <1>4
  <2>2. \A i \in DOMAIN e : \/ i \in DOMAIN d /\ e[i] = d[i]
                            \/ i \in DOMAIN r.items /\ e[i] = r.items[i]
    BY <1>4 DEF Result, AddMissing
  <2>3. QED BY <2>1, <2>2 DEF OneGpuEstimate, Outstanding
<1>5. QED BY <1>2, <1>3, <1>4

LEMMA ExtendsReflexive == ASSUME NEW d PROVE Extends(d, d)
BY DEF Extends

-----------------------------------------------------------------------------
(* The inductive invariant *)

LEMMA InitLockInv == LedgerInit => LockInv
<1> SUFFICES ASSUME LedgerInit PROVE LockInv OBVIOUS
<1>1. LedgerTypeOK
  BY EmptyWithinLimits, ProcsAssumption DEF LedgerInit, LedgerTypeOK, Steps
<1>2. CapsRespected /\ OneGpuSession
  BY EmptyWithinLimits DEF LedgerInit, CapsRespected, OneGpuSession
<1>3. LockHeld /\ SnapshotFresh /\ OneUseGrants /\ GrantsRecorded
  BY ProcsAssumption DEF LedgerInit, LockHeld, SnapshotFresh, OneUseGrants, GrantsRecorded, Critical
<1>4. QED BY <1>1, <1>2, <1>3 DEF LockInv

(* What Write does, under the invariant: one step of the atomic ledger.     *)
LEMMA WriteStep ==
  ASSUME LockInv, NEW p \in Procs, Write(p)
  PROVE  /\ req[p] \in Requests
         /\ snapshot[p] = file
         /\ Accepts(file, req[p])
         /\ file' = Result(file, req[p])
<1>1. at[p] = "loaded" /\ at[p] # "idle"
  BY DEF Write
<1>2. req[p] \in Requests /\ snapshot[p] = file
  BY <1>1 DEF LockInv, LedgerTypeOK, SnapshotFresh
<1>3. QED BY <1>2 DEF Write

LEMMA NextLockInv == LockInv /\ [LedgerNext]_ledgerVars => LockInv'
<1> SUFFICES ASSUME LockInv, [LedgerNext]_ledgerVars PROVE LockInv' OBVIOUS
<1> USE DEF LockInv
<1>1. ASSUME NEW p \in Procs, NEW r \in Requests, Begin(p, r) PROVE LockInv'
  <2>1. LedgerTypeOK' BY <1>1 DEF Begin, LedgerTypeOK, Steps
  <2>2. LockHeld' /\ SnapshotFresh'
    BY <1>1 DEF Begin, LedgerTypeOK, LockHeld, SnapshotFresh, Critical
  <2>3. GrantsRecorded' BY <1>1 DEF Begin, LedgerTypeOK, GrantsRecorded
  <2>4. CapsRespected' /\ OneGpuSession' /\ OneUseGrants'
    BY <1>1 DEF Begin, CapsRespected, OneGpuSession, OneUseGrants
  <2>5. QED BY <2>1, <2>2, <2>3, <2>4
<1>2. ASSUME NEW p \in Procs, Acquire(p) PROVE LockInv'
  <2>1. LedgerTypeOK' BY <1>2 DEF Acquire, LedgerTypeOK, Steps, Critical
  <2>2. LockHeld' BY <1>2, ProcsAssumption DEF Acquire, LedgerTypeOK, LockHeld, Critical
  <2>3. SnapshotFresh' BY <1>2 DEF Acquire, LedgerTypeOK, SnapshotFresh
  <2>4. GrantsRecorded' BY <1>2 DEF Acquire, LedgerTypeOK, GrantsRecorded
  <2>5. CapsRespected' /\ OneGpuSession' /\ OneUseGrants'
    BY <1>2 DEF Acquire, CapsRespected, OneGpuSession, OneUseGrants
  <2>6. QED BY <2>1, <2>2, <2>3, <2>4, <2>5
<1>3. ASSUME NEW p \in Procs, Load(p) PROVE LockInv'
  <2>1. LedgerTypeOK' BY <1>3 DEF Load, LedgerTypeOK, Steps, Critical
  <2>2. LockHeld' BY <1>3 DEF Load, LedgerTypeOK, LockHeld, Critical
  <2>3. SnapshotFresh' BY <1>3 DEF Load, LedgerTypeOK, SnapshotFresh
  <2>4. GrantsRecorded' BY <1>3 DEF Load, LedgerTypeOK, GrantsRecorded
  <2>5. CapsRespected' /\ OneGpuSession' /\ OneUseGrants'
    BY <1>3 DEF Load, CapsRespected, OneGpuSession, OneUseGrants
  <2>6. QED BY <2>1, <2>2, <2>3, <2>4, <2>5
<1>4. ASSUME NEW p \in Procs, Write(p) PROVE LockInv'
  <2>0. /\ req[p] \in Requests
        /\ Accepts(file, req[p])
        /\ file' = Result(file, req[p])
    BY <1>4, WriteStep
  <2>1. IsLedger(file') /\ WithinLimits(file') /\ Extends(file, file')
    BY <2>0, AcceptedResult DEF LedgerTypeOK
  <2>2. LedgerTypeOK'
    BY <1>4, <2>1 DEF Write, LedgerTypeOK, Steps, Critical
  <2>3. LockHeld' BY <1>4 DEF Write, LedgerTypeOK, LockHeld, Critical
  <2>4. SnapshotFresh'
    <3>1. lock = p BY <1>4 DEF Write, LockHeld, Critical
    <3>2. \A q \in Procs : q # p => at[q] \notin Critical
      BY <3>1 DEF LockHeld
    <3>3. QED BY <1>4, <3>2 DEF Write, LedgerTypeOK, SnapshotFresh, Critical
  <2>5. GrantsRecorded'
    <3>1. DOMAIN file \subseteq DOMAIN file' BY <2>1 DEF Extends
    <3>2. grants' = grants /\ req' = req BY <1>4 DEF Write
    <3>3. \A q \in Procs : q # p => at'[q] # "written"
      BY <1>4 DEF Write, LedgerTypeOK, LockHeld, Critical
    <3>4. ASSUME req[p].op = "reserve_once", NEW i \in DOMAIN req[p].items
          PROVE  i \in DOMAIN file' /\ grants[i] = 0
      <4>1. IsLedger(req[p].items)
        BY <2>0, CallsAssumption DEF WellFormedCalls, IsRequest
      <4>2. i \in EntryIds BY <4>1 DEF IsLedger
      <4>3. i \notin DOMAIN file
        BY <2>0, <3>4 DEF Accepts, ReserveOnceAccepts
      <4>4. i \in DOMAIN file'
        BY <2>0, <3>4 DEF Result, AddMissing
      <4>5. grants[i] = 0
        BY <4>2, <4>3 DEF GrantsRecorded, LedgerTypeOK
      <4>6. QED BY <4>4, <4>5
    <3>5. QED BY <3>1, <3>2, <3>3, <3>4 DEF GrantsRecorded
  <2>6. OneGpuSession'
    BY <2>0, AcceptedGpu DEF LedgerTypeOK, OneGpuSession
  <2>7. CapsRespected' /\ OneUseGrants'
    BY <1>4, <2>1 DEF Write, CapsRespected, OneUseGrants
  <2>8. QED BY <2>2, <2>3, <2>4, <2>5, <2>6, <2>7
<1>5. ASSUME NEW p \in Procs, Reject(p) \/ Die(p) PROVE LockInv'
  <2> USE DEF Reject, Die, Leave
  <2>1. LedgerTypeOK' BY <1>5, EmptyWithinLimits DEF LedgerTypeOK, Steps
  <2>2. LockHeld'
    BY <1>5, ProcsAssumption DEF LedgerTypeOK, LockHeld, Critical
  <2>3. SnapshotFresh' BY <1>5 DEF LedgerTypeOK, SnapshotFresh
  <2>4. GrantsRecorded' BY <1>5 DEF LedgerTypeOK, GrantsRecorded
  <2>5. CapsRespected' /\ OneGpuSession' /\ OneUseGrants'
    BY <1>5 DEF CapsRespected, OneGpuSession, OneUseGrants
  <2>6. QED BY <2>1, <2>2, <2>3, <2>4, <2>5
<1>6. ASSUME NEW p \in Procs, Return(p) PROVE LockInv'
  <2> USE DEF Return, Leave
  <2>1. LedgerTypeOK' BY <1>6, EmptyWithinLimits DEF LedgerTypeOK, Steps
  <2>2. LockHeld' BY <1>6, ProcsAssumption DEF LedgerTypeOK, LockHeld, Critical
  <2>3. SnapshotFresh' BY <1>6 DEF LedgerTypeOK, SnapshotFresh
  <2>4. \A q \in Procs : at'[q] # "written"
    BY <1>6 DEF LedgerTypeOK, LockHeld, Critical
  <2>5. ASSUME NEW i \in EntryIds
        PROVE  grants'[i] <= 1 /\ (grants'[i] >= 1 => i \in DOMAIN file)
    <3>1. CASE req[p].op = "reserve_once" /\ i \in DOMAIN req[p].items
      <4>1. grants[i] = 0 /\ i \in DOMAIN file BY <1>6, <3>1 DEF GrantsRecorded
      <4>2. grants'[i] = 1 BY <1>6, <3>1, <4>1
      <4>3. QED BY <4>1, <4>2
    <3>2. CASE ~(req[p].op = "reserve_once" /\ i \in DOMAIN req[p].items)
      <4>1. grants'[i] = grants[i] BY <1>6, <3>2
      <4>2. QED BY <4>1 DEF GrantsRecorded, OneUseGrants
    <3>3. QED BY <3>1, <3>2
  <2>6. GrantsRecorded' /\ OneUseGrants'
    BY <1>6, <2>4, <2>5 DEF GrantsRecorded, OneUseGrants
  <2>7. CapsRespected' /\ OneGpuSession' BY <1>6 DEF CapsRespected, OneGpuSession
  <2>8. QED BY <2>1, <2>2, <2>3, <2>6, <2>7
<1>7. CASE UNCHANGED ledgerVars
  BY <1>7 DEF ledgerVars, LedgerTypeOK, LockHeld, SnapshotFresh, CapsRespected, OneGpuSession,
              OneUseGrants, GrantsRecorded
<1>8. QED
  BY <1>1, <1>2, <1>3, <1>4, <1>5, <1>6, <1>7 DEF LedgerNext, Proceed

(* The invariant holds of every reachable state. *)
THEOREM LockInvariance == LedgerSpec => []LockInv
<1>1. QED BY InitLockInv, NextLockInv, PTL DEF LedgerSpec

(* Types: budget.py never writes a document its own loader would refuse.    *)
THEOREM LockTypeCorrect == LedgerSpec => []LedgerTypeOK
<1>1. LockInv => LedgerTypeOK BY DEF LockInv
<1>2. QED BY <1>1, LockInvariance, PTL

(* The hard stops hold on disk for every schedule and crash.                *)
THEOREM CapsSafe == LedgerSpec => []CapsRespected
<1>1. LockInv => CapsRespected BY DEF LockInv
<1>2. QED BY <1>1, LockInvariance, PTL

(* A one-use reservation authorises at most one caller.                     *)
THEOREM OneUseSafe == LedgerSpec => []OneUseGrants
<1>1. LockInv => OneUseGrants BY DEF LockInv
<1>2. QED BY <1>1, LockInvariance, PTL

(* No two GPU sessions are reserved and unsettled together.                 *)
THEOREM OneGpuSafe == LedgerSpec => []OneGpuSession
<1>1. LockInv => OneGpuSession BY DEF LockInv
<1>2. QED BY <1>1, LockInvariance, PTL

(* No step of any process loses an entry or changes an incurred one.        *)
THEOREM NoUpdateLost == LedgerSpec => NoLostUpdate
<1>1. LockInv /\ [LedgerNext]_ledgerVars => [Extends(file, file')]_ledgerVars
  <2> SUFFICES ASSUME LockInv, LedgerNext PROVE Extends(file, file')
    BY DEF ledgerVars
  <2>1. PICK p \in Procs : \/ \E r \in Requests : Begin(p, r)
                           \/ Acquire(p) \/ Proceed(p) \/ Die(p)
    BY DEF LedgerNext
  <2>2. CASE Write(p)
    BY <2>2, WriteStep, AcceptedResult DEF LockInv, LedgerTypeOK
  <2>3. CASE ~Write(p)
    <3>1. file' = file
      BY <2>1, <2>3 DEF Begin, Acquire, Proceed, Load, Reject, Return, Die
    <3>2. QED BY <3>1, ExtendsReflexive
  <2>4. QED BY <2>2, <2>3
<1>2. QED BY <1>1, LockInvariance, PTL DEF LedgerSpec, NoLostUpdate

(* The instance of CostLedger speaks of the same documents and decisions.   *)
LEMMA SameTotal == \A d, k, s : Atomic!Total(d, k, s) = Total(d, k, s)
BY DEF Total, Atomic!Total, MapThenSumSet, Atomic!MapThenSumSet,
       MapThenFoldSet, Atomic!MapThenFoldSet

LEMMA SameLimits == \A d : Atomic!WithinLimits(d) <=> WithinLimits(d)
BY SameTotal DEF WithinLimits, Atomic!WithinLimits, Committed, Atomic!Committed,
                 Kinds, Atomic!Kinds, Statuses, Atomic!Statuses

LEMMA SameDecisions ==
  ASSUME NEW d, NEW r, Accepts(d, r)
  PROVE  Atomic!Accepts(d, r) /\ Atomic!Result(d, r) = Result(d, r)
<1>1. /\ Atomic!AddMissing(d, r.items) = AddMissing(d, r.items)
      /\ Atomic!ReplaceEntries(d, r.items) = ReplaceEntries(d, r.items)
  BY DEF AddMissing, Atomic!AddMissing, ReplaceEntries, Atomic!ReplaceEntries
<1>2. Atomic!Result(d, r) = Result(d, r)
  BY <1>1 DEF Result, Atomic!Result
<1>3. r.op = "append" /\ AppendAccepts(d, r) => Atomic!AppendAccepts(d, r)
  BY <1>1, SameLimits DEF AppendAccepts, Atomic!AppendAccepts
<1>4. r.op = "reserve" /\ ReserveAccepts(d, r) => Atomic!ReserveAccepts(d, r)
  BY <1>1, SameLimits
  DEF ReserveAccepts, Atomic!ReserveAccepts, CoversEstimate, Atomic!CoversEstimate
<1>5. r.op = "reserve_batch" /\ ReserveBatchAccepts(d, r) => Atomic!ReserveBatchAccepts(d, r)
  BY <1>1, SameLimits
  DEF ReserveBatchAccepts, Atomic!ReserveBatchAccepts, CoversEstimate, Atomic!CoversEstimate,
      Settled, Atomic!Settled
<1>6. r.op = "reserve_once" /\ ReserveOnceAccepts(d, r) => Atomic!ReserveOnceAccepts(d, r)
  BY <1>1, SameLimits, SameTotal
  DEF ReserveOnceAccepts, Atomic!ReserveOnceAccepts, NoOutstandingKind, Atomic!NoOutstandingKind,
      Committed, Atomic!Committed, Statuses, Atomic!Statuses
<1>7. r.op = "settle_reservation" /\ SettleAccepts(d, r) => Atomic!SettleAccepts(d, r)
  BY <1>1, SameLimits DEF SettleAccepts, Atomic!SettleAccepts
<1>8. QED
  BY <1>2, <1>3, <1>4, <1>5, <1>6, <1>7, SameLimits DEF Accepts, Atomic!Accepts

(* The shared, locked, crash-prone ledger implements the one-step ledger.   *)
THEOREM Refinement == LedgerSpec => ImplementsCostLedger
<1>1. LedgerInit => Atomic!Init
  BY DEF LedgerInit, Atomic!Init, EmptyLedger, Atomic!EmptyLedger
<1>2. LockInv /\ [LedgerNext]_ledgerVars => [Atomic!Next]_file
  <2> SUFFICES ASSUME LockInv, LedgerNext, file' # file PROVE Atomic!Next
    BY DEF ledgerVars
  <2>1. PICK p \in Procs : Write(p)
    BY DEF LedgerNext, Begin, Acquire, Proceed, Load, Reject, Return, Die
  <2>2. QED BY <2>1, WriteStep, SameDecisions DEF Atomic!Next, Atomic!Apply
<1>3. QED BY <1>1, <1>2, LockInvariance, PTL DEF LedgerSpec, ImplementsCostLedger, Atomic!Spec

-----------------------------------------------------------------------------
(* Ledger calls of this module bring entries of the ledger's type. *)
LEMMA CallsTyped ==
  ASSUME NEW d, IsLedger(d), NEW call, IsLedger(call.items)
  PROVE  IsLedger(Result(d, call))
BY DEF Result, IsLedger, AddMissing, ReplaceEntries

LEMMA EstimateTyped == \A r \in Reqs : r \in EntryIds /\ Estimate(r) \in Entry
BY DispatchAssumption DEF Estimate, Entry, Kinds, Statuses

LEMMA SettledTyped == \A r \in Reqs, a \in Amounts : r \in EntryIds /\ SettledAt(r, a) \in Entry
BY DispatchAssumption DEF SettledAt, Entry, Kinds, Statuses

LEMMA SingletonTyped ==
  ASSUME NEW i \in EntryIds, NEW e \in Entry
  PROVE  IsLedger([j \in {i} |-> e])
BY DEF IsLedger

LEMMA ReserveTyped ==
  ASSUME NEW d, IsLedger(d), NEW r \in Reqs
  PROVE  IsLedger(Result(d, ReserveCall(r)))
<1>1. IsLedger([i \in {r} |-> Estimate(r)])
  BY EstimateTyped, SingletonTyped
<1>2. ReserveCall(r).items = [i \in {r} |-> Estimate(r)]
  BY DEF ReserveCall, Call
<1>3. QED BY <1>1, <1>2, CallsTyped

LEMMA SettleTyped ==
  ASSUME NEW d, IsLedger(d), NEW r \in Reqs, NEW a \in Amounts
  PROVE  IsLedger(Result(d, SettleCall(r, a)))
<1>1. IsLedger([i \in {r} |-> SettledAt(r, a)])
  BY SettledTyped, SingletonTyped
<1>2. SettleCall(r, a).items = [i \in {r} |-> SettledAt(r, a)]
  BY DEF SettleCall, Call
<1>3. QED BY <1>1, <1>2, CallsTyped

LEMMA PhaseTyped ==
  ASSUME TypeOK, NEW w \in Workers
  PROVE  IsLedger(Result(doc, PhaseCall(w)))
<1>1. WithStatus(w, "pending") \subseteq Reqs
  BY DEF WithStatus, TypeOK
<1>2. IsLedger([r \in WithStatus(w, "pending") |-> Estimate(r)])
  BY <1>1, EstimateTyped DEF IsLedger
<1>3. PhaseCall(w).items = [r \in WithStatus(w, "pending") |-> Estimate(r)]
  BY DEF PhaseCall, BatchCall, Call
<1>4. QED BY <1>2, <1>3, CallsTyped DEF TypeOK

LEMMA OtherTyped ==
  ASSUME NEW d, IsLedger(d), NEW i \in EntryIds, NEW e \in OtherEntries
  PROVE  IsLedger(Result(d, Call("append", [j \in {i} |-> e], {}, {})))
<1>1. IsLedger([j \in {i} |-> e])
  BY SingletonTyped DEF OtherEntries
<1>2. Call("append", [j \in {i} |-> e], {}, {}).items = [j \in {i} |-> e]
  BY DEF Call
<1>3. QED BY <1>1, <1>2, CallsTyped

-----------------------------------------------------------------------------
LEMMA InitTypeOK == Init => TypeOK
<1>1. IsLedger(EmptyLedger)
  BY DEF EmptyLedger, IsLedger
<1>2. QED
  BY <1>1 DEF Init, TypeOK, PcValues

(* Ending a call or a process keeps the types. *)
LEMMA GoneTyped ==
  ASSUME TypeOK, NEW w \in Workers, Gone(w) \/ EndCall(w)
  PROVE  /\ claim' \in [Reqs -> Workers \cup {NoWorker}]
         /\ pc' \in [Workers -> PcValues]
         /\ phase' \in [Workers -> SUBSET Reqs]
         /\ frozen' \in [Workers -> [Reqs -> {"none", "pending", "cached"}]]
         /\ cur' \in [Workers -> Reqs \cup {NoReq}]
         /\ result' \in [Workers -> Responses \cup {NoResponse}]
<1>1. CASE Gone(w)
  <2>1. claim' \in [Reqs -> Workers \cup {NoWorker}]
    BY <1>1 DEF TypeOK, Gone
  <2>2. pc' \in [Workers -> PcValues]
    BY <1>1 DEF TypeOK, Gone, Goto, PcValues
  <2>3. /\ phase' \in [Workers -> SUBSET Reqs]
        /\ cur' \in [Workers -> Reqs \cup {NoReq}]
        /\ result' \in [Workers -> Responses \cup {NoResponse}]
    BY <1>1 DEF TypeOK, Gone
  <2>4. frozen' \in [Workers -> [Reqs -> {"none", "pending", "cached"}]]
    <3>1. [r \in Reqs |-> "none"] \in [Reqs -> {"none", "pending", "cached"}]
      OBVIOUS
    <3>2. frozen \in [Workers -> [Reqs -> {"none", "pending", "cached"}]]
      BY DEF TypeOK
    <3>3. QED BY <1>1, <3>1, <3>2 DEF Gone
  <2>5. QED BY <2>1, <2>2, <2>3, <2>4
<1>2. CASE EndCall(w)
  <2>1. claim' \in [Reqs -> Workers \cup {NoWorker}]
    BY <1>2 DEF TypeOK, EndCall
  <2>2. pc' \in [Workers -> PcValues]
    BY <1>2 DEF TypeOK, EndCall, Goto, PcValues, Prepared
  <2>3. QED BY <1>2, <2>1, <2>2 DEF TypeOK, EndCall
<1>3. QED BY <1>1, <1>2

LEMMA NextTypeOK == IInv /\ [Next]_vars => TypeOK'
<1> SUFFICES ASSUME IInv, [Next]_vars PROVE TypeOK'
  OBVIOUS
<1> USE DEF store, local, provider
<1>0. TypeOK /\ CallOwnsRequest /\ AnswerGuarded
  BY DEF IInv
<1>1. CASE UNCHANGED vars
  BY <1>0, <1>1 DEF vars, TypeOK
<1>2. CASE \E i \in EntryIds, e \in OtherEntries : OtherSpend(i, e)
  <2>1. PICK i \in EntryIds, e \in OtherEntries : OtherSpend(i, e)
    BY <1>2
  <2>2. IsLedger(doc')
    <3>1. doc' = Result(doc, Call("append", [j \in {i} |-> e], {}, {}))
      BY <2>1 DEF OtherSpend, AppendCall
    <3>2. IsLedger(doc)
      BY <1>0 DEF TypeOK
    <3>3. IsLedger(Result(doc, Call("append", [j \in {i} |-> e], {}, {})))
      BY <3>2, OtherTyped
    <3>4. QED BY <3>1, <3>3
  <2>3. QED BY <1>0, <2>1, <2>2 DEF OtherSpend, TypeOK
<1>3. ASSUME NEW w \in Workers, WorkerStep(w) PROVE TypeOK'
  <2> USE DEF Goto, PcValues, Prepared, InCall
  <2>1. ASSUME NEW ph \in Phases, PreflightStart(w, ph) PROVE TypeOK'
    BY <1>0, <2>1, DispatchAssumption DEF PreflightStart, TypeOK
  <2>2. ASSUME NEW r \in Reqs, PreflightLoad(w, r) PROVE TypeOK'
    BY <1>0, <2>2 DEF PreflightLoad, TypeOK
  <2>3. ASSUME NEW r \in Reqs, Authorize(w, r) PROVE TypeOK'
    BY <1>0, <2>3 DEF Authorize, TypeOK
  <2>4. CASE PreflightReserve(w)
    BY <1>0, <2>4, PhaseTyped DEF PreflightReserve, TypeOK
  <2>5. CASE PreflightRefused(w)
    BY <1>0, <2>5, GoneTyped DEF PreflightRefused, TypeOK
  <2>6. CASE PreflightCheck(w)
    <3>1. CASE Gone(w)
      BY <1>0, <2>6, <3>1, GoneTyped DEF PreflightCheck, TypeOK
    <3>2. CASE Goto(w, "ready") /\ UNCHANGED <<claim, local>>
      BY <1>0, <2>6, <3>2 DEF PreflightCheck, TypeOK
    <3>3. QED BY <2>6, <3>1, <3>2 DEF PreflightCheck
  <2>7. CASE Claim(w)
    BY <1>0, <2>7 DEF Claim, TypeOK
  <2>8. CASE Exit(w) \/ Crash(w)
    BY <1>0, <2>8, GoneTyped DEF Exit, Crash, TypeOK
  <2>9. CASE InCallStep(w)
    <3>1. CASE Inspect(w)
      <4>0. cur[w] \in Reqs
        BY <1>0, <3>1 DEF Inspect, CallOwnsRequest
      <4>1. CASE EndCall(w) /\ UNCHANGED marker
        BY <1>0, <3>1, <4>1, GoneTyped DEF Inspect, TypeOK
      <4>2. CASE /\ Goto(w, "inspected")
                 /\ result' = [result EXCEPT ![w] = checkpoint[cur[w]]]
                 /\ marker' = marker \ {cur[w]}
                 /\ UNCHANGED <<claim, phase, frozen, cur>>
        BY <1>0, <3>1, <4>0, <4>2 DEF Inspect, TypeOK
      <4>3. QED BY <3>1, <4>1, <4>2 DEF Inspect
    <3>2. CASE Reserve(w)
      <4>1. cur[w] \in Reqs
        BY <1>0, <3>2 DEF Reserve, CallOwnsRequest
      <4>2. IsLedger(doc')
        BY <1>0, <3>2, <4>1, ReserveTyped DEF Reserve, TypeOK
      <4>3. QED BY <1>0, <3>2, <4>2 DEF Reserve, TypeOK
    <3>3. CASE Mark(w)
      BY <1>0, <3>3 DEF Mark, TypeOK, CallOwnsRequest
    <3>4. ASSUME NEW a \in Responses, Send(w, a) PROVE TypeOK'
      <4>1. cur[w] \in Reqs /\ a.cost \in Nat
        BY <1>0, <3>4, DispatchAssumption, LedgerAssumption DEF Send, CallOwnsRequest
      <4>2. dispatched' \in [Reqs -> Nat] /\ charged' \in [Reqs -> Nat]
        BY <1>0, <3>4, <4>1 DEF Send, TypeOK
      <4>3. QED BY <1>0, <3>4, <4>2 DEF Send, TypeOK
    <3>5. CASE Receive(w)
      BY <1>0, <3>5 DEF Receive, TypeOK
    <3>6. CASE TransportFails(w)
      BY <1>0, <3>6, GoneTyped DEF TransportFails, TypeOK
    <3>7. CASE Commit(w)
      BY <1>0, <3>7 DEF Commit, TypeOK
    <3>8. CASE Resolve(w)
      BY <1>0, <3>8 DEF Resolve, TypeOK
    <3>9. CASE Settle(w)
      <4>1. cur[w] \in Reqs
        BY <1>0, <3>9 DEF Settle, CallOwnsRequest
      <4>2. IsLedger(doc')
        <5>1. result[w] \in Responses
          BY <1>0, <3>9 DEF Settle, AnswerGuarded
        <5>2. result[w].cost \in Amounts
          BY <5>1, DispatchAssumption
        <5>3. IsLedger(Result(doc, SettleCall(cur[w], result[w].cost)))
          BY <1>0, <4>1, <5>2, SettleTyped DEF TypeOK
        <5>4. QED BY <1>0, <3>9, <5>3 DEF Settle, TypeOK
      <4>3. QED BY <1>0, <3>9, <4>2, GoneTyped DEF Settle, TypeOK
    <3>10. QED BY <2>9, <3>1, <3>2, <3>3, <3>4, <3>5, <3>6, <3>7, <3>8, <3>9 DEF InCallStep
  <2>10. QED BY <1>3, <2>1, <2>2, <2>3, <2>4, <2>5, <2>6, <2>7, <2>8, <2>9 DEF WorkerStep
<1>4. QED BY <1>1, <1>2, <1>3 DEF Next
-----------------------------------------------------------------------------
(* What IInv says of one process. *)
Guarded(v) ==
  /\ pc[v] = "authorized" => cur[v] \in Reqs
  /\ pc[v] \in InCall => cur[v] \in Reqs /\ claim[cur[v]] = v
  /\ pc[v] \in {"reserved", "marked"} => result[v] = NoResponse
  /\ pc[v] \in {"inspected", "reserved", "marked"} /\ result[v] = NoResponse =>
        dispatched[cur[v]] = 0
  /\ pc[v] \in {"marked", "awaiting", "received"} => cur[v] \in marker
  /\ pc[v] \in {"awaiting", "received", "committed", "settling"} => result[v] \in Responses
  /\ pc[v] = "committed" => checkpoint[cur[v]] # NoResponse

(* What a step of w may change of the shared state: only claims that are   *)
(* free or its own, and the evidence of requests it holds.                 *)
StaysInClaim(w) ==
  \A r \in Reqs :
     /\ claim'[r] = claim[r] \/ claim[r] \in {w, NoWorker}
     /\ claim[r] # w => /\ r \in marker' <=> r \in marker
                       /\ dispatched'[r] = dispatched[r]
                       /\ checkpoint'[r] = checkpoint[r]

(* IInv is the types, Guarded for every process, and the two properties. *)
LEMMA IInvParts ==
  IInv <=> /\ TypeOK
           /\ \A v \in Workers : Guarded(v)
           /\ AttemptLeavesTrace
           /\ AtMostOnePaidAttempt
BY DEF IInv, Guarded, CallOwnsRequest, NothingSentYet, AnswerGuarded, InCall

(* A process is not disturbed by a step that stays in the claims of another. *)
LEMMA OthersUndisturbed ==
  ASSUME NEW w \in Workers, NEW v \in Workers, v # w, Guarded(v), StaysInClaim(w),
         pc'[v] = pc[v], cur'[v] = cur[v], result'[v] = result[v]
  PROVE  Guarded(v)'
<1>1. v # NoWorker
  BY DispatchAssumption
<1>2. CASE pc[v] \in InCall
  <2>1. cur[v] \in Reqs /\ claim[cur[v]] = v
    BY <1>2 DEF Guarded
  <2>2. /\ claim'[cur[v]] = v
        /\ cur[v] \in marker' <=> cur[v] \in marker
        /\ dispatched'[cur[v]] = dispatched[cur[v]]
        /\ checkpoint'[cur[v]] = checkpoint[cur[v]]
    BY <1>1, <2>1 DEF StaysInClaim
  <2>3. QED BY <2>1, <2>2 DEF Guarded
<1>3. CASE pc[v] \notin InCall
  BY <1>3 DEF Guarded, InCall
<1>4. QED BY <1>2, <1>3

(* Ending a call or a process stays within its claims and leaves it outside any call. *)
LEMMA GoneGuarded ==
  ASSUME TypeOK, NEW w \in Workers, Gone(w) \/ (EndCall(w) /\ cur[w] \in Reqs /\ claim[cur[w]] = w),
         UNCHANGED <<checkpoint, marker, dispatched>>
  PROVE  /\ StaysInClaim(w)
         /\ Guarded(w)'
         /\ \A v \in Workers \ {w} :
               pc'[v] = pc[v] /\ cur'[v] = cur[v] /\ result'[v] = result[v]
<1>1. StaysInClaim(w)
  <2>1. CASE Gone(w)
    BY <2>1 DEF Gone, StaysInClaim
  <2>2. CASE EndCall(w) /\ cur[w] \in Reqs /\ claim[cur[w]] = w
    BY <2>2 DEF EndCall, StaysInClaim, TypeOK
  <2>3. QED BY <2>1, <2>2
<1>2. pc'[w] \in {"idle", "ready"}
  BY DEF Gone, EndCall, Goto, TypeOK
<1>3. Guarded(w)'
  BY <1>2 DEF Guarded, InCall
<1>4. QED BY <1>1, <1>3 DEF Gone, EndCall, Goto, TypeOK

(* The shared evidence after a step of one process, from that process alone. *)
LEMMA StepIInv ==
  ASSUME IInv, TypeOK', NEW w \in Workers, StaysInClaim(w), Guarded(w)',
         \A v \in Workers \ {w} :
            pc'[v] = pc[v] /\ cur'[v] = cur[v] /\ result'[v] = result[v],
         AttemptLeavesTrace', AtMostOnePaidAttempt'
  PROVE  IInv'
<1>1. \A v \in Workers : Guarded(v)'
  BY IInvParts, OthersUndisturbed
<1>2. QED
  BY <1>1 DEF IInv, Guarded, CallOwnsRequest, NothingSentYet, AnswerGuarded, InCall

-----------------------------------------------------------------------------
LEMMA InitIInv == Init => IInv
<1> SUFFICES ASSUME Init PROVE IInv
  OBVIOUS
<1>1. \A v \in Workers : Guarded(v)
  BY DEF Init, Guarded, InCall
<1>2. AttemptLeavesTrace /\ AtMostOnePaidAttempt
  BY DEF Init, AttemptLeavesTrace, AtMostOnePaidAttempt
<1>3. QED BY <1>1, <1>2, InitTypeOK, IInvParts

(* The invariant is kept by every step of one process. *)
LEMMA WorkerIInv ==
  ASSUME IInv, TypeOK', NEW w \in Workers, WorkerStep(w)
  PROVE  IInv'
<1> USE DEF store, local, provider
<1>0. TypeOK /\ Guarded(w) /\ AttemptLeavesTrace /\ AtMostOnePaidAttempt
  BY IInvParts
<1>n. NoWorker \notin Workers /\ NoResponse \notin Responses
  BY DispatchAssumption
<1> DEFINE Others == \A v \in Workers \ {w} :
                       pc'[v] = pc[v] /\ cur'[v] = cur[v] /\ result'[v] = result[v]
           Quiet == UNCHANGED <<checkpoint, marker, dispatched>>
<1>a. ASSUME Quiet PROVE AttemptLeavesTrace' /\ AtMostOnePaidAttempt'
  BY <1>0, <1>a DEF AttemptLeavesTrace, AtMostOnePaidAttempt
<1>b. ASSUME Quiet, UNCHANGED claim PROVE StaysInClaim(w)
  BY <1>b DEF StaysInClaim
<1>c. ASSUME Quiet, Gone(w) \/ (EndCall(w) /\ pc[w] \in InCall) PROVE IInv'
  <2>1. pc[w] \in InCall => cur[w] \in Reqs /\ claim[cur[w]] = w
    BY <1>0 DEF Guarded
  <2>2. StaysInClaim(w) /\ Guarded(w)' /\ Others
    BY <1>0, <1>c, <2>1, GoneGuarded
  <2>3. QED BY <1>a, <1>c, <2>2, StepIInv
<1>1. CASE \E ph \in Phases : PreflightStart(w, ph)
  <2>1. Quiet /\ UNCHANGED <<claim, cur, result>> /\ pc' = [pc EXCEPT ![w] = "scanning"]
    BY <1>1 DEF PreflightStart, Goto
  <2>2. Guarded(w)' /\ Others
    BY <1>0, <2>1 DEF TypeOK, Guarded, InCall
  <2>3. QED BY <1>a, <1>b, <2>1, <2>2, StepIInv
<1>2. CASE \E r \in Reqs : PreflightLoad(w, r)
  <2>1. Quiet /\ UNCHANGED <<claim, cur, result, pc>>
    BY <1>2 DEF PreflightLoad
  <2>2. Guarded(w)' /\ Others
    BY <1>0, <2>1 DEF TypeOK, Guarded, InCall
  <2>3. QED BY <1>a, <1>b, <2>1, <2>2, StepIInv
<1>3. CASE \E r \in Reqs : Authorize(w, r)
  <2>1. PICK r \in Reqs : Authorize(w, r)
    BY <1>3
  <2>2. Quiet /\ UNCHANGED <<claim, result>>
    BY <2>1 DEF Authorize
  <2>3. Guarded(w)' /\ Others
    BY <1>0, <2>1 DEF Authorize, Goto, TypeOK, Guarded, InCall
  <2>4. QED BY <1>a, <1>b, <2>2, <2>3, StepIInv
<1>4. CASE PreflightReserve(w)
  <2>1. Quiet /\ UNCHANGED <<claim, cur, result>> /\ pc' = [pc EXCEPT ![w] = "checking"]
    BY <1>4 DEF PreflightReserve, Goto
  <2>2. Guarded(w)' /\ Others
    BY <1>0, <2>1 DEF TypeOK, Guarded, InCall
  <2>3. QED BY <1>a, <1>b, <2>1, <2>2, StepIInv
<1>5. CASE PreflightRefused(w)
  BY <1>5, <1>c DEF PreflightRefused
<1>6. CASE PreflightCheck(w)
  <2>1. CASE Gone(w)
    BY <1>6, <1>c, <2>1 DEF PreflightCheck
  <2>2. CASE Goto(w, "ready") /\ UNCHANGED <<claim, local>>
    <3>1. Quiet /\ UNCHANGED <<claim, cur, result>> /\ pc' = [pc EXCEPT ![w] = "ready"]
      BY <1>6, <2>2 DEF PreflightCheck, Goto
    <3>2. Guarded(w)' /\ Others
      BY <1>0, <3>1 DEF TypeOK, Guarded, InCall
    <3>3. QED BY <1>a, <1>b, <3>1, <3>2, StepIInv
  <2>3. QED BY <1>6, <2>1, <2>2 DEF PreflightCheck
<1>7. CASE Claim(w)
  <2>1. cur[w] \in Reqs
    BY <1>0, <1>7 DEF Claim, Guarded
  <2>2. Quiet /\ UNCHANGED <<cur, result>> /\ pc' = [pc EXCEPT ![w] = "claimed"]
        /\ claim' = [claim EXCEPT ![cur[w]] = w] /\ claim[cur[w]] = NoWorker
    BY <1>7 DEF Claim, Goto
  <2>3. Guarded(w)' /\ Others
    BY <1>0, <2>1, <2>2 DEF TypeOK, Guarded, InCall
  <2>4. StaysInClaim(w)
    BY <1>0, <2>1, <2>2 DEF TypeOK, StaysInClaim
  <2>5. QED BY <1>a, <2>2, <2>3, <2>4, StepIInv
<1>8. CASE Exit(w) \/ Crash(w)
  BY <1>8, <1>c DEF Exit, Crash
<1>9. CASE InCallStep(w)
  <2>0. pc[w] \in InCall /\ cur[w] \in Reqs /\ claim[cur[w]] = w
    <3>1. pc[w] \in InCall
      BY <1>9 DEF InCallStep, Inspect, Reserve, Mark, Send, Receive, TransportFails, Commit,
                  Resolve, Settle, InCall
    <3>2. QED BY <1>0, <3>1 DEF Guarded
  <2>1. CASE Inspect(w)
    <3>1. CASE EndCall(w) /\ UNCHANGED marker
      BY <1>c, <2>0, <2>1, <3>1 DEF Inspect
    <3>2. CASE /\ checkpoint[cur[w]] # NoResponse \/ cur[w] \notin marker
               /\ Goto(w, "inspected")
               /\ result' = [result EXCEPT ![w] = checkpoint[cur[w]]]
               /\ marker' = marker \ {cur[w]}
               /\ UNCHANGED <<claim, phase, frozen, cur>>
      <4>1. UNCHANGED <<checkpoint, dispatched, claim, cur>>
        BY <2>1, <3>2 DEF Inspect
      <4>2. AttemptLeavesTrace'
        BY <1>0, <2>0, <3>2, <4>1 DEF AttemptLeavesTrace
      <4>3. AtMostOnePaidAttempt'
        BY <1>0, <4>1 DEF AtMostOnePaidAttempt
      <4>4. StaysInClaim(w)
        BY <2>0, <3>2, <4>1 DEF StaysInClaim
      <4>5. Others
        BY <1>0, <3>2 DEF TypeOK, Goto
      <4>6. checkpoint[cur[w]] = NoResponse => dispatched[cur[w]] = 0
        BY <1>0, <2>0, <3>2 DEF AttemptLeavesTrace, TypeOK
      <4>7. pc'[w] = "inspected" /\ result'[w] = checkpoint[cur[w]]
        BY <1>0, <3>2 DEF TypeOK, Goto
      <4>8. Guarded(w)'
        BY <2>0, <4>1, <4>6, <4>7 DEF Guarded, InCall
      <4>9. QED BY <4>2, <4>3, <4>4, <4>5, <4>8, StepIInv
    <3>3. QED BY <2>1, <3>1, <3>2 DEF Inspect
  <2>2. CASE Reserve(w)
    <3>1. Quiet /\ UNCHANGED <<claim, cur, result>>
          /\ pc' = [pc EXCEPT ![w] = IF result[w] = NoResponse THEN "reserved" ELSE "settling"]
          /\ pc[w] = "inspected"
      BY <2>2 DEF Reserve, Goto
    <3>2. Guarded(w)' /\ Others
      BY <1>0, <2>0, <3>1 DEF TypeOK, Guarded, InCall
    <3>3. QED BY <1>a, <1>b, <3>1, <3>2, StepIInv
  <2>3. CASE Mark(w)
    <3>1. /\ marker' = marker \cup {cur[w]} /\ pc' = [pc EXCEPT ![w] = "marked"]
          /\ UNCHANGED <<checkpoint, dispatched, claim, cur, result>> /\ pc[w] = "reserved"
      BY <2>3 DEF Mark, Goto
    <3>2. Guarded(w)' /\ Others
      BY <1>0, <2>0, <3>1 DEF TypeOK, Guarded, InCall
    <3>3. StaysInClaim(w)
      BY <2>0, <3>1 DEF StaysInClaim
    <3>4. AttemptLeavesTrace' /\ AtMostOnePaidAttempt'
      BY <1>0, <3>1 DEF AttemptLeavesTrace, AtMostOnePaidAttempt
    <3>5. QED BY <3>2, <3>3, <3>4, StepIInv
  <2>4. ASSUME NEW a \in Responses, Send(w, a) PROVE IInv'
    <3>1. /\ dispatched' = [dispatched EXCEPT ![cur[w]] = @ + 1]
          /\ result' = [result EXCEPT ![w] = a] /\ pc' = [pc EXCEPT ![w] = "awaiting"]
          /\ UNCHANGED <<checkpoint, marker, claim, cur>> /\ pc[w] = "marked"
      BY <2>4 DEF Send, Goto
    <3>2. cur[w] \in marker /\ dispatched[cur[w]] = 0
      BY <1>0, <3>1 DEF Guarded
    <3>3. Guarded(w)' /\ Others
      BY <1>0, <2>0, <3>1, <3>2 DEF TypeOK, Guarded, InCall
    <3>4. StaysInClaim(w)
      BY <1>0, <2>0, <3>1 DEF TypeOK, StaysInClaim
    <3>5. AttemptLeavesTrace'
      BY <1>0, <3>1, <3>2 DEF TypeOK, AttemptLeavesTrace
    <3>6. AtMostOnePaidAttempt'
      BY <1>0, <2>0, <3>1, <3>2 DEF TypeOK, AtMostOnePaidAttempt
    <3>7. QED BY <3>3, <3>4, <3>5, <3>6, StepIInv
  <2>5. CASE Receive(w)
    <3>1. Quiet /\ UNCHANGED <<claim, cur, result>> /\ pc' = [pc EXCEPT ![w] = "received"]
          /\ pc[w] = "awaiting"
      BY <2>5 DEF Receive, Goto
    <3>2. Guarded(w)' /\ Others
      BY <1>0, <2>0, <3>1 DEF TypeOK, Guarded, InCall
    <3>3. QED BY <1>a, <1>b, <3>1, <3>2, StepIInv
  <2>6. CASE TransportFails(w)
    BY <1>c, <2>0, <2>6 DEF TransportFails
  <2>7. CASE Commit(w)
    <3>1. /\ checkpoint' = [checkpoint EXCEPT ![cur[w]] = IF @ = NoResponse THEN result[w] ELSE @]
          /\ pc' = [pc EXCEPT ![w] = "committed"]
          /\ UNCHANGED <<marker, dispatched, claim, cur, result>> /\ pc[w] = "received"
      BY <2>7 DEF Commit, Goto
    <3>2. result[w] \in Responses
      BY <1>0, <3>1 DEF Guarded
    <3>3. Guarded(w)' /\ Others
      BY <1>0, <1>n, <2>0, <3>1, <3>2 DEF TypeOK, Guarded, InCall
    <3>4. StaysInClaim(w)
      BY <1>0, <2>0, <3>1 DEF TypeOK, StaysInClaim
    <3>5. AttemptLeavesTrace' /\ AtMostOnePaidAttempt'
      BY <1>0, <1>n, <3>1, <3>2 DEF TypeOK, AttemptLeavesTrace, AtMostOnePaidAttempt
    <3>6. QED BY <3>3, <3>4, <3>5, StepIInv
  <2>8. CASE Resolve(w)
    <3>1. /\ marker' = marker \ {cur[w]} /\ pc' = [pc EXCEPT ![w] = "settling"]
          /\ UNCHANGED <<checkpoint, dispatched, claim, cur, result>> /\ pc[w] = "committed"
      BY <2>8 DEF Resolve, Goto
    <3>2. checkpoint[cur[w]] # NoResponse
      BY <1>0, <3>1 DEF Guarded
    <3>3. Guarded(w)' /\ Others
      BY <1>0, <2>0, <3>1 DEF TypeOK, Guarded, InCall
    <3>4. StaysInClaim(w)
      BY <2>0, <3>1 DEF StaysInClaim
    <3>5. AttemptLeavesTrace' /\ AtMostOnePaidAttempt'
      BY <1>0, <3>1, <3>2 DEF AttemptLeavesTrace, AtMostOnePaidAttempt
    <3>6. QED BY <3>3, <3>4, <3>5, StepIInv
  <2>9. CASE Settle(w)
    BY <1>c, <2>0, <2>9 DEF Settle
  <2>10. QED BY <1>9, <2>1, <2>2, <2>3, <2>4, <2>5, <2>6, <2>7, <2>8, <2>9 DEF InCallStep
<1>10. QED BY <1>1, <1>2, <1>3, <1>4, <1>5, <1>6, <1>7, <1>8, <1>9 DEF WorkerStep

(* IInv is inductive. *)
LEMMA NextIInv == IInv /\ [Next]_vars => IInv'
<1> SUFFICES ASSUME IInv, [Next]_vars PROVE IInv'
  OBVIOUS
<1>1. TypeOK'
  BY NextTypeOK
<1>2. CASE \E w \in Workers : WorkerStep(w)
  BY <1>1, <1>2, WorkerIInv
<1>3. CASE UNCHANGED <<store, claim, pc, local, provider>>
  BY <1>1, <1>3 DEF IInv, CallOwnsRequest, NothingSentYet, AnswerGuarded, AttemptLeavesTrace,
                    AtMostOnePaidAttempt, store, local, provider
<1>4. QED BY <1>2, <1>3 DEF Next, OtherSpend, vars

(* The inductive invariant holds of every behaviour of the paid calls. *)
THEOREM Invariance == Spec => []IInv
BY InitIInv, NextIInv, PTL DEF Spec

(* Every process, file and ledger entry stays within its type. *)
THEOREM TypeCorrect == Spec => []TypeOK
<1>1. IInv => TypeOK
  BY DEF IInv
<1>2. QED BY <1>1, Invariance, PTL

(* However many processes run, die and run again, one logical request is   *)
(* sent to the paid provider at most once.                                 *)
THEOREM AtMostOncePaid == Spec => []AtMostOnePaidAttempt
<1>1. IInv => AtMostOnePaidAttempt
  BY DEF IInv
<1>2. QED BY <1>1, Invariance, PTL

(* A request that reached the provider has its marker or its response on disk. *)
THEOREM TraceKept == Spec => []AttemptLeavesTrace
<1>1. IInv => AttemptLeavesTrace
  BY DEF IInv
<1>2. QED BY <1>1, Invariance, PTL

(* No step replaces a durable response, or clears a marker without one. *)
LEMMA StepKeepsEvidence ==
  ASSUME IInv, [Next]_vars
  PROVE  /\ \A r \in Reqs : checkpoint[r] # NoResponse => checkpoint'[r] = checkpoint[r]
         /\ \A r \in marker \ marker' : checkpoint'[r] # NoResponse
<1> DEFINE Kept == /\ \A r \in Reqs : checkpoint[r] # NoResponse => checkpoint'[r] = checkpoint[r]
                  /\ \A r \in marker \ marker' : checkpoint'[r] # NoResponse
<1> USE DEF store, local, provider
<1>0. TypeOK /\ \A v \in Workers : Guarded(v)
  BY IInvParts
<1>1. CASE UNCHANGED <<checkpoint, marker>>
  BY <1>1
<1>2. ASSUME NEW w \in Workers, Inspect(w) PROVE Kept
  BY <1>2 DEF Inspect
<1>3. ASSUME NEW w \in Workers, Mark(w) PROVE Kept
  BY <1>3 DEF Mark
<1>4. ASSUME NEW w \in Workers, Commit(w) PROVE Kept
  BY <1>0, <1>4 DEF Commit, TypeOK
<1>5. ASSUME NEW w \in Workers, Resolve(w) PROVE Kept
  <2>1. checkpoint[cur[w]] # NoResponse
    BY <1>0, <1>5 DEF Resolve, Guarded
  <2>2. QED BY <1>5, <2>1 DEF Resolve
<1>6. ASSUME NEW w \in Workers, WorkerStep(w) PROVE Kept
  BY <1>1, <1>2, <1>3, <1>4, <1>5, <1>6
     DEF WorkerStep, InCallStep, PreflightStart, PreflightLoad, Authorize, PreflightReserve,
         PreflightRefused, PreflightCheck, Claim, Reserve, Send, Receive, TransportFails,
         Settle, Exit, Crash
<1>7. QED BY <1>1, <1>6 DEF Next, OtherSpend, vars

(* The store only gains evidence: a durable response stays what it is and a *)
(* marker goes only once its response is durable.                           *)
THEOREM EvidenceNeverLost == Spec => EvidenceKept
BY Invariance, StepKeepsEvidence, PTL DEF Spec, EvidenceKept
-----------------------------------------------------------------------------
(* The total of a ledger is a sum over a finite set, defined by taking one *)
(* element after another; it is shown to exist and to grow with each       *)
(* amount.                                                                 *)
Pick(s) == CHOOSE x \in s : TRUE
SumRule(d, g, s) == IF s = {} THEN 0 ELSE d[Pick(s)].amount + g[s \ {Pick(s)}]
IsSum(d, g, S) == g = [s \in SUBSET S |-> SumRule(d, g, s)]
Sums(d, S) == CHOOSE g : IsSum(d, g, S)
Counted(d, kinds, statuses) == {i \in DOMAIN d : d[i].kind \in kinds /\ d[i].status \in statuses}

LEMMA TotalIsSum ==
  ASSUME NEW d, NEW kinds, NEW statuses
  PROVE  Total(d, kinds, statuses) = Sums(d, Counted(d, kinds, statuses))[Counted(d, kinds, statuses)]
BY DEF Total, MapThenSumSet, MapThenFoldSet, Sums, Counted, IsSum, SumRule, Pick

LEMMA SmallestSubset ==
  ASSUME NEW S, IsFiniteSet(S), NEW Odd, Odd \subseteq SUBSET S, Odd # {}
  PROVE  \E T \in Odd : \A U \in SUBSET T : U # T => U \notin Odd
<1>1. IsWellFoundedOn(StrictSubsetOrdering(S), SUBSET S)
  BY FS_FiniteSubsetsOfFinite, FS_StrictSubsetOrderingWellFounded
<1>2. PICK T \in Odd : \A U \in Odd : <<U, T>> \notin StrictSubsetOrdering(S)
  BY <1>1, WFMin
<1>3. \A U \in SUBSET T : U # T => U \notin Odd
  BY <1>2 DEF StrictSubsetOrdering
<1> QED
  BY <1>3

LEMMA Picked == \A s : s # {} => Pick(s) \in s /\ s \ {Pick(s)} \subseteq s /\ s \ {Pick(s)} # s
<1> SUFFICES ASSUME NEW s, s # {}  PROVE Pick(s) \in s
  BY Zenon
<1> QED BY DEF Pick

(* Two sums agree where both are defined. *)
LEMMA SumsAgree ==
  ASSUME NEW S, IsFiniteSet(S), NEW d, NEW g, NEW h, NEW T, IsSum(d, g, T), NEW U, IsSum(d, h, U),
         S \subseteq T, S \subseteq U
  PROVE  g[S] = h[S]
<1> DEFINE Odd == {s \in SUBSET S : g[s] # h[s]}
<1>1. SUFFICES ASSUME Odd # {}  PROVE FALSE
  BY <1>1
<1>2. PICK s \in Odd : \A t \in SUBSET s : t # s => t \notin Odd
  <2>1. Odd \subseteq SUBSET S
    OBVIOUS
  <2> HIDE DEF Odd
  <2> QED
    BY <1>1, <2>1, SmallestSubset
<1>3. g[s] = SumRule(d, g, s) /\ h[s] = SumRule(d, h, s)
  <2>1. s \in SUBSET T /\ s \in SUBSET U
    OBVIOUS
  <2>2. g = [t \in SUBSET T |-> SumRule(d, g, t)]
    BY DEF IsSum
  <2>3. h = [t \in SUBSET U |-> SumRule(d, h, t)]
    BY DEF IsSum
  <2>4. g[s] = SumRule(d, g, s)
    BY <2>1, <2>2, Zenon
  <2> QED BY <2>1, <2>3, <2>4, Zenon
<1>4. s # {} => g[s \ {Pick(s)}] = h[s \ {Pick(s)}]
  BY <1>2, Picked
<1>5. SumRule(d, g, s) = SumRule(d, h, s)
  BY <1>4 DEF SumRule
<1> QED BY <1>2, <1>3, <1>5

(* Over a finite set there is such a sum. *)
LEMMA SumExists ==
  ASSUME NEW S, IsFiniteSet(S), NEW d
  PROVE  IsSum(d, Sums(d, S), S)
<1> DEFINE Odd == {s \in SUBSET S : ~ IsSum(d, Sums(d, s), s)}
<1>0. S \in SUBSET S
  OBVIOUS
<1>1. SUFFICES ASSUME Odd # {}  PROVE FALSE
  BY <1>0, <1>1
<1>2. PICK s \in Odd : \A t \in SUBSET s : t # s => t \notin Odd
  <2>1. Odd \subseteq SUBSET S
    OBVIOUS
  <2> HIDE DEF Odd
  <2> QED
    BY <1>1, <2>1, SmallestSubset
<1>3. \A t \in SUBSET s : t # s => IsSum(d, Sums(d, t), t)
  BY <1>2
<1> DEFINE g == [t \in SUBSET s |-> IF t = {} THEN 0
                                    ELSE d[Pick(t)].amount + Sums(d, t \ {Pick(t)})[t \ {Pick(t)}]]
<1>4. ASSUME NEW t \in SUBSET s, t # s  PROVE g[t] = Sums(d, t)[t]
  <2>1. Sums(d, t)[t] = SumRule(d, Sums(d, t), t)
    <3>1. Sums(d, t) = [u \in SUBSET t |-> SumRule(d, Sums(d, t), u)]
      BY <1>3, <1>4 DEF IsSum
    <3>2. t \in SUBSET t
      OBVIOUS
    <3> QED BY <3>1, <3>2, Zenon
  <2>2. CASE t = {}
    BY <2>1, <2>2 DEF SumRule
  <2>3. CASE t # {}
    <3> DEFINE u == t \ {Pick(t)}
    <3>1. u \in SUBSET s /\ u # s /\ u \subseteq t
      BY <1>4, <2>3, Picked
    <3>2. IsSum(d, Sums(d, t), t) /\ IsSum(d, Sums(d, u), u)
      BY <1>3, <1>4, <3>1
    <3>3. IsFiniteSet(u)
      BY <1>2, <3>1, FS_Subset
    <3>4. Sums(d, t)[u] = Sums(d, u)[u]
      BY <3>1, <3>2, <3>3, SumsAgree
    <3> QED BY <2>1, <2>3, <3>4 DEF SumRule
  <2> QED BY <2>2, <2>3
<1>5. ASSUME NEW t \in SUBSET s  PROVE g[t] = SumRule(d, g, t)
  <2>1. CASE t = {}
    BY <2>1 DEF SumRule
  <2>2. CASE t # {}
    <3>1. t \ {Pick(t)} \in SUBSET s /\ t \ {Pick(t)} # s
      BY <2>2, Picked
    <3>2. g[t \ {Pick(t)}] = Sums(d, t \ {Pick(t)})[t \ {Pick(t)}]
      BY <1>4, <3>1
    <3> QED BY <2>2, <3>2 DEF SumRule
  <2> QED BY <2>1, <2>2
<1>6. IsSum(d, g, s)
  <2>1. g = [t \in SUBSET s |-> g[t]]
    OBVIOUS
  <2> HIDE DEF g
  <2> QED BY <1>5, <2>1 DEF IsSum
<1>7. IsSum(d, Sums(d, s), s)
  <2> HIDE DEF g
  <2> QED BY <1>6 DEF Sums
<1> QED BY <1>2, <1>7

(* Lowering amounts lowers the sum. *)
LEMMA SumsMonotone ==
  ASSUME NEW S, IsFiniteSet(S), NEW d, NEW e,
         \A i \in S : d[i].amount \in Nat /\ e[i].amount \in Nat /\ d[i].amount <= e[i].amount
  PROVE  /\ Sums(d, S)[S] \in Nat /\ Sums(e, S)[S] \in Nat
         /\ Sums(d, S)[S] <= Sums(e, S)[S]
<1> DEFINE g == Sums(d, S)
           h == Sums(e, S)
           Odd == {s \in SUBSET S : ~ (g[s] \in Nat /\ h[s] \in Nat /\ g[s] <= h[s])}
<1>0. S \in SUBSET S
  OBVIOUS
<1>1. SUFFICES ASSUME Odd # {}  PROVE FALSE
  BY <1>0, <1>1
<1>2. PICK s \in Odd : \A t \in SUBSET s : t # s => t \notin Odd
  <2>1. Odd \subseteq SUBSET S
    OBVIOUS
  <2> HIDE DEF Odd
  <2> QED
    BY <1>1, <2>1, SmallestSubset
<1>3. g[s] = SumRule(d, g, s) /\ h[s] = SumRule(e, h, s)
  <2>1. g = [t \in SUBSET S |-> SumRule(d, g, t)] /\ h = [t \in SUBSET S |-> SumRule(e, h, t)]
    BY SumExists DEF IsSum
  <2>2. s \in SUBSET S
    OBVIOUS
  <2> HIDE DEF g, h
  <2> QED BY <2>1, <2>2, Zenon
<1> HIDE DEF g, h
<1>4. CASE s = {}
  BY <1>2, <1>3, <1>4 DEF SumRule
<1>5. CASE s # {}
  <2>1. LET t == s \ {Pick(s)} IN g[t] \in Nat /\ h[t] \in Nat /\ g[t] <= h[t]
    BY <1>2, <1>5, Picked
  <2>2. Pick(s) \in S
    BY <1>5, Picked
  <2> QED BY <1>2, <1>3, <1>5, <2>1, <2>2 DEF SumRule
<1> QED BY <1>4, <1>5

LEMMA EmptySum == \A d : Sums(d, {})[{}] = 0
<1> SUFFICES ASSUME NEW d  PROVE Sums(d, {})[{}] = 0
  OBVIOUS
<1>1. Sums(d, {}) = [s \in SUBSET {} |-> SumRule(d, Sums(d, {}), s)]
  BY FS_EmptySet, SumExists DEF IsSum
<1>2. {} \in SUBSET {}
  OBVIOUS
<1>3. Sums(d, {})[{}] = SumRule(d, Sums(d, {}), {})
  BY <1>1, <1>2, Zenon
<1> QED
  BY <1>3 DEF SumRule

-----------------------------------------------------------------------------
(* The ledger beside the store.  An entry of a request is its estimate or  *)
(* the cost of its durable response, and what was sent is in the ledger.   *)
Told(r) ==
  /\ r \in DOMAIN doc => \/ doc[r] = Estimate(r)
                         \/ checkpoint[r] # NoResponse /\ doc[r] = SettledAt(r, checkpoint[r].cost)
  /\ dispatched[r] = 0 => charged[r] = 0
  /\ dispatched[r] > 0 => r \in DOMAIN doc
  /\ checkpoint[r] # NoResponse => dispatched[r] > 0 /\ charged[r] = checkpoint[r].cost

(* A call holds the answer the store holds, or the one the provider gave.  *)
Holds(v) ==
  /\ pc[v] = "inspected" => result[v] = checkpoint[cur[v]]
  /\ pc[v] \in {"reserved", "marked", "awaiting", "received"} => checkpoint[cur[v]] = NoResponse
  /\ pc[v] \in {"awaiting", "received"} =>
        dispatched[cur[v]] > 0 /\ charged[cur[v]] = result[v].cost
  /\ pc[v] \in {"committed", "settling"} => result[v] = checkpoint[cur[v]]

(* Once the phase is reserved, all it may still ask for is in the ledger.  *)
Planned(v) ==
  /\ IsFiniteSet(phase[v])
  /\ pc[v] = "idle" => \A r \in Reqs : frozen[v][r] = "none"
  /\ \A r \in Reqs : frozen[v][r] # "none" => r \in phase[v]
  /\ pc[v] \in Prepared => \A r \in Reqs : frozen[v][r] # "none" => r \in DOMAIN doc
  /\ pc[v] \in {"authorized"} \cup InCall => cur[v] \in DOMAIN doc

LInv == /\ \A r \in Reqs : Told(r)
        /\ \A v \in Workers : Holds(v) /\ Planned(v)
        /\ WithinLimits(doc) /\ IsFiniteSet(DOMAIN doc)
LEMMA InitLInv == Init => LInv
<1> SUFFICES ASSUME Init  PROVE LInv
  OBVIOUS
<1>1. \A r \in Reqs : Told(r)
  BY DEF Init, Told, EmptyLedger
<1>2. \A v \in Workers : Holds(v) /\ Planned(v)
  BY FS_EmptySet DEF Init, Holds, Planned, Prepared, InCall
<1>3. IsFiniteSet(DOMAIN doc)
  BY FS_EmptySet DEF Init, EmptyLedger
<1>4. ASSUME NEW kinds, NEW statuses  PROVE Total(doc, kinds, statuses) = 0
  <2>1. Counted(doc, kinds, statuses) = {}
    BY DEF Init, EmptyLedger, Counted
  <2>2. Sums(doc, {})[{}] = 0
    BY FS_EmptySet, EmptySum
  <2> QED
    BY <2>1, <2>2, TotalIsSum
<1>5. WithinLimits(doc)
  BY <1>4, LedgerAssumption DEF WithinLimits, Committed
<1> QED
  BY <1>1, <1>2, <1>3, <1>5 DEF LInv

(* What a step may do to the entries of the requests. *)
Books ==
  /\ DOMAIN doc \subseteq DOMAIN doc'
  /\ \A r \in Reqs : r \in DOMAIN doc' =>
        \/ r \in DOMAIN doc /\ doc'[r] = doc[r]
        \/ doc'[r] = Estimate(r)
        \/ checkpoint[r] # NoResponse /\ doc'[r] = SettledAt(r, checkpoint[r].cost)

(* Steps that leave the answers alone and keep the books disturb nobody    *)
(* else, nor what is told of the requests.                                 *)
LEMMA BooksKeep ==
  ASSUME LInv, Books, UNCHANGED <<checkpoint, dispatched, charged>>
  PROVE  /\ \A r \in Reqs : Told(r)'
         /\ \A v \in Workers : UNCHANGED <<pc[v], cur[v], result[v], phase[v], frozen[v]>> =>
                                 Holds(v)' /\ Planned(v)'
<1>1. \A r \in Reqs : Told(r)'
  BY DEF LInv, Told, Books
<1>2. ASSUME NEW v \in Workers, UNCHANGED <<pc[v], cur[v], result[v], phase[v], frozen[v]>>
      PROVE  Holds(v)' /\ Planned(v)'
  BY <1>2 DEF LInv, Holds, Planned, Books
<1> QED
  BY <1>1, <1>2

(* A call that sends or stores an answer disturbs no other request or call. *)
LEMMA AnswersKeep ==
  ASSUME LInv, IInv, NEW w \in Workers, pc[w] \in InCall, UNCHANGED doc,
         \A r \in Reqs \ {cur[w]} : UNCHANGED <<checkpoint[r], dispatched[r], charged[r]>>
  PROVE  /\ \A r \in Reqs \ {cur[w]} : Told(r)'
         /\ \A v \in Workers \ {w} : UNCHANGED <<pc[v], cur[v], result[v], phase[v], frozen[v]>> =>
                                       Holds(v)' /\ Planned(v)'
<1>1. \A r \in Reqs \ {cur[w]} : Told(r)'
  BY DEF LInv, Told
<1>2. ASSUME NEW v \in Workers \ {w}, UNCHANGED <<pc[v], cur[v], result[v], phase[v], frozen[v]>>
      PROVE  Holds(v)' /\ Planned(v)'
  <2>1. Holds(v) /\ Planned(v)
    BY DEF LInv
  <2>2. Planned(v)'
    BY <1>2, <2>1 DEF Planned
  <2>3. CASE pc[v] \in InCall
    <3>1. cur[v] \in Reqs \ {cur[w]}
      BY <2>3 DEF IInv, CallOwnsRequest
    <3> QED
      BY <1>2, <2>1, <2>2, <3>1 DEF Holds
  <2>4. CASE pc[v] \notin InCall
    BY <1>2, <2>2, <2>4 DEF Holds, InCall
  <2> QED
    BY <2>3, <2>4
<1> QED
  BY <1>1, <1>2

(* A process that ends, or ends a call, asks for nothing it did not.       *)
LEMMA GonePlanned ==
  ASSUME LInv, IInv, NEW w \in Workers, UNCHANGED <<doc, checkpoint, dispatched, charged>>,
         Gone(w) \/ (EndCall(w) /\ pc[w] \in InCall)
  PROVE  LInv'
<1>0. TypeOK
  BY DEF IInv
<1>1. Books
  BY DEF Books
<1>2. \A v \in Workers \ {w} : UNCHANGED <<pc[v], cur[v], result[v], phase[v], frozen[v]>>
  BY <1>0 DEF TypeOK, Gone, EndCall, Goto
<1>3. Holds(w)' /\ Planned(w)'
  <2>1. CASE Gone(w)
    <3>1. pc'[w] = "idle" /\ phase'[w] = {} /\ \A r \in Reqs : frozen'[w][r] = "none"
      BY <1>0, <2>1 DEF TypeOK, Gone, Goto
    <3> QED
      BY <3>1, FS_EmptySet DEF Holds, Planned, Prepared, InCall
  <2>2. CASE EndCall(w) /\ pc[w] \in InCall
    <3>1. pc'[w] = "ready" /\ UNCHANGED <<phase, frozen>>
      BY <1>0, <2>2 DEF TypeOK, EndCall, Goto
    <3>2. Planned(w)
      BY DEF LInv
    <3> QED
      BY <2>2, <3>1, <3>2 DEF Holds, Planned, Prepared, InCall
  <2> QED
    BY <2>1, <2>2
<1>4. /\ \A r \in Reqs : Told(r)'
      /\ \A v \in Workers : Holds(v)' /\ Planned(v)'
  BY <1>1, <1>2, <1>3, BooksKeep
<1> QED
  BY <1>4 DEF LInv

(* A step of one process that leaves ledger and answers alone.             *)
LEMMA QuietPlanned ==
  ASSUME LInv, NEW w \in Workers, UNCHANGED <<doc, checkpoint, dispatched, charged>>,
         \A v \in Workers \ {w} : UNCHANGED <<pc[v], cur[v], result[v], phase[v], frozen[v]>>,
         Holds(w)', Planned(w)'
  PROVE  LInv'
<1>1. /\ \A r \in Reqs : Told(r)'
      /\ \A v \in Workers : Holds(v)' /\ Planned(v)'
  BY BooksKeep DEF Books
<1> QED
  BY <1>1 DEF LInv

LEMMA PreflightPlanned ==
  ASSUME LInv, IInv, NEW w \in Workers,
         \/ \E ph \in Phases : PreflightStart(w, ph)
         \/ \E r \in Reqs : PreflightLoad(w, r)
         \/ PreflightCheck(w)
  PROVE  LInv'
<1> USE DEF store, local, provider
<1>0. TypeOK /\ Holds(w) /\ Planned(w)
  BY DEF IInv, LInv
<1>1. ASSUME NEW ph \in Phases, PreflightStart(w, ph)  PROVE LInv'
  <2>1. /\ pc' = [pc EXCEPT ![w] = "scanning"] /\ phase' = [phase EXCEPT ![w] = ph]
        /\ pc[w] = "idle" /\ UNCHANGED <<doc, checkpoint, dispatched, charged, frozen, cur, result>>
    BY <1>1 DEF PreflightStart, Goto
  <2>2. \A v \in Workers \ {w} : UNCHANGED <<pc[v], cur[v], result[v], phase[v], frozen[v]>>
    BY <1>0, <2>1 DEF TypeOK
  <2>3. Holds(w)' /\ Planned(w)'
    BY <1>0, <2>1, DispatchAssumption DEF TypeOK, Holds, Planned, Prepared, InCall
  <2> QED
    BY <2>1, <2>2, <2>3, QuietPlanned
<1>2. ASSUME NEW r \in Reqs, PreflightLoad(w, r)  PROVE LInv'
  <2>1. /\ frozen' = [frozen EXCEPT ![w][r] = IF checkpoint[r] = NoResponse THEN "pending" ELSE "cached"]
        /\ pc[w] = "scanning" /\ r \in phase[w]
        /\ UNCHANGED <<doc, checkpoint, dispatched, charged, pc, phase, cur, result>>
    BY <1>2 DEF PreflightLoad
  <2>2. \A v \in Workers \ {w} : UNCHANGED <<pc[v], cur[v], result[v], phase[v], frozen[v]>>
    BY <1>0, <2>1 DEF TypeOK
  <2>3. Holds(w)' /\ Planned(w)'
    BY <1>0, <2>1 DEF TypeOK, Holds, Planned, Prepared, InCall
  <2> QED
    BY <2>1, <2>2, <2>3, QuietPlanned
<1>3. CASE PreflightCheck(w)
  <2>1. CASE Gone(w)
    BY <1>3, <2>1, GonePlanned DEF PreflightCheck
  <2>2. CASE Goto(w, "ready") /\ UNCHANGED <<claim, local>>
    <3>1. /\ pc' = [pc EXCEPT ![w] = "ready"] /\ pc[w] = "checking"
          /\ UNCHANGED <<doc, checkpoint, dispatched, charged, phase, frozen, cur, result>>
      BY <1>3, <2>2 DEF PreflightCheck, Goto
    <3>2. \A v \in Workers \ {w} : UNCHANGED <<pc[v], cur[v], result[v], phase[v], frozen[v]>>
      BY <1>0, <3>1 DEF TypeOK
    <3>3. Holds(w)' /\ Planned(w)'
      BY <1>0, <3>1 DEF TypeOK, Holds, Planned, Prepared, InCall
    <3> QED
      BY <3>1, <3>2, <3>3, QuietPlanned
  <2> QED
    BY <1>3, <2>1, <2>2 DEF PreflightCheck
<1> QED
  BY <1>1, <1>2, <1>3

LEMMA CallPlanned ==
  ASSUME LInv, IInv, NEW w \in Workers,
         \/ \E r \in Reqs : Authorize(w, r)
         \/ Claim(w) \/ Inspect(w) \/ Mark(w) \/ Receive(w) \/ TransportFails(w) \/ Resolve(w)
  PROVE  LInv'
<1> USE DEF store, local, provider
<1>0. TypeOK /\ Holds(w) /\ Planned(w)
  BY DEF IInv, LInv
<1>1. ASSUME NEW r \in Reqs, Authorize(w, r)  PROVE LInv'
  <2>1. /\ frozen' = [frozen EXCEPT ![w][r] = "none"] /\ frozen[w][r] # "none"
        /\ cur' = [cur EXCEPT ![w] = r] /\ pc' = [pc EXCEPT ![w] = "authorized"] /\ pc[w] = "ready"
        /\ UNCHANGED <<doc, checkpoint, dispatched, charged, phase, result>>
    BY <1>1 DEF Authorize, Goto
  <2>2. \A v \in Workers \ {w} : UNCHANGED <<pc[v], cur[v], result[v], phase[v], frozen[v]>>
    BY <1>0, <2>1 DEF TypeOK
  <2>3. Holds(w)' /\ Planned(w)'
    BY <1>0, <2>1 DEF TypeOK, Holds, Planned, Prepared, InCall
  <2> QED
    BY <2>1, <2>2, <2>3, QuietPlanned
<1>2. ASSUME NEW l \in {"claimed", "marked", "received", "settling"},
             pc' = [pc EXCEPT ![w] = l],
             pc[w] = CASE l = "claimed" -> "authorized" [] l = "marked" -> "reserved"
                       [] l = "received" -> "awaiting" [] l = "settling" -> "committed",
             UNCHANGED <<doc, checkpoint, dispatched, charged, phase, frozen, cur, result>>
      PROVE  LInv'
  <2>1. \A v \in Workers \ {w} : UNCHANGED <<pc[v], cur[v], result[v], phase[v], frozen[v]>>
    BY <1>0, <1>2 DEF TypeOK
  <2>2. pc'[w] = l
    BY <1>0, <1>2 DEF TypeOK
  <2>3. Holds(w)' /\ Planned(w)'
    BY <1>0, <1>2, <2>2 DEF Holds, Planned, Prepared, InCall
  <2> QED
    BY <1>2, <2>1, <2>3, QuietPlanned
<1>3. CASE Claim(w)
  BY <1>2, <1>3 DEF Claim, Goto
<1>4. CASE Mark(w)
  BY <1>2, <1>4 DEF Mark, Goto
<1>5. CASE Receive(w)
  BY <1>2, <1>5 DEF Receive, Goto
<1>6. CASE Resolve(w)
  BY <1>2, <1>6 DEF Resolve, Goto
<1>7. CASE TransportFails(w)
  BY <1>7, GonePlanned DEF TransportFails, InCall
<1>8. CASE Inspect(w)
  <2>1. CASE EndCall(w)
    BY <1>8, <2>1, GonePlanned DEF Inspect, InCall
  <2>2. CASE /\ Goto(w, "inspected")
             /\ result' = [result EXCEPT ![w] = checkpoint[cur[w]]]
             /\ UNCHANGED <<claim, phase, frozen, cur>>
    <3>1. /\ pc' = [pc EXCEPT ![w] = "inspected"] /\ pc[w] = "claimed"
          /\ UNCHANGED <<doc, checkpoint, dispatched, charged, phase, frozen, cur>>
      BY <1>8, <2>2 DEF Inspect, Goto
    <3>2. \A v \in Workers \ {w} : UNCHANGED <<pc[v], cur[v], result[v], phase[v], frozen[v]>>
      BY <1>0, <2>2, <3>1 DEF TypeOK
    <3>3. Holds(w)' /\ Planned(w)'
      BY <1>0, <2>2, <3>1 DEF TypeOK, Holds, Planned, Prepared, InCall
    <3> QED
      BY <3>1, <3>2, <3>3, QuietPlanned
  <2> QED
    BY <1>8, <2>1, <2>2 DEF Inspect
<1> QED
  BY <1>1, <1>3, <1>4, <1>5, <1>6, <1>7, <1>8

LEMMA SendPlanned == ASSUME LInv, IInv, NEW w \in Workers, NEW a \in Responses, Send(w, a)  PROVE LInv'
<1> USE DEF store, local, provider
<1>0. TypeOK /\ Holds(w) /\ Planned(w) /\ cur[w] \in Reqs /\ pc[w] = "marked" /\ dispatched[cur[w]] = 0
  BY DEF Send, IInv, LInv, CallOwnsRequest, NothingSentYet, InCall
<1>1. /\ dispatched' = [dispatched EXCEPT ![cur[w]] = @ + 1]
      /\ charged' = [charged EXCEPT ![cur[w]] = @ + a.cost]
      /\ result' = [result EXCEPT ![w] = a] /\ pc' = [pc EXCEPT ![w] = "awaiting"]
      /\ UNCHANGED <<doc, checkpoint, phase, frozen, cur>>
  BY DEF Send, Goto
<1>2. /\ \A r \in Reqs \ {cur[w]} : UNCHANGED <<checkpoint[r], dispatched[r], charged[r]>>
      /\ \A v \in Workers \ {w} : UNCHANGED <<pc[v], cur[v], result[v], phase[v], frozen[v]>>
  BY <1>0, <1>1 DEF TypeOK
<1>3. a.cost \in Nat /\ Told(cur[w])
  BY <1>0, DispatchAssumption, LedgerAssumption DEF LInv
<1>4. dispatched'[cur[w]] = 1 /\ charged'[cur[w]] = a.cost /\ pc'[w] = "awaiting" /\ result'[w] = a
  BY <1>0, <1>1, <1>3 DEF TypeOK, Told
<1>5. Told(cur[w])' /\ Holds(w)' /\ Planned(w)'
  BY <1>0, <1>1, <1>3, <1>4 DEF Told, Holds, Planned, Prepared, InCall
<1>6. /\ \A r \in Reqs : Told(r)'
      /\ \A v \in Workers : Holds(v)' /\ Planned(v)'
  BY <1>0, <1>1, <1>2, <1>5, AnswersKeep DEF InCall
<1> QED
  BY <1>1, <1>6 DEF LInv

LEMMA CommitPlanned == ASSUME LInv, IInv, NEW w \in Workers, Commit(w)  PROVE LInv'
<1> USE DEF store, local, provider
<1>0. TypeOK /\ Holds(w) /\ Planned(w) /\ cur[w] \in Reqs /\ pc[w] = "received"
  BY DEF Commit, IInv, LInv, CallOwnsRequest, InCall
<1>1. /\ checkpoint' = [checkpoint EXCEPT ![cur[w]] = IF @ = NoResponse THEN result[w] ELSE @]
      /\ pc' = [pc EXCEPT ![w] = "committed"]
      /\ UNCHANGED <<doc, dispatched, charged, phase, frozen, cur, result>>
  BY DEF Commit, Goto
<1>2. /\ \A r \in Reqs \ {cur[w]} : UNCHANGED <<checkpoint[r], dispatched[r], charged[r]>>
      /\ \A v \in Workers \ {w} : UNCHANGED <<pc[v], cur[v], result[v], phase[v], frozen[v]>>
  BY <1>0, <1>1 DEF TypeOK
<1>3. checkpoint[cur[w]] = NoResponse /\ checkpoint'[cur[w]] = result[w] /\ pc'[w] = "committed"
  BY <1>0, <1>1 DEF TypeOK, Holds
<1>4. Told(cur[w])' /\ Holds(w)' /\ Planned(w)'
  <2>1. Told(cur[w])
    BY <1>0 DEF LInv
  <2> QED
    BY <1>0, <1>1, <1>3, <2>1 DEF Told, Holds, Planned, Prepared, InCall
<1>5. /\ \A r \in Reqs : Told(r)'
      /\ \A v \in Workers : Holds(v)' /\ Planned(v)'
  BY <1>0, <1>1, <1>2, <1>4, AnswersKeep DEF InCall
<1> QED
  BY <1>1, <1>5 DEF LInv

-----------------------------------------------------------------------------
(* The calls to the ledger. *)

LEMMA AcceptedWithinLimits ==
  ASSUME NEW d, NEW call, Accepts(d, call), call.op \in {"append", "reserve", "reserve_batch"}
  PROVE  WithinLimits(Result(d, call)) /\ Result(d, call) = AddMissing(d, call.items)
BY DEF Accepts, Result, AppendAccepts, ReserveAccepts, ReserveBatchAccepts

LEMMA EstimatesKeepBooks ==
  ASSUME NEW items, doc' = AddMissing(doc, items), IsFiniteSet(DOMAIN doc), IsFiniteSet(DOMAIN items),
         \A r \in Reqs \cap DOMAIN items : items[r] = Estimate(r)
  PROVE  Books /\ IsFiniteSet(DOMAIN doc') /\ DOMAIN doc' = DOMAIN doc \cup DOMAIN items
<1>1. DOMAIN doc' = DOMAIN doc \cup DOMAIN items
  BY DEF AddMissing
<1>2. IsFiniteSet(DOMAIN doc')
  BY <1>1, FS_Union
<1> QED
  BY <1>1, <1>2 DEF Books, AddMissing

LEMMA PreflightReservePlanned ==
  ASSUME LInv, IInv, NEW w \in Workers, PreflightReserve(w)  PROVE LInv'
<1> USE DEF store, local, provider
<1> DEFINE items == [r \in WithStatus(w, "pending") |-> Estimate(r)]
<1>0. TypeOK /\ Holds(w) /\ Planned(w)
  BY DEF IInv, LInv
<1>1. /\ pc' = [pc EXCEPT ![w] = "checking"]
      /\ UNCHANGED <<checkpoint, dispatched, charged, phase, frozen, cur, result>>
  BY DEF PreflightReserve, Goto
<1>2. PhaseCall(w).items = items /\ PhaseCall(w).op = "reserve_batch"
      /\ PhaseCall(w).required = WithStatus(w, "cached")
  BY DEF PhaseCall, BatchCall, Call
<1>3. doc' = AddMissing(doc, items) /\ WithinLimits(doc')
  BY <1>2, AcceptedWithinLimits DEF PreflightReserve
<1>4. WithStatus(w, "cached") \subseteq DOMAIN doc
  BY <1>2 DEF PreflightReserve, Accepts, ReserveBatchAccepts
<1>5. IsFiniteSet(WithStatus(w, "pending"))
  BY <1>0, FS_Subset DEF Planned, WithStatus
<1>6. Books /\ IsFiniteSet(DOMAIN doc') /\ DOMAIN doc' = DOMAIN doc \cup WithStatus(w, "pending")
  BY <1>3, <1>5, EstimatesKeepBooks DEF LInv
<1>7. \A v \in Workers \ {w} : UNCHANGED <<pc[v], cur[v], result[v], phase[v], frozen[v]>>
  BY <1>0, <1>1 DEF TypeOK
<1>8. ASSUME NEW r \in Reqs, frozen[w][r] # "none"  PROVE r \in DOMAIN doc'
  <2>1. r \in phase[w] /\ frozen[w][r] \in {"pending", "cached"}
    BY <1>0, <1>8 DEF TypeOK, Planned
  <2> QED
    BY <1>4, <1>6, <2>1 DEF WithStatus
<1>9. Holds(w)' /\ Planned(w)'
  BY <1>0, <1>1, <1>8 DEF TypeOK, Holds, Planned, Prepared, InCall
<1>10. /\ \A r \in Reqs : Told(r)'
       /\ \A v \in Workers : Holds(v)' /\ Planned(v)'
  BY <1>1, <1>6, <1>7, <1>9, BooksKeep
<1> QED
  BY <1>3, <1>6, <1>10 DEF LInv

LEMMA ReservePlanned == ASSUME LInv, IInv, NEW w \in Workers, Reserve(w)  PROVE LInv'
<1> USE DEF store, local, provider
<1> DEFINE items == [i \in {cur[w]} |-> Estimate(cur[w])]
<1>0. TypeOK /\ Holds(w) /\ Planned(w) /\ cur[w] \in Reqs /\ pc[w] = "inspected"
  BY DEF Reserve, IInv, LInv, CallOwnsRequest, InCall
<1>1. /\ pc' = [pc EXCEPT ![w] = IF result[w] = NoResponse THEN "reserved" ELSE "settling"]
      /\ UNCHANGED <<checkpoint, dispatched, charged, phase, frozen, cur, result>>
  BY DEF Reserve, Goto
<1>2. ReserveCall(cur[w]).items = items /\ ReserveCall(cur[w]).op = "reserve"
  BY DEF ReserveCall, Call
<1>3. doc' = AddMissing(doc, items) /\ WithinLimits(doc')
  BY <1>2, AcceptedWithinLimits DEF Reserve
<1>4. IsFiniteSet(DOMAIN items)
  BY FS_Singleton
<1>5. Books /\ IsFiniteSet(DOMAIN doc')
  BY <1>3, <1>4, EstimatesKeepBooks DEF LInv
<1>6. \A v \in Workers \ {w} : UNCHANGED <<pc[v], cur[v], result[v], phase[v], frozen[v]>>
  BY <1>0, <1>1 DEF TypeOK
<1>7. pc'[w] = IF result[w] = NoResponse THEN "reserved" ELSE "settling"
  BY <1>0, <1>1 DEF TypeOK
<1>8. Holds(w)' /\ Planned(w)'
  BY <1>0, <1>1, <1>5, <1>7 DEF Holds, Planned, Prepared, InCall, Books
<1>9. /\ \A r \in Reqs : Told(r)'
      /\ \A v \in Workers : Holds(v)' /\ Planned(v)'
  BY <1>1, <1>5, <1>6, <1>8, BooksKeep
<1> QED
  BY <1>3, <1>5, <1>9 DEF LInv

LEMMA OtherSpendPlanned ==
  ASSUME LInv, NEW i \in EntryIds, NEW e \in OtherEntries, OtherSpend(i, e)  PROVE LInv'
<1> USE DEF store, local, provider
<1> DEFINE call == Call("append", [j \in {i} |-> e], {}, {})
<1>1. call.op = "append" /\ call.items = [j \in {i} |-> e]
  BY DEF Call
<1>2. /\ i \notin Reqs /\ Accepts(doc, call) /\ doc' = Result(doc, call)
      /\ UNCHANGED <<checkpoint, dispatched, charged, pc, phase, frozen, cur, result>>
  BY DEF OtherSpend, AppendCall
<1> HIDE DEF call
<1> DEFINE items == [j \in {i} |-> e]
<1>3. doc' = AddMissing(doc, items) /\ WithinLimits(doc')
  BY <1>1, <1>2, AcceptedWithinLimits
<1>4. Books /\ IsFiniteSet(DOMAIN doc')
  <2>1. IsFiniteSet(DOMAIN items) /\ Reqs \cap DOMAIN items = {}
    BY <1>2, FS_Singleton
  <2> HIDE DEF items
  <2> QED
    BY <1>3, <2>1, EstimatesKeepBooks DEF LInv
<1>5. /\ \A r \in Reqs : Told(r)'
      /\ \A v \in Workers : Holds(v)' /\ Planned(v)'
  BY <1>2, <1>4, BooksKeep
<1> QED
  BY <1>3, <1>4, <1>5 DEF LInv

LEMMA SettlePlanned == ASSUME LInv, IInv, NEW w \in Workers, Settle(w)  PROVE LInv'
<1> USE DEF store, local, provider
<1> DEFINE r == cur[w]
           call == SettleCall(r, result[w].cost)
<1>0. TypeOK /\ Holds(w) /\ Planned(w) /\ r \in Reqs /\ pc[w] = "settling" /\ result[w] \in Responses
  BY DEF Settle, IInv, LInv, CallOwnsRequest, AnswerGuarded, InCall
<1>1. EndCall(w) /\ UNCHANGED <<checkpoint, dispatched, charged>>
  BY DEF Settle
<1>2. CASE doc' = doc
  BY <1>0, <1>1, <1>2, GonePlanned DEF InCall
<1>3. CASE doc' # doc
  <2>1. Accepts(doc, call) /\ doc' = Result(doc, call)
    BY <1>3 DEF Settle
  <2>2. call.op = "settle_reservation" /\ call.items = [i \in {r} |-> SettledAt(r, result[w].cost)]
    BY DEF SettleCall, Call
  <2> HIDE DEF call, r
  <2>3. /\ doc' = ReplaceEntries(doc, [i \in {r} |-> SettledAt(r, result[w].cost)])
        /\ WithinLimits(doc')
    BY <2>1, <2>2 DEF Accepts, Result, SettleAccepts
  <2>4. DOMAIN doc' = DOMAIN doc
    BY <2>3 DEF ReplaceEntries
  <2>5. \A i \in DOMAIN doc : doc'[i] = IF i = r THEN SettledAt(r, result[w].cost) ELSE doc[i]
    BY <2>3 DEF ReplaceEntries
  <2>6. checkpoint[r] = result[w] /\ checkpoint[r] # NoResponse
    BY <1>0, DispatchAssumption DEF Holds, r
  <2>7. Books
    BY <2>4, <2>5, <2>6 DEF Books
  <2>8. \A v \in Workers \ {w} : UNCHANGED <<pc[v], cur[v], result[v], phase[v], frozen[v]>>
    BY <1>0, <1>1 DEF TypeOK, EndCall, Goto
  <2>9. Holds(w)' /\ Planned(w)'
    <3>1. pc'[w] = "ready" /\ UNCHANGED <<phase, frozen>>
      BY <1>0, <1>1 DEF TypeOK, EndCall, Goto
    <3> QED
      BY <1>0, <2>4, <3>1 DEF Holds, Planned, Prepared, InCall
  <2>10. /\ \A q \in Reqs : Told(q)'
         /\ \A v \in Workers : Holds(v)' /\ Planned(v)'
    BY <1>1, <2>7, <2>8, <2>9, BooksKeep
  <2> QED
    BY <2>3, <2>4, <2>10 DEF LInv
<1> QED
  BY <1>2, <1>3

(* The invariant of the ledger beside the store: every entry of a request  *)
(* is its estimate or its durable cost, every request that went out has    *)
(* one, and a process past its preflight finds all it needs in the ledger. *)
THEOREM LedgerInvariance == Spec => [](IInv /\ LInv)
<1>1. ASSUME IInv, LInv, [Next]_vars  PROVE LInv'
  <2> USE DEF store, local, provider
  <2>1. CASE UNCHANGED vars
    BY <1>1, <2>1, BooksKeep DEF vars, Books, LInv
  <2>2. CASE \E i \in EntryIds, e \in OtherEntries : OtherSpend(i, e)
    BY <1>1, <2>2, OtherSpendPlanned
  <2>3. ASSUME NEW w \in Workers, WorkerStep(w)  PROVE LInv'
    BY <1>1, <2>3, PreflightPlanned, CallPlanned, SendPlanned, CommitPlanned, PreflightReservePlanned,
       ReservePlanned, SettlePlanned, GonePlanned
       DEF WorkerStep, InCallStep, PreflightRefused, Exit, Crash
  <2> QED
    BY <1>1, <2>1, <2>2, <2>3 DEF Next
<1> QED
  BY <1>1, InitLInv, Invariance, PTL DEF Spec

(* What was sent is in the ledger: at exactly what the provider charged     *)
(* once settled, and at the conservative bound until then (_preflight_cost  *)
(* before the transport, and the settlement after it).                      *)
THEOREM SpendCoveredSafe == Spec => []SpendCovered
<1>1. ASSUME IInv, LInv  PROVE SpendCovered
  <2>1. SUFFICES ASSUME NEW r \in Reqs, dispatched[r] > 0
                 PROVE  /\ r \in DOMAIN doc
                        /\ Settled(doc, r) => doc[r].amount = charged[r]
                        /\ Outstanding(doc, r) => doc[r].amount = Bound[r]
    BY DEF SpendCovered
  <2>2. Told(r)
    BY <1>1 DEF LInv
  <2>3. CASE doc[r] = Estimate(r)
    BY <2>1, <2>2, <2>3 DEF Told, Estimate, Settled, Outstanding
  <2>4. CASE checkpoint[r] # NoResponse /\ doc[r] = SettledAt(r, checkpoint[r].cost)
    BY <2>1, <2>2, <2>4 DEF Told, SettledAt, Settled, Outstanding
  <2> QED
    BY <2>1, <2>2, <2>3, <2>4 DEF Told
<1> QED
  BY <1>1, LedgerInvariance, PTL

-----------------------------------------------------------------------------
(* Replacing an estimate by a cost within it keeps the ledger within its   *)
(* hard stops.                                                             *)
LEMMA SettlingLowers ==
  ASSUME NEW d, IsLedger(d), IsFiniteSet(DOMAIN d), WithinLimits(d), NEW r \in DOMAIN d,
         NEW e \in Entry, e.kind = d[r].kind, e.amount <= d[r].amount
  PROVE  WithinLimits(ReplaceEntries(d, [i \in {r} |-> e]))
<1> DEFINE new == ReplaceEntries(d, [i \in {r} |-> e])
<1>1. /\ DOMAIN new = DOMAIN d
      /\ \A i \in DOMAIN d : new[i] = IF i = r THEN e ELSE d[i]
  BY DEF ReplaceEntries
<1>2. \A i \in DOMAIN d : d[i] \in Entry
  BY DEF IsLedger
<1> HIDE DEF new
<1>3. ASSUME NEW kinds  PROVE Committed(new, kinds) \in Nat /\ Committed(d, kinds) \in Nat
                              /\ Committed(new, kinds) <= Committed(d, kinds)
  <2> DEFINE S == Counted(d, kinds, Statuses)
  <2>1. Counted(new, kinds, Statuses) = S
    BY <1>1, <1>2 DEF Counted, Entry
  <2>2. IsFiniteSet(S)
    BY FS_Subset DEF Counted
  <2>3. \A i \in S : new[i].amount \in Nat /\ d[i].amount \in Nat /\ new[i].amount <= d[i].amount
    <3>1. \A x \in Entry : x.amount \in Nat
      BY LedgerAssumption DEF Entry
    <3>2. ASSUME NEW i \in DOMAIN d  PROVE new[i] \in Entry /\ new[i].amount <= d[i].amount
      BY <1>1, <1>2, <3>1
    <3> QED
      BY <1>2, <3>1, <3>2 DEF Counted
  <2> HIDE DEF S
  <2>4. Sums(new, S)[S] \in Nat /\ Sums(d, S)[S] \in Nat /\ Sums(new, S)[S] <= Sums(d, S)[S]
    BY <2>2, <2>3, SumsMonotone
  <2> QED
    BY <2>1, <2>4, TotalIsSum DEF Committed, S
<1>4. WithinLimits(new)
  BY <1>3, LedgerAssumption DEF WithinLimits
<1> QED
  BY <1>4 DEF new

(* A phase that was reserved as a whole is stopped by no hard stop: the    *)
(* repeated reservation of a call finds its entry and adds nothing, and a  *)
(* settlement within the bound of its request never raises a total         *)
(* (preflight_openrouter_phase).                                           *)
THEOREM PhaseRunsToCompletionSafe == Spec => []PhaseRunsToCompletion
<1>1. ASSUME IInv, LInv, NEW w \in Workers, pc[w] \in InCall
      PROVE  /\ cur[w] \in Reqs /\ cur[w] \in DOMAIN doc /\ Told(cur[w])
             /\ IsLedger(doc) /\ WithinLimits(doc) /\ IsFiniteSet(DOMAIN doc) /\ Holds(w)
  BY <1>1 DEF IInv, LInv, CallOwnsRequest, Planned, TypeOK
<1>2. ASSUME IInv, LInv, NEW w \in Workers, pc[w] = "inspected"
      PROVE  Accepts(doc, ReserveCall(cur[w]))
  <2> DEFINE r == cur[w]
             items == [i \in {r} |-> Estimate(r)]
  <2>1. /\ r \in Reqs /\ r \in DOMAIN doc /\ Told(r) /\ IsLedger(doc) /\ WithinLimits(doc)
    BY <1>1, <1>2 DEF InCall
  <2>2. ReserveCall(r).op = "reserve" /\ ReserveCall(r).items = items
    BY DEF ReserveCall, Call
  <2>3. CoversEstimate(doc[r], Estimate(r))
    BY <2>1 DEF Told, CoversEstimate, Estimate, SettledAt
  <2>4. AddMissing(doc, items) = doc
    <3>1. DOMAIN doc \cup DOMAIN items = DOMAIN doc
      BY <2>1
    <3>2. doc = [i \in DOMAIN doc |-> doc[i]]
      BY <2>1 DEF IsLedger
    <3> HIDE DEF items
    <3> QED
      BY <3>1, <3>2 DEF AddMissing
  <2>5. \A i \in DOMAIN items \cap DOMAIN doc : CoversEstimate(doc[i], items[i])
    BY <2>3
  <2> HIDE DEF items, r
  <2>6. Accepts(doc, ReserveCall(r))
    BY <2>1, <2>2, <2>4, <2>5 DEF Accepts, ReserveAccepts
  <2> QED
    BY <2>6 DEF r
<1>3. ASSUME IInv, LInv, NEW w \in Workers, pc[w] = "settling", result[w].cost <= Bound[cur[w]]
      PROVE  Accepts(doc, SettleCall(cur[w], result[w].cost))
  <2> DEFINE r == cur[w]
             e == SettledAt(r, result[w].cost)
             items == [i \in {r} |-> e]
  <2>1. /\ r \in Reqs /\ r \in DOMAIN doc /\ Told(r) /\ IsLedger(doc) /\ WithinLimits(doc)
        /\ IsFiniteSet(DOMAIN doc) /\ result[w] = checkpoint[r] /\ result[w] \in Responses
    BY <1>1, <1>3 DEF InCall, Holds, IInv, AnswerGuarded
  <2>2. SettleCall(r, result[w].cost).op = "settle_reservation"
        /\ SettleCall(r, result[w].cost).items = items
    BY DEF SettleCall, Call
  <2>3. e \in Entry /\ e.kind = "api" /\ doc[r].kind = "api"
    BY <2>1, SettledTyped, DispatchAssumption DEF Told, Estimate, SettledAt
  <2>4. e.amount <= doc[r].amount
    <3>1. e.amount = result[w].cost /\ result[w].cost \in Nat
      BY <2>1, DispatchAssumption, LedgerAssumption DEF SettledAt
    <3>2. charged[r] = result[w].cost /\ charged[r] <= Bound[r]
      BY <1>3, <2>1, DispatchAssumption DEF Told
    <3> QED
      BY <2>1, <3>1, <3>2 DEF Told, Estimate, SettledAt
  <2>5. doc[r].status = "incurred" => doc[r] = e
    BY <2>1 DEF Told, Estimate
  <2>6. WithinLimits(ReplaceEntries(doc, items))
    <3>1. e.kind = doc[r].kind
      BY <2>3
    <3> HIDE DEF e, r
    <3> QED
      BY <2>1, <2>3, <2>4, <3>1, SettlingLowers
  <2>7. DOMAIN items = {r} /\ items[r] = e
    OBVIOUS
  <2> HIDE DEF items, r, e
  <2>8. SettleAccepts(doc, SettleCall(r, result[w].cost))
    BY <2>1, <2>2, <2>3, <2>5, <2>6, <2>7 DEF SettleAccepts
  <2>9. Accepts(doc, SettleCall(r, result[w].cost))
    BY <2>1, <2>2, <2>8 DEF Accepts
  <2> QED
    BY <2>9 DEF r
<1>4. IInv /\ LInv => PhaseRunsToCompletion
  BY <1>2, <1>3 DEF PhaseRunsToCompletion
<1> QED
  BY <1>4, LedgerInvariance, PTL

-----------------------------------------------------------------------------
(* The paid calls take CostLedger steps: the instance speaks of the same    *)
(* documents and decisions, and every call is one of LedgerCalls.           *)
LEMMA LedgerTotal == \A d, k, s : Ledger!Total(d, k, s) = Total(d, k, s)
BY DEF Total, Ledger!Total, MapThenSumSet, Ledger!MapThenSumSet,
       MapThenFoldSet, Ledger!MapThenFoldSet

LEMMA LedgerLimits == \A d : Ledger!WithinLimits(d) <=> WithinLimits(d)
BY LedgerTotal DEF WithinLimits, Ledger!WithinLimits, Committed, Ledger!Committed,
                   Kinds, Ledger!Kinds, Statuses, Ledger!Statuses

LEMMA LedgerDecides ==
  ASSUME NEW d, NEW r, Accepts(d, r),
         r.op \in {"append", "reserve", "reserve_batch", "settle_reservation"}
  PROVE  Ledger!Accepts(d, r) /\ Ledger!Result(d, r) = Result(d, r)
<1>1. /\ Ledger!AddMissing(d, r.items) = AddMissing(d, r.items)
      /\ Ledger!ReplaceEntries(d, r.items) = ReplaceEntries(d, r.items)
  BY DEF AddMissing, Ledger!AddMissing, ReplaceEntries, Ledger!ReplaceEntries
<1>2. Ledger!Result(d, r) = Result(d, r)
  BY <1>1 DEF Result, Ledger!Result
<1>3. r.op = "append" /\ AppendAccepts(d, r) => Ledger!AppendAccepts(d, r)
  BY <1>1, LedgerLimits DEF AppendAccepts, Ledger!AppendAccepts
<1>4. r.op = "reserve" /\ ReserveAccepts(d, r) => Ledger!ReserveAccepts(d, r)
  BY <1>1, LedgerLimits
  DEF ReserveAccepts, Ledger!ReserveAccepts, CoversEstimate, Ledger!CoversEstimate
<1>5. r.op = "reserve_batch" /\ ReserveBatchAccepts(d, r) => Ledger!ReserveBatchAccepts(d, r)
  BY <1>1, LedgerLimits
  DEF ReserveBatchAccepts, Ledger!ReserveBatchAccepts, CoversEstimate, Ledger!CoversEstimate,
      Settled, Ledger!Settled
<1>6. r.op = "settle_reservation" /\ SettleAccepts(d, r) => Ledger!SettleAccepts(d, r)
  BY <1>1, LedgerLimits DEF SettleAccepts, Ledger!SettleAccepts
<1>7. QED
  BY <1>2, <1>3, <1>4, <1>5, <1>6, LedgerLimits DEF Accepts, Ledger!Accepts

LEMMA CallsMade ==
  ASSUME IInv, NEW w \in Workers
  PROVE  /\ PhaseCall(w) \in LedgerCalls
         /\ pc[w] \in InCall => ReserveCall(cur[w]) \in LedgerCalls
         /\ pc[w] = "settling" => SettleCall(cur[w], result[w].cost) \in LedgerCalls
<1>1. PhaseCall(w) \in LedgerCalls
  <2>1. WithStatus(w, "pending") \in SUBSET Reqs /\ WithStatus(w, "cached") \in SUBSET Reqs
    BY DEF IInv, TypeOK, WithStatus
  <2>2. \A p, c \in SUBSET Reqs : BatchCall(p, c) \in LedgerCalls
    BY DEF LedgerCalls
  <2> HIDE DEF LedgerCalls
  <2> QED BY <2>1, <2>2 DEF PhaseCall
<1>2. ASSUME pc[w] \in InCall  PROVE ReserveCall(cur[w]) \in LedgerCalls
  BY <1>2 DEF IInv, CallOwnsRequest, LedgerCalls
<1>3. ASSUME pc[w] = "settling"  PROVE SettleCall(cur[w], result[w].cost) \in LedgerCalls
  <2>1. cur[w] \in Reqs /\ result[w] \in Responses
    BY <1>3 DEF IInv, CallOwnsRequest, AnswerGuarded, InCall
  <2>2. result[w].cost \in Amounts
    BY <2>1, DispatchAssumption
  <2> QED BY <2>1, <2>2 DEF LedgerCalls
<1> QED BY <1>1, <1>2, <1>3

LEMMA NeverExclusive ==
  /\ \A r : ReserveCall(r).exclusive \in BOOLEAN
  /\ \A r, a : SettleCall(r, a).exclusive \in BOOLEAN
  /\ \A p, k : BatchCall(p, k).exclusive \in BOOLEAN
  /\ \A i, e : AppendCall(i, e).exclusive \in BOOLEAN
<1>1. \A op, items, required, rejected : Call(op, items, required, rejected).exclusive \in BOOLEAN
  BY Zenon DEF Call
<1> QED BY <1>1 DEF ReserveCall, SettleCall, BatchCall, AppendCall

(* The calls made are calls the ledger is proved correct for: what         *)
(* CallsAssumption asks of the callers of budget.py holds of these.         *)
THEOREM CallsAreWellFormed == WellFormedCalls(LedgerCalls)
<1> SUFFICES ASSUME NEW c \in LedgerCalls
             PROVE  /\ IsRequest(c)
                    /\ \A i \in DOMAIN c.items :
                         ~ (c.items[i].kind = "gpu" /\ c.items[i].status = "estimated")
  BY DEF WellFormedCalls
<1>1. \/ \E r \in Reqs : c = ReserveCall(r)
      \/ \E r \in Reqs, a \in Amounts : c = SettleCall(r, a)
      \/ \E p, k \in SUBSET Reqs : c = BatchCall(p, k)
      \/ \E i \in EntryIds \ Reqs, e \in OtherEntries : c = AppendCall(i, e)
  BY DEF LedgerCalls
<1>2. c.exclusive \in BOOLEAN
  BY <1>1, NeverExclusive
<1>3. ASSUME NEW r \in Reqs, c = ReserveCall(r)
      PROVE  /\ IsRequest(c)
             /\ \A i \in DOMAIN c.items : c.items[i].kind = "api"
  <2>1. c.items = [i \in {r} |-> Estimate(r)] /\ IsLedger(c.items) /\ r \in EntryIds
    BY <1>3, EstimateTyped, SingletonTyped DEF ReserveCall, Call
  <2>2. c.op = "reserve" /\ c.required = {} /\ c.rejectIncurred = {} /\ c.ceiling = 0
    BY <1>3 DEF ReserveCall, Call
  <2>3. \A i \in DOMAIN c.items : c.items[i].status = "estimated" /\ c.items[i].kind = "api"
    BY <2>1 DEF Estimate
  <2>4. \E i \in EntryIds : DOMAIN c.items = {i}
    BY <2>1
  <2> QED BY <2>1, <2>2, <2>3, <2>4, <1>2 DEF IsRequest, Ops, SingleOps
<1>4. ASSUME NEW r \in Reqs, NEW a \in Amounts, c = SettleCall(r, a)
      PROVE  /\ IsRequest(c)
             /\ \A i \in DOMAIN c.items : c.items[i].kind = "api"
  <2>1. c.items = [i \in {r} |-> SettledAt(r, a)] /\ IsLedger(c.items) /\ r \in EntryIds
    BY <1>4, SettledTyped, SingletonTyped DEF SettleCall, Call
  <2>2. /\ c.op = "settle_reservation" /\ c.required = {} /\ c.rejectIncurred = {}
        /\ c.ceiling = 0
    BY <1>4 DEF SettleCall, Call
  <2>3. \A i \in DOMAIN c.items : c.items[i].status = "incurred" /\ c.items[i].kind = "api"
    BY <2>1 DEF SettledAt
  <2>4. \E i \in EntryIds : DOMAIN c.items = {i}
    BY <2>1
  <2> QED BY <2>1, <2>2, <2>3, <2>4, <1>2 DEF IsRequest, Ops, SingleOps
<1>5. ASSUME NEW p \in SUBSET Reqs, NEW k \in SUBSET Reqs,
             c = BatchCall(p, k)
      PROVE  /\ IsRequest(c)
             /\ \A i \in DOMAIN c.items : c.items[i].kind = "api"
  <2>1. c.items = [r \in p |-> Estimate(r)] /\ IsLedger(c.items)
    BY <1>5, EstimateTyped DEF BatchCall, Call, IsLedger
  <2>2. c.op = "reserve_batch" /\ c.required = k /\ c.rejectIncurred = p /\ c.ceiling = 0
    BY <1>5 DEF BatchCall, Call
  <2>3. p \subseteq EntryIds /\ k \subseteq EntryIds
    BY DispatchAssumption
  <2>4. \A i \in DOMAIN c.items : c.items[i].status = "estimated" /\ c.items[i].kind = "api"
    BY <2>1 DEF Estimate
  <2> QED BY <2>1, <2>2, <2>3, <2>4, <1>2 DEF IsRequest, Ops, SingleOps
<1>6. ASSUME NEW i \in EntryIds \ Reqs, NEW e \in OtherEntries,
             c = AppendCall(i, e)
      PROVE  /\ IsRequest(c)
             /\ \A j \in DOMAIN c.items : c.items[j].status = "incurred"
  <2>1. c.items = [j \in {i} |-> e] /\ IsLedger(c.items) /\ e.status = "incurred"
    BY <1>6, SingletonTyped DEF OtherEntries, AppendCall, Call
  <2>2. c.op = "append" /\ c.required = {} /\ c.rejectIncurred = {} /\ c.ceiling = 0
    BY <1>6 DEF AppendCall, Call
  <2>3. \A j \in DOMAIN c.items : c.items[j].status = "incurred"
    BY <2>1
  <2>4. \E j \in EntryIds : DOMAIN c.items = {j}
    BY <2>1
  <2> QED BY <2>1, <2>2, <2>3, <2>4, <1>2 DEF IsRequest, Ops, SingleOps
<1> QED BY <1>3, <1>4, <1>5, <1>6, <1>1

(* Every step of a paid program, and of the others that spend beside it,    *)
(* is one accepted ledger call or leaves the ledger alone: with Refinement, *)
(* the locked file serves these programs as the single steps they assume    *)
(* (providers.py and paid_response_store.py over budget.py).                *)
THEOREM DispatchRefinesLedger == Spec => UsesCostLedger
<1>1. Init => Ledger!Init
  BY DEF Init, Ledger!Init, EmptyLedger, Ledger!EmptyLedger
<1>2. IInv /\ [Next]_vars => [Ledger!Next]_doc
  <2> SUFFICES ASSUME IInv, Next, doc' # doc
               PROVE  \E c \in LedgerCalls :
                        /\ Accepts(doc, c) /\ doc' = Result(doc, c)
                        /\ c.op \in {"append", "reserve", "reserve_batch", "settle_reservation"}
    BY LedgerDecides DEF vars, Ledger!Next, Ledger!Apply
  <2>1. ASSUME NEW w \in Workers, PreflightReserve(w)
        PROVE  /\ PhaseCall(w) \in LedgerCalls /\ PhaseCall(w).op = "reserve_batch"
               /\ Accepts(doc, PhaseCall(w)) /\ doc' = Result(doc, PhaseCall(w))
    BY <2>1, CallsMade DEF PreflightReserve, PhaseCall, BatchCall, Call
  <2>2. ASSUME NEW w \in Workers, Reserve(w)
        PROVE  /\ ReserveCall(cur[w]) \in LedgerCalls /\ ReserveCall(cur[w]).op = "reserve"
               /\ Accepts(doc, ReserveCall(cur[w])) /\ doc' = Result(doc, ReserveCall(cur[w]))
    BY <2>2, CallsMade DEF Reserve, ReserveCall, Call, InCall
  <2>3. ASSUME NEW w \in Workers, Settle(w)
        PROVE  LET c == SettleCall(cur[w], result[w].cost)
               IN /\ c \in LedgerCalls /\ c.op = "settle_reservation"
                  /\ Accepts(doc, c) /\ doc' = Result(doc, c)
    BY <2>3, CallsMade DEF Settle, SettleCall, Call
  <2>4. ASSUME NEW i \in EntryIds, NEW e \in OtherEntries, OtherSpend(i, e)
        PROVE  LET c == AppendCall(i, e)
               IN /\ c \in LedgerCalls /\ c.op = "append"
                  /\ Accepts(doc, c) /\ doc' = Result(doc, c)
    <3>1. i \in EntryIds \ Reqs /\ Accepts(doc, AppendCall(i, e)) /\ doc' = Result(doc, AppendCall(i, e))
      BY <2>4 DEF OtherSpend
    <3>2. AppendCall(i, e) \in LedgerCalls
      BY <3>1 DEF LedgerCalls
    <3>3. AppendCall(i, e).op = "append"
      BY DEF AppendCall, Call
    <3> HIDE DEF LedgerCalls
    <3> QED BY <3>1, <3>2, <3>3
  <2>5. \/ \E w \in Workers : PreflightReserve(w) \/ Reserve(w) \/ Settle(w)
        \/ \E i \in EntryIds, e \in OtherEntries : OtherSpend(i, e)
    BY DEF Next, WorkerStep, InCallStep, PreflightStart, PreflightLoad, PreflightRefused,
           PreflightCheck, Authorize, Claim, Inspect, Mark, Send, Receive, TransportFails,
           Commit, Resolve, Exit, Crash
  <2> HIDE DEF LedgerCalls
  <2> QED BY <2>1, <2>2, <2>3, <2>4, <2>5
<1>3. QED BY <1>1, <1>2, Invariance, PTL DEF Spec, UsesCostLedger, Ledger!Spec
=============================================================================
