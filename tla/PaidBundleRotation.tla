------------------------- MODULE PaidBundleRotation -------------------------
(***************************************************************************)
(* The private paid controls of one quote window (two quote locks, an      *)
(* approval, a hand-written quote spec) and their crash-resumable rotation *)
(* into an archive: paid_bundle_rotation.py, with the writers and readers  *)
(* of those controls (freeze_paid_bundle.py, gpu_budget_reserve.py,        *)
(* runpod_pod_lifecycle.py).  Rotation takes the paid-bundle lock          *)
(* exclusively, every other program here takes it shared, and a process    *)
(* that dies drops it.                                                     *)
(*                                                                         *)
(* The content of a control is the quote window (a version) it belongs to. *)
(* A manifest is the function from the controls it records to their        *)
(* versions; the content-derived bundle id is that function, since the     *)
(* code's id is a hash of the records.                                     *)
(***************************************************************************)
EXTENDS Integers, FiniteSets, SequencesExt

CONSTANTS Peers,          \* processes that take the paid-bundle lock shared
          Versions,       \* quote windows
          ExplicitIds,    \* bundle ids an operator may pass
          MaxBundles,     \* bound: archive directories
          Nothing, Torn   \* no file; a file whose write was cut short

(* mutated form: an optional control sorts before the quote locks. *)
ApprovalFirst == <<"paid_run_approval", "api_route_quote_lock", "gpu_quote_lock", "quote_spec">>
(* Sorted as their paths are: the order in which sources are removed. *)
SortedControls == <<"api_route_quote_lock", "gpu_quote_lock", "paid_run_approval", "quote_spec">>
Controls == ToSet(SortedControls)
Required == {"api_route_quote_lock", "gpu_quote_lock"}
Manifests == UNION { [D -> Versions] : D \in { E \in SUBSET Controls : Required \subseteq E } }
Ids == ExplicitIds \cup Manifests
Files == Controls \cup {"manifest", "rotation_complete"}

ASSUME RotationAssumption ==
  /\ Nothing \notin Versions \cup Ids /\ Torn \notin Versions \cup Ids
  /\ Nothing # Torn
  /\ ExplicitIds \cap Manifests = {}
  /\ MaxBundles \in Nat

VARIABLES source,   \* the canonical controls
          bundles,  \* archive directories: their files, and pending twins
          rot,      \* the running rotation, lost when it dies
          peer,     \* step of each other process, and the window it works on
          open,     \* window of the outstanding GPU reservation in the ledger
          podUp,    \* the lifecycle record does not say stopped / EXITED
          placed    \* history: controls nobody but a rotation removed, except
                    \* specs written while one was running

spend == <<open, podUp>>
vars == <<source, bundles, rot, peer, spend, placed>>

Off == [pc |-> "off", id |-> Nothing, man |-> Nothing, expected |-> Nothing,
        held |-> {}, todo |-> {}]
Out == [pc |-> "out", window |-> Nothing]
Absent == [dest |-> Nothing, pending |-> Nothing]

Init == /\ source = [c \in Controls |-> Nothing]
        /\ bundles = <<>>
        /\ rot = Off
        /\ peer = [p \in Peers |-> Out]
        /\ open = Nothing /\ podUp = FALSE
        /\ placed = {}

-----------------------------------------------------------------------------
(* The archive. *)

Present == { c \in Controls : source[c] # Nothing }
Snapshot == [c \in Present |-> source[c]]
(* The record whose turn it is: the first left, in the order of the paths. *)
Before(c, d) == \E i, j \in DOMAIN SortedControls :
                  SortedControls[i] = c /\ SortedControls[j] = d /\ i <= j
Turn(todo) == { c \in todo : \A d \in todo : Before(c, d) }

Exact(slot, content) == slot = [dest |-> content, pending |-> Nothing]
Begun(slot) == slot # Absent
Acceptable(slot, content) == slot.dest \in {Nothing, content} /\ slot.pending \in {Nothing, content}

(* One durable step of installing exact bytes: stage, link, drop the twin. *)
Installing(slot, content) ==
  IF slot = Absent THEN [slot EXCEPT !.pending = content]
  ELSE IF slot.dest = Nothing THEN [slot EXCEPT !.dest = slot.pending]
  ELSE [slot EXCEPT !.pending = Nothing]

Incomplete == { id \in DOMAIN bundles :
                  \/ bundles[id]["rotation_complete"].pending # Nothing
                  \/ Begun(bundles[id]["manifest"])
                     /\ bundles[id]["rotation_complete"].dest = Nothing }
(* mutated form: only the lifecycle is looked at, not the ledger. *)
IdleByLifecycle == ~podUp
Idle == open = Nothing /\ ~podUp

-----------------------------------------------------------------------------
(* The rotation, from the lock to the completion marker. *)

MayBegin == rot.pc = "off" /\ Idle /\ \A p \in Peers : peer[p] = Out

Install(id, man, expected) ==
  rot' = [Off EXCEPT !.pc = "manifest", !.id = id, !.man = man, !.expected = expected]

(* _initialize_or_load_manifest: an installed or pending manifest wins. *)
Resume(id, expected) ==
  LET slot == bundles[id]["manifest"]
      found == IF slot.dest # Nothing THEN slot.dest ELSE slot.pending
  IN IF Begun(slot) THEN found # Torn /\ Install(id, found, expected)
     ELSE expected # Nothing /\ Install(id, expected, expected)

Create(id) ==
  /\ Cardinality(DOMAIN bundles) < MaxBundles
  /\ bundles' = [ i \in DOMAIN bundles \cup {id} |->
                    IF i = id THEN [f \in Files |-> Absent] ELSE bundles[i] ]
  /\ Install(id, Snapshot, Snapshot)

Begin(requested) ==
  /\ MayBegin
  /\ LET full == Required \subseteq Present
         id == IF requested # Nothing THEN requested ELSE Snapshot
     IN \/ /\ requested \in DOMAIN bundles
           /\ Resume(requested,
                     IF full /\ ~Begun(bundles[requested]["rotation_complete"])
                     THEN Snapshot ELSE Nothing)
           /\ UNCHANGED bundles
        \/ /\ requested = Nothing /\ ~full
           /\ Cardinality(Incomplete) = 1
           /\ \E only \in Incomplete : Resume(only, Nothing)
           /\ UNCHANGED bundles
        \/ /\ requested \notin DOMAIN bundles /\ full
           /\ IF id \in DOMAIN bundles THEN Resume(id, Snapshot) /\ UNCHANGED bundles
              ELSE Create(id)
  /\ UNCHANGED <<source, peer, spend, placed>>

Disk == <<source, peer, spend, placed>>
Go(pc) == rot' = [rot EXCEPT !.pc = pc, !.expected = Nothing, !.todo = DOMAIN rot.man]

(* Install file f with this content, and go on once it is exact. *)
InstallThen(f, content, done) ==
  LET slot == bundles[rot.id][f]
  IN /\ Acceptable(slot, content)
     /\ IF Exact(slot, content) THEN done /\ UNCHANGED bundles
        ELSE /\ bundles' = [bundles EXCEPT ![rot.id][f] = Installing(slot, content)]
             /\ UNCHANGED rot

ManifestStep ==
  /\ rot.pc = "manifest"
  /\ InstallThen("manifest", rot.man,
       /\ rot.expected \in {Nothing, rot.man}
       /\ Go(IF Begun(bundles[rot.id]["rotation_complete"]) THEN "replay" ELSE "load"))
  /\ UNCHANGED Disk

(* mutated form: new controls are not looked for. *)
ReplayBlind ==
  /\ rot.pc = "replay"
  /\ InstallThen("rotation_complete", rot.man, Go("final"))
  /\ UNCHANGED Disk
(* A completed archive is authenticated again and never reused. *)
ReplayStep ==
  /\ rot.pc = "replay"
  /\ InstallThen("rotation_complete", rot.man, Present = {} /\ Go("final"))
  /\ UNCHANGED Disk

SourcesMatch(man) ==
  Present \subseteq DOMAIN man /\ \A c \in Present : source[c] = man[c]

(* mutated form: sources are removed before they are copied. *)
RemovalFirst ==
  /\ rot.pc = "load"
  /\ SourcesMatch(rot.man)
  /\ rot' = [rot EXCEPT !.pc = "unlink", !.held = Present]
  /\ UNCHANGED <<Disk, bundles>>
LoadStep ==
  /\ rot.pc = "load"
  /\ SourcesMatch(rot.man)
  /\ rot' = [rot EXCEPT !.pc = "archive", !.held = Present]
  /\ UNCHANGED <<Disk, bundles>>

(* mutated form: a record already archived and removed is refused. *)
ArchiveAllAnew ==
  /\ rot.pc = "archive"
  /\ IF rot.todo = {} THEN Go("verify") /\ UNCHANGED bundles
     ELSE \E c \in Turn(rot.todo) :
            /\ c \in rot.held
            /\ InstallThen(c, rot.man[c], rot' = [rot EXCEPT !.todo = @ \ {c}])
  /\ UNCHANGED Disk
(* Copy each source; a record without one must already be archived. *)
ArchiveStep ==
  /\ rot.pc = "archive"
  /\ IF rot.todo = {} THEN Go("verify") /\ UNCHANGED bundles
     ELSE \E c \in Turn(rot.todo) :
            /\ c \in rot.held \/ Exact(bundles[rot.id][c], rot.man[c])
            /\ InstallThen(c, rot.man[c], rot' = [rot EXCEPT !.todo = @ \ {c}])
  /\ UNCHANGED Disk

AllArchived(id, man) == \A c \in DOMAIN man : Exact(bundles[id][c], man[c])

(* The last look at archive, lifecycle and sessions before removal. *)
VerifyStep ==
  /\ rot.pc = "verify"
  /\ AllArchived(rot.id, rot.man) /\ Idle
  /\ Go("unlink")
  /\ UNCHANGED <<Disk, bundles>>

(* Remove the sources one by one: a hash check, then the unlink. *)
CheckSource ==
  /\ rot.pc = "unlink" /\ rot.todo # {}
  /\ \E c \in Turn(rot.todo) :
       IF source[c] = Nothing THEN rot' = [rot EXCEPT !.todo = @ \ {c}]
       ELSE source[c] = rot.man[c] /\ rot' = [rot EXCEPT !.pc = "remove"]
  /\ UNCHANGED <<Disk, bundles>>

RemoveSource ==
  /\ rot.pc = "remove"
  /\ \E c \in Turn(rot.todo) :
       /\ source' = [source EXCEPT ![c] = Nothing]
       /\ rot' = [rot EXCEPT !.pc = "unlink", !.todo = @ \ {c}]
  /\ UNCHANGED <<bundles, peer, spend, placed>>

CompleteStep ==
  /\ rot.pc = "unlink" /\ rot.todo = {}
  /\ InstallThen("rotation_complete", rot.man, Go("final"))
  /\ UNCHANGED Disk

Finish ==
  /\ rot.pc = "final"
  /\ AllArchived(rot.id, rot.man)
  /\ rot' = Off
  /\ UNCHANGED <<Disk, bundles>>

(* A refused check and a killed process end the same way: locks dropped,   *)
(* files as they are; and a kill can cut the staging write short.          *)
Stop == rot.pc # "off" /\ rot' = Off /\ UNCHANGED <<Disk, bundles>>
Staging == CASE rot.pc = "manifest" -> {"manifest"}
             [] rot.pc = "replay" \/ (rot.pc = "unlink" /\ rot.todo = {}) -> {"rotation_complete"}
             [] rot.pc = "archive" /\ rot.todo # {} -> Turn(rot.todo) \cap rot.held
             [] OTHER -> {}
StopMidWrite ==
  /\ \E f \in Staging :
       /\ bundles[rot.id][f] = Absent
       /\ bundles' = [bundles EXCEPT ![rot.id][f].pending = Torn]
  /\ rot' = Off
  /\ UNCHANGED Disk

RotationStep == \/ ManifestStep \/ ReplayStep \/ LoadStep \/ ArchiveStep \/ VerifyStep
                \/ CheckSource \/ RemoveSource \/ CompleteStep \/ Finish

-----------------------------------------------------------------------------
(* The writers and readers of the canonical controls. *)

Unlocked == rot.pc = "off"
Place(c, v) == /\ source' = [source EXCEPT ![c] = v]
               /\ placed' = placed \cup {<<c, v>>}
Move(p, pc, window) == peer' = [peer EXCEPT ![p] = [pc |-> pc, window |-> window]]

(* The operator edits the quote spec by hand, under no lock, so that a      *)
(* rotation may be running.                                                *)
WriteSpec(v) ==
  /\ source["quote_spec"] # v
  /\ source' = [source EXCEPT !["quote_spec"] = v]
  /\ placed' = (placed \ {<<"quote_spec", source["quote_spec"]>>})
                  \cup (IF Unlocked THEN {<<"quote_spec", v>>} ELSE {})
  /\ UNCHANGED <<bundles, rot, peer, spend>>

(* Freeze the quotes: both locks are checked, then written one by one. *)
FreezeGpuQuote(p) ==
  /\ Unlocked /\ peer[p] = Out
  /\ source["quote_spec"] # Nothing
  /\ Present \cap Required = {}
  /\ Place("gpu_quote_lock", source["quote_spec"])
  /\ Move(p, "freezing", source["quote_spec"])
  /\ UNCHANGED <<bundles, rot, spend>>
FreezeApiQuote(p) ==
  /\ peer[p].pc = "freezing"
  /\ source["api_route_quote_lock"] = Nothing
  /\ Place("api_route_quote_lock", peer[p].window)
  /\ Move(p, "out", Nothing)
  /\ UNCHANGED <<bundles, rot, spend>>

(* An approval is claimed once, and only while no GPU money is reserved. *)
Approve(p) ==
  /\ Unlocked /\ peer[p] = Out
  /\ Required \subseteq Present /\ "paid_run_approval" \notin Present
  /\ open = Nothing
  /\ Place("paid_run_approval", source["gpu_quote_lock"])
  /\ UNCHANGED <<bundles, rot, peer, spend>>

(* gpu_budget_reserve: read the quote lock, then commit the reservation. *)
ReadQuote(p) ==
  /\ Unlocked /\ peer[p] = Out
  /\ "gpu_quote_lock" \in Present
  /\ Move(p, "reserving", source["gpu_quote_lock"])
  /\ UNCHANGED <<source, bundles, rot, spend, placed>>
Reserve(p) ==
  /\ peer[p].pc = "reserving" /\ open = Nothing
  /\ open' = peer[p].window
  /\ Move(p, "out", Nothing)
  /\ UNCHANGED <<source, bundles, rot, podUp, placed>>

(* rearm: load locks, approval and reservation of one window, then start. *)
LoadContext(p) ==
  /\ Unlocked /\ peer[p] = Out
  /\ open # Nothing
  /\ \A c \in Required \cup {"paid_run_approval"} : source[c] = open
  /\ Move(p, "rearming", open)
  /\ UNCHANGED <<source, bundles, rot, spend, placed>>
Rearm(p) ==
  /\ peer[p].pc = "rearming" /\ open = peer[p].window
  /\ podUp' = TRUE
  /\ Move(p, "out", Nothing)
  /\ UNCHANGED <<source, bundles, rot, open, placed>>

PeerDies(p) == peer[p] # Out /\ Move(p, "out", Nothing)
               /\ UNCHANGED <<source, bundles, rot, spend, placed>>

(* Stopping needs no paid-bundle lock; settling needs the ledger's, which  *)
(* a rotation holds.                                                       *)
StopPod == podUp /\ podUp' = FALSE /\ UNCHANGED <<source, bundles, rot, peer, open, placed>>
Settle == /\ Unlocked /\ ~podUp /\ open # Nothing /\ open' = Nothing
          /\ UNCHANGED <<source, bundles, rot, peer, podUp, placed>>

PeerStep(p) == \/ FreezeApiQuote(p) \/ Reserve(p) \/ Rearm(p) \/ PeerDies(p)
PeerStart(p) == \/ FreezeGpuQuote(p) \/ Approve(p) \/ ReadQuote(p) \/ LoadContext(p)

Next == \/ \E requested \in ExplicitIds \cup {Nothing} : Begin(requested)
        \/ RotationStep \/ Stop \/ StopMidWrite
        \/ \E v \in Versions : WriteSpec(v)
        \/ \E p \in Peers : PeerStart(p) \/ PeerStep(p)
        \/ StopPod \/ Settle

Spec == Init /\ [][Next]_vars

-----------------------------------------------------------------------------
(* Properties. *)

Slots == [dest : Versions \cup Manifests \cup {Nothing},
          pending : Versions \cup Manifests \cup {Nothing, Torn}]

(* The exact content v of control c is archived under a manifest naming it. *)
Archived(c, v) ==
  \E id \in DOMAIN bundles :
    LET man == bundles[id]["manifest"].dest
    IN man # Nothing /\ c \in DOMAIN man /\ man[c] = v /\ bundles[id][c].dest = v

(* Whatever was ever frozen, approved or written by hand is still in its   *)
(* canonical place or archived byte for byte, whatever died and whenever,  *)
(* unless the operator overwrote it: a rotation never loses a control.     *)
(* Only a spec written while one is running may go with the one it         *)
(* replaced.                                                               *)
NothingLost == \A cv \in placed : source[cv[1]] = cv[2] \/ Archived(cv[1], cv[2])

(* While GPU money is reserved the quote lock it was computed from stays   *)
(* canonical, so a re-arm authenticates against the same window: a         *)
(* rotation waits for the settlement, even of a process that died.         *)
OpenSpendKeepsQuote == open # Nothing => source["gpu_quote_lock"] = open

(* A rotation never reports success over a quote lock or an approval,      *)
(* which could still authorize spending in a window that is over, whether  *)
(* it removed them, resumed from one that died in between, or found the    *)
(* archive complete.  A spec written back after its removal may be there:  *)
(* nothing looks at the sources again, whatever the documentation says of  *)
(* recreated files.                                                        *)
SuccessLeavesNoLock == [][ Finish => Present \subseteq {"quote_spec"} ]_vars

(* An interrupted content-derived rotation that a rerun without an id must *)
(* be able to finish: the only incomplete one, no write cut short, and the *)
(* sources still there are what a removal in order leaves of its manifest  *)
(* (no quote was frozen again over a half-removed bundle).                 *)
Completed(id) == id \in DOMAIN bundles /\ bundles[id]["rotation_complete"].dest # Nothing
Recoverable(id) ==
  /\ Incomplete = {id} /\ rot.id \in {Nothing, id}
  /\ \A f \in Files : bundles[id][f].pending # Torn
  /\ LET slot == bundles[id]["manifest"]
     IN LET man == IF slot.dest # Nothing THEN slot.dest ELSE slot.pending
        IN /\ man = id
           /\ SourcesMatch(man)
           /\ Required \subseteq Present => Present = DOMAIN man
           /\ \A c \in DOMAIN man : source[c] = Nothing => Exact(bundles[id][c], man[c])

(* What disturbs a recovery: kills, other writers, reruns with another id. *)
Disturbance == \/ Stop \/ StopMidWrite
               \/ \E v \in Versions : WriteSpec(v)
               \/ \E p \in Peers : FreezeGpuQuote(p) \/ FreezeApiQuote(p) \/ Approve(p)
               \/ \E id \in ExplicitIds : Begin(id)

(* Undisturbed, no step leads a recoverable rotation into a state from     *)
(* which a rerun without an id would no longer finish it.                  *)
RecoveryNeverStrands ==
  [][ \A id \in DOMAIN bundles \cap Manifests :
        Recoverable(id) /\ ~Disturbance => Recoverable(id)' \/ Completed(id)' ]_vars

(* Reruns without an id do finish it, once kills, other writers and new    *)
(* paid work stop (the lock does not wait, so paid work may refuse it).    *)
PaidWork == \E p \in Peers : ReadQuote(p) \/ LoadContext(p)
Resumes == <>[][~Disturbance /\ ~PaidWork]_vars =>
             \A id \in Manifests : []<>(id \in DOMAIN bundles => ~Recoverable(id))

(* The operator reruns when the lock is free; peers that hold it return;   *)
(* pods are stopped and reservations settled.                              *)
Fairness == /\ WF_vars(RotationStep)
            /\ SF_vars(Begin(Nothing))
            /\ \A p \in Peers : WF_vars(PeerStep(p))
            /\ WF_vars(StopPod) /\ SF_vars(Settle)
FairSpec == Spec /\ Fairness
=============================================================================
