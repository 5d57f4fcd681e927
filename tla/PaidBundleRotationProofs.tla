-------------------- MODULE PaidBundleRotationProofs --------------------
(***************************************************************************)
(* Proofs about PaidBundleRotation, for any processes, windows, bundle ids *)
(* and bound.  First the reservation and the quote lock it was computed    *)
(* from (QInv); then the rotation itself (RInv): it is alone, follows the  *)
(* manifest that is on disk, and removes a source only when every record   *)
(* is archived.  From the two follow that nothing is lost, and that an     *)
(* interrupted rotation stays one a rerun can finish.  The spec, which is  *)
(* edited under no lock, is left out of what RInv says of the sources.     *)
(***************************************************************************)
EXTENDS PaidBundleRotation, TLAPS

(* The spaces of the small variables. *)
Steps == {"out", "freezing", "reserving", "rearming"}
Windows == Versions \cup {Nothing}
PeersTyped == /\ source \in [Controls -> Windows]
              /\ open \in Windows
              /\ peer \in [Peers -> [pc : Steps, window : Windows]]

(* The exclusive lock: while a rotation runs nobody else works on the      *)
(* controls, and no money is reserved.                                     *)
Alone == rot.pc # "off" => Idle /\ \A p \in Peers : peer[p] = Out

(* A reservation is committed for the window that is still canonical. *)
Quoted == \A p \in Peers :
            /\ peer[p].pc \in {"reserving", "freezing"} => peer[p].window # Nothing
            /\ peer[p].pc = "reserving" => source["gpu_quote_lock"] = peer[p].window

QInv == PeersTyped /\ Alone /\ Quoted /\ OpenSpendKeepsQuote

-----------------------------------------------------------------------------

LEMMA ControlNames ==
  Controls = {"api_route_quote_lock", "gpu_quote_lock", "paid_run_approval", "quote_spec"}
BY DEF Controls, SortedControls, ToSet

(* Nothing is no window. *)
LEMMA NothingIsNoWindow == Nothing \notin Versions /\ Nothing \notin Ids /\ Torn \notin Versions
BY RotationAssumption

LEMMA QuoteInit == Init => QInv
BY ControlNames DEF Init, QInv, PeersTyped, Alone, Quoted, OpenSpendKeepsQuote, Off, Out, Idle,
   Windows, Steps

(* What a rotation does between its first step and its last: nothing that  *)
(* concerns the others, but for the removal of a control.                  *)
LEMMA RotationQuiet ==
  ASSUME RotationStep \/ Stop \/ StopMidWrite
  PROVE  /\ rot.pc # "off"
         /\ UNCHANGED <<peer, spend, placed>>
         /\ UNCHANGED source \/ RemoveSource
<1>1. CASE ManifestStep
  BY <1>1 DEF ManifestStep, Disk
<1>2. CASE ReplayStep
  BY <1>2 DEF ReplayStep, Disk
<1>3. CASE LoadStep
  BY <1>3 DEF LoadStep, Disk
<1>4. CASE ArchiveStep
  BY <1>4 DEF ArchiveStep, Disk
<1>5. CASE VerifyStep
  BY <1>5 DEF VerifyStep, Disk
<1>6. CASE CheckSource
  BY <1>6 DEF CheckSource, Disk
<1>7. CASE RemoveSource
  BY <1>7 DEF RemoveSource
<1>8. CASE CompleteStep
  BY <1>8 DEF CompleteStep, Disk
<1>9. CASE Finish
  BY <1>9 DEF Finish, Disk
<1>10. CASE Stop
  BY <1>10 DEF Stop, Disk
<1>11. CASE StopMidWrite
  <2>1. rot.pc # "off"
    BY <1>11 DEF StopMidWrite, Staging
  <2> QED
    BY <1>11, <2>1 DEF StopMidWrite, Disk
<1> QED
  BY <1>1, <1>2, <1>3, <1>4, <1>5, <1>6, <1>7, <1>8, <1>9, <1>10, <1>11 DEF RotationStep

LEMMA BeginQuiet ==
  ASSUME NEW requested, Begin(requested)
  PROVE  MayBegin /\ UNCHANGED <<source, peer, spend, placed>>
BY DEF Begin

LEMMA QuoteStep == ASSUME QInv, [Next]_vars  PROVE QInv'
<1> USE ControlNames, NothingIsNoWindow DEF PeersTyped, Alone, Quoted, OpenSpendKeepsQuote, QInv, spend,
        Idle
<1>1. CASE UNCHANGED vars
  BY <1>1 DEF vars
<1>2. CASE \E requested \in ExplicitIds \cup {Nothing} : Begin(requested)
  BY <1>2, BeginQuiet DEF MayBegin
<1>3. CASE RotationStep \/ Stop \/ StopMidWrite
  <2>1. CASE UNCHANGED source
    BY <1>3, <2>1, RotationQuiet
  <2>2. CASE RemoveSource
    <3>1. rot.pc # "off" /\ open = Nothing /\ ~podUp /\ \A p \in Peers : peer[p] = Out
      BY <1>3, RotationQuiet
    <3>2. peer' = peer /\ open' = open /\ podUp' = podUp
      BY <1>3, RotationQuiet
    <3>3. source' \in [Controls -> Windows]
      BY <2>2 DEF RemoveSource, Windows
    <3>4. \A p \in Peers : peer'[p] = Out
      BY <3>1, <3>2
    <3> QED
      BY <3>1, <3>2, <3>3, <3>4 DEF Out
  <2> QED
    BY <1>3, <2>1, <2>2, RotationQuiet
<1>4. CASE \E v \in Versions : WriteSpec(v)
  <2>1. /\ source' \in [Controls -> Windows] /\ source'["gpu_quote_lock"] = source["gpu_quote_lock"]
        /\ UNCHANGED <<rot, peer, spend>>
    BY <1>4 DEF WriteSpec, Windows
  <2> QED
    BY <2>1
<1>5. ASSUME NEW p \in Peers, PeerStart(p) \/ PeerStep(p)  PROVE QInv'
  <2>1. rot.pc = "off" /\ UNCHANGED rot
    BY <1>5 DEF PeerStart, PeerStep, FreezeGpuQuote, Approve, ReadQuote, LoadContext, FreezeApiQuote,
       Reserve, Rearm, PeerDies, Unlocked, Out
  <2>2. CASE FreezeGpuQuote(p)
    BY <2>1, <2>2 DEF FreezeGpuQuote, Present, Required, Place, Move, Out, Windows, Steps
  <2>3. CASE FreezeApiQuote(p)
    BY <2>1, <2>3 DEF FreezeApiQuote, Place, Move, Out, Windows, Steps
  <2>4. CASE Approve(p)
    BY <2>1, <2>4 DEF Approve, Place, Windows, Present, Required
  <2>5. CASE ReadQuote(p)
    BY <2>1, <2>5 DEF ReadQuote, Move, Windows, Steps, Present
  <2>6. CASE Reserve(p)
    BY <2>1, <2>6 DEF Reserve, Move, Windows, Steps
  <2>7. CASE LoadContext(p)
    BY <2>1, <2>7 DEF LoadContext, Move, Windows, Steps
  <2>8. CASE Rearm(p)
    BY <2>1, <2>8 DEF Rearm, Move, Windows, Steps
  <2>9. CASE PeerDies(p)
    BY <2>1, <2>9 DEF PeerDies, Move, Windows, Steps
  <2> QED
    BY <1>5, <2>2, <2>3, <2>4, <2>5, <2>6, <2>7, <2>8, <2>9 DEF PeerStart, PeerStep
<1>6. CASE StopPod
  BY <1>6 DEF StopPod
<1>7. CASE Settle
  BY <1>7 DEF Settle, Windows
<1> QED
  BY <1>1, <1>2, <1>3, <1>4, <1>5, <1>6, <1>7 DEF Next

(* While GPU money is reserved the quote lock it was computed from stays   *)
(* canonical, whoever dies between reading the quote and committing, and   *)
(* though specs are edited and rotations requested at any time             *)
(* (_validate_safety_state, gpu_budget_reserve.py).                        *)
THEOREM OpenSpendKeepsQuoteSafe == Spec => []OpenSpendKeepsQuote
<1>1. QInv => OpenSpendKeepsQuote
  BY DEF QInv
<1> QED
  BY <1>1, QuoteInit, QuoteStep, PTL DEF Spec

-----------------------------------------------------------------------------
(* The archive and the running rotation. *)

Working == {"manifest", "replay", "load", "archive", "verify", "unlink", "remove", "final"}
Rotations == [pc : Working \cup {"off"}, id : Ids \cup {Nothing}, man : Manifests \cup {Nothing},
              expected : Manifests \cup {Nothing}, held : SUBSET Controls, todo : SUBSET Controls]

(* A manifest slot only ever holds a manifest, or a part of one. *)
ArchiveTyped == /\ DOMAIN bundles \subseteq Ids
                /\ bundles \in [DOMAIN bundles -> [Files -> Slots]]
                /\ \A id \in DOMAIN bundles :
                     /\ bundles[id]["manifest"].dest \in Manifests \cup {Nothing}
                     /\ bundles[id]["manifest"].pending \in Manifests \cup {Nothing, Torn}

RotTyped == /\ rot \in Rotations
            /\ rot.pc = "off" => rot = Off
            /\ rot.pc # "off" => /\ rot.id \in DOMAIN bundles /\ rot.man \in Manifests
                                /\ rot.todo \subseteq DOMAIN rot.man

(* Past the manifest, the manifest on disk is the one the rotation follows. *)
Fixed == rot.pc \in Working \ {"manifest"} => Exact(bundles[rot.id]["manifest"], rot.man)

(* The controls only programs under the lock write. *)
Locks == Present \ {"quote_spec"}

(* Past the load, what is left of the locks is what the manifest says. *)
Loaded == {"archive", "verify", "unlink", "remove"}
Matched == /\ rot.pc \in Loaded =>
                Locks \subseteq DOMAIN rot.man /\ \A c \in Locks : source[c] = rot.man[c]
           /\ rot.pc = "archive" => rot.held \subseteq Present

(* A source is removed only when every record is in the archive, and the   *)
(* locks gone are those that had their turn.                               *)
Removing == rot.pc \in {"unlink", "remove"} =>
              AllArchived(rot.id, rot.man) /\ Locks \subseteq rot.todo
Emptied == rot.pc = "final" => Locks = {}

RInv == ArchiveTyped /\ RotTyped /\ Fixed /\ Matched /\ Removing /\ Emptied

-----------------------------------------------------------------------------
(* The operators of the model. *)

LEMMA ManifestShape ==
  ASSUME NEW man \in Manifests
  PROVE  /\ DOMAIN man \subseteq Controls /\ Required \subseteq DOMAIN man
         /\ man \in [DOMAIN man -> Versions]
         /\ man # Nothing /\ man # Torn /\ man \in Ids
BY RotationAssumption DEF Manifests, Ids

LEMMA SnapshotShape ==
  ASSUME PeersTyped, Required \subseteq Present  PROVE Snapshot \in Manifests
<1>1. Present \in SUBSET Controls /\ \A c \in Present : source[c] \in Versions
  BY DEF Present, PeersTyped, Windows
<1>2. Snapshot \in [Present -> Versions]
  BY <1>1 DEF Snapshot
<1> QED
  BY <1>1, <1>2 DEF Manifests

LEMMA FileNames ==
  /\ Controls \subseteq Files /\ "manifest" \in Files /\ "rotation_complete" \in Files
  /\ "manifest" \notin Controls /\ "rotation_complete" \notin Controls
BY ControlNames DEF Files

(* One durable step of an installation: an installed content stays, and    *)
(* the slot holds this content or a part of its way there.                 *)
LEMMA InstallingSlot ==
  ASSUME NEW content \in Versions \cup Manifests, NEW slot \in Slots,
         Acceptable(slot, content), ~Exact(slot, content)
  PROVE  /\ Installing(slot, content) \in Slots
         /\ slot.dest # Nothing => Installing(slot, content).dest = slot.dest
         /\ Installing(slot, content).dest \in {Nothing, content}
         /\ Installing(slot, content).pending \in {Nothing, content}
         /\ \/ Installing(slot, content).dest = content
            \/ Installing(slot, content).pending = content
<1>1. content # Nothing /\ content # Torn
  BY ManifestShape, NothingIsNoWindow
<1>2. slot = [dest |-> slot.dest, pending |-> slot.pending]
  BY DEF Slots
<1>3. CASE slot = Absent
  BY <1>1, <1>2, <1>3 DEF Installing, Absent, Slots
<1>4. CASE slot # Absent /\ slot.dest = Nothing
  BY <1>1, <1>2, <1>4 DEF Installing, Absent, Slots, Acceptable
<1>5. CASE slot # Absent /\ slot.dest # Nothing
  BY <1>1, <1>2, <1>5 DEF Installing, Absent, Slots, Acceptable
<1> QED
  BY <1>3, <1>4, <1>5

(* A step of the running rotation that only installs file f. *)
Installs(f, content) ==
  /\ rot' = rot
  /\ DOMAIN bundles' = DOMAIN bundles
  /\ bundles' \in [DOMAIN bundles -> [Files -> Slots]]
  /\ \A id \in DOMAIN bundles, g \in Files :
       ~(id = rot.id /\ g = f) => bundles'[id][g] = bundles[id][g]
  /\ bundles[rot.id][f].dest # Nothing => bundles'[rot.id][f].dest = bundles[rot.id][f].dest
  /\ bundles'[rot.id][f].dest \in {Nothing, content}
  /\ bundles'[rot.id][f].pending \in {Nothing, content}
  /\ bundles'[rot.id][f].dest = content \/ bundles'[rot.id][f].pending = content
  /\ Acceptable(bundles[rot.id][f], content)
  /\ ~Exact(bundles[rot.id][f], content)

LEMMA InstallStep ==
  ASSUME ArchiveTyped, rot.id \in DOMAIN bundles, NEW f \in Files,
         NEW content \in Versions \cup Manifests,
         Acceptable(bundles[rot.id][f], content), ~Exact(bundles[rot.id][f], content),
         bundles' = [bundles EXCEPT ![rot.id][f] = Installing(bundles[rot.id][f], content)],
         UNCHANGED rot
  PROVE  Installs(f, content)
<1> DEFINE new == Installing(bundles[rot.id][f], content)
<1>1. bundles \in [DOMAIN bundles -> [Files -> Slots]] /\ bundles[rot.id][f] \in Slots
  BY DEF ArchiveTyped
<1>2. /\ new \in Slots
      /\ bundles[rot.id][f].dest # Nothing => new.dest = bundles[rot.id][f].dest
      /\ new.dest \in {Nothing, content} /\ new.pending \in {Nothing, content}
      /\ new.dest = content \/ new.pending = content
  BY <1>1, InstallingSlot
<1> HIDE DEF new
<1>3. bundles' = [bundles EXCEPT ![rot.id][f] = new]
  BY DEF new
<1>4. /\ DOMAIN bundles' = DOMAIN bundles
      /\ bundles' \in [DOMAIN bundles -> [Files -> Slots]]
      /\ \A id \in DOMAIN bundles, g \in Files :
           ~(id = rot.id /\ g = f) => bundles'[id][g] = bundles[id][g]
      /\ bundles'[rot.id][f] = new
  BY <1>1, <1>2, <1>3
<1> QED
  BY <1>2, <1>4 DEF Installs

-----------------------------------------------------------------------------
(* The invariant of the rotation, action by action. *)

LEMMA ResumeInstalls ==
  ASSUME ArchiveTyped, NEW id \in DOMAIN bundles, NEW expected \in Manifests \cup {Nothing},
         Resume(id, expected)
  PROVE  \E man \in Manifests :
           /\ Install(id, man, expected)
           /\ Begun(bundles[id]["manifest"]) =>
                man = IF bundles[id]["manifest"].dest # Nothing THEN bundles[id]["manifest"].dest
                      ELSE bundles[id]["manifest"].pending
<1> DEFINE slot == bundles[id]["manifest"]
           found == IF slot.dest # Nothing THEN slot.dest ELSE slot.pending
<1>1. /\ slot = [dest |-> slot.dest, pending |-> slot.pending]
      /\ slot.dest \in Manifests \cup {Nothing} /\ slot.pending \in Manifests \cup {Nothing, Torn}
  BY FileNames DEF ArchiveTyped, Slots
<1>2. CASE Begun(slot)
  <2>1. found # Torn /\ Install(id, found, expected)
    BY <1>2 DEF Resume
  <2>2. found \in Manifests
    BY <1>1, <1>2, <2>1 DEF Begun, Absent
  <2> QED
    BY <2>1, <2>2
<1>3. CASE ~Begun(slot)
  BY <1>3 DEF Resume
<1> QED
  BY <1>2, <1>3

LEMMA BeginInstalls ==
  ASSUME QInv, ArchiveTyped, NEW requested \in ExplicitIds \cup {Nothing}, Begin(requested)
  PROVE  /\ \E id \in Ids, man \in Manifests, expected \in Manifests \cup {Nothing} :
              id \in DOMAIN bundles' /\ Install(id, man, expected)
         /\ \/ UNCHANGED bundles
            \/ \E id \in Ids \ DOMAIN bundles :
                 bundles' = [ i \in DOMAIN bundles \cup {id} |->
                                IF i = id THEN [f \in Files |-> Absent] ELSE bundles[i] ]
<1> DEFINE full == Required \subseteq Present
<1>1. PeersTyped /\ DOMAIN bundles \subseteq Ids
  BY DEF QInv, ArchiveTyped
<1>2. full => Snapshot \in Manifests /\ Snapshot \in Ids
  BY <1>1, SnapshotShape, ManifestShape
<1>3. CASE requested \in DOMAIN bundles
  <2>1. PICK expected \in Manifests \cup {Nothing} : Resume(requested, expected) /\ UNCHANGED bundles
    BY <1>1, <1>2, <1>3, NothingIsNoWindow DEF Begin
  <2> QED
    BY <1>1, <1>3, <2>1, ResumeInstalls
<1>4. CASE requested = Nothing /\ ~full /\ requested \notin DOMAIN bundles
  <2>1. PICK only \in Incomplete : Resume(only, Nothing) /\ UNCHANGED bundles
    BY <1>4 DEF Begin
  <2>2. only \in DOMAIN bundles
    BY DEF Incomplete
  <2> QED
    BY <1>1, <2>1, <2>2, ResumeInstalls
<1>5. CASE full /\ requested \notin DOMAIN bundles
  <2> DEFINE id == IF requested # Nothing THEN requested ELSE Snapshot
  <2>1. id \in Ids
    BY <1>2, <1>5 DEF Ids
  <2>2. CASE id \in DOMAIN bundles
    <3>1. Resume(id, Snapshot) /\ UNCHANGED bundles
      BY <1>5, <2>2 DEF Begin
    <3> QED
      BY <1>1, <1>2, <1>5, <2>2, <3>1, ResumeInstalls
  <2>3. CASE id \notin DOMAIN bundles
    <3>1. Create(id)
      BY <1>5, <2>3 DEF Begin
    <3>2. /\ bundles' = [ i \in DOMAIN bundles \cup {id} |->
                           IF i = id THEN [f \in Files |-> Absent] ELSE bundles[i] ]
          /\ Install(id, Snapshot, Snapshot)
      BY <3>1 DEF Create
    <3>3. id \in DOMAIN bundles'
      BY <3>2
    <3> QED
      BY <1>2, <1>5, <2>1, <2>3, <3>2, <3>3
  <2> QED
    BY <2>2, <2>3
<1> QED
  BY <1>3, <1>4, <1>5 DEF Begin

LEMMA BeginKeeps ==
  ASSUME QInv, RInv, NEW requested \in ExplicitIds \cup {Nothing}, Begin(requested)
  PROVE  RInv'
<1>1. ArchiveTyped
  BY DEF RInv
<1>2. PICK id \in Ids, man \in Manifests, expected \in Manifests \cup {Nothing} :
        id \in DOMAIN bundles' /\ Install(id, man, expected)
  BY <1>1, BeginInstalls
<1>3. rot' = [pc |-> "manifest", id |-> id, man |-> man, expected |-> expected, held |-> {}, todo |-> {}]
  BY <1>2 DEF Install, Off
<1>4. ArchiveTyped'
  <2>1. CASE UNCHANGED bundles
    BY <1>1, <2>1 DEF ArchiveTyped
  <2>2. ASSUME NEW new \in Ids \ DOMAIN bundles,
               bundles' = [ i \in DOMAIN bundles \cup {new} |->
                              IF i = new THEN [f \in Files |-> Absent] ELSE bundles[i] ]
        PROVE  ArchiveTyped'
    <3>1. [f \in Files |-> Absent] \in [Files -> Slots] /\ [f \in Files |-> Absent]["manifest"] = Absent
      BY FileNames DEF Slots, Absent
    <3> HIDE DEF Absent
    <3>2. /\ DOMAIN bundles' = DOMAIN bundles \cup {new}
          /\ bundles' \in [DOMAIN bundles' -> [Files -> Slots]]
          /\ bundles'[new]["manifest"] = Absent
          /\ \A i \in DOMAIN bundles : bundles'[i] = bundles[i]
      BY <1>1, <2>2, <3>1 DEF ArchiveTyped
    <3> QED
      BY <1>1, <3>2 DEF ArchiveTyped, Absent
  <2> QED
    BY <1>1, <2>1, <2>2, BeginInstalls
<1>5. RotTyped'
  BY <1>2, <1>3 DEF RotTyped, Rotations, Working
<1> QED
  BY <1>3, <1>4, <1>5 DEF RInv, Locks, Loaded, Fixed, Matched, Removing, Emptied, Working

(* A step that only installs leaves the invariant as it is. *)
LEMMA InstallKeeps ==
  ASSUME RInv, UNCHANGED source, rot.pc # "off", NEW f \in Files, NEW content,
         Installs(f, content),
         f = "manifest" => rot.pc = "manifest" /\ content = rot.man,
         f \in Controls => rot.pc = "archive"
  PROVE  RInv'
<1>1. /\ rot' = rot /\ DOMAIN bundles' = DOMAIN bundles /\ Present' = Present
      /\ bundles' \in [DOMAIN bundles -> [Files -> Slots]]
      /\ \A id \in DOMAIN bundles, g \in Files :
           ~(id = rot.id /\ g = f) => bundles'[id][g] = bundles[id][g]
      /\ bundles'[rot.id][f].dest \in {Nothing, content}
      /\ bundles'[rot.id][f].pending \in {Nothing, content}
  BY DEF Installs, Present
<1>2. ArchiveTyped /\ RotTyped /\ Fixed /\ Matched /\ Removing /\ Emptied
  BY DEF RInv
<1>3. rot.id \in DOMAIN bundles /\ rot.man \in Manifests
  BY <1>2 DEF RotTyped
<1>4. ArchiveTyped'
  <2>1. \A id \in DOMAIN bundles :
           /\ bundles'[id]["manifest"].dest \in Manifests \cup {Nothing}
           /\ bundles'[id]["manifest"].pending \in Manifests \cup {Nothing, Torn}
    BY <1>1, <1>2, <1>3, FileNames DEF ArchiveTyped
  <2> QED
    BY <1>1, <1>2, <2>1 DEF ArchiveTyped
<1>5. RotTyped'
  BY <1>1, <1>2 DEF RotTyped
<1>6. Fixed'
  BY <1>1, <1>2, <1>3, FileNames DEF Fixed, Working, Exact
<1>7. Matched'
  BY <1>1, <1>2 DEF Matched, Locks
<1>8. Removing'
  <2>1. DOMAIN rot.man \subseteq Controls
    BY <1>3, ManifestShape
  <2> QED
    BY <1>1, <1>2, <1>3, <2>1, FileNames DEF Removing, AllArchived, Exact, Locks
<1>9. Emptied'
  BY <1>1, <1>2 DEF Emptied, Locks
<1> QED
  BY <1>4, <1>5, <1>6, <1>7, <1>8, <1>9 DEF RInv

(* Going on to the next part of the program. *)
LEMMA GoesOn ==
  ASSUME RInv, NEW pc \in Working, Go(pc), rot.pc # "off", UNCHANGED <<bundles, source>>
  PROVE  /\ ArchiveTyped' /\ RotTyped' /\ Present' = Present
         /\ rot'.pc = pc /\ rot'.id = rot.id /\ rot'.man = rot.man
         /\ rot'.held = rot.held /\ rot'.todo = DOMAIN rot.man
         /\ DOMAIN rot.man \subseteq Controls
<1>1. rot \in Rotations /\ rot.man \in Manifests /\ rot.id \in DOMAIN bundles /\ ArchiveTyped
  BY DEF RInv, RotTyped
<1>2. DOMAIN rot.man \subseteq Controls
  BY <1>1, ManifestShape
<1>3. /\ rot' \in Rotations
      /\ rot'.pc = pc /\ rot'.id = rot.id /\ rot'.man = rot.man
      /\ rot'.held = rot.held /\ rot'.todo = DOMAIN rot.man
  BY <1>1, <1>2 DEF Go, Rotations
<1>4. ArchiveTyped' /\ Present' = Present
  BY <1>1 DEF ArchiveTyped, Present
<1>5. pc # "off"
  BY DEF Working
<1> QED
  BY <1>1, <1>2, <1>3, <1>4, <1>5 DEF RotTyped

LEMMA ManifestStepKeeps == ASSUME RInv, ManifestStep  PROVE RInv'
<1>1. /\ rot.pc = "manifest" /\ rot.id \in DOMAIN bundles /\ rot.man \in Manifests
      /\ ArchiveTyped /\ UNCHANGED source
  BY DEF RInv, RotTyped, ManifestStep, Disk
<1>2. CASE Exact(bundles[rot.id]["manifest"], rot.man)
  <2>1. PICK pc \in {"replay", "load"} : Go(pc) /\ UNCHANGED bundles
    BY <1>2 DEF ManifestStep, InstallThen
  <2>2. /\ ArchiveTyped' /\ RotTyped' /\ Present' = Present /\ rot'.pc = pc /\ rot'.id = rot.id
        /\ rot'.man = rot.man /\ bundles' = bundles
    BY <1>1, <2>1, GoesOn DEF Working
  <2> QED
    BY <1>2, <2>2 DEF RInv, Locks, Loaded, Fixed, Matched, Removing, Emptied
<1>3. CASE ~Exact(bundles[rot.id]["manifest"], rot.man)
  <2>1. Installs("manifest", rot.man)
    BY <1>1, <1>3, FileNames, InstallStep DEF ManifestStep, InstallThen
  <2> QED
    BY <1>1, <2>1, FileNames, InstallKeeps
<1> QED
  BY <1>2, <1>3

LEMMA ReplayStepKeeps == ASSUME RInv, ReplayStep  PROVE RInv'
<1>1. /\ rot.pc = "replay" /\ rot.id \in DOMAIN bundles /\ rot.man \in Manifests
      /\ ArchiveTyped /\ UNCHANGED source /\ Fixed
  BY DEF RInv, RotTyped, ReplayStep, Disk
<1>2. CASE Exact(bundles[rot.id]["rotation_complete"], rot.man)
  <2>1. Present = {} /\ Go("final") /\ UNCHANGED bundles
    BY <1>2 DEF ReplayStep, InstallThen
  <2>2. /\ ArchiveTyped' /\ RotTyped' /\ Present' = Present /\ rot'.pc = "final" /\ rot'.id = rot.id
        /\ rot'.man = rot.man /\ bundles' = bundles
    BY <1>1, <2>1, GoesOn DEF Working
  <2> QED
    BY <1>1, <2>1, <2>2 DEF RInv, Locks, Loaded, Fixed, Matched, Removing, Emptied, Working
<1>3. CASE ~Exact(bundles[rot.id]["rotation_complete"], rot.man)
  <2>1. Installs("rotation_complete", rot.man)
    BY <1>1, <1>3, FileNames, InstallStep DEF ReplayStep, InstallThen
  <2> QED
    BY <1>1, <2>1, FileNames, InstallKeeps
<1> QED
  BY <1>2, <1>3

LEMMA LoadStepKeeps == ASSUME RInv, LoadStep  PROVE RInv'
<1>1. /\ rot.pc = "load" /\ rot.id \in DOMAIN bundles /\ rot.man \in Manifests /\ rot \in Rotations
      /\ ArchiveTyped /\ UNCHANGED <<source, bundles>> /\ Fixed
      /\ rot' = [rot EXCEPT !.pc = "archive", !.held = Present]
      /\ SourcesMatch(rot.man)
  BY DEF RInv, RotTyped, LoadStep, Disk
<1>2. /\ rot' \in Rotations /\ rot'.pc = "archive" /\ rot'.id = rot.id /\ rot'.man = rot.man
      /\ rot'.todo = rot.todo /\ rot'.held = Present' /\ Present' = Present
  BY <1>1 DEF Rotations, Working, Present
<1> QED
  BY <1>1, <1>2 DEF RInv, ArchiveTyped, RotTyped, Fixed, Matched, Locks, Loaded, Removing, Emptied, Working,
     SourcesMatch

LEMMA ArchiveStepKeeps == ASSUME RInv, ArchiveStep  PROVE RInv'
<1>1. /\ rot.pc = "archive" /\ rot.id \in DOMAIN bundles /\ rot.man \in Manifests /\ rot \in Rotations
      /\ ArchiveTyped /\ UNCHANGED source /\ Fixed /\ Matched
  BY DEF RInv, RotTyped, ArchiveStep, Disk
<1>2. CASE rot.todo = {}
  <2>1. Go("verify") /\ UNCHANGED bundles
    BY <1>2 DEF ArchiveStep
  <2>2. /\ ArchiveTyped' /\ RotTyped' /\ Present' = Present /\ rot'.pc = "verify" /\ rot'.id = rot.id
        /\ rot'.man = rot.man /\ bundles' = bundles /\ rot'.todo = DOMAIN rot.man
    BY <1>1, <2>1, GoesOn DEF Working
  <2> QED
    BY <1>1, <2>2 DEF RInv, Locks, Loaded, Fixed, Matched, Removing, Emptied, Working, SourcesMatch
<1>3. CASE rot.todo # {}
  <2>1. PICK c \in rot.todo :
          InstallThen(c, rot.man[c], rot' = [rot EXCEPT !.todo = @ \ {c}])
    BY <1>3 DEF ArchiveStep, Turn
  <2>2. c \in DOMAIN rot.man /\ c \in Controls /\ rot.man[c] \in Versions /\ c \in Files
    BY <1>1, ManifestShape, FileNames DEF RInv, RotTyped
  <2>3. CASE Exact(bundles[rot.id][c], rot.man[c])
    <3>1. rot' = [rot EXCEPT !.todo = @ \ {c}] /\ UNCHANGED bundles
      BY <2>1, <2>3 DEF InstallThen
    <3>2. /\ rot' \in Rotations /\ rot'.pc = rot.pc /\ rot'.id = rot.id /\ rot'.man = rot.man
          /\ rot'.held = rot.held /\ rot'.todo \subseteq rot.todo /\ Present' = Present
      BY <1>1, <3>1 DEF Rotations, Present
    <3> QED
      BY <1>1, <3>1, <3>2
         DEF RInv, ArchiveTyped, RotTyped, Fixed, Matched, Locks, Loaded, Removing, Emptied, SourcesMatch
  <2>4. CASE ~Exact(bundles[rot.id][c], rot.man[c])
    <3>1. Installs(c, rot.man[c])
      BY <1>1, <2>1, <2>2, <2>4, InstallStep DEF InstallThen
    <3> QED
      BY <1>1, <2>2, <3>1, FileNames, InstallKeeps
  <2> QED
    BY <2>3, <2>4
<1> QED
  BY <1>2, <1>3

LEMMA VerifyStepKeeps == ASSUME RInv, VerifyStep  PROVE RInv'
<1>1. /\ rot.pc = "verify" /\ rot.id \in DOMAIN bundles /\ rot.man \in Manifests
      /\ UNCHANGED <<source, bundles>> /\ Fixed /\ Matched
      /\ AllArchived(rot.id, rot.man) /\ Go("unlink")
  BY DEF RInv, RotTyped, VerifyStep, Disk
<1>2. /\ ArchiveTyped' /\ RotTyped' /\ Present' = Present /\ rot'.pc = "unlink" /\ rot'.id = rot.id
      /\ rot'.man = rot.man /\ rot'.todo = DOMAIN rot.man
  BY <1>1, GoesOn DEF Working
<1> QED
  BY <1>1, <1>2 DEF RInv, Locks, Loaded, Fixed, Matched, Removing, Emptied, Working, SourcesMatch, AllArchived

LEMMA CheckSourceKeeps == ASSUME RInv, CheckSource  PROVE RInv'
<1>1. /\ rot.pc = "unlink" /\ rot.id \in DOMAIN bundles /\ rot.man \in Manifests /\ rot \in Rotations
      /\ UNCHANGED <<source, bundles>> /\ Fixed /\ Matched /\ Removing /\ ArchiveTyped
  BY DEF RInv, RotTyped, CheckSource, Disk
<1>2. PICK c \in rot.todo :
        \/ source[c] = Nothing /\ rot' = [rot EXCEPT !.todo = @ \ {c}]
        \/ rot' = [rot EXCEPT !.pc = "remove"]
  BY DEF CheckSource, Turn
<1>3. /\ rot' \in Rotations /\ rot'.pc \in {"unlink", "remove"} /\ rot'.id = rot.id
      /\ rot'.man = rot.man
      /\ rot'.todo \subseteq rot.todo /\ rot.todo \cap Present \subseteq rot'.todo /\ Present' = Present
  BY <1>1, <1>2 DEF Rotations, Present, Working
<1> QED
  BY <1>1, <1>3 DEF RInv, ArchiveTyped, RotTyped, Fixed, Matched, Locks, Loaded, Removing, Emptied, Working,
     SourcesMatch, AllArchived

LEMMA RemoveSourceKeeps == ASSUME RInv, QInv, RemoveSource  PROVE RInv'
<1>1. /\ rot.pc = "remove" /\ rot.id \in DOMAIN bundles /\ rot.man \in Manifests /\ rot \in Rotations
      /\ UNCHANGED bundles /\ Fixed /\ Matched /\ Removing /\ ArchiveTyped
      /\ source \in [Controls -> Windows]
  BY DEF RInv, RotTyped, RemoveSource, QInv, PeersTyped
<1>2. PICK c \in rot.todo : /\ source' = [source EXCEPT ![c] = Nothing]
                            /\ rot' = [rot EXCEPT !.pc = "unlink", !.todo = @ \ {c}]
  BY DEF RemoveSource, Turn
<1>3. /\ rot' \in Rotations /\ rot'.pc = "unlink" /\ rot'.id = rot.id
      /\ rot'.man = rot.man /\ rot'.todo = rot.todo \ {c}
  BY <1>1, <1>2 DEF Rotations, Working
<1>4. Present' = Present \ {c} /\ \A d \in Present' : source'[d] = source[d]
  BY <1>1, <1>2 DEF Present
<1> QED
  BY <1>1, <1>3, <1>4 DEF RInv, ArchiveTyped, RotTyped, Fixed, Matched, Locks, Loaded, Removing, Emptied, Working,
     SourcesMatch, AllArchived

LEMMA CompleteStepKeeps == ASSUME RInv, CompleteStep  PROVE RInv'
<1>1. /\ rot.pc = "unlink" /\ rot.id \in DOMAIN bundles /\ rot.man \in Manifests
      /\ ArchiveTyped /\ UNCHANGED source /\ Fixed /\ Removing /\ rot.todo = {}
  BY DEF RInv, RotTyped, CompleteStep, Disk
<1>2. CASE Exact(bundles[rot.id]["rotation_complete"], rot.man)
  <2>1. Go("final") /\ UNCHANGED bundles
    BY <1>2 DEF CompleteStep, InstallThen
  <2>2. /\ ArchiveTyped' /\ RotTyped' /\ Present' = Present /\ rot'.pc = "final" /\ rot'.id = rot.id
        /\ rot'.man = rot.man /\ bundles' = bundles
    BY <1>1, <2>1, GoesOn DEF Working
  <2> QED
    BY <1>1, <2>1, <2>2 DEF RInv, Locks, Loaded, Fixed, Matched, Removing, Emptied, Working
<1>3. CASE ~Exact(bundles[rot.id]["rotation_complete"], rot.man)
  <2>1. Installs("rotation_complete", rot.man)
    BY <1>1, <1>3, FileNames, InstallStep DEF CompleteStep, InstallThen
  <2> QED
    BY <1>1, <2>1, FileNames, InstallKeeps
<1> QED
  BY <1>2, <1>3

(* A program that ends, refuses or is killed leaves the locks behind it     *)
(* free, and an archive a later rotation can read.                         *)
LEMMA EndKeeps == ASSUME RInv, ArchiveTyped', rot' = Off  PROVE RInv'
BY DEF RInv, RotTyped, Fixed, Matched, Locks, Loaded, Removing, Emptied, Working, Off, Rotations

LEMMA StopMidWriteKeeps == ASSUME RInv, StopMidWrite  PROVE RInv'
<1>1. ArchiveTyped /\ rot.pc # "off" /\ rot \in Rotations /\ rot.id \in DOMAIN bundles
  BY DEF RInv, RotTyped, StopMidWrite, Staging
<1>2. PICK f \in Files : /\ bundles[rot.id][f] = Absent
                         /\ bundles' = [bundles EXCEPT ![rot.id][f].pending = Torn]
  BY <1>1, FileNames DEF StopMidWrite, Staging, Turn, Rotations
<1>3. bundles \in [DOMAIN bundles -> [Files -> Slots]]
  BY <1>1 DEF ArchiveTyped
<1>4. [bundles[rot.id][f] EXCEPT !.pending = Torn] = [dest |-> Nothing, pending |-> Torn]
  BY <1>2 DEF Absent
<1>5. bundles' = [bundles EXCEPT ![rot.id] =
                   [bundles[rot.id] EXCEPT ![f] = [dest |-> Nothing, pending |-> Torn]]]
  BY <1>1, <1>2, <1>3, <1>4
<1>6. ArchiveTyped'
  BY <1>1, <1>3, <1>5, FileNames DEF ArchiveTyped, Slots
<1> QED
  BY <1>6, EndKeeps DEF StopMidWrite

(* The others leave the archive alone, and the sources too while a         *)
(* rotation runs.                                                          *)
LEMMA OthersKeep ==
  ASSUME RInv, UNCHANGED <<rot, bundles>>, UNCHANGED source \/ rot.pc = "off"
  PROVE  RInv'
<1>1. CASE UNCHANGED source
  BY <1>1 DEF RInv, ArchiveTyped, RotTyped, Fixed, Matched, Locks, Loaded, Removing, Emptied, SourcesMatch, Present,
     AllArchived, Exact
<1>2. CASE rot.pc = "off"
  BY <1>2 DEF RInv, ArchiveTyped, RotTyped, Fixed, Matched, Locks, Loaded, Removing, Emptied, Working
<1> QED
  BY <1>1, <1>2

LEMMA RotationInit == Init => RInv
BY DEF Init, RInv, ArchiveTyped, RotTyped, Fixed, Matched, Locks, Loaded, Removing, Emptied, Working, Off, Rotations

LEMMA RotationStepKeeps ==
  ASSUME QInv, RInv, [Next]_vars  PROVE RInv'
<1>1. CASE UNCHANGED vars
  BY <1>1, OthersKeep DEF vars
<1>2. CASE \E requested \in ExplicitIds \cup {Nothing} : Begin(requested)
  BY <1>2, BeginKeeps
<1>3. CASE RotationStep
  <2>1. CASE Finish
    <3>1. ArchiveTyped'
      BY <2>1 DEF Finish, RInv, ArchiveTyped
    <3> QED
      BY <2>1, <3>1, EndKeeps DEF Finish
  <2> QED
    BY <1>3, <2>1, ManifestStepKeeps, ReplayStepKeeps, LoadStepKeeps, ArchiveStepKeeps, VerifyStepKeeps,
       CheckSourceKeeps, RemoveSourceKeeps, CompleteStepKeeps DEF RotationStep
<1>4. CASE Stop
  <2>1. ArchiveTyped'
    BY <1>4 DEF Stop, RInv, ArchiveTyped
  <2> QED
    BY <1>4, <2>1, EndKeeps DEF Stop
<1>5. CASE StopMidWrite
  BY <1>5, StopMidWriteKeeps
<1>6. CASE \E v \in Versions : WriteSpec(v)
  <2>1. /\ UNCHANGED <<rot, bundles>> /\ Locks' = Locks /\ Present \subseteq Present'
        /\ \A c \in Locks : source'[c] = source[c]
    BY <1>6, NothingIsNoWindow DEF WriteSpec, QInv, PeersTyped, Locks, Present
  <2> QED
    BY <2>1 DEF RInv, ArchiveTyped, RotTyped, Fixed, Matched, Removing, Emptied, AllArchived, Exact
<1>7. ASSUME NEW p \in Peers, PeerStart(p) \/ PeerStep(p)  PROVE RInv'
  <2>1. UNCHANGED <<rot, bundles>> /\ rot.pc = "off"
    BY <1>7 DEF PeerStart, PeerStep, FreezeGpuQuote, Approve, ReadQuote, LoadContext, FreezeApiQuote,
       Reserve, Rearm, PeerDies, Unlocked, Out, QInv, Alone
  <2> QED
    BY <2>1, OthersKeep
<1>8. CASE StopPod \/ Settle
  BY <1>8, OthersKeep DEF StopPod, Settle
<1> QED
  BY <1>1, <1>2, <1>3, <1>4, <1>5, <1>6, <1>7, <1>8 DEF Next

(* The inductive invariant of the rotation: alone on the controls, it      *)
(* follows the manifest that is on disk, and removes sources only when     *)
(* that manifest's records are all archived, in order, also if the spec is *)
(* edited while it runs (rotate_paid_bundle).                              *)
THEOREM RotationInvariance == Spec => [](QInv /\ RInv)
<1>1. ASSUME QInv /\ RInv, [Next]_vars  PROVE (QInv /\ RInv)'
  BY <1>1, QuoteStep, RotationStepKeeps
<1> QED
  BY <1>1, QuoteInit, RotationInit, PTL DEF Spec

-----------------------------------------------------------------------------
(* A rotation reports success only when no quote lock and no approval is   *)
(* left, whichever way it came to its last check, also if the spec is      *)
(* edited by hand while it runs (rotate_paid_bundle).                      *)
THEOREM SuccessLeavesNoLockSafe == Spec => SuccessLeavesNoLock
<1>1. ASSUME RInv  PROVE [Finish => Present \subseteq {"quote_spec"}]_vars
  BY <1>1 DEF RInv, Emptied, Locks, Finish
<1> QED
  BY <1>1, RotationInvariance, PTL DEF SuccessLeavesNoLock

-----------------------------------------------------------------------------
(* Nothing is lost: an archived content stays archived, and a control goes *)
(* only when it is archived.                                               *)

Grows == /\ DOMAIN bundles \subseteq DOMAIN bundles'
         /\ \A id \in DOMAIN bundles, f \in Files :
              bundles[id][f].dest # Nothing => bundles'[id][f].dest = bundles[id][f].dest

LEMMA BundlesGrow == ASSUME QInv, RInv, Next  PROVE Grows
<1>1. ArchiveTyped /\ (rot.pc # "off" => rot.id \in DOMAIN bundles /\ rot.man \in Manifests)
  BY DEF RInv, RotTyped
<1>2. CASE UNCHANGED bundles
  BY <1>2 DEF Grows
<1>3. CASE \E requested \in ExplicitIds \cup {Nothing} : Begin(requested)
  <2>1. PICK requested \in ExplicitIds \cup {Nothing} : Begin(requested)
    BY <1>3
  <2>2. ASSUME NEW id \in Ids \ DOMAIN bundles,
               bundles' = [ i \in DOMAIN bundles \cup {id} |->
                              IF i = id THEN [f \in Files |-> Absent] ELSE bundles[i] ]
        PROVE  Grows
    BY <2>2 DEF Grows
  <2> QED
    BY <1>1, <1>2, <2>1, <2>2, BeginInstalls
<1>4. ASSUME rot.pc # "off", NEW f \in Files, NEW content \in Versions \cup Manifests,
             Acceptable(bundles[rot.id][f], content), ~Exact(bundles[rot.id][f], content),
             bundles' = [bundles EXCEPT ![rot.id][f] = Installing(bundles[rot.id][f], content)],
             UNCHANGED rot
      PROVE  Grows
  <2>1. Installs(f, content)
    BY <1>1, <1>4, InstallStep
  <2> QED
    BY <1>1, <1>4, <2>1 DEF Installs, Grows
<1>5. CASE ManifestStep
  BY <1>1, <1>2, <1>4, <1>5, FileNames DEF ManifestStep, InstallThen
<1>6. CASE ReplayStep
  BY <1>1, <1>2, <1>4, <1>6, FileNames DEF ReplayStep, InstallThen
<1>7. CASE CompleteStep
  BY <1>1, <1>2, <1>4, <1>7, FileNames DEF CompleteStep, InstallThen
<1>8. CASE ArchiveStep
  <2>1. CASE rot.todo = {}
    BY <1>2, <1>8, <2>1 DEF ArchiveStep
  <2>2. CASE rot.todo # {}
    <3>1. PICK c \in rot.todo : InstallThen(c, rot.man[c], rot' = [rot EXCEPT !.todo = @ \ {c}])
      BY <1>8, <2>2 DEF ArchiveStep, Turn
    <3>2. rot.pc # "off" /\ c \in Files /\ rot.man[c] \in Versions
      BY <1>1, <1>8, ManifestShape, FileNames DEF RInv, RotTyped, ArchiveStep
    <3> QED
      BY <1>2, <1>4, <3>1, <3>2 DEF InstallThen
  <2> QED
    BY <2>1, <2>2
<1>9. CASE StopMidWrite
  <2>1. rot.id \in DOMAIN bundles /\ rot \in Rotations
    BY <1>1, <1>9 DEF StopMidWrite, Staging, RInv, RotTyped
  <2>2. PICK f \in Files : /\ bundles[rot.id][f] = Absent
                           /\ bundles' = [bundles EXCEPT ![rot.id][f].pending = Torn]
    BY <1>9, <2>1, FileNames DEF StopMidWrite, Staging, Turn, Rotations
  <2>3. bundles \in [DOMAIN bundles -> [Files -> Slots]] /\ bundles[rot.id][f].dest = Nothing
    BY <1>1, <2>2 DEF ArchiveTyped, Absent
  <2> QED
    BY <2>1, <2>2, <2>3 DEF Grows
<1>10. CASE RotationStep /\ ~ManifestStep /\ ~ReplayStep /\ ~CompleteStep /\ ~ArchiveStep
  BY <1>2, <1>10 DEF RotationStep, LoadStep, VerifyStep, CheckSource, RemoveSource, Finish
<1>11. CASE Stop \/ (\E v \in Versions : WriteSpec(v)) \/ StopPod \/ Settle
  BY <1>2, <1>11 DEF Stop, WriteSpec, StopPod, Settle
<1>12. CASE \E p \in Peers : PeerStart(p) \/ PeerStep(p)
  BY <1>2, <1>12 DEF PeerStart, PeerStep, FreezeGpuQuote, Approve, ReadQuote, LoadContext,
     FreezeApiQuote, Reserve, Rearm, PeerDies
<1> QED
  BY <1>3, <1>5, <1>6, <1>7, <1>8, <1>9, <1>10, <1>11, <1>12 DEF Next

LEMMA ArchivedStays ==
  ASSUME Grows, ArchiveTyped, NEW c \in Controls, NEW v \in Versions, Archived(c, v)
  PROVE  Archived(c, v)'
<1>1. PICK id \in DOMAIN bundles :
        LET man == bundles[id]["manifest"].dest
        IN man # Nothing /\ c \in DOMAIN man /\ man[c] = v /\ bundles[id][c].dest = v
  BY DEF Archived
<1>2. /\ id \in DOMAIN bundles'
      /\ bundles'[id]["manifest"].dest = bundles[id]["manifest"].dest
      /\ bundles'[id][c].dest = v
  BY <1>1, FileNames, NothingIsNoWindow DEF Grows
<1> QED
  BY <1>1, <1>2 DEF Archived

(* The spec a running rotation may still remove is the one it archived,    *)
(* unless it was written meanwhile.                                        *)
SpecKept ==
  rot.pc \in Loaded /\ <<"quote_spec", source["quote_spec"]>> \in placed =>
    \/ "quote_spec" \in DOMAIN rot.man /\ source["quote_spec"] = rot.man["quote_spec"]
    \/ Archived("quote_spec", source["quote_spec"])
Kept == placed \subseteq Controls \X Versions /\ NothingLost /\ SpecKept

(* A control placed where there was none, or over one that is no longer    *)
(* accounted for.                                                          *)
LEMMA PlacingKeeps ==
  ASSUME Kept, Grows, ArchiveTyped, PeersTyped, NEW c \in Controls, NEW v \in Versions,
         source' = [source EXCEPT ![c] = v],
         \/ source[c] = Nothing /\ placed' = placed \cup {<<c, v>>}
         \/ placed' = (placed \ {<<c, source[c]>>}) \cup {<<c, v>>},
         UNCHANGED rot, rot.pc = "off"
  PROVE  Kept'
<1>1. placed' \subseteq Controls \X Versions
  BY DEF Kept
<1>2. ASSUME NEW d \in Controls, NEW w \in Versions, <<d, w>> \in placed'
      PROVE  source'[d] = w \/ Archived(d, w)'
  <2>1. CASE <<d, w>> = <<c, v>>
    BY <2>1 DEF PeersTyped
  <2>2. CASE <<d, w>> # <<c, v>>
    <3>1. <<d, w>> \in placed /\ (d = c => source[c] # w)
      BY <1>2, <2>2, NothingIsNoWindow
    <3>2. source[d] = w \/ Archived(d, w)
      BY <3>1 DEF Kept, NothingLost
    <3>3. source[d] = w => source'[d] = w
      BY <3>1 DEF PeersTyped
    <3> QED
      BY <3>2, <3>3, ArchivedStays
  <2> QED
    BY <2>1, <2>2
<1> QED
  BY <1>1, <1>2 DEF Kept, NothingLost, SpecKept, Loaded

(* A spec written while a rotation runs is nobody's loss but the operator's. *)
LEMMA EditKeeps ==
  ASSUME Kept, Grows, ArchiveTyped, PeersTyped, rot.pc # "off", UNCHANGED rot,
         NEW v \in Versions, WriteSpec(v)
  PROVE  Kept'
<1>1. /\ source' = [source EXCEPT !["quote_spec"] = v] /\ "quote_spec" \in Controls
      /\ placed' = placed \ {<<"quote_spec", source["quote_spec"]>>} /\ source["quote_spec"] # v
  BY ControlNames DEF WriteSpec, Unlocked
<1>2. ASSUME NEW d \in Controls, NEW w \in Versions, <<d, w>> \in placed'
      PROVE  /\ source'[d] = w \/ Archived(d, w)'
             /\ d = "quote_spec" => Archived(d, w)'
  <2>1. source[d] = w \/ Archived(d, w)
    BY <1>1, <1>2 DEF Kept, NothingLost
  <2>2. d = "quote_spec" => source[d] # w
    BY <1>1, <1>2
  <2>3. source[d] = w /\ d # "quote_spec" => source'[d] = w
    BY <1>1 DEF PeersTyped
  <2> QED
    BY <2>1, <2>2, <2>3, ArchivedStays
<1>3. source'["quote_spec"] = v
  BY <1>1 DEF PeersTyped
<1> QED
  BY <1>1, <1>2, <1>3 DEF Kept, NothingLost, SpecKept

(* Past the load a rotation keeps its manifest. *)
LEMMA LoadedStays ==
  ASSUME rot \in Rotations, RotationStep \/ Stop \/ StopMidWrite, ~LoadStep
  PROVE  rot'.pc \in Loaded => rot.pc \in Loaded /\ rot'.man = rot.man
<1> USE DEF Loaded, Rotations, Go
<1>1. CASE ManifestStep \/ ReplayStep \/ CompleteStep
  BY <1>1 DEF ManifestStep, ReplayStep, CompleteStep, InstallThen
<1>2. CASE ArchiveStep
  BY <1>2 DEF ArchiveStep, InstallThen
<1>3. CASE VerifyStep \/ CheckSource \/ RemoveSource
  BY <1>3 DEF VerifyStep, CheckSource, RemoveSource
<1>4. CASE Finish \/ Stop \/ StopMidWrite
  BY <1>4 DEF Finish, Stop, StopMidWrite, Off
<1> QED
  BY <1>1, <1>2, <1>3, <1>4 DEF RotationStep

LEMMA BeginIsUnloaded ==
  ASSUME NEW requested \in ExplicitIds \cup {Nothing}, Begin(requested)  PROVE rot'.pc \notin Loaded
BY DEF Begin, Resume, Create, Install, Off, Loaded

LEMMA KeptStep ==
  ASSUME QInv, RInv, Kept, [Next]_vars  PROVE Kept'
<1>1. PeersTyped /\ ArchiveTyped /\ ((~UNCHANGED vars) => Grows)
  BY BundlesGrow DEF QInv, RInv
<1>2. CASE UNCHANGED vars
  BY <1>2 DEF vars, Kept, NothingLost, SpecKept, Archived
<1>3. ASSUME UNCHANGED <<source, placed>>, Grows,
             rot'.pc \in Loaded => rot.pc \in Loaded /\ rot'.man = rot.man
      PROVE  Kept'
  <2>1. ASSUME NEW c \in Controls, NEW v \in Versions, <<c, v>> \in placed
        PROVE  source'[c] = v \/ Archived(c, v)'
    BY <1>1, <1>3, <2>1, ArchivedStays DEF Kept, NothingLost
  <2>2. SpecKept'
    BY <1>1, <1>3, ControlNames, ArchivedStays DEF Kept, SpecKept
  <2> QED
    BY <1>3, <2>1, <2>2 DEF Kept, NothingLost
<1>4. CASE RemoveSource
  <2>1. /\ rot.id \in DOMAIN bundles /\ rot.man \in Manifests
        /\ bundles[rot.id]["manifest"].dest = rot.man
        /\ AllArchived(rot.id, rot.man) /\ rot.pc \in Loaded /\ rot \in Rotations
        /\ rot.todo \subseteq DOMAIN rot.man
        /\ \A c \in Locks : source[c] = rot.man[c]
    BY <1>4 DEF RInv, RotTyped, Fixed, Matched, Removing, Exact, RemoveSource, Working, Loaded
  <2>2. PICK c \in rot.todo : source' = [source EXCEPT ![c] = Nothing]
    BY <1>4 DEF RemoveSource, Turn
  <2>3. Archived(c, rot.man[c])
    <3>1. c \in DOMAIN rot.man
      BY <2>1, <2>2
    <3>2. bundles[rot.id][c] = [dest |-> rot.man[c], pending |-> Nothing]
      BY <2>1, <3>1 DEF AllArchived, Exact
    <3>3. rot.man # Nothing
      BY <2>1, ManifestShape
    <3> QED
      BY <2>1, <3>1, <3>2, <3>3 DEF Archived
  <2>4. ASSUME NEW d \in Controls, NEW v \in Versions, <<d, v>> \in placed
        PROVE  source'[d] = v \/ Archived(d, v)
    <3>1. CASE d = c /\ source[d] = v
      <4>1. CASE d # "quote_spec"
        BY <2>1, <2>3, <2>4, <3>1, <4>1, NothingIsNoWindow DEF Locks, Present
      <4>2. CASE d = "quote_spec"
        BY <2>1, <2>3, <2>4, <3>1, <4>2 DEF Kept, SpecKept
      <4> QED
        BY <4>1, <4>2
    <3>2. CASE ~(d = c /\ source[d] = v)
      BY <1>1, <2>2, <2>4, <3>2 DEF Kept, NothingLost, PeersTyped
    <3> QED
      BY <3>1, <3>2
  <2>5. bundles' = bundles /\ placed' = placed /\ rot'.man = rot.man
    BY <1>4, <2>1 DEF RemoveSource, Rotations
  <2>6. SpecKept'
    <3>1. source'["quote_spec"] \in {source["quote_spec"], Nothing}
      BY <1>1, <2>2, ControlNames DEF PeersTyped
    <3>2. <<"quote_spec", Nothing>> \notin placed
      BY NothingIsNoWindow DEF Kept
    <3> QED
      BY <2>1, <2>5, <3>1, <3>2 DEF Kept, SpecKept, Archived
  <2> QED
    BY <2>4, <2>5, <2>6 DEF Kept, NothingLost, Archived
<1>10. CASE LoadStep
  <2>1. /\ SourcesMatch(rot.man) /\ UNCHANGED <<source, placed, bundles>>
        /\ rot'.man = rot.man
    BY <1>10 DEF LoadStep, Disk, RInv, RotTyped, Rotations
  <2>2. source["quote_spec"] # Nothing =>
          "quote_spec" \in DOMAIN rot.man /\ source["quote_spec"] = rot.man["quote_spec"]
    BY <2>1, ControlNames DEF SourcesMatch, Present
  <2>3. <<"quote_spec", Nothing>> \notin placed
    BY NothingIsNoWindow DEF Kept
  <2> QED
    BY <2>1, <2>2, <2>3 DEF Kept, NothingLost, SpecKept, Archived
<1>5. CASE Next /\ (RotationStep \/ Stop \/ StopMidWrite) /\ ~RemoveSource /\ ~LoadStep
  <2>1. Grows
    BY <1>5, BundlesGrow
  <2>2. rot'.pc \in Loaded => rot.pc \in Loaded /\ rot'.man = rot.man
    BY <1>5, LoadedStays DEF RInv, RotTyped
  <2> QED
    BY <1>3, <1>5, <2>1, <2>2, RotationQuiet
<1>6. CASE Next /\ \E requested \in ExplicitIds \cup {Nothing} : Begin(requested)
  <2>1. Grows
    BY <1>6, BundlesGrow
  <2> QED
    BY <1>3, <1>6, <2>1, BeginQuiet, BeginIsUnloaded
<1>7. ASSUME Next, NEW v \in Versions, WriteSpec(v)  PROVE Kept'
  <2>1. Grows
    BY <1>7, BundlesGrow
  <2> QED
    BY <1>1, <1>7, <2>1, ControlNames, PlacingKeeps, EditKeeps DEF WriteSpec, Unlocked
<1>8. ASSUME Next, NEW p \in Peers, PeerStart(p) \/ PeerStep(p)  PROVE Kept'
  <2>1. Grows
    BY <1>8, BundlesGrow
  <2>2. CASE FreezeGpuQuote(p)
    <3>1. source["quote_spec"] \in Versions /\ source["gpu_quote_lock"] = Nothing
      BY <1>1, <2>2, ControlNames DEF FreezeGpuQuote, PeersTyped, Windows, Present, Required
    <3> QED
      BY <1>1, <2>1, <2>2, <3>1, ControlNames, PlacingKeeps DEF FreezeGpuQuote, Place, Unlocked
  <2>3. CASE FreezeApiQuote(p)
    <3>1. peer[p].window \in Versions /\ source["api_route_quote_lock"] = Nothing
      BY <1>1, <2>3 DEF FreezeApiQuote, PeersTyped, Windows, QInv, Quoted
    <3>2. rot.pc = "off"
      BY <2>3 DEF FreezeApiQuote, Out, QInv, Alone
    <3> QED
      BY <1>1, <2>1, <2>3, <3>1, <3>2, ControlNames, PlacingKeeps DEF FreezeApiQuote, Place
  <2>4. CASE Approve(p)
    <3>1. source["gpu_quote_lock"] \in Versions /\ source["paid_run_approval"] = Nothing
      BY <1>1, <2>4, ControlNames DEF Approve, PeersTyped, Windows, Present, Required
    <3> QED
      BY <1>1, <2>1, <2>4, <3>1, ControlNames, PlacingKeeps DEF Approve, Place, Unlocked
  <2> QED
    BY <1>3, <1>8, <2>1, <2>2, <2>3, <2>4 DEF PeerStart, PeerStep, ReadQuote, LoadContext, Reserve, Rearm,
       PeerDies
<1>9. CASE Next /\ (StopPod \/ Settle)
  <2>1. Grows
    BY <1>9, BundlesGrow
  <2> QED
    BY <1>3, <1>9, <2>1 DEF StopPod, Settle
<1> QED
  BY <1>2, <1>4, <1>5, <1>6, <1>7, <1>8, <1>9, <1>10 DEF Next

(* A rotation never loses a control: whatever was ever frozen, approved or *)
(* written by hand is in its place or archived byte for byte, whatever     *)
(* died and whenever, unless the operator overwrote it, or wrote a spec    *)
(* while a rotation was running.                                           *)
THEOREM NothingLostSafe == Spec => []NothingLost
<1>1. Init => Kept
  BY DEF Init, Kept, NothingLost, SpecKept
<1>2. QInv /\ RInv /\ Kept /\ [Next]_vars => Kept'
  BY KeptStep
<1>3. Kept => NothingLost
  BY DEF Kept
<1> QED
  BY <1>1, <1>2, <1>3, RotationInvariance, PTL DEF Spec

-----------------------------------------------------------------------------
(* An interrupted rotation stays one that a rerun can finish. *)

Found(id) == IF bundles[id]["manifest"].dest # Nothing THEN bundles[id]["manifest"].dest
             ELSE bundles[id]["manifest"].pending

(* The order of removal: while a quote lock is left its turn comes first. *)
LEMMA LocksGoFirst ==
  ASSUME NEW todo \in SUBSET Controls, NEW c \in Turn(todo), c \notin Required
  PROVE  todo \cap Required = {}
<1>1. \A d \in Required : ~Before(c, d)
  <2>1. SortedControls = <<"api_route_quote_lock", "gpu_quote_lock", "paid_run_approval", "quote_spec">>
        /\ DOMAIN SortedControls = 1..4
    BY DEF SortedControls
  <2>2. c \in {"paid_run_approval", "quote_spec"}
    BY ControlNames DEF Turn, Required
  <2>3. ASSUME NEW i \in 1..4, NEW j \in 1..4, SortedControls[i] = c, SortedControls[j] \in Required
        PROVE  ~(i <= j)
    <3>1. i = 3 \/ i = 4
      BY <2>1, <2>2, <2>3
    <3>2. j = 1 \/ j = 2
      BY <2>1, <2>3 DEF Required
    <3> QED
      BY <3>1, <3>2
  <2> QED
    BY <2>1, <2>3 DEF Before
<1> QED
  BY <1>1 DEF Turn

LEMMA RecoverableShape ==
  ASSUME NEW id, Recoverable(id)
  PROVE  /\ Incomplete = {id} /\ rot.id \in {Nothing, id} /\ Found(id) = id /\ SourcesMatch(id)
         /\ \A f \in Files : bundles[id][f].pending # Torn
         /\ Required \subseteq Present => Present = DOMAIN id
         /\ \A c \in DOMAIN id : source[c] = Nothing => Exact(bundles[id][c], id[c])
BY DEF Recoverable, Found

LEMMA RecoverableAgain ==
  ASSUME NEW id, Incomplete' = {id}, rot'.id \in {Nothing, id}, Found(id)' = id, SourcesMatch(id)',
         \A f \in Files : bundles'[id][f].pending # Torn,
         Required \subseteq Present' => Present' = DOMAIN id,
         \A c \in DOMAIN id : source'[c] = Nothing => Exact(bundles'[id][c], id[c])
  PROVE  Recoverable(id)'
BY DEF Recoverable, Found

(* A step that leaves the files as they are. *)
LEMMA SameFiles ==
  ASSUME NEW id, Recoverable(id), UNCHANGED <<source, bundles>>, rot'.id \in {Nothing, id}
  PROVE  Recoverable(id)'
BY DEF Recoverable, Incomplete, SourcesMatch, Present, Exact, Begun

LEMMA RerunResumes ==
  ASSUME QInv, RInv, NEW id \in DOMAIN bundles \cap Manifests, Recoverable(id), Begin(Nothing)
  PROVE  Recoverable(id)'
<1>1. ArchiveTyped /\ PeersTyped /\ Nothing \notin DOMAIN bundles
  BY NothingIsNoWindow DEF RInv, QInv, ArchiveTyped
<1>2. Incomplete = {id} /\ SourcesMatch(id) /\ (Required \subseteq Present => Present = DOMAIN id)
  BY RecoverableShape
<1>3. CASE ~(Required \subseteq Present)
  <2>1. Resume(id, Nothing) /\ UNCHANGED <<source, bundles>>
    BY <1>1, <1>2, <1>3 DEF Begin
  <2>2. rot'.id = id
    BY <2>1 DEF Resume, Install, Off
  <2> QED
    BY <2>1, <2>2, SameFiles
<1>4. CASE Required \subseteq Present
  <2>1. Snapshot = id
    <3>1. id = [c \in DOMAIN id |-> id[c]] /\ Present = DOMAIN id
      BY <1>2, <1>4, ManifestShape
    <3>2. \A c \in DOMAIN id : source[c] = id[c]
      BY <1>2, <3>1 DEF SourcesMatch
    <3> QED
      BY <3>1, <3>2 DEF Snapshot
  <2>2. Resume(id, Snapshot) /\ UNCHANGED <<source, bundles>>
    BY <1>1, <1>4, <2>1 DEF Begin
  <2>3. rot'.id = id
    BY <2>2 DEF Resume, Install, Off
  <2> QED
    BY <2>2, <2>3, SameFiles
<1> QED
  BY <1>3, <1>4

(* Installing another file of the bundle it works on. *)
LEMMA InstallRecovers ==
  ASSUME QInv, RInv, NEW id \in DOMAIN bundles \cap Manifests, Recoverable(id), UNCHANGED source,
         rot.pc # "off", NEW f \in Files, NEW content \in Versions \cup Manifests,
         Installs(f, content),
         f = "manifest" => content = rot.man,
         f \in Controls => source[f] # Nothing
  PROVE  Recoverable(id)' \/ Completed(id)'
<1>1. /\ Incomplete = {id} /\ rot.id \in {Nothing, id} /\ Found(id) = id /\ SourcesMatch(id)
      /\ \A g \in Files : bundles[id][g].pending # Torn
      /\ Required \subseteq Present => Present = DOMAIN id
      /\ \A c \in DOMAIN id : source[c] = Nothing => Exact(bundles[id][c], id[c])
  BY RecoverableShape
<1>2. rot.id = id /\ DOMAIN id \subseteq Controls /\ id # Nothing
  BY <1>1, NothingIsNoWindow, ManifestShape DEF RInv, RotTyped, ArchiveTyped
<1>3. /\ rot' = rot /\ DOMAIN bundles' = DOMAIN bundles /\ Present' = Present
      /\ \A i \in DOMAIN bundles, g \in Files : ~(i = id /\ g = f) => bundles'[i][g] = bundles[i][g]
      /\ bundles'[id][f].dest \in {Nothing, content} /\ bundles'[id][f].pending \in {Nothing, content}
      /\ bundles'[id][f].dest = content \/ bundles'[id][f].pending = content
      /\ Acceptable(bundles[id][f], content)
  BY <1>2 DEF Installs, Present
<1>4. content # Nothing /\ content # Torn
  BY NothingIsNoWindow, ManifestShape
<1>5. \A g \in Files : bundles'[id][g].pending # Torn
  BY <1>1, <1>3, <1>4, RotationAssumption
<1>6. Found(id)' = id
  <2>1. CASE f = "manifest"
    <3>1. content = id
      BY <1>1, <1>2, <1>3, <2>1 DEF Found, Acceptable
    <3> QED
      BY <1>3, <1>4, <2>1, <3>1 DEF Found
  <2>2. CASE f # "manifest"
    <3>1. bundles'[id]["manifest"] = bundles[id]["manifest"]
      BY <1>3, <2>2, FileNames
    <3> QED
      BY <1>1, <3>1 DEF Found
  <2> QED
    BY <2>1, <2>2
<1>7. \A c \in DOMAIN id : source'[c] = Nothing => Exact(bundles'[id][c], id[c])
  BY <1>1, <1>2, <1>3, FileNames
<1>8. Begun(bundles'[id]["manifest"])
  BY <1>2, <1>6 DEF Found, Begun, Absent
<1>9. CASE bundles'[id]["rotation_complete"].dest # Nothing
  BY <1>3, <1>9 DEF Completed
<1>10. CASE bundles'[id]["rotation_complete"].dest = Nothing
  <2>1. \A i \in DOMAIN bundles \ {id} : bundles'[i]["manifest"] = bundles[i]["manifest"]
           /\ bundles'[i]["rotation_complete"] = bundles[i]["rotation_complete"]
    BY <1>3, FileNames
  <2>2. Incomplete' = {id}
    BY <1>1, <1>3, <1>8, <1>10, <2>1 DEF Incomplete, Begun
  <2>3. SourcesMatch(id)'
    BY <1>1, <1>3 DEF SourcesMatch
  <2> QED
    BY <1>1, <1>2, <1>3, <1>5, <1>6, <1>7, <2>2, <2>3, RecoverableAgain
<1> QED
  BY <1>9, <1>10

LEMMA RemovalRecovers ==
  ASSUME QInv, RInv, NEW id \in DOMAIN bundles \cap Manifests, Recoverable(id), RemoveSource
  PROVE  Recoverable(id)'
<1>1. /\ Incomplete = {id} /\ rot.id \in {Nothing, id} /\ Found(id) = id /\ SourcesMatch(id)
      /\ \A g \in Files : bundles[id][g].pending # Torn
      /\ \A c \in DOMAIN id : source[c] = Nothing => Exact(bundles[id][c], id[c])
  BY RecoverableShape
<1>2. /\ rot.id \in DOMAIN bundles /\ rot.todo \in SUBSET Controls /\ rot \in Rotations
      /\ Exact(bundles[rot.id]["manifest"], rot.man) /\ rot.man # Nothing
      /\ AllArchived(rot.id, rot.man) /\ Required \cap Present \subseteq rot.todo
      /\ rot.todo \subseteq DOMAIN rot.man /\ source \in [Controls -> Windows]
  BY ManifestShape DEF RInv, RotTyped, Fixed, Removing, Locks, Working, RemoveSource, QInv, PeersTyped,
     Rotations, Required
<1>3. rot.id = id /\ rot.man = id
  BY <1>1, <1>2, NothingIsNoWindow DEF RInv, ArchiveTyped, Found, Exact
<1>4. PICK c \in Turn(rot.todo) : /\ source' = [source EXCEPT ![c] = Nothing]
                                  /\ rot' = [rot EXCEPT !.pc = "unlink", !.todo = @ \ {c}]
  BY DEF RemoveSource
<1>5. c \in rot.todo /\ c \in Controls
  BY <1>2 DEF Turn
<1>6. rot'.id = id /\ bundles' = bundles
  BY <1>2, <1>3, <1>4 DEF Rotations, RemoveSource
<1>7. Present' = Present \ {c} /\ \A d \in Present' : source'[d] = source[d]
  BY <1>2, <1>4, <1>5 DEF Present
<1>8. ~(Required \subseteq Present')
  <2>1. CASE c \in Required
    BY <1>7, <2>1
  <2>2. CASE c \notin Required
    BY <1>2, <1>7, <2>2, LocksGoFirst DEF Required
  <2> QED
    BY <2>1, <2>2
<1>9. SourcesMatch(id)' /\ Incomplete' = Incomplete /\ Found(id)' = Found(id)
  BY <1>1, <1>6, <1>7 DEF SourcesMatch, Incomplete, Found, Begun
<1>10. \A d \in DOMAIN id : Exact(bundles'[id][d], id[d])
  BY <1>2, <1>3, <1>6 DEF AllArchived
<1> QED
  BY <1>1, <1>6, <1>8, <1>9, <1>10, RecoverableAgain

(* The steps of the running rotation. *)
LEMMA WorkRecovers ==
  ASSUME QInv, RInv, NEW id \in DOMAIN bundles \cap Manifests, Recoverable(id), RotationStep
  PROVE  Recoverable(id)' \/ Completed(id)'
<1>1. /\ ArchiveTyped /\ rot \in Rotations /\ rot.id \in {Nothing, id}
      /\ rot.pc # "off" /\ rot.id \in DOMAIN bundles /\ rot.man \in Manifests
  BY RotationQuiet, RecoverableShape DEF RInv, RotTyped
<1>2. ASSUME UNCHANGED <<source, bundles>>, rot'.id \in {rot.id, Nothing}
      PROVE  Recoverable(id)' \/ Completed(id)'
  BY <1>1, <1>2, SameFiles
<1>3. ASSUME NEW pc, Go(pc), UNCHANGED <<source, bundles>>  PROVE Recoverable(id)' \/ Completed(id)'
  BY <1>1, <1>2, <1>3 DEF Go, Rotations
<1>4. ASSUME UNCHANGED source, NEW f \in Files, NEW content \in Versions \cup Manifests,
             f = "manifest" => content = rot.man, f \in Controls => source[f] # Nothing,
             Acceptable(bundles[rot.id][f], content), ~Exact(bundles[rot.id][f], content),
             bundles' = [bundles EXCEPT ![rot.id][f] = Installing(bundles[rot.id][f], content)],
             UNCHANGED rot
      PROVE  Recoverable(id)' \/ Completed(id)'
  <2>1. Installs(f, content)
    BY <1>1, <1>4, InstallStep
  <2> QED
    BY <1>1, <1>4, <2>1, InstallRecovers
<1>5. CASE ManifestStep
  BY <1>1, <1>3, <1>4, <1>5, FileNames DEF ManifestStep, InstallThen, Disk
<1>6. CASE ReplayStep
  BY <1>1, <1>3, <1>4, <1>6, FileNames DEF ReplayStep, InstallThen, Disk
<1>7. CASE CompleteStep
  BY <1>1, <1>3, <1>4, <1>7, FileNames DEF CompleteStep, InstallThen, Disk
<1>8. CASE ArchiveStep
  <2>1. CASE rot.todo = {}
    BY <1>3, <1>8, <2>1 DEF ArchiveStep, Disk
  <2>2. CASE rot.todo # {}
    <3>1. PICK c \in rot.todo :
            /\ c \in rot.held \/ Exact(bundles[rot.id][c], rot.man[c])
            /\ InstallThen(c, rot.man[c], rot' = [rot EXCEPT !.todo = @ \ {c}])
      BY <1>8, <2>2 DEF ArchiveStep, Turn
    <3>2. /\ UNCHANGED source /\ c \in Files /\ c # "manifest" /\ rot.man[c] \in Versions
          /\ rot.held \subseteq Present
      BY <1>1, <1>8, ManifestShape, FileNames DEF RInv, RotTyped, Matched, ArchiveStep, Disk
    <3>3. CASE Exact(bundles[rot.id][c], rot.man[c])
      BY <1>1, <1>2, <3>1, <3>2, <3>3 DEF InstallThen, Rotations
    <3>4. CASE ~Exact(bundles[rot.id][c], rot.man[c])
      <4>1. source[c] # Nothing
        BY <3>1, <3>2, <3>4 DEF Present
      <4> QED
        BY <1>4, <3>1, <3>2, <3>4, <4>1 DEF InstallThen
    <3> QED
      BY <3>3, <3>4
  <2> QED
    BY <2>1, <2>2
<1>9. CASE RemoveSource
  BY <1>9, RemovalRecovers
<1>10. CASE LoadStep
  BY <1>1, <1>2, <1>10 DEF LoadStep, Disk, Rotations
<1>11. CASE VerifyStep
  BY <1>3, <1>11 DEF VerifyStep, Disk
<1>12. CASE CheckSource
  BY <1>1, <1>2, <1>12 DEF CheckSource, Disk, Rotations
<1>13. CASE Finish
  BY <1>2, <1>13 DEF Finish, Disk, Off
<1> QED
  BY <1>5, <1>6, <1>7, <1>8, <1>9, <1>10, <1>11, <1>12, <1>13 DEF RotationStep

(* Undisturbed, no step of a rotation, of paid work or of a rerun leads an *)
(* interrupted rotation into a state from which a rerun without an id      *)
(* would refuse it: the required locks go first and a half-removed bundle  *)
(* is never taken for new controls (_initialize_or_load_manifest).         *)
THEOREM RecoveryNeverStrandsSafe == Spec => RecoveryNeverStrands
<1> DEFINE Kept1 == \A id \in DOMAIN bundles \cap Manifests :
                      Recoverable(id) /\ ~Disturbance => Recoverable(id)' \/ Completed(id)'
<1>1. ASSUME QInv, RInv, Next, NEW id \in DOMAIN bundles \cap Manifests, Recoverable(id), ~Disturbance
      PROVE  Recoverable(id)' \/ Completed(id)'
  <2>1. CASE \E requested \in ExplicitIds \cup {Nothing} : Begin(requested)
    <3>1. Begin(Nothing)
      BY <1>1, <2>1 DEF Disturbance
    <3> QED
      BY <1>1, <3>1, RerunResumes
  <2>2. CASE RotationStep
    BY <1>1, <2>2, WorkRecovers
  <2>3. ASSUME UNCHANGED <<source, bundles, rot>>  PROVE Recoverable(id)'
    BY <1>1, <2>3, SameFiles, RecoverableShape
  <2>4. CASE StopPod \/ Settle
    BY <2>3, <2>4 DEF StopPod, Settle
  <2>5. ASSUME NEW p \in Peers, PeerStart(p) \/ PeerStep(p)
        PROVE  Recoverable(id)'
    <3>1. ReadQuote(p) \/ LoadContext(p) \/ Reserve(p) \/ Rearm(p) \/ PeerDies(p)
      BY <1>1, <2>5 DEF Disturbance, PeerStart, PeerStep
    <3> QED
      BY <2>3, <3>1 DEF ReadQuote, LoadContext, Reserve, Rearm, PeerDies
  <2> QED
    BY <1>1, <2>1, <2>2, <2>4, <2>5 DEF Next, Disturbance
<1>2. QInv /\ RInv /\ [Next]_vars => [Kept1]_vars
  BY <1>1
<1> QED
  BY <1>2, RotationInvariance, PTL DEF Spec, RecoveryNeverStrands

=============================================================================
