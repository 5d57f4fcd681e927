--------------------------- MODULE RunpodSyncProofs ---------------------------
(***************************************************************************)
(* For any attempts and sessions: one attempt of a session contacts the    *)
(* Pod, and what an error says of its stop is true.  What keeps attempts   *)
(* apart is the bundle directory, which is new for whoever made it, and    *)
(* which only its maker removes, before it has claimed the session.  What  *)
(* an install has verified in place, and the checkout found at first,      *)
(* outlast later installs, rollbacks and a Pod that stops at any moment.   *)
(***************************************************************************)
EXTENDS RunpodSync, TLAPS

Steps == {"new", "planned", "unclaimed", "copying", "bundled", "cleared", "check", "send", "wait",
          "failing", "stopping", "sweep", "done", "failed", "refused", "killed"}
Requests == {"untried", "made", "raised"}
Stops == {"untried", "unconfirmed", "confirmed"}
Words == {"nothing", "raised", "unstopped", "unrequested", "cause"}
AttemptRecords ==
  [pc : Steps, session : Sessions \cup {Nothing}, next : Nat,
   request : Requests, stop : Stops, says : Words]

Typed == /\ at \in [Attempts -> AttemptRecords]
         /\ claims \in [Sessions -> Attempts \cup {Nothing}]
         /\ bundle \in [Sessions -> {Nothing} \cup [owner : Attempts, whole : BOOLEAN]]
         /\ contacted \subseteq Attempts
         /\ used \subseteq Sessions /\ armed \in used \cup {Nothing}

BundleIs(s, a, whole) == bundle[s] # Nothing /\ bundle[s].owner = a /\ bundle[s].whole = whole

(* The bundle directory is that of the attempt that works on it. *)
Holds(a) == /\ at[a].pc = "copying" => BundleIs(Session(a), a, FALSE)
            /\ at[a].pc \in {"bundled", "cleared"} => BundleIs(Session(a), a, TRUE)
(* A claim is of the attempt's own session and of a finished bundle. *)
Owns(a) == /\ \A s \in Sessions : claims[s] = a => Session(a) = s /\ BundleIs(s, a, TRUE)
           /\ at[a].pc \in {"check", "send", "wait"} \/ a \in contacted => claims[Session(a)] = a
(* What has begun has a session; stops asked for and confirmed stay, and   *)
(* an error leaves out only what was done.                                 *)
Accounts(a) == /\ IF At(a, "new") THEN Session(a) = Nothing ELSE Session(a) \in used
               /\ a \in contacted => ~At(a, "new")
               /\ at[a].request = "made" => ~At(a, "new") /\ Session(a) \in stops
               /\ at[a].stop = "confirmed" => ~At(a, "new") /\ (armed = Session(a) => ~podUp)
               /\ at[a].says \in {"cause", "unrequested"} => at[a].stop = "confirmed"
               /\ at[a].says = "cause" => at[a].request = "made"
               /\ at[a].says # "nothing" => at[a].pc \in {"failed", "refused"}
               /\ At(a, "stopping") => at[a].request = "made" \/ claims[Session(a)] = a

Sound(a) == Holds(a) /\ Owns(a) /\ Accounts(a)
(* A step that adds nothing to what the attempt will say. *)
SameWord(a) == /\ at'[a].request = at[a].request
               /\ at'[a].stop = at[a].stop /\ at'[a].says = at[a].says
SInv == Typed /\ \A a \in Attempts : Sound(a)

-----------------------------------------------------------------------------
LEMMA Names ==
  /\ {"planned", "copying", "refused", "bundled", "check", "failing", "stopping", "sweep", "failed"} \subseteq Steps
  /\ {"made", "raised"} \subseteq Requests /\ {"confirmed", "unconfirmed"} \subseteq Stops
  /\ {"raised", "unstopped", "unrequested", "cause"} \subseteq Words
BY DEF Steps, Requests, Stops, Words

LEMMA InitSound == Init => SInv
BY SyncAssumption
   DEF Init, SInv, Typed, AttemptRecords, Steps, Requests, Stops, Words, Sound, Holds, Owns, Accounts, BundleIs, Session, At

(* An attempt that does not act, whose bundles and claims others leave alone. *)
LEMMA Bystander ==
  ASSUME NEW b \in Attempts, SInv, at'[b] = at[b],
         \A s \in Sessions : (claims'[s] = b) <=> (claims[s] = b),
         \A s \in Sessions : BundleIs(s, b, FALSE) \/ BundleIs(s, b, TRUE) => bundle'[s] = bundle[s],
         (b \in contacted') <=> (b \in contacted),
         UNCHANGED <<armed, used>>, podUp' => podUp, stops \subseteq stops'
  PROVE  Sound(b)'
<1>1. at[b].pc \in {"copying", "bundled", "cleared", "check", "send", "wait", "stopping"} \/ b \in contacted
        => Session(b) \in Sessions
  BY DEF SInv, Sound, Accounts, Typed, At
<1>2. Holds(b)'
  BY <1>1 DEF SInv, Sound, Holds, BundleIs, Session
<1>3. Owns(b)'
  BY <1>1 DEF SInv, Sound, Owns, BundleIs, Session
<1>4. Accounts(b)'
  BY <1>1 DEF SInv, Sound, Accounts, Session, At
<1> QED
  BY <1>2, <1>3, <1>4 DEF Sound

(* An attempt that goes on, owing nothing new. *)
LEMMA Walks ==
  ASSUME NEW a \in Attempts, SInv, at[a].pc \notin {"new", "failed", "refused"}, at'[a].pc # "new",
         at' \in [Attempts -> AttemptRecords], at'[a].session = at[a].session,
         \A b \in Attempts \ {a} : at'[b] = at[b],
         \/ SameWord(a)
         \/ /\ at'[a].request = "made" => at[a].request = "made" \/ Session(a) \in stops'
            /\ at'[a].stop = "confirmed" => at[a].stop = "confirmed" \/ ~podUp'
            /\ at'[a].says \in {"cause", "unrequested"} => at'[a].stop = "confirmed"
            /\ at'[a].says = "cause" => at'[a].request = "made"
            /\ at'[a].says # "nothing" => at'[a].pc \in {"failed", "refused"},
         at'[a].pc = "stopping" => at'[a].request = "made" \/ claims[Session(a)] = a,
         UNCHANGED <<claims, bundle, armed, used>>, podUp' => podUp, stops \subseteq stops',
         contacted' \in {contacted, contacted \cup {a}},
         at'[a].pc # "copying", at'[a].pc \in {"bundled", "cleared"} => at[a].pc \in {"bundled", "cleared"},
         at'[a].pc \in {"check", "send", "wait"} \/ a \in contacted'
           => at[a].pc \in {"check", "send", "wait"} \/ a \in contacted
  PROVE  SInv'
<1>1. Typed'
  BY DEF SInv, Typed
<1>2. Sound(a)'
  <2>1. Holds(a)'
    BY DEF SInv, Sound, Holds, BundleIs, Session
  <2>2. Owns(a)'
    BY DEF SInv, Sound, Owns, BundleIs, Session
  <2>3. Accounts(a)'
    BY DEF SInv, Sound, Owns, Accounts, SameWord, Session, At
  <2> QED
    BY <2>1, <2>2, <2>3 DEF Sound
<1>3. ASSUME NEW b \in Attempts, b # a  PROVE Sound(b)'
  BY <1>3, Bystander
<1> QED
  BY <1>1, <1>2, <1>3 DEF SInv

(* Steps of the host, the provider and the Pod. *)
LEMMA Elsewhere ==
  ASSUME SInv, UNCHANGED <<at, claims, bundle, contacted, armed, used>>, podUp' => podUp,
         stops \subseteq stops'
  PROVE  SInv'
<1>1. Typed'
  BY DEF SInv, Typed
<1>2. ASSUME NEW b \in Attempts  PROVE Sound(b)'
  BY Bystander
<1> QED
  BY <1>1, <1>2 DEF SInv

(* A new session is none that anybody has stopped. *)
LEMMA ArmKeeps == ASSUME NEW s \in Sessions, SInv, Arm(s)  PROVE SInv'
<1>1. /\ s \notin used /\ armed' = s /\ used' = used \cup {s}
      /\ UNCHANGED <<at, claims, bundle, stops, contacted>>
  BY DEF Arm, local
<1>2. Typed'
  BY <1>1 DEF SInv, Typed
<1>3. ASSUME NEW a \in Attempts  PROVE Sound(a)'
  BY <1>1 DEF SInv, Sound, Holds, Owns, Accounts, BundleIs, Session, At
<1> QED
  BY <1>2, <1>3 DEF SInv

LEMMA StartKeeps == ASSUME NEW a \in Attempts, SInv, Start(a)  PROVE SInv'
<1>1. /\ at[a].pc = "new" /\ armed # Nothing
      /\ at' = [at EXCEPT ![a].pc = "planned", ![a].session = armed]
      /\ UNCHANGED <<armed, used, podUp, stops, claims, bundle, contacted>>
  BY DEF Start, host, pod, At
<1>2. /\ at' \in [Attempts -> AttemptRecords]
      /\ at'[a].pc = "planned" /\ at'[a].session = armed /\ SameWord(a)
      /\ \A b \in Attempts \ {a} : at'[b] = at[b]
  BY <1>1, Names DEF SInv, Typed, AttemptRecords, SameWord
<1>3. Typed'
  BY <1>1, <1>2 DEF SInv, Typed
<1>4. at[a].request # "made" /\ at[a].stop # "confirmed" /\ a \notin contacted /\ armed \in used
  BY <1>1 DEF SInv, Typed, Sound, Accounts, At
<1>5. \A s \in Sessions : claims[s] # a
  BY <1>1, SyncAssumption DEF SInv, Sound, Owns, Accounts, Session, At
<1>6. Sound(a)'
  <2>1. Holds(a)' /\ Owns(a)'
    BY <1>1, <1>2, <1>4, <1>5 DEF Holds, Owns
  <2>2. Accounts(a)'
    BY <1>1, <1>2, <1>4 DEF Accounts, SInv, Sound, SameWord, Session, At
  <2> QED
    BY <2>1, <2>2 DEF Sound
<1>7. ASSUME NEW b \in Attempts, b # a  PROVE Sound(b)'
  BY <1>1, <1>2, <1>7, Bystander
<1> QED
  BY <1>3, <1>6, <1>7 DEF SInv

(* The maker of the directory finds none of another's there. *)
LEMMA MakeBundleKeeps == ASSUME NEW a \in Attempts, SInv, MakeBundle(a)  PROVE SInv'
<1>1. /\ at[a].pc = "unclaimed"
      /\ UNCHANGED <<armed, used, podUp, stops, claims, contacted>>
  BY DEF MakeBundle, host, pod, At
<1>2. Session(a) \in Sessions
  BY <1>1 DEF SInv, Typed, Sound, Accounts, At
<1>3. CASE UNCHANGED bundle /\ Goto(a, "refused")
  <2>1. /\ at' \in [Attempts -> AttemptRecords]
        /\ at'[a].pc = "refused" /\ at'[a].session = at[a].session
        /\ SameWord(a)
        /\ \A b \in Attempts \ {a} : at'[b] = at[b]
    BY <1>3, Names DEF SInv, Typed, AttemptRecords, SameWord, Goto
  <2> QED
    BY <1>1, <1>3, <2>1, Walks
<1>4. CASE /\ bundle[Session(a)] = Nothing /\ Goto(a, "copying")
           /\ bundle' = [bundle EXCEPT ![Session(a)] = [owner |-> a, whole |-> FALSE]]
  <2>1. /\ at' \in [Attempts -> AttemptRecords]
        /\ at'[a].pc = "copying" /\ at'[a].session = at[a].session
        /\ SameWord(a)
        /\ \A b \in Attempts \ {a} : at'[b] = at[b]
    BY <1>4, Names DEF SInv, Typed, AttemptRecords, SameWord, Goto
  <2>2. Typed'
    BY <1>1, <1>2, <1>4, <2>1 DEF SInv, Typed
  <2>3. /\ BundleIs(Session(a), a, FALSE)'
        /\ \A s \in Sessions : s # Session(a) => bundle'[s] = bundle[s]
    <3>1. [owner |-> a, whole |-> FALSE] \in [owner : Attempts, whole : BOOLEAN]
      OBVIOUS
    <3>2. /\ bundle'[Session(a)] = [owner |-> a, whole |-> FALSE]
          /\ \A s \in Sessions : s # Session(a) => bundle'[s] = bundle[s]
      BY <1>2, <1>4 DEF SInv, Typed
    <3>3. [owner |-> a, whole |-> FALSE] # Nothing
      BY <3>1, SyncAssumption
    <3>4. /\ bundle'[Session(a)] # Nothing
          /\ bundle'[Session(a)].owner = a /\ bundle'[Session(a)].whole = FALSE
      BY <3>2, <3>3
    <3> QED
      BY <2>1, <3>2, <3>4 DEF BundleIs, Session
  <2>4. \A b \in Attempts : ~BundleIs(Session(a), b, FALSE) /\ ~BundleIs(Session(a), b, TRUE)
    BY <1>4, <1>2, SyncAssumption DEF BundleIs, SInv, Typed
  <2>5. \A s \in Sessions : claims[s] # a
    BY <1>2, <2>4 DEF SInv, Sound, Owns
  <2>6. Sound(a)'
    BY <1>1, <1>2, <2>1, <2>3, <2>5
       DEF SInv, Sound, Holds, Owns, Accounts, SameWord, Session, At
  <2>7. ASSUME NEW b \in Attempts, b # a  PROVE Sound(b)'
    BY <1>1, <2>1, <2>3, <2>4, <2>7, Bystander
  <2> QED
    BY <2>2, <2>6, <2>7 DEF SInv
<1> QED
  BY <1>3, <1>4 DEF MakeBundle

(* An unfinished bundle is nobody's but its maker's, who has no claim. *)
LEMMA FillBundleKeeps == ASSUME NEW a \in Attempts, SInv, FillBundle(a)  PROVE SInv'
<1>1. /\ at[a].pc = "copying"
      /\ UNCHANGED <<armed, used, podUp, stops, claims, contacted>>
  BY DEF FillBundle, host, pod, At
<1>2. Session(a) \in Sessions /\ BundleIs(Session(a), a, FALSE)
  BY <1>1 DEF SInv, Typed, Sound, Accounts, Holds, At
<1>3. \A s \in Sessions : claims[s] # a
  BY <1>2 DEF SInv, Sound, Owns, BundleIs
<1>4. a \notin contacted
  BY <1>2, <1>3 DEF SInv, Sound, Owns
<1>5. PICK pc \in {"bundled", "refused"} :
        /\ Goto(a, pc)
        /\ bundle' = [bundle EXCEPT ![Session(a)] =
                        IF pc = "bundled" THEN [owner |-> a, whole |-> TRUE] ELSE Nothing]
  BY DEF FillBundle
<1>6. /\ at' \in [Attempts -> AttemptRecords]
      /\ at'[a].pc = pc /\ at'[a].session = at[a].session
      /\ SameWord(a)
      /\ \A b \in Attempts \ {a} : at'[b] = at[b]
  BY <1>5, Names DEF SInv, Typed, AttemptRecords, SameWord, Goto
<1>7. Typed'
  BY <1>1, <1>2, <1>5, <1>6 DEF SInv, Typed
<1>8. /\ pc = "bundled" => BundleIs(Session(a), a, TRUE)'
      /\ \A s \in Sessions : s # Session(a) => bundle'[s] = bundle[s]
  <2>1. [owner |-> a, whole |-> TRUE] \in [owner : Attempts, whole : BOOLEAN]
    OBVIOUS
  <2>2. /\ pc = "bundled" => bundle'[Session(a)] = [owner |-> a, whole |-> TRUE]
        /\ \A s \in Sessions : s # Session(a) => bundle'[s] = bundle[s]
    BY <1>2, <1>5 DEF SInv, Typed
  <2>3. pc = "bundled" => /\ bundle'[Session(a)] # Nothing
                          /\ bundle'[Session(a)].owner = a /\ bundle'[Session(a)].whole = TRUE
    <3>1. [owner |-> a, whole |-> TRUE] # Nothing
      BY <2>1, SyncAssumption
    <3> QED
      BY <2>2, <3>1
  <2> QED
    BY <1>6, <2>2, <2>3 DEF BundleIs, Session
<1>9. Sound(a)'
  BY <1>1, <1>2, <1>3, <1>4, <1>6, <1>8
     DEF SInv, Sound, Holds, Owns, Accounts, SameWord, Session, At
<1>10. ASSUME NEW b \in Attempts, b # a  PROVE Sound(b)'
  <2>1. ~BundleIs(Session(a), b, FALSE) /\ ~BundleIs(Session(a), b, TRUE)
    BY <1>2, <1>10 DEF BundleIs
  <2> QED
    BY <1>1, <1>6, <1>8, <1>10, <2>1, Bystander
<1> QED
  BY <1>7, <1>9, <1>10 DEF SInv

LEMMA ClaimKeeps == ASSUME NEW a \in Attempts, SInv, Claim(a)  PROVE SInv'
<1>1. /\ at[a].pc = "cleared"
      /\ UNCHANGED <<armed, used, podUp, stops, bundle, contacted>>
  BY DEF Claim, host, pod, At
<1>2. Session(a) \in Sessions /\ BundleIs(Session(a), a, TRUE)
  BY <1>1 DEF SInv, Typed, Sound, Accounts, Holds, At
<1>3. CASE UNCHANGED claims /\ Goto(a, "refused")
  <2>1. /\ at' \in [Attempts -> AttemptRecords]
        /\ at'[a].pc = "refused" /\ at'[a].session = at[a].session
        /\ SameWord(a)
        /\ \A b \in Attempts \ {a} : at'[b] = at[b]
    BY <1>3, Names DEF SInv, Typed, AttemptRecords, SameWord, Goto
  <2> QED
    BY <1>1, <1>3, <2>1, Walks
<1>4. CASE /\ claims[Session(a)] = Nothing /\ Goto(a, "check")
           /\ claims' = [claims EXCEPT ![Session(a)] = a]
  <2>1. /\ at' \in [Attempts -> AttemptRecords]
        /\ at'[a].pc = "check" /\ at'[a].session = at[a].session
        /\ SameWord(a)
        /\ \A b \in Attempts \ {a} : at'[b] = at[b]
    BY <1>4, Names DEF SInv, Typed, AttemptRecords, SameWord, Goto
  <2>2. Typed'
    BY <1>1, <1>2, <1>4, <2>1 DEF SInv, Typed
  <2>3. /\ claims'[Session(a)] = a
        /\ \A s \in Sessions : s # Session(a) => claims'[s] = claims[s]
    BY <1>2, <1>4 DEF SInv, Typed
  <2>4. Sound(a)'
    BY <1>1, <1>2, <2>1, <2>3
       DEF SInv, Sound, Holds, Owns, Accounts, SameWord, Session, At, BundleIs
  <2>5. ASSUME NEW b \in Attempts, b # a  PROVE Sound(b)'
    BY <1>1, <1>4, <2>1, <2>3, <2>5, Bystander, SyncAssumption DEF BundleIs
  <2> QED
    BY <2>2, <2>4, <2>5 DEF SInv
<1> QED
  BY <1>3, <1>4 DEF Claim

-----------------------------------------------------------------------------
(* The claimed transfer and its failure path only go on. *)
LEMMA TransferKeeps ==
  ASSUME NEW a \in Attempts, SInv,
         \/ CheckClaim(a) \/ Clear(a) \/ Check(a) \/ Send(a) \/ Timeout(a)
         \/ Kill(a)
  PROVE  SInv'
<1>1. PICK pc \in Steps \ {"new", "copying", "bundled", "stopping"} :
        /\ Goto(a, pc) /\ at[a].pc \notin {"new", "failed", "refused"}
        /\ pc = "cleared" => at[a].pc = "bundled"
        /\ pc \in {"check", "send", "wait"} \/ a \in contacted'
             => at[a].pc \in {"check", "send", "wait"} \/ a \in contacted
        /\ UNCHANGED stops /\ contacted' \in {contacted, contacted \cup {a}}
        /\ UNCHANGED <<claims, bundle, armed, used, podUp>>
  <2> USE DEF Steps, At, Goto, host, local, pod
  <2>1. CASE CheckClaim(a)
    BY <2>1 DEF CheckClaim
  <2>2. CASE Clear(a)
    <3>1. Goto(a, "cleared") \/ Goto(a, "refused")
      BY <2>2 DEF Clear
    <3>2. /\ at[a].pc = "bundled"
          /\ UNCHANGED <<claims, bundle, armed, used, podUp, stops, contacted>>
      BY <2>2 DEF Clear
    <3> QED
      BY <3>1, <3>2
  <2>3. CASE Check(a)
    <3>1. \/ Goto(a, "failing") \/ Goto(a, "done") \/ Goto(a, "send")
      BY <2>3 DEF Check
    <3>2. /\ at[a].pc = "check"
          /\ UNCHANGED <<claims, bundle, armed, used, podUp, stops, contacted>>
      BY <2>3 DEF Check
    <3> QED
      BY <3>1, <3>2
  <2>4. CASE Send(a)
    <3>1. Goto(a, "wait") \/ Goto(a, "failing")
      BY <2>4 DEF Send
    <3>2. /\ at[a].pc = "send" /\ contacted' = contacted \cup {a}
          /\ UNCHANGED <<claims, bundle, armed, used, podUp, stops>>
      BY <2>4 DEF Send
    <3> QED
      BY <3>1, <3>2
  <2>5. CASE Timeout(a)
    BY <2>5 DEF Timeout
  <2>6. CASE Kill(a)
    BY <2>6 DEF Kill
  <2> QED
    BY <2>1, <2>2, <2>3, <2>4, <2>5, <2>6
<1>2. /\ at' \in [Attempts -> AttemptRecords]
      /\ at'[a].pc = pc /\ at'[a].session = at[a].session
      /\ SameWord(a)
      /\ \A b \in Attempts \ {a} : at'[b] = at[b]
  BY <1>1 DEF SInv, Typed, AttemptRecords, SameWord, Goto
<1> QED
  BY <1>1, <1>2, Walks

LEMMA ReturnKeeps == ASSUME NEW a \in Attempts, SInv, Return(a)  PROVE SInv'
<1>1. /\ at[a].pc = "wait"
      /\ UNCHANGED <<armed, used, podUp, stops, claims, bundle, contacted>>
  BY DEF Return, host, At
<1>2. CASE at' = [at EXCEPT ![a].pc = "check", ![a].next = @ + 1]
  <2>1. /\ at' \in [Attempts -> AttemptRecords]
        /\ at'[a].pc = "check" /\ at'[a].session = at[a].session
        /\ SameWord(a)
        /\ \A b \in Attempts \ {a} : at'[b] = at[b]
    BY <1>2, Names DEF SInv, Typed, AttemptRecords, SameWord
  <2> QED
    BY <1>1, <2>1, Walks
<1>3. CASE at' = [at EXCEPT ![a].pc = "failing"]
  <2>1. /\ at' \in [Attempts -> AttemptRecords]
        /\ at'[a].pc = "failing" /\ at'[a].session = at[a].session
        /\ SameWord(a)
        /\ \A b \in Attempts \ {a} : at'[b] = at[b]
    BY <1>3, Names DEF SInv, Typed, AttemptRecords, SameWord
  <2> QED
    BY <1>1, <2>1, Walks
<1> QED
  BY <1>2, <1>3 DEF Return

(* The request, whether it is created or raises. *)
LEMMA RequestStopKeeps == ASSUME NEW a \in Attempts, SInv, RequestStop(a)  PROVE SInv'
<1>1. /\ at[a].pc = "failing" /\ stops \subseteq stops'
      /\ UNCHANGED <<armed, used, podUp, claims, bundle, contacted>>
  BY DEF RequestStop, host, pod, At
<1>2. /\ at \in [Attempts -> AttemptRecords]
      /\ at[a].says = "nothing"
  BY <1>1 DEF SInv, Typed, Sound, Accounts
<1>3. /\ at'[a].pc \in {"stopping", "refused"} /\ at'[a].says \in {"nothing", "raised"}
      /\ at'[a].session = at[a].session /\ at'[a].stop = at[a].stop
      /\ at' \in [Attempts -> AttemptRecords]
      /\ \A b \in Attempts \ {a} : at'[b] = at[b]
      /\ at'[a].request = "made" => Session(a) \in stops'
      /\ at'[a].pc = "stopping" => at'[a].request = "made" \/ claims[Session(a)] = a
      /\ at'[a].says # "nothing" => at'[a].pc = "refused"
  <2>1. CASE /\ stops' = stops \cup {Session(a)}
             /\ at' = [at EXCEPT ![a].pc = "stopping", ![a].request = "made"]
    BY <1>2, <2>1, Names DEF AttemptRecords
  <2>2. CASE /\ claims[Session(a)] = a
             /\ at' = [at EXCEPT ![a].pc = "stopping", ![a].request = "raised"]
    BY <1>2, <2>2, Names DEF AttemptRecords
  <2>3. CASE at' = [at EXCEPT ![a].pc = "refused", ![a].request = "raised", ![a].says = "raised"]
    BY <1>2, <2>3, Names DEF AttemptRecords
  <2> QED
    BY <2>1, <2>2, <2>3 DEF RequestStop
<1> QED
  BY <1>1, <1>2, <1>3, Walks

(* The provider stop, confirmed or not, and the last word of the error. *)
LEMMA EmergencyStopKeeps == ASSUME NEW a \in Attempts, SInv, EmergencyStop(a)  PROVE SInv'
<1>1. PICK stop \in {"confirmed", "unconfirmed"} :
        /\ IF stop = "confirmed" THEN PodDown ELSE UNCHANGED <<podUp, remote, sweeping>>
        /\ \/ at' = [at EXCEPT ![a].pc = "sweep", ![a].stop = stop]
           \/ /\ claims[Session(a)] # a
              /\ at' = [at EXCEPT ![a].pc = "refused", ![a].stop = stop,
                                  ![a].says = IF stop = "confirmed" THEN "cause" ELSE "unstopped"]
  BY DEF EmergencyStop
<1>2. /\ at[a].pc = "stopping"
      /\ UNCHANGED <<armed, used, stops, claims, bundle, contacted>>
  BY DEF EmergencyStop, host, At
<1>3. at[a].says = "nothing" /\ (at[a].request = "made" \/ claims[Session(a)] = a)
  BY <1>2 DEF SInv, Sound, Accounts, At
<1>4. stop = "confirmed" => ~podUp'
  BY <1>1 DEF PodDown
<1>5. podUp' => podUp
  BY <1>1 DEF PodDown
<1>6. CASE at' = [at EXCEPT ![a].pc = "sweep", ![a].stop = stop]
  <2>1. /\ at' \in [Attempts -> AttemptRecords]
        /\ at'[a].pc = "sweep" /\ at'[a].session = at[a].session /\ at'[a].stop = stop
        /\ at'[a].says = at[a].says /\ at'[a].request = at[a].request
        /\ \A b \in Attempts \ {a} : at'[b] = at[b]
    BY <1>6, Names DEF SInv, Typed, AttemptRecords
  <2> QED
    BY <1>2, <1>3, <1>4, <1>5, <2>1, Walks
<1>7. CASE /\ claims[Session(a)] # a
           /\ at' = [at EXCEPT ![a].pc = "refused", ![a].stop = stop,
                               ![a].says = IF stop = "confirmed" THEN "cause" ELSE "unstopped"]
  <2>1. /\ at' \in [Attempts -> AttemptRecords]
        /\ at'[a].pc = "refused" /\ at'[a].session = at[a].session /\ at'[a].stop = stop
        /\ at'[a].says = (IF stop = "confirmed" THEN "cause" ELSE "unstopped")
        /\ at'[a].request = at[a].request
        /\ \A b \in Attempts \ {a} : at'[b] = at[b]
    BY <1>7, Names DEF SInv, Typed, AttemptRecords
  <2> QED
    BY <1>2, <1>3, <1>4, <1>5, <1>7, <2>1, Walks
<1> QED
  BY <1>1, <1>6, <1>7

LEMMA SweepKeeps == ASSUME NEW a \in Attempts, SInv, Sweep(a)  PROVE SInv'
<1>1. /\ at[a].pc = "sweep" /\ at' = [at EXCEPT ![a].pc = "failed", ![a].says = Report(a)]
      /\ UNCHANGED <<armed, used, podUp, stops, claims, bundle, contacted>>
  BY DEF Sweep, host, At
<1>2. Report(a) \in {"unstopped", "unrequested", "cause"}
  BY DEF Report
<1>3. /\ at' \in [Attempts -> AttemptRecords]
      /\ at'[a].pc = "failed" /\ at'[a].session = at[a].session /\ at'[a].stop = at[a].stop
      /\ at'[a].says = Report(a) /\ at'[a].request = at[a].request
      /\ \A b \in Attempts \ {a} : at'[b] = at[b]
  BY <1>1, <1>2, Names DEF SInv, Typed, AttemptRecords
<1>4. /\ Report(a) \in {"cause", "unrequested"} => at[a].stop = "confirmed"
      /\ Report(a) = "cause" => at[a].request = "made"
  BY DEF Report
<1> QED
  BY <1>1, <1>3, <1>4, Walks

LEMMA AttemptKeeps == ASSUME NEW a \in Attempts, SInv, AttemptStep(a)  PROVE SInv'
BY MakeBundleKeeps, FillBundleKeeps, ClaimKeeps, TransferKeeps, ReturnKeeps,
   RequestStopKeeps, EmergencyStopKeeps, SweepKeeps DEF AttemptStep

(* The Pod's own steps reach nothing of this. *)
LEMMA RemoteKeeps == ASSUME NEW a \in Attempts, SInv, RemoteStep(a)  PROVE SInv'
<1>1. UNCHANGED Environment
  BY DEF RemoteStep, BuildStage, VerifyTree, CommandFails, InstallBegin, ArchiveOld, Promote,
         VerifyPromoted, Unpromote, Restore, Erode, EndSweep
<1> QED
  BY <1>1, Elsewhere DEF Environment, host, local

-----------------------------------------------------------------------------
(* The inductive invariant of the transfer, through kills, timeouts, a     *)
(* dying watcher and a Pod that stops at any moment.                       *)
THEOREM SyncInvariance == Spec => []SInv
<1>1. ASSUME SInv, [Next]_vars  PROVE SInv'
  <2>1. CASE \E s \in Sessions : Arm(s)
    BY <1>1, <2>1, ArmKeeps
  <2>2. CASE WatcherStops
    BY <1>1, <2>2, Elsewhere DEF WatcherStops, PodDown, local
  <2>3. CASE WatcherDies
    BY <1>1, <2>3, Elsewhere DEF WatcherDies, local, pod
  <2>4. CASE \E a \in Attempts : Expire(a)
    BY <1>1, <2>4, Elsewhere DEF Expire, host, local, pod
  <2>5. CASE \E a \in Attempts : Start(a) \/ AttemptStep(a)
    BY <1>1, <2>5, StartKeeps, AttemptKeeps
  <2>6. CASE \E a \in Attempts : Kill(a)
    BY <1>1, <2>6, TransferKeeps
  <2>7. CASE \E a \in Attempts : RemoteStep(a)
    BY <1>1, <2>7, RemoteKeeps
  <2>8. CASE UNCHANGED vars
    BY <1>1, <2>8, Elsewhere DEF vars, host, local, pod
  <2> QED
    BY <1>1, <2>1, <2>2, <2>3, <2>4, <2>5, <2>6, <2>7, <2>8 DEF Next
<1> QED
  BY InitSound, <1>1, PTL DEF Spec

(* One attempt of a session contacts the Pod, the one that holds the       *)
(* session's claim, and its bundle stays whole and its own                 *)
(* (transfer_runpod_sync_bundle, prepare_selective_sync_bundle).           *)
THEOREM OneTransferSafe == Spec => []OneTransfer
<1>1. ASSUME SInv, NEW a \in contacted
      PROVE  claims[Session(a)] = a /\ bundle[Session(a)] = [owner |-> a, whole |-> TRUE]
  <2>1. a \in Attempts /\ Session(a) \in Sessions /\ claims[Session(a)] = a
    BY <1>1 DEF SInv, Typed, Sound, Owns, Accounts
  <2>2. BundleIs(Session(a), a, TRUE)
    BY <1>1, <2>1 DEF SInv, Sound, Owns
  <2>3. bundle[Session(a)] \in [owner : Attempts, whole : BOOLEAN]
    BY <1>1, <2>1, <2>2 DEF SInv, Typed, BundleIs
  <2> QED
    BY <2>1, <2>2, <2>3 DEF BundleIs
<1>2. SInv => OneTransfer
  BY <1>1 DEF OneTransfer
<1> QED
  BY <1>2, SyncInvariance, PTL

(* What the error of a failed transfer, or of a second attempt, leaves out *)
(* was done: a request it does not call missing is durable, and the Pod of *)
(* its session stays down unless it calls the stop unconfirmed             *)
(* (transfer_runpod_sync_bundle, failure path).                            *)
THEOREM StopIsToldSafe == Spec => []StopIsTold
<1>1. SInv => StopIsTold
  BY DEF SInv, Sound, Accounts, StopIsTold
<1> QED
  BY <1>1, SyncInvariance, PTL

-----------------------------------------------------------------------------
(* The checkouts on the Pod's workspace.  One install moves trees at a     *)
(* time: it runs for the claimer of the armed session, since a plan of an  *)
(* earlier session is too old to be verified.                              *)

Idle == {"none", "ok", "failed"}
Away == {"stage", "nowhere"}
Before == {"new", "planned", "unclaimed", "copying", "bundled", "cleared"}
Later == {"wait", "failing", "stopping", "sweep", "failed", "refused", "killed"}

DiskTyped == /\ cond \in [Trees -> {"absent", "cloned", "source", "whole", "eroded"}]
             /\ place \in [Trees -> Away \cup {"destination"} \cup Attempts]
             /\ remote \in [Attempts -> Idle \cup ToSet(Commands) \cup InstallSteps]
             /\ archives \subseteq Attempts

(* A command runs for an attempt that sent it, on a Pod that is up; a      *)
(* stage is swept only after its attempt has failed; and a plan that is    *)
(* not too old is of the armed session.                                    *)
Runs(a) == /\ remote[a] # "none" => a \in contacted /\ at[a].pc \in Later
           /\ remote[a] \notin Idle => podUp
           /\ a \in sweeping => At(a, "failed")
           /\ a \in late => ~At(a, "new")
           /\ ~At(a, "new") /\ a \notin late => Session(a) = armed

(* A checkout in the making is where it is made. *)
Shaped(a) == /\ cond[a] = "absent" => place[a] = "nowhere"
             /\ cond[a] \in {"cloned", "source"} => place[a] = "stage"

(* How far an install is, while it runs. *)
HasArchived(a) == \E t \in Trees : place[t] = a
Swaps(a) ==
  remote[a] \in InstallSteps =>
    /\ Session(a) = armed /\ a \in archives
    /\ cond[a] \in {"absent", "whole", "eroded"}
    /\ remote[a] = "archiving" => InPlace # {} /\ place[a] \in Away
    /\ remote[a] \in {"moved", "restoring"} => place[a] \in Away /\ HasArchived(a)
    /\ remote[a] \in {"promoted", "unpromoting"} => place[a] = "destination" /\ HasArchived(a)

(* What an attempt has verified in place stays so in its session, and is   *)
(* at worst archived afterwards.                                           *)
Kept(t) == cond[t] = "whole" /\ place[t] \in {"destination"} \cup Attempts
Installed(a) == Kept(a) /\ (armed = Session(a) => place[a] = "destination")
Reports(a) == /\ at[a].next \in 1..8
              /\ at[a].pc \in Before => at[a].next = 1
              /\ at[a].pc \in {"send", "wait"} => at[a].next <= 7
              /\ At(a, "wait") /\ at[a].next = 7 =>
                   /\ remote[a] \in {"verify_installed", "ok", "failed"}
                   /\ remote[a] = "ok" => Installed(a)
              /\ At(a, "check") /\ at[a].next > 7 => Installed(a)
              /\ At(a, "done") => Kept(a)

(* With nothing in place, the checkout to put back is archived. *)
Restorable == InPlace = {} => \E a \in archives : place[a] \in Away /\ HasArchived(a)

DInv == /\ DiskTyped
        /\ \A a \in Attempts : Runs(a) /\ Shaped(a) /\ Swaps(a) /\ Reports(a)
        /\ Restorable /\ Kept(Original)

-----------------------------------------------------------------------------
LEMMA CommandNames ==
  /\ ToSet(Commands) = {"clone", "checkout", "prepare", "rsync", "verify", "install", "verify_installed"}
  /\ Len(Commands) = 7 /\ Commands[7] = "verify_installed"
  /\ \A i \in 1..7 : Commands[i] \in ToSet(Commands)
BY DEF Commands, ToSet

LEMMA DiskInit == Init => DInv
<1> SUFFICES ASSUME Init  PROVE DInv
  OBVIOUS
<1>1. DiskTyped
  BY SyncAssumption DEF Init, DiskTyped, Trees, Idle, Away
<1>2. /\ Original \in Trees /\ cond[Original] = "whole" /\ place[Original] = "destination"
      /\ \A a \in Attempts : /\ cond[a] = "absent" /\ place[a] = "nowhere" /\ remote[a] = "none"
                             /\ at[a].pc = "new" /\ at[a].next = 1
      /\ late = {} /\ sweeping = {}
  BY SyncAssumption DEF Init, Trees
<1>3. ASSUME NEW a \in Attempts  PROVE Runs(a) /\ Shaped(a) /\ Swaps(a) /\ Reports(a)
  BY <1>2 DEF Runs, Shaped, Swaps, Reports, InstallSteps, Idle, At
<1>4. Restorable /\ Kept(Original)
  BY <1>2 DEF Restorable, Kept, InPlace
<1> QED
  BY <1>1, <1>3, <1>4 DEF DInv

(* Whoever contacted the Pod in the armed session is its one claimer. *)
LEMMA OneInstaller ==
  ASSUME SInv, DInv, NEW a \in Attempts, NEW b \in Attempts, remote[a] \in InstallSteps,
         b \in contacted, Session(b) = armed
  PROVE  a = b
<1>1. a \in contacted /\ Session(a) = armed
  BY DEF DInv, Runs, Swaps, InstallSteps
<1> QED
  BY <1>1 DEF SInv, Sound, Owns

-----------------------------------------------------------------------------
(* Steps that leave the workspace alone. *)

LEMMA DiskRests ==
  ASSUME DInv, UNCHANGED disk,
         \A b \in Attempts : remote'[b] \in InstallSteps =>
            remote'[b] = remote[b] /\ armed' = armed /\ Session(b)' = Session(b)
  PROVE  /\ \A b \in Attempts : Shaped(b)' /\ Swaps(b)'
         /\ Restorable' /\ Kept(Original)'
BY DEF DInv, disk, Shaped, Swaps, Restorable, Kept, HasArchived, InPlace

LEMMA StillReports ==
  ASSUME DInv, NEW b \in Attempts, UNCHANGED disk, at'[b] = at[b],
         remote'[b] = remote[b] \/ remote'[b] = "failed",
         armed' = armed \/ (~At(b, "new") => armed' # Session(b))
  PROVE  Reports(b)'
BY DEF DInv, disk, Reports, Installed, Kept, Session, At

(* An attempt goes on and neither the Pod nor the plans change. *)
LEMMA Proceeds ==
  ASSUME DInv, NEW a \in Attempts, UNCHANGED <<remote, sweeping, disk, podUp, armed, late, contacted>>,
         at' \in [Attempts -> AttemptRecords], \A b \in Attempts \ {a} : at'[b] = at[b],
         at[a].pc # "new", at'[a].pc # "new", at'[a].session = at[a].session,
         at'[a].next = at[a].next,
         at[a].pc \in Later => at'[a].pc \in Later,
         at[a].pc # "failed",
         at'[a].pc \in Before => at[a].pc \in Before,
         at'[a].pc # "wait",
         at'[a].pc = "check" => at[a].pc \in Before,
         at'[a].pc = "send" => at[a].next <= 7,
         at'[a].pc = "done" => Kept(a)
  PROVE  DInv'
<1>1. DiskTyped'
  BY DEF DInv, DiskTyped, disk
<1>2. ASSUME NEW b \in Attempts  PROVE Runs(b)'
  BY DEF DInv, Runs, Session, At
<1>3. ASSUME NEW b \in Attempts  PROVE Reports(b)'
  <2>1. CASE b # a
    BY <2>1, StillReports
  <2>2. CASE b = a
    BY <2>2 DEF DInv, Reports, Installed, Kept, Session, At, disk, Before
  <2> QED
    BY <2>1, <2>2
<1>4. \A b \in Attempts : remote'[b] \in InstallSteps => Session(b)' = Session(b)
  BY DEF Session
<1> QED
  BY <1>1, <1>2, <1>3, <1>4, DiskRests DEF DInv

LEMMA ProceedsSteps ==
  ASSUME SInv, DInv, NEW a \in Attempts,
         \/ CheckClaim(a) \/ MakeBundle(a) \/ FillBundle(a) \/ Clear(a) \/ Claim(a) \/ Check(a)
         \/ Timeout(a) \/ Kill(a)
  PROVE  DInv'
<1>1. UNCHANGED <<remote, sweeping, disk, podUp, armed, late, contacted>>
  BY DEF CheckClaim, MakeBundle, FillBundle, Clear, Claim, Check, Timeout, Kill, host, pod
<1>2. at \in [Attempts -> AttemptRecords]
  BY DEF SInv, Typed
<1>3. PICK pc \in Steps : /\ at' = [at EXCEPT ![a].pc = pc]
                          /\ at[a].pc \notin {"new", "failed"} /\ pc \notin {"new", "wait"}
                          /\ at[a].pc \in Later => pc \in Later
                          /\ pc \in Before => at[a].pc \in Before
                          /\ pc = "check" => at[a].pc \in Before
                          /\ pc = "send" => at[a].next <= 7
                          /\ pc = "done" => At(a, "check") /\ at[a].next > 7
  <2>1. CASE CheckClaim(a)
    BY <2>1 DEF CheckClaim, Goto, At, Before, Later, Steps
  <2>2. CASE MakeBundle(a)
    BY <2>2 DEF MakeBundle, Goto, At, Before, Later, Steps
  <2>3. CASE FillBundle(a)
    BY <2>3 DEF FillBundle, Goto, At, Before, Later, Steps
  <2>4. CASE Clear(a) \/ Claim(a)
    BY <2>4 DEF Clear, Claim, Goto, At, Before, Later, Steps
  <2>5. CASE Check(a)
    <3>1. at[a].next \in Nat /\ at[a].pc = "check"
      BY <1>2, <2>5 DEF AttemptRecords, Check, At
    <3>2. PICK pc \in {"failing", "done", "send"} :
            /\ at' = [at EXCEPT ![a].pc = pc]
            /\ pc = "send" => ~(at[a].next > Len(Commands))
            /\ pc = "done" => at[a].next > Len(Commands)
      BY <2>5 DEF Check, Goto
    <3>3. /\ pc = "send" => at[a].next <= 7
          /\ pc = "done" => at[a].next > 7
      BY <3>1, <3>2, CommandNames
    <3> QED
      BY <3>1, <3>2, <3>3 DEF At, Before, Later, Steps
  <2>6. CASE Timeout(a) \/ Kill(a)
    BY <2>6 DEF Timeout, Kill, Goto, At, Before, Later, Steps
  <2> QED
    BY <2>1, <2>2, <2>3, <2>4, <2>5, <2>6
<1>4. /\ at' \in [Attempts -> AttemptRecords] /\ \A b \in Attempts \ {a} : at'[b] = at[b]
      /\ at'[a].pc = pc /\ at'[a].session = at[a].session /\ at'[a].next = at[a].next
  BY <1>2, <1>3 DEF AttemptRecords
<1>5. pc = "done" => Kept(a)
  BY <1>3 DEF DInv, Reports, Installed
<1> QED
  BY <1>1, <1>3, <1>4, <1>5, Proceeds

LEMMA RequestStopDisk == ASSUME SInv, DInv, NEW a \in Attempts, RequestStop(a)  PROVE DInv'
<1>1. /\ at[a].pc = "failing" /\ UNCHANGED <<remote, sweeping, disk, podUp, armed, late, contacted>>
      /\ at \in [Attempts -> AttemptRecords]
  BY DEF RequestStop, At, SInv, Typed, host, pod
<1>2. PICK pc \in {"stopping", "refused"} :
        /\ at'[a].pc = pc /\ at'[a].session = at[a].session /\ at'[a].next = at[a].next
        /\ \A b \in Attempts \ {a} : at'[b] = at[b]
  BY <1>1 DEF RequestStop, AttemptRecords
<1>3. at' \in [Attempts -> AttemptRecords]
  BY RequestStopKeeps DEF SInv, Typed
<1> QED
  BY <1>1, <1>2, <1>3, Proceeds DEF Later, Before

(* The steps that start, end or cut short what the Pod executes. *)

LEMMA PodDownDisk ==
  ASSUME DInv, PodDown
  PROVE  /\ remote' \in [Attempts -> Idle \cup ToSet(Commands) \cup InstallSteps]
         /\ \A b \in Attempts : /\ remote'[b] \in Idle
                                /\ remote'[b] = remote[b] \/ remote'[b] = "failed"
                                /\ remote'[b] # "none" => remote[b] # "none"
         /\ sweeping' = {} /\ podUp' = FALSE
BY DEF DInv, DiskTyped, PodDown, Idle

LEMMA WatcherStopsKeeps == ASSUME SInv, DInv, WatcherStops  PROVE DInv'
<1>1. PodDown /\ UNCHANGED <<at, disk, armed, late, contacted>>
  BY DEF WatcherStops, local
<1>2. DiskTyped'
  BY <1>1, PodDownDisk DEF DInv, DiskTyped, disk
<1>3. ASSUME NEW b \in Attempts  PROVE Runs(b)' /\ Reports(b)'
  <2>1. Runs(b)'
    BY <1>1, PodDownDisk DEF DInv, Runs, Session, At
  <2>2. Reports(b)'
    BY <1>1, PodDownDisk, StillReports
  <2> QED
    BY <2>1, <2>2
<1>4. \A b \in Attempts : remote'[b] \notin InstallSteps
  BY <1>1, PodDownDisk DEF Idle, InstallSteps
<1> QED
  BY <1>1, <1>2, <1>3, <1>4, DiskRests DEF DInv

LEMMA ArmDisk == ASSUME SInv, DInv, NEW s \in Sessions, Arm(s)  PROVE DInv'
<1>1. /\ ~podUp /\ armed' = s /\ s \notin used /\ podUp' = TRUE
      /\ late' = { a \in Attempts : ~At(a, "new") }
      /\ UNCHANGED <<at, remote, sweeping, disk, contacted>>
  BY DEF Arm, local
<1>2. DiskTyped'
  BY <1>1 DEF DInv, DiskTyped, disk
<1>3. ASSUME NEW b \in Attempts  PROVE Runs(b)' /\ Reports(b)' /\ remote[b] \in Idle
  <2>1. Runs(b)' /\ remote[b] \in Idle
    BY <1>1 DEF DInv, Runs, Session, At
  <2>2. ~At(b, "new") => armed' # Session(b)
    BY <1>1 DEF SInv, Sound, Accounts
  <2>3. Reports(b)'
    BY <1>1, <2>2, StillReports
  <2> QED
    BY <2>1, <2>3
<1>4. \A b \in Attempts : remote'[b] \notin InstallSteps
  BY <1>1, <1>3 DEF Idle, InstallSteps
<1> QED
  BY <1>1, <1>2, <1>3, <1>4, DiskRests DEF DInv

LEMMA StartDisk == ASSUME SInv, DInv, NEW a \in Attempts, Start(a)  PROVE DInv'
<1>1. /\ at[a].pc = "new" /\ armed # Nothing
      /\ at' = [at EXCEPT ![a].pc = "planned", ![a].session = armed]
      /\ UNCHANGED <<remote, sweeping, disk, podUp, armed, late, contacted>>
  BY DEF Start, host, pod, At
<1>2. /\ at \in [Attempts -> AttemptRecords]
      /\ \A b \in Attempts \ {a} : at'[b] = at[b]
      /\ at'[a].pc = "planned" /\ at'[a].session = armed /\ at'[a].next = at[a].next
  BY <1>1 DEF SInv, Typed, AttemptRecords
<1>3. DiskTyped'
  BY <1>1 DEF DInv, DiskTyped, disk
<1>4. remote[a] = "none" /\ a \notin sweeping /\ a \notin late /\ at[a].next = 1
  BY <1>1 DEF DInv, Runs, Reports, Later, Before, At
<1>5. ASSUME NEW b \in Attempts  PROVE Runs(b)' /\ Reports(b)'
  <2>1. CASE b # a
    <3>1. Runs(b)'
      BY <1>1, <1>2, <2>1 DEF DInv, Runs, Session, At
    <3> QED
      BY <1>1, <1>2, <2>1, <3>1, StillReports
  <2>2. CASE b = a
    BY <1>1, <1>2, <1>4, <2>2 DEF Runs, Reports, Session, At, Idle
  <2> QED
    BY <2>1, <2>2
<1>6. \A b \in Attempts : remote'[b] \in InstallSteps => Session(b)' = Session(b)
  BY <1>1, <1>2, <1>4 DEF Session, InstallSteps
<1> QED
  BY <1>1, <1>3, <1>5, <1>6, DiskRests DEF DInv

LEMMA PlansAge ==
  ASSUME SInv, DInv, UNCHANGED <<at, remote, sweeping, disk, podUp, armed, contacted>>,
         late \subseteq late', \A a \in late' \ late : ~At(a, "new")
  PROVE  DInv'
<1>1. DiskTyped'
  BY DEF DInv, DiskTyped, disk
<1>2. ASSUME NEW b \in Attempts  PROVE Runs(b)' /\ Reports(b)'
  <2>1. Runs(b)'
    BY DEF DInv, Runs, Session, At
  <2> QED
    BY <2>1, StillReports
<1>3. \A b \in Attempts : Session(b)' = Session(b)
  BY DEF Session
<1> QED
  BY <1>1, <1>2, <1>3, DiskRests DEF DInv

LEMMA SendDisk == ASSUME SInv, DInv, NEW a \in Attempts, Send(a)  PROVE DInv'
<1>1. /\ at[a].pc = "send" /\ contacted' = contacted \cup {a}
      /\ UNCHANGED <<podUp, sweeping, disk, armed, late>>
      /\ \/ podUp /\ remote' = [remote EXCEPT ![a] = Commands[at[a].next]]
            /\ at' = [at EXCEPT ![a].pc = "wait"]
         \/ UNCHANGED remote /\ at' = [at EXCEPT ![a].pc = "failing"]
  BY DEF Send, Goto, At, host
<1>2. /\ at \in [Attempts -> AttemptRecords]
      /\ \A b \in Attempts \ {a} : at'[b] = at[b]
      /\ at'[a].pc \in {"wait", "failing"} /\ at'[a].session = at[a].session
      /\ at'[a].next = at[a].next
  BY <1>1 DEF SInv, Typed, AttemptRecords
<1>3. /\ remote \in [Attempts -> Idle \cup ToSet(Commands) \cup InstallSteps]
      /\ remote[a] = "none" /\ a \notin sweeping /\ at[a].next \in 1..7
  BY <1>1 DEF DInv, DiskTyped, Runs, Reports, Later, At
<1>4. /\ \A b \in Attempts \ {a} : remote'[b] = remote[b]
      /\ remote'[a] = "none" \/ (podUp /\ remote'[a] = Commands[at[a].next])
      /\ at'[a].pc = "wait" => remote'[a] = Commands[at[a].next]
      /\ Commands[at[a].next] \in ToSet(Commands)
  BY <1>1, <1>2, <1>3, CommandNames DEF SInv, Typed, AttemptRecords
<1>5. DiskTyped'
  <2>1. remote' \in [Attempts -> Idle \cup ToSet(Commands) \cup InstallSteps]
    BY <1>1, <1>3, <1>4
  <2> QED
    BY <1>1, <2>1 DEF DInv, DiskTyped, disk
<1>6. ASSUME NEW b \in Attempts  PROVE Runs(b)' /\ Reports(b)'
  <2>1. CASE b # a
    <3>1. Runs(b)'
      BY <1>1, <1>2, <1>4, <2>1 DEF DInv, Runs, Session, At
    <3> QED
      BY <1>1, <1>2, <1>4, <2>1, <3>1, StillReports
  <2>2. CASE b = a
    <3>1. Runs(a)'
      BY <1>1, <1>2, <1>3, <1>4, <2>2 DEF DInv, Runs, Session, At, Idle, Later
    <3>2. Reports(a)'
      <4>1. at'[a].pc \notin Before
        BY <1>2 DEF Before
      <4>2. at'[a].next = 7 /\ at'[a].pc = "wait" => remote'[a] = "verify_installed"
        BY <1>2, <1>4, CommandNames
      <4> QED
        BY <1>2, <1>3, <4>1, <4>2 DEF Reports, At
    <3> QED
      BY <2>2, <3>1, <3>2
  <2> QED
    BY <2>1, <2>2
<1>7. \A b \in Attempts : remote'[b] \in InstallSteps =>
         remote'[b] = remote[b] /\ Session(b)' = Session(b)
  <2>1. remote'[a] \notin InstallSteps
    BY <1>3, <1>4, CommandNames DEF InstallSteps
  <2> QED
    BY <1>2, <1>4, <2>1 DEF Session
<1> QED
  BY <1>1, <1>5, <1>6, <1>7, DiskRests DEF DInv

LEMMA ReturnDisk == ASSUME SInv, DInv, NEW a \in Attempts, Return(a)  PROVE DInv'
<1>1. /\ at[a].pc = "wait" /\ remote[a] \in {"ok", "failed"} /\ remote' = [remote EXCEPT ![a] = "none"]
      /\ \/ remote[a] = "ok" /\ at' = [at EXCEPT ![a].pc = "check", ![a].next = @ + 1]
         \/ at' = [at EXCEPT ![a].pc = "failing"]
      /\ UNCHANGED <<podUp, sweeping, disk, armed, late, contacted>>
  BY DEF Return, At, host
<1>2. /\ at \in [Attempts -> AttemptRecords] /\ at[a].next \in 1..7
      /\ remote \in [Attempts -> Idle \cup ToSet(Commands) \cup InstallSteps] /\ a \notin sweeping
  BY <1>1 DEF SInv, Typed, DInv, DiskTyped, Reports, Runs, At
<1>3. /\ \A b \in Attempts \ {a} : at'[b] = at[b] /\ remote'[b] = remote[b]
      /\ remote'[a] = "none" /\ at'[a].session = at[a].session
      /\ \/ remote[a] = "ok" /\ at'[a].pc = "check" /\ at'[a].next = at[a].next + 1
         \/ at'[a].pc = "failing" /\ at'[a].next = at[a].next
  BY <1>1, <1>2 DEF AttemptRecords
<1>4. DiskTyped'
  <2>1. remote' \in [Attempts -> Idle \cup ToSet(Commands) \cup InstallSteps]
    BY <1>1, <1>2 DEF Idle
  <2> QED
    BY <1>1, <2>1 DEF DInv, DiskTyped, disk
<1>5. ASSUME NEW b \in Attempts  PROVE Runs(b)' /\ Reports(b)'
  <2>1. CASE b # a
    <3>1. Runs(b)'
      BY <1>1, <1>3, <2>1 DEF DInv, Runs, Session, At
    <3> QED
      BY <1>1, <1>3, <2>1, <3>1, StillReports
  <2>2. CASE b = a
    <3>1. Runs(a)'
      BY <1>1, <1>2, <1>3 DEF DInv, Runs, Session, At, Idle
    <3>2. at[a].next = 7 /\ remote[a] = "ok" => Installed(a)
      BY <1>1 DEF DInv, Reports, At
    <3>3. Installed(a) => Installed(a)'
      BY <1>1, <1>3 DEF Installed, Kept, Session, disk
    <3>4. Reports(a)'
      BY <1>2, <1>3, <3>2, <3>3 DEF Reports, At, Before
    <3> QED
      BY <2>2, <3>1, <3>4
  <2> QED
    BY <2>1, <2>2
<1>6. \A b \in Attempts : remote'[b] \in InstallSteps =>
         remote'[b] = remote[b] /\ Session(b)' = Session(b)
  BY <1>3 DEF Session, InstallSteps
<1> QED
  BY <1>1, <1>4, <1>5, <1>6, DiskRests DEF DInv

LEMMA EmergencyStopDisk == ASSUME SInv, DInv, NEW a \in Attempts, EmergencyStop(a)  PROVE DInv'
<1>1. /\ at[a].pc = "stopping" /\ UNCHANGED <<disk, armed, late, contacted>>
      /\ at \in [Attempts -> AttemptRecords]
  BY DEF EmergencyStop, At, SInv, Typed, host
<1>2. PICK pc \in {"sweep", "refused"} :
        /\ PodDown \/ UNCHANGED <<podUp, remote, sweeping>>
        /\ at'[a].pc = pc /\ at'[a].session = at[a].session /\ at'[a].next = at[a].next
        /\ \A b \in Attempts \ {a} : at'[b] = at[b]
  BY <1>1 DEF EmergencyStop, AttemptRecords
<1>3. /\ \A b \in Attempts \ {a} : at'[b] = at[b]
      /\ at'[a].pc = pc /\ at'[a].session = at[a].session /\ at'[a].next = at[a].next
      /\ at' \in [Attempts -> AttemptRecords]
  BY <1>2, EmergencyStopKeeps DEF SInv, Typed
<1>4. CASE UNCHANGED <<podUp, remote, sweeping>>
  BY <1>1, <1>3, <1>4, Proceeds DEF Later, Before
<1>5. CASE PodDown
  <2>1. DiskTyped'
    BY <1>1, <1>5, PodDownDisk DEF DInv, DiskTyped, disk
  <2>2. ASSUME NEW b \in Attempts  PROVE Runs(b)' /\ Reports(b)'
    <3>1. Runs(b)'
      BY <1>1, <1>3, <1>5, PodDownDisk DEF DInv, Runs, Session, At, Later
    <3>2. CASE b # a
      BY <1>1, <1>3, <1>5, <3>1, <3>2, PodDownDisk, StillReports
    <3>3. CASE b = a
      BY <1>3, <3>1, <3>3 DEF DInv, Reports, At, Before
    <3> QED
      BY <3>2, <3>3
  <2>3. \A b \in Attempts : remote'[b] \notin InstallSteps
    BY <1>5, PodDownDisk DEF Idle, InstallSteps
  <2> QED
    BY <1>1, <2>1, <2>2, <2>3, DiskRests DEF DInv
<1> QED
  BY <1>2, <1>4, <1>5

LEMMA SweepDisk == ASSUME SInv, DInv, NEW a \in Attempts, Sweep(a)  PROVE DInv'
<1>1. /\ at[a].pc = "sweep" /\ at' = [at EXCEPT ![a].pc = "failed", ![a].says = Report(a)]
      /\ sweeping' \subseteq sweeping \cup {a}
      /\ UNCHANGED <<podUp, remote, disk, armed, late, contacted>>
      /\ at \in [Attempts -> AttemptRecords]
  BY DEF Sweep, Goto, At, SInv, Typed, host
<1>2. /\ \A b \in Attempts \ {a} : at'[b] = at[b]
      /\ at'[a].pc = "failed" /\ at'[a].session = at[a].session /\ at'[a].next = at[a].next
  BY <1>1 DEF AttemptRecords
<1>3. DiskTyped'
  BY <1>1 DEF DInv, DiskTyped, disk
<1>4. ASSUME NEW b \in Attempts  PROVE Runs(b)' /\ Reports(b)'
  <2>1. Runs(b)'
    BY <1>1, <1>2 DEF DInv, Runs, Session, At, Later
  <2>2. CASE b # a
    BY <1>1, <1>2, <2>1, <2>2, StillReports
  <2>3. CASE b = a
    BY <1>2, <2>1, <2>3 DEF DInv, Reports, At, Before
  <2> QED
    BY <2>2, <2>3
<1>5. \A b \in Attempts : Session(b)' = Session(b)
  BY <1>2 DEF Session
<1> QED
  BY <1>1, <1>3, <1>4, <1>5, DiskRests DEF DInv

-----------------------------------------------------------------------------
(* What the Pod executes. *)

(* A step of the Pod for attempt a moves commands on, never starts one. *)
LEMMA PodRuns ==
  ASSUME DInv, NEW a \in Attempts, UNCHANGED Environment, sweeping' \subseteq sweeping,
         \A b \in Attempts \ {a} : remote'[b] = remote[b],
         remote'[a] # "none" => remote[a] # "none",
         remote'[a] \notin Idle => remote[a] \notin Idle
  PROVE  \A b \in Attempts : Runs(b)'
BY DEF DInv, Environment, host, local, Runs, Session, At

(* Attempts whose report may stand already are not at work on the Pod, so  *)
(* other attempts' steps may at most archive what they made.               *)
LEMMA PodReports ==
  ASSUME DInv, NEW a \in Attempts, UNCHANGED Environment, remote[a] # "none" \/ a \in sweeping,
         \A b \in Attempts \ {a} : /\ remote'[b] = remote[b]
                                   /\ at[b].pc \in {"check", "wait"} /\ Installed(b) => Installed(b)'
                                   /\ Kept(b) => Kept(b)',
         At(a, "wait") /\ at[a].next = 7 =>
           /\ remote'[a] \in {"verify_installed", "ok", "failed"}
           /\ remote'[a] = "ok" => Installed(a)'
  PROVE  \A b \in Attempts : Reports(b)'
<1>1. UNCHANGED <<at, armed>>
  BY DEF Environment, host, local
<1>2. ASSUME NEW b \in Attempts, b # a  PROVE Reports(b)'
  BY <1>1, <1>2 DEF DInv, Reports, At
<1>3. at[a].pc \notin {"check", "done"}
  BY DEF DInv, Runs, Later, At
<1>4. Reports(a)'
  BY <1>1, <1>3 DEF DInv, Reports, At
<1> QED
  BY <1>2, <1>4

(* Nothing moves but within a stage. *)
SamePlaces == \A t \in Trees : place'[t] = place[t] \/ {place[t], place'[t]} \subseteq Away

LEMMA PlaceNames == "destination" \notin Away /\ (\A a \in Attempts : a \notin Away /\ a # "destination")
BY SyncAssumption DEF Away

LEMMA StillInstalled ==
  ASSUME DInv, SamePlaces, UNCHANGED Environment, NEW b \in Trees, cond'[b] = cond[b]
  PROVE  /\ Kept(b) => Kept(b)'
         /\ b \in Attempts /\ Installed(b) => Installed(b)'
BY PlaceNames DEF SamePlaces, Kept, Installed, Environment, host, local, Session

LEMMA StillSwaps ==
  ASSUME DInv, SamePlaces, UNCHANGED Environment, archives \subseteq archives', NEW b \in Attempts,
         remote'[b] = remote[b], cond'[b] = cond[b] \/ cond'[b] \in {"absent", "eroded"}
  PROVE  Swaps(b)'
<1>1. UNCHANGED <<at, armed>> /\ b \in Trees
  BY DEF Environment, host, local, Trees
<1>2. InPlace' = InPlace
  BY PlaceNames DEF SamePlaces, InPlace
<1>3. HasArchived(b) => HasArchived(b)'
  BY PlaceNames DEF SamePlaces, HasArchived
<1>4. place[b] \in Away => place'[b] \in Away
  BY <1>1 DEF SamePlaces
<1>5. place[b] = "destination" => place'[b] = "destination"
  BY <1>1, PlaceNames DEF SamePlaces
<1> QED
  BY <1>1, <1>2, <1>3, <1>4, <1>5 DEF DInv, Swaps, Session

LEMMA StillRestorable ==
  ASSUME DInv, SamePlaces, archives \subseteq archives'  PROVE Restorable'
<1>1. InPlace' = InPlace
  BY PlaceNames DEF SamePlaces, InPlace
<1>2. \A b \in Attempts : HasArchived(b) => HasArchived(b)'
  BY PlaceNames DEF SamePlaces, HasArchived
<1>3. archives \subseteq Attempts /\ \A b \in Attempts : place[b] \in Away => place'[b] \in Away
  BY DEF DInv, DiskTyped, SamePlaces, Trees
<1> QED
  BY <1>1, <1>2, <1>3 DEF DInv, Restorable

(* Put together for a step of the Pod that moves no tree. *)
LEMMA PodMovesNothing ==
  ASSUME DInv, NEW a \in Attempts, UNCHANGED Environment, sweeping' \subseteq sweeping,
         remote[a] # "none" \/ a \in sweeping, DiskTyped', SamePlaces, archives \subseteq archives',
         \A b \in Trees \ {a} : place'[b] = place[b] /\ cond'[b] = cond[b],
         \A b \in Attempts \ {a} : remote'[b] = remote[b],
         remote'[a] # "none" => remote[a] # "none",
         remote'[a] \notin Idle => remote[a] \notin Idle,
         At(a, "wait") /\ at[a].next = 7 =>
           /\ remote'[a] \in {"verify_installed", "ok", "failed"}
           /\ remote'[a] = "ok" => Installed(a)',
         Shaped(a)', Swaps(a)'
  PROVE  DInv'
<1>1. Original \in Trees \ {a} /\ Attempts \subseteq Trees
  BY SyncAssumption DEF Trees
<1>2. \A b \in Attempts \ {a} : /\ Installed(b) => Installed(b)'
                                /\ Kept(b) => Kept(b)'
  BY <1>1, StillInstalled
<1>3. \A b \in Attempts : Runs(b)'
  BY PodRuns
<1>4. \A b \in Attempts : Reports(b)'
  BY <1>2, PodReports
<1>5. \A b \in Attempts \ {a} : Swaps(b)'
  BY <1>1, StillSwaps
<1>6. \A b \in Attempts \ {a} : Shaped(b)'
  BY <1>1 DEF DInv, Shaped
<1>7. Kept(Original)'
  BY <1>1, StillInstalled DEF DInv
<1> QED
  BY <1>3, <1>4, <1>5, <1>6, <1>7, StillRestorable DEF DInv

LEMMA BuildStageDisk == ASSUME SInv, DInv, NEW a \in Attempts, BuildStage(a)  PROVE DInv'
<1>1. PICK f \in Forms :
        /\ remote[a] = f[1]
        /\ \/ /\ cond[a] = f[2] /\ cond' = [cond EXCEPT ![a] = f[3]]
              /\ place' = [place EXCEPT ![a] = "stage"] /\ remote' = [remote EXCEPT ![a] = "ok"]
           \/ remote' = [remote EXCEPT ![a] = "failed"] /\ UNCHANGED <<cond, place>>
        /\ UNCHANGED <<Environment, sweeping, archives>>
  BY DEF BuildStage, Result
<1>2. /\ f[1] \in {"clone", "checkout", "prepare", "rsync"} /\ f[2] \in {"absent", "cloned", "source"}
      /\ f[3] \in {"cloned", "source", "whole"}
  BY DEF Forms
<1>3. DiskTyped /\ a \in Trees
  BY DEF DInv, Trees
<1>4. ~(At(a, "wait") /\ at[a].next = 7)
  BY <1>1, <1>2 DEF DInv, Reports
<1>5. /\ remote'[a] \in {"ok", "failed"} /\ \A b \in Attempts \ {a} : remote'[b] = remote[b]
      /\ remote' \in [Attempts -> Idle \cup ToSet(Commands) \cup InstallSteps]
  BY <1>1, <1>3 DEF DiskTyped, Idle
<1>6. CASE UNCHANGED <<cond, place>>
  <2>1. DiskTyped' /\ SamePlaces /\ Shaped(a)'
    BY <1>1, <1>3, <1>5, <1>6 DEF DInv, DiskTyped, SamePlaces, Shaped
  <2>2. Swaps(a)'
    BY <1>5 DEF Swaps, InstallSteps
  <2> QED
    BY <1>1, <1>2, <1>3, <1>4, <1>5, <1>6, <2>1, <2>2, PodMovesNothing DEF Idle
<1>7. CASE /\ cond[a] = f[2] /\ cond' = [cond EXCEPT ![a] = f[3]]
           /\ place' = [place EXCEPT ![a] = "stage"]
  <2>1. place[a] \in Away
    BY <1>2, <1>7 DEF DInv, Shaped, Away
  <2>2. /\ place'[a] = "stage" /\ cond'[a] = f[3]
        /\ \A b \in Trees \ {a} : place'[b] = place[b] /\ cond'[b] = cond[b]
    BY <1>3, <1>7 DEF DiskTyped
  <2>3. DiskTyped'
    BY <1>1, <1>2, <1>3, <1>5, <1>7 DEF DiskTyped, Away
  <2>4. SamePlaces /\ Shaped(a)'
    BY <1>2, <2>1, <2>2 DEF SamePlaces, Shaped, Away
  <2>5. Swaps(a)'
    BY <1>5 DEF Swaps, InstallSteps
  <2> QED
    BY <1>1, <1>2, <1>3, <1>4, <1>5, <2>2, <2>3, <2>4, <2>5, PodMovesNothing DEF Idle
<1> QED
  BY <1>1, <1>6, <1>7

(* Steps that only look at the workspace, or open an archive. *)
LEMMA LooksDisk ==
  ASSUME SInv, DInv, NEW a \in Attempts,
         VerifyTree(a) \/ CommandFails(a) \/ InstallBegin(a) \/ VerifyPromoted(a)
  PROVE  DInv'
<1>1. PICK r \in Idle \cup InstallSteps : remote' = [remote EXCEPT ![a] = r]
  BY DEF VerifyTree, CommandFails, InstallBegin, VerifyPromoted, Result, Idle, InstallSteps
<1>2. /\ UNCHANGED <<Environment, sweeping, cond, place>> /\ archives' \in {archives, archives \cup {a}}
      /\ remote[a] \notin Idle
  BY CommandNames DEF VerifyTree, CommandFails, InstallBegin, VerifyPromoted, disk, Idle
<1>3. /\ remote'[a] = r /\ \A b \in Attempts \ {a} : remote'[b] = remote[b]
      /\ remote' \in [Attempts -> Idle \cup ToSet(Commands) \cup InstallSteps]
  BY <1>1 DEF DInv, DiskTyped
<1>4. DiskTyped' /\ SamePlaces /\ Shaped(a)' /\ archives \subseteq archives'
  BY <1>2, <1>3 DEF DInv, DiskTyped, SamePlaces, Shaped
<1>5. UNCHANGED <<at, armed>>
  BY <1>2 DEF Environment, host, local
<1>6. At(a, "wait") /\ at[a].next = 7 => /\ r \in {"ok", "failed"}
                                         /\ r = "ok" => Installed(a)'
  <2>1. SUFFICES ASSUME At(a, "wait"), at[a].next = 7
                 PROVE  r \in {"ok", "failed"} /\ (r = "ok" => Installed(a)')
    OBVIOUS
  <2>2. remote[a] = "verify_installed"
    BY <1>2, <2>1 DEF DInv, Reports, Idle
  <2>3. CASE VerifyTree(a)
    <3>1. r = IF Verified(a, "destination") THEN "ok" ELSE "failed"
      BY <1>3, <2>2, <2>3 DEF VerifyTree, Result, DInv, DiskTyped
    <3> QED
      BY <1>2, <1>5, <3>1 DEF Verified, Installed, Kept
  <2>4. CASE CommandFails(a)
    BY <1>3, <2>4 DEF CommandFails, Result, DInv, DiskTyped
  <2> QED
    BY <2>2, <2>3, <2>4 DEF InstallBegin, VerifyPromoted
<1>7. Swaps(a)'
  <2>1. CASE VerifyTree(a) \/ CommandFails(a)
    <3>1. remote'[a] \in {"ok", "failed"}
      BY <2>1 DEF VerifyTree, CommandFails, Result, DInv, DiskTyped
    <3> QED
      BY <3>1 DEF Swaps, InstallSteps
  <2>2. CASE InstallBegin(a)
    <3>1. CASE r = "failed"
      BY <1>3, <3>1 DEF Swaps, InstallSteps
    <3>2. CASE r # "failed"
      <4>1. /\ InPlace # {} /\ Verified(a, "stage") /\ archives' = archives \cup {a}
            /\ r = "archiving"
        BY <1>3, <2>2, <3>2 DEF InstallBegin, Result, DInv, DiskTyped
      <4>2. Session(a) = armed
        BY <1>2, <4>1 DEF DInv, Runs, Verified, SInv, Sound, Accounts, Idle
      <4>3. InPlace' = InPlace /\ Session(a)' = Session(a)
        BY <1>2, <1>5 DEF InPlace, Session
      <4> QED
        BY <1>2, <1>3, <1>5, <4>1, <4>2, <4>3 DEF Swaps, Verified, Away
    <3> QED
      BY <3>1, <3>2
  <2>3. CASE VerifyPromoted(a)
    <3>1. remote[a] = "promoted" /\ remote'[a] \in {"ok", "unpromoting"}
      BY <2>3 DEF VerifyPromoted, Result, DInv, DiskTyped
    <3>2. HasArchived(a)' = HasArchived(a) /\ Session(a)' = Session(a)
      BY <1>2, <1>5 DEF HasArchived, Session
    <3> QED
      BY <1>2, <1>4, <1>5, <3>1, <3>2 DEF DInv, Swaps, InstallSteps
  <2> QED
    BY <2>1, <2>2, <2>3
<1>8. remote[a] # "none" /\ \A b \in Trees \ {a} : place'[b] = place[b] /\ cond'[b] = cond[b]
  BY <1>2 DEF Idle
<1> QED
  BY <1>2, <1>3, <1>4, <1>6, <1>7, <1>8, PodMovesNothing

LEMMA ErodeDisk == ASSUME SInv, DInv, NEW a \in Attempts, Erode(a) \/ EndSweep(a)  PROVE DInv'
<1>1. /\ a \in sweeping /\ sweeping' \subseteq sweeping /\ UNCHANGED <<Environment, remote, archives>>
      /\ \/ /\ place[a] = "stage" /\ cond' = [cond EXCEPT ![a] = "absent"]
            /\ place' = [place EXCEPT ![a] = "nowhere"]
         \/ UNCHANGED <<cond, place>>
         \/ cond' = [cond EXCEPT ![a] = "eroded"] /\ UNCHANGED place
  BY DEF Erode, EndSweep
<1>2. DiskTyped /\ a \in Trees
  BY DEF DInv, Trees
<1>3. /\ \A b \in Trees \ {a} : place'[b] = place[b] /\ cond'[b] = cond[b]
      /\ cond'[a] = cond[a] \/ cond'[a] \in {"absent", "eroded"}
      /\ cond'[a] = "absent" => place'[a] = "nowhere" \/ (cond'[a] = cond[a] /\ place'[a] = place[a])
      /\ cond'[a] \in {"cloned", "source"} => cond'[a] = cond[a] /\ place'[a] = place[a]
      /\ place'[a] = place[a] \/ {place[a], place'[a]} \subseteq Away
  BY <1>1, <1>2 DEF DiskTyped, Away
<1>4. DiskTyped'
  BY <1>1, <1>2 DEF DiskTyped, Away
<1>5. SamePlaces
  BY <1>3 DEF SamePlaces
<1>6. Shaped(a)'
  BY <1>3 DEF DInv, Shaped
<1>7. Swaps(a)'
  BY <1>1, <1>3, <1>5, StillSwaps
<1>8. ~At(a, "wait")
  BY <1>1 DEF DInv, Runs, At
<1> QED
  BY <1>1, <1>3, <1>4, <1>5, <1>6, <1>7, <1>8, PodMovesNothing

(* Put together for a step of the running install that moves trees. *)
LEMMA PodMoves ==
  ASSUME SInv, DInv, NEW a \in Attempts, remote[a] \in InstallSteps,
         UNCHANGED <<Environment, sweeping, cond, archives>>, DiskTyped',
         remote'[a] \in InstallSteps \cup {"failed"},
         \A b \in Attempts \ {a} : remote'[b] = remote[b],
         \A t \in Trees \ {a} : \/ place'[t] = place[t]
                                \/ place[t] = "destination" /\ place'[t] = a
                                \/ place[t] \in Attempts /\ place'[t] = "destination",
         Shaped(a)', Swaps(a)', Restorable'
  PROVE  DInv'
<1>1. UNCHANGED <<at, armed, claims, contacted>> /\ Original \in Trees \ {a} /\ Attempts \subseteq Trees
  BY SyncAssumption DEF Environment, host, local, Trees
<1>2. a \in contacted /\ Session(a) = armed /\ at[a].pc \in Later
  BY DEF DInv, Runs, Swaps, InstallSteps
<1>3. claims[armed] = a
  BY <1>2 DEF SInv, Sound, Owns
<1>4. \A t \in Trees \ {a} : Kept(t) => Kept(t)'
  BY DEF Kept
<1>5. ASSUME NEW b \in Attempts \ {a}, at[b].pc \in {"check", "wait"}, Installed(b)
      PROVE  Installed(b)'
  <2>1. Session(b) # armed
    BY <1>3, <1>5 DEF SInv, Sound, Owns
  <2> QED
    BY <1>1, <1>4, <1>5, <2>1 DEF Installed, Session
<1>6. \A b \in Attempts : Runs(b)'
  <2>1. remote[a] # "none" /\ remote[a] \notin Idle
    BY DEF InstallSteps, Idle
  <2> QED
    BY <2>1, PodRuns
<1>7. \A b \in Attempts : Reports(b)'
  <2>1. remote[a] # "none" /\ ~(At(a, "wait") /\ at[a].next = 7)
    BY DEF InstallSteps, DInv, Reports
  <2> QED
    BY <1>1, <1>4, <1>5, <2>1, PodReports
<1>8. ASSUME NEW b \in Attempts \ {a}  PROVE Swaps(b)' /\ Shaped(b)'
  <2>1. remote[b] \notin InstallSteps
    BY OneInstaller DEF DInv, Runs, Swaps, InstallSteps
  <2>2. Shaped(b)'
    BY <1>1, PlaceNames DEF DInv, Shaped, Away
  <2> QED
    BY <2>1, <2>2 DEF Swaps
<1> QED
  BY <1>1, <1>4, <1>6, <1>7, <1>8 DEF DInv

LEMMA MovesDisk ==
  ASSUME SInv, DInv, NEW a \in Attempts, ArchiveOld(a) \/ Promote(a) \/ Unpromote(a) \/ Restore(a)
  PROVE  DInv'
<1>1. /\ remote[a] \in InstallSteps /\ UNCHANGED <<Environment, sweeping, cond, archives>>
      /\ DiskTyped /\ a \in Trees /\ Attempts \subseteq Trees
  BY DEF ArchiveOld, Promote, Unpromote, Restore, InstallSteps, DInv, Trees
<1>2. UNCHANGED <<at, armed>> /\ Session(a)' = Session(a)
  BY <1>1 DEF Environment, host, local, Session
<1>3. /\ Session(a) = armed /\ a \in archives /\ cond[a] \in {"absent", "whole", "eroded"}
      /\ remote[a] = "archiving" => InPlace # {} /\ place[a] \in Away
      /\ remote[a] \in {"moved", "restoring"} => place[a] \in Away /\ HasArchived(a)
      /\ remote[a] \in {"promoted", "unpromoting"} => place[a] = "destination" /\ HasArchived(a)
      /\ cond[a] = "absent" => place[a] = "nowhere"
  BY <1>1 DEF DInv, Swaps, Shaped
<1>4. PICK r \in InstallSteps \cup {"failed"} : remote' = [remote EXCEPT ![a] = r]
  BY DEF ArchiveOld, Promote, Unpromote, Restore, Result, InstallSteps
<1>5. /\ remote'[a] = r /\ \A b \in Attempts \ {a} : remote'[b] = remote[b]
      /\ remote' \in [Attempts -> Idle \cup ToSet(Commands) \cup InstallSteps]
  BY <1>1, <1>4 DEF DiskTyped, Idle
<1>6. CASE ArchiveOld(a)
  <2>1. /\ remote[a] = "archiving" /\ r = "moved"
        /\ place' = [t \in Trees |-> IF t \in InPlace THEN a ELSE place[t]]
    BY <1>1, <1>5, <1>6 DEF ArchiveOld, Result, DiskTyped
  <2>2. DiskTyped'
    BY <1>1, <1>5, <2>1 DEF DiskTyped
  <2>3. place'[a] = place[a]
    BY <1>1, <1>3, <2>1, PlaceNames DEF InPlace
  <2>4. PICK t \in Trees : t \in InPlace /\ place'[t] = a
    BY <1>3, <2>1 DEF InPlace
  <2>5. HasArchived(a)'
    BY <2>4 DEF HasArchived
  <2>6. Shaped(a)' /\ Swaps(a)' /\ Restorable'
    BY <1>1, <1>2, <1>3, <1>5, <2>1, <2>3, <2>5 DEF Shaped, Swaps, Restorable
  <2> QED
    BY <1>1, <1>5, <2>1, <2>2, <2>6, PodMoves DEF InPlace
<1>7. CASE Promote(a)
  <2>1. remote[a] = "moved" /\ HasArchived(a) /\ place[a] \in Away
    BY <1>3, <1>7 DEF Promote
  <2>2. CASE place[a] = "stage"
    <3>1. r = "promoted" /\ place' = [place EXCEPT ![a] = "destination"]
      BY <1>1, <1>5, <1>7, <2>2 DEF Promote, Result, DiskTyped
    <3>2. /\ DiskTyped' /\ place'[a] = "destination"
          /\ \A t \in Trees \ {a} : place'[t] = place[t]
      BY <1>1, <1>5, <3>1 DEF DiskTyped
    <3>3. HasArchived(a)'
      BY <2>1, <3>2, PlaceNames DEF HasArchived, Away
    <3>4. Shaped(a)' /\ Swaps(a)'
      BY <1>1, <1>2, <1>3, <1>5, <2>2, <3>1, <3>2, <3>3 DEF DInv, Shaped, Swaps
    <3>5. Restorable'
      BY <1>1, <3>2 DEF Restorable, InPlace
    <3> QED
      BY <1>1, <1>5, <3>2, <3>4, <3>5, PodMoves
  <2>3. CASE place[a] # "stage"
    <3>1. r = "restoring" /\ UNCHANGED place
      BY <1>1, <1>5, <1>7, <2>3 DEF Promote, Result, DiskTyped
    <3>2. DiskTyped' /\ Shaped(a)' /\ Restorable' /\ HasArchived(a)'
      BY <1>1, <1>5, <2>1, <3>1 DEF DInv, DiskTyped, Shaped, Restorable, InPlace, HasArchived
    <3>3. Swaps(a)'
      BY <1>1, <1>2, <1>3, <1>5, <2>1, <3>1, <3>2 DEF Swaps
    <3> QED
      BY <1>1, <1>5, <3>1, <3>2, <3>3, PodMoves
  <2> QED
    BY <2>2, <2>3
<1>8. CASE Unpromote(a)
  <2>1. /\ remote[a] = "unpromoting" /\ r = "restoring" /\ place' = [place EXCEPT ![a] = "stage"]
        /\ place[a] = "destination" /\ HasArchived(a)
    BY <1>1, <1>3, <1>5, <1>8 DEF Unpromote, Result, DiskTyped
  <2>2. /\ DiskTyped' /\ place'[a] = "stage"
        /\ \A t \in Trees \ {a} : place'[t] = place[t]
    BY <1>1, <1>5, <2>1 DEF DiskTyped, Away
  <2>3. HasArchived(a)'
    BY <2>1, <2>2, PlaceNames DEF HasArchived
  <2>4. Shaped(a)' /\ Swaps(a)' /\ Restorable'
    BY <1>1, <1>2, <1>3, <1>5, <2>1, <2>2, <2>3 DEF Shaped, Swaps, Restorable, Away
  <2> QED
    BY <1>1, <1>5, <2>2, <2>4, PodMoves
<1>9. CASE Restore(a)
  <2>1. /\ remote[a] = "restoring" /\ r = "failed"
        /\ place' = [t \in Trees |-> IF place[t] = a THEN "destination" ELSE place[t]]
        /\ place[a] \in Away /\ HasArchived(a)
    BY <1>1, <1>3, <1>5, <1>9 DEF Restore, Result, DiskTyped
  <2>2. DiskTyped'
    BY <1>1, <1>5, <2>1 DEF DiskTyped
  <2>3. PICK t \in Trees : place[t] = a /\ place'[t] = "destination"
    BY <2>1 DEF HasArchived
  <2>4. Restorable'
    BY <2>3 DEF Restorable, InPlace
  <2>5. place'[a] = place[a]
    BY <1>1, <2>1, PlaceNames
  <2>6. Shaped(a)' /\ Swaps(a)'
    BY <1>1, <1>3, <1>5, <2>1, <2>5 DEF DInv, Shaped, Swaps, InstallSteps
  <2> QED
    BY <1>1, <1>5, <2>1, <2>2, <2>4, <2>6, PodMoves
<1> QED
  BY <1>6, <1>7, <1>8, <1>9

(* The inductive invariant of the workspace: one install at a time, of the *)
(* armed session, and at each of its steps a checkout is in place or one   *)
(* can be put back; what was reported installed is not swept.              *)
THEOREM WorkspaceInvariance == Spec => [](SInv /\ DInv)
<1>1. ASSUME SInv, DInv, [Next]_vars  PROVE DInv'
  <2>1. CASE \E s \in Sessions : Arm(s)
    BY <1>1, <2>1, ArmDisk
  <2>2. CASE WatcherStops
    BY <1>1, <2>2, WatcherStopsKeeps
  <2>3. CASE WatcherDies \/ UNCHANGED vars
    BY <1>1, <2>3, PlansAge DEF WatcherDies, vars, host, local, pod
  <2>4. ASSUME NEW a \in Attempts, Expire(a)  PROVE DInv'
    BY <1>1, <2>4, PlansAge DEF Expire, host, local, pod
  <2>5. ASSUME NEW a \in Attempts, Start(a) \/ AttemptStep(a) \/ Kill(a)  PROVE DInv'
    BY <1>1, <2>5, StartDisk, ProceedsSteps, SendDisk, ReturnDisk, RequestStopDisk, EmergencyStopDisk, SweepDisk
       DEF AttemptStep
  <2>6. ASSUME NEW a \in Attempts, RemoteStep(a)  PROVE DInv'
    BY <1>1, <2>6, BuildStageDisk, LooksDisk, MovesDisk, ErodeDisk DEF RemoteStep
  <2> QED
    BY <1>1, <2>1, <2>2, <2>3, <2>4, <2>5, <2>6 DEF Next
<1> QED
  BY <1>1, DiskInit, SyncInvariance, PTL DEF Spec

(* The checkout found at first and each one reported installed stay whole, *)
(* in place or archived, through later installs, rollbacks, clean-ups and  *)
(* a Pod that stops at any moment (the install script of                   *)
(* runpod_sync_transfer.py and its rollback).                              *)
THEOREM InstalledKeptSafe == Spec => []InstalledKept
<1>1. ASSUME DInv  PROVE InstalledKept
  <2>1. \A t \in {Original} \cup { a \in Attempts : At(a, "done") } : Kept(t)
    BY <1>1 DEF DInv, Reports
  <2>2. InPlace = {} => \E a \in archives : /\ place[a] \in {"stage", "nowhere"}
                                            /\ \E t \in Trees : place[t] = a
    BY <1>1 DEF DInv, Restorable, HasArchived, Away
  <2> QED
    BY <2>1, <2>2 DEF InstalledKept, Kept
<1> QED
  BY <1>1, WorkspaceInvariance, PTL

(* Only the last look at the guard ends a transfer as done. *)
LEMMA DoneByCheck ==
  ASSUME Typed, [Next]_vars, NEW a \in Attempts, ~At(a, "done"), at'[a].pc = "done"
  PROVE  Check(a)
<1>1. at \in [Attempts -> AttemptRecords] /\ at' # at
  BY DEF Typed, At
<1>2. PICK b \in Attempts : Start(b) \/ AttemptStep(b) \/ Kill(b)
  <2>1. ASSUME UNCHANGED Environment  PROVE FALSE
    BY <1>1, <2>1 DEF Environment, local
  <2>2. ASSUME NEW b \in Attempts, RemoteStep(b)  PROVE FALSE
    BY <2>1, <2>2 DEF RemoteStep, BuildStage, VerifyTree, CommandFails, InstallBegin, ArchiveOld, Promote,
       VerifyPromoted, Unpromote, Restore, Erode, EndSweep
  <2> QED
    BY <1>1, <2>2 DEF Next, Arm, WatcherStops, WatcherDies, Expire, vars, local
<1>3. CASE Check(b)
  BY <1>1, <1>3 DEF Check, Goto, At
<1>4. CASE ~Check(b)
  <2>1. /\ \A c \in Attempts \ {b} : at'[c] = at[c]
        /\ at'[b].pc # "done"
    <3>1. CASE Start(b) \/ Kill(b) \/ Send(b) \/ Timeout(b) \/ Sweep(b) \/ CheckClaim(b)
      BY <1>1, <3>1 DEF Start, Kill, Send, Timeout, Sweep, CheckClaim, Goto, AttemptRecords
    <3>2. CASE MakeBundle(b) \/ FillBundle(b) \/ Clear(b) \/ Claim(b)
      BY <1>1, <3>2 DEF MakeBundle, FillBundle, Clear, Claim, Goto, AttemptRecords
    <3>3. CASE Return(b)
      BY <1>1, <3>3 DEF Return, AttemptRecords
    <3>4. CASE RequestStop(b) \/ EmergencyStop(b)
      BY <1>1, <3>4 DEF RequestStop, EmergencyStop, AttemptRecords
    <3> QED
      BY <1>2, <1>4, <3>1, <3>2, <3>3, <3>4 DEF AttemptStep
  <2> QED
    BY <2>1 DEF At
<1> QED
  BY <1>2, <1>3, <1>4

(* A transfer reports success only for a session still re-armed, watched   *)
(* and without stop request, with its checkout verified in place           *)
(* (transfer_runpod_sync_bundle, the last look at the guard).              *)
THEOREM SuccessIsInstalledSafe == Spec => SuccessIsInstalled
<1>1. ASSUME SInv, DInv, [Next]_vars,
             NEW a \in Attempts, ~At(a, "done"), at'[a].pc = "done"
      PROVE  armed = Session(a) /\ WatcherVouches(armed) /\ Verified(a, "destination")
  <2>1. Check(a)
    BY <1>1, DoneByCheck DEF SInv
  <2>2. at[a].next \in Nat /\ at \in [Attempts -> AttemptRecords]
    BY <1>1 DEF SInv, Typed, AttemptRecords
  <2>3. At(a, "check") /\ Guard(a) /\ at[a].next > 7
    BY <1>1, <2>1, <2>2, CommandNames DEF Check, Goto, At
  <2>4. Installed(a)
    BY <1>1, <2>3 DEF DInv, Reports
  <2> QED
    BY <2>3, <2>4 DEF Guard, Installed, Kept, Verified
<1>2. SInv /\ DInv /\ [Next]_vars =>
        [\A a \in Attempts : ~At(a, "done") /\ at'[a].pc = "done" =>
            /\ armed = Session(a) /\ WatcherVouches(armed)
            /\ Verified(a, "destination")]_vars
  BY <1>1
<1> QED
  BY <1>2, WorkspaceInvariance, PTL DEF Spec, SuccessIsInstalled
=============================================================================
