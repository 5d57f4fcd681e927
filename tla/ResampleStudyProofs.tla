------------------------- MODULE ResampleStudyProofs -------------------------
(***************************************************************************)
(* For any numbers of anchors, samples, commands and backends:             *)
(*                                                                         *)
(* 1. Generation.  Rows of a stage are committed in frozen order, by the   *)
(*    one command whose model is loaded, which compared every row it found *)
(*    with its own backend; so a stage has one backend, and a command that *)
(*    comes late finds nothing left to write.                              *)
(* 2. A generation that loads never changes again, whatever its commands   *)
(*    still do: what adjudication plans, pays for and judges stays so.     *)
(* 3. Adjudication, one command at a time, killed and repeated anywhere:   *)
(*    the plan lists every request of the generation, a row is what the    *)
(*    stored answers say and is never judged twice, and each frozen file   *)
(*    is a function of those before it.                                    *)
(***************************************************************************)
EXTENDS ResampleStudy, FiniteSetTheorems, TLAPS

StageNames == {"initial", "stage_two"}
Fields == {"pc", "todo", "host", "done", "batch"}
StoreFields == {"records", "merged", "manifest"}

GTyped ==
  /\ DOMAIN gen = Generators
  /\ \A g \in Generators : DOMAIN gen[g] = Fields /\ gen[g].todo \subseteq StageNames
  /\ DOMAIN stores = StageNames /\ registrations \in BOOLEAN
  /\ \A s \in StageNames : DOMAIN stores[s] = StoreFields

(* Rows are committed in frozen order. *)
Committed(s) == DOMAIN stores[s].records
Prefixes == \A s \in StageNames : \E k \in 0..StageSize : Committed(s) = First(s)..(First(s) + k - 1)

(* A stage that is closed, file by file; files that exist are those. *)
MergedAs(store, order) == Whole(store, order) /\ store.merged = RowsOf(store, order)
ClosedAs(store, order) == MergedAs(store, order) /\ store.manifest = ManifestOf(store, order)
FilesAs(store, order) ==
  /\ store.merged # Nothing => MergedAs(store, order)
  /\ Final(store) => ClosedAs(store, order)
Shut(s) == ClosedAs(stores[s], Order(s))

Loaded == {"register", "resume", "generate", "commit", "merge", "close"}
(* What a command that holds the model knows of the stage it works on. *)
Owns(g) ==
  LET s == Current(g)
      batch == gen[g].batch
  IN /\ gen[g].pc \in Loaded => gpu = g
     /\ gen[g].pc \in Loaded \ {"register"} => registrations
     /\ gen[g].pc \in {"generate", "commit", "merge", "close"} =>
          \A u \in Committed(s) : stores[s].records[u].host = gen[g].host
     /\ gen[g].pc \in {"generate", "commit"} => gen[g].done = Committed(s)
     /\ At(g, "commit") =>
          /\ DOMAIN batch # {} /\ DOMAIN batch \subseteq UnitsOf(s) \ Committed(s)
          /\ \A u \in DOMAIN batch, v \in UnitsOf(s) : v <= u => v \in DOMAIN batch \cup Committed(s)
     /\ At(g, "close") => MergedAs(stores[s], Order(s))
(* What is no longer to do is closed. *)
Finished(g) ==
  /\ ~At(g, "idle") => \A s \in StageNames \ gen[g].todo : Shut(s)
  /\ gen[g].pc \in {"combine", "manifest"} => gen[g].todo = {}
  /\ At(g, "manifest") => combined = AllRows

StageFiles ==
  /\ \A s \in StageNames : FilesAs(stores[s], Order(s))
  /\ (\E s \in StageNames : Committed(s) # {}) => registrations
  /\ combined # Nothing => Shut("initial") /\ Shut("stage_two") /\ combined = AllRows
  /\ genManifest # Nothing =>
       Shut("initial") /\ Shut("stage_two") /\ combined = AllRows /\ genManifest = GenManifest

GInv ==
  /\ GTyped /\ Prefixes /\ OneBackendPerStage /\ StageFiles
  /\ \A g \in Generators : Owns(g) /\ Finished(g)

-----------------------------------------------------------------------------
(* Arithmetic of the frozen order.                                         *)

LEMMA Sizes == StageSize \in Nat \ {0}
<1>1. 2 * PerStage \in Nat \ {0}
  BY ResampleAssumption
<1>2. ASSUME NEW a \in Nat \ {0}, NEW b \in Nat \ {0} PROVE a * b \in Nat \ {0}
  OBVIOUS
<1>3. QED BY <1>1, <1>2, ResampleAssumption DEF StageSize

(* Each stage is one run of the order. *)
LEMMA StageRuns ==
  /\ UnitsOf("initial") = 0..(StageSize - 1)
  /\ UnitsOf("stage_two") = StageSize..(2 * StageSize - 1)
<1>1. ASSUME NEW n \in Nat \ {0}, NEW u \in 0..(2 * n - 1)
      PROVE  u \div n = IF u < n THEN 0 ELSE 1
  OBVIOUS
<1>2. ASSUME NEW u \in Units
      PROVE  Stage(u) = IF u < StageSize THEN "initial" ELSE "stage_two"
  <2>1. u \div StageSize = IF u < StageSize THEN 0 ELSE 1
    BY <1>1, Sizes DEF Units
  <2>2. Stages[1] = "initial" /\ Stages[2] = "stage_two"
    BY DEF Stages
  <2>3. CASE u < StageSize
    BY <2>1, <2>2, <2>3 DEF Stage
  <2>4. CASE ~(u < StageSize)
    BY <2>1, <2>2, <2>4 DEF Stage
  <2>5. QED BY <2>3, <2>4
<1>3. Units = 0..(2 * StageSize - 1)
  BY DEF Units
<1>4. QED BY <1>2, <1>3, Sizes DEF UnitsOf

LEMMA StageOrder ==
  ASSUME NEW s \in StageNames
  PROVE  /\ First(s) \in Nat /\ UnitsOf(s) = First(s)..(First(s) + StageSize - 1)
         /\ First(s) \in UnitsOf(s)
         /\ { Order(s)[i] : i \in DOMAIN Order(s) } = UnitsOf(s)
<1>1. First(s) \in Nat /\ UnitsOf(s) = First(s)..(First(s) + StageSize - 1)
  BY StageRuns, Sizes DEF First, StageNames
<1>2. DOMAIN Order(s) = 1..StageSize /\ \A i \in 1..StageSize : Order(s)[i] = First(s) + i - 1
  BY DEF Order
<1>3. ASSUME NEW u \in UnitsOf(s) PROVE u - First(s) + 1 \in 1..StageSize /\ Order(s)[u - First(s) + 1] = u
  BY <1>1, <1>2, Sizes
<1>4. ASSUME NEW i \in 1..StageSize PROVE Order(s)[i] \in UnitsOf(s)
  BY <1>1, <1>2, Sizes
<1>5. { Order(s)[i] : i \in DOMAIN Order(s) } = UnitsOf(s)
  BY <1>2, <1>3, <1>4
<1>6. QED BY <1>1, <1>5, Sizes

(* The first microbatch that is missing has no hole before it. *)
LEMMA EarlierBatch ==
  ASSUME NEW s \in StageNames, NEW u \in UnitsOf(s), NEW v \in UnitsOf(s), v <= u
  PROVE  Batch(v) <= Batch(u) /\ Batch(u) \in Nat /\ Batch(v) \in Nat
<1>1. ASSUME NEW a \in Nat, NEW b \in Nat, a <= b
      PROVE  a \div Microbatch <= b \div Microbatch /\ a \div Microbatch \in Nat /\ b \div Microbatch \in Nat
  BY <1>1, ResampleAssumption
<1>2. Stage(u) = s /\ Stage(v) = s
  BY DEF UnitsOf
<1>3. u - First(s) \in Nat /\ v - First(s) \in Nat /\ v - First(s) <= u - First(s)
  <2>1. First(s) \in Nat /\ UnitsOf(s) = First(s)..(First(s) + StageSize - 1)
    BY StageOrder
  <2>2. QED BY <2>1, Sizes
<1>4. QED BY <1>1, <1>2, <1>3 DEF Batch

-----------------------------------------------------------------------------
(* Generation: steps that write no file.                                   *)

LEMMA InitGInv == GenerationInit => GInv
<1> SUFFICES ASSUME GenerationInit PROVE GInv
  OBVIOUS
<1>1. /\ DOMAIN gen = Generators /\ DOMAIN stores = StageNames
      /\ \A g \in Generators : gen[g] = Idle
      /\ \A s \in StageNames : stores[s] = EmptyStore
      /\ registrations = FALSE /\ combined = Nothing /\ genManifest = Nothing
  BY DEF GenerationInit, StageNames
<1>2. /\ DOMAIN Idle = Fields /\ Idle.pc = "idle" /\ Idle.todo = {}
      /\ DOMAIN EmptyStore = StoreFields /\ DOMAIN EmptyStore.records = {}
      /\ EmptyStore.merged = Nothing /\ EmptyStore.manifest = Nothing
  BY DEF Idle, EmptyStore, Fields, StoreFields
<1>3. GTyped /\ OneBackendPerStage
  BY <1>1, <1>2 DEF GTyped, OneBackendPerStage
<1>7. Prefixes
  <2>1. ASSUME NEW s \in StageNames PROVE 0 \in 0..StageSize /\ First(s)..(First(s) + 0 - 1) = {}
    BY StageOrder, Sizes
  <2>2. \A s \in StageNames : Committed(s) = {}
    BY <1>1, <1>2 DEF Committed
  <2>3. QED BY <2>1, <2>2 DEF Prefixes
<1>4. StageFiles
  BY <1>1, <1>2 DEF StageFiles, FilesAs, Final, Committed
<1>5. ASSUME NEW g \in Generators PROVE Owns(g) /\ Finished(g)
  BY <1>1, <1>2 DEF Owns, Finished, At, Loaded
<1>6. QED BY <1>3, <1>4, <1>5, <1>7 DEF GInv

(* A command that does not act, while no file is written. *)
LEMMA GBystander ==
  ASSUME NEW h \in Generators, Owns(h), Finished(h), gen'[h] = gen[h],
         stores' = stores, combined' = combined, registrations => registrations',
         gpu = h => gpu' = h
  PROVE  Owns(h)' /\ Finished(h)'
<1>1. Current(h)' = Current(h)
  BY DEF Current
<1>2. Owns(h)'
  BY <1>1 DEF Owns, At, Committed
<1>3. Finished(h)'
  BY DEF Finished, At, Shut, AllRows
<1>4. QED BY <1>2, <1>3

(* A step of g that writes no file, and leaves the model of others alone. *)
LEMMA GActs ==
  ASSUME GInv, NEW g \in Generators, UNCHANGED generation,
         DOMAIN gen' = Generators, \A h \in Generators \ {g} : gen'[h] = gen[h],
         \A h \in Generators \ {g} : gpu = h => gpu' = h,
         DOMAIN gen'[g] = Fields, gen'[g].todo \subseteq StageNames,
         Owns(g)', Finished(g)'
  PROVE  GInv'
<1>1. stores' = stores /\ registrations' = registrations /\ combined' = combined
      /\ genManifest' = genManifest
  BY DEF generation
<1>2. GTyped'
  BY <1>1 DEF GInv, GTyped
<1>3. Prefixes' /\ OneBackendPerStage'
  BY <1>1 DEF GInv, Prefixes, OneBackendPerStage, Committed
<1>4. StageFiles'
  BY <1>1 DEF GInv, StageFiles, Shut, AllRows, GenManifest, Committed
<1>5. ASSUME NEW h \in Generators, h # g
      PROVE  Owns(h)' /\ Finished(h)'
  BY <1>1, <1>5, GBystander DEF GInv
<1>6. QED BY <1>2, <1>3, <1>4, <1>5 DEF GInv

LEMMA EndStep ==
  ASSUME GInv, NEW g \in Generators, End(g), UNCHANGED generation
  PROVE  GInv'
<1>1. /\ DOMAIN gen' = Generators /\ gen'[g] = Idle
      /\ \A h \in Generators \ {g} : gen'[h] = gen[h]
      /\ \A h \in Generators \ {g} : gpu = h => gpu' = h
  BY DEF End, GInv, GTyped
<1>2. DOMAIN Idle = Fields /\ Idle.pc = "idle" /\ Idle.todo = {}
  BY DEF Idle, Fields
<1>3. Owns(g)' /\ Finished(g)'
  BY <1>1, <1>2 DEF Owns, Finished, At, Loaded
<1>4. QED BY <1>1, <1>2, <1>3, GActs

LEMMA StartStep ==
  ASSUME GInv, NEW g \in Generators, Start(g)
  PROVE  GInv'
<1> DEFINE open == DOMAIN stores \ { s \in DOMAIN stores : Final(stores[s]) }
<1>1. /\ UNCHANGED generation /\ gpu' = gpu
      /\ gen' = [gen EXCEPT ![g] = [Idle EXCEPT !.todo = open,
                                      !.pc = IF open = {} THEN "combine" ELSE "construct"]]
  BY DEF Start
<1>2. /\ DOMAIN gen' = Generators /\ \A h \in Generators \ {g} : gen'[h] = gen[h]
      /\ DOMAIN gen'[g] = Fields /\ gen'[g].todo = open
      /\ gen'[g].pc = IF open = {} THEN "combine" ELSE "construct"
  BY <1>1 DEF GInv, GTyped, Idle, Fields
<1>3. open \subseteq StageNames
  BY DEF GInv, GTyped
<1>4. Owns(g)'
  BY <1>2 DEF Owns, At, Loaded, Committed
<1>5. \A s \in StageNames \ open : Shut(s)
  BY DEF GInv, GTyped, StageFiles, FilesAs, Shut
<1>6. \A s \in StageNames \ open : Shut(s)'
  BY <1>1, <1>5 DEF generation, Shut
<1> HIDE DEF open
<1>7. Finished(g)'
  BY <1>2, <1>6 DEF Finished, At
<1>8. QED BY <1>1, <1>2, <1>3, <1>4, <1>7, GActs

(* Only the program counter and what is not about files moves. *)
LEMMA SameStage ==
  ASSUME GInv, NEW g \in Generators, gen'[g].todo = gen[g].todo
  PROVE  Current(g)' = Current(g) /\ Current(g) \in StageNames
BY DEF Current, StageNames

LEMMA ConstructStep ==
  ASSUME GInv, NEW g \in Generators, Construct(g)
  PROVE  GInv'
<1>1. PICK h \in Hosts : gen' = [gen EXCEPT ![g].pc = "register", ![g].host = h]
  BY DEF Construct
<1>2. /\ UNCHANGED generation /\ gpu = Nothing /\ gpu' = g /\ At(g, "construct")
      /\ DOMAIN gen' = Generators /\ \A k \in Generators \ {g} : gen'[k] = gen[k]
      /\ DOMAIN gen'[g] = Fields /\ gen'[g].todo = gen[g].todo /\ gen'[g].pc = "register"
      /\ gen[g].todo \subseteq StageNames
  BY <1>1 DEF Construct, GInv, GTyped, Fields
<1>3. Owns(g)'
  BY <1>2 DEF Owns, At, Loaded, Committed
<1>4. Finished(g)'
  BY <1>2 DEF GInv, Finished, At, Shut, generation
<1>5. QED BY <1>2, <1>3, <1>4, GActs, ResampleAssumption

LEMMA ResumeStep ==
  ASSUME GInv, NEW g \in Generators, Resume(g)
  PROVE  GInv'
<1> DEFINE s == Current(g)
           found == stores[s].records
<1>1. At(g, "resume") /\ UNCHANGED generation
  BY DEF Resume
<1>2. CASE End(g)
  BY <1>1, <1>2, EndStep
<1>3. CASE /\ \A u \in DOMAIN found : found[u].host = gen[g].host
           /\ gen' = [gen EXCEPT ![g].pc = "generate", ![g].done = DOMAIN found] /\ gpu' = gpu
  <2>1. /\ DOMAIN gen' = Generators /\ \A k \in Generators \ {g} : gen'[k] = gen[k]
        /\ DOMAIN gen'[g] = Fields /\ gen'[g].todo = gen[g].todo /\ gen'[g].pc = "generate"
        /\ gen'[g].host = gen[g].host /\ gen'[g].done = DOMAIN found
        /\ gen[g].todo \subseteq StageNames
    BY <1>3 DEF GInv, GTyped, Fields
  <2>2. Current(g)' = s /\ stores' = stores /\ registrations' = registrations
    BY <1>1, <2>1, SameStage DEF generation
  <2>3. gpu = g /\ registrations
    BY <1>1 DEF GInv, Owns, At, Loaded
  <2>4. Owns(g)'
    BY <1>3, <2>1, <2>2, <2>3 DEF Owns, At, Loaded, Committed
  <2>5. Finished(g)'
    BY <1>1, <2>1, <2>2 DEF GInv, Finished, At, Shut
  <2>6. QED BY <1>1, <1>3, <2>1, <2>4, <2>5, GActs
<1>4. QED BY <1>2, <1>3 DEF Resume

(* The first row that a stage misses.                                      *)
LEMMA LeastMissing ==
  ASSUME GInv, NEW s \in StageNames, UnitsOf(s) \ Committed(s) # {}
  PROVE  \E u \in UnitsOf(s) \ Committed(s) :
           /\ \A v \in UnitsOf(s) \ Committed(s) : u <= v
           /\ \E k \in 0..StageSize : Committed(s) \cup {u} = First(s)..(First(s) + k - 1)
<1>1. PICK k \in 0..StageSize : Committed(s) = First(s)..(First(s) + k - 1)
  BY DEF GInv, Prefixes
<1>2. /\ First(s) \in Nat /\ UnitsOf(s) = First(s)..(First(s) + StageSize - 1)
      /\ StageSize \in Nat
  BY StageOrder, Sizes
<1>3. k < StageSize
  BY <1>1, <1>2
<1>4. First(s) + k \in UnitsOf(s) \ Committed(s)
  BY <1>1, <1>2, <1>3
<1>5. \A v \in UnitsOf(s) \ Committed(s) : First(s) + k <= v
  BY <1>1, <1>2
<1>6. Committed(s) \cup {First(s) + k} = First(s)..(First(s) + (k + 1) - 1) /\ k + 1 \in 0..StageSize
  BY <1>1, <1>2, <1>3
<1>7. QED BY <1>4, <1>5, <1>6

LEMMA GenerateStepKeeps ==
  ASSUME GInv, NEW g \in Generators, Generate(g)
  PROVE  GInv'
<1> DEFINE s == Current(g)
           missing == UnitsOf(s) \ gen[g].done
           pending == { u \in missing : \A v \in missing : Batch(u) <= Batch(v) }
<1>1. At(g, "generate") /\ UNCHANGED generation /\ gpu' = gpu
  BY DEF Generate
<1>2. /\ gpu = g /\ registrations /\ gen[g].done = Committed(s)
      /\ \A u \in Committed(s) : stores[s].records[u].host = gen[g].host
  BY <1>1 DEF GInv, Owns, At, Loaded
<1>3. CASE Goto(g, "merge")
  <2>1. /\ DOMAIN gen' = Generators /\ \A k \in Generators \ {g} : gen'[k] = gen[k]
        /\ DOMAIN gen'[g] = Fields /\ gen'[g].todo = gen[g].todo /\ gen'[g].pc = "merge"
        /\ gen'[g].host = gen[g].host /\ gen[g].todo \subseteq StageNames
    BY <1>3 DEF Goto, GInv, GTyped, Fields
  <2>2. Current(g)' = s /\ stores' = stores /\ registrations' = registrations
    BY <1>1, <2>1, SameStage DEF generation
  <2>3. Owns(g)'
    BY <1>1, <1>2, <2>1, <2>2 DEF Owns, At, Loaded, Committed
  <2>4. Finished(g)'
    BY <1>1, <2>1, <2>2 DEF GInv, Finished, At, Shut
  <2>5. QED BY <1>1, <2>1, <2>3, <2>4, GActs
<1>4. ASSUME NEW drawn \in [pending -> {"invalid", "valid", "eligible"}], missing # {},
             gen' = [gen EXCEPT ![g].pc = "commit", ![g].batch = drawn]
      PROVE  GInv'
  <2>1. /\ DOMAIN gen' = Generators /\ \A k \in Generators \ {g} : gen'[k] = gen[k]
        /\ DOMAIN gen'[g] = Fields /\ gen'[g].todo = gen[g].todo /\ gen'[g].pc = "commit"
        /\ gen'[g].host = gen[g].host /\ gen'[g].done = gen[g].done /\ gen'[g].batch = drawn
        /\ gen[g].todo \subseteq StageNames
    BY <1>4 DEF GInv, GTyped, Fields
  <2>2. Current(g)' = s /\ s \in StageNames /\ stores' = stores /\ registrations' = registrations
    BY <1>1, <2>1, SameStage DEF generation
  <2>3. DOMAIN drawn = pending /\ pending \subseteq UnitsOf(s) \ Committed(s)
    BY <1>2
  <2>4. ASSUME NEW u \in pending, NEW v \in UnitsOf(s), v <= u
        PROVE  v \in pending \cup Committed(s)
    <3>1. CASE v \in gen[g].done
      BY <3>1, <1>2
    <3>2. CASE v \notin gen[g].done
      <4>1. v \in missing /\ u \in missing /\ \A w \in missing : Batch(u) <= Batch(w)
        BY <3>2
      <4>2. Batch(v) <= Batch(u) /\ Batch(u) \in Nat /\ Batch(v) \in Nat
        BY <2>2, <2>4, <4>1, EarlierBatch
      <4>3. \A w \in missing : Batch(w) \in Nat
        <5>1. ASSUME NEW w \in UnitsOf(s) PROVE w <= w /\ Batch(w) \in Nat
          <6>1. w <= w
            BY <2>2, StageOrder, Sizes
          <6>2. QED BY <2>2, <6>1, EarlierBatch
        <5>2. QED BY <5>1
      <4>4. \A w \in missing : Batch(v) <= Batch(w)
        <5> HIDE DEF missing
        <5> QED BY <4>1, <4>2, <4>3
      <4>5. QED BY <4>1, <4>4
    <3>3. QED BY <3>1, <3>2
  <2>5. pending # {}
    <3>1. PICK u \in missing : \A v \in missing : u <= v
      BY <1>4, <2>2, <1>2, LeastMissing
    <3>2. \A v \in missing : Batch(u) <= Batch(v)
      BY <2>2, <3>1, EarlierBatch
    <3>3. QED BY <3>1, <3>2
  <2> HIDE DEF pending, missing
  <2>6. Owns(g)'
    BY <1>1, <1>2, <2>1, <2>2, <2>3, <2>4, <2>5 DEF Owns, At, Loaded, Committed
  <2>7. Finished(g)'
    BY <1>1, <2>1, <2>2 DEF GInv, Finished, At, Shut
  <2>8. QED BY <1>1, <2>1, <2>6, <2>7, GActs
<1>5. QED BY <1>3, <1>4 DEF Generate

-----------------------------------------------------------------------------
(* Generation: steps that write files.                                     *)

LEMMA ShutHasRows ==
  ASSUME GInv, NEW s \in StageNames, Whole(stores[s], Order(s))
  PROVE  Committed(s) = UnitsOf(s) /\ Committed(s) # {} /\ registrations
<1>1. Committed(s) = UnitsOf(s) /\ First(s) \in UnitsOf(s)
  BY StageOrder DEF Whole, Committed
<1>2. QED BY <1>1 DEF GInv, StageFiles

(* A command without the model knows files that stay.                      *)
LEMMA Waits ==
  ASSUME GInv, NEW g \in Generators, NEW h \in Generators, h # g, gpu = g, gen'[h] = gen[h],
         \A t \in StageNames : Shut(t) => Shut(t)' /\ stores'[t].merged = stores[t].merged,
         combined' = combined
  PROVE  Owns(h)' /\ Finished(h)'
<1>1. gen'[h].pc \notin Loaded
  BY DEF GInv, Owns
<1>2. Owns(h)'
  BY <1>1 DEF Owns, At, Loaded
<1>3. Finished(h)'
  <2>1. ASSUME ~At(h, "idle")', NEW t \in StageNames \ gen'[h].todo PROVE Shut(t)'
    BY <2>1 DEF GInv, Finished, At
  <2>2. gen'[h].pc \in {"combine", "manifest"} => gen'[h].todo = {}
    BY DEF GInv, Finished
  <2>3. ASSUME At(h, "manifest")' PROVE combined' = AllRows'
    <3>1. combined = AllRows /\ Shut("initial") /\ Shut("stage_two")
      BY <2>3 DEF GInv, Finished, At, StageNames
    <3>2. QED BY <3>1 DEF AllRows, StageNames
  <2>4. QED BY <2>1, <2>2, <2>3 DEF Finished
<1>4. QED BY <1>2, <1>3

LEMMA RegisterStep ==
  ASSUME GInv, NEW g \in Generators, Register(g)
  PROVE  GInv'
<1>1. /\ At(g, "register") /\ registrations' = TRUE /\ stores' = stores /\ combined' = combined
      /\ genManifest' = genManifest /\ gpu' = gpu /\ gen' = [gen EXCEPT ![g].pc = "resume"]
  BY DEF Register, Goto
<1>2. /\ DOMAIN gen' = Generators /\ \A k \in Generators \ {g} : gen'[k] = gen[k]
      /\ DOMAIN gen'[g] = Fields /\ gen'[g].todo = gen[g].todo /\ gen'[g].pc = "resume"
      /\ gen[g].todo \subseteq StageNames
  BY <1>1 DEF GInv, GTyped, Fields
<1>3. GTyped'
  BY <1>1, <1>2 DEF GInv, GTyped
<1>4. Prefixes' /\ OneBackendPerStage'
  BY <1>1 DEF GInv, Prefixes, OneBackendPerStage, Committed
<1>5. genManifest # Nothing => GenManifest' = GenManifest
  <2>1. genManifest # Nothing => registrations = TRUE
    BY ShutHasRows DEF GInv, StageFiles, Shut, ClosedAs, MergedAs, StageNames, GTyped
  <2>2. QED BY <1>1, <2>1 DEF GenManifest
<1>6. StageFiles'
  BY <1>1, <1>5 DEF GInv, StageFiles, Shut, AllRows, Committed
<1>7. Owns(g)'
  BY <1>1, <1>2 DEF GInv, Owns, At, Loaded
<1>8. Finished(g)'
  BY <1>1, <1>2 DEF GInv, Finished, At, Shut
<1>9. ASSUME NEW h \in Generators, h # g PROVE Owns(h)' /\ Finished(h)'
  BY <1>1, <1>2, <1>9, GBystander DEF GInv
<1>10. QED BY <1>3, <1>4, <1>6, <1>7, <1>8, <1>9 DEF GInv

(* One file of a stage is written by the command that holds the model.     *)
LEMMA Writes ==
  ASSUME GInv, NEW g \in Generators, NEW s \in StageNames, NEW store,
         gpu = g, gpu' = g, stores' = [stores EXCEPT ![s] = store], DOMAIN store = StoreFields,
         UNCHANGED <<registrations, combined, genManifest>>,
         DOMAIN gen' = Generators, \A k \in Generators \ {g} : gen'[k] = gen[k],
         DOMAIN gen'[g] = Fields, gen'[g].todo \subseteq StageNames,
         \E k \in 0..StageSize : DOMAIN store.records = First(s)..(First(s) + k - 1),
         \A u, v \in DOMAIN store.records : store.records[u].host = store.records[v].host,
         FilesAs(store, Order(s)), registrations,
         Shut(s) => ClosedAs(store, Order(s)) /\ store.merged = stores[s].merged,
         Owns(g)', Finished(g)'
  PROVE  GInv'
<1>1. /\ DOMAIN stores' = StageNames /\ stores'[s] = store
      /\ \A t \in StageNames \ {s} : stores'[t] = stores[t]
  BY DEF GInv, GTyped
<1>2. GTyped'
  BY <1>1 DEF GInv, GTyped
<1>3. Prefixes'
  BY <1>1 DEF GInv, Prefixes, Committed
<1>4. OneBackendPerStage'
  <2>1. ASSUME NEW t \in StageNames, NEW u \in DOMAIN stores'[t].records, NEW v \in DOMAIN stores'[t].records
        PROVE  stores'[t].records[u].host = stores'[t].records[v].host
    <3>1. CASE t = s
      BY <1>1, <3>1
    <3>2. CASE t # s
      BY <1>1, <3>2 DEF GInv, OneBackendPerStage, GTyped
    <3>3. QED BY <3>1, <3>2
  <2>2. QED BY <1>1, <2>1 DEF OneBackendPerStage
<1>5. \A t \in StageNames : Shut(t) => Shut(t)' /\ stores'[t].merged = stores[t].merged
  BY <1>1 DEF Shut
<1>6. StageFiles'
  <2>1. \A t \in StageNames : FilesAs(stores'[t], Order(t))
    BY <1>1 DEF GInv, StageFiles
  <2>2. Shut("initial") /\ Shut("stage_two") => Shut("initial")' /\ Shut("stage_two")' /\ AllRows' = AllRows
    BY <1>5 DEF StageNames, AllRows
  <2>3. QED BY <2>1, <2>2 DEF GInv, StageFiles, GenManifest
<1>7. ASSUME NEW h \in Generators, h # g PROVE Owns(h)' /\ Finished(h)'
  BY <1>5, <1>7, Waits
<1>8. QED BY <1>2, <1>3, <1>4, <1>6, <1>7 DEF GInv

LEMMA CommitRowStep ==
  ASSUME GInv, NEW g \in Generators, CommitRow(g)
  PROVE  GInv'
<1> DEFINE s == Current(g)
           batch == gen[g].batch
           u == CHOOSE v \in DOMAIN batch : \A w \in DOMAIN batch : v <= w
           row == [host |-> gen[g].host, outcome |-> batch[u]]
           rest == DOMAIN batch \ {u}
           store == WithRecord(stores[s], u, row)
<1>1. At(g, "commit") /\ UNCHANGED <<registrations, combined, genManifest>>
  BY DEF CommitRow
<1>2. /\ gpu = g /\ registrations /\ gen[g].done = Committed(s)
      /\ \A v \in Committed(s) : stores[s].records[v].host = gen[g].host
      /\ DOMAIN batch # {} /\ DOMAIN batch \subseteq UnitsOf(s) \ Committed(s)
      /\ \A w \in DOMAIN batch, v \in UnitsOf(s) : v <= w => v \in DOMAIN batch \cup Committed(s)
  BY <1>1 DEF GInv, Owns, At, Loaded
<1>3. CASE End(g) /\ stores' = stores
  BY <1>1, <1>3, EndStep DEF generation
<1>4. CASE /\ stores' = [stores EXCEPT ![s] = store]
           /\ gen' = [gen EXCEPT ![g].done = @ \cup {u}, ![g].batch = Restrict(batch, rest),
                                 ![g].pc = IF rest = {} THEN "generate" ELSE "commit"]
           /\ gpu' = gpu
  <2>1. s \in StageNames
    BY DEF Current, StageNames
  <2>2. PICK n \in UnitsOf(s) \ Committed(s) :
           /\ \A v \in UnitsOf(s) \ Committed(s) : n <= v
           /\ \E k \in 0..StageSize : Committed(s) \cup {n} = First(s)..(First(s) + k - 1)
    BY <1>2, <2>1, LeastMissing
  <2>3. n \in DOMAIN batch /\ \A w \in DOMAIN batch : n <= w
    BY <1>2, <2>2
  <2>4. UnitsOf(s) \subseteq Int
    <3>1. UnitsOf(s) = First(s)..(First(s) + StageSize - 1)
      BY <2>1, StageOrder
    <3>2. QED BY <3>1
  <2>5. u = n
    <3>1. u \in DOMAIN batch /\ \A w \in DOMAIN batch : u <= w
      BY <2>3
    <3> HIDE DEF u
    <3>2. u <= n /\ n <= u /\ u \in Int /\ n \in Int
      BY <2>3, <2>4, <3>1, <1>2
    <3>3. QED BY <3>2
  <2> HIDE DEF u
  <2>6. /\ DOMAIN gen' = Generators /\ \A k \in Generators \ {g} : gen'[k] = gen[k]
        /\ DOMAIN gen'[g] = Fields /\ gen'[g].todo = gen[g].todo
        /\ gen'[g].pc = IF rest = {} THEN "generate" ELSE "commit"
        /\ gen'[g].host = gen[g].host /\ gen'[g].done = gen[g].done \cup {u}
        /\ gen'[g].batch = Restrict(batch, rest) /\ gen[g].todo \subseteq StageNames
    BY <1>4 DEF GInv, GTyped, Fields
  <2>7. DOMAIN gen'[g].batch = rest
    BY <2>6 DEF Restrict
  <2>8. /\ DOMAIN store = StoreFields /\ DOMAIN store.records = Committed(s) \cup {u}
        /\ store.merged = stores[s].merged /\ store.manifest = stores[s].manifest
        /\ \A v \in Committed(s) \cup {u} : store.records[v].host = gen[g].host
    <3>1. u \notin DOMAIN stores[s].records /\ DOMAIN stores[s] = StoreFields
      BY <2>1, <2>2, <2>5 DEF Committed, GInv, GTyped
    <3>2. store = [stores[s] EXCEPT !.records =
                    [i \in DOMAIN @ \cup {u} |-> IF i = u THEN row ELSE @[i]]]
      BY <3>1 DEF WithRecord
    <3>3. /\ DOMAIN store = StoreFields /\ store.merged = stores[s].merged
          /\ store.manifest = stores[s].manifest
          /\ store.records = [i \in Committed(s) \cup {u} |-> IF i = u THEN row ELSE stores[s].records[i]]
      BY <3>1, <3>2 DEF StoreFields, Committed
    <3>4. row.host = gen[g].host
      OBVIOUS
    <3> HIDE DEF row, store
    <3>5. QED BY <1>2, <3>3, <3>4
  <2>9. ~Whole(stores[s], Order(s))
    BY <2>1, <2>2, ShutHasRows
  <2>10. stores[s].merged = Nothing /\ ~Final(stores[s]) /\ ~Shut(s)
    BY <2>1, <2>9 DEF GInv, StageFiles, FilesAs, MergedAs, ClosedAs, Shut
  <2> HIDE DEF store
  <2>11. FilesAs(store, Order(s))
    BY <2>8, <2>10 DEF FilesAs, Final
  <2>12. stores'[s] = store /\ Current(g)' = s /\ \A t \in StageNames \ {s} : stores'[t] = stores[t]
    BY <1>4, <2>1, <2>6, SameStage DEF GInv, GTyped
  <2>13. Owns(g)'
    <3>1. Committed(s)' = Committed(s) \cup {u}
      BY <2>8, <2>12 DEF Committed
    <3>2. \A w \in rest, v \in UnitsOf(s) : v <= w => v \in rest \cup (Committed(s) \cup {u})
      BY <1>2
    <3>3. rest \subseteq UnitsOf(s) \ (Committed(s) \cup {u})
      BY <1>2
    <3> HIDE DEF rest
    <3>4. QED
      BY <1>1, <1>2, <1>4, <2>6, <2>7, <2>8, <2>12, <3>1, <3>2, <3>3 DEF Owns, At, Loaded
  <2>14. Finished(g)'
    <3>1. \A t \in StageNames : Shut(t) => Shut(t)'
      BY <2>10, <2>12 DEF Shut
    <3>2. QED BY <1>1, <2>6, <3>1 DEF GInv, Finished, At
  <2>15. \E k \in 0..StageSize : DOMAIN store.records = First(s)..(First(s) + k - 1)
    BY <2>2, <2>5, <2>8
  <2>16. \A v, w \in DOMAIN store.records : store.records[v].host = store.records[w].host
    BY <2>8
  <2>17. gen'[g].todo \subseteq StageNames /\ gpu' = g
    BY <1>2, <1>4, <2>6
  <2>18. stores' = [stores EXCEPT ![s] = store]
    BY <1>4
  <2> HIDE DEF s
  <2>19. QED
    BY <1>1, <1>2, <2>1, <2>6, <2>8, <2>10, <2>11, <2>13, <2>14, <2>15, <2>16, <2>17, <2>18, Writes
<1>5. QED BY <1>3, <1>4 DEF CommitRow

LEMMA MergeStageStep ==
  ASSUME GInv, NEW g \in Generators, MergeStage(g)
  PROVE  GInv'
<1> DEFINE s == Current(g)
           store == Merged(stores[s], Order(s))
<1>1. At(g, "merge") /\ UNCHANGED <<registrations, combined, genManifest>> /\ s \in StageNames
  BY DEF MergeStage, Current, StageNames
<1>2. /\ gpu = g /\ registrations
      /\ \A v \in Committed(s) : stores[s].records[v].host = gen[g].host
  BY <1>1 DEF GInv, Owns, At, Loaded
<1>3. CASE End(g) /\ stores' = stores
  BY <1>1, <1>3, EndStep DEF generation
<1>4. CASE /\ MayMerge(stores[s], Order(s)) /\ stores' = [stores EXCEPT ![s] = store]
           /\ Goto(g, "close") /\ gpu' = gpu
  <2>1. /\ DOMAIN gen' = Generators /\ \A k \in Generators \ {g} : gen'[k] = gen[k]
        /\ DOMAIN gen'[g] = Fields /\ gen'[g].todo = gen[g].todo /\ gen'[g].pc = "close"
        /\ gen'[g].host = gen[g].host /\ gen[g].todo \subseteq StageNames
    BY <1>4 DEF GInv, GTyped, Fields, Goto
  <2>2. /\ DOMAIN store = StoreFields /\ store.records = stores[s].records
        /\ store.manifest = stores[s].manifest /\ store.merged = RowsOf(stores[s], Order(s))
    BY <1>1 DEF GInv, GTyped, Merged, StoreFields
  <2> HIDE DEF store
  <2>3. MergedAs(store, Order(s))
    BY <1>4, <2>2 DEF MergedAs, MayMerge, Whole, RowsOf
  <2>4. Final(store) => Shut(s)
    BY <1>1, <2>2 DEF Final, Shut, GInv, StageFiles, FilesAs
  <2>5. Shut(s) => ClosedAs(store, Order(s)) /\ store.merged = stores[s].merged
    BY <2>2, <2>3 DEF Shut, ClosedAs, MergedAs, ManifestOf, RowsOf
  <2>6. FilesAs(store, Order(s))
    BY <2>3, <2>4, <2>5 DEF FilesAs
  <2>7. stores'[s] = store /\ Current(g)' = s /\ \A t \in StageNames \ {s} : stores'[t] = stores[t]
    BY <1>1, <1>4, <2>1, SameStage DEF GInv, GTyped
  <2>8. Owns(g)'
    BY <1>1, <1>2, <1>4, <2>1, <2>2, <2>3, <2>7 DEF Owns, At, Loaded, Committed
  <2>9. Finished(g)'
    <3>1. \A t \in StageNames : Shut(t) => Shut(t)'
      BY <2>5, <2>7 DEF Shut
    <3>2. QED BY <1>1, <2>1, <3>1 DEF GInv, Finished, At
  <2>10. \E k \in 0..StageSize : DOMAIN store.records = First(s)..(First(s) + k - 1)
    BY <1>1, <2>2 DEF GInv, Prefixes, Committed
  <2>11. \A u, v \in DOMAIN store.records : store.records[u].host = store.records[v].host
    BY <1>2, <2>2 DEF Committed
  <2>12. QED
    BY <1>1, <1>2, <1>4, <2>1, <2>2, <2>5, <2>6, <2>8, <2>9, <2>10, <2>11, Writes
<1>5. QED BY <1>3, <1>4 DEF MergeStage

LEMMA CloseStageStep ==
  ASSUME GInv, NEW g \in Generators, CloseStage(g)
  PROVE  GInv'
<1> DEFINE s == Current(g)
           rest == gen[g].todo \ {s}
           store == Closed(stores[s], Order(s))
<1>1. At(g, "close") /\ UNCHANGED <<registrations, combined, genManifest>> /\ s \in StageNames
  BY DEF CloseStage, Current, StageNames
<1>2. /\ gpu = g /\ registrations /\ MergedAs(stores[s], Order(s))
      /\ \A v \in Committed(s) : stores[s].records[v].host = gen[g].host
  BY <1>1 DEF GInv, Owns, At, Loaded
<1>3. CASE End(g) /\ stores' = stores
  BY <1>1, <1>3, EndStep DEF generation
<1>4. CASE /\ stores' = [stores EXCEPT ![s] = store]
           /\ gen' = [gen EXCEPT ![g].todo = rest, ![g].done = {},
                                 ![g].pc = IF rest = {} THEN "combine" ELSE "resume"]
           /\ gpu' = gpu
  <2>1. /\ DOMAIN gen' = Generators /\ \A k \in Generators \ {g} : gen'[k] = gen[k]
        /\ DOMAIN gen'[g] = Fields /\ gen'[g].todo = rest
        /\ gen'[g].pc = IF rest = {} THEN "combine" ELSE "resume"
        /\ gen[g].todo \subseteq StageNames
    BY <1>4 DEF GInv, GTyped, Fields
  <2>2. /\ DOMAIN store = StoreFields /\ store.records = stores[s].records
        /\ store.merged = stores[s].merged /\ store.manifest = ManifestOf(stores[s], Order(s))
    BY <1>1 DEF GInv, GTyped, Closed, StoreFields
  <2> HIDE DEF store
  <2>3. ClosedAs(store, Order(s))
    BY <1>2, <2>2 DEF ClosedAs, MergedAs, Whole, RowsOf, ManifestOf
  <2>4. FilesAs(store, Order(s))
    BY <2>3 DEF FilesAs, ClosedAs
  <2>5. stores'[s] = store /\ \A t \in StageNames \ {s} : stores'[t] = stores[t]
    BY <1>1, <1>4 DEF GInv, GTyped
  <2>6. Owns(g)'
    <3>1. gpu' = g /\ registrations'
      BY <1>1, <1>2, <1>4
    <3>2. gen'[g].pc \in {"combine", "resume"}
      BY <2>1
    <3>3. QED BY <3>1, <3>2 DEF Owns, At, Loaded
  <2>7. Finished(g)'
    <3>1. \A t \in StageNames : (t = s \/ Shut(t)) => Shut(t)'
      BY <2>3, <2>5 DEF Shut
    <3>2. QED BY <1>1, <2>1, <3>1 DEF GInv, Finished, At
  <2>8. \E k \in 0..StageSize : DOMAIN store.records = First(s)..(First(s) + k - 1)
    BY <1>1, <2>2 DEF GInv, Prefixes, Committed
  <2>9. \A u, v \in DOMAIN store.records : store.records[u].host = store.records[v].host
    BY <1>2, <2>2 DEF Committed
  <2>10. rest \subseteq StageNames
    BY <2>1
  <2> HIDE DEF rest
  <2>11. QED
    BY <1>1, <1>2, <1>4, <2>1, <2>2, <2>3, <2>4, <2>6, <2>7, <2>8, <2>9, <2>10, Writes
<1>5. QED BY <1>3, <1>4 DEF CloseStage

(* Nothing is left to do: both stages are closed.                          *)
LEMMA CombineStep ==
  ASSUME GInv, NEW g \in Generators, Combine(g)
  PROVE  GInv'
<1>1. At(g, "combine") /\ UNCHANGED <<stores, registrations, genManifest>>
  BY DEF Combine
<1>2. gen[g].todo = {} /\ Shut("initial") /\ Shut("stage_two")
  BY <1>1 DEF GInv, Finished, At, StageNames
<1>3. CASE End(g) /\ combined' = combined
  BY <1>1, <1>3, EndStep DEF generation
<1>4. CASE /\ combined \in {Nothing, AllRows} /\ combined' = AllRows
           /\ Goto(g, "manifest") /\ gpu' = gpu
  <2>1. /\ DOMAIN gen' = Generators /\ \A k \in Generators \ {g} : gen'[k] = gen[k]
        /\ DOMAIN gen'[g] = Fields /\ gen'[g].todo = {} /\ gen'[g].pc = "manifest"
    BY <1>2, <1>4 DEF GInv, GTyped, Fields, Goto
  <2>2. GTyped'
    BY <1>1, <2>1 DEF GInv, GTyped
  <2>3. Prefixes' /\ OneBackendPerStage'
    BY <1>1 DEF GInv, Prefixes, OneBackendPerStage, Committed
  <2>4. AllRows' = AllRows /\ Shut("initial")' /\ Shut("stage_two")'
    BY <1>1, <1>2 DEF AllRows, Shut
  <2>5. genManifest # Nothing => combined' = combined
    BY <1>4 DEF GInv, StageFiles
  <2>6. StageFiles'
    BY <1>1, <1>4, <2>4, <2>5 DEF GInv, StageFiles, Committed, GenManifest
  <2>7. Owns(g)'
    BY <2>1 DEF Owns, At, Loaded
  <2>8. Finished(g)'
    BY <1>4, <2>1, <2>4 DEF Finished, At, StageNames
  <2>9. ASSUME NEW h \in Generators, h # g PROVE Owns(h)' /\ Finished(h)'
    <3>1. gen'[h] = gen[h] /\ Current(h)' = Current(h)
      BY <2>1, <2>9 DEF Current
    <3>2. Owns(h)'
      BY <1>1, <1>4, <3>1 DEF GInv, Owns, At, Committed
    <3>3. Finished(h)'
      BY <1>1, <1>4, <2>4, <3>1 DEF GInv, Finished, At, Shut
    <3>4. QED BY <3>2, <3>3
  <2>10. QED BY <2>2, <2>3, <2>6, <2>7, <2>8, <2>9 DEF GInv
<1>5. QED BY <1>3, <1>4 DEF Combine

LEMMA WriteManifestStep ==
  ASSUME GInv, NEW g \in Generators, WriteManifest(g)
  PROVE  GInv'
<1>1. /\ At(g, "manifest") /\ End(g) /\ stores' = stores /\ registrations' = registrations
      /\ combined' = combined
      /\ genManifest' = IF genManifest = Nothing THEN GenManifest ELSE genManifest
  BY DEF WriteManifest
<1>2. Shut("initial") /\ Shut("stage_two") /\ combined = AllRows
  BY <1>1 DEF GInv, Finished, At, StageNames
<1>3. /\ DOMAIN gen' = Generators /\ gen'[g] = Idle
      /\ \A h \in Generators \ {g} : gen'[h] = gen[h]
      /\ \A h \in Generators \ {g} : gpu = h => gpu' = h
  BY <1>1 DEF End, GInv, GTyped
<1>4. DOMAIN Idle = Fields /\ Idle.pc = "idle" /\ Idle.todo = {}
  BY DEF Idle, Fields
<1>5. GTyped'
  BY <1>1, <1>3, <1>4 DEF GInv, GTyped
<1>6. Prefixes' /\ OneBackendPerStage'
  BY <1>1 DEF GInv, Prefixes, OneBackendPerStage, Committed
<1>7. StageFiles'
  BY <1>1, <1>2 DEF GInv, StageFiles, Committed, GenManifest, AllRows, Shut
<1>8. Owns(g)' /\ Finished(g)'
  BY <1>3, <1>4 DEF Owns, Finished, At, Loaded
<1>9. ASSUME NEW h \in Generators, h # g PROVE Owns(h)' /\ Finished(h)'
  BY <1>1, <1>3, <1>9, GBystander DEF GInv
<1>10. QED BY <1>5, <1>6, <1>7, <1>8, <1>9 DEF GInv

LEMMA GenerateStepGInv ==
  ASSUME GInv, NEW g \in Generators, GenerateStep(g)
  PROVE  GInv'
BY StartStep, ConstructStep, RegisterStep, ResumeStep, GenerateStepKeeps, CommitRowStep, MergeStageStep,
   CloseStageStep, CombineStep, WriteManifestStep, EndStep DEF GenerateStep, Leave

LEMMA SameGeneration ==
  ASSUME GInv, UNCHANGED generationVars
  PROVE  GInv'
<1>1. /\ stores' = stores /\ registrations' = registrations /\ combined' = combined
      /\ genManifest' = genManifest /\ gpu' = gpu /\ gen' = gen
  BY DEF generationVars, generation
<1>2. GTyped' /\ Prefixes' /\ OneBackendPerStage'
  BY <1>1 DEF GInv, GTyped, Prefixes, OneBackendPerStage, Committed
<1>3. StageFiles'
  BY <1>1 DEF GInv, StageFiles, Shut, AllRows, GenManifest, Committed
<1>4. \A h \in Generators : Owns(h)' /\ Finished(h)'
  BY <1>1, GBystander DEF GInv
<1>5. QED BY <1>2, <1>3, <1>4 DEF GInv

(* Rows in frozen order by one loaded model, and files that follow them.   *)
THEOREM GenerationInvariance == Spec => []GInv
<1>1. Init => GInv
  BY InitGInv DEF Init
<1>2. GInv /\ [Next]_vars => GInv'
  BY GenerateStepGInv, SameGeneration DEF Next, vars
<1>3. QED BY <1>1, <1>2, PTL DEF Spec

(* resample_phases.py: the rows of a stage come from one backend, through  *)
(* any number of interrupted commands.                                     *)
THEOREM OneBackendPerStageSafe == Spec => []OneBackendPerStage
<1>1. GInv => OneBackendPerStage
  BY DEF GInv
<1>2. QED BY <1>1, GenerationInvariance, PTL

-----------------------------------------------------------------------------
(* A generation that loads is over.                                        *)

LEMMA LoadedShut ==
  ASSUME GInv, GenerationLoads
  PROVE  Shut("initial") /\ Shut("stage_two") /\ registrations
<1>1. \A s \in StageNames : Shut(s)
  BY DEF GInv, GTyped, StageFiles, FilesAs, GenerationLoads, LoadsFinal, Shut
<1>2. QED BY <1>1, ShutHasRows DEF Shut, ClosedAs, MergedAs, StageNames

(* No command can still change a file that adjudication reads.             *)
Resting ==
  /\ combined' = combined /\ genManifest' = genManifest /\ registrations' = registrations
  /\ DOMAIN stores' = StageNames
  /\ \A s \in StageNames : /\ stores'[s].records = stores[s].records
                           /\ stores'[s].merged = stores[s].merged
                           /\ stores'[s].manifest = stores[s].manifest

LEMMA LoadedRests ==
  ASSUME GInv, GenerationLoads, NEW g \in Generators, GenerateStep(g)
  PROVE  Resting
<1>1. /\ \A s \in StageNames : Shut(s)
      /\ registrations = TRUE /\ genManifest # Nothing /\ combined = AllRows
      /\ DOMAIN stores = StageNames /\ \A s \in StageNames : DOMAIN stores[s] = StoreFields
  BY LoadedShut DEF GenerationLoads, GInv, GTyped, StageNames
<1>2. CASE UNCHANGED generation
  BY <1>1, <1>2 DEF Resting, generation
<1>3. CASE Register(g)
  BY <1>1, <1>3 DEF Resting, Register
<1>4. CASE CommitRow(g)
  <2>1. UNCHANGED <<registrations, combined, genManifest>> /\ At(g, "commit")
    BY <1>4 DEF CommitRow
  <2>2. Current(g) \in StageNames
    BY DEF Current, StageNames
  <2>3. Committed(Current(g)) = UnitsOf(Current(g))
    BY <1>1, <2>2, ShutHasRows DEF Shut, ClosedAs, MergedAs
  <2>4. FALSE
    BY <2>1, <2>3 DEF GInv, Owns
  <2>5. QED BY <2>4
<1>5. CASE MergeStage(g)
  <2> DEFINE s == Current(g)
  <2>1. UNCHANGED <<registrations, combined, genManifest>> /\ s \in StageNames
    BY <1>5 DEF MergeStage, Current, StageNames
  <2>2. CASE stores' = stores
    BY <1>1, <2>1, <2>2 DEF Resting
  <2>3. CASE stores' = [stores EXCEPT ![s] = Merged(@, Order(s))]
    <3>1. /\ DOMAIN stores' = StageNames /\ stores'[s] = Merged(stores[s], Order(s))
          /\ \A t \in StageNames \ {s} : stores'[t] = stores[t]
      BY <1>1, <2>1, <2>3
    <3>2. /\ stores'[s].records = stores[s].records /\ stores'[s].manifest = stores[s].manifest
          /\ stores'[s].merged = RowsOf(stores[s], Order(s))
      BY <1>1, <2>1, <3>1 DEF Merged, StoreFields
    <3>3. stores[s].merged = RowsOf(stores[s], Order(s))
      BY <1>1, <2>1 DEF Shut, ClosedAs, MergedAs
    <3>4. QED BY <2>1, <3>1, <3>2, <3>3 DEF Resting
  <2>4. QED BY <1>5, <2>2, <2>3 DEF MergeStage
<1>6. CASE CloseStage(g)
  <2> DEFINE s == Current(g)
  <2>1. UNCHANGED <<registrations, combined, genManifest>> /\ s \in StageNames
    BY <1>6 DEF CloseStage, Current, StageNames
  <2>2. CASE stores' = stores
    BY <1>1, <2>1, <2>2 DEF Resting
  <2>3. CASE stores' = [stores EXCEPT ![s] = Closed(@, Order(s))]
    <3>1. /\ DOMAIN stores' = StageNames /\ stores'[s] = Closed(stores[s], Order(s))
          /\ \A t \in StageNames \ {s} : stores'[t] = stores[t]
      BY <1>1, <2>1, <2>3
    <3>2. /\ stores'[s].records = stores[s].records /\ stores'[s].merged = stores[s].merged
          /\ stores'[s].manifest = ManifestOf(stores[s], Order(s))
      BY <1>1, <2>1, <3>1 DEF Closed, StoreFields
    <3>3. stores[s].manifest = ManifestOf(stores[s], Order(s))
      BY <1>1, <2>1 DEF Shut, ClosedAs
    <3>4. QED BY <2>1, <3>1, <3>2, <3>3 DEF Resting
  <2>4. QED BY <1>6, <2>2, <2>3 DEF CloseStage
<1>7. CASE Combine(g)
  BY <1>1, <1>7 DEF Resting, Combine
<1>8. CASE WriteManifest(g)
  BY <1>1, <1>8 DEF Resting, WriteManifest
<1>9. QED
  BY <1>2, <1>3, <1>4, <1>5, <1>6, <1>7, <1>8
  DEF GenerateStep, Start, Construct, Resume, Generate, Leave

LEMMA RestingLoads ==
  ASSUME GInv, GenerationLoads, Resting
  PROVE  GenerationLoads'
<1>1. DOMAIN stores = StageNames
  BY DEF GInv, GTyped
<1>2. AllRows' = AllRows /\ GenManifest' = GenManifest
  BY DEF Resting, AllRows, GenManifest, StageNames
<1>3. ASSUME NEW s \in StageNames PROVE LoadsFinal(stores'[s], Order(s))
  BY <1>1, <1>3 DEF Resting, GenerationLoads, LoadsFinal, Final
<1>4. QED BY <1>2, <1>3 DEF Resting, GenerationLoads

-----------------------------------------------------------------------------
(* Adjudication.  What a command must be able to rely on.                  *)

(* An absent file is none of the records that the command writes.          *)
AbsentFile ==
  /\ \A s, p : [source |-> s, pending |-> p] # Nothing
  /\ \A o, r, f : [order |-> o, rows |-> r, file |-> f] # Nothing
  /\ \A a, v, p, u : [artifact |-> a, verdict |-> v, plan |-> p, audit |-> u] # Nothing

JTyped ==
  /\ DOMAIN judge = {"pc", "unit", "known", "asked"} /\ judge.unit \in Nat
  /\ DOMAIN judged = StoreFields
  /\ DOMAIN finals = Units /\ DOMAIN classes = Units

Releasable == GenerationLoads /\ AttritionGate

(* The plan lists what the generation asks for, and only that is paid. *)
Funded ==
  /\ ~On("idle") => Releasable
  /\ judge.pc \notin {"idle", "plan"} => paidPlan # Nothing
  /\ paidPlan # Nothing => Releasable /\ paidPlan.pending = Requests
  /\ \A u \in Units : /\ finals[u] # Nothing => paidPlan # Nothing /\ u \in ValidUnits
                      /\ classes[u] # Nothing => paidPlan # Nothing /\ NeedsClass(u)

(* Committed rows are what the stored answers say, for good. *)
RowsStand ==
  /\ DOMAIN judged.records \subseteq Units
  /\ DOMAIN judged.records # {} => paidPlan # Nothing
  /\ \A u \in DOMAIN judged.records :
       judged.records[u] = RowFor(u) /\ (u \in ValidUnits => finals[u] # Nothing)

(* The units the command has behind it are those it found and those it did. *)
Progress ==
  /\ judge.pc \in {"idle", "plan", "open"} => U = 0
  /\ judge.pc \in {"classify", "judge", "commit"} =>
       DOMAIN judged.records = judge.known \cup 0..(U - 1)
  /\ On("usage") => DOMAIN judged.records = judge.known \cup 0..U
  /\ judge.pc \in {"judge", "commit"} => U \in Units
  /\ On("commit") /\ U \in ValidUnits => finals[U] # Nothing

(* The judged store, and what each file of the release says of those before.*)
JudgedFiles == FilesAs(judged, WholeOrder) /\ (On("close") => MergedAs(judged, WholeOrder))

Weighed == /\ GenerationLoads /\ ClosedAs(judged, WholeOrder)
           /\ quality = QualityOf(judged.merged)
Decided == Weighed /\ verdict = [source |-> genManifest, store |-> judged.manifest, quality |-> quality]
Issued == /\ Decided /\ quality.passed /\ Inventoried(judged.merged) /\ artifact = judged.merged
Executed == Issued /\ execution # Nothing /\ execution.artifact = artifact /\ execution.verdict = verdict
Validated == Executed /\ validation = [artifact |-> artifact, execution |-> execution]

Frozen ==
  /\ quality # Nothing => Weighed
  /\ verdict # Nothing => Decided
  /\ artifact # Nothing => Issued
  /\ execution # Nothing => Executed
  /\ validation # Nothing => Validated
Standing ==
  /\ On("quality") => ClosedAs(judged, WholeOrder)
  /\ On("verdict") => Weighed
  /\ judge.pc \in {"last usage", "artifact"} => Decided /\ quality.passed
  /\ On("execution") => Issued
  /\ On("validation") => Executed

JInv == JTyped /\ Funded /\ RowsStand /\ Progress /\ JudgedFiles /\ Frozen /\ Standing

-----------------------------------------------------------------------------

LEMMA WholeUnits ==
  /\ { WholeOrder[i] : i \in DOMAIN WholeOrder } = Units
  /\ DOMAIN WholeOrder = 1..(2 * StageSize) /\ Units = 0..(2 * StageSize - 1)
  /\ \A u \in Units : u + 1 \in DOMAIN WholeOrder /\ WholeOrder[u + 1] = u
<1>1. /\ DOMAIN WholeOrder = 1..(2 * StageSize)
      /\ \A i \in 1..(2 * StageSize) : WholeOrder[i] = i - 1
  BY DEF WholeOrder
<1>2. Units = 0..(2 * StageSize - 1) /\ 2 * StageSize \in Nat \ {0}
  BY Sizes DEF Units
<1>3. ASSUME NEW u \in Units PROVE u + 1 \in 1..(2 * StageSize) /\ WholeOrder[u + 1] = u
  BY <1>1, <1>2
<1>4. ASSUME NEW i \in 1..(2 * StageSize) PROVE WholeOrder[i] \in Units
  BY <1>1, <1>2
<1>5. { WholeOrder[i] : i \in DOMAIN WholeOrder } = Units
  BY <1>1, <1>3, <1>4
<1>6. QED BY <1>1, <1>2, <1>3, <1>5

(* What adjudication asks of a generation is a function of its rows.       *)
LEMMA SameSource ==
  ASSUME combined' = combined
  PROVE  /\ ValidUnits' = ValidUnits /\ \A u : NeedsClass(u)' = NeedsClass(u)
         /\ Requests' = Requests /\ AttritionGate' = AttritionGate
         /\ \A u : SourceOf(u)' = SourceOf(u)
<1>1. \A u : Outcome(u)' = Outcome(u)
  BY DEF Outcome
<1>2. ValidUnits' = ValidUnits
  BY <1>1 DEF ValidUnits
<1>3. \A u : NeedsClass(u)' = NeedsClass(u)
  BY <1>1 DEF NeedsClass
<1>4. Requests' = Requests
  BY <1>2, <1>3 DEF Requests
<1>5. \A a, arm : ValidIn(a, arm)' = ValidIn(a, arm)
  BY <1>2 DEF ValidIn
<1>6. \A a : PairsOf(a)' = PairsOf(a) /\ Gap(a)' = Gap(a)
  BY <1>5 DEF PairsOf, Gap
<1>7. AttritionGate' = AttritionGate
  BY <1>2, <1>5, <1>6 DEF AttritionGate
<1>8. QED BY <1>2, <1>3, <1>4, <1>7 DEF SourceOf

LEMMA SameRow ==
  ASSUME NEW u, combined' = combined, finals'[u] = finals[u], classes'[u] = classes[u]
  PROVE  RowFor(u)' = RowFor(u)
<1>1. Intervention(u)' = Intervention(u)
  BY SameSource DEF Intervention
<1>2. QED BY <1>1, SameSource DEF RowFor

LEMMA SameQuality ==
  ASSUME combined' = combined, NEW rows
  PROVE  QualityOf(rows)' = QualityOf(rows)
BY SameSource DEF QualityOf

(* The generation stands still, or rests while its commands go on. *)
Still == /\ combined' = combined /\ genManifest' = genManifest
         /\ GenerationLoads => GenerationLoads'

LEMMA UnchangedIsStill ==
  ASSUME UNCHANGED generationVars
  PROVE  Still /\ GenerationLoads' = GenerationLoads
<1>1. /\ stores' = stores /\ registrations' = registrations
      /\ combined' = combined /\ genManifest' = genManifest
  BY DEF generationVars, generation
<1>2. GenerationLoads' = GenerationLoads
  BY <1>1 DEF GenerationLoads, AllRows, GenManifest
<1>3. QED BY <1>1, <1>2 DEF Still

(* Parts of the invariant, as long as what they are about stays. *)
LEMMA MoneyStays ==
  ASSUME JInv, Still, finals' = finals, classes' = classes, paidPlan' = paidPlan,
         judged'.records = judged.records
  PROVE  /\ RowsStand'
         /\ Releasable => Releasable'
         /\ paidPlan' # Nothing => Releasable' /\ paidPlan'.pending = Requests'
         /\ \A u \in Units : /\ finals'[u] # Nothing => paidPlan' # Nothing /\ u \in ValidUnits'
                             /\ classes'[u] # Nothing => paidPlan' # Nothing /\ NeedsClass(u)'
<1>1. Releasable => Releasable'
  BY SameSource DEF Still, Releasable
<1>2. RowsStand'
  BY SameSource, SameRow DEF JInv, RowsStand, Still
<1>3. QED BY <1>1, <1>2, SameSource DEF JInv, Funded, Still

LEMMA FilesStay ==
  ASSUME JInv, Still, judged' = judged, quality' = quality, verdict' = verdict,
         artifact' = artifact, execution' = execution, validation' = validation
  PROVE  /\ FilesAs(judged', WholeOrder) /\ Frozen'
         /\ Weighed => Weighed'
         /\ Decided => Decided'
         /\ Issued => Issued'
         /\ Executed => Executed'
<1>1. Weighed => Weighed'
  BY SameQuality DEF Weighed, Still
<1>2. Decided => Decided'
  BY <1>1 DEF Decided, Still
<1>3. Issued => Issued'
  BY <1>2 DEF Issued
<1>4. Executed => Executed'
  BY <1>3 DEF Executed
<1>5. Validated => Validated'
  BY <1>4 DEF Validated
<1>6. QED BY <1>1, <1>2, <1>3, <1>4, <1>5 DEF JInv, JudgedFiles, Frozen

(* A step of the command that writes neither answers, rows nor release.    *)
LEMMA JMoves ==
  ASSUME JInv, Still, UNCHANGED <<money, judged, release>>,
         DOMAIN judge' = {"pc", "unit", "known", "asked"}, judge'.unit \in Nat,
         judge'.pc # "idle" => Releasable,
         judge'.pc \notin {"idle", "plan"} => paidPlan # Nothing,
         Progress', On("close")' => MergedAs(judged, WholeOrder),
         On("quality")' => ClosedAs(judged, WholeOrder), On("verdict")' => Weighed,
         judge'.pc \in {"last usage", "artifact"} => Decided /\ quality.passed,
         On("execution")' => Issued, On("validation")' => Executed
  PROVE  JInv'
<1>1. /\ finals' = finals /\ classes' = classes /\ paidPlan' = paidPlan /\ judged' = judged
      /\ quality' = quality /\ verdict' = verdict /\ artifact' = artifact
      /\ execution' = execution /\ validation' = validation
  BY DEF money, release
<1>2. JTyped'
  BY <1>1 DEF JInv, JTyped
<1>3. Funded' /\ RowsStand'
  BY <1>1, MoneyStays DEF Funded, On
<1>4. JudgedFiles' /\ Frozen'
  BY <1>1, FilesStay DEF JudgedFiles
<1>5. Standing'
  BY <1>1, FilesStay DEF Standing
<1>6. QED BY <1>2, <1>3, <1>4, <1>5 DEF JInv

LEMMA RetireStep ==
  ASSUME JInv, Still, Retire, UNCHANGED <<money, judged, release>>
  PROVE  JInv'
<1>1. /\ DOMAIN judge' = {"pc", "unit", "known", "asked"} /\ judge'.unit = 0 /\ judge'.pc = "idle"
  BY DEF Retire, Bench
<1>2. Progress'
  BY <1>1 DEF Progress, U, On
<1>3. QED BY <1>1, <1>2, JMoves DEF On

LEMMA GenerationKeepsJInv ==
  ASSUME GInv, JInv, NEW g \in Generators, GenerateStep(g), UNCHANGED adjudicationVars
  PROVE  JInv'
<1>1. /\ UNCHANGED <<money, judged, release>> /\ judge' = judge
      /\ finals' = finals /\ classes' = classes /\ paidPlan' = paidPlan /\ judged' = judged
      /\ quality' = quality /\ verdict' = verdict /\ artifact' = artifact
      /\ execution' = execution /\ validation' = validation
  BY DEF adjudicationVars, money, release
<1>2. CASE GenerationLoads
  <2>1. Still
    BY <1>2, LoadedRests, RestingLoads DEF Still, Resting
  <2>2. Progress'
    BY <1>1, <2>1, SameSource DEF JInv, Progress, U, On, Still
  <2>3. QED BY <1>1, <2>1, <2>2, JMoves DEF JInv, JTyped, Funded, JudgedFiles, Standing, On
<1>3. CASE ~GenerationLoads
  <2>1. /\ On("idle") /\ paidPlan = Nothing /\ DOMAIN judged.records = {}
        /\ quality = Nothing /\ verdict = Nothing /\ artifact = Nothing
        /\ execution = Nothing /\ validation = Nothing
        /\ \A u \in Units : finals[u] = Nothing /\ classes[u] = Nothing
    BY <1>3 DEF JInv, Funded, RowsStand, Frozen, Releasable, Validated, Executed, Issued, Decided, Weighed
  <2>2. JTyped' /\ Progress' /\ JudgedFiles'
    BY <1>1, <2>1 DEF JInv, JTyped, Progress, U, JudgedFiles, On
  <2>3. Funded' /\ RowsStand' /\ Frozen' /\ Standing'
    BY <1>1, <2>1 DEF Funded, RowsStand, Frozen, Standing, On
  <2>4. QED BY <2>2, <2>3 DEF JInv
<1>4. QED BY <1>2, <1>3

LEMMA InitJInv == Init => JInv
<1> SUFFICES ASSUME Init PROVE JInv
  OBVIOUS
<1>1. /\ judge = Bench /\ judged = EmptyStore /\ paidPlan = Nothing
      /\ finals = [u \in Units |-> Nothing] /\ classes = [u \in Units |-> Nothing]
      /\ quality = Nothing /\ verdict = Nothing /\ artifact = Nothing
      /\ execution = Nothing /\ validation = Nothing
  BY DEF Init
<1>2. /\ DOMAIN Bench = {"pc", "unit", "known", "asked"} /\ Bench.unit = 0 /\ Bench.pc = "idle"
  BY DEF Bench
<1>3. /\ DOMAIN EmptyStore = StoreFields /\ DOMAIN EmptyStore.records = {}
      /\ EmptyStore.merged = Nothing /\ EmptyStore.manifest = Nothing
  BY DEF EmptyStore, StoreFields
<1>4. JTyped
  BY <1>1, <1>2, <1>3 DEF JTyped
<1>5. Funded /\ RowsStand
  BY <1>1, <1>2, <1>3 DEF Funded, RowsStand, On
<1>6. Progress /\ JudgedFiles
  BY <1>1, <1>2, <1>3 DEF Progress, U, JudgedFiles, FilesAs, Final, On
<1>7. Frozen /\ Standing
  BY <1>1, <1>2 DEF Frozen, Standing, On
<1>8. QED BY <1>4, <1>5, <1>6, <1>7 DEF JInv

-----------------------------------------------------------------------------
(* Steps that move the command, the plan and the answers.                  *)

LEMMA QuietSteps ==
  ASSUME JInv, UNCHANGED generationVars, Begin \/ Open \/ WriteUsage \/ Kill
  PROVE  JInv'
<1>1. Still /\ UNCHANGED <<money, judged, release>>
  BY UnchangedIsStill DEF Begin, Open, WriteUsage, Kill
<1>2. /\ DOMAIN judge = {"pc", "unit", "known", "asked"} /\ judge.unit \in Nat
      /\ judged' = judged /\ combined' = combined /\ finals' = finals
  BY <1>1 DEF JInv, JTyped, money, Still
<1>3. CASE Begin
  <2>1. /\ DOMAIN judge' = {"pc", "unit", "known", "asked"} /\ judge'.unit = judge.unit
        /\ judge'.pc = "plan" /\ On("idle") /\ Releasable
    BY <1>2, <1>3 DEF Begin, Move, Releasable
  <2>2. Progress'
    BY <2>1 DEF JInv, Progress, On, U
  <2>3. QED BY <1>1, <1>2, <2>1, <2>2, JMoves DEF On
<1>4. CASE Open
  <2>1. /\ On("open") /\ Releasable /\ paidPlan # Nothing /\ U = 0
    BY <1>4 DEF Open, JInv, Funded, Progress, On
  <2>2. CASE judge' = Bench
    BY <1>1, <2>2, RetireStep DEF Retire
  <2>3. CASE Final(judged) /\ judge' = [judge EXCEPT !.pc = "quality"]
    <3>1. /\ DOMAIN judge' = {"pc", "unit", "known", "asked"} /\ judge'.unit = judge.unit
          /\ judge'.pc = "quality" /\ ClosedAs(judged, WholeOrder)
      BY <1>2, <2>3 DEF JInv, JudgedFiles, FilesAs
    <3>2. Progress'
      BY <3>1 DEF Progress, On, U
    <3>3. QED BY <1>1, <1>2, <2>1, <3>1, <3>2, JMoves DEF On
  <2>4. CASE judge' = [judge EXCEPT !.pc = "classify", !.known = DOMAIN judged.records]
    <3>1. /\ DOMAIN judge' = {"pc", "unit", "known", "asked"} /\ judge'.unit = 0
          /\ judge'.pc = "classify" /\ judge'.known = DOMAIN judged.records
      BY <1>2, <2>1, <2>4 DEF U
    <3>2. DOMAIN judged'.records = judge'.known \cup 0..(judge'.unit - 1)
      BY <1>2, <3>1
    <3>3. Progress'
      BY <3>1, <3>2 DEF Progress, On, U
    <3>4. QED BY <1>1, <1>2, <2>1, <3>1, <3>3, JMoves DEF On
  <2>5. QED BY <1>4, <2>2, <2>3, <2>4 DEF Open
<1>5. CASE WriteUsage /\ On("usage")
  <2>1. /\ DOMAIN judge' = {"pc", "unit", "known", "asked"} /\ judge'.unit = judge.unit + 1
        /\ judge'.pc = "classify" /\ judge'.known = judge.known
        /\ Releasable /\ paidPlan # Nothing
    BY <1>2, <1>5 DEF WriteUsage, JInv, Funded, On, U
  <2>2. DOMAIN judged'.records = judge'.known \cup 0..(judge'.unit - 1)
    BY <1>2, <1>5, <2>1 DEF JInv, Progress, On, U
  <2>3. Progress'
    BY <2>1, <2>2 DEF Progress, On, U
  <2>4. QED BY <1>1, <1>2, <2>1, <2>3, JMoves DEF On
<1>6. CASE WriteUsage /\ ~On("usage")
  <2>1. /\ DOMAIN judge' = {"pc", "unit", "known", "asked"} /\ judge'.unit = judge.unit
        /\ judge'.pc = "artifact" /\ Releasable /\ paidPlan # Nothing /\ Decided /\ quality.passed
    BY <1>2, <1>6 DEF WriteUsage, JInv, Funded, Standing, On
  <2>2. Progress'
    BY <2>1 DEF Progress, On, U
  <2>3. QED BY <1>1, <1>2, <2>1, <2>2, JMoves DEF On
<1>7. CASE Kill
  BY <1>1, <1>7, RetireStep DEF Kill
<1>8. QED BY <1>3, <1>4, <1>5, <1>6, <1>7

(* The plan lists every request, because nothing is paid without one.      *)
LEMMA FreezePaidPlanStep ==
  ASSUME AbsentFile, JInv, UNCHANGED generationVars, FreezePaidPlan
  PROVE  JInv'
<1>1. /\ Still /\ UNCHANGED <<judged, release>> /\ On("plan") /\ Releasable /\ U = 0
      /\ finals' = finals /\ classes' = classes /\ judged' = judged
      /\ quality' = quality /\ verdict' = verdict /\ artifact' = artifact
      /\ execution' = execution /\ validation' = validation
  BY UnchangedIsStill DEF FreezePaidPlan, JInv, Funded, Progress, On, release
<1>2. CASE paidPlan' = paidPlan /\ Retire
  BY <1>1, <1>2, RetireStep DEF money
<1>3. CASE /\ Move("open")
           /\ \/ paidPlan # Nothing /\ paidPlan' = paidPlan
              \/ paidPlan = Nothing /\ paidPlan' = [source |-> genManifest, pending |-> Unpaid]
  <2>1. /\ DOMAIN judge' = {"pc", "unit", "known", "asked"} /\ judge'.unit = 0 /\ judge'.pc = "open"
    BY <1>1, <1>3 DEF Move, JInv, JTyped, U
  <2>2. Unpaid = Requests \/ paidPlan # Nothing
    <3>1. ASSUME paidPlan = Nothing, NEW r \in Requests PROVE ~Stored(r)
      <4>1. CASE \E u \in ValidUnits : r = <<"final", u>>
        <5>1. PICK u \in Units : r = <<"final", u>>
          BY <4>1 DEF ValidUnits
        <5>2. finals[u] = Nothing
          BY <3>1 DEF JInv, Funded
        <5>3. QED BY <5>1, <5>2 DEF Stored
      <4>2. CASE \E u \in { v \in Units : NeedsClass(v) } : r = <<"class", u>>
        <5>1. PICK u \in Units : r = <<"class", u>>
          BY <4>2
        <5>2. classes[u] = Nothing
          BY <3>1 DEF JInv, Funded
        <5>3. QED BY <5>1, <5>2 DEF Stored
      <4>3. QED BY <4>1, <4>2 DEF Requests
    <3>2. QED BY <3>1 DEF Unpaid
  <2>3. paidPlan' # Nothing /\ paidPlan'.pending = Requests
    BY <1>3, <2>2 DEF AbsentFile, JInv, Funded
  <2>4. JTyped'
    BY <1>1, <2>1 DEF JInv, JTyped
  <2>5. Requests' = Requests /\ Releasable' /\ ValidUnits' = ValidUnits
        /\ \A u : NeedsClass(u)' = NeedsClass(u)
    BY <1>1, SameSource DEF Still, Releasable
  <2>6. Funded'
    BY <1>1, <2>1, <2>3, <2>5 DEF Funded, JInv, On
  <2>7. RowsStand'
    BY <1>1, <2>3, <2>5, SameRow DEF JInv, RowsStand, Still
  <2>8. Progress'
    BY <2>1 DEF Progress, On, U
  <2>9. JudgedFiles' /\ Frozen' /\ Standing'
    BY <1>1, <2>1, FilesStay DEF JudgedFiles, Standing, On
  <2>10. QED BY <2>4, <2>6, <2>7, <2>8, <2>9 DEF JInv
<1>4. QED BY <1>1, <1>2, <1>3 DEF FreezePaidPlan

(* An answer is stored of a unit that has no row yet.                      *)
LEMMA ClassifyStep ==
  ASSUME JInv, UNCHANGED generationVars, Classify
  PROVE  JInv'
<1>1. /\ Still /\ UNCHANGED <<judged, release>> /\ On("classify") /\ Releasable /\ U \in Units
      /\ paidPlan # Nothing /\ paidPlan' = paidPlan /\ finals' = finals /\ judged' = judged
      /\ quality' = quality /\ verdict' = verdict /\ artifact' = artifact
      /\ execution' = execution /\ validation' = validation
  BY UnchangedIsStill DEF Classify, JInv, Funded, On, release
<1>2. /\ DOMAIN judge' = {"pc", "unit", "known", "asked"} /\ judge'.unit = judge.unit
      /\ judge'.known = judge.known /\ judge'.pc = "judge" /\ judge.unit \in Nat
  BY DEF Classify, Move, JInv, JTyped
<1>3. Progress'
  BY <1>1, <1>2 DEF JInv, Progress, On, U
<1>4. CASE classes' = classes
  <2>1. UNCHANGED <<money, judged, release>>
    BY <1>1, <1>4 DEF money
  <2>2. QED BY <1>1, <1>2, <1>3, <2>1, JMoves DEF On
<1>5. CASE classes' # classes
  <2>1. NeedsClass(U) /\ ~Recorded(U)
    BY <1>5 DEF Classify
  <2>2. PICK c \in Classified : classes' = [classes EXCEPT ![U] = c]
    BY <1>5 DEF Classify
  <2>3. DOMAIN classes' = Units /\ \A u \in Units \ {U} : classes'[u] = classes[u]
    BY <2>2 DEF JInv, JTyped
  <2>4. U \notin DOMAIN judged.records
    <3>1. DOMAIN judged.records = judge.known \cup 0..(U - 1) /\ U \notin judge.known
      BY <1>1, <2>1 DEF JInv, Progress, Recorded, On
    <3>2. U \in Nat
      BY <1>2 DEF U
    <3>3. QED BY <3>1, <3>2
  <2>5. Requests' = Requests /\ Releasable' /\ ValidUnits' = ValidUnits
        /\ \A u : NeedsClass(u)' = NeedsClass(u)
    BY <1>1, SameSource DEF Still, Releasable
  <2>6. JTyped'
    BY <1>1, <1>2, <2>3 DEF JInv, JTyped
  <2>7. Funded'
    BY <1>1, <1>2, <2>1, <2>3, <2>5 DEF Funded, JInv, On
  <2>8. RowsStand'
    <3>1. ASSUME NEW u \in DOMAIN judged.records
          PROVE  RowFor(u)' = RowFor(u)
      <4>1. u \in Units \ {U}
        BY <2>4 DEF JInv, RowsStand
      <4>2. QED BY <1>1, <2>3, <4>1, SameRow DEF Still
    <3>2. QED BY <1>1, <2>5, <3>1 DEF JInv, RowsStand
  <2>9. JudgedFiles' /\ Frozen' /\ Standing'
    BY <1>1, <1>2, FilesStay DEF JudgedFiles, Standing, On
  <2>10. QED BY <1>3, <2>6, <2>7, <2>8, <2>9 DEF JInv
<1>6. QED BY <1>4, <1>5

LEMMA JudgeFinalStep ==
  ASSUME JInv, UNCHANGED generationVars, JudgeFinal
  PROVE  JInv'
<1>1. /\ Still /\ UNCHANGED <<judged, release>> /\ On("judge") /\ Releasable /\ U \in Units
      /\ paidPlan # Nothing /\ paidPlan' = paidPlan /\ classes' = classes /\ judged' = judged
      /\ quality' = quality /\ verdict' = verdict /\ artifact' = artifact
      /\ execution' = execution /\ validation' = validation
      /\ DOMAIN judged.records = judge.known \cup 0..(U - 1)
  BY UnchangedIsStill DEF JudgeFinal, JInv, Funded, Progress, On, release
<1>2. /\ DOMAIN judge' = {"pc", "unit", "known", "asked"} /\ judge'.unit = judge.unit
      /\ judge'.known = judge.known /\ judge'.pc = "commit" /\ judge.unit \in Nat /\ U' = U
  BY DEF JudgeFinal, Move, JInv, JTyped, U
<1>3. Requests' = Requests /\ Releasable' /\ ValidUnits' = ValidUnits
      /\ \A u : NeedsClass(u)' = NeedsClass(u)
  BY <1>1, SameSource DEF Still, Releasable
<1>4. U \in ValidUnits => finals'[U] # Nothing
  <2>1. CASE Recorded(U) /\ U \in ValidUnits
    <3>1. finals' = finals /\ U \in DOMAIN judged.records
      BY <1>1, <2>1 DEF JudgeFinal, Recorded
    <3>2. QED BY <2>1, <3>1 DEF JInv, RowsStand
  <2>2. CASE ~Recorded(U) /\ U \in ValidUnits
    <3>1. PICK m \in Answered : finals' = IF finals[U] = Nothing THEN [finals EXCEPT ![U] = m] ELSE finals
      BY <2>2 DEF JudgeFinal
    <3>2. m # Nothing
      BY AttritionAssumption
    <3>3. QED BY <1>1, <3>1, <3>2 DEF JInv, JTyped
  <2>3. QED BY <2>1, <2>2
<1>5. Progress'
  BY <1>1, <1>2, <1>3, <1>4 DEF Progress, On
<1>6. CASE finals' = finals
  <2>1. UNCHANGED <<money, judged, release>>
    BY <1>1, <1>6 DEF money
  <2>2. QED BY <1>1, <1>2, <1>5, <2>1, JMoves DEF On
<1>7. CASE finals' # finals
  <2>1. U \in ValidUnits /\ ~Recorded(U)
    BY <1>7 DEF JudgeFinal
  <2>2. PICK m \in Answered : finals' = [finals EXCEPT ![U] = m]
    BY <1>7 DEF JudgeFinal
  <2>3. DOMAIN finals' = Units /\ \A u \in Units \ {U} : finals'[u] = finals[u]
    BY <2>2 DEF JInv, JTyped
  <2>4. U \notin DOMAIN judged.records
    <3>1. U \notin judge.known /\ U \in Nat
      BY <1>2, <2>1 DEF Recorded, U
    <3>2. QED BY <1>1, <3>1
  <2>5. JTyped'
    BY <1>1, <1>2, <2>3 DEF JInv, JTyped
  <2>6. Funded'
    BY <1>1, <1>2, <1>3, <2>1, <2>3 DEF Funded, JInv, On
  <2>7. RowsStand'
    <3>1. ASSUME NEW u \in DOMAIN judged.records
          PROVE  RowFor(u)' = RowFor(u) /\ finals'[u] = finals[u]
      <4>1. u \in Units \ {U}
        BY <2>4 DEF JInv, RowsStand
      <4>2. QED BY <1>1, <2>3, <4>1, SameRow DEF Still
    <3>2. QED BY <1>1, <1>3, <3>1 DEF JInv, RowsStand
  <2>8. JudgedFiles' /\ Frozen' /\ Standing'
    BY <1>1, <1>2, FilesStay DEF JudgedFiles, Standing, On
  <2>9. QED BY <1>5, <2>5, <2>6, <2>7, <2>8 DEF JInv
<1>8. QED BY <1>6, <1>7

-----------------------------------------------------------------------------
(* Steps that write rows and close their store.                            *)

(* Before every unit has its row nothing is closed, let alone released.    *)
LEMMA Early ==
  ASSUME JInv, ~Whole(judged, WholeOrder)
  PROVE  /\ judged.merged = Nothing /\ ~Final(judged)
         /\ quality = Nothing /\ verdict = Nothing /\ artifact = Nothing
         /\ execution = Nothing /\ validation = Nothing
<1>1. ~MergedAs(judged, WholeOrder) /\ ~ClosedAs(judged, WholeOrder)
  BY DEF MergedAs, ClosedAs
<1>2. QED
  BY <1>1 DEF JInv, JudgedFiles, FilesAs, Frozen, Validated, Executed, Issued, Decided, Weighed

LEMMA CommitUnitStep ==
  ASSUME JInv, UNCHANGED generationVars, CommitUnit
  PROVE  JInv'
<1>1. /\ Still /\ UNCHANGED <<money, release>> /\ On("commit") /\ Releasable /\ U \in Units
      /\ paidPlan # Nothing /\ paidPlan' = paidPlan /\ finals' = finals /\ classes' = classes
      /\ quality' = quality /\ verdict' = verdict /\ artifact' = artifact
      /\ execution' = execution /\ validation' = validation
      /\ DOMAIN judged.records = judge.known \cup 0..(U - 1)
      /\ (U \in ValidUnits => finals[U] # Nothing)
      /\ DOMAIN judged = StoreFields
      /\ DOMAIN judge = {"pc", "unit", "known", "asked"} /\ judge.unit \in Nat
  BY UnchangedIsStill DEF CommitUnit, JInv, JTyped, Funded, Progress, On, release, money
<1>2. CASE Retire /\ judged' = judged
  BY <1>1, <1>2, RetireStep
<1>3. CASE /\ judged' = WithRecord(judged, U, RowFor(U))
           /\ judge' = IF Recorded(U) THEN [judge EXCEPT !.pc = "classify", !.unit = U + 1]
                       ELSE [judge EXCEPT !.pc = "usage"]
  <2>1. /\ DOMAIN judge' = {"pc", "unit", "known", "asked"} /\ judge'.known = judge.known
        /\ judge'.pc = IF Recorded(U) THEN "classify" ELSE "usage"
        /\ judge'.unit = (IF Recorded(U) THEN U + 1 ELSE U) /\ judge'.unit \in Nat
    BY <1>1, <1>3 DEF U
  <2>2. /\ DOMAIN judged'.records = DOMAIN judged.records \cup {U}
        /\ \A u \in DOMAIN judged.records : judged'.records[u] = judged.records[u]
        /\ U \notin DOMAIN judged.records => judged'.records[U] = RowFor(U)
        /\ DOMAIN judged' = StoreFields
        /\ judged'.merged = judged.merged /\ judged'.manifest = judged.manifest
    <3>1. CASE U \in DOMAIN judged.records
      BY <1>1, <1>3, <3>1 DEF WithRecord
    <3>2. CASE U \notin DOMAIN judged.records
      <4>1. judged' = [judged EXCEPT !.records =
                         [i \in DOMAIN @ \cup {U} |-> IF i = U THEN RowFor(U) ELSE @[i]]]
        BY <1>3, <3>2 DEF WithRecord
      <4>2. /\ DOMAIN judged' = StoreFields
            /\ judged'.merged = judged.merged /\ judged'.manifest = judged.manifest
            /\ judged'.records = [i \in DOMAIN judged.records \cup {U} |->
                                    IF i = U THEN RowFor(U) ELSE judged.records[i]]
        BY <1>1, <4>1 DEF StoreFields
      <4>3. QED BY <3>2, <4>2
    <3>3. QED BY <3>1, <3>2
  <2>3. Requests' = Requests /\ Releasable' /\ ValidUnits' = ValidUnits
        /\ \A u : NeedsClass(u)' = NeedsClass(u)
    BY <1>1, SameSource DEF Still, Releasable
  <2>4. JTyped'
    BY <1>1, <2>1, <2>2 DEF JInv, JTyped
  <2>5. Funded'
    BY <1>1, <2>3 DEF Funded, JInv, On
  <2>6. RowsStand'
    <3>1. \A u : RowFor(u)' = RowFor(u)
      BY <1>1, SameRow DEF Still
    <3>2. DOMAIN judged'.records \subseteq Units
      BY <1>1, <2>2 DEF JInv, RowsStand
    <3>3. ASSUME NEW u \in DOMAIN judged'.records
          PROVE  judged'.records[u] = RowFor(u) /\ (u \in ValidUnits => finals[u] # Nothing)
      BY <1>1, <2>2 DEF JInv, RowsStand
    <3>4. QED BY <1>1, <2>3, <3>1, <3>2, <3>3 DEF RowsStand
  <2>7. Progress'
    <3>1. U \in Nat
      BY <1>1 DEF U
    <3>2. DOMAIN judged'.records = judge.known \cup 0..U
      BY <1>1, <2>2, <3>1
    <3>3. judge'.pc = "classify" => DOMAIN judged'.records = judge.known \cup 0..(judge'.unit - 1)
      BY <2>1, <3>1, <3>2
    <3>4. judge'.pc = "usage" => DOMAIN judged'.records = judge.known \cup 0..judge'.unit
      BY <2>1, <3>2
    <3>5. judge'.pc \in {"classify", "usage"}
      BY <2>1
    <3>6. QED BY <2>1, <3>3, <3>4, <3>5 DEF Progress, On, U
  <2>8. Standing' /\ ~On("close")'
    BY <2>1 DEF Standing, On
  <2>9. JudgedFiles' /\ Frozen'
    <3>1. CASE U \in DOMAIN judged.records
      <4>1. judged' = judged
        BY <1>3, <3>1 DEF WithRecord
      <4>2. QED BY <1>1, <2>8, <4>1, FilesStay DEF JudgedFiles
    <3>2. CASE U \notin DOMAIN judged.records
      <4>1. ~Whole(judged, WholeOrder)
        BY <1>1, <3>2, WholeUnits DEF Whole
      <4>2. judged.merged = Nothing /\ ~Final(judged)
            /\ quality = Nothing /\ verdict = Nothing /\ artifact = Nothing
            /\ execution = Nothing /\ validation = Nothing
        BY <4>1, Early
      <4>3. FilesAs(judged', WholeOrder)
        BY <2>2, <4>2 DEF FilesAs, Final
      <4>4. QED BY <1>1, <2>8, <4>2, <4>3 DEF JudgedFiles, Frozen
    <3>3. QED BY <3>1, <3>2
  <2>10. QED BY <2>4, <2>5, <2>6, <2>7, <2>8, <2>9 DEF JInv
<1>4. QED BY <1>2, <1>3 DEF CommitUnit

(* A file of the judged store is written; if the store was closed before,  *)
(* nothing changes.                                                        *)
LEMMA StoreWritten ==
  ASSUME JInv, Still, UNCHANGED <<money, release>>, DOMAIN judged' = StoreFields,
         judged'.records = judged.records, FilesAs(judged', WholeOrder),
         ClosedAs(judged, WholeOrder) =>
           ClosedAs(judged', WholeOrder) /\ judged'.merged = judged.merged
                                         /\ judged'.manifest = judged.manifest,
         NEW pc \in {"close", "quality"}, Move(pc), judge.pc \in {"classify", "close"},
         pc = "close" => MergedAs(judged', WholeOrder),
         pc = "quality" => ClosedAs(judged', WholeOrder)
  PROVE  JInv'
<1>1. /\ finals' = finals /\ classes' = classes /\ paidPlan' = paidPlan
      /\ quality' = quality /\ verdict' = verdict /\ artifact' = artifact
      /\ execution' = execution /\ validation' = validation
      /\ DOMAIN judge' = {"pc", "unit", "known", "asked"} /\ judge'.unit = judge.unit
      /\ judge.unit \in Nat /\ judge'.pc = pc
  BY DEF money, release, Move, JInv, JTyped
<1>2. JTyped'
  BY <1>1 DEF JInv, JTyped
<1>3. Releasable /\ paidPlan # Nothing
  BY DEF JInv, Funded, On
<1>4. Funded' /\ RowsStand'
  BY <1>1, <1>3, MoneyStays DEF Funded, On
<1>5. Progress'
  BY <1>1 DEF Progress, On, U
<1>6. JudgedFiles' /\ Standing'
  BY <1>1 DEF JudgedFiles, Standing, On
<1>7. Frozen'
  <2>1. Weighed => Weighed'
    BY <1>1, SameQuality DEF Weighed, Still
  <2>2. Decided => Decided'
    BY <1>1, <2>1 DEF Decided, Weighed, Still
  <2>3. Issued => Issued'
    BY <1>1, <2>2 DEF Issued, Decided, Weighed
  <2>4. Executed => Executed'
    BY <1>1, <2>3 DEF Executed
  <2>5. Validated => Validated'
    BY <1>1, <2>4 DEF Validated
  <2>6. QED BY <1>1, <2>1, <2>2, <2>3, <2>4, <2>5 DEF JInv, Frozen
<1>8. QED BY <1>2, <1>4, <1>5, <1>6, <1>7 DEF JInv

LEMMA MergeStep ==
  ASSUME JInv, UNCHANGED generationVars, Merge
  PROVE  JInv'
<1>1. /\ Still /\ UNCHANGED <<money, release>> /\ On("classify") /\ DOMAIN judged = StoreFields
  BY UnchangedIsStill DEF Merge, JInv, JTyped
<1>2. CASE Retire /\ judged' = judged
  BY <1>1, <1>2, RetireStep
<1>3. CASE MayMerge(judged, WholeOrder) /\ judged' = Merged(judged, WholeOrder) /\ Move("close")
  <2>1. /\ DOMAIN judged' = StoreFields /\ judged'.records = judged.records
        /\ judged'.manifest = judged.manifest /\ judged'.merged = RowsOf(judged, WholeOrder)
    BY <1>1, <1>3 DEF Merged, StoreFields
  <2>2. MergedAs(judged', WholeOrder)
    BY <1>3, <2>1 DEF MergedAs, MayMerge, Whole, RowsOf
  <2>3. ClosedAs(judged, WholeOrder) =>
          ClosedAs(judged', WholeOrder) /\ judged'.merged = judged.merged
    BY <2>1, <2>2 DEF ClosedAs, MergedAs, ManifestOf, RowsOf
  <2>4. FilesAs(judged', WholeOrder)
    BY <2>1, <2>2, <2>3 DEF FilesAs, Final, JInv, JudgedFiles
  <2>5. QED BY <1>1, <1>3, <2>1, <2>2, <2>3, <2>4, StoreWritten DEF On
<1>4. QED BY <1>2, <1>3 DEF Merge

LEMMA CloseStep ==
  ASSUME JInv, UNCHANGED generationVars, Close
  PROVE  JInv'
<1>1. /\ Still /\ UNCHANGED <<money, release>> /\ On("close") /\ DOMAIN judged = StoreFields
      /\ MergedAs(judged, WholeOrder)
  BY UnchangedIsStill DEF Close, JInv, JTyped, JudgedFiles
<1>2. CASE Retire /\ judged' = judged
  BY <1>1, <1>2, RetireStep
<1>3. CASE judged' = Closed(judged, WholeOrder) /\ Move("quality")
  <2>1. /\ DOMAIN judged' = StoreFields /\ judged'.records = judged.records
        /\ judged'.merged = judged.merged /\ judged'.manifest = ManifestOf(judged, WholeOrder)
    BY <1>1, <1>3 DEF Closed, StoreFields
  <2>2. ClosedAs(judged', WholeOrder)
    BY <1>1, <2>1 DEF ClosedAs, MergedAs, Whole, RowsOf, ManifestOf
  <2>3. FilesAs(judged', WholeOrder)
    BY <2>2 DEF FilesAs, ClosedAs
  <2>4. ClosedAs(judged, WholeOrder) => judged'.manifest = judged.manifest
    BY <2>1 DEF ClosedAs
  <2>5. QED BY <1>1, <1>3, <2>1, <2>2, <2>3, <2>4, StoreWritten DEF On
<1>4. QED BY <1>2, <1>3 DEF Close

-----------------------------------------------------------------------------
(* Steps that freeze a file of the release.                                *)

Late == {"verdict", "last usage", "artifact", "execution", "validation"}

LEMMA ReleaseWritten ==
  ASSUME JInv, Still, UNCHANGED <<money, judged>>, judge.pc \notin {"idle", "plan"},
         \/ Retire
         \/ \E pc \in Late : Move(pc),
         Frozen', Standing'
  PROVE  JInv'
<1>1. /\ finals' = finals /\ classes' = classes /\ paidPlan' = paidPlan /\ judged' = judged
      /\ Releasable /\ paidPlan # Nothing
  BY DEF money, JInv, Funded, On
<1>2. /\ DOMAIN judge' = {"pc", "unit", "known", "asked"} /\ judge'.unit \in Nat
      /\ judge'.pc \in Late \cup {"idle"} /\ (judge'.pc = "idle" => judge'.unit = 0)
  <2>1. CASE Retire
    BY <2>1 DEF Retire, Bench
  <2>2. CASE \E pc \in Late : Move(pc)
    BY <2>2 DEF Move, Late, JInv, JTyped
  <2>3. QED BY <2>1, <2>2
<1>3. JTyped'
  BY <1>1, <1>2 DEF JInv, JTyped
<1>4. Funded' /\ RowsStand'
  BY <1>1, MoneyStays DEF Funded, On
<1>5. Progress'
  BY <1>2 DEF Progress, On, U, Late
<1>6. JudgedFiles'
  BY <1>1, <1>2 DEF JInv, JudgedFiles, On, Late
<1>7. QED BY <1>3, <1>4, <1>5, <1>6 DEF JInv

LEMMA FreezeQualityStep ==
  ASSUME JInv, UNCHANGED generationVars, FreezeQuality
  PROVE  JInv'
<1>1. /\ Still /\ UNCHANGED <<money, judged>> /\ On("quality") /\ ClosedAs(judged, WholeOrder)
      /\ Releasable /\ verdict' = verdict /\ artifact' = artifact
      /\ execution' = execution /\ validation' = validation
  BY UnchangedIsStill DEF FreezeQuality, JInv, Funded, Standing, On
<1>2. CASE Retire /\ quality' = quality
  BY <1>1, <1>2, RetireStep DEF release
<1>3. CASE quality' = QualityOf(judged.merged) /\ Move("verdict")
  <2>1. Weighed'
    BY <1>1, <1>3, SameQuality DEF Weighed, Still, Releasable
  <2>2. Weighed => quality' = quality
    BY <1>3 DEF Weighed
  <2>3. Decided => Decided'
    BY <1>1, <2>1, <2>2 DEF Decided, Still
  <2>4. Issued => Issued'
    BY <1>1, <2>2, <2>3 DEF Issued, Decided
  <2>5. Executed => Executed'
    BY <1>1, <2>4 DEF Executed
  <2>6. Validated => Validated'
    BY <1>1, <2>5 DEF Validated
  <2>7. Frozen'
    BY <1>1, <2>1, <2>3, <2>4, <2>5, <2>6 DEF JInv, Frozen
  <2>8. Standing'
    BY <1>3, <2>1 DEF Standing, Move, On, JInv, JTyped
  <2>9. QED BY <1>1, <1>3, <2>7, <2>8, ReleaseWritten DEF Late, On
<1>4. QED BY <1>2, <1>3 DEF FreezeQuality

LEMMA FreezeVerdictStep ==
  ASSUME JInv, UNCHANGED generationVars, FreezeVerdict
  PROVE  JInv'
<1> DEFINE content == [source |-> genManifest, store |-> judged.manifest, quality |-> quality]
<1>1. /\ Still /\ UNCHANGED <<money, judged>> /\ On("verdict") /\ Weighed
      /\ quality' = quality /\ artifact' = artifact
      /\ execution' = execution /\ validation' = validation /\ judged' = judged
  BY UnchangedIsStill DEF FreezeVerdict, JInv, Standing
<1>2. CASE Retire /\ verdict' = verdict
  BY <1>1, <1>2, RetireStep DEF release
<1>3. CASE verdict' = content /\ IF quality.passed THEN Move("last usage") ELSE Retire
  <2>1. Weighed'
    BY <1>1, SameQuality DEF Weighed, Still
  <2>2. Decided'
    BY <1>1, <1>3, <2>1 DEF Decided, Still
  <2>3. Issued => Issued'
    BY <1>1, <2>2 DEF Issued
  <2>4. Executed => Executed' /\ verdict' = verdict
    BY <1>1, <1>3, <2>3 DEF Executed, Issued, Decided
  <2>5. Validated => Validated'
    BY <1>1, <2>4 DEF Validated
  <2>6. Frozen'
    BY <1>1, <2>1, <2>2, <2>3, <2>4, <2>5 DEF JInv, Frozen
  <2>7. Standing'
    <3>1. CASE quality.passed
      <4>1. judge'.pc = "last usage"
        BY <1>3, <3>1 DEF Move, JInv, JTyped
      <4>2. QED BY <1>1, <2>2, <3>1, <4>1 DEF Standing, On
    <3>2. CASE ~quality.passed
      <4>1. judge'.pc = "idle"
        BY <1>3, <3>2 DEF Retire, Bench
      <4>2. QED BY <4>1 DEF Standing, On
    <3>3. QED BY <3>1, <3>2
  <2>8. QED BY <1>1, <1>3, <2>6, <2>7, ReleaseWritten DEF Late, On
<1>4. QED BY <1>2, <1>3 DEF FreezeVerdict

LEMMA FreezeArtifactStep ==
  ASSUME JInv, UNCHANGED generationVars, FreezeArtifact
  PROVE  JInv'
<1>1. /\ Still /\ UNCHANGED <<money, judged>> /\ On("artifact") /\ Decided /\ quality.passed
      /\ quality' = quality /\ verdict' = verdict
      /\ execution' = execution /\ validation' = validation /\ judged' = judged
  BY UnchangedIsStill DEF FreezeArtifact, JInv, Standing, On
<1>2. CASE Retire /\ artifact' = artifact
  BY <1>1, <1>2, RetireStep DEF release
<1>3. CASE Inventoried(judged.merged) /\ artifact' = judged.merged /\ Move("execution")
  <2>1. Weighed'
    BY <1>1, SameQuality DEF Weighed, Still, Decided
  <2>2. Decided'
    BY <1>1, <2>1 DEF Decided, Still
  <2>3. Issued'
    BY <1>1, <1>3, <2>2 DEF Issued
  <2>4. Executed => Executed' /\ artifact' = artifact
    BY <1>1, <1>3, <2>3 DEF Executed, Issued
  <2>5. Validated => Validated'
    BY <1>1, <2>4 DEF Validated
  <2>6. Frozen'
    BY <1>1, <2>1, <2>2, <2>3, <2>4, <2>5 DEF JInv, Frozen
  <2>7. Standing'
    BY <1>3, <2>3 DEF Standing, Move, On, JInv, JTyped
  <2>8. QED BY <1>1, <1>3, <2>6, <2>7, ReleaseWritten DEF Late, On
<1>4. QED BY <1>2, <1>3 DEF FreezeArtifact

LEMMA FreezeExecutionStep ==
  ASSUME AbsentFile, JInv, UNCHANGED generationVars, FreezeExecution
  PROVE  JInv'
<1>1. /\ Still /\ UNCHANGED <<money, judged>> /\ On("execution") /\ Issued
      /\ quality' = quality /\ verdict' = verdict /\ artifact' = artifact
      /\ validation' = validation /\ judged' = judged
  BY UnchangedIsStill DEF FreezeExecution, JInv, Standing
<1>2. CASE Retire /\ execution' = execution
  BY <1>1, <1>2, RetireStep DEF release
<1>3. CASE Verifies(execution, ExecutionOf) /\ execution' = ExecutionOf /\ Move("validation")
  <2>1. Weighed'
    BY <1>1, SameQuality DEF Weighed, Still, Issued, Decided
  <2>2. Issued'
    BY <1>1, <2>1 DEF Issued, Decided, Still
  <2>3. execution' # Nothing /\ execution'.artifact = artifact /\ execution'.verdict = verdict
    BY <1>3 DEF AbsentFile, ExecutionOf
  <2>4. Executed'
    BY <1>1, <2>2, <2>3 DEF Executed
  <2>5. Validated => execution' = execution
    BY <1>3 DEF Validated, Executed, Verifies
  <2>6. Validated => Validated'
    BY <1>1, <2>4, <2>5 DEF Validated
  <2>7. Frozen'
    BY <1>1, <2>1, <2>2, <2>4, <2>6 DEF JInv, Frozen, Issued
  <2>8. Standing'
    BY <1>3, <2>4 DEF Standing, Move, On, JInv, JTyped
  <2>9. QED BY <1>1, <1>3, <2>7, <2>8, ReleaseWritten DEF Late, On
<1>4. QED BY <1>2, <1>3 DEF FreezeExecution

LEMMA FreezeValidationStep ==
  ASSUME JInv, UNCHANGED generationVars, FreezeValidation
  PROVE  JInv'
<1> DEFINE content == [artifact |-> artifact, execution |-> execution]
<1>1. /\ Still /\ UNCHANGED <<money, judged>> /\ On("validation") /\ Executed /\ Retire
      /\ quality' = quality /\ verdict' = verdict /\ artifact' = artifact
      /\ execution' = execution /\ judged' = judged
      /\ validation' = IF Verifies(validation, content) THEN content ELSE validation
  BY UnchangedIsStill DEF FreezeValidation, JInv, Standing
<1>2. Weighed'
  BY <1>1, SameQuality DEF Weighed, Still, Executed, Issued, Decided
<1>3. Executed'
  BY <1>1, <1>2 DEF Executed, Issued, Decided, Still
<1>4. validation' # Nothing => Validated'
  BY <1>1, <1>3 DEF Validated, JInv, Frozen
<1>5. Frozen'
  BY <1>3, <1>4 DEF Frozen, Executed, Issued, Decided
<1>6. Standing'
  BY <1>1 DEF Standing, Retire, Bench, On
<1>7. QED BY <1>1, <1>5, <1>6, ReleaseWritten DEF On

LEMMA NextJInv ==
  ASSUME AbsentFile
  PROVE  GInv /\ JInv /\ [Next]_vars => JInv'
<1> SUFFICES ASSUME GInv, JInv, [Next]_vars PROVE JInv'
  OBVIOUS
<1>1. ASSUME NEW g \in Generators, GenerateStep(g), UNCHANGED adjudicationVars
      PROVE  JInv'
  BY <1>1, GenerationKeepsJInv
<1>2. CASE Adjudication /\ UNCHANGED generationVars
  BY <1>2, QuietSteps, FreezePaidPlanStep, ClassifyStep, JudgeFinalStep, CommitUnitStep, MergeStep,
     CloseStep, FreezeQualityStep, FreezeVerdictStep, FreezeArtifactStep, FreezeExecutionStep,
     FreezeValidationStep DEF Adjudication
<1>3. CASE UNCHANGED vars
  <2>1. UNCHANGED generationVars /\ UNCHANGED <<money, judged, release>> /\ judge' = judge
        /\ judged' = judged /\ finals' = finals /\ combined' = combined
    BY <1>3 DEF vars, adjudicationVars, money, generationVars, generation
  <2>2. Still
    BY <2>1, UnchangedIsStill
  <2>3. Progress'
    BY <2>1, SameSource DEF JInv, Progress, On, U
  <2>4. QED BY <2>1, <2>2, <2>3, JMoves DEF JInv, JTyped, Funded, JudgedFiles, Standing, On
<1>4. QED BY <1>1, <1>2, <1>3 DEF Next

(* Killed and repeated at any step, the adjudication command pays by one   *)
(* plan, judges a unit once, and freezes files that follow from each other.*)
THEOREM AdjudicationInvariance == ASSUME AbsentFile PROVE Spec => []JInv
<1>1. GInv /\ JInv /\ [Next]_vars => JInv'
  BY NextJInv
<1>2. QED BY <1>1, InitJInv, GenerationInvariance, PTL DEF Spec

-----------------------------------------------------------------------------
(* What the release can rely on.                                           *)

(* resample-adjudicate of cli.py: nothing is paid for a generation that    *)
(* fails an attrition gate, nor beside the frozen plan.                    *)
THEOREM PaidIsReleasableSafe == ASSUME AbsentFile PROVE Spec => []PaidIsReleasable
<1>1. JInv => PaidIsReleasable
  <2> SUFFICES ASSUME JInv PROVE PaidIsReleasable
    OBVIOUS
  <2> DEFINE paid == { <<"final", u>> : u \in { v \in Units : finals[v] # Nothing } }
                       \cup { <<"class", u>> : u \in { v \in Units : classes[v] # Nothing } }
  <2>1. ASSUME NEW r \in paid
        PROVE  r \in Requests /\ paidPlan # Nothing
    <3>1. CASE \E u \in Units : finals[u] # Nothing /\ r = <<"final", u>>
      BY <3>1 DEF JInv, Funded, Requests
    <3>2. CASE \E u \in Units : classes[u] # Nothing /\ r = <<"class", u>>
      BY <3>2 DEF JInv, Funded, Requests
    <3>3. QED BY <3>1, <3>2
  <2>2. paidPlan # Nothing => GenerationLoads /\ AttritionGate /\ paidPlan.pending = Requests
    BY DEF JInv, Funded, Releasable
  <2>3. paid # {} => /\ GenerationLoads /\ AttritionGate
                     /\ paid \subseteq Requests /\ paid \subseteq paidPlan.pending
    <3> HIDE DEF paid
    <3>1. QED BY <2>1, <2>2
  <2>4. QED BY <2>3 DEF PaidIsReleasable
<1>2. QED BY <1>1, AdjudicationInvariance, PTL

(* A closed store holds of every unit what its stored answers say.         *)
LEMMA ClosedRows ==
  ASSUME JInv, ClosedAs(judged, WholeOrder), NEW u \in Units
  PROVE  /\ u + 1 \in DOMAIN judged.merged /\ judged.merged[u + 1] = RowFor(u)
         /\ u \in ValidUnits <=> finals[u] # Nothing
<1>1. /\ DOMAIN judged.records = Units /\ judged.merged = RowsOf(judged, WholeOrder)
  BY WholeUnits DEF ClosedAs, MergedAs, Whole
<1>2. u + 1 \in DOMAIN judged.merged /\ judged.merged[u + 1] = judged.records[u]
  BY <1>1, WholeUnits DEF RowsOf
<1>3. judged.records[u] = RowFor(u) /\ (u \in ValidUnits => finals[u] # Nothing)
  BY <1>1 DEF JInv, RowsStand
<1>4. finals[u] # Nothing => u \in ValidUnits
  BY DEF JInv, Funded
<1>5. QED BY <1>2, <1>3, <1>4

-----------------------------------------------------------------------------
(* Classifiers come before judges, unit by unit, in every command.         *)
Classed == \A u \in Units : finals[u] # Nothing /\ NeedsClass(u) => classes[u] # Nothing
ClassFirst == Classed /\ (On("judge") /\ NeedsClass(U) => classes[U] # Nothing)

LEMMA ClassifyFirst ==
  ASSUME JInv, ClassFirst, UNCHANGED generationVars, Classify
  PROVE  ClassFirst' /\ \A u \in Units : finals[u] # Nothing => classes'[u] = classes[u]
<1>1. /\ finals' = finals /\ judged' = judged /\ On("classify") /\ U \in Units /\ U' = U
      /\ \A u : NeedsClass(u)' = NeedsClass(u)
  BY UnchangedIsStill, SameSource DEF Classify, Move, JInv, JTyped, U, Still
<1>2. CASE NeedsClass(U) /\ ~Recorded(U)
  <2>1. PICK c \in Classified :
          classes' = IF classes[U] = Nothing THEN [classes EXCEPT ![U] = c] ELSE classes
    BY <1>2 DEF Classify
  <2>2. c # Nothing
    BY AttritionAssumption
  <2>3. \A u \in Units : classes[u] # Nothing => classes'[u] = classes[u]
    BY <2>1 DEF JInv, JTyped
  <2>4. classes'[U] # Nothing /\ \A u \in Units \ {U} : classes'[u] = classes[u]
    BY <1>1, <2>1, <2>2 DEF JInv, JTyped
  <2>5. finals[U] # Nothing => classes[U] # Nothing
    BY <1>1, <1>2 DEF ClassFirst, Classed
  <2> QED
    BY <1>1, <2>3, <2>4, <2>5 DEF ClassFirst, Classed
<1>3. CASE ~(NeedsClass(U) /\ ~Recorded(U))
  <2>1. classes' = classes
    BY <1>3 DEF Classify
  <2>2. NeedsClass(U) => U \in DOMAIN judged.records
    BY <1>1, <1>3 DEF Recorded, JInv, Progress, On
  <2>3. NeedsClass(U) => finals[U] # Nothing
    BY <1>1, <2>2 DEF JInv, RowsStand, NeedsClass, ValidUnits
  <2> QED
    BY <1>1, <2>1, <2>3 DEF ClassFirst, Classed
<1> QED
  BY <1>2, <1>3

LEMMA JudgeAfter ==
  ASSUME JInv, ClassFirst, UNCHANGED generationVars, JudgeFinal
  PROVE  ClassFirst' /\ classes' = classes
<1>1. /\ classes' = classes /\ On("judge") /\ U \in Units /\ ~On("judge")'
      /\ \A u : NeedsClass(u)' = NeedsClass(u)
      /\ \A u \in Units \ {U} : finals'[u] = finals[u]
  BY UnchangedIsStill, SameSource DEF JudgeFinal, Move, On, JInv, JTyped, Progress, Still
<1> QED
  BY <1>1 DEF ClassFirst, Classed

LEMMA FirstStays ==
  ASSUME JInv, ClassFirst, Still, finals' = finals, classes' = classes,
         On("judge")' => On("judge") /\ U' = U
  PROVE  ClassFirst'
BY SameSource DEF ClassFirst, Classed, Still

LEMMA FirstStep ==
  ASSUME GInv, JInv, ClassFirst, [Next]_vars
  PROVE  ClassFirst' /\ \A u \in Units : finals[u] # Nothing => classes'[u] = classes[u]
<1>1. CASE UNCHANGED adjudicationVars /\ \E g \in Generators : GenerateStep(g)
  <2>1. finals' = finals /\ classes' = classes /\ judge' = judge
    BY <1>1 DEF adjudicationVars, money
  <2>2. CASE GenerationLoads
    <3>1. Still
      BY <1>1, <2>2, LoadedRests, RestingLoads DEF Still, Resting
    <3> QED
      BY <2>1, <3>1, FirstStays DEF On, U
  <2>3. CASE ~GenerationLoads
    <3>1. ~On("judge") /\ \A u \in Units : finals[u] = Nothing
      BY <2>3 DEF JInv, Funded, Releasable, On
    <3> QED
      BY <2>1, <3>1 DEF ClassFirst, Classed, On
  <2> QED
    BY <2>2, <2>3
<1>2. CASE UNCHANGED vars
  <2>1. /\ UNCHANGED generationVars /\ finals' = finals /\ classes' = classes /\ judge' = judge
    BY <1>2 DEF vars, adjudicationVars, money
  <2> QED
    BY <2>1, UnchangedIsStill, FirstStays DEF On, U
<1>3. CASE Classify /\ UNCHANGED generationVars
  BY <1>3, ClassifyFirst
<1>4. CASE JudgeFinal /\ UNCHANGED generationVars
  BY <1>4, JudgeAfter
<1>5. CASE Adjudication /\ UNCHANGED generationVars /\ ~Classify /\ ~JudgeFinal
  <2>1. finals' = finals /\ classes' = classes /\ Still
    BY <1>5, UnchangedIsStill DEF Adjudication, Begin, FreezePaidPlan, Open, CommitUnit, WriteUsage, Merge,
       Close, FreezeQuality, FreezeVerdict, FreezeArtifact, FreezeExecution, FreezeValidation, Kill, money
  <2>2. ~On("judge")'
    <3> USE DEF Move, Retire, Bench, On
    <3>1. DOMAIN judge = {"pc", "unit", "known", "asked"}
      BY DEF JInv, JTyped
    <3>2. CASE Begin \/ FreezePaidPlan \/ Kill
      BY <3>1, <3>2 DEF Begin, FreezePaidPlan, Kill
    <3>3. CASE Open
      <4>1. \/ judge' = Bench \/ judge' = [judge EXCEPT !.pc = "quality"]
            \/ judge' = [judge EXCEPT !.pc = "classify", !.known = DOMAIN judged.records]
        BY <3>3 DEF Open
      <4>2. judge'.pc \in {"idle", "quality", "classify"}
        <5>1. CASE judge' = Bench
          BY <5>1
        <5>2. CASE judge' = [judge EXCEPT !.pc = "quality"]
          BY <3>1, <5>2
        <5>3. CASE judge' = [judge EXCEPT !.pc = "classify", !.known = DOMAIN judged.records]
          BY <3>1, <5>3
        <5> QED
          BY <4>1, <5>1, <5>2, <5>3
      <4> QED
        BY <4>2
    <3>4. CASE CommitUnit
      <4>1. \/ judge' = Bench \/ judge' = [judge EXCEPT !.pc = "usage"]
            \/ judge' = [judge EXCEPT !.pc = "classify", !.unit = U + 1]
        BY <3>4 DEF CommitUnit
      <4>2. judge'.pc \in {"idle", "usage", "classify"}
        <5>1. CASE judge' = Bench
          BY <5>1
        <5>2. CASE judge' = [judge EXCEPT !.pc = "usage"]
          BY <3>1, <5>2
        <5>3. CASE judge' = [judge EXCEPT !.pc = "classify", !.unit = U + 1]
          BY <3>1, <5>3
        <5> QED
          BY <4>1, <5>1, <5>2, <5>3
      <4> QED
        BY <4>2
    <3>5. CASE WriteUsage
      <4>1. \/ judge' = [judge EXCEPT !.pc = "classify", !.unit = U + 1]
            \/ judge' = [judge EXCEPT !.pc = "artifact"]
        BY <3>5 DEF WriteUsage
      <4>2. judge'.pc \in {"classify", "artifact"}
        <5>1. CASE judge' = [judge EXCEPT !.pc = "classify", !.unit = U + 1]
          BY <3>1, <5>1
        <5>2. CASE judge' = [judge EXCEPT !.pc = "artifact"]
          BY <3>1, <5>2
        <5> QED
          BY <4>1, <5>1, <5>2
      <4> QED
        BY <4>2
    <3>6. CASE Merge \/ Close
      BY <3>1, <3>6 DEF Merge, Close
    <3>7. CASE FreezeQuality \/ FreezeVerdict
      <4>1. judge' = [judge EXCEPT !.pc = "verdict"] \/ judge' = [judge EXCEPT !.pc = "last usage"] \/ judge' = Bench
        BY <3>7 DEF FreezeQuality, FreezeVerdict
      <4>2. judge'.pc \in {"idle", "verdict", "last usage"}
        <5>1. CASE judge' = Bench
          BY <5>1
        <5>2. CASE judge' = [judge EXCEPT !.pc = "verdict"]
          BY <3>1, <5>2
        <5>3. CASE judge' = [judge EXCEPT !.pc = "last usage"]
          BY <3>1, <5>3
        <5> QED
          BY <4>1, <5>1, <5>2, <5>3
      <4> QED
        BY <4>2
    <3>8. CASE FreezeArtifact \/ FreezeExecution \/ FreezeValidation
      BY <3>1, <3>8 DEF FreezeArtifact, FreezeExecution, FreezeValidation
    <3> QED
      BY <1>5, <3>2, <3>3, <3>4, <3>5, <3>6, <3>7, <3>8 DEF Adjudication
  <2> QED
    BY <2>1, <2>2, FirstStays
<1> QED
  BY <1>1, <1>2, <1>3, <1>4, <1>5 DEF Next

(* adjudicate_sentence_resampling_intermediates: the classification that   *)
(* lets a pair enter the analysis is made before the unit's final is asked *)
(* for, and is never made again, through kills and repeated commands.      *)
THEOREM EligibilityFirstSafe == ASSUME AbsentFile PROVE Spec => EligibilityFirst
<1>1. Init => ClassFirst
  BY DEF Init, ClassFirst, Classed, On, Bench
<1>2. GInv /\ JInv /\ ClassFirst /\ [Next]_vars => ClassFirst'
  BY FirstStep
<1>3. GInv /\ JInv /\ ClassFirst /\ [Next]_vars =>
        [\A u \in Units : finals[u] # Nothing => classes'[u] = classes[u]]_vars
  BY FirstStep
<1> QED
  BY <1>1, <1>2, <1>3, GenerationInvariance, AdjudicationInvariance, PTL DEF Spec, EligibilityFirst

LEMMA UnitsFinite ==
  /\ Cardinality(Units) = 2 * StageSize
  /\ \A S \in SUBSET Units : Cardinality(S) \in Nat
<1>1. 0 \in Int /\ 2 * StageSize - 1 \in Int /\ Units = 0..(2 * StageSize - 1) /\ 2 * StageSize \in Nat
  BY Sizes, WholeUnits
<1>2. IsFiniteSet(Units) /\ Cardinality(Units) = 2 * StageSize
  BY <1>1, FS_Interval
<1>3. QED BY <1>2, FS_Subset, FS_CardinalityType

(* A validated release names one generation, unit by unit, with the        *)
(* answers that were stored, and passed the gates over every valid unit.   *)
THEOREM ReleaseIsFaithfulSafe == ASSUME AbsentFile PROVE Spec => []ReleaseIsFaithful
<1>1. ASSUME AbsentFile PROVE JInv => ReleaseIsFaithful
  <2> SUFFICES ASSUME JInv, validation # Nothing PROVE ReleaseIsFaithful
    BY DEF ReleaseIsFaithful
  <2>1. Validated /\ Executed /\ Issued /\ Decided /\ Weighed /\ ClosedAs(judged, WholeOrder)
    BY DEF JInv, Frozen, Validated, Executed, Issued, Decided, Weighed
  <2>2. /\ validation.artifact = artifact /\ validation.execution = execution
        /\ execution.artifact = artifact /\ execution.verdict = verdict
        /\ verdict.source = genManifest /\ GenerationLoads /\ artifact = judged.merged
    BY <2>1 DEF Validated, Executed, Issued, Decided, Weighed
  <2>3. LoadsFinal(judged, WholeOrder)
    <3>1. Final(judged)
      BY <1>1, <2>1 DEF AbsentFile, ClosedAs, ManifestOf, Final
    <3>2. QED BY <2>1, <3>1 DEF LoadsFinal, ClosedAs, MergedAs, Whole, RowsOf, ManifestOf
  <2>4. Len(artifact) = Cardinality(Units)
    BY <2>1, <2>2, UnitsFinite DEF Issued, Inventoried
  <2>5. \A u \in Units : artifact[u + 1] = RowFor(u)
    BY <2>1, <2>2, ClosedRows
  <2> DEFINE measured == [u \in { v \in Units : judged.merged[v + 1].final # Nothing } |->
                            judged.merged[u + 1].final]
  <2>6. MeasuredGate(measured)
    <3>1. quality.passed /\ quality = QualityOf(judged.merged)
      BY <2>1 DEF Issued, Weighed
    <3>2. quality = [rows |-> judged.merged, passed |-> AttritionGate /\ MeasuredGate(measured)]
      BY <3>1 DEF QualityOf
    <3> HIDE DEF measured
    <3>3. quality.passed = (AttritionGate /\ MeasuredGate(measured))
      BY <3>2
    <3>4. QED BY <3>1, <3>3
  <2>7. DOMAIN measured = ValidUnits /\ \A u \in ValidUnits : measured[u] = finals[u]
    <3>1. \A u \in Units : judged.merged[u + 1].final = finals[u]
      <4>1. \A u : RowFor(u).final = finals[u]
        BY DEF RowFor
      <4>2. QED BY <2>1, <4>1, ClosedRows
    <3>2. { v \in Units : judged.merged[v + 1].final # Nothing } = ValidUnits
      BY <2>1, <3>1, ClosedRows DEF ValidUnits
    <3>3. QED BY <3>1, <3>2 DEF ValidUnits
  <2>8. /\ { u \in DOMAIN measured : Exact(measured[u]) } = { u \in ValidUnits : Exact(finals[u]) }
        /\ { u \in DOMAIN measured : Known(measured[u]) } = { u \in ValidUnits : Known(finals[u]) }
    <3> HIDE DEF measured
    <3>1. QED BY <2>7
  <2> DEFINE exact == Cardinality({ u \in ValidUnits : Exact(finals[u]) })
             known == Cardinality({ u \in ValidUnits : Known(finals[u]) })
             valid == Cardinality(ValidUnits)
  <2>9. 100 * exact >= 90 * valid /\ 100 * known >= 95 * valid
    <3> HIDE DEF measured
    <3>1. QED BY <2>6, <2>7, <2>8
          DEF MeasuredGate, Reaches, Exacts, Knowns, Total, MinimumExactAgreement, MinimumFinalKnownRate
  <2>10. exact \in Nat /\ known \in Nat /\ valid \in Nat
    BY UnitsFinite DEF ValidUnits
  <2>11. 10 * exact >= 9 * valid /\ 20 * known >= 19 * valid
    <3> HIDE DEF exact, known, valid
    <3>1. QED BY <2>9, <2>10
  <2>12. QED BY <2>2, <2>3, <2>4, <2>5, <2>11 DEF ReleaseIsFaithful
<1>2. QED BY <1>1, AdjudicationInvariance, PTL

-----------------------------------------------------------------------------
(* What never changes again.                                               *)

LEMMA RestStep ==
  ASSUME GInv, GenerationLoads, [Next]_vars
  PROVE  Resting
<1>1. CASE UNCHANGED generationVars
  <2>1. /\ stores' = stores /\ registrations' = registrations
        /\ combined' = combined /\ genManifest' = genManifest
    BY <1>1 DEF generationVars, generation
  <2>2. QED BY <2>1 DEF Resting, GInv, GTyped
<1>2. CASE ~UNCHANGED generationVars
  BY <1>2, LoadedRests DEF Next, vars
<1>3. QED BY <1>1, <1>2

(* A generation that loads is over: stragglers and restarted commands find *)
(* nothing to write, and adjudication reads the same rows for ever.        *)
THEOREM GenerationIsOver == Spec => [][GenerationLoads => Resting]_vars
<1>1. GInv /\ [Next]_vars => [GenerationLoads => Resting]_vars
  BY RestStep
<1>2. QED BY <1>1, GenerationInvariance, PTL DEF Spec

(* A row, once committed, and every file of a validated release.           *)
RowsStay == \A u \in DOMAIN judged.records :
  u \in DOMAIN judged'.records /\ judged'.records[u] = judged.records[u]
ReleaseStays == validation # Nothing => UNCHANGED release

LEMMA RowsStayStep ==
  ASSUME JInv, [Next]_vars
  PROVE  RowsStay
<1>1. DOMAIN judged = StoreFields
  BY DEF JInv, JTyped
<1>2. CASE judged' = judged
  BY <1>2 DEF RowsStay
<1>3. CASE judged' = WithRecord(judged, U, RowFor(U)) /\ U \notin DOMAIN judged.records
  <2>1. judged' = [judged EXCEPT !.records =
                     [i \in DOMAIN @ \cup {U} |-> IF i = U THEN RowFor(U) ELSE @[i]]]
    BY <1>3 DEF WithRecord
  <2>2. judged'.records = [i \in DOMAIN judged.records \cup {U} |->
                              IF i = U THEN RowFor(U) ELSE judged.records[i]]
    BY <1>1, <2>1 DEF StoreFields
  <2>3. QED BY <1>3, <2>2 DEF RowsStay
<1>4. CASE judged' \in {Merged(judged, WholeOrder), Closed(judged, WholeOrder)}
  <2>1. judged'.records = judged.records
    BY <1>1, <1>4 DEF Merged, Closed, StoreFields
  <2>2. QED BY <2>1 DEF RowsStay
<1>5. CASE UNCHANGED adjudicationVars \/ UNCHANGED vars
  BY <1>2, <1>5 DEF adjudicationVars, vars
<1>6. CASE CommitUnit
  <2>1. U \in DOMAIN judged.records => WithRecord(judged, U, RowFor(U)) = judged
    BY DEF WithRecord
  <2>2. QED BY <1>2, <1>3, <1>6, <2>1 DEF CommitUnit
<1>7. CASE Merge \/ Close
  BY <1>2, <1>4, <1>7 DEF Merge, Close
<1>8. CASE Adjudication /\ ~CommitUnit /\ ~Merge /\ ~Close
  BY <1>2, <1>8 DEF Adjudication, Begin, FreezePaidPlan, Open, Classify, JudgeFinal, WriteUsage,
     FreezeQuality, FreezeVerdict, FreezeArtifact, FreezeExecution, FreezeValidation, Kill
<1>9. QED BY <1>5, <1>6, <1>7, <1>8 DEF Next

LEMMA ReleaseStaysStep ==
  ASSUME JInv, [Next]_vars
  PROVE  ReleaseStays
<1> SUFFICES ASSUME validation # Nothing PROVE UNCHANGED release
  BY DEF ReleaseStays
<1>1. Validated /\ Executed /\ Issued /\ Decided /\ Weighed
  BY DEF JInv, Frozen, Validated, Executed, Issued, Decided, Weighed
<1>2. CASE FreezeQuality
  BY <1>1, <1>2 DEF FreezeQuality, Weighed, release
<1>3. CASE FreezeVerdict
  BY <1>1, <1>3 DEF FreezeVerdict, Decided, release
<1>4. CASE FreezeArtifact
  BY <1>1, <1>4 DEF FreezeArtifact, Issued, release
<1>5. CASE FreezeExecution
  BY <1>1, <1>5 DEF FreezeExecution, Executed, Verifies, release
<1>6. CASE FreezeValidation
  BY <1>1, <1>6 DEF FreezeValidation, Validated, release
<1>7. CASE UNCHANGED adjudicationVars \/ UNCHANGED vars
  BY <1>7 DEF adjudicationVars, vars
<1>8. CASE Adjudication /\ ~FreezeQuality /\ ~FreezeVerdict /\ ~FreezeArtifact
           /\ ~FreezeExecution /\ ~FreezeValidation
  BY <1>8 DEF Adjudication, Begin, FreezePaidPlan, Open, Classify, JudgeFinal, CommitUnit, WriteUsage,
     Merge, Close, Kill
<1>9. QED BY <1>2, <1>3, <1>4, <1>5, <1>6, <1>7, <1>8 DEF Next

(* However often the command is killed and repeated, no committed row is   *)
(* replaced, nor any file of a release that was validated.                 *)
THEOREM ReleaseIsFinal == ASSUME AbsentFile PROVE Spec => [][RowsStay /\ ReleaseStays]_vars
<1>1. JInv /\ [Next]_vars => [RowsStay /\ ReleaseStays]_vars
  BY RowsStayStep, ReleaseStaysStep
<1>2. QED BY <1>1, AdjudicationInvariance, PTL DEF Spec

=============================================================================
