------------------------ MODULE BehavioralStudyProofs ------------------------
(***************************************************************************)
(* For any number of microbatches, commands, backends and approvals:       *)
(*                                                                         *)
(* 1. Generation.  The committed rollouts of a phase come from one         *)
(*    backend.  The comparison is made once, against rows loaded before    *)
(*    the model is constructed; it is enough because batches are committed *)
(*    in order, because what a command loaded stays on disk, and because a *)
(*    model that is loaded excludes every other writer.  A command that    *)
(*    remembers no rows, or too few, meets the batch of another writer     *)
(*    before it writes one.                                                *)
(* 2. Closing.  Who merges and closes a phase holds every batch, batches   *)
(*    stay what they are, and so stragglers write what is already there:   *)
(*    a closed phase loads, and none of its files ever changes.            *)
(* 3. Adjudication, by any number of commands at once.  Nothing excludes a *)
(*    second command, so files may be replaced by those of another one and *)
(*    need not name the same origins of records.  What a verdict, a        *)
(*    threshold or a table stands for is the same all the same: the        *)
(*    measurements of a closed phase, of which each is final, and all of   *)
(*    which exist before the first verdict does.                           *)
(***************************************************************************)
EXTENDS BehavioralStudy, TLAPS

Row == [host : Hosts]
Fields == {"pc", "phase", "next", "first", "rows", "host", "sums"}

(* Commands and batch files have their types. *)
Typed ==
  /\ DOMAIN gen = Generators
  /\ \A g \in Generators :
       /\ DOMAIN gen[g] = Fields
       /\ gen[g].phase \in Phases /\ gen[g].next \in Nat /\ gen[g].first \in Nat
       /\ gen[g].rows \in Seq(Row)
  /\ batches \in [Phases -> [Batches -> Row \cup {Nothing}]]

(* Batches are committed without holes. *)
Contiguous == \A p \in Phases, b, c \in Batches :
  c < b /\ batches[p][b] # Nothing => batches[p][c] # Nothing

(* A command's rows are the first batches on disk, and it knows the next.  *)
Remembers(g) == gen[g].pc # "idle" =>
  \A i \in 1..Len(gen[g].rows) : i \in Batches /\ batches[Phase(g)][i] = gen[g].rows[i]
Placed(g) ==
  /\ At(g, "load") => IF gen[g].first = 0 THEN gen[g].next = Len(gen[g].rows) + 1
                      ELSE gen[g].first = Len(gen[g].rows) + 1 /\ gen[g].first \in Batches
  /\ gen[g].pc \in {"authorize", "construct", "generate", "commit"} =>
       gen[g].first = Len(gen[g].rows) + 1 /\ gen[g].first \in Batches

(* A model that is loaded is of the software of the rows, and alone. *)
Owns(g) ==
  /\ gen[g].pc \in {"generate", "commit"} =>
       /\ gpu = g /\ gen[g].host \in Hosts
       /\ \A i \in 1..Len(gen[g].rows) : gen[g].rows[i].host = gen[g].host
  /\ At(g, "commit") => batches[Phase(g)][gen[g].first] = Nothing

Commands == \A g \in Generators : Remembers(g) /\ Placed(g) /\ Owns(g)
GInv == Typed /\ Contiguous /\ NoMixedPhase /\ Commands

-----------------------------------------------------------------------------
(* What a step leaves alone.                                               *)

(* A command that does not act, while no batch is written. *)
LEMMA Bystander ==
  ASSUME NEW h \in Generators, Remembers(h), Placed(h), Owns(h),
         gen'[h] = gen[h], batches' = batches, gpu = h => gpu' = h
  PROVE  Remembers(h)' /\ Placed(h)' /\ Owns(h)'
BY DEF Remembers, Placed, Owns, At, Phase

LEMMA NoBatchWritten ==
  ASSUME GInv, batches' = batches
  PROVE  Contiguous' /\ NoMixedPhase'
BY DEF GInv, Contiguous, NoMixedPhase

(* Refused, finished or killed. *)
LEMMA Ends ==
  ASSUME GInv, NEW g \in Generators, End(g), batches' = batches
  PROVE  GInv'
<1>1. /\ gen' = [gen EXCEPT ![g] = Idle] /\ DOMAIN gen = Generators
      /\ gen'[g] = Idle /\ \A h \in Generators \ {g} : gen'[h] = gen[h]
  BY DEF End, GInv, Typed
<1>2. Typed'
  <2>1. DOMAIN Idle = Fields /\ Idle.phase \in Phases /\ Idle.next \in Nat /\ Idle.first \in Nat
        /\ Idle.rows \in Seq(Row)
    BY DEF Idle, Fields, Phases
  <2>2. QED BY <1>1, <2>1 DEF GInv, Typed
<1>3. Remembers(g)' /\ Placed(g)' /\ Owns(g)'
  BY <1>1 DEF Remembers, Placed, Owns, At, Idle
<1>4. ASSUME NEW h \in Generators, h # g
      PROVE  Remembers(h)' /\ Placed(h)' /\ Owns(h)'
  BY <1>1, <1>4, Bystander DEF GInv, Commands, End, Release
<1>5. Commands'
  BY <1>3, <1>4 DEF Commands
<1>6. QED BY <1>2, <1>5, NoBatchWritten DEF GInv

(* A step of g that writes no batch and touches the GPUs only for itself. *)
LEMMA Acts ==
  ASSUME GInv, NEW g \in Generators, batches' = batches,
         DOMAIN gen' = Generators, \A h \in Generators \ {g} : gen'[h] = gen[h],
         gpu' = gpu \/ (gpu = Nothing /\ gpu' = g),
         DOMAIN gen'[g] = Fields, gen'[g].phase \in Phases, gen'[g].next \in Nat,
         gen'[g].first \in Nat, gen'[g].rows \in Seq(Row),
         Remembers(g)', Placed(g)', Owns(g)'
  PROVE  GInv'
<1>1. Typed'
  BY DEF GInv, Typed
<1>2. ASSUME NEW h \in Generators, h # g
      PROVE  Remembers(h)' /\ Placed(h)' /\ Owns(h)'
  BY <1>2, Bystander, GenerationAssumption DEF GInv, Commands
<1>3. Commands'
  BY <1>2 DEF Commands
<1>4. QED BY <1>1, <1>3, NoBatchWritten DEF GInv

(* Only the program counter moves, to a place where g owns nothing. *)
LEMMA Moves ==
  ASSUME GInv, NEW g \in Generators, batches' = batches, gpu' = gpu,
         NEW pc \in {"authorize", "construct", "compare", "merge", "sum", "close"},
         gen' = [gen EXCEPT ![g].pc = pc], ~At(g, "idle"),
         pc \in {"authorize", "construct"} =>
           gen[g].first = Len(gen[g].rows) + 1 /\ gen[g].first \in Batches
  PROVE  GInv'
<1>1. /\ DOMAIN gen' = Generators /\ \A h \in Generators \ {g} : gen'[h] = gen[h]
      /\ DOMAIN gen'[g] = Fields /\ gen'[g].pc = pc
      /\ gen'[g].phase = gen[g].phase /\ gen'[g].next = gen[g].next
      /\ gen'[g].first = gen[g].first /\ gen'[g].rows = gen[g].rows
  BY DEF GInv, Typed, Fields
<1>2. Remembers(g)' /\ Placed(g)' /\ Owns(g)'
  BY <1>1 DEF GInv, Commands, Remembers, Placed, Owns, At, Phase
<1>3. QED BY <1>1, <1>2, Acts DEF GInv, Typed

-----------------------------------------------------------------------------
(* The steps.                                                              *)

LEMMA StartStep ==
  ASSUME GInv, NEW g \in Generators, NEW p \in Phases, NEW contract, Start(g, p, contract)
  PROVE  GInv'
<1>1. /\ batches' = batches /\ gpu' = gpu
      /\ DOMAIN gen' = Generators /\ \A h \in Generators \ {g} : gen'[h] = gen[h]
      /\ gen'[g] = [Idle EXCEPT !.pc = "load", !.phase = p]
  BY DEF Start, GInv, Typed, files
<1>2. /\ DOMAIN gen'[g] = Fields /\ gen'[g].pc = "load" /\ gen'[g].phase = p
      /\ gen'[g].next = 1 /\ gen'[g].first = 0 /\ gen'[g].rows = <<>>
  BY <1>1 DEF Idle, Fields
<1>3. Remembers(g)' /\ Placed(g)' /\ Owns(g)'
  BY <1>2 DEF Remembers, Placed, Owns, At
<1>4. <<>> \in Seq(Row) /\ 1 \in Nat /\ 0 \in Nat
  OBVIOUS
<1>5. QED BY <1>1, <1>2, <1>3, <1>4, Acts

LEMMA LoadStep ==
  ASSUME GInv, NEW g \in Generators, Load(g)
  PROVE  GInv'
<1> DEFINE next == gen[g].next
           row == batches[Phase(g)][next]
<1>0. /\ At(g, "load") /\ next \in Batches /\ batches' = batches
      /\ gen[g].rows \in Seq(Row) /\ next \in Nat /\ gen[g].first \in Nat
      /\ gen[g].phase \in Phases /\ DOMAIN gen[g] = Fields /\ DOMAIN gen = Generators
      /\ Remembers(g) /\ Placed(g) /\ Owns(g)
  BY DEF Load, GInv, Typed, Commands, files
<1>1. CASE row # Nothing /\ gen[g].first = 0 /\ gpu' = gpu
             /\ gen' = [gen EXCEPT ![g].next = @ + 1, ![g].rows = Append(@, row)]
  <2>1. row \in Row
    BY <1>0, <1>1 DEF GInv, Typed, Phase
  <2>2. /\ DOMAIN gen' = Generators /\ \A h \in Generators \ {g} : gen'[h] = gen[h]
        /\ DOMAIN gen'[g] = Fields /\ gen'[g].pc = "load" /\ gen'[g].phase = gen[g].phase
        /\ gen'[g].next = next + 1 /\ gen'[g].first = 0 /\ gen'[g].rows = Append(gen[g].rows, row)
    BY <1>0, <1>1 DEF Fields, At
  <2>3. /\ Append(gen[g].rows, row) \in Seq(Row)
        /\ Len(Append(gen[g].rows, row)) = Len(gen[g].rows) + 1
        /\ Append(gen[g].rows, row)[next] = row
        /\ \A i \in 1..Len(gen[g].rows) : Append(gen[g].rows, row)[i] = gen[g].rows[i]
        /\ next = Len(gen[g].rows) + 1
    BY <1>0, <1>1, <2>1 DEF Placed
  <2>4. Remembers(g)'
    BY <1>0, <2>2, <2>3 DEF Remembers, At, Phase
  <2>5. Placed(g)' /\ Owns(g)'
    BY <2>2, <2>3 DEF Placed, Owns, At
  <2>6. QED BY <1>0, <1>1, <2>2, <2>3, <2>4, <2>5, Acts
<1>2. CASE row # Nothing /\ gen[g].first # 0 /\ End(g)
  BY <1>0, <1>2, Ends
<1>3. CASE row = Nothing /\ gpu' = gpu
             /\ gen' = [gen EXCEPT ![g].next = @ + 1, ![g].first = IF @ = 0 THEN next ELSE @]
  <2>1. /\ DOMAIN gen' = Generators /\ \A h \in Generators \ {g} : gen'[h] = gen[h]
        /\ DOMAIN gen'[g] = Fields /\ gen'[g].pc = "load" /\ gen'[g].phase = gen[g].phase
        /\ gen'[g].next = next + 1 /\ gen'[g].rows = gen[g].rows
        /\ gen'[g].first = IF gen[g].first = 0 THEN next ELSE gen[g].first
    BY <1>0, <1>3 DEF Fields, At
  <2>2. gen'[g].first = Len(gen'[g].rows) + 1 /\ gen'[g].first \in Batches
    BY <1>0, <2>1 DEF Placed
  <2>3. Remembers(g)' /\ Placed(g)' /\ Owns(g)'
    BY <1>0, <2>1, <2>2, GenerationAssumption DEF Remembers, Placed, Owns, At, Phase, Batches
  <2>4. QED BY <1>0, <1>3, <2>1, <2>2, <2>3, Acts DEF Batches
<1>4. QED BY <1>1, <1>2, <1>3 DEF Load

LEMMA LoadedStep ==
  ASSUME GInv, NEW g \in Generators, Loaded(g)
  PROVE  GInv'
<1>1. gen[g].first # 0 => gen[g].first = Len(gen[g].rows) + 1 /\ gen[g].first \in Batches
  BY DEF Loaded, GInv, Commands, Placed
<1>2. QED BY <1>1, Moves DEF Loaded, Goto, At, files

LEMMA AuthorizeStep ==
  ASSUME GInv, NEW g \in Generators, Authorize(g)
  PROVE  GInv'
<1>1. CASE End(g)
  BY <1>1, Ends DEF Authorize
<1>2. CASE Goto(g, "construct") /\ gpu' = gpu
  <2>1. gen[g].first = Len(gen[g].rows) + 1 /\ gen[g].first \in Batches
    BY DEF Authorize, GInv, Commands, Placed, At
  <2>2. QED BY <1>2, <2>1, Moves DEF Authorize, Goto, At
<1>3. QED BY <1>1, <1>2 DEF Authorize

(* Rows of one phase, all on disk, are of one backend: comparing the first *)
(* is comparing all.                                                       *)
LEMMA RowsAlike ==
  ASSUME GInv, NEW g \in Generators, gen[g].pc # "idle",
         NEW i \in 1..Len(gen[g].rows), NEW j \in 1..Len(gen[g].rows)
  PROVE  gen[g].rows[i].host = gen[g].rows[j].host
<1>1. gen[g].rows[i] \in Row /\ gen[g].rows[j] \in Row
  BY DEF GInv, Typed
<1>2. gen[g].rows[i] # Nothing /\ gen[g].rows[j] # Nothing
  BY <1>1, GenerationAssumption DEF Row
<1>3. QED BY <1>2 DEF GInv, Typed, Commands, Remembers, NoMixedPhase, Phase

LEMMA ConstructStep ==
  ASSUME GInv, NEW g \in Generators, Construct(g)
  PROVE  GInv'
<1>0. /\ At(g, "construct") /\ gpu = Nothing /\ batches' = batches
      /\ gen[g].rows \in Seq(Row) /\ DOMAIN gen[g] = Fields /\ DOMAIN gen = Generators
      /\ gen[g].phase \in Phases /\ gen[g].next \in Nat /\ gen[g].first \in Nat
      /\ Remembers(g) /\ Placed(g) /\ Owns(g)
  BY DEF Construct, GInv, Typed, Commands, files
<1>1. PICK h \in Hosts :
        IF gen[g].rows = <<>> \/ Head(gen[g].rows).host = h
        THEN gpu' = g /\ gen' = [gen EXCEPT ![g].pc = "generate", ![g].host = h]
        ELSE End(g)
  BY DEF Construct
<1>2. CASE gen[g].rows = <<>> \/ Head(gen[g].rows).host = h
  <2>1. /\ DOMAIN gen' = Generators /\ \A k \in Generators \ {g} : gen'[k] = gen[k]
        /\ DOMAIN gen'[g] = Fields /\ gen'[g].pc = "generate" /\ gen'[g].phase = gen[g].phase
        /\ gen'[g].next = gen[g].next /\ gen'[g].rows = gen[g].rows
        /\ gen'[g].first = gen[g].first /\ gen'[g].host = h
    BY <1>0, <1>1, <1>2 DEF Fields
  <2>2. ASSUME NEW i \in 1..Len(gen[g].rows)
        PROVE  gen[g].rows[i].host = h
    <3>1. gen[g].rows # <<>> /\ 1 \in 1..Len(gen[g].rows) /\ Head(gen[g].rows) = gen[g].rows[1]
      BY <1>0
    <3>2. gen[g].rows[i].host = gen[g].rows[1].host
      BY <1>0, <3>1, RowsAlike DEF At
    <3>3. QED BY <1>2, <3>1, <3>2
  <2>3. Remembers(g)' /\ Placed(g)'
    BY <1>0, <2>1 DEF Remembers, Placed, At, Phase
  <2>4. Owns(g)'
    BY <1>1, <1>2, <2>1, <2>2 DEF Owns, At
  <2>5. QED BY <1>0, <1>1, <1>2, <2>1, <2>3, <2>4, Acts
<1>3. CASE ~(gen[g].rows = <<>> \/ Head(gen[g].rows).host = h)
  BY <1>0, <1>1, <1>3, Ends
<1>4. QED BY <1>2, <1>3

LEMMA GenerateOneStep ==
  ASSUME GInv, NEW g \in Generators, Generate(g)
  PROVE  GInv'
<1>0. At(g, "generate") /\ batches' = batches
  BY DEF Generate, files
<1>1. CASE batches[Phase(g)][gen[g].first] = Nothing /\ Goto(g, "commit") /\ gpu' = gpu
  <2>1. /\ DOMAIN gen' = Generators /\ \A k \in Generators \ {g} : gen'[k] = gen[k]
        /\ DOMAIN gen'[g] = Fields /\ gen'[g].pc = "commit" /\ gen'[g].phase = gen[g].phase
        /\ gen'[g].next = gen[g].next /\ gen'[g].rows = gen[g].rows
        /\ gen'[g].first = gen[g].first /\ gen'[g].host = gen[g].host
    BY <1>1 DEF GInv, Typed, Fields, Goto
  <2>2. Remembers(g)' /\ Placed(g)' /\ Owns(g)'
    BY <1>0, <1>1, <2>1 DEF GInv, Commands, Remembers, Placed, Owns, At, Phase
  <2>3. QED BY <1>0, <1>1, <2>1, <2>2, Acts DEF GInv, Typed
<1>2. CASE End(g)
  BY <1>0, <1>2, Ends
<1>3. QED BY <1>1, <1>2 DEF Generate

(* The one step that writes a batch. *)
LEMMA CommitStep ==
  ASSUME GInv, NEW g \in Generators, Commit(g)
  PROVE  GInv'
<1> DEFINE p == Phase(g)
           b == gen[g].first
           row == [host |-> gen[g].host]
           rows == gen[g].rows
<1>0. /\ gen[g].pc = "commit" /\ gpu' = gpu /\ gpu = g /\ p \in Phases
      /\ rows \in Seq(Row) /\ DOMAIN gen[g] = Fields /\ DOMAIN gen = Generators
      /\ b = Len(rows) + 1 /\ b \in Batches /\ b \in Nat /\ gen[g].next \in Nat
      /\ gen[g].host \in Hosts /\ batches[p][b] = Nothing
      /\ \A i \in 1..Len(rows) : rows[i].host = gen[g].host
      /\ \A i \in 1..Len(rows) : i \in Batches /\ batches[p][i] = rows[i]
      /\ batches \in [Phases -> [Batches -> Row \cup {Nothing}]]
      /\ batches' = [batches EXCEPT ![p][b] = row]
  BY DEF Commit, GInv, Typed, Commands, Remembers, Placed, Owns, At, Phase
<1>1. row \in Row /\ row # Nothing /\ row.host = gen[g].host
  BY <1>0, GenerationAssumption DEF Row
<1>2. /\ batches' \in [Phases -> [Batches -> Row \cup {Nothing}]]
      /\ batches'[p][b] = row
      /\ \A q \in Phases, c \in Batches : <<q, c>> # <<p, b>> => batches'[q][c] = batches[q][c]
  BY <1>0, <1>1
<1>3. \A c \in Batches : c < b => c \in 1..Len(rows) /\ batches[p][c] = rows[c] /\ rows[c] # Nothing
  <2> SUFFICES ASSUME NEW c \in Batches, c < b
               PROVE  c \in 1..Len(rows) /\ batches[p][c] = rows[c] /\ rows[c] # Nothing
    OBVIOUS
  <2>1. c \in 1..Len(rows)
    BY <1>0, GenerationAssumption DEF Batches
  <2>2. rows[c] \in Row
    BY <1>0, <2>1
  <2>3. QED BY <1>0, <2>1, <2>2, GenerationAssumption DEF Row
<1>4. \A c \in Batches : b < c => batches[p][c] = Nothing
  BY <1>0 DEF GInv, Contiguous
<1>5. Contiguous'
  <2> SUFFICES ASSUME NEW q \in Phases, NEW c \in Batches, NEW d \in Batches,
                      d < c, batches'[q][c] # Nothing
               PROVE  batches'[q][d] # Nothing
    BY DEF Contiguous
  <2>1. CASE q = p /\ c = b
    BY <1>2, <1>3, <2>1, GenerationAssumption DEF Batches
  <2>2. CASE q = p /\ d = b
    BY <1>1, <1>2, <2>2
  <2>3. CASE <<q, c>> # <<p, b>> /\ <<q, d>> # <<p, b>>
    BY <1>2, <2>3 DEF GInv, Contiguous
  <2>4. QED BY <2>1, <2>2, <2>3
<1>6. \A c \in Batches : batches'[p][c] # Nothing => batches'[p][c].host = gen[g].host
  <2> SUFFICES ASSUME NEW c \in Batches, batches'[p][c] # Nothing
               PROVE  batches'[p][c].host = gen[g].host
    OBVIOUS
  <2>1. CASE c = b
    BY <1>1, <1>2, <2>1
  <2>2. CASE c < b
    BY <1>0, <1>2, <1>3, <2>2, GenerationAssumption DEF Batches
  <2>3. CASE b < c
    BY <1>0, <1>2, <1>4, <2>3, GenerationAssumption DEF Batches
  <2>4. QED BY <1>0, <2>1, <2>2, <2>3, GenerationAssumption DEF Batches
<1>7. NoMixedPhase'
  <2> SUFFICES ASSUME NEW q \in Phases, NEW c \in Batches, NEW d \in Batches,
                      batches'[q][c] # Nothing, batches'[q][d] # Nothing
               PROVE  batches'[q][c].host = batches'[q][d].host
    BY DEF NoMixedPhase
  <2>1. CASE q = p
    BY <1>6, <2>1
  <2>2. CASE q # p
    BY <1>2, <2>2 DEF GInv, NoMixedPhase
  <2>3. QED BY <2>1, <2>2
<1>8. /\ DOMAIN gen' = Generators /\ \A k \in Generators \ {g} : gen'[k] = gen[k]
      /\ DOMAIN gen'[g] = Fields /\ gen'[g].phase = p
      /\ gen'[g].next = gen[g].next /\ gen'[g].rows = Append(rows, row)
      /\ gen'[g].first = b + 1 /\ gen'[g].host = gen[g].host
      /\ gen'[g].pc = IF b = BatchCount THEN "compare" ELSE "generate"
  BY <1>0 DEF Commit, Fields, Phase
<1>9. /\ Append(rows, row) \in Seq(Row) /\ Len(Append(rows, row)) = b
      /\ Append(rows, row)[b] = row
      /\ \A i \in 1..Len(rows) : Append(rows, row)[i] = rows[i]
  BY <1>0, <1>1
<1>10. \A i \in 1..b : i \in Batches /\ batches'[p][i] = Append(rows, row)[i]
                        /\ Append(rows, row)[i].host = gen[g].host
  <2> SUFFICES ASSUME NEW i \in 1..b
               PROVE  i \in Batches /\ batches'[p][i] = Append(rows, row)[i]
                      /\ Append(rows, row)[i].host = gen[g].host
    OBVIOUS
  <2>1. CASE i = b
    BY <1>0, <1>1, <1>2, <1>9, <2>1
  <2>2. CASE i # b
    <3>1. i \in 1..Len(rows)
      BY <1>0, <2>2
    <3>2. QED BY <1>0, <1>2, <1>9, <2>2, <3>1
  <2>3. QED BY <2>1, <2>2
<1>11. Remembers(g)'
  BY <1>8, <1>9, <1>10 DEF Remembers, Phase
<1>12. Placed(g)' /\ Owns(g)'
  <2>1. b # BatchCount => b + 1 \in Batches
    BY <1>0, GenerationAssumption DEF Batches
  <2>2. QED BY <1>0, <1>8, <1>9, <1>10, <2>1 DEF Placed, Owns, At
<1>13. ASSUME NEW h \in Generators, h # g
       PROVE  Remembers(h)' /\ Placed(h)' /\ Owns(h)'
  <2>0. gen'[h] = gen[h] /\ Remembers(h) /\ Placed(h) /\ Owns(h) /\ gen[h].pc \notin {"generate", "commit"}
        /\ gen[h].rows \in Seq(Row) /\ gen[h].phase \in Phases
    BY <1>0, <1>8, <1>13 DEF GInv, Typed, Commands, Owns
  <2>1. ASSUME gen[h].pc # "idle", NEW i \in 1..Len(gen[h].rows)
        PROVE  i \in Batches /\ batches'[Phase(h)][i] = gen[h].rows[i]
    <3>1. i \in Batches /\ batches[Phase(h)][i] = gen[h].rows[i] /\ gen[h].rows[i] \in Row
      BY <2>0, <2>1 DEF Remembers
    <3>2. <<Phase(h), i>> # <<p, b>>
      BY <1>0, <3>1, GenerationAssumption DEF Row
    <3>3. QED BY <1>2, <2>0, <3>1, <3>2 DEF Phase
  <2>2. Remembers(h)'
    BY <2>0, <2>1 DEF Remembers, Phase
  <2>3. QED BY <2>0, <2>2 DEF Placed, Owns, At
<1>14. Typed'
  <2>1. ASSUME NEW h \in Generators
        PROVE  /\ DOMAIN gen'[h] = Fields
               /\ gen'[h].phase \in Phases /\ gen'[h].next \in Nat /\ gen'[h].first \in Nat
               /\ gen'[h].rows \in Seq(Row)
    <3>1. CASE h = g
      <4>1. b + 1 \in Nat /\ gen'[g].rows \in Seq(Row)
        BY <1>0, <1>8, <1>9
      <4>2. QED BY <1>0, <1>8, <3>1, <4>1
    <3>2. CASE h # g
      BY <1>8, <3>2 DEF GInv, Typed
    <3>3. QED BY <3>1, <3>2
  <2>2. QED BY <1>2, <1>8, <2>1 DEF Typed
<1>15. Commands'
  BY <1>11, <1>12, <1>13 DEF Commands
<1>16. QED BY <1>5, <1>7, <1>14, <1>15 DEF GInv

(* The closing steps write no batch. *)
LEMMA CloseSteps ==
  ASSUME GInv, NEW g \in Generators, CompareMerged(g) \/ Merge(g) \/ Sum(g) \/ Close(g)
  PROVE  GInv'
<1>1. CASE CompareMerged(g)
  <2>1. CASE End(g)
    BY <1>1, <2>1, Ends DEF CompareMerged, files
  <2>2. CASE gpu' = gpu /\ (Goto(g, "merge") \/ Goto(g, "sum"))
    BY <1>1, <2>2, Moves DEF CompareMerged, files, Goto, At
  <2>3. QED BY <1>1, <2>1, <2>2 DEF CompareMerged
<1>2. CASE Merge(g)
  BY <1>2, Moves DEF Merge, Goto, At
<1>3. CASE Sum(g)
  <2>1. CASE End(g)
    BY <1>3, <2>1, Ends DEF Sum, files
  <2>2. CASE gpu' = gpu /\ gen' = [gen EXCEPT ![g].pc = "close", ![g].sums = ManifestOf(g)]
    <3>1. /\ DOMAIN gen' = Generators /\ \A h \in Generators \ {g} : gen'[h] = gen[h]
          /\ DOMAIN gen'[g] = Fields /\ gen'[g].pc = "close"
          /\ gen'[g].phase = gen[g].phase /\ gen'[g].next = gen[g].next
          /\ gen'[g].first = gen[g].first /\ gen'[g].rows = gen[g].rows
      BY <2>2 DEF GInv, Typed, Fields
    <3>2. Remembers(g)' /\ Placed(g)' /\ Owns(g)'
      BY <1>3, <3>1 DEF GInv, Commands, Remembers, Placed, Owns, At, Phase, Sum, files
    <3>3. QED BY <1>3, <2>2, <3>1, <3>2, Acts DEF GInv, Typed, Sum, files
  <2>3. QED BY <1>3, <2>1, <2>2 DEF Sum
<1>4. CASE Close(g)
  BY <1>4, Ends DEF Close
<1>5. QED BY <1>1, <1>2, <1>3, <1>4

(* Nothing a command or a batch is made of changes. *)
LEMMA Idles ==
  ASSUME GInv, batches' = batches, gen' = gen, gpu' = gpu
  PROVE  GInv'
<1>1. Typed'
  BY DEF GInv, Typed
<1>2. Commands'
  BY Bystander DEF GInv, Commands
<1>3. QED BY <1>1, <1>2, NoBatchWritten DEF GInv

-----------------------------------------------------------------------------
(* The theorems of generation.                                             *)

LEMMA InitGInv == Init => GInv
<1> SUFFICES ASSUME Init PROVE GInv
  OBVIOUS
<1>1. /\ batches = [q \in Phases |-> [c \in Batches |-> Nothing]]
      /\ gen = [h \in Generators |-> Idle]
  BY DEF Init, GenerationInit
<1>2. Typed
  <2>1. DOMAIN Idle = Fields /\ Idle.phase \in Phases /\ Idle.next \in Nat /\ Idle.first \in Nat
        /\ Idle.rows \in Seq(Row)
    BY DEF Idle, Fields, Phases
  <2>2. batches \in [Phases -> [Batches -> Row \cup {Nothing}]]
    BY <1>1
  <2>3. QED BY <1>1, <2>1, <2>2 DEF Typed
<1>3. Contiguous /\ NoMixedPhase
  BY <1>1 DEF Contiguous, NoMixedPhase
<1>4. Commands
  BY <1>1 DEF Commands, Remembers, Placed, Owns, At, Idle
<1>5. QED BY <1>2, <1>3, <1>4 DEF GInv

LEMMA NextGInv == GInv /\ [Next]_vars => GInv'
<1> SUFFICES ASSUME GInv, [Next]_vars PROVE GInv'
  OBVIOUS
<1>1. CASE Generation
  <2>1. ASSUME NEW g \in Generators, NEW p \in Phases, StartGeneration(g, p)
        PROVE  GInv'
    BY <2>1, StartStep DEF StartGeneration
  <2>2. ASSUME NEW g \in Generators, GenerateStep(g)
        PROVE  GInv'
    BY <2>2, LoadStep, LoadedStep, AuthorizeStep, ConstructStep, GenerateOneStep, CommitStep, CloseSteps
       DEF GenerateStep
  <2>3. ASSUME NEW g \in Generators, Leave(g)
        PROVE  GInv'
    BY <2>3, Ends DEF Leave, files
  <2>4. CASE ReapproveAll
    BY <2>4, Idles DEF ReapproveAll, Reapprove, files
  <2>5. QED BY <1>1, <2>1, <2>2, <2>3, <2>4 DEF Generation
<1>2. CASE UNCHANGED generationVars
  BY <1>2, Idles DEF generationVars, files
<1>3. QED BY <1>1, <1>2 DEF Next, vars

(* Through kills, resumptions, racing commands and a changed approval, the *)
(* invariant of the generation phases holds, whatever adjudication does    *)
(* beside them.                                                            *)
THEOREM GenerationInvariance == Spec => []GInv
BY InitGInv, NextGInv, PTL DEF Spec

(* The committed rollouts of a phase come from one backend.                *)
THEOREM OneBackendPerPhase == Spec => []NoMixedPhase
<1>1. GInv => NoMixedPhase
  BY DEF GInv
<1>2. QED BY <1>1, GenerationInvariance, PTL
-----------------------------------------------------------------------------
(* An absent file is neither a record that one of the commands writes, nor *)
(* a sequence of judged units.                                             *)
Origins == {"paid", "replay"}
AbsentFile == /\ Nothing \notin Seq(Origins)
              /\ Nothing \notin Answered
              /\ \A c, e : [contract |-> c, environment |-> e] # Nothing
              /\ \A s, r, p, b : [source |-> s, rows |-> r, passed |-> p, baseline |-> b] # Nothing
              /\ \A v : [source |-> v] # Nothing
              /\ \A v, b, t : [verdict |-> v, baseline |-> b, treatment |-> t] # Nothing
              /\ \A t, u : [tables |-> t, usage |-> u] # Nothing
              /\ \A r, t : [release |-> r, rollouts |-> t] # Nothing
-----------------------------------------------------------------------------
(* Closing a phase.  Who closes it holds every batch, and since batches    *)
(* stay what they are, so does everybody else who closes it.               *)

Closers == {"compare", "merge", "sum", "close"}
OnDisk(p) == [b \in Batches |-> batches[p][b]]
Whole(p) == \A b \in Batches : batches[p][b] # Nothing
Inventory(p) == [plan |-> plan[p], rows |-> merged[p], merged |-> merged[p], batches |-> batches[p]]

Closing(g) ==
  /\ gen[g].pc # "idle" => plan[Phase(g)] # Nothing
  /\ gen[g].pc \in Closers => Len(gen[g].rows) = BatchCount
  /\ gen[g].pc \in {"sum", "close"} => merged[Phase(g)] = gen[g].rows
  /\ At(g, "close") => gen[g].sums = Inventory(Phase(g))
Closed(p) ==
  /\ merged[p] # Nothing => Whole(p) /\ merged[p] = OnDisk(p)
  /\ manifest[p] # Nothing => /\ Whole(p) /\ merged[p] = OnDisk(p) /\ plan[p] # Nothing
                              /\ manifest[p] = Inventory(p)
CInv == /\ DOMAIN plan = Phases /\ DOMAIN merged = Phases /\ DOMAIN manifest = Phases
        /\ \A g \in Generators : Closing(g)
        /\ \A p \in Phases : Closed(p)
(* What a step of a command cannot disturb while no file of a phase changes. *)
LEMMA FilesKept ==
  ASSUME CInv, NEW g \in Generators, \A h \in Generators \ {g} : gen'[h] = gen[h],
         plan' = plan, batches' = batches, merged' = merged, manifest' = manifest, Closing(g)'
  PROVE  CInv'
<1>1. ASSUME NEW h \in Generators
      PROVE  Closing(h)'
  BY <1>1 DEF CInv, Closing, Inventory, At, Phase
<1>2. ASSUME NEW p \in Phases
      PROVE  Closed(p)'
  BY <1>2 DEF CInv, Closed, Whole, OnDisk, Inventory
<1>3. QED BY <1>1, <1>2 DEF CInv

LEMMA EndKeepsFiles ==
  ASSUME GInv, CInv, NEW g \in Generators, End(g),
         plan' = plan, batches' = batches, merged' = merged, manifest' = manifest
  PROVE  CInv'
<1>1. gen'[g] = Idle /\ \A h \in Generators \ {g} : gen'[h] = gen[h]
  BY DEF End, GInv, Typed
<1>2. Closing(g)'
  BY <1>1 DEF Closing, Idle, At, Closers
<1>3. QED BY <1>1, <1>2, FilesKept

(* Everything a command holds at the end is what is on disk. *)
LEMMA ClosersHoldAll ==
  ASSUME GInv, CInv, NEW g \in Generators, gen[g].pc \in Closers
  PROVE  Whole(Phase(g)) /\ gen[g].rows = OnDisk(Phase(g))
<1>1. /\ gen[g].rows \in Seq(Row) /\ Len(gen[g].rows) = BatchCount /\ BatchCount \in Nat
      /\ \A i \in 1..Len(gen[g].rows) : batches[Phase(g)][i] = gen[g].rows[i]
  BY GenerationAssumption DEF GInv, Typed, Commands, Remembers, CInv, Closing, Closers
<1>2. \A i \in Batches : gen[g].rows[i] = batches[Phase(g)][i] /\ gen[g].rows[i] \in Row
  BY <1>1 DEF Batches
<1>3. Whole(Phase(g))
  BY <1>2, GenerationAssumption DEF Whole, Row
<1>4. gen[g].rows = [i \in Batches |-> batches[Phase(g)][i]]
  BY <1>1, <1>2 DEF Batches
<1>5. QED BY <1>3, <1>4 DEF OnDisk

(* The steps before the last batch is on disk write no file of a phase. *)
LEMMA EarlySteps ==
  ASSUME GInv, CInv, NEW g \in Generators,
         Load(g) \/ Loaded(g) \/ Authorize(g) \/ Construct(g) \/ Generate(g)
  PROVE  CInv'
<1>0. /\ plan' = plan /\ batches' = batches /\ merged' = merged /\ manifest' = manifest
      /\ gen[g].pc \notin {"idle", "close", "sum"}
  BY DEF Load, Loaded, Authorize, Construct, Generate, files, At
<1>1. CASE End(g)
  BY <1>0, <1>1, EndKeepsFiles
<1>2. CASE ~End(g)
  <2>1. /\ \A h \in Generators \ {g} : gen'[h] = gen[h]
        /\ gen'[g].phase = gen[g].phase
        /\ gen'[g].pc \in {"load", "compare", "authorize", "construct", "generate", "commit"}
        /\ gen'[g].pc = "compare" => Loaded(g) /\ gen[g].first = 0 /\ gen'[g].rows = gen[g].rows
    <3>1. CASE Load(g)
      BY <1>2, <3>1 DEF Load, GInv, Typed, Fields, At
    <3>2. CASE Loaded(g)
      BY <1>2, <3>2 DEF Loaded, GInv, Typed, Fields, At, Goto
    <3>3. CASE Authorize(g)
      BY <1>2, <3>3 DEF Authorize, GInv, Typed, Fields, At, Goto
    <3>4. CASE Construct(g)
      BY <1>2, <3>4 DEF Construct, GInv, Typed, Fields, At
    <3>5. CASE Generate(g)
      BY <1>2, <3>5 DEF Generate, GInv, Typed, Fields, At, Goto
    <3>6. QED BY <3>1, <3>2, <3>3, <3>4, <3>5
  <2>2. ASSUME gen'[g].pc = "compare"
        PROVE  Len(gen'[g].rows) = BatchCount
    <3>1. /\ gen[g].rows \in Seq(Row) /\ gen[g].next = Len(gen[g].rows) + 1
          /\ gen[g].next \notin Batches
          /\ \A i \in 1..Len(gen[g].rows) : i \in Batches
      BY <2>1, <2>2 DEF Loaded, At, GInv, Typed, Commands, Placed, Remembers
    <3>2. Len(gen[g].rows) \in Nat /\ BatchCount \in Nat /\ gen[g].next >= 1
      BY <3>1, GenerationAssumption
    <3>3. Len(gen[g].rows) >= BatchCount
      BY <3>1, <3>2 DEF Batches
    <3>4. Len(gen[g].rows) <= BatchCount
      BY <3>1, <3>2 DEF Batches
    <3>5. QED BY <2>1, <2>2, <3>2, <3>3, <3>4
  <2>3. Closing(g)'
    BY <1>0, <2>1, <2>2 DEF CInv, Closing, Closers, At, Phase
  <2>4. QED BY <1>0, <2>1, <2>3, FilesKept
<1>3. QED BY <1>1, <1>2

(* A plan is frozen before any file of its phase, and then kept. *)
LEMMA StartKeepsFiles ==
  ASSUME AbsentFile, GInv, CInv, NEW g \in Generators, NEW p \in Phases, NEW contract,
         Start(g, p, contract)
  PROVE  CInv'
<1>1. /\ batches' = batches /\ merged' = merged /\ manifest' = manifest /\ manifest[p] = Nothing
      /\ plan[p] \in {Nothing, PlanOf(contract)} /\ PlanOf(contract) # Nothing
      /\ DOMAIN plan' = Phases /\ plan'[p] = PlanOf(contract)
      /\ \A q \in Phases \ {p} : plan'[q] = plan[q]
      /\ \A h \in Generators \ {g} : gen'[h] = gen[h]
      /\ gen'[g].pc = "load" /\ gen'[g].phase = p
  BY DEF Start, PlanOf, AbsentFile, CInv, GInv, Typed, Idle
<1>2. ASSUME NEW q \in Phases
      PROVE  Closed(q)'
  BY <1>1, <1>2 DEF CInv, Closed, Whole, OnDisk, Inventory
<1>3. ASSUME NEW h \in Generators, h # g
      PROVE  Closing(h)'
  <2>1. Closing(h) /\ gen'[h] = gen[h] /\ Phase(h) \in Phases
    BY <1>1, <1>3 DEF CInv, GInv, Typed, Phase
  <2>2. gen[h].pc # "idle" => plan'[Phase(h)] = plan[Phase(h)]
    BY <1>1, <2>1 DEF Closing
  <2>3. QED BY <1>1, <2>1, <2>2 DEF Closing, Closers, Inventory, At, Phase
<1>4. Closing(g)'
  BY <1>1 DEF Closing, Closers, At, Phase
<1>5. QED BY <1>1, <1>2, <1>3, <1>4 DEF CInv

(* A batch is only committed to a phase that nobody has closed or can.     *)
LEMMA CommitKeepsFiles ==
  ASSUME GInv, CInv, NEW g \in Generators, Commit(g)
  PROVE  CInv' /\ merged[Phase(g)] = Nothing /\ manifest[Phase(g)] = Nothing
         /\ \A q \in Phases \ {Phase(g)} : batches'[q] = batches[q]
<1> DEFINE p == Phase(g)
           b == gen[g].first
<1>1. /\ p \in Phases /\ b \in Batches /\ batches[p][b] = Nothing
      /\ plan' = plan /\ merged' = merged /\ manifest' = manifest
      /\ gen[g].rows \in Seq(Row) /\ b = Len(gen[g].rows) + 1 /\ gen[g].pc = "commit"
  BY DEF Commit, GInv, Typed, Commands, Placed, Owns, At, Phase
<1>2. /\ \A h \in Generators \ {g} : gen'[h] = gen[h]
      /\ gen'[g].phase = p /\ gen'[g].rows = Append(gen[g].rows, [host |-> gen[g].host])
      /\ gen'[g].pc = IF b = BatchCount THEN "compare" ELSE "generate"
      /\ \A q \in Phases \ {p} : batches'[q] = batches[q]
  BY DEF Commit, GInv, Typed, Fields, Phase
<1>3. merged[p] = Nothing /\ manifest[p] = Nothing
  BY <1>1 DEF CInv, Closed, Whole
<1>4. ASSUME NEW q \in Phases
      PROVE  Closed(q)'
  BY <1>1, <1>2, <1>3 DEF CInv, Closed, Whole, OnDisk, Inventory
<1>5. ASSUME NEW h \in Generators, h # g
      PROVE  Closing(h)'
  <2>1. Closing(h) /\ gen'[h] = gen[h] /\ Phase(h) \in Phases
    BY <1>2, <1>5 DEF CInv, GInv, Typed, Phase
  <2>2. gen[h].pc \in Closers => Phase(h) # p
    BY <1>1, ClosersHoldAll DEF Whole
  <2>3. QED BY <1>1, <1>2, <2>1, <2>2 DEF Closing, Closers, Inventory, At, Phase
<1>6. Closing(g)'
  <2>1. gen'[g].pc = "compare" => Len(gen'[g].rows) = BatchCount
    BY <1>1, <1>2
  <2>2. QED BY <1>1, <1>2, <2>1 DEF CInv, Closing, Closers, At, Phase
<1>7. QED BY <1>1, <1>2, <1>3, <1>4, <1>5, <1>6 DEF CInv

LEMMA CompareKeepsFiles ==
  ASSUME GInv, CInv, NEW g \in Generators, CompareMerged(g)
  PROVE  CInv'
<1>0. plan' = plan /\ batches' = batches /\ merged' = merged /\ manifest' = manifest
  BY DEF CompareMerged, files
<1>1. CASE End(g)
  BY <1>0, <1>1, EndKeepsFiles
<1>2. CASE ~End(g)
  <2>1. /\ \A h \in Generators \ {g} : gen'[h] = gen[h]
        /\ gen[g].pc = "compare" /\ gen'[g].phase = gen[g].phase /\ gen'[g].rows = gen[g].rows
        /\ gen'[g].pc = IF merged[Phase(g)] = Nothing THEN "merge" ELSE "sum"
        /\ merged[Phase(g)] \in {Nothing, gen[g].rows}
    BY <1>2 DEF CompareMerged, GInv, Typed, Fields, At, Goto
  <2>2. Closing(g)'
    BY <1>0, <2>1 DEF CInv, Closing, Closers, At, Phase
  <2>3. QED BY <1>0, <2>1, <2>2, FilesKept
<1>3. QED BY <1>1, <1>2

(* Merged rows are the batches on disk, so whoever merges writes the same. *)
LEMMA MergeKeepsFiles ==
  ASSUME GInv, CInv, NEW g \in Generators, Merge(g)
  PROVE  CInv' /\ \A q \in Phases : manifest[q] # Nothing => merged'[q] = merged[q]
<1> DEFINE p == Phase(g)
<1>1. /\ p \in Phases /\ gen[g].pc = "merge"
      /\ plan' = plan /\ batches' = batches /\ manifest' = manifest
      /\ DOMAIN merged' = Phases /\ merged'[p] = gen[g].rows
      /\ \A q \in Phases \ {p} : merged'[q] = merged[q]
      /\ \A h \in Generators \ {g} : gen'[h] = gen[h]
      /\ gen'[g].phase = p /\ gen'[g].rows = gen[g].rows /\ gen'[g].pc = "sum"
  BY DEF Merge, GInv, Typed, Fields, Phase, At, Goto, CInv
<1>2. Whole(p) /\ gen[g].rows = OnDisk(p) /\ Len(gen[g].rows) = BatchCount
  BY <1>1, ClosersHoldAll DEF Closers, CInv, Closing
<1>3. ASSUME NEW q \in Phases
      PROVE  Closed(q)' /\ (manifest[q] # Nothing => merged'[q] = merged[q])
  BY <1>1, <1>2, <1>3 DEF CInv, Closed, Whole, OnDisk, Inventory
<1>4. ASSUME NEW h \in Generators, h # g
      PROVE  Closing(h)'
  <2>1. Closing(h) /\ gen'[h] = gen[h] /\ Phase(h) \in Phases
    BY <1>1, <1>4 DEF CInv, GInv, Typed, Phase
  <2>2. gen[h].pc \in {"sum", "close"} => merged'[Phase(h)] = merged[Phase(h)]
    BY <1>1, <1>2, <2>1, ClosersHoldAll DEF Closers, Closing
  <2>3. QED BY <1>1, <2>1, <2>2 DEF Closing, Closers, Inventory, At, Phase
<1>5. Closing(g)'
  BY <1>1, <1>2 DEF CInv, Closing, Closers, At, Phase
<1>6. QED BY <1>1, <1>3, <1>4, <1>5 DEF CInv

LEMMA SumKeepsFiles ==
  ASSUME GInv, CInv, NEW g \in Generators, Sum(g)
  PROVE  CInv'
<1>0. plan' = plan /\ batches' = batches /\ merged' = merged /\ manifest' = manifest
  BY DEF Sum, files
<1>1. CASE End(g)
  BY <1>0, <1>1, EndKeepsFiles
<1>2. CASE ~End(g)
  <2>1. /\ \A h \in Generators \ {g} : gen'[h] = gen[h]
        /\ gen[g].pc = "sum" /\ gen'[g].phase = gen[g].phase /\ gen'[g].rows = gen[g].rows
        /\ gen'[g].pc = "close" /\ gen'[g].sums = ManifestOf(g)
    BY <1>2 DEF Sum, GInv, Typed, Fields, At
  <2>2. Closing(g)'
    BY <1>0, <2>1 DEF CInv, Closing, Closers, At, Phase, ManifestOf, Inventory
  <2>3. QED BY <1>0, <2>1, <2>2, FilesKept
<1>3. QED BY <1>1, <1>2

(* A manifest names what is on disk, so whoever closes writes the same.    *)
LEMMA CloseKeepsFiles ==
  ASSUME GInv, CInv, NEW g \in Generators, Close(g)
  PROVE  CInv' /\ \A q \in Phases : manifest[q] # Nothing => manifest'[q] = manifest[q]
<1> DEFINE p == Phase(g)
<1>1. /\ p \in Phases /\ gen[g].pc = "close" /\ gen[g].rows \in Seq(Row)
      /\ plan' = plan /\ batches' = batches /\ merged' = merged
      /\ DOMAIN manifest' = Phases /\ manifest'[p] = gen[g].sums
      /\ \A q \in Phases \ {p} : manifest'[q] = manifest[q]
      /\ gen'[g] = Idle /\ \A h \in Generators \ {g} : gen'[h] = gen[h]
  BY DEF Close, End, GInv, Typed, Phase, At, CInv
<1>2. /\ Whole(p) /\ merged[p] = OnDisk(p) /\ plan[p] # Nothing
      /\ gen[g].sums = Inventory(p)
  BY <1>1, ClosersHoldAll DEF Closers, CInv, Closing, At
<1>3. ASSUME NEW q \in Phases
      PROVE  Closed(q)' /\ (manifest[q] # Nothing => manifest'[q] = manifest[q])
  BY <1>1, <1>2, <1>3 DEF CInv, Closed, Whole, OnDisk, Inventory
<1>4. ASSUME NEW h \in Generators, h # g
      PROVE  Closing(h)'
  BY <1>1, <1>4 DEF CInv, Closing, Closers, Inventory, At, Phase
<1>5. Closing(g)'
  BY <1>1 DEF Closing, Closers, At, Idle
<1>6. QED BY <1>1, <1>3, <1>4, <1>5 DEF CInv

(* What generation may still do once a phase is closed: nothing to it.     *)
ClosedStays == \A p \in Phases : manifest[p] # Nothing =>
  plan'[p] = plan[p] /\ batches'[p] = batches[p] /\ merged'[p] = merged[p]
  /\ manifest'[p] = manifest[p]

LEMMA GenerationKeepsFiles ==
  ASSUME AbsentFile, GInv, CInv, Generation
  PROVE  CInv' /\ ClosedStays
<1>1. ASSUME NEW g \in Generators, NEW p \in Phases, StartGeneration(g, p)
      PROVE  CInv' /\ ClosedStays
  <2>1. CInv'
    BY <1>1, StartKeepsFiles DEF StartGeneration
  <2>2. ClosedStays
    BY <1>1 DEF StartGeneration, Start, ClosedStays, CInv
  <2>3. QED BY <2>1, <2>2
<1>2. ASSUME NEW g \in Generators,
             Load(g) \/ Loaded(g) \/ Authorize(g) \/ Construct(g) \/ Generate(g)
      PROVE  CInv' /\ ClosedStays
  <2>1. CInv'
    BY <1>2, EarlySteps
  <2>2. plan' = plan /\ batches' = batches /\ merged' = merged /\ manifest' = manifest
    BY <1>2 DEF Load, Loaded, Authorize, Construct, Generate, files
  <2>3. QED BY <2>1, <2>2 DEF ClosedStays
<1>3. ASSUME NEW g \in Generators, Commit(g)
      PROVE  CInv' /\ ClosedStays
  <2>1. plan' = plan /\ merged' = merged /\ manifest' = manifest
    BY <1>3 DEF Commit
  <2>2. QED BY <1>3, <2>1, CommitKeepsFiles DEF ClosedStays
<1>4. ASSUME NEW g \in Generators, CompareMerged(g) \/ Sum(g)
      PROVE  CInv' /\ ClosedStays
  <2>1. CInv'
    BY <1>4, CompareKeepsFiles, SumKeepsFiles
  <2>2. plan' = plan /\ batches' = batches /\ merged' = merged /\ manifest' = manifest
    BY <1>4 DEF CompareMerged, Sum, files
  <2>3. QED BY <2>1, <2>2 DEF ClosedStays
<1>5. ASSUME NEW g \in Generators, Merge(g)
      PROVE  CInv' /\ ClosedStays
  <2>1. plan' = plan /\ batches' = batches /\ manifest' = manifest
    BY <1>5 DEF Merge
  <2>2. QED BY <1>5, <2>1, MergeKeepsFiles DEF ClosedStays
<1>6. ASSUME NEW g \in Generators, Close(g)
      PROVE  CInv' /\ ClosedStays
  <2>1. plan' = plan /\ batches' = batches /\ merged' = merged
    BY <1>6 DEF Close
  <2>2. QED BY <1>6, <2>1, CloseKeepsFiles DEF ClosedStays
<1>7. ASSUME NEW g \in Generators, Leave(g)
      PROVE  CInv' /\ ClosedStays
  <2>1. plan' = plan /\ batches' = batches /\ merged' = merged /\ manifest' = manifest
    BY <1>7 DEF Leave, files
  <2>2. QED BY <1>7, <2>1, EndKeepsFiles DEF ClosedStays, Leave
<1>8. CASE ReapproveAll
  <2>1. plan' = plan /\ batches' = batches /\ merged' = merged /\ manifest' = manifest /\ gen' = gen
    BY <1>8 DEF ReapproveAll, Reapprove, files
  <2>2. CInv'
    BY <2>1 DEF CInv, Closing, Closed, Whole, OnDisk, Inventory, At, Phase
  <2>3. QED BY <2>1, <2>2 DEF ClosedStays
<1>9. QED BY <1>1, <1>2, <1>3, <1>4, <1>5, <1>6, <1>7, <1>8 DEF Generation, GenerateStep

LEMMA InitCInv == Init => CInv
<1> SUFFICES ASSUME Init PROVE CInv
  OBVIOUS
<1>1. \A g \in Generators : Closing(g)
  BY DEF Init, GenerationInit, Closing, Closers, At, Idle
<1>2. \A p \in Phases : Closed(p)
  BY DEF Init, GenerationInit, Closed
<1>3. QED BY <1>1, <1>2 DEF Init, GenerationInit, CInv

LEMMA NextCInv == ASSUME AbsentFile PROVE GInv /\ CInv /\ [Next]_vars => CInv'
<1> SUFFICES ASSUME GInv, CInv, [Next]_vars PROVE CInv'
  OBVIOUS
<1>1. CASE Generation
  BY <1>1, GenerationKeepsFiles
<1>2. CASE UNCHANGED generationVars
  BY <1>2 DEF generationVars, files, CInv, Closing, Closed, Whole, OnDisk, Inventory, At, Phase
<1>3. QED BY <1>1, <1>2 DEF Next, vars

LEMMA ClosedLoads ==
  ASSUME GInv, CInv, NEW p \in Phases, manifest[p] # Nothing
  PROVE  Loads(p)
<1>1. /\ plan[p] # Nothing /\ manifest[p] = Inventory(p) /\ Whole(p)
      /\ merged[p] = [b \in Batches |-> batches[p][b]]
      /\ batches \in [Phases -> [Batches -> Row \cup {Nothing}]]
  BY DEF CInv, Closed, OnDisk, GInv, Typed
<1>2. merged[p] \in [1..BatchCount -> Row] /\ BatchCount \in Nat
  BY <1>1, GenerationAssumption DEF Whole, Batches
<1>3. Len(merged[p]) = BatchCount
  BY <1>2
<1>4. OneHost(merged[p])
  BY <1>1, <1>2, <1>3 DEF OneHost, GInv, NoMixedPhase, Whole, Batches
<1>5. QED BY <1>1, <1>4 DEF Loads, Inventory

(* The files of a closed phase agree with its manifest, whoever commands.  *)
THEOREM PhaseFilesInvariance == ASSUME AbsentFile PROVE Spec => []CInv
<1>1. GInv /\ CInv /\ [Next]_vars => CInv'
  BY NextCInv
<1>2. QED BY <1>1, InitCInv, GenerationInvariance, PTL DEF Spec

(* A phase that has been closed is never refused by those that read it.    *)
THEOREM ClosedPhaseLoadsSafe == ASSUME AbsentFile PROVE Spec => []ClosedPhaseLoads
<1>1. GInv /\ CInv => ClosedPhaseLoads
  BY ClosedLoads DEF ClosedPhaseLoads
<1>2. QED BY <1>1, PhaseFilesInvariance, GenerationInvariance, PTL

(* Nor does it ever change: no file of a closed phase is rewritten with    *)
(* anything else, though straggling commands merge and close it again.     *)
THEOREM ClosedPhaseFinal == ASSUME AbsentFile PROVE Spec => [][ClosedStays]_vars
<1>1. GInv /\ CInv /\ [Next]_vars => [ClosedStays]_vars
  <2> SUFFICES ASSUME GInv, CInv, Next PROVE ClosedStays
    OBVIOUS
  <2>1. CASE Generation
    BY <2>1, GenerationKeepsFiles
  <2>2. CASE UNCHANGED generationVars
    BY <2>2 DEF generationVars, files, ClosedStays
  <2>3. QED BY <2>1, <2>2 DEF Next
<1>2. QED BY <1>1, PhaseFilesInvariance, GenerationInvariance, PTL DEF Spec

-----------------------------------------------------------------------------
(* Adjudication, by any number of commands.                                *)

AllAnswered(p) == \A u \in Batches : responses[p][u] # Nothing
Certifies(v, p) == /\ v.source = manifest[p] /\ v.rows.measured = responses[p]
                   /\ v.passed = Passes(p)

(* Preregistration, with any number of adjudication commands: before a     *)
(* treatment rollout exists there are thresholds, of a verdict that passed *)
(* the measurements of the closed baseline, every one of them paid for and *)
(* final (_published_behavioral_thresholds, cli.py).  Two commands that    *)
(* judge at once may disagree on the origin of a record, never on these.   *)
MeasuredThresholdsFirst ==
  (\E b \in Batches : batches["treatment"][b] # Nothing) =>
     /\ thresholds # Nothing /\ AllAnswered("baseline") /\ Loads("baseline")
     /\ Certifies(thresholds.source, "baseline") /\ Passes("baseline")

(* A release, with any number of adjudication commands: both phases are    *)
(* closed and of one environment, every unit of both has its measurement,  *)
(* both gates pass, and the thresholds, both verdicts on disk and each     *)
(* table are of exactly these measurements, whoever wrote them.            *)
MeasuredRelease == Released =>
  /\ SameEnvironment
  /\ thresholds # Nothing /\ Certifies(thresholds.source, "baseline")
  /\ \A p \in Phases : /\ Loads(p) /\ AllAnswered(p) /\ Passes(p)
                        /\ verdict[p] # Nothing /\ Certifies(verdict[p], p)
  /\ \A t \in Tables : outputs[t] # Nothing /\ Certifies(outputs[t].verdict, "treatment")

Benches == {"pc", "phase", "source", "pending", "units", "file", "asked", "audit", "inventory", "content"}
JTyped ==
  /\ DOMAIN judge = Judges
  /\ \A j \in Judges : /\ DOMAIN judge[j] = Benches /\ judge[j].phase \in Phases
                       /\ judge[j].units \in Seq(Origins)
  /\ responses \in [Phases -> [Batches -> Answered \cup {Nothing}]]
  /\ bundle \in [Phases -> [1..6 -> Seq(Origins) \cup {Nothing}]]
  /\ DOMAIN verdict = Phases /\ DOMAIN outputs = Outputs

Preregistered ==
  /\ (\E b \in Batches : batches["treatment"][b] # Nothing) => thresholds # Nothing
  /\ \A g \in Generators : gen[g].pc # "idle" /\ Phase(g) = "treatment" => thresholds # Nothing

(* What a file on disk stands for. *)
HasAnswers(p, n) == \A u \in Batches : u <= n => responses[p][u] # Nothing
Alike == /\ plan["treatment"].environment = plan["baseline"].environment
         /\ Head(merged["treatment"]).host = Head(manifest["baseline"].rows).host
Checkpointed(p, f) == bundle[p][f] # Nothing => HasAnswers(p, Len(bundle[p][f]))
Settled(p) == verdict[p] # Nothing =>
  /\ manifest[p] # Nothing /\ AllAnswered(p) /\ Certifies(verdict[p], p)
  /\ p = "baseline" => Passes(p)
  /\ p = "treatment" => verdict["baseline"] # Nothing /\ thresholds # Nothing /\ Alike
Fixed == thresholds # Nothing =>
  verdict["baseline"] # Nothing /\ Certifies(thresholds.source, "baseline")
Published(o) == outputs[o] # Nothing =>
  /\ verdict["treatment"] # Nothing /\ Passes("treatment")
  /\ \A q \in Outputs : q < o => outputs[q] # Nothing
  /\ o \in Tables => Certifies(outputs[o].verdict, "treatment")

Paying == {"plan", "attempt", "authorize", "open"}
Judging == {"ask", "checkpoint", "audit", "append", "verdict", "publish", "put"}
(* What a command has in hand. *)
Begun(j) == judge[j].pc # "idle" =>
  /\ judge[j].pc \in Paying \cup Judging
  /\ manifest[Case(j)] # Nothing /\ judge[j].source = manifest[Case(j)]
  /\ Case(j) = "treatment" => verdict["baseline"] # Nothing /\ thresholds # Nothing
  /\ Case(j) = "treatment" /\ judge[j].pc \in Judging => Alike
Judged(j) ==
  /\ HasAnswers(Case(j), Len(judge[j].units))
  /\ judge[j].pc = "verdict" => AllAnswered(Case(j)) /\ (Case(j) = "baseline" => Passes("baseline"))
Publishes(j) ==
  /\ judge[j].inventory # Nothing =>
       /\ judge[j].pc \in {"audit", "append", "publish", "put"}
       /\ verdict[Case(j)] # Nothing /\ Certifies(judge[j].inventory, Case(j)) /\ Passes(Case(j))
       /\ judge[j].file \in Outputs
       /\ Case(j) = "treatment" => \A q \in Outputs : q < judge[j].file => outputs[q] # Nothing
  /\ judge[j].pc \in {"publish", "put"} => judge[j].inventory # Nothing
  /\ judge[j].pc = "put" /\ Case(j) = "treatment" =>
       /\ judge[j].content # Nothing
       /\ judge[j].file \in Tables => Certifies(judge[j].content.verdict, "treatment")
Knows(j) == Begun(j) /\ Judged(j) /\ Publishes(j)

JInv == /\ JTyped /\ Preregistered /\ Fixed
        /\ \A p \in Phases : Settled(p) /\ \A f \in 1..6 : Checkpointed(p, f)
        /\ \A o \in Outputs : Published(o)
        /\ \A j \in Judges : Knows(j)

-----------------------------------------------------------------------------
(* What a step leaves alone.                                               *)

(* No file of a closed phase changes, a measurement is final, and what is  *)
(* published stays, though it may be written again.                        *)
Grows ==
  /\ ClosedStays
  /\ \A p \in Phases, u \in Batches :
       responses[p][u] # Nothing => responses'[p][u] = responses[p][u]
  /\ \A p \in Phases : verdict[p] # Nothing => verdict'[p] # Nothing
  /\ thresholds # Nothing => thresholds' # Nothing
  /\ \A o \in Outputs : outputs[o] # Nothing => outputs'[o] # Nothing

LEMMA PassesKept ==
  ASSUME NEW p \in Phases, \A q \in Spanned(p) : responses'[q] = responses[q]
  PROVE  Passes(p)' = Passes(p)
<1>1. [x \in Spanned(p) \X Batches |-> responses'[x[1]][x[2]]]
        = [x \in Spanned(p) \X Batches |-> responses[x[1]][x[2]]]
  OBVIOUS
<1>2. QED BY <1>1 DEF Passes

(* Whatever certifies a phase that is closed and measured goes on to do so. *)
LEMMA Frozen ==
  ASSUME JInv, JTyped', Grows, NEW p \in Phases, manifest[p] # Nothing, AllAnswered(p),
         p = "treatment" => verdict["baseline"] # Nothing
  PROVE  /\ manifest'[p] = manifest[p] /\ responses'[p] = responses[p]
         /\ Passes(p)' = Passes(p) /\ AllAnswered(p)'
<1>1. \A q \in Spanned(p) : q \in Phases /\ AllAnswered(q)
  BY DEF JInv, Settled, Spanned, Phases
<1>2. ASSUME NEW q \in Spanned(p)
      PROVE  responses'[q] = responses[q]
  <2>1. /\ responses[q] \in [Batches -> Answered \cup {Nothing}]
        /\ responses'[q] \in [Batches -> Answered \cup {Nothing}]
    BY <1>1 DEF JInv, JTyped
  <2>2. \A u \in Batches : responses'[q][u] = responses[q][u]
    BY <1>1 DEF AllAnswered, Grows
  <2>3. QED BY <2>1, <2>2
<1>3. p \in Spanned(p)
  BY DEF Spanned, Phases
<1>4. Passes(p)' = Passes(p)
  BY <1>2, PassesKept
<1>5. QED BY <1>2, <1>3, <1>4 DEF Grows, ClosedStays, AllAnswered

LEMMA AlikeStays ==
  ASSUME Grows, manifest["baseline"] # Nothing, manifest["treatment"] # Nothing, Alike
  PROVE  Alike'
BY DEF Grows, ClosedStays, Alike, Phases

LEMMA SettledStays ==
  ASSUME JInv, JTyped', Grows, NEW p \in Phases, verdict'[p] = verdict[p]
  PROVE  Settled(p)'
<1> SUFFICES ASSUME verdict[p] # Nothing PROVE Settled(p)'
  BY DEF Settled
<1>1. Settled(p) /\ Settled("baseline") /\ manifest[p] # Nothing /\ AllAnswered(p)
  BY DEF JInv, Settled, Phases
<1>2. /\ manifest'[p] = manifest[p] /\ responses'[p] = responses[p]
      /\ Passes(p)' = Passes(p) /\ AllAnswered(p)'
  BY <1>1, Frozen DEF Settled
<1>3. p = "treatment" => Alike'
  BY <1>1, AlikeStays DEF Settled
<1>4. QED BY <1>1, <1>2, <1>3 DEF Settled, Certifies, Grows, Phases

LEMMA FixedStays ==
  ASSUME JInv, JTyped', Grows, thresholds' = thresholds
  PROVE  Fixed'
<1> SUFFICES ASSUME thresholds # Nothing PROVE Fixed'
  BY DEF Fixed
<1>1. Fixed /\ "baseline" \in Phases /\ verdict["baseline"] # Nothing
      /\ manifest["baseline"] # Nothing /\ AllAnswered("baseline")
  BY DEF JInv, Fixed, Settled, Phases
<1>2. /\ manifest'["baseline"] = manifest["baseline"] /\ responses'["baseline"] = responses["baseline"]
      /\ Passes("baseline")' = Passes("baseline")
  BY <1>1, Frozen
<1>3. QED BY <1>1, <1>2 DEF Fixed, Certifies, Grows

LEMMA PublishedStays ==
  ASSUME JInv, JTyped', Grows, NEW o \in Outputs, outputs'[o] = outputs[o]
  PROVE  Published(o)'
<1> SUFFICES ASSUME outputs[o] # Nothing PROVE Published(o)'
  BY DEF Published
<1>1. /\ Published(o) /\ verdict["treatment"] # Nothing /\ Settled("treatment")
      /\ "treatment" \in Phases /\ manifest["treatment"] # Nothing /\ AllAnswered("treatment")
      /\ verdict["baseline"] # Nothing
  BY DEF JInv, Published, Settled, Phases
<1>2. /\ manifest'["treatment"] = manifest["treatment"]
      /\ responses'["treatment"] = responses["treatment"]
      /\ Passes("treatment")' = Passes("treatment")
  BY <1>1, Frozen
<1>3. QED BY <1>1, <1>2 DEF Published, Certifies, Grows, Tables

(* A command that does not act. *)
LEMMA KnowsStays ==
  ASSUME JInv, JTyped', Grows, NEW k \in Judges, judge'[k] = judge[k]
  PROVE  Knows(k)'
<1> DEFINE p == Case(k)
<1>1. p \in Phases /\ Case(k)' = p /\ Knows(k) /\ Settled(p) /\ Settled("baseline")
  BY DEF JInv, JTyped, Case, Phases
<1>2. Begun(k)'
  <2>1. judge[k].pc # "idle" => manifest'[p] = manifest[p] /\ manifest[p] # Nothing
    BY <1>1 DEF Knows, Begun, Grows, ClosedStays
  <2>2. p = "treatment" /\ judge[k].pc \in Judging /\ Alike => Alike'
    BY <1>1, AlikeStays DEF Knows, Begun, Settled, Judging
  <2>3. QED BY <1>1, <2>1, <2>2 DEF Knows, Begun, Grows, Phases, Judging
<1>3. Judged(k)'
  <2>1. HasAnswers(Case(k), Len(judge[k].units))'
    BY <1>1 DEF Knows, Judged, HasAnswers, Grows
  <2>2. CASE judge[k].pc = "verdict"
    <3>1. /\ manifest[p] # Nothing /\ AllAnswered(p)
          /\ p = "treatment" => verdict["baseline"] # Nothing
      BY <1>1, <2>2 DEF Knows, Begun, Judged
    <3>2. Passes(p)' = Passes(p) /\ AllAnswered(p)'
      BY <1>1, <3>1, Frozen
    <3>3. QED BY <1>1, <2>1, <2>2, <3>2 DEF Knows, Judged
  <2>3. QED BY <2>1, <2>2 DEF Judged
<1>4. Publishes(k)'
  <2>1. CASE judge[k].inventory = Nothing
    <3>1. judge[k].pc \notin {"publish", "put"}
      BY <1>1, <2>1 DEF Knows, Publishes
    <3>2. QED BY <2>1, <3>1 DEF Publishes
  <2>2. CASE judge[k].inventory # Nothing
    <3>1. /\ verdict[p] # Nothing /\ manifest[p] # Nothing /\ AllAnswered(p)
          /\ p = "treatment" => verdict["baseline"] # Nothing
      BY <1>1, <2>2 DEF Knows, Publishes, Settled
    <3>2. /\ manifest'[p] = manifest[p] /\ responses'[p] = responses[p] /\ Passes(p)' = Passes(p)
      BY <1>1, <3>1, Frozen
    <3>3. QED BY <1>1, <2>2, <3>2 DEF Knows, Publishes, Certifies, Grows, Tables
  <2>3. QED BY <2>1, <2>2
<1>5. QED BY <1>2, <1>3, <1>4 DEF Knows

(* What has to be shown of a step of j: that what it writes is right. *)
LEMMA Steps ==
  ASSUME JInv, JTyped', Grows, Preregistered', NEW j,
         \A k \in Judges : k # j => judge'[k] = judge[k],
         j \in Judges => Knows(j)',
         thresholds' = thresholds \/ Fixed',
         \A p \in Phases : verdict'[p] = verdict[p] \/ Settled(p)',
         \A o \in Outputs : outputs'[o] = outputs[o] \/ Published(o)',
         \A p \in Phases, f \in 1..6 : bundle'[p][f] = bundle[p][f] \/ Checkpointed(p, f)'
  PROVE  JInv'
<1>1. ASSUME NEW p \in Phases, NEW f \in 1..6, bundle'[p][f] = bundle[p][f]
      PROVE  Checkpointed(p, f)'
  BY <1>1 DEF JInv, Checkpointed, HasAnswers, Grows
<1>2. QED BY <1>1, SettledStays, FixedStays, PublishedStays, KnowsStays DEF JInv

(* Only a command that works in a phase commits to it. *)
LEMMA OwnPhaseOnly ==
  ASSUME GInv, CInv, NEW g \in Generators, GenerateStep(g) \/ Leave(g)
  PROVE  /\ gen[g].pc # "idle" /\ \A h \in Generators \ {g} : gen'[h] = gen[h]
         /\ gen'[g].pc = "idle" \/ gen'[g].phase = gen[g].phase
         /\ \A q \in Phases \ {Phase(g)} : batches'[q] = batches[q]
<1>1. CASE End(g) /\ batches' = batches /\ gen[g].pc # "idle"
  BY <1>1 DEF End, GInv, Typed, Idle
<1>2. CASE Commit(g)
  BY <1>2, CommitKeepsFiles DEF Commit, At, GInv, Typed, Fields
<1>3. CASE Load(g)
  BY <1>1, <1>3 DEF Load, GInv, Typed, Fields, At, files
<1>4. CASE Loaded(g) \/ Authorize(g)
  BY <1>1, <1>4 DEF Loaded, Authorize, GInv, Typed, Fields, At, files, Goto
<1>5. CASE Construct(g)
  BY <1>1, <1>5 DEF Construct, GInv, Typed, Fields, At, files
<1>6. CASE Generate(g)
  BY <1>1, <1>6 DEF Generate, GInv, Typed, Fields, At, files, Goto
<1>7. CASE CompareMerged(g)
  BY <1>1, <1>7 DEF CompareMerged, GInv, Typed, Fields, At, files, Goto
<1>8. CASE Merge(g)
  BY <1>1, <1>8 DEF Merge, GInv, Typed, Fields, At, files, Goto
<1>9. CASE Sum(g)
  BY <1>1, <1>9 DEF Sum, GInv, Typed, Fields, At, files
<1>10. CASE Close(g)
  BY <1>1, <1>10 DEF Close, At
<1>11. CASE Leave(g)
  BY <1>1, <1>11 DEF Leave, At, files
<1>12. QED BY <1>2, <1>3, <1>4, <1>5, <1>6, <1>7, <1>8, <1>9, <1>10, <1>11 DEF GenerateStep

(* A treatment rollout, and a command that makes one, has thresholds.      *)
LEMMA GenerationPreregistered ==
  ASSUME GInv, CInv, JInv, Generation, UNCHANGED adjudicationVars
  PROVE  Preregistered'
<1>0. thresholds' = thresholds /\ Preregistered
  BY DEF adjudicationVars, results, JInv
<1>1. CASE thresholds # Nothing
  BY <1>0, <1>1 DEF Preregistered
<1>2. CASE thresholds = Nothing
  <2>1. /\ \A b \in Batches : batches["treatment"][b] = Nothing
        /\ \A g \in Generators : gen[g].pc = "idle" \/ Phase(g) # "treatment"
    BY <1>0, <1>2 DEF Preregistered
  <2>2. /\ batches'["treatment"] = batches["treatment"]
        /\ \A g \in Generators : gen'[g].pc = "idle" \/ gen'[g].phase # "treatment"
    <3>1. ASSUME NEW g \in Generators, NEW p \in Phases, StartGeneration(g, p)
          PROVE  <2>2!:
      BY <1>2, <2>1, <3>1 DEF StartGeneration, Start, GInv, Typed, Idle, Phase
    <3>2. ASSUME NEW g \in Generators, GenerateStep(g) \/ Leave(g)
          PROVE  <2>2!:
      BY <2>1, <3>2, OwnPhaseOnly DEF Phase, Phases
    <3>3. CASE ReapproveAll
      BY <2>1, <3>3 DEF ReapproveAll, Reapprove, files, Phase
    <3>4. QED BY <3>1, <3>2, <3>3 DEF Generation
  <2>3. QED BY <1>0, <2>1, <2>2, <1>2 DEF Preregistered, Phase
<1>3. QED BY <1>1, <1>2

(* Generation leaves closed phases alone, and results are of closed phases. *)
LEMMA GenerationKeepsJudges ==
  ASSUME AbsentFile, GInv, CInv, JInv, Generation, UNCHANGED adjudicationVars
  PROVE  JInv'
<1>1. /\ responses' = responses /\ bundle' = bundle /\ judge' = judge
      /\ verdict' = verdict /\ thresholds' = thresholds /\ outputs' = outputs
  BY DEF adjudicationVars, money, results
<1>2. Grows /\ JTyped'
  BY <1>1, GenerationKeepsFiles DEF Grows, JInv, JTyped
<1>3. \A j \in Judges : Knows(j)'
  BY <1>1, <1>2, KnowsStays
<1>4. QED BY <1>1, <1>2, <1>3, GenerationPreregistered, Steps

-----------------------------------------------------------------------------
(* The steps of an adjudication command.                                   *)

LEMMA Beside ==
  ASSUME JInv, UNCHANGED generationVars, thresholds' = thresholds \/ thresholds' # Nothing
  PROVE  ClosedStays /\ Preregistered'
BY DEF generationVars, files, ClosedStays, JInv, Preregistered, Phase

(* It writes nothing that others read. *)
LEMMA JudgeMoves ==
  ASSUME JInv, NEW j \in Judges, UNCHANGED generationVars,
         responses' = responses, bundle' = bundle, verdict' = verdict,
         thresholds' = thresholds, outputs' = outputs,
         DOMAIN judge' = Judges, \A k \in Judges : k # j => judge'[k] = judge[k],
         DOMAIN judge'[j] = Benches, judge'[j].phase \in Phases,
         judge'[j].units \in Seq(Origins), Knows(j)'
  PROVE  JInv'
<1>1. JTyped'
  BY DEF JInv, JTyped
<1>2. Grows
  BY Beside DEF Grows
<1>3. QED BY <1>1, <1>2, Beside, Steps

(* What Retire leaves: nothing in hand. *)
LEMMA BenchInHand ==
  ASSUME NEW j \in Judges, judge'[j] = Bench
  PROVE  /\ DOMAIN judge'[j] = Benches /\ judge'[j].phase \in Phases
         /\ judge'[j].units \in Seq(Origins) /\ Knows(j)'
<1>1. /\ DOMAIN Bench = Benches /\ Bench.phase = "baseline" /\ Bench.units = <<>>
      /\ Bench.file = 1 /\ Bench.pc = "idle" /\ Bench.inventory = Nothing
  BY DEF Bench, Benches
<1>2. <<>> \in Seq(Origins) /\ Len(<<>>) = 0 /\ \A u \in Batches : ~(u <= 0)
  BY GenerationAssumption DEF Batches
<1>3. Begun(j)' /\ Publishes(j)'
  BY <1>1 DEF Begun, Publishes
<1>4. Judged(j)'
  BY <1>1, <1>2 DEF Judged, HasAnswers
<1>5. QED BY <1>1, <1>2, <1>3, <1>4 DEF Phases, Knows

LEMMA Retires ==
  ASSUME JInv, NEW j \in Judges, Retire(j), UNCHANGED generationVars,
         responses' = responses, bundle' = bundle, verdict' = verdict,
         thresholds' = thresholds, outputs' = outputs
  PROVE  JInv'
<1>1. /\ DOMAIN judge' = Judges /\ judge'[j] = Bench
      /\ \A k \in Judges : k # j => judge'[k] = judge[k]
  BY DEF Retire, JInv, JTyped
<1>2. QED BY <1>1, BenchInHand, JudgeMoves

(* Only its program counter, its audit, its file and its content change.   *)
LEMMA Advances ==
  ASSUME JInv, NEW j \in Judges, UNCHANGED generationVars,
         responses' = responses, bundle' = bundle, verdict' = verdict,
         thresholds' = thresholds, outputs' = outputs,
         DOMAIN judge' = Judges, \A k \in Judges : k # j => judge'[k] = judge[k],
         DOMAIN judge'[j] = Benches, judge'[j].phase = judge[j].phase,
         judge'[j].source = judge[j].source, judge'[j].inventory = judge[j].inventory,
         judge'[j].units = judge[j].units,
         judge[j].pc # "idle", judge'[j].pc \in Paying \cup Judging,
         judge'[j].pc \in Judging => judge[j].pc \in Judging,
         judge'[j].pc = "verdict" =>
           AllAnswered(Case(j)) /\ (Case(j) = "baseline" => Passes("baseline")),
         Publishes(j)'
  PROVE  JInv'
<1>1. plan' = plan /\ merged' = merged /\ manifest' = manifest
  BY DEF generationVars, files
<1>2. /\ judge[j].phase \in Phases /\ judge[j].units \in Seq(Origins)
      /\ Begun(j) /\ Judged(j) /\ Case(j)' = Case(j)
  BY DEF JInv, JTyped, Knows, Case
<1>3. Begun(j)'
  BY <1>1, <1>2 DEF Begun, Alike
<1>4. Judged(j)'
  <2>1. Passes("baseline")' = Passes("baseline")
    BY PassesKept DEF Phases
  <2>2. QED BY <1>2, <2>1 DEF Judged, HasAnswers, AllAnswered
<1>5. QED BY <1>2, <1>3, <1>4, JudgeMoves DEF Knows

(* Before it may pay, a command has read a closed phase. *)
LEMMA PayingSteps ==
  ASSUME JInv, NEW j \in Judges, UNCHANGED generationVars,
         (\E p \in Phases : Begin(j, p)) \/ FreezePaidPlan(j) \/ Attempt(j) \/ AuthorizeCalls(j)
  PROVE  JInv'
<1>1. /\ responses' = responses /\ bundle' = bundle /\ verdict' = verdict
      /\ thresholds' = thresholds /\ outputs' = outputs /\ manifest' = manifest
  BY DEF Begin, FreezePaidPlan, Attempt, AuthorizeCalls, money, results, generationVars, files
<1>2. ASSUME NEW p \in Phases, Begin(j, p)
      PROVE  JInv'
  <2>1. /\ DOMAIN judge' = Judges /\ DOMAIN judge'[j] = Benches /\ judge'[j].phase = p
        /\ \A k \in Judges : k # j => judge'[k] = judge[k]
        /\ judge'[j].units = <<>> /\ judge'[j].pc = "plan" /\ judge'[j].inventory = Nothing
        /\ judge'[j].source = manifest[p]
    BY <1>2 DEF Begin, Bench, Benches, JInv, JTyped
  <2>2. /\ p = "treatment" => thresholds # Nothing /\ verdict["baseline"] # Nothing
        /\ manifest[p] # Nothing
    BY <1>2 DEF Begin, BaselineLoads, ThresholdsBound, Loads
  <2>3. Begun(j)'
    BY <1>1, <2>1, <2>2 DEF Begun, Paying, Judging, Case
  <2>4. <<>> \in Seq(Origins) /\ Len(<<>>) = 0 /\ \A u \in Batches : ~(u <= 0)
    BY GenerationAssumption DEF Batches
  <2>5. Judged(j)' /\ Publishes(j)'
    BY <2>1, <2>4 DEF Judged, HasAnswers, Publishes
  <2>6. QED BY <1>1, <2>1, <2>3, <2>4, <2>5, JudgeMoves DEF Knows
<1>3. ASSUME ~Retire(j), FreezePaidPlan(j) \/ Attempt(j) \/ AuthorizeCalls(j)
      PROVE  JInv'
  <2>1. \E pc \in {"attempt", "authorize", "open"} : Move(j, pc)
    BY <1>3 DEF FreezePaidPlan, Attempt, AuthorizeCalls
  <2>2. judge[j].pc \in Paying
    BY <1>3 DEF FreezePaidPlan, Attempt, AuthorizeCalls, On, Paying
  <2>3. /\ DOMAIN judge' = Judges /\ DOMAIN judge'[j] = Benches
        /\ \A k \in Judges : k # j => judge'[k] = judge[k]
        /\ judge'[j].phase = judge[j].phase /\ judge'[j].units = judge[j].units
        /\ judge'[j].source = judge[j].source /\ judge'[j].inventory = judge[j].inventory
        /\ judge'[j].pc \in Paying
    BY <2>1 DEF Move, JInv, JTyped, Benches, Paying
  <2>4. judge[j].inventory = Nothing
    BY <2>2 DEF JInv, Knows, Publishes, Paying
  <2>5. Publishes(j)'
    BY <2>3, <2>4 DEF Publishes, Paying
  <2>6. QED BY <1>1, <2>2, <2>3, <2>5, Advances DEF Paying, Judging
<1>4. CASE Retire(j)
  BY <1>1, <1>4, Retires
<1>5. QED BY <1>2, <1>3, <1>4

(* A checkpoint is resumed as far as its records have measurements. *)
LEMMA OpenStep ==
  ASSUME JInv, NEW j \in Judges, UNCHANGED generationVars, Open(j)
  PROVE  JInv'
<1> DEFINE p == Case(j)
           units == IF bundle[p][1] = Nothing THEN <<>> ELSE bundle[p][4]
<1>1. /\ responses' = responses /\ bundle' = bundle /\ verdict' = verdict
      /\ thresholds' = thresholds /\ outputs' = outputs /\ plan' = plan /\ merged' = merged
      /\ manifest' = manifest
  BY DEF Open, money, results, generationVars, files
<1>2. CASE Retire(j)
  BY <1>1, <1>2, Retires
<1>3. CASE ~Retire(j)
  <2>1. /\ p \in Phases /\ judge[j].pc = "open" /\ Loads(p) /\ BundleLoads(p)
        /\ p = "treatment" => SameEnvironment
        /\ judge' = [judge EXCEPT ![j].pc = "ask", ![j].units = units]
    BY <1>3 DEF Open, JInv, JTyped, Case, On
  <2>2. units \in Seq(Origins) /\ HasAnswers(p, Len(units))
    <3>1. CASE bundle[p][1] = Nothing
      <4>1. <<>> \in Seq(Origins) /\ Len(<<>>) = 0 /\ \A u \in Batches : ~(u <= 0)
        BY GenerationAssumption DEF Batches
      <4>2. QED BY <3>1, <4>1 DEF HasAnswers
    <3>2. CASE bundle[p][1] # Nothing
      <4>1. bundle[p][4] # Nothing
        BY <2>1, <3>2 DEF BundleLoads
      <4>2. bundle[p][4] \in Seq(Origins)
        BY <2>1, <4>1 DEF JInv, JTyped
      <4>3. Checkpointed(p, 4)
        BY <2>1 DEF JInv
      <4>4. QED BY <3>2, <4>1, <4>2, <4>3 DEF Checkpointed
    <3>3. QED BY <3>1, <3>2
  <2>3. /\ DOMAIN judge' = Judges /\ DOMAIN judge'[j] = Benches
        /\ \A k \in Judges : k # j => judge'[k] = judge[k]
        /\ judge'[j].phase = p /\ judge'[j].units = units /\ judge'[j].pc = "ask"
        /\ judge'[j].inventory = judge[j].inventory /\ judge'[j].source = judge[j].source
    BY <2>1 DEF JInv, JTyped, Benches, Case
  <2>4. Begun(j) /\ Judged(j) /\ Publishes(j) /\ Settled("baseline")
    BY DEF JInv, Knows, Phases
  <2>5. judge[j].inventory = Nothing
    BY <2>1, <2>4 DEF Publishes
  <2>6. p = "treatment" => Alike
    BY <2>1, <2>4 DEF Begun, Settled, Certifies, SameEnvironment, Alike
  <2>7. Begun(j)'
    BY <1>1, <2>1, <2>3, <2>4, <2>6 DEF Begun, Judging, Case, Alike
  <2>8. Judged(j)' /\ Publishes(j)'
    BY <1>1, <2>2, <2>3, <2>5 DEF Judged, HasAnswers, Publishes, Case
  <2>9. QED BY <1>1, <2>1, <2>2, <2>3, <2>7, <2>8, JudgeMoves DEF Knows
<1>4. QED BY <1>2, <1>3

(* Three calls of a unit: paid once, or replayed. *)
LEMMA AskStep ==
  ASSUME AbsentFile, JInv, NEW j \in Judges, UNCHANGED generationVars, Ask(j)
  PROVE  JInv'
<1> DEFINE p == Case(j)
           u == Unit(j)
<1>1. /\ bundle' = bundle /\ verdict' = verdict /\ thresholds' = thresholds /\ outputs' = outputs
      /\ plan' = plan /\ merged' = merged /\ manifest' = manifest
      /\ p \in Phases /\ judge[j].pc = "ask" /\ u \in Batches
      /\ responses \in [Phases -> [Batches -> Answered \cup {Nothing}]]
  BY DEF Ask, results, generationVars, files, JInv, JTyped, Case, On
<1>2. PICK origin \in Origins :
        judge' = [judge EXCEPT ![j].pc = "checkpoint", ![j].file = 1,
                               ![j].units = Append(@, origin), ![j].asked = @ \cup {u}]
  BY DEF Ask, Origins
<1>3. /\ responses' \in [Phases -> [Batches -> Answered \cup {Nothing}]]
      /\ responses'[p][u] # Nothing
      /\ \A q \in Phases, b \in Batches :
           responses[q][b] # Nothing => responses'[q][b] = responses[q][b]
  <2>1. CASE responses[p][u] # Nothing /\ responses' = responses
    BY <1>1, <2>1
  <2>2. CASE responses[p][u] = Nothing /\ \E m \in Answered : responses' = [responses EXCEPT ![p][u] = m]
    <3>1. PICK m \in Answered : responses' = [responses EXCEPT ![p][u] = m]
      BY <2>2
    <3>2. m # Nothing
      BY AbsentFile DEF AbsentFile
    <3>3. QED BY <1>1, <2>2, <3>1, <3>2
  <2>3. QED BY <2>1, <2>2 DEF Ask
<1>4. /\ judge[j].units \in Seq(Origins) /\ Append(judge[j].units, origin) \in Seq(Origins)
      /\ Len(Append(judge[j].units, origin)) = u /\ u = Len(judge[j].units) + 1
      /\ Len(judge[j].units) \in Nat
  BY DEF JInv, JTyped, Unit
<1>5. /\ DOMAIN judge' = Judges /\ DOMAIN judge'[j] = Benches
      /\ \A k \in Judges : k # j => judge'[k] = judge[k]
      /\ judge'[j].phase = p /\ judge'[j].units = Append(judge[j].units, origin)
      /\ judge'[j].pc = "checkpoint"
      /\ judge'[j].inventory = judge[j].inventory /\ judge'[j].source = judge[j].source
  BY <1>2 DEF JInv, JTyped, Benches, Case
<1>6. JTyped'
  BY <1>1, <1>3, <1>4, <1>5 DEF JInv, JTyped
<1>7. Grows
  BY <1>1, <1>3, Beside DEF Grows
<1>8. Begun(j) /\ Judged(j) /\ Publishes(j)
  BY DEF JInv, Knows
<1>9. Begun(j)'
  BY <1>1, <1>5, <1>8 DEF Begun, Judging, Case, Alike
<1>10. Judged(j)'
  <2>1. \A b \in Batches : b <= u => b = u \/ b <= Len(judge[j].units)
    BY <1>4 DEF Batches
  <2>2. HasAnswers(p, Len(judge[j].units))
    BY <1>8 DEF Judged
  <2>3. \A b \in Batches : b <= u => responses'[p][b] # Nothing
    BY <1>1, <1>3, <2>1, <2>2 DEF HasAnswers
  <2>4. QED BY <1>4, <1>5, <2>3 DEF Judged, HasAnswers, Case
<1>11. Publishes(j)'
  BY <1>1, <1>5, <1>8 DEF Publishes
<1>12. QED BY <1>1, <1>5, <1>6, <1>7, <1>9, <1>10, <1>11, Beside, Steps DEF Knows

(* Tables, then the release, then the sampling manifest. *)
LEMMA OutputNumbers ==
  /\ \A o : o \in Outputs <=> o \in Int /\ o >= 1 /\ o <= SamplingManifest
  /\ \A o : o \in Tables <=> o \in Outputs /\ o < ReleaseManifest
  /\ ReleaseManifest \in Nat /\ SamplingManifest = ReleaseManifest + 1
  /\ ReleaseManifest \in Outputs /\ SamplingManifest \in Outputs
  /\ ReleaseManifest \notin Tables /\ SamplingManifest \notin Tables
  /\ \A o \in Outputs : o \in Tables \/ o = ReleaseManifest \/ o = SamplingManifest
  /\ \A o \in Outputs : o # SamplingManifest => o + 1 \in Outputs
BY StudyAssumption DEF Outputs, Tables, ReleaseManifest, SamplingManifest

(* One more of the six files holds what the command has judged. *)
LEMMA CheckpointStep ==
  ASSUME JInv, NEW j \in Judges, UNCHANGED generationVars, Checkpoint(j)
  PROVE  JInv'
<1> DEFINE p == Case(j)
           units == judge[j].units
<1>1. /\ responses' = responses /\ verdict' = verdict /\ thresholds' = thresholds
      /\ outputs' = outputs /\ plan' = plan /\ merged' = merged /\ manifest' = manifest
      /\ p \in Phases /\ judge[j].pc = "checkpoint" /\ units \in Seq(Origins)
      /\ bundle \in [Phases -> [1..6 -> Seq(Origins) \cup {Nothing}]]
      /\ bundle' = [bundle EXCEPT ![p][judge[j].file] = units]
  BY DEF Checkpoint, money, results, generationVars, files, JInv, JTyped, Case, On
<1>2. /\ DOMAIN judge' = Judges /\ DOMAIN judge'[j] = Benches
      /\ \A k \in Judges : k # j => judge'[k] = judge[k]
      /\ judge'[j].phase = p /\ judge'[j].units = units
      /\ judge'[j].pc \in {"audit", "checkpoint"}
      /\ judge'[j].inventory = judge[j].inventory /\ judge'[j].source = judge[j].source
  BY DEF Checkpoint, JInv, JTyped, Benches, Case, On
<1>3. bundle' \in [Phases -> [1..6 -> Seq(Origins) \cup {Nothing}]]
  BY <1>1
<1>4. JTyped' /\ Grows
  BY <1>1, <1>2, <1>3, Beside DEF JInv, JTyped, Grows
<1>5. Begun(j) /\ Judged(j) /\ Publishes(j)
  BY DEF JInv, Knows
<1>6. judge[j].inventory = Nothing
  BY <1>1, <1>5 DEF Publishes
<1>7. Begun(j)' /\ Judged(j)' /\ Publishes(j)'
  BY <1>1, <1>2, <1>5, <1>6 DEF Begun, Judged, HasAnswers, Publishes, Judging, Case, Alike
<1>8. ASSUME NEW q \in Phases, NEW f \in 1..6
      PROVE  bundle'[q][f] = bundle[q][f] \/ Checkpointed(q, f)'
  <2>1. CASE q = p /\ f = judge[j].file
    <3>1. bundle'[q][f] = units /\ HasAnswers(p, Len(units))
      BY <1>1, <1>5, <2>1 DEF Judged
    <3>2. QED BY <1>1, <2>1, <3>1 DEF Checkpointed, HasAnswers
  <2>2. CASE ~(q = p /\ f = judge[j].file)
    BY <1>1, <2>2
  <2>3. QED BY <2>1, <2>2
<1>9. QED BY <1>1, <1>2, <1>4, <1>7, <1>8, Beside, Steps DEF Knows

(* The usage audit may be another command's: nothing here rests on it.     *)
LEMMA AuditSteps ==
  ASSUME JInv, NEW j \in Judges, UNCHANGED generationVars, ReadAudit(j) \/ AppendAudit(j)
  PROVE  JInv'
<1>1. /\ responses' = responses /\ bundle' = bundle /\ verdict' = verdict
      /\ thresholds' = thresholds /\ outputs' = outputs /\ manifest' = manifest
      /\ judge[j].pc \in {"audit", "append"}
  BY DEF ReadAudit, AppendAudit, money, results, generationVars, files, On
<1>2. /\ DOMAIN judge' = Judges /\ DOMAIN judge'[j] = Benches
      /\ \A k \in Judges : k # j => judge'[k] = judge[k]
      /\ judge'[j].phase = judge[j].phase /\ judge'[j].units = judge[j].units
      /\ judge'[j].inventory = judge[j].inventory /\ judge'[j].source = judge[j].source
      /\ judge'[j].file = judge[j].file
      /\ judge'[j].pc \in {"append", "ask", "publish"}
      /\ judge'[j].pc = "ask" => judge[j].inventory = Nothing
      /\ judge'[j].pc = "publish" => judge[j].inventory # Nothing
  BY DEF ReadAudit, AppendAudit, Move, JInv, JTyped, Benches, On
<1>3. \A p \in Phases : Passes(p)' = Passes(p)
  BY <1>1, PassesKept
<1>4. Publishes(j)'
  BY <1>1, <1>2, <1>3 DEF JInv, JTyped, Knows, Publishes, Certifies, Case
<1>5. QED BY <1>1, <1>2, <1>4, Advances DEF Judging

(* Who writes rows has judged every unit, and a baseline has passed. *)
LEMMA RowsStep ==
  ASSUME JInv, NEW j \in Judges, UNCHANGED generationVars, WriteRows(j)
  PROVE  JInv'
<1>1. /\ responses' = responses /\ bundle' = bundle /\ verdict' = verdict
      /\ thresholds' = thresholds /\ outputs' = outputs
      /\ judge[j].pc = "ask" /\ Unit(j) \notin Batches
  BY DEF WriteRows, money, On
<1>2. CASE Retire(j)
  BY <1>1, <1>2, Retires
<1>3. CASE Move(j, "verdict") /\ (Case(j) = "baseline" => Passes("baseline"))
  <2>1. /\ DOMAIN judge' = Judges /\ DOMAIN judge'[j] = Benches
        /\ \A k \in Judges : k # j => judge'[k] = judge[k]
        /\ judge'[j].phase = judge[j].phase /\ judge'[j].units = judge[j].units
        /\ judge'[j].inventory = judge[j].inventory /\ judge'[j].source = judge[j].source
        /\ judge'[j].pc = "verdict"
    BY <1>3 DEF Move, JInv, JTyped, Benches
  <2>2. Judged(j) /\ Publishes(j) /\ judge[j].units \in Seq(Origins)
    BY DEF JInv, JTyped, Knows
  <2>3. AllAnswered(Case(j))
    <3>1. \A u \in Batches : u <= Len(judge[j].units)
      BY <1>1, <2>2, GenerationAssumption DEF Unit, Batches
    <3>2. QED BY <2>2, <3>1 DEF Judged, HasAnswers, AllAnswered
  <2>4. Publishes(j)'
    BY <1>1, <2>1, <2>2 DEF Publishes
  <2>5. QED BY <1>1, <1>3, <2>1, <2>3, <2>4, Advances DEF Judging
<1>4. QED BY <1>2, <1>3 DEF WriteRows

(* A verdict may replace another one, which is of the same measurements.   *)
LEMMA VerdictStep ==
  ASSUME AbsentFile, JInv, NEW j \in Judges, UNCHANGED generationVars, WriteVerdict(j)
  PROVE  JInv'
<1> DEFINE p == Case(j)
           v == VerdictOf(j)
<1>1. /\ responses' = responses /\ bundle' = bundle /\ thresholds' = thresholds
      /\ outputs' = outputs /\ plan' = plan /\ merged' = merged /\ manifest' = manifest
      /\ judge[j].pc = "verdict" /\ p \in Phases /\ judge[j].units \in Seq(Origins)
      /\ DOMAIN verdict' = Phases /\ verdict'[p] = v
      /\ \A q \in Phases \ {p} : verdict'[q] = verdict[q]
  BY DEF WriteVerdict, money, generationVars, files, JInv, JTyped, On, Case
<1>2. Begun(j) /\ Judged(j) /\ Publishes(j)
  BY DEF JInv, Knows
<1>3. /\ AllAnswered(p) /\ manifest[p] # Nothing /\ (p = "baseline" => Passes(p))
      /\ p = "treatment" => verdict["baseline"] # Nothing /\ thresholds # Nothing /\ Alike
  BY <1>1, <1>2 DEF Begun, Judged, Judging
<1>4. Certifies(v, p) /\ v # Nothing /\ v.passed = Passes(p)
  <2>1. v.source = manifest[p] /\ v.rows.measured = responses[p] /\ v.passed = Passes(p)
    BY <1>1, <1>2 DEF Begun, VerdictOf, Rows, Judging
  <2>2. v # Nothing
    BY AbsentFile DEF AbsentFile, VerdictOf
  <2>3. QED BY <2>1, <2>2 DEF Certifies
<1>5. \A q \in Phases : Passes(q)' = Passes(q)
  BY <1>1, PassesKept
<1>6. \/ judge'[j] = Bench /\ DOMAIN judge' = Judges /\ \A k \in Judges : k # j => judge'[k] = judge[k]
      \/ /\ DOMAIN judge' = Judges /\ DOMAIN judge'[j] = Benches
         /\ \A k \in Judges : k # j => judge'[k] = judge[k]
         /\ judge'[j].phase = p /\ judge'[j].units = judge[j].units
         /\ judge'[j].inventory = v /\ judge'[j].source = judge[j].source
         /\ judge'[j].file = 1 /\ judge'[j].pc = "audit" /\ v.passed
  BY DEF WriteVerdict, Retire, JInv, JTyped, Benches, Case
<1>7. /\ Knows(j)' /\ DOMAIN judge' = Judges /\ DOMAIN judge'[j] = Benches
      /\ judge'[j].phase \in Phases /\ judge'[j].units \in Seq(Origins)
      /\ \A k \in Judges : k # j => judge'[k] = judge[k]
  <2>1. CASE judge'[j] = Bench
    BY <1>6, <2>1, BenchInHand
  <2>2. CASE judge'[j] # Bench
    <3>1. Begun(j)'
      BY <1>1, <1>2, <1>3, <1>4, <1>6, <2>2 DEF Begun, Judging, Case, Alike, Phases
    <3>2. Judged(j)'
      BY <1>1, <1>2, <1>6, <2>2 DEF Judged, HasAnswers, Case
    <3>3. Certifies(judge[j].inventory, Case(j))' /\ Passes(Case(j))' /\ verdict'[p] # Nothing
      BY <1>1, <1>4, <1>5, <1>6, <2>2 DEF Certifies, Case
    <3>4. 1 \in Outputs /\ \A q \in Outputs : ~(q < 1)
      BY OutputNumbers
    <3>5. Publishes(j)'
      BY <1>1, <1>6, <2>2, <3>3, <3>4 DEF Publishes, Case
    <3>6. QED BY <1>1, <1>6, <2>2, <3>1, <3>2, <3>5 DEF Knows
  <2>3. QED BY <2>1, <2>2
<1>8. JTyped' /\ Grows
  BY <1>1, <1>4, <1>7, Beside DEF JInv, JTyped, Grows
<1>9. ASSUME NEW q \in Phases, q = p
      PROVE  Settled(q)'
  <2>1. Certifies(verdict[q], q)' /\ AllAnswered(q)' /\ Passes(q)' = Passes(q)
    BY <1>1, <1>3, <1>4, <1>5, <1>9 DEF Certifies, AllAnswered
  <2>2. q = "treatment" => Alike' /\ verdict'["baseline"] # Nothing
    BY <1>1, <1>3, <1>9 DEF Alike, Phases
  <2>3. QED BY <1>1, <1>3, <1>9, <2>1, <2>2 DEF Settled
<1>10. \A q \in Phases : verdict'[q] = verdict[q] \/ Settled(q)'
  BY <1>1, <1>9
<1>11. QED BY <1>1, <1>7, <1>8, <1>10, Beside, Steps

(* Two commands may both find no thresholds and both write them: of the    *)
(* same measurements.                                                      *)
LEMMA ThresholdsStep ==
  ASSUME AbsentFile, JInv, NEW j \in Judges, UNCHANGED generationVars,
         PublishThresholds(j) \/ PutThresholds(j)
  PROVE  JInv'
<1>1. /\ responses' = responses /\ bundle' = bundle /\ verdict' = verdict /\ outputs' = outputs
      /\ manifest' = manifest /\ Case(j) = "baseline" /\ "baseline" \in Phases
      /\ judge[j].pc \in {"publish", "put"}
  BY DEF PublishThresholds, PutThresholds, money, results, generationVars, files, On, Phases
<1>2. CASE PublishThresholds(j) /\ Retire(j)
  BY <1>1, <1>2, Retires DEF PublishThresholds, results
<1>3. CASE PublishThresholds(j) /\ ~Retire(j)
  <2>1. /\ DOMAIN judge' = Judges /\ DOMAIN judge'[j] = Benches /\ thresholds' = thresholds
        /\ \A k \in Judges : k # j => judge'[k] = judge[k]
        /\ judge'[j].phase = judge[j].phase /\ judge'[j].units = judge[j].units
        /\ judge'[j].inventory = judge[j].inventory /\ judge'[j].source = judge[j].source
        /\ judge'[j].file = judge[j].file /\ judge'[j].pc = "put"
    BY <1>3 DEF PublishThresholds, results, Move, JInv, JTyped, Benches
  <2>2. Passes("baseline")' = Passes("baseline") /\ Publishes(j)
    BY <1>1, PassesKept DEF JInv, Knows
  <2>3. Publishes(j)'
    BY <1>1, <2>1, <2>2 DEF Publishes, Certifies, Case
  <2>4. QED BY <1>1, <2>1, <2>3, Advances DEF Judging
<1>4. CASE PutThresholds(j)
  <2>1. /\ DOMAIN judge' = Judges /\ judge'[j] = Bench /\ thresholds' = [source |-> judge[j].inventory]
        /\ \A k \in Judges : k # j => judge'[k] = judge[k]
    BY <1>4 DEF PutThresholds, Retire, JInv, JTyped
  <2>2. thresholds' # Nothing /\ thresholds'.source = judge[j].inventory
    BY <2>1, AbsentFile DEF AbsentFile
  <2>3. verdict["baseline"] # Nothing /\ Certifies(judge[j].inventory, "baseline")
    BY <1>1 DEF JInv, Knows, Publishes
  <2>4. Passes("baseline")' = Passes("baseline")
    BY <1>1, PassesKept
  <2>5. Fixed'
    BY <1>1, <2>2, <2>3, <2>4 DEF Fixed, Certifies
  <2>6. JTyped' /\ Grows
    BY <1>1, <2>1, <2>2, BenchInHand, Beside DEF JInv, JTyped, Grows
  <2>7. QED BY <1>1, <2>1, <2>2, <2>5, <2>6, BenchInHand, Beside, Steps
<1>5. QED BY <1>2, <1>3, <1>4

(* A file that is there must be the one that would be put, or the command  *)
(* stops.                                                                  *)
LEMMA PublishStep ==
  ASSUME AbsentFile, JInv, NEW j \in Judges, UNCHANGED generationVars, PublishOutput(j)
  PROVE  JInv'
<1> DEFINE o == judge[j].file
           content == Content(j, o)
<1>1. /\ responses' = responses /\ bundle' = bundle /\ verdict' = verdict
      /\ thresholds' = thresholds /\ outputs' = outputs
      /\ manifest' = manifest /\ judge[j].pc = "publish" /\ Case(j) = "treatment"
      /\ "treatment" \in Phases /\ DOMAIN judge = Judges /\ DOMAIN judge[j] = Benches
  BY DEF PublishOutput, money, results, generationVars, files, On, Phases, JInv, JTyped
<1>2. Publishes(j) /\ judge[j].inventory # Nothing /\ o \in Outputs
      /\ Certifies(judge[j].inventory, "treatment")
      /\ \A q \in Outputs : q < o => outputs[q] # Nothing
  BY <1>1 DEF JInv, Knows, Publishes
<1>3. Passes("treatment")' = Passes("treatment")
  BY <1>1, PassesKept
<1>4. /\ content # Nothing
      /\ o \in Tables => content.verdict = judge[j].inventory
  <2>1. CASE o \in Tables
    <3>1. content = [verdict |-> judge[j].inventory, baseline |-> bundle["baseline"][4],
                     treatment |-> bundle["treatment"][4]]
      BY <2>1, OutputNumbers DEF Content
    <3>2. QED BY <3>1, AbsentFile DEF AbsentFile
  <2>2. CASE o = ReleaseManifest
    BY <2>2, OutputNumbers, AbsentFile DEF Content, AbsentFile
  <2>3. CASE o = SamplingManifest
    BY <2>3, OutputNumbers, AbsentFile DEF Content, AbsentFile
  <2>4. QED BY <1>2, <2>1, <2>2, <2>3, OutputNumbers
<1>5. \/ Retire(j)
      \/ judge' = [judge EXCEPT ![j] = [@ EXCEPT !.pc = "put", !.content = content]]
      \/ /\ outputs[o] # Nothing /\ o # SamplingManifest
         /\ judge' = [judge EXCEPT ![j] = [judge[j] EXCEPT !.file = o + 1]]
  <2>0. outputs[o] # content \/ outputs[o] # Nothing
    BY <1>4
  <2>1. judge' = [judge EXCEPT ![j] =
            IF o = 1 /\ ~(Complete("baseline") /\ Complete("treatment")) THEN Bench
            ELSE IF outputs[o] = Nothing THEN [@ EXCEPT !.pc = "put", !.content = content]
            ELSE IF outputs[o] = content
                 THEN IF o = SamplingManifest THEN Bench ELSE [judge[j] EXCEPT !.file = o + 1]
                 ELSE Bench]
    BY DEF PublishOutput
  <2>2. QED BY <2>0, <2>1 DEF Retire
<1>6. CASE Retire(j)
  BY <1>1, <1>6, Retires
<1>7. CASE judge' = [judge EXCEPT ![j] = [@ EXCEPT !.pc = "put", !.content = content]]
  <2>1. /\ DOMAIN judge' = Judges /\ DOMAIN judge'[j] = Benches
        /\ \A k \in Judges : k # j => judge'[k] = judge[k]
        /\ judge'[j].phase = judge[j].phase /\ judge'[j].units = judge[j].units
        /\ judge'[j].inventory = judge[j].inventory /\ judge'[j].source = judge[j].source
        /\ judge'[j].file = o /\ judge'[j].pc = "put" /\ judge'[j].content = content
    BY <1>1, <1>7 DEF Benches
  <2>2. Tables' = Tables
    BY DEF Tables
  <2>3. Publishes(j)'
    BY <1>1, <1>2, <1>3, <1>4, <2>1, <2>2 DEF Publishes, Certifies, Case
  <2>4. QED BY <1>1, <2>1, <2>3, Advances DEF Judging
<1>8. CASE outputs[o] # Nothing /\ o # SamplingManifest
           /\ judge' = [judge EXCEPT ![j] = [judge[j] EXCEPT !.file = o + 1]]
  <2>1. /\ DOMAIN judge' = Judges /\ DOMAIN judge'[j] = Benches
        /\ \A k \in Judges : k # j => judge'[k] = judge[k]
        /\ judge'[j].phase = judge[j].phase /\ judge'[j].units = judge[j].units
        /\ judge'[j].inventory = judge[j].inventory /\ judge'[j].source = judge[j].source
        /\ judge'[j].file = o + 1 /\ judge'[j].pc = "publish"
    BY <1>1, <1>8 DEF Benches
  <2>2. o + 1 \in Outputs /\ \A q \in Outputs : q < o + 1 => outputs[q] # Nothing
    <3>1. \A q \in Outputs : q < o + 1 => q < o \/ q = o
      BY <1>2, OutputNumbers
    <3>2. QED BY <1>2, <1>8, <3>1, OutputNumbers
  <2>3. Publishes(j)'
    BY <1>1, <1>2, <1>3, <2>1, <2>2 DEF Publishes, Certifies, Case
  <2>4. QED BY <1>1, <2>1, <2>3, Advances DEF Judging
<1>9. QED BY <1>5, <1>6, <1>7, <1>8

(* A file may be put over that of another command, of the same measurements. *)
LEMMA PutStep ==
  ASSUME AbsentFile, JInv, NEW j \in Judges, UNCHANGED generationVars, PutOutput(j)
  PROVE  JInv'
<1> DEFINE o == judge[j].file
<1>1. /\ responses' = responses /\ bundle' = bundle /\ verdict' = verdict
      /\ thresholds' = thresholds /\ plan' = plan /\ merged' = merged
      /\ manifest' = manifest /\ judge[j].pc = "put" /\ Case(j) = "treatment"
      /\ "treatment" \in Phases /\ DOMAIN judge = Judges /\ DOMAIN judge[j] = Benches
      /\ judge[j].units \in Seq(Origins) /\ DOMAIN outputs = Outputs
  BY DEF PutOutput, money, generationVars, files, On, Phases, JInv, JTyped
<1>2. /\ Begun(j) /\ Judged(j) /\ Publishes(j) /\ judge[j].inventory # Nothing /\ o \in Outputs
      /\ Certifies(judge[j].inventory, "treatment") /\ verdict["treatment"] # Nothing
      /\ Passes("treatment") /\ judge[j].content # Nothing
      /\ o \in Tables => Certifies(judge[j].content.verdict, "treatment")
      /\ \A q \in Outputs : q < o => outputs[q] # Nothing
  BY <1>1 DEF JInv, Knows, Publishes
<1>3. Passes("treatment")' = Passes("treatment")
  BY <1>1, PassesKept
<1>4. /\ DOMAIN outputs' = Outputs /\ outputs'[o] = judge[j].content
      /\ \A q \in Outputs \ {o} : outputs'[q] = outputs[q]
  BY <1>1, <1>2 DEF PutOutput
<1>5. \A q \in Outputs : (q < o \/ q = o \/ outputs[q] # Nothing) => outputs'[q] # Nothing
  BY <1>2, <1>4
<1>6. ASSUME NEW r \in Outputs, r = o
      PROVE  Published(r)'
  <2>1. \A q \in Outputs : q < r => outputs'[q] # Nothing
    BY <1>5, <1>6
  <2>2. r \in Tables => Certifies(outputs'[r].verdict, "treatment")
    BY <1>2, <1>4, <1>6
  <2>3. QED BY <1>1, <1>2, <1>3, <2>1, <2>2 DEF Published, Certifies, Tables
<1>7. /\ Knows(j)' /\ DOMAIN judge' = Judges /\ DOMAIN judge'[j] = Benches
      /\ judge'[j].phase \in Phases /\ judge'[j].units \in Seq(Origins)
      /\ \A k \in Judges : k # j => judge'[k] = judge[k]
  <2>1. CASE o = SamplingManifest
    <3>1. DOMAIN judge' = Judges /\ judge'[j] = Bench /\ \A k \in Judges : k # j => judge'[k] = judge[k]
      BY <1>1, <2>1 DEF PutOutput
    <3>2. QED BY <3>1, BenchInHand
  <2>2. CASE o # SamplingManifest
    <3>1. /\ DOMAIN judge' = Judges /\ DOMAIN judge'[j] = Benches
          /\ \A k \in Judges : k # j => judge'[k] = judge[k]
          /\ judge'[j].phase = judge[j].phase /\ judge'[j].units = judge[j].units
          /\ judge'[j].inventory = judge[j].inventory /\ judge'[j].source = judge[j].source
          /\ judge'[j].file = o + 1 /\ judge'[j].pc = "publish"
      BY <1>1, <2>2 DEF PutOutput, Benches
    <3>2. Begun(j)'
      BY <1>1, <1>2, <3>1 DEF Begun, Judging, Case, Alike
    <3>3. Judged(j)'
      BY <1>1, <1>2, <3>1 DEF Judged, HasAnswers, Case
    <3>4. o + 1 \in Outputs /\ \A q \in Outputs : q < o + 1 => outputs'[q] # Nothing
      <4>1. \A q \in Outputs : q < o + 1 => q < o \/ q = o
        BY <1>2, OutputNumbers
      <4>2. QED BY <1>2, <1>5, <2>2, <4>1, OutputNumbers
    <3>5. Publishes(j)'
      BY <1>1, <1>2, <1>3, <3>1, <3>4 DEF Publishes, Certifies, Case
    <3>6. QED BY <1>1, <3>1, <3>2, <3>3, <3>5 DEF Knows, Case
  <2>3. QED BY <2>1, <2>2
<1>8. JTyped' /\ Grows
  BY <1>1, <1>4, <1>5, <1>7, Beside DEF JInv, JTyped, Grows
<1>9. \A q \in Outputs : outputs'[q] = outputs[q] \/ Published(q)'
  BY <1>4, <1>6
<1>10. QED BY <1>1, <1>7, <1>8, <1>9, Beside, Steps

-----------------------------------------------------------------------------
(* The theorems of adjudication.                                           *)

LEMMA InitJInv == Init => JInv
<1> SUFFICES ASSUME Init PROVE JInv
  OBVIOUS
<1>1. /\ \A j \in Judges : judge[j] = Bench
      /\ \A p \in Phases, f \in 1..6 : bundle[p][f] = Nothing
      /\ \A p \in Phases : verdict[p] = Nothing
      /\ thresholds = Nothing /\ \A o \in Outputs : outputs[o] = Nothing
      /\ \A p \in Phases, b \in Batches : batches[p][b] = Nothing
      /\ \A g \in Generators : gen[g].pc = "idle"
  BY DEF Init, GenerationInit, PerPhase, Idle
<1>2. /\ DOMAIN Bench = Benches /\ Bench.phase = "baseline" /\ Bench.units = <<>>
      /\ Bench.pc = "idle" /\ Bench.inventory = Nothing
      /\ <<>> \in Seq(Origins) /\ Len(<<>>) = 0 /\ \A u \in Batches : ~(u <= 0)
  BY GenerationAssumption DEF Bench, Benches, Batches
<1>3. JTyped
  <2>1. bundle \in [Phases -> [1..6 -> Seq(Origins) \cup {Nothing}]]
    BY DEF Init, PerPhase
  <2>2. DOMAIN judge = Judges /\ DOMAIN verdict = Phases /\ DOMAIN outputs = Outputs
        /\ responses \in [Phases -> [Batches -> Answered \cup {Nothing}]]
    BY DEF Init, PerPhase
  <2>3. QED BY <1>1, <1>2, <2>1, <2>2 DEF JTyped, Phases
<1>4. Preregistered /\ Fixed
  BY <1>1 DEF Preregistered, Fixed, Phases
<1>5. /\ \A p \in Phases : Settled(p) /\ \A f \in 1..6 : Checkpointed(p, f)
      /\ \A o \in Outputs : Published(o)
  BY <1>1 DEF Settled, Checkpointed, Published
<1>6. ASSUME NEW j \in Judges
      PROVE  Knows(j)
  BY <1>1, <1>2 DEF Knows, Begun, Judged, HasAnswers, Publishes
<1>7. QED BY <1>3, <1>4, <1>5, <1>6 DEF JInv

LEMMA NextJInv == ASSUME AbsentFile PROVE GInv /\ CInv /\ JInv /\ [Next]_vars => JInv'
<1> SUFFICES ASSUME GInv, CInv, JInv, [Next]_vars PROVE JInv'
  OBVIOUS
<1>1. CASE Generation /\ UNCHANGED adjudicationVars
  BY <1>1, GenerationKeepsJudges
<1>2. CASE UNCHANGED vars
  <2>1. /\ UNCHANGED generationVars /\ responses' = responses /\ bundle' = bundle
        /\ judge' = judge /\ verdict' = verdict /\ thresholds' = thresholds /\ outputs' = outputs
    BY <1>2 DEF vars, adjudicationVars, money, results
  <2>2. JTyped' /\ Grows
    BY <2>1, Beside DEF JInv, JTyped, Grows
  <2>3. \A j \in Judges : Knows(j)'
    BY <2>1, <2>2, KnowsStays
  <2>4. QED BY <2>1, <2>2, <2>3, Beside, Steps
<1>3. ASSUME NEW j \in Judges, NEW p \in Phases, Begin(j, p), UNCHANGED generationVars
      PROVE  JInv'
  BY <1>3, PayingSteps
<1>4. ASSUME NEW j \in Judges, JudgeStep(j), UNCHANGED generationVars
      PROVE  JInv'
  BY <1>4, PayingSteps, OpenStep, AskStep, CheckpointStep, AuditSteps, RowsStep, VerdictStep,
     ThresholdsStep, PublishStep, PutStep DEF JudgeStep
<1>5. ASSUME NEW j \in Judges, Kill(j), UNCHANGED generationVars
      PROVE  JInv'
  BY <1>5, Retires DEF Kill, money, results
<1>6. QED BY <1>1, <1>2, <1>3, <1>4, <1>5 DEF Next, Adjudication

(* However many adjudication commands run, race and are killed, every      *)
(* verdict, threshold and table is of the measurements of a closed phase.  *)
THEOREM AdjudicationInvariance == ASSUME AbsentFile PROVE Spec => []JInv
<1>1. GInv /\ CInv /\ JInv /\ [Next]_vars => JInv'
  BY NextJInv
<1>2. QED BY <1>1, InitJInv, GenerationInvariance, PhaseFilesInvariance, PTL DEF Spec

(* No treatment rollout exists before thresholds of a closed baseline that *)
(* passed.                                                                 *)
THEOREM MeasuredThresholdsFirstSafe == ASSUME AbsentFile PROVE Spec => []MeasuredThresholdsFirst
<1>1. GInv /\ CInv /\ JInv => MeasuredThresholdsFirst
  <2> SUFFICES ASSUME GInv, CInv, JInv, thresholds # Nothing
               PROVE  /\ AllAnswered("baseline") /\ Loads("baseline")
                      /\ Certifies(thresholds.source, "baseline") /\ Passes("baseline")
    BY DEF MeasuredThresholdsFirst, JInv, Preregistered
  <2>1. Fixed /\ Settled("baseline") /\ "baseline" \in Phases
    BY DEF JInv, Phases
  <2>2. QED BY <2>1, ClosedLoads DEF Fixed, Settled
<1>2. QED BY <1>1, AdjudicationInvariance, PhaseFilesInvariance, GenerationInvariance, PTL

(* A sampling manifest stands for two closed phases of one environment,    *)
(* measured to the last unit, and tables of these measurements.            *)
THEOREM MeasuredReleaseSafe == ASSUME AbsentFile PROVE Spec => []MeasuredRelease
<1>1. GInv /\ CInv /\ JInv => MeasuredRelease
  <2> SUFFICES ASSUME GInv, CInv, JInv, Released PROVE MeasuredRelease
    BY DEF MeasuredRelease
  <2>1. SamplingManifest \in Outputs /\ Published(SamplingManifest)
    BY OutputNumbers DEF JInv
  <2>2. /\ verdict["treatment"] # Nothing /\ Passes("treatment")
        /\ \A q \in Outputs : q < SamplingManifest => outputs[q] # Nothing
    BY <2>1 DEF Published, Released
  <2>3. /\ "baseline" \in Phases /\ "treatment" \in Phases
        /\ Settled("baseline") /\ Settled("treatment") /\ Fixed
    BY DEF JInv, Phases
  <2>4. verdict["baseline"] # Nothing /\ thresholds # Nothing /\ Alike /\ Passes("baseline")
    BY <2>2, <2>3 DEF Settled
  <2>5. SameEnvironment
    BY <2>3, <2>4 DEF Settled, Certifies, Alike, SameEnvironment
  <2>6. ASSUME NEW p \in Phases
        PROVE  /\ Loads(p) /\ AllAnswered(p) /\ Passes(p)
               /\ verdict[p] # Nothing /\ Certifies(verdict[p], p)
    <3>1. verdict[p] # Nothing /\ Settled(p) /\ Passes(p)
      BY <2>2, <2>3, <2>4 DEF Phases
    <3>2. QED BY <3>1, ClosedLoads DEF Settled
  <2>7. ASSUME NEW t \in Tables
        PROVE  outputs[t] # Nothing /\ Certifies(outputs[t].verdict, "treatment")
    <3>1. t \in Outputs /\ t < SamplingManifest
      BY OutputNumbers
    <3>2. Published(t) /\ outputs[t] # Nothing
      BY <2>2, <3>1 DEF JInv
    <3>3. QED BY <3>2 DEF Published
  <2>8. QED BY <2>3, <2>4, <2>5, <2>6, <2>7 DEF MeasuredRelease, Fixed
<1>2. QED BY <1>1, AdjudicationInvariance, PhaseFilesInvariance, GenerationInvariance, PTL

====
