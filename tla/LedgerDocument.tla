--------------------------- MODULE LedgerDocument ---------------------------
(***************************************************************************)
(* The cost ledger of src/src/model_forensics/budget.py as a value: the    *)
(* entries of one YAML document, the totals compared with the hard stops,  *)
(* and, for every CostLedger operation, when it is accepted on a loaded    *)
(* document and which document it writes back.                             *)
(*                                                                         *)
(* A document is a function from the entry ids it records to entries: the  *)
(* loader refuses two entries with one id, and no operation reads their    *)
(* order.  append() writes entries without an id; each of those has an id  *)
(* here that no other request names.  Amounts are whole micro-dollars      *)
(* (the code rounds to six decimals), descriptions are opaque.             *)
(***************************************************************************)
EXTENDS Naturals, FiniteSets, FiniteSetsExt

CONSTANTS EntryIds,      \* idempotency keys, and the positions of anonymous entries
          Amounts,       \* amounts in micro-dollars
          Descriptions,  \* opaque descriptions, compared by _same_entry_content
          HardStops      \* BudgetLimits: the caps "gpu", "api" and "total"

Kinds    == {"gpu", "api", "storage", "other"}
Statuses == {"estimated", "incurred"}

ASSUME LedgerAssumption ==
  /\ Amounts \subseteq Nat
  /\ HardStops \in [{"gpu", "api", "total"} -> Nat]

Entry == [kind : Kinds, amount : Amounts, description : Descriptions, status : Statuses]

EmptyLedger == [i \in {} |-> {}]

IsLedger(d) == /\ DOMAIN d \subseteq EntryIds
               /\ d \in [DOMAIN d -> Entry]

-----------------------------------------------------------------------------
(* Totals and hard stops *)

Total(d, kinds, statuses) ==
  MapThenSumSet(LAMBDA i : d[i].amount,
                {i \in DOMAIN d : d[i].kind \in kinds /\ d[i].status \in statuses})

Incurred(d, kinds)  == Total(d, kinds, {"incurred"})
Committed(d, kinds) == Total(d, kinds, Statuses)

WithinLimits(d) == /\ Committed(d, {"gpu"}) <= HardStops["gpu"]
                   /\ Committed(d, {"api"}) <= HardStops["api"]
                   /\ Committed(d, Kinds)   <= HardStops["total"]

Settled(d, i)     == i \in DOMAIN d /\ d[i].status = "incurred"
Outstanding(d, i) == i \in DOMAIN d /\ d[i].status = "estimated"

-----------------------------------------------------------------------------
(***************************************************************************)
(* Requests.  items maps the ids a call names to the entries it brings;    *)
(* required, rejectIncurred belong to reserve_batch; exclusive             *)
(* (require_no_outstanding_kind) and ceiling (maximum_totals["gpu"]) to    *)
(* reserve_once.                                                           *)
(***************************************************************************)
SingleOps == {"append", "reserve", "reserve_once", "settle_reservation"}
Ops       == SingleOps \cup {"reserve_batch"}

IsRequest(r) ==
  /\ r.op \in Ops
  /\ IsLedger(r.items)
  /\ r.op \in SingleOps => \E i \in EntryIds : DOMAIN r.items = {i}
  /\ r.op = "settle_reservation" => \A i \in DOMAIN r.items : r.items[i].status = "incurred"
  /\ r.op \in {"reserve", "reserve_once", "reserve_batch"} =>
        \A i \in DOMAIN r.items : r.items[i].status = "estimated"
  /\ r.required \subseteq EntryIds
  /\ r.rejectIncurred \subseteq EntryIds
  /\ r.exclusive \in BOOLEAN
  /\ r.ceiling \in Nat

(* The calls of the system: reserve_gpu_phase_budget is the only one that   *)
(* estimates GPU cost, and it asks for exclusivity.                         *)
WellFormedCalls(R) ==
  \A r \in R :
     /\ IsRequest(r)
     /\ \A i \in DOMAIN r.items :
          r.items[i].kind = "gpu" /\ r.items[i].status = "estimated"
          => r.op = "reserve_once" /\ r.exclusive

(* The documents written back: additions at the end, or one entry replaced. *)
AddMissing(d, items) ==
  [i \in DOMAIN d \cup DOMAIN items |-> IF i \in DOMAIN d THEN d[i] ELSE items[i]]

ReplaceEntries(d, items) ==
  [i \in DOMAIN d |-> IF i \in DOMAIN items THEN items[i] ELSE d[i]]

(* An id already recorded is covered by a settled entry of the same kind,   *)
(* or by exactly the same estimate; anything else raises.                   *)
CoversEstimate(existing, wanted) ==
  \/ existing.status = "incurred" /\ existing.kind = wanted.kind
  \/ existing.status = "estimated" /\ existing = wanted

AppendAccepts(d, r) ==
  /\ DOMAIN r.items \cap DOMAIN d = {}
  /\ WithinLimits(AddMissing(d, r.items))

ReserveAccepts(d, r) ==
  /\ \A i \in DOMAIN r.items \cap DOMAIN d : CoversEstimate(d[i], r.items[i])
  /\ WithinLimits(AddMissing(d, r.items))

BatchCheckedOneByOne(d, r) ==        \* mutated form: caps asserted per entry, not per batch
  /\ r.required \subseteq DOMAIN d
  /\ \A i \in r.rejectIncurred : ~Settled(d, i)
  /\ \A i \in DOMAIN r.items \cap DOMAIN d : CoversEstimate(d[i], r.items[i])
  /\ \A i \in DOMAIN r.items : WithinLimits(AddMissing(d, [j \in {i} |-> r.items[j]]))

ReserveBatchAccepts(d, r) ==
  /\ r.required \subseteq DOMAIN d
  /\ \A i \in r.rejectIncurred : ~Settled(d, i)
  /\ \A i \in DOMAIN r.items \cap DOMAIN d : CoversEstimate(d[i], r.items[i])
  /\ WithinLimits(AddMissing(d, r.items))

NoOutstandingKind(d, r) ==
  \A i \in DOMAIN d, j \in DOMAIN r.items :
     d[i].kind = r.items[j].kind => d[i].status # "estimated"

ReserveOnceAccepts(d, r) ==
  /\ DOMAIN r.items \cap DOMAIN d = {}
  /\ r.exclusive => NoOutstandingKind(d, r)
  /\ WithinLimits(AddMissing(d, r.items))
  /\ Committed(AddMissing(d, r.items), {"gpu"}) <= r.ceiling

SettleAccepts(d, r) ==
  /\ DOMAIN r.items \subseteq DOMAIN d
  /\ \A i \in DOMAIN r.items :
        IF d[i].status = "incurred" THEN d[i] = r.items[i]
                                    ELSE d[i].kind = r.items[i].kind
  /\ WithinLimits(ReplaceEntries(d, r.items))

(* Every operation first loads the document, which refuses one over a hard  *)
(* stop, then decides under the same lock.                                  *)
Accepts(d, r) ==
  /\ WithinLimits(d)
  /\ \/ r.op = "append" /\ AppendAccepts(d, r)
     \/ r.op = "reserve" /\ ReserveAccepts(d, r)
     \/ r.op = "reserve_batch" /\ ReserveBatchAccepts(d, r)
     \/ r.op = "reserve_once" /\ ReserveOnceAccepts(d, r)
     \/ r.op = "settle_reservation" /\ SettleAccepts(d, r)

Result(d, r) ==
  IF r.op = "settle_reservation" THEN ReplaceEntries(d, r.items) ELSE AddMissing(d, r.items)

-----------------------------------------------------------------------------
(* What a ledger may become: no entry disappears or changes kind, and an    *)
(* incurred entry is final.                                                 *)
Extends(d, e) ==
  /\ DOMAIN d \subseteq DOMAIN e
  /\ \A i \in DOMAIN d : /\ e[i].kind = d[i].kind
                         /\ d[i].status = "incurred" => e[i] = d[i]

(* At most one GPU session is reserved and not yet settled.                 *)
OneGpuEstimate(d) ==
  \A i, j \in DOMAIN d :
     /\ Outstanding(d, i) /\ d[i].kind = "gpu"
     /\ Outstanding(d, j) /\ d[j].kind = "gpu"
     => i = j
=============================================================================
