---------------------------- MODULE PaidDispatch ----------------------------
(***************************************************************************)
(* Paid API calls: the whole-phase preflight and the dispatch guard of     *)
(* providers.py, OpenRouterJSONClient._complete_json_claimed, and the      *)
(* files of paid_response_store.py (request claims, uncertain-attempt      *)
(* markers, response checkpoints), run by several processes that share the *)
(* store and the cost ledger and may die between any two steps.            *)
(*                                                                         *)
(* Ledger operations are single steps (LockedLedger justifies it).  Each   *)
(* logical request r is also its store key and its reservation id.  A      *)
(* response stands for HTTP status, usage and cost; its text is left out.  *)
(***************************************************************************)
EXTENDS LedgerDocument

CONSTANTS Workers,      \* processes that run API phases
          Reqs,         \* logical requests
          Phases,       \* the inventories a process may preflight
          Bound,        \* conservative cost of each request (conservative_cost_usd)
          Responses,    \* what the provider may answer
          NoWorker, NoReq, NoResponse

Outcomes == {"ok", "no_usage", "http_error"}

ASSUME DispatchAssumption ==
  /\ Reqs \subseteq EntryIds
  /\ Phases \subseteq SUBSET Reqs /\ \A ph \in Phases : IsFiniteSet(ph)
  /\ Bound \in [Reqs -> Amounts]
  /\ Responses \subseteq [outcome : Outcomes, cost : Amounts]
  /\ {"preflight", "response", "other"} \subseteq Descriptions
  /\ NoWorker \notin Workers /\ NoReq \notin Reqs /\ NoResponse \notin Responses

VARIABLES doc,         \* the cost ledger
          checkpoint,  \* durable response of each request, or NoResponse
          marker,      \* requests with an uncertain-attempt marker
          claim,       \* holder of each request's flock
          pc, phase, frozen, cur, result,   \* per process, lost when it dies
          dispatched,  \* history: transports that reached the provider
          charged      \* history: what the provider has charged

store == <<checkpoint, marker>>
local == <<phase, frozen, cur, result>>
provider == <<dispatched, charged>>
vars == <<doc, store, claim, pc, local, provider>>

InCall == {"claimed", "inspected", "reserved", "marked", "awaiting", "received",
           "committed", "settling"}
Prepared == {"checking", "ready", "authorized"} \cup InCall
PcValues == {"idle", "scanning"} \cup Prepared

Init == /\ doc = EmptyLedger
        /\ checkpoint = [r \in Reqs |-> NoResponse]
        /\ marker = {}
        /\ claim = [r \in Reqs |-> NoWorker]
        /\ pc = [w \in Workers |-> "idle"]
        /\ phase = [w \in Workers |-> {}]
        /\ frozen = [w \in Workers |-> [r \in Reqs |-> "none"]]
        /\ cur = [w \in Workers |-> NoReq]
        /\ result = [w \in Workers |-> NoResponse]
        /\ dispatched = [r \in Reqs |-> 0]
        /\ charged = [r \in Reqs |-> 0]

Goto(w, l) == pc' = [pc EXCEPT ![w] = l]

(* The process is gone: its memory and its flocks with it. *)
Gone(w) == /\ Goto(w, "idle")
           /\ phase' = [phase EXCEPT ![w] = {}]
           /\ frozen' = [frozen EXCEPT ![w] = [r \in Reqs |-> "none"]]
           /\ cur' = [cur EXCEPT ![w] = NoReq]
           /\ result' = [result EXCEPT ![w] = NoResponse]
           /\ claim' = [r \in Reqs |-> IF claim[r] = w THEN NoWorker ELSE claim[r]]

(* complete_json returns or raises: the claim is released. *)
EndCall(w) == /\ Goto(w, "ready")
              /\ cur' = [cur EXCEPT ![w] = NoReq]
              /\ result' = [result EXCEPT ![w] = NoResponse]
              /\ claim' = [claim EXCEPT ![cur[w]] = NoWorker]
              /\ UNCHANGED <<phase, frozen>>

-----------------------------------------------------------------------------
(* Ledger requests *)

Estimate(r) == [kind |-> "api", amount |-> Bound[r], description |-> "preflight",
                status |-> "estimated"]
SettledAt(r, a) == [kind |-> "api", amount |-> a, description |-> "response",
                    status |-> "incurred"]

Call(op, items, required, rejectIncurred) ==
  [op |-> op, items |-> items, required |-> required, rejectIncurred |-> rejectIncurred,
   exclusive |-> FALSE, ceiling |-> 0]

ReserveCall(r) == Call("reserve", [i \in {r} |-> Estimate(r)], {}, {})
SettleCall(r, a) == Call("settle_reservation", [i \in {r} |-> SettledAt(r, a)], {}, {})

WithStatus(w, s) == {r \in phase[w] : frozen[w][r] = s}

BatchCall(pending, cached) ==
  Call("reserve_batch", [r \in pending |-> Estimate(r)], cached, pending)
PhaseCall(w) == BatchCall(WithStatus(w, "pending"), WithStatus(w, "cached"))

-----------------------------------------------------------------------------
(* preflight_openrouter_phase *)

PreflightStart(w, ph) ==
  /\ pc[w] = "idle"
  /\ Goto(w, "scanning")
  /\ phase' = [phase EXCEPT ![w] = ph]
  /\ UNCHANGED <<doc, store, claim, frozen, cur, result, provider>>

PreflightLoad(w, r) ==
  /\ pc[w] = "scanning"
  /\ r \in phase[w] /\ frozen[w][r] = "none"
  /\ frozen' = [frozen EXCEPT ![w][r] =
                  IF checkpoint[r] = NoResponse THEN "pending" ELSE "cached"]
  /\ UNCHANGED <<doc, store, claim, pc, phase, cur, result, provider>>

PreflightReserve(w) ==
  /\ pc[w] = "scanning"
  /\ WithStatus(w, "none") = {}
  /\ Accepts(doc, PhaseCall(w))
  /\ doc' = Result(doc, PhaseCall(w))
  /\ Goto(w, "checking")
  /\ UNCHANGED <<store, claim, local, provider>>

PreflightRefused(w) ==
  /\ pc[w] = "scanning"
  /\ WithStatus(w, "none") = {}
  /\ ~Accepts(doc, PhaseCall(w))
  /\ Gone(w)
  /\ UNCHANGED <<doc, store, provider>>

(* The ledger is read again: a pending request must still be an estimate.  *)
PendingStillEstimated(w) == \A r \in WithStatus(w, "pending") : ~Settled(doc, r)

PreflightCheck(w) ==
  /\ pc[w] = "checking"
  /\ IF PendingStillEstimated(w)
     THEN Goto(w, "ready") /\ UNCHANGED <<claim, local>>
     ELSE Gone(w)
  /\ UNCHANGED <<doc, store, provider>>

-----------------------------------------------------------------------------
(* OpenRouterDispatchGuard.authorize and complete_json *)

AuthorizeAny(w, r) ==        \* mutated form: the frozen inventory is not consulted
  /\ pc[w] = "ready"
  /\ cur' = [cur EXCEPT ![w] = r]
  /\ Goto(w, "authorized")
  /\ UNCHANGED <<doc, store, claim, phase, frozen, result, provider>>

Authorize(w, r) ==
  /\ pc[w] = "ready"
  /\ frozen[w][r] # "none"
  /\ frozen' = [frozen EXCEPT ![w][r] = "none"]
  /\ cur' = [cur EXCEPT ![w] = r]
  /\ Goto(w, "authorized")
  /\ UNCHANGED <<doc, store, claim, phase, result, provider>>

Claim(w) ==
  /\ pc[w] = "authorized"
  /\ claim[cur[w]] = NoWorker
  /\ claim' = [claim EXCEPT ![cur[w]] = w]
  /\ Goto(w, "claimed")
  /\ UNCHANGED <<doc, store, local, provider>>

InspectTrusting(w) ==        \* mutated form: a leftover marker is cleared, not respected
  /\ pc[w] = "claimed"
  /\ Goto(w, "inspected")
  /\ result' = [result EXCEPT ![w] = checkpoint[cur[w]]]
  /\ marker' = marker \ {cur[w]}
  /\ UNCHANGED <<doc, checkpoint, claim, phase, frozen, cur, provider>>

(* Load the checkpoint and the marker under the claim.  A marker without a *)
(* checkpoint raises; a marker beside a checkpoint is resolved.            *)
Inspect(w) ==
  LET r == cur[w] IN
  /\ pc[w] = "claimed"
  /\ \/ /\ checkpoint[r] = NoResponse /\ r \in marker
        /\ EndCall(w)
        /\ UNCHANGED marker
     \/ /\ checkpoint[r] # NoResponse \/ r \notin marker
        /\ Goto(w, "inspected")
        /\ result' = [result EXCEPT ![w] = checkpoint[r]]
        /\ marker' = marker \ {r}
        /\ UNCHANGED <<claim, phase, frozen, cur>>
  /\ UNCHANGED <<doc, checkpoint, provider>>

(* _preflight_cost: an idempotent reserve; replays skip the transport.     *)
Reserve(w) ==
  /\ pc[w] = "inspected"
  /\ Accepts(doc, ReserveCall(cur[w]))
  /\ doc' = Result(doc, ReserveCall(cur[w]))
  /\ Goto(w, IF result[w] = NoResponse THEN "reserved" ELSE "settling")
  /\ UNCHANGED <<store, claim, local, provider>>

MarkSkipped(w) ==        \* mutated form: no write-ahead marker
  /\ pc[w] = "reserved"
  /\ Goto(w, "marked")
  /\ UNCHANGED <<doc, store, claim, local, provider>>

Mark(w) ==
  /\ pc[w] = "reserved"
  /\ marker' = marker \cup {cur[w]}
  /\ Goto(w, "marked")
  /\ UNCHANGED <<doc, checkpoint, claim, local, provider>>

(* The request reaches the provider, which answers and charges once.  What *)
(* it charges is held to no bound: the reported cost may exceed what was   *)
(* computed from bytes and max_tokens.                                     *)
Send(w, a) ==
  /\ pc[w] = "marked"
  /\ dispatched' = [dispatched EXCEPT ![cur[w]] = @ + 1]
  /\ charged' = [charged EXCEPT ![cur[w]] = @ + a.cost]
  /\ result' = [result EXCEPT ![w] = a]
  /\ Goto(w, "awaiting")
  /\ UNCHANGED <<doc, store, claim, phase, frozen, cur>>

Receive(w) ==
  /\ pc[w] = "awaiting"
  /\ Goto(w, "received")
  /\ UNCHANGED <<doc, store, claim, local, provider>>

(* The transport raises: before the request got out, or the answer is lost. *)
TransportFails(w) ==
  /\ pc[w] \in {"marked", "awaiting"}
  /\ EndCall(w)
  /\ UNCHANGED <<doc, store, provider>>

CommitClearsMarkerFirst(w) ==        \* mutated form: resolve before commit
  /\ pc[w] = "received"
  /\ marker' = marker \ {cur[w]}
  /\ Goto(w, "committed")
  /\ UNCHANGED <<doc, checkpoint, claim, local, provider>>

(* commit returns what is already there and never replaces it. *)
Commit(w) ==
  /\ pc[w] = "received"
  /\ checkpoint' = [checkpoint EXCEPT ![cur[w]] = IF @ = NoResponse THEN result[w] ELSE @]
  /\ Goto(w, "committed")
  /\ UNCHANGED <<doc, marker, claim, local, provider>>

Resolve(w) ==
  /\ pc[w] = "committed"
  /\ marker' = marker \ {cur[w]}
  /\ Goto(w, "settling")
  /\ UNCHANGED <<doc, checkpoint, claim, local, provider>>

(* A 2xx answer with usage replaces the estimate by its cost; any other    *)
(* answer raises and leaves the estimate.                                  *)
SettleAnyAnswer(w) ==        \* mutated form: an answer without usage is settled at zero
  /\ pc[w] = "settling"
  /\ doc' = Result(doc, SettleCall(cur[w],
                     IF result[w].outcome = "ok" THEN result[w].cost ELSE 0))
  /\ EndCall(w)
  /\ UNCHANGED <<store, provider>>

Settle(w) ==
  LET settlement == SettleCall(cur[w], result[w].cost) IN
  /\ pc[w] = "settling"
  /\ doc' = IF result[w].outcome = "ok" /\ Accepts(doc, settlement)
            THEN Result(doc, settlement) ELSE doc
  /\ EndCall(w)
  /\ UNCHANGED <<store, provider>>

-----------------------------------------------------------------------------
(* The process ends or dies; other programs spend from the same ledger.    *)

Exit(w) == /\ pc[w] = "ready" /\ Gone(w) /\ UNCHANGED <<doc, store, provider>>

Crash(w) == /\ pc[w] # "idle" /\ Gone(w) /\ UNCHANGED <<doc, store, provider>>

AppendCall(i, e) == Call("append", [j \in {i} |-> e], {}, {})
OtherSpend(i, e) ==
  /\ i \in EntryIds \ Reqs
  /\ Accepts(doc, AppendCall(i, e))
  /\ doc' = Result(doc, AppendCall(i, e))
  /\ UNCHANGED <<store, claim, pc, local, provider>>

OtherEntries == {e \in Entry : e.kind = "gpu" /\ e.description = "other" /\ e.status = "incurred"}

InCallStep(w) == \/ Inspect(w) \/ Reserve(w) \/ Mark(w) \/ \E a \in Responses : Send(w, a)
                 \/ Receive(w) \/ TransportFails(w) \/ Commit(w) \/ Resolve(w) \/ Settle(w)

WorkerStep(w) == \/ \E ph \in Phases : PreflightStart(w, ph)
                 \/ \E r \in Reqs : PreflightLoad(w, r) \/ Authorize(w, r)
                 \/ PreflightReserve(w) \/ PreflightRefused(w) \/ PreflightCheck(w)
                 \/ Claim(w) \/ InCallStep(w) \/ Exit(w) \/ Crash(w)

Next == \/ \E w \in Workers : WorkerStep(w)
        \/ \E i \in EntryIds, e \in OtherEntries : OtherSpend(i, e)

Spec == Init /\ [][Next]_vars

-----------------------------------------------------------------------------
TypeOK ==
  /\ IsLedger(doc)
  /\ checkpoint \in [Reqs -> Responses \cup {NoResponse}]
  /\ marker \subseteq Reqs
  /\ claim \in [Reqs -> Workers \cup {NoWorker}]
  /\ pc \in [Workers -> PcValues]
  /\ phase \in [Workers -> SUBSET Reqs]
  /\ frozen \in [Workers -> [Reqs -> {"none", "pending", "cached"}]]
  /\ cur \in [Workers -> Reqs \cup {NoReq}]
  /\ result \in [Workers -> Responses \cup {NoResponse}]
  /\ dispatched \in [Reqs -> Nat]
  /\ charged \in [Reqs -> Nat]

(* A logical request reaches the paid provider at most once, whatever      *)
(* processes run, die and run again (no automatic or accidental retry).    *)
AtMostOnePaidAttempt == \A r \in Reqs : dispatched[r] <= 1

(* Whatever was sent is in the ledger: once settled, at exactly what the    *)
(* provider charged, and until then at the whole conservative bound.  So   *)
(* the ledger holds less than was charged only for an answer that cost     *)
(* more than its bound and is not settled (_preflight_cost, providers.py   *)
(* 1063-1076).                                                             *)
SpendCovered ==
  \A r \in Reqs : dispatched[r] > 0 =>
     /\ r \in DOMAIN doc
     /\ Settled(doc, r) => doc[r].amount = charged[r]
     /\ Outstanding(doc, r) => doc[r].amount = Bound[r]

(* A request that went out has left a durable trace.                       *)
AttemptLeavesTrace ==
  \A r \in Reqs : dispatched[r] > 0 => r \in marker \/ checkpoint[r] # NoResponse

(* Once a phase is reserved as a whole, no later call of it can be stopped *)
(* by a hard stop, neither when it reserves nor when it settles an answer  *)
(* that cost no more than its bound, even when other answers cost more     *)
(* than theirs.                                                            *)
PhaseRunsToCompletion ==
  \A w \in Workers :
     /\ pc[w] = "inspected" => Accepts(doc, ReserveCall(cur[w]))
     /\ pc[w] = "settling" /\ result[w].outcome = "ok" /\ result[w].cost <= Bound[cur[w]] =>
           Accepts(doc, SettleCall(cur[w], result[w].cost))

(* A response, once durable, is never replaced, and no marker is cleared   *)
(* without one.                                                            *)
EvidenceKept ==
  [][/\ \A r \in Reqs : checkpoint[r] # NoResponse => checkpoint'[r] = checkpoint[r]
     /\ \A r \in marker \ marker' : checkpoint'[r] # NoResponse]_vars

(* The calls these programs make of the ledger, and what they are promised: *)
(* whatever the processes do, the ledger changes by one accepted call at a  *)
(* time (budget.py takes its lock around each of them).                     *)
LedgerCalls ==
  {ReserveCall(r) : r \in Reqs} \cup {SettleCall(r, a) : r \in Reqs, a \in Amounts}
    \cup {BatchCall(pending, cached) : pending \in SUBSET Reqs, cached \in SUBSET Reqs}
    \cup {AppendCall(i, e) : i \in EntryIds \ Reqs, e \in OtherEntries}
Ledger == INSTANCE CostLedger WITH Requests <- LedgerCalls
UsesCostLedger == Ledger!Spec

(* The inductive invariant behind AtMostOnePaidAttempt: a call owns its     *)
(* request, and up to the transport that request has never been sent.       *)
CallOwnsRequest ==
  \A w \in Workers : /\ pc[w] = "authorized" => cur[w] \in Reqs
                     /\ pc[w] \in InCall => cur[w] \in Reqs /\ claim[cur[w]] = w

NothingSentYet ==
  \A w \in Workers :
     /\ pc[w] \in {"reserved", "marked"} => result[w] = NoResponse
     /\ pc[w] \in {"inspected", "reserved", "marked"} /\ result[w] = NoResponse =>
           dispatched[cur[w]] = 0

AnswerGuarded ==
  \A w \in Workers : /\ pc[w] \in {"marked", "awaiting", "received"} => cur[w] \in marker
                     /\ pc[w] \in {"awaiting", "received", "committed", "settling"} =>
                           result[w] \in Responses
                     /\ pc[w] = "committed" => checkpoint[cur[w]] # NoResponse

IInv == /\ TypeOK
        /\ CallOwnsRequest
        /\ NothingSentYet
        /\ AnswerGuarded
        /\ AttemptLeavesTrace
        /\ AtMostOnePaidAttempt

=============================================================================
