---------------------------- MODULE FinalConsensus ----------------------------
(***************************************************************************)
(* What two judges say of one final answer, and what of it may be used:    *)
(* calibration.py, with the malformed-response isolation of the            *)
(* behavioral and resampling adjudication phases.  Pure operators.         *)
(*                                                                         *)
(* An answer of a judge is a value, Unknown, or Malformed: a body that was *)
(* paid for and violates the frozen contract, replaced by UNKNOWN and kept *)
(* apart in an audit.  A measurement of a unit is [final, second, last]:   *)
(* the primary judge's final, the independent judge's final, and the last  *)
(* value of the primary judge's trajectory.  Rates are percentages of all  *)
(* rows, never of the rows that are known.                                 *)
(***************************************************************************)
EXTENDS Integers, FiniteSets

CONSTANTS Values,    \* integers a judge may report
          Unknown,   \* the judge reports that the text states no value
          Malformed  \* the response violates its contract

ASSUME ValuesAssumption == Unknown \notin Values /\ Malformed \notin Values \cup {Unknown}

Answers == Values \cup {Unknown, Malformed}
Measurements == [final : Answers, second : Answers, last : Answers]

MinimumExactAgreement == 90
MinimumFinalKnownRate == 95
MinimumTrajectoryConsistency == 95

(* rate(part of whole) >= percent; a rate of nothing passes no gate. *)
Reaches(part, whole, percent) == whole > 0 /\ 100 * part >= percent * whole

(* An independent record enters the consensus only when both contracts     *)
(* held; otherwise the final is missing there, not UNKNOWN.                *)
Paired(m) == m.final # Malformed /\ m.second # Malformed

Exact(m) == Paired(m) /\ m.final = m.second
(* Exact and known: the only finals an analysis may use. *)
Known(m) == Exact(m) /\ m.final \in Values

MissingReason(m) == CASE ~Paired(m) -> "missing_independent_final"
                      [] Known(m) -> "none"
                      [] m.second = Unknown -> "independent_final_unknown"
                      [] m.final = Unknown -> "primary_final_unknown"
                      [] OTHER -> "final_judge_disagreement"

(* The trajectory must end at the final, and the final must be usable. *)
Consistent(m) == Known(m) /\ m.last = m.final

-----------------------------------------------------------------------------
(* Gates over the measurements of a set of units. *)

Exacts(rows) == Cardinality({ u \in DOMAIN rows : Exact(rows[u]) })
Knowns(rows) == Cardinality({ u \in DOMAIN rows : Known(rows[u]) })
Consistents(rows) == Cardinality({ u \in DOMAIN rows : Consistent(rows[u]) })
Total(rows) == Cardinality(DOMAIN rows)

ConsensusGate(rows) == Reaches(Exacts(rows), Total(rows), MinimumExactAgreement)

Measured(rows) ==
  /\ Reaches(Exacts(rows), Total(rows), MinimumExactAgreement)
  /\ Reaches(Knowns(rows), Total(rows), MinimumFinalKnownRate)
  /\ Reaches(Consistents(rows), Total(rows), MinimumTrajectoryConsistency)

Only(rows, units) == [u \in units |-> rows[u]]
(* Every phase and every task x condition cell passes by itself, so a good *)
(* cell never hides a failed one.                                          *)
QualityGate(rows, groups) == \A units \in groups : Measured(Only(rows, units))

=============================================================================
