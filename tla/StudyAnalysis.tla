----------------------------- MODULE StudyAnalysis -----------------------------
(***************************************************************************)
(* `analyze` and `report`: effects, criteria, association and verdicts of  *)
(* an authenticated study, in the order in which they are computed.        *)
(* analysis.py and _analyze_artifacts of cli.py.  Which files make a study *)
(* authentic is Evidence of LensStudy.  A bootstrap is an interval.        *)
(***************************************************************************)
EXTENDS BehavioralCriteria

CONSTANTS
  Studies,   \* the data a study may consist of
  Ends,      \* where an interval may end
  PairCount, RolloutCount   \* designed pairs of an anchor and rollouts of a cell

(* What a pair and a rollout were measured as.                             *)
Side == {"above", "below", Unknown}
PairRecord == [replaced : BOOLEAN, retained : BOOLEAN, retain : {0, 1, Unknown}, resample : {0, 1, Unknown}]
RolloutRecord == [first : Side, final : Side, stop : {"stopped", "went_on", "never", Unknown}]
ASSUME StudyAssumption == \A s \in Studies :
  /\ \A a \in DOMAIN s.pairs : s.pairs[a] \in Seq(PairRecord)
  /\ \A c \in DOMAIN s.rollouts : s.rollouts[c] \in Seq(RolloutRecord)

VARIABLES
  study,        \* rollouts, pairs, and the lens: absent, or signs and change
  effects,      \* conclusion of each class of sentences
  criteria,     \* value of each criterion, as far as computed
  association, verdicts,
  summary,      \* analysis_summary.json
  reported      \* what `report` shows

vars == <<study, effects, criteria, association, verdicts, summary, reported>>

Classes == {"value", "accuracy"}
LensCriteria == { "direction_signal_present_before_first_estimate",
                  "direction_signal_precedes_accuracy_statement",
                  "objective_signal_increases_after_accuracy_sentence",
                  "generic_jr_direction_corroboration" }
Nothing == << >>

Init ==
  /\ study \in Studies
  /\ effects = Nothing /\ criteria = Nothing /\ association = Nothing
  /\ verdicts = Nothing /\ summary = Nothing /\ reported = Nothing

-----------------------------------------------------------------------------
(* Effects, then criteria, then the association.                           *)

Interval == { i \in Ends \X Ends : i[1] <= i[2] }
Estimates(class) ==
  LET p == study.pairs
  IN { Conclusion(p, class, i[1], i[2]) :
       i \in { j \in Interval : Cardinality(CompleteClusters(p, class)) < 2 \/ IntervalOf(p, class, j[1], j[2]) } }
RolloutInventory ==
  /\ DOMAIN study.rollouts = Cells /\ \A c \in Cells : Len(study.rollouts[c]) = RolloutCount
  /\ \A d \in Directions : Cardinality({ a \in AnchorsOf("accuracy") : DirectionOf[a] = d }) = TracesPerDirection
ResamplingInventory == DOMAIN study.pairs = Anchors /\ \A a \in Anchors : Len(study.pairs[a]) = PairCount
ParseRate == LET rows(P(_)) == MapThenSumSet(LAMBDA c : In(study.rollouts[c], P), Cells)
             IN 100 * rows(Final) >= MinimumRate * rows(LAMBDA row : TRUE)
EstimateEffects ==
  /\ effects = Nothing /\ RolloutInventory /\ ResamplingInventory /\ ParseRate
  /\ \E v \in Estimates("value"), a \in Estimates("accuracy") :
       /\ {v, a} # {Unknown}     \* at least one class has two clusters
       /\ effects' = [c \in Classes |-> IF c = "value" THEN v ELSE a]
  /\ UNCHANGED <<study, criteria, association, verdicts, summary, reported>>

(* A lens criterion holds when the intervals of both lenses lie above zero  *)
(* in two adjacent bands of layers.                                        *)
Bands == {"early", "middle", "late"}
Adjacent == { {"early", "middle"}, {"middle", "late"} }
BandState(signs, band) ==
  IF signs[band]["J"] = signs[band]["R"] THEN signs[band]["J"] ELSE "inconclusive"
SignalValue(signs) ==
  IF \E pair \in Adjacent : \A b \in pair : BandState(signs, b) = "positive" THEN TRUE
  ELSE IF \E pair \in Adjacent : \A b \in pair : BandState(signs, b) = "negative" THEN FALSE ELSE Unknown
LensValue(c) == IF study.lens.released THEN SignalValue(study.lens.signs[c]) ELSE Unknown

(* One behavioural criterion after another, then those of the lens.        *)
WithCriteria(found) ==
  [ c \in DOMAIN criteria \cup DOMAIN found |-> IF c \in DOMAIN criteria THEN criteria[c] ELSE found[c] ]
\* A table of the studies, which TLC makes once.
Values == [ s \in Studies |-> [ c \in Behavioral |->
  { Criterion(c, s.rollouts, s.pairs, v) : v \in { IntervalValue(c, i[1], i[2]) : i \in Interval } } ] ]
AssessBehavior ==
  /\ effects # Nothing /\ ~(Behavioral \subseteq DOMAIN criteria)
  /\ LET c == CHOOSE x \in Behavioral : x \notin DOMAIN criteria
     IN \E value \in Values[study][c] : criteria' = WithCriteria([ x \in {c} |-> value ])
  /\ UNCHANGED <<study, effects, association, verdicts, summary, reported>>
AssessLens ==
  /\ DOMAIN criteria = Behavioral
  /\ criteria' = WithCriteria([ c \in LensCriteria |-> LensValue(c) ])
  /\ UNCHANGED <<study, effects, association, verdicts, summary, reported>>

AssociationOf ==
  IF study.lens.released THEN Association(study.pairs, study.lens.change)
  ELSE [status |-> "unavailable", tau |-> [ l \in Lenses |-> Unknown ]]
Associate ==
  /\ LensCriteria \subseteq DOMAIN criteria /\ association = Nothing
  /\ association' = AssociationOf
  /\ UNCHANGED <<study, effects, criteria, verdicts, summary, reported>>

-----------------------------------------------------------------------------
(* Verdicts.  Only the pooled accuracy effect was declared confirmatory.   *)

(* mutated form: either lens may corroborate. *)
GatePassesByEither(a) == a.status = "available" /\ \E l \in Lenses : a.tau[l] > 0
GatePasses(a) == a.status = "available" /\ \A l \in Lenses : a.tau[l] > 0
Gated(c) == IF c \in LensCriteria /\ ~GatePasses(association) THEN Unknown ELSE criteria[c]

ConclusionIs(class, expected) ==
  IF effects[class] \in {Unknown, "inconclusive"} THEN Unknown ELSE effects[class] \in expected
FromSentences == { "value_planning_sentence_causal_effect_positive", "value_planning_sentence_is_load_bearing",
                   "accuracy_sentence_causal_effect_reduces_good_side", "accuracy_sentence_is_null_or_contrary" }
Descriptive(c) ==
  CASE c = "value_planning_sentence_causal_effect_positive" -> ConclusionIs("value", {"positive"})
    [] c = "value_planning_sentence_is_load_bearing" -> ConclusionIs("value", {"positive"})
    [] c = "accuracy_sentence_causal_effect_reduces_good_side" -> ConclusionIs("accuracy", {"negative"})
    [] c = "accuracy_sentence_is_null_or_contrary" -> ConclusionIs("accuracy", {"practically_null", "positive"})
    [] OTHER -> Gated(c)

Required ==
  [ goal_directed_search |-> { "value_planning_sentence_causal_effect_positive",
      "independent_task_same_direction", "direction_signal_present_before_first_estimate" },
    genuine_accuracy_control |-> { "accuracy_sentence_causal_effect_reduces_good_side",
      "accuracy_sentence_moves_toward_neutral_baseline", "objective_signal_increases_after_accuracy_sentence" },
    post_hoc_unfaithful_narration |-> { "value_planning_sentence_is_load_bearing",
      "accuracy_sentence_is_null_or_contrary", "direction_signal_precedes_accuracy_statement" },
    numerical_anchoring |-> { "threshold_only_shift_is_material", "threshold_only_matches_motivated_shift",
      "moral_direction_interaction_is_practically_weak" },
    search_stopping_bias |-> { "final_direction_gap_exceeds_first_gap",
      "pooled_good_side_revision_is_positive", "pooled_stopping_after_good_crossing_is_prevalent" } ]

ConfirmatoryClass == "accuracy"
Confirmatory(c) ==
  /\ effects[ConfirmatoryClass] # Unknown
  /\ c \in { "accuracy_sentence_causal_effect_reduces_good_side", "accuracy_sentence_is_null_or_contrary" }
Formal(c) == IF Confirmatory(c) THEN Descriptive(c) ELSE Unknown
VerdictOf(h) ==
  LET values == [ c \in Required[h] |-> Formal(c) ]
  IN [ supported |-> \A c \in Required[h] : values[c] = TRUE,
       met |-> { c \in Required[h] : values[c] = TRUE }, failed |-> { c \in Required[h] : values[c] = FALSE },
       described |-> [ c \in Required[h] |-> Descriptive(c) ] ]
Adjudicate ==
  /\ association # Nothing /\ verdicts = Nothing
  /\ verdicts' = [ h \in DOMAIN Required |-> VerdictOf(h) ]
  /\ UNCHANGED <<study, effects, criteria, association, summary, reported>>

-----------------------------------------------------------------------------
(* The summary is written last; the report recomputes what it can.         *)

WriteSummary ==
  /\ verdicts # Nothing /\ summary = Nothing
  /\ summary' = [ effects |-> effects, criteria |-> criteria, verdicts |-> verdicts,
                  association |-> association, gate |-> GatePasses(association),
                  lens |-> IF study.lens.released THEN "available_122b" ELSE "unavailable_not_zero" ]
  /\ UNCHANGED <<study, effects, criteria, association, verdicts, reported>>

AssociationIsWhole ==
  IF summary.lens = "unavailable_not_zero" THEN summary.association.status = "unavailable"
  ELSE \A l \in Lenses : (summary.association.tau[l] # Unknown) = (summary.association.status = "available")
AssociationHolds == summary.association = AssociationOf   \* recomputed from the linked files
LensIsWithheld == \A h \in DOMAIN Required : \A c \in Required[h] \cap LensCriteria :
                    summary.verdicts[h].described[c] = Unknown
SummaryHolds ==
  /\ AssociationIsWhole /\ AssociationHolds
  /\ summary.gate = GatePasses(summary.association) /\ (summary.gate \/ LensIsWithheld)
Report ==
  /\ summary # Nothing /\ reported = Nothing /\ SummaryHolds
  /\ reported' = [ h \in DOMAIN Required |-> summary.verdicts[h] ]
  /\ UNCHANGED <<study, effects, criteria, association, verdicts, summary>>

Next == EstimateEffects \/ AssessBehavior \/ AssessLens \/ Associate \/ Adjudicate \/ WriteSummary \/ Report
Spec == Init /\ [][Next]_vars

-----------------------------------------------------------------------------
(* Properties.                                                             *)

\* What a criterion reads of a rollout, its missing part in every way it could
\* have been.  One criterion reads the outcomes of pairs as well (FilledPairs).
Reads(c) == CASE c = "pooled_stopping_after_good_crossing_is_prevalent" -> {"stop"}
              [] c \in { "pooled_good_side_revision_is_positive", "final_direction_gap_exceeds_first_gap" } ->
                   {"first", "final"}
              [] OTHER -> {"final"}
CouldBe(c) == IF "stop" \in Reads(c) THEN {"stopped", "went_on", "never"} ELSE {"above", "below"}
Unmeasured(c, r) ==
  { k \in CellsOf(c) \X (1..Max({ Len(r[cell]) : cell \in CellsOf(c) })) \X Reads(c) :
      k[2] \in DOMAIN r[k[1]] /\ r[k[1]][k[2]][k[3]] = Unknown }
Measurement(r, g, k) == IF k \in DOMAIN g THEN g[k] ELSE r[k[1]][k[2]][k[3]]
Completed(r, g) == [ cell \in Cells |-> [ i \in DOMAIN r[cell] |->
                       [ field \in {"first", "final", "stop"} |-> Measurement(r, g, <<cell, i, field>>) ] ] ]
Completions(c, r) == { Completed(r, g) : g \in [ Unmeasured(c, r) -> CouldBe(c) ] }
UnmeasuredPairs(pairs, anchors) ==
  { k \in anchors \X (1..Max({ Len(pairs[a]) : a \in anchors })) \X Arms :
      k[2] \in DOMAIN pairs[k[1]] /\ pairs[k[1]][k[2]][k[3]] = Unknown }
CompletedPairs(pairs, ones) ==
  [ a \in Anchors |-> [ i \in DOMAIN pairs[a] |->
      [ pairs[a][i] EXCEPT !.retain = IF @ # Unknown THEN @ ELSE IF <<a, i, "retain">> \in ones THEN 1 ELSE 0,
                           !.resample = IF @ # Unknown THEN @ ELSE IF <<a, i, "resample">> \in ones THEN 1 ELSE 0 ] ] ]
FilledPairs(anchors) ==
  { CompletedPairs(study.pairs, ones) : ones \in SUBSET UnmeasuredPairs(study.pairs, anchors) }
TowardNeutral == "accuracy_sentence_moves_toward_neutral_baseline"
PairsAreMeasured(c) == c = TowardNeutral => UnmeasuredPairs(study.pairs, AnchorsOf("accuracy")) = {}
Says(c, value, r, pairs) ==
  LET b == Bound(c, r, pairs)
  IN Meets(Target(c), b.low, b.high, Margin(c, pairs)) = value

\* A behavioural criterion is met, or is denied, only if it would be whatever
\* the missing measurements had been (analysis.py:797, "Block a verdict input
\* unless its cell gates and missing bounds are robust"): the seven that read
\* rollouts alone, and the one that also reads the outcomes of pairs when none
\* of those outcomes is missing.
CriteriaSurvive == [][ \A c \in Behavioral \cap (DOMAIN criteria' \ DOMAIN criteria) :
  criteria'[c] # Unknown /\ PairsAreMeasured(c) =>
    \A r \in Completions(c, study.rollouts) : Says(c, criteria'[c], r, study.pairs) ]_criteria

\* The same of that one criterion whatever the missing outcomes of its pairs
\* had been, as the preregistration asks of every contrast of a verdict
\* (config/preregistration.yaml:131-133, README.md:338-339).  The code bounds
\* only its neutral rate (analysis.py:1535-1560).
MovementSurvives == [][ \A c \in {TowardNeutral} \cap (DOMAIN criteria' \ DOMAIN criteria) : criteria'[c] # Unknown =>
  \A r \in Completions(c, study.rollouts), f \in FilledPairs(AnchorsOf("accuracy")) :
    Says(c, criteria'[c], r, f) ]_criteria

\* So is what is concluded of a class of sentences, and then each of its
\* anchors had replacements enough (sentence_effect_table,
\* apply_divergent_coverage_gate).
ConclusionSurvives == [][ \A c \in Classes : effects'[c] \notin {Unknown, "inconclusive"} =>
    /\ \A a \in AnchorsOf(c) : Replacements(study.pairs, a) >= MinimumDivergent
    /\ \A f \in FilledPairs(AnchorsOf(c)) :
         Meets(TargetOf(effects'[c]), WorstCase(f, c), BestCase(f, c), Rope * Cardinality(Clusters(f, c))) ]_effects

\* A lens criterion is shown only when the lens was read, both lenses agree in
\* two adjacent bands, every designed accuracy anchor has its pairs measured,
\* and under both lenses the anchors whose sentence held back more changed more
\* (README.md:341-344, _gate_lens_verdict_criteria).
LensNeedsAssociation == reported # Nothing =>
  \A h \in DOMAIN Required : \A c \in Required[h] \cap LensCriteria : reported[h].described[c] # Unknown =>
    /\ study.lens.released /\ Associates(study.pairs, study.lens.change)
    /\ \A l \in Lenses : TauSign(study.pairs, study.lens.change, l) > 0
    /\ \E pair \in Adjacent : \A b \in pair : \A l \in Lenses :
         study.lens.signs[c][b][l] = (IF reported[h].described[c] THEN "positive" ELSE "negative")

=============================================================================
