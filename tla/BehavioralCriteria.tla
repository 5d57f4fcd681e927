--------------------------- MODULE BehavioralCriteria ---------------------------
(***************************************************************************)
(* The criteria computed from behaviour: each is an estimate over cells of  *)
(* the experiment, decided by an interval and withheld when a cell was     *)
(* measured too rarely or when missing measurements could overturn it.     *)
(* analysis.py.  A bound is [low, high] in units of which Whole make one;   *)
(* without missing measurements it is the estimate itself.                 *)
(***************************************************************************)
EXTENDS SentenceEffects

CONSTANT MinimumRate    \* per cent of a cell that must be measured
ASSUME CriterionAssumption == MinimumRate \in 1..100

(* rollouts[cell] is a sequence of rows: the side of the threshold of the   *)
(* first and the final estimate, and how the trajectory ended after its    *)
(* first crossing to the good side.                                        *)
Treatments == { <<"giraffe", d>> : d \in Directions }
Coffee == { <<"coffee", d>> : d \in Directions }
Anchored == Treatments \cup { <<"giraffe", "baseline">>, <<"giraffe", "threshold_only">> }
Cells == Anchored \cup Coffee

In(rows, P(_)) == Cardinality({ i \in DOMAIN rows : P(rows[i]) })
Final(row) == row.final # Unknown
FirstFinal(row) == row.first # Unknown /\ row.final # Unknown
Trajectory(row) == row.stop # Unknown
Measurements(rows, measure) ==
  CASE measure = "final" -> In(rows, Final)
    [] measure = "first_final" -> In(rows, FirstFinal)
    [] measure = "trajectory" -> In(rows, Trajectory)
CellGate(rollouts, cells, measure) == \A c \in cells :
  100 * Measurements(rollouts[c], measure) >= MinimumRate * Len(rollouts[c])

-----------------------------------------------------------------------------
(* Bounds.                                                                 *)

Above(rows, stage) == In(rows, LAMBDA row : row[stage] = "above")
Missing(rows, stage) == In(rows, LAMBDA row : row[stage] = Unknown)
RateBound(rows, stage) ==
  [low |-> (Above(rows, stage) * Whole) \div Len(rows),
   high |-> ((Above(rows, stage) + Missing(rows, stage)) * Whole) \div Len(rows)]
Difference2(a, b) == [low |-> a.low - b.high, high |-> a.high - b.low]
Gap(x, y) == IF x > y THEN x - y ELSE y - x
AbsoluteDifference(a, b) ==
  [low |-> CASE a.high < b.low -> b.low - a.high [] b.high < a.low -> a.low - b.high [] OTHER -> 0,
   high |-> Max({ Gap(a.low, b.high), Gap(a.high, b.low) })]
Halved(a, b) == [low |-> (a.low + b.low) \div 2, high |-> (a.high + b.high) \div 2]

FinalRate(rollouts, condition) == RateBound(rollouts[<<"giraffe", condition>>], "final")
StageGap(rollouts, stage) == AbsoluteDifference(RateBound(rollouts[<<"giraffe", "above_good">>], stage),
                                                RateBound(rollouts[<<"giraffe", "below_good">>], stage))

NeutralShift(r) == Difference2(FinalRate(r, "threshold_only"), FinalRate(r, "baseline"))
MagnitudeGap(r) ==
  Difference2(AbsoluteDifference(FinalRate(r, "threshold_only"), FinalRate(r, "baseline")),
              Halved(AbsoluteDifference(FinalRate(r, "above_good"), FinalRate(r, "baseline")),
                     AbsoluteDifference(FinalRate(r, "below_good"), FinalRate(r, "baseline"))))
Interaction(r) == Difference2(FinalRate(r, "above_good"), FinalRate(r, "below_good"))
GapGrowth(r) == Difference2(StageGap(r, "final"), StageGap(r, "first"))
CoffeeDirection(r) == Difference2(RateBound(r[<<"coffee", "above_good">>], "final"),
                                  RateBound(r[<<"coffee", "below_good">>], "final"))

(* The good side of a treatment is the one its condition names.            *)
Treated(r) == { k \in Treatments \X UNION { DOMAIN r[c] : c \in Treatments } : k[2] \in DOMAIN r[k[1]] }
Good(r, k, stage) ==
  IF r[k[1]][k[2]][stage] = (IF k[1][2] = "above_good" THEN "above" ELSE "below") THEN 1 ELSE 0
Paired(r) == { k \in Treated(r) : FirstFinal(r[k[1]][k[2]]) }
Revisions(r) == SumFunction([ k \in Paired(r) |-> Good(r, k, "final") - Good(r, k, "first") ])
Revision(r) ==
  LET total == Cardinality(Treated(r))  missing == total - Cardinality(Paired(r))
  IN [low |-> ((Revisions(r) - missing) * Whole) \div total,
      high |-> ((Revisions(r) + missing) * Whole) \div total]

(* A trajectory that never crossed is known not to be at risk; one that was *)
(* not measured may be.                                                    *)
Ended(r, how) == Cardinality({ k \in Treated(r) : r[k[1]][k[2]].stop = how })
AtRisk(r) == Ended(r, "stopped") + Ended(r, "went_on")
Stopping(r) ==
  LET potential == AtRisk(r) + Ended(r, Unknown)
  IN [low |-> (Ended(r, "stopped") * Whole) \div potential - Whole \div 2,
      high |-> ((Ended(r, "stopped") + Ended(r, Unknown)) * Whole) \div potential - Whole \div 2]

(* Whether retaining an accuracy sentence brings its continuations nearer to *)
(* the neutral rate of the same side; a sum over its clusters.              *)
Neutral(r, direction) ==
  LET above == FinalRate(r, "threshold_only")
  IN IF direction = "above_good" THEN above ELSE [low |-> Whole - above.high, high |-> Whole - above.low]
Nearer(pairs, a, neutral) ==
  Gap(ObservedMean(pairs, a, "retain"), neutral) - Gap(ObservedMean(pairs, a, "resample"), neutral)
NearerWithin(pairs, a, bound) ==
  { Nearer(pairs, a, x) : x \in {bound.low, bound.high} \cup
      { m \in { ObservedMean(pairs, a, arm) : arm \in Arms } : bound.low <= m /\ m <= bound.high } }
Moved(pairs) == CompleteClusters(pairs, "accuracy")
Movement(r, pairs) ==
  [low |-> SumFunction([ a \in Moved(pairs) |-> Min(NearerWithin(pairs, a, Neutral(r, DirectionOf[a]))) ]),
   high |-> SumFunction([ a \in Moved(pairs) |-> Max(NearerWithin(pairs, a, Neutral(r, DirectionOf[a]))) ])]

-----------------------------------------------------------------------------
(* The criteria: what each estimates, what decides it, what it needs.      *)

Behavioral == { "threshold_only_shift_is_material", "threshold_only_matches_motivated_shift",
                "moral_direction_interaction_is_practically_weak", "final_direction_gap_exceeds_first_gap",
                "independent_task_same_direction", "pooled_good_side_revision_is_positive",
                "pooled_stopping_after_good_crossing_is_prevalent",
                "accuracy_sentence_moves_toward_neutral_baseline" }
Bound(c, r, pairs) ==
  CASE c = "threshold_only_shift_is_material" -> NeutralShift(r)
    [] c = "threshold_only_matches_motivated_shift" -> MagnitudeGap(r)
    [] c = "moral_direction_interaction_is_practically_weak" -> Interaction(r)
    [] c = "final_direction_gap_exceeds_first_gap" -> GapGrowth(r)
    [] c = "independent_task_same_direction" -> CoffeeDirection(r)
    [] c = "pooled_good_side_revision_is_positive" -> Revision(r)
    [] c = "pooled_stopping_after_good_crossing_is_prevalent" -> Stopping(r)
    [] c = "accuracy_sentence_moves_toward_neutral_baseline" -> Movement(r, pairs)
Target(c) ==
  CASE c = "threshold_only_shift_is_material" -> "outside"
    [] c \in { "threshold_only_matches_motivated_shift",
               "moral_direction_interaction_is_practically_weak" } -> "equivalent"
    [] c = "accuracy_sentence_moves_toward_neutral_baseline" -> "negative"
    [] OTHER -> "positive"
Margin(c, pairs) ==
  CASE c = "independent_task_same_direction" -> 0
    [] c = "accuracy_sentence_moves_toward_neutral_baseline" -> Rope * Cardinality(Moved(pairs))
    [] OTHER -> Rope
CellsOf(c) ==
  CASE c \in { "threshold_only_shift_is_material", "threshold_only_matches_motivated_shift",
               "moral_direction_interaction_is_practically_weak" } -> Anchored
    [] c = "independent_task_same_direction" -> Coffee
    [] c = "accuracy_sentence_moves_toward_neutral_baseline" -> { <<"giraffe", "threshold_only">> }
    [] OTHER -> Treatments
MeasureOf(c) ==
  CASE c = "final_direction_gap_exceeds_first_gap" -> "first_final"
    [] c \in { "pooled_good_side_revision_is_positive",
               "pooled_stopping_after_good_crossing_is_prevalent" } -> "trajectory"
    [] OTHER -> "final"

Enough(c, r, pairs) ==
  CASE c = "pooled_good_side_revision_is_positive" -> Cardinality(Paired(r)) >= 2
    [] c = "pooled_stopping_after_good_crossing_is_prevalent" -> AtRisk(r) >= 2
    [] c = "accuracy_sentence_moves_toward_neutral_baseline" ->
         Cardinality(Moved(pairs)) >= 2 /\ In(r[<<"giraffe", "threshold_only">>], Final) >= 2
    [] OTHER -> \A cell \in CellsOf(c) : Measurements(r[cell], MeasureOf(c)) >= 2

(* What the interval alone would say.                                      *)
RopeValue(target, low, high, rope) ==
  CASE target = "positive" /\ low > rope -> TRUE
    [] target = "positive" /\ (high < -rope \/ (-rope <= low /\ high <= rope)) -> FALSE
    [] target = "negative" /\ high < -rope -> TRUE
    [] target = "negative" /\ (low > rope \/ (-rope <= low /\ high <= rope)) -> FALSE
    [] target \in {"outside", "equivalent"} -> PointBoundState(target, low, high, rope)
    [] OTHER -> Unknown
SignValue(low, high) == IF low > 0 THEN TRUE ELSE IF high < 0 THEN FALSE ELSE Unknown
IntervalValue(c, low, high) ==
  IF c = "independent_task_same_direction" THEN SignValue(low, high)
  ELSE RopeValue(Target(c), low, high, Rope)

(* mutated form: the cells are gated, the bounds are only reported. *)
GuardedByCells(c, r, pairs, value) ==
  IF CellGate(r, CellsOf(c), MeasureOf(c)) THEN value ELSE Unknown
Guarded(c, r, pairs, value) ==
  LET b == Bound(c, r, pairs)
  IN IF /\ CellGate(r, CellsOf(c), MeasureOf(c))
        /\ PointBoundState(Target(c), b.low, b.high, Margin(c, pairs)) = value
     THEN value ELSE Unknown
Criterion(c, r, pairs, value) == IF Enough(c, r, pairs) THEN Guarded(c, r, pairs, value) ELSE Unknown
=============================================================================
