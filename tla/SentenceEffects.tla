---------------------------- MODULE SentenceEffects ----------------------------
(***************************************************************************)
(* What the intervention says of one class of sentences: which pairs count, *)
(* the effect, how far unmeasured finals could move it, and whether enough *)
(* replacements exist to say anything.  analysis.py and statistics.py.     *)
(* One is Whole units, so that every rate is an integer.  An anchor stands *)
(* for its base trace, the unit that is resampled.                         *)
(***************************************************************************)
EXTENDS Integers, Sequences, FiniteSets, FiniteSetsExt

CONSTANTS
  Anchors, ClassOf, DirectionOf,  \* frozen anchors
  Whole, Rope,                    \* one, and the practical-null margin
  MinimumDivergent,               \* eligible replacements an anchor needs
  TracesPerDirection,             \* designed accuracy anchors of a direction
  Unknown

Arms == {"retain", "resample"}
Directions == {"above_good", "below_good"}

ASSUME EffectAssumption ==
  /\ Whole \in Nat /\ Rope \in 1..(Whole - 1) /\ {MinimumDivergent, TracesPerDirection} \subseteq Nat \ {0}
  /\ DirectionOf \in [Anchors -> Directions]
ASSUME UnknownAssumption ==
  /\ IsFiniteSet(Anchors) /\ Unknown # TRUE /\ Unknown # FALSE /\ Unknown \notin {0, 1}
  /\ Unknown \notin {"inconclusive", "above", "below", "stopped", "went_on", "never"}

-----------------------------------------------------------------------------
(* pairs[a][i]: was the retained half delivered, was the replaced half      *)
(* delivered and divergent, and which good-side outcome did each have.      *)

(* mutated form: a pair whose outcome is missing is left out. *)
MeasuredPairs(pairs, a) ==
  { i \in DOMAIN pairs[a] : /\ pairs[a][i].replaced /\ pairs[a][i].retained
                            /\ Unknown \notin { pairs[a][i].retain, pairs[a][i].resample } }
(* Without conditioning on outcomes. *)
EligiblePairs(pairs, a) == { i \in DOMAIN pairs[a] : pairs[a][i].replaced /\ pairs[a][i].retained }

AnchorsOf(class) == { a \in Anchors : ClassOf[a] = class }
Clusters(pairs, class) == { a \in AnchorsOf(class) : EligiblePairs(pairs, a) # {} }

Outcomes(pairs, a, arm) == [ i \in EligiblePairs(pairs, a) |-> pairs[a][i][arm] ]
Known(outcomes) == { i \in DOMAIN outcomes : outcomes[i] # Unknown }
Filled(outcomes, v) == [ i \in DOMAIN outcomes |-> IF outcomes[i] = Unknown THEN v ELSE outcomes[i] ]
Mean(outcomes, over) == (SumFunctionOnSet(outcomes, over) * Whole) \div Cardinality(over)
MeanOfAll(outcomes) == Mean(outcomes, DOMAIN outcomes)

CompleteClusters(pairs, class) ==
  { a \in Clusters(pairs, class) : \A arm \in Arms : Known(Outcomes(pairs, a, arm)) # {} }
ObservedMean(pairs, a, arm) == Mean(Outcomes(pairs, a, arm), Known(Outcomes(pairs, a, arm)))
Difference(pairs, a) == ObservedMean(pairs, a, "retain") - ObservedMean(pairs, a, "resample")

(* Every unmeasured final against the retained sentence, then for it; the  *)
(* bounds are sums over clusters, and so is the margin they are held to.   *)
MeanFilled(pairs, a, arm, v) == MeanOfAll(Filled(Outcomes(pairs, a, arm), v))
WorstCase(pairs, class) == SumFunction([ a \in Clusters(pairs, class) |->
  MeanFilled(pairs, a, "retain", 0) - MeanFilled(pairs, a, "resample", 1) ])
BestCase(pairs, class) == SumFunction([ a \in Clusters(pairs, class) |->
  MeanFilled(pairs, a, "retain", 1) - MeanFilled(pairs, a, "resample", 0) ])

-----------------------------------------------------------------------------
(* Decisions about an interval, and about a pair of bounds.                *)

Classify(low, high, rope) ==
  CASE low > rope -> "positive"
    [] high < -rope -> "negative"
    [] low >= -rope /\ high <= rope -> "practically_null"
    [] OTHER -> "inconclusive"

Meets(target, low, high, rope) ==
  CASE target = "positive" -> low > rope
    [] target = "negative" -> high < -rope
    [] target = "outside" -> low > rope \/ high < -rope
    [] target = "equivalent" -> -rope <= low /\ high <= rope
Denies(target, low, high, rope) ==
  CASE target = "positive" -> high <= rope
    [] target = "negative" -> low >= -rope
    [] target = "outside" -> -rope <= low /\ high <= rope
    [] target = "equivalent" -> low > rope \/ high < -rope
PointBoundState(target, low, high, rope) ==
  IF Meets(target, low, high, rope) THEN TRUE
  ELSE IF Denies(target, low, high, rope) THEN FALSE ELSE Unknown

TargetOf(conclusion) == IF conclusion = "practically_null" THEN "equivalent" ELSE conclusion

(* The row of a class in the effect table, given the interval the cluster  *)
(* bootstrap came out with; no row below two clusters.                     *)
IntervalOf(pairs, class, low, high) ==
  LET d == { Difference(pairs, a) : a \in CompleteClusters(pairs, class) }
  IN low <= high /\ (\E x \in d : x <= low) /\ (\E x \in d : high <= x)
CompleteConclusion(pairs, class, low, high) ==
  IF Cardinality(CompleteClusters(pairs, class)) < 2 THEN "inconclusive" ELSE Classify(low, high, Rope)
BoundsPass(pairs, class, conclusion) ==
  conclusion = "inconclusive" \/
  PointBoundState(TargetOf(conclusion), WorstCase(pairs, class), BestCase(pairs, class),
                  Rope * Cardinality(Clusters(pairs, class))) = TRUE

Replacements(pairs, a) == Cardinality({ i \in DOMAIN pairs[a] : pairs[a][i].replaced })
Covered(pairs, class) ==
  AnchorsOf(class) # {} /\ \A a \in AnchorsOf(class) : Replacements(pairs, a) >= MinimumDivergent

Conclusion(pairs, class, low, high) ==
  LET c == CompleteConclusion(pairs, class, low, high)
  IN IF Cardinality(Clusters(pairs, class)) < 2 THEN Unknown
     ELSE IF BoundsPass(pairs, class, c) /\ Covered(pairs, class) THEN c ELSE "inconclusive"

-----------------------------------------------------------------------------
(* The association of an anchor's effect with the change of the lens across *)
(* it: change[a][lens] is a number or Unknown.                              *)

Lenses == {"J", "R"}
Effect(pairs, a) ==   \* resample minus retain: how much the sentence held back
  (SumFunction([ i \in EligiblePairs(pairs, a) |-> pairs[a][i].resample - pairs[a][i].retain ]) * Whole)
    \div Cardinality(EligiblePairs(pairs, a))
Measured(pairs, a) == \A arm \in Arms : Known(Outcomes(pairs, a, arm)) = EligiblePairs(pairs, a)

Associates(pairs, change) ==
  LET traces == AnchorsOf("accuracy")
  IN /\ \A d \in Directions : Cardinality({ a \in traces : DirectionOf[a] = d }) = TracesPerDirection
     /\ \A a \in traces : /\ Cardinality(EligiblePairs(pairs, a)) >= MinimumDivergent
                          /\ Measured(pairs, a)
                          /\ \A l \in Lenses : change[a][l] # Unknown

Sign(x) == IF x > 0 THEN 1 ELSE IF x < 0 THEN -1 ELSE 0
Strata == { s \in SUBSET AnchorsOf("accuracy") :
              Cardinality(s) = 2 /\ \A a, b \in s : DirectionOf[a] = DirectionOf[b] }
Concordance(pairs, change, l, s) ==
  LET a == CHOOSE x \in s : TRUE  b == CHOOSE x \in s : x # a
  IN Sign((change[a][l] - change[b][l]) * (Effect(pairs, a) - Effect(pairs, b)))
TauSign(pairs, change, l) == SumFunction([ s \in Strata |-> Concordance(pairs, change, l, s) ])

Association(pairs, change) ==
  IF Associates(pairs, change)
  THEN [status |-> "available", tau |-> [ l \in Lenses |-> TauSign(pairs, change, l) ]]
  ELSE [status |-> "unavailable", tau |-> [ l \in Lenses |-> Unknown ]]
=============================================================================
