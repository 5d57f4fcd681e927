-------------------------- MODULE StudyAnalysisProofs --------------------------
(***************************************************************************)
(* What is proved of the analysis, for any study, anchors and intervals:    *)
(* that the lens is shown only with its association, and that a conclusion  *)
(* or a criterion is what every completion of the measurements would give.  *)
(* The latter rests on bounds: what was measured bounds each estimate, and  *)
(* a completion only makes the bound narrower (Within).                    *)
(***************************************************************************)
EXTENDS StudyAnalysis, FiniteSetTheorems, WellFoundedInduction, TLAPS

-----------------------------------------------------------------------------
(* Sums.  A sum over a finite set is defined by taking one element after    *)
(* another; what is needed of it is proved by the smallest subset for       *)
(* which it would fail.                                                     *)
Pick(s) == CHOOSE x \in s : TRUE
SumRule(d, g, s) == IF s = {} THEN 0 ELSE d[Pick(s)] + g[s \ {Pick(s)}]
IsSum(d, g, S) == g = [s \in SUBSET S |-> SumRule(d, g, s)]
Sums(d, S) == CHOOSE g : IsSum(d, g, S)

LEMMA SumIsSums ==
  ASSUME NEW d, NEW S
  PROVE  SumFunctionOnSet(d, S) = Sums(d, S)[S]
BY DEF SumFunctionOnSet, FoldFunctionOnSet, MapThenFoldSet, Sums, IsSum, SumRule, Pick

LEMMA SmallestSubset ==
  ASSUME NEW S, IsFiniteSet(S), NEW Odd, Odd \subseteq SUBSET S, Odd # {}
  PROVE  \E T \in Odd : \A U \in SUBSET T : U # T => U \notin Odd
<1>1. IsWellFoundedOn(StrictSubsetOrdering(S), SUBSET S)
  BY FS_FiniteSubsetsOfFinite, FS_StrictSubsetOrderingWellFounded
<1>2. PICK T \in Odd : \A U \in Odd : <<U, T>> \notin StrictSubsetOrdering(S)
  BY <1>1, WFMin
<1>3. \A U \in SUBSET T : U # T => U \notin Odd
  BY <1>2 DEF StrictSubsetOrdering
<1> QED
  BY <1>3

LEMMA Picked == \A s : s # {} => Pick(s) \in s /\ s \ {Pick(s)} \subseteq s /\ s \ {Pick(s)} # s
<1> SUFFICES ASSUME NEW s, s # {}  PROVE Pick(s) \in s
  BY Zenon
<1> QED BY DEF Pick

LEMMA SumApplies ==
  ASSUME NEW d, NEW g, NEW S, IsSum(d, g, S), NEW s \in SUBSET S
  PROVE  g[s] = SumRule(d, g, s)
<1>1. g = [t \in SUBSET S |-> SumRule(d, g, t)]
  BY DEF IsSum
<1> QED BY <1>1, Zenon

\* Two sums agree where both are defined.
LEMMA SumsAgree ==
  ASSUME NEW S, IsFiniteSet(S), NEW d, NEW g, NEW h, NEW T, IsSum(d, g, T), NEW U, IsSum(d, h, U),
         S \subseteq T, S \subseteq U
  PROVE  g[S] = h[S]
<1> DEFINE Odd == {s \in SUBSET S : g[s] # h[s]}
<1>1. SUFFICES ASSUME Odd # {}  PROVE FALSE
  BY <1>1
<1>2. PICK s \in Odd : \A t \in SUBSET s : t # s => t \notin Odd
  <2>1. Odd \subseteq SUBSET S
    OBVIOUS
  <2> HIDE DEF Odd
  <2> QED
    BY <1>1, <2>1, SmallestSubset
<1>3. g[s] = SumRule(d, g, s) /\ h[s] = SumRule(d, h, s)
  BY SumApplies
<1>4. s # {} => g[s \ {Pick(s)}] = h[s \ {Pick(s)}]
  BY <1>2, Picked
<1>5. SumRule(d, g, s) = SumRule(d, h, s)
  BY <1>4 DEF SumRule
<1> QED BY <1>2, <1>3, <1>5

\* Over a finite set there is such a sum.
LEMMA SumExists ==
  ASSUME NEW S, IsFiniteSet(S), NEW d
  PROVE  IsSum(d, Sums(d, S), S)
<1> DEFINE Odd == {s \in SUBSET S : ~ IsSum(d, Sums(d, s), s)}
<1>0. S \in SUBSET S
  OBVIOUS
<1>1. SUFFICES ASSUME Odd # {}  PROVE FALSE
  BY <1>0, <1>1
<1>2. PICK s \in Odd : \A t \in SUBSET s : t # s => t \notin Odd
  <2>1. Odd \subseteq SUBSET S
    OBVIOUS
  <2> HIDE DEF Odd
  <2> QED
    BY <1>1, <2>1, SmallestSubset
<1>3. \A t \in SUBSET s : t # s => IsSum(d, Sums(d, t), t)
  BY <1>2
<1> DEFINE g == [t \in SUBSET s |-> IF t = {} THEN 0
                                    ELSE d[Pick(t)] + Sums(d, t \ {Pick(t)})[t \ {Pick(t)}]]
<1>4. ASSUME NEW t \in SUBSET s, t # s  PROVE g[t] = Sums(d, t)[t]
  <2>1. Sums(d, t)[t] = SumRule(d, Sums(d, t), t)
    BY <1>3, <1>4, SumApplies
  <2>2. CASE t = {}
    BY <2>1, <2>2 DEF SumRule
  <2>3. CASE t # {}
    <3> DEFINE u == t \ {Pick(t)}
    <3>1. u \in SUBSET s /\ u # s /\ u \subseteq t
      BY <1>4, <2>3, Picked
    <3>2. IsSum(d, Sums(d, t), t) /\ IsSum(d, Sums(d, u), u)
      BY <1>3, <1>4, <3>1
    <3>3. IsFiniteSet(u)
      BY <1>2, <3>1, FS_Subset
    <3>4. Sums(d, t)[u] = Sums(d, u)[u]
      BY <3>1, <3>2, <3>3, SumsAgree
    <3> QED BY <2>1, <2>3, <3>4 DEF SumRule
  <2> QED BY <2>2, <2>3
<1>5. ASSUME NEW t \in SUBSET s  PROVE g[t] = SumRule(d, g, t)
  <2>1. CASE t = {}
    BY <2>1 DEF SumRule
  <2>2. CASE t # {}
    <3>1. t \ {Pick(t)} \in SUBSET s /\ t \ {Pick(t)} # s
      BY <2>2, Picked
    <3>2. g[t \ {Pick(t)}] = Sums(d, t \ {Pick(t)})[t \ {Pick(t)}]
      BY <1>4, <3>1
    <3> QED BY <2>2, <3>2 DEF SumRule
  <2> QED BY <2>1, <2>2
<1>6. IsSum(d, g, s)
  <2>1. g = [t \in SUBSET s |-> g[t]]
    OBVIOUS
  <2> HIDE DEF g
  <2> QED BY <1>5, <2>1 DEF IsSum
<1>7. IsSum(d, Sums(d, s), s)
  <2> HIDE DEF g
  <2> QED BY <1>6 DEF Sums
<1> QED BY <1>2, <1>7

\* A sum is what its first element adds to the rest.
LEMMA SumStep ==
  ASSUME NEW d, NEW S, IsFiniteSet(S)
  PROVE  /\ S = {} => SumFunctionOnSet(d, S) = 0
         /\ S # {} => SumFunctionOnSet(d, S) = d[Pick(S)] + SumFunctionOnSet(d, S \ {Pick(S)})
<1>1. IsSum(d, Sums(d, S), S)
  BY SumExists
<1>2. SumFunctionOnSet(d, S) = SumRule(d, Sums(d, S), S)
  BY <1>1, SumApplies, SumIsSums
<1>3. ASSUME S # {}  PROVE Sums(d, S)[S \ {Pick(S)}] = SumFunctionOnSet(d, S \ {Pick(S)})
  <2> DEFINE T == S \ {Pick(S)}
  <2>1. IsFiniteSet(T) /\ T \subseteq S
    BY FS_Subset
  <2>2. IsSum(d, Sums(d, T), T)
    BY <2>1, SumExists
  <2> HIDE DEF T
  <2>3. Sums(d, S)[T] = Sums(d, T)[T]
    BY <1>1, <2>1, <2>2, SumsAgree
  <2>4. Sums(d, S)[T] = SumFunctionOnSet(d, T)
    BY <2>3, SumIsSums
  <2> QED BY <2>4 DEF T
<1> QED BY <1>2, <1>3 DEF SumRule

\* Raising what is added raises the sum.
LEMMA SumsCompare ==
  ASSUME NEW S, IsFiniteSet(S), NEW d, NEW e, \A i \in S : d[i] \in Int /\ e[i] \in Int /\ d[i] <= e[i]
  PROVE  /\ SumFunctionOnSet(d, S) \in Int /\ SumFunctionOnSet(e, S) \in Int
         /\ SumFunctionOnSet(d, S) <= SumFunctionOnSet(e, S)
<1> DEFINE Ordered(s) == /\ SumFunctionOnSet(d, s) \in Int /\ SumFunctionOnSet(e, s) \in Int
                         /\ SumFunctionOnSet(d, s) <= SumFunctionOnSet(e, s)
           Odd == {s \in SUBSET S : ~ Ordered(s)}
<1>0. S \in SUBSET S
  OBVIOUS
<1>1. SUFFICES ASSUME Odd # {}  PROVE FALSE
  BY <1>0, <1>1
<1>2. PICK s \in Odd : \A t \in SUBSET s : t # s => t \notin Odd
  <2>1. Odd \subseteq SUBSET S
    OBVIOUS
  <2> HIDE DEF Odd
  <2> QED
    BY <1>1, <2>1, SmallestSubset
<1>3. IsFiniteSet(s)
  BY <1>2, FS_Subset
<1>4. CASE s = {}
  <2>1. SumFunctionOnSet(d, s) = 0 /\ SumFunctionOnSet(e, s) = 0
    BY <1>3, <1>4, SumStep
  <2>2. Ordered(s)
    BY <2>1
  <2> QED BY <1>2, <2>2
<1>5. CASE s # {}
  <2> DEFINE t == s \ {Pick(s)}
  <2>1. Ordered(t) /\ Pick(s) \in S
    BY <1>2, <1>5, Picked
  <2>2. /\ SumFunctionOnSet(d, s) = d[Pick(s)] + SumFunctionOnSet(d, t)
        /\ SumFunctionOnSet(e, s) = e[Pick(s)] + SumFunctionOnSet(e, t)
    BY <1>3, <1>5, SumStep
  <2> HIDE DEF t
  <2>3. Ordered(s)
    BY <2>1, <2>2
  <2> QED BY <1>2, <2>3
<1> QED BY <1>4, <1>5

LEMMA SumTyped ==
  ASSUME NEW S, IsFiniteSet(S), NEW d, \A i \in S : d[i] \in Int
  PROVE  SumFunctionOnSet(d, S) \in Int
<1>1. \A i \in S : d[i] \in Int /\ d[i] \in Int /\ d[i] <= d[i]
  OBVIOUS
<1> QED BY <1>1, SumsCompare

\* Any element may be taken first.
LEMMA SumTakes ==
  ASSUME NEW S, IsFiniteSet(S), NEW d, \A i \in S : d[i] \in Int, NEW x \in S
  PROVE  SumFunctionOnSet(d, S) = d[x] + SumFunctionOnSet(d, S \ {x})
<1> DEFINE Takes(s, y) == SumFunctionOnSet(d, s) = d[y] + SumFunctionOnSet(d, s \ {y})
           Odd == {s \in SUBSET S : \E y \in s : ~ Takes(s, y)}
<1>0. S \in SUBSET S
  OBVIOUS
<1>1. SUFFICES ASSUME Odd # {}  PROVE FALSE
  BY <1>0, <1>1
<1>2. PICK s \in Odd : \A t \in SUBSET s : t # s => t \notin Odd
  <2>1. Odd \subseteq SUBSET S
    OBVIOUS
  <2> HIDE DEF Odd
  <2> QED
    BY <1>1, <2>1, SmallestSubset
<1>3. PICK y \in s : ~ Takes(s, y)
  BY <1>2
<1> DEFINE p == Pick(s)
<1>4. p \in s /\ s # {} /\ s \subseteq S /\ IsFiniteSet(s)
  BY <1>2, <1>3, Picked, FS_Subset
<1>5. Takes(s, p)
  BY <1>4, SumStep
<1>6. CASE y = p
  BY <1>3, <1>5, <1>6
<1>7. CASE y # p
  <2> HIDE DEF p
  <2>1. Takes(s \ {p}, y)
    <3>1. s \ {p} \in SUBSET s /\ s \ {p} # s /\ y \in s \ {p}
      BY <1>4, <1>7
    <3>2. s \ {p} \notin Odd
      BY <1>2, <3>1
    <3>3. s \ {p} \in SUBSET S
      BY <1>4
    <3> QED BY <3>1, <3>2, <3>3
  <2>2. Takes(s \ {y}, p)
    <3>1. s \ {y} \in SUBSET s /\ s \ {y} # s /\ p \in s \ {y}
      BY <1>4, <1>3, <1>7
    <3>2. s \ {y} \notin Odd
      BY <1>2, <3>1
    <3>3. s \ {y} \in SUBSET S
      BY <1>4
    <3> QED BY <3>1, <3>2, <3>3
  <2>3. (s \ {p}) \ {y} = (s \ {y}) \ {p}
    OBVIOUS
  <2> DEFINE rest == SumFunctionOnSet(d, (s \ {y}) \ {p})
  <2>4. rest \in Int
    <3>1. IsFiniteSet((s \ {y}) \ {p}) /\ (s \ {y}) \ {p} \subseteq S
      BY <1>4, FS_Subset
    <3> QED BY <3>1, SumTyped
  <2>5. d[y] \in Int /\ d[p] \in Int
    BY <1>4
  <2>6. SumFunctionOnSet(d, s) = d[p] + (d[y] + rest)
    BY <1>5, <2>1, <2>3
  <2>7. SumFunctionOnSet(d, s \ {y}) = d[p] + rest
    BY <2>2
  <2> HIDE DEF rest
  <2>8. Takes(s, y)
    BY <2>4, <2>5, <2>6, <2>7
  <2> QED BY <1>3, <2>8
<1> QED BY <1>6, <1>7

\* What is added by one more each, and is at most one either way, moves a sum
\* by at most their number.
LEMMA SumExtends ==
  ASSUME NEW S, IsFiniteSet(S), NEW P, P \subseteq S, NEW d, NEW e,
         \A i \in P : d[i] \in Int /\ e[i] = d[i],
         \A i \in S \ P : e[i] \in Int /\ -1 <= e[i] /\ e[i] <= 1
  PROVE  /\ SumFunctionOnSet(d, P) \in Int /\ SumFunctionOnSet(e, S) \in Int
         /\ SumFunctionOnSet(d, P) - Cardinality(S \ P) <= SumFunctionOnSet(e, S)
         /\ SumFunctionOnSet(e, S) <= SumFunctionOnSet(d, P) + Cardinality(S \ P)
<1> DEFINE D(s) == SumFunctionOnSet(d, s \cap P)
           E(s) == SumFunctionOnSet(e, s)
           N(s) == Cardinality(s \ P)
           Near(s) == D(s) - N(s) <= E(s) /\ E(s) <= D(s) + N(s)
           Odd == {s \in SUBSET S : ~ Near(s)}
<1>0. S \in SUBSET S /\ S \cap P = P
  OBVIOUS
<1>t. ASSUME NEW s \in SUBSET S
      PROVE  /\ IsFiniteSet(s) /\ IsFiniteSet(s \cap P) /\ IsFiniteSet(s \ P)
             /\ D(s) \in Int /\ E(s) \in Int /\ N(s) \in Nat
  <2>1. IsFiniteSet(s) /\ IsFiniteSet(s \cap P) /\ IsFiniteSet(s \ P)
    BY FS_Subset
  <2>2. \A i \in s : e[i] \in Int
    OBVIOUS
  <2> QED BY <2>1, <2>2, SumTyped, FS_CardinalityType
<1>1. SUFFICES ASSUME Odd # {}  PROVE FALSE
  BY <1>0, <1>1, <1>t
<1>2. PICK s \in Odd : \A t \in SUBSET s : t # s => t \notin Odd
  <2>1. Odd \subseteq SUBSET S
    OBVIOUS
  <2> HIDE DEF Odd
  <2> QED
    BY <1>1, <2>1, SmallestSubset
<1>3. s \in SUBSET S /\ ~ Near(s)
  BY <1>2
<1>4. CASE s = {}
  <2>1. s \cap P = {} /\ s \ P = {}
    BY <1>4
  <2>2. D(s) = 0 /\ E(s) = 0 /\ N(s) = 0
    BY <1>4, <2>1, SumStep, FS_EmptySet
  <2>3. Near(s)
    BY <2>2
  <2> QED BY <1>3, <2>3
<1>5. CASE s # {}
  <2> DEFINE p == Pick(s)
             t == s \ {p}
  <2>1. p \in s /\ t \in SUBSET s /\ t # s
    BY <1>5, Picked
  <2>2. t \in SUBSET S /\ Near(t)
    BY <1>2, <1>3, <2>1
  <2>3. E(s) = e[p] + E(t)
    BY <1>t, <1>3, <1>5, SumStep
  <2> HIDE DEF p
  <2>4. CASE p \in P
    <3>1. (s \cap P) \ {p} = t \cap P /\ t \ P = s \ P
      BY <2>4
    <3>2. D(s) = d[p] + D(t)
      <4>1. p \in s \cap P /\ IsFiniteSet(s \cap P) /\ \A i \in s \cap P : d[i] \in Int
        BY <1>t, <1>3, <2>1, <2>4
      <4> HIDE DEF t
      <4> QED BY <3>1, <4>1, SumTakes
    <3>3. N(s) = N(t) /\ e[p] = d[p] /\ d[p] \in Int
      BY <2>4, <3>1
    <3>4. D(t) \in Int /\ E(t) \in Int /\ N(t) \in Nat
      BY <1>t, <2>2
    <3> HIDE DEF D, E, N, t
    <3>5. Near(s)
      BY <2>2, <2>3, <3>2, <3>3, <3>4
    <3> QED BY <1>3, <3>5
  <2>5. CASE p \notin P
    <3>1. t \cap P = s \cap P /\ t \ P = (s \ P) \ {p} /\ p \in s \ P
      BY <2>1, <2>5
    <3>2. D(s) = D(t)
      BY <3>1
    <3>3. N(t) = N(s) - 1
      <4>1. IsFiniteSet(s \ P)
        BY <1>t, <1>3
      <4> DEFINE u == s \ P
      <4>2. IsFiniteSet(u) /\ p \in u
        BY <3>1, <4>1
      <4> HIDE DEF u
      <4>3. Cardinality(u \ {p}) = Cardinality(u) - 1
        BY <4>2, FS_RemoveElement
      <4> QED BY <3>1, <4>3 DEF u
    <3>4. e[p] \in Int /\ -1 <= e[p] /\ e[p] <= 1
      BY <1>3, <3>1
    <3>5. D(t) \in Int /\ E(t) \in Int /\ N(t) \in Nat /\ N(s) \in Nat
      BY <1>t, <1>3, <2>2
    <3> HIDE DEF D, E, N, t
    <3>6. Near(s)
      BY <2>2, <2>3, <3>2, <3>3, <3>4, <3>5
    <3> QED BY <1>3, <3>6
  <2> QED BY <2>4, <2>5
<1> QED BY <1>4, <1>5

LEMMA DivMonotone ==
  ASSUME NEW x \in Int, NEW y \in Int, x <= y, NEW n \in Nat \ {0}
  PROVE  x \div n \in Int /\ y \div n \in Int /\ x \div n <= y \div n
OBVIOUS

LEMMA TimesMonotone ==
  ASSUME NEW x \in Int, NEW y \in Int, x <= y, NEW n \in Nat
  PROVE  x * n \in Int /\ y * n \in Int /\ x * n <= y * n
OBVIOUS

-----------------------------------------------------------------------------
(* What may be shown of the lens.                                           *)

Agree(c, value) ==
  \E pair \in Adjacent : \A b \in pair : \A l \in Lenses :
    study.lens.signs[c][b][l] = (IF value THEN "positive" ELSE "negative")
Corroborated ==
  /\ study.lens.released /\ Associates(study.pairs, study.lens.change)
  /\ \A l \in Lenses : TauSign(study.pairs, study.lens.change, l) > 0
Shown(v) ==
  \A h \in DOMAIN Required : \A c \in Required[h] \cap LensCriteria : v[h].described[c] # Unknown =>
    Corroborated /\ Agree(c, v[h].described[c])

\* What was computed so far is of this study, and what was written says no more.
AInv ==
  /\ \A c \in LensCriteria \cap DOMAIN criteria : criteria[c] = LensValue(c)
  /\ association # Nothing => association = AssociationOf /\ LensCriteria \subseteq DOMAIN criteria
  /\ verdicts # Nothing => Shown(verdicts)
  /\ summary # Nothing => Shown(summary.verdicts)
  /\ reported # Nothing => Shown(reported)

LEMMA LensValueAgrees ==
  ASSUME NEW c, LensValue(c) # Unknown
  PROVE  Agree(c, LensValue(c))
<1>1. LensValue(c) = SignalValue(study.lens.signs[c])
  BY DEF LensValue
<1> DEFINE signs == study.lens.signs[c]
<1>2. ASSUME NEW b, NEW s, s # "inconclusive", BandState(signs, b) = s
      PROVE  \A l \in Lenses : signs[b][l] = s
  BY <1>2 DEF BandState, Lenses
<1>3. CASE \E pair \in Adjacent : \A b \in pair : BandState(signs, b) = "positive"
  <2>1. LensValue(c) = TRUE
    BY <1>1, <1>3 DEF SignalValue
  <2> HIDE DEF signs
  <2>2. \E pair \in Adjacent : \A b \in pair : \A l \in Lenses : signs[b][l] = "positive"
    BY <1>3, <1>2
  <2> QED BY <2>1, <2>2 DEF Agree, signs
<1>4. CASE ~\E pair \in Adjacent : \A b \in pair : BandState(signs, b) = "positive"
  <2>1. LensValue(c) = FALSE /\ \E pair \in Adjacent : \A b \in pair : BandState(signs, b) = "negative"
    BY <1>1, <1>4 DEF SignalValue
  <2> HIDE DEF signs
  <2>2. \E pair \in Adjacent : \A b \in pair : \A l \in Lenses : signs[b][l] = "negative"
    BY <2>1, <1>2
  <2> QED BY <2>1, <2>2 DEF Agree, signs
<1> QED BY <1>3, <1>4

LEMMA GateCorroborates ==
  ASSUME GatePasses(AssociationOf)
  PROVE  Corroborated
<1>1. AssociationOf.status = "available" /\ \A l \in Lenses : AssociationOf.tau[l] > 0
  BY DEF GatePasses
<1>2. study.lens.released
  BY <1>1 DEF AssociationOf
<1>3. AssociationOf = Association(study.pairs, study.lens.change)
  BY <1>2 DEF AssociationOf
<1>4. Associates(study.pairs, study.lens.change)
  BY <1>1, <1>3 DEF Association
<1>5. AssociationOf.tau = [ l \in Lenses |-> TauSign(study.pairs, study.lens.change, l) ]
  BY <1>3, <1>4 DEF Association
<1> QED BY <1>1, <1>2, <1>4, <1>5 DEF Corroborated

LEMMA VerdictsShow ==
  ASSUME AInv, association # Nothing
  PROVE  Shown([ h \in DOMAIN Required |-> VerdictOf(h) ])
<1> SUFFICES ASSUME NEW h \in DOMAIN Required, NEW c \in Required[h] \cap LensCriteria,
                    VerdictOf(h).described[c] # Unknown
             PROVE  Corroborated /\ Agree(c, VerdictOf(h).described[c])
  BY DEF Shown
<1>1. VerdictOf(h).described[c] = Descriptive(c)
  BY DEF VerdictOf
<1>2. Descriptive(c) = Gated(c)
  BY DEF Descriptive, LensCriteria
<1>3. GatePasses(association) /\ Gated(c) = criteria[c]
  BY <1>1, <1>2 DEF Gated
<1>4. association = AssociationOf /\ criteria[c] = LensValue(c)
  BY DEF AInv
<1> QED BY <1>1, <1>2, <1>3, <1>4, GateCorroborates, LensValueAgrees

LEMMA CriteriaStay ==
  ASSUME NEW found, criteria' = WithCriteria(found)
  PROVE  /\ DOMAIN criteria' = DOMAIN criteria \cup DOMAIN found
         /\ \A c \in DOMAIN criteria : criteria'[c] = criteria[c]
         /\ \A c \in DOMAIN found \ DOMAIN criteria : criteria'[c] = found[c]
BY DEF WithCriteria

LEMMA AInvStep == AInv /\ [Next]_vars => AInv'
<1> SUFFICES ASSUME AInv, [Next]_vars PROVE AInv'
  OBVIOUS
<1>1. study' = study
  BY DEF Next, vars, EstimateEffects, AssessBehavior, AssessLens, Associate, Adjudicate, WriteSummary, Report
<1>2. \A c : LensValue(c)' = LensValue(c)
  BY <1>1 DEF LensValue
<1>3. AssociationOf' = AssociationOf
  BY <1>1 DEF AssociationOf
<1>4. \A v : Shown(v)' <=> Shown(v)
  BY <1>1 DEF Shown, Corroborated, Agree
<1>5. CASE EstimateEffects
  BY <1>2, <1>3, <1>4, <1>5 DEF AInv, EstimateEffects
<1>6. CASE AssessBehavior
  <2> DEFINE assessed == CHOOSE x \in Behavioral : x \notin DOMAIN criteria
  <2>1. PICK value : criteria' = WithCriteria([ x \in {assessed} |-> value ])
    BY <1>6 DEF AssessBehavior
  <2>2. assessed \in Behavioral
    BY <1>6 DEF AssessBehavior
  <2>3. assessed \notin LensCriteria
    BY <2>2 DEF Behavioral, LensCriteria
  <2> HIDE DEF assessed
  <2>4. /\ DOMAIN criteria' = DOMAIN criteria \cup {assessed}
        /\ \A c \in DOMAIN criteria : criteria'[c] = criteria[c]
    BY <2>1, CriteriaStay
  <2> QED BY <1>2, <1>3, <1>4, <1>6, <2>3, <2>4 DEF AInv, AssessBehavior
<1>7. CASE AssessLens
  <2> DEFINE found == [ c \in LensCriteria |-> LensValue(c) ]
  <2>1. criteria' = WithCriteria(found)
    BY <1>7 DEF AssessLens
  <2>2. DOMAIN found = LensCriteria /\ \A c \in LensCriteria : found[c] = LensValue(c)
    OBVIOUS
  <2> HIDE DEF found
  <2>3. /\ DOMAIN criteria' = DOMAIN criteria \cup LensCriteria
        /\ \A c \in DOMAIN criteria : criteria'[c] = criteria[c]
        /\ \A c \in LensCriteria \ DOMAIN criteria : criteria'[c] = LensValue(c)
    BY <2>1, <2>2, CriteriaStay
  <2> QED BY <1>2, <1>3, <1>4, <1>7, <2>3 DEF AInv, AssessLens
<1>8. CASE Associate
  BY <1>2, <1>3, <1>4, <1>8 DEF AInv, Associate
<1>9. CASE Adjudicate
  <2>1. Shown(verdicts')
    BY <1>9, VerdictsShow DEF Adjudicate
  <2> QED BY <1>2, <1>3, <1>4, <1>9, <2>1 DEF AInv, Adjudicate
<1>10. CASE WriteSummary
  <2>1. Shown(summary'.verdicts)
    BY <1>10 DEF WriteSummary, AInv
  <2> QED BY <1>2, <1>3, <1>4, <1>10, <2>1 DEF AInv, WriteSummary
<1>11. CASE Report
  <2>1. Shown(reported')
    BY <1>11 DEF Report, AInv, Shown
  <2> QED BY <1>2, <1>3, <1>4, <1>11, <2>1 DEF AInv, Report
<1>12. CASE UNCHANGED vars
  BY <1>2, <1>3, <1>4, <1>12 DEF AInv, vars
<1> QED BY <1>5, <1>6, <1>7, <1>8, <1>9, <1>10, <1>11, <1>12 DEF Next

\* For any study, a lens criterion is shown only of a lens that was read, whose
\* bands agree and whose association with the effect of the sentences is
\* positive under both lenses (_gate_lens_verdict_criteria).
THEOREM LensIsCorroborated == Spec => []LensNeedsAssociation
<1>1. Init => AInv
  BY DEF Init, AInv, Nothing
<1>2. AInv => LensNeedsAssociation
  BY DEF AInv, Shown, Corroborated, Agree, LensNeedsAssociation
<1> QED BY <1>1, <1>2, AInvStep, PTL DEF Spec

-----------------------------------------------------------------------------
(* Filling in what was not measured.                                        *)

Are(pairs) == DOMAIN pairs = Anchors /\ \A a \in Anchors : pairs[a] \in Seq(PairRecord)

LEMMA FillingKeeps ==
  ASSUME NEW pairs, Are(pairs), NEW ones, NEW a \in Anchors, NEW i \in DOMAIN pairs[a]
  PROVE  LET x == CompletedPairs(pairs, ones)[a][i]
             y == pairs[a][i]
         IN /\ x.replaced = y.replaced /\ x.retained = y.retained
            /\ x.retain \in {0, 1} /\ (y.retain # Unknown => x.retain = y.retain)
            /\ x.resample \in {0, 1} /\ (y.resample # Unknown => x.resample = y.resample)
<1> DEFINE y == pairs[a][i]
           was(v, arm) == IF v # Unknown THEN v ELSE IF <<a, i, arm>> \in ones THEN 1 ELSE 0
<1>1. y \in PairRecord
  BY DEF Are
<1>2. CompletedPairs(pairs, ones)[a][i] =
        [y EXCEPT !.retain = was(y.retain, "retain"), !.resample = was(y.resample, "resample")]
  BY DEF CompletedPairs
<1>3. was(y.retain, "retain") \in {0, 1} /\ was(y.resample, "resample") \in {0, 1}
  BY <1>1 DEF PairRecord
<1> QED
  BY <1>1, <1>2, <1>3 DEF PairRecord

LEMMA FillingDomains ==
  ASSUME NEW pairs, Are(pairs), NEW ones, NEW a \in Anchors
  PROVE  /\ DOMAIN CompletedPairs(pairs, ones) = Anchors
         /\ DOMAIN CompletedPairs(pairs, ones)[a] = DOMAIN pairs[a]
         /\ EligiblePairs(CompletedPairs(pairs, ones), a) = EligiblePairs(pairs, a)
<1>1. /\ DOMAIN CompletedPairs(pairs, ones) = Anchors
      /\ DOMAIN CompletedPairs(pairs, ones)[a] = DOMAIN pairs[a]
  BY DEF CompletedPairs
<1> QED BY <1>1, FillingKeeps DEF EligiblePairs

LEMMA FillingClusters ==
  ASSUME NEW pairs, Are(pairs), NEW ones, NEW class
  PROVE  Clusters(CompletedPairs(pairs, ones), class) = Clusters(pairs, class)
BY FillingDomains DEF Clusters, AnchorsOf

\* A cluster's mean lies between the means with all that is missing zero and one.
LEMMA MeansBracket ==
  ASSUME NEW pairs, Are(pairs), NEW ones, NEW a \in Anchors, EligiblePairs(pairs, a) # {},
         NEW arm \in Arms, NEW v
  PROVE  LET x == MeanFilled(CompletedPairs(pairs, ones), a, arm, v)
             low == MeanFilled(pairs, a, arm, 0)
             high == MeanFilled(pairs, a, arm, 1)
         IN low \in Int /\ high \in Int /\ x \in Int /\ low <= x /\ x <= high
<1> DEFINE E == EligiblePairs(pairs, a)
           d == Filled(Outcomes(pairs, a, arm), 0)
           e == Filled(Outcomes(pairs, a, arm), 1)
           f == CompletedPairs(pairs, ones)
           g == Filled(Outcomes(f, a, arm), v)
<1>1. IsFiniteSet(E) /\ E \subseteq DOMAIN pairs[a]
  <2>1. pairs[a] \in Seq(PairRecord)
    BY DEF Are
  <2>2. PICK n \in Nat : DOMAIN pairs[a] = 1..n
    BY <2>1
  <2>3. IsFiniteSet(1..n)
    BY FS_Interval
  <2> QED BY <2>2, <2>3, FS_Subset DEF EligiblePairs
<1>2. DOMAIN d = E /\ DOMAIN e = E /\ DOMAIN g = E
  BY FillingDomains DEF Filled, Outcomes
<1>3. ASSUME NEW i \in E
      PROVE  d[i] \in Int /\ e[i] \in Int /\ g[i] \in Int /\ d[i] <= g[i] /\ g[i] <= e[i]
  <2>1. i \in DOMAIN pairs[a] /\ i \in EligiblePairs(f, a)
    BY <1>1, FillingDomains
  <2>2. pairs[a][i] \in PairRecord
    BY <2>1 DEF Are
  <2> DEFINE y == pairs[a][i][arm]
             x == f[a][i][arm]
  <2>3. x \in {0, 1} /\ (y # Unknown => x = y)
    BY <2>1, FillingKeeps DEF Arms
  <2>4. d[i] = IF y = Unknown THEN 0 ELSE y
    BY DEF Filled, Outcomes
  <2>5. e[i] = IF y = Unknown THEN 1 ELSE y
    BY DEF Filled, Outcomes
  <2>6. g[i] = IF x = Unknown THEN v ELSE x
    BY <2>1 DEF Filled, Outcomes
  <2>7. x # Unknown
    BY <2>3, UnknownAssumption
  <2> HIDE DEF x, y, d, e, g
  <2> QED BY <2>3, <2>4, <2>5, <2>6, <2>7
<1>4. Cardinality(E) \in Nat \ {0}
  BY <1>1, FS_CardinalityType, FS_EmptySet
<1> HIDE DEF E, d, e, f, g
<1>5. /\ SumFunctionOnSet(d, E) <= SumFunctionOnSet(g, E) /\ SumFunctionOnSet(g, E) <= SumFunctionOnSet(e, E)
      /\ SumFunctionOnSet(d, E) \in Int /\ SumFunctionOnSet(e, E) \in Int /\ SumFunctionOnSet(g, E) \in Int
  BY <1>1, <1>3, SumsCompare
<1>6. Whole \in Nat
  BY EffectAssumption
<1> DEFINE M(o) == (SumFunctionOnSet(o, E) * Whole) \div Cardinality(E)
<1>7. M(d) \in Int /\ M(e) \in Int /\ M(g) \in Int /\ M(d) <= M(g) /\ M(g) <= M(e)
  BY <1>4, <1>5, <1>6, TimesMonotone, DivMonotone
<1>8. /\ MeanFilled(pairs, a, arm, 0) = M(d) /\ MeanFilled(pairs, a, arm, 1) = M(e)
      /\ MeanFilled(f, a, arm, v) = M(g)
  BY <1>2 DEF MeanFilled, MeanOfAll, Mean, d, e, f, g
<1> HIDE DEF M
<1> QED BY <1>7, <1>8 DEF f

\* So do the sums over the clusters, which is why a class is concluded on only
\* if both say so.
LEMMA SumsBracket ==
  ASSUME NEW pairs, Are(pairs), NEW ones, NEW class
  PROVE  LET f == CompletedPairs(pairs, ones)
         IN /\ WorstCase(pairs, class) \in Int /\ WorstCase(f, class) \in Int
            /\ BestCase(pairs, class) \in Int /\ BestCase(f, class) \in Int
            /\ WorstCase(pairs, class) <= WorstCase(f, class)
            /\ BestCase(f, class) <= BestCase(pairs, class)
<1> DEFINE f == CompletedPairs(pairs, ones)
           S == Clusters(pairs, class)
           M(x, a, arm, v) == MeanFilled(x, a, arm, v)
           worst(x) == [ a \in S |-> M(x, a, "retain", 0) - M(x, a, "resample", 1) ]
           best(x) == [ a \in S |-> M(x, a, "retain", 1) - M(x, a, "resample", 0) ]
<1>1. Clusters(f, class) = S
  BY FillingClusters
<1>2. IsFiniteSet(S) /\ S \subseteq Anchors /\ \A a \in S : EligiblePairs(pairs, a) # {}
  <2>1. S \subseteq Anchors /\ \A a \in S : EligiblePairs(pairs, a) # {}
    BY DEF Clusters, AnchorsOf
  <2> QED BY <2>1, UnknownAssumption, FS_Subset
<1>3. /\ WorstCase(pairs, class) = SumFunctionOnSet(worst(pairs), S)
      /\ WorstCase(f, class) = SumFunctionOnSet(worst(f), S)
      /\ BestCase(pairs, class) = SumFunctionOnSet(best(pairs), S)
      /\ BestCase(f, class) = SumFunctionOnSet(best(f), S)
  BY <1>1 DEF WorstCase, BestCase, SumFunction
<1>4. ASSUME NEW a \in S
      PROVE  /\ worst(pairs)[a] \in Int /\ worst(f)[a] \in Int /\ worst(pairs)[a] <= worst(f)[a]
             /\ best(pairs)[a] \in Int /\ best(f)[a] \in Int /\ best(f)[a] <= best(pairs)[a]
  <2>1. ASSUME NEW arm \in Arms, NEW v
        PROVE  /\ M(pairs, a, arm, 0) \in Int /\ M(pairs, a, arm, 1) \in Int /\ M(f, a, arm, v) \in Int
               /\ M(pairs, a, arm, 0) <= M(f, a, arm, v) /\ M(f, a, arm, v) <= M(pairs, a, arm, 1)
    BY <1>2, MeansBracket
  <2> HIDE DEF M, f
  <2>2. "retain" \in Arms /\ "resample" \in Arms
    BY DEF Arms
  <2>3. /\ worst(pairs)[a] = M(pairs, a, "retain", 0) - M(pairs, a, "resample", 1)
        /\ worst(f)[a] = M(f, a, "retain", 0) - M(f, a, "resample", 1)
        /\ best(pairs)[a] = M(pairs, a, "retain", 1) - M(pairs, a, "resample", 0)
        /\ best(f)[a] = M(f, a, "retain", 1) - M(f, a, "resample", 0)
    OBVIOUS
  <2> HIDE DEF worst, best
  <2> QED BY <2>1, <2>2, <2>3
<1> HIDE DEF worst, best, S, f
<1>5. /\ SumFunctionOnSet(worst(pairs), S) <= SumFunctionOnSet(worst(f), S)
      /\ SumFunctionOnSet(worst(pairs), S) \in Int /\ SumFunctionOnSet(worst(f), S) \in Int
  BY <1>2, <1>4, SumsCompare
<1>6. /\ SumFunctionOnSet(best(f), S) <= SumFunctionOnSet(best(pairs), S)
      /\ SumFunctionOnSet(best(pairs), S) \in Int /\ SumFunctionOnSet(best(f), S) \in Int
  BY <1>2, <1>4, SumsCompare
<1> QED BY <1>3, <1>5, <1>6 DEF f

\* A narrower pair of bounds meets what a wider one does.
LEMMA MeetsKeeps ==
  ASSUME NEW target \in {"positive", "negative", "outside", "equivalent"}, NEW rope \in Int,
         NEW low \in Int, NEW high \in Int, NEW l \in Int, NEW h \in Int,
         low <= l, h <= high, Meets(target, low, high, rope)
  PROVE  Meets(target, l, h, rope)
<1>1. CASE target = "positive"
  BY <1>1 DEF Meets
<1>2. CASE target = "negative"
  BY <1>2 DEF Meets
<1>3. CASE target = "outside"
  BY <1>3 DEF Meets
<1>4. CASE target = "equivalent"
  BY <1>4 DEF Meets
<1> QED BY <1>1, <1>2, <1>3, <1>4

LEMMA ConclusionIsBounded ==
  ASSUME NEW pairs, NEW class, NEW low, NEW high,
         Conclusion(pairs, class, low, high) \notin {Unknown, "inconclusive"}
  PROVE  LET v == Conclusion(pairs, class, low, high)
         IN /\ v \in {"positive", "negative", "practically_null"}
            /\ Meets(TargetOf(v), WorstCase(pairs, class), BestCase(pairs, class),
                     Rope * Cardinality(Clusters(pairs, class)))
            /\ \A a \in AnchorsOf(class) : Replacements(pairs, a) >= MinimumDivergent
<1> DEFINE v == Conclusion(pairs, class, low, high)
           c == CompleteConclusion(pairs, class, low, high)
<1>1. v = c /\ BoundsPass(pairs, class, c) /\ Covered(pairs, class)
  BY DEF Conclusion
<1>2. c \in {"positive", "negative", "practically_null", "inconclusive"}
  <2>1. Classify(low, high, Rope) \in {"positive", "negative", "practically_null", "inconclusive"}
    BY DEF Classify
  <2> QED BY <2>1 DEF CompleteConclusion
<1> HIDE DEF c, v
<1>3. v \in {"positive", "negative", "practically_null"}
  BY <1>1, <1>2 DEF v
<1>4. PointBoundState(TargetOf(v), WorstCase(pairs, class), BestCase(pairs, class),
                      Rope * Cardinality(Clusters(pairs, class))) = TRUE
  BY <1>1, <1>3 DEF BoundsPass
<1>5. Meets(TargetOf(v), WorstCase(pairs, class), BestCase(pairs, class), Rope * Cardinality(Clusters(pairs, class)))
  BY <1>4, UnknownAssumption, Zenon DEF PointBoundState
<1> QED BY <1>1, <1>3, <1>5 DEF Covered, v

LEMMA ConclusionIsRobust ==
  ASSUME NEW pairs, Are(pairs), NEW class, NEW low, NEW high, NEW ones,
         Conclusion(pairs, class, low, high) \notin {Unknown, "inconclusive"}
  PROVE  LET f == CompletedPairs(pairs, ones)
         IN Meets(TargetOf(Conclusion(pairs, class, low, high)), WorstCase(f, class), BestCase(f, class),
                  Rope * Cardinality(Clusters(f, class)))
<1> DEFINE v == Conclusion(pairs, class, low, high)
           f == CompletedPairs(pairs, ones)
           rope == Rope * Cardinality(Clusters(pairs, class))
<1>1. /\ v \in {"positive", "negative", "practically_null"}
      /\ Meets(TargetOf(v), WorstCase(pairs, class), BestCase(pairs, class), rope)
  BY ConclusionIsBounded
<1>2. rope \in Int
  <2>1. Clusters(pairs, class) \subseteq Anchors
    BY DEF Clusters, AnchorsOf
  <2>2. Cardinality(Clusters(pairs, class)) \in Nat
    BY <2>1, UnknownAssumption, FS_Subset, FS_CardinalityType
  <2> QED BY <2>2, EffectAssumption
<1>3. TargetOf(v) \in {"positive", "negative", "outside", "equivalent"}
  BY <1>1 DEF TargetOf
<1>4. Clusters(f, class) = Clusters(pairs, class)
  BY FillingClusters
<1>5. /\ WorstCase(pairs, class) \in Int /\ WorstCase(f, class) \in Int
      /\ BestCase(pairs, class) \in Int /\ BestCase(f, class) \in Int
      /\ WorstCase(pairs, class) <= WorstCase(f, class)
      /\ BestCase(f, class) <= BestCase(pairs, class)
  BY SumsBracket
<1>6. Rope * Cardinality(Clusters(f, class)) = rope
  BY <1>4
<1> HIDE DEF v, rope, f
<1>7. Meets(TargetOf(v), WorstCase(f, class), BestCase(f, class), rope)
  BY <1>1, <1>2, <1>3, <1>5, MeetsKeeps
<1> QED BY <1>6, <1>7 DEF v, f

LEMMA EffectsStep ==
  ASSUME study \in Studies, [Next]_vars
  PROVE  /\ study' = study
         /\ effects' # effects => \A c \in Classes : effects'[c] \notin {Unknown, "inconclusive"} =>
               /\ \A a \in AnchorsOf(c) : Replacements(study.pairs, a) >= MinimumDivergent
               /\ \A f \in FilledPairs(AnchorsOf(c)) :
                    Meets(TargetOf(effects'[c]), WorstCase(f, c), BestCase(f, c), Rope * Cardinality(Clusters(f, c)))
<1>1. study' = study
  BY DEF Next, vars, EstimateEffects, AssessBehavior, AssessLens, Associate, Adjudicate, WriteSummary, Report
<1>2. CASE effects' = effects
  BY <1>1, <1>2
<1>3. CASE effects' # effects
  <2>1. EstimateEffects
    BY <1>3 DEF Next, vars, AssessBehavior, AssessLens, Associate, Adjudicate, WriteSummary, Report
  <2>2. Are(study.pairs)
    BY <2>1, StudyAssumption DEF EstimateEffects, ResamplingInventory, Are
  <2>3. \A c \in Classes : effects'[c] \in Estimates(c)
    BY <2>1 DEF EstimateEffects, Classes
  <2>4. ASSUME NEW c \in Classes, effects'[c] \notin {Unknown, "inconclusive"}
        PROVE  /\ \A a \in AnchorsOf(c) : Replacements(study.pairs, a) >= MinimumDivergent
               /\ \A f \in FilledPairs(AnchorsOf(c)) :
                    Meets(TargetOf(effects'[c]), WorstCase(f, c), BestCase(f, c), Rope * Cardinality(Clusters(f, c)))
    <3>1. PICK i \in Interval : effects'[c] = Conclusion(study.pairs, c, i[1], i[2])
      BY <2>3, Zenon DEF Estimates
    <3>2. \A a \in AnchorsOf(c) : Replacements(study.pairs, a) >= MinimumDivergent
      BY <2>4, <3>1, ConclusionIsBounded
    <3>3. ASSUME NEW f \in FilledPairs(AnchorsOf(c))
          PROVE  Meets(TargetOf(effects'[c]), WorstCase(f, c), BestCase(f, c), Rope * Cardinality(Clusters(f, c)))
      <4>1. PICK ones : f = CompletedPairs(study.pairs, ones)
        BY DEF FilledPairs
      <4> QED BY <2>2, <2>4, <3>1, <4>1, ConclusionIsRobust
    <3> QED BY <3>2, <3>3
  <2> QED BY <1>1, <2>4
<1> QED BY <1>2, <1>3

\* Whatever the missing outcomes of a class had been, it would have been
\* concluded on the same way, and each of its anchors had replacements enough,
\* for any anchors, pairs and intervals (sentence_effect_table,
\* apply_divergent_coverage_gate).
THEOREM ConclusionIsSafe == Spec => ConclusionSurvives
<1>1. Init => study \in Studies
  BY DEF Init
<1>2. study \in Studies /\ [Next]_vars => (study \in Studies)'
  BY EffectsStep
<1>3. Spec => [](study \in Studies)
  BY <1>1, <1>2, PTL DEF Spec
<1>4. study \in Studies /\ [Next]_vars =>
        [ \A c \in Classes : effects'[c] \notin {Unknown, "inconclusive"} =>
            /\ \A a \in AnchorsOf(c) : Replacements(study.pairs, a) >= MinimumDivergent
            /\ \A f \in FilledPairs(AnchorsOf(c)) :
                 Meets(TargetOf(effects'[c]), WorstCase(f, c), BestCase(f, c), Rope * Cardinality(Clusters(f, c)))
        ]_effects
  BY EffectsStep
<1> QED BY <1>3, <1>4, PTL DEF Spec, ConclusionSurvives

-----------------------------------------------------------------------------
(* Bounds of criteria.  A bound of what was measured contains that of every  *)
(* completion, and a completed measurement leaves no width.                 *)

Bounds(b) == b.low \in Int /\ b.high \in Int /\ b.low <= b.high
Within(a, b) == Bounds(a) /\ Bounds(b) /\ b.low <= a.low /\ a.high <= b.high

LEMMA MaxOfTwo ==
  ASSUME NEW x \in Int, NEW y \in Int
  PROVE  Max({x, y}) = IF x > y THEN x ELSE y
<1> DEFINE m == IF x > y THEN x ELSE y
           Tops(z) == z \in {x, y} /\ \A t \in {x, y} : z >= t
<1>1. Tops(m) /\ \A z : Tops(z) => z = m
  OBVIOUS
<1>2. Max({x, y}) = CHOOSE z \in {x, y} : \A t \in {x, y} : z >= t
  BY DEF Max
<1>3. Tops(CHOOSE z : Tops(z))
  <2> HIDE DEF Tops, m
  <2> QED BY <1>1, Zenon
<1>4. Max({x, y}) = CHOOSE z : Tops(z)
  BY <1>2
<1> QED BY <1>1, <1>3, <1>4

LEMMA MaxOfOne ==
  ASSUME NEW x \in Int
  PROVE  Max({x}) = x
<1>1. {x} = {x, x}
  OBVIOUS
<1>2. Max({x, x}) = x
  BY MaxOfTwo
<1> QED BY <1>1, <1>2

LEMMA DifferenceWithin ==
  ASSUME NEW a, NEW b, NEW c, NEW d, Within(c, a), Within(d, b)
  PROVE  Within(Difference2(c, d), Difference2(a, b))
BY DEF Within, Bounds, Difference2

LEMMA HalvedWithin ==
  ASSUME NEW a, NEW b, NEW c, NEW d, Within(c, a), Within(d, b)
  PROVE  Within(Halved(c, d), Halved(a, b))
<1>1. /\ a.low + b.low <= c.low + d.low /\ c.low + d.low <= c.high + d.high
      /\ c.high + d.high <= a.high + b.high
      /\ a.low + b.low \in Int /\ c.low + d.low \in Int /\ c.high + d.high \in Int /\ a.high + b.high \in Int
  BY DEF Within, Bounds
<1> QED BY <1>1, DivMonotone DEF Within, Bounds, Halved

LEMMA AbsoluteWithin ==
  ASSUME NEW a, NEW b, NEW c, NEW d, Within(c, a), Within(d, b)
  PROVE  Within(AbsoluteDifference(c, d), AbsoluteDifference(a, b))
<1> DEFINE Low(x, y) == IF x.high < y.low THEN y.low - x.high ELSE IF y.high < x.low THEN x.low - y.high ELSE 0
           High(x, y) == IF Gap(x.low, y.high) > Gap(x.high, y.low) THEN Gap(x.low, y.high) ELSE Gap(x.high, y.low)
<1>1. ASSUME NEW x, NEW y, Bounds(x), Bounds(y)
      PROVE  AbsoluteDifference(x, y).low = Low(x, y) /\ AbsoluteDifference(x, y).high = High(x, y)
  <2>1. Gap(x.low, y.high) \in Int /\ Gap(x.high, y.low) \in Int
    BY <1>1 DEF Gap, Bounds
  <2>2. AbsoluteDifference(x, y).high = High(x, y)
    BY <2>1, MaxOfTwo DEF AbsoluteDifference
  <2>3. AbsoluteDifference(x, y).low = Low(x, y)
    <3>1. CASE x.high < y.low
      BY <1>1, <3>1 DEF AbsoluteDifference, Bounds
    <3>2. CASE y.high < x.low
      BY <1>1, <3>2 DEF AbsoluteDifference, Bounds
    <3>3. CASE ~ (x.high < y.low) /\ ~ (y.high < x.low)
      BY <1>1, <3>3 DEF AbsoluteDifference, Bounds
    <3> QED BY <3>1, <3>2, <3>3
  <2> QED BY <2>2, <2>3
<1>2. /\ Low(a, b) <= Low(c, d) /\ Low(c, d) <= High(c, d) /\ High(c, d) <= High(a, b)
      /\ Low(a, b) \in Int /\ Low(c, d) \in Int /\ High(c, d) \in Int /\ High(a, b) \in Int
      /\ Low(a, b) <= High(a, b)
  BY DEF Within, Bounds, Gap
<1> HIDE DEF Low, High
<1> QED BY <1>1, <1>2 DEF Within, Bounds

-----------------------------------------------------------------------------
(* Rows completed.                                                          *)

LEMMA RowsFinite ==
  ASSUME NEW S, NEW rows \in Seq(S)
  PROVE  Len(rows) \in Nat /\ DOMAIN rows = 1..Len(rows) /\ IsFiniteSet(DOMAIN rows)
<1>1. Len(rows) \in Nat /\ DOMAIN rows = 1..Len(rows)
  OBVIOUS
<1> QED BY <1>1, FS_Interval

LEMMA CountsCompare ==
  ASSUME NEW S, IsFiniteSet(S), NEW T, T \subseteq S
  PROVE  Cardinality(T) \in Nat /\ Cardinality(S) \in Nat /\ Cardinality(T) <= Cardinality(S) /\ IsFiniteSet(T)
BY FS_Subset, FS_CardinalityType

LEMMA CountsAdd ==
  ASSUME NEW S, IsFiniteSet(S), NEW T, IsFiniteSet(T), S \cap T = {}
  PROVE  IsFiniteSet(S \cup T) /\ Cardinality(S \cup T) = Cardinality(S) + Cardinality(T)
<1>1. IsFiniteSet(S \cup T) /\ Cardinality(S \cup T) = Cardinality(S) + Cardinality(T) - Cardinality(S \cap T)
  BY FS_Union
<1>2. Cardinality(S \cap T) = 0 /\ Cardinality(S) \in Nat /\ Cardinality(T) \in Nat
  BY FS_EmptySet, FS_CardinalityType
<1> QED BY <1>1, <1>2

\* What a row was measured as stays, and what it was not is one side or the other.
Completes(rows, done, stage) ==
  /\ rows \in Seq(RolloutRecord) /\ DOMAIN done = DOMAIN rows /\ Len(done) = Len(rows)
  /\ \A i \in DOMAIN rows : /\ done[i][stage] \in {"above", "below"}
                            /\ rows[i][stage] # Unknown => done[i][stage] = rows[i][stage]

LEMMA RatesWithin ==
  ASSUME NEW rows, NEW done, NEW stage, Completes(rows, done, stage), Len(rows) > 0
  PROVE  /\ Within(RateBound(done, stage), RateBound(rows, stage))
         /\ RateBound(done, stage).low = RateBound(done, stage).high
<1> DEFINE n == Len(rows)
           A == { i \in DOMAIN rows : rows[i][stage] = "above" }
           M == { i \in DOMAIN rows : rows[i][stage] = Unknown }
           B == { i \in DOMAIN done : done[i][stage] = "above" }
           N == { i \in DOMAIN done : done[i][stage] = Unknown }
<1>1. n \in Nat \ {0} /\ IsFiniteSet(DOMAIN rows) /\ DOMAIN done = DOMAIN rows /\ Len(done) = n
  BY RowsFinite DEF Completes
<1>2. A \subseteq B /\ B \subseteq A \cup M /\ N = {} /\ A \cap M = {}
  <2>1. A \subseteq B
    BY UnknownAssumption DEF Completes
  <2>2. B \subseteq A \cup M
    BY DEF Completes
  <2>3. N = {}
    BY UnknownAssumption DEF Completes
  <2>4. A \cap M = {}
    BY UnknownAssumption
  <2> QED BY <2>1, <2>2, <2>3, <2>4
<1>3. /\ Above(rows, stage) = Cardinality(A) /\ Missing(rows, stage) = Cardinality(M)
      /\ Above(done, stage) = Cardinality(B) /\ Missing(done, stage) = Cardinality(N)
  BY DEF Above, Missing, In
<1>4. A \subseteq DOMAIN rows /\ M \subseteq DOMAIN rows /\ B \subseteq DOMAIN rows
  BY <1>1
<1> HIDE DEF A, M, B, N, n
<1>5. /\ IsFiniteSet(A) /\ IsFiniteSet(M) /\ IsFiniteSet(B)
      /\ Cardinality(A) \in Nat /\ Cardinality(M) \in Nat /\ Cardinality(B) \in Nat
  BY <1>1, <1>4, CountsCompare
<1>6. Cardinality(A \cup M) = Cardinality(A) + Cardinality(M) /\ IsFiniteSet(A \cup M)
  BY <1>2, <1>5, CountsAdd
<1>7. /\ Cardinality(A) <= Cardinality(B) /\ Cardinality(B) <= Cardinality(A) + Cardinality(M)
      /\ Cardinality(N) = 0
  BY <1>2, <1>5, <1>6, CountsCompare, FS_EmptySet
<1> DEFINE a == Cardinality(A)
           m == Cardinality(M)
           b == Cardinality(B)
<1>8. /\ RateBound(rows, stage) = [low |-> (a * Whole) \div n, high |-> ((a + m) * Whole) \div n]
      /\ RateBound(done, stage) = [low |-> (b * Whole) \div n, high |-> (b * Whole) \div n]
  <2>1. b + 0 = b
    BY <1>5
  <2>2. Len(rows) = n /\ Len(done) = n
    BY <1>1 DEF n
  <2> QED BY <1>3, <1>7, <2>1, <2>2 DEF RateBound
<1>9. a \in Int /\ b \in Int /\ a + m \in Int /\ a <= b /\ b <= a + m
  BY <1>5, <1>7
<1> HIDE DEF a, b, m
<1>10. /\ a * Whole <= b * Whole /\ b * Whole <= (a + m) * Whole
       /\ a * Whole \in Int /\ b * Whole \in Int /\ (a + m) * Whole \in Int
  BY <1>9, EffectAssumption, TimesMonotone
<1>11. /\ (a * Whole) \div n <= (b * Whole) \div n /\ (b * Whole) \div n <= ((a + m) * Whole) \div n
       /\ (a * Whole) \div n \in Int /\ (b * Whole) \div n \in Int /\ ((a + m) * Whole) \div n \in Int
  BY <1>1, <1>10, DivMonotone
<1> QED BY <1>8, <1>11 DEF Within, Bounds

Rolled(r) == /\ DOMAIN r = Cells
             /\ \A c \in Cells : r[c] \in Seq(RolloutRecord) /\ Len(r[c]) = RolloutCount

LEMMA CellsAreCells ==
  ASSUME NEW c \in Behavioral
  PROVE  CellsOf(c) \subseteq Cells /\ CellsOf(c) # {}
BY DEF CellsOf, Cells, Anchored, Coffee, Treatments, Directions

LEMMA ReadsAre ==
  ASSUME NEW c \in Behavioral
  PROVE  /\ c = "pooled_stopping_after_good_crossing_is_prevalent" =>
              Reads(c) = {"stop"} /\ CouldBe(c) = {"stopped", "went_on", "never"}
         /\ c # "pooled_stopping_after_good_crossing_is_prevalent" =>
              /\ Reads(c) \subseteq {"first", "final"} /\ "final" \in Reads(c)
              /\ CouldBe(c) = {"above", "below"}
         /\ c \in {"pooled_good_side_revision_is_positive", "final_direction_gap_exceeds_first_gap"} =>
              "first" \in Reads(c)
BY DEF Reads, CouldBe

LEMMA LongestIs ==
  ASSUME NEW c \in Behavioral, NEW r, Rolled(r)
  PROVE  Max({ Len(r[cell]) : cell \in CellsOf(c) }) = RolloutCount /\ RolloutCount \in Nat
<1>1. RolloutCount \in Nat
  <2>1. PICK cell \in CellsOf(c) : TRUE
    BY CellsAreCells
  <2>2. r[cell] \in Seq(RolloutRecord) /\ Len(r[cell]) = RolloutCount
    BY CellsAreCells DEF Rolled
  <2> QED BY <2>2
<1>2. { Len(r[cell]) : cell \in CellsOf(c) } = {RolloutCount}
  BY CellsAreCells DEF Rolled
<1> QED BY <1>1, <1>2, MaxOfOne

LEMMA CompletionStands ==
  ASSUME NEW c \in Behavioral, NEW r, Rolled(r), NEW q \in Completions(c, r)
  PROVE  /\ \A cell \in Cells : DOMAIN q[cell] = DOMAIN r[cell] /\ Len(q[cell]) = Len(r[cell])
         /\ \A cell \in CellsOf(c) : \A i \in DOMAIN r[cell], f \in Reads(c) :
              /\ r[cell][i][f] # Unknown => q[cell][i][f] = r[cell][i][f]
              /\ r[cell][i][f] = Unknown => q[cell][i][f] \in CouldBe(c)
<1>1. PICK g \in [ Unmeasured(c, r) -> CouldBe(c) ] : q = Completed(r, g)
  BY DEF Completions
<1>2. ASSUME NEW cell \in Cells
      PROVE  /\ DOMAIN q[cell] = DOMAIN r[cell] /\ Len(q[cell]) = Len(r[cell])
             /\ \A i \in DOMAIN r[cell], f \in {"first", "final", "stop"} :
                  q[cell][i][f] = Measurement(r, g, <<cell, i, f>>)
  <2>1. q[cell] = [ i \in DOMAIN r[cell] |->
                       [ f \in {"first", "final", "stop"} |-> Measurement(r, g, <<cell, i, f>>) ] ]
    BY <1>1 DEF Completed
  <2>2. r[cell] \in Seq(RolloutRecord)
    BY DEF Rolled
  <2>3. DOMAIN r[cell] = 1..Len(r[cell]) /\ Len(r[cell]) \in Nat
    BY <2>2, RowsFinite
  <2>4. DOMAIN q[cell] = 1..Len(r[cell])
    BY <2>1, <2>3
  <2>5. Len(q[cell]) = Len(r[cell])
    BY <2>1, <2>3, <2>4
  <2> QED BY <2>1, <2>5
<1>3. ASSUME NEW cell \in CellsOf(c), NEW i \in DOMAIN r[cell], NEW f \in Reads(c)
      PROVE  /\ r[cell][i][f] # Unknown => q[cell][i][f] = r[cell][i][f]
             /\ r[cell][i][f] = Unknown => q[cell][i][f] \in CouldBe(c)
  <2> DEFINE k == <<cell, i, f>>
  <2>1. cell \in Cells /\ f \in {"first", "final", "stop"}
    BY CellsAreCells, ReadsAre
  <2>2. q[cell][i][f] = Measurement(r, g, k)
    BY <1>2, <2>1
  <2>3. i \in 1..Max({ Len(r[x]) : x \in CellsOf(c) })
    <3>1. r[cell] \in Seq(RolloutRecord) /\ Len(r[cell]) = RolloutCount
      BY <2>1 DEF Rolled
    <3>2. DOMAIN r[cell] = 1..RolloutCount
      BY <3>1, RowsFinite
    <3> QED BY <3>2, LongestIs
  <2>4. k[1] = cell /\ k[2] = i /\ k[3] = f
    OBVIOUS
  <2>5. k \in Unmeasured(c, r) <=> r[cell][i][f] = Unknown
    BY <2>3, <2>4 DEF Unmeasured
  <2>6. Measurement(r, g, k) = IF k \in DOMAIN g THEN g[k] ELSE r[cell][i][f]
    BY <2>4 DEF Measurement
  <2>7. DOMAIN g = Unmeasured(c, r) /\ \A x \in Unmeasured(c, r) : g[x] \in CouldBe(c)
    BY <1>1
  <2> HIDE DEF k
  <2> QED BY <2>2, <2>5, <2>6, <2>7
<1> QED BY <1>2, <1>3

LEMMA CompletionCompletes ==
  ASSUME NEW c \in Behavioral, c # "pooled_stopping_after_good_crossing_is_prevalent",
         NEW r, Rolled(r), NEW q \in Completions(c, r), NEW cell \in CellsOf(c), NEW stage \in Reads(c)
  PROVE  Completes(r[cell], q[cell], stage)
<1>1. cell \in Cells /\ stage \in {"first", "final"} /\ CouldBe(c) = {"above", "below"}
  BY CellsAreCells, ReadsAre
<1>2. r[cell] \in Seq(RolloutRecord)
  BY <1>1 DEF Rolled
<1>3. ASSUME NEW i \in DOMAIN r[cell]
      PROVE  r[cell][i][stage] \in Side
  <2>1. r[cell][i] \in RolloutRecord
    BY <1>2
  <2> QED BY <1>1, <2>1 DEF RolloutRecord
<1>4. /\ DOMAIN q[cell] = DOMAIN r[cell] /\ Len(q[cell]) = Len(r[cell])
      /\ \A i \in DOMAIN r[cell] : /\ r[cell][i][stage] # Unknown => q[cell][i][stage] = r[cell][i][stage]
                                   /\ r[cell][i][stage] = Unknown => q[cell][i][stage] \in CouldBe(c)
  BY <1>1, CompletionStands
<1> QED BY <1>1, <1>2, <1>3, <1>4 DEF Completes, Side

LEMMA MeasuredRows ==
  ASSUME NEW rows \in Seq(RolloutRecord), NEW T, T \subseteq DOMAIN rows, Cardinality(T) >= 2
  PROVE  Len(rows) > 0
<1>1. Len(rows) \in Nat /\ DOMAIN rows = 1..Len(rows)
  BY RowsFinite
<1>2. CASE Len(rows) = 0
  <2>1. T = {}
    BY <1>1, <1>2
  <2> QED BY <2>1, FS_EmptySet
<1> QED BY <1>1, <1>2

RateCriteria == { "threshold_only_shift_is_material", "threshold_only_matches_motivated_shift",
                  "moral_direction_interaction_is_practically_weak", "final_direction_gap_exceeds_first_gap",
                  "independent_task_same_direction" }

LEMMA EnoughRows ==
  ASSUME NEW c \in RateCriteria, NEW r, Rolled(r), NEW pairs, Enough(c, r, pairs)
  PROVE  \A cell \in CellsOf(c) : Len(r[cell]) > 0
<1> SUFFICES ASSUME NEW cell \in CellsOf(c) PROVE Len(r[cell]) > 0
  OBVIOUS
<1>1. Measurements(r[cell], MeasureOf(c)) >= 2
  BY DEF RateCriteria, Enough
<1>2. MeasureOf(c) \in {"final", "first_final"}
  BY DEF RateCriteria, MeasureOf
<1>3. r[cell] \in Seq(RolloutRecord)
  BY CellsAreCells DEF RateCriteria, Behavioral, Rolled
<1>4. \E T : T \subseteq DOMAIN r[cell] /\ Measurements(r[cell], MeasureOf(c)) = Cardinality(T)
  BY <1>2 DEF Measurements, In
<1> QED BY <1>1, <1>3, <1>4, MeasuredRows

\* The bound of a criterion that compares rates contains that of any completion.
LEMMA RateCriteriaWithin ==
  ASSUME NEW c \in RateCriteria, NEW r, Rolled(r), NEW q \in Completions(c, r), NEW pairs, Enough(c, r, pairs)
  PROVE  Within(Bound(c, q, pairs), Bound(c, r, pairs))
<1>0. c \in Behavioral /\ "final" \in Reads(c) /\ c # "pooled_stopping_after_good_crossing_is_prevalent"
  BY ReadsAre DEF RateCriteria, Behavioral
<1>1. ASSUME NEW cell \in CellsOf(c), NEW stage \in Reads(c)
      PROVE  Within(RateBound(q[cell], stage), RateBound(r[cell], stage))
  BY <1>0, <1>1, EnoughRows, CompletionCompletes, RatesWithin
<1> DEFINE at(condition) == <<"giraffe", condition>>
           F(x, condition) == FinalRate(x, condition)
<1>2. ASSUME NEW condition, at(condition) \in CellsOf(c)
      PROVE  Within(F(q, condition), F(r, condition))
  BY <1>0, <1>1, <1>2 DEF FinalRate
<1>3. CASE c \in { "threshold_only_shift_is_material", "threshold_only_matches_motivated_shift",
                   "moral_direction_interaction_is_practically_weak" }
  <2>1. /\ at("threshold_only") \in CellsOf(c) /\ at("baseline") \in CellsOf(c)
        /\ at("above_good") \in CellsOf(c) /\ at("below_good") \in CellsOf(c)
    BY <1>3 DEF CellsOf, Anchored, Treatments, Directions
  <2>2. /\ Within(F(q, "threshold_only"), F(r, "threshold_only")) /\ Within(F(q, "baseline"), F(r, "baseline"))
        /\ Within(F(q, "above_good"), F(r, "above_good")) /\ Within(F(q, "below_good"), F(r, "below_good"))
    BY <1>2, <2>1
  <2> HIDE DEF F, at
  <2>3. CASE c = "threshold_only_shift_is_material"
    <3>1. Within(NeutralShift(q), NeutralShift(r))
      BY <2>2, DifferenceWithin DEF NeutralShift, F
    <3> QED BY <2>3, <3>1 DEF Bound
  <2>4. CASE c = "threshold_only_matches_motivated_shift"
    <3> DEFINE A(x, s, t) == AbsoluteDifference(F(x, s), F(x, t))
    <3>1. /\ Within(A(q, "threshold_only", "baseline"), A(r, "threshold_only", "baseline"))
          /\ Within(A(q, "above_good", "baseline"), A(r, "above_good", "baseline"))
          /\ Within(A(q, "below_good", "baseline"), A(r, "below_good", "baseline"))
      BY <2>2, AbsoluteWithin
    <3> HIDE DEF A
    <3>2. Within(Halved(A(q, "above_good", "baseline"), A(q, "below_good", "baseline")),
                 Halved(A(r, "above_good", "baseline"), A(r, "below_good", "baseline")))
      BY <3>1, HalvedWithin
    <3>3. Within(MagnitudeGap(q), MagnitudeGap(r))
      BY <3>1, <3>2, DifferenceWithin DEF MagnitudeGap, A, F
    <3> QED BY <2>4, <3>3 DEF Bound
  <2>5. CASE c = "moral_direction_interaction_is_practically_weak"
    <3>1. Within(Interaction(q), Interaction(r))
      BY <2>2, DifferenceWithin DEF Interaction, F
    <3> QED BY <2>5, <3>1 DEF Bound
  <2> QED BY <1>3, <2>3, <2>4, <2>5
<1>4. CASE c = "final_direction_gap_exceeds_first_gap"
  <2>1. "first" \in Reads(c) /\ at("above_good") \in CellsOf(c) /\ at("below_good") \in CellsOf(c)
    BY <1>0, <1>4, ReadsAre DEF CellsOf, Treatments, Directions
  <2>2. ASSUME NEW stage \in {"first", "final"}
        PROVE  Within(StageGap(q, stage), StageGap(r, stage))
    <3>1. stage \in Reads(c)
      BY <1>0, <2>1
    <3>2. /\ Within(RateBound(q[<<"giraffe", "above_good">>], stage), RateBound(r[<<"giraffe", "above_good">>], stage))
          /\ Within(RateBound(q[<<"giraffe", "below_good">>], stage), RateBound(r[<<"giraffe", "below_good">>], stage))
      BY <1>1, <2>1, <3>1
    <3> QED BY <3>2, AbsoluteWithin DEF StageGap
  <2>3. Within(GapGrowth(q), GapGrowth(r))
    BY <2>2, DifferenceWithin DEF GapGrowth
  <2> QED BY <1>4, <2>3 DEF Bound
<1>5. CASE c = "independent_task_same_direction"
  <2>1. <<"coffee", "above_good">> \in CellsOf(c) /\ <<"coffee", "below_good">> \in CellsOf(c)
    BY <1>5 DEF CellsOf, Coffee, Directions
  <2>2. /\ Within(RateBound(q[<<"coffee", "above_good">>], "final"), RateBound(r[<<"coffee", "above_good">>], "final"))
        /\ Within(RateBound(q[<<"coffee", "below_good">>], "final"), RateBound(r[<<"coffee", "below_good">>], "final"))
    BY <1>0, <1>1, <2>1
  <2>3. Within(CoffeeDirection(q), CoffeeDirection(r))
    BY <2>2, DifferenceWithin DEF CoffeeDirection
  <2> QED BY <1>5, <2>3 DEF Bound
<1> QED BY <1>3, <1>4, <1>5 DEF RateCriteria

-----------------------------------------------------------------------------
(* Revisions: what is missing of a trajectory moves the count by at most    *)
(* one either way.                                                          *)

LEMMA TreatedStays ==
  ASSUME NEW r, Rolled(r), NEW q, \A cell \in Cells : DOMAIN q[cell] = DOMAIN r[cell]
  PROVE  Treated(q) = Treated(r) /\ IsFiniteSet(Treated(r))
<1>1. Treatments \subseteq Cells /\ IsFiniteSet(Treatments)
  <2>1. Treatments = {<<"giraffe", "above_good">>} \cup {<<"giraffe", "below_good">>}
    BY DEF Treatments, Directions
  <2>2. IsFiniteSet({<<"giraffe", "above_good">>}) /\ IsFiniteSet({<<"giraffe", "below_good">>})
    BY FS_Singleton
  <2>3. IsFiniteSet(Treatments)
    BY <2>1, <2>2, FS_Union
  <2> QED BY <2>3 DEF Cells, Anchored
<1>2. Treated(q) = Treated(r)
  <2>1. \A cell \in Treatments : DOMAIN q[cell] = DOMAIN r[cell]
    BY <1>1
  <2>2. UNION { DOMAIN q[c] : c \in Treatments } = UNION { DOMAIN r[c] : c \in Treatments }
    BY <2>1
  <2>3. \A k \in Treatments \X UNION { DOMAIN r[c] : c \in Treatments } :
          (k[2] \in DOMAIN q[k[1]]) <=> (k[2] \in DOMAIN r[k[1]])
    BY <2>1
  <2> QED BY <2>2, <2>3 DEF Treated
<1>3. IsFiniteSet(Treated(r))
  <2>1. \A cell \in Treatments : DOMAIN r[cell] = 1..RolloutCount
    BY <1>1, RowsFinite DEF Rolled
  <2>2. RolloutCount \in Nat
    <3>1. <<"giraffe", "above_good">> \in Cells
      BY <1>1 DEF Treatments, Directions
    <3> QED BY <3>1, RowsFinite DEF Rolled
  <2>3. IsFiniteSet(1..RolloutCount)
    BY <2>2, FS_Interval
  <2>4. IsFiniteSet(Treatments \X (1..RolloutCount))
    BY <1>1, <2>3, FS_Product
  <2>5. Treated(r) \subseteq Treatments \X (1..RolloutCount)
    BY <2>1 DEF Treated
  <2> QED BY <2>4, <2>5, FS_Subset
<1> QED BY <1>2, <1>3

LEMMA TreatedAre ==
  ASSUME NEW r, Rolled(r), NEW k \in Treated(r)
  PROVE  /\ k[1] \in Treatments /\ k[1] \in Cells /\ k[2] \in DOMAIN r[k[1]]
         /\ r[k[1]][k[2]] \in RolloutRecord
<1>1. k[1] \in Treatments /\ k[2] \in DOMAIN r[k[1]]
  BY DEF Treated
<1>2. k[1] \in Cells
  BY <1>1 DEF Cells, Anchored
<1>3. r[k[1]] \in Seq(RolloutRecord)
  BY <1>2 DEF Rolled
<1> QED BY <1>1, <1>2, <1>3

LEMMA RevisionWithin ==
  ASSUME NEW c, c = "pooled_good_side_revision_is_positive", NEW r, Rolled(r),
         NEW q \in Completions(c, r), Cardinality(Paired(r)) >= 2
  PROVE  Within(Revision(q), Revision(r))
<1> DEFINE T == Treated(r)
           P == Paired(r)
           dr == [ k \in P |-> Good(r, k, "final") - Good(r, k, "first") ]
           dq == [ k \in T |-> Good(q, k, "final") - Good(q, k, "first") ]
<1>0. c \in Behavioral /\ CellsOf(c) = Treatments /\ {"first", "final"} \subseteq Reads(c)
      /\ CouldBe(c) = {"above", "below"}
  BY ReadsAre DEF Behavioral, CellsOf
<1>1. Treated(q) = T /\ IsFiniteSet(T)
  BY <1>0, CompletionStands, TreatedStays
<1>2. ASSUME NEW k \in T, NEW stage \in {"first", "final"}
      PROVE  /\ r[k[1]][k[2]][stage] # Unknown => q[k[1]][k[2]][stage] = r[k[1]][k[2]][stage]
             /\ q[k[1]][k[2]][stage] # Unknown
  <2>1. k[1] \in CellsOf(c) /\ k[2] \in DOMAIN r[k[1]] /\ stage \in Reads(c)
    BY <1>0, TreatedAre
  <2>2. /\ r[k[1]][k[2]][stage] # Unknown => q[k[1]][k[2]][stage] = r[k[1]][k[2]][stage]
        /\ r[k[1]][k[2]][stage] = Unknown => q[k[1]][k[2]][stage] \in CouldBe(c)
    BY <1>0, <2>1, CompletionStands
  <2> QED BY <1>0, <2>2, UnknownAssumption
<1>3. P \subseteq T
  BY DEF Paired
<1>4. Paired(q) = T
  <2>1. \A k \in T : FirstFinal(q[k[1]][k[2]])
    <3> SUFFICES ASSUME NEW k \in T PROVE FirstFinal(q[k[1]][k[2]])
      OBVIOUS
    <3>1. q[k[1]][k[2]]["first"] # Unknown /\ q[k[1]][k[2]]["final"] # Unknown
      BY <1>2
    <3> QED BY <3>1 DEF FirstFinal
  <2> QED BY <1>1, <2>1 DEF Paired
<1>5. ASSUME NEW k \in P
      PROVE  dr[k] \in Int /\ dq[k] = dr[k]
  <2>1. k \in T
    BY <1>3
  <2>2. r[k[1]][k[2]]["first"] # Unknown /\ r[k[1]][k[2]]["final"] # Unknown
    BY DEF Paired, FirstFinal
  <2>3. q[k[1]][k[2]]["first"] = r[k[1]][k[2]]["first"] /\ q[k[1]][k[2]]["final"] = r[k[1]][k[2]]["final"]
    BY <1>2, <2>1, <2>2
  <2>4. Good(q, k, "first") = Good(r, k, "first") /\ Good(q, k, "final") = Good(r, k, "final")
    BY <2>3 DEF Good
  <2>5. Good(r, k, "first") \in {0, 1} /\ Good(r, k, "final") \in {0, 1}
    BY DEF Good
  <2> HIDE DEF T, P
  <2>6. dr[k] = Good(r, k, "final") - Good(r, k, "first") /\ dq[k] = Good(q, k, "final") - Good(q, k, "first")
    BY <2>1
  <2> HIDE DEF dr, dq
  <2> QED BY <2>4, <2>5, <2>6
<1>6. ASSUME NEW k \in T \ P
      PROVE  dq[k] \in Int /\ -1 <= dq[k] /\ dq[k] <= 1
  <2>1. Good(q, k, "first") \in {0, 1} /\ Good(q, k, "final") \in {0, 1}
    BY DEF Good
  <2> HIDE DEF T, P
  <2>2. dq[k] = Good(q, k, "final") - Good(q, k, "first")
    OBVIOUS
  <2> HIDE DEF dq
  <2> QED BY <2>1, <2>2
<1> DEFINE n == Cardinality(T)
           m == Cardinality(T) - Cardinality(P)
           R == SumFunctionOnSet(dr, P)
           Q == SumFunctionOnSet(dq, T)
<1>7. Revisions(r) = R /\ Revisions(q) = Q
  BY <1>4 DEF Revisions, SumFunction
<1> HIDE DEF T, P, dr, dq
<1>8. R \in Int /\ Q \in Int /\ R - Cardinality(T \ P) <= Q /\ Q <= R + Cardinality(T \ P)
  BY <1>1, <1>3, <1>5, <1>6, SumExtends
<1>9. Cardinality(T \ P) = m /\ m \in Nat /\ n \in Nat \ {0}
  <2>1. T \cap P = P /\ Cardinality(T \ P) = Cardinality(T) - Cardinality(T \cap P) /\ IsFiniteSet(T \ P)
    BY <1>1, <1>3, FS_Difference
  <2>2. Cardinality(T \ P) \in Nat
    BY <2>1, FS_CardinalityType
  <2>3. Cardinality(P) >= 2 /\ Cardinality(P) <= Cardinality(T) /\ Cardinality(P) \in Nat /\ Cardinality(T) \in Nat
    BY <1>1, <1>3, CountsCompare DEF P
  <2> QED BY <2>1, <2>2, <2>3
<1>10. /\ Revision(r) = [low |-> ((R - m) * Whole) \div n, high |-> ((R + m) * Whole) \div n]
       /\ Revision(q) = [low |-> (Q * Whole) \div n, high |-> (Q * Whole) \div n]
  <2>1. Revision(r) = [low |-> ((R - m) * Whole) \div n, high |-> ((R + m) * Whole) \div n]
    BY <1>7 DEF Revision, T, P
  <2>2. n - n = 0 /\ Q - 0 = Q /\ Q + 0 = Q
    BY <1>8, <1>9
  <2>3. Treated(q) = T /\ Paired(q) = T
    BY <1>1, <1>4
  <2>4. Revision(q) = [low |-> ((Q - (n - n)) * Whole) \div n, high |-> ((Q + (n - n)) * Whole) \div n]
    BY <1>7, <2>3 DEF Revision
  <2> QED BY <2>1, <2>2, <2>4
<1> HIDE DEF n, m, R, Q
<1>11. /\ (R - m) * Whole <= Q * Whole /\ Q * Whole <= (R + m) * Whole
       /\ (R - m) * Whole \in Int /\ Q * Whole \in Int /\ (R + m) * Whole \in Int
  BY <1>8, <1>9, EffectAssumption, TimesMonotone
<1>12. /\ ((R - m) * Whole) \div n <= (Q * Whole) \div n /\ (Q * Whole) \div n <= ((R + m) * Whole) \div n
       /\ ((R - m) * Whole) \div n \in Int /\ (Q * Whole) \div n \in Int /\ ((R + m) * Whole) \div n \in Int
  BY <1>9, <1>11, DivMonotone
<1> QED BY <1>10, <1>12 DEF Within, Bounds

-----------------------------------------------------------------------------
(* Stopping: one that was not measured may have stopped, gone on, or never  *)
(* have been at risk.                                                       *)

LEMMA RatiosCompare ==
  ASSUME NEW x \in Nat, NEW y \in Nat, NEW n \in Nat \ {0}, NEW m \in Nat \ {0}, NEW w \in Nat, x * m <= y * n
  PROVE  (x * w) \div n \in Int /\ (y * w) \div m \in Int /\ (x * w) \div n <= (y * w) \div m
<1> DEFINE p == (x * w) \div n
           z == (y * w) \div m
<1>1. x * w \in Nat /\ y * w \in Nat
  OBVIOUS
<1>2. p \in Int /\ p * n <= x * w
  BY <1>1
<1>3. z \in Int /\ y * w < (z + 1) * m
  BY <1>1
<1>4. (x * w) * m <= (y * w) * n
  <2>1. x * m \in Nat /\ y * n \in Nat
    OBVIOUS
  <2>2. (x * m) * w <= (y * n) * w
    BY <2>1, TimesMonotone
  <2>3. (x * m) * w = (x * w) * m /\ (y * n) * w = (y * w) * n
    OBVIOUS
  <2> QED BY <2>2, <2>3
<1> DEFINE a == x * w
           b == y * w
<1> HIDE DEF p, z
<1>5. p * n \in Int /\ (p * n) * m <= a * m
  BY <1>1, <1>2, TimesMonotone
<1>6. (p * n) * m < ((z + 1) * m) * n
  <2>1. b * n < ((z + 1) * m) * n
    <3>1. b + 1 <= (z + 1) * m /\ (z + 1) * m \in Int
      BY <1>1, <1>3
    <3> HIDE DEF b
    <3>2. b \in Int
      BY <1>1 DEF b
    <3>3. (b + 1) * n <= ((z + 1) * m) * n
      BY <3>1, <3>2, TimesMonotone
    <3>4. (b + 1) * n = b * n + n
      BY <3>2
    <3>5. b * n \in Int /\ ((z + 1) * m) * n \in Int
      BY <3>1, <3>2
    <3> QED BY <3>3, <3>4, <3>5
  <2>2. (p * n) * m \in Int /\ a * m \in Int /\ b * n \in Int /\ ((z + 1) * m) * n \in Int
    BY <1>1, <1>2, <1>3
  <2> QED BY <1>4, <1>5, <2>1, <2>2
<1>7. p < z + 1
  <2> SUFFICES ASSUME p >= z + 1 PROVE FALSE
    BY <1>2, <1>3
  <2>1. n * m \in Nat /\ (z + 1) * (n * m) <= p * (n * m)
    BY <1>2, <1>3, TimesMonotone
  <2>2. (p * n) * m = p * (n * m) /\ ((z + 1) * m) * n = (z + 1) * (n * m)
    BY <1>2, <1>3
  <2>3. p * (n * m) \in Int /\ (z + 1) * (n * m) \in Int
    BY <1>2, <1>3
  <2> QED BY <1>6, <2>1, <2>2, <2>3
<1> QED BY <1>2, <1>3, <1>7 DEF p, z

LEMMA StoppingWithin ==
  ASSUME NEW c, c = "pooled_stopping_after_good_crossing_is_prevalent", NEW r, Rolled(r),
         NEW q \in Completions(c, r), AtRisk(r) >= 2
  PROVE  Within(Stopping(q), Stopping(r))
<1> DEFINE T == Treated(r)
           E(x, how) == { k \in T : x[k[1]][k[2]].stop = how }
           n(x, how) == Cardinality(E(x, how))
<1>0. c \in Behavioral /\ CellsOf(c) = Treatments /\ Reads(c) = {"stop"}
      /\ CouldBe(c) = {"stopped", "went_on", "never"}
  BY ReadsAre DEF Behavioral, CellsOf
<1>1. Treated(q) = T /\ IsFiniteSet(T)
  BY <1>0, CompletionStands, TreatedStays
<1>2. ASSUME NEW k \in T
      PROVE  /\ r[k[1]][k[2]].stop \in {"stopped", "went_on", "never", Unknown}
             /\ r[k[1]][k[2]].stop # Unknown => q[k[1]][k[2]].stop = r[k[1]][k[2]].stop
             /\ r[k[1]][k[2]].stop = Unknown => q[k[1]][k[2]].stop \in {"stopped", "went_on", "never"}
  <2>1. k[1] \in CellsOf(c) /\ k[2] \in DOMAIN r[k[1]] /\ "stop" \in Reads(c) /\ r[k[1]][k[2]] \in RolloutRecord
    BY <1>0, TreatedAre
  <2>2. /\ r[k[1]][k[2]]["stop"] # Unknown => q[k[1]][k[2]]["stop"] = r[k[1]][k[2]]["stop"]
        /\ r[k[1]][k[2]]["stop"] = Unknown => q[k[1]][k[2]]["stop"] \in CouldBe(c)
    BY <1>0, <2>1, CompletionStands
  <2>3. r[k[1]][k[2]].stop \in {"stopped", "went_on", "never", Unknown}
    BY <2>1 DEF RolloutRecord
  <2> QED BY <1>0, <2>2, <2>3
<1>3. \A how : Ended(r, how) = n(r, how) /\ Ended(q, how) = n(q, how)
  BY <1>1 DEF Ended
<1>4. /\ E(r, "stopped") \subseteq E(q, "stopped") /\ E(r, "went_on") \subseteq E(q, "went_on")
      /\ E(q, "stopped") \subseteq E(r, "stopped") \cup E(r, Unknown)
      /\ E(q, "stopped") \cup E(q, "went_on") \subseteq (E(r, "stopped") \cup E(r, "went_on")) \cup E(r, Unknown)
      /\ E(q, Unknown) = {}
  <2>1. ASSUME NEW k \in T
        PROVE  /\ k \in E(r, "stopped") => k \in E(q, "stopped")
               /\ k \in E(r, "went_on") => k \in E(q, "went_on")
               /\ k \in E(q, "stopped") => k \in E(r, "stopped") \/ k \in E(r, Unknown)
               /\ k \in E(q, "went_on") => k \in E(r, "went_on") \/ k \in E(r, Unknown)
               /\ k \notin E(q, Unknown)
    BY <1>2, UnknownAssumption
  <2>2. \A x, how : E(x, how) \subseteq T
    OBVIOUS
  <2> HIDE DEF E
  <2> QED BY <2>1, <2>2
<1>5. /\ E(r, "stopped") \cap E(r, "went_on") = {}
      /\ (E(r, "stopped") \cup E(r, "went_on")) \cap E(r, Unknown) = {}
      /\ E(r, "stopped") \cap E(r, Unknown) = {} /\ E(q, "stopped") \cap E(q, "went_on") = {}
  BY UnknownAssumption
<1>6. \A x, how : IsFiniteSet(E(x, how)) /\ n(x, how) \in Nat
  <2> SUFFICES ASSUME NEW x, NEW how PROVE IsFiniteSet(E(x, how)) /\ n(x, how) \in Nat
    OBVIOUS
  <2>1. E(x, how) \subseteq T
    OBVIOUS
  <2> HIDE DEF E, T
  <2> QED BY <1>1, <2>1, CountsCompare
<1> HIDE DEF E, T
<1>7. /\ n(r, "stopped") <= n(q, "stopped") /\ n(r, "went_on") <= n(q, "went_on")
      /\ n(q, "stopped") <= n(r, "stopped") + n(r, Unknown)
      /\ n(q, "stopped") + n(q, "went_on") <= (n(r, "stopped") + n(r, "went_on")) + n(r, Unknown)
      /\ n(q, Unknown) = 0
  <2>1. n(r, "stopped") <= n(q, "stopped") /\ n(r, "went_on") <= n(q, "went_on")
    BY <1>4, <1>6, CountsCompare
  <2>2. /\ IsFiniteSet(E(r, "stopped") \cup E(r, Unknown))
        /\ Cardinality(E(r, "stopped") \cup E(r, Unknown)) = n(r, "stopped") + n(r, Unknown)
    BY <1>5, <1>6, CountsAdd
  <2>3. /\ IsFiniteSet(E(r, "stopped") \cup E(r, "went_on"))
        /\ Cardinality(E(r, "stopped") \cup E(r, "went_on")) = n(r, "stopped") + n(r, "went_on")
    BY <1>5, <1>6, CountsAdd
  <2>4. /\ IsFiniteSet((E(r, "stopped") \cup E(r, "went_on")) \cup E(r, Unknown))
        /\ Cardinality((E(r, "stopped") \cup E(r, "went_on")) \cup E(r, Unknown))
             = (n(r, "stopped") + n(r, "went_on")) + n(r, Unknown)
    BY <1>5, <1>6, <2>3, CountsAdd
  <2>5. Cardinality(E(q, "stopped") \cup E(q, "went_on")) = n(q, "stopped") + n(q, "went_on")
    BY <1>5, <1>6, CountsAdd
  <2>6. n(q, "stopped") <= n(r, "stopped") + n(r, Unknown)
    BY <1>4, <2>2, CountsCompare
  <2>7. n(q, "stopped") + n(q, "went_on") <= (n(r, "stopped") + n(r, "went_on")) + n(r, Unknown)
    BY <1>4, <2>4, <2>5, CountsCompare
  <2> QED BY <1>4, <2>1, <2>6, <2>7, FS_EmptySet
<1> DEFINE s == n(r, "stopped")
           w == n(r, "went_on")
           u == n(r, Unknown)
           t == n(q, "stopped")
           v == n(q, "went_on")
<1>8. s \in Nat /\ w \in Nat /\ u \in Nat /\ t \in Nat /\ v \in Nat
  BY <1>6
<1>9. /\ Stopping(r) = [low |-> (s * Whole) \div ((s + w) + u) - Whole \div 2,
                        high |-> ((s + u) * Whole) \div ((s + w) + u) - Whole \div 2]
      /\ Stopping(q) = [low |-> (t * Whole) \div (t + v) - Whole \div 2,
                        high |-> (t * Whole) \div (t + v) - Whole \div 2]
      /\ AtRisk(r) = s + w
  <2>1. AtRisk(r) = s + w /\ AtRisk(q) = t + v
    BY <1>3 DEF AtRisk
  <2>2. Ended(q, Unknown) = 0 /\ t + 0 = t /\ (t + v) + 0 = t + v
    BY <1>3, <1>7, <1>8
  <2>3. Stopping(r) = [low |-> (s * Whole) \div ((s + w) + u) - Whole \div 2,
                       high |-> ((s + u) * Whole) \div ((s + w) + u) - Whole \div 2]
    BY <1>3, <2>1 DEF Stopping
  <2>4. Stopping(q) = [low |-> (t * Whole) \div ((t + v) + 0) - Whole \div 2,
                       high |-> ((t + 0) * Whole) \div ((t + v) + 0) - Whole \div 2]
    BY <1>3, <2>1, <2>2 DEF Stopping
  <2> QED BY <2>1, <2>2, <2>3, <2>4
<1>10. s <= t /\ w <= v /\ t <= s + u /\ t + v <= (s + w) + u /\ s + w >= 2
  BY <1>7, <1>9
<1> HIDE DEF s, w, u, t, v
<1>11. t + v \in Nat \ {0} /\ (s + w) + u \in Nat \ {0} /\ s + u \in Nat
  BY <1>8, <1>10
<1>12. s * (t + v) <= t * ((s + w) + u)
  <2>1. s * (t + v) <= t * (t + v)
    BY <1>8, <1>10, <1>11, TimesMonotone
  <2>2. (t + v) * t <= ((s + w) + u) * t
    BY <1>8, <1>10, <1>11, TimesMonotone
  <2>3. s * (t + v) \in Int /\ t * (t + v) \in Int /\ t * ((s + w) + u) \in Int
    BY <1>8
  <2>4. (t + v) * t = t * (t + v) /\ ((s + w) + u) * t = t * ((s + w) + u)
    BY <1>8
  <2> QED BY <2>1, <2>2, <2>3, <2>4
<1>13. t * ((s + w) + u) <= (s + u) * (t + v)
  <2>1. t * w <= (s + u) * w /\ w * (s + u) <= v * (s + u)
    BY <1>8, <1>10, <1>11, TimesMonotone
  <2>2. t * w \in Int /\ (s + u) * w \in Int /\ (s + u) * v \in Int /\ t * (s + u) \in Int
    BY <1>8
  <2>3. w * (s + u) = (s + u) * w /\ v * (s + u) = (s + u) * v
    BY <1>8
  <2>4. t * ((s + w) + u) = t * (s + u) + t * w
    BY <1>8
  <2>5. (s + u) * (t + v) = t * (s + u) + (s + u) * v
    BY <1>8
  <2> QED BY <2>1, <2>2, <2>3, <2>4, <2>5
<1>14. Whole \in Nat /\ Whole \div 2 \in Int
  BY EffectAssumption
<1>15. /\ (s * Whole) \div ((s + w) + u) \in Int /\ (t * Whole) \div (t + v) \in Int
       /\ (s * Whole) \div ((s + w) + u) <= (t * Whole) \div (t + v)
  BY <1>8, <1>11, <1>12, <1>14, RatiosCompare
<1>16. /\ ((s + u) * Whole) \div ((s + w) + u) \in Int
       /\ (t * Whole) \div (t + v) <= ((s + u) * Whole) \div ((s + w) + u)
  BY <1>8, <1>11, <1>13, <1>14, RatiosCompare
<1> QED BY <1>9, <1>14, <1>15, <1>16 DEF Within, Bounds

-----------------------------------------------------------------------------
(* Movement towards the neutral rate: the distance of a mean to a rate in an *)
(* interval is least and greatest at its ends or where it meets a mean.     *)

LEMMA ExtremesExist ==
  ASSUME NEW S, IsFiniteSet(S), S # {}, S \subseteq Int
  PROVE  /\ \E x \in S : \A y \in S : x <= y
         /\ \E x \in S : \A y \in S : x >= y
<1> DEFINE Has(s) == /\ \E x \in s : \A y \in s : x <= y
                     /\ \E x \in s : \A y \in s : x >= y
           Odd == {s \in SUBSET S : s # {} /\ ~ Has(s)}
<1>0. S \in SUBSET S
  OBVIOUS
<1>1. SUFFICES ASSUME Odd # {}  PROVE FALSE
  BY <1>0, <1>1
<1>2. PICK s \in Odd : \A t \in SUBSET s : t # s => t \notin Odd
  <2>1. Odd \subseteq SUBSET S
    OBVIOUS
  <2> HIDE DEF Odd
  <2> QED
    BY <1>1, <2>1, SmallestSubset
<1>3. s \in SUBSET S /\ s # {} /\ ~ Has(s)
  BY <1>2
<1>4. PICK p \in s : TRUE
  BY <1>3
<1> DEFINE t == s \ {p}
<1>5. p \in Int /\ t \subseteq Int /\ s = t \cup {p}
  BY <1>3, <1>4
<1>6. CASE t = {}
  <2>1. s = {p}
    BY <1>5, <1>6
  <2>2. Has({p})
    BY <1>5
  <2> QED BY <1>3, <2>1, <2>2
<1>7. CASE t # {}
  <2>1. Has(t)
    <3>1. t \in SUBSET s /\ t # s /\ t \in SUBSET S
      BY <1>3, <1>4
    <3> HIDE DEF t
    <3> QED BY <1>2, <1>7, <3>1
  <2> HIDE DEF t
  <2>2. PICK a \in t : \A y \in t : a <= y
    BY <2>1
  <2>3. PICK b \in t : \A y \in t : b >= y
    BY <2>1
  <2>4. \E x \in s : \A y \in s : x <= y
    <3>1. CASE a <= p
      BY <1>5, <2>2, <3>1
    <3>2. CASE ~ (a <= p)
      BY <1>5, <2>2, <3>2
    <3> QED BY <3>1, <3>2
  <2>5. \E x \in s : \A y \in s : x >= y
    <3>1. CASE b >= p
      BY <1>5, <2>3, <3>1
    <3>2. CASE ~ (b >= p)
      BY <1>5, <2>3, <3>2
    <3> QED BY <3>1, <3>2
  <2> QED BY <1>3, <2>4, <2>5
<1> QED BY <1>6, <1>7

LEMMA ExtremesAre ==
  ASSUME NEW S, IsFiniteSet(S), S # {}, S \subseteq Int
  PROVE  /\ Min(S) \in S /\ \A y \in S : Min(S) <= y
         /\ Max(S) \in S /\ \A y \in S : Max(S) >= y
<1> DEFINE Least(x) == x \in S /\ \A y \in S : x <= y
           Most(x) == x \in S /\ \A y \in S : x >= y
<1>1. (\E x : Least(x)) /\ (\E x : Most(x))
  BY ExtremesExist
<1>2. Min(S) = CHOOSE x : Least(x)
  BY DEF Min
<1>3. Max(S) = CHOOSE x : Most(x)
  BY DEF Max
<1>4. Least(CHOOSE x : Least(x)) /\ Most(CHOOSE x : Most(x))
  <2> HIDE DEF Least, Most
  <2> QED BY <1>1, Zenon
<1> QED BY <1>2, <1>3, <1>4

LEMMA MeansAre ==
  ASSUME NEW pairs, Are(pairs), NEW a \in Moved(pairs), NEW arm \in Arms
  PROVE  ObservedMean(pairs, a, arm) \in Int
<1> DEFINE E == EligiblePairs(pairs, a)
           d == Outcomes(pairs, a, arm)
           K == Known(d)
<1>1. a \in Anchors /\ K # {}
  BY DEF Moved, CompleteClusters, Clusters, AnchorsOf
<1>2. IsFiniteSet(E) /\ E \subseteq DOMAIN pairs[a]
  <2>1. pairs[a] \in Seq(PairRecord)
    BY <1>1 DEF Are
  <2> QED BY <2>1, RowsFinite, FS_Subset DEF EligiblePairs
<1>3. K \subseteq E
  BY DEF Known, Outcomes
<1>4. ASSUME NEW i \in K
      PROVE  d[i] \in Int
  <2>1. pairs[a][i] \in PairRecord /\ d[i] = pairs[a][i][arm] /\ d[i] # Unknown
    BY <1>1, <1>2, <1>3 DEF Are, Known, Outcomes
  <2>2. pairs[a][i][arm] \in {0, 1, Unknown}
    BY <2>1 DEF PairRecord, Arms
  <2> HIDE DEF d
  <2> QED BY <2>1, <2>2
<1> HIDE DEF E, d, K
<1>5. IsFiniteSet(K) /\ Cardinality(K) \in Nat \ {0}
  BY <1>1, <1>2, <1>3, FS_Subset, FS_CardinalityType, FS_EmptySet
<1>6. SumFunctionOnSet(d, K) \in Int
  BY <1>4, <1>5, SumTyped
<1>7. (SumFunctionOnSet(d, K) * Whole) \div Cardinality(K) \in Int
  <2>1. SumFunctionOnSet(d, K) * Whole \in Int
    BY <1>6, EffectAssumption
  <2> QED BY <1>5, <2>1, DivMonotone
<1>8. ObservedMean(pairs, a, arm) = (SumFunctionOnSet(d, K) * Whole) \div Cardinality(K)
  BY DEF ObservedMean, Mean, d, K
<1> QED BY <1>7, <1>8

\* Between the ends of an interval nothing is nearer or farther than at one of
\* them or at a mean.
LEMMA NearerBracket ==
  ASSUME NEW pairs, Are(pairs), NEW a \in Moved(pairs), NEW x, NEW bound, Within(x, bound), x.low = x.high
  PROVE  /\ Min(NearerWithin(pairs, a, x)) = Max(NearerWithin(pairs, a, x))
         /\ Min(NearerWithin(pairs, a, x)) \in Int
         /\ Min(NearerWithin(pairs, a, bound)) \in Int /\ Max(NearerWithin(pairs, a, bound)) \in Int
         /\ Min(NearerWithin(pairs, a, bound)) <= Min(NearerWithin(pairs, a, x))
         /\ Max(NearerWithin(pairs, a, x)) <= Max(NearerWithin(pairs, a, bound))
<1> DEFINE R == ObservedMean(pairs, a, "retain")
           S == ObservedMean(pairs, a, "resample")
           N(z) == Gap(R, z) - Gap(S, z)
           z0 == x.low
           lo == bound.low
           hi == bound.high
           W == NearerWithin(pairs, a, bound)
           at(b) == {b.low, b.high} \cup { m \in {R, S} : b.low <= m /\ m <= b.high }
<1>1. R \in Int /\ S \in Int
  BY MeansAre DEF Arms
<1>2. lo \in Int /\ hi \in Int /\ z0 \in Int /\ lo <= z0 /\ z0 <= hi /\ x.high = z0
  BY DEF Within, Bounds
<1>3. { ObservedMean(pairs, a, arm) : arm \in Arms } = {R, S}
  BY DEF Arms
<1>4. \A b : NearerWithin(pairs, a, b) = { N(z) : z \in at(b) }
  BY <1>3 DEF NearerWithin, Nearer
<1> HIDE DEF R, S
<1>5. \A z \in Int : N(z) \in Int
  BY <1>1 DEF Gap
<1>6. NearerWithin(pairs, a, x) = {N(z0)}
  <2>1. at(x) = {z0}
    BY <1>1, <1>2
  <2> HIDE DEF at, N, z0
  <2> QED BY <1>4, <2>1
<1>7. W \subseteq {N(lo)} \cup {N(hi)} \cup {N(R)} \cup {N(S)} /\ N(lo) \in W /\ W \subseteq Int
  <2>1. at(bound) \subseteq {lo, hi, R, S} /\ lo \in at(bound) /\ hi \in at(bound)
    OBVIOUS
  <2> HIDE DEF at, N, lo, hi
  <2>2. W = { N(z) : z \in at(bound) }
    BY <1>4
  <2> QED BY <1>1, <1>2, <1>5, <2>1, <2>2
<1>8. IsFiniteSet(W)
  <2> HIDE DEF N, W, lo, hi
  <2>1. IsFiniteSet({N(lo)} \cup {N(hi)} \cup {N(R)} \cup {N(S)})
    BY FS_Singleton, FS_Union
  <2> QED BY <1>7, <2>1, FS_Subset
<1>9. (\E y \in W : y <= N(z0)) /\ (\E y \in W : y >= N(z0))
  <2>1. /\ N(lo) \in W /\ N(hi) \in W /\ (lo <= R /\ R <= hi => N(R) \in W) /\ (lo <= S /\ S <= hi => N(S) \in W)
    <3>1. /\ lo \in at(bound) /\ hi \in at(bound) /\ (lo <= R /\ R <= hi => R \in at(bound))
          /\ (lo <= S /\ S <= hi => S \in at(bound))
      OBVIOUS
    <3>2. W = { N(z) : z \in at(bound) }
      BY <1>4
    <3> HIDE DEF at, N, lo, hi, W
    <3> QED BY <3>1, <3>2
  <2> DEFINE some(P(_)) == P(lo) \/ P(hi) \/ (lo <= R /\ R <= hi /\ P(R)) \/ (lo <= S /\ S <= hi /\ P(S))
  <2> HIDE DEF W, lo, hi, z0
  <2>2. some(LAMBDA z : N(z) <= N(z0)) /\ some(LAMBDA z : N(z) >= N(z0))
    BY <1>1, <1>2 DEF Gap
  <2> HIDE DEF N
  <2> QED BY <2>1, <2>2
<1>10. N(z0) \in Int
  BY <1>2, <1>5
<1>11. Min({N(z0)}) = N(z0) /\ Max({N(z0)}) = N(z0)
  <2> DEFINE n == N(z0)
  <2>1. n \in Int
    BY <1>10
  <2> HIDE DEF n
  <2>2. IsFiniteSet({n}) /\ {n} # {} /\ {n} \subseteq Int
    BY <2>1, FS_Singleton
  <2>3. Min({n}) \in {n} /\ Max({n}) \in {n}
    BY <2>2, ExtremesAre
  <2> QED BY <2>3 DEF n
<1>12. /\ Min(W) \in W /\ \A y \in W : Min(W) <= y
       /\ Max(W) \in W /\ \A y \in W : Max(W) >= y
  <2> HIDE DEF W, N, lo, hi
  <2> QED BY <1>7, <1>8, ExtremesAre
<1> DEFINE n == N(z0)
           l == Min(W)
           h == Max(W)
<1>13. l \in Int /\ h \in Int /\ l <= n /\ n <= h
  <2>1. n \in Int /\ l \in W /\ h \in W /\ W \subseteq Int
    BY <1>7, <1>10, <1>12
  <2>2. PICK y \in W : y <= n
    BY <1>9
  <2>3. PICK y2 \in W : y2 >= n
    BY <1>9
  <2>4. l <= y /\ h >= y2
    BY <1>12
  <2> HIDE DEF n, l, h, W
  <2> QED BY <2>1, <2>2, <2>3, <2>4
<1> HIDE DEF N, z0
<1> QED BY <1>6, <1>10, <1>11, <1>13

LEMMA NeutralWithin ==
  ASSUME NEW q, NEW r, Within(FinalRate(q, "threshold_only"), FinalRate(r, "threshold_only")),
         FinalRate(q, "threshold_only").low = FinalRate(q, "threshold_only").high, NEW direction
  PROVE  /\ Within(Neutral(q, direction), Neutral(r, direction))
         /\ Neutral(q, direction).low = Neutral(q, direction).high
<1>1. Whole \in Int
  BY EffectAssumption
<1> QED BY <1>1 DEF Neutral, Within, Bounds

LEMMA MovementWithin ==
  ASSUME NEW c, c = "accuracy_sentence_moves_toward_neutral_baseline", NEW r, Rolled(r),
         NEW q \in Completions(c, r), NEW pairs, Are(pairs), Enough(c, r, pairs)
  PROVE  Within(Movement(q, pairs), Movement(r, pairs))
<1> DEFINE cell == <<"giraffe", "threshold_only">>
           M == Moved(pairs)
           W(x, a) == NearerWithin(pairs, a, Neutral(x, DirectionOf[a]))
           low(x) == [ a \in M |-> Min(W(x, a)) ]
           high(x) == [ a \in M |-> Max(W(x, a)) ]
<1>1. /\ c \in Behavioral /\ c # "pooled_stopping_after_good_crossing_is_prevalent"
      /\ CellsOf(c) = {cell} /\ "final" \in Reads(c)
  BY ReadsAre DEF Behavioral, CellsOf
<1>2. Completes(r[cell], q[cell], "final")
  BY <1>1, CompletionCompletes
<1>3. Len(r[cell]) > 0
  <2>1. In(r[cell], Final) >= 2
    BY DEF Enough
  <2>2. r[cell] \in Seq(RolloutRecord)
    BY <1>2 DEF Completes
  <2>3. { i \in DOMAIN r[cell] : Final(r[cell][i]) } \subseteq DOMAIN r[cell]
    OBVIOUS
  <2> HIDE DEF cell
  <2> QED BY <2>1, <2>2, <2>3, MeasuredRows DEF In
<1>4. /\ Within(FinalRate(q, "threshold_only"), FinalRate(r, "threshold_only"))
      /\ FinalRate(q, "threshold_only").low = FinalRate(q, "threshold_only").high
  BY <1>2, <1>3, RatesWithin DEF FinalRate
<1>5. M \subseteq Anchors /\ IsFiniteSet(M)
  <2>1. M \subseteq Anchors
    BY DEF Moved, CompleteClusters, Clusters, AnchorsOf
  <2> HIDE DEF M
  <2> QED BY <2>1, UnknownAssumption, FS_Subset
<1>6. ASSUME NEW a \in M
      PROVE  /\ Min(W(q, a)) = Max(W(q, a)) /\ Min(W(q, a)) \in Int
             /\ Min(W(r, a)) \in Int /\ Max(W(r, a)) \in Int
             /\ Min(W(r, a)) <= Min(W(q, a)) /\ Max(W(q, a)) <= Max(W(r, a))
  <2> DEFINE x == Neutral(q, DirectionOf[a])
             bound == Neutral(r, DirectionOf[a])
  <2>1. Within(x, bound) /\ x.low = x.high
    BY <1>4, NeutralWithin
  <2> HIDE DEF x, bound
  <2>2. /\ Min(NearerWithin(pairs, a, x)) = Max(NearerWithin(pairs, a, x))
        /\ Min(NearerWithin(pairs, a, x)) \in Int
        /\ Min(NearerWithin(pairs, a, bound)) \in Int /\ Max(NearerWithin(pairs, a, bound)) \in Int
        /\ Min(NearerWithin(pairs, a, bound)) <= Min(NearerWithin(pairs, a, x))
        /\ Max(NearerWithin(pairs, a, x)) <= Max(NearerWithin(pairs, a, bound))
    BY <2>1, NearerBracket
  <2> QED BY <2>2 DEF x, bound
<1>7. \A x : Movement(x, pairs) = [low |-> SumFunctionOnSet(low(x), M), high |-> SumFunctionOnSet(high(x), M)]
  BY DEF Movement, SumFunction
<1> HIDE DEF M, W
<1>8. \A a \in M : /\ low(r)[a] \in Int /\ low(q)[a] \in Int /\ high(r)[a] \in Int /\ high(q)[a] \in Int
                   /\ low(r)[a] <= low(q)[a] /\ high(q)[a] <= high(r)[a]
  BY <1>6
<1>9. low(q) = high(q)
  BY <1>6
<1> HIDE DEF low, high
<1>10. /\ SumFunctionOnSet(low(r), M) \in Int /\ SumFunctionOnSet(low(q), M) \in Int
       /\ SumFunctionOnSet(low(r), M) <= SumFunctionOnSet(low(q), M)
  BY <1>5, <1>8, SumsCompare
<1>11. /\ SumFunctionOnSet(high(q), M) \in Int /\ SumFunctionOnSet(high(r), M) \in Int
       /\ SumFunctionOnSet(high(q), M) <= SumFunctionOnSet(high(r), M)
  BY <1>5, <1>8, SumsCompare
<1> QED BY <1>7, <1>9, <1>10, <1>11 DEF Within, Bounds

-----------------------------------------------------------------------------
(* What is decided by a bound is decided so of every completion.            *)

LEMMA BoundsWithin ==
  ASSUME NEW c \in Behavioral, NEW r, Rolled(r), NEW q \in Completions(c, r),
         NEW pairs, Are(pairs), Enough(c, r, pairs)
  PROVE  Within(Bound(c, q, pairs), Bound(c, r, pairs))
<1>1. CASE c \in RateCriteria
  BY <1>1, RateCriteriaWithin
<1>2. CASE c = "pooled_good_side_revision_is_positive"
  <2>1. Cardinality(Paired(r)) >= 2
    BY <1>2 DEF Enough
  <2>2. Within(Revision(q), Revision(r))
    BY <1>2, <2>1, RevisionWithin
  <2> QED BY <1>2, <2>2 DEF Bound
<1>3. CASE c = "pooled_stopping_after_good_crossing_is_prevalent"
  <2>1. AtRisk(r) >= 2
    BY <1>3 DEF Enough
  <2>2. Within(Stopping(q), Stopping(r))
    BY <1>3, <2>1, StoppingWithin
  <2> QED BY <1>3, <2>2 DEF Bound
<1>4. CASE c = "accuracy_sentence_moves_toward_neutral_baseline"
  <2>1. Within(Movement(q, pairs), Movement(r, pairs))
    BY <1>4, MovementWithin
  <2> QED BY <1>4, <2>1 DEF Bound
<1> QED BY <1>1, <1>2, <1>3, <1>4 DEF Behavioral, RateCriteria

\* A narrower pair of bounds is still denied what a wider one is.
LEMMA DeniesKeeps ==
  ASSUME NEW target \in {"positive", "negative", "outside", "equivalent"}, NEW rope \in Int,
         NEW low \in Int, NEW high \in Int, NEW l \in Int, NEW h \in Int,
         low <= l, l <= h, h <= high, Denies(target, low, high, rope)
  PROVE  ~ Meets(target, l, h, rope)
<1>1. CASE target = "positive"
  BY <1>1 DEF Meets, Denies
<1>2. CASE target = "negative"
  BY <1>2 DEF Meets, Denies
<1>3. CASE target = "outside"
  BY <1>3 DEF Meets, Denies
<1>4. CASE target = "equivalent"
  BY <1>4 DEF Meets, Denies
<1> QED BY <1>1, <1>2, <1>3, <1>4

LEMMA TargetsAre ==
  ASSUME NEW c \in Behavioral
  PROVE  Target(c) \in {"positive", "negative", "outside", "equivalent"}
BY DEF Behavioral, Target

LEMMA MarginTyped ==
  ASSUME NEW c \in Behavioral, NEW pairs
  PROVE  Margin(c, pairs) \in Int
<1>1. Moved(pairs) \subseteq Anchors
  BY DEF Moved, CompleteClusters, Clusters, AnchorsOf
<1>2. Cardinality(Moved(pairs)) \in Nat
  BY <1>1, UnknownAssumption, FS_Subset, FS_CardinalityType
<1>3. Rope \in Int
  BY EffectAssumption
<1>4. Rope * Cardinality(Moved(pairs)) \in Int
  BY <1>2, <1>3
<1> QED BY <1>3, <1>4 DEF Margin, Behavioral

LEMMA MeetsIsBoolean ==
  ASSUME NEW target \in {"positive", "negative", "outside", "equivalent"}, NEW rope \in Int,
         NEW low \in Int, NEW high \in Int
  PROVE  Meets(target, low, high, rope) \in BOOLEAN
<1>0. "positive" # "negative" /\ "positive" # "outside" /\ "positive" # "equivalent"
      /\ "negative" # "outside" /\ "negative" # "equivalent" /\ "outside" # "equivalent"
  OBVIOUS
<1>1. CASE target = "positive"
  <2>1. Meets(target, low, high, rope) = (low > rope)
    BY <1>1, <1>0, Zenon DEF Meets
  <2> QED BY <2>1
<1>2. CASE target = "negative"
  <2>1. Meets(target, low, high, rope) = (high < -rope)
    BY <1>2, <1>0, Zenon DEF Meets
  <2> QED BY <2>1
<1>3. CASE target = "outside"
  <2>1. Meets(target, low, high, rope) = (low > rope \/ high < -rope)
    BY <1>3, <1>0, Zenon DEF Meets
  <2> QED BY <2>1
<1>4. CASE target = "equivalent"
  <2>1. Meets(target, low, high, rope) = (-rope <= low /\ high <= rope)
    BY <1>4, <1>0, Zenon DEF Meets
  <2> QED BY <2>1
<1> QED BY <1>1, <1>2, <1>3, <1>4

LEMMA CriterionIsRobust ==
  ASSUME NEW c \in Behavioral, NEW r, Rolled(r), NEW q \in Completions(c, r),
         NEW pairs, Are(pairs), NEW v, Criterion(c, r, pairs, v) # Unknown
  PROVE  Says(c, Criterion(c, r, pairs, v), q, pairs)
<1> DEFINE wide == Bound(c, r, pairs)
           narrow == Bound(c, q, pairs)
           rope == Margin(c, pairs)
           target == Target(c)
<1>1. Enough(c, r, pairs) /\ Criterion(c, r, pairs, v) = Guarded(c, r, pairs, v)
  BY DEF Criterion
<1>2. Guarded(c, r, pairs, v) = v /\ v # Unknown /\ PointBoundState(target, wide.low, wide.high, rope) = v
  BY <1>1 DEF Guarded
<1>3. \/ v = TRUE /\ Meets(target, wide.low, wide.high, rope)
      \/ v = FALSE /\ Denies(target, wide.low, wide.high, rope)
  BY <1>2, Zenon DEF PointBoundState
<1>4. Within(narrow, wide)
  BY <1>1, BoundsWithin
<1>5. /\ target \in {"positive", "negative", "outside", "equivalent"} /\ rope \in Int
      /\ wide.low \in Int /\ wide.high \in Int /\ narrow.low \in Int /\ narrow.high \in Int
      /\ wide.low <= narrow.low /\ narrow.low <= narrow.high /\ narrow.high <= wide.high
  BY <1>4, TargetsAre, MarginTyped DEF Within, Bounds
<1> HIDE DEF wide, narrow, rope, target
<1>6. Meets(target, narrow.low, narrow.high, rope) \in BOOLEAN
  BY <1>5, MeetsIsBoolean
<1>7. CASE v = TRUE /\ Meets(target, wide.low, wide.high, rope)
  <2>1. Meets(target, narrow.low, narrow.high, rope)
    BY <1>5, <1>7, MeetsKeeps
  <2>2. Meets(target, narrow.low, narrow.high, rope) = v
    BY <1>6, <1>7, <2>1, Zenon
  <2> QED BY <1>1, <1>2, <2>2 DEF Says, narrow, rope, target
<1>8. CASE v = FALSE /\ Denies(target, wide.low, wide.high, rope)
  <2>1. ~ Meets(target, narrow.low, narrow.high, rope)
    BY <1>5, <1>8, DeniesKeeps
  <2>2. Meets(target, narrow.low, narrow.high, rope) = v
    BY <1>6, <1>8, <2>1, Zenon
  <2> QED BY <1>1, <1>2, <2>2 DEF Says, narrow, rope, target
<1> QED BY <1>3, <1>7, <1>8

\* Once effects were estimated, the study holds all that was designed.
Inventoried == /\ study \in Studies
               /\ effects # Nothing => Rolled(study.rollouts) /\ Are(study.pairs)
\* A criterion is decided as every completion of the study would have decided it.
Decided(c, value) == \A r \in Completions(c, study.rollouts) : Says(c, value, r, study.pairs)

LEMMA InventoriedInit == Init => Inventoried
BY DEF Init, Inventoried

LEMMA InventoriedStep ==
  ASSUME Inventoried, [Next]_vars
  PROVE  Inventoried' /\ study' = study
<1>1. study' = study
  BY DEF Next, vars, EstimateEffects, AssessBehavior, AssessLens, Associate, Adjudicate, WriteSummary, Report
<1>2. CASE effects' = effects
  <2>1. study' \in Studies /\ (effects' # Nothing => Rolled(study.rollouts) /\ Are(study.pairs))
    BY <1>2, <1>1 DEF Inventoried
  <2> QED BY <1>1, <2>1 DEF Inventoried
<1>3. CASE effects' # effects
  <2>1. EstimateEffects
    BY <1>3 DEF Next, vars, AssessBehavior, AssessLens, Associate, Adjudicate, WriteSummary, Report
  <2>2. Are(study.pairs)
    BY <2>1, StudyAssumption DEF EstimateEffects, ResamplingInventory, Are, Inventoried
  <2>3. Rolled(study.rollouts)
    BY <2>1, StudyAssumption DEF EstimateEffects, RolloutInventory, Rolled, Inventoried
  <2> QED BY <1>1, <2>2, <2>3 DEF Inventoried
<1> QED BY <1>1, <1>2, <1>3

LEMMA CriteriaStep ==
  ASSUME Inventoried, [Next]_vars, criteria' # criteria,
         NEW c \in Behavioral \cap (DOMAIN criteria' \ DOMAIN criteria), criteria'[c] # Unknown
  PROVE  Decided(c, criteria'[c])
<1>1. AssessBehavior \/ AssessLens
  BY DEF Next, vars, EstimateEffects, Associate, Adjudicate, WriteSummary, Report
<1>2. CASE AssessBehavior
  <2> DEFINE x == CHOOSE b \in Behavioral : b \notin DOMAIN criteria
  <2>1. PICK value \in Values[study][x] : criteria' = WithCriteria([ b \in {x} |-> value ])
    BY <1>2, Zenon DEF AssessBehavior
  <2>2. effects # Nothing
    BY <1>2 DEF AssessBehavior
  <2> HIDE DEF x
  <2>3. c = x /\ criteria'[c] = value
    BY <2>1 DEF WithCriteria
  <2>4. Values[study][c] = { Criterion(c, study.rollouts, study.pairs, v) :
                               v \in { IntervalValue(c, i[1], i[2]) : i \in Interval } }
    BY DEF Values, Inventoried
  <2>5. PICK v : criteria'[c] = Criterion(c, study.rollouts, study.pairs, v)
    BY <2>1, <2>3, <2>4
  <2>6. Rolled(study.rollouts) /\ Are(study.pairs)
    BY <2>2 DEF Inventoried
  <2> QED BY <2>5, <2>6, CriterionIsRobust DEF Decided
<1>3. CASE AssessLens
  <2>1. DOMAIN criteria' = DOMAIN criteria \cup LensCriteria
    BY <1>3 DEF AssessLens, WithCriteria
  <2>2. Behavioral \cap LensCriteria = {}
    BY DEF Behavioral, LensCriteria
  <2> QED BY <2>1, <2>2
<1> QED BY <1>1, <1>2, <1>3

\* A behavioural criterion is met, or denied, only if it would be whatever the
\* missing measurements had been, for any rollouts, pairs, anchors and
\* intervals: so of the seven that read rollouts alone, and of the eighth when
\* no outcome of an accuracy pair is missing (analysis.py:797, the point bounds
\* of the criteria).  With such an outcome missing the eighth may not survive.
THEOREM CriteriaAreSafe == Spec => CriteriaSurvive
<1>1. Inventoried /\ [Next]_vars => Inventoried'
  BY InventoriedStep
<1>2. Spec => []Inventoried
  BY <1>1, InventoriedInit, PTL DEF Spec
<1>3. Inventoried /\ [Next]_vars =>
        [ \A c \in Behavioral \cap (DOMAIN criteria' \ DOMAIN criteria) : criteria'[c] # Unknown /\ PairsAreMeasured(c) =>
            \A r \in Completions(c, study.rollouts) : Says(c, criteria'[c], r, study.pairs) ]_criteria
  BY CriteriaStep DEF Decided
<1> QED BY <1>2, <1>3, PTL DEF Spec, CriteriaSurvive

=============================================================================
