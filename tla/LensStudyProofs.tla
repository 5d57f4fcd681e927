-------------------------- MODULE LensStudyProofs --------------------------
(***************************************************************************)
(* For any traces, layouts, judgments, concepts and heartbeats: what the   *)
(* lens reads is causal, it has one outcome, and the evidence a summary    *)
(* names stays what it is.                                                 *)
(*                                                                         *)
(* Positions are found by binary search, a recursive function; that each   *)
(* search ends at a boundary of the completion, whatever its decoder does, *)
(* is shown by the smallest interval at which it would not.  The rest is   *)
(* an inductive invariant of the two commands and their files.             *)
(***************************************************************************)
EXTENDS LensStudy, SequenceTheorems, WellFoundedInduction, TLAPS

-----------------------------------------------------------------------------
(* Searches.  A search that is not over goes on at a smaller interval.      *)

LEMMA SmallestNat ==
  ASSUME NEW T, T \subseteq Nat, T # {}
  PROVE  \E n \in T : \A m \in T : n <= m
<1>1. PICK n \in T : \A m \in T : <<m, n>> \notin OpToRel(<, Nat)
  BY NatLessThanWellFounded, WFMin
<1>2. \A m \in T : ~ (m < n)
  BY <1>1 DEF OpToRel
<1> QED BY <1>2

(* f answers for each w by what it answers for the next one. *)
Descends(W, next, size) == /\ next \in [W -> W] /\ size \in [W -> Nat]
                           /\ \A w \in W : size[w] # 0 => size[next[w]] < size[w]
Follows(W, next, size, base, f) ==
  \A w \in W : f[w] = IF size[w] = 0 THEN base[w] ELSE f[next[w]]

(* What the steps keep of an interval, the answer owes to the last one.      *)
LEMMA DescentKeeps ==
  ASSUME NEW W, NEW next, NEW size, Descends(W, next, size),
         NEW base, NEW f, Follows(W, next, size, base, f),
         NEW Good, Good \subseteq W, \A w \in Good : size[w] # 0 => next[w] \in Good,
         NEW V, \A w \in Good : size[w] = 0 => base[w] \in V
  PROVE  \A w \in Good : f[w] \in V
<1> DEFINE Odd == {n \in Nat : \E w \in Good : size[w] = n /\ f[w] \notin V}
<1>1. SUFFICES ASSUME Odd # {}  PROVE FALSE
  BY <1>1 DEF Descends
<1>2. PICK n \in Odd : \A m \in Odd : n <= m
  <2>1. Odd \subseteq Nat
    OBVIOUS
  <2> HIDE DEF Odd
  <2> QED BY <1>1, <2>1, SmallestNat
<1>3. PICK w \in Good : size[w] = n /\ f[w] \notin V
  BY <1>2
<1>4. CASE size[w] = 0
  BY <1>3, <1>4 DEF Follows
<1>5. CASE size[w] # 0
  <2>1. next[w] \in Good /\ size[next[w]] \in Nat /\ size[next[w]] < n
    BY <1>3, <1>5 DEF Descends
  <2>2. f[next[w]] \in V
    BY <1>2, <2>1
  <2> QED BY <1>3, <1>5, <2>2 DEF Follows
<1> QED BY <1>4, <1>5

LEMMA DescentExists ==
  ASSUME NEW W, NEW next, NEW size, Descends(W, next, size), NEW base,
         NEW N \in Nat, \A w \in W : size[w] <= N
  PROVE  \E f : f = [w \in W |-> f[w]] /\ Follows(W, next, size, base, f)
<1> DEFINE Below(n) == {w \in W : size[w] <= n}
           Solves(f, n) == f = [w \in Below(n) |-> IF size[w] = 0 THEN base[w] ELSE f[next[w]]]
           Odd == {n \in Nat : ~ \E f : Solves(f, n)}
<1>1. SUFFICES Odd = {}
  <2>1. PICK f : Solves(f, N)
    BY <1>1
  <2>2. Below(N) = W
    OBVIOUS
  <2>3. f = [w \in W |-> IF size[w] = 0 THEN base[w] ELSE f[next[w]]]
    BY <2>1, <2>2
  <2>4. Follows(W, next, size, base, f)
    BY <2>3 DEF Follows
  <2>5. f = [w \in W |-> f[w]]
    BY <2>3
  <2> QED BY <2>4, <2>5
<1>2. SUFFICES ASSUME Odd # {}  PROVE FALSE
  BY <1>2
<1>3. PICK n \in Odd : \A m \in Odd : n <= m
  <2>1. Odd \subseteq Nat
    OBVIOUS
  <2> HIDE DEF Odd
  <2> QED BY <1>2, <2>1, SmallestNat
<1>4. CASE n = 0
  <2>1. \A w \in Below(0) : size[w] = 0
    BY DEF Descends
  <2>2. Solves([w \in Below(0) |-> base[w]], 0)
    BY <2>1
  <2> QED BY <1>3, <1>4, <2>2
<1>5. CASE n # 0
  <2>1. n - 1 \in Nat /\ n - 1 \notin Odd
    <3>1. n \in Nat
      OBVIOUS
    <3> HIDE DEF Odd
    <3> QED BY <1>3, <1>5, <3>1
  <2>2. PICK f : Solves(f, n - 1)
    BY <2>1
  <2> DEFINE g == [w \in Below(n) |-> IF size[w] = 0 THEN base[w] ELSE f[next[w]]]
  <2>3. \A w \in Below(n - 1) : w \in Below(n) /\ g[w] = f[w]
    <3>1. \A w \in Below(n - 1) : f[w] = IF size[w] = 0 THEN base[w] ELSE f[next[w]]
      BY <2>2
    <3>2. Below(n - 1) \subseteq Below(n)
      BY <1>3 DEF Descends
    <3> QED BY <3>1, <3>2
  <2>4. \A w \in Below(n) : size[w] # 0 => next[w] \in Below(n - 1)
    BY <1>3 DEF Descends
  <2>5. Solves(g, n)
    <3>1. \A w \in Below(n) : size[w] # 0 => g[next[w]] = f[next[w]]
      BY <2>3, <2>4
    <3> QED BY <3>1
  <2> QED BY <1>3, <2>5
<1> QED BY <1>4, <1>5

(* token_spans.py searches boundaries whose order it does not rely on.      *)
IsCompletion(b, n) == n \in Nat /\ b \in [0..n -> Nat]

LEMMA CountIs == ASSUME NEW b, NEW n, IsCompletion(b, n)  PROVE Count(b) = n
<1>1. DOMAIN b = 0..n /\ n \in Nat
  BY DEF IsCompletion
<1>2. \A m \in DOMAIN b : (\A i \in DOMAIN b : i <= m) => m = n
  BY <1>1
<1>3. n \in DOMAIN b /\ \A i \in DOMAIN b : i <= n
  BY <1>1
<1> QED BY <1>2, <1>3 DEF Count

Width(b) == [w \in Intervals(b) |-> IF w[1] >= w[2] THEN 0 ELSE w[2] - w[1]]
Lower(b) == [w \in Intervals(b) |-> w[1]]
RightStep(b, c) ==
  [w \in Intervals(b) |-> IF w[1] >= w[2] THEN w
                         ELSE IF b[Middle(w[1], w[2] + 1)] <= c THEN <<Middle(w[1], w[2] + 1), w[2]>>
                         ELSE <<w[1], Middle(w[1], w[2] + 1) - 1>>]
LeftStep(b, c) ==
  [w \in Intervals(b) |-> IF w[1] >= w[2] THEN w
                         ELSE IF b[Middle(w[1], w[2])] >= c THEN <<w[1], Middle(w[1], w[2])>>
                         ELSE <<Middle(w[1], w[2]) + 1, w[2]>>]

LEMMA Intervals2 ==
  ASSUME NEW b, NEW n, IsCompletion(b, n), NEW w \in Intervals(b)
  PROVE  w[1] \in 0..n /\ w[2] \in 0..n /\ w = <<w[1], w[2]>>
BY DEF Intervals, IsCompletion

LEMMA StepsDescend ==
  ASSUME NEW b, NEW n, IsCompletion(b, n), NEW c
  PROVE  /\ Descends(Intervals(b), RightStep(b, c), Width(b))
         /\ Descends(Intervals(b), LeftStep(b, c), Width(b))
         /\ \A w \in Intervals(b) : Width(b)[w] <= n
<1>0. n \in Nat /\ DOMAIN b = 0..n
  BY DEF IsCompletion
<1>1. \A i, j \in 0..n : <<i, j>> \in Intervals(b)
  BY <1>0 DEF Intervals
<1>2. ASSUME NEW w \in Intervals(b)  PROVE Width(b)[w] \in Nat /\ Width(b)[w] <= n
  BY <1>0, <1>2, Intervals2 DEF Width
<1>3. \A i, j \in 0..n : i < j => /\ Middle(i, j + 1) \in (i + 1)..j
                                   /\ Middle(i, j) \in i..(j - 1)
  BY <1>0 DEF Middle
<1>4. ASSUME NEW w \in Intervals(b)
      PROVE  /\ RightStep(b, c)[w] \in Intervals(b)
             /\ Width(b)[w] # 0 => Width(b)[RightStep(b, c)[w]] < Width(b)[w]
  <2>0. w[1] \in 0..n /\ w[2] \in 0..n
    BY Intervals2
  <2>1. CASE w[1] >= w[2]
    BY <2>1 DEF RightStep, Width
  <2>2. CASE ~ (w[1] >= w[2])
    <3> DEFINE m == Middle(w[1], w[2] + 1)
    <3>1. m \in (w[1] + 1)..w[2]
      BY <1>3, <2>0, <2>2
    <3>2. RightStep(b, c)[w] \in {<<m, w[2]>>, <<w[1], m - 1>>}
      BY <2>2 DEF RightStep
    <3> HIDE DEF m
    <3>3. m \in 0..n /\ m - 1 \in 0..n
      BY <1>0, <2>0, <3>1
    <3>4. <<m, w[2]>> \in Intervals(b) /\ <<w[1], m - 1>> \in Intervals(b)
      BY <1>1, <2>0, <3>3
    <3>5. Width(b)[w] = w[2] - w[1]
      BY <2>2 DEF Width
    <3>6. /\ Width(b)[<<m, w[2]>>] = IF m >= w[2] THEN 0 ELSE w[2] - m
          /\ Width(b)[<<w[1], m - 1>>] = IF w[1] >= m - 1 THEN 0 ELSE m - 1 - w[1]
      BY <3>4 DEF Width
    <3>7. Width(b)[<<m, w[2]>>] < Width(b)[w] /\ Width(b)[<<w[1], m - 1>>] < Width(b)[w]
      BY <2>0, <2>2, <3>1, <3>5, <3>6
    <3> QED BY <3>2, <3>4, <3>7
  <2> QED BY <2>1, <2>2
<1>5. ASSUME NEW w \in Intervals(b)
      PROVE  /\ LeftStep(b, c)[w] \in Intervals(b)
             /\ Width(b)[w] # 0 => Width(b)[LeftStep(b, c)[w]] < Width(b)[w]
  <2>0. w[1] \in 0..n /\ w[2] \in 0..n
    BY Intervals2
  <2>1. CASE w[1] >= w[2]
    BY <2>1 DEF LeftStep, Width
  <2>2. CASE ~ (w[1] >= w[2])
    <3> DEFINE m == Middle(w[1], w[2])
    <3>1. m \in w[1]..(w[2] - 1)
      BY <1>3, <2>0, <2>2
    <3>2. LeftStep(b, c)[w] \in {<<w[1], m>>, <<m + 1, w[2]>>}
      BY <2>2 DEF LeftStep
    <3> HIDE DEF m
    <3>3. m \in 0..n /\ m + 1 \in 0..n
      BY <1>0, <2>0, <3>1
    <3>4. <<w[1], m>> \in Intervals(b) /\ <<m + 1, w[2]>> \in Intervals(b)
      BY <1>1, <2>0, <3>3
    <3>5. Width(b)[w] = w[2] - w[1]
      BY <2>2 DEF Width
    <3>6. /\ Width(b)[<<w[1], m>>] = IF w[1] >= m THEN 0 ELSE m - w[1]
          /\ Width(b)[<<m + 1, w[2]>>] = IF m + 1 >= w[2] THEN 0 ELSE w[2] - (m + 1)
      BY <3>4 DEF Width
    <3>7. Width(b)[<<w[1], m>>] < Width(b)[w] /\ Width(b)[<<m + 1, w[2]>>] < Width(b)[w]
      BY <2>0, <2>2, <3>1, <3>5, <3>6
    <3> QED BY <3>2, <3>4, <3>7
  <2> QED BY <2>1, <2>2
<1>6. RightStep(b, c) \in [Intervals(b) -> Intervals(b)] /\ LeftStep(b, c) \in [Intervals(b) -> Intervals(b)]
  BY <1>4, <1>5 DEF RightStep, LeftStep
<1>7. Width(b) \in [Intervals(b) -> Nat]
  BY <1>2 DEF Width
<1> QED BY <1>2, <1>4, <1>5, <1>6, <1>7 DEF Descends

(* The search from any interval is what its step makes it.                  *)
RightSearch(b, c, f) ==
  f = [w \in Intervals(b) |->
        IF w[1] >= w[2] THEN w[1]
        ELSE IF b[Middle(w[1], w[2] + 1)] <= c
             THEN f[<<Middle(w[1], w[2] + 1), w[2]>>]
             ELSE f[<<w[1], Middle(w[1], w[2] + 1) - 1>>]]
LeftSearch(b, c, f) ==
  f = [w \in Intervals(b) |->
        IF w[1] >= w[2] THEN w[1]
        ELSE IF b[Middle(w[1], w[2])] >= c
             THEN f[<<w[1], Middle(w[1], w[2])>>]
             ELSE f[<<Middle(w[1], w[2]) + 1, w[2]>>]]

LEMMA RightSearchExists ==
  ASSUME NEW b, NEW n, IsCompletion(b, n), NEW c
  PROVE  \E f : RightSearch(b, c, f)
<1> DEFINE W == Intervals(b)
<1>1. n \in Nat
  BY DEF IsCompletion
<1>2. PICK f : f = [w \in W |-> f[w]] /\ Follows(W, RightStep(b, c), Width(b), Lower(b), f)
  <2>1. Descends(W, RightStep(b, c), Width(b)) /\ \A w \in W : Width(b)[w] <= n
    BY StepsDescend
  <2> HIDE DEF W
  <2> QED BY <1>1, <2>1, DescentExists
<1>3. ASSUME NEW w \in W
      PROVE  f[w] = IF w[1] >= w[2] THEN w[1]
                    ELSE IF b[Middle(w[1], w[2] + 1)] <= c
                         THEN f[<<Middle(w[1], w[2] + 1), w[2]>>]
                         ELSE f[<<w[1], Middle(w[1], w[2] + 1) - 1>>]
  <2>1. f[w] = IF Width(b)[w] = 0 THEN Lower(b)[w] ELSE f[RightStep(b, c)[w]]
    BY <1>2 DEF Follows
  <2>2. w[1] \in Int /\ w[2] \in Int
    BY Intervals2 DEF IsCompletion
  <2>3. (Width(b)[w] = 0) = (w[1] >= w[2])
    BY <2>2 DEF Width
  <2> QED BY <2>1, <2>3 DEF Lower, RightStep
<1> QED BY <1>2, <1>3 DEF RightSearch

LEMMA LeftSearchExists ==
  ASSUME NEW b, NEW n, IsCompletion(b, n), NEW c
  PROVE  \E f : LeftSearch(b, c, f)
<1> DEFINE W == Intervals(b)
<1>1. n \in Nat
  BY DEF IsCompletion
<1>2. PICK f : f = [w \in W |-> f[w]] /\ Follows(W, LeftStep(b, c), Width(b), Lower(b), f)
  <2>1. Descends(W, LeftStep(b, c), Width(b)) /\ \A w \in W : Width(b)[w] <= n
    BY StepsDescend
  <2> HIDE DEF W
  <2> QED BY <1>1, <2>1, DescentExists
<1>3. ASSUME NEW w \in W
      PROVE  f[w] = IF w[1] >= w[2] THEN w[1]
                    ELSE IF b[Middle(w[1], w[2])] >= c
                         THEN f[<<w[1], Middle(w[1], w[2])>>]
                         ELSE f[<<Middle(w[1], w[2]) + 1, w[2]>>]
  <2>1. f[w] = IF Width(b)[w] = 0 THEN Lower(b)[w] ELSE f[LeftStep(b, c)[w]]
    BY <1>2 DEF Follows
  <2>2. w[1] \in Int /\ w[2] \in Int
    BY Intervals2 DEF IsCompletion
  <2>3. (Width(b)[w] = 0) = (w[1] >= w[2])
    BY <2>2 DEF Width
  <2> QED BY <2>1, <2>3 DEF Lower, LeftStep
<1> QED BY <1>2, <1>3 DEF LeftSearch

(* A search keeps what it has found of its bounds, whatever lies between.    *)
GoodRight(b, n, c) == {w \in Intervals(b) : /\ w[1] <= w[2] /\ b[w[1]] <= c
                                            /\ (w[2] < n => b[w[2] + 1] > c)}
GoodLeft(b, c) == {w \in Intervals(b) : /\ w[1] <= w[2] /\ b[w[2]] >= c
                                        /\ (w[1] > 0 => b[w[1] - 1] < c)}
Floors(b, n, c) == {r \in 0..n : b[r] <= c /\ (r < n => b[r + 1] > c)}
Ceilings(b, n, c) == {r \in 0..n : b[r] >= c /\ (r > 0 => b[r - 1] < c)}

LEMMA InGoodRight ==
  ASSUME NEW b, NEW n, NEW c, NEW i, NEW j, <<i, j>> \in Intervals(b),
         i <= j, b[i] <= c, j < n => b[j + 1] > c
  PROVE  <<i, j>> \in GoodRight(b, n, c)
BY DEF GoodRight

LEMMA InGoodLeft ==
  ASSUME NEW b, NEW c, NEW i, NEW j, <<i, j>> \in Intervals(b),
         i <= j, b[j] >= c, i > 0 => b[i - 1] < c
  PROVE  <<i, j>> \in GoodLeft(b, c)
BY DEF GoodLeft

LEMMA StepsKeep ==
  ASSUME NEW b, NEW n, IsCompletion(b, n), NEW c \in Int
  PROVE  /\ \A w \in GoodRight(b, n, c) : Width(b)[w] # 0 => RightStep(b, c)[w] \in GoodRight(b, n, c)
         /\ \A w \in GoodLeft(b, c) : Width(b)[w] # 0 => LeftStep(b, c)[w] \in GoodLeft(b, c)
         /\ \A w \in GoodRight(b, n, c) : Width(b)[w] = 0 => Lower(b)[w] \in Floors(b, n, c)
         /\ \A w \in GoodLeft(b, c) : Width(b)[w] = 0 => Lower(b)[w] \in Ceilings(b, n, c)
<1>0. n \in Nat /\ DOMAIN b = 0..n /\ \A i \in 0..n : b[i] \in Int
  BY DEF IsCompletion
<1>1. \A i, j \in 0..n : <<i, j>> \in Intervals(b)
  BY <1>0 DEF Intervals
<1>2. \A i, j \in 0..n : i < j => /\ Middle(i, j + 1) \in (i + 1)..j
                                   /\ Middle(i, j) \in i..(j - 1)
  BY <1>0 DEF Middle
<1>3. ASSUME NEW w \in GoodRight(b, n, c), Width(b)[w] # 0
      PROVE  RightStep(b, c)[w] \in GoodRight(b, n, c)
  <2>0. w \in Intervals(b) /\ w[1] \in 0..n /\ w[2] \in 0..n
    BY Intervals2 DEF GoodRight
  <2>1. w[1] < w[2] /\ b[w[1]] <= c /\ (w[2] < n => b[w[2] + 1] > c)
    BY <1>3, <2>0 DEF Width, GoodRight
  <2> DEFINE m == Middle(w[1], w[2] + 1)
  <2>2. RightStep(b, c)[w] = IF b[m] <= c THEN <<m, w[2]>> ELSE <<w[1], m - 1>>
    BY <2>0, <2>1 DEF RightStep
  <2>3. m \in (w[1] + 1)..w[2]
    BY <1>2, <2>0, <2>1
  <2> HIDE DEF m
  <2>4. m \in 0..n /\ m - 1 \in 0..n /\ m - 1 + 1 = m
    BY <1>0, <2>0, <2>3
  <2>5. CASE b[m] <= c
    <3>1. <<m, w[2]>> \in GoodRight(b, n, c)
      <4>1. <<m, w[2]>> \in Intervals(b) /\ m <= w[2]
        BY <1>1, <2>0, <2>3, <2>4
      <4> QED BY <4>1, <2>1, <2>5, InGoodRight
    <3> QED BY <2>2, <2>5, <3>1
  <2>6. CASE ~ (b[m] <= c)
    <3>1. <<w[1], m - 1>> \in GoodRight(b, n, c)
      <4> DEFINE k == m - 1
      <4>1. <<w[1], k>> \in Intervals(b) /\ w[1] <= k
        BY <1>1, <2>0, <2>3, <2>4
      <4>2. b[w[1]] <= c /\ b[k + 1] > c
        BY <1>0, <2>1, <2>4, <2>6
      <4> HIDE DEF k
      <4>3. <<w[1], k>> \in GoodRight(b, n, c)
        BY <4>1, <4>2, InGoodRight
      <4> QED BY <4>3 DEF k
    <3> QED BY <2>2, <2>6, <3>1
  <2> QED BY <2>5, <2>6
<1>4. ASSUME NEW w \in GoodLeft(b, c), Width(b)[w] # 0
      PROVE  LeftStep(b, c)[w] \in GoodLeft(b, c)
  <2>0. w \in Intervals(b) /\ w[1] \in 0..n /\ w[2] \in 0..n
    BY Intervals2 DEF GoodLeft
  <2>1. w[1] < w[2] /\ b[w[2]] >= c /\ (w[1] > 0 => b[w[1] - 1] < c)
    BY <1>4, <2>0 DEF Width, GoodLeft
  <2> DEFINE m == Middle(w[1], w[2])
  <2>2. LeftStep(b, c)[w] = IF b[m] >= c THEN <<w[1], m>> ELSE <<m + 1, w[2]>>
    BY <2>0, <2>1 DEF LeftStep
  <2>3. m \in w[1]..(w[2] - 1)
    BY <1>2, <2>0, <2>1
  <2> HIDE DEF m
  <2>4. m \in 0..n /\ m + 1 \in 0..n /\ m + 1 - 1 = m
    BY <1>0, <2>0, <2>3
  <2>5. CASE b[m] >= c
    <3>1. <<w[1], m>> \in GoodLeft(b, c)
      <4>1. <<w[1], m>> \in Intervals(b) /\ w[1] <= m
        BY <1>1, <2>0, <2>3, <2>4
      <4> QED BY <4>1, <2>1, <2>5, InGoodLeft
    <3> QED BY <2>2, <2>5, <3>1
  <2>6. CASE ~ (b[m] >= c)
    <3>1. <<m + 1, w[2]>> \in GoodLeft(b, c)
      <4> DEFINE k == m + 1
      <4>1. <<k, w[2]>> \in Intervals(b) /\ k <= w[2]
        BY <1>1, <2>0, <2>3, <2>4
      <4>2. b[w[2]] >= c /\ b[k - 1] < c
        BY <1>0, <2>1, <2>4, <2>6
      <4> HIDE DEF k
      <4>3. <<k, w[2]>> \in GoodLeft(b, c)
        BY <4>1, <4>2, InGoodLeft
      <4> QED BY <4>3 DEF k
    <3> QED BY <2>2, <2>6, <3>1
  <2> QED BY <2>5, <2>6
<1>5. ASSUME NEW w \in GoodRight(b, n, c), Width(b)[w] = 0  PROVE Lower(b)[w] \in Floors(b, n, c)
  <2>1. w \in Intervals(b) /\ w[1] \in 0..n /\ w[2] \in 0..n
    BY Intervals2 DEF GoodRight
  <2>2. w[1] = w[2] /\ b[w[1]] <= c /\ (w[2] < n => b[w[2] + 1] > c)
    BY <1>5, <2>1 DEF Width, GoodRight
  <2> QED BY <2>1, <2>2 DEF Lower, Floors
<1>6. ASSUME NEW w \in GoodLeft(b, c), Width(b)[w] = 0  PROVE Lower(b)[w] \in Ceilings(b, n, c)
  <2>1. w \in Intervals(b) /\ w[1] \in 0..n /\ w[2] \in 0..n
    BY Intervals2 DEF GoodLeft
  <2>2. w[1] = w[2] /\ b[w[2]] >= c /\ (w[1] > 0 => b[w[1] - 1] < c)
    BY <1>6, <2>1 DEF Width, GoodLeft
  <2> QED BY <2>1, <2>2 DEF Lower, Ceilings
<1> QED BY <1>3, <1>4, <1>5, <1>6

LEMMA RightFollows ==
  ASSUME NEW b, NEW n, IsCompletion(b, n), NEW c, NEW search, RightSearch(b, c, search)
  PROVE  Follows(Intervals(b), RightStep(b, c), Width(b), Lower(b), search)
<1>1. SUFFICES ASSUME NEW w \in Intervals(b)
               PROVE  search[w] = IF Width(b)[w] = 0 THEN Lower(b)[w]
                                  ELSE search[RightStep(b, c)[w]]
  BY DEF Follows
<1>2. w[1] \in Int /\ w[2] \in Int
  BY Intervals2 DEF IsCompletion
<1>3. (Width(b)[w] = 0) = (w[1] >= w[2])
  BY <1>2 DEF Width
<1> QED BY <1>3 DEF Lower, RightStep, RightSearch

LEMMA LeftFollows ==
  ASSUME NEW b, NEW n, IsCompletion(b, n), NEW c, NEW search, LeftSearch(b, c, search)
  PROVE  Follows(Intervals(b), LeftStep(b, c), Width(b), Lower(b), search)
<1>1. SUFFICES ASSUME NEW w \in Intervals(b)
               PROVE  search[w] = IF Width(b)[w] = 0 THEN Lower(b)[w]
                                  ELSE search[LeftStep(b, c)[w]]
  BY DEF Follows
<1>2. w[1] \in Int /\ w[2] \in Int
  BY Intervals2 DEF IsCompletion
<1>3. (Width(b)[w] = 0) = (w[1] >= w[2])
  BY <1>2 DEF Width
<1> QED BY <1>3 DEF Lower, LeftStep, LeftSearch

(* Each search ends in a set that its steps keep to.                        *)
LEMMA RightEnds ==
  ASSUME NEW b, NEW n, IsCompletion(b, n), NEW c,
         NEW Good, Good \subseteq Intervals(b), <<0, n>> \in Good,
         \A w \in Good : Width(b)[w] # 0 => RightStep(b, c)[w] \in Good,
         NEW V, \A w \in Good : Width(b)[w] = 0 => Lower(b)[w] \in V
  PROVE  RightmostBoundary(b, c) \in V
<1> DEFINE search == CHOOSE f : RightSearch(b, c, f)
<1>1. RightmostBoundary(b, c) = search[<<0, n>>]
  BY CountIs DEF RightmostBoundary, RightSearch
<1>2. RightSearch(b, c, search)
  BY RightSearchExists
<1> HIDE DEF search
<1>3. Follows(Intervals(b), RightStep(b, c), Width(b), Lower(b), search)
  BY <1>2, RightFollows
<1>4. Descends(Intervals(b), RightStep(b, c), Width(b))
  BY StepsDescend
<1>5. \A w \in Good : search[w] \in V
  BY <1>3, <1>4, DescentKeeps
<1> QED BY <1>1, <1>5

LEMMA LeftEnds ==
  ASSUME NEW b, NEW n, IsCompletion(b, n), NEW c,
         NEW Good, Good \subseteq Intervals(b), <<0, n>> \in Good,
         \A w \in Good : Width(b)[w] # 0 => LeftStep(b, c)[w] \in Good,
         NEW V, \A w \in Good : Width(b)[w] = 0 => Lower(b)[w] \in V
  PROVE  LeftmostBoundary(b, c) \in V
<1> DEFINE search == CHOOSE f : LeftSearch(b, c, f)
<1>1. LeftmostBoundary(b, c) = search[<<0, n>>]
  BY CountIs DEF LeftmostBoundary, LeftSearch
<1>2. LeftSearch(b, c, search)
  BY LeftSearchExists
<1> HIDE DEF search
<1>3. Follows(Intervals(b), LeftStep(b, c), Width(b), Lower(b), search)
  BY <1>2, LeftFollows
<1>4. Descends(Intervals(b), LeftStep(b, c), Width(b))
  BY StepsDescend
<1>5. \A w \in Good : search[w] \in V
  BY <1>3, <1>4, DescentKeeps
<1> QED BY <1>1, <1>5

LEMMA BoundariesTyped ==
  ASSUME NEW b, NEW n, IsCompletion(b, n), NEW c
  PROVE  RightmostBoundary(b, c) \in 0..n /\ LeftmostBoundary(b, c) \in 0..n
<1>1. <<0, n>> \in Intervals(b)
  BY DEF Intervals, IsCompletion
<1>2. \A w \in Intervals(b) : Lower(b)[w] \in 0..n
  BY Intervals2 DEF Lower
<1>3. \A w \in Intervals(b) : /\ RightStep(b, c)[w] \in Intervals(b)
                              /\ LeftStep(b, c)[w] \in Intervals(b)
  BY StepsDescend DEF Descends
<1>4. RightmostBoundary(b, c) \in 0..n
  BY <1>1, <1>2, <1>3, RightEnds
<1> QED BY <1>1, <1>2, <1>3, <1>4, LeftEnds

\* The searches of token_spans.py do what their names say, even of a decoder
\* whose prefixes shrink: when the first boundary is at or before the character,
\* one ends at a boundary at or before it that the next one passes, and when the
\* last boundary is at or after it, the other at one at or after it that the one
\* before has not reached (_rightmost_boundary_at_or_before,
\* _leftmost_boundary_at_or_after).
THEOREM SearchesFind ==
  ASSUME NEW b, NEW n, IsCompletion(b, n), NEW c \in Int
  PROVE  /\ b[0] <= c => LET r == RightmostBoundary(b, c)
                         IN r \in 0..n /\ b[r] <= c /\ (r < n => b[r + 1] > c)
         /\ b[n] >= c => LET r == LeftmostBoundary(b, c)
                         IN r \in 0..n /\ b[r] >= c /\ (r > 0 => b[r - 1] < c)
<1>0. n \in Nat /\ DOMAIN b = 0..n
  BY DEF IsCompletion
<1>1. <<0, n>> \in Intervals(b)
  BY <1>0 DEF Intervals
<1>2. ASSUME b[0] <= c  PROVE RightmostBoundary(b, c) \in Floors(b, n, c)
  <2>1. <<0, n>> \in GoodRight(b, n, c) /\ GoodRight(b, n, c) \subseteq Intervals(b)
    BY <1>0, <1>1, <1>2 DEF GoodRight
  <2> QED BY <2>1, StepsKeep, RightEnds
<1>3. ASSUME b[n] >= c  PROVE LeftmostBoundary(b, c) \in Ceilings(b, n, c)
  <2>1. <<0, n>> \in GoodLeft(b, c) /\ GoodLeft(b, c) \subseteq Intervals(b)
    BY <1>0, <1>1, <1>3 DEF GoodLeft
  <2> QED BY <2>1, StepsKeep, LeftEnds
<1> QED BY <1>2, <1>3 DEF Floors, Ceilings

\* map_completion_span refuses a span of a decoder whose prefixes grow only
\* when the span is empty or leaves the text: its checks that the tokens found
\* enclose the span and are no more than it needs cannot fail.
THEOREM GrowingPrefixesMap ==
  ASSUME NEW b, NEW n, IsCompletion(b, n), b[0] = 0,
         \A i, j \in 0..n : i <= j => b[i] <= b[j],
         NEW from \in Int, NEW to \in Int
  PROVE  Maps(b, from, to) <=> (0 <= from /\ from < to /\ to <= b[n])
<1>0. n \in Nat /\ Count(b) = n /\ \A i \in 0..n : b[i] \in Int
  BY CountIs DEF IsCompletion
<1>1. ASSUME Maps(b, from, to)  PROVE 0 <= from /\ from < to /\ to <= b[n]
  BY <1>0, <1>1 DEF Maps
<1>2. ASSUME 0 <= from, from < to, to <= b[n]  PROVE Maps(b, from, to)
  <2> DEFINE r == RightmostBoundary(b, from)
             l == LeftmostBoundary(b, to)
  <2>1. r \in 0..n /\ b[r] <= from /\ (r < n => b[r + 1] > from)
    BY <1>2, SearchesFind
  <2>2. l \in 0..n /\ b[l] >= to /\ (l > 0 => b[l - 1] < to)
    BY <1>0, <1>2, SearchesFind
  <2>3. Envelope(b, from, to) = [start |-> r, end |-> l]
    BY DEF Envelope
  <2> HIDE DEF r, l
  <2>4. r < l
    <3>1. ASSUME l <= r  PROVE FALSE
      <4>1. b[l] <= b[r]
        BY <2>1, <2>2, <3>1
      <4> QED BY <1>0, <1>2, <2>1, <2>2, <4>1
    <3> QED BY <1>0, <2>1, <2>2, <3>1
  <2> QED BY <1>0, <1>2, <2>1, <2>2, <2>3, <2>4 DEF Maps
<1> QED BY <1>1, <1>2

-----------------------------------------------------------------------------
(* The inductive invariant of the two commands and their files.             *)
LensSteps == {"design", "gate", "authorize", "prepare", "smoke", "full", "short", "passed",
              "failed", "failure", "forward", "records", "execution"}
Steps == {"idle", "measure", "positions", "spans", "summary"} \cup LensSteps
Typed ==
  /\ frozen \in [Traces -> Layouts]
  /\ answers \in [Traces -> Judgments \cup {Nothing}]
  /\ run \in [pc : Steps, trace : 0..TraceCount, attempts : Seq(Attempts)]
  /\ design \in Designs \cup {Nothing} /\ gate \in Gates \cup {Nothing}
  /\ authorization \in Authorizations \cup {Nothing}
  /\ compat \in Compats \cup {Nothing}
  /\ beat \in Nat

(* What was measured: a row is built from an answer that was found in its   *)
(* source and whose spans map, and a frozen row is that row.                *)
Built(t) == /\ answers[t] # Nothing
            /\ Resolves(frozen[t], answers[t]) /\ RowBuilds(frozen[t], answers[t])
Measured ==
  /\ At("measure") => run.trace \in Traces /\ \A t \in 1..(run.trace - 1) : Built(t)
  /\ run.pc \in {"positions", "spans", "summary"} \/ positions # Nothing => \A t \in Traces : Built(t)
  /\ positions # Nothing => positions = Rows

(* What a lens run stands on: the design of the frozen positions, a gate,   *)
(* and the authorization that names both.                                   *)
Designed == positions # Nothing /\ design = Design
Authorized == Designed /\ gate \in Gates /\ authorization = AuthorizationOf
Stands ==
  /\ run.pc \in LensSteps => positions # Nothing
  /\ design # Nothing \/ run.pc \in LensSteps \ {"design"} => Designed
  /\ run.pc \in LensSteps \ {"design", "gate"} => gate \in Gates
  /\ authorization # Nothing \/ run.pc \in LensSteps \ {"design", "gate", "authorize"} => Authorized

(* How the attempts went.                                                   *)
Went(stage, passed) == [stage |-> stage, passed |-> passed]
Gave(pc) ==
  CASE pc \in {"design", "gate", "authorize", "prepare", "smoke"} -> { << >> }
    [] pc = "full" -> { << Went("smoke", TRUE) >> }
    [] pc = "short" -> { << Went("smoke", TRUE), Went("full", FALSE) >> }
    [] pc = "passed" -> { << Went("smoke", TRUE), Went("full", TRUE) >>,
                          << Went("smoke", TRUE), Went("full", FALSE), Went("short", TRUE) >> }
    [] pc = "failed" -> { << Went("smoke", FALSE) >>,
                          << Went("smoke", TRUE), Went("full", FALSE), Went("short", FALSE) >> }
AttemptsGo == run.pc \in LensSteps \ {"failure", "forward", "records", "execution"}
                => run.attempts \in Gave(run.pc)
Passed(c) == c.attempts \in Gave("passed") /\ c.ready = TRUE

(* The one outcome: nothing was read or given up before a run begins, a     *)
(* readout follows a gate that passed, and giving up two failed attempts.   *)
Outcome ==
  /\ run.pc \in LensSteps \ {"design", "gate", "authorize", "prepare", "execution"} => MayRun
  /\ run.pc \in {"forward", "records", "execution"} => Passed(compat)
  /\ At("execution") => records = Records /\ execution = Nothing /\ failure = Nothing
  /\ At("failure") => TwoAttemptsFailed(compat)
  /\ records # Nothing => positions # Nothing /\ records = Records
  /\ failure # Nothing => /\ failure.compat = compat /\ TwoAttemptsFailed(compat)
                          /\ records = Nothing /\ execution = Nothing
  /\ execution # Nothing => /\ Authorized /\ records = Records /\ Passed(compat)
                            /\ execution = ExecutionOf

LInv == Typed /\ Measured /\ Stands /\ AttemptsGo /\ Outcome

AInv == analysis # Nothing => /\ analysis = EvidenceFiles /\ Evidence
                              /\ run.pc \in {"idle", "design", "gate", "authorize", "prepare"}

-----------------------------------------------------------------------------
(* The types are kept.                                                      *)

LEMMA DesignTyped == Design \in Designs
<1>1. \A k \in Cells : Eligible(k[1], k[2], k[3]) \in BOOLEAN
  BY Zenon DEF Eligible
<1> QED BY <1>1, Zenon DEF Design, Designs

LEMMA TriedTyped ==
  ASSUME run.attempts \in Seq(Attempts), NEW stage \in {"smoke", "full", "short"}, NEW passed \in BOOLEAN
  PROVE  Tried(stage, passed) \in Seq(Attempts)
<1>1. [stage |-> stage, passed |-> passed] \in Attempts
  BY Zenon DEF Attempts
<1> DEFINE a == [stage |-> stage, passed |-> passed]
<1> HIDE DEF a
<1>2. Append(run.attempts, a) \in Seq(Attempts)
  BY <1>1 DEF a
<1> QED BY <1>2 DEF Tried, a

LEMMA CompatTyped ==
  ASSUME run.attempts \in Seq(Attempts), NEW ready \in BOOLEAN
  PROVE  CompatOf(ready) \in Compats
BY Zenon DEF CompatOf, Compats

(* A command that goes on, ends, or has tried once more.                    *)
Runs == [pc : Steps, trace : 0..TraceCount, attempts : Seq(Attempts)]

LEMMA RunTyped ==
  ASSUME run \in Runs
  PROVE  run.trace \in 0..TraceCount /\ run.trace \in Int /\ run.pc \in Steps /\ run.attempts \in Seq(Attempts)
BY LensAssumption DEF Runs

LEMMA IdleTyped == Idle \in Runs
<1>1. 0 \in 0..TraceCount
  BY LensAssumption
<1>2. << >> \in Seq(Attempts) /\ "idle" \in Steps
  BY DEF Steps
<1> QED BY <1>1, <1>2 DEF Idle, Runs

LEMMA GoesOn == ASSUME run \in Runs, NEW pc \in Steps, Goto(pc)  PROVE run' \in Runs
BY DEF Goto, Runs

LEMMA Goes ==
  ASSUME Typed, NEW pc, Goto(pc)
  PROVE  run'.pc = pc /\ run'.attempts = run.attempts /\ (At(pc))'
BY DEF Typed, Goto, At

LEMMA Ends == ASSUME Stop  PROVE run'.pc = "idle" /\ At("idle")'
BY DEF Stop, Idle, At

LEMMA Stops == ASSUME Stop  PROVE run' \in Runs
BY IdleTyped DEF Stop

LEMMA Begins ==
  ASSUME NEW pc \in Steps
  PROVE  [Idle EXCEPT !.pc = pc] \in Runs /\ [Idle EXCEPT !.pc = pc, !.trace = 1] \in Runs
<1>1. 1 \in 0..TraceCount
  BY LensAssumption
<1> QED BY <1>1, IdleTyped DEF Runs

LEMMA AttemptMoves ==
  ASSUME run \in Runs, NEW stage \in {"smoke", "full", "short"}, NEW next \in Steps, Attempt(stage, next)
  PROVE  run' \in Runs
<1>1. PICK passed \in BOOLEAN :
        run' = [run EXCEPT !.attempts = Tried(stage, passed),
                           !.pc = IF passed /\ stage = "smoke" THEN "full"
                                  ELSE IF passed THEN "passed" ELSE next]
  BY DEF Attempt
<1>2. Tried(stage, passed) \in Seq(Attempts)
  BY RunTyped, TriedTyped
<1>3. (IF passed /\ stage = "smoke" THEN "full" ELSE IF passed THEN "passed" ELSE next) \in Steps
  BY DEF Steps, LensSteps
<1> QED BY <1>1, <1>2, <1>3 DEF Runs

LEMMA InitTyped == Init => Typed
BY IdleTyped DEF Init, Typed, Runs

LEMMA NextTyped == Typed /\ Stands /\ [Next]_vars => Typed'
<1> SUFFICES ASSUME Typed, Stands, [Next]_vars  PROVE Typed'
  OBVIOUS
<1> USE DEF Typed
<1>0. run \in Runs
  BY DEF Runs
<1>1. CASE UNCHANGED vars
  BY <1>1 DEF vars, gateFiles, lensFiles, positionFiles
<1>2. ASSUME run' \in Runs, UNCHANGED <<frozen, answers, gateFiles, lensFiles, beat>>
      PROVE  Typed'
  BY <1>2 DEF Runs, gateFiles, lensFiles
<1>3. CASE BeginPositions
  BY <1>2, <1>3, Begins DEF BeginPositions, Steps
<1>4. CASE Ask
  BY <1>4 DEF Ask, gateFiles, lensFiles
<1>5. CASE Measure
  <2>1. CASE Goto("positions") \/ Stop
    <3>1. run' \in Runs
      BY <1>0, <2>1, GoesOn, Stops DEF Steps
    <3> QED BY <1>2, <1>5, <3>1 DEF Measure
  <2>2. CASE run.trace < TraceCount /\ run' = [run EXCEPT !.trace = @ + 1]
    <3>1. run.trace + 1 \in 0..TraceCount
      BY <1>0, <2>2, RunTyped, LensAssumption
    <3>2. run' \in Runs
      BY <1>0, <2>2, <3>1 DEF Runs
    <3> QED BY <1>2, <1>5, <3>2 DEF Measure
  <2> QED BY <1>5, <2>1, <2>2 DEF Measure
<1>6. CASE FreezePositions \/ FreezeSpans \/ FreezeSummary
  <2>1. Goto("spans") \/ Goto("summary") \/ Stop
    BY <1>6 DEF FreezePositions, FreezeSpans, FreezeSummary
  <2>2. run' \in Runs
    BY <1>0, <2>1, GoesOn, Stops DEF Steps
  <2> QED BY <1>2, <1>6, <2>2 DEF FreezePositions, FreezeSpans, FreezeSummary
<1>7. CASE BeginLens
  BY <1>2, <1>7, Begins DEF BeginLens, Steps, LensSteps
<1>8. CASE Prepare \/ Forward \/ Kill
  <2>1. Goto("smoke") \/ Goto("records") \/ Stop
    BY <1>8 DEF Prepare, Forward, Kill
  <2>2. run' \in Runs
    BY <1>0, <2>1, GoesOn, Stops DEF Steps, LensSteps
  <2> QED BY <1>2, <1>8, <2>2 DEF Prepare, Forward, Kill
<1>9. CASE FreezeDesign
  <2>1. run' \in Runs /\ design' \in Designs
    BY <1>0, <1>9, GoesOn, DesignTyped DEF FreezeDesign, Steps, LensSteps
  <2> QED BY <1>9, <2>1 DEF FreezeDesign, Runs, lensFiles
<1>10. CASE FreezeGate
  <2>1. SessionGate \in Gates
    BY DEF SessionGate, Gates
  <2>2. Goto("authorize") \/ Stop
    BY <1>10 DEF FreezeGate
  <2>3. run' \in Runs
    BY <1>0, <2>2, GoesOn, Stops DEF Steps, LensSteps
  <2> QED BY <1>10, <2>1, <2>3 DEF FreezeGate, Runs, lensFiles
<1>11. CASE Smoke \/ Full \/ Short
  <2>1. run' \in Runs
    BY <1>0, <1>11, AttemptMoves DEF Smoke, Full, Short, Steps, LensSteps
  <2> QED BY <1>2, <1>11, <2>1 DEF Smoke, Full, Short, Attempt
<1>12. CASE WriteCompat
  <2>1. Goto("forward") \/ Goto("failure") \/ Stop
    BY <1>12 DEF WriteCompat
  <2>2. run' \in Runs
    BY <1>0, <2>1, GoesOn, Stops DEF Steps, LensSteps
  <2>3. CompatOf(TRUE) \in Compats /\ CompatOf(FALSE) \in Compats
    BY <1>0, RunTyped, CompatTyped
  <2>4. compat' \in Compats
    BY <1>12, <2>3 DEF WriteCompat
  <2> QED BY <1>12, <2>2, <2>4 DEF WriteCompat, Runs, gateFiles
<1>13. CASE WriteFailure \/ WriteRecords \/ WriteExecution
  <2>1. Goto("execution") \/ Stop
    BY <1>13 DEF WriteFailure, WriteRecords, WriteExecution
  <2>2. run' \in Runs
    BY <1>0, <2>1, GoesOn, Stops DEF Steps, LensSteps
  <2> QED BY <1>13, <2>2 DEF WriteFailure, WriteRecords, WriteExecution, Runs, gateFiles
<1>14. CASE Validate \/ Analyze
  BY <1>14 DEF Validate, Analyze, gateFiles, lensFiles
<1>15. CASE Heartbeat
  BY <1>15 DEF Heartbeat, gateFiles, lensFiles
<1>16. CASE FreezeAuthorization
  <2>1. run' \in Runs
    BY <1>0, <1>16, GoesOn DEF FreezeAuthorization, Steps, LensSteps
  <2>2. gate \in Gates /\ design = Design
    BY <1>16 DEF FreezeAuthorization, At, Stands, Designed, LensSteps
  <2>3. AuthorizationOf \in Authorizations
    BY <2>2, DesignTyped DEF AuthorizationOf, Authorizations
  <2> QED BY <1>16, <2>1, <2>3 DEF FreezeAuthorization, Runs, lensFiles
<1> HIDE DEF Typed
<1> QED
  BY <1>1, <1>3, <1>4, <1>5, <1>6, <1>7, <1>8, <1>9, <1>10, <1>11, <1>12, <1>13, <1>14, <1>15, <1>16 DEF Next

-----------------------------------------------------------------------------
(* What the files follow from stands while those stand.                     *)

LEMMA RowsStand ==
  ASSUME UNCHANGED <<frozen, answers>>
  PROVE  Rows' = Rows /\ \A t \in Traces : Built(t)' = Built(t)
BY DEF Rows, Built, Resolves, RowBuilds

LEMMA ReadingsStand ==
  ASSUME UNCHANGED <<frozen, positions>>
  PROVE  Design' = Design /\ Records' = Records
<1>1. ASSUME NEW k \in Cells
      PROVE  Eligible(k[1], k[2], k[3])' = Eligible(k[1], k[2], k[3])
  BY DEF Eligible
<1>2. Design' = Design
  BY <1>1 DEF Design
<1>3. ASSUME NEW k \in Cells
      PROVE  Readout(k[1], k[2], k[3])' = Readout(k[1], k[2], k[3])
  BY <1>1 DEF Readout, Sign
<1> QED BY <1>2, <1>3 DEF Records

LEMMA AuthorizationStands ==
  ASSUME UNCHANGED <<frozen, positions, design, gate, authorization>>
  PROVE  Designed' = Designed /\ Authorized' = Authorized /\ AuthorizationOf' = AuthorizationOf
BY ReadingsStand DEF Designed, Authorized, AuthorizationOf

-----------------------------------------------------------------------------
(* Measured: rows are built from answers that were found and that stay.     *)

LEMMA InitMeasured == Init => Measured
BY DEF Init, Measured, At, Idle

LEMMA NextMeasured == Typed /\ Measured /\ [Next]_vars => Measured'
<1> SUFFICES ASSUME Typed, Measured, [Next]_vars  PROVE Measured'
  OBVIOUS
<1> TraceCount \in Nat \ {0}
  BY LensAssumption
<1>1. ASSUME UNCHANGED <<frozen, answers, positions>>,
             run' = run \/ run'.pc \notin {"measure", "positions", "spans", "summary"}
      PROVE  Measured'
  <2>1. Rows' = Rows /\ \A t \in Traces : Built(t)' = Built(t)
    BY <1>1, RowsStand
  <2>2. positions # Nothing => \A t \in Traces : Built(t)
    BY DEF Measured
  <2>3. CASE run' = run
    <3>1. At("measure") => \A t \in 1..(run.trace - 1) : t \in Traces
      BY DEF Measured, Traces
    <3> QED BY <1>1, <2>1, <2>3, <3>1 DEF Measured, At
  <2>4. CASE run'.pc \notin {"measure", "positions", "spans", "summary"}
    BY <1>1, <2>1, <2>2, <2>4 DEF Measured, At
  <2> QED BY <1>1, <2>3, <2>4
<1>2. CASE BeginPositions
  <2>1. run'.pc = "measure" /\ run'.trace = 1
    BY <1>2 DEF BeginPositions, Idle
  <2> QED BY <1>2, <2>1 DEF BeginPositions, positionFiles, Measured, At, Traces
<1>3. CASE Ask
  <2>1. /\ run.trace \in Traces /\ answers[run.trace] = Nothing
        /\ \A t \in Traces \ {run.trace} : answers'[t] = answers[t]
        /\ run' = run /\ frozen' = frozen /\ positions' = positions /\ At("measure")
    BY <1>3 DEF Ask, Measured, positionFiles, Typed
  <2>2. positions = Nothing
    BY <2>1 DEF Measured, Built
  <2>3. \A t \in 1..(run.trace - 1) : t \in Traces \ {run.trace} /\ Built(t)
    BY <2>1 DEF Measured, Traces
  <2>4. \A t \in Traces \ {run.trace} : Built(t)' = Built(t)
    BY <2>1 DEF Built
  <2>5. \A t \in 1..(run.trace - 1) : Built(t)'
    BY <2>3, <2>4
  <2> QED BY <2>1, <2>2, <2>5 DEF Measured, At
<1>4. CASE Measure
  <2>1. /\ At("measure") /\ run.trace \in Traces /\ UNCHANGED <<frozen, answers, positions>>
        /\ \A t \in 1..(run.trace - 1) : Built(t)
    BY <1>4 DEF Measure, positionFiles, Measured
  <2>2. Rows' = Rows /\ \A t \in Traces : Built(t)' = Built(t)
    BY <2>1, RowsStand
  <2>3. CASE Resolves(frozen[run.trace], answers[run.trace]) /\ RowBuilds(frozen[run.trace], answers[run.trace])
    <3>1. \A t \in 1..run.trace : t \in Traces /\ Built(t)
      BY <1>4, <2>1, <2>3 DEF Measure, Built, Traces
    <3>2. CASE run.trace < TraceCount
      <4>1. run'.pc = "measure" /\ run'.trace = run.trace + 1
        BY <1>4, <2>1, <2>3, <3>2 DEF Measure, Typed, At
      <4>2. run'.trace \in Traces /\ \A t \in 1..(run'.trace - 1) : t \in 1..run.trace
        BY <2>1, <3>2, <4>1 DEF Traces
      <4> QED BY <2>1, <2>2, <3>1, <4>1, <4>2 DEF Measured, At
    <3>3. CASE ~ (run.trace < TraceCount)
      <4>1. run'.pc = "positions"
        BY <1>4, <2>1, <2>3, <3>3 DEF Measure, Typed, Goto
      <4>2. \A t \in Traces : t \in 1..run.trace
        BY <2>1, <3>3 DEF Traces
      <4> QED BY <2>1, <2>2, <3>1, <4>1, <4>2 DEF Measured, At
    <3> QED BY <3>2, <3>3
  <2>4. CASE ~ (Resolves(frozen[run.trace], answers[run.trace]) /\ RowBuilds(frozen[run.trace], answers[run.trace]))
    BY <1>1, <1>4, <2>1, <2>4 DEF Measure, Stop, Idle
  <2> QED BY <2>3, <2>4
<1>5. CASE FreezePositions
  <2>1. /\ UNCHANGED <<frozen, answers>> /\ positions' = Rows /\ run'.pc = "spans"
        /\ \A t \in Traces : Built(t)
    BY <1>5 DEF FreezePositions, Goto, Typed, Measured, At
  <2>2. Rows' = Rows /\ \A t \in Traces : Built(t)' = Built(t)
    BY <2>1, RowsStand
  <2> QED BY <2>1, <2>2 DEF Measured, At
<1>6. CASE FreezeSpans \/ FreezeSummary
  <2>1. /\ UNCHANGED <<frozen, answers, positions>> /\ run'.pc \in {"summary", "idle"}
        /\ \A t \in Traces : Built(t)
    BY <1>6 DEF FreezeSpans, FreezeSummary, Goto, Stop, Idle, Typed, Measured, At
  <2>2. Rows' = Rows /\ \A t \in Traces : Built(t)' = Built(t)
    BY <2>1, RowsStand
  <2> QED BY <2>1, <2>2 DEF Measured, At
<1>7. CASE BeginLens \/ FreezeDesign \/ FreezeGate \/ FreezeAuthorization \/ Prepare
  <2>1. run'.pc \in {"design", "gate", "authorize", "prepare", "smoke", "idle"}
    BY <1>7 DEF BeginLens, FreezeDesign, FreezeGate, FreezeAuthorization, Prepare, Goto, Stop, Idle, Typed
  <2> QED BY <1>1, <1>7, <2>1
          DEF BeginLens, FreezeDesign, FreezeGate, FreezeAuthorization, Prepare, positionFiles
<1>8. CASE Smoke \/ Full \/ Short
  <2>1. run'.pc \in {"full", "short", "passed", "failed"}
    BY <1>8 DEF Smoke, Full, Short, Attempt, Typed
  <2> QED BY <1>1, <1>8, <2>1 DEF Smoke, Full, Short, Attempt, positionFiles
<1>9. CASE WriteCompat \/ WriteFailure \/ Forward \/ WriteRecords \/ WriteExecution \/ Kill
  <2>1. \/ Goto("forward") \/ Goto("failure") \/ Goto("records") \/ Goto("execution") \/ Stop
    BY <1>9 DEF WriteCompat, WriteFailure, Forward, WriteRecords, WriteExecution, Kill
  <2>2. run'.pc \in {"forward", "failure", "records", "execution", "idle"}
    BY <2>1, Goes, Ends
  <2> QED BY <1>1, <1>9, <2>2
          DEF WriteCompat, WriteFailure, Forward, WriteRecords, WriteExecution, Kill, positionFiles
<1>10. CASE Validate \/ Analyze \/ Heartbeat \/ UNCHANGED vars
  BY <1>1, <1>10 DEF Validate, Analyze, Heartbeat, vars, positionFiles
<1> QED
  BY <1>2, <1>3, <1>4, <1>5, <1>6, <1>7, <1>8, <1>9, <1>10 DEF Next

-----------------------------------------------------------------------------
(* Stands: what was frozen is written once, and what a run of the lens      *)
(* stands on is kept by every command.                                      *)

LEMMA PositionsStay ==
  ASSUME Typed, Measured, [Next]_vars, positions # Nothing
  PROVE  UNCHANGED <<frozen, answers, positions>>
<1>1. CASE Ask
  <2>1. run.trace \in Traces /\ answers[run.trace] = Nothing
    BY <1>1 DEF Ask, Measured
  <2> QED BY <2>1 DEF Measured, Built
<1>2. CASE FreezePositions
  BY <1>2 DEF FreezePositions, Measured
<1>3. CASE ~ (Ask \/ FreezePositions)
  <2>1. CASE UNCHANGED vars
    BY <2>1 DEF vars, positionFiles
  <2>2. CASE \/ BeginPositions \/ Measure \/ FreezeSpans \/ FreezeSummary
             \/ BeginLens \/ FreezeDesign \/ FreezeGate \/ FreezeAuthorization \/ Prepare
    BY <2>2 DEF BeginPositions, Measure, FreezeSpans, FreezeSummary, BeginLens,
                FreezeDesign, FreezeGate, FreezeAuthorization, Prepare, positionFiles
  <2>3. CASE \/ Smoke \/ Full \/ Short \/ WriteCompat \/ WriteFailure \/ Forward \/ WriteRecords
             \/ WriteExecution \/ Validate \/ Analyze \/ Heartbeat \/ Kill
    BY <2>3 DEF Smoke, Full, Short, Attempt, WriteCompat, WriteFailure, Forward, WriteRecords,
                WriteExecution, Validate, Analyze, Heartbeat, Kill, positionFiles
  <2> QED BY <1>3, <2>1, <2>2, <2>3 DEF Next
<1> QED BY <1>1, <1>2, <1>3

LEMMA AuthorizationStays ==
  ASSUME Typed, Measured, Stands, [Next]_vars, Authorized
  PROVE  UNCHANGED <<frozen, positions, design, gate, authorization>>
<1>0. UNCHANGED <<frozen, positions>> /\ gate # Nothing /\ design = Design /\ authorization = AuthorizationOf
  BY PositionsStay, AbsentAssumption DEF Authorized, Designed
<1>1. CASE FreezeDesign
  BY <1>0, <1>1 DEF FreezeDesign
<1>2. CASE FreezeGate
  BY <1>0, <1>2 DEF FreezeGate, Agrees
<1>3. CASE FreezeAuthorization
  BY <1>0, <1>3 DEF FreezeAuthorization
<1>4. CASE ~ (FreezeDesign \/ FreezeGate \/ FreezeAuthorization)
  <2>1. CASE UNCHANGED vars
    BY <1>0, <2>1 DEF vars, gateFiles
  <2>2. CASE \/ BeginPositions \/ Ask \/ Measure \/ FreezePositions \/ FreezeSpans \/ FreezeSummary
             \/ BeginLens \/ Prepare \/ Smoke \/ Full \/ Short
    BY <1>0, <2>2 DEF BeginPositions, Ask, Measure, FreezePositions, FreezeSpans, FreezeSummary,
                BeginLens, Prepare, Smoke, Full, Short, Attempt, gateFiles
  <2>3. CASE \/ WriteCompat \/ WriteFailure \/ Forward \/ WriteRecords
             \/ WriteExecution \/ Validate \/ Analyze \/ Heartbeat \/ Kill
    BY <1>0, <2>3 DEF WriteCompat, WriteFailure, Forward, WriteRecords,
                WriteExecution, Validate, Analyze, Heartbeat, Kill, gateFiles
  <2> QED BY <1>4, <2>1, <2>2, <2>3 DEF Next
<1> QED BY <1>1, <1>2, <1>3, <1>4

LEMMA InitStands == Init => Stands
BY DEF Init, Stands, Idle, LensSteps

LEMMA NextStands == Typed /\ Measured /\ Stands /\ [Next]_vars => Stands'
<1> SUFFICES ASSUME Typed, Measured, Stands, [Next]_vars  PROVE Stands'
  OBVIOUS
<1> DEFINE Bound == LensSteps \ {"design", "gate", "authorize"}
<1>1. ASSUME UNCHANGED <<frozen, positions, design, gate, authorization>>,
             \/ run' = run
             \/ run'.pc \notin LensSteps
             \/ run.pc \in Bound /\ run'.pc \in Bound
      PROVE  Stands'
  <2>1. Designed' = Designed /\ Authorized' = Authorized
    BY <1>1, AuthorizationStands
  <2>2. run.pc \in Bound => positions # Nothing /\ Designed /\ gate \in Gates /\ Authorized
    BY DEF Stands, Authorized, Designed
  <2> QED BY <1>1, <2>1, <2>2 DEF Stands
<1>2. CASE BeginPositions \/ Ask \/ Measure
  <2>1. \/ run' = run \/ run'.pc = "measure" \/ Goto("positions") \/ Stop
    BY <1>2 DEF BeginPositions, Ask, Measure, Idle, Typed, At
  <2>2. run' = run \/ run'.pc \notin LensSteps
    BY <2>1, Goes, Ends DEF LensSteps
  <2> QED BY <1>1, <1>2, <2>2 DEF BeginPositions, Ask, Measure, positionFiles, gateFiles
<1>3. CASE FreezePositions
  <2>1. run'.pc = "spans" /\ UNCHANGED <<frozen, design, gate, authorization>>
    BY <1>3, Goes DEF FreezePositions, gateFiles
  <2>2. CASE positions = Nothing
    <3>1. design = Nothing /\ authorization = Nothing
      BY <2>2 DEF Stands, Authorized, Designed
    <3> QED BY <2>1, <3>1 DEF Stands, LensSteps
  <2>3. CASE positions # Nothing
    BY <1>1, <2>1, <2>3, PositionsStay DEF LensSteps
  <2> QED BY <2>2, <2>3
<1>4. CASE FreezeSpans \/ FreezeSummary
  <2>1. run'.pc \in {"summary", "idle"}
    BY <1>4, Goes, Ends DEF FreezeSpans, FreezeSummary
  <2> QED BY <1>1, <1>4, <2>1 DEF FreezeSpans, FreezeSummary, gateFiles, LensSteps
<1>5. CASE BeginLens
  <2>1. run'.pc = "design" /\ positions # Nothing
    BY <1>5 DEF BeginLens, Idle, LensInputs
  <2>2. UNCHANGED <<frozen, positions, design, gate, authorization>>
    BY <1>5 DEF BeginLens, positionFiles, gateFiles
  <2>3. Designed' = Designed /\ Authorized' = Authorized
    BY <2>2, AuthorizationStands
  <2> QED BY <2>1, <2>2, <2>3 DEF Stands
<1>6. CASE FreezeDesign
  <2>1. /\ run'.pc = "gate" /\ positions # Nothing /\ positions' = positions
        /\ frozen' = frozen /\ design' = Design /\ UNCHANGED <<gate, authorization>>
    BY <1>6, Goes DEF FreezeDesign, positionFiles, Stands, At, LensSteps
  <2>2. Designed'
    BY <2>1, ReadingsStand DEF Designed
  <2>3. authorization # Nothing => Authorized'
    <3>1. authorization # Nothing => Authorized
      BY DEF Stands
    <3> QED BY <3>1, AuthorizationStays, AuthorizationStands
  <2> QED BY <2>1, <2>2, <2>3 DEF Stands
<1>7. CASE FreezeGate
  <2>1. /\ At("gate") /\ positions # Nothing /\ Designed
        /\ UNCHANGED <<frozen, positions, design, authorization>>
    BY <1>7 DEF FreezeGate, positionFiles, Stands, At, LensSteps
  <2>2. Designed'
    BY <2>1, ReadingsStand DEF Designed
  <2>3. authorization # Nothing => Authorized'
    <3>1. authorization # Nothing => Authorized
      BY DEF Stands
    <3> QED BY <3>1, AuthorizationStays, AuthorizationStands
  <2>4. CASE Goto("authorize") /\ gate' = SessionGate
    <3>1. run'.pc = "authorize" /\ gate' \in Gates
      BY <2>4, Goes DEF SessionGate, Gates, Typed
    <3> QED BY <2>1, <2>2, <2>3, <3>1 DEF Stands
  <2>5. CASE Stop /\ gate' = gate
    <3>1. run'.pc \notin LensSteps
      BY <2>5, Ends DEF LensSteps
    <3> QED BY <1>1, <2>1, <2>5, <3>1
  <2> QED BY <1>7, <2>4, <2>5 DEF FreezeGate
<1>8. CASE FreezeAuthorization
  <2>1. /\ run'.pc = "prepare" /\ positions # Nothing /\ Designed /\ gate \in Gates
        /\ UNCHANGED <<frozen, positions, design, gate>> /\ authorization' = AuthorizationOf
    BY <1>8, Goes DEF FreezeAuthorization, positionFiles, Stands, At, LensSteps
  <2>2. Designed' /\ AuthorizationOf' = AuthorizationOf
    BY <2>1, ReadingsStand DEF Designed, AuthorizationOf
  <2>3. Authorized'
    BY <2>1, <2>2 DEF Authorized
  <2> QED BY <2>1, <2>2, <2>3 DEF Stands
<1>9. CASE Prepare \/ Smoke \/ Full \/ Short
  <2>1. run.pc \in {"prepare", "smoke", "full", "short"}
    BY <1>9 DEF Prepare, Smoke, Full, Short, Attempt, At
  <2>2. run'.pc \in {"idle", "smoke", "full", "short", "passed", "failed"}
    <3>1. CASE Prepare
      BY <3>1, Goes, Ends DEF Prepare
    <3>2. CASE Smoke \/ Full \/ Short
      BY <3>2 DEF Smoke, Full, Short, Attempt, Typed
    <3> QED BY <1>9, <3>1, <3>2
  <2>3. run'.pc \notin LensSteps \/ (run.pc \in Bound /\ run'.pc \in Bound)
    BY <2>1, <2>2 DEF LensSteps
  <2> QED BY <1>1, <1>9, <2>3 DEF Prepare, Smoke, Full, Short, Attempt, positionFiles, gateFiles
<1>10. CASE WriteCompat \/ WriteFailure \/ Forward \/ WriteRecords \/ WriteExecution \/ Kill
  <2>1. \/ run.pc \in {"passed", "failed", "failure", "forward", "records", "execution"}
        \/ run'.pc = "idle"
    BY <1>10, Ends DEF WriteCompat, WriteFailure, Forward, WriteRecords, WriteExecution, Kill, At
  <2>2. \/ Goto("forward") \/ Goto("failure") \/ Goto("records") \/ Goto("execution") \/ Stop
    BY <1>10 DEF WriteCompat, WriteFailure, Forward, WriteRecords, WriteExecution, Kill
  <2>3. run'.pc \in {"forward", "failure", "records", "execution", "idle"}
    BY <2>2, Goes, Ends
  <2>4. run'.pc \notin LensSteps \/ (run.pc \in Bound /\ run'.pc \in Bound)
    BY <2>1, <2>3 DEF LensSteps
  <2> QED BY <1>1, <1>10, <2>4
          DEF WriteCompat, WriteFailure, Forward, WriteRecords, WriteExecution, Kill, positionFiles, gateFiles
<1>11. CASE Validate \/ Analyze \/ Heartbeat \/ UNCHANGED vars
  BY <1>1, <1>11 DEF Validate, Analyze, Heartbeat, vars, positionFiles, gateFiles
<1> QED
  BY <1>2, <1>3, <1>4, <1>5, <1>6, <1>7, <1>8, <1>9, <1>10, <1>11 DEF Next

-----------------------------------------------------------------------------
(* The attempts a run records are the ones that led it where it is.         *)

LEMMA GaveIs ==
  /\ \A pc \in {"design", "gate", "authorize", "prepare", "smoke"} : Gave(pc) = { << >> }
  /\ Gave("full") = { << Went("smoke", TRUE) >> }
  /\ Gave("short") = { << Went("smoke", TRUE), Went("full", FALSE) >> }
  /\ Gave("passed") = { << Went("smoke", TRUE), Went("full", TRUE) >>,
                        << Went("smoke", TRUE), Went("full", FALSE), Went("short", TRUE) >> }
  /\ Gave("failed") = { << Went("smoke", FALSE) >>,
                        << Went("smoke", TRUE), Went("full", FALSE), Went("short", FALSE) >> }
<1> HIDE DEF Went
<1> QED BY DEF Gave

LEMMA WentTyped ==
  ASSUME NEW stage \in {"smoke", "full", "short"}, NEW passed \in BOOLEAN
  PROVE  Went(stage, passed) \in Attempts
BY Zenon DEF Went, Attempts

LEMMA AppendTo ==
  ASSUME NEW S, NEW q \in Seq(S), NEW e \in S, NEW t \in Seq(S), Len(t) = Len(q) + 1,
         t[Len(q) + 1] = e, \A i \in 1..Len(q) : t[i] = q[i]
  PROVE  Append(q, e) = t
<1> DEFINE p == Append(q, e)
<1>1. /\ p \in Seq(S) /\ Len(p) = Len(q) + 1 /\ p[Len(q) + 1] = e
      /\ \A i \in 1..Len(q) : p[i] = q[i]
  BY AppendProperties
<1> HIDE DEF p
<1>2. Len(q) \in Nat /\ \A i \in 1..Len(p) : p[i] = t[i]
  BY <1>1
<1>3. p = t
  BY <1>1, <1>2, SeqEqual
<1> QED BY <1>3 DEF p

LEMMA AppendIs ==
  ASSUME NEW S, NEW a \in S, NEW b \in S, NEW c \in S
  PROVE  /\ Append(<< >>, a) = << a >> /\ Append(<< a >>, b) = << a, b >>
         /\ Append(<< a, b >>, c) = << a, b, c >>
<1>0. /\ << >> \in Seq(S) /\ << a >> \in Seq(S) /\ << a, b >> \in Seq(S) /\ << a, b, c >> \in Seq(S)
      /\ Len(<< >>) = 0 /\ Len(<< a >>) = 1 /\ Len(<< a, b >>) = 2 /\ Len(<< a, b, c >>) = 3
  OBVIOUS
<1>1. Append(<< >>, a) = << a >>
  BY <1>0, AppendTo
<1>2. Append(<< a >>, b) = << a, b >>
  <2> DEFINE q == << a >>
             t == << a, b >>
  <2>1. /\ q \in Seq(S) /\ t \in Seq(S) /\ Len(q) = 1 /\ Len(t) = 1 + 1
        /\ t[1 + 1] = b /\ \A i \in 1..1 : t[i] = q[i]
    BY <1>0
  <2> HIDE DEF q, t
  <2>2. Append(q, b) = t
    BY <2>1, AppendTo
  <2> QED BY <2>2 DEF q, t
<1>3. Append(<< a, b >>, c) = << a, b, c >>
  <2> DEFINE q == << a, b >>
             t == << a, b, c >>
  <2>1. /\ q \in Seq(S) /\ t \in Seq(S) /\ Len(q) = 2 /\ Len(t) = 2 + 1
        /\ t[2 + 1] = c /\ \A i \in 1..2 : t[i] = q[i]
    BY <1>0
  <2> HIDE DEF q, t
  <2>2. Append(q, c) = t
    BY <2>1, AppendTo
  <2> QED BY <2>2 DEF q, t
<1> QED BY <1>1, <1>2, <1>3

LEMMA InitAttempts == Init => AttemptsGo
BY DEF Init, AttemptsGo, Idle, LensSteps

LEMMA NextAttempts == Typed /\ AttemptsGo /\ [Next]_vars => AttemptsGo'
<1> SUFFICES ASSUME Typed, AttemptsGo, [Next]_vars  PROVE AttemptsGo'
  OBVIOUS
<1> DEFINE Trying == LensSteps \ {"failure", "forward", "records", "execution"}
<1>1. ASSUME run'.pc \in Trying => run'.attempts \in Gave(run'.pc)  PROVE AttemptsGo'
  BY <1>1 DEF AttemptsGo
<1>2. ASSUME run'.pc \notin Trying  PROVE AttemptsGo'
  BY <1>2 DEF AttemptsGo
<1>3. CASE Ask \/ Validate \/ Analyze \/ Heartbeat \/ UNCHANGED vars
  BY <1>3 DEF Ask, Validate, Analyze, Heartbeat, vars, AttemptsGo
<1>4. CASE BeginPositions \/ Measure
  <2>1. run'.pc = "measure" \/ Goto("positions") \/ Stop
    BY <1>4 DEF BeginPositions, Measure, Idle, Typed, At
  <2>2. run'.pc \notin Trying
    BY <2>1, Goes, Ends DEF LensSteps
  <2> QED BY <1>2, <2>2
<1>5. CASE FreezePositions \/ FreezeSpans \/ FreezeSummary
  <2>1. run'.pc \in {"spans", "summary", "idle"}
    BY <1>5, Goes, Ends DEF FreezePositions, FreezeSpans, FreezeSummary
  <2> QED BY <1>2, <2>1 DEF LensSteps
<1>6. CASE BeginLens
  <2>1. run'.pc = "design" /\ run'.attempts = << >>
    BY <1>6 DEF BeginLens, Idle
  <2> QED BY <1>1, <2>1, GaveIs
<1>7. CASE FreezeDesign \/ FreezeGate \/ FreezeAuthorization \/ Prepare
  <2>1. /\ run.pc \in {"design", "gate", "authorize", "prepare"}
        /\ Goto("gate") \/ Goto("authorize") \/ Goto("prepare") \/ Goto("smoke") \/ Stop
    BY <1>7 DEF FreezeDesign, FreezeGate, FreezeAuthorization, Prepare, At
  <2>2. run.attempts = << >>
    BY <2>1, GaveIs DEF AttemptsGo, LensSteps
  <2>3. run'.pc = "idle" \/ (run'.pc \in {"gate", "authorize", "prepare", "smoke"} /\ run'.attempts = << >>)
    BY <2>1, <2>2, Goes, Ends
  <2>4. CASE run'.pc = "idle"
    BY <1>2, <2>4 DEF LensSteps
  <2>5. CASE run'.pc \in {"gate", "authorize", "prepare", "smoke"} /\ run'.attempts = << >>
    BY <1>1, <2>5, GaveIs
  <2> QED BY <2>3, <2>4, <2>5
<1>8. CASE Smoke \/ Full \/ Short
  <2>1. PICK stage \in {"smoke", "full", "short"}, passed \in BOOLEAN :
          /\ run.pc = stage /\ run'.attempts = Append(run.attempts, Went(stage, passed))
          /\ run'.pc = IF passed /\ stage = "smoke" THEN "full"
                       ELSE IF passed THEN "passed"
                       ELSE IF stage = "full" THEN "short" ELSE "failed"
    <3>1. PICK stage \in {"smoke", "full", "short"} :
            Attempt(stage, IF stage = "full" THEN "short" ELSE "failed")
      BY <1>8 DEF Smoke, Full, Short
    <3>2. PICK passed \in BOOLEAN :
            run' = [run EXCEPT !.attempts = Tried(stage, passed),
                               !.pc = IF passed /\ stage = "smoke" THEN "full"
                                      ELSE IF passed THEN "passed"
                                      ELSE IF stage = "full" THEN "short" ELSE "failed"]
      BY <3>1 DEF Attempt
    <3>3. Tried(stage, passed) = Append(run.attempts, Went(stage, passed))
      BY DEF Tried, Went
    <3>4. run.pc = stage
      BY <3>1 DEF Attempt, At
    <3> HIDE DEF Trying
    <3>5. run' = [run EXCEPT !.attempts = Append(run.attempts, Went(stage, passed)),
                             !.pc = IF passed /\ stage = "smoke" THEN "full"
                                    ELSE IF passed THEN "passed"
                                    ELSE IF stage = "full" THEN "short" ELSE "failed"]
      BY <3>2, <3>3
    <3> QED BY <3>4, <3>5 DEF Typed
  <2>2. run.attempts \in Gave(stage)
    BY <2>1 DEF AttemptsGo, LensSteps
  <2>3. /\ Went("smoke", TRUE) \in Attempts /\ Went("full", FALSE) \in Attempts
        /\ Went(stage, passed) \in Attempts
    BY WentTyped
  <2>4. CASE stage = "smoke"
    <3>1. run'.attempts = << Went("smoke", passed) >>
      <4>1. run.attempts = << >>
        BY <2>2, <2>4, GaveIs
      <4>2. run'.attempts = Append(<< >>, Went(stage, passed))
        BY <2>1, <4>1
      <4> QED BY <2>4, <2>3, <4>2, AppendIs
    <3>2. CASE passed = TRUE
      <4>1. run'.pc = "full" /\ run'.attempts \in Gave("full")
        BY <2>1, <2>4, <3>1, <3>2, GaveIs
      <4> QED BY <1>1, <4>1
    <3>3. CASE passed = FALSE
      <4>1. run'.pc = "failed" /\ run'.attempts \in Gave("failed")
        BY <2>1, <2>4, <3>1, <3>3, GaveIs
      <4> QED BY <1>1, <4>1
    <3> QED BY <3>2, <3>3
  <2>5. CASE stage = "full"
    <3>1. run'.attempts = << Went("smoke", TRUE), Went("full", passed) >>
      <4>1. run.attempts = << Went("smoke", TRUE) >>
        BY <2>2, <2>5, GaveIs
      <4>2. run'.attempts = Append(<< Went("smoke", TRUE) >>, Went(stage, passed))
        BY <2>1, <4>1
      <4> QED BY <2>5, <2>3, <4>2, AppendIs
    <3>2. CASE passed = TRUE
      <4>1. run'.pc = "passed" /\ run'.attempts \in Gave("passed")
        BY <2>1, <2>5, <3>1, <3>2, GaveIs
      <4> QED BY <1>1, <4>1
    <3>3. CASE passed = FALSE
      <4>1. run'.pc = "short" /\ run'.attempts \in Gave("short")
        BY <2>1, <2>5, <3>1, <3>3, GaveIs
      <4> QED BY <1>1, <4>1
    <3> QED BY <3>2, <3>3
  <2>6. CASE stage = "short"
    <3>1. run'.attempts = << Went("smoke", TRUE), Went("full", FALSE), Went("short", passed) >>
      <4>1. run.attempts = << Went("smoke", TRUE), Went("full", FALSE) >>
        BY <2>2, <2>6, GaveIs
      <4>2. run'.attempts = Append(<< Went("smoke", TRUE), Went("full", FALSE) >>, Went(stage, passed))
        BY <2>1, <4>1
      <4> QED BY <2>6, <2>3, <4>2, AppendIs
    <3>2. CASE passed = TRUE
      <4>1. run'.pc = "passed" /\ run'.attempts \in Gave("passed")
        BY <2>1, <2>6, <3>1, <3>2, GaveIs
      <4> QED BY <1>1, <4>1
    <3>3. CASE passed = FALSE
      <4>1. run'.pc = "failed" /\ run'.attempts \in Gave("failed")
        BY <2>1, <2>6, <3>1, <3>3, GaveIs
      <4> QED BY <1>1, <4>1
    <3> QED BY <3>2, <3>3
  <2> QED BY <2>4, <2>5, <2>6
<1>9. CASE WriteCompat \/ WriteFailure \/ Forward \/ WriteRecords \/ WriteExecution \/ Kill
  <2>1. \/ Goto("forward") \/ Goto("failure") \/ Goto("records") \/ Goto("execution") \/ Stop
    BY <1>9 DEF WriteCompat, WriteFailure, Forward, WriteRecords, WriteExecution, Kill
  <2>2. run'.pc \in {"forward", "failure", "records", "execution", "idle"}
    BY <2>1, Goes, Ends
  <2> QED BY <1>2, <2>2 DEF LensSteps
<1> QED BY <1>3, <1>4, <1>5, <1>6, <1>7, <1>8, <1>9 DEF Next

-----------------------------------------------------------------------------
(* Outcome: the gate passed, or failed twice, once.                         *)

LEMMA PassedCompat == ASSUME run.attempts \in Gave("passed")  PROVE Passed(CompatOf(TRUE))
BY Zenon DEF Passed, CompatOf

LEMMA InitOutcome == Init => Outcome
BY DEF Init, Outcome, Idle, LensSteps, At

LEMMA NextOutcome == Typed /\ Measured /\ Stands /\ AttemptsGo /\ Outcome /\ [Next]_vars => Outcome'
<1> SUFFICES ASSUME Typed, Measured, Stands, AttemptsGo, Outcome, [Next]_vars  PROVE Outcome'
  OBVIOUS
<1> DEFINE Busy == LensSteps \ {"design", "gate", "authorize", "prepare", "execution"}
<1>1. ASSUME UNCHANGED <<compat, failure, records, execution>>,
             run'.pc \in Busy => MayRun,
             run'.pc \in {"forward", "records"} => Passed(compat),
             run'.pc = "failure" => TwoAttemptsFailed(compat),
             run'.pc = "execution" => run' = run
      PROVE  Outcome'
  <2>1. positions # Nothing => positions' # Nothing /\ Records' = Records
    BY PositionsStay, ReadingsStand
  <2>2. records # Nothing => positions' # Nothing /\ records' = Records'
    BY <1>1, <2>1 DEF Outcome
  <2>3. execution # Nothing => Authorized' /\ records' = Records' /\ execution' = ExecutionOf'
    <3>1. SUFFICES ASSUME execution # Nothing
                   PROVE  Authorized' /\ records' = Records' /\ execution' = ExecutionOf'
      OBVIOUS
    <3>2. Authorized /\ positions # Nothing /\ records = Records /\ execution = ExecutionOf
      BY <3>1 DEF Outcome, Authorized, Designed
    <3>3. UNCHANGED <<frozen, positions, design, gate, authorization>>
      BY <3>2, AuthorizationStays
    <3>4. Authorized'
      BY <3>2, <3>3, AuthorizationStands
    <3> QED BY <1>1, <2>1, <3>2, <3>3, <3>4 DEF ExecutionOf
  <2>4. run'.pc = "execution" => /\ Passed(compat) /\ records' = Records'
                                 /\ execution = Nothing /\ failure = Nothing
    <3>1. SUFFICES ASSUME run'.pc = "execution"
                   PROVE  Passed(compat) /\ records' = Records' /\ execution = Nothing /\ failure = Nothing
      OBVIOUS
    <3>2. run.pc = "execution"
      BY <1>1, <3>1
    <3>3. positions # Nothing
      BY <3>2 DEF Stands, LensSteps
    <3> QED BY <1>1, <2>1, <3>2, <3>3 DEF Outcome, At
  <2>5. MayRun' = MayRun
    BY <1>1 DEF MayRun
  <2>6. /\ run'.pc \in Busy => MayRun'
        /\ run'.pc \in {"forward", "records", "execution"} => Passed(compat')
        /\ run'.pc = "execution" => records' = Records' /\ execution' = Nothing /\ failure' = Nothing
        /\ run'.pc = "failure" => TwoAttemptsFailed(compat')
    BY <1>1, <2>4, <2>5
  <2>7. failure' # Nothing => /\ failure'.compat = compat' /\ TwoAttemptsFailed(compat')
                              /\ records' = Nothing /\ execution' = Nothing
    BY <1>1 DEF Outcome
  <2>8. execution' # Nothing => Passed(compat')
    BY <1>1 DEF Outcome
  <2>9. /\ records' # Nothing => positions' # Nothing /\ records' = Records'
        /\ execution' # Nothing => Authorized' /\ records' = Records' /\ execution' = ExecutionOf'
    BY <1>1, <2>2, <2>3
  <2> HIDE DEF Busy
  <2> QED BY <2>6, <2>7, <2>8, <2>9 DEF Outcome, At, Busy
<1>2. ASSUME UNCHANGED <<compat, failure, records, execution>>,
             run'.pc \notin Busy \cup {"execution"}
      PROVE  Outcome'
  BY <1>1, <1>2 DEF LensSteps
<1>3. CASE Ask \/ Validate \/ Analyze \/ Heartbeat \/ UNCHANGED vars
  <2>1. UNCHANGED <<compat, failure, records, execution, run>>
    BY <1>3 DEF Ask, Validate, Analyze, Heartbeat, vars, lensFiles
  <2>2. /\ run.pc \in Busy => MayRun
        /\ run.pc \in {"forward", "records"} => Passed(compat)
        /\ run.pc = "failure" => TwoAttemptsFailed(compat)
    BY DEF Outcome, At
  <2> QED BY <1>1, <2>1, <2>2
<1>4. CASE \/ BeginPositions \/ Measure \/ FreezePositions \/ FreezeSpans \/ FreezeSummary
           \/ BeginLens \/ FreezeDesign \/ FreezeGate \/ FreezeAuthorization \/ Kill
  <2>1. UNCHANGED <<compat, failure, records, execution>>
    BY <1>4 DEF BeginPositions, Measure, FreezePositions, FreezeSpans, FreezeSummary,
                BeginLens, FreezeDesign, FreezeGate, FreezeAuthorization, Kill, lensFiles
  <2>2. \/ run'.pc \in {"measure", "design"}
        \/ Goto("positions") \/ Goto("spans") \/ Goto("summary")
        \/ Goto("gate") \/ Goto("authorize") \/ Goto("prepare") \/ Stop
    <3>1. CASE BeginPositions \/ Measure \/ BeginLens
      BY <3>1 DEF BeginPositions, Measure, BeginLens, Idle, Typed, At
    <3>2. CASE FreezePositions \/ FreezeSpans \/ FreezeSummary \/ Kill
      BY <3>2 DEF FreezePositions, FreezeSpans, FreezeSummary, Kill
    <3>3. CASE FreezeDesign \/ FreezeGate \/ FreezeAuthorization
      BY <3>3 DEF FreezeDesign, FreezeGate, FreezeAuthorization
    <3> QED BY <1>4, <3>1, <3>2, <3>3
  <2>3. run'.pc \in {"measure", "design", "positions", "spans", "summary", "gate", "authorize", "prepare", "idle"}
    BY <2>2, Goes, Ends
  <2> QED BY <1>2, <2>1, <2>3 DEF LensSteps
<1>5. CASE Prepare
  <2>1. UNCHANGED <<compat, failure, records, execution>>
    BY <1>5 DEF Prepare, lensFiles
  <2>2. (run'.pc = "smoke" /\ MayRun) \/ run'.pc = "idle"
    BY <1>5, Goes, Ends DEF Prepare
  <2> QED BY <1>1, <2>1, <2>2 DEF LensSteps
<1>6. CASE Smoke \/ Full \/ Short
  <2>1. UNCHANGED <<compat, failure, records, execution>> /\ run.pc \in {"smoke", "full", "short"}
    BY <1>6 DEF Smoke, Full, Short, Attempt, At, lensFiles
  <2>2. MayRun
    BY <2>1 DEF Outcome, LensSteps
  <2>3. run'.pc \in {"full", "short", "passed", "failed"}
    BY <1>6 DEF Smoke, Full, Short, Attempt, Typed
  <2> QED BY <1>1, <2>1, <2>2, <2>3
<1>7. CASE Forward
  <2>1. UNCHANGED <<compat, failure, records, execution>> /\ run.pc = "forward"
    BY <1>7 DEF Forward, At, lensFiles
  <2>2. MayRun /\ Passed(compat)
    BY <2>1 DEF Outcome, LensSteps
  <2>3. run'.pc \in {"records", "idle"}
    BY <1>7, Goes, Ends DEF Forward
  <2> QED BY <1>1, <2>1, <2>2, <2>3
<1>8. CASE WriteCompat
  <2>1. /\ UNCHANGED <<failure, records, execution>> /\ run.pc \in {"passed", "failed"}
    BY <1>8 DEF WriteCompat, At
  <2>2. MayRun /\ run.attempts \in Gave(run.pc)
    BY <2>1 DEF Outcome, AttemptsGo, LensSteps
  <2>3. MayRun'
    BY <2>1, <2>2 DEF MayRun
  <2>4. records' = Nothing /\ failure' = Nothing /\ execution' = Nothing
    BY <2>3 DEF MayRun
  <2>5. CASE compat' = CompatOf(TRUE) /\ At("passed") /\ Goto("forward")
    <3>1. Passed(compat') /\ run'.pc = "forward"
      BY <2>2, <2>5, PassedCompat, Goes DEF At
    <3> QED BY <2>3, <2>4, <3>1 DEF Outcome, At
  <2>6. CASE compat' = CompatOf(FALSE) /\ TwoAttemptsFailed(CompatOf(FALSE)) /\ Goto("failure")
    <3>1. TwoAttemptsFailed(compat') /\ run'.pc = "failure"
      BY <2>6, Goes
    <3> QED BY <2>3, <2>4, <3>1 DEF Outcome, At
  <2>7. CASE Stop
    <3>1. run'.pc = "idle"
      BY <2>7, Ends
    <3> QED BY <2>4, <3>1 DEF Outcome, At, LensSteps
  <2> QED BY <1>8, <2>5, <2>6, <2>7 DEF WriteCompat
<1>9. CASE WriteFailure
  <2>1. run.pc = "failure" /\ failure' = FailureOf /\ UNCHANGED <<compat, records, execution>>
    BY <1>9 DEF WriteFailure, At
  <2>2. MayRun /\ TwoAttemptsFailed(compat)
    BY <2>1 DEF Outcome, LensSteps, At
  <2>3. run'.pc = "idle" /\ records' = Nothing /\ execution' = Nothing
    BY <1>9, <2>1, <2>2, Ends DEF WriteFailure, MayRun
  <2>4. failure'.compat = compat' /\ TwoAttemptsFailed(compat')
    BY <2>1, <2>2 DEF FailureOf
  <2> QED BY <2>3, <2>4 DEF Outcome, At, LensSteps
<1>10. CASE WriteRecords
  <2>1. /\ run.pc = "records" /\ records' = Records /\ run'.pc = "execution"
        /\ UNCHANGED <<frozen, positions, compat, failure, execution>>
    BY <1>10, Goes DEF WriteRecords, At, positionFiles
  <2>2. MayRun /\ Passed(compat) /\ positions # Nothing
    BY <2>1 DEF Outcome, Stands, LensSteps
  <2>3. records' = Records' /\ failure' = Nothing /\ execution' = Nothing /\ Passed(compat') /\ positions' # Nothing
    BY <2>1, <2>2, ReadingsStand DEF MayRun
  <2> QED BY <2>1, <2>3 DEF Outcome, At, LensSteps
<1>11. CASE WriteExecution
  <2>1. /\ run.pc = "execution" /\ execution' = ExecutionOf /\ run'.pc = "idle"
        /\ UNCHANGED <<frozen, positions, design, gate, authorization, compat, failure, records>>
    BY <1>11, Ends DEF WriteExecution, At, positionFiles, gateFiles
  <2>2. Passed(compat) /\ records = Records /\ failure = Nothing /\ Authorized /\ positions # Nothing
    BY <2>1 DEF Outcome, Stands, LensSteps, At
  <2>3. /\ records' = Records' /\ failure' = Nothing /\ Passed(compat') /\ Authorized'
        /\ positions' # Nothing
    BY <2>1, <2>2, ReadingsStand, AuthorizationStands
  <2>4. execution' = ExecutionOf'
    BY <2>1 DEF ExecutionOf
  <2> QED BY <2>1, <2>3, <2>4 DEF Outcome, At, LensSteps
<1> QED BY <1>3, <1>4, <1>5, <1>6, <1>7, <1>8, <1>9, <1>10, <1>11 DEF Next

-----------------------------------------------------------------------------
(* The invariant of the files.                                              *)

LEMMA LInvInvariant == Spec => []LInv
<1>1. Init => LInv
  BY InitTyped, InitMeasured, InitStands, InitAttempts, InitOutcome DEF LInv
<1>2. LInv /\ [Next]_vars => LInv'
  BY NextTyped, NextMeasured, NextStands, NextAttempts, NextOutcome DEF LInv
<1> QED BY <1>1, <1>2, PTL DEF Spec

-----------------------------------------------------------------------------
(* What is read is causal.                                                  *)

LEMMA LayoutIs ==
  ASSUME Typed, NEW t \in Traces
  PROVE  \E n : /\ IsCompletion(frozen[t].bounds, n)
                /\ frozen[t].mention \in [Concepts -> SUBSET Int]
<1>1. frozen[t] \in Layouts
  BY DEF Typed
<1> QED BY <1>1, LayoutAssumption DEF IsCompletion

(* A row's indices are tokens, and one that precedes a span is the prompt's  *)
(* last or the token before the span's first.                               *)
LEMMA RowIndices ==
  ASSUME Typed, NEW t \in Traces, Built(t)
  PROVE  LET f == frozen[t]  j == answers[t]  index == Row(f, j).indices
         IN /\ \A p \in PositionOrder : index[p] \in Int
            /\ SeenBy(t, index["first_estimate_pre"]) <= j.from
            /\ SeenBy(t, index["anchor_pre"]) <= f.anchor[1]
            /\ SeenBy(t, index["final_answer_pre"]) <= f.text[2]
<1> DEFINE b == frozen[t].bounds
           f == frozen[t]
           j == answers[t]
<1>1. PICK n : IsCompletion(b, n)
  BY LayoutIs
<1>2. n \in Nat /\ PromptCount \in Nat
  BY <1>1, LensAssumption DEF IsCompletion
<1>3. ASSUME NEW from, NEW to
      PROVE  /\ Envelope(b, from, to).start \in 0..n /\ Envelope(b, from, to).end \in 0..n
             /\ Maps(b, from, to) =>
                  0 <= from /\ b[Envelope(b, from, to).start] <= from
  BY <1>1, BoundariesTyped DEF Envelope, Maps
<1>4. ASSUME NEW start \in 0..n, NEW from, 0 <= from, b[start] <= from
      PROVE  SeenBy(t, PreToken(start)) <= from /\ PreToken(start) \in Int
  BY <1>2, <1>4 DEF SeenBy, PreToken
<1>5. /\ Maps(b, j.from, j.to) /\ Maps(b, f.anchor[1], f.anchor[2])
      /\ Maps(b, f.text[2], f.text[2] + 1)
  BY DEF Built, RowBuilds
<1> DEFINE first == Envelope(b, j.from, j.to)
           anchor == Envelope(b, f.anchor[1], f.anchor[2])
           answer == Envelope(b, f.text[2], f.text[2] + 1)
<1>6. /\ first.start \in 0..n /\ 0 <= j.from /\ b[first.start] <= j.from
      /\ anchor.start \in 0..n /\ anchor.end \in 0..n
      /\ 0 <= f.anchor[1] /\ b[anchor.start] <= f.anchor[1]
      /\ answer.start \in 0..n /\ 0 <= f.text[2] /\ b[answer.start] <= f.text[2]
  BY <1>3, <1>5
<1>7. Row(f, j).indices = Indices(first, anchor, answer)
  BY DEF Row, FirstSpan, AnchorSpan, AnswerSpan
<1>8. /\ SeenBy(t, PreToken(first.start)) <= j.from /\ PreToken(first.start) \in Int
      /\ SeenBy(t, PreToken(anchor.start)) <= f.anchor[1] /\ PreToken(anchor.start) \in Int
      /\ SeenBy(t, PreToken(answer.start)) <= f.text[2] /\ PreToken(answer.start) \in Int
  BY <1>4, <1>6
<1>9. PromptCount - 1 \in Int /\ PromptCount + anchor.end - 1 \in Int
  BY <1>2, <1>6
<1> HIDE DEF first, anchor, answer
<1>10. /\ Indices(first, anchor, answer)["prompt_end"] = PromptCount - 1
       /\ Indices(first, anchor, answer)["first_estimate_pre"] = PreToken(first.start)
       /\ Indices(first, anchor, answer)["anchor_pre"] = PreToken(anchor.start)
       /\ Indices(first, anchor, answer)["anchor_post"] = PromptCount + anchor.end - 1
       /\ Indices(first, anchor, answer)["final_answer_pre"] = PreToken(answer.start)
  BY DEF Indices, PositionOrder
<1> HIDE DEF b
<1>11. \A p \in PositionOrder : Row(f, j).indices[p] \in Int
  BY <1>7, <1>8, <1>9, <1>10 DEF PositionOrder
<1> QED BY <1>7, <1>8, <1>10, <1>11

(* A record holds a value at the token of an eligible cell, and none else.   *)
LEMMA RecordsHold ==
  ASSUME LInv, records = Records, positions # Nothing,
         NEW t \in Traces, NEW p \in PositionOrder, NEW c \in Concepts
  PROVE  LET value == records[<<t, p, c>>].j  index == positions[t].indices[p]
         IN /\ records[<<t, p, c>>].r = value
            /\ Built(t) /\ positions[t] = Row(frozen[t], answers[t]) /\ index \in Int
            /\ (value # Nothing) = Eligible(t, p, c)
            /\ value # Nothing => value.upto = index
<1>1. records = Records /\ positions = Rows /\ Typed /\ Built(t)
  BY DEF LInv, Measured
<1>2. positions[t] = Row(frozen[t], answers[t])
  BY <1>1 DEF Rows
<1>3. positions[t].indices[p] \in Int
  BY <1>1, <1>2, RowIndices
<1>4. <<t, p, c>> \in Cells
  BY DEF Cells
<1>5. records[<<t, p, c>>] = [j |-> Readout(t, p, c), r |-> Readout(t, p, c)]
  BY <1>1, <1>4 DEF Records
<1>6. [upto |-> positions[t].indices[p], sign |-> Sign(t, c)] \in Readings
  BY <1>3 DEF Readings, Sign
<1>7. [upto |-> positions[t].indices[p], sign |-> Sign(t, c)] # Nothing
  BY <1>6, AbsentAssumption
<1>8. /\ (Readout(t, p, c) # Nothing) <=> Eligible(t, p, c)
      /\ Readout(t, p, c) # Nothing => Readout(t, p, c).upto = positions[t].indices[p]
  BY <1>7 DEF Readout
<1>9. Eligible(t, p, c) \in BOOLEAN
  BY Zenon DEF Eligible
<1> QED BY <1>1, <1>2, <1>3, <1>5, <1>8, <1>9

LEMMA LInvReads == LInv => ReadoutIsCausal
<1> SUFFICES ASSUME LInv, records # Nothing, NEW k \in Cells
             PROVE  LET t == k[1]  p == k[2]  value == records[k].j
                    IN /\ records[k].r = value
                       /\ value # Nothing =>
                            /\ \A m \in frozen[t].mention[k[3]] : m > value.upto
                            /\ p = "first_estimate_pre" => SeenBy(t, value.upto) <= answers[t].from
                            /\ p = "anchor_pre" => SeenBy(t, value.upto) <= frozen[t].anchor[1]
                            /\ p = "final_answer_pre" => SeenBy(t, value.upto) <= frozen[t].text[2]
  BY DEF ReadoutIsCausal
<1>1. PICK t \in Traces, p \in PositionOrder, c \in Concepts : k = <<t, p, c>>
  BY DEF Cells
<1>2. k[1] = t /\ k[2] = p /\ k[3] = c
  BY <1>1
<1> DEFINE value == records[<<t, p, c>>].j
           index == positions[t].indices[p]
<1>3. /\ records[<<t, p, c>>].r = value /\ Built(t)
      /\ positions[t] = Row(frozen[t], answers[t]) /\ index \in Int
      /\ value # Nothing => Eligible(t, p, c) /\ value.upto = index
  <2>1. records = Records /\ positions # Nothing
    BY DEF LInv, Outcome
  <2> QED BY <2>1, RecordsHold
<1>4. Typed
  BY DEF LInv
<1> HIDE DEF value
<1>5. ASSUME value # Nothing  PROVE \A m \in frozen[t].mention[c] : m > value.upto
  <2>1. Collisions(frozen[t], c, index) = {} /\ value.upto = index
    BY <1>3, <1>5 DEF Eligible
  <2>2. frozen[t].mention[c] \subseteq Int
    BY <1>4, LayoutIs
  <2> QED BY <1>3, <2>1, <2>2 DEF Collisions
<1>6. ASSUME value # Nothing
      PROVE  /\ p = "first_estimate_pre" => SeenBy(t, value.upto) <= answers[t].from
             /\ p = "anchor_pre" => SeenBy(t, value.upto) <= frozen[t].anchor[1]
             /\ p = "final_answer_pre" => SeenBy(t, value.upto) <= frozen[t].text[2]
  BY <1>3, <1>4, <1>6, RowIndices
<1> QED BY <1>1, <1>2, <1>3, <1>5, <1>6 DEF value

\* For any traces and layouts, whatever their decoders do: a value is released
\* only where its probe had not been said, and what is read before a span has
\* seen none of it (lens_positions.py, freeze_causal_probe_design).
THEOREM ReadsCausally == Spec => []ReadoutIsCausal
BY LInvInvariant, LInvReads, PTL

-----------------------------------------------------------------------------
(* The lens has one outcome.                                                *)

LEMMA PassedGate ==
  ASSUME NEW c, Passed(c)
  PROVE  c.attempts[1].passed /\ c.attempts[Len(c.attempts)].passed
<1>1. ASSUME NEW stage  PROVE Went(stage, TRUE).passed
  BY Zenon DEF Went
<1>2. \/ c.attempts = << Went("smoke", TRUE), Went("full", TRUE) >>
      \/ c.attempts = << Went("smoke", TRUE), Went("full", FALSE), Went("short", TRUE) >>
  BY GaveIs DEF Passed
<1>3. ASSUME NEW a, NEW b, NEW d
      PROVE  /\ << a, b >>[1] = a /\ << a, b >>[Len(<< a, b >>)] = b
             /\ << a, b, d >>[1] = a /\ << a, b, d >>[Len(<< a, b, d >>)] = d
  OBVIOUS
<1>4. /\ c.attempts[1] = Went("smoke", TRUE)
      /\ \/ c.attempts[Len(c.attempts)] = Went("full", TRUE)
         \/ c.attempts[Len(c.attempts)] = Went("short", TRUE)
  <2>1. CASE c.attempts = << Went("smoke", TRUE), Went("full", TRUE) >>
    <3>1. c.attempts[1] = Went("smoke", TRUE) /\ c.attempts[Len(c.attempts)] = Went("full", TRUE)
      BY <1>3, <2>1
    <3> QED BY <3>1
  <2>2. CASE c.attempts = << Went("smoke", TRUE), Went("full", FALSE), Went("short", TRUE) >>
    <3>1. c.attempts[1] = Went("smoke", TRUE) /\ c.attempts[Len(c.attempts)] = Went("short", TRUE)
      BY <1>3, <2>2
    <3> QED BY <3>1
  <2> QED BY <1>2, <2>1, <2>2
<1> QED BY <1>1, <1>4, Zenon

LEMMA LInvSettles == LInv => LensOutcomeIsFinal
<1> SUFFICES ASSUME LInv  PROVE LensOutcomeIsFinal
  OBVIOUS
<1>1. ASSUME failure # Nothing
      PROVE  /\ TwoAttemptsFailed(failure.compat) /\ compat = failure.compat
             /\ records = Nothing /\ execution = Nothing
  <2>1. failure.compat = compat /\ TwoAttemptsFailed(compat) /\ records = Nothing /\ execution = Nothing
    BY <1>1 DEF LInv, Outcome
  <2> QED BY <2>1, Zenon
<1>2. ASSUME execution # Nothing
      PROVE  /\ compat = execution.compat /\ records = execution.records
             /\ compat.attempts[1].passed /\ compat.attempts[Len(compat.attempts)].passed
             /\ authorization = execution.authorization /\ authorization = AuthorizationOf
             /\ {k \in Cells : records[k].j # Nothing} = {k \in Cells : design[k]}
  <2>1. Authorized /\ records = Records /\ Passed(compat) /\ execution = ExecutionOf
    BY <1>2 DEF LInv, Outcome
  <2>2. compat = execution.compat /\ records = execution.records /\ authorization = execution.authorization
    BY <2>1 DEF ExecutionOf
  <2>3. authorization = AuthorizationOf /\ design = Design /\ positions # Nothing
    BY <2>1 DEF Authorized, Designed
  <2>4. ASSUME NEW k \in Cells  PROVE (records[k].j # Nothing) = design[k]
    <3>1. PICK t \in Traces, p \in PositionOrder, c \in Concepts : k = <<t, p, c>>
      BY DEF Cells
    <3>2. design[k] = Eligible(t, p, c)
      BY <2>3, <3>1 DEF Design
    <3>3. (records[k].j # Nothing) = Eligible(t, p, c)
      BY <2>1, <2>3, <3>1, RecordsHold
    <3> QED BY <3>2, <3>3
  <2>5. {k \in Cells : records[k].j # Nothing} = {k \in Cells : design[k]}
    BY <2>4
  <2>6. compat.attempts[1].passed /\ compat.attempts[Len(compat.attempts)].passed
    BY <2>1, PassedGate
  <2> QED BY <2>2, <2>3, <2>5, <2>6
<1> QED BY <1>1, <1>2 DEF LensOutcomeIsFinal

\* The study says that the lens could not be run only after two failed
\* attempts, and then nothing was or will be read; what was read follows a
\* gate that passed, under the authorization that stands, whatever commands
\* ran since and wherever they were killed (lens_command.py).
THEOREM OutcomeIsFinal == Spec => []LensOutcomeIsFinal
BY LInvInvariant, LInvSettles, PTL

-----------------------------------------------------------------------------
(* The evidence of an analysis stands: every command that could change a    *)
(* file of it stops first, or writes what is there.                         *)

LEMMA EvidenceStands ==
  ASSUME UNCHANGED <<frozen, answers, positionFiles, gateFiles, lensFiles>>
  PROVE  Evidence' = Evidence /\ EvidenceFiles' = EvidenceFiles
<1> USE DEF positionFiles, gateFiles, lensFiles
<1>1. ASSUME NEW t \in Traces
      PROVE  SpanIsCommitted(t)' = SpanIsCommitted(t) /\ RecomputesRow(t)' = RecomputesRow(t)
  BY DEF SpanIsCommitted, RecomputesRow, Restores, Resolves
<1>2. CheckpointHolds' = CheckpointHolds /\ LensInputs' = LensInputs /\ SummaryOf' = SummaryOf
  BY DEF CheckpointHolds, LensInputs, SummaryOf
<1>3. PositionsRelease' = PositionsRelease
  BY <1>1, <1>2 DEF PositionsRelease
<1>4. DesignHolds' = DesignHolds
  BY ReadingsStand DEF DesignHolds
<1>5. /\ LensGrid' = LensGrid /\ ExecutionOf' = ExecutionOf /\ ValidationOf' = ValidationOf
      /\ AuthorizationOf' = AuthorizationOf /\ FailureOf' = FailureOf
  BY DEF LensGrid, ExecutionOf, ValidationOf, AuthorizationOf, FailureOf
<1>6. LoadedAuthorization' = LoadedAuthorization
  BY <1>5 DEF LoadedAuthorization
<1>7. CompatLoads(TRUE)' = CompatLoads(TRUE) /\ CompatLoads(FALSE)' = CompatLoads(FALSE)
  BY DEF CompatLoads, TwoAttemptsFailed
<1>8. ReleasedLens' = ReleasedLens /\ FailedLens' = FailedLens
  BY <1>5, <1>6, <1>7 DEF ReleasedLens, FailedLens
<1>9. EvidenceFiles' = EvidenceFiles
  BY DEF EvidenceFiles
<1> QED BY <1>3, <1>4, <1>8, <1>9 DEF Evidence

LEMMA FailureIsThere ==
  ASSUME Typed, FailedLens, DesignHolds
  PROVE  failure # Nothing
<1>1. /\ compat # Nothing /\ gate # Nothing /\ design # Nothing
      /\ authorization = AuthorizationOf /\ failure = FailureOf
  BY DEF FailedLens, CompatLoads, LoadedAuthorization
<1>2. compat \in Compats /\ gate \in Gates /\ design \in Designs
  BY <1>1 DEF Typed
<1>3. authorization \in Authorizations
  BY <1>1, <1>2 DEF AuthorizationOf, Authorizations
<1>4. failure \in Failures
  BY <1>1, <1>2, <1>3 DEF FailureOf, Failures
<1> QED BY <1>4, AbsentAssumption

Waiting == {"idle", "design", "gate", "authorize", "prepare"}

LEMMA EvidenceStays ==
  ASSUME Typed, Measured, Stands, [Next]_vars, Evidence, run.pc \in Waiting
  PROVE  UNCHANGED <<frozen, answers, positionFiles, gateFiles, lensFiles>> /\ run'.pc \in Waiting
<1>0. /\ positions # Nothing /\ summary # Nothing /\ design = Design
      /\ gate # Nothing /\ authorization = AuthorizationOf
      /\ records # Nothing => validation = ValidationOf
      /\ records = Nothing => FailedLens
      /\ DesignHolds
  BY DEF Evidence, PositionsRelease, DesignHolds, ReleasedLens, FailedLens, LoadedAuthorization
<1>1. Authorized
  BY <1>0 DEF Authorized, Designed, Typed
<1>2. UNCHANGED <<frozen, answers, positions, design, gate, authorization>>
  BY <1>0, <1>1, PositionsStay, AuthorizationStays
<1>3. ~ MayRun
  BY <1>0, FailureIsThere DEF MayRun
<1>4. CASE UNCHANGED vars
  BY <1>4 DEF vars
<1>5. CASE \/ BeginPositions \/ Ask \/ Measure \/ FreezePositions \/ FreezeSpans \/ FreezeSummary
  BY <1>0, <1>5 DEF BeginPositions, Ask, Measure, FreezePositions, FreezeSpans, FreezeSummary, At, Waiting
<1>6. CASE \/ Smoke \/ Full \/ Short \/ WriteCompat \/ WriteFailure \/ Forward \/ WriteRecords \/ WriteExecution
  BY <1>6 DEF Smoke, Full, Short, Attempt, WriteCompat, WriteFailure, Forward, WriteRecords,
              WriteExecution, At, Waiting
<1>7. CASE BeginLens
  BY <1>7 DEF BeginLens, Idle, Waiting
<1>8. CASE FreezeDesign \/ FreezeGate \/ FreezeAuthorization
  <2>1. UNCHANGED <<spans, summary, lensFiles>>
    BY <1>8 DEF FreezeDesign, FreezeGate, FreezeAuthorization, positionFiles
  <2>2. Goto("gate") \/ Goto("authorize") \/ Goto("prepare") \/ Stop
    BY <1>8 DEF FreezeDesign, FreezeGate, FreezeAuthorization
  <2>3. run'.pc \in Waiting
    BY <2>2, Goes, Ends DEF Waiting
  <2> QED BY <1>2, <2>1, <2>3 DEF positionFiles, gateFiles
<1>9. CASE Prepare
  <2>1. Stop /\ UNCHANGED <<frozen, answers, positionFiles, gateFiles, lensFiles>>
    BY <1>3, <1>9 DEF Prepare
  <2> QED BY <2>1, Ends DEF Waiting
<1>10. CASE Validate
  BY <1>0, <1>10 DEF Validate, lensFiles
<1>11. CASE Analyze \/ Heartbeat
  BY <1>11 DEF Analyze, Heartbeat
<1>12. CASE Kill
  BY <1>12, Ends DEF Kill, Waiting
<1> QED BY <1>4, <1>5, <1>6, <1>7, <1>8, <1>9, <1>10, <1>11, <1>12 DEF Next

LEMMA AnalysisStays ==
  ASSUME [Next]_vars, ~ Analyze
  PROVE  analysis' = analysis
<1>1. CASE \/ BeginPositions \/ Ask \/ Measure \/ FreezePositions \/ FreezeSpans \/ FreezeSummary
           \/ BeginLens \/ FreezeDesign \/ FreezeGate \/ FreezeAuthorization \/ Prepare
  BY <1>1 DEF BeginPositions, Ask, Measure, FreezePositions, FreezeSpans, FreezeSummary,
              BeginLens, FreezeDesign, FreezeGate, FreezeAuthorization, Prepare
<1>2. CASE \/ Smoke \/ Full \/ Short \/ WriteCompat \/ WriteFailure \/ Forward \/ WriteRecords
           \/ WriteExecution \/ Validate \/ Heartbeat \/ Kill \/ UNCHANGED vars
  BY <1>2 DEF Smoke, Full, Short, Attempt, WriteCompat, WriteFailure, Forward, WriteRecords,
              WriteExecution, Validate, Heartbeat, Kill, vars
<1> QED BY <1>1, <1>2 DEF Next

LEMMA NextAInv == LInv /\ AInv /\ [Next]_vars => AInv'
<1> SUFFICES ASSUME LInv, AInv, [Next]_vars  PROVE AInv'
  OBVIOUS
<1>0. Typed /\ Measured /\ Stands
  BY DEF LInv
<1>1. CASE Analyze
  <2>1. /\ Evidence /\ analysis' = EvidenceFiles /\ run'.pc = "idle"
        /\ UNCHANGED <<frozen, answers, positionFiles, gateFiles, lensFiles>>
    BY <1>1 DEF Analyze, At
  <2>2. Evidence' /\ analysis' = EvidenceFiles'
    BY <2>1, EvidenceStands
  <2> QED BY <2>1, <2>2 DEF AInv
<1>2. CASE ~ Analyze
  <2>1. analysis' = analysis
    BY <1>2, AnalysisStays
  <2>2. SUFFICES ASSUME analysis # Nothing
                 PROVE  analysis = EvidenceFiles' /\ Evidence' /\ run'.pc \in Waiting
    BY <2>1 DEF AInv, Waiting
  <2>3. analysis = EvidenceFiles /\ Evidence /\ run.pc \in Waiting
    BY <2>2 DEF AInv, Waiting
  <2>4. /\ UNCHANGED <<frozen, answers, positionFiles, gateFiles, lensFiles>>
        /\ run'.pc \in Waiting
    BY <1>0, <2>3, EvidenceStays
  <2> QED BY <2>3, <2>4, EvidenceStands
<1> QED BY <1>1, <1>2

\* Once a study is analysed, no command, and none killed anywhere, changes what
\* its summary names, and the same analysis can always be made again
\* (_validate_primary_analysis_evidence, run_frozen_lens_command).
THEOREM AnalysisStands == Spec => []AnalysisIsFinal
<1>1. Init => AInv
  BY DEF Init, AInv
<1>2. AInv => AnalysisIsFinal
  BY DEF AInv, AnalysisIsFinal
<1> QED BY <1>1, <1>2, NextAInv, LInvInvariant, PTL DEF Spec
====
