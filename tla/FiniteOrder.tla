---------------------------- MODULE FiniteOrder ----------------------------
(* Finite sets have a last element, whatever order they come in.  The      *)
(* proofs need it for the latest row, date or entry of a list, and for     *)
(* inductions: of the counterexamples there would be a smallest.           *)
EXTENDS Integers, FiniteSets, FiniteSetsExt, FiniteSetTheorems,
        WellFoundedInduction, TLAPS

(* Of the sets that have none, a smallest would be left without a last     *)
(* element by the removal of any other.                                    *)
LEMMA LastElement ==
  ASSUME NEW S, IsFiniteSet(S), S # {}, NEW R,
         \A u \in S : <<u, u>> \notin R,
         \A u, v, w \in S : <<u, v>> \in R /\ <<v, w>> \in R => <<u, w>> \in R
  PROVE  \E u \in S : \A v \in S : <<u, v>> \notin R
<1> DEFINE Endless == {T \in FiniteSubsetsOf(S) :
                         T # {} /\ \A u \in T : \E v \in T : <<u, v>> \in R}
<1>1. SUFFICES ASSUME S \in Endless PROVE FALSE
  <2>1. S \in FiniteSubsetsOf(S)
    BY DEF FiniteSubsetsOf
  <2>2. QED
    BY <2>1
<1>2. PICK T \in Endless : \A U \in Endless : <<U, T>> \notin StrictSubsetOrdering(S)
  <2>1. Endless \subseteq FiniteSubsetsOf(S) /\ Endless # {}
    BY <1>1
  <2>2. IsWellFoundedOn(StrictSubsetOrdering(S), FiniteSubsetsOf(S))
    BY FS_StrictSubsetOrderingWellFounded
  <2> HIDE DEF Endless
  <2>3. QED
    BY <2>1, <2>2, WFMin
<1>3. T \subseteq S /\ IsFiniteSet(T) /\ T # {} /\ \A u \in T : \E v \in T : <<u, v>> \in R
  BY DEF FiniteSubsetsOf
<1>4. PICK u \in T : TRUE
  BY <1>3
<1>5. PICK w \in T : <<u, w>> \in R
  BY <1>3
<1> DEFINE U == T \ {u}
<1>6. IsFiniteSet(U) /\ U \subseteq S /\ w \in U /\ U # T
  BY <1>3, <1>4, <1>5, FS_RemoveElement
<1>7. U \notin Endless
  <2>1. <<U, T>> \in StrictSubsetOrdering(S)
    BY <1>3, <1>6 DEF StrictSubsetOrdering
  <2>2. QED
    BY <2>1, <1>2, Zenon
<1>8. PICK z \in U : \A v \in U : <<z, v>> \notin R
  BY <1>6, <1>7 DEF FiniteSubsetsOf
<1>9. <<z, u>> \in R
  BY <1>3, <1>8
<1>10. <<z, w>> \in R
  BY <1>3, <1>5, <1>6, <1>9
<1>11. QED
  BY <1>6, <1>8, <1>10

(* Math.max of a list that is not empty.                                   *)
LEMMA MaxIsLast ==
  ASSUME NEW S \in SUBSET Int, IsFiniteSet(S), S # {}
  PROVE  Max(S) \in S /\ \A n \in S : n <= Max(S)
<1> DEFINE Less == {r \in S \X S : r[1] < r[2]}
<1>1. \E m \in S : \A n \in S : <<m, n>> \notin Less
  <2>1. \A m \in S : <<m, m>> \notin Less
    OBVIOUS
  <2>2. \A u, v, w \in S : <<u, v>> \in Less /\ <<v, w>> \in Less => <<u, w>> \in Less
    OBVIOUS
  <2> HIDE DEF Less
  <2>3. QED
    BY <2>1, <2>2, LastElement
<1>2. \E m \in S : \A n \in S : m >= n
  <2>1. PICK m \in S : \A n \in S : <<m, n>> \notin Less
    BY <1>1
  <2>2. ASSUME NEW n \in S PROVE m >= n
    <3>1. ~(m < n)
      BY <2>1
    <3>2. m \in Int /\ n \in Int
      OBVIOUS
    <3>3. QED
      BY <3>1, <3>2
  <2>3. QED
    BY <2>2
<1>3. QED
  BY <1>2 DEF Max

(* Min, of a set that is not empty.                                        *)
LEMMA MinIsFirst ==
  ASSUME NEW S \in SUBSET Int, IsFiniteSet(S), S # {}
  PROVE  Min(S) \in S /\ \A n \in S : Min(S) <= n
<1> DEFINE More == {r \in S \X S : r[2] < r[1]}
<1>1. \E m \in S : \A n \in S : <<m, n>> \notin More
  <2>1. \A m \in S : <<m, m>> \notin More
    OBVIOUS
  <2>2. \A u, v, w \in S : <<u, v>> \in More /\ <<v, w>> \in More => <<u, w>> \in More
    OBVIOUS
  <2> HIDE DEF More
  <2>3. QED
    BY <2>1, <2>2, LastElement
<1>2. PICK m \in S : \A n \in S : <<m, n>> \notin More
  BY <1>1
<1>3. ASSUME NEW n \in S PROVE m <= n
  <2>1. ~(n < m)
    BY <1>2
  <2>2. m \in Int /\ n \in Int
    OBVIOUS
  <2>3. QED
    BY <2>1, <2>2
<1>4. QED
  BY <1>3 DEF Min

(* Of two numbers it is the smaller.                                       *)
LEMMA MinOfTwo ==
  ASSUME NEW a \in Int, NEW b \in Int
  PROVE  Min({a, b}) = IF a <= b THEN a ELSE b
<1>1. IsFiniteSet({a, b})
  <2>1. IsFiniteSet({a} \cup {b})
    BY FS_Singleton, FS_AddElement
  <2>2. QED
    BY <2>1
<1>2. Min({a, b}) \in {a, b} /\ \A n \in {a, b} : Min({a, b}) <= n
  BY <1>1, MinIsFirst
<1>3. QED
  BY <1>2

-----------------------------------------------------------------------------
(* Induction over the subsets of a finite set, for those in a set G.       *)
LEMMA SubsetInduction ==
  ASSUME NEW D, IsFiniteSet(D), NEW G,
         \A T \in SUBSET D : (\A U \in SUBSET T : U # T => U \in G) => T \in G
  PROVE  \A T \in SUBSET D : T \in G
<1> SUFFICES ASSUME NEW T0 \in SUBSET D, T0 \notin G PROVE FALSE
  OBVIOUS
<1> DEFINE Bad == {T \in FiniteSubsetsOf(D) : T \notin G}
<1>1. \A T \in SUBSET D : IsFiniteSet(T)
  BY FS_Subset
<1>2. T0 \in Bad
  BY <1>1 DEF FiniteSubsetsOf
<1>3. PICK T \in Bad : \A U \in Bad : <<U, T>> \notin StrictSubsetOrdering(D)
  <2>1. Bad \subseteq FiniteSubsetsOf(D) /\ Bad # {}
    BY <1>2
  <2>2. IsWellFoundedOn(StrictSubsetOrdering(D), FiniteSubsetsOf(D))
    BY FS_StrictSubsetOrderingWellFounded
  <2> HIDE DEF Bad
  <2>3. QED
    BY <2>1, <2>2, WFMin
<1>4. T \in SUBSET D /\ T \notin G
  BY DEF FiniteSubsetsOf
<1>5. ASSUME NEW U \in SUBSET T, U # T PROVE U \in G
  <2>1. <<U, T>> \in StrictSubsetOrdering(D) /\ U \in FiniteSubsetsOf(D)
    BY <1>1, <1>4, <1>5 DEF StrictSubsetOrdering, FiniteSubsetsOf
  <2> QED
    BY <1>3, <2>1
<1> QED
  BY <1>4, <1>5

(* Induction up to a number.                                               *)
LEMMA UpTo ==
  ASSUME NEW n \in Nat, NEW G, 0 \in G,
         \A m \in 0 .. n - 1 : m \in G => m + 1 \in G
  PROVE  n \in G
<1> SUFFICES ASSUME n \notin G PROVE FALSE
  OBVIOUS
<1> DEFINE Bad == {m \in 0 .. n : m \notin G}
<1>1. Bad \in SUBSET Int /\ IsFiniteSet(Bad) /\ Bad # {}
  <2>1. IsFiniteSet(0 .. n) /\ n \in Bad
    BY FS_Interval
  <2>2. Bad \in SUBSET (0 .. n)
    OBVIOUS
  <2>3. IsFiniteSet(Bad)
    <3> HIDE DEF Bad
    <3> QED BY <2>1, <2>2, FS_Subset
  <2> QED
    BY <2>1, <2>3
<1>2. Min(Bad) \in Bad /\ \A m \in Bad : Min(Bad) <= m
  <2> HIDE DEF Bad
  <2> QED BY <1>1, MinIsFirst
<1> DEFINE least == Min(Bad)
<1>3. least \in 0 .. n /\ least \notin G /\ least # 0
  BY <1>2
<1>4. least - 1 \in 0 .. n - 1 /\ least - 1 \notin Bad
  <2> HIDE DEF Bad
  <2>1. \A m \in Bad : least <= m
    BY <1>2
  <2> HIDE DEF least
  <2> QED
    BY <1>3, <2>1
<1>5. least - 1 \in G
  <2>1. least - 1 \in 0 .. n
    BY <1>3, <1>4
  <2> QED BY <1>4, <2>1
<1>6. least - 1 + 1 = least
  BY <1>3
<1> QED
  BY <1>3, <1>4, <1>5, <1>6

-----------------------------------------------------------------------------
(* Sums of functions.  A fold takes the elements in an order of its own;   *)
(* what follows says that there is such a fold and that the order does not *)
(* matter.                                                                 *)

\* f has the sum of g over every subset of D.
IsSum(D, g, f) ==
  f = [s \in SUBSET D |-> IF s = {} THEN 0
                          ELSE LET x == CHOOSE x \in s : TRUE
                               IN  g[x] + f[s \ {x}]]

(* The sum over no element, and over one more.                             *)
LEMMA SumSteps ==
  ASSUME NEW D, NEW g, NEW f, IsSum(D, g, f), NEW s \in SUBSET D
  PROVE  /\ s = {} => f[s] = 0
         /\ s # {} => \E x \in s : /\ x = CHOOSE y \in s : TRUE
                                   /\ f[s] = g[x] + f[s \ {x}]
<1>1. f[s] = IF s = {} THEN 0 ELSE LET x == CHOOSE x \in s : TRUE
                                   IN  g[x] + f[s \ {x}]
  BY DEF IsSum
<1> QED
  BY <1>1

(* Sums over different sets agree on the subsets of both.                  *)
LEMMA SumsAgree ==
  ASSUME NEW D, IsFiniteSet(D), NEW g, NEW C \in SUBSET D, NEW E \in SUBSET D,
         NEW f, IsSum(C, g, f), NEW h, IsSum(E, g, h)
  PROVE  \A s \in SUBSET (C \cap E) : f[s] = h[s]
<1> DEFINE Good == {s \in SUBSET (C \cap E) : f[s] = h[s]}
<1>1. IsFiniteSet(C \cap E)
  BY FS_Subset, FS_Intersection
<1>2. ASSUME NEW s \in SUBSET (C \cap E), \A u \in SUBSET s : u # s => u \in Good
      PROVE  s \in Good
  <2>1. CASE s = {}
    BY <2>1, SumSteps
  <2>2. CASE s # {}
    <3>1. PICK x \in s : /\ x = CHOOSE y \in s : TRUE
                         /\ f[s] = g[x] + f[s \ {x}]
      BY <2>2, SumSteps
    <3>2. PICK z \in s : /\ z = CHOOSE y \in s : TRUE
                         /\ h[s] = g[z] + h[s \ {z}]
      BY <2>2, SumSteps
    <3>3. s \ {x} \in Good
      BY <1>2
    <3> QED
      BY <3>1, <3>2, <3>3
  <2> QED
    BY <2>1, <2>2
<1> HIDE DEF Good
<1>3. \A s \in SUBSET (C \cap E) : s \in Good
  BY <1>1, <1>2, SubsetInduction
<1> QED
  BY <1>3 DEF Good

(* Every function on a finite set has its sums: those over the proper      *)
(* subsets give the one over the whole.                                    *)
LEMMA SumExists ==
  ASSUME NEW D, IsFiniteSet(D), NEW g
  PROVE  \E f : IsSum(D, g, f)
<1> DEFINE Good == {T \in SUBSET D : \E f : IsSum(T, g, f)}
<1>1. ASSUME NEW T \in SUBSET D, \A U \in SUBSET T : U # T => U \in Good
      PROVE  T \in Good
  <2> DEFINE F(U) == CHOOSE f : IsSum(U, g, f)
             c(s) == CHOOSE x \in s : TRUE
             h == [s \in SUBSET T |->
                     IF s # T THEN F(s)[s]
                     ELSE IF T = {} THEN 0 ELSE g[c(T)] + F(T \ {c(T)})[T \ {c(T)}]]
  <2>1. \A U \in SUBSET T : U # T => IsSum(U, g, F(U))
    BY <1>1
  <2>2. \A s \in SUBSET T : s # {} => c(s) \in s
    OBVIOUS
  <2>3. \A s \in SUBSET T : s # {} => s \ {c(s)} \in SUBSET T /\ s \ {c(s)} # T
    BY <2>2
  <2>4. ASSUME NEW s \in SUBSET T
        PROVE  h[s] = IF s = {} THEN 0 ELSE g[c(s)] + h[s \ {c(s)}]
    <3>1. CASE s = T
      BY <2>3, <3>1
    <3>2. CASE s # T
      <4>1. h[s] = F(s)[s] /\ IsSum(s, g, F(s)) /\ s \in SUBSET s
        BY <2>1, <3>2
      <4> HIDE DEF F
      <4>2. CASE s = {}
        <5>1. F(s)[s] = 0
          BY <4>1, <4>2, SumSteps
        <5> HIDE DEF h
        <5> QED
          BY <4>1, <4>2, <5>1
      <4>3. CASE s # {}
        <5> DEFINE u == s \ {c(s)}
        <5>1. F(s)[s] = g[c(s)] + F(s)[u]
          <6>1. \E x \in s : /\ x = CHOOSE y \in s : TRUE
                             /\ F(s)[s] = g[x] + F(s)[s \ {x}]
            BY <4>1, <4>3, SumSteps
          <6> QED
            BY <6>1
        <5>2. u \in SUBSET T /\ u # T /\ u \in SUBSET (s \cap u)
          BY <2>3, <4>3
        <5>3. IsSum(u, g, F(u))
          BY <2>1, <5>2
        <5>4. F(s)[u] = F(u)[u]
          <6> DEFINE fs == F(s)
                     fu == F(u)
          <6>1. s \in SUBSET D /\ u \in SUBSET D
            BY <5>2
          <6>2. IsSum(s, g, fs) /\ IsSum(u, g, fu)
            BY <4>1, <5>3
          <6> HIDE DEF u, h, fs, fu
          <6>3. \A r \in SUBSET (s \cap u) : fs[r] = fu[r]
            BY <6>1, <6>2, SumsAgree
          <6>4. fs[u] = fu[u]
            BY <5>2, <6>3
          <6> QED
            BY <6>4 DEF fs, fu
        <5>5. h[u] = F(u)[u]
          BY <5>2
        <5> HIDE DEF h, u
        <5>6. h[s] = g[c(s)] + h[u]
          BY <4>1, <5>1, <5>4, <5>5
        <5> QED
          BY <4>3, <5>6 DEF u
      <4> QED
        BY <4>2, <4>3
    <3> QED
      BY <3>1, <3>2
  <2>5. IsSum(T, g, h)
    <3>1. h = [s \in SUBSET T |-> h[s]]
      OBVIOUS
    <3> HIDE DEF h
    <3>2. h = [s \in SUBSET T |-> IF s = {} THEN 0 ELSE g[c(s)] + h[s \ {c(s)}]]
      BY <2>4, <3>1
    <3> QED
      BY <3>2 DEF IsSum
  <2> QED
    BY <2>5
<1> HIDE DEF Good
<1>2. D \in Good
  <2>1. \A T \in SUBSET D : T \in Good
    BY <1>1, SubsetInduction
  <2> QED
    BY <2>1
<1> QED
  BY <1>2 DEF Good

(* What is summed up first does not matter.                                *)
LEMMA SumAnyOrder ==
  ASSUME NEW D, IsFiniteSet(D), NEW g \in [D -> Int], NEW f, IsSum(D, g, f)
  PROVE  \A s \in SUBSET D : f[s] \in Int /\ \A y \in s : f[s] = g[y] + f[s \ {y}]
<1> DEFINE Good == {s \in SUBSET D : f[s] \in Int /\ \A y \in s : f[s] = g[y] + f[s \ {y}]}
<1>1. ASSUME NEW s \in SUBSET D, \A u \in SUBSET s : u # s => u \in Good
      PROVE  s \in Good
  <2>1. CASE s = {}
    BY <2>1, SumSteps
  <2>2. CASE s # {}
    <3>1. PICK x \in s : f[s] = g[x] + f[s \ {x}]
      BY <2>2, SumSteps
    <3>2. s \ {x} \in Good
      BY <1>1
    <3>3. f[s] \in Int /\ f[s \ {x}] \in Int /\ g[x] \in Int
      BY <3>1, <3>2
    <3>4. ASSUME NEW y \in s, y # x
          PROVE  f[s] = g[y] + f[s \ {y}]
      <4>1. s \ {y} \in Good /\ x \in s \ {y} /\ y \in s \ {x}
        BY <1>1, <3>4
      <4>2. f[s \ {x}] = g[y] + f[(s \ {x}) \ {y}]
        BY <3>2, <4>1
      <4>3. f[s \ {y}] = g[x] + f[(s \ {y}) \ {x}]
        BY <4>1
      <4>4. (s \ {x}) \ {y} = (s \ {y}) \ {x}
        OBVIOUS
      <4>5. (s \ {y}) \ {x} \in Good
        BY <1>1, <3>4
      <4>6. f[(s \ {y}) \ {x}] \in Int /\ g[y] \in Int
        BY <4>5
      <4> DEFINE rest == f[(s \ {y}) \ {x}]
                 gx == g[x]
                 gy == g[y]
      <4>7. f[s \ {x}] = gy + rest /\ f[s \ {y}] = gx + rest /\ f[s] = gx + f[s \ {x}]
        BY <3>1, <4>2, <4>3, <4>4
      <4>8. rest \in Int /\ gx \in Int /\ gy \in Int
        BY <3>3, <4>6
      <4> HIDE DEF rest, gx, gy
      <4>9. f[s] = gy + f[s \ {y}]
        BY <4>7, <4>8
      <4> QED
        BY <4>9 DEF gy
    <3> QED
      BY <3>1, <3>3, <3>4
  <2> QED
    BY <2>1, <2>2
<1> HIDE DEF Good
<1>2. \A s \in SUBSET D : s \in Good
  BY <1>1, SubsetInduction
<1> QED
  BY <1>2 DEF Good

(* The sum of the gaps between neighbours is the way from first to last.   *)
LEMMA SumOfGaps ==
  ASSUME NEW n \in Nat, NEW h \in [1 .. n + 1 -> Int]
  PROVE  SumFunction([k \in 1 .. n |-> h[k] - h[k + 1]]) = h[1] - h[n + 1]
<1> DEFINE D == 1 .. n
           g == [k \in 1 .. n |-> h[k] - h[k + 1]]
           f == CHOOSE e : IsSum(D, g, e)
<1>1. IsFiniteSet(D) /\ g \in [D -> Int] /\ DOMAIN g = D
  BY FS_Interval
<1>2. IsSum(D, g, f)
  <2> HIDE DEF g
  <2>1. \E e : IsSum(D, g, e)
    BY <1>1, SumExists
  <2> QED
    BY <2>1
<1>3. SumFunction(g) = f[D]
  <2> HIDE DEF g
  <2>1. f = CHOOSE e : e = [s \in SUBSET D |-> IF s = {} THEN 0
                             ELSE LET x == CHOOSE x \in s : TRUE
                                  IN  g[x] + e[s \ {x}]]
    BY DEF IsSum
  <2> HIDE DEF f, D
  <2>2. SumFunction(g) = (CHOOSE e : e = [s \in SUBSET D |-> IF s = {} THEN 0
                             ELSE LET x == CHOOSE x \in s : TRUE
                                  IN  g[x] + e[s \ {x}]])[D]
    BY <1>1 DEF SumFunction, SumFunctionOnSet, FoldFunctionOnSet, MapThenFoldSet
  <2> QED
    BY <2>1, <2>2
<1> HIDE DEF f
<1>4. \A s \in SUBSET D : f[s] \in Int /\ \A y \in s : f[s] = g[y] + f[s \ {y}]
  <2> HIDE DEF g, D
  <2> QED
    BY <1>1, <1>2, SumAnyOrder
<1> DEFINE Good == {m \in 0 .. n : f[1 .. m] = h[1] - h[m + 1]}
<1>5. 0 \in Good
  <2>1. 1 .. 0 = {} /\ {} \in SUBSET D
    OBVIOUS
  <2>2. f[{}] = 0
    <3> HIDE DEF D, g
    <3> QED
      BY <1>2, <2>1, SumSteps
  <2>3. h[1] - h[1] = 0 /\ 0 + 1 = 1
    OBVIOUS
  <2> QED
    BY <2>1, <2>2, <2>3
<1>6. ASSUME NEW m \in 0 .. n - 1, m \in Good
      PROVE  m + 1 \in Good
  <2>1. (1 .. m + 1) \in SUBSET D /\ m + 1 \in 1 .. m + 1
    OBVIOUS
  <2>2. (1 .. m + 1) \ {m + 1} = 1 .. m
    OBVIOUS
  <2>3. f[1 .. m + 1] = g[m + 1] + f[1 .. m]
    <3>1. f[1 .. m + 1] = g[m + 1] + f[(1 .. m + 1) \ {m + 1}]
      BY <1>4, <2>1
    <3> QED
      BY <2>2, <3>1
  <2>4. g[m + 1] = h[m + 1] - h[m + 2] /\ m + 1 + 1 = m + 2
    BY <2>1
  <2>5. h[m + 1] \in Int /\ h[m + 2] \in Int /\ h[1] \in Int
    OBVIOUS
  <2>6. f[1 .. m] = h[1] - h[m + 1]
    BY <1>6
  <2>7. f[1 .. m + 1] = h[1] - h[m + 2]
    <3> HIDE DEF g
    <3> QED
      BY <2>3, <2>4, <2>5, <2>6
  <2> QED
    BY <2>4, <2>7
<1> HIDE DEF Good
<1>7. n \in Good
  BY <1>5, <1>6, UpTo
<1> QED
  BY <1>3, <1>7 DEF Good
=============================================================================
