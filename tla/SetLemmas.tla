----------------------------- MODULE SetLemmas -----------------------------
(***************************************************************************)
(* What the proofs need of minima, of words and of recursion. The minimum   *)
(* of a set of naturals exists because the intervals below its members are  *)
(* finite sets, which inclusion orders well. From it come induction, with a *)
(* set in the place of a predicate; that a definition by recursion over the *)
(* naturals defines a function (RecursionExists); and that the recursion    *)
(* behind the folds of the community modules does so (FoldExists).          *)
(***************************************************************************)
EXTENDS Integers, FiniteSetsExt, FiniteSetTheorems, WellFoundedInduction, TLAPS

(* A set of naturals that is not empty has a least member.                  *)
LEMMA LeastNumber ==
    ASSUME NEW S \in SUBSET Nat, S # {}
    PROVE  \E x \in S : \A y \in S : x <= y
<1> DEFINE R == StrictSubsetOrdering(Nat)
           Below == {0 .. k : k \in S}
<1>1. Below \subseteq FiniteSubsetsOf(Nat) /\ Below # {}
  <2>1. \A k \in S : 0 .. k \subseteq Nat /\ IsFiniteSet(0 .. k)
    BY FS_Interval
  <2>2. QED  BY <2>1 DEF FiniteSubsetsOf
<1>2. PICK T \in Below : \A V \in Below : ~(<<V, T>> \in R)
  <2> HIDE DEF R, Below
  <2>1. IsWellFoundedOn(R, FiniteSubsetsOf(Nat))
    BY FS_StrictSubsetOrderingWellFounded DEF R
  <2>2. QED  BY <1>1, <2>1, WFMin
<1>3. PICK x \in S : T = 0 .. x
  BY <1>2
<1>4. ASSUME NEW y \in S PROVE x <= y
  <2>1. SUFFICES ASSUME y < x PROVE FALSE
    OBVIOUS
  <2>2. 0 .. y \subseteq 0 .. x /\ x \in 0 .. x /\ x \notin 0 .. y
    BY <2>1
  <2>3. <<0 .. y, T>> \in R
    BY <1>3, <2>2 DEF StrictSubsetOrdering
  <2>4. QED  BY <1>2, <2>3
<1>5. QED  BY <1>4

(* Min of a set of naturals is a member and no greater than any other.      *)
LEMMA MinOfNaturals ==
    ASSUME NEW S \in SUBSET Nat, S # {}
    PROVE  Min(S) \in S /\ \A y \in S : Min(S) <= y
  BY LeastNumber DEF Min

(* A member no greater than any other is Min.                               *)
LEMMA MinIs ==
    ASSUME NEW S \in SUBSET Nat, NEW m \in S, \A y \in S : m <= y
    PROVE  Min(S) = m
<1>1. Min(S) \in S /\ \A y \in S : Min(S) <= y
  BY MinOfNaturals
<1> DEFINE x == Min(S)
<1>2. x \in Nat /\ m \in Nat /\ x <= m /\ m <= x
  BY <1>1
<1> HIDE DEF x
<1>3. x = m
  BY <1>2
<1>4. QED  BY <1>3 DEF x

(* Word number w of W words of B bits lies within the W * B bits.           *)
LEMMA WordWithin ==
    ASSUME NEW B \in Nat \ {0}, NEW W \in Nat, NEW w \in 0 .. W - 1
    PROVE  /\ w * B \in Nat
           /\ (w + 1) * B = w * B + B
           /\ w * B + B <= W * B
           /\ W * B \in Nat
           /\ W <= W * B
  OBVIOUS

(* A set of naturals with 0 and every successor of a member has them all.   *)
LEMMA Induction ==
    ASSUME NEW S, 0 \in S, \A n \in Nat : n \in S => n + 1 \in S
    PROVE  \A n \in Nat : n \in S
<1>1. SUFFICES ASSUME NEW n \in Nat, n \notin S PROVE FALSE
  OBVIOUS
<1>2. PICK x \in Nat \ S : \A y \in Nat \ S : x <= y
  <2>1. Nat \ S \in SUBSET Nat /\ Nat \ S # {}
    BY <1>1
  <2>2. QED  BY <2>1, LeastNumber
<1>3. x # 0
  OBVIOUS
<1>4. x - 1 \in Nat /\ ~(x <= x - 1)
  BY <1>3
<1>5. x - 1 \in S
  BY <1>2, <1>4
<1>6. (x - 1) + 1 \in S
  BY <1>4, <1>5
<1>7. QED  BY <1>6

(* So has one with every natural whose predecessors are all members.        *)
LEMMA StrongInduction ==
    ASSUME NEW S, \A n \in Nat : (\A m \in 0 .. n - 1 : m \in S) => n \in S
    PROVE  \A n \in Nat : n \in S
<1>1. SUFFICES ASSUME NEW n \in Nat, n \notin S PROVE FALSE
  OBVIOUS
<1>2. PICK x \in Nat \ S : \A y \in Nat \ S : x <= y
  <2>1. Nat \ S \in SUBSET Nat /\ Nat \ S # {}
    BY <1>1
  <2>2. QED  BY <2>1, LeastNumber
<1>3. \A m \in 0 .. x - 1 : m \in S
  BY <1>2
<1>4. QED  BY <1>3

(* A definition by recursion over the naturals, each value from that of a   *)
(* smaller number, defines a function.                                      *)
IsRecursion(f, T, b, before, G) ==
    /\ f \in [Nat -> T] /\ f[0] = b
    /\ \A v \in Nat \ {0} : f[v] = G[<<v, f[before[v]]>>]

LEMMA RecursionExists ==
    ASSUME NEW T, NEW b \in T, NEW before \in [Nat -> Nat],
           \A v \in Nat \ {0} : before[v] < v,
           NEW G \in [Nat \X T -> T]
    PROVE  \E f : IsRecursion(f, T, b, before, G)
<1> DEFINE Upto(f, n) == /\ f \in [0 .. n -> T] /\ f[0] = b
                         /\ \A v \in 1 .. n : f[v] = G[<<v, f[before[v]]>>]
<1>1. ASSUME NEW v \in Nat \ {0} PROVE before[v] \in 0 .. v - 1
  BY <1>1
<1>2. ASSUME NEW m \in Nat, NEW n \in Nat, m <= n, NEW f, NEW g, Upto(f, m), Upto(g, n)
      PROVE  \A v \in 0 .. m : f[v] = g[v]
  <2> DEFINE S == {v \in Nat : v <= m => f[v] = g[v]}
  <2>1. ASSUME NEW v \in Nat, \A u \in 0 .. v - 1 : u \in S PROVE v \in S
    <3>1. CASE v = 0
      BY <1>2, <3>1
    <3>2. CASE v # 0 /\ v <= m
      <4>1. before[v] \in 0 .. v - 1 /\ v \in 1 .. m /\ v \in 1 .. n
        <5>1. v \in Nat \ {0}
          BY <3>2
        <5>2. before[v] \in 0 .. v - 1
          BY <1>1, <5>1
        <5>3. QED  BY <1>2, <3>2, <5>1, <5>2
      <4>2. before[v] <= m
        BY <3>2, <4>1
      <4>3. f[before[v]] = g[before[v]]
        BY <2>1, <4>1, <4>2
      <4>4. f[v] = G[<<v, f[before[v]]>>] /\ g[v] = G[<<v, g[before[v]]>>]
        BY <1>2, <4>1
      <4>5. QED  BY <4>3, <4>4
    <3>3. (v <= m => f[v] = g[v]) => v \in S
      OBVIOUS
    <3>4. QED
      <4> HIDE DEF S, Upto
      <4>1. v <= m => f[v] = g[v]
        BY <1>2, <3>1, <3>2 DEF S
      <4>2. QED  BY <3>3, <4>1
  <2>2. \A v \in Nat : v \in S
    <3> HIDE DEF S
    <3>1. QED  BY <2>1, StrongInduction
  <2>3. QED  BY <2>2
<1>3. \A n \in Nat : \E f : Upto(f, n)
  <2> DEFINE S == {n \in Nat : \E f : Upto(f, n)}
  <2>1. 0 \in S
    <3>1. Upto([v \in 0 .. 0 |-> b], 0)
      OBVIOUS
    <3>2. QED  BY <3>1
  <2>2. ASSUME NEW n \in Nat, n \in S PROVE n + 1 \in S
    <3>1. PICK f : Upto(f, n)
      BY <2>2
    <3>2. before[n + 1] \in 0 .. n
      BY <1>1
    <3>3. PICK y : y = G[<<n + 1, f[before[n + 1]]>>]
      OBVIOUS
    <3>4. y \in T
      BY <3>1, <3>2, <3>3
    <3>5. PICK g : g = [v \in 0 .. n + 1 |-> IF v = n + 1 THEN y ELSE f[v]]
      OBVIOUS
    <3>6. g \in [0 .. n + 1 -> T] /\ g[0] = b /\ \A v \in 0 .. n : g[v] = f[v]
      BY <3>1, <3>4, <3>5
    <3>7. ASSUME NEW v \in 1 .. n + 1 PROVE g[v] = G[<<v, g[before[v]]>>]
      <4>1. before[v] \in 0 .. v - 1 /\ before[v] \in 0 .. n
        BY <1>1
      <4>2. g[before[v]] = f[before[v]]
        BY <3>6, <4>1
      <4>3. CASE v = n + 1
        <5>1. g[v] = y
          BY <3>5, <4>3
        <5>2. y = G[<<v, f[before[v]]>>]
          BY <3>3, <4>3
        <5>3. QED  BY <4>2, <5>1, <5>2
      <4>4. CASE v # n + 1
        <5>1. v \in 1 .. n /\ v \in 0 .. n
          BY <4>4
        <5>2. QED  BY <3>1, <3>6, <4>2, <5>1
      <4>5. QED  BY <4>3, <4>4
    <3>8. Upto(g, n + 1)
      BY <3>6, <3>7
    <3>9. QED
      <4> HIDE DEF Upto
      <4>1. n + 1 \in Nat
        OBVIOUS
      <4>2. QED  BY <3>8, <4>1
  <2>3. \A n \in Nat : n \in S
    <3> HIDE DEF S
    <3>1. QED  BY <2>1, <2>2, Induction
  <2>4. QED
    <3> HIDE DEF Upto
    <3>1. QED  BY <2>3
<1> DEFINE part(n) == CHOOSE f : Upto(f, n)
           whole == [n \in Nat |-> part(n)[n]]
<1>4. \A n \in Nat : Upto(part(n), n)
  BY <1>3
<1>5. \A n \in Nat : \A v \in 0 .. n : whole[v] = part(n)[v]
  <2> HIDE DEF part, Upto
  <2>1. SUFFICES ASSUME NEW n \in Nat, NEW v \in 0 .. n PROVE whole[v] = part(n)[v]
    OBVIOUS
  <2>2. v \in Nat /\ v <= n /\ v \in 0 .. v /\ Upto(part(v), v) /\ Upto(part(n), n)
    BY <1>4
  <2>3. part(v)[v] = part(n)[v]
    BY <1>2, <2>2
  <2>4. QED  BY <2>2, <2>3
<1>6. whole \in [Nat -> T]
  <2>1. ASSUME NEW n \in Nat PROVE part(n)[n] \in T
    <3> HIDE DEF part
    <3>1. part(n) \in [0 .. n -> T] /\ n \in 0 .. n
      BY <1>4
    <3>2. QED  BY <3>1
  <2> HIDE DEF part
  <2>2. QED  BY <2>1
<1>7. whole[0] = b
  <2> HIDE DEF part
  <2>1. Upto(part(0), 0) /\ whole[0] = part(0)[0]
    BY <1>4
  <2>2. QED  BY <2>1
<1>8. ASSUME NEW v \in Nat \ {0} PROVE whole[v] = G[<<v, whole[before[v]]>>]
  <2>1. before[v] \in 0 .. v /\ v \in 0 .. v /\ v \in 1 .. v
    BY <1>1
  <2>2. whole[v] = part(v)[v] /\ whole[before[v]] = part(v)[before[v]]
    BY <1>5, <2>1
  <2>3. part(v)[v] = G[<<v, part(v)[before[v]]>>]
    <3> HIDE DEF part
    <3>1. QED  BY <1>4, <2>1
  <2>4. QED
    <3> HIDE DEF part, whole
    <3>1. QED  BY <2>2, <2>3
<1>9. QED
  <2> HIDE DEF whole
  <2>1. IsRecursion(whole, T, b, before, G)
    BY <1>6, <1>7, <1>8 DEF IsRecursion
  <2>2. QED  BY <2>1

(* A member no less than any other is Max.                                  *)
LEMMA MaxIs ==
    ASSUME NEW S \in SUBSET Int, NEW m \in S, \A y \in S : y <= m
    PROVE  Max(S) = m
<1>1. Max(S) \in S /\ \A y \in S : Max(S) >= y
  BY DEF Max
<1> DEFINE x == Max(S)
<1>2. x \in Int /\ m \in Int /\ x >= m /\ x <= m
  BY <1>1
<1> HIDE DEF x
<1>3. x = m
  BY <1>2
<1>4. QED  BY <1>3 DEF x

(* A set of numbers up to n that is not empty has a greatest member.        *)
LEMMA MaxWithin ==
    ASSUME NEW n \in Nat, NEW S \in SUBSET (1 .. n), S # {}
    PROVE  Max(S) \in S
<1> DEFINE T == {n - y : y \in S}
<1>1. PICK t \in T : \A u \in T : t <= u
  <2>1. T \in SUBSET Nat /\ T # {}
    <3>1. \A y \in S : n - y \in Nat
      OBVIOUS
    <3>2. QED  BY <3>1
  <2> HIDE DEF T
  <2>2. QED  BY <2>1, LeastNumber
<1>2. PICK x \in S : t = n - x
  BY <1>1
<1>3. \A y \in S : y <= x
  <2>1. ASSUME NEW y \in S PROVE y <= x
    <3>1. n - y \in T
      OBVIOUS
    <3>2. n - x <= n - y
      BY <1>1, <1>2, <3>1
    <3>3. x \in 1 .. n /\ y \in 1 .. n
      OBVIOUS
    <3>4. QED  BY <3>2, <3>3
  <2>2. QED  BY <2>1
<1>4. S \in SUBSET Int
  OBVIOUS
<1>5. QED  BY <1>3, <1>4, MaxIs

(* The numbers up to k, without the last.                                   *)
LEMMA LastOfInterval ==
    ASSUME NEW k \in Nat \ {0}
    PROVE  1 .. k # {} /\ Max(1 .. k) = k /\ (1 .. k) \ {k} = 1 .. k - 1
<1>1. k \in 1 .. k /\ 1 .. k \in SUBSET Int /\ \A y \in 1 .. k : y <= k
  OBVIOUS
<1>2. Max(1 .. k) = k
  BY <1>1, MaxIs
<1>3. (1 .. k) \ {k} = 1 .. k - 1
  OBVIOUS
<1>4. QED  BY <1>1, <1>2, <1>3

(* A fold over a sequence of n elements, as the library defines it, does.   *)
IsFold(f, n, T, b, G) ==
    /\ f \in [SUBSET (1 .. n) -> T]
    /\ \A s \in SUBSET (1 .. n) :
           f[s] = IF s = {} THEN b ELSE G[<<Max(s), f[s \ {Max(s)}]>>]

LEMMA FoldExists ==
    ASSUME NEW n \in Nat, NEW T, NEW b \in T, NEW G \in [(1 .. n) \X T -> T]
    PROVE  \E f : IsFold(f, n, T, b, G)
<1> DEFINE Fold(f, k) ==
               /\ f \in [SUBSET (1 .. k) -> T]
               /\ \A s \in SUBSET (1 .. k) :
                      f[s] = IF s = {} THEN b ELSE G[<<Max(s), f[s \ {Max(s)}]>>]
           Q == {k \in Nat : k <= n => \E f : Fold(f, k)}
<1>1. 0 \in Q
  <2>1. \A s \in SUBSET (1 .. 0) : s = {}
    OBVIOUS
  <2>2. PICK f : f = [s \in SUBSET (1 .. 0) |-> b]
    OBVIOUS
  <2>3. f \in [SUBSET (1 .. 0) -> T] /\ \A s \in SUBSET (1 .. 0) : f[s] = b
    BY <2>2
  <2>4. Fold(f, 0)
    BY <2>1, <2>3
  <2> HIDE DEF Fold
  <2>5. QED  BY <2>4
<1>2. ASSUME NEW k \in Nat, k \in Q, k + 1 <= n PROVE \E f : Fold(f, k + 1)
  <2>1. PICK f : Fold(f, k)
    <3> HIDE DEF Fold
    <3>1. k <= n
      BY <1>2
    <3>2. QED  BY <1>2, <3>1
  <2>2. PICK g : g = [s \in SUBSET (1 .. k + 1) |->
                          IF k + 1 \in s THEN G[<<k + 1, f[s \ {k + 1}]>>] ELSE f[s]]
    OBVIOUS
  <2>3. k + 1 \in 1 .. n
    BY <1>2
  <2>4. ASSUME NEW s \in SUBSET (1 .. k + 1)
        PROVE  /\ s \ {k + 1} \in SUBSET (1 .. k)
               /\ f[s \ {k + 1}] \in T
               /\ k + 1 \notin s => s \in SUBSET (1 .. k)
    <3>1. s \ {k + 1} \in SUBSET (1 .. k)
      OBVIOUS
    <3>2. f \in [SUBSET (1 .. k) -> T]
      BY <2>1
    <3> HIDE DEF Fold
    <3>3. QED  BY <3>1, <3>2
  <2>5. g \in [SUBSET (1 .. k + 1) -> T]
    <3>1. f \in [SUBSET (1 .. k) -> T]
      BY <2>1
    <3>2. ASSUME NEW s \in SUBSET (1 .. k + 1)
          PROVE  (IF k + 1 \in s THEN G[<<k + 1, f[s \ {k + 1}]>>] ELSE f[s]) \in T
      <4> HIDE DEF Fold
      <4>1. CASE k + 1 \in s
        BY <2>3, <2>4, <4>1
      <4>2. CASE k + 1 \notin s
        BY <2>4, <3>1, <4>2
      <4>3. QED  BY <4>1, <4>2
    <3> HIDE DEF Fold
    <3>3. QED  BY <2>2, <3>2
  <2>6. \A s \in SUBSET (1 .. k) : g[s] = f[s]
    <3>1. ASSUME NEW s \in SUBSET (1 .. k) PROVE s \in SUBSET (1 .. k + 1) /\ k + 1 \notin s
      OBVIOUS
    <3> HIDE DEF Fold
    <3>2. QED  BY <2>2, <3>1
  <2>7. ASSUME NEW s \in SUBSET (1 .. k + 1)
        PROVE  g[s] = IF s = {} THEN b ELSE G[<<Max(s), g[s \ {Max(s)}]>>]
    <3>1. CASE k + 1 \in s
      <4> HIDE DEF Fold
      <4>1. Max(s) = k + 1
        <5>1. s \in SUBSET Int /\ \A y \in s : y <= k + 1
          OBVIOUS
        <5>2. QED  BY <3>1, <5>1, MaxIs
      <4>2. g[s] = G[<<k + 1, f[s \ {k + 1}]>>] /\ g[s \ {k + 1}] = f[s \ {k + 1}]
        BY <2>2, <2>4, <2>6, <3>1
      <4>3. s # {}
        BY <3>1
      <4>4. QED  BY <4>1, <4>2, <4>3
    <3>2. CASE k + 1 \notin s
      <4>1. s \in SUBSET (1 .. k)
        BY <2>4, <3>2
      <4>2. s \ {Max(s)} \in SUBSET (1 .. k)
        BY <4>1
      <4>3. f[s] = IF s = {} THEN b ELSE G[<<Max(s), f[s \ {Max(s)}]>>]
        BY <2>1, <4>1
      <4> HIDE DEF Fold
      <4>4. g[s] = f[s] /\ g[s \ {Max(s)}] = f[s \ {Max(s)}]
        BY <2>6, <4>1, <4>2
      <4>5. QED  BY <4>3, <4>4
    <3>3. QED  BY <3>1, <3>2
  <2>8. Fold(g, k + 1)
    BY <2>5, <2>7
  <2> HIDE DEF Fold
  <2>9. QED  BY <2>8
<1>3. \A k \in Nat : k \in Q
  <2>1. \A k \in Nat : k \in Q => k + 1 \in Q
    <3> HIDE DEF Fold
    <3>1. QED  BY <1>2
  <2> HIDE DEF Q
  <2>2. QED  BY <1>1, <2>1, Induction
<1>4. PICK f : Fold(f, n)
  <2> HIDE DEF Fold
  <2>1. QED  BY <1>3
<1>5. IsFold(f, n, T, b, G)
  BY <1>4 DEF IsFold
<1>6. QED  BY <1>5
=============================================================================
