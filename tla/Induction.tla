------------------------------- MODULE Induction -------------------------------
(***************************************************************************)
(* Induction and recursion on numbers, and sums over finite sets, stated   *)
(* of sets and of functions rather than of predicates, so that they can be *)
(* cited without instantiating an operator.  They rest on two facts: that  *)
(* < is well founded on Nat, and strict inclusion on finite sets.          *)
(***************************************************************************)
EXTENDS Integers, FiniteSetTheorems, TLAPS

\* Every set of numbers has a least one, unless it is empty.
LEMMA LeastNumber ==
  ASSUME NEW T, T \subseteq Nat, T # {}
  PROVE  \E x \in T : \A y \in T : x <= y
<1> DEFINE R == OpToRel(<, Nat)
<1>1. IsWellFoundedOn(R, Nat)
  BY NatLessThanWellFounded
<1>2. \A x, y \in Nat : <<x, y>> \in R <=> x < y
  BY DEF OpToRel
<1> HIDE DEF R
<1>3. PICK x \in T : \A y \in T : ~(<<y, x>> \in R)
  BY <1>1, WFMin
<1>4. \A y \in T : y \in Nat /\ x \in Nat /\ ~(y < x)
  BY <1>2, <1>3
<1>5. \A y \in T : x <= y
  BY <1>4
<1> QED
  BY <1>5

\* Induction up to m: what holds of 0, and of each number if of the one
\* before it, holds of all.
LEMMA UpTo ==
  ASSUME NEW m \in Nat, NEW S, 0 \in S, \A n \in 1 .. m : n - 1 \in S => n \in S
  PROVE  0 .. m \subseteq S
<1> SUFFICES ASSUME ~(0 .. m \subseteq S)
             PROVE  FALSE
  OBVIOUS
<1>1. PICK T : T = {n \in 0 .. m : n \notin S}
  OBVIOUS
<1>2. PICK x \in T : \A y \in T : x <= y
  <2>1. T \subseteq Nat
    BY <1>1
  <2>2. T # {}
    BY <1>1
  <2> QED
    BY <2>1, <2>2, LeastNumber
<1>3. x \in 1 .. m /\ x \notin S
  BY <1>1
<1>4. x - 1 \in 0 .. m /\ x - 1 \notin T
  BY <1>2, <1>3
<1>5. x - 1 \in S
  BY <1>1, <1>4
<1> QED
  BY <1>3, <1>5

\* The function f has the first value v, and each other value is got from the
\* one before it by step.
Unfolds(m, v, step, f) ==
  f = [n \in 0 .. m |-> IF n = 0 THEN v ELSE step[<<n, f[n - 1]>>]]

StepsIn(m, V, v, step) == m \in Nat /\ v \in V /\ step \in [(1 .. m) \X V -> V]

\* Recursion up to m: there is such a function.
LEMMA RecursionUpTo ==
  ASSUME NEW m, NEW V, NEW v, NEW step, StepsIn(m, V, v, step)
  PROVE  \E f \in [0 .. m -> V] : Unfolds(m, v, step, f)
<1> USE DEF StepsIn
<1> DEFINE Def(f, k) == \A n \in 0 .. k : f[n] = IF n = 0 THEN v ELSE step[<<n, f[n - 1]>>]
           S == {k \in 0 .. m : \E f \in [0 .. k -> V] : Def(f, k)}
<1>1. 0 \in S
  <2>1. [n \in 0 .. 0 |-> v] \in [0 .. 0 -> V] /\ Def([n \in 0 .. 0 |-> v], 0)
    OBVIOUS
  <2>2. 0 \in 0 .. m
    OBVIOUS
  <2> QED
    BY <2>1, <2>2
<1>2. ASSUME NEW k \in 1 .. m, k - 1 \in S
      PROVE  k \in S
  <2>1. PICK f \in [0 .. k - 1 -> V] : Def(f, k - 1)
    BY <1>2
  <2>2. k - 1 \in 0 .. k - 1 /\ f[k - 1] \in V /\ <<k, f[k - 1]>> \in (1 .. m) \X V
    BY <2>1
  <2>3. step[<<k, f[k - 1]>>] \in V
    BY <2>2
  <2>4. PICK g : g = [n \in 0 .. k |-> IF n = k THEN step[<<k, f[k - 1]>>] ELSE f[n]]
    OBVIOUS
  <2>5. g \in [0 .. k -> V]
    BY <2>3, <2>4
  <2>6. \A n \in 0 .. k - 1 : g[n] = f[n]
    BY <2>4
  <2>7. Def(g, k)
    <3> SUFFICES ASSUME NEW n \in 0 .. k
                 PROVE  g[n] = IF n = 0 THEN v ELSE step[<<n, g[n - 1]>>]
      OBVIOUS
    <3>1. CASE n = k
      <4>1. n # 0 /\ n - 1 = k - 1 /\ n - 1 \in 0 .. k - 1
        BY <3>1
      <4>2. g[n] = step[<<n, f[k - 1]>>]
        BY <2>4, <3>1
      <4>3. g[n - 1] = f[k - 1]
        BY <2>6, <4>1
      <4> QED
        BY <4>1, <4>2, <4>3
    <3>2. CASE n # k
      <4>1. n \in 0 .. k - 1 /\ (n # 0 => n - 1 \in 0 .. k - 1)
        BY <3>2
      <4>2. f[n] = IF n = 0 THEN v ELSE step[<<n, f[n - 1]>>]
        BY <2>1, <4>1
      <4> QED
        BY <2>6, <4>1, <4>2
    <3> QED
      BY <3>1, <3>2
  <2> QED
    BY <2>5, <2>7
<1>3. m \in S
  <2> HIDE DEF S
  <2> QED
    BY <1>1, <1>2, UpTo
<1>4. PICK f \in [0 .. m -> V] : Def(f, m)
  BY <1>3
<1>5. f = [n \in 0 .. m |-> f[n]]
  BY <1>4
<1>6. f = [n \in 0 .. m |-> IF n = 0 THEN v ELSE step[<<n, f[n - 1]>>]]
  BY <1>4, <1>5
<1> QED
  BY <1>4, <1>6 DEF Unfolds

\* The same thing done again and again from v on, m times.
Iterates(m, v, next, f) == f[0] = v /\ \A n \in 1 .. m : f[n] = next[f[n - 1]]

LEMMA IterateUpTo ==
  ASSUME NEW m \in Nat, NEW V, NEW v \in V, NEW next \in [V -> V]
  PROVE  \E f \in [0 .. m -> V] : Iterates(m, v, next, f)
<1>1. PICK step : step = [p \in (1 .. m) \X V |-> next[p[2]]]
  OBVIOUS
<1>2. StepsIn(m, V, v, step)
  <2>1. step \in [(1 .. m) \X V -> V]
    BY <1>1
  <2> QED
    BY <2>1 DEF StepsIn
<1>3. PICK f \in [0 .. m -> V] : Unfolds(m, v, step, f)
  BY <1>2, RecursionUpTo
<1>4. \A n \in 0 .. m : f[n] = IF n = 0 THEN v ELSE step[<<n, f[n - 1]>>]
  BY <1>3 DEF Unfolds
<1>5. f[0] = v
  <2>1. 0 \in 0 .. m
    OBVIOUS
  <2> QED
    BY <1>4, <2>1
<1>6. ASSUME NEW n \in 1 .. m
      PROVE  f[n] = next[f[n - 1]]
  <2>1. n \in 0 .. m /\ n # 0 /\ n - 1 \in 0 .. m
    OBVIOUS
  <2>2. f[n] = step[<<n, f[n - 1]>>] /\ f[n - 1] \in V
    BY <1>4, <2>1
  <2>3. <<n, f[n - 1]>> \in (1 .. m) \X V
    BY <2>2
  <2> QED
    BY <1>1, <2>2, <2>3
<1> QED
  BY <1>5, <1>6 DEF Iterates

\* Two functions that agree on 0, and on each number if on the one before it ...
AgreeStepwise(m, f, g) ==
  /\ m \in Nat
  /\ f = [n \in 0 .. m |-> f[n]]
  /\ g = [n \in 0 .. m |-> g[n]]
  /\ f[0] = g[0]
  /\ \A n \in 1 .. m : f[n - 1] = g[n - 1] => f[n] = g[n]

\* ... are equal.
LEMMA SameUpTo ==
  ASSUME NEW m, NEW f, NEW g, AgreeStepwise(m, f, g)
  PROVE  f = g
<1> USE DEF AgreeStepwise
<1>1. PICK S : S = {n \in 0 .. m : f[n] = g[n]}
  OBVIOUS
<1>2. 0 .. m \subseteq S
  <2>1. 0 \in S
    BY <1>1
  <2>2. ASSUME NEW n \in 1 .. m, n - 1 \in S
        PROVE  n \in S
    <3>1. f[n] = g[n]
      BY <1>1, <2>2
    <3> QED
      BY <1>1, <3>1
  <2> QED
    BY <2>1, <2>2, UpTo
<1>3. \A n \in 0 .. m : f[n] = g[n]
  BY <1>1, <1>2
<1> QED
  BY <1>3

------------------------------------------------------------------------------
\* Counting among the first n numbers: one more if the last is in the set.
LEMMA CountStep ==
  ASSUME NEW n \in Nat \ {0}, NEW P
  PROVE  /\ Cardinality(P \cap (1 .. n)) \in Nat
         /\ Cardinality(P \cap (1 .. n - 1)) \in Nat
         /\ Cardinality(P \cap (1 .. n))
            = Cardinality(P \cap (1 .. n - 1)) + (IF n \in P THEN 1 ELSE 0)
<1> DEFINE A == P \cap (1 .. n - 1)
           B == P \cap (1 .. n)
<1>1. IsFiniteSet(A) /\ IsFiniteSet(B)
  <2>1. IsFiniteSet(1 .. n - 1) /\ IsFiniteSet(1 .. n)
    BY FS_Interval
  <2> QED
    BY <2>1, FS_Intersection
<1>2. Cardinality(A) \in Nat /\ Cardinality(B) \in Nat
  BY <1>1, FS_CardinalityType
<1>3. CASE n \in P
  <2>1. B = A \cup {n} /\ n \notin A
    BY <1>3
  <2>2. Cardinality(B) = Cardinality(A) + 1
    BY <1>1, <2>1, FS_AddElement
  <2> QED
    BY <1>2, <1>3, <2>2
<1>4. CASE n \notin P
  <2>1. B = A
    BY <1>4
  <2> QED
    BY <1>2, <1>4, <2>1
<1> QED
  BY <1>3, <1>4

LEMMA CountNone ==
  ASSUME NEW P
  PROVE  Cardinality(P \cap (1 .. 0)) = 0
<1>1. P \cap (1 .. 0) = {}
  OBVIOUS
<1> QED
  BY <1>1, FS_EmptySet

\* A set of some of the first n numbers has no fewer elements than its part.
LEMMA CountPart ==
  ASSUME NEW n \in Nat, NEW S, NEW T, S \subseteq T, T \subseteq 1 .. n
  PROVE  /\ Cardinality(S) \in Nat /\ Cardinality(T) \in Nat
         /\ Cardinality(S) <= Cardinality(T)
<1>1. IsFiniteSet(1 .. n)
  BY FS_Interval
<1>2. IsFiniteSet(T) /\ IsFiniteSet(S)
  BY <1>1, FS_Subset
<1> QED
  BY <1>2, FS_Subset, FS_CardinalityType

------------------------------------------------------------------------------
\* Recursion over the parts of a finite set, from each of which pick takes an
\* element away: a function on the parts that has the value base for the empty
\* one, and for another what step makes of its value for the rest.
Parting(D, V, base, pick, step) ==
  /\ IsFiniteSet(D) /\ base \in V /\ step \in [V \X D -> V]
  /\ \A s \in SUBSET D : s # {} => pick[s] \in s
OnParts(D, base, pick, step, g) ==
  g = [s \in SUBSET D |-> IF s = {} THEN base ELSE step[<<g[s \ {pick[s]}], pick[s]>>]]

\* There is such a function.
LEMMA RecursionOnParts ==
  ASSUME NEW D, NEW V, NEW base, NEW pick, NEW step, Parting(D, V, base, pick, step)
  PROVE  \E g \in [SUBSET D -> V] : OnParts(D, base, pick, step, g)
<1> USE DEF Parting
<1> DEFINE m == Cardinality(D)
           W == [SUBSET D -> V]
           w == [s \in SUBSET D |-> base]
           Step(h) == [s \in SUBSET D |-> IF s = {} THEN base
                                          ELSE step[<<h[s \ {pick[s]}], pick[s]>>]]
           next == [p \in (1 .. m) \X W |-> Step(p[2])]
<1>1. m \in Nat
  BY FS_CardinalityType
<1>2. \A s \in SUBSET D : /\ Cardinality(s) \in 0 .. m
                          /\ Cardinality(s) = 0 <=> s = {}
                          /\ s # {} => /\ pick[s] \in s /\ s \ {pick[s]} \in SUBSET D
                                       /\ Cardinality(s \ {pick[s]}) = Cardinality(s) - 1
  <2> SUFFICES ASSUME NEW s \in SUBSET D
               PROVE  /\ Cardinality(s) \in 0 .. m
                      /\ Cardinality(s) = 0 <=> s = {}
                      /\ s # {} => /\ pick[s] \in s /\ s \ {pick[s]} \in SUBSET D
                                   /\ Cardinality(s \ {pick[s]}) = Cardinality(s) - 1
    OBVIOUS
  <2>1. IsFiniteSet(s) /\ Cardinality(s) <= m
    BY FS_Subset
  <2>2. Cardinality(s) \in Nat
    BY <2>1, FS_CardinalityType
  <2>3. Cardinality(s) = 0 <=> s = {}
    BY <2>1, FS_EmptySet
  <2>4. s # {} => pick[s] \in s
    OBVIOUS
  <2>5. s # {} => Cardinality(s \ {pick[s]}) = Cardinality(s) - 1
    BY <2>1, <2>4, FS_RemoveElement
  <2> HIDE DEF m
  <2> QED
    BY <1>1, <2>1, <2>2, <2>3, <2>4, <2>5
<1>3. \A h \in W : Step(h) \in W
  <2> SUFFICES ASSUME NEW h \in W, NEW s \in SUBSET D
               PROVE  (IF s = {} THEN base ELSE step[<<h[s \ {pick[s]}], pick[s]>>]) \in V
    OBVIOUS
  <2>1. s # {} => <<h[s \ {pick[s]}], pick[s]>> \in V \X D
    BY <1>2
  <2> QED
    BY <2>1
<1>4. StepsIn(m, W, w, next)
  <2>1. w \in W
    OBVIOUS
  <2> HIDE DEF W, w, Step, m
  <2>2. next \in [(1 .. m) \X W -> W]
    BY <1>3
  <2> HIDE DEF next
  <2> QED
    BY <1>1, <2>1, <2>2 DEF StepsIn
<1> HIDE DEF m
<1>5. PICK F \in [0 .. m -> W] : Unfolds(m, w, next, F)
  <2> HIDE DEF W, w, next
  <2> QED
    BY <1>4, RecursionUpTo
<1>6. /\ F[0] = w
      /\ \A n \in 1 .. m : F[n] = Step(F[n - 1]) /\ n - 1 \in 0 .. m /\ F[n - 1] \in W
  <2>1. \A n \in 0 .. m : F[n] = IF n = 0 THEN w ELSE next[<<n, F[n - 1]>>]
    <3> HIDE DEF W, w, next
    <3> QED
      BY <1>1, <1>5 DEF Unfolds
  <2>2. F[0] = w
    <3>1. 0 \in 0 .. m
      BY <1>1
    <3> HIDE DEF W, w, Step, next
    <3> QED
      BY <2>1, <3>1
  <2>3. ASSUME NEW n \in 1 .. m
        PROVE  F[n] = Step(F[n - 1]) /\ n - 1 \in 0 .. m /\ F[n - 1] \in W
    <3>1. n \in 0 .. m /\ n - 1 \in 0 .. m /\ n # 0
      BY <1>1
    <3>2. F[n] = next[<<n, F[n - 1]>>]
      <4> HIDE DEF W, w, next
      <4> QED
        BY <2>1, <3>1
    <3>3. F[n - 1] \in W
      <4> HIDE DEF W
      <4> QED
        BY <1>5, <3>1
    <3>4. next[<<n, F[n - 1]>>] = Step(F[n - 1])
      <4> HIDE DEF W, Step
      <4> QED
        BY <3>3
    <3> QED
      BY <3>1, <3>2, <3>3, <3>4
  <2> QED
    BY <2>2, <2>3
<1> HIDE DEF W, w, next
<1>7. PICK S : S = {n \in 0 .. m : n # 0 => \A s \in SUBSET D : Cardinality(s) < n => F[n][s] = F[n - 1][s]}
  OBVIOUS
<1>8. \A n \in 1 .. m : \A s \in SUBSET D :
        F[n][s] = IF s = {} THEN base ELSE step[<<F[n - 1][s \ {pick[s]}], pick[s]>>]
  <2> HIDE DEF Parting
  <2> SUFFICES ASSUME NEW n \in 1 .. m, NEW s \in SUBSET D
               PROVE  F[n][s] = IF s = {} THEN base
                                ELSE step[<<F[n - 1][s \ {pick[s]}], pick[s]>>]
    OBVIOUS
  <2>1. F[n] = Step(F[n - 1])
    <3> HIDE DEF Step
    <3> QED
      BY <1>6
  <2> QED
    BY <2>1
<1> HIDE DEF Step, Parting
<1>9. ASSUME NEW n \in 1 .. m, n - 1 \in S
      PROVE  n \in S
  <2> SUFFICES ASSUME NEW s \in SUBSET D, Cardinality(s) < n
               PROVE  F[n][s] = F[n - 1][s]
    BY <1>7
  <2>1. CASE n = 1
    <3>0. Cardinality(s) \in 0 .. m /\ (Cardinality(s) = 0 <=> s = {})
      BY <1>2
    <3>1. s = {}
      BY <1>1, <2>1, <3>0
    <3>2. F[1][s] = base /\ F[0][s] = base
      BY <1>6, <1>8, <2>1, <3>1 DEF w
    <3> QED
      BY <2>1, <3>2
  <2>2. CASE n # 1
    <3>1. n - 1 \in 1 .. m /\ (n - 1) - 1 = n - 2 /\ n - 1 # 0
      BY <1>1, <2>2
    <3>2. F[n][s] = IF s = {} THEN base ELSE step[<<F[n - 1][s \ {pick[s]}], pick[s]>>]
      BY <1>8
    <3>3. F[n - 1][s] = IF s = {} THEN base ELSE step[<<F[n - 2][s \ {pick[s]}], pick[s]>>]
      <4>1. PICK k : k = n - 1
        OBVIOUS
      <4>2. k \in 1 .. m /\ k - 1 = n - 2
        BY <3>1, <4>1
      <4>3. F[k][s] = IF s = {} THEN base ELSE step[<<F[k - 1][s \ {pick[s]}], pick[s]>>]
        BY <1>8, <4>2
      <4> QED
        BY <4>1, <4>2, <4>3
    <3>4. s # {} => F[n - 1][s \ {pick[s]}] = F[n - 2][s \ {pick[s]}]
      <4>1. \A r \in SUBSET D : Cardinality(r) < n - 1 => F[n - 1][r] = F[n - 2][r]
        BY <1>7, <1>9, <3>1
      <4>2. s # {} => /\ s \ {pick[s]} \in SUBSET D
                      /\ Cardinality(s \ {pick[s]}) < n - 1
        BY <1>2
      <4> QED
        BY <4>1, <4>2
    <3> QED
      BY <3>2, <3>3, <3>4
  <2> QED
    BY <2>1, <2>2
<1>10. 0 .. m \subseteq S
  <2>1. 0 \in S
    BY <1>1, <1>7
  <2> QED
    BY <1>1, <1>9, <2>1, UpTo
<1>11. F[m] \in W
  BY <1>1, <1>5
<1>12. ASSUME NEW s \in SUBSET D
       PROVE  F[m][s] = IF s = {} THEN base ELSE step[<<F[m][s \ {pick[s]}], pick[s]>>]
  <2>1. CASE m = 0
    <3>0. Cardinality(s) \in 0 .. m /\ (Cardinality(s) = 0 <=> s = {})
      BY <1>2
    <3>1. s = {} /\ F[m] = w
      BY <1>6, <2>1, <3>0
    <3>2. F[m][s] = base
      BY <3>1 DEF w
    <3> QED
      BY <3>1, <3>2
  <2>2. CASE m # 0
    <3>1. m \in 1 .. m /\ m \in S
      BY <1>1, <1>10, <2>2
    <3>2. s # {} => /\ s \ {pick[s]} \in SUBSET D
                    /\ Cardinality(s \ {pick[s]}) < m
      <4>1. /\ Cardinality(s) \in 0 .. m
            /\ s # {} => /\ s \ {pick[s]} \in SUBSET D
                         /\ Cardinality(s \ {pick[s]}) = Cardinality(s) - 1
        BY <1>2
      <4> QED
        BY <1>1, <4>1
    <3>3. s # {} => F[m][s \ {pick[s]}] = F[m - 1][s \ {pick[s]}]
      BY <1>7, <2>2, <3>1, <3>2
    <3> QED
      BY <1>8, <3>1, <3>3
  <2> QED
    BY <2>1, <2>2
<1>13. F[m] = [s \in SUBSET D |-> F[m][s]]
  BY <1>11 DEF W
<1>14. OnParts(D, base, pick, step, F[m])
  BY <1>12, <1>13 DEF OnParts
<1> QED
  BY <1>11, <1>14 DEF W

\* The last number of a set, as Max of the module FiniteSetsExt has it, and the
\* fold of step along 1 .. n that takes the last number first.
LastOf(s) == CHOOSE x \in s : \A y \in s : x >= y

LEMMA LastNumber ==
  ASSUME NEW n \in Nat, NEW s \in SUBSET (1 .. n), s # {}
  PROVE  LastOf(s) \in s /\ \A y \in s : y <= LastOf(s)
<1>1. PICK T : T = {n - x : x \in s}
  OBVIOUS
<1>2. T \subseteq Nat /\ T # {}
  <2>1. \A x \in s : n - x \in Nat
    OBVIOUS
  <2> QED
    BY <1>1, <2>1
<1>3. PICK t \in T : \A r \in T : t <= r
  BY <1>2, LeastNumber
<1>4. PICK x \in s : t = n - x
  BY <1>1, <1>3
<1>5. \A y \in s : n - x <= n - y
  BY <1>1, <1>3, <1>4
<1>6. \A y \in s : x >= y
  BY <1>5
<1>7. LastOf(s) \in s /\ \A y \in s : LastOf(s) >= y
  BY <1>6 DEF LastOf
<1> QED
  BY <1>7

LEMMA LastOfInterval ==
  ASSUME NEW n \in Nat, NEW k \in 1 .. n
  PROVE  /\ 1 .. k \in SUBSET (1 .. n) /\ 1 .. k # {} /\ k - 1 \in 0 .. n
         /\ LastOf(1 .. k) = k /\ (1 .. k) \ {k} = 1 .. k - 1
<1>1. 1 .. k \subseteq 1 .. n /\ k \in 1 .. k /\ k - 1 \in 0 .. n
  OBVIOUS
<1>2. 1 .. k \in SUBSET (1 .. n) /\ 1 .. k # {}
  BY <1>1
<1>3. LastOf(1 .. k) \in 1 .. k /\ \A y \in 1 .. k : y <= LastOf(1 .. k)
  BY <1>2, LastNumber
<1>4. k <= LastOf(1 .. k)
  BY <1>1, <1>3
<1>5. LastOf(1 .. k) = k
  BY <1>3, <1>4
<1>6. (1 .. k) \ {k} = 1 .. k - 1
  OBVIOUS
<1> QED
  BY <1>1, <1>2, <1>5, <1>6

FoldsParts(n, base, step, g) ==
  g = [s \in SUBSET (1 .. n) |-> IF s = {} THEN base ELSE step[<<g[s \ {LastOf(s)}], LastOf(s)>>]]

\* Such a fold exists.
Folding(n, V, base, step) == n \in Nat /\ base \in V /\ step \in [V \X (1 .. n) -> V]

LEMMA FoldsExist ==
  ASSUME NEW n, NEW V, NEW base, NEW step, Folding(n, V, base, step)
  PROVE  \E g \in [SUBSET (1 .. n) -> V] : FoldsParts(n, base, step, g)
<1> DEFINE D == 1 .. n
<1>1. PICK pick : pick = [s \in SUBSET D |-> LastOf(s)]
  OBVIOUS
<1>2. \A s \in SUBSET D : s # {} => pick[s] \in s
  BY <1>1, LastNumber DEF Folding
<1>3. IsFiniteSet(D)
  BY FS_Interval DEF Folding
<1> HIDE DEF D
<1>4. Parting(D, V, base, pick, step)
  BY <1>2, <1>3 DEF Parting, Folding, D
<1>5. PICK g \in [SUBSET D -> V] : OnParts(D, base, pick, step, g)
  BY <1>4, RecursionOnParts
<1>6. \A s \in SUBSET D : pick[s] = LastOf(s)
  BY <1>1
<1>7. g = [s \in SUBSET D |-> IF s = {} THEN base ELSE step[<<g[s \ {pick[s]}], pick[s]>>]]
  BY <1>5 DEF OnParts
<1>8. g = [s \in SUBSET D |-> IF s = {} THEN base ELSE step[<<g[s \ {LastOf(s)}], LastOf(s)>>]]
  BY <1>6, <1>7
<1> QED
  BY <1>8 DEF FoldsParts, D

\* A fold along 1 .. n goes through its values for 1 .. 0, 1 .. 1 and so on.
FoldsAlong(n, base, step, h) ==
  h[0] = base /\ \A k \in 1 .. n : h[k] = step[<<h[k - 1], k>>]

LEMMA FoldsInOrder ==
  ASSUME NEW n \in Nat, NEW V, NEW base, NEW step,
         NEW g \in [SUBSET (1 .. n) -> V], FoldsParts(n, base, step, g)
  PROVE  \E h \in [0 .. n -> V] : FoldsAlong(n, base, step, h) /\ h[n] = g[1 .. n]
<1>1. PICK h : h = [k \in 0 .. n |-> g[1 .. k]]
  OBVIOUS
<1>2. \A k \in 0 .. n : 1 .. k \in SUBSET (1 .. n)
  OBVIOUS
<1>3. h \in [0 .. n -> V]
  BY <1>1, <1>2
<1>4. \A s \in SUBSET (1 .. n) :
        g[s] = IF s = {} THEN base ELSE step[<<g[s \ {LastOf(s)}], LastOf(s)>>]
  BY DEF FoldsParts
<1>5. h[0] = base
  <2>1. 1 .. 0 = {} /\ 0 \in 0 .. n
    OBVIOUS
  <2> QED
    BY <1>1, <1>4, <2>1
<1>6. ASSUME NEW k \in 1 .. n
      PROVE  h[k] = step[<<h[k - 1], k>>]
  <2>1. /\ k \in 0 .. n /\ k - 1 \in 0 .. n /\ 1 .. k # {} /\ 1 .. k \in SUBSET (1 .. n)
        /\ LastOf(1 .. k) = k /\ (1 .. k) \ {k} = 1 .. k - 1
    BY LastOfInterval
  <2>2. g[1 .. k] = step[<<g[(1 .. k) \ {k}], k>>]
    BY <1>4, <2>1
  <2> QED
    BY <1>1, <2>1, <2>2
<1>7. h[n] = g[1 .. n]
  BY <1>1
<1> QED
  BY <1>3, <1>5, <1>6, <1>7 DEF FoldsAlong

\* Two folds that agree step by step agree.
LEMMA SameFold ==
  ASSUME NEW n \in Nat, NEW g, NEW h, g[{}] = h[0],
         \A k \in 1 .. n : g[1 .. k - 1] = h[k - 1] => g[1 .. k] = h[k]
  PROVE  g[1 .. n] = h[n]
<1>1. PICK T : T = {k \in 0 .. n : g[1 .. k] = h[k]}
  OBVIOUS
<1>2. 0 \in T
  <2>1. 1 .. 0 = {} /\ 0 \in 0 .. n
    OBVIOUS
  <2> QED
    BY <1>1, <2>1
<1>3. \A k \in 1 .. n : k - 1 \in T => k \in T
  BY <1>1
<1>4. 0 .. n \subseteq T
  BY <1>2, <1>3, UpTo
<1>5. n \in 0 .. n
  OBVIOUS
<1> QED
  BY <1>1, <1>4, <1>5

------------------------------------------------------------------------------
\* The sum of the values of a function on a finite set, as SumFunction of the
\* module Functions has it: it takes the elements in an order of its own.
Chosen(s) == CHOOSE x \in s : TRUE
SumsTo(D, f, g) ==
  g = [s \in SUBSET D |-> IF s = {} THEN 0 ELSE f[Chosen(s)] + g[s \ {Chosen(s)}]]

\* There is a function that has the sum of every part of D ...
LEMMA SumsExist ==
  ASSUME NEW D, IsFiniteSet(D), NEW f \in [D -> Int]
  PROVE  \E g \in [SUBSET D -> Int] : SumsTo(D, f, g)
<1>1. PICK pick : pick = [s \in SUBSET D |-> Chosen(s)]
  OBVIOUS
<1>2. PICK step : step = [p \in Int \X D |-> f[p[2]] + p[1]]
  OBVIOUS
<1>3. \A s \in SUBSET D : s # {} => pick[s] \in s
  BY <1>1 DEF Chosen
<1>4. Parting(D, Int, 0, pick, step)
  <2>1. step \in [Int \X D -> Int]
    BY <1>2
  <2> QED
    BY <1>3, <2>1 DEF Parting
<1>5. PICK g \in [SUBSET D -> Int] : OnParts(D, 0, pick, step, g)
  BY <1>4, RecursionOnParts
<1>6. ASSUME NEW s \in SUBSET D, s # {}
      PROVE  step[<<g[s \ {pick[s]}], pick[s]>>] = f[Chosen(s)] + g[s \ {Chosen(s)}]
  <2>1. pick[s] = Chosen(s) /\ Chosen(s) \in D /\ s \ {Chosen(s)} \in SUBSET D
    BY <1>1, <1>3, <1>6
  <2>2. <<g[s \ {Chosen(s)}], Chosen(s)>> \in Int \X D
    BY <2>1
  <2> QED
    BY <1>2, <2>1, <2>2
<1>7. g = [s \in SUBSET D |-> IF s = {} THEN 0 ELSE step[<<g[s \ {pick[s]}], pick[s]>>]]
  BY <1>5 DEF OnParts
<1>8. g = [s \in SUBSET D |-> IF s = {} THEN 0 ELSE f[Chosen(s)] + g[s \ {Chosen(s)}]]
  BY <1>6, <1>7
<1> QED
  BY <1>8 DEF SumsTo

\* Induction over the parts of a finite set: if every part has the property
\* that has it when the smaller ones do, all parts have it.
Grows(D, S) == \A s \in SUBSET D : (\A r \in SUBSET s : r # s => r \in S) => s \in S

LEMMA PartsUp ==
  ASSUME NEW D, IsFiniteSet(D), NEW S, Grows(D, S)
  PROVE  SUBSET D \subseteq S
<1> DEFINE R == StrictSubsetOrdering(D)
           T == {s \in SUBSET D : s \notin S}
<1>1. IsWellFoundedOn(R, SUBSET D)
  BY FS_StrictSubsetOrderingWellFounded, FS_FiniteSubsetsOfFinite
<1>2. \A r, s \in SUBSET D : <<r, s>> \in R <=> r \subseteq s /\ r # s
  BY DEF StrictSubsetOrdering
<1> HIDE DEF R
<1> SUFFICES ASSUME T # {}
             PROVE  FALSE
  OBVIOUS
<1>3. PICK s \in T : \A r \in T : ~(<<r, s>> \in R)
  <2>1. T \subseteq SUBSET D
    OBVIOUS
  <2> HIDE DEF T
  <2> QED
    BY <1>1, <2>1, WFMin
<1>4. \A r \in SUBSET s : r # s => r \in S
  BY <1>2, <1>3
<1> QED
  BY <1>3, <1>4 DEF Grows

\* ... which is the element it takes first and the sum of the others, whatever
\* that element is.
Splits(D, f, g) ==
  /\ g[{}] = 0
  /\ \A s \in SUBSET D : \A x \in s : g[s] = f[x] + g[s \ {x}]

LEMMA SumsSplit ==
  ASSUME NEW D, IsFiniteSet(D), NEW f \in [D -> Int],
         NEW g \in [SUBSET D -> Int], SumsTo(D, f, g)
  PROVE  Splits(D, f, g)
<1>1. \A s \in SUBSET D : g[s] = IF s = {} THEN 0 ELSE f[Chosen(s)] + g[s \ {Chosen(s)}]
  BY DEF SumsTo
<1>2. \A s \in SUBSET D : s # {} => Chosen(s) \in s
  BY DEF Chosen
<1>3. PICK S : S = {s \in SUBSET D : \A x \in s : g[s] = f[x] + g[s \ {x}]}
  OBVIOUS
<1>4. ASSUME NEW s \in SUBSET D, \A r \in SUBSET s : r # s => r \in S
      PROVE  s \in S
  <2> SUFFICES ASSUME NEW x \in s
               PROVE  g[s] = f[x] + g[s \ {x}]
    BY <1>3
  <2>1. PICK c : c = Chosen(s)
    OBVIOUS
  <2>2. c \in s /\ g[s] = f[c] + g[s \ {c}]
    BY <1>1, <1>2, <2>1
  <2>3. CASE x = c
    BY <2>2, <2>3
  <2>4. CASE x # c
    <3>1. /\ s \ {c} \in SUBSET D /\ s \ {c} # s /\ x \in s \ {c}
          /\ s \ {x} \in SUBSET D /\ s \ {x} # s /\ c \in s \ {x}
          /\ (s \ {c}) \ {x} = (s \ {x}) \ {c} /\ (s \ {x}) \ {c} \in SUBSET D
      BY <2>2, <2>4
    <3>2. s \ {c} \in S /\ s \ {x} \in S
      BY <1>4, <3>1
    <3>3. g[s \ {c}] = f[x] + g[(s \ {c}) \ {x}]
      BY <1>3, <3>1, <3>2
    <3>4. g[s \ {x}] = f[c] + g[(s \ {x}) \ {c}]
      BY <1>3, <3>1, <3>2
    <3>5. f[x] \in Int /\ f[c] \in Int /\ g[(s \ {x}) \ {c}] \in Int
      BY <2>2, <3>1
    <3>6. (f[c] + (f[x] + g[(s \ {x}) \ {c}])) = (f[x] + (f[c] + g[(s \ {x}) \ {c}]))
      BY <3>5
    <3> QED
      BY <2>2, <3>1, <3>3, <3>4, <3>6
  <2> QED
    BY <2>3, <2>4
<1>5. SUBSET D \subseteq S
  <2>1. Grows(D, S)
    BY <1>4 DEF Grows
  <2> QED
    BY <2>1, PartsUp
<1>6. g[{}] = 0
  BY <1>1
<1> QED
  BY <1>3, <1>5, <1>6 DEF Splits

\* SumFunction is such a sum.
LEMMA SumFunctionSums ==
  ASSUME NEW D, IsFiniteSet(D), NEW f \in [D -> Int]
  PROVE  \E g \in [SUBSET D -> Int] : SumsTo(D, f, g) /\ SumFunction(f) = g[D]
<1>0. PICK it : it = CHOOSE g : g = [s \in SUBSET D |->
                     IF s = {} THEN 0 ELSE f[Chosen(s)] + g[s \ {Chosen(s)}]]
  OBVIOUS
<1>1. PICK h \in [SUBSET D -> Int] : SumsTo(D, f, h)
  BY SumsExist
<1>2. SumsTo(D, f, it)
  BY <1>0, <1>1 DEF SumsTo
<1>3. SumFunction(f) = it[D]
  <2>1. DOMAIN f = D
    OBVIOUS
  <2> QED
    BY <1>0, <2>1 DEF SumFunction, SumFunctionOnSet, FoldFunctionOnSet, MapThenFoldSet, Chosen
<1>4. PICK S : S = {s \in SUBSET D : it[s] \in Int}
  OBVIOUS
<1>5. \A s \in SUBSET D : it[s] = IF s = {} THEN 0 ELSE f[Chosen(s)] + it[s \ {Chosen(s)}]
  BY <1>2 DEF SumsTo
<1>6. ASSUME NEW s \in SUBSET D, \A r \in SUBSET s : r # s => r \in S
      PROVE  s \in S
  <2>1. CASE s = {}
    <3>1. it[s] = 0
      BY <1>5, <2>1
    <3> QED
      BY <1>4, <3>1
  <2>2. CASE s # {}
    <3>1. Chosen(s) \in s
      BY <2>2 DEF Chosen
    <3>2. s \ {Chosen(s)} \in S /\ f[Chosen(s)] \in Int
      BY <1>6, <3>1
    <3>3. it[s \ {Chosen(s)}] \in Int
      BY <1>4, <3>2
    <3>4. it[s] = f[Chosen(s)] + it[s \ {Chosen(s)}]
      BY <1>5, <2>2
    <3> QED
      BY <1>4, <3>2, <3>3, <3>4
  <2> QED
    BY <2>1, <2>2
<1>7. SUBSET D \subseteq S
  <2>1. Grows(D, S)
    BY <1>6 DEF Grows
  <2> QED
    BY <2>1, PartsUp
<1>8. it \in [SUBSET D -> Int]
  <2>1. it = [s \in SUBSET D |-> IF s = {} THEN 0 ELSE f[Chosen(s)] + it[s \ {Chosen(s)}]]
    BY <1>2 DEF SumsTo
  <2>2. \A s \in SUBSET D : it[s] \in Int
    BY <1>4, <1>7
  <2>3. it = [s \in SUBSET D |-> it[s]]
    BY <1>5, <2>1
  <2> QED
    BY <2>2, <2>3
<1> QED
  BY <1>2, <1>3, <1>8

\* What a sum comes to when all values are 0, and when one of them changes.
LEMMA SumOfZeros ==
  ASSUME NEW D, IsFiniteSet(D)
  PROVE  SumFunction([x \in D |-> 0]) = 0
<1>1. PICK f \in [D -> Int] : f = [x \in D |-> 0]
  <2>1. [x \in D |-> 0] \in [D -> Int]
    OBVIOUS
  <2> QED
    BY <2>1
<1>2. PICK g \in [SUBSET D -> Int] : SumsTo(D, f, g) /\ SumFunction(f) = g[D]
  BY SumFunctionSums
<1>3. PICK S : S = {s \in SUBSET D : g[s] = 0}
  OBVIOUS
<1>4. /\ g[{}] = 0
      /\ \A s \in SUBSET D : \A x \in s : g[s] = f[x] + g[s \ {x}]
  <2>1. Splits(D, f, g)
    BY <1>2, SumsSplit
  <2> QED
    BY <2>1 DEF Splits
<1>5. ASSUME NEW s \in SUBSET D, \A r \in SUBSET s : r # s => r \in S
      PROVE  s \in S
  <2>1. CASE s = {}
    BY <1>3, <1>4, <2>1
  <2>2. CASE s # {}
    <3>1. PICK x \in s : TRUE
      BY <2>2
    <3>2. s \ {x} \in S /\ f[x] = 0
      BY <1>1, <1>5, <3>1
    <3>3. g[s] = f[x] + g[s \ {x}]
      BY <1>4
    <3> QED
      BY <1>3, <3>2, <3>3
  <2> QED
    BY <2>1, <2>2
<1>6. SUBSET D \subseteq S
  <2>1. Grows(D, S)
    BY <1>5 DEF Grows
  <2> QED
    BY <2>1, PartsUp
<1> QED
  BY <1>1, <1>2, <1>3, <1>6

LEMMA SumChanges ==
  ASSUME NEW D, IsFiniteSet(D), NEW f \in [D -> Int], NEW h \in [D -> Int],
         NEW x \in D, \A y \in D : y # x => h[y] = f[y]
  PROVE  /\ SumFunction(f) \in Int /\ SumFunction(h) \in Int
         /\ SumFunction(h) = SumFunction(f) + (h[x] - f[x])
<1>1. PICK g \in [SUBSET D -> Int] : SumsTo(D, f, g) /\ SumFunction(f) = g[D]
  BY SumFunctionSums
<1>2. PICK k \in [SUBSET D -> Int] : SumsTo(D, h, k) /\ SumFunction(h) = k[D]
  BY SumFunctionSums
<1>3. /\ g[{}] = 0
      /\ \A s \in SUBSET D : \A y \in s : g[s] = f[y] + g[s \ {y}]
  <2>1. Splits(D, f, g)
    BY <1>1, SumsSplit
  <2> QED
    BY <2>1 DEF Splits
<1>4. /\ k[{}] = 0
      /\ \A s \in SUBSET D : \A y \in s : k[s] = h[y] + k[s \ {y}]
  <2>1. Splits(D, h, k)
    BY <1>2, SumsSplit
  <2> QED
    BY <2>1 DEF Splits
<1>5. PICK S : S = {s \in SUBSET D : x \notin s => k[s] = g[s]}
  OBVIOUS
<1>6. ASSUME NEW s \in SUBSET D, \A r \in SUBSET s : r # s => r \in S
      PROVE  s \in S
  <2> SUFFICES ASSUME x \notin s
               PROVE  k[s] = g[s]
    BY <1>5
  <2>1. CASE s = {}
    BY <1>3, <1>4, <2>1
  <2>2. CASE s # {}
    <3>1. PICK y \in s : TRUE
      BY <2>2
    <3>2. s \ {y} \in S /\ s \ {y} \in SUBSET D /\ x \notin s \ {y}
      BY <1>6, <3>1
    <3>3. k[s \ {y}] = g[s \ {y}] /\ h[y] = f[y]
      BY <1>5, <3>1, <3>2
    <3>4. k[s] = h[y] + k[s \ {y}] /\ g[s] = f[y] + g[s \ {y}]
      BY <1>3, <1>4
    <3> QED
      BY <3>3, <3>4
  <2> QED
    BY <2>1, <2>2
<1>7. SUBSET D \subseteq S
  <2>1. Grows(D, S)
    BY <1>6 DEF Grows
  <2> QED
    BY <2>1, PartsUp
<1>8. k[D \ {x}] = g[D \ {x}]
  BY <1>5, <1>7
<1>9. g[D] = f[x] + g[D \ {x}] /\ k[D] = h[x] + k[D \ {x}]
  BY <1>3, <1>4
<1>10. g[D] \in Int /\ k[D] \in Int /\ g[D \ {x}] \in Int /\ f[x] \in Int /\ h[x] \in Int
  OBVIOUS
<1> QED
  BY <1>1, <1>2, <1>8, <1>9, <1>10

\* A sum over the parts of a set is the sum over two of them that lie apart.
Adds(D, g) == \A a, b \in SUBSET D : a \cap b = {} => g[a \cup b] = g[a] + g[b]

LEMMA SplitsAdd ==
  ASSUME NEW D, IsFiniteSet(D), NEW f \in [D -> Int], NEW g \in [SUBSET D -> Int],
         Splits(D, f, g)
  PROVE  Adds(D, g)
<1> SUFFICES ASSUME NEW a \in SUBSET D, NEW b \in SUBSET D, a \cap b = {}
             PROVE  g[a \cup b] = g[a] + g[b]
  BY DEF Adds
<1>1. /\ g[{}] = 0
      /\ \A s \in SUBSET D : \A x \in s : g[s] = f[x] + g[s \ {x}]
  BY DEF Splits
<1>2. PICK S : S = {s \in SUBSET D : a \cap s = {} => g[a \cup s] = g[a] + g[s]}
  OBVIOUS
<1>3. ASSUME NEW s \in SUBSET D, \A r \in SUBSET s : r # s => r \in S
      PROVE  s \in S
  <2> SUFFICES ASSUME a \cap s = {}
               PROVE  g[a \cup s] = g[a] + g[s]
    BY <1>2
  <2>1. CASE s = {}
    <3>1. a \cup s = a
      BY <2>1
    <3>2. g[a \cup s] = g[a] /\ g[s] = 0
      BY <1>1, <2>1, <3>1
    <3>3. g[a] \in Int
      OBVIOUS
    <3> QED
      BY <3>2, <3>3
  <2>2. CASE s # {}
    <3>1. PICK x \in s : TRUE
      BY <2>2
    <3>2. /\ s \ {x} \in SUBSET s /\ s \ {x} # s /\ a \cap (s \ {x}) = {}
          /\ (a \cup s) \ {x} = a \cup (s \ {x}) /\ x \in a \cup s /\ a \cup s \in SUBSET D
          /\ s \ {x} \in SUBSET D
      BY <3>1
    <3>3. g[a \cup (s \ {x})] = g[a] + g[s \ {x}]
      BY <1>2, <1>3, <3>2
    <3>4. g[a \cup s] = f[x] + g[a \cup (s \ {x})] /\ g[s] = f[x] + g[s \ {x}]
      BY <1>1, <3>1, <3>2
    <3>5. f[x] \in Int /\ g[a] \in Int /\ g[s \ {x}] \in Int
      BY <3>1, <3>2
    <3> QED
      BY <3>3, <3>4, <3>5
  <2> QED
    BY <2>1, <2>2
<1>4. SUBSET D \subseteq S
  <2>1. Grows(D, S)
    BY <1>3 DEF Grows
  <2> QED
    BY <2>1, PartsUp
<1> QED
  BY <1>2, <1>4

\* The number of elements is the sum of a 1 for each.
LEMMA CardinalitySplits ==
  ASSUME NEW D, IsFiniteSet(D)
  PROVE  /\ [s \in SUBSET D |-> Cardinality(s)] \in [SUBSET D -> Int]
         /\ Splits(D, [x \in D |-> 1], [s \in SUBSET D |-> Cardinality(s)])
<1>1. \A s \in SUBSET D : /\ Cardinality(s) \in Int
                          /\ \A x \in s : Cardinality(s) = 1 + Cardinality(s \ {x})
  <2> SUFFICES ASSUME NEW s \in SUBSET D
               PROVE  /\ Cardinality(s) \in Int
                      /\ \A x \in s : Cardinality(s) = 1 + Cardinality(s \ {x})
    OBVIOUS
  <2>1. IsFiniteSet(s)
    BY FS_Subset
  <2>2. Cardinality(s) \in Nat
    BY <2>1, FS_CardinalityType
  <2>3. ASSUME NEW x \in s
        PROVE  Cardinality(s \ {x}) = Cardinality(s) - 1
    BY <2>1, FS_RemoveElement
  <2> QED
    BY <2>2, <2>3
<1>2. Cardinality({}) = 0
  BY FS_EmptySet
<1> QED
  BY <1>1, <1>2 DEF Splits

\* Sums of the same values are the same.
LEMMA SumsAgree ==
  ASSUME NEW D, IsFiniteSet(D), NEW f \in [D -> Int], NEW it, SumsTo(D, f, it)
  PROVE  SumFunction(f) = it[D]
<1>1. PICK g \in [SUBSET D -> Int] : SumsTo(D, f, g) /\ SumFunction(f) = g[D]
  BY SumFunctionSums
<1>2. /\ \A s \in SUBSET D : g[s] = IF s = {} THEN 0 ELSE f[Chosen(s)] + g[s \ {Chosen(s)}]
      /\ \A s \in SUBSET D : it[s] = IF s = {} THEN 0 ELSE f[Chosen(s)] + it[s \ {Chosen(s)}]
  BY <1>1 DEF SumsTo
<1>3. PICK S : S = {s \in SUBSET D : it[s] = g[s]}
  OBVIOUS
<1>4. ASSUME NEW s \in SUBSET D, \A r \in SUBSET s : r # s => r \in S
      PROVE  s \in S
  <2>1. CASE s = {}
    BY <1>2, <1>3, <2>1
  <2>2. CASE s # {}
    <3>1. Chosen(s) \in s
      BY <2>2 DEF Chosen
    <3>2. s \ {Chosen(s)} \in S
      BY <1>4, <3>1
    <3> QED
      BY <1>2, <1>3, <2>2, <3>2
  <2> QED
    BY <2>1, <2>2
<1>5. SUBSET D \subseteq S
  <2>1. Grows(D, S)
    BY <1>4 DEF Grows
  <2> QED
    BY <2>1, PartsUp
<1> QED
  BY <1>1, <1>3, <1>5

\* Adding up the values of 0 .. n - 1 in their order comes to their sum.
AddsUp(n, f, p) == p[0] = 0 /\ \A k \in 1 .. n : p[k] = p[k - 1] + f[k - 1]

LEMMA SumInOrder ==
  ASSUME NEW n \in Nat, NEW f \in [0 .. n - 1 -> Int]
  PROVE  \E p \in [0 .. n -> Int] : AddsUp(n, f, p) /\ p[n] = SumFunction(f)
<1>1. PICK D : D = 0 .. n - 1
  OBVIOUS
<1>2. IsFiniteSet(D) /\ f \in [D -> Int]
  <2>1. n - 1 \in Int
    OBVIOUS
  <2> QED
    BY <1>1, <2>1, FS_Interval
<1>3. PICK g \in [SUBSET D -> Int] : SumsTo(D, f, g) /\ SumFunction(f) = g[D]
  BY <1>2, SumFunctionSums
<1>4. /\ g[{}] = 0
      /\ \A s \in SUBSET D : \A x \in s : g[s] = f[x] + g[s \ {x}]
  <2>1. Splits(D, f, g)
    BY <1>2, <1>3, SumsSplit
  <2> QED
    BY <2>1 DEF Splits
<1>5. PICK p : p = [k \in 0 .. n |-> g[0 .. k - 1]]
  OBVIOUS
<1>6. \A k \in 0 .. n : 0 .. k - 1 \in SUBSET D
  BY <1>1
<1>7. p \in [0 .. n -> Int]
  BY <1>3, <1>5, <1>6
<1>8. p[0] = 0
  <2>1. 0 .. 0 - 1 = {} /\ 0 \in 0 .. n
    OBVIOUS
  <2> QED
    BY <1>4, <1>5, <2>1
<1>9. ASSUME NEW k \in 1 .. n
      PROVE  p[k] = p[k - 1] + f[k - 1]
  <2>1. /\ k \in 0 .. n /\ k - 1 \in 0 .. n /\ k - 1 \in 0 .. k - 1
        /\ (0 .. k - 1) \ {k - 1} = 0 .. (k - 1) - 1
    OBVIOUS
  <2>2. g[0 .. k - 1] = f[k - 1] + g[(0 .. k - 1) \ {k - 1}]
    BY <1>4, <1>6, <2>1
  <2>3. p[k] = g[0 .. k - 1] /\ p[k - 1] = g[0 .. (k - 1) - 1]
    BY <1>5, <2>1
  <2>4. p[k - 1] \in Int /\ f[k - 1] \in Int
    <3>1. k - 1 \in 0 .. n - 1
      OBVIOUS
    <3> QED
      BY <1>7, <2>1, <3>1
  <2>5. PICK x, y \in Int : x = p[k - 1] /\ y = f[k - 1]
    BY <2>4
  <2>6. p[k] = y + x
    BY <2>1, <2>2, <2>3, <2>5
  <2> QED
    BY <2>5, <2>6
<1>10. p[n] = SumFunction(f)
  BY <1>1, <1>3, <1>5
<1> QED
  BY <1>7, <1>8, <1>9, <1>10 DEF AddsUp

\* As many times the same value.
LEMMA SumOfEqual ==
  ASSUME NEW D, IsFiniteSet(D), NEW c \in Int, NEW f, f = [x \in D |-> c]
  PROVE  SumFunction(f) = c * Cardinality(D)
<1>1. f \in [D -> Int]
  OBVIOUS
<1>2. PICK g \in [SUBSET D -> Int] : SumsTo(D, f, g) /\ SumFunction(f) = g[D]
  BY SumFunctionSums
<1>3. /\ g[{}] = 0
      /\ \A s \in SUBSET D : \A x \in s : g[s] = f[x] + g[s \ {x}]
  <2>1. Splits(D, f, g)
    BY <1>2, SumsSplit
  <2> QED
    BY <2>1 DEF Splits
<1>4. PICK S : S = {s \in SUBSET D : g[s] = c * Cardinality(s)}
  OBVIOUS
<1>5. ASSUME NEW s \in SUBSET D, \A r \in SUBSET s : r # s => r \in S
      PROVE  s \in S
  <2>1. CASE s = {}
    <3>1. Cardinality(s) = 0 /\ c * 0 = 0
      BY <2>1, FS_EmptySet
    <3> QED
      BY <1>3, <1>4, <2>1, <3>1
  <2>2. CASE s # {}
    <3>1. PICK x \in s : TRUE
      BY <2>2
    <3>2. g[s \ {x}] = c * Cardinality(s \ {x}) /\ f[x] = c
      BY <1>4, <1>5, <3>1
    <3>3. g[s] = f[x] + g[s \ {x}]
      BY <1>3
    <3>4. IsFiniteSet(s)
      BY FS_Subset
    <3>5. Cardinality(s) \in Nat /\ Cardinality(s \ {x}) = Cardinality(s) - 1
      BY <3>4, FS_CardinalityType, FS_RemoveElement
    <3>6. PICK m \in Int : m = Cardinality(s)
      BY <3>5
    <3>7. c + c * (m - 1) = c * m
      OBVIOUS
    <3> QED
      BY <1>4, <3>2, <3>3, <3>5, <3>6, <3>7
  <2> QED
    BY <2>1, <2>2
<1>6. SUBSET D \subseteq S
  <2>1. Grows(D, S)
    BY <1>5 DEF Grows
  <2> QED
    BY <2>1, PartsUp
<1> QED
  BY <1>2, <1>4, <1>6

\* The sum over sets that lie apart is that over all their elements.
Apart(D, N, own) ==
  /\ own \in [D -> SUBSET N]
  /\ \A x, y \in D : x # y => own[x] \cap own[y] = {}
  /\ \A n \in N : \E x \in D : n \in own[x]

Gathers(D, own, g, f) == f = [x \in D |-> g[own[x]]]

LEMMA SumOfApart ==
  ASSUME NEW D, IsFiniteSet(D), NEW N, NEW own, Apart(D, N, own),
         NEW g \in [SUBSET N -> Int], g[{}] = 0, Adds(N, g), NEW f, Gathers(D, own, g, f)
  PROVE  SumFunction(f) = g[N]
<1>1. own \in [D -> SUBSET N] /\ \A x, y \in D : x # y => own[x] \cap own[y] = {}
  BY DEF Apart
<1>2. f \in [D -> Int] /\ \A x \in D : f[x] = g[own[x]]
  BY <1>1 DEF Gathers
<1>3. PICK h \in [SUBSET D -> Int] : SumsTo(D, f, h) /\ SumFunction(f) = h[D]
  BY <1>2, SumFunctionSums
<1>4. /\ h[{}] = 0
      /\ \A s \in SUBSET D : \A x \in s : h[s] = f[x] + h[s \ {x}]
  <2>1. Splits(D, f, h)
    BY <1>2, <1>3, SumsSplit
  <2> QED
    BY <2>1 DEF Splits
<1> DEFINE Of(s) == {n \in N : \E x \in s : n \in own[x]}
<1>5. PICK S : S = {s \in SUBSET D : h[s] = g[Of(s)]}
  OBVIOUS
<1>6. ASSUME NEW s \in SUBSET D, \A r \in SUBSET s : r # s => r \in S
      PROVE  s \in S
  <2>1. CASE s = {}
    <3>1. Of(s) = {}
      BY <2>1
    <3> HIDE DEF Of
    <3> QED
      BY <1>4, <1>5, <2>1, <3>1
  <2>2. CASE s # {}
    <3>1. PICK x \in s : TRUE
      BY <2>2
    <3>2. PICK a, b : a = Of(s \ {x}) /\ b = own[x]
      OBVIOUS
    <3>3. a \in SUBSET N /\ b \in SUBSET N /\ a \cup b = Of(s)
      BY <1>1, <3>1, <3>2
    <3>4. a \cap b = {}
      <4> SUFFICES ASSUME NEW n \in a, n \in b
                   PROVE  FALSE
        OBVIOUS
      <4>1. PICK y \in s \ {x} : n \in own[y]
        BY <3>2
      <4>2. y \in D /\ x \in D /\ y # x
        BY <3>1, <4>1
      <4> QED
        BY <1>1, <3>2, <4>1, <4>2
    <3> HIDE DEF Of
    <3>5. h[s \ {x}] = g[a]
      <4>1. s \ {x} \in SUBSET s /\ s \ {x} # s
        BY <3>1
      <4> QED
        BY <1>5, <1>6, <3>2, <4>1
    <3>6. g[a \cup b] = g[a] + g[b]
      BY <3>3, <3>4 DEF Adds
    <3>7. h[s] = g[b] + g[a]
      BY <1>2, <1>4, <3>1, <3>2, <3>5
    <3>8. g[a] \in Int /\ g[b] \in Int
      BY <3>3
    <3>9. PICK u, v \in Int : u = g[a] /\ v = g[b]
      BY <3>8
    <3>10. g[Of(s)] = g[a \cup b]
      BY <3>3
    <3>11. g[Of(s)] = u + v /\ h[s] = v + u
      BY <3>6, <3>7, <3>9, <3>10
    <3>12. h[s] = g[Of(s)]
      BY <3>9, <3>11
    <3> QED
      BY <1>5, <3>12
  <2> QED
    BY <2>1, <2>2
<1>7. SUBSET D \subseteq S
  <2>1. Grows(D, S)
    BY <1>6 DEF Grows
  <2> QED
    BY <2>1, PartsUp
<1>8. Of(D) = N
  BY DEF Apart
<1> HIDE DEF Of
<1> QED
  BY <1>3, <1>5, <1>7, <1>8
================================================================================
