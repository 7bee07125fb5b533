----------------------------- MODULE SharesProofs -----------------------------
(***************************************************************************)
(* The shares that the programs deal out divide the work, for any amount   *)
(* of it and any number of tasks or processes.                             *)
(***************************************************************************)
EXTENDS Shares, Induction, TLAPS

\* Quotient and remainder, without which nothing can be said of products.
LEMMA Division ==
  ASSUME NEW total \in Nat, NEW n \in Nat \ {0}
  PROVE  /\ total \div n \in Nat /\ total % n \in 0 .. (n - 1)
         /\ total = n * (total \div n) + (total % n)
BY SMTT(20)

\* Numbers have one quotient and one remainder.
LEMMA Remainder ==
  ASSUME NEW n \in Nat \ {0}, NEW q \in Nat, NEW r \in 0 .. n - 1
  PROVE  n * q + r \in Nat /\ (n * q + r) % n = r /\ (n * q + r) \div n = q
BY SMTT(30)

\* Later tasks have larger products.
LEMMA ProductGrows ==
  ASSUME NEW q \in Nat, NEW i \in Nat, NEW j \in Nat, i < j
  PROVE  /\ i * q \in Nat /\ j * q \in Nat
         /\ (i + 1) * q = i * q + q
         /\ i * q + q <= j * q
<1>1. PICK d \in Nat : j = (i + 1) + d
  <2>1. j - (i + 1) \in Nat /\ j = (i + 1) + (j - (i + 1))
    OBVIOUS
  <2> QED
    BY <2>1
<1>2. d * q \in Nat /\ i * q \in Nat /\ j * q \in Nat
  BY SMTT(20)
<1>3. j * q = (i * q + q) + d * q
  BY <1>1, SMTT(20)
<1>4. (i + 1) * q = i * q + q
  BY SMTT(20)
<1> QED
  BY <1>2, <1>3, <1>4

\* The shares lie one after the other, from the first thing to the last, and
\* no two of them differ by more than one.
THEOREM SharesTile ==
  ASSUME NEW total \in Nat, NEW n \in Nat \ {0}
  PROVE  /\ First(total, n, 0) = 0
         /\ Past(total, n, n - 1) = total
         /\ \A i \in 0 .. n - 2 : Past(total, n, i) = First(total, n, i + 1)
         /\ \A i \in 0 .. n - 1 :
              /\ First(total, n, i) \in Nat
              /\ Past(total, n, i) = First(total, n, i) + ShareLen(total, n, i)
              /\ ShareLen(total, n, i) \in {total \div n, total \div n + 1}
<1> DEFINE q == total \div n
           r == total % n
<1>1. q \in Nat /\ r \in 0 .. n - 1 /\ total = n * q + r
  BY Division
<1> HIDE DEF q, r
<1>2. \A i : First(total, n, i) = i * q + (IF i >= r THEN r ELSE i)
  BY DEF First, q, r
<1>3. \A i : Past(total, n, i) = First(total, n, i) + q + (IF i >= r THEN 0 ELSE 1)
  BY DEF Past, q, r
<1>4. \A i : ShareLen(total, n, i) = q + (IF i < r THEN 1 ELSE 0)
  BY DEF ShareLen, q, r
<1>5. First(total, n, 0) = 0
  <2>1. 0 * q = 0
    BY <1>1
  <2> QED
    BY <1>1, <1>2, <2>1
<1>6. Past(total, n, n - 1) = total
  <2>1. n - 1 >= r /\ (n - 1) * q + q = n * q /\ (n - 1) * q \in Nat /\ n * q \in Nat
    BY <1>1, SMTT(20)
  <2>2. First(total, n, n - 1) = (n - 1) * q + r
    BY <1>2, <2>1
  <2>3. Past(total, n, n - 1) = First(total, n, n - 1) + q
    BY <1>1, <1>3, <2>1, <2>2
  <2> QED
    BY <1>1, <2>1, <2>2, <2>3
<1>7. ASSUME NEW i \in 0 .. n - 1
      PROVE  /\ i * q \in Nat /\ First(total, n, i) \in Nat
             /\ Past(total, n, i) = First(total, n, i) + ShareLen(total, n, i)
             /\ ShareLen(total, n, i) \in {q, q + 1}
  <2>1. i * q \in Nat
    BY <1>1, SMTT(20)
  <2>2. First(total, n, i) \in Nat
    BY <1>1, <1>2, <2>1
  <2> QED
    BY <1>1, <1>3, <1>4, <2>1, <2>2
<1>8. ASSUME NEW i \in 0 .. n - 2
      PROVE  Past(total, n, i) = First(total, n, i + 1)
  <2>1. i * q \in Nat /\ (i + 1) * q = i * q + q /\ i \in Nat /\ i + 1 \in Nat
    BY <1>1, ProductGrows
  <2>2. Past(total, n, i) = i * q + (IF i >= r THEN r ELSE i) + q + (IF i >= r THEN 0 ELSE 1)
    BY <1>2, <1>3
  <2>3. First(total, n, i + 1) = i * q + q + (IF i + 1 >= r THEN r ELSE i + 1)
    BY <1>2, <2>1
  <2> QED
    BY <1>1, <2>1, <2>2, <2>3
<1> QED
  BY <1>5, <1>6, <1>7, <1>8 DEF q

\* No thing is in the shares of two tasks.
THEOREM SharesAreDisjoint ==
  ASSUME NEW total \in Nat, NEW n \in Nat \ {0},
         NEW i \in 0 .. n - 1, NEW j \in 0 .. n - 1, i # j
  PROVE  (First(total, n, i) .. Past(total, n, i) - 1)
           \cap (First(total, n, j) .. Past(total, n, j) - 1) = {}
<1> DEFINE q == total \div n
           r == total % n
<1>1. q \in Nat /\ r \in 0 .. n - 1
  BY Division
<1> HIDE DEF q, r
<1>2. \A k : First(total, n, k) = k * q + (IF k >= r THEN r ELSE k)
  BY DEF First, q, r
<1>3. \A k : Past(total, n, k) = First(total, n, k) + q + (IF k >= r THEN 0 ELSE 1)
  BY DEF Past, q, r
<1>4. ASSUME NEW k \in 0 .. n - 1, NEW l \in 0 .. n - 1, k < l
      PROVE  /\ Past(total, n, k) <= First(total, n, l)
             /\ First(total, n, k) \in Nat /\ Past(total, n, k) \in Nat
             /\ First(total, n, l) \in Nat /\ Past(total, n, l) \in Nat
  <2>1. k * q \in Nat /\ l * q \in Nat /\ k * q + q <= l * q
    BY <1>1, <1>4, ProductGrows
  <2>2. Past(total, n, k) = k * q + (IF k >= r THEN r ELSE k) + q + (IF k >= r THEN 0 ELSE 1)
    BY <1>2, <1>3
  <2>3. /\ First(total, n, l) = l * q + (IF l >= r THEN r ELSE l)
        /\ First(total, n, k) = k * q + (IF k >= r THEN r ELSE k)
        /\ Past(total, n, l) = l * q + (IF l >= r THEN r ELSE l) + q + (IF l >= r THEN 0 ELSE 1)
    BY <1>2, <1>3
  <2> QED
    BY <1>1, <1>4, <2>1, <2>2, <2>3
<1>5. CASE i < j
  BY <1>4, <1>5
<1>6. CASE j < i
  BY <1>4, <1>6
<1> QED
  BY <1>5, <1>6

\* Nothing is left out: each thing is in the share of a task, and no task is
\* dealt a thing that is not there.
THEOREM SharesCover ==
  ASSUME NEW total \in Nat, NEW n \in Nat \ {0}
  PROVE  /\ \A t \in 0 .. total - 1 :
              \E i \in 0 .. n - 1 : t \in First(total, n, i) .. Past(total, n, i) - 1
         /\ \A i \in 0 .. n - 1 :
              First(total, n, i) \in Nat /\ Past(total, n, i) \in 0 .. total
<1>0. n - 1 \in 0 .. n - 1 /\ 0 \in 0 .. n - 1 /\ Past(total, n, n - 1) = total
  BY SharesTile
<1>1. ASSUME NEW i \in 0 .. n - 1
      PROVE  /\ First(total, n, i) \in Nat
             /\ Past(total, n, i) \in Nat /\ First(total, n, i) <= Past(total, n, i)
             /\ i # 0 => Past(total, n, i - 1) = First(total, n, i)
  <2>1. /\ First(total, n, i) \in Nat
        /\ Past(total, n, i) = First(total, n, i) + ShareLen(total, n, i)
        /\ ShareLen(total, n, i) \in {total \div n, total \div n + 1}
    BY SharesTile
  <2>2. total \div n \in Nat
    BY Division
  <2>3. i # 0 => i - 1 \in 0 .. n - 2 /\ (i - 1) + 1 = i
    OBVIOUS
  <2>4. i # 0 => Past(total, n, i - 1) = First(total, n, i)
    BY <2>3, SharesTile
  <2> QED
    BY <2>1, <2>2, <2>4
<1>2. ASSUME NEW t \in 0 .. total - 1
      PROVE  \E i \in 0 .. n - 1 : t \in First(total, n, i) .. Past(total, n, i) - 1
  <2>1. PICK T : T = {i \in 0 .. n - 1 : t < Past(total, n, i)}
    OBVIOUS
  <2>2. T \subseteq Nat /\ T # {}
    BY <1>0, <2>1
  <2>3. PICK i \in T : \A j \in T : i <= j
    BY <2>2, LeastNumber
  <2>4. i \in 0 .. n - 1 /\ t < Past(total, n, i)
    BY <2>1
  <2>5. First(total, n, i) <= t
    <3>1. CASE i = 0
      BY <3>1, SharesTile
    <3>2. CASE i # 0
      <4>1. i - 1 \in 0 .. n - 1 /\ i - 1 \notin T
        BY <2>3, <2>4, <3>2
      <4>2. Past(total, n, i - 1) \in Nat /\ ~(t < Past(total, n, i - 1))
        BY <1>1, <2>1, <4>1
      <4> QED
        BY <1>1, <2>4, <3>2, <4>2
    <3> QED
      BY <3>1, <3>2
  <2> QED
    BY <1>1, <2>4, <2>5
\* Counting down from the last task, whose share ends at total.
<1>3. ASSUME NEW i \in 0 .. n - 1
      PROVE  Past(total, n, i) \in 0 .. total
  <2>1. PICK T : T = {k \in 0 .. n - 1 : Past(total, n, n - 1 - k) <= total}
    OBVIOUS
  <2>2. 0 \in T
    BY <1>0, <2>1
  <2>3. ASSUME NEW k \in 1 .. n - 1, k - 1 \in T
        PROVE  k \in T
    <3>1. /\ n - 1 - (k - 1) \in 0 .. n - 1 /\ n - 1 - (k - 1) # 0
          /\ n - 1 - (k - 1) - 1 = n - 1 - k /\ n - 1 - k \in 0 .. n - 1
      OBVIOUS
    <3>2. Past(total, n, n - 1 - (k - 1)) <= total
      BY <2>1, <2>3
    <3>3. Past(total, n, n - 1 - k) = First(total, n, n - 1 - (k - 1))
      BY <1>1, <3>1
    <3>4. /\ First(total, n, n - 1 - (k - 1)) <= Past(total, n, n - 1 - (k - 1))
          /\ First(total, n, n - 1 - (k - 1)) \in Nat
          /\ Past(total, n, n - 1 - (k - 1)) \in Nat
      BY <1>1, <3>1
    <3>5. Past(total, n, n - 1 - k) <= total
      BY <3>2, <3>3, <3>4
    <3> QED
      BY <2>1, <3>5
  <2>4. n - 1 \in Nat
    OBVIOUS
  <2>5. 0 .. n - 1 \subseteq T
    BY <2>2, <2>3, <2>4, UpTo
  <2>6. n - 1 - i \in T /\ n - 1 - (n - 1 - i) = i
    BY <2>5
  <2> QED
    BY <1>1, <2>1, <2>6
<1> QED
  BY <1>1, <1>2, <1>3

\* Two functions that differ at x alone, and so do their sums.
OnlyAt(n, f, h, x) == \A y \in 1 .. n : y # x => h[y] = f[y]

LEMMA SumOfNumbered ==
  ASSUME NEW n \in Nat, NEW f \in [1 .. n -> Int], NEW h \in [1 .. n -> Int],
         NEW x \in 1 .. n, OnlyAt(n, f, h, x)
  PROVE  SumFunction(h) = SumFunction(f) + (h[x] - f[x])
<1>1. IsFiniteSet(1 .. n)
  BY FS_Interval
<1> QED
  BY <1>1, SumChanges DEF OnlyAt

\* The n takers have the numbers 0 to n - 1, in any order.
Numbers(n, id) ==
  /\ id \in [1 .. n -> 0 .. n - 1]
  /\ \A p, q \in 1 .. n : p # q => id[p] # id[q]
  /\ \A i \in 0 .. n - 1 : \E p \in 1 .. n : id[p] = i

\* The shares that are dealt sum to the whole, in whatever order they are summed.
THEOREM SharesSum ==
  ASSUME NEW total \in Nat, NEW n \in Nat \ {0}, NEW id, Numbers(n, id)
  PROVE  SumFunction([p \in 1 .. n |-> ShareLen(total, n, id[p])]) = total
<1> DEFINE share(i) == ShareLen(total, n, i)
           part(m) == [p \in 1 .. n |-> IF id[p] < m THEN share(id[p]) ELSE 0]
           upTo(m) == IF m < n THEN First(total, n, m) ELSE total
<1>1. IsFiniteSet(1 .. n)
  BY FS_Interval
<1>2. /\ \A i \in 0 .. n - 1 : share(i) \in Nat
      /\ upTo(0) = 0
      /\ \A m \in 1 .. n : upTo(m) = upTo(m - 1) + share(m - 1) /\ upTo(m - 1) \in Nat
  <2>1. /\ total \div n \in Nat
        /\ First(total, n, 0) = 0 /\ Past(total, n, n - 1) = total
        /\ \A i \in 0 .. n - 2 : Past(total, n, i) = First(total, n, i + 1)
        /\ \A i \in 0 .. n - 1 :
             /\ First(total, n, i) \in Nat
             /\ Past(total, n, i) = First(total, n, i) + share(i)
             /\ share(i) \in {total \div n, total \div n + 1}
    BY Division, SharesTile
  <2>2. \A i \in 0 .. n - 1 : share(i) \in Nat
    <3>1. total \div n + 1 \in Nat
      BY <2>1
    <3> QED
      BY <2>1, <3>1
  <2> HIDE DEF share
  <2>3. ASSUME NEW m \in 1 .. n
        PROVE  upTo(m) = upTo(m - 1) + share(m - 1) /\ upTo(m - 1) \in Nat
    <3>1. m - 1 \in 0 .. n - 1 /\ upTo(m - 1) = First(total, n, m - 1)
      OBVIOUS
    <3>2. Past(total, n, m - 1) = upTo(m - 1) + share(m - 1) /\ upTo(m - 1) \in Nat
      BY <2>1, <3>1
    <3>3. CASE m = n
      BY <2>1, <3>2, <3>3
    <3>4. CASE m < n
      <4>1. m - 1 \in 0 .. n - 2 /\ (m - 1) + 1 = m
        BY <3>4
      <4> QED
        BY <2>1, <3>2, <3>4, <4>1
    <3> QED
      BY <3>3, <3>4
  <2> QED
    BY <2>1, <2>2, <2>3
<1> HIDE DEF share, upTo
<1>3. \A m : part(m) \in [1 .. n -> Int]
  BY <1>2 DEF Numbers
<1>4. PICK S : S = {m \in 0 .. n : SumFunction(part(m)) = upTo(m)}
  OBVIOUS
<1>5. 0 \in S
  <2>1. part(0) = [p \in 1 .. n |-> 0]
    BY DEF Numbers
  <2>2. SumFunction(part(0)) = 0
    BY <1>1, <2>1, SumOfZeros
  <2> QED
    BY <1>2, <1>4, <2>2
<1>6. ASSUME NEW m \in 1 .. n, m - 1 \in S
      PROVE  m \in S
  <2>1. PICK x \in 1 .. n : id[x] = m - 1
    <3>1. m - 1 \in 0 .. n - 1
      OBVIOUS
    <3> QED
      BY <3>1 DEF Numbers
  <2>2. PICK f, h : f = part(m - 1) /\ h = part(m)
    OBVIOUS
  <2>3. f \in [1 .. n -> Int] /\ h \in [1 .. n -> Int]
    BY <1>3, <2>2
  <2>4. h[x] = share(m - 1) /\ f[x] = 0
    BY <2>1, <2>2
  <2>5. \A y \in 1 .. n : y # x => h[y] = f[y]
    <3> SUFFICES ASSUME NEW y \in 1 .. n, y # x
                 PROVE  h[y] = f[y]
      OBVIOUS
    <3>1. id[y] # m - 1 /\ id[y] \in 0 .. n - 1
      BY <2>1 DEF Numbers
    <3>2. \A a \in 0 .. n - 1 : a # m - 1 => (a < m <=> a < m - 1)
      OBVIOUS
    <3>3. id[y] < m <=> id[y] < m - 1
      BY <3>1, <3>2, Zenon
    <3> QED
      BY <2>2, <3>3
  <2>6. SumFunction(h) = SumFunction(f) + (h[x] - f[x])
    <3>1. n \in Nat /\ OnlyAt(n, f, h, x)
      BY <2>5 DEF OnlyAt
    <3> QED
      BY <2>3, <3>1, SumOfNumbered
  <2>7. SumFunction(f) = upTo(m - 1)
    BY <1>4, <1>6, <2>2
  <2>8. share(m - 1) \in Nat /\ upTo(m - 1) \in Nat /\ upTo(m) = upTo(m - 1) + share(m - 1)
    <3>1. m - 1 \in 0 .. n - 1
      OBVIOUS
    <3> QED
      BY <1>2, <3>1
  <2>9. SumFunction(h) = upTo(m)
    BY <2>4, <2>6, <2>7, <2>8
  <2> QED
    BY <1>4, <2>2, <2>9
<1>7. n \in S
  <2>1. 0 .. n \subseteq S
    BY <1>5, <1>6, UpTo
  <2> QED
    BY <2>1
<1>8. part(n) = [p \in 1 .. n |-> ShareLen(total, n, id[p])]
  BY DEF share, Numbers
<1>9. SumFunction(part(n)) = upTo(n) /\ upTo(n) = total
  BY <1>4, <1>7 DEF upTo
<1> QED
  BY <1>8, <1>9

\* Dealt to in turn, no place has two of n more than another.
THEOREM TurnsEven ==
  ASSUME NEW n \in Nat, NEW s \in Nat \ {0}, NEW c \in 0 .. s - 1, NEW d \in 0 .. s - 1
  PROVE  /\ IsFiniteSet({i \in 0 .. n - 1 : i % s = c})
         /\ Cardinality({i \in 0 .. n - 1 : i % s = c})
              <= Cardinality({i \in 0 .. n - 1 : i % s = d}) + 1
         /\ Cardinality({i \in 0 .. n - 1 : i % s = c}) \in Nat
<1> DEFINE At(e) == {i \in 0 .. n - 1 : i % s = e}
<1>1. \A e : IsFiniteSet(At(e)) /\ Cardinality(At(e)) \in Nat
  <2> SUFFICES ASSUME NEW e
               PROVE  IsFiniteSet(At(e)) /\ Cardinality(At(e)) \in Nat
    OBVIOUS
  <2>1. IsFiniteSet(0 .. n - 1) /\ At(e) \in SUBSET (0 .. n - 1)
    BY FS_Interval
  <2> HIDE DEF At
  <2>2. IsFiniteSet(At(e))
    BY <2>1, FS_Subset
  <2> QED
    BY <2>2, FS_CardinalityType
\* all but c itself are a place further from those at d, or the round before
<1>2. ASSUME NEW i \in At(c), i # c
      PROVE  /\ i + (d - c) - (IF d > c THEN s ELSE 0) \in At(d)
             /\ i \in Nat
  <2>1. i \in 0 .. n - 1 /\ i % s = c
    OBVIOUS
  <2>2. PICK q \in Nat : i = s * q + c
    <3>1. i \in Nat /\ i \div s \in Nat /\ i = s * (i \div s) + (i % s)
      BY <2>1, Division
    <3> QED
      BY <2>1, <3>1
  <2>3. q # 0
    BY <1>2, <2>2
  <2>4. PICK r \in Nat : q = r + 1
    <3>1. q - 1 \in Nat /\ q = (q - 1) + 1
      BY <2>3
    <3> QED
      BY <3>1
  <2>5. s * q = s * r + s /\ s * r \in Nat /\ s * q \in Nat
    BY <2>4, SMTT(20)
  <2>6. CASE d > c
    <3>1. i + (d - c) - s = s * r + d
      BY <2>2, <2>5
    <3>2. s * r + d \in 0 .. n - 1
      BY <2>1, <2>2, <2>5, <2>6
    <3>3. (s * r + d) % s = d
      BY Remainder
    <3> QED
      BY <2>1, <2>6, <3>1, <3>2, <3>3
  <2>7. CASE d <= c
    <3>1. i + (d - c) - 0 = s * q + d
      BY <2>2, <2>5
    <3>2. s * q + d \in 0 .. n - 1
      BY <2>1, <2>2, <2>5, <2>7
    <3>3. (s * q + d) % s = d
      BY Remainder
    <3> QED
      BY <2>1, <2>7, <3>1, <3>2, <3>3
  <2> QED
    BY <2>6, <2>7
<1>3. PICK shift \in Int : shift = (d - c) - (IF d > c THEN s ELSE 0)
  <2>1. (d - c) - (IF d > c THEN s ELSE 0) \in Int
    OBVIOUS
  <2> QED
    BY <2>1
<1>4. PICK f : f = [i \in At(c) \ {c} |-> i + shift]
  OBVIOUS
<1>5. \A i \in At(c) \ {c} : i \in Nat /\ i + shift \in At(d)
  <2> SUFFICES ASSUME NEW i \in At(c) \ {c}
               PROVE  i \in Nat /\ i + shift \in At(d)
    OBVIOUS
  <2>1. i \in Nat /\ i + (d - c) - (IF d > c THEN s ELSE 0) \in At(d)
    BY <1>2
  <2>2. i + (d - c) - (IF d > c THEN s ELSE 0) = i + shift
    BY <1>3, <2>1
  <2> QED
    BY <2>1, <2>2
<1> HIDE DEF At
<1>6. f \in Injection(At(c) \ {c}, At(d))
  <2>1. f \in [At(c) \ {c} -> At(d)]
    BY <1>4, <1>5
  <2>2. \A i, j \in At(c) \ {c} : f[i] = f[j] => i = j
    BY <1>3, <1>4, <1>5
  <2> QED
    BY <2>1, <2>2 DEF Injection, IsInjective
<1>7. Cardinality(At(c) \ {c}) <= Cardinality(At(d))
  BY <1>1, <1>6, FS_Injection
<1>8. Cardinality(At(c) \ {c}) = IF c \in At(c) THEN Cardinality(At(c)) - 1
                                 ELSE Cardinality(At(c))
  BY <1>1, FS_RemoveElement
<1>9. Cardinality(At(c)) <= Cardinality(At(d)) + 1
  BY <1>1, <1>7, <1>8
<1> QED
  BY <1>1, <1>9 DEF At
================================================================================
