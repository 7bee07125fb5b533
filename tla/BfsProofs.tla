------------------------------- MODULE BfsProofs -------------------------------
(***************************************************************************)
(* The breadth-first search, for every graph, every number of tasks and    *)
(* every choice of the places where they yield: getGraph() lays the graph  *)
(* out without losing an edge, and however the tasks of a level interleave *)
(* the search is breadth-first, its tree is one of shortest paths, and it  *)
(* finds what threadbfs finds.  The queue of naivebfs that wraps round     *)
(* never overflows, and its tree is one of shortest paths, too.            *)
(***************************************************************************)
EXTENDS SequentialBfs, SharesProofs, Induction, FiniteSetTheorems, TLAPS

------------------------------------------------------------------------------
\* The layout of the graph.
Firsts(es, v) == {k \in 1 .. edgeNum : es[k][1] = v}
Seconds(es, v) == {k \in 1 .. edgeNum : es[k][2] = v}

\* How many ends of the first n edges are at v.
Ends(es, n, v) ==
  Cardinality(Firsts(es, v) \cap (1 .. n)) + Cardinality(Seconds(es, v) \cap (1 .. n))

\* The edges that join u and v.
Joins(es, u, v) == {k \in 1 .. edgeNum : es[k] \in {<<u, v>>, <<v, u>>}}

\* Offsets, with the end of the array as the offset behind the last vertex.
Off(es, v) == Cardinality({k \in 1 .. edgeNum : es[k][1] < v})
              + Cardinality({k \in 1 .. edgeNum : es[k][2] < v})

LEMMA EdgeFacts ==
  ASSUME NEW es \in EdgeLists, NEW k \in 1 .. edgeNum
  PROVE  /\ es[k] = <<es[k][1], es[k][2]>>
         /\ es[k][1] \in Vertex /\ es[k][2] \in Vertex /\ es[k][1] # es[k][2]
<1>1. es[k] \in Pairs
  BY DEF EdgeLists
<1> QED
  BY <1>1, PairsAssumption

LEMMA EndsStep ==
  ASSUME NEW es \in EdgeLists, NEW v, NEW n \in 1 .. edgeNum
  PROVE  /\ Ends(es, n, v) \in Nat /\ Ends(es, n - 1, v) \in Nat
         /\ Ends(es, n, v)
            = Ends(es, n - 1, v) + (IF v \in {es[n][1], es[n][2]} THEN 1 ELSE 0)
<1>1. n \in Nat \ {0}
  BY SizeAssumption
<1>2. /\ n \in Firsts(es, v) <=> es[n][1] = v
      /\ n \in Seconds(es, v) <=> es[n][2] = v
      /\ es[n][1] # es[n][2]
  BY EdgeFacts DEF Firsts, Seconds
<1> DEFINE f1 == Cardinality(Firsts(es, v) \cap (1 .. n))
           f0 == Cardinality(Firsts(es, v) \cap (1 .. n - 1))
           s1 == Cardinality(Seconds(es, v) \cap (1 .. n))
           s0 == Cardinality(Seconds(es, v) \cap (1 .. n - 1))
<1>3. f1 \in Nat /\ f0 \in Nat /\ f1 = f0 + (IF n \in Firsts(es, v) THEN 1 ELSE 0)
  BY <1>1, CountStep
<1>4. s1 \in Nat /\ s0 \in Nat /\ s1 = s0 + (IF n \in Seconds(es, v) THEN 1 ELSE 0)
  BY <1>1, CountStep
<1>5. Ends(es, n, v) = f1 + s1 /\ Ends(es, n - 1, v) = f0 + s0
  BY DEF Ends
<1> HIDE DEF f1, f0, s1, s0
<1> QED
  BY <1>2, <1>3, <1>4, <1>5

LEMMA EndsNone ==
  ASSUME NEW es, NEW v
  PROVE  Ends(es, 0, v) = 0
BY CountNone DEF Ends

LEMMA EndsGrow ==
  ASSUME NEW es \in EdgeLists, NEW v, NEW n \in 0 .. edgeNum
  PROVE  /\ Ends(es, n, v) \in Nat /\ Ends(es, edgeNum, v) \in Nat
         /\ Ends(es, n, v) <= Ends(es, edgeNum, v)
<1>1. /\ Firsts(es, v) \cap (1 .. n) \subseteq Firsts(es, v) \cap (1 .. edgeNum)
      /\ Seconds(es, v) \cap (1 .. n) \subseteq Seconds(es, v) \cap (1 .. edgeNum)
      /\ Firsts(es, v) \cap (1 .. edgeNum) \subseteq 1 .. edgeNum
      /\ Seconds(es, v) \cap (1 .. edgeNum) \subseteq 1 .. edgeNum
      /\ edgeNum \in Nat
  BY SizeAssumption
<1> DEFINE f1 == Cardinality(Firsts(es, v) \cap (1 .. edgeNum))
           f0 == Cardinality(Firsts(es, v) \cap (1 .. n))
           s1 == Cardinality(Seconds(es, v) \cap (1 .. edgeNum))
           s0 == Cardinality(Seconds(es, v) \cap (1 .. n))
<1>2. f1 \in Nat /\ f0 \in Nat /\ f0 <= f1
  BY <1>1, CountPart
<1>3. s1 \in Nat /\ s0 \in Nat /\ s0 <= s1
  BY <1>1, CountPart
<1>4. Ends(es, n, v) = f0 + s0 /\ Ends(es, edgeNum, v) = f1 + s1
  BY DEF Ends
<1> HIDE DEF f1, f0, s1, s0
<1> QED
  BY <1>2, <1>3, <1>4

\* The offsets go from 0 to the length of the array and leave each vertex
\* room for its neighbours.
LEMMA OffFacts ==
  ASSUME NEW es \in EdgeLists
  PROVE  /\ Off(es, 0) = 0
         /\ Off(es, vertexNum) = 2 * edgeNum
         /\ \A v \in 0 .. vertexNum : Off(es, v) \in 0 .. 2 * edgeNum
         /\ \A v, w \in 0 .. vertexNum : v <= w => Off(es, v) <= Off(es, w)
         /\ \A v \in Vertex : Off(es, v + 1) = Off(es, v) + Ends(es, edgeNum, v)
<1> DEFINE Low1(v) == {k \in 1 .. edgeNum : es[k][1] < v}
           Low2(v) == {k \in 1 .. edgeNum : es[k][2] < v}
<1> USE SizeAssumption
<1>0. \A k \in 1 .. edgeNum : /\ es[k][1] \in Nat /\ es[k][1] < vertexNum
                              /\ es[k][2] \in Nat /\ es[k][2] < vertexNum
  BY EdgeFacts DEF Vertex
<1>2. Off(es, 0) = 0
  <2>1. Low1(0) = {} /\ Low2(0) = {}
    BY <1>0
  <2> QED
    BY <2>1, FS_EmptySet DEF Off
<1>3. Off(es, vertexNum) = 2 * edgeNum
  <2>1. Low1(vertexNum) = 1 .. edgeNum /\ Low2(vertexNum) = 1 .. edgeNum
    BY <1>0
  <2>2. Cardinality(1 .. edgeNum) = edgeNum
    BY FS_Interval
  <2>3. Off(es, vertexNum) = edgeNum + edgeNum
    BY <2>1, <2>2 DEF Off
  <2> QED
    BY <2>3
<1>4. ASSUME NEW v \in 0 .. vertexNum, NEW w \in 0 .. vertexNum, v <= w
      PROVE  Off(es, v) \in Nat /\ Off(es, w) \in Nat /\ Off(es, v) <= Off(es, w)
  <2>1. /\ Low1(v) \subseteq Low1(w) /\ Low1(w) \subseteq 1 .. edgeNum
        /\ Low2(v) \subseteq Low2(w) /\ Low2(w) \subseteq 1 .. edgeNum
    BY <1>0, <1>4
  <2> DEFINE a0 == Cardinality(Low1(v))
             a1 == Cardinality(Low1(w))
             b0 == Cardinality(Low2(v))
             b1 == Cardinality(Low2(w))
  <2> HIDE DEF Low1, Low2
  <2>2. a0 \in Nat /\ a1 \in Nat /\ a0 <= a1
    BY <2>1, CountPart
  <2>3. b0 \in Nat /\ b1 \in Nat /\ b0 <= b1
    BY <2>1, CountPart
  <2>4. Off(es, v) = a0 + b0 /\ Off(es, w) = a1 + b1
    BY DEF Off, Low1, Low2
  <2> HIDE DEF a0, a1, b0, b1
  <2> QED
    BY <2>2, <2>3, <2>4
<1>5. \A v \in 0 .. vertexNum : Off(es, v) \in 0 .. 2 * edgeNum
  <2> SUFFICES ASSUME NEW v \in 0 .. vertexNum
               PROVE  Off(es, v) \in 0 .. 2 * edgeNum
    OBVIOUS
  <2>1. v <= vertexNum /\ vertexNum \in 0 .. vertexNum
    OBVIOUS
  <2> QED
    BY <1>3, <1>4, <2>1
<1>6. ASSUME NEW v \in Vertex
      PROVE  Off(es, v + 1) = Off(es, v) + Ends(es, edgeNum, v)
  <2>0. v \in 0 .. vertexNum /\ v + 1 \in 0 .. vertexNum /\ v \in Int
    BY DEF Vertex
  <2>1. /\ Low1(v + 1) = Low1(v) \cup Firsts(es, v) /\ Low1(v) \cap Firsts(es, v) = {}
        /\ Low2(v + 1) = Low2(v) \cup Seconds(es, v) /\ Low2(v) \cap Seconds(es, v) = {}
    BY <1>0, <2>0 DEF Firsts, Seconds
  <2>2. IsFiniteSet(1 .. edgeNum)
    BY FS_Interval
  <2>3. /\ Low1(v) \subseteq 1 .. edgeNum /\ Firsts(es, v) \subseteq 1 .. edgeNum
        /\ Low2(v) \subseteq 1 .. edgeNum /\ Seconds(es, v) \subseteq 1 .. edgeNum
    BY DEF Firsts, Seconds
  <2> DEFINE a0 == Cardinality(Low1(v))
             a1 == Cardinality(Low1(v + 1))
             b0 == Cardinality(Low2(v))
             b1 == Cardinality(Low2(v + 1))
             f == Cardinality(Firsts(es, v))
             g == Cardinality(Seconds(es, v))
  <2> HIDE DEF Low1, Low2
  <2>4. /\ IsFiniteSet(Low1(v)) /\ IsFiniteSet(Firsts(es, v))
        /\ IsFiniteSet(Low2(v)) /\ IsFiniteSet(Seconds(es, v))
    BY <2>2, <2>3, FS_Subset
  <2>5. a0 \in Nat /\ b0 \in Nat /\ f \in Nat /\ g \in Nat
    BY <2>4, FS_CardinalityType
  <2>6. a1 = a0 + f - Cardinality({}) /\ b1 = b0 + g - Cardinality({})
    BY <2>1, <2>4, FS_Union
  <2>7. Cardinality({}) = 0
    BY FS_EmptySet
  <2>8. Off(es, v) = a0 + b0 /\ Off(es, v + 1) = a1 + b1
    BY DEF Off, Low1, Low2
  <2>9. Ends(es, edgeNum, v) = f + g
    <3>1. /\ Firsts(es, v) \cap (1 .. edgeNum) = Firsts(es, v)
          /\ Seconds(es, v) \cap (1 .. edgeNum) = Seconds(es, v)
      BY <2>3
    <3> QED
      BY <3>1 DEF Ends
  <2> HIDE DEF a0, a1, b0, b1, f, g
  <2> QED
    BY <2>5, <2>6, <2>7, <2>8, <2>9
<1> QED
  BY <1>2, <1>3, <1>4, <1>5, <1>6

\* getGraph(): a loop of N passes over an array of one number per vertex.
Arrays == [Vertex -> Int]

Passes(N, start, step, f) ==
  f = [n \in 0 .. N |-> IF n = 0 THEN start ELSE step[<<n, f[n - 1]>>]]

LEMMA LoopUpTo ==
  ASSUME NEW N \in Nat, NEW start \in Arrays, NEW step \in [(1 .. N) \X Arrays -> Arrays]
  PROVE  \E f \in [0 .. N -> Arrays] : Passes(N, start, step, f)
<1>1. PICK f \in [0 .. N -> Arrays] : Unfolds(N, start, step, f)
  <2>1. StepsIn(N, Arrays, start, step)
    BY DEF StepsIn
  <2> QED
    BY <2>1, RecursionUpTo
<1>2. \A n \in 0 .. N : f[n] = IF n = 0 THEN start ELSE step[<<n, f[n - 1]>>]
  BY <1>1 DEF Unfolds
<1>3. f = [n \in 0 .. N |-> f[n]]
  OBVIOUS
<1>4. f = [n \in 0 .. N |-> IF n = 0 THEN start ELSE step[<<n, f[n - 1]>>]]
  BY <1>2, <1>3
<1> QED
  BY <1>4 DEF Passes

\* The counting loop: one edge, and the loop.
CountEnds(at, e) == [at EXCEPT ![e[1]] = at[e[1]] + 1, ![e[2]] = at[e[2]] + 1]

LEMMA CountsUnfold ==
  ASSUME NEW es \in EdgeLists
  PROVE  /\ Counts(es)[0] = [v \in Vertex |-> 0]
         /\ \A n \in 1 .. edgeNum : Counts(es)[n] = CountEnds(Counts(es)[n - 1], es[n])
<1> DEFINE zeros == [v \in Vertex |-> 0]
           Def(f) == f = [n \in 0 .. edgeNum |->
             IF n = 0 THEN [v \in Vertex |-> 0]
             ELSE [f[n - 1] EXCEPT ![es[n][1]] = f[n - 1][es[n][1]] + 1,
                                   ![es[n][2]] = f[n - 1][es[n][2]] + 1]]
<1> USE SizeAssumption
<1>1. zeros \in Arrays
  BY DEF Arrays
<1>2. PICK step : step = [p \in (1 .. edgeNum) \X Arrays |-> CountEnds(p[2], es[p[1]])]
  OBVIOUS
<1>3. step \in [(1 .. edgeNum) \X Arrays -> Arrays]
  <2>1. \A n \in 1 .. edgeNum : es[n][1] \in Vertex /\ es[n][2] \in Vertex
    BY EdgeFacts
  <2>2. \A n \in 1 .. edgeNum : \A x \in Arrays : CountEnds(x, es[n]) \in Arrays
    BY <2>1 DEF CountEnds, Arrays
  <2> QED
    BY <1>2, <2>2
<1>4. PICK f \in [0 .. edgeNum -> Arrays] : Passes(edgeNum, zeros, step, f)
  <2> HIDE DEF zeros, Def
  <2> QED
    BY <1>1, <1>3, LoopUpTo
<1>5. \A n \in 1 .. edgeNum : step[<<n, f[n - 1]>>] = CountEnds(f[n - 1], es[n])
  <2> SUFFICES ASSUME NEW n \in 1 .. edgeNum
               PROVE  step[<<n, f[n - 1]>>] = CountEnds(f[n - 1], es[n])
    OBVIOUS
  <2>1. f[n - 1] \in Arrays
    OBVIOUS
  <2> QED
    BY <1>2, <2>1
<1>6. f = [n \in 0 .. edgeNum |-> IF n = 0 THEN zeros ELSE CountEnds(f[n - 1], es[n])]
  <2>1. \A n \in 0 .. edgeNum : n # 0 => n \in 1 .. edgeNum
    OBVIOUS
  <2> HIDE DEF zeros, Def
  <2> QED
    BY <1>4, <1>5, <2>1 DEF Passes
<1>7. Def(f)
  BY <1>6 DEF CountEnds
<1>8. Def(Counts(es))
  <2> HIDE DEF zeros
  <2> QED
    BY <1>7 DEF Counts
<1>9. Counts(es) = [n \in 0 .. edgeNum |->
                      IF n = 0 THEN zeros ELSE CountEnds(Counts(es)[n - 1], es[n])]
  BY <1>8 DEF CountEnds
<1> QED
  BY <1>9

\* After the loop vertexIndex[v] is the number of edge ends at v.
LEMMA CountsAreEnds ==
  ASSUME NEW es \in EdgeLists
  PROVE  /\ Counts(es)[edgeNum] \in Arrays
         /\ \A v \in Vertex : Counts(es)[edgeNum][v] = Ends(es, edgeNum, v)
<1> USE SizeAssumption
<1> DEFINE Right(n) == /\ Counts(es)[n] \in Arrays
                       /\ \A v \in Vertex : Counts(es)[n][v] = Ends(es, n, v)
<1>1. PICK S : S = {n \in 0 .. edgeNum : Right(n)}
  OBVIOUS
<1>2. 0 \in S
  <2>1. Counts(es)[0] = [v \in Vertex |-> 0]
    BY CountsUnfold
  <2>2. Counts(es)[0] \in Arrays
    BY <2>1 DEF Arrays
  <2>3. \A v \in Vertex : Counts(es)[0][v] = Ends(es, 0, v)
    BY <2>1, EndsNone
  <2> QED
    BY <1>1, <2>2, <2>3
<1>3. ASSUME NEW n \in 1 .. edgeNum, n - 1 \in S
      PROVE  n \in S
  <2>1. PICK x : x = Counts(es)[n - 1]
    OBVIOUS
  <2>2. PICK y : y = Counts(es)[n]
    OBVIOUS
  <2>3. x \in [Vertex -> Int] /\ \A v \in Vertex : x[v] = Ends(es, n - 1, v)
    BY <1>1, <1>3, <2>1 DEF Arrays
  <2>4. es[n][1] \in Vertex /\ es[n][2] \in Vertex /\ es[n][1] # es[n][2]
    BY EdgeFacts
  <2>5. y = [x EXCEPT ![es[n][1]] = x[es[n][1]] + 1, ![es[n][2]] = x[es[n][2]] + 1]
    BY <2>1, <2>2, CountsUnfold DEF CountEnds
  <2>6. y \in Arrays
    BY <2>3, <2>4, <2>5 DEF Arrays
  <2>7. \A v \in Vertex : y[v] = x[v] + (IF v \in {es[n][1], es[n][2]} THEN 1 ELSE 0)
    BY <2>3, <2>4, <2>5
  <2>8. \A v \in Vertex : y[v] = Ends(es, n, v)
    BY <2>3, <2>7, EndsStep
  <2>9. n \in 0 .. edgeNum
    OBVIOUS
  <2> QED
    BY <1>1, <2>2, <2>6, <2>8, <2>9
<1>4. edgeNum \in S
  <2> HIDE DEF Right
  <2>1. 0 .. edgeNum \subseteq S
    BY <1>2, <1>3, UpTo
  <2> QED
    BY <2>1
<1> QED
  BY <1>1, <1>4

\* The passes of the summing loop.
LEMMA SumsUnfold ==
  ASSUME NEW counted \in Arrays
  PROVE  /\ Sums(counted)[0] = counted
         /\ \A i \in 1 .. vertexNum - 1 :
              Sums(counted)[i] = [Sums(counted)[i - 1] EXCEPT
                                    ![i] = Sums(counted)[i - 1][i] + Sums(counted)[i - 1][i - 1]]
<1> DEFINE Add(x, i) == [x EXCEPT ![i] = x[i] + x[i - 1]]
           Def(f) == f = [i \in Vertex |->
             IF i = 0 THEN counted
             ELSE [f[i - 1] EXCEPT ![i] = f[i - 1][i] + f[i - 1][i - 1]]]
<1> USE SizeAssumption
<1>0. PICK N \in Nat : N = vertexNum - 1 /\ Vertex = 0 .. N
  BY DEF Vertex
<1>2. PICK step : step = [p \in (1 .. N) \X Arrays |-> Add(p[2], p[1])]
  OBVIOUS
<1>3. step \in [(1 .. N) \X Arrays -> Arrays]
  <2>1. ASSUME NEW i \in 1 .. N, NEW x \in Arrays
        PROVE  Add(x, i) \in Arrays
    <3>1. i \in Vertex /\ i - 1 \in Vertex
      BY <1>0
    <3> QED
      BY <3>1 DEF Arrays
  <2> HIDE DEF Add
  <2> QED
    BY <1>2, <2>1
<1>4. PICK f \in [0 .. N -> Arrays] : Passes(N, counted, step, f)
  <2> HIDE DEF Def, Add
  <2> QED
    BY <1>3, LoopUpTo
<1>5. \A i \in 1 .. N : step[<<i, f[i - 1]>>] = Add(f[i - 1], i)
  <2> SUFFICES ASSUME NEW i \in 1 .. N
               PROVE  step[<<i, f[i - 1]>>] = Add(f[i - 1], i)
    OBVIOUS
  <2>1. f[i - 1] \in Arrays
    OBVIOUS
  <2> HIDE DEF Add
  <2> QED
    BY <1>2, <2>1
<1>6. f = [i \in 0 .. N |-> IF i = 0 THEN counted ELSE Add(f[i - 1], i)]
  <2>1. \A i \in 0 .. N : i # 0 => i \in 1 .. N
    OBVIOUS
  <2> HIDE DEF Def, Add
  <2> QED
    BY <1>4, <1>5, <2>1 DEF Passes
<1>7. Def(f)
  BY <1>0, <1>6
<1>8. Def(Sums(counted))
  BY <1>7 DEF Sums
<1>9. Sums(counted) = [i \in Vertex |->
                         IF i = 0 THEN counted ELSE Add(Sums(counted)[i - 1], i)]
  BY <1>8
<1> HIDE DEF Def, Add
<1>10. /\ Sums(counted)[0] = counted
       /\ \A i \in 1 .. N : Sums(counted)[i] = Add(Sums(counted)[i - 1], i)
  BY <1>0, <1>9
<1> QED
  BY <1>0, <1>10 DEF Add

\* After it vertexIndex[v] is the offset of the next vertex.
LEMMA SumsAreOffsets ==
  ASSUME NEW es \in EdgeLists, NEW counted \in Arrays,
         \A v \in Vertex : counted[v] = Ends(es, edgeNum, v)
  PROVE  /\ Sums(counted)[vertexNum - 1] \in Arrays
         /\ \A v \in Vertex : Sums(counted)[vertexNum - 1][v] = Off(es, v + 1)
<1> USE SizeAssumption
<1>0. PICK N \in Nat : N = vertexNum - 1 /\ Vertex = 0 .. N
  BY DEF Vertex
<1> DEFINE Right(i) == /\ Sums(counted)[i] \in Arrays
                       /\ \A v \in Vertex : Sums(counted)[i][v] = IF v <= i THEN Off(es, v + 1)
                                                                  ELSE counted[v]
<1>1. PICK S : S = {i \in 0 .. N : Right(i)}
  OBVIOUS
<1>2. \A v \in Vertex : Off(es, v) \in Int /\ Off(es, v + 1) = Off(es, v) + counted[v]
  <2>1. \A v \in Vertex : v \in 0 .. vertexNum
    BY DEF Vertex
  <2> QED
    BY <2>1, OffFacts
<1>3. 0 \in S
  <2>1. Sums(counted)[0] = counted
    BY SumsUnfold
  <2>2. counted[0] = Off(es, 0 + 1)
    <3>1. Off(es, 0) = 0 /\ 0 \in Vertex /\ counted[0] \in Int
      BY <1>0, OffFacts DEF Arrays
    <3> QED
      BY <1>2, <3>1
  <2>3. \A v \in Vertex : v <= 0 => v = 0
    BY <1>0
  <2> QED
    BY <1>1, <2>1, <2>2, <2>3
<1>4. ASSUME NEW i \in 1 .. N, i - 1 \in S
      PROVE  i \in S
  <2>1. PICK x : x = Sums(counted)[i - 1]
    OBVIOUS
  <2>2. PICK y : y = Sums(counted)[i]
    OBVIOUS
  <2>3. /\ x \in [Vertex -> Int]
        /\ \A v \in Vertex : x[v] = IF v <= i - 1 THEN Off(es, v + 1) ELSE counted[v]
    BY <1>1, <1>4, <2>1 DEF Arrays
  <2>4. i \in Vertex /\ i - 1 \in Vertex /\ i \in 0 .. N /\ i \in Nat
    BY <1>0
  <2>5. y = [x EXCEPT ![i] = x[i] + x[i - 1]]
    BY <1>0, <2>1, <2>2, SumsUnfold
  <2>6. y \in Arrays
    BY <2>3, <2>4, <2>5 DEF Arrays
  <2>7. y[i] = Off(es, i + 1)
    <3>1. x[i] = counted[i] /\ x[i - 1] = Off(es, (i - 1) + 1) /\ (i - 1) + 1 = i
      BY <2>3, <2>4
    <3>2. y[i] = x[i] + x[i - 1]
      BY <2>3, <2>4, <2>5
    <3>3. PICK c, o \in Int : c = counted[i] /\ o = Off(es, i)
      BY <1>2, <2>3, <2>4, <3>1
    <3>4. Off(es, i + 1) = o + c
      BY <1>2, <2>4, <3>3
    <3> QED
      BY <3>1, <3>2, <3>3, <3>4
  <2>8. \A v \in Vertex : v # i => y[v] = x[v] /\ (v <= i <=> v <= i - 1)
    BY <1>0, <2>3, <2>4, <2>5
  <2>9. \A v \in Vertex : y[v] = IF v <= i THEN Off(es, v + 1) ELSE counted[v]
    BY <2>3, <2>4, <2>7, <2>8
  <2> QED
    BY <1>1, <2>2, <2>4, <2>6, <2>9
<1>5. N \in S
  <2> HIDE DEF Right
  <2>1. 0 .. N \subseteq S
    BY <1>3, <1>4, UpTo
  <2> QED
    BY <2>1
<1>6. \A v \in Vertex : v <= N
  BY <1>0
<1> QED
  BY <1>0, <1>1, <1>5, <1>6

\* The passes of the shifting loop.
LEMMA ShiftsUnfold ==
  ASSUME NEW summed \in Arrays
  PROVE  /\ Shifts(summed)[0] = summed
         /\ \A n \in 1 .. vertexNum - 1 :
              Shifts(summed)[n] = [Shifts(summed)[n - 1] EXCEPT
                                     ![vertexNum - n] = Shifts(summed)[n - 1][vertexNum - n - 1]]
<1> DEFINE Move1(x, n) == [x EXCEPT ![vertexNum - n] = x[vertexNum - n - 1]]
           Def(f) == f = [n \in Vertex |->
             IF n = 0 THEN summed
             ELSE [f[n - 1] EXCEPT ![vertexNum - n] = f[n - 1][vertexNum - n - 1]]]
<1> USE SizeAssumption
<1>0. PICK N \in Nat : N = vertexNum - 1 /\ Vertex = 0 .. N
  BY DEF Vertex
<1>2. PICK step : step = [p \in (1 .. N) \X Arrays |-> Move1(p[2], p[1])]
  OBVIOUS
<1>3. step \in [(1 .. N) \X Arrays -> Arrays]
  <2>1. ASSUME NEW n \in 1 .. N, NEW x \in Arrays
        PROVE  Move1(x, n) \in Arrays
    <3>1. vertexNum - n \in Vertex /\ vertexNum - n - 1 \in Vertex
      BY <1>0
    <3> QED
      BY <3>1 DEF Arrays
  <2> HIDE DEF Move1
  <2> QED
    BY <1>2, <2>1
<1>4. PICK f \in [0 .. N -> Arrays] : Passes(N, summed, step, f)
  <2> HIDE DEF Def, Move1
  <2> QED
    BY <1>3, LoopUpTo
<1>5. \A n \in 1 .. N : step[<<n, f[n - 1]>>] = Move1(f[n - 1], n)
  <2> SUFFICES ASSUME NEW n \in 1 .. N
               PROVE  step[<<n, f[n - 1]>>] = Move1(f[n - 1], n)
    OBVIOUS
  <2>1. f[n - 1] \in Arrays
    OBVIOUS
  <2> HIDE DEF Move1
  <2> QED
    BY <1>2, <2>1
<1>6. f = [n \in 0 .. N |-> IF n = 0 THEN summed ELSE Move1(f[n - 1], n)]
  <2>1. \A n \in 0 .. N : n # 0 => n \in 1 .. N
    OBVIOUS
  <2> HIDE DEF Def, Move1
  <2> QED
    BY <1>4, <1>5, <2>1 DEF Passes
<1>7. Def(f)
  BY <1>0, <1>6
<1>8. Def(Shifts(summed))
  BY <1>7 DEF Shifts
<1>9. Shifts(summed) = [n \in Vertex |->
                          IF n = 0 THEN summed ELSE Move1(Shifts(summed)[n - 1], n)]
  BY <1>8
<1> HIDE DEF Def, Move1
<1>10. /\ Shifts(summed)[0] = summed
       /\ \A n \in 1 .. N : Shifts(summed)[n] = Move1(Shifts(summed)[n - 1], n)
  BY <1>0, <1>9
<1> QED
  BY <1>0, <1>10 DEF Move1

\* Going down, it moves every element but the first one up.
LEMMA ShiftsMoveUp ==
  ASSUME NEW summed \in Arrays
  PROVE  /\ Shifts(summed)[vertexNum - 1] \in Arrays
         /\ \A v \in Vertex \ {0} : Shifts(summed)[vertexNum - 1][v] = summed[v - 1]
<1> USE SizeAssumption
<1>0. PICK N \in Nat : N = vertexNum - 1 /\ Vertex = 0 .. N
  BY DEF Vertex
<1> DEFINE Right(n) == /\ Shifts(summed)[n] \in Arrays
                       /\ \A v \in Vertex : Shifts(summed)[n][v] = IF v >= vertexNum - n
                                                                   THEN summed[v - 1] ELSE summed[v]
<1>1. PICK S : S = {n \in 0 .. N : Right(n)}
  OBVIOUS
<1>3. 0 \in S
  <2>1. Shifts(summed)[0] = summed
    BY ShiftsUnfold
  <2>2. \A v \in Vertex : ~(v >= vertexNum - 0)
    BY <1>0
  <2> QED
    BY <1>1, <2>1, <2>2
<1>4. ASSUME NEW n \in 1 .. N, n - 1 \in S
      PROVE  n \in S
  <2>1. PICK x : x = Shifts(summed)[n - 1]
    OBVIOUS
  <2>2. PICK y : y = Shifts(summed)[n]
    OBVIOUS
  <2>3. /\ x \in [Vertex -> Int]
        /\ \A v \in Vertex : x[v] = IF v >= vertexNum - (n - 1) THEN summed[v - 1] ELSE summed[v]
    BY <1>1, <1>4, <2>1 DEF Arrays
  <2>4. PICK i \in Vertex : /\ i = vertexNum - n /\ i - 1 \in Vertex /\ n \in 0 .. N
                            /\ ~(i - 1 >= vertexNum - (n - 1))
                            /\ \A v \in Vertex : v # i => (v >= vertexNum - n
                                                           <=> v >= vertexNum - (n - 1))
    <3>1. vertexNum - n \in Vertex
      BY <1>0
    <3> QED
      BY <1>0, <3>1
  <2>5. y = [x EXCEPT ![i] = x[i - 1]]
    BY <1>0, <2>1, <2>2, <2>4, ShiftsUnfold
  <2>6. y \in Arrays
    BY <2>3, <2>4, <2>5 DEF Arrays
  <2>7. y[i] = summed[i - 1]
    BY <2>3, <2>4, <2>5
  <2>8. \A v \in Vertex : v # i => y[v] = x[v]
    BY <2>3, <2>5
  <2>9. \A v \in Vertex : y[v] = IF v >= vertexNum - n THEN summed[v - 1] ELSE summed[v]
    <3> SUFFICES ASSUME NEW v \in Vertex
                 PROVE  y[v] = IF v >= vertexNum - n THEN summed[v - 1] ELSE summed[v]
      OBVIOUS
    <3>1. CASE v = i
      <4>1. v >= vertexNum - n
        BY <1>0, <2>4, <3>1
      <4> QED
        BY <2>7, <3>1, <4>1
    <3>2. CASE v # i
      BY <2>3, <2>4, <2>8, <3>2
    <3> QED
      BY <3>1, <3>2
  <2> QED
    BY <1>1, <2>2, <2>4, <2>6, <2>9
<1>5. N \in S
  <2> HIDE DEF Right
  <2>1. 0 .. N \subseteq S
    BY <1>3, <1>4, UpTo
  <2> QED
    BY <2>1
<1>6. \A v \in Vertex \ {0} : v >= vertexNum - N
  BY <1>0
<1> QED
  BY <1>0, <1>1, <1>5, <1>6

\* The three loops together: vertexIndex[v] is where the neighbours of v start.
LEMMA OffsetsAreOff ==
  ASSUME NEW es \in EdgeLists
  PROVE  /\ Offsets(es) \in [Vertex -> Int]
         /\ \A v \in Vertex : Offsets(es)[v] = Off(es, v)
<1> USE SizeAssumption
<1>1. PICK c \in Arrays : /\ c = Counts(es)[edgeNum]
                          /\ \A v \in Vertex : c[v] = Ends(es, edgeNum, v)
  BY CountsAreEnds
<1>2. PICK s \in Arrays : /\ s = Sums(c)[vertexNum - 1]
                          /\ \A v \in Vertex : s[v] = Off(es, v + 1)
  BY <1>1, SumsAreOffsets
<1>3. PICK x \in Arrays : /\ x = Shifts(s)[vertexNum - 1]
                          /\ \A v \in Vertex \ {0} : x[v] = s[v - 1]
  BY ShiftsMoveUp
<1>4. Offsets(es) = [x EXCEPT ![0] = 0]
  BY <1>1, <1>2, <1>3 DEF Offsets
<1>5. 0 \in Vertex /\ \A v \in Vertex \ {0} : v - 1 \in Vertex /\ (v - 1) + 1 = v
  BY DEF Vertex
<1>6. x \in [Vertex -> Int]
  BY DEF Arrays
<1>7. \A v \in Vertex \ {0} : x[v] = Off(es, v)
  BY <1>2, <1>3, <1>5
<1>8. Off(es, 0) = 0
  BY OffFacts
<1> QED
  BY <1>4, <1>5, <1>6, <1>7, <1>8
------------------------------------------------------------------------------
\* The filling loop.  What it has at hand: the list so far and, of every
\* vertex, the slot its next neighbour goes to.
Filling == [list : [0 .. 2 * edgeNum - 1 -> Int], index : [Vertex -> Int]]

\* x is what the loop has after the first n edges: the slots of a vertex from
\* its offset up to its index hold its neighbours along those edges.
Laid(es, n, x) ==
  /\ x \in Filling
  /\ \A u \in Vertex : x.index[u] = Off(es, u) + Ends(es, n, u)
  /\ \A u \in Vertex : \A j \in Off(es, u) .. x.index[u] - 1 : x.list[j] \in Vertex
  /\ \A u, v \in Vertex :
       Cardinality({j \in Off(es, u) .. x.index[u] - 1 : x.list[j] = v})
       = Cardinality(Joins(es, u, v) \cap (1 .. n))

\* One turn of the loop with edge e.
Lay(x, e) ==
  [list  |-> [x.list EXCEPT ![x.index[e[1]]] = e[2], ![x.index[e[2]]] = e[1]],
   index |-> [x.index EXCEPT ![e[1]] = x.index[e[1]] + 1, ![e[2]] = x.index[e[2]] + 1]]

LEMMA LayType ==
  ASSUME NEW x \in Filling, NEW e \in Vertex \X Vertex
  PROVE  Lay(x, e) \in Filling
<1>1. e[1] \in Int /\ e[2] \in Int /\ e[1] \in Vertex /\ e[2] \in Vertex
  BY SizeAssumption DEF Vertex
<1>2. x.list \in [0 .. 2 * edgeNum - 1 -> Int] /\ x.index \in [Vertex -> Int]
  BY DEF Filling
<1>3. x.index[e[1]] + 1 \in Int /\ x.index[e[2]] + 1 \in Int
  BY <1>1, <1>2
<1>4. [x.list EXCEPT ![x.index[e[1]]] = e[2], ![x.index[e[2]]] = e[1]]
        \in [0 .. 2 * edgeNum - 1 -> Int]
  BY <1>1, <1>2
<1>5. [x.index EXCEPT ![e[1]] = x.index[e[1]] + 1, ![e[2]] = x.index[e[2]] + 1]
        \in [Vertex -> Int]
  BY <1>1, <1>2, <1>3
<1> QED
  BY <1>4, <1>5 DEF Filling, Lay

\* The slots two vertices have got so far are different, and there is room for
\* another neighbour as long as not all are laid.
LEMMA SlotsApart ==
  ASSUME NEW es \in EdgeLists, NEW n \in 0 .. edgeNum, NEW x, Laid(es, n, x),
         NEW u \in Vertex
  PROVE  /\ Off(es, u) \in Nat /\ x.index[u] \in Nat
         /\ Off(es, u) <= x.index[u]
         /\ x.index[u] <= Off(es, u + 1)
         /\ Off(es, u + 1) \in 0 .. 2 * edgeNum
         /\ \A v \in Vertex : u < v => Off(es, u + 1) <= Off(es, v)
<1>0. /\ u \in 0 .. vertexNum /\ u + 1 \in 0 .. vertexNum
      /\ \A v \in Vertex : v \in 0 .. vertexNum /\ (u < v => u + 1 <= v)
  BY SizeAssumption DEF Vertex
<1>1. /\ Off(es, u) \in 0 .. 2 * edgeNum /\ Off(es, u + 1) \in 0 .. 2 * edgeNum
      /\ Off(es, u + 1) = Off(es, u) + Ends(es, edgeNum, u)
  BY <1>0, OffFacts
<1>2. \A v \in Vertex : u < v => Off(es, u + 1) <= Off(es, v)
  BY <1>0, OffFacts
<1>3. /\ Ends(es, n, u) \in Nat /\ Ends(es, edgeNum, u) \in Nat
      /\ Ends(es, n, u) <= Ends(es, edgeNum, u)
  BY EndsGrow
<1>4. x.index[u] = Off(es, u) + Ends(es, n, u)
  BY DEF Laid
<1>5. Off(es, u) \in Nat
  BY <1>1
<1>6. x.index[u] \in Nat /\ Off(es, u) <= x.index[u] /\ x.index[u] <= Off(es, u + 1)
  BY <1>1, <1>3, <1>4, <1>5
<1> QED
  BY <1>1, <1>2, <1>5, <1>6

LEMMA LayStep ==
  ASSUME NEW es \in EdgeLists, NEW n \in 1 .. edgeNum, NEW x, Laid(es, n - 1, x)
  PROVE  Laid(es, n, Lay(x, es[n]))
<1> DEFINE v1 == es[n][1]
           v2 == es[n][2]
           s1 == x.index[v1]
           s2 == x.index[v2]
           y == Lay(x, es[n])
           Has(z, u) == Off(es, u) .. z.index[u] - 1
           With(z, u, v) == {j \in Has(z, u) : z.list[j] = v}
           Gets(u, w, s) == \/ u = v1 /\ w = v2 /\ s = s1
                            \/ u = v2 /\ w = v1 /\ s = s2
<1>0. n - 1 \in 0 .. edgeNum /\ n \in 0 .. edgeNum /\ n \in Nat \ {0}
  BY SizeAssumption
<1>1. es[n] = <<v1, v2>> /\ v1 \in Vertex /\ v2 \in Vertex /\ v1 # v2
  BY EdgeFacts
<1>2. x \in Filling /\ y \in Filling
  <2>1. es[n] \in Vertex \X Vertex
    BY <1>1
  <2> QED
    BY <2>1, LayType DEF Laid
<1>3. /\ y.list = [x.list EXCEPT ![s1] = v2, ![s2] = v1]
      /\ y.index = [x.index EXCEPT ![v1] = s1 + 1, ![v2] = s2 + 1]
      /\ x.list \in [0 .. 2 * edgeNum - 1 -> Int] /\ x.index \in [Vertex -> Int]
  BY <1>2 DEF Lay, Filling
<1>4. ASSUME NEW u \in Vertex
      PROVE  /\ y.index[u] = x.index[u] + (IF u \in {v1, v2} THEN 1 ELSE 0)
             /\ y.index[u] = Off(es, u) + Ends(es, n, u)
  <2>1. y.index[u] = IF u = v1 THEN s1 + 1 ELSE IF u = v2 THEN s2 + 1 ELSE x.index[u]
    BY <1>1, <1>3
  <2>2. /\ Ends(es, n, u) \in Nat /\ Ends(es, n - 1, u) \in Nat
        /\ Ends(es, n, u) = Ends(es, n - 1, u) + (IF u \in {v1, v2} THEN 1 ELSE 0)
    BY EndsStep
  <2>3. x.index[u] = Off(es, u) + Ends(es, n - 1, u)
    BY DEF Laid
  <2>4. Off(es, u) \in Nat /\ x.index[u] \in Nat
    BY <1>0, SlotsApart
  <2>5. y.index[u] = x.index[u] + (IF u \in {v1, v2} THEN 1 ELSE 0)
    BY <2>1, <2>4
  <2> HIDE DEF v1, v2, y
  <2> QED
    BY <2>2, <2>3, <2>4, <2>5
\* The two slots the edge fills are different and lie beyond what was filled.
<1>6. /\ s1 \in 0 .. 2 * edgeNum - 1 /\ s2 \in 0 .. 2 * edgeNum - 1 /\ s1 # s2
      /\ \A u \in Vertex : s1 \notin Has(x, u) /\ s2 \notin Has(x, u)
  <2>1. ASSUME NEW u \in Vertex
        PROVE  /\ Off(es, u) \in Nat /\ x.index[u] \in Nat /\ Off(es, u) <= x.index[u]
               /\ x.index[u] <= Off(es, u + 1) /\ Off(es, u + 1) \in 0 .. 2 * edgeNum
               /\ u \in {v1, v2} => x.index[u] < Off(es, u + 1)
               /\ \A v \in Vertex : u < v => Off(es, u + 1) <= Off(es, v)
    <3>1. /\ Off(es, u) \in Nat /\ x.index[u] \in Nat /\ Off(es, u) <= x.index[u]
          /\ x.index[u] <= Off(es, u + 1) /\ Off(es, u + 1) \in 0 .. 2 * edgeNum
          /\ \A v \in Vertex : u < v => Off(es, u + 1) <= Off(es, v)
      BY <1>0, SlotsApart
    <3>2. /\ Ends(es, n, u) \in Nat /\ Ends(es, edgeNum, u) \in Nat
          /\ Ends(es, n, u) <= Ends(es, edgeNum, u)
      BY <1>0, EndsGrow
    <3>3. Off(es, u + 1) = Off(es, u) + Ends(es, edgeNum, u)
      BY OffFacts
    <3>4. u \in {v1, v2} => x.index[u] + 1 = Off(es, u) + Ends(es, n, u)
      BY <1>4
    <3> HIDE DEF v1, v2
    <3>5. u \in {v1, v2} => x.index[u] < Off(es, u + 1)
      BY <3>1, <3>2, <3>3, <3>4
    <3> QED
      BY <3>1, <3>5
  <2>2. ASSUME NEW u \in Vertex, NEW v \in {v1, v2}
        PROVE  x.index[v] \in 0 .. 2 * edgeNum - 1 /\ x.index[v] \notin Has(x, u)
    <3>0. v \in Vertex /\ u \in Int /\ v \in Int
      BY <1>1, SizeAssumption DEF Vertex
    <3>1. /\ Off(es, v) \in Nat /\ x.index[v] \in Nat /\ Off(es, v) <= x.index[v]
          /\ x.index[v] < Off(es, v + 1) /\ Off(es, v + 1) \in 0 .. 2 * edgeNum
          /\ (v < u => Off(es, v + 1) <= Off(es, u))
      BY <2>1, <3>0
    <3>2. /\ Off(es, u) \in Nat /\ x.index[u] \in Nat /\ x.index[u] <= Off(es, u + 1)
          /\ Off(es, u + 1) \in Nat /\ (u < v => Off(es, u + 1) <= Off(es, v))
      BY <2>1, <3>0
    <3>3. x.index[v] \in 0 .. 2 * edgeNum - 1
      BY <3>1, SizeAssumption
    <3>4. CASE v = u
      BY <3>1, <3>3, <3>4
    <3>5. CASE v < u
      BY <3>1, <3>2, <3>3, <3>5
    <3>6. CASE u < v
      BY <3>1, <3>2, <3>3, <3>6
    <3> QED
      BY <3>0, <3>3, <3>4, <3>5, <3>6
  <2>3. s1 # s2
    <3>0. v1 \in Int /\ v2 \in Int
      BY <1>1, SizeAssumption DEF Vertex
    <3>1. /\ Off(es, v1) <= s1 /\ s1 < Off(es, v1 + 1)
          /\ (v1 < v2 => Off(es, v1 + 1) <= Off(es, v2))
          /\ Off(es, v1) \in Nat /\ s1 \in Nat /\ Off(es, v1 + 1) \in Nat
      BY <1>1, <2>1
    <3>2. /\ Off(es, v2) <= s2 /\ s2 < Off(es, v2 + 1)
          /\ (v2 < v1 => Off(es, v2 + 1) <= Off(es, v1))
          /\ Off(es, v2) \in Nat /\ s2 \in Nat /\ Off(es, v2 + 1) \in Nat
      BY <1>1, <2>1
    <3>3. v1 < v2 \/ v2 < v1
      BY <1>1, <3>0
    <3> HIDE DEF v1, v2, s1, s2
    <3> QED
      BY <3>1, <3>2, <3>3
  <2> QED
    BY <1>1, <2>2, <2>3
<1>7. y.list[s1] = v2 /\ y.list[s2] = v1
  BY <1>3, <1>6
<1>8. \A u \in Vertex : \A j \in Has(x, u) : y.list[j] = x.list[j]
  <2> SUFFICES ASSUME NEW u \in Vertex, NEW j \in Has(x, u)
               PROVE  y.list[j] = x.list[j]
    OBVIOUS
  <2>1. /\ Off(es, u) \in Nat /\ x.index[u] \in Nat
        /\ x.index[u] <= Off(es, u + 1) /\ Off(es, u + 1) \in 0 .. 2 * edgeNum
    BY <1>0, SlotsApart
  <2>2. j \in 0 .. 2 * edgeNum - 1 /\ j # s1 /\ j # s2
    <3>1. j # s1 /\ j # s2
      BY <1>6
    <3>2. j \in 0 .. 2 * edgeNum - 1
      BY <2>1, SizeAssumption
    <3> QED
      BY <3>1, <3>2
  <2> HIDE DEF y, s1, s2, Has
  <2> QED
    BY <1>3, <2>2
\* What a vertex has now: one more neighbour, if it is an end of the edge.
<1>9. ASSUME NEW u \in Vertex, NEW w \in Vertex, NEW s,
             Gets(u, w, s)
      PROVE  Has(y, u) = Has(x, u) \cup {s} /\ s \notin Has(x, u) /\ y.list[s] = w
  <2>1. s = x.index[u] /\ s \notin Has(x, u) /\ y.list[s] = w /\ y.index[u] = x.index[u] + 1
    BY <1>4, <1>6, <1>7, <1>9
  <2>2. Off(es, u) \in Nat /\ x.index[u] \in Nat /\ Off(es, u) <= x.index[u]
    BY <1>0, SlotsApart
  <2> HIDE DEF y, v1, v2
  <2>3. Has(y, u) = Has(x, u) \cup {s}
    BY <2>1, <2>2
  <2> QED
    BY <2>1, <2>3
<1>10. ASSUME NEW u \in Vertex, u \notin {v1, v2}
       PROVE  Has(y, u) = Has(x, u)
  <2>1. y.index[u] = x.index[u] + 0 /\ x.index[u] \in Nat
    BY <1>0, <1>4, <1>10, SlotsApart
  <2> HIDE DEF y
  <2> QED
    BY <2>1
<1>11. \A u \in Vertex : \A j \in Has(x, u) : x.list[j] \in Vertex
  BY DEF Laid
<1> HIDE DEF y, Has
<1>12. ASSUME NEW u \in Vertex, NEW j \in Has(y, u)
       PROVE  y.list[j] \in Vertex
  <2>1. CASE u \notin {v1, v2}
    BY <1>8, <1>10, <1>11, <2>1
  <2>2. CASE u = v1
    <3>1. Has(y, u) = Has(x, u) \cup {s1} /\ y.list[s1] = v2
      BY <1>1, <1>9, <2>2
    <3> QED
      BY <1>1, <1>8, <1>11, <3>1
  <2>3. CASE u = v2
    <3>1. Has(y, u) = Has(x, u) \cup {s2} /\ y.list[s2] = v1
      BY <1>1, <1>9, <2>3
    <3> QED
      BY <1>1, <1>8, <1>11, <3>1
  <2> QED
    BY <2>1, <2>2, <2>3
<1>13. ASSUME NEW u \in Vertex, NEW v \in Vertex
       PROVE  Cardinality(With(y, u, v)) = Cardinality(Joins(es, u, v) \cap (1 .. n))
  <2> DEFINE c == Cardinality(Joins(es, u, v) \cap (1 .. n - 1))
             d == Cardinality(Joins(es, u, v) \cap (1 .. n))
  <2> SUFFICES Cardinality(With(y, u, v)) = d
    OBVIOUS
  <2>1. c \in Nat /\ d = c + (IF n \in Joins(es, u, v) THEN 1 ELSE 0)
    <3>1. n \in Nat \ {0}
      BY <1>0
    <3>2. PICK P : P = Joins(es, u, v)
      OBVIOUS
    <3>3. /\ Cardinality(P \cap (1 .. n - 1)) \in Nat
          /\ Cardinality(P \cap (1 .. n))
             = Cardinality(P \cap (1 .. n - 1)) + (IF n \in P THEN 1 ELSE 0)
      BY <3>1, CountStep
    <3> QED
      BY <3>2, <3>3
  <2>2. n \in Joins(es, u, v) <=> (u = v1 /\ v = v2) \/ (u = v2 /\ v = v1)
    BY <1>1 DEF Joins
  <2>3. Cardinality(With(x, u, v)) = c
    BY DEF Laid, Has
  <2> HIDE DEF c, d
  <2>4. IsFiniteSet(With(x, u, v))
    <3>1. Off(es, u) \in Int /\ x.index[u] - 1 \in Int
      BY <1>0, SlotsApart
    <3>2. IsFiniteSet(Has(x, u))
      BY <3>1, FS_Interval DEF Has
    <3>3. With(x, u, v) \in SUBSET Has(x, u)
      OBVIOUS
    <3> QED
      BY <3>2, <3>3, FS_Subset
  <2>5. CASE u \notin {v1, v2}
    <3>1. With(y, u, v) = With(x, u, v)
      BY <1>8, <1>10, <2>5
    <3>2. d = c
      BY <2>1, <2>2, <2>5
    <3> QED
      BY <2>3, <3>1, <3>2
  <2>6. ASSUME NEW w \in Vertex, NEW s,
               Gets(u, w, s)
        PROVE  Cardinality(With(y, u, v)) = d
    <3>1. Has(y, u) = Has(x, u) \cup {s} /\ s \notin Has(x, u) /\ y.list[s] = w
      <4> HIDE DEF Gets
      <4> QED
        BY <1>9, <2>6
    <3>2. n \in Joins(es, u, v) <=> v = w
      BY <1>1, <2>2, <2>6
    <3>3. CASE v = w
      <4>1. With(y, u, v) = With(x, u, v) \cup {s} /\ s \notin With(x, u, v)
        BY <1>8, <3>1, <3>3
      <4>2. Cardinality(With(y, u, v)) = Cardinality(With(x, u, v)) + 1
        BY <2>4, <4>1, FS_AddElement
      <4> QED
        BY <2>1, <2>3, <3>2, <3>3, <4>2
    <3>4. CASE v # w
      <4>1. With(y, u, v) = With(x, u, v)
        BY <1>8, <3>1, <3>4
      <4>2. d = c
        BY <2>1, <3>2, <3>4
      <4> QED
        BY <2>3, <4>1, <4>2
    <3> QED
      BY <3>3, <3>4
  <2> QED
    BY <1>1, <2>5, <2>6
<1>14. Laid(es, n, y)
  BY <1>2, <1>4, <1>12, <1>13 DEF Laid, Has
<1> QED
  BY <1>14 DEF y
\* The loop is what its equations say.
LEMMA FillsUnfold ==
  ASSUME NEW es \in EdgeLists
  PROVE  /\ Fills(es)[0] = [list |-> [s \in 0 .. 2 * edgeNum - 1 |-> -1], index |-> Offsets(es)]
         /\ \A n \in 1 .. edgeNum : Fills(es)[n] = Lay(Fills(es)[n - 1], es[n])
<1> DEFINE start == [list |-> [s \in 0 .. 2 * edgeNum - 1 |-> -1], index |-> Offsets(es)]
           Def(f) == f = [n \in 0 .. edgeNum |->
             IF n = 0 THEN [list |-> [s \in 0 .. 2 * edgeNum - 1 |-> -1], index |-> Offsets(es)]
             ELSE [list  |-> [f[n - 1].list EXCEPT ![f[n - 1].index[es[n][1]]] = es[n][2],
                                                   ![f[n - 1].index[es[n][2]]] = es[n][1]],
                   index |-> [f[n - 1].index EXCEPT
                                ![es[n][1]] = f[n - 1].index[es[n][1]] + 1,
                                ![es[n][2]] = f[n - 1].index[es[n][2]] + 1]]]
<1> USE SizeAssumption
<1>1. start \in Filling
  <2>2. Offsets(es) \in [Vertex -> Int]
    BY OffsetsAreOff
  <2> QED
    BY <2>2 DEF Filling
<1>2. PICK step : step = [p \in (1 .. edgeNum) \X Filling |-> Lay(p[2], es[p[1]])]
  OBVIOUS
<1>3. step \in [(1 .. edgeNum) \X Filling -> Filling]
  <2>1. \A n \in 1 .. edgeNum : es[n] \in Vertex \X Vertex
    BY EdgeFacts
  <2>2. \A n \in 1 .. edgeNum : \A x \in Filling : Lay(x, es[n]) \in Filling
    BY <2>1, LayType
  <2> QED
    BY <1>2, <2>2
<1> HIDE DEF start
<1>4. PICK f \in [0 .. edgeNum -> Filling] : Unfolds(edgeNum, start, step, f)
  <2>1. StepsIn(edgeNum, Filling, start, step)
    BY <1>1, <1>3 DEF StepsIn
  <2> QED
    BY <2>1, RecursionUpTo
<1>5. /\ f[0] = start
      /\ \A n \in 1 .. edgeNum : f[n] = Lay(f[n - 1], es[n])
  <2>1. f[0] = start
    BY <1>4 DEF Unfolds
  <2>2. ASSUME NEW n \in 1 .. edgeNum
        PROVE  f[n] = Lay(f[n - 1], es[n])
    <3>0. n \in 0 .. edgeNum /\ n # 0
      OBVIOUS
    <3>1. f[n] = step[<<n, f[n - 1]>>]
      <4> HIDE DEF Def
      <4> QED
        BY <1>4, <3>0 DEF Unfolds
    <3>2. <<n, f[n - 1]>> \in (1 .. edgeNum) \X Filling
      BY <1>4
    <3> QED
      BY <1>2, <3>1, <3>2
  <2> QED
    BY <2>1, <2>2
<1>6. Def(f)
  <2>1. f = [n \in 0 .. edgeNum |-> f[n]]
    BY <1>4
  <2>2. \A n \in 0 .. edgeNum : n # 0 => n \in 1 .. edgeNum
    OBVIOUS
  <2>3. f = [n \in 0 .. edgeNum |-> IF n = 0 THEN start ELSE Lay(f[n - 1], es[n])]
    BY <1>5, <2>1, <2>2
  <2> QED
    BY <2>3 DEF start, Lay
<1>7. Def(Fills(es))
  BY <1>6 DEF Fills
<1>8. Fills(es) = [n \in 0 .. edgeNum |->
                     IF n = 0 THEN start ELSE Lay(Fills(es)[n - 1], es[n])]
  BY <1>7 DEF start, Lay
<1> QED
  BY <1>8 DEF start

\* getGraph(): the array holds a neighbour at every slot, and between the
\* offset of u and the next one v as often as an edge joins them.
LEMMA Layout ==
  ASSUME NEW es \in EdgeLists
  PROVE  /\ Filled(es) \in [0 .. 2 * edgeNum - 1 -> Vertex]
         /\ \A u, v \in Vertex :
              Cardinality({j \in Off(es, u) .. Off(es, u + 1) - 1 : Filled(es)[j] = v})
              = Cardinality(Joins(es, u, v))
<1> USE SizeAssumption
<1>1. Laid(es, 0, Fills(es)[0])
  <2> DEFINE x == Fills(es)[0]
  <2> SUFFICES Laid(es, 0, x)
    OBVIOUS
  <2>1. x = [list |-> [s \in 0 .. 2 * edgeNum - 1 |-> -1], index |-> Offsets(es)]
    BY FillsUnfold
  <2>2. \A v \in Vertex : Off(es, v) \in Nat /\ Offsets(es)[v] = Off(es, v) + Ends(es, 0, v)
    <3>1. \A v \in Vertex : v \in 0 .. vertexNum
      BY DEF Vertex
    <3>2. \A v \in Vertex : Off(es, v) \in Nat /\ Offsets(es)[v] = Off(es, v)
      BY <3>1, OffFacts, OffsetsAreOff
    <3> QED
      BY <3>2, EndsNone
  <2>3. Offsets(es) \in [Vertex -> Int]
    BY OffsetsAreOff
  <2>4. x \in Filling
    BY <2>1, <2>3 DEF Filling
  <2>5. \A u \in Vertex : x.index[u] = Off(es, u) /\ Off(es, u) .. x.index[u] - 1 = {}
    BY <2>1, <2>2, EndsNone
  <2> HIDE DEF x
  <2>6. \A u, v \in Vertex :
          Cardinality({j \in Off(es, u) .. x.index[u] - 1 : x.list[j] = v})
          = Cardinality(Joins(es, u, v) \cap (1 .. 0))
    <3> SUFFICES ASSUME NEW u \in Vertex, NEW v \in Vertex
                 PROVE  Cardinality({j \in Off(es, u) .. x.index[u] - 1 : x.list[j] = v})
                        = Cardinality(Joins(es, u, v) \cap (1 .. 0))
      OBVIOUS
    <3>1. {j \in Off(es, u) .. x.index[u] - 1 : x.list[j] = v} = {}
      BY <2>5
    <3> QED
      BY <3>1, CountNone, FS_EmptySet
  <2> QED
    <3>1. \A u \in Vertex : x.index[u] = Off(es, u) + Ends(es, 0, u)
      BY <2>2, <2>5, EndsNone
    <3> QED
      BY <2>4, <2>5, <2>6, <3>1 DEF Laid
<1>2. PICK S : S = {n \in 0 .. edgeNum : Laid(es, n, Fills(es)[n])}
  OBVIOUS
<1>3. 0 \in S
  BY <1>1, <1>2
<1>4. ASSUME NEW n \in 1 .. edgeNum, n - 1 \in S
      PROVE  n \in S
  <2>1. Laid(es, n - 1, Fills(es)[n - 1])
    BY <1>2, <1>4
  <2>2. Laid(es, n, Lay(Fills(es)[n - 1], es[n]))
    BY <2>1, LayStep
  <2>3. Fills(es)[n] = Lay(Fills(es)[n - 1], es[n])
    BY FillsUnfold
  <2> QED
    BY <1>2, <2>2, <2>3
<1>5. PICK x : x = Fills(es)[edgeNum] /\ Laid(es, edgeNum, x)
  <2>1. 0 .. edgeNum \subseteq S
    BY <1>3, <1>4, UpTo
  <2>2. edgeNum \in S
    BY <2>1
  <2> QED
    BY <1>2, <2>2
<1>6. ASSUME NEW u \in Vertex
      PROVE  x.index[u] = Off(es, u + 1)
  <2>1. x.index[u] = Off(es, u) + Ends(es, edgeNum, u)
    BY <1>5 DEF Laid
  <2> QED
    BY <2>1, OffFacts
<1>7. x.list = Filled(es) /\ x.list \in [0 .. 2 * edgeNum - 1 -> Int]
  BY <1>5 DEF Filled, Laid, Filling
<1>8. ASSUME NEW j \in 0 .. 2 * edgeNum - 1
      PROVE  x.list[j] \in Vertex
  <2>1. PICK T : T = {w \in 1 .. vertexNum : j < Off(es, w)}
    OBVIOUS
  <2>2. vertexNum \in T
    BY <2>1, OffFacts
  <2>3. PICK w \in T : \A y \in T : w <= y
    <3>1. T \subseteq Nat /\ T # {}
      BY <2>1, <2>2
    <3> QED
      BY <3>1, LeastNumber
  <2>4. w \in 1 .. vertexNum /\ j < Off(es, w)
    BY <2>1
  <2>5. w - 1 \in Vertex /\ (w - 1) + 1 = w /\ w - 1 \in 0 .. vertexNum /\ w \in 0 .. vertexNum
    BY <2>4 DEF Vertex
  <2>6. Off(es, w - 1) \in Nat /\ Off(es, w) \in Nat
    BY <2>5, OffFacts
  <2>7. Off(es, w - 1) <= j
    <3>1. CASE w - 1 = 0
      BY <3>1, OffFacts
    <3>2. CASE w - 1 # 0
      <4>1. w - 1 \notin T
        BY <2>3, <2>4
      <4>2. w - 1 \in 1 .. vertexNum
        BY <2>4, <3>2
      <4> QED
        BY <2>1, <2>6, <4>1, <4>2
    <3> QED
      BY <3>1, <3>2
  <2>8. j \in Off(es, w - 1) .. x.index[w - 1] - 1
    <3>1. x.index[w - 1] = Off(es, w)
      BY <1>6, <2>5
    <3> QED
      BY <2>4, <2>6, <2>7, <3>1
  <2> QED
    BY <1>5, <2>5, <2>8 DEF Laid
<1>9. Filled(es) \in [0 .. 2 * edgeNum - 1 -> Vertex]
  BY <1>7, <1>8
<1>10. ASSUME NEW u \in Vertex, NEW v \in Vertex
       PROVE  Cardinality({j \in Off(es, u) .. Off(es, u + 1) - 1 : Filled(es)[j] = v})
              = Cardinality(Joins(es, u, v))
  <2>1. Cardinality({j \in Off(es, u) .. x.index[u] - 1 : x.list[j] = v})
        = Cardinality(Joins(es, u, v) \cap (1 .. edgeNum))
    BY <1>5 DEF Laid
  <2>2. Joins(es, u, v) \cap (1 .. edgeNum) = Joins(es, u, v)
    BY DEF Joins
  <2> QED
    BY <1>6, <1>7, <2>1, <2>2
<1> QED
  BY <1>9, <1>10
------------------------------------------------------------------------------
\* The graph never changes, and the search stays inside its arrays.
GraphLaid ==
  /\ edges \in EdgeLists
  /\ vertexIndex = Offsets(edges)
  /\ linkedList = Filled(edges)

\* The slots the search looks at for u.
Row(lo, u) == lo[u] .. (IF u + 1 < vertexNum THEN lo[u + 1] ELSE vertexNum) - 1

GraphTyped ==
  /\ vertexIndex \in [Vertex -> 0 .. 2 * edgeNum]
  /\ linkedList \in [0 .. 2 * edgeNum - 1 -> Vertex]
  /\ \A u \in Vertex : Row(vertexIndex, u) \subseteq 0 .. 2 * edgeNum - 1

LEMMA GraphFacts == GraphLaid => GraphTyped
<1> SUFFICES ASSUME GraphLaid
             PROVE  GraphTyped
  OBVIOUS
<1> USE SizeAssumption DEF GraphLaid
<1>1. \A v \in Vertex : v \in 0 .. vertexNum
  BY DEF Vertex
<1>2. \A v \in Vertex : vertexIndex[v] \in 0 .. 2 * edgeNum
  BY <1>1, OffFacts, OffsetsAreOff
<1>3. vertexIndex \in [Vertex -> 0 .. 2 * edgeNum]
  <2>1. vertexIndex = [v \in Vertex |-> vertexIndex[v]]
    BY OffsetsAreOff
  <2> QED
    BY <1>2, <2>1
<1>4. linkedList \in [0 .. 2 * edgeNum - 1 -> Vertex]
  BY Layout
<1>5. ASSUME NEW u \in Vertex
      PROVE  Row(vertexIndex, u) \subseteq 0 .. 2 * edgeNum - 1
  <2>1. CASE u + 1 < vertexNum
    <3>1. u + 1 \in Vertex
      BY <2>1 DEF Vertex
    <3>2. vertexIndex[u] \in 0 .. 2 * edgeNum /\ vertexIndex[u + 1] \in 0 .. 2 * edgeNum
      BY <1>2, <3>1
    <3>3. Row(vertexIndex, u) = vertexIndex[u] .. vertexIndex[u + 1] - 1
      BY <2>1 DEF Row
    <3> QED
      BY <3>2, <3>3
  <2>2. CASE ~(u + 1 < vertexNum)
    <3>1. vertexIndex[u] \in 0 .. 2 * edgeNum
      BY <1>2
    <3>2. Row(vertexIndex, u) = vertexIndex[u] .. vertexNum - 1
      BY <2>2 DEF Row
    <3> QED
      BY <3>1, <3>2, DenseAssumption
  <2> QED
    BY <2>1, <2>2
<1> QED
  BY <1>3, <1>4, <1>5 DEF GraphTyped

LEMMA HoldsEdges == GraphLaid => LinkedListHoldsEdges
<1> SUFFICES ASSUME GraphLaid, NEW u \in Vertex, NEW v \in Vertex
             PROVE  Cardinality({j \in Slots(u) : linkedList[j] = v})
                    = Cardinality({k \in 1 .. edgeNum : edges[k] \in {<<u, v>>, <<v, u>>}})
  BY DEF LinkedListHoldsEdges
<1> USE SizeAssumption DEF GraphLaid
<1>1. Slots(u) = Off(edges, u) .. Off(edges, u + 1) - 1
  <2>1. vertexIndex[u] = Off(edges, u)
    BY OffFacts, OffsetsAreOff
  <2>2. CASE u + 1 < vertexNum
    <3>1. u + 1 \in Vertex
      BY <2>2 DEF Vertex
    <3>2. vertexIndex[u + 1] = Off(edges, u + 1)
      BY <3>1, OffFacts, OffsetsAreOff
    <3> QED
      BY <2>1, <2>2, <3>2 DEF Slots
  <2>3. CASE ~(u + 1 < vertexNum)
    <3>1. u + 1 = vertexNum
      BY <2>3 DEF Vertex
    <3>2. Off(edges, u + 1) = 2 * edgeNum
      BY <3>1, OffFacts
    <3> QED
      BY <2>1, <2>3, <3>2 DEF Slots
  <2> QED
    BY <2>2, <2>3
<1>2. Cardinality({j \in Off(edges, u) .. Off(edges, u + 1) - 1 : Filled(edges)[j] = v})
      = Cardinality(Joins(edges, u, v))
  BY Layout
<1> QED
  BY <1>1, <1>2 DEF Joins

------------------------------------------------------------------------------
\* Distances.

LEMMA SeenFacts ==
  ASSUME GraphTyped, NEW u \in Vertex
  PROVE  /\ Seen(u) = {linkedList[j] : j \in Row(vertexIndex, u)}
         /\ Seen(u) \subseteq Vertex
<1>1. Seen(u) = {linkedList[j] : j \in Row(vertexIndex, u)}
  BY DEF Seen, Row, nextVertexIndex
<1> QED
  BY <1>1 DEF GraphTyped

\* Within is what its equations say.
WithinSteps ==
  /\ Within \in [0 .. vertexNum + 1 -> SUBSET Vertex]
  /\ Within[0] = {source}
  /\ \A n \in 1 .. vertexNum + 1 :
       Within[n] = Within[n - 1] \cup UNION {Seen(u) : u \in Within[n - 1]}

LEMMA WithinUnfolds == GraphTyped => WithinSteps
<1> SUFFICES ASSUME GraphTyped
             PROVE  WithinSteps
  OBVIOUS
<1> DEFINE N == vertexNum + 1
           Step(near) == near \cup UNION {Seen(u) : u \in near}
<1>0. N \in Nat /\ {source} \in SUBSET Vertex
  BY SizeAssumption, SourceAssumption
<1>1. \A near \in SUBSET Vertex : Step(near) \in SUBSET Vertex
  BY SeenFacts
<1> HIDE DEF N, Step
<1>2. PICK step : step = [p \in (1 .. N) \X SUBSET Vertex |-> Step(p[2])]
  OBVIOUS
<1>3. step \in [(1 .. N) \X SUBSET Vertex -> SUBSET Vertex]
  BY <1>1, <1>2
<1>4. PICK f \in [0 .. N -> SUBSET Vertex] : Unfolds(N, {source}, step, f)
  <2>1. StepsIn(N, SUBSET Vertex, {source}, step)
    BY <1>0, <1>3 DEF StepsIn
  <2> QED
    BY <2>1, RecursionUpTo
<1>5. f[0] = {source}
  BY <1>0, <1>4 DEF Unfolds
<1>6. ASSUME NEW n \in 1 .. N
      PROVE  f[n] = Step(f[n - 1])
  <2>1. n \in 0 .. N /\ n # 0 /\ n - 1 \in 0 .. N
    BY <1>0
  <2>2. f[n] = step[<<n, f[n - 1]>>]
    BY <1>4, <2>1 DEF Unfolds
  <2>3. <<n, f[n - 1]>> \in (1 .. N) \X SUBSET Vertex
    BY <1>4, <2>1
  <2> QED
    BY <1>2, <2>2, <2>3
<1>7. f = [n \in 0 .. N |-> IF n = 0 THEN {source} ELSE Step(f[n - 1])]
  <2>1. f = [n \in 0 .. N |-> f[n]]
    BY <1>4
  <2>2. \A n \in 0 .. N : n # 0 => n \in 1 .. N
    BY <1>0
  <2> QED
    BY <1>5, <1>6, <2>1, <2>2
<1>8. Within = [n \in 0 .. N |-> IF n = 0 THEN {source} ELSE Step(Within[n - 1])]
  BY <1>7 DEF Within, N, Step
<1>9. Within = f
  <2>1. /\ f = [n \in 0 .. N |-> f[n]] /\ Within = [n \in 0 .. N |-> Within[n]]
        /\ Within[0] = f[0]
    BY <1>0, <1>4, <1>5, <1>8
  <2>2. ASSUME NEW n \in 1 .. N, Within[n - 1] = f[n - 1]
        PROVE  Within[n] = f[n]
    <3>1. n \in 0 .. N /\ n # 0
      BY <1>0
    <3>2. Within[n] = Step(Within[n - 1])
      BY <1>8, <3>1
    <3> QED
      BY <1>6, <2>2, <3>2
  <2>3. AgreeStepwise(N, Within, f)
    BY <1>0, <2>1, <2>2 DEF AgreeStepwise
  <2> QED
    BY <2>3, SameUpTo
<1> QED
  BY <1>4, <1>5, <1>6, <1>9 DEF WithinSteps, N, Step

\* Nothing about distances changes while the graph stays.
LEMMA SameGraph ==
  ASSUME UNCHANGED graph
  PROVE  Within' = Within /\ \A u : Seen(u)' = Seen(u)
BY DEF graph, Within, Seen, nextVertexIndex

\* The sets of vertices at most n steps away grow, and a layer is what is new.
LEMMA WithinGrows ==
  ASSUME WithinSteps
  PROVE  \A n \in 0 .. vertexNum + 1 :
           /\ \A m \in 0 .. n : Within[m] \subseteq Within[n]
           /\ source \in Within[n] /\ Within[n] \subseteq Vertex
<1>1. PICK S : S = {n \in 0 .. vertexNum + 1 :
                      /\ \A m \in 0 .. n : Within[m] \subseteq Within[n]
                      /\ source \in Within[n]}
  OBVIOUS
<1>2. 0 \in S
  BY <1>1, SizeAssumption DEF WithinSteps
<1>3. ASSUME NEW n \in 1 .. vertexNum + 1, n - 1 \in S
      PROVE  n \in S
  <2>1. Within[n - 1] \subseteq Within[n]
    BY DEF WithinSteps
  <2>2. ASSUME NEW m \in 0 .. n
        PROVE  Within[m] \subseteq Within[n]
    <3>1. CASE m = n
      BY <3>1
    <3>2. CASE m # n
      <4>1. m \in 0 .. n - 1
        BY <3>2
      <4> QED
        BY <1>1, <1>3, <2>1, <4>1
    <3> QED
      BY <3>1, <3>2
  <2>3. source \in Within[n]
    BY <1>1, <1>3, <2>1
  <2> QED
    BY <1>1, <2>2, <2>3
<1>4. 0 .. vertexNum + 1 \subseteq S
  <2>1. vertexNum + 1 \in Nat
    BY SizeAssumption
  <2> QED
    BY <1>2, <1>3, <2>1, UpTo
<1>5. \A n \in 0 .. vertexNum + 1 : Within[n] \subseteq Vertex
  BY DEF WithinSteps
<1> QED
  BY <1>1, <1>4, <1>5

LEMMA LayerFacts ==
  ASSUME WithinSteps, NEW n \in 0 .. vertexNum + 1
  PROVE  /\ Layer(n) \subseteq Within[n]
         /\ n # 0 => /\ n - 1 \in 0 .. vertexNum + 1
                     /\ Within[n] = Within[n - 1] \cup Layer(n)
                     /\ Layer(n) \cap Within[n - 1] = {}
                     /\ source \notin Layer(n)
<1>1. CASE n = 0
  BY <1>1 DEF Layer, WithinSteps
<1>2. CASE n # 0
  <2>1. n - 1 \in 0 .. n /\ n - 1 \in 0 .. vertexNum + 1
    BY <1>2, SizeAssumption
  <2>2. Within[n - 1] \subseteq Within[n] /\ source \in Within[n - 1]
    BY <2>1, WithinGrows
  <2>3. Layer(n) = Within[n] \ Within[n - 1]
    BY <1>2 DEF Layer
  <2> QED
    BY <2>1, <2>2, <2>3
<1> QED
  BY <1>1, <1>2
------------------------------------------------------------------------------
\* The search.  Whoever looks at a vertex in Claimed leaves it alone.
Claimed == {source} \cup {v \in Vertex : parent[v] # -1}

\* All neighbours of u are in H.
Done(lo, ll, u, H) == \A k \in Row(lo, u) : ll[k] \in H

\* What a task of the level that has got to t has done of its share of q, if
\* H is claimed: all vertices before the one it is at, and of that one the
\* slots before the one it is at.
Progress(t, lo, ll, q, first, past, H) ==
  /\ t.at = "none" => \A p \in first .. past - 1 : Done(lo, ll, q[p + 1], H)
  /\ t.at \in Yields =>
       /\ t.i \in first .. past - 1
       /\ \A p \in first .. t.i - 1 : Done(lo, ll, q[p + 1], H)
  /\ t.at = "parent" =>
       /\ t.j \in Row(lo, q[t.i + 1]) /\ ll[t.j] # source
       /\ \A k \in Row(lo, q[t.i + 1]) : k < t.j => ll[k] \in H

\* Where a task may be.
Places == [at : Yields \cup {"start", "none"}, i : 0 .. vertexNum - 1,
           j : 0 .. 2 * edgeNum - 1]

\* What is known of the queues and the tree: the current level is the layer at
\* its distance, and what was found belongs to the next.
Frontier ==
  /\ currentQ \in Seq(Vertex) /\ nextQ \in Seq(Vertex)
  /\ Distinct(currentQ) /\ Distinct(nextQ)
  /\ parent \in [Vertex -> Vertex \cup {-1}]
  /\ level \in 0 .. vertexNum
  /\ currentQ # << >> => level < Cardinality(Within[level])
  /\ Members(currentQ) = Layer(level)
  /\ Members(nextQ) \subseteq Layer(level + 1)
  /\ ShortestPathTree

\* What is known of main() and the tasks.
Tasks ==
  /\ main \in {"level", "run", "done"}
  /\ task \in [Coro -> Places]
  /\ turn \in Coro \cup {Nobody}
  /\ main # "run" => /\ nextQ = << >> /\ turn = Nobody
                     /\ \A c \in Coro : task[c].at = "none"
  /\ main = "done" => currentQ = << >>
  /\ main = "run" => /\ currentQ # << >>
                     /\ \A c \in Coro :
                          IF c < realCoros
                          THEN Progress(task[c], vertexIndex, linkedList, currentQ,
                                        mIdx(c), nextIdx(c), Claimed)
                          ELSE task[c].at = "none"

\* The inductive invariant.
IInv == GraphLaid /\ Frontier /\ Tasks

LEMMA QueueFits ==
  ASSUME NEW q \in Seq(Vertex), Distinct(q)
  PROVE  Len(q) \in 0 .. vertexNum
<1>1. q \in [1 .. Len(q) -> Vertex] /\ Len(q) \in Nat
  OBVIOUS
<1>2. q \in Injection(1 .. Len(q), Vertex)
  BY <1>1 DEF Distinct, Injection, IsInjective
<1>3. IsFiniteSet(Vertex) /\ Cardinality(Vertex) = vertexNum
  <2>1. vertexNum - 1 \in Int /\ ~(0 > vertexNum - 1) /\ (vertexNum - 1) - 0 + 1 = vertexNum
    BY SizeAssumption
  <2> QED
    BY <2>1, FS_Interval DEF Vertex
<1>4. Cardinality(1 .. Len(q)) <= vertexNum
  BY <1>2, <1>3, FS_Injection
<1>5. Cardinality(1 .. Len(q)) = Len(q)
  <2> DEFINE n == Len(q)
  <2>1. n \in Nat /\ n \in Int /\ 1 \in Int
    BY <1>1
  <2> HIDE DEF n
  <2>2. Cardinality(1 .. n) = IF 1 > n THEN 0 ELSE n - 1 + 1
    BY <2>1, FS_Interval
  <2>3. Cardinality(1 .. n) = n
    BY <2>1, <2>2
  <2> QED
    BY <2>3 DEF n
<1> QED
  BY <1>1, <1>4, <1>5, SizeAssumption

\* The tasks of a level divide it.
LEMMA CoroFacts ==
  ASSUME Frontier, currentQ # << >>
  PROVE  /\ Len(currentQ) \in 1 .. vertexNum
         /\ realCoros \in 1 .. MAX_COROS
         /\ \A c \in Coro : c < realCoros =>
              mIdx(c) \in Nat /\ nextIdx(c) \in 0 .. Len(currentQ)
         /\ \A p \in 0 .. Len(currentQ) - 1 :
              \E c \in Coro : c < realCoros /\ p \in mIdx(c) .. nextIdx(c) - 1
<1>1. Len(currentQ) \in 1 .. vertexNum
  <2>1. currentQ \in Seq(Vertex) /\ Distinct(currentQ)
    BY DEF Frontier
  <2>2. Len(currentQ) # 0
    BY <2>1
  <2> QED
    BY <2>1, <2>2, QueueFits, SizeAssumption
<1>2. realCoros \in 1 .. MAX_COROS
  BY <1>1, CorosAssumption, SizeAssumption DEF realCoros
<1> DEFINE total == Len(currentQ)
           n == realCoros
<1>3. \A c : mIdx(c) = First(total, n, c) /\ nextIdx(c) = Past(total, n, c)
  BY DEF mIdx, nextIdx, First, Past, pointsPerCoro, remainder
<1>4. total \in Nat /\ n \in Nat \ {0}
  BY <1>1, <1>2
<1> HIDE DEF total, n
<1>5. /\ \A t \in 0 .. total - 1 :
           \E i \in 0 .. n - 1 : t \in First(total, n, i) .. Past(total, n, i) - 1
      /\ \A i \in 0 .. n - 1 :
           First(total, n, i) \in Nat /\ Past(total, n, i) \in 0 .. total
  BY <1>4, SharesCover
<1>6. \A c \in Coro : c < n <=> c \in 0 .. n - 1
  BY <1>4, CorosAssumption DEF Coro
<1>7. 0 .. n - 1 \subseteq Coro
  BY <1>2, <1>4, CorosAssumption DEF Coro, n
<1>8. \A c \in Coro : c < n => mIdx(c) \in Nat /\ nextIdx(c) \in 0 .. total
  BY <1>3, <1>5, <1>6
<1>9. ASSUME NEW p \in 0 .. total - 1
      PROVE  \E c \in Coro : c < n /\ p \in mIdx(c) .. nextIdx(c) - 1
  <2>1. PICK i \in 0 .. n - 1 : p \in First(total, n, i) .. Past(total, n, i) - 1
    BY <1>5
  <2>2. i \in Coro /\ i < n
    BY <1>6, <1>7
  <2> QED
    BY <1>3, <2>1, <2>2
<1> QED
  BY <1>1, <1>2, <1>8, <1>9 DEF total, n

\* More claimed vertices are no loss.
LEMMA ProgressGrows ==
  ASSUME NEW t, NEW lo, NEW ll, NEW q, NEW first, NEW past, NEW H, NEW G, H \subseteq G,
         Progress(t, lo, ll, q, first, past, H)
  PROVE  Progress(t, lo, ll, q, first, past, G)
<1>1. \A u : Done(lo, ll, u, H) => Done(lo, ll, u, G)
  BY DEF Done
<1> QED
  BY <1>1 DEF Progress

\* A task at the head of its outer loop.
LEMMA AtVertexProgress ==
  ASSUME Frontier, currentQ # << >>, NEW c \in Coro, c < realCoros,
         NEW i \in Nat, mIdx(c) <= i, NEW H,
         \A p \in mIdx(c) .. i - 1 : Done(vertexIndex, linkedList, currentQ[p + 1], H)
  PROVE  /\ AtVertex(c, i) \in Places
         /\ Progress(AtVertex(c, i), vertexIndex, linkedList, currentQ,
                     mIdx(c), nextIdx(c), H)
<1>1. /\ Len(currentQ) \in 1 .. vertexNum /\ mIdx(c) \in Nat
      /\ nextIdx(c) \in 0 .. Len(currentQ)
  BY CoroFacts
<1>2. 0 \in 0 .. vertexNum - 1 /\ 0 \in 0 .. 2 * edgeNum - 1
  BY SizeAssumption, DenseAssumption
<1>3. CASE i < nextIdx(c)
  <2>1. AtVertex(c, i) = [at |-> "vertex", i |-> i, j |-> 0]
    BY <1>3 DEF AtVertex
  <2>2. i \in mIdx(c) .. nextIdx(c) - 1 /\ i \in 0 .. vertexNum - 1
    BY <1>1, <1>3, SizeAssumption
  <2> QED
    BY <1>2, <2>1, <2>2 DEF Places, Progress, Yields
<1>4. CASE ~(i < nextIdx(c))
  <2>1. AtVertex(c, i) = [at |-> "none", i |-> 0, j |-> 0]
    BY <1>4 DEF AtVertex, None
  <2>2. mIdx(c) .. nextIdx(c) - 1 \subseteq mIdx(c) .. i - 1
    BY <1>1, <1>4
  <2> QED
    BY <1>2, <2>1, <2>2 DEF Places, Progress, Yields
<1> QED
  BY <1>3, <1>4

\* A task in its inner loop.
LEMMA AtEdgeProgress ==
  ASSUME GraphTyped, Frontier, currentQ # << >>, NEW c \in Coro, c < realCoros,
         NEW i \in mIdx(c) .. nextIdx(c) - 1, NEW H, source \in H,
         \A p \in mIdx(c) .. i - 1 : Done(vertexIndex, linkedList, currentQ[p + 1], H),
         NEW j \in Nat, vertexIndex[mVertex(i)] <= j,
         \A k \in Row(vertexIndex, mVertex(i)) : k < j => linkedList[k] \in H
  PROVE  /\ AtEdge(c, i, j) \in Places
         /\ Progress(AtEdge(c, i, j), vertexIndex, linkedList, currentQ,
                     mIdx(c), nextIdx(c), H)
<1> DEFINE u == mVertex(i)
           past == nextVertexIndex(u)
           left == {k \in j .. past - 1 : linkedList[k] # source}
<1>1. /\ Len(currentQ) \in 1 .. vertexNum /\ mIdx(c) \in Nat
      /\ nextIdx(c) \in 0 .. Len(currentQ)
  BY CoroFacts
<1>2. i \in Nat /\ i \in 0 .. Len(currentQ) - 1 /\ i \in 0 .. vertexNum - 1
  BY <1>1, SizeAssumption
<1>3. u \in Vertex /\ u = currentQ[i + 1]
  <2>1. i + 1 \in 1 .. Len(currentQ)
    BY <1>1, <1>2
  <2> QED
    BY <2>1 DEF Frontier, mVertex
<1>4. Row(vertexIndex, u) = vertexIndex[u] .. past - 1
  BY DEF Row, nextVertexIndex
<1>5. /\ vertexIndex[u] \in Nat /\ past \in Int
      /\ Row(vertexIndex, u) \subseteq 0 .. 2 * edgeNum - 1
  <2>1. u + 1 < vertexNum => u + 1 \in Vertex
    BY <1>3, SizeAssumption DEF Vertex
  <2> QED
    BY <1>3, <2>1, SizeAssumption DEF GraphTyped, nextVertexIndex
<1>6. \A k \in Row(vertexIndex, u) : k \in Int /\ (k \in j .. past - 1 \/ k < j)
  BY <1>4, <1>5
<1>7. j .. past - 1 \subseteq Row(vertexIndex, u)
  BY <1>4, <1>5
<1> HIDE DEF u, past
<1>8. CASE left = {}
  <2>1. AtEdge(c, i, j) = AtVertex(c, i + 1)
    BY <1>8 DEF AtEdge, u, past
  <2>2. Done(vertexIndex, linkedList, u, H)
    <3> SUFFICES ASSUME NEW k \in Row(vertexIndex, u)
                 PROVE  linkedList[k] \in H
      BY DEF Done
    <3>1. CASE k < j
      BY <3>1 DEF u
    <3>2. CASE k \in j .. past - 1
      BY <1>8, <3>2
    <3> QED
      BY <1>6, <3>1, <3>2
  <2>3. ASSUME NEW p \in mIdx(c) .. (i + 1) - 1
        PROVE  Done(vertexIndex, linkedList, currentQ[p + 1], H)
    <3>1. CASE p = i
      BY <1>3, <2>2, <3>1
    <3>2. CASE p # i
      <4>1. p \in mIdx(c) .. i - 1
        BY <1>1, <1>2, <3>2
      <4> QED
        BY <4>1
    <3> QED
      BY <3>1, <3>2
  <2>4. i + 1 \in Nat /\ mIdx(c) <= i + 1
    BY <1>1, <1>2
  <2> QED
    BY <2>1, <2>3, <2>4, AtVertexProgress
<1>9. CASE left # {}
  <2> DEFINE m == CHOOSE k \in left : \A l \in left : k <= l
  <2>1. AtEdge(c, i, j) = [at |-> "parent", i |-> i, j |-> m]
    BY <1>9 DEF AtEdge, u, past
  <2>2. m \in left /\ \A l \in left : m <= l
    <3>1. left \subseteq Nat
      BY <1>5
    <3>2. \E k \in left : \A l \in left : k <= l
      BY <1>9, <3>1, LeastNumber
    <3> QED
      BY <3>2
  <2> HIDE DEF m
  <2>3. m \in Row(vertexIndex, u) /\ linkedList[m] # source /\ m \in Int
    BY <1>6, <1>7, <2>2
  <2>4. ASSUME NEW k \in Row(vertexIndex, u), k < m
        PROVE  linkedList[k] \in H
    <3>1. CASE k < j
      BY <3>1 DEF u
    <3>2. CASE k \in j .. past - 1
      <4>1. k \notin left
        BY <1>6, <2>2, <2>3, <2>4
      <4> QED
        BY <3>2, <4>1
    <3> QED
      BY <1>6, <3>1, <3>2
  <2>5. m \in 0 .. 2 * edgeNum - 1
    BY <1>5, <2>3
  <2> QED
    BY <1>2, <1>3, <2>1, <2>3, <2>4, <2>5 DEF Places, Progress, Yields
<1> QED
  BY <1>8, <1>9
------------------------------------------------------------------------------
\* What a step leaves alone.
LEMMA GraphKept ==
  ASSUME GraphLaid, UNCHANGED graph
  PROVE  GraphLaid'
BY DEF GraphLaid, graph

LEMMA FrontierKept ==
  ASSUME Frontier, UNCHANGED <<graph, currentQ, nextQ, parent, level>>
  PROVE  Frontier'
<1>1. Within' = Within /\ \A u : Seen(u)' = Seen(u)
  BY SameGraph
<1>2. \A n : Layer(n)' = Layer(n)
  BY <1>1 DEF Layer
<1>3. ShortestPathTree'
  BY <1>1, <1>2 DEF Frontier, ShortestPathTree
<1>4. Members(currentQ)' = Layer(level)' /\ Members(nextQ)' \subseteq Layer(level + 1)'
  BY <1>2 DEF Frontier
<1> QED
  BY <1>1, <1>3, <1>4 DEF Frontier

LEMMA LevelKept ==
  ASSUME UNCHANGED currentQ
  PROVE  /\ realCoros' = realCoros
         /\ \A c : mIdx(c)' = mIdx(c) /\ nextIdx(c)' = nextIdx(c)
BY DEF realCoros, mIdx, nextIdx, pointsPerCoro, remainder

LEMMA InitInv == Init => IInv
<1> SUFFICES ASSUME Init
             PROVE  IInv
  OBVIOUS
<1>1. GraphLaid
  BY DEF Init, GraphLaid
<1>2. WithinSteps
  BY <1>1, GraphFacts, WithinUnfolds
<1>3. Within[0] = {source} /\ Layer(0) = {source} /\ source \in Vertex
  BY <1>2, SourceAssumption DEF WithinSteps, Layer
<1>4. Members(currentQ) = {source} /\ Members(nextQ) = {}
  BY DEF Init, Members
<1>5. Frontier
  <2>1. /\ currentQ \in Seq(Vertex) /\ nextQ \in Seq(Vertex)
        /\ Distinct(currentQ) /\ Distinct(nextQ)
        /\ parent \in [Vertex -> Vertex \cup {-1}]
        /\ level \in 0 .. vertexNum
    BY <1>3, SizeAssumption DEF Init, Distinct
  <2>2. level < Cardinality(Within[level])
    <3>1. Cardinality({source}) = 1
      BY FS_Singleton
    <3> QED
      BY <1>3, <3>1 DEF Init
  <2>3. ShortestPathTree
    <3>1. \A v \in Vertex : parent[v] = -1
      BY DEF Init
    <3>2. \A n \in 1 .. level + 1 : Layer(n) \subseteq Vertex
      <4>1. 1 .. level + 1 \subseteq 0 .. vertexNum + 1
        BY SizeAssumption DEF Init
      <4> QED
        BY <1>2, <4>1, LayerFacts, WithinGrows
    <3> QED
      BY <1>3, <1>4, <3>1, <3>2 DEF ShortestPathTree, Init
  <2>4. Members(currentQ) = Layer(level) /\ Members(nextQ) \subseteq Layer(level + 1)
    BY <1>3, <1>4 DEF Init
  <2> QED
    BY <2>1, <2>2, <2>3, <2>4 DEF Frontier
<1>6. Tasks
  <2>1. 0 \in 0 .. vertexNum - 1 /\ 0 \in 0 .. 2 * edgeNum - 1
    BY SizeAssumption, DenseAssumption
  <2> QED
    BY <2>1 DEF Init, Tasks, Places
<1> QED
  BY <1>1, <1>5, <1>6 DEF IInv

\* A task moves on and its progress is right: then all is well with the tasks.
LEMMA MoveTasks ==
  ASSUME IInv, main = "run", UNCHANGED <<graph, currentQ, main>>,
         NEW c \in Coro, c < realCoros, NEW t \in Places, Move(c, t),
         Claimed \subseteq Claimed',
         Progress(t, vertexIndex, linkedList, currentQ, mIdx(c), nextIdx(c), Claimed')
  PROVE  Tasks'
<1>1. /\ realCoros' = realCoros
      /\ \A d : mIdx(d)' = mIdx(d) /\ nextIdx(d)' = nextIdx(d)
  BY LevelKept
<1>2. /\ task \in [Coro -> Places] /\ currentQ # << >>
      /\ task' = [task EXCEPT ![c] = t]
      /\ turn' \in Coro \cup {Nobody}
  BY DEF IInv, Tasks, Move
<1>3. vertexIndex' = vertexIndex /\ linkedList' = linkedList /\ currentQ' = currentQ /\ main' = main
  BY DEF graph
<1>4. ASSUME NEW d \in Coro
      PROVE  IF d < realCoros'
             THEN Progress(task'[d], vertexIndex', linkedList', currentQ', mIdx(d)',
                           nextIdx(d)', Claimed')
             ELSE task'[d].at = "none"
  <2>1. CASE d = c
    <3>1. task'[d] = t
      BY <1>2, <2>1
    <3> QED
      BY <1>1, <1>3, <2>1, <3>1
  <2>2. CASE d # c
    <3>1. task'[d] = task[d]
      BY <1>2, <2>2
    <3>2. IF d < realCoros
          THEN Progress(task[d], vertexIndex, linkedList, currentQ, mIdx(d), nextIdx(d), Claimed)
          ELSE task[d].at = "none"
      BY DEF IInv, Tasks
    <3>3. CASE d < realCoros
      <4>1. Progress(task[d], vertexIndex, linkedList, currentQ, mIdx(d), nextIdx(d), Claimed')
        BY <3>2, <3>3, ProgressGrows
      <4> QED
        BY <1>1, <1>3, <3>1, <3>3, <4>1
    <3>4. CASE ~(d < realCoros)
      BY <1>1, <3>1, <3>2, <3>4
    <3> QED
      BY <3>3, <3>4
  <2> QED
    BY <2>1, <2>2
<1>5. task' \in [Coro -> Places]
  BY <1>2
<1>6. \A d \in Coro :
        IF d < realCoros'
        THEN Progress(task[d], vertexIndex, linkedList, currentQ, mIdx(d), nextIdx(d), Claimed)'
        ELSE task'[d].at = "none"
  BY <1>4
<1> QED
  BY <1>2, <1>3, <1>5, <1>6 DEF Tasks

\* A task that has the processor and is at a place is a task of the level.
LEMMA TaskFacts ==
  ASSUME IInv, NEW c \in Coro, NEW place \in Yields \cup {"start"}, At(c, place)
  PROVE  /\ main = "run" /\ currentQ # << >> /\ c < realCoros
         /\ task[c] \in Places /\ task[c].at = place
         /\ Progress(task[c], vertexIndex, linkedList, currentQ, mIdx(c), nextIdx(c), Claimed)
<1>1. place # "none"
  BY DEF Yields
<1>2. task[c].at = place /\ task[c] \in Places
  BY DEF At, IInv, Tasks
<1>3. main = "run"
  BY <1>1, <1>2 DEF IInv, Tasks
<1> QED
  BY <1>1, <1>2, <1>3 DEF IInv, Tasks
------------------------------------------------------------------------------
\* One lemma for each action.

LEMMA StartLevelInv ==
  ASSUME IInv, StartLevel
  PROVE  IInv'
<1> USE DEF IInv, StartLevel
<1>1. GraphLaid' /\ Frontier'
  BY GraphKept, FrontierKept
<1>2. realCoros' = realCoros
  BY LevelKept
<1>3. \A c \in Coro : task'[c] = IF c < realCoros THEN [at |-> "start", i |-> 0, j |-> 0]
                                  ELSE [at |-> "none", i |-> 0, j |-> 0]
  BY DEF None
<1>4. 0 \in 0 .. vertexNum - 1 /\ 0 \in 0 .. 2 * edgeNum - 1
  BY SizeAssumption, DenseAssumption
<1>5. task' \in [Coro -> Places]
  <2>1. \A c \in Coro : task'[c] \in Places
    BY <1>3, <1>4 DEF Places
  <2> QED
    BY <2>1
<1>6. ASSUME NEW c \in Coro
      PROVE  IF c < realCoros'
             THEN Progress(task'[c], vertexIndex', linkedList', currentQ', mIdx(c)',
                           nextIdx(c)', Claimed')
             ELSE task'[c].at = "none"
  BY <1>2, <1>3 DEF Progress, Yields
<1>7. \A c \in Coro :
        IF c < realCoros'
        THEN Progress(task[c], vertexIndex, linkedList, currentQ, mIdx(c), nextIdx(c), Claimed)'
        ELSE task'[c].at = "none"
  BY <1>6
<1>8. Tasks'
  BY <1>5, <1>7 DEF Tasks
<1> QED
  BY <1>1, <1>8

LEMMA ResumeInv ==
  ASSUME IInv, NEW c \in Coro, Resume(c)
  PROVE  IInv'
<1> USE DEF IInv, Resume
<1>1. GraphLaid' /\ Frontier'
  BY GraphKept, FrontierKept
<1>2. /\ realCoros' = realCoros
      /\ \A d : mIdx(d)' = mIdx(d) /\ nextIdx(d)' = nextIdx(d)
  BY LevelKept
<1>3. Claimed' = Claimed /\ vertexIndex' = vertexIndex /\ linkedList' = linkedList
  BY DEF Claimed, graph
<1>4. \A d \in Coro :
        IF d < realCoros'
        THEN Progress(task[d], vertexIndex, linkedList, currentQ, mIdx(d), nextIdx(d), Claimed)'
        ELSE task'[d].at = "none"
  BY <1>2, <1>3 DEF Tasks
<1>5. Tasks'
  BY <1>4 DEF Tasks
<1> QED
  BY <1>1, <1>5

LEMMA BeginInv ==
  ASSUME IInv, NEW c \in Coro, Begin(c)
  PROVE  IInv'
<1> USE DEF Begin
<1>1. GraphLaid' /\ Frontier'
  BY GraphKept, FrontierKept DEF IInv
<1>2. /\ main = "run" /\ currentQ # << >> /\ c < realCoros
  BY TaskFacts
<1>3. mIdx(c) \in Nat /\ mIdx(c) <= mIdx(c) /\ mIdx(c) .. mIdx(c) - 1 = {}
  <2>1. mIdx(c) \in Nat
    BY <1>2, CoroFacts DEF IInv
  <2> QED
    BY <2>1
<1>4. /\ AtVertex(c, mIdx(c)) \in Places
      /\ Progress(AtVertex(c, mIdx(c)), vertexIndex, linkedList, currentQ,
                  mIdx(c), nextIdx(c), Claimed)
  BY <1>2, <1>3, AtVertexProgress DEF IInv
<1>5. Claimed' = Claimed
  BY DEF Claimed
<1>6. Tasks'
  BY <1>2, <1>4, <1>5, MoveTasks
<1> QED
  BY <1>1, <1>6 DEF IInv

LEMMA ReadVertexInv ==
  ASSUME IInv, NEW c \in Coro, ReadVertex(c)
  PROVE  IInv'
<1> USE DEF ReadVertex
<1> DEFINE t == [task[c] EXCEPT !.at = "edges"]
<1>1. GraphLaid' /\ Frontier'
  BY GraphKept, FrontierKept DEF IInv
<1>2. /\ main = "run" /\ currentQ # << >> /\ c < realCoros
      /\ task[c] \in Places /\ task[c].at = "vertex"
      /\ Progress(task[c], vertexIndex, linkedList, currentQ, mIdx(c), nextIdx(c), Claimed)
  BY TaskFacts DEF Yields
<1>3. t \in Places /\ t.at = "edges" /\ t.i = task[c].i
  BY <1>2 DEF Places, Yields
<1>4. Claimed' = Claimed
  BY DEF Claimed
<1> HIDE DEF t
<1>5. Progress(t, vertexIndex, linkedList, currentQ, mIdx(c), nextIdx(c), Claimed)
  BY <1>2, <1>3 DEF Progress, Yields
<1>6. Move(c, t)
  BY DEF t
<1>7. Tasks'
  BY <1>2, <1>3, <1>4, <1>5, <1>6, MoveTasks
<1> QED
  BY <1>1, <1>7 DEF IInv

\* The vertex a task is at.
LEMMA VertexFacts ==
  ASSUME Frontier, currentQ # << >>, NEW c \in Coro, c < realCoros,
         NEW i \in mIdx(c) .. nextIdx(c) - 1
  PROVE  mVertex(i) = currentQ[i + 1] /\ mVertex(i) \in Vertex /\ mVertex(i) \in Layer(level)
<1>1. /\ Len(currentQ) \in 1 .. vertexNum /\ mIdx(c) \in Nat
      /\ nextIdx(c) \in 0 .. Len(currentQ)
  BY CoroFacts
<1>2. i + 1 \in 1 .. Len(currentQ)
  BY <1>1
<1>3. currentQ[i + 1] \in Vertex /\ currentQ[i + 1] \in Members(currentQ)
  BY <1>2 DEF Frontier, Members
<1> QED
  BY <1>3 DEF Frontier, mVertex

LEMMA ScanEdgesInv ==
  ASSUME IInv, NEW c \in Coro, ScanEdges(c)
  PROVE  IInv'
<1> DEFINE i == task[c].i
           j == vertexIndex[mVertex(i)]
<1>1. GraphLaid' /\ Frontier' /\ GraphTyped
  BY GraphKept, FrontierKept, GraphFacts DEF IInv, ScanEdges
<1>2. /\ main = "run" /\ currentQ # << >> /\ c < realCoros
      /\ task[c].at = "edges"
      /\ Progress(task[c], vertexIndex, linkedList, currentQ, mIdx(c), nextIdx(c), Claimed)
  BY TaskFacts DEF Yields, ScanEdges
<1>3. /\ i \in mIdx(c) .. nextIdx(c) - 1
      /\ \A p \in mIdx(c) .. i - 1 : Done(vertexIndex, linkedList, currentQ[p + 1], Claimed)
  BY <1>2 DEF Progress, Yields
<1>4. mVertex(i) \in Vertex
  BY <1>2, <1>3, VertexFacts DEF IInv
<1>5. /\ j \in Nat /\ j <= j
      /\ \A k \in Row(vertexIndex, mVertex(i)) : k < j => linkedList[k] \in Claimed
  <2>1. j \in 0 .. 2 * edgeNum
    BY <1>1, <1>4 DEF GraphTyped
  <2>2. \A k \in Row(vertexIndex, mVertex(i)) :
          k \in j .. (IF mVertex(i) + 1 < vertexNum THEN vertexIndex[mVertex(i) + 1] ELSE vertexNum) - 1
    BY DEF Row
  <2> HIDE DEF j
  <2> QED
    BY <2>1, <2>2
<1>6. source \in Claimed /\ Claimed' = Claimed
  BY DEF Claimed, ScanEdges
<1>7. Move(c, AtEdge(c, i, j))
  BY DEF ScanEdges
<1> HIDE DEF i, j
<1>8. /\ AtEdge(c, i, j) \in Places
      /\ Progress(AtEdge(c, i, j), vertexIndex, linkedList, currentQ,
                  mIdx(c), nextIdx(c), Claimed)
  <2>1. vertexIndex[mVertex(i)] <= j
    BY <1>5 DEF j
  <2> QED
    BY <1>1, <1>2, <1>3, <1>5, <1>6, <2>1, AtEdgeProgress DEF IInv
<1>9. Tasks'
  BY <1>2, <1>6, <1>7, <1>8, MoveTasks DEF ScanEdges
<1> QED
  BY <1>1, <1>9 DEF IInv

LEMMA FinishInv ==
  ASSUME IInv, Finish
  PROVE  IInv'
<1> USE DEF IInv, Finish
<1>1. GraphLaid' /\ Frontier'
  BY GraphKept, FrontierKept
<1>2. Tasks'
  BY DEF Tasks
<1> QED
  BY <1>1, <1>2

LEMMA StutterInv ==
  ASSUME IInv, UNCHANGED vars
  PROVE  IInv'
<1> USE DEF IInv, vars
<1>1. GraphLaid' /\ Frontier'
  BY GraphKept, FrontierKept DEF graph
<1>2. /\ realCoros' = realCoros
      /\ \A d : mIdx(d)' = mIdx(d) /\ nextIdx(d)' = nextIdx(d)
  BY LevelKept
<1>3. Claimed' = Claimed
  BY DEF Claimed
<1>4. main = "run" => \A d \in Coro :
        IF d < realCoros'
        THEN Progress(task[d], vertexIndex, linkedList, currentQ, mIdx(d), nextIdx(d), Claimed)'
        ELSE task'[d].at = "none"
  BY <1>2, <1>3 DEF Tasks
<1>5. Tasks'
  BY <1>4 DEF Tasks
<1> QED
  BY <1>1, <1>5
LEMMA AppendMembers ==
  ASSUME NEW q \in Seq(Vertex), NEW v \in Vertex
  PROVE  /\ Append(q, v) \in Seq(Vertex)
         /\ Members(Append(q, v)) = Members(q) \cup {v}
         /\ Distinct(q) /\ v \notin Members(q) => Distinct(Append(q, v))
<1>1. /\ Append(q, v) \in Seq(Vertex) /\ Len(Append(q, v)) = Len(q) + 1 /\ Len(q) \in Nat
      /\ \A k \in 1 .. Len(q) : Append(q, v)[k] = q[k]
      /\ Append(q, v)[Len(q) + 1] = v
  OBVIOUS
<1> DEFINE n == Len(q)
           r == Append(q, v)
<1>2. \A k : k \in 1 .. n + 1 <=> k \in 1 .. n \/ k = n + 1
  BY <1>1
<1>3. n + 1 \notin 1 .. n
  BY <1>1
<1>4. Members(r) = {r[k] : k \in 1 .. n + 1} /\ Members(q) = {q[k] : k \in 1 .. n}
  BY <1>1 DEF Members
<1>5. \A k \in 1 .. n : r[k] = q[k]
  BY <1>1
<1>6. r[n + 1] = v /\ Len(r) = n + 1
  BY <1>1
<1> HIDE DEF n, r
<1>7. Members(r) = Members(q) \cup {v}
  BY <1>2, <1>4, <1>5, <1>6
<1>8. ASSUME Distinct(q), v \notin Members(q)
      PROVE  Distinct(r)
  <2> SUFFICES ASSUME NEW k \in 1 .. n + 1, NEW l \in 1 .. n + 1, r[k] = r[l]
               PROVE  k = l
    BY <1>6 DEF Distinct
  <2>1. \A m \in 1 .. n : r[m] # v
    BY <1>4, <1>5, <1>8
  <2>2. CASE k = n + 1 \/ l = n + 1
    BY <1>2, <1>6, <2>1, <2>2
  <2>3. CASE k \in 1 .. n /\ l \in 1 .. n
    <3>1. q[k] = q[l]
      BY <1>5, <2>3
    <3> QED
      BY <1>8, <2>3, <3>1 DEF Distinct, n
  <2> QED
    BY <1>2, <2>2, <2>3
<1> QED
  BY <1>1, <1>7, <1>8 DEF r

\* What the tree says of one vertex.
LEMMA TreeClause ==
  ASSUME Frontier, NEW n \in 1 .. level + 1, NEW v \in Layer(n), parent[v] # -1
  PROVE  parent[v] \in Layer(n - 1) /\ v \in Seen(parent[v])
BY DEF Frontier, ShortestPathTree

\* A task claims v, or leaves it to the task that has claimed it.
LEMMA CheckParentInv ==
  ASSUME IInv, NEW c \in Coro, CheckParent(c)
  PROVE  IInv'
<1> DEFINE i == task[c].i
           j == task[c].j
           u == mVertex(i)
           v == linkedList[j]
<1>1. GraphLaid /\ GraphLaid' /\ GraphTyped /\ WithinSteps /\ Frontier
  BY GraphKept, GraphFacts, WithinUnfolds DEF IInv, CheckParent
<1>2. /\ main = "run" /\ currentQ # << >> /\ c < realCoros
      /\ task[c].at = "parent" /\ task[c] \in Places
      /\ Progress(task[c], vertexIndex, linkedList, currentQ, mIdx(c), nextIdx(c), Claimed)
  BY TaskFacts DEF Yields, CheckParent
<1>3. /\ i \in mIdx(c) .. nextIdx(c) - 1
      /\ \A p \in mIdx(c) .. i - 1 : Done(vertexIndex, linkedList, currentQ[p + 1], Claimed)
  BY <1>2 DEF Progress, Yields
<1>4. u = currentQ[i + 1] /\ u \in Vertex /\ u \in Layer(level)
  BY <1>1, <1>2, <1>3, VertexFacts
<1>5. /\ j \in Row(vertexIndex, u) /\ v # source
      /\ \A k \in Row(vertexIndex, u) : k < j => linkedList[k] \in Claimed
  BY <1>2, <1>4 DEF Progress, Yields
<1>6. v \in Vertex /\ v \in Seen(u) /\ j \in Nat /\ vertexIndex[u] \in Nat /\ vertexIndex[u] <= j
  <2>1. j \in 0 .. 2 * edgeNum - 1 /\ vertexIndex[u] \in 0 .. 2 * edgeNum
    BY <1>1, <1>4, <1>5 DEF GraphTyped
  <2>2. v \in Vertex /\ v \in Seen(u)
    BY <1>1, <1>4, <1>5, <2>1, SeenFacts DEF GraphTyped
  <2>3. j \in vertexIndex[u] .. (IF u + 1 < vertexNum THEN vertexIndex[u + 1] ELSE vertexNum) - 1
    BY <1>5 DEF Row
  <2> QED
    BY <2>1, <2>2, <2>3
<1>7. Move(c, AtEdge(c, i, j + 1))
  BY DEF CheckParent
<1>8. parent' = IF parent[v] = -1 THEN [parent EXCEPT ![v] = u] ELSE parent
  BY DEF CheckParent
<1>9. nextQ' = IF parent[v] = -1 THEN Append(nextQ, v) ELSE nextQ
  BY DEF CheckParent
<1>10. UNCHANGED <<graph, currentQ, level, main>>
  BY DEF CheckParent
<1> HIDE DEF i, j, u, v
<1>11. parent \in [Vertex -> Vertex \cup {-1}] /\ u # -1
  BY <1>1, <1>4, SizeAssumption DEF Frontier, Vertex
\* Its own progress.
<1>12. Claimed \subseteq Claimed' /\ v \in Claimed' /\ source \in Claimed'
  <2>1. ASSUME NEW w \in Vertex
        PROVE  /\ parent[w] # -1 => parent'[w] # -1
               /\ w = v => parent'[w] # -1
    BY <1>6, <1>8, <1>11
  <2> QED
    BY <1>6, <2>1 DEF Claimed
<1>13. /\ AtEdge(c, i, j + 1) \in Places
       /\ Progress(AtEdge(c, i, j + 1), vertexIndex, linkedList, currentQ,
                   mIdx(c), nextIdx(c), Claimed')
  <2>1. \A p \in mIdx(c) .. i - 1 : Done(vertexIndex, linkedList, currentQ[p + 1], Claimed')
    BY <1>3, <1>12 DEF Done
  <2>2. j + 1 \in Nat /\ vertexIndex[mVertex(i)] <= j + 1
    BY <1>6 DEF u
  <2>3. ASSUME NEW k \in Row(vertexIndex, mVertex(i)), k < j + 1
        PROVE  linkedList[k] \in Claimed'
    <3>0. k \in Row(vertexIndex, u)
      BY DEF u
    <3>1. k \in Int
      BY <1>1, <1>4, <3>0 DEF GraphTyped
    <3>2. CASE k = j
      BY <1>12, <3>2 DEF v
    <3>3. CASE k < j
      BY <1>5, <1>12, <3>0, <3>3
    <3> QED
      BY <1>6, <2>3, <3>1, <3>2, <3>3
  <2> QED
    BY <1>1, <1>2, <1>3, <1>12, <2>1, <2>2, <2>3, AtEdgeProgress
<1>14. Tasks'
  BY <1>2, <1>7, <1>10, <1>12, <1>13, MoveTasks
\* The frontier, if nothing is claimed.
<1>15. CASE parent[v] # -1
  <2>1. UNCHANGED <<graph, currentQ, nextQ, parent, level>>
    BY <1>8, <1>9, <1>10, <1>15
  <2>2. Frontier'
    BY <1>1, <2>1, FrontierKept
  <2> QED
    BY <1>1, <1>14, <2>2 DEF IInv
\* The frontier, if v is.
<1>16. CASE parent[v] = -1
  <2>1. /\ parent' = [parent EXCEPT ![v] = u] /\ nextQ' = Append(nextQ, v)
        /\ currentQ' = currentQ /\ level' = level
    BY <1>8, <1>9, <1>10, <1>16
  <2>2. Within' = Within /\ (\A w : Seen(w)' = Seen(w)) /\ (\A n : Layer(n)' = Layer(n))
    <3>1. Within' = Within /\ \A w : Seen(w)' = Seen(w)
      BY <1>10, SameGraph
    <3> QED
      BY <3>1 DEF Layer
  <2>3. level \in 0 .. vertexNum + 1 /\ level + 1 \in 1 .. vertexNum + 1
        /\ level + 1 \in 0 .. vertexNum + 1 /\ (level + 1) - 1 = level
    BY <1>1, SizeAssumption DEF Frontier
  <2>4. {w \in Vertex : parent[w] # -1} = (Within[level] \ {source}) \cup Members(nextQ)
    BY <1>1 DEF Frontier, ShortestPathTree
  <2>5. v \notin Within[level] /\ v \notin Members(nextQ)
    BY <1>5, <1>16, <2>4
  <2>6. v \in Layer(level + 1)
    <3>1. u \in Within[level]
      BY <1>1, <1>4, <2>3, LayerFacts
    <3>2. Within[level + 1] = Within[level] \cup UNION {Seen(w) : w \in Within[level]}
      BY <1>1, <2>3 DEF WithinSteps
    <3>3. v \in Within[level + 1]
      BY <1>6, <3>1, <3>2
    <3>4. Within[level + 1] = Within[level] \cup Layer(level + 1)
      BY <1>1, <2>3, LayerFacts
    <3> QED
      BY <2>5, <3>3, <3>4
  <2>7. nextQ \in Seq(Vertex) /\ Distinct(nextQ)
    BY <1>1 DEF Frontier
  <2>8. /\ nextQ' \in Seq(Vertex) /\ Distinct(nextQ')
        /\ Members(nextQ') = Members(nextQ) \cup {v}
    BY <1>6, <2>1, <2>5, <2>7, AppendMembers
  <2>9. parent' \in [Vertex -> Vertex \cup {-1}]
    BY <1>4, <1>11, <2>1
  <2>10. \A w \in Vertex : parent'[w] = IF w = v THEN u ELSE parent[w]
    BY <1>11, <2>1
  <2>11. {w \in Vertex : parent'[w] # -1} = (Within[level] \ {source}) \cup Members(nextQ')
    BY <1>6, <1>11, <2>4, <2>8, <2>10
  <2>12. ASSUME NEW n \in 1 .. level + 1, NEW w \in Layer(n), parent'[w] # -1
         PROVE  parent'[w] \in Layer(n - 1) /\ w \in Seen(parent'[w])
    <3>0. n \in 0 .. vertexNum + 1 /\ w \in Vertex
      <4>1. n \in 0 .. vertexNum + 1
        BY <2>3, <2>12, SizeAssumption
      <4>2. Layer(n) \subseteq Vertex
        BY <1>1, <4>1, LayerFacts, WithinGrows
      <4> QED
        BY <2>12, <4>1, <4>2
    <3>1. CASE w # v
      <4>1. parent'[w] = parent[w]
        BY <2>10, <3>0, <3>1
      <4>2. parent[w] \in Layer(n - 1) /\ w \in Seen(parent[w])
        BY <1>1, <2>12, <4>1, TreeClause
      <4> QED
        BY <4>1, <4>2
    <3>2. CASE w = v
      <4>1. n = level + 1
        <5>1. CASE n \in 0 .. level
          <6>1. Layer(n) \subseteq Within[n] /\ Within[n] \subseteq Within[level]
            BY <1>1, <2>3, <3>0, <5>1, LayerFacts, WithinGrows
          <6> QED
            BY <2>5, <3>2, <6>1
        <5> QED
          BY <2>3, <5>1
      <4> QED
        <5>1. parent'[w] = u /\ n - 1 = level
          BY <1>6, <2>3, <2>10, <3>2, <4>1
        <5> QED
          BY <1>4, <1>6, <3>2, <5>1
    <3> QED
      BY <3>1, <3>2
  <2>13. ShortestPathTree'
    BY <2>1, <2>2, <2>11, <2>12 DEF ShortestPathTree
  <2>14. /\ Members(currentQ') = Layer(level)
         /\ Members(nextQ') \subseteq Layer(level + 1)
    BY <1>1, <2>1, <2>6, <2>8 DEF Frontier
  <2>15. Members(currentQ)' = Layer(level)' /\ Members(nextQ)' \subseteq Layer(level + 1)'
    <3>1. Layer(level)' = Layer(level) /\ Layer(level + 1)' = Layer(level + 1)
      BY <2>1, <2>2 DEF Layer
    <3> QED
      BY <2>14, <3>1
  <2>16. Frontier'
    BY <1>1, <2>1, <2>2, <2>8, <2>9, <2>13, <2>15 DEF Frontier
  <2> QED
    BY <1>1, <1>14, <2>16 DEF IInv
<1> QED
  BY <1>15, <1>16
\* The level is over: every vertex of it was visited, so whatever is a step
\* farther was found, and the next level is the layer at the next distance.
LEMMA EndLevelInv ==
  ASSUME IInv, EndLevel
  PROVE  IInv'
<1>1. GraphLaid /\ GraphLaid' /\ GraphTyped /\ WithinSteps /\ Frontier
  BY GraphKept, GraphFacts, WithinUnfolds DEF IInv, EndLevel
<1>2. /\ main = "run" /\ currentQ # << >> /\ \A c \in Coro : task[c].at = "none"
      /\ currentQ' = nextQ /\ nextQ' = << >> /\ level' = level + 1 /\ main' = "level"
      /\ parent' = parent /\ task' = task /\ turn' = turn /\ turn = Nobody
      /\ UNCHANGED graph
  BY DEF EndLevel, IInv, Tasks
<1>3. ASSUME NEW w \in Members(currentQ)
      PROVE  Seen(w) \subseteq Claimed
  <2>1. PICK k \in 1 .. Len(currentQ) : w = currentQ[k]
    BY DEF Members
  <2>2. /\ k - 1 \in 0 .. Len(currentQ) - 1 /\ (k - 1) + 1 = k /\ w \in Vertex
    BY <1>1, <2>1 DEF Frontier
  <2>3. PICK c \in Coro : c < realCoros /\ k - 1 \in mIdx(c) .. nextIdx(c) - 1
    BY <1>1, <1>2, <2>2, CoroFacts
  <2>4. Progress(task[c], vertexIndex, linkedList, currentQ, mIdx(c), nextIdx(c), Claimed)
    BY <1>2, <2>3 DEF IInv, Tasks
  <2>5. Done(vertexIndex, linkedList, currentQ[(k - 1) + 1], Claimed)
    BY <1>2, <2>3, <2>4 DEF Progress
  <2>6. Done(vertexIndex, linkedList, w, Claimed)
    BY <2>1, <2>2, <2>5
  <2>7. Seen(w) = {linkedList[j] : j \in Row(vertexIndex, w)}
    BY <1>1, <2>2, SeenFacts
  <2> QED
    BY <2>6, <2>7 DEF Done
<1>4. /\ level \in 0 .. vertexNum /\ level \in 0 .. vertexNum + 1
      /\ level + 1 \in 1 .. vertexNum + 1 /\ level + 1 \in 0 .. vertexNum + 1
      /\ (level + 1) - 1 = level /\ level + 1 # 0
  BY <1>1, SizeAssumption DEF Frontier
<1>5. {w \in Vertex : parent[w] # -1} = (Within[level] \ {source}) \cup Members(nextQ)
  BY <1>1 DEF Frontier, ShortestPathTree
<1>6. source \in Within[level] /\ Within[level] \subseteq Vertex /\ Within[level + 1] \subseteq Vertex
  BY <1>1, <1>4, WithinGrows
<1>7. /\ Within[level + 1] = Within[level] \cup Layer(level + 1)
      /\ Layer(level + 1) \cap Within[level] = {}
  BY <1>1, <1>4, LayerFacts
<1>8. Layer(level + 1) \subseteq Members(nextQ)
  <2> SUFFICES ASSUME NEW v \in Layer(level + 1)
               PROVE  v \in Members(nextQ)
    OBVIOUS
  <2>1. v \in Within[level + 1] /\ v \notin Within[level] /\ v # source /\ v \in Vertex
    BY <1>6, <1>7
  <2>2. PICK w \in Within[level] : v \in Seen(w)
    <3>1. Within[level + 1] = Within[level] \cup UNION {Seen(w) : w \in Within[level]}
      BY <1>1, <1>4 DEF WithinSteps
    <3> QED
      BY <2>1, <3>1
  <2>3. w \in Layer(level)
    <3>1. CASE level = 0
      BY <1>1, <2>2, <3>1 DEF Layer, WithinSteps
    <3>2. CASE level # 0
      <4>1. Within[level] = Within[level - 1] \cup Layer(level)
        BY <1>1, <1>4, <3>2, LayerFacts
      <4>2. level \in 1 .. vertexNum + 1
        BY <1>4, <3>2
      <4>3. Within[level] = Within[level - 1] \cup UNION {Seen(x) : x \in Within[level - 1]}
        BY <1>1, <4>2 DEF WithinSteps
      <4>4. w \notin Within[level - 1]
        BY <2>1, <2>2, <4>3
      <4> QED
        BY <2>2, <4>1, <4>4
    <3> QED
      BY <3>1, <3>2
  <2>4. v \in Claimed
    BY <1>1, <1>3, <2>2, <2>3 DEF Frontier
  <2> QED
    BY <1>5, <2>1, <2>4 DEF Claimed
<1>9. Members(nextQ) = Layer(level + 1)
  BY <1>1, <1>8 DEF Frontier
\* There is another level only if a vertex was found that was not within reach.
<1>10. level < Cardinality(Within[level]) /\ Cardinality(Within[level]) <= vertexNum
  <2>1. IsFiniteSet(Vertex) /\ Cardinality(Vertex) = vertexNum
    <3>1. vertexNum - 1 \in Int /\ ~(0 > vertexNum - 1) /\ (vertexNum - 1) - 0 + 1 = vertexNum
      BY SizeAssumption
    <3> QED
      BY <3>1, FS_Interval DEF Vertex
  <2> QED
    BY <1>1, <1>2, <1>6, <2>1, FS_Subset DEF Frontier
<1>11. Cardinality(Within[level]) \in Nat /\ Cardinality(Within[level + 1]) \in Nat
       /\ IsFiniteSet(Within[level + 1])
  <2>1. IsFiniteSet(Vertex)
    BY SizeAssumption, FS_Interval DEF Vertex
  <2>2. IsFiniteSet(Within[level]) /\ IsFiniteSet(Within[level + 1])
    BY <1>6, <2>1, FS_Subset
  <2> QED
    BY <2>2, FS_CardinalityType
<1>12. level + 1 \in 0 .. vertexNum
  BY <1>4, <1>10, <1>11, SizeAssumption
<1>13. ASSUME nextQ # << >>
       PROVE  level + 1 < Cardinality(Within[level + 1])
  <2>1. Members(nextQ) # {}
    <3>1. nextQ \in Seq(Vertex) /\ Len(nextQ) # 0
      BY <1>1, <1>13 DEF Frontier
    <3>2. 1 \in 1 .. Len(nextQ)
      BY <3>1
    <3> QED
      BY <3>2 DEF Members
  <2>2. Within[level] # Within[level + 1] /\ Within[level] \subseteq Within[level + 1]
    BY <1>7, <1>9, <2>1
  <2>3. Cardinality(Within[level]) <= Cardinality(Within[level + 1])
        /\ Cardinality(Within[level + 1]) # Cardinality(Within[level])
    BY <1>11, <2>2, FS_Subset
  <2> QED
    BY <1>4, <1>10, <1>11, <2>3
<1>14. Within' = Within /\ (\A w : Seen(w)' = Seen(w))
  BY <1>2, SameGraph
<1>15. Members(<< >>) = {} /\ Distinct(<< >>)
  BY DEF Members, Distinct
<1>16. ShortestPathTree'
  <2>1. {w \in Vertex : parent'[w] # -1} = (Within'[level'] \ {source}) \cup Members(nextQ')
    <3>1. source \notin Layer(level + 1)
      BY <1>6, <1>7
    <3> QED
      BY <1>2, <1>5, <1>7, <1>9, <1>14, <1>15, <3>1
  <2>2. ASSUME NEW n \in 1 .. level' + 1, NEW v \in Layer(n)', parent'[v] # -1
        PROVE  parent'[v] \in Layer(n - 1)' /\ v \in Seen(parent[v])'
    <3>1. Layer(n)' = Layer(n) /\ Layer(n - 1)' = Layer(n - 1)
      BY <1>14 DEF Layer
    <3>2. CASE n \in 1 .. level + 1
      <4>1. parent[v] \in Layer(n - 1) /\ v \in Seen(parent[v])
        BY <1>1, <1>2, <2>2, <3>1, <3>2, TreeClause
      <4>2. Seen(parent[v])' = Seen(parent[v])
        BY <1>2, <1>14 DEF Seen, nextVertexIndex
      <4> QED
        BY <1>2, <3>1, <4>1, <4>2
    <3>3. CASE n = level + 2
      <4>1. n \in 0 .. vertexNum + 1 /\ n # 0 /\ n - 1 = level + 1
        BY <1>4, <1>12, <3>3, SizeAssumption
      <4>2. Layer(n) \cap Within[level + 1] = {} /\ Layer(n) \subseteq Vertex
        BY <1>1, <4>1, LayerFacts, WithinGrows
      <4>3. v \in Vertex /\ v \notin Within[level + 1]
        BY <2>2, <3>1, <4>2
      <4>4. parent[v] # -1 => v \in Within[level + 1]
        BY <1>5, <1>7, <1>9, <4>3
      <4> QED
        BY <1>2, <2>2, <4>3, <4>4
    <3> QED
      BY <1>2, <1>4, <3>2, <3>3
  <2> QED
    BY <1>14, <2>1, <2>2 DEF ShortestPathTree
<1>17. Members(currentQ)' = Layer(level)' /\ Members(nextQ)' \subseteq Layer(level + 1)'
  <2>1. Layer(level)' = Layer(level + 1)
    BY <1>2, <1>14 DEF Layer
  <2> QED
    BY <1>2, <1>9, <1>15, <2>1
<1>18. Frontier'
  <2>1. /\ currentQ' \in Seq(Vertex) /\ nextQ' \in Seq(Vertex)
        /\ Distinct(currentQ') /\ Distinct(nextQ')
        /\ parent' \in [Vertex -> Vertex \cup {-1}]
    BY <1>1, <1>2, <1>15 DEF Frontier
  <2>2. level' \in 0 .. vertexNum /\ (currentQ' # << >> => level' < Cardinality(Within'[level']))
    BY <1>2, <1>12, <1>13, <1>14
  <2> QED
    BY <1>16, <1>17, <2>1, <2>2 DEF Frontier
<1>19. Tasks'
  BY <1>2 DEF IInv, Tasks
<1> QED
  BY <1>1, <1>18, <1>19 DEF IInv

LEMMA NextInv == IInv /\ [Next]_vars => IInv'
<1> SUFFICES ASSUME IInv, [Next]_vars
             PROVE  IInv'
  OBVIOUS
<1>1. CASE StartLevel
  BY <1>1, StartLevelInv
<1>2. ASSUME NEW c \in Coro, Resume(c)
      PROVE  IInv'
  BY <1>2, ResumeInv
<1>3. ASSUME NEW c \in Coro, Begin(c)
      PROVE  IInv'
  BY <1>3, BeginInv
<1>4. ASSUME NEW c \in Coro, ReadVertex(c)
      PROVE  IInv'
  BY <1>4, ReadVertexInv
<1>5. ASSUME NEW c \in Coro, ScanEdges(c)
      PROVE  IInv'
  BY <1>5, ScanEdgesInv
<1>6. ASSUME NEW c \in Coro, CheckParent(c)
      PROVE  IInv'
  BY <1>6, CheckParentInv
<1>7. CASE EndLevel
  BY <1>7, EndLevelInv
<1>8. CASE Finish
  BY <1>8, FinishInv
<1>9. CASE UNCHANGED vars
  BY <1>9, StutterInv
<1> QED
  BY <1>1, <1>2, <1>3, <1>4, <1>5, <1>6, <1>7, <1>8, <1>9 DEF Next

LEMMA Inductive == Spec => []IInv
BY InitInv, NextInv, PTL DEF Spec

------------------------------------------------------------------------------
\* bfs.cpp, mpbfs.cpp and threadbfs.cpp, every variable: no index ever leaves
\* its array, and neither queue outgrows its own.
THEOREM BfsTypeCorrect == Spec => []TypeOK
<1>1. IInv => TypeOK
  <2> SUFFICES ASSUME IInv
               PROVE  TypeOK
    OBVIOUS
  <2>1. edges \in EdgeLists /\ GraphTyped
    BY GraphFacts DEF IInv, GraphLaid
  <2>2. \A q \in {currentQ, nextQ} : q \in Seq(Vertex) /\ Len(q) <= vertexNum
    BY QueueFits, SizeAssumption DEF IInv, Frontier
  <2> QED
    BY <2>1, <2>2 DEF IInv, Frontier, Tasks, TypeOK, GraphTyped, Places
<1> QED
  BY <1>1, Inductive, PTL

\* getGraph(): the array and the offsets are the graph of the file, for every
\* file, and nothing the search does changes them.
THEOREM LayoutHoldsEdges == Spec => []LinkedListHoldsEdges
<1>1. IInv => LinkedListHoldsEdges
  BY HoldsEdges DEF IInv
<1> QED
  BY <1>1, Inductive, PTL

\* bfs(): every level is the layer of vertices at its distance, complete and
\* without repetition, in whichever order the tasks run.
THEOREM SearchIsBreadthFirst == Spec => []LevelsAreLayers
<1>1. IInv => LevelsAreLayers
  BY DEF IInv, Frontier, LevelsAreLayers
<1> QED
  BY <1>1, Inductive, PTL

\* spreadTask(): the tree it builds in parent[] is one of shortest paths.
THEOREM TreeIsShortest == Spec => []ShortestPathTree
<1>1. IInv => ShortestPathTree
  BY DEF IInv, Frontier
<1> QED
  BY <1>1, Inductive, PTL

\* The search finds everything: once it is done, the vertices with a parent are,
\* with the source, the smallest set that holds the source and is closed under
\* going to a neighbour the search looks at.
Found == {v \in Vertex : parent[v] # -1} \cup {source}
Closed(S) == source \in S /\ \A u \in S : Seen(u) \subseteq S
FoundAll ==
  main = "done" => /\ Closed(Found)
                   /\ \A S \in SUBSET Vertex : Closed(S) => Found \subseteq S

\* A closed set holds what is within any number of steps.
LEMMA WithinClosed ==
  ASSUME WithinSteps, NEW S, Closed(S)
  PROVE  \A n \in 0 .. vertexNum + 1 : Within[n] \subseteq S
<1>1. PICK T : T = {n \in 0 .. vertexNum + 1 : Within[n] \subseteq S}
  OBVIOUS
<1>2. 0 \in T
  BY <1>1, SizeAssumption DEF WithinSteps, Closed
<1>3. ASSUME NEW n \in 1 .. vertexNum + 1, n - 1 \in T
      PROVE  n \in T
  BY <1>1, <1>3 DEF WithinSteps, Closed
<1>4. 0 .. vertexNum + 1 \subseteq T
  <2>1. vertexNum + 1 \in Nat
    BY SizeAssumption
  <2> QED
    BY <1>2, <1>3, <2>1, UpTo
<1> QED
  BY <1>1, <1>4

\* bfs(): the loop ends at a level without vertices; no vertex is left behind
\* that could have been reached, however far away it is.
THEOREM SearchFindsAll == Spec => []FoundAll
<1>1. ASSUME IInv, main = "done"
      PROVE  /\ Closed(Found)
             /\ \A S \in SUBSET Vertex : Closed(S) => Found \subseteq S
  <2>1. WithinSteps /\ level \in 0 .. vertexNum + 1 /\ ShortestPathTree
    BY <1>1, GraphFacts, WithinUnfolds, SizeAssumption DEF IInv, Frontier
  <2>2. Members(<< >>) = {}
    BY DEF Members
  <2>3. Layer(level) = {} /\ Members(nextQ) = {}
    BY <1>1, <2>2 DEF IInv, Frontier, Tasks
  <2>4. source \in Within[level]
    BY <2>1, WithinGrows
  <2>5. Found = Within[level]
    BY <2>1, <2>3, <2>4 DEF Found, ShortestPathTree
  <2>6. level # 0
    BY <2>3 DEF Layer
  <2>7. Within[level] = Within[level - 1]
    <3>1. Within[level] = Within[level - 1] \cup Layer(level)
      BY <2>1, <2>6, LayerFacts
    <3> QED
      BY <2>3, <3>1
  <2>8. Within[level] = Within[level - 1] \cup UNION {Seen(u) : u \in Within[level - 1]}
    <3>1. level \in 1 .. vertexNum + 1
      BY <2>1, <2>6
    <3> QED
      BY <2>1, <3>1 DEF WithinSteps
  <2>9. Closed(Found)
    BY <2>4, <2>5, <2>7, <2>8 DEF Closed
  <2>10. ASSUME NEW S \in SUBSET Vertex, Closed(S)
         PROVE  Found \subseteq S
    BY <2>1, <2>5, <2>10, WithinClosed
  <2> QED
    BY <2>9, <2>10
<1>2. IInv => FoundAll
  BY <1>1 DEF FoundAll
<1> QED
  BY <1>2, Inductive, PTL
------------------------------------------------------------------------------
\* The two searches without tasks.  What a search has found, as threadbfs keeps
\* it while it is at a level.
Finding == [parent : [Vertex -> Vertex \cup {-1}], nextQ : Seq(Vertex)]

LEMMA VisitType ==
  ASSUME NEW u \in Vertex, NEW f \in Finding, NEW v \in Vertex
  PROVE  Visit(u, f, v) \in Finding
<1>1. Append(f.nextQ, v) \in Seq(Vertex)
  BY DEF Finding
<1>2. [f.parent EXCEPT ![v] = u] \in [Vertex -> Vertex \cup {-1}]
  BY DEF Finding
<1> QED
  BY <1>1, <1>2 DEF Visit, Finding

\* A fold is the last of the values it goes through: the one of visits to
\* neighbours, ...
VisitsAlong(u, f, n, seq, h) ==
  h[0] = f /\ \A k \in 1 .. n : h[k] = Visit(u, h[k - 1], seq[k])

LEMMA VisitsFold ==
  ASSUME NEW u \in Vertex, NEW f \in Finding, NEW n \in Nat, NEW seq \in [1 .. n -> Vertex]
  PROVE  \E h \in [0 .. n -> Finding] :
           /\ VisitsAlong(u, f, n, seq, h)
           /\ FoldLeft(LAMBDA r, v : Visit(u, r, v), f, seq) = h[n]
<1>1. PICK step : step = [p \in Finding \X (1 .. n) |-> Visit(u, p[1], seq[p[2]])]
  OBVIOUS
<1>2. \A r \in Finding : \A k \in 1 .. n :
        step[<<r, k>>] = Visit(u, r, seq[k]) /\ step[<<r, k>>] \in Finding
  BY <1>1, VisitType
<1>3. Folding(n, Finding, f, step)
  <2>1. step \in [Finding \X (1 .. n) -> Finding]
    BY <1>1, <1>2
  <2> QED
    BY <2>1 DEF Folding
<1>4. PICK g \in [SUBSET (1 .. n) -> Finding] : FoldsParts(n, f, step, g)
  BY <1>3, FoldsExist
<1>5. PICK it : it = CHOOSE i : i = [s \in SUBSET (1 .. n) |->
                       IF s = {} THEN f ELSE Visit(u, i[s \ {Max(s)}], seq[Max(s)])]
  OBVIOUS
<1>6. \A s : Max(s) = LastOf(s)
  BY DEF Max, LastOf
<1>7. g = [s \in SUBSET (1 .. n) |->
             IF s = {} THEN f ELSE Visit(u, g[s \ {Max(s)}], seq[Max(s)])]
  <2>1. g = [s \in SUBSET (1 .. n) |->
               IF s = {} THEN f ELSE step[<<g[s \ {LastOf(s)}], LastOf(s)>>]]
    BY <1>4 DEF FoldsParts
  <2>2. ASSUME NEW s \in SUBSET (1 .. n), s # {}
        PROVE  step[<<g[s \ {LastOf(s)}], LastOf(s)>>] = Visit(u, g[s \ {Max(s)}], seq[Max(s)])
    <3>1. LastOf(s) \in 1 .. n /\ g[s \ {LastOf(s)}] \in Finding
      BY <2>2, LastNumber
    <3> QED
      BY <1>2, <1>6, <3>1
  <2> QED
    BY <2>1, <2>2
<1>8. it = [s \in SUBSET (1 .. n) |->
              IF s = {} THEN f ELSE Visit(u, it[s \ {Max(s)}], seq[Max(s)])]
  BY <1>5, <1>7
<1>9. PICK h \in [0 .. n -> Finding] : FoldsAlong(n, f, step, h)
  BY <1>4, FoldsInOrder
<1>10. VisitsAlong(u, f, n, seq, h)
  <2>1. ASSUME NEW k \in 1 .. n
        PROVE  h[k] = Visit(u, h[k - 1], seq[k])
    <3>1. h[k - 1] \in Finding
      <4>1. k - 1 \in 0 .. n
        OBVIOUS
      <4> QED
        BY <4>1
    <3> QED
      BY <1>2, <1>9, <3>1 DEF FoldsAlong
  <2> QED
    BY <1>9, <2>1 DEF FoldsAlong, VisitsAlong
<1>11. it[{}] = h[0]
  BY <1>8, <1>10 DEF VisitsAlong
<1>12. ASSUME NEW k \in 1 .. n, it[1 .. k - 1] = h[k - 1]
       PROVE  it[1 .. k] = h[k]
  <2>1. /\ 1 .. k # {} /\ 1 .. k \in SUBSET (1 .. n)
        /\ Max(1 .. k) = k /\ (1 .. k) \ {k} = 1 .. k - 1
    BY <1>6, LastOfInterval
  <2>2. it[1 .. k] = Visit(u, it[1 .. k - 1], seq[k])
    BY <1>8, <2>1
  <2> QED
    BY <1>10, <1>12, <2>2 DEF VisitsAlong
<1>13. it[1 .. n] = h[n]
  BY <1>11, <1>12, SameFold
<1>14. FoldLeft(LAMBDA r, v : Visit(u, r, v), f, seq) = it[1 .. n]
  <2>1. DOMAIN seq = 1 .. n
    OBVIOUS
  <2> QED
    BY <1>5, <2>1 DEF FoldLeft, MapThenFoldSet
<1> QED
  BY <1>10, <1>13, <1>14

\* The neighbours a loop goes through are a sequence of vertices.
LEMMA NeighboursFacts ==
  ASSUME GraphTyped, NEW from \in Int, NEW to \in Int,
         from .. to - 1 \subseteq 0 .. 2 * edgeNum - 1
  PROVE  \E n \in Nat :
           /\ Neighbours(from, to) \in [1 .. n -> Vertex]
           /\ {Neighbours(from, to)[k] : k \in 1 .. n} = {linkedList[j] : j \in from .. to - 1}
<1>1. PICK n \in Nat : 1 .. to - from = 1 .. n /\ (from .. to - 1 # {} => n = to - from)
  <2>1. CASE to - from \in Nat
    BY <2>1
  <2>2. CASE to - from \notin Nat
    <3>1. 1 .. to - from = 1 .. 0 /\ from .. to - 1 = {} /\ 0 \in Nat
      BY <2>2
    <3> QED
      BY <3>1
  <2> QED
    BY <2>1, <2>2
<1>2. PICK seq : seq = Neighbours(from, to)
  OBVIOUS
<1>3. seq = [k \in 1 .. n |-> linkedList[from + k - 1]]
  BY <1>1, <1>2 DEF Neighbours
<1>4. \A k \in 1 .. n : from + k - 1 \in from .. to - 1
  BY <1>1
<1>5. \A j \in from .. to - 1 : j - from + 1 \in 1 .. n /\ from + (j - from + 1) - 1 = j
  BY <1>1
<1>6. seq \in [1 .. n -> Vertex]
  <2>1. \A k \in 1 .. n : linkedList[from + k - 1] \in Vertex
    BY <1>4 DEF GraphTyped
  <2> QED
    BY <1>3, <2>1
<1>7. {seq[k] : k \in 1 .. n} = {linkedList[j] : j \in from .. to - 1}
  BY <1>3, <1>4, <1>5
<1> QED
  BY <1>2, <1>6, <1>7

\* The vertices a search has found, when it has come to level W.
Claims(f) == {source} \cup {v \in Vertex : f.parent[v] # -1}
Good(f, W) ==
  /\ f \in Finding
  /\ f.parent[source] = -1
  /\ Distinct(f.nextQ)
  /\ source \in W
  /\ W \cap Members(f.nextQ) = {}
  /\ Claims(f) = W \cup Members(f.nextQ)

LEMMA VisitGood ==
  ASSUME NEW W, NEW f, Good(f, W), NEW u \in Vertex, NEW v \in Vertex
  PROVE  Good(Visit(u, f, v), W) /\ Claims(Visit(u, f, v)) = Claims(f) \cup {v}
<1>1. /\ f.parent \in [Vertex -> Vertex \cup {-1}] /\ f.nextQ \in Seq(Vertex)
      /\ Distinct(f.nextQ) /\ f.parent[source] = -1
      /\ source \in W /\ W \cap Members(f.nextQ) = {} /\ Claims(f) = W \cup Members(f.nextQ)
  BY DEF Good, Finding
<1>2. CASE v = source \/ f.parent[v] # -1
  <2>1. Visit(u, f, v) = f
    BY <1>2 DEF Visit
  <2>2. v \in Claims(f)
    BY <1>2 DEF Claims
  <2> QED
    BY <2>1, <2>2
<1>3. CASE v # source /\ f.parent[v] = -1
  <2>1. PICK r : r = Visit(u, f, v)
    OBVIOUS
  <2>2. /\ r.parent = [f.parent EXCEPT ![v] = u] /\ r.nextQ = Append(f.nextQ, v)
        /\ r \in Finding
    BY <1>3, <2>1, VisitType DEF Visit, Good
  <2>3. v \notin Claims(f)
    BY <1>3 DEF Claims
  <2>4. /\ Members(r.nextQ) = Members(f.nextQ) \cup {v} /\ Distinct(r.nextQ)
    BY <1>1, <2>2, <2>3, AppendMembers
  <2>5. u # -1
    BY SizeAssumption DEF Vertex
  <2>6. \A w \in Vertex : r.parent[w] # -1 <=> w = v \/ f.parent[w] # -1
    BY <1>1, <2>2, <2>5
  <2>7. Claims(r) = Claims(f) \cup {v}
    BY <2>6 DEF Claims
  <2>8. r.parent[source] = -1
    BY <1>1, <1>3, <2>2, SourceAssumption
  <2>9. Good(r, W)
    BY <1>1, <2>2, <2>3, <2>4, <2>7, <2>8 DEF Good
  <2> QED
    BY <2>1, <2>7, <2>9
<1> QED
  BY <1>2, <1>3

\* spreadTask() of threadbfs goes through the neighbours of u one by one.
LEMMA VertexVisits ==
  ASSUME GraphTyped, NEW f \in Finding, NEW u \in Vertex
  PROVE  \E n \in Nat : \E seq \in [1 .. n -> Vertex] : \E h \in [0 .. n -> Finding] :
           /\ {seq[k] : k \in 1 .. n} = Seen(u)
           /\ VisitsAlong(u, f, n, seq, h)
           /\ VisitVertex(f, u) = h[n]
<1>1. PICK from, to : from = vertexIndex[u] /\ to = nextVertexIndex(u)
  OBVIOUS
<1>2. /\ from \in Int /\ to \in Int /\ Row(vertexIndex, u) = from .. to - 1
      /\ from .. to - 1 \subseteq 0 .. 2 * edgeNum - 1
  <2>1. Row(vertexIndex, u) = from .. to - 1
    BY <1>1 DEF Row, nextVertexIndex
  <2>2. vertexIndex[u] \in Int
    BY DEF GraphTyped
  <2>3. nextVertexIndex(u) \in Int
    <3>1. u + 1 < vertexNum => u + 1 \in Vertex
      BY SizeAssumption DEF Vertex
    <3>2. u + 1 < vertexNum => vertexIndex[u + 1] \in Int
      BY <3>1 DEF GraphTyped
    <3> QED
      BY <3>2, SizeAssumption DEF nextVertexIndex
  <2> QED
    BY <1>1, <2>1, <2>2, <2>3 DEF GraphTyped
<1>3. PICK n \in Nat : /\ Neighbours(from, to) \in [1 .. n -> Vertex]
                       /\ {Neighbours(from, to)[k] : k \in 1 .. n}
                          = {linkedList[j] : j \in from .. to - 1}
  BY <1>2, NeighboursFacts
<1>4. PICK seq : seq = Neighbours(from, to)
  OBVIOUS
<1>5. seq \in [1 .. n -> Vertex] /\ {seq[k] : k \in 1 .. n} = Seen(u)
  BY <1>2, <1>3, <1>4, SeenFacts
<1>6. PICK h \in [0 .. n -> Finding] :
        /\ VisitsAlong(u, f, n, seq, h)
        /\ FoldLeft(LAMBDA r, v : Visit(u, r, v), f, seq) = h[n]
  BY <1>5, VisitsFold
<1>7. VisitVertex(f, u) = h[n]
  BY <1>1, <1>4, <1>6 DEF VisitVertex
<1> QED
  BY <1>5, <1>6, <1>7

\* It has looked at all of them.
LEMMA VisitVertexGood ==
  ASSUME GraphTyped, NEW W, NEW f, Good(f, W), NEW u \in Vertex
  PROVE  /\ Good(VisitVertex(f, u), W)
         /\ Claims(VisitVertex(f, u)) = Claims(f) \cup Seen(u)
<1>1. f \in Finding
  BY DEF Good
<1>2. PICK n \in Nat : \E seq \in [1 .. n -> Vertex] : \E h \in [0 .. n -> Finding] :
        /\ {seq[k] : k \in 1 .. n} = Seen(u)
        /\ VisitsAlong(u, f, n, seq, h)
        /\ VisitVertex(f, u) = h[n]
  BY <1>1, VertexVisits
<1>3. PICK seq \in [1 .. n -> Vertex] : \E h \in [0 .. n -> Finding] :
        /\ {seq[k] : k \in 1 .. n} = Seen(u)
        /\ VisitsAlong(u, f, n, seq, h)
        /\ VisitVertex(f, u) = h[n]
  BY <1>2
<1>4. PICK h \in [0 .. n -> Finding] :
        /\ {seq[k] : k \in 1 .. n} = Seen(u)
        /\ VisitsAlong(u, f, n, seq, h)
        /\ VisitVertex(f, u) = h[n]
  BY <1>3
<1>5. PICK T : T = {k \in 0 .. n : /\ Good(h[k], W)
                                   /\ Claims(h[k]) = Claims(f) \cup {seq[l] : l \in 1 .. k}}
  OBVIOUS
<1>6. 0 \in T
  <2>1. {seq[l] : l \in 1 .. 0} = {} /\ 0 \in 0 .. n
    OBVIOUS
  <2> QED
    BY <1>4, <1>5, <2>1 DEF VisitsAlong
<1>7. ASSUME NEW k \in 1 .. n, k - 1 \in T
       PROVE  k \in T
  <2>1. Good(h[k - 1], W) /\ Claims(h[k - 1]) = Claims(f) \cup {seq[l] : l \in 1 .. k - 1}
    BY <1>5, <1>7
  <2>2. seq[k] \in Vertex /\ h[k] = Visit(u, h[k - 1], seq[k])
    BY <1>4 DEF VisitsAlong
  <2>3. Good(h[k], W) /\ Claims(h[k]) = Claims(h[k - 1]) \cup {seq[k]}
    BY <2>1, <2>2, VisitGood
  <2>4. {seq[l] : l \in 1 .. k} = {seq[l] : l \in 1 .. k - 1} \cup {seq[k]}
    <3>1. \A l : l \in 1 .. k <=> l \in 1 .. k - 1 \/ l = k
      OBVIOUS
    <3> QED
      BY <3>1
  <2> QED
    BY <1>5, <2>1, <2>3, <2>4
<1>8. n \in T
  <2>1. 0 .. n \subseteq T
    BY <1>6, <1>7, UpTo
  <2> QED
    BY <2>1
<1> QED
  BY <1>4, <1>5, <1>8

LEMMA VisitVertexType ==
  ASSUME GraphTyped, NEW f \in Finding, NEW u \in Vertex
  PROVE  VisitVertex(f, u) \in Finding
<1>1. PICK n \in Nat : \E seq \in [1 .. n -> Vertex] : \E h \in [0 .. n -> Finding] :
        VisitVertex(f, u) = h[n]
  BY VertexVisits
<1> QED
  BY <1>1

\* A level goes through its vertices in the same way.
LevelAlong(f, n, seq, h) ==
  h[0] = f /\ \A k \in 1 .. n : h[k] = VisitVertex(h[k - 1], seq[k])

LEMMA LevelFolds ==
  ASSUME GraphTyped, NEW f \in Finding, NEW n \in Nat, NEW seq \in [1 .. n -> Vertex]
  PROVE  \E h \in [0 .. n -> Finding] :
           /\ LevelAlong(f, n, seq, h)
           /\ FoldLeft(VisitVertex, f, seq) = h[n]
<1>1. PICK step : step = [p \in Finding \X (1 .. n) |-> VisitVertex(p[1], seq[p[2]])]
  OBVIOUS
<1>2. \A r \in Finding : \A k \in 1 .. n :
        step[<<r, k>>] = VisitVertex(r, seq[k]) /\ step[<<r, k>>] \in Finding
  BY <1>1, VisitVertexType
<1>3. Folding(n, Finding, f, step)
  <2>1. step \in [Finding \X (1 .. n) -> Finding]
    BY <1>1, <1>2
  <2> QED
    BY <2>1 DEF Folding
<1>4. PICK g \in [SUBSET (1 .. n) -> Finding] : FoldsParts(n, f, step, g)
  BY <1>3, FoldsExist
<1>5. PICK it : it = CHOOSE i : i = [s \in SUBSET (1 .. n) |->
                       IF s = {} THEN f ELSE VisitVertex(i[s \ {Max(s)}], seq[Max(s)])]
  OBVIOUS
<1>6. \A s : Max(s) = LastOf(s)
  BY DEF Max, LastOf
<1>7. g = [s \in SUBSET (1 .. n) |->
             IF s = {} THEN f ELSE VisitVertex(g[s \ {Max(s)}], seq[Max(s)])]
  <2>1. g = [s \in SUBSET (1 .. n) |->
               IF s = {} THEN f ELSE step[<<g[s \ {LastOf(s)}], LastOf(s)>>]]
    BY <1>4 DEF FoldsParts
  <2>2. ASSUME NEW s \in SUBSET (1 .. n), s # {}
        PROVE  step[<<g[s \ {LastOf(s)}], LastOf(s)>>] = VisitVertex(g[s \ {Max(s)}], seq[Max(s)])
    <3>1. LastOf(s) \in 1 .. n /\ g[s \ {LastOf(s)}] \in Finding
      BY <2>2, LastNumber
    <3> QED
      BY <1>2, <1>6, <3>1
  <2> QED
    BY <2>1, <2>2
<1>8. it = [s \in SUBSET (1 .. n) |->
              IF s = {} THEN f ELSE VisitVertex(it[s \ {Max(s)}], seq[Max(s)])]
  BY <1>5, <1>7
<1>9. PICK h \in [0 .. n -> Finding] : FoldsAlong(n, f, step, h)
  BY <1>4, FoldsInOrder
<1>10. LevelAlong(f, n, seq, h)
  <2>1. ASSUME NEW k \in 1 .. n
        PROVE  h[k] = VisitVertex(h[k - 1], seq[k])
    <3>1. h[k - 1] \in Finding
      <4>1. k - 1 \in 0 .. n
        OBVIOUS
      <4> QED
        BY <4>1
    <3> QED
      BY <1>2, <1>9, <3>1 DEF FoldsAlong
  <2> QED
    BY <1>9, <2>1 DEF FoldsAlong, LevelAlong
<1>11. it[{}] = h[0]
  BY <1>8, <1>10 DEF LevelAlong
<1>12. ASSUME NEW k \in 1 .. n, it[1 .. k - 1] = h[k - 1]
       PROVE  it[1 .. k] = h[k]
  <2>1. /\ 1 .. k # {} /\ 1 .. k \in SUBSET (1 .. n)
        /\ Max(1 .. k) = k /\ (1 .. k) \ {k} = 1 .. k - 1
    BY <1>6, LastOfInterval
  <2>2. it[1 .. k] = VisitVertex(it[1 .. k - 1], seq[k])
    BY <1>8, <2>1
  <2> QED
    BY <1>10, <1>12, <2>2 DEF LevelAlong
<1>13. it[1 .. n] = h[n]
  BY <1>11, <1>12, SameFold
<1>14. FoldLeft(VisitVertex, f, seq) = it[1 .. n]
  <2>1. DOMAIN seq = 1 .. n
    OBVIOUS
  <2> QED
    BY <1>5, <2>1 DEF FoldLeft, MapThenFoldSet
<1> QED
  BY <1>10, <1>13, <1>14

\* A level has been searched.
LEMMA LevelGood ==
  ASSUME GraphTyped, NEW W, NEW f, Good(f, W), NEW q \in Seq(Vertex)
  PROVE  /\ Good(FoldLeft(VisitVertex, f, q), W)
         /\ Claims(FoldLeft(VisitVertex, f, q))
            = Claims(f) \cup UNION {Seen(u) : u \in Members(q)}
<1>1. PICK n \in Nat : n = Len(q)
  OBVIOUS
<1>2. q \in [1 .. n -> Vertex] /\ Members(q) = {q[k] : k \in 1 .. n}
  BY <1>1 DEF Members
<1>3. f \in Finding
  BY DEF Good
<1>4. PICK h \in [0 .. n -> Finding] :
        LevelAlong(f, n, q, h) /\ FoldLeft(VisitVertex, f, q) = h[n]
  BY <1>2, <1>3, LevelFolds
<1>5. PICK T : T = {k \in 0 .. n :
                      /\ Good(h[k], W)
                      /\ Claims(h[k]) = Claims(f) \cup UNION {Seen(q[l]) : l \in 1 .. k}}
  OBVIOUS
<1>6. 0 \in T
  <2>1. UNION {Seen(q[l]) : l \in 1 .. 0} = {} /\ 0 \in 0 .. n
    OBVIOUS
  <2> QED
    BY <1>4, <1>5, <2>1 DEF LevelAlong
<1>7. ASSUME NEW k \in 1 .. n, k - 1 \in T
       PROVE  k \in T
  <2>1. /\ Good(h[k - 1], W)
        /\ Claims(h[k - 1]) = Claims(f) \cup UNION {Seen(q[l]) : l \in 1 .. k - 1}
    BY <1>5, <1>7
  <2>2. q[k] \in Vertex /\ h[k] = VisitVertex(h[k - 1], q[k])
    BY <1>2, <1>4 DEF LevelAlong
  <2>3. Good(h[k], W) /\ Claims(h[k]) = Claims(h[k - 1]) \cup Seen(q[k])
    BY <2>1, <2>2, VisitVertexGood
  <2>4. UNION {Seen(q[l]) : l \in 1 .. k}
        = UNION {Seen(q[l]) : l \in 1 .. k - 1} \cup Seen(q[k])
    <3>1. \A l : l \in 1 .. k <=> l \in 1 .. k - 1 \/ l = k
      OBVIOUS
    <3> QED
      BY <3>1
  <2> QED
    BY <1>5, <2>1, <2>3, <2>4
<1>8. n \in T
  <2>1. 0 .. n \subseteq T
    BY <1>6, <1>7, UpTo
  <2> QED
    BY <2>1
<1>9. UNION {Seen(q[l]) : l \in 1 .. n} = UNION {Seen(u) : u \in Members(q)}
  BY <1>2
<1> QED
  BY <1>4, <1>5, <1>8, <1>9

\* The levels of threadbfs.
Level == [parent : [Vertex -> Vertex \cup {-1}], currentQ : Seq(Vertex)]
NextLevel(x) ==
  LET found == FoldLeft(VisitVertex, [parent |-> x.parent, nextQ |-> << >>], x.currentQ)
  IN [parent |-> found.parent, currentQ |-> found.nextQ]

LEMMA NextLevelType ==
  ASSUME GraphTyped, NEW x \in Level
  PROVE  /\ [parent |-> x.parent, nextQ |-> << >>] \in Finding
         /\ NextLevel(x) \in Level
<1>1. PICK f : f = [parent |-> x.parent, nextQ |-> << >>]
  OBVIOUS
<1>2. f \in Finding
  BY <1>1 DEF Finding, Level
<1>3. PICK n \in Nat : n = Len(x.currentQ) /\ x.currentQ \in [1 .. n -> Vertex]
  BY DEF Level
<1>4. PICK h \in [0 .. n -> Finding] : FoldLeft(VisitVertex, f, x.currentQ) = h[n]
  BY <1>2, <1>3, LevelFolds
<1>5. FoldLeft(VisitVertex, f, x.currentQ) \in Finding
  BY <1>4
<1> QED
  BY <1>1, <1>2, <1>5 DEF NextLevel, Finding, Level

\* bfs() of threadbfs goes from level to level.
FirstLevel == [parent |-> NoParent, currentQ |-> <<source>>]
LevelsFrom(m, b) == b[0] = FirstLevel /\ \A n \in 1 .. m : b[n] = NextLevel(b[n - 1])

LEMMA ThreadbfsUnfolds ==
  ASSUME GraphTyped, NEW m \in Nat
  PROVE  \E b \in [0 .. m -> Level] : LevelsFrom(m, b) /\ threadbfs(m) = b[m]
<1>1. FirstLevel \in Level
  BY SourceAssumption DEF FirstLevel, Level, NoParent
<1>2. PICK next : next = [x \in Level |-> NextLevel(x)]
  OBVIOUS
<1>3. next \in [Level -> Level]
  BY <1>2, NextLevelType
<1>4. PICK f \in [0 .. m -> Level] : Iterates(m, FirstLevel, next, f)
  BY <1>1, <1>3, IterateUpTo
<1>5. LevelsFrom(m, f)
  <2>1. ASSUME NEW n \in 1 .. m
        PROVE  f[n] = NextLevel(f[n - 1])
    <3>1. f[n - 1] \in Level
      <4>1. n - 1 \in 0 .. m
        OBVIOUS
      <4> QED
        BY <4>1
    <3> QED
      BY <1>2, <1>4, <3>1 DEF Iterates
  <2> QED
    BY <1>4, <2>1 DEF Iterates, LevelsFrom
<1>6. PICK b : b = CHOOSE c : c =
         [n \in 0 .. m |-> IF n = 0 THEN FirstLevel ELSE NextLevel(c[n - 1])]
  OBVIOUS
<1>7. f = [n \in 0 .. m |-> IF n = 0 THEN FirstLevel ELSE NextLevel(f[n - 1])]
  <2>1. \A n \in 0 .. m : n # 0 => n \in 1 .. m
    OBVIOUS
  <2>2. f = [n \in 0 .. m |-> f[n]]
    OBVIOUS
  <2> QED
    BY <1>5, <2>1, <2>2 DEF LevelsFrom
<1>8. b = [n \in 0 .. m |-> IF n = 0 THEN FirstLevel ELSE NextLevel(b[n - 1])]
  BY <1>6, <1>7
<1>9. threadbfs(m) = b[m]
  BY <1>6 DEF threadbfs, FirstLevel, NextLevel
<1>10. b = f
  <2>1. b = [n \in 0 .. m |-> b[n]] /\ f = [n \in 0 .. m |-> f[n]] /\ b[0] = f[0]
    BY <1>7, <1>8
  <2>2. ASSUME NEW n \in 1 .. m, b[n - 1] = f[n - 1]
        PROVE  b[n] = f[n]
    <3>1. n \in 0 .. m /\ n # 0
      OBVIOUS
    <3>2. b[n] = NextLevel(b[n - 1])
      BY <1>8, <3>1
    <3> QED
      BY <1>5, <2>2, <3>2 DEF LevelsFrom
  <2>3. AgreeStepwise(m, b, f)
    BY <2>1, <2>2 DEF AgreeStepwise
  <2> QED
    BY <2>3, SameUpTo
<1> QED
  BY <1>5, <1>9, <1>10

\* A level of threadbfs is the layer at its distance, and what it has found by
\* then is what is within that distance.
IsLayer(x, n) ==
  /\ x \in Level
  /\ Distinct(x.currentQ)
  /\ Members(x.currentQ) = Layer(n)
  /\ x.parent[source] = -1
  /\ {source} \cup {v \in Vertex : x.parent[v] # -1} = Within[n]

LEMMA SeenByEarlier ==
  ASSUME WithinSteps, NEW n \in 0 .. vertexNum
  PROVE  Within[n + 1] = Within[n] \cup UNION {Seen(u) : u \in Layer(n)}
<1>1. n + 1 \in 1 .. vertexNum + 1 /\ (n + 1) - 1 = n
  BY SizeAssumption
<1>2. Within[n + 1] = Within[n] \cup UNION {Seen(u) : u \in Within[n]}
  BY <1>1 DEF WithinSteps
<1>3. CASE n = 0
  BY <1>2, <1>3 DEF WithinSteps, Layer
<1>4. CASE n # 0
  <2>1. n \in 1 .. vertexNum + 1 /\ n \in 0 .. vertexNum + 1
    BY <1>4, SizeAssumption
  <2>2. \A u \in Within[n - 1] : Seen(u) \subseteq Within[n]
    BY <2>1 DEF WithinSteps
  <2>3. Within[n] = Within[n - 1] \cup Layer(n)
    BY <1>4, <2>1, LayerFacts
  <2> QED
    BY <1>2, <2>2, <2>3
<1> QED
  BY <1>3, <1>4

LEMMA NextLayer ==
  ASSUME GraphTyped, WithinSteps, NEW n \in 0 .. vertexNum, NEW x, IsLayer(x, n)
  PROVE  IsLayer(NextLevel(x), n + 1)
<1>1. PICK f : f = [parent |-> x.parent, nextQ |-> << >>]
  OBVIOUS
<1>2. PICK W : W = Within[n]
  OBVIOUS
<1>3. /\ f \in Finding /\ NextLevel(x) \in Level
      /\ x.currentQ \in Seq(Vertex) /\ Members(x.currentQ) = Layer(n)
  BY <1>1, NextLevelType DEF IsLayer, Level
<1>4. Good(f, W) /\ Claims(f) = W
  <2>1. Members(<< >>) = {} /\ Distinct(<< >>)
    BY DEF Members, Distinct
  <2>2. Claims(f) = W
    BY <1>1, <1>2 DEF Claims, IsLayer
  <2>3. source \in W
    BY <2>2 DEF Claims
  <2> QED
    BY <1>1, <1>3, <2>1, <2>2, <2>3 DEF Good, IsLayer
<1>5. PICK g : g = FoldLeft(VisitVertex, f, x.currentQ)
  OBVIOUS
<1>6. Good(g, W) /\ Claims(g) = W \cup UNION {Seen(u) : u \in Layer(n)}
  BY <1>3, <1>4, <1>5, LevelGood
<1>7. NextLevel(x) = [parent |-> g.parent, currentQ |-> g.nextQ]
  BY <1>1, <1>5 DEF NextLevel
<1>8. Claims(g) = Within[n + 1]
  BY <1>2, <1>6, SeenByEarlier
<1>9. Layer(n + 1) = Within[n + 1] \ Within[n]
  <2>1. n + 1 # 0 /\ (n + 1) - 1 = n
    OBVIOUS
  <2> QED
    BY <2>1 DEF Layer
<1>10. Members(g.nextQ) = Layer(n + 1)
  BY <1>2, <1>6, <1>8, <1>9 DEF Good
<1> QED
  BY <1>3, <1>6, <1>7, <1>8, <1>10 DEF IsLayer, Good, Claims

\* threadbfs is breadth-first.
LEMMA ThreadbfsLayers ==
  ASSUME GraphTyped, WithinSteps, NEW m \in 0 .. vertexNum
  PROVE  IsLayer(threadbfs(m), m)
<1>0. m \in Nat /\ vertexNum \in Nat
  BY SizeAssumption
<1>1. PICK b \in [0 .. m -> Level] : LevelsFrom(m, b) /\ threadbfs(m) = b[m]
  BY <1>0, ThreadbfsUnfolds
<1>2. PICK T : T = {n \in 0 .. m : IsLayer(b[n], n)}
  OBVIOUS
<1>3. 0 \in T
  <2>1. b[0] = [parent |-> NoParent, currentQ |-> <<source>>] /\ b[0] \in Level /\ 0 \in 0 .. m
    BY <1>1 DEF LevelsFrom, FirstLevel
  <2>2. Distinct(<<source>>) /\ Members(<<source>>) = {source}
    BY DEF Distinct, Members
  <2>3. /\ \A v \in Vertex : NoParent[v] = -1
        /\ Layer(0) = {source} /\ Within[0] = {source}
    BY DEF NoParent, Layer, WithinSteps
  <2>4. b[0].parent = NoParent /\ b[0].currentQ = <<source>>
    BY <2>1
  <2>5. {source} \cup {v \in Vertex : b[0].parent[v] # -1} = Within[0]
    BY <2>3, <2>4
  <2>6. IsLayer(b[0], 0)
    BY <2>1, <2>2, <2>3, <2>4, <2>5, SourceAssumption DEF IsLayer
  <2> QED
    BY <1>2, <2>1, <2>6
<1>4. ASSUME NEW n \in 1 .. m, n - 1 \in T
      PROVE  n \in T
  <2>1. IsLayer(b[n - 1], n - 1) /\ n - 1 \in 0 .. vertexNum /\ (n - 1) + 1 = n /\ n \in 0 .. m
    BY <1>0, <1>2, <1>4
  <2>2. b[n] = NextLevel(b[n - 1])
    BY <1>1 DEF LevelsFrom
  <2>3. IsLayer(b[n], (n - 1) + 1)
    BY <2>1, <2>2, NextLayer
  <2> QED
    BY <1>2, <2>1, <2>3
<1>5. m \in T
  <2>1. 0 .. m \subseteq T
    BY <1>0, <1>3, <1>4, UpTo
  <2> QED
    BY <1>0, <2>1
<1> QED
  BY <1>1, <1>2, <1>5

\* A queue without repetition is as long as it has members.
LEMMA DistinctLength ==
  ASSUME NEW q \in Seq(Vertex), Distinct(q)
  PROVE  Len(q) = Cardinality(Members(q))
<1>1. PICK n \in Nat : n = Len(q)
  OBVIOUS
<1>2. q \in [1 .. n -> Members(q)] /\ \A w \in Members(q) : \E k \in 1 .. n : q[k] = w
  BY <1>1 DEF Members
<1>3. q \in Surjection(1 .. n, Members(q)) /\ q \in Injection(1 .. n, Members(q))
  BY <1>1, <1>2 DEF Distinct, Surjection, Injection, IsInjective
<1>4. IsFiniteSet(1 .. n) /\ Cardinality(1 .. n) = n
  <2>1. 1 \in Int /\ n \in Int /\ (IF 1 > n THEN 0 ELSE n - 1 + 1) = n
    OBVIOUS
  <2> QED
    BY <2>1, FS_Interval
<1> QED
  BY <1>1, <1>3, <1>4, FS_Surjection

\* bfs.cpp and threadbfs.cpp: at the start of every level the search with tasks
\* has the vertices that the search without tasks has, in whichever order the
\* tasks ran and however many they were.
THEOREM AgreesWithThreadbfs == Spec => []FindsWhatThreadbfsFinds
<1>1. ASSUME IInv, main = "level"
      PROVE  /\ ToSet(currentQ) = ToSet(threadbfs(level).currentQ)
             /\ Len(currentQ) = Len(threadbfs(level).currentQ)
             /\ \A v \in Vertex : parent[v] = -1 <=> threadbfs(level).parent[v] = -1
  <2>1. /\ GraphTyped /\ WithinSteps /\ level \in 0 .. vertexNum
        /\ currentQ \in Seq(Vertex) /\ Distinct(currentQ) /\ Members(currentQ) = Layer(level)
        /\ ShortestPathTree
    BY <1>1, GraphFacts, WithinUnfolds DEF IInv, Frontier
  <2>2. PICK x : x = threadbfs(level)
    OBVIOUS
  <2>3. IsLayer(x, level)
    BY <2>1, <2>2, ThreadbfsLayers
  <2>4. \A q \in Seq(Vertex) : ToSet(q) = Members(q)
    BY DEF ToSet, Members
  <2>5. x.currentQ \in Seq(Vertex) /\ Distinct(x.currentQ) /\ Members(x.currentQ) = Layer(level)
    BY <2>3 DEF IsLayer, Level
  <2>6. Len(currentQ) = Len(x.currentQ)
    BY <2>1, <2>5, DistinctLength
  <2>7. {v \in Vertex : parent[v] # -1} = Within[level] \ {source}
    <3>1. nextQ = << >> /\ Members(<< >>) = {}
      BY <1>1 DEF IInv, Tasks, Members
    <3> QED
      BY <2>1, <3>1 DEF ShortestPathTree
  <2>8. {v \in Vertex : x.parent[v] # -1} = Within[level] \ {source}
    BY <2>3 DEF IsLayer
  <2>9. \A v \in Vertex : parent[v] = -1 <=> x.parent[v] = -1
    BY <2>7, <2>8
  <2> QED
    BY <2>1, <2>2, <2>4, <2>5, <2>6, <2>9
<1>2. IInv => FindsWhatThreadbfsFinds
  BY <1>1 DEF FindsWhatThreadbfsFinds
<1> QED
  BY <1>2, Inductive, PTL

------------------------------------------------------------------------------
\* naivebfs.  Its loop over the neighbours goes through a sequence of vertices
\* none of which is the source.
LEMMA NaiveSeesFacts ==
  ASSUME GraphTyped, NEW u \in Vertex
  PROVE  \E n \in Nat :
           /\ NaiveSees(u) \in [1 .. n -> Vertex]
           /\ ToSet(NaiveSees(u)) = {NaiveSees(u)[k] : k \in 1 .. n}
           /\ \A k \in 1 .. n : NaiveSees(u)[k] # source
<1>1. PICK from, to : /\ from = vertexIndex[u]
                      /\ to = IF u + 1 < vertexNum THEN vertexIndex[u + 1] ELSE 2 * edgeNum
  OBVIOUS
<1>2. from \in 0 .. 2 * edgeNum /\ to \in 0 .. 2 * edgeNum
  <2>1. u + 1 < vertexNum => u + 1 \in Vertex
    BY SizeAssumption DEF Vertex
  <2>2. u + 1 < vertexNum => vertexIndex[u + 1] \in 0 .. 2 * edgeNum
    BY <2>1 DEF GraphTyped
  <2>3. 2 * edgeNum \in 0 .. 2 * edgeNum
    BY SizeAssumption
  <2> QED
    BY <1>1, <2>2, <2>3 DEF GraphTyped
<1>3. from \in Int /\ to \in Int /\ from .. to - 1 \subseteq 0 .. 2 * edgeNum - 1
  BY <1>2, SizeAssumption
<1>4. PICK n \in Nat : Neighbours(from, to) \in [1 .. n -> Vertex]
  BY <1>3, NeighboursFacts
<1>5. PICK all : all = Neighbours(from, to)
  OBVIOUS
<1>6. all \in Seq(Vertex) /\ Len(all) = n /\ DOMAIN all = 1 .. n
  BY <1>4, <1>5
<1>7. PICK stops : stops = {k \in 1 .. Len(all) : all[k] = source}
  OBVIOUS
<1>8. NaiveSees(u) = IF stops = {} THEN all ELSE SubSeq(all, 1, Min(stops) - 1)
  BY <1>1, <1>5, <1>7 DEF NaiveSees
<1>9. CASE stops = {}
  <2>1. NaiveSees(u) = all
    BY <1>8, <1>9
  <2>2. \A k \in 1 .. n : all[k] # source
    BY <1>6, <1>7, <1>9
  <2> QED
    BY <1>4, <1>5, <1>6, <2>1, <2>2 DEF ToSet
<1>10. CASE stops # {}
  <2>1. PICK m : m = Min(stops)
    OBVIOUS
  <2>2. m \in stops /\ \A k \in stops : m <= k
    <3>1. stops \subseteq Nat
      BY <1>6, <1>7
    <3>2. \E x \in stops : \A y \in stops : x <= y
      BY <1>10, <3>1, LeastNumber
    <3> QED
      BY <2>1, <3>2 DEF Min
  <2>3. m \in 1 .. n
    BY <1>6, <1>7, <2>2
  <2>4. PICK seq : seq = SubSeq(all, 1, m - 1)
    OBVIOUS
  <2>5. seq \in Seq(Vertex) /\ Len(seq) = m - 1 /\ \A k \in 1 .. m - 1 : seq[k] = all[k]
    BY <1>6, <2>3, <2>4
  <2>6. seq \in [1 .. m - 1 -> Vertex] /\ DOMAIN seq = 1 .. m - 1
    BY <2>3, <2>5
  <2>7. ASSUME NEW k \in 1 .. m - 1
        PROVE  seq[k] # source
    <3>1. k \in 1 .. n /\ ~(m <= k)
      BY <2>3
    <3> QED
      BY <1>6, <1>7, <2>2, <2>5, <3>1
  <2>8. NaiveSees(u) = seq /\ m - 1 \in Nat
    BY <1>8, <1>10, <2>1, <2>3, <2>4
  <2>9. ToSet(seq) = {seq[k] : k \in 1 .. m - 1}
    BY <2>6 DEF ToSet
  <2> QED
    BY <2>6, <2>7, <2>8, <2>9
<1> QED
  BY <1>9, <1>10

\* The queue that wraps round, and the tree.
Ring == [searchedList : [Vertex -> Vertex \cup {-1}], nowIdx : Vertex, endIdx : Vertex,
         parent : [Vertex -> Vertex \cup {-1}]]

LEMMA WrapType ==
  ASSUME NEW i \in Vertex
  PROVE  WrapAround(i) \in Vertex
BY SizeAssumption DEF WrapAround, Vertex

LEMMA NaiveVisitType ==
  ASSUME NEW u \in Vertex, NEW s \in Ring, NEW v \in Vertex
  PROVE  NaiveVisit(u, s, v) \in Ring
<1>1. /\ [s.searchedList EXCEPT ![s.endIdx] = v] \in [Vertex -> Vertex \cup {-1}]
      /\ [s.parent EXCEPT ![v] = u] \in [Vertex -> Vertex \cup {-1}]
      /\ WrapAround(s.endIdx) \in Vertex
  BY WrapType DEF Ring
<1> QED
  BY <1>1 DEF NaiveVisit, Ring

\* The fold of its visits is the last of the values it goes through.
NaiveAlong(u, f, n, seq, h) ==
  h[0] = f /\ \A k \in 1 .. n : h[k] = NaiveVisit(u, h[k - 1], seq[k])

LEMMA NaiveFolds ==
  ASSUME NEW u \in Vertex, NEW f \in Ring, NEW n \in Nat, NEW seq \in [1 .. n -> Vertex]
  PROVE  \E h \in [0 .. n -> Ring] :
           /\ NaiveAlong(u, f, n, seq, h)
           /\ FoldLeft(LAMBDA r, v : NaiveVisit(u, r, v), f, seq) = h[n]
<1>1. PICK step : step = [p \in Ring \X (1 .. n) |-> NaiveVisit(u, p[1], seq[p[2]])]
  OBVIOUS
<1>2. \A r \in Ring : \A k \in 1 .. n :
        step[<<r, k>>] = NaiveVisit(u, r, seq[k]) /\ step[<<r, k>>] \in Ring
  BY <1>1, NaiveVisitType
<1>3. Folding(n, Ring, f, step)
  <2>1. step \in [Ring \X (1 .. n) -> Ring]
    BY <1>1, <1>2
  <2> QED
    BY <2>1 DEF Folding
<1>4. PICK g \in [SUBSET (1 .. n) -> Ring] : FoldsParts(n, f, step, g)
  BY <1>3, FoldsExist
<1>5. PICK it : it = CHOOSE i : i = [s \in SUBSET (1 .. n) |->
                       IF s = {} THEN f ELSE NaiveVisit(u, i[s \ {Max(s)}], seq[Max(s)])]
  OBVIOUS
<1>6. \A s : Max(s) = LastOf(s)
  BY DEF Max, LastOf
<1>7. g = [s \in SUBSET (1 .. n) |->
             IF s = {} THEN f ELSE NaiveVisit(u, g[s \ {Max(s)}], seq[Max(s)])]
  <2>1. g = [s \in SUBSET (1 .. n) |->
               IF s = {} THEN f ELSE step[<<g[s \ {LastOf(s)}], LastOf(s)>>]]
    BY <1>4 DEF FoldsParts
  <2>2. ASSUME NEW s \in SUBSET (1 .. n), s # {}
        PROVE  step[<<g[s \ {LastOf(s)}], LastOf(s)>>] = NaiveVisit(u, g[s \ {Max(s)}], seq[Max(s)])
    <3>1. LastOf(s) \in 1 .. n /\ g[s \ {LastOf(s)}] \in Ring
      BY <2>2, LastNumber
    <3> QED
      BY <1>2, <1>6, <3>1
  <2> QED
    BY <2>1, <2>2
<1>8. it = [s \in SUBSET (1 .. n) |->
              IF s = {} THEN f ELSE NaiveVisit(u, it[s \ {Max(s)}], seq[Max(s)])]
  BY <1>5, <1>7
<1>9. PICK h \in [0 .. n -> Ring] : FoldsAlong(n, f, step, h)
  BY <1>4, FoldsInOrder
<1>10. NaiveAlong(u, f, n, seq, h)
  <2>1. ASSUME NEW k \in 1 .. n
        PROVE  h[k] = NaiveVisit(u, h[k - 1], seq[k])
    <3>1. h[k - 1] \in Ring
      <4>1. k - 1 \in 0 .. n
        OBVIOUS
      <4> QED
        BY <4>1
    <3> QED
      BY <1>2, <1>9, <3>1 DEF FoldsAlong
  <2> QED
    BY <1>9, <2>1 DEF FoldsAlong, NaiveAlong
<1>11. it[{}] = h[0]
  BY <1>8, <1>10 DEF NaiveAlong
<1>12. ASSUME NEW k \in 1 .. n, it[1 .. k - 1] = h[k - 1]
       PROVE  it[1 .. k] = h[k]
  <2>1. /\ 1 .. k # {} /\ 1 .. k \in SUBSET (1 .. n)
        /\ Max(1 .. k) = k /\ (1 .. k) \ {k} = 1 .. k - 1
    BY <1>6, LastOfInterval
  <2>2. it[1 .. k] = NaiveVisit(u, it[1 .. k - 1], seq[k])
    BY <1>8, <2>1
  <2> QED
    BY <1>10, <1>12, <2>2 DEF NaiveAlong
<1>13. it[1 .. n] = h[n]
  BY <1>11, <1>12, SameFold
<1>14. FoldLeft(LAMBDA r, v : NaiveVisit(u, r, v), f, seq) = it[1 .. n]
  <2>1. DOMAIN seq = 1 .. n
    OBVIOUS
  <2> QED
    BY <1>5, <2>1 DEF FoldLeft, MapThenFoldSet
<1> QED
  BY <1>10, <1>13, <1>14

\* What the ring stands for: g.h are the vertices that were ever put into it, in
\* that order, g.d their distances, and the first g.p of them were taken out.
History == [h : Seq(Vertex), d : [Vertex -> Nat], p : Nat]
Wrapped(i) == IF i < vertexNum THEN i ELSE 0

\* The queue: where the history stands in the ring.
RingHolds(s, g) ==
  /\ \A k \in 1 .. Len(g.h) : s.searchedList[k - 1] = g.h[k]
  /\ s.nowIdx = Wrapped(g.p)
  /\ s.endIdx = Wrapped(Len(g.h))

\* The distances: they do not fall along the queue, they are below the places,
\* and nothing in the queue is more than a step beyond what was taken out last.
Steady(g) ==
  /\ g.d[source] = 0
  /\ \A k \in 1 .. Len(g.h) : g.d[g.h[k]] <= k - 1
  /\ \A j, k \in 1 .. Len(g.h) : j <= k => g.d[g.h[j]] <= g.d[g.h[k]]
  /\ g.p >= 1 => \A k \in 1 .. Len(g.h) : g.d[g.h[k]] <= g.d[g.h[g.p]] + 1

\* The tree: a vertex in the queue has a parent in the queue, one step nearer.
Rooted(s, g) ==
  /\ \A v \in Vertex : s.parent[v] # -1 <=> v \in Members(g.h) \ {source}
  /\ \A v \in Members(g.h) \ {source} :
       /\ s.parent[v] \in Members(g.h)
       /\ g.d[v] = g.d[s.parent[v]] + 1
       /\ v \in ToSet(NaiveSees(s.parent[v]))

Keeps(s, g) ==
  /\ s \in Ring
  /\ g \in History
  /\ Distinct(g.h)
  /\ Len(g.h) >= 1 /\ g.h[1] = source
  /\ g.p <= Len(g.h)
  /\ g.p = 0 => Len(g.h) = 1
  /\ RingHolds(s, g)
  /\ Steady(g)
  /\ Rooted(s, g)

\* A neighbour of u was put into the queue in time.
Reached(g, u, v) == v \in Members(g.h) /\ g.d[v] <= g.d[u] + 1

\* All neighbours of the first p vertices were.
Expanded(g, p) == \A j \in 1 .. p : \A v \in ToSet(NaiveSees(g.h[j])) : Reached(g, g.h[j], v)

\* A later history.
Extends(g, f) ==
  /\ f.p = g.p /\ Len(g.h) <= Len(f.h)
  /\ \A k \in 1 .. Len(g.h) : f.h[k] = g.h[k] /\ f.d[g.h[k]] = g.d[g.h[k]]

LEMMA KeepsFacts ==
  ASSUME NEW s, NEW g, Keeps(s, g)
  PROVE  /\ Len(g.h) \in 1 .. vertexNum /\ g.h \in [1 .. Len(g.h) -> Vertex]
         /\ g.p \in 0 .. Len(g.h)
         /\ Members(g.h) = {g.h[k] : k \in 1 .. Len(g.h)} /\ Members(g.h) \subseteq Vertex
         /\ source \in Members(g.h)
<1>1. g.h \in Seq(Vertex) /\ g.p \in Nat
  BY DEF Keeps, History
<1>2. Len(g.h) \in 0 .. vertexNum
  BY <1>1, QueueFits DEF Keeps
<1>3. Len(g.h) \in 1 .. vertexNum /\ g.h \in [1 .. Len(g.h) -> Vertex]
  BY <1>1, <1>2, SizeAssumption DEF Keeps
<1>4. Members(g.h) = {g.h[k] : k \in 1 .. Len(g.h)}
  BY DEF Members
<1>5. source \in Members(g.h)
  <2>1. 1 \in 1 .. Len(g.h)
    BY <1>3
  <2> QED
    BY <1>4, <2>1 DEF Keeps
<1>6. g.p \in 0 .. Len(g.h)
  BY <1>1, <1>3 DEF Keeps
<1> QED
  BY <1>3, <1>4, <1>5, <1>6

LEMMA ReachedLater ==
  ASSUME NEW s, NEW g, Keeps(s, g), NEW f \in History, Extends(g, f)
  PROVE  /\ Members(g.h) \subseteq Members(f.h)
         /\ \A u \in Members(g.h) : \A v : Reached(g, u, v) => Reached(f, u, v)
         /\ \A p \in 0 .. Len(g.h) : Expanded(g, p) => Expanded(f, p)
<1>1. /\ Len(g.h) \in Nat /\ Members(g.h) = {g.h[k] : k \in 1 .. Len(g.h)}
      /\ Len(f.h) \in Nat /\ Members(f.h) = {f.h[k] : k \in 1 .. Len(f.h)}
  BY KeepsFacts DEF History, Members
<1>2. \A k \in 1 .. Len(g.h) :
        k \in 1 .. Len(f.h) /\ f.h[k] = g.h[k] /\ f.d[g.h[k]] = g.d[g.h[k]]
  BY <1>1 DEF Extends
<1>3. Members(g.h) \subseteq Members(f.h)
  BY <1>1, <1>2
<1>4. \A w \in Members(g.h) : f.d[w] = g.d[w]
  BY <1>1, <1>2
<1>5. \A u \in Members(g.h) : \A v : Reached(g, u, v) => Reached(f, u, v)
  BY <1>3, <1>4 DEF Reached
<1>6. ASSUME NEW p \in 0 .. Len(g.h), Expanded(g, p)
      PROVE  Expanded(f, p)
  <2> SUFFICES ASSUME NEW j \in 1 .. p, NEW v \in ToSet(NaiveSees(f.h[j]))
               PROVE  Reached(f, f.h[j], v)
    BY DEF Expanded
  <2>1. j \in 1 .. Len(g.h)
    BY <1>1
  <2>2. f.h[j] = g.h[j] /\ g.h[j] \in Members(g.h)
    BY <1>1, <1>2, <2>1
  <2>3. Reached(g, g.h[j], v)
    BY <1>6, <2>2 DEF Expanded
  <2> QED
    BY <1>5, <2>2, <2>3
<1> QED
  BY <1>3, <1>5, <1>6

\* A neighbour that has no parent yet is put into the queue.
LEMMA NaiveVisitNew ==
  ASSUME NEW s, NEW g, Keeps(s, g), g.p >= 1, NEW u, u = g.h[g.p],
         NEW v \in Vertex, v # source, v \in ToSet(NaiveSees(u)), s.parent[v] = -1
  PROVE  \E f \in History :
           Keeps(NaiveVisit(u, s, v), f) /\ Extends(g, f) /\ Reached(f, u, v)
<1>1. PICK n \in Nat : n = Len(g.h)
  <2>1. Len(g.h) \in Nat
    BY KeepsFacts
  <2> QED
    BY <2>1
<1>2. PICK h \in Seq(Vertex), d \in [Vertex -> Nat], p \in Nat : g = [h |-> h, d |-> d, p |-> p]
  BY DEF Keeps, History
<1>3. /\ g.h = h /\ g.d = d /\ g.p = p /\ u = h[p]
      /\ n = Len(h) /\ n \in 1 .. vertexNum /\ h \in [1 .. n -> Vertex] /\ p \in 1 .. n
      /\ Members(h) = {h[k] : k \in 1 .. n} /\ Members(h) \subseteq Vertex
      /\ source \in Members(h) /\ Distinct(h) /\ h[1] = source
  <2>1. g.h = h /\ g.d = d /\ g.p = p
    BY <1>2
  <2>2. /\ Len(h) \in 1 .. vertexNum /\ h \in [1 .. Len(h) -> Vertex]
        /\ p \in 0 .. Len(h)
        /\ Members(h) = {h[k] : k \in 1 .. Len(h)} /\ Members(h) \subseteq Vertex
        /\ source \in Members(h)
    <3>1. /\ Len(g.h) \in 1 .. vertexNum /\ g.h \in [1 .. Len(g.h) -> Vertex]
          /\ g.p \in 0 .. Len(g.h)
          /\ Members(g.h) = {g.h[k] : k \in 1 .. Len(g.h)} /\ Members(g.h) \subseteq Vertex
          /\ source \in Members(g.h)
      BY KeepsFacts
    <3> QED
      BY <2>1, <3>1
  <2>3. Distinct(h) /\ h[1] = source
    BY <2>1 DEF Keeps
  <2>4. p \in 1 .. Len(h)
    BY <2>1, <2>2
  <2> QED
    BY <1>1, <2>1, <2>2, <2>3, <2>4
<1>4. u \in Members(h) /\ u \in Vertex /\ u # -1
  <2>1. u \in Members(h) /\ u \in Vertex
    BY <1>3
  <2>2. \A w \in Vertex : w # -1
    BY SizeAssumption DEF Vertex
  <2> QED
    BY <2>1, <2>2
<1>5. v \notin Members(h) /\ v # u
  BY <1>3, <1>4 DEF Keeps, Rooted
<1>6. PICK f : f = [h |-> Append(h, v), d |-> [d EXCEPT ![v] = d[u] + 1], p |-> p]
  OBVIOUS
<1>7. /\ f.h = Append(h, v) /\ f.d = [d EXCEPT ![v] = d[u] + 1] /\ f.p = p
  BY <1>6
<1>8. /\ f.h \in Seq(Vertex) /\ Members(f.h) = Members(h) \cup {v} /\ Distinct(f.h)
  BY <1>3, <1>5, <1>7, AppendMembers
<1>9. /\ Len(f.h) = n + 1 /\ f.h[n + 1] = v
      /\ \A k \in 1 .. n : f.h[k] = h[k]
  BY <1>3, <1>7
<1>10. /\ f.d \in [Vertex -> Nat] /\ f.d[v] = d[u] + 1
       /\ \A w \in Vertex : w # v => f.d[w] = d[w]
  BY <1>4, <1>7
<1>11. \A w \in Members(h) : f.d[w] = d[w] /\ d[w] \in Nat /\ w \in Vertex
  BY <1>3, <1>5, <1>10
<1>12. f \in History
  BY <1>6, <1>7, <1>8, <1>10 DEF History
<1>13. n + 1 \in 1 .. vertexNum
  BY <1>8, <1>9, QueueFits
<1>14. PICK r : r = NaiveVisit(u, s, v)
  OBVIOUS
<1>15. s \in Ring /\ s.endIdx = Wrapped(n) /\ s.nowIdx = Wrapped(p)
  BY <1>3 DEF Keeps, RingHolds
<1>16. s.endIdx = n /\ n \in Vertex
  BY <1>13, <1>15, SizeAssumption DEF Wrapped, Vertex
<1>17. /\ r \in Ring
       /\ r.parent = [s.parent EXCEPT ![v] = u]
       /\ r.searchedList = [s.searchedList EXCEPT ![n] = v]
       /\ r.endIdx = WrapAround(n) /\ r.nowIdx = s.nowIdx
  <2>1. r \in Ring
    BY <1>4, <1>14, <1>15, NaiveVisitType
  <2>2. r = [s EXCEPT !.parent[v] = u, !.searchedList[s.endIdx] = v, !.endIdx = WrapAround(@)]
    BY <1>14 DEF NaiveVisit
  <2> QED
    BY <1>15, <1>16, <2>1, <2>2 DEF Ring
<1>18. \A k : k \in 1 .. n + 1 <=> k \in 1 .. n \/ k = n + 1
  OBVIOUS
<1>19. RingHolds(r, f)
  <2>1. WrapAround(n) = Wrapped(n + 1)
    BY DEF WrapAround, Wrapped
  <2>2. ASSUME NEW k \in 1 .. n
        PROVE  r.searchedList[k - 1] = f.h[k]
    <3>1. k - 1 \in Vertex /\ k - 1 # n
      BY <1>13, SizeAssumption DEF Vertex
    <3>2. s.searchedList[k - 1] = h[k]
      BY <1>3 DEF Keeps, RingHolds
    <3> QED
      BY <1>9, <1>15, <1>17, <3>1, <3>2 DEF Ring
  <2>3. r.searchedList[(n + 1) - 1] = f.h[n + 1]
    BY <1>9, <1>15, <1>16, <1>17 DEF Ring
  <2> QED
    BY <1>7, <1>9, <1>15, <1>17, <1>18, <2>1, <2>2, <2>3 DEF RingHolds
<1>20. /\ d[source] = 0
       /\ \A k \in 1 .. n : d[h[k]] <= k - 1 /\ d[h[k]] <= d[u] + 1 /\ d[h[k]] \in Nat
       /\ \A j, k \in 1 .. n : j <= k => d[h[j]] <= d[h[k]]
  BY <1>3 DEF Keeps, Steady
<1>21. (\A k \in 1 .. n : f.d[f.h[k]] = d[h[k]]) /\ f.d[f.h[n + 1]] = d[u] + 1
  <2>1. \A k \in 1 .. n : h[k] \in Members(h)
    BY <1>3
  <2> QED
    BY <1>9, <1>10, <1>11, <2>1
<1>22. d[u] \in Nat /\ d[u] <= p - 1
  BY <1>3, <1>20
<1>23. Steady(f)
  <2>1. f.d[source] = 0
    BY <1>3, <1>11, <1>20
  <2>2. ASSUME NEW k \in 1 .. n + 1
        PROVE  f.d[f.h[k]] <= k - 1
    <3>1. CASE k \in 1 .. n
      BY <1>20, <1>21, <3>1
    <3>2. CASE k = n + 1
      BY <1>3, <1>21, <1>22, <3>2
    <3> QED
      BY <1>18, <3>1, <3>2
  <2>3. ASSUME NEW j \in 1 .. n + 1, NEW k \in 1 .. n + 1, j <= k
        PROVE  f.d[f.h[j]] <= f.d[f.h[k]]
    <3>1. CASE k \in 1 .. n
      <4>1. j \in 1 .. n
        BY <2>3, <3>1
      <4> QED
        BY <1>20, <1>21, <2>3, <3>1, <4>1
    <3>2. CASE k = n + 1 /\ j \in 1 .. n
      BY <1>20, <1>21, <3>2
    <3>3. CASE k = n + 1 /\ j = n + 1
      BY <1>3, <1>21, <1>22, <3>3
    <3> QED
      BY <1>18, <3>1, <3>2, <3>3
  <2>4. f.d[f.h[f.p]] = d[u]
    BY <1>3, <1>7, <1>21
  <2>5. ASSUME NEW k \in 1 .. n + 1
        PROVE  f.d[f.h[k]] <= f.d[f.h[f.p]] + 1
    <3>1. CASE k \in 1 .. n
      BY <1>20, <1>21, <2>4, <3>1
    <3>2. CASE k = n + 1
      BY <1>3, <1>21, <1>22, <2>4, <3>2
    <3> QED
      BY <1>18, <3>1, <3>2
  <2> QED
    BY <1>9, <2>1, <2>2, <2>3, <2>5 DEF Steady
<1>24. Rooted(r, f)
  <2>1. /\ \A w \in Vertex : s.parent[w] # -1 <=> w \in Members(h) \ {source}
        /\ \A w \in Members(h) \ {source} : /\ s.parent[w] \in Members(h)
                                            /\ d[w] = d[s.parent[w]] + 1
                                            /\ w \in ToSet(NaiveSees(s.parent[w]))
    BY <1>3 DEF Keeps, Rooted
  <2>2. /\ r.parent[v] = u
        /\ \A w \in Vertex : w # v => r.parent[w] = s.parent[w]
    BY <1>15, <1>17 DEF Ring
  <2>3. \A w \in Vertex : r.parent[w] # -1 <=> w \in Members(f.h) \ {source}
    BY <1>4, <1>8, <2>1, <2>2
  <2>4. ASSUME NEW w \in Members(f.h) \ {source}
        PROVE  /\ r.parent[w] \in Members(f.h)
               /\ f.d[w] = f.d[r.parent[w]] + 1
               /\ w \in ToSet(NaiveSees(r.parent[w]))
    <3>1. CASE w = v
      BY <1>4, <1>8, <1>10, <1>11, <2>2, <3>1
    <3>2. CASE w # v
      <4>1. w \in Members(h) \ {source} /\ w \in Vertex
        BY <1>3, <1>8, <3>2
      <4>2. r.parent[w] = s.parent[w] /\ s.parent[w] \in Members(h)
        BY <2>1, <2>2, <3>2, <4>1
      <4> QED
        BY <1>8, <1>11, <2>1, <4>1, <4>2
    <3> QED
      BY <3>1, <3>2
  <2> QED
    BY <2>3, <2>4 DEF Rooted
<1>25. Keeps(r, f)
  <2>1. 1 \in 1 .. n /\ n + 1 >= 1 /\ p <= n + 1 /\ p # 0
    BY <1>3
  <2>2. f.h[1] = source
    BY <1>3, <1>9, <2>1
  <2> QED
    BY <1>7, <1>8, <1>9, <1>12, <1>17, <1>19, <1>23, <1>24, <2>1, <2>2 DEF Keeps
<1>26. Extends(g, f)
  <2>1. \A k \in 1 .. n : f.h[k] = h[k] /\ f.d[h[k]] = d[h[k]]
    BY <1>3, <1>9, <1>11
  <2> QED
    BY <1>3, <1>7, <1>9, <2>1 DEF Extends
<1>27. Reached(f, u, v)
  <2>1. f.d[v] = d[u] + 1 /\ f.d[u] = d[u] /\ d[u] \in Nat
    BY <1>4, <1>10, <1>11
  <2> QED
    BY <1>8, <2>1 DEF Reached
<1> QED
  BY <1>12, <1>14, <1>25, <1>26, <1>27

\* One that has a parent was put into the queue before, and is not too far away.
LEMMA NaiveVisitKeeps ==
  ASSUME NEW s, NEW g, Keeps(s, g), g.p >= 1, NEW u, u = g.h[g.p],
         NEW v \in Vertex, v # source, v \in ToSet(NaiveSees(u))
  PROVE  \E f \in History :
           Keeps(NaiveVisit(u, s, v), f) /\ Extends(g, f) /\ Reached(f, u, v)
<1>1. CASE s.parent[v] = -1
  BY <1>1, NaiveVisitNew
<1>2. CASE s.parent[v] # -1
  <2>1. NaiveVisit(u, s, v) = s /\ g \in History
    BY <1>2 DEF NaiveVisit, Keeps
  <2>2. Len(g.h) \in Nat
    BY KeepsFacts
  <2>3. Extends(g, g)
    BY <2>2 DEF Extends
  <2>4. v \in Members(g.h)
    BY <1>2 DEF Keeps, Rooted
  <2>5. PICK k \in 1 .. Len(g.h) : v = g.h[k]
    BY <2>4 DEF Members
  <2>6. Reached(g, u, v)
    BY <2>4, <2>5 DEF Reached, Keeps, Steady
  <2> QED
    BY <2>1, <2>3, <2>6
<1> QED
  BY <1>1, <1>2

\* A vertex is taken out of the queue.
Taken(s) == [s EXCEPT !.nowIdx = WrapAround(@)]

LEMMA TakeNext ==
  ASSUME NEW s, NEW g, Keeps(s, g), s.nowIdx # s.endIdx
  PROVE  \E f \in History :
           /\ Keeps(Taken(s), f) /\ f.h = g.h /\ f.d = g.d /\ f.p = g.p + 1
           /\ s.searchedList[s.nowIdx] = f.h[f.p] /\ f.h[f.p] \in Vertex
<1>1. PICK h \in Seq(Vertex), d \in [Vertex -> Nat], p \in Nat : g = [h |-> h, d |-> d, p |-> p]
  BY DEF Keeps, History
<1>2. g.h = h /\ g.d = d /\ g.p = p
  BY <1>1
<1>3. /\ Len(g.h) \in 1 .. vertexNum /\ g.h \in [1 .. Len(g.h) -> Vertex]
      /\ g.p \in 0 .. Len(g.h)
  BY KeepsFacts
<1>4. PICK n \in Nat : n = Len(h) /\ n \in 1 .. vertexNum /\ h \in [1 .. n -> Vertex] /\ p \in 0 .. n
  <2>1. Len(h) \in Nat
    OBVIOUS
  <2>2. /\ Len(h) \in 1 .. vertexNum /\ h \in [1 .. Len(h) -> Vertex] /\ p \in 0 .. Len(h)
    BY <1>2, <1>3
  <2> QED
    BY <2>1, <2>2
<1>5. /\ s \in Ring /\ s.nowIdx = Wrapped(p) /\ s.endIdx = Wrapped(n)
      /\ \A k \in 1 .. n : s.searchedList[k - 1] = h[k]
  BY <1>2, <1>4 DEF Keeps, RingHolds
<1>6. p # n
  BY <1>5
<1>7. p + 1 \in 1 .. n /\ p < vertexNum /\ p \in Vertex /\ vertexNum \in Nat
  <2>1. vertexNum \in Nat /\ p \in Nat /\ p < n /\ n <= vertexNum
    <3>1. p \in 0 .. n /\ n \in 1 .. vertexNum
      BY <1>4
    <3> QED
      BY <1>6, <3>1, SizeAssumption
  <2>2. p + 1 \in 1 .. n /\ p \in 0 .. vertexNum - 1
    BY <2>1
  <2> QED
    BY <2>1, <2>2 DEF Vertex
<1>8. s.nowIdx = p /\ WrapAround(p) = Wrapped(p + 1)
  BY <1>5, <1>7 DEF Wrapped, WrapAround
<1>9. s.searchedList[p] = h[p + 1]
  <2>1. (p + 1) - 1 = p
    OBVIOUS
  <2> QED
    BY <1>5, <1>7, <2>1
<1>10. PICK f : f = [h |-> h, d |-> d, p |-> p + 1]
  OBVIOUS
<1>11. f \in History /\ f.h = h /\ f.d = d /\ f.p = p + 1
  BY <1>10 DEF History
<1>12. PICK r : r = Taken(s)
  OBVIOUS
<1>13. /\ r \in Ring /\ r.nowIdx = Wrapped(p + 1) /\ r.endIdx = s.endIdx
       /\ r.searchedList = s.searchedList /\ r.parent = s.parent
  BY <1>5, <1>7, <1>8, <1>12, WrapType DEF Taken, Ring
<1>14. RingHolds(r, f)
  BY <1>4, <1>5, <1>11, <1>13 DEF RingHolds
<1>15. /\ d[source] = 0
       /\ \A k \in 1 .. n : d[h[k]] <= k - 1 /\ d[h[k]] \in Nat
       /\ \A j, k \in 1 .. n : j <= k => d[h[j]] <= d[h[k]]
       /\ p >= 1 => \A k \in 1 .. n : d[h[k]] <= d[h[p]] + 1
       /\ p = 0 => n = 1
  BY <1>2, <1>4 DEF Keeps, Steady
<1>16. ASSUME NEW k \in 1 .. n
       PROVE  d[h[k]] <= d[h[p + 1]] + 1
  <2>1. d[h[k]] \in Nat /\ d[h[p + 1]] \in Nat
    BY <1>7, <1>15
  <2>2. CASE p = 0
    <3>1. k = p + 1
      BY <1>15, <2>2
    <3> QED
      BY <2>1, <3>1
  <2>3. CASE p # 0
    <3>1. p \in 1 .. n /\ p >= 1 /\ p <= p + 1
      BY <1>4, <2>3
    <3>2. d[h[k]] <= d[h[p]] + 1 /\ d[h[p]] <= d[h[p + 1]] /\ d[h[p]] \in Nat
      BY <1>7, <1>15, <3>1
    <3>3. \A a, b, c \in Nat : a <= b + 1 /\ b <= c => a <= c + 1
      OBVIOUS
    <3> QED
      BY <2>1, <3>2, <3>3
  <2> QED
    BY <2>2, <2>3
<1>17. Steady(f)
  BY <1>4, <1>11, <1>15, <1>16 DEF Steady
<1>18. Rooted(r, f)
  <2>1. Rooted(s, g)
    BY DEF Keeps
  <2> QED
    BY <1>2, <1>11, <1>13, <2>1 DEF Rooted
<1>19. Keeps(r, f)
  <2>1. Distinct(h) /\ h[1] = source /\ n >= 1
    BY <1>2, <1>4 DEF Keeps
  <2>2. p + 1 <= n /\ p + 1 # 0
    BY <1>7
  <2> QED
    BY <1>4, <1>11, <1>13, <1>14, <1>17, <1>18, <2>1, <2>2 DEF Keeps
<1>20. h[p + 1] \in Vertex
  BY <1>4, <1>7
<1> QED
  BY <1>2, <1>8, <1>9, <1>11, <1>12, <1>19, <1>20

\* A round of the loop goes through the neighbours of the vertex taken out.
LEMMA RoundVisits ==
  ASSUME GraphTyped, NEW s \in Ring, NEW u \in Vertex, u = s.searchedList[s.nowIdx]
  PROVE  \E n \in Nat : \E seq \in [1 .. n -> Vertex] : \E h \in [0 .. n -> Ring] :
           /\ ToSet(NaiveSees(u)) = {seq[k] : k \in 1 .. n}
           /\ \A k \in 1 .. n : seq[k] # source
           /\ NaiveAlong(u, Taken(s), n, seq, h)
           /\ NaiveStep(s) = h[n]
<1>1. PICK n \in Nat : /\ NaiveSees(u) \in [1 .. n -> Vertex]
                       /\ ToSet(NaiveSees(u)) = {NaiveSees(u)[k] : k \in 1 .. n}
                       /\ \A k \in 1 .. n : NaiveSees(u)[k] # source
  BY NaiveSeesFacts
<1>2. PICK seq : seq = NaiveSees(u)
  OBVIOUS
<1>3. PICK r : r = Taken(s)
  OBVIOUS
<1>4. r \in Ring
  <2>1. WrapAround(s.nowIdx) \in Vertex
    BY WrapType DEF Ring
  <2> QED
    BY <1>3, <2>1 DEF Taken, Ring
<1>5. PICK h \in [0 .. n -> Ring] :
        /\ NaiveAlong(s.searchedList[s.nowIdx], r, n, seq, h)
        /\ FoldLeft(LAMBDA x, v : NaiveVisit(s.searchedList[s.nowIdx], x, v), r, seq) = h[n]
  BY <1>1, <1>2, <1>4, NaiveFolds
<1>6. NaiveStep(s) = h[n]
  BY <1>2, <1>3, <1>5 DEF NaiveStep, Taken
<1>7. NaiveAlong(u, r, n, seq, h)
  BY <1>5
<1> QED
  BY <1>1, <1>2, <1>3, <1>6, <1>7

\* A round of the loop: every neighbour of the vertex taken out is reached.
LEMMA NaiveStepKeeps ==
  ASSUME GraphTyped, NEW s, NEW g, Keeps(s, g), Expanded(g, g.p), s.nowIdx # s.endIdx
  PROVE  \E f \in History :
           Keeps(NaiveStep(s), f) /\ Expanded(f, f.p) /\ f.p = g.p + 1
<1>1. PICK e \in History :
        /\ Keeps(Taken(s), e) /\ e.h = g.h /\ e.d = g.d /\ e.p = g.p + 1
        /\ s.searchedList[s.nowIdx] = e.h[e.p] /\ e.h[e.p] \in Vertex
  BY TakeNext
<1>2. PICK u \in Vertex : u = e.h[e.p] /\ u = s.searchedList[s.nowIdx]
  BY <1>1
<1>3. g.p \in Nat /\ g.p \in 0 .. Len(e.h) /\ e.p \in 1 .. Len(e.h) /\ Len(e.h) \in Nat
  <2>1. g.p \in 0 .. Len(g.h) /\ Len(g.h) \in 1 .. vertexNum /\ e.p \in 0 .. Len(e.h)
    BY <1>1, KeepsFacts
  <2> QED
    BY <1>1, <2>1
<1>4. Expanded(e, g.p)
  BY <1>1 DEF Expanded, Reached
<1>5. PICK n \in Nat : \E seq \in [1 .. n -> Vertex] : \E h \in [0 .. n -> Ring] :
        /\ ToSet(NaiveSees(u)) = {seq[k] : k \in 1 .. n}
        /\ \A k \in 1 .. n : seq[k] # source
        /\ NaiveAlong(u, Taken(s), n, seq, h)
        /\ NaiveStep(s) = h[n]
  BY <1>2, RoundVisits DEF Keeps
<1>6. PICK seq \in [1 .. n -> Vertex] : \E h \in [0 .. n -> Ring] :
        /\ ToSet(NaiveSees(u)) = {seq[k] : k \in 1 .. n}
        /\ \A k \in 1 .. n : seq[k] # source
        /\ NaiveAlong(u, Taken(s), n, seq, h)
        /\ NaiveStep(s) = h[n]
  BY <1>5
<1>7. PICK h \in [0 .. n -> Ring] :
        /\ ToSet(NaiveSees(u)) = {seq[k] : k \in 1 .. n}
        /\ \A k \in 1 .. n : seq[k] # source
        /\ NaiveAlong(u, Taken(s), n, seq, h)
        /\ NaiveStep(s) = h[n]
  BY <1>6
<1>8. Keeps(h[0], e)
  BY <1>1, <1>7 DEF NaiveAlong
<1>9. PICK T : T = {k \in 0 .. n : \E f \in History :
                       /\ Keeps(h[k], f) /\ Expanded(f, g.p) /\ f.p = e.p /\ f.h[f.p] = u
                       /\ \A l \in 1 .. k : Reached(f, u, seq[l])}
  OBVIOUS
<1>10. 0 \in T
  <2>1. \A l \in 1 .. 0 : Reached(e, u, seq[l])
    OBVIOUS
  <2>2. 0 \in 0 .. n
    OBVIOUS
  <2> QED
    BY <1>2, <1>4, <1>8, <1>9, <2>1, <2>2
<1>11. ASSUME NEW k \in 1 .. n, k - 1 \in T
       PROVE  k \in T
  <2>1. PICK f \in History :
          /\ Keeps(h[k - 1], f) /\ Expanded(f, g.p) /\ f.p = e.p /\ f.h[f.p] = u
          /\ \A l \in 1 .. k - 1 : Reached(f, u, seq[l])
    BY <1>9, <1>11
  <2>2. PICK v \in Vertex : v = seq[k] /\ v # source /\ v \in ToSet(NaiveSees(u))
    BY <1>7
  <2>3. f.p >= 1 /\ f.p \in 1 .. Len(f.h) /\ g.p \in 0 .. Len(f.h)
    <3>1. f.p \in 0 .. Len(f.h) /\ Len(f.h) \in 1 .. vertexNum
      BY <2>1, KeepsFacts
    <3> QED
      BY <1>1, <1>3, <2>1, <3>1
  <2>4. PICK z \in History :
          Keeps(NaiveVisit(u, h[k - 1], v), z) /\ Extends(f, z) /\ Reached(z, u, v)
    BY <2>1, <2>2, <2>3, NaiveVisitKeeps
  <2>5. h[k] = NaiveVisit(u, h[k - 1], v)
    BY <1>7, <2>2 DEF NaiveAlong
  <2>6. z.p = e.p /\ z.h[z.p] = u
    BY <2>1, <2>3, <2>4 DEF Extends
  <2>7. u \in Members(f.h)
    BY <2>1, <2>3 DEF Members
  <2>8. Expanded(z, g.p) /\ \A l \in 1 .. k - 1 : Reached(z, u, seq[l])
    BY <2>1, <2>3, <2>4, <2>7, ReachedLater
  <2>9. \A l \in 1 .. k : Reached(z, u, seq[l])
    <3>1. \A l \in 1 .. k : l \in 1 .. k - 1 \/ l = k
      OBVIOUS
    <3> QED
      BY <2>2, <2>4, <2>8, <3>1
  <2> QED
    BY <1>9, <2>4, <2>5, <2>6, <2>8, <2>9
<1>12. n \in T
  <2>1. 0 .. n \subseteq T
    BY <1>10, <1>11, UpTo
  <2> QED
    BY <2>1
<1>13. PICK f \in History :
         /\ Keeps(h[n], f) /\ Expanded(f, g.p) /\ f.p = e.p /\ f.h[f.p] = u
         /\ \A l \in 1 .. n : Reached(f, u, seq[l])
  BY <1>9, <1>12
<1>14. Expanded(f, f.p)
  <2>1. \A v \in ToSet(NaiveSees(u)) : Reached(f, u, v)
    BY <1>7, <1>13
  <2>2. \A j \in 1 .. f.p : j \in 1 .. g.p \/ j = f.p
    BY <1>1, <1>3, <1>13
  <2> QED
    BY <1>13, <2>1, <2>2 DEF Expanded
<1> QED
  BY <1>1, <1>7, <1>13, <1>14

\* bfs() of naivebfs before its first round, and a round: it ends when the
\* queue is told empty.
FirstRing == [searchedList |-> [i \in Vertex |-> IF i = 0 THEN source ELSE -1],
              nowIdx |-> 0, endIdx |-> 1, parent |-> NoParent]
Round(s) == IF s.nowIdx = s.endIdx THEN s ELSE NaiveStep(s)

\* After n rounds n vertices have been taken out, or all.
AfterRounds(s, n) ==
  \E g \in History : Keeps(s, g) /\ Expanded(g, g.p) /\ (g.p = n \/ g.p = Len(g.h))

LEMMA NaiveStarts == FirstRing \in Ring /\ AfterRounds(FirstRing, 0)
<1> USE SizeAssumption, NaiveAssumption, SourceAssumption
<1>1. PICK g : g = [h |-> <<source>>, d |-> [v \in Vertex |-> 0], p |-> 0]
  OBVIOUS
<1>2. /\ g.h = <<source>> /\ Len(g.h) = 1 /\ g.h[1] = source /\ g.p = 0
      /\ \A v \in Vertex : g.d[v] = 0
      /\ \A k \in 1 .. Len(g.h) : k = 1
      /\ 1 \in 1 .. Len(g.h)
  BY <1>1
<1>3. g \in History
  BY <1>1 DEF History
<1>4. PICK s : s = FirstRing
  OBVIOUS
<1>5. 0 \in Vertex /\ 1 \in Vertex
  BY DEF Vertex
<1>6. s \in Ring
  BY <1>4, <1>5 DEF FirstRing, Ring, NoParent
<1>7. RingHolds(s, g)
  <2>1. s.searchedList[0] = source
    BY <1>4, <1>5 DEF FirstRing
  <2>2. s.nowIdx = Wrapped(0) /\ s.endIdx = Wrapped(1)
    BY <1>4 DEF FirstRing, Wrapped
  <2> QED
    BY <1>2, <2>1, <2>2 DEF RingHolds
<1>8. Members(g.h) = {source} /\ Distinct(g.h)
  BY <1>2 DEF Members, Distinct
<1>9. Steady(g)
  BY <1>2 DEF Steady
<1>10. Rooted(s, g)
  <2>1. \A v \in Vertex : s.parent[v] = -1
    BY <1>4 DEF FirstRing, NoParent
  <2> QED
    BY <1>8, <2>1 DEF Rooted
<1>11. Keeps(s, g)
  BY <1>2, <1>3, <1>6, <1>7, <1>8, <1>9, <1>10 DEF Keeps
<1>12. Expanded(g, g.p)
  BY <1>2 DEF Expanded
<1> QED
  BY <1>2, <1>3, <1>4, <1>6, <1>11, <1>12 DEF AfterRounds

LEMMA TwoIndices ==
  ASSUME NEW s, NEW g, Keeps(s, g)
  PROVE  s.nowIdx = s.endIdx <=> g.p = Len(g.h)
<1>1. Len(g.h) \in 1 .. vertexNum /\ g.p \in 0 .. Len(g.h)
  BY KeepsFacts
<1>2. s.nowIdx = Wrapped(g.p) /\ s.endIdx = Wrapped(Len(g.h)) /\ (g.p = 0 => Len(g.h) = 1)
  BY DEF Keeps, RingHolds
<1>3. PICK n \in Int, p \in Int : n = Len(g.h) /\ p = g.p
  BY <1>1
<1>4. n \in 1 .. vertexNum /\ p \in 0 .. n /\ (p = 0 => n = 1)
  BY <1>1, <1>2, <1>3
<1>5. Wrapped(p) = Wrapped(n) <=> p = n
  <2>1. CASE p = n
    BY <2>1
  <2>2. CASE p # n
    <3>1. p < n /\ p < vertexNum
      BY <1>4, <2>2, SizeAssumption
    <3>2. Wrapped(p) = p
      BY <3>1 DEF Wrapped
    <3>3. CASE n < vertexNum
      BY <2>2, <3>2, <3>3 DEF Wrapped
    <3>4. CASE ~(n < vertexNum)
      <4>1. n = vertexNum /\ Wrapped(n) = 0
        BY <1>4, <3>4, SizeAssumption DEF Wrapped
      <4>2. p # 0
        BY <1>4, <4>1, NaiveAssumption
      <4> QED
        BY <2>2, <3>2, <4>1, <4>2
    <3> QED
      BY <3>3, <3>4
  <2> QED
    BY <2>1, <2>2
<1> QED
  BY <1>2, <1>3, <1>5

LEMMA RoundKeeps ==
  ASSUME GraphTyped, NEW n \in Nat, NEW s, AfterRounds(s, n)
  PROVE  Round(s) \in Ring /\ AfterRounds(Round(s), n + 1)
<1>1. PICK g \in History : Keeps(s, g) /\ Expanded(g, g.p) /\ (g.p = n \/ g.p = Len(g.h))
  BY DEF AfterRounds
<1>2. CASE s.nowIdx = s.endIdx
  <2>1. g.p = Len(g.h) /\ Round(s) = s
    BY <1>1, <1>2, TwoIndices DEF Round
  <2> QED
    BY <1>1, <2>1 DEF AfterRounds, Keeps
<1>3. CASE s.nowIdx # s.endIdx
  <2>1. g.p = n /\ Round(s) = NaiveStep(s)
    BY <1>1, <1>3, TwoIndices DEF Round
  <2>2. PICK f \in History : Keeps(NaiveStep(s), f) /\ Expanded(f, f.p) /\ f.p = g.p + 1
    BY <1>1, <1>3, NaiveStepKeeps
  <2> QED
    BY <2>1, <2>2 DEF AfterRounds, Keeps
<1> QED
  BY <1>2, <1>3

\* bfs() of naivebfs goes from round to round.
RoundsFrom(m, b) == b[0] = FirstRing /\ \A n \in 1 .. m : b[n] = Round(b[n - 1])

LEMMA NaivebfsUnfolds ==
  ASSUME GraphTyped, NEW m \in Nat
  PROVE  \E b : /\ RoundsFrom(m, b) /\ naivebfs(m) = b[m]
                /\ \A n \in 0 .. m : AfterRounds(b[n], n)
<1>1. PICK next : next = [s \in Ring |-> IF Round(s) \in Ring THEN Round(s) ELSE s]
  OBVIOUS
<1>2. next \in [Ring -> Ring]
  BY <1>1
<1>3. PICK f \in [0 .. m -> Ring] : Iterates(m, FirstRing, next, f)
  BY <1>2, NaiveStarts, IterateUpTo
<1>4. PICK T : T = {n \in 0 .. m : AfterRounds(f[n], n)}
  OBVIOUS
<1>5. 0 \in T
  <2>1. f[0] = FirstRing /\ 0 \in 0 .. m
    BY <1>3 DEF Iterates
  <2> QED
    BY <1>4, <2>1, NaiveStarts
<1>6. ASSUME NEW n \in 1 .. m, AfterRounds(f[n - 1], n - 1)
      PROVE  f[n] = Round(f[n - 1]) /\ AfterRounds(f[n], n)
  <2>1. n - 1 \in Nat /\ n - 1 \in 0 .. m /\ (n - 1) + 1 = n
    OBVIOUS
  <2>2. f[n - 1] \in Ring /\ f[n] = next[f[n - 1]]
    BY <1>3, <2>1 DEF Iterates
  <2>3. Round(f[n - 1]) \in Ring /\ AfterRounds(Round(f[n - 1]), (n - 1) + 1)
    BY <1>6, <2>1, RoundKeeps
  <2>4. next[f[n - 1]] = Round(f[n - 1])
    BY <1>1, <2>2, <2>3
  <2> QED
    BY <2>1, <2>2, <2>3, <2>4
<1>7. 0 .. m \subseteq T
  <2>1. ASSUME NEW n \in 1 .. m, n - 1 \in T
        PROVE  n \in T
    <3>1. n \in 0 .. m
      OBVIOUS
    <3> QED
      BY <1>4, <1>6, <2>1, <3>1
  <2> QED
    BY <1>5, <2>1, UpTo
<1>8. \A n \in 0 .. m : AfterRounds(f[n], n)
  BY <1>4, <1>7
<1>9. RoundsFrom(m, f)
  <2>1. \A n \in 1 .. m : n - 1 \in 0 .. m
    OBVIOUS
  <2> QED
    BY <1>3, <1>6, <1>8, <2>1 DEF RoundsFrom, Iterates
<1>10. PICK b : b = CHOOSE c : c =
         [n \in 0 .. m |-> IF n = 0 THEN FirstRing ELSE Round(c[n - 1])]
  OBVIOUS
<1>11. f = [n \in 0 .. m |-> IF n = 0 THEN FirstRing ELSE Round(f[n - 1])]
  <2>1. \A n \in 0 .. m : n # 0 => n \in 1 .. m
    OBVIOUS
  <2>2. f = [n \in 0 .. m |-> f[n]]
    OBVIOUS
  <2> QED
    BY <1>9, <2>1, <2>2 DEF RoundsFrom
<1>12. b = [n \in 0 .. m |-> IF n = 0 THEN FirstRing ELSE Round(b[n - 1])]
  BY <1>10, <1>11
<1>13. naivebfs(m) = b[m]
  BY <1>10 DEF naivebfs, FirstRing, Round
<1>14. b = f
  <2>1. b = [n \in 0 .. m |-> b[n]] /\ f = [n \in 0 .. m |-> f[n]] /\ b[0] = f[0]
    BY <1>11, <1>12
  <2>2. ASSUME NEW n \in 1 .. m, b[n - 1] = f[n - 1]
        PROVE  b[n] = f[n]
    <3>1. n \in 0 .. m /\ n # 0
      OBVIOUS
    <3>2. b[n] = Round(b[n - 1])
      BY <1>12, <3>1
    <3> QED
      BY <1>9, <2>2, <3>2 DEF RoundsFrom
  <2>3. AgreeStepwise(m, b, f)
    BY <2>1, <2>2 DEF AgreeStepwise
  <2> QED
    BY <2>3, SameUpTo
<1> QED
  BY <1>8, <1>9, <1>13, <1>14

\* NaiveWithin is what its equations say.
NaiveWithinSteps ==
  /\ NaiveWithin[0] = {source}
  /\ \A n \in 1 .. vertexNum :
       NaiveWithin[n]
       = NaiveWithin[n - 1] \cup UNION {ToSet(NaiveSees(u)) : u \in NaiveWithin[n - 1]}

LEMMA NaiveWithinUnfolds == GraphTyped => NaiveWithinSteps
<1> SUFFICES ASSUME GraphTyped
             PROVE  NaiveWithinSteps
  OBVIOUS
<1> DEFINE N == vertexNum
           Step(near) == near \cup UNION {ToSet(NaiveSees(u)) : u \in near}
<1>0. N \in Nat /\ {source} \in SUBSET Vertex
  BY SizeAssumption, SourceAssumption
<1>1. \A near \in SUBSET Vertex : Step(near) \in SUBSET Vertex
  <2>1. ASSUME NEW u \in Vertex
        PROVE  ToSet(NaiveSees(u)) \subseteq Vertex
    <3>1. PICK n \in Nat : /\ NaiveSees(u) \in [1 .. n -> Vertex]
                           /\ ToSet(NaiveSees(u)) = {NaiveSees(u)[k] : k \in 1 .. n}
      BY NaiveSeesFacts
    <3> QED
      BY <3>1
  <2> QED
    BY <2>1
<1> HIDE DEF N, Step
<1>2. PICK next : next = [near \in SUBSET Vertex |-> Step(near)]
  OBVIOUS
<1>3. next \in [SUBSET Vertex -> SUBSET Vertex]
  BY <1>1, <1>2
<1>4. PICK f \in [0 .. N -> SUBSET Vertex] : Iterates(N, {source}, next, f)
  BY <1>0, <1>3, IterateUpTo
<1>5. f[0] = {source} /\ \A n \in 1 .. N : f[n] = Step(f[n - 1])
  <2>1. \A n \in 1 .. N : n - 1 \in 0 .. N
    BY <1>0
  <2>2. \A n \in 1 .. N : f[n - 1] \in SUBSET Vertex
    BY <2>1
  <2> QED
    BY <1>2, <1>4, <2>2 DEF Iterates
<1>6. f = [n \in 0 .. N |-> IF n = 0 THEN {source} ELSE Step(f[n - 1])]
  <2>1. \A n \in 0 .. N : n # 0 => n \in 1 .. N
    BY <1>0
  <2>2. f = [n \in 0 .. N |-> f[n]]
    OBVIOUS
  <2> QED
    BY <1>5, <2>1, <2>2
<1>7. NaiveWithin = [n \in 0 .. N |-> IF n = 0 THEN {source} ELSE Step(NaiveWithin[n - 1])]
  BY <1>6 DEF NaiveWithin, N, Step
<1>8. NaiveWithin[0] = {source} /\ \A n \in 1 .. N : NaiveWithin[n] = Step(NaiveWithin[n - 1])
  <2>1. 0 \in 0 .. N /\ \A n \in 1 .. N : n \in 0 .. N /\ n # 0
    BY <1>0
  <2> QED
    BY <1>7, <2>1
<1> QED
  BY <1>8 DEF NaiveWithinSteps, N, Step

\* When every vertex of the queue was taken out, the distances are the lengths
\* of shortest paths.
LEMMA NaiveDistances ==
  ASSUME GraphTyped, NEW s, NEW g, Keeps(s, g), Expanded(g, g.p), g.p = Len(g.h)
  PROVE  \A n \in 0 .. vertexNum : NaiveWithin[n] = {v \in Members(g.h) : g.d[v] <= n}
<1>1. NaiveWithinSteps /\ vertexNum \in Nat
  BY NaiveWithinUnfolds, SizeAssumption
<1>2. /\ Members(g.h) \subseteq Vertex /\ source \in Members(g.h)
      /\ Members(g.h) = {g.h[k] : k \in 1 .. Len(g.h)}
  BY KeepsFacts
<1>3. g.d[source] = 0 /\ \A v \in Members(g.h) : g.d[v] \in Nat
  BY <1>2 DEF Keeps, Steady, History
<1>4. \A v \in Members(g.h) \ {source} :
        /\ s.parent[v] \in Members(g.h)
        /\ g.d[v] = g.d[s.parent[v]] + 1
        /\ v \in ToSet(NaiveSees(s.parent[v]))
  BY DEF Keeps, Rooted
<1>5. \A u \in Members(g.h) : \A v \in ToSet(NaiveSees(u)) :
        v \in Members(g.h) /\ g.d[v] <= g.d[u] + 1
  BY <1>2 DEF Expanded, Reached
<1>6. PICK M, d : M = Members(g.h) /\ d = g.d
  OBVIOUS
<1>7. PICK T : T = {n \in 0 .. vertexNum : NaiveWithin[n] = {v \in M : d[v] <= n}}
  OBVIOUS
<1>8. 0 \in T
  <2>1. ASSUME NEW v \in M, d[v] <= 0
        PROVE  v = source
    <3>1. CASE v # source
      <4>1. d[v] = d[s.parent[v]] + 1 /\ d[s.parent[v]] \in Nat
        BY <1>3, <1>4, <1>6, <3>1
      <4> QED
        BY <2>1, <4>1
    <3> QED
      BY <3>1
  <2>2. {source} = {v \in M : d[v] <= 0}
    BY <1>2, <1>3, <1>6, <2>1
  <2>3. 0 \in 0 .. vertexNum
    BY <1>1
  <2> QED
    BY <1>1, <1>7, <2>2, <2>3 DEF NaiveWithinSteps
<1>9. ASSUME NEW n \in 1 .. vertexNum, n - 1 \in T
      PROVE  n \in T
  <2>1. NaiveWithin[n - 1] = {v \in M : d[v] <= n - 1} /\ n \in 0 .. vertexNum
    BY <1>1, <1>7, <1>9
  <2>2. NaiveWithin[n] = NaiveWithin[n - 1]
                         \cup UNION {ToSet(NaiveSees(u)) : u \in NaiveWithin[n - 1]}
    BY <1>1 DEF NaiveWithinSteps
  <2>3. ASSUME NEW v \in NaiveWithin[n]
        PROVE  v \in M /\ d[v] <= n
    <3>1. CASE v \in NaiveWithin[n - 1]
      <4>1. v \in M /\ d[v] <= n - 1 /\ d[v] \in Nat
        BY <1>3, <1>6, <2>1, <3>1
      <4> QED
        BY <4>1
    <3>2. CASE v \notin NaiveWithin[n - 1]
      <4>1. PICK u \in M : d[u] <= n - 1 /\ v \in ToSet(NaiveSees(u))
        BY <2>1, <2>2, <3>2
      <4>2. v \in M /\ d[v] <= d[u] + 1 /\ d[v] \in Nat /\ d[u] \in Nat
        BY <1>3, <1>5, <1>6, <4>1
      <4> QED
        BY <4>1, <4>2
    <3> QED
      BY <3>1, <3>2
  <2>4. ASSUME NEW v \in M, d[v] <= n
        PROVE  v \in NaiveWithin[n]
    <3>1. CASE d[v] <= n - 1
      BY <2>1, <2>2, <3>1
    <3>2. CASE ~(d[v] <= n - 1)
      <4>1. d[v] \in Nat /\ d[v] # 0
        BY <1>3, <1>6, <3>2
      <4>2. v # source
        BY <1>3, <1>6, <4>1
      <4>3. PICK u \in M : d[v] = d[u] + 1 /\ v \in ToSet(NaiveSees(u))
        BY <1>4, <1>6, <4>2
      <4>4. d[u] <= n - 1
        <5>1. d[u] \in Nat
          BY <1>3, <1>6
        <5> QED
          BY <2>4, <4>3, <5>1
      <4> QED
        BY <2>1, <2>2, <4>3, <4>4
    <3> QED
      BY <3>1, <3>2
  <2>5. NaiveWithin[n] = {v \in M : d[v] <= n}
    BY <2>3, <2>4
  <2> QED
    BY <1>7, <2>1, <2>5
<1>10. 0 .. vertexNum \subseteq T
  BY <1>1, <1>8, <1>9, UpTo
<1> QED
  BY <1>6, <1>7, <1>10

\* naivebfs.cpp: for every graph of more than one vertex bfs() ends when, and
\* only when, the queue is really empty, although nowIdx = endIdx would also tell
\* of a full one; it has then found what it could reach, by shortest paths.
THEOREM NaiveAlwaysShortest == Spec => []NaiveTreeIsShortest
<1>1. ASSUME IInv, NEW s, s = naivebfs(vertexNum)
      PROVE  /\ s.nowIdx = s.endIdx
             /\ \A v \in Vertex : s.parent[v] # -1 <=> v \in NaiveWithin[vertexNum] \ {source}
             /\ \A n \in 1 .. vertexNum : \A v \in NaiveWithin[n] \ NaiveWithin[n - 1] :
                  /\ s.parent[v] \in NaiveWithin[n - 1]
                  /\ n > 1 => s.parent[v] \notin NaiveWithin[n - 2]
                  /\ v \in ToSet(NaiveSees(s.parent[v]))
  <2>1. GraphTyped /\ vertexNum \in Nat /\ vertexNum \in 0 .. vertexNum
    BY <1>1, GraphFacts, SizeAssumption DEF IInv
  <2>2. AfterRounds(s, vertexNum)
    BY <1>1, <2>1, NaivebfsUnfolds
  <2>3. PICK g \in History :
          Keeps(s, g) /\ Expanded(g, g.p) /\ (g.p = vertexNum \/ g.p = Len(g.h))
    BY <2>2 DEF AfterRounds
  <2>4. g.p = Len(g.h)
    <3>1. Len(g.h) \in 1 .. vertexNum /\ g.p \in 0 .. Len(g.h)
      BY <2>3, KeepsFacts
    <3> QED
      BY <2>1, <2>3, <3>1
  <2>5. PICK M, d : M = Members(g.h) /\ d = g.d
    OBVIOUS
  <2>6. \A n \in 0 .. vertexNum : NaiveWithin[n] = {v \in M : d[v] <= n}
    BY <2>1, <2>3, <2>4, <2>5, NaiveDistances
  <2>7. /\ M \subseteq Vertex /\ source \in M /\ d[source] = 0
        /\ \A v \in M : d[v] \in Nat /\ d[v] <= vertexNum
    <3>1. /\ M \subseteq Vertex /\ source \in M /\ M = {g.h[k] : k \in 1 .. Len(g.h)}
          /\ Len(g.h) \in 1 .. vertexNum
      BY <2>3, <2>5, KeepsFacts
    <3>2. d[source] = 0 /\ \A k \in 1 .. Len(g.h) : d[g.h[k]] <= k - 1
      BY <2>3, <2>5 DEF Keeps, Steady
    <3>3. \A v \in Vertex : d[v] \in Nat
      BY <2>5 DEF History
    <3>4. ASSUME NEW k \in 1 .. Len(g.h)
          PROVE  d[g.h[k]] <= vertexNum
      <4>1. d[g.h[k]] <= k - 1 /\ d[g.h[k]] \in Nat /\ k \in 1 .. vertexNum
        BY <2>1, <3>1, <3>2, <3>3
      <4> QED
        BY <2>1, <4>1
    <3> QED
      BY <3>1, <3>2, <3>3, <3>4
  <2>8. /\ \A v \in Vertex : s.parent[v] # -1 <=> v \in M \ {source}
        /\ \A v \in M \ {source} : /\ s.parent[v] \in M
                                   /\ d[v] = d[s.parent[v]] + 1
                                   /\ v \in ToSet(NaiveSees(s.parent[v]))
    BY <2>3, <2>5 DEF Keeps, Rooted
  <2>9. s.nowIdx = s.endIdx
    BY <2>3, <2>4, TwoIndices
  <2>10. \A v \in Vertex : s.parent[v] # -1 <=> v \in NaiveWithin[vertexNum] \ {source}
    BY <2>1, <2>6, <2>7, <2>8
  <2>11. ASSUME NEW n \in 1 .. vertexNum, NEW v \in NaiveWithin[n] \ NaiveWithin[n - 1]
         PROVE  /\ s.parent[v] \in NaiveWithin[n - 1]
                /\ n > 1 => s.parent[v] \notin NaiveWithin[n - 2]
                /\ v \in ToSet(NaiveSees(s.parent[v]))
    <3>1. n \in 0 .. vertexNum /\ n - 1 \in 0 .. vertexNum /\ (n > 1 => n - 2 \in 0 .. vertexNum)
      BY <2>1
    <3>2. v \in M /\ d[v] <= n /\ ~(d[v] <= n - 1) /\ d[v] \in Nat
      BY <2>6, <2>7, <3>1
    <3>3. d[v] = n /\ v # source
      BY <2>7, <3>2
    <3>4. PICK u \in M : u = s.parent[v] /\ d[v] = d[u] + 1 /\ v \in ToSet(NaiveSees(u))
      BY <2>8, <3>2, <3>3
    <3>5. d[u] = n - 1
      BY <2>7, <3>3, <3>4
    <3>6. u \in NaiveWithin[n - 1]
      BY <2>6, <3>1, <3>5
    <3>7. n > 1 => u \notin NaiveWithin[n - 2]
      <4>1. ~(d[u] <= n - 2)
        BY <3>5
      <4> QED
        BY <2>6, <3>1, <4>1
    <3> QED
      BY <3>4, <3>6, <3>7
  <2> QED
    BY <2>9, <2>10, <2>11
<1>2. IInv => NaiveTreeIsShortest
  BY <1>1 DEF NaiveTreeIsShortest
<1> QED
  BY <1>2, Inductive, PTL
================================================================================
