------------------------- MODULE PrefetchQueueProofs -------------------------
(***************************************************************************)
(* For every set of workers and every prefetch distance: the array of      *)
(* lists is always dealt round-robin, its lengths stay balanced as         *)
(* check_invariants() demands, and it implements a first-in first-out      *)
(* queue.  The proofs are about the build that constructs its lists        *)
(* (USING_MALLOC undefined).                                               *)
(***************************************************************************)
EXTENDS PrefetchQueue, Induction, TLAPS

------------------------------------------------------------------------------
\* Arithmetic of the round-robin indices.

\* Division by the number of lists.
LEMMA Quotient ==
  ASSUME NEW n \in Nat \ {0}, NEW a \in Nat
  PROVE  a % n \in 0 .. (n - 1) /\ a \div n \in Nat /\ a = n * (a \div n) + (a % n)
BY SMTT(20)

\* Quotient and remainder are determined by the number they come from.
LEMMA QuotientUnique ==
  ASSUME NEW n \in Nat \ {0},
         NEW q \in Int, NEW r \in 0 .. (n - 1),
         NEW p \in Int, NEW s \in 0 .. (n - 1),
         n * q + r = n * p + s
  PROVE  q = p /\ r = s
<1>1. n * (q - p) = s - r
  BY SMTT(20)
<1>2. CASE q = p
  BY <1>1, <1>2, SMTT(20)
<1>3. CASE q >= p + 1
  <2>1. n * (q - p) >= n
    BY <1>3, SMTT(20)
  <2> QED
    BY <2>1, <1>1, SMTT(20)
<1>4. CASE p >= q + 1
  <2>1. n * (p - q) >= n
    BY <1>4, SMTT(20)
  <2>2. n * (p - q) = r - s
    BY SMTT(20)
  <2> QED
    BY <2>1, <2>2, SMTT(20)
<1> QED
  BY <1>2, <1>3, <1>4, SMTT(20)

\* Counting one more worker moves the remainder one list on, and starts a
\* new round when it passes the last list.
LEMMA QuotientSucc ==
  ASSUME NEW n \in Nat \ {0}, NEW a \in Nat
  PROVE  /\ (a + 1) % n = IF (a % n) + 1 = n THEN 0 ELSE (a % n) + 1
         /\ (a + 1) \div n = IF (a % n) + 1 = n THEN (a \div n) + 1 ELSE a \div n
<1> DEFINE q == a \div n  r == a % n  p == (a + 1) \div n  s == (a + 1) % n
<1>1. r \in 0 .. (n - 1) /\ q \in Nat /\ a = n * q + r
  BY Quotient
<1>2. s \in 0 .. (n - 1) /\ p \in Nat /\ a + 1 = n * p + s
  <2>1. a + 1 \in Nat
    OBVIOUS
  <2> QED
    BY <2>1, Quotient
<1> SUFFICES /\ s = IF r + 1 = n THEN 0 ELSE r + 1
             /\ p = IF r + 1 = n THEN q + 1 ELSE q
  OBVIOUS
<1> HIDE DEF q, r, p, s
<1>3. CASE r + 1 = n
  <2>1. n * (q + 1) + 0 = n * p + s
    BY <1>1, <1>2, <1>3, SMTT(20)
  <2>2. q + 1 = p /\ 0 = s
    BY <2>1, <1>1, <1>2, QuotientUnique, SMTT(20)
  <2> QED
    BY <2>2, <1>3
<1>4. CASE r + 1 # n
  <2>1. n * q + (r + 1) = n * p + s /\ r + 1 \in 0 .. (n - 1)
    BY <1>1, <1>2, <1>4, SMTT(20)
  <2>2. q = p /\ r + 1 = s
    BY <2>1, <1>1, <1>2, QuotientUnique, SMTT(20)
  <2> QED
    BY <2>2, <1>4
<1> QED
  BY <1>3, <1>4

\* The remainder is the number itself exactly below the number of lists.
LEMMA QuotientSmall ==
  ASSUME NEW n \in Nat \ {0}, NEW a \in Nat
  PROVE  IF a < n THEN a % n = a /\ a \div n = 0 ELSE a % n < a
<1> DEFINE q == a \div n  r == a % n
<1>1. r \in 0 .. (n - 1) /\ q \in Nat /\ a = n * q + r
  BY Quotient
<1> SUFFICES IF a < n THEN r = a /\ q = 0 ELSE r < a
  OBVIOUS
<1> HIDE DEF q, r
<1>2. CASE a < n
  <2>1. n * 0 + a = n * q + r /\ a \in 0 .. (n - 1)
    BY <1>1, <1>2, SMTT(20)
  <2> QED
    BY <2>1, <1>1, <1>2, QuotientUnique, SMTT(20)
<1>3. CASE ~(a < n)
  BY <1>1, <1>3
<1> QED
  BY <1>2, <1>3

LEMMA NumQueues == num_queues \in Nat \ {0}
BY DistanceAssumption DEF num_queues

------------------------------------------------------------------------------
\* Going around the array.

\* The list j places after dq_index: every list, each for one j.
LEMMA FwdFacts ==
  ASSUME dq_index \in Slot
  PROVE  /\ \A j \in Slot : Fwd(j) \in Slot
         /\ \A i, j \in Slot : Fwd(i) = Fwd(j) => i = j
         /\ \A i \in Slot : \E j \in Slot : i = Fwd(j)
         /\ Fwd(0) = dq_index
<1>1. /\ \A j \in Slot : Fwd(j) \in Slot
      /\ \A i, j \in Slot : Fwd(i) = Fwd(j) => i = j
      /\ Fwd(0) = dq_index
  BY NumQueues DEF Slot, Fwd
<1>2. ASSUME NEW i \in Slot
      PROVE  \E j \in Slot : i = Fwd(j)
  <2> DEFINE j == IF i >= dq_index THEN i - dq_index ELSE i - dq_index + num_queues
  <2>1. j \in Slot /\ i = Fwd(j)
    BY NumQueues DEF Slot, Fwd
  <2> QED
    BY <2>1
<1> QED
  BY <1>1, <1>2

LEMMA AdvanceSlot ==
  ASSUME NEW i \in Slot
  PROVE  Advance(i) \in Slot
BY NumQueues DEF Slot, Advance

------------------------------------------------------------------------------
\* The invariant: the type invariant and the shape of the structure.
IInv == TypeOK /\ DealtRoundRobin

\* What the shape says where the next call will look.
LEMMA Ends ==
  ASSUME IInv
  PROVE  /\ queues[dq_index].head = IF order = << >> THEN NULL ELSE order[1]
         /\ (queues[eq_index].head = NULL) <=> Len(order) < num_queues
         /\ Len(order) >= num_queues =>
              queues[eq_index].tail = order[Len(order) - num_queues + 1]
<1> USE NumQueues, NullAssumption DEF IInv, TypeOK, DealtRoundRobin
<1>1. queues[dq_index].head = IF order = << >> THEN NULL ELSE order[1]
  <2>1. 0 \in Slot
    BY DEF Slot
  <2>2. queues[Fwd(0)].head = IF 0 < Len(order) THEN order[0 + 1] ELSE NULL
    BY <2>1 DEF Heads
  <2> QED
    BY <2>2, FwdFacts
<1>2. (queues[eq_index].head = NULL) <=> Len(order) < num_queues
  <2> DEFINE r == Len(order) % num_queues
  <2>1. r \in Slot /\ (Len(order) < num_queues => r = Len(order))
                   /\ (Len(order) >= num_queues => r < Len(order))
    <3>1. Len(order) \in Nat
      OBVIOUS
    <3>2. r \in Slot
      BY <3>1, Quotient DEF Slot
    <3> QED
      BY <3>1, <3>2, QuotientSmall
  <2>2. queues[eq_index].head = IF r < Len(order) THEN order[r + 1] ELSE NULL
    BY <2>1 DEF Heads
  <2> HIDE DEF r
  <2>3. r < Len(order) => order[r + 1] \in Worker
    BY <2>1 DEF Slot
  <2> QED
    BY <2>1, <2>2, <2>3
<1>3. Len(order) >= num_queues =>
        queues[eq_index].tail = order[Len(order) - num_queues + 1]
  <2>1. Back(num_queues - 1) = eq_index /\ num_queues - 1 \in Slot
    BY DEF Back, Slot
  <2> QED
    BY <2>1 DEF Tails
<1> QED
  BY <1>1, <1>2, <1>3

LEMMA InitInv ==
  ASSUME UsingMalloc = FALSE, Init
  PROVE  IInv
<1> USE NumQueues, NullAssumption DEF Init, AllocatedQueues, Constructed
<1>1. TypeOK
  BY DEF TypeOK, ThreadQueues, Pointer, Slot
<1>2. 0 % num_queues = 0 /\ 0 \div num_queues = 0
  BY QuotientSmall
<1>3. \A j \in Slot : Fwd(j) \in Slot
  BY <1>1, FwdFacts DEF TypeOK
<1>4. DealtRoundRobin
  <2>1. len = Len(order) /\ \A k, l \in 1 .. Len(order) : order[k] = order[l] => k = l
    OBVIOUS
  <2>2. eq_index = Fwd(Len(order) % num_queues)
    BY <1>2 DEF Fwd
  <2>3. Links /\ Tails
    BY DEF Links, Tails, Slot
  <2>4. Heads /\ Lengths
    BY <1>2, <1>3 DEF Heads, Lengths, Slot
  <2> QED
    BY <2>1, <2>2, <2>3, <2>4 DEF DealtRoundRobin
<1> QED
  BY <1>1, <1>4 DEF IInv

LEMMA ReinitInv ==
  ASSUME UsingMalloc = FALSE, IInv, Reinit
  PROVE  IInv'
<1> USE NumQueues, NullAssumption DEF IInv, Reinit, AllocatedQueues, Constructed
<1>1. TypeOK'
  BY DEF TypeOK, ThreadQueues, Pointer, Slot
<1>2. order = << >>
  <2>1. order \in Seq(Worker) /\ Len(order) = 0
    BY DEF TypeOK, DealtRoundRobin
  <2> QED
    BY <2>1
<1>3. 0 % num_queues = 0 /\ 0 \div num_queues = 0
  BY QuotientSmall
<1>4. \A j \in Slot : Fwd(j)' \in Slot /\ Fwd(j)' = Fwd(j)
  BY <1>1, FwdFacts DEF TypeOK, Fwd
<1>5. DealtRoundRobin'
  <2>1. len' = Len(order') /\ \A k, l \in 1 .. Len(order') : order'[k] = order'[l] => k = l
    BY DEF DealtRoundRobin
  <2>2. eq_index' = Fwd(Len(order) % num_queues)'
    BY <1>2, <1>3 DEF DealtRoundRobin, Fwd
  <2>3. Links' /\ Tails'
    BY <1>2 DEF Links, Tails, Slot
  <2>4. Heads' /\ Lengths'
    BY SMTT(20), <1>2, <1>3, <1>4 DEF Heads, Lengths, Slot
  <2> QED
    BY <2>1, <2>2, <2>3, <2>4 DEF DealtRoundRobin
<1> QED
  BY <1>1, <1>5

------------------------------------------------------------------------------
\* enqueue() of a worker that is in no list.
LEMMA EnqueueInv ==
  ASSUME IInv, NEW t \in Worker, Enqueue(t)
  PROVE  IInv'
<1> DEFINE n == num_queues
           L == Len(order)
           r == L % n
           b == L \div n
           tq == queues[eq_index]
<1> USE NumQueues, NullAssumption, WildAssumption
<1>1. /\ L \in Nat /\ r \in Slot /\ b \in Nat
      /\ (L < n => r = L) /\ (L >= n => r < L)
      /\ (L + 1) % n = IF r + 1 = n THEN 0 ELSE r + 1
      /\ (L + 1) \div n = IF r + 1 = n THEN b + 1 ELSE b
  <2>1. L \in Nat
    BY DEF IInv, TypeOK
  <2>2. r \in Slot /\ b \in Nat
    BY <2>1, Quotient DEF Slot
  <2>3. (L < n => r = L) /\ (L >= n => r < L)
    BY <2>1, QuotientSmall
  <2>4. /\ (L + 1) % n = IF r + 1 = n THEN 0 ELSE r + 1
        /\ (L + 1) \div n = IF r + 1 = n THEN b + 1 ELSE b
    BY <2>1, QuotientSucc
  <2> QED
    BY <2>1, <2>2, <2>3, <2>4
<1>2. /\ order \in Seq(Worker) /\ order' \in Seq(Worker) /\ Len(order') = L + 1
      /\ order'[L + 1] = t /\ \A k \in 1 .. L : order'[k] = order[k]
      /\ \A k \in 1 .. L : order[k] \in Worker /\ order[k] # t
  BY DEF IInv, TypeOK, Enqueue, Link, Queued
<1>3. /\ queues \in [Slot -> ThreadQueues] /\ next \in [Node -> Pointer]
      /\ eq_index \in Slot /\ dq_index \in Slot /\ tq \in ThreadQueues
      /\ t \in Node /\ tq.tail \in Pointer
      /\ (tq.head = NULL <=> L < n)
      /\ (L >= n => tq.tail = order[L - n + 1])
  BY Ends DEF IInv, TypeOK, ThreadQueues, Node
<1>4. /\ queues'[eq_index].head = IF L < n THEN t ELSE tq.head
      /\ queues'[eq_index].tail = t
      /\ queues'[eq_index].len = tq.len + 1
      /\ \A i \in Slot \ {eq_index} : queues'[i] = queues[i]
      /\ dq_index' = dq_index
      /\ eq_index' = Advance(eq_index)
      /\ len' = len + 1
  BY <1>3 DEF Enqueue, Link, EnqueueQueue
<1>5. \A j \in Slot : Fwd(j)' = Fwd(j)
  BY <1>4 DEF Fwd
<1>6. TypeOK'
  <2>1. EnqueueQueue(tq, t) \in ThreadQueues
    BY <1>3 DEF EnqueueQueue, ThreadQueues, Pointer
  <2>2. queues' \in [Slot -> ThreadQueues]
    BY <2>1, <1>3 DEF Enqueue, Link
  <2>3. next' \in [Node -> Pointer]
    BY <1>3 DEF Enqueue, Link, EnqueueNext, Pointer, Node
  <2> QED
    BY <1>2, <1>4, <2>2, <2>3, AdvanceSlot DEF IInv, TypeOK, Enqueue, Link
<1>7. len' = Len(order')
      /\ \A k, l \in 1 .. Len(order') : order'[k] = order'[l] => k = l
  <2>1. len = L /\ \A k, l \in 1 .. L : order[k] = order[l] => k = l
    BY DEF IInv, DealtRoundRobin
  <2>2. \A k \in 1 .. Len(order') : k = L + 1 \/ k \in 1 .. L
    BY <1>1, <1>2
  <2> HIDE DEF L
  <2> QED
    BY <1>1, <1>2, <1>4, <2>1, <2>2
<1>8. /\ eq_index = Fwd(r)
      /\ \A j \in Slot : queues[Fwd(j)].len = b + (IF j < r THEN 1 ELSE 0)
  BY DEF IInv, DealtRoundRobin, Lengths
<1> HIDE DEF r, b
<1>9. eq_index' = Fwd(Len(order) % n)'
  <2>1. Len(order') % n = IF r + 1 = n THEN 0 ELSE r + 1
    BY <1>1, <1>2
  <2>2. Advance(Fwd(r)) = IF r + 1 = n THEN Fwd(0) ELSE Fwd(r + 1)
    BY <1>1, <1>3 DEF Advance, Fwd, Slot
  <2>3. Len(order') % n \in Slot
    BY <1>1, <2>1 DEF Slot
  <2> QED
    BY <1>4, <1>5, <1>8, <2>1, <2>2, <2>3
<1>10. Links'
  <2>1. CASE L < n
    <3>1. next' = [next EXCEPT ![t] = NULL]
      BY <1>3, <2>1 DEF Enqueue, Link, EnqueueNext
    <3>2. next'[t] = NULL /\ \A k \in 1 .. L : next'[order[k]] = next[order[k]]
      BY <1>2, <1>3, <3>1 DEF Node
    <3> QED
      BY SMTT(20), <1>1, <1>2, <2>1, <3>2 DEF IInv, DealtRoundRobin, Links
  <2>2. CASE L >= n
    <3> DEFINE p == L - n + 1
    <3>1. p \in 1 .. L /\ tq.tail = order[p]
      BY <1>1, <1>3, <2>2
    <3>2. next' = [next EXCEPT ![order[p]] = t, ![t] = NULL]
      BY <1>1, <1>3, <2>2, <3>1 DEF Enqueue, Link, EnqueueNext
    <3>3. /\ next'[t] = NULL /\ next'[order[p]] = t
          /\ \A k \in 1 .. L : k # p => next'[order[k]] = next[order[k]]
      BY <1>2, <1>3, <3>1, <3>2 DEF Node, IInv, DealtRoundRobin
    <3>4. \A k \in 1 .. L : next[order[k]] = IF k + n <= L THEN order[k + n] ELSE NULL
      BY DEF IInv, DealtRoundRobin, Links
    <3>5. ASSUME NEW k \in 1 .. L
          PROVE  next'[order'[k]] = IF k + n <= L + 1 THEN order'[k + n] ELSE NULL
      <4>1. CASE k = p
        <5>1. k + n = L + 1
          BY <1>1, <4>1
        <5>2. next'[order'[k]] = t
          BY <1>2, <3>3, <4>1
        <5> QED
          BY <1>1, <1>2, <5>1, <5>2
      <4>2. CASE k # p
        <5>1. next'[order'[k]] = IF k + n <= L THEN order[k + n] ELSE NULL
          BY <1>2, <3>3, <3>4, <4>2
        <5>2. k + n <= L => order'[k + n] = order[k + n]
          BY <1>1, <1>2
        <5>3. (k + n <= L + 1) <=> (k + n <= L)
          BY <1>1, <4>2
        <5> QED
          BY <5>1, <5>2, <5>3
      <4> QED
        BY <4>1, <4>2
    <3>6. next'[order'[L + 1]] = NULL /\ ~(L + 1 + n <= L + 1)
      BY <1>1, <1>2, <3>3
    <3> QED
      BY SMTT(20), <1>1, <1>2, <3>5, <3>6 DEF Links
  <2> QED
    BY <1>1, <2>1, <2>2
<1>11. Heads'
  <2>1. ASSUME NEW j \in Slot
        PROVE  queues'[Fwd(j)].head = IF j < L + 1 THEN order'[j + 1] ELSE NULL
    <3>1. queues[Fwd(j)].head = IF j < L THEN order[j + 1] ELSE NULL
      BY DEF IInv, DealtRoundRobin, Heads
    <3>2. CASE j = r
      <4>1. Fwd(j) = eq_index
        BY <1>8, <3>2
      <4>2. CASE L < n
        BY <1>1, <1>2, <1>4, <3>2, <4>1, <4>2
      <4>3. CASE L >= n
        <5>1. j + 1 \in 1 .. L
          BY <1>1, <3>2, <4>3 DEF Slot
        <5>2. tq.head = order[j + 1]
          BY <1>1, <3>1, <4>1, <5>1 DEF Slot
        <5>3. queues'[Fwd(j)].head = tq.head
          BY <1>1, <1>4, <4>1, <4>3
        <5>4. order'[j + 1] = order[j + 1]
          BY <1>2, <5>1
        <5>5. j < L + 1
          BY <1>1, <5>1 DEF Slot
        <5> QED
          BY <5>2, <5>3, <5>4, <5>5
      <4> QED
        BY <1>1, <4>2, <4>3
    <3>3. CASE j # r
      <4>1. Fwd(j) \in Slot \ {eq_index}
        BY <1>1, <1>3, <1>8, <3>3, FwdFacts
      <4>2. j < L + 1 <=> j < L
        BY <1>1, <3>3 DEF Slot
      <4>3. queues'[Fwd(j)] = queues[Fwd(j)]
        BY <1>4, <4>1
      <4>4. ASSUME j < L
            PROVE  order'[j + 1] = order[j + 1]
        <5>1. j + 1 \in 1 .. L
          BY <1>1, <4>4 DEF Slot
        <5> QED
          BY <1>2, <5>1
      <4> QED
        BY <3>1, <4>2, <4>3, <4>4
    <3> QED
      BY <3>2, <3>3
  <2> QED
    BY <1>2, <1>5, <2>1 DEF Heads
<1>12. Tails'
  <2>1. Back(0)' = eq_index
    BY <1>3, <1>4 DEF Back, Advance, Slot
  <2>2. ASSUME NEW m \in Slot, m # 0
        PROVE  Back(m)' = Back(m - 1) /\ m - 1 \in Slot /\ Back(m - 1) \in Slot \ {eq_index}
    BY <1>3, <1>4, <2>2 DEF Back, Advance, Slot
  <2>3. ASSUME NEW m \in Slot, m < Len(order')
        PROVE  queues'[Back(m)'].tail = order'[Len(order') - m]
    <3>1. CASE m = 0
      BY <1>1, <1>2, <1>4, <2>1, <3>1
    <3>2. CASE m # 0
      <4>1. queues[Back(m - 1)].tail = order[L - (m - 1)]
        BY <1>1, <1>2, <2>2, <2>3, <3>2 DEF IInv, DealtRoundRobin, Tails, Slot
      <4>2. L - (m - 1) = Len(order') - m /\ Len(order') - m \in 1 .. L
        BY <1>1, <1>2, <2>3, <3>2 DEF Slot
      <4> QED
        BY <1>2, <1>4, <2>2, <3>2, <4>1, <4>2
    <3> QED
      BY <3>1, <3>2
  <2> QED
    BY <2>3 DEF Tails
<1>13. Lengths'
  <2>1. ASSUME NEW j \in Slot
        PROVE  queues'[Fwd(j)].len =
                 ((L + 1) \div n) + (IF j < (L + 1) % n THEN 1 ELSE 0)
    <3>1. queues[Fwd(j)].len = b + (IF j < r THEN 1 ELSE 0)
      BY <1>8
    <3>2. CASE j = r
      BY <1>1, <1>4, <1>8, <3>1, <3>2 DEF Slot
    <3>3. CASE j # r
      <4>1. Fwd(j) \in Slot \ {eq_index}
        BY <1>1, <1>3, <1>8, <3>3, FwdFacts
      <4> QED
        BY SMTT(20), <1>1, <1>4, <3>1, <3>3, <4>1 DEF Slot
    <3> QED
      BY <3>2, <3>3
  <2> QED
    BY <1>2, <1>5, <2>1 DEF Lengths
<1> QED
  BY <1>6, <1>7, <1>9, <1>10, <1>11, <1>12, <1>13 DEF IInv, DealtRoundRobin

------------------------------------------------------------------------------
\* dequeue() of a worker.
LEMMA DequeueInv ==
  ASSUME IInv, Dequeue
  PROVE  IInv'
<1> DEFINE n == num_queues
           L == Len(order)
           M == L - 1
           r == M % n
           b == M \div n
           tq == queues[dq_index]
<1> USE NumQueues, NullAssumption, WildAssumption
<1>1. /\ order \in Seq(Worker) /\ L \in Nat /\ L >= 1 /\ M \in Nat /\ L = M + 1
      /\ tq.head = order[1]
  <2>1. order \in Seq(Worker) /\ L \in Nat
    BY DEF IInv, TypeOK
  <2>2. tq.head # NULL /\ tq.head = IF order = << >> THEN NULL ELSE order[1]
    BY Ends DEF Dequeue
  <2> QED
    BY <2>1, <2>2
<1>2. /\ r \in Slot /\ b \in Nat
      /\ L % n = IF r + 1 = n THEN 0 ELSE r + 1
      /\ L \div n = IF r + 1 = n THEN b + 1 ELSE b
  <2>1. r \in Slot /\ b \in Nat
    BY <1>1, Quotient DEF Slot
  <2>2. /\ (M + 1) % n = IF r + 1 = n THEN 0 ELSE r + 1
        /\ (M + 1) \div n = IF r + 1 = n THEN b + 1 ELSE b
    BY <1>1, QuotientSucc
  <2> QED
    BY <1>1, <2>1, <2>2
<1>3. /\ order' \in Seq(Worker) /\ Len(order') = M
      /\ \A k \in 1 .. M : order'[k] = order[k + 1]
      /\ \A k \in 1 .. L : order[k] \in Worker
      /\ len = L
      /\ \A k, l \in 1 .. L : order[k] = order[l] => k = l
  BY <1>1 DEF Dequeue, IInv, DealtRoundRobin
<1>4. /\ queues \in [Slot -> ThreadQueues] /\ next \in [Node -> Pointer]
      /\ eq_index \in Slot /\ dq_index \in Slot /\ tq \in ThreadQueues
      /\ \A k \in 1 .. L : next[order[k]] = IF k + n <= L THEN order[k + n] ELSE NULL
      /\ \A j \in Slot : queues[Fwd(j)].head = IF j < L THEN order[j + 1] ELSE NULL
      /\ \A m \in Slot : m < L => queues[Back(m)].tail = order[L - m]
      /\ \A j \in Slot : queues[Fwd(j)].len = (L \div n) + (IF j < L % n THEN 1 ELSE 0)
      /\ eq_index = Fwd(L % n)
  BY DEF IInv, TypeOK, DealtRoundRobin, Links, Heads, Tails, Lengths
<1> HIDE DEF r, b
<1>5. /\ queues'[dq_index].head = next[order[1]]
      /\ queues'[dq_index].tail = tq.tail
      /\ queues'[dq_index].len = tq.len - 1
      /\ \A i \in Slot \ {dq_index} : queues'[i] = queues[i]
      /\ dq_index' = Advance(dq_index)
      /\ eq_index' = eq_index
      /\ len' = len - 1
      /\ next' = [next EXCEPT ![order[1]] = NULL]
  BY <1>1, <1>4 DEF Dequeue, DequeueQueue, ThreadQueues
<1>6. /\ \A j \in Slot : j + 1 < n => Fwd(j)' = Fwd(j + 1) /\ j + 1 \in Slot
                                      /\ Fwd(j + 1) \in Slot \ {dq_index}
      /\ Fwd(n - 1)' = dq_index /\ n - 1 \in Slot /\ dq_index = Fwd(0) /\ 0 \in Slot
  BY <1>4, <1>5 DEF Fwd, Advance, Slot
<1>7. TypeOK'
  <2>1. tq.len \in Nat /\ tq.len >= 1
    <3>1. tq.len = (L \div n) + (IF 0 < L % n THEN 1 ELSE 0)
      BY <1>4, <1>6
    <3> QED
      BY <1>2, <3>1 DEF Slot
  <2>2. DequeueQueue(tq, next) \in ThreadQueues
    <3>1. tq.head \in Node
      BY <1>1, <1>3 DEF Node
    <3>2. next[tq.head] \in Pointer /\ tq.head # NULL
      BY <1>4, <3>1 DEF Node
    <3>3. tq.len - 1 \in Nat
      BY <2>1
    <3> QED
      BY <1>4, <3>2, <3>3 DEF DequeueQueue, ThreadQueues
  <2>3. queues' \in [Slot -> ThreadQueues]
    BY <1>4, <2>2 DEF Dequeue
  <2>4. next' \in [Node -> Pointer]
    BY <1>4, <1>5 DEF Pointer
  <2>5. ret' \in Pointer /\ len' \in Nat
    BY <1>1, <1>3, <1>4, <1>5 DEF Dequeue, ThreadQueues
  <2> QED
    BY <1>3, <1>4, <1>5, <2>3, <2>4, <2>5, AdvanceSlot DEF TypeOK
<1>8. len' = Len(order')
      /\ \A k, l \in 1 .. Len(order') : order'[k] = order'[l] => k = l
  BY <1>1, <1>3, <1>5
<1>9. eq_index' = Fwd(Len(order) % n)'
  <2>1. Len(order') % n = r
    BY <1>3 DEF r
  <2>2. ASSUME NEW j \in Slot, j = r
        PROVE  eq_index' = Fwd(j)'
    <3>1. CASE j + 1 = n
      <4>1. j = n - 1
        BY <3>1 DEF Slot
      <4>2. eq_index = Fwd(0)
        BY <1>2, <1>4, <2>2, <3>1
      <4> QED
        BY <1>5, <1>6, <4>1, <4>2
    <3>2. CASE j + 1 # n
      BY <1>2, <1>4, <1>5, <1>6, <2>2, <3>2 DEF Slot
    <3> QED
      BY <3>1, <3>2
  <2> QED
    BY <1>2, <2>1, <2>2 DEF Fwd
<1>10. Links'
  <2>1. ASSUME NEW k \in 1 .. M
        PROVE  next'[order'[k]] = IF k + n <= M THEN order'[k + n] ELSE NULL
    <3>1. k + 1 \in 1 .. L /\ order'[k] = order[k + 1] /\ order[k + 1] # order[1]
      BY <1>1, <1>3
    <3>2. next'[order'[k]] = next[order[k + 1]]
      BY <1>3, <1>4, <1>5, <3>1 DEF Node
    <3>3. next[order[k + 1]] = IF k + 1 + n <= L THEN order[k + 1 + n] ELSE NULL
      BY <1>4, <3>1
    <3>4. (k + 1 + n <= L) <=> (k + n <= M)
      BY <1>1
    <3>5. k + n <= M => order'[k + n] = order[k + 1 + n]
      BY <1>1, <1>3
    <3> QED
      BY <3>2, <3>3, <3>4, <3>5
  <2> QED
    BY <1>3, <2>1 DEF Links
<1>11. Heads'
  <2>1. ASSUME NEW j \in Slot
        PROVE  queues'[Fwd(j)'].head = IF j < Len(order') THEN order'[j + 1] ELSE NULL
    <3>1. CASE j + 1 < n
      <4>1. queues'[Fwd(j)'].head = IF j + 1 < L THEN order[j + 2] ELSE NULL
        BY SMTT(20), <1>4, <1>5, <1>6, <3>1 DEF Slot
      <4>2. j < M => order'[j + 1] = order[j + 2]
        BY <1>1, <1>3 DEF Slot
      <4> QED
        BY <1>1, <1>3, <4>1, <4>2 DEF Slot
    <3>2. CASE j + 1 >= n
      <4>1. j = n - 1 /\ 1 \in 1 .. L
        BY <1>1, <3>2 DEF Slot
      <4>2. queues'[Fwd(j)'].head = IF 1 + n <= L THEN order[1 + n] ELSE NULL
        BY <1>4, <1>5, <1>6, <4>1
      <4>3. j < M => order'[j + 1] = order[1 + n]
        BY <1>1, <1>3, <4>1
      <4> QED
        BY <1>1, <1>3, <4>1, <4>2, <4>3
    <3> QED
      BY <3>1, <3>2 DEF Slot
  <2> QED
    BY <2>1 DEF Heads
<1>12. Tails'
  <2>1. ASSUME NEW m \in Slot, m < Len(order')
        PROVE  queues'[Back(m)'].tail = order'[Len(order') - m]
    <3>1. Back(m)' = Back(m) /\ Back(m) \in Slot
      BY <1>4, <1>5 DEF Back, Slot
    <3>2. queues'[Back(m)].tail = queues[Back(m)].tail
      BY <1>5, <3>1
    <3>3. queues[Back(m)].tail = order[L - m]
      BY SMTT(20), <1>1, <1>3, <1>4, <2>1 DEF Slot
    <3>4. Len(order') - m \in 1 .. M /\ (Len(order') - m) + 1 = L - m
      BY <1>1, <1>3, <2>1 DEF Slot
    <3> QED
      BY <1>3, <3>1, <3>2, <3>3, <3>4
  <2> QED
    BY <2>1 DEF Tails
<1>13. Lengths'
  <2>1. ASSUME NEW j \in Slot
        PROVE  queues'[Fwd(j)'].len = b + (IF j < r THEN 1 ELSE 0)
    <3>1. CASE j + 1 < n
      <4>1. queues'[Fwd(j)'].len = (L \div n) + (IF j + 1 < L % n THEN 1 ELSE 0)
        BY <1>4, <1>5, <1>6, <3>1
      <4> QED
        BY <1>2, <3>1, <4>1 DEF Slot
    <3>2. CASE j + 1 >= n
      <4>1. j = n - 1
        BY <3>2 DEF Slot
      <4>2. queues'[Fwd(j)'].len = (L \div n) + (IF 0 < L % n THEN 1 ELSE 0) - 1
        BY <1>4, <1>5, <1>6, <4>1
      <4> QED
        BY <1>2, <4>1, <4>2 DEF Slot
    <3> QED
      BY <3>1, <3>2 DEF Slot
  <2> QED
    BY <1>3, <2>1 DEF Lengths, b, r
<1> QED
  BY <1>7, <1>8, <1>9, <1>10, <1>11, <1>12, <1>13 DEF IInv, DealtRoundRobin

------------------------------------------------------------------------------
\* dequeue() that finds its list empty: then nothing at all is queued.
LEMMA DequeueEmptyInv ==
  ASSUME IInv, DequeueEmpty
  PROVE  IInv' /\ order = << >>
<1> USE NumQueues, NullAssumption DEF DequeueEmpty, DequeueQueue
<1>1. order = << >>
  <2>1. order \in Seq(Worker)
    BY DEF IInv, TypeOK
  <2>2. order # << >> => order[1] \in Worker
    BY <2>1
  <2> QED
    BY <2>2, Ends
<1>2. /\ queues \in [Slot -> ThreadQueues] /\ dq_index \in Slot
      /\ queues' = [queues EXCEPT ![dq_index] = [queues[dq_index] EXCEPT !.tail = NULL]]
  BY DEF IInv, TypeOK
<1>3. \A i \in Slot : /\ queues'[i].head = queues[i].head
                      /\ queues'[i].len = queues[i].len
  BY <1>2 DEF ThreadQueues
<1>4. TypeOK'
  <2>1. queues' \in [Slot -> ThreadQueues]
    BY <1>2 DEF ThreadQueues, Pointer
  <2> QED
    BY <2>1 DEF IInv, TypeOK, Pointer
<1>5. \A j \in Slot : Fwd(j)' = Fwd(j) /\ Fwd(j) \in Slot
  BY <1>2, FwdFacts DEF Fwd
<1>6. Heads' /\ Lengths'
  BY <1>3, <1>5 DEF IInv, DealtRoundRobin, Heads, Lengths
<1>7. Links' /\ Tails'
  BY <1>1 DEF Links, Tails, Slot
<1>8. eq_index' = Fwd(Len(order) % num_queues)'
  BY DEF IInv, DealtRoundRobin, Fwd
<1> QED
  BY <1>1, <1>4, <1>6, <1>7, <1>8 DEF IInv, DealtRoundRobin

LEMMA NextInv ==
  ASSUME UsingMalloc = FALSE, IInv, [Next]_vars
  PROVE  IInv'
<1>1. CASE Reinit
  BY <1>1, ReinitInv
<1>2. CASE Dequeue
  BY <1>2, DequeueInv
<1>3. CASE DequeueEmpty
  BY <1>3, DequeueEmptyInv
<1>4. ASSUME NEW t \in Worker, Enqueue(t)
      PROVE  IInv'
  BY <1>4, EnqueueInv
<1>5. CASE UNCHANGED vars
  BY <1>5 DEF vars, IInv, TypeOK, DealtRoundRobin, Links, Heads, Tails, Lengths, Fwd, Back
<1> QED
  BY <1>1, <1>2, <1>3, <1>4, <1>5 DEF Next

LEMMA Inductive ==
  ASSUME UsingMalloc = FALSE
  PROVE  Spec => []IInv
<1>1. Init => IInv
  BY InitInv
<1>2. IInv /\ [Next]_vars => IInv'
  BY NextInv
<1> QED
  BY <1>1, <1>2, PTL DEF Spec

------------------------------------------------------------------------------
\* The sum of the lengths.

\* The recursive function of check_invariants() is what its equations say.
SumsUp ==
  /\ SumOfLengths \in [0 .. num_queues -> Int]
  /\ SumOfLengths[0] = 0
  /\ \A n \in 1 .. num_queues :
       SumOfLengths[n] = SumOfLengths[n - 1] + queues[n - 1].len

LEMMA SumUnfolds == TypeOK => SumsUp
<1> SUFFICES ASSUME TypeOK
             PROVE  SumsUp
  OBVIOUS
<1>0. num_queues \in Nat /\ 0 \in Int
  BY NumQueues
<1>1. \A n \in 1 .. num_queues : n - 1 \in Slot /\ queues[n - 1].len \in Int
  BY NumQueues DEF TypeOK, ThreadQueues, Slot
<1>2. PICK step : step = [p \in (1 .. num_queues) \X Int |-> p[2] + queues[p[1] - 1].len]
  OBVIOUS
<1>3. step \in [(1 .. num_queues) \X Int -> Int]
  BY <1>1, <1>2
<1>4. PICK f \in [0 .. num_queues -> Int] : Unfolds(num_queues, 0, step, f)
  <2>1. StepsIn(num_queues, Int, 0, step)
    BY <1>0, <1>3 DEF StepsIn
  <2> QED
    BY <2>1, RecursionUpTo
<1>5. f = [n \in 0 .. num_queues |-> IF n = 0 THEN 0 ELSE f[n - 1] + queues[n - 1].len]
  <2>1. ASSUME NEW n \in 0 .. num_queues
        PROVE  f[n] = IF n = 0 THEN 0 ELSE f[n - 1] + queues[n - 1].len
    <3>1. f[n] = IF n = 0 THEN 0 ELSE step[<<n, f[n - 1]>>]
      BY <1>4 DEF Unfolds
    <3>2. CASE n = 0
      BY <3>1, <3>2
    <3>3. CASE n # 0
      <4>1. <<n, f[n - 1]>> \in (1 .. num_queues) \X Int
        BY <1>4, <3>3, NumQueues
      <4>2. step[<<n, f[n - 1]>>] = f[n - 1] + queues[n - 1].len
        BY <1>2, <4>1
      <4> QED
        BY <3>1, <3>3, <4>2
    <3> QED
      BY <3>2, <3>3
  <2>2. f = [n \in 0 .. num_queues |-> f[n]]
    BY <1>4
  <2> QED
    BY <2>1, <2>2
<1> DEFINE Sum(g) == g = [n \in 0 .. num_queues |->
                            IF n = 0 THEN 0 ELSE g[n - 1] + queues[n - 1].len]
<1>6. Sum(SumOfLengths)
  BY <1>5 DEF SumOfLengths
<1>7. ASSUME NEW n \in 1 .. num_queues, SumOfLengths[n - 1] = f[n - 1]
      PROVE  SumOfLengths[n] = f[n]
  BY <1>5, <1>6, <1>7, NumQueues
<1>8. SumOfLengths = f
  <2>1. SumOfLengths = [n \in 0 .. num_queues |-> SumOfLengths[n]]
    BY <1>6
  <2>2. f = [n \in 0 .. num_queues |-> f[n]]
    BY <1>4
  <2>3. SumOfLengths[0] = 0 /\ f[0] = 0
    BY <1>5, <1>6, NumQueues
  <2> QED
    <3>1. AgreeStepwise(num_queues, SumOfLengths, f)
      BY <1>0, <1>7, <2>1, <2>2, <2>3 DEF AgreeStepwise
    <3> QED
      BY <3>1, SameUpTo
<1> QED
  <2>1. f[0] = 0 /\ \A n \in 1 .. num_queues : f[n] = f[n - 1] + queues[n - 1].len
    BY <1>0, <1>5
  <2> QED
    BY <1>4, <1>8, <2>1 DEF SumsUp

\* One summand more by d: the sum is more by d.
LEMMA SumMoves ==
  ASSUME NEW m \in Nat, NEW p \in 0 .. m - 1, NEW d \in Int,
         NEW f \in [0 .. m -> Int], NEW g \in [0 .. m -> Int], f[0] = g[0],
         \A n \in 1 .. m : g[n] - g[n - 1] = f[n] - f[n - 1] + (IF n - 1 = p THEN d ELSE 0)
  PROVE  g[m] = f[m] + d
<1>1. PICK S : S = {n \in 0 .. m : g[n] = f[n] + (IF n > p THEN d ELSE 0)}
  OBVIOUS
<1>2. 0 \in S
  BY <1>1
<1>3. ASSUME NEW n \in 1 .. m, n - 1 \in S
      PROVE  n \in S
  <2>1. g[n - 1] = f[n - 1] + (IF n - 1 > p THEN d ELSE 0)
    BY <1>1, <1>3
  <2>2. g[n] \in Int /\ g[n - 1] \in Int /\ f[n] \in Int /\ f[n - 1] \in Int
    OBVIOUS
  <2>3. g[n] - g[n - 1] = f[n] - f[n - 1] + (IF n - 1 = p THEN d ELSE 0)
    OBVIOUS
  <2>4. g[n] = f[n] + (IF n > p THEN d ELSE 0)
    <3> DEFINE a == g[n]  b == g[n - 1]  x == f[n]  y == f[n - 1]
    <3>1. /\ a \in Int /\ b \in Int /\ x \in Int /\ y \in Int
          /\ b = y + (IF n - 1 > p THEN d ELSE 0)
          /\ a - b = x - y + (IF n - 1 = p THEN d ELSE 0)
      BY <2>1, <2>2, <2>3
    <3> HIDE DEF a, b, x, y
    <3>2. a = x + (IF n > p THEN d ELSE 0)
      BY <3>1
    <3> QED
      BY <3>2 DEF a, x
  <2> QED
    BY <1>1, <2>4
<1>4. m \in S
  <2>1. 0 .. m \subseteq S
    BY <1>2, <1>3, UpTo
  <2> QED
    BY <2>1
<1> QED
  BY <1>1, <1>4

\* The length of the list at p changes by d, and that of no other list: then
\* the sum changes by d.
LEMMA SumStep ==
  ASSUME TypeOK, TypeOK', NEW p \in Slot, NEW d \in Int,
         queues'[p].len = queues[p].len + d,
         \A i \in Slot \ {p} : queues'[i].len = queues[i].len
  PROVE  SumOfLengths[num_queues]' = SumOfLengths[num_queues] + d
<1>1. /\ SumOfLengths \in [0 .. num_queues -> Int] /\ SumOfLengths[0] = 0
      /\ \A n \in 1 .. num_queues :
           SumOfLengths[n] = SumOfLengths[n - 1] + queues[n - 1].len
  BY SumUnfolds DEF SumsUp
<1>2. /\ SumOfLengths' \in [0 .. num_queues -> Int] /\ SumOfLengths'[0] = 0
      /\ \A n \in 1 .. num_queues :
           SumOfLengths'[n] = SumOfLengths'[n - 1] + queues'[n - 1].len
  <2>1. SumsUp'
    BY SumUnfolds, PTL
  <2> QED
    BY <2>1 DEF SumsUp
<1>3. ASSUME NEW n \in 1 .. num_queues
      PROVE  SumOfLengths'[n] - SumOfLengths'[n - 1]
             = SumOfLengths[n] - SumOfLengths[n - 1] + (IF n - 1 = p THEN d ELSE 0)
  <2>1. n - 1 \in Slot /\ n - 1 \in 0 .. num_queues /\ n \in 0 .. num_queues
    BY NumQueues DEF Slot
  <2>2. /\ SumOfLengths'[n] = SumOfLengths'[n - 1] + queues'[n - 1].len
        /\ SumOfLengths[n] = SumOfLengths[n - 1] + queues[n - 1].len
    BY <1>1, <1>2
  <2>3. /\ SumOfLengths'[n - 1] \in Int /\ SumOfLengths[n - 1] \in Int
        /\ queues'[n - 1].len \in Int /\ queues[n - 1].len \in Int
    <3>1. queues'[n - 1] \in ThreadQueues /\ queues[n - 1] \in ThreadQueues
      BY <2>1 DEF TypeOK
    <3>2. queues'[n - 1].len \in Int /\ queues[n - 1].len \in Int
      BY <3>1 DEF ThreadQueues
    <3> QED
      BY <1>1, <1>2, <2>1, <3>2
  <2>4. queues'[n - 1].len = queues[n - 1].len + (IF n - 1 = p THEN d ELSE 0)
    BY <2>1, <2>3
  <2> QED
    BY <2>2, <2>3, <2>4
<1>4. num_queues \in Nat /\ p \in 0 .. num_queues - 1
  BY NumQueues DEF Slot
<1> HIDE DEF num_queues
<1>5. SumOfLengths'[num_queues] = SumOfLengths[num_queues] + d
  <2> DEFINE f == SumOfLengths
             g == SumOfLengths'
  <2>1. /\ f \in [0 .. num_queues -> Int] /\ g \in [0 .. num_queues -> Int] /\ f[0] = g[0]
        /\ \A n \in 1 .. num_queues :
             g[n] - g[n - 1] = f[n] - f[n - 1] + (IF n - 1 = p THEN d ELSE 0)
    BY <1>1, <1>2, <1>3
  <2> HIDE DEF f, g
  <2>2. g[num_queues] = f[num_queues] + d
    BY <1>4, <2>1, SumMoves
  <2> QED
    BY <2>2 DEF f, g
<1> QED
  BY <1>5

\* No list holds a worker: the sum is 0.
LEMMA SumOfNothing ==
  TypeOK /\ (\A i \in Slot : queues[i].len = 0) => SumOfLengths[num_queues] = 0
<1> SUFFICES ASSUME TypeOK, \A i \in Slot : queues[i].len = 0
             PROVE  SumOfLengths[num_queues] = 0
  OBVIOUS
<1>1. /\ SumOfLengths \in [0 .. num_queues -> Int] /\ SumOfLengths[0] = 0
      /\ \A n \in 1 .. num_queues :
           SumOfLengths[n] = SumOfLengths[n - 1] + queues[n - 1].len
  BY SumUnfolds DEF SumsUp
<1>2. PICK S : S = {n \in 0 .. num_queues : SumOfLengths[n] = 0}
  OBVIOUS
<1>3. 0 \in S
  BY <1>1, <1>2, NumQueues
<1>4. ASSUME NEW n \in 1 .. num_queues, n - 1 \in S
      PROVE  n \in S
  <2>1. n - 1 \in Slot
    BY NumQueues DEF Slot
  <2> QED
    BY <1>1, <1>2, <1>4, <2>1
<1>5. num_queues \in S
  BY <1>3, <1>4, NumQueues, UpTo
<1> QED
  BY <1>2, <1>5

------------------------------------------------------------------------------
\* ThreadQueue.h, every field: the ready queue keeps its types.
THEOREM TypeCorrect ==
  ASSUME UsingMalloc = FALSE
  PROVE  Spec => []TypeOK
<1>1. IInv => TypeOK
  BY DEF IInv
<1> QED
  BY <1>1, Inductive, PTL

\* PrefetchingThreadQueue: after any sequence of calls the lists hold exactly
\* the queued workers, dealt round-robin in the order they were enqueued.
THEOREM AlwaysDealtRoundRobin ==
  ASSUME UsingMalloc = FALSE
  PROVE  Spec => []DealtRoundRobin
<1>1. IInv => DealtRoundRobin
  BY DEF IInv
<1> QED
  BY <1>1, Inductive, PTL

\* check_invariants() never exits because of unbalanced lists.
THEOREM AlwaysBalanced ==
  ASSUME UsingMalloc = FALSE
  PROVE  Spec => []Balanced
<1>1. IInv => Balanced
  <2> SUFFICES ASSUME IInv, NEW i \in Slot, NEW j \in Slot
               PROVE  queues[i].len <= queues[j].len + 1
    BY DEF Balanced
  <2> DEFINE b == Len(order) \div num_queues
             r == Len(order) % num_queues
  <2>1. Len(order) \in Nat /\ dq_index \in Slot
    BY DEF IInv, TypeOK
  <2>2. b \in Nat
    BY <2>1, NumQueues, Quotient
  <2>3. PICK k \in Slot, l \in Slot : i = Fwd(k) /\ j = Fwd(l)
    BY <2>1, FwdFacts
  <2>4. /\ queues[i].len = b + (IF k < r THEN 1 ELSE 0)
        /\ queues[j].len = b + (IF l < r THEN 1 ELSE 0)
    BY <2>3 DEF IInv, DealtRoundRobin, Lengths
  <2> HIDE DEF b, r
  <2> QED
    BY <2>2, <2>4
<1> QED
  BY <1>1, Inductive, PTL

\* check_invariants() never exits because the lengths do not sum to len.
THEOREM AlwaysLengthsSumToLen ==
  ASSUME UsingMalloc = FALSE
  PROVE  Spec => []LengthsSumToLen
<1>1. Init => LengthsSumToLen
  <2> SUFFICES ASSUME Init
               PROVE  LengthsSumToLen
    OBVIOUS
  <2>1. TypeOK
    BY InitInv DEF IInv
  <2>2. len = 0 /\ \A i \in Slot : queues[i].len = 0
    BY DEF Init, AllocatedQueues, Constructed
  <2> QED
    BY <2>1, <2>2, SumOfNothing DEF LengthsSumToLen
<1>2. ASSUME IInv, IInv', LengthsSumToLen, [Next]_vars
      PROVE  LengthsSumToLen'
  <2>1. TypeOK /\ TypeOK' /\ len \in Nat
    BY <1>2 DEF IInv, TypeOK
  <2>2. /\ queues \in [Slot -> ThreadQueues] /\ eq_index \in Slot /\ dq_index \in Slot
        /\ SumOfLengths[num_queues] = len
    BY <1>2 DEF IInv, TypeOK, LengthsSumToLen
  <2>3. CASE Reinit
    <3>1. len' = 0 /\ \A i \in Slot : queues'[i].len = 0
      BY <2>3 DEF Reinit, AllocatedQueues, Constructed
    <3>2. (\A i \in Slot : queues[i].len = 0)'
      BY <3>1
    <3>3. (SumOfLengths[num_queues] = 0)'
      BY <2>1, <3>2, SumOfNothing, PTL
    <3> QED
      BY <3>1, <3>3 DEF LengthsSumToLen
  <2>4. CASE Dequeue
    <3>1. /\ len' = len - 1
          /\ queues'[dq_index].len = queues[dq_index].len + (-1)
          /\ \A i \in Slot \ {dq_index} : queues'[i].len = queues[i].len
      BY <2>2, <2>4 DEF Dequeue, DequeueQueue, ThreadQueues
    <3>2. SumOfLengths[num_queues]' = SumOfLengths[num_queues] + (-1)
      BY <2>1, <2>2, <3>1, SumStep
    <3> QED
      BY <2>1, <2>2, <3>1, <3>2 DEF LengthsSumToLen
  <2>5. CASE DequeueEmpty
    <3>1. /\ len' = len
          /\ queues'[dq_index].len = queues[dq_index].len + 0
          /\ \A i \in Slot \ {dq_index} : queues'[i].len = queues[i].len
      BY <2>2, <2>5 DEF DequeueEmpty, DequeueQueue, ThreadQueues
    <3>2. SumOfLengths[num_queues]' = SumOfLengths[num_queues] + 0
      BY <2>1, <2>2, <3>1, SumStep
    <3> QED
      BY <2>1, <2>2, <3>1, <3>2 DEF LengthsSumToLen
  <2>6. ASSUME NEW t \in Worker, Enqueue(t)
        PROVE  LengthsSumToLen'
    <3>1. /\ len' = len + 1
          /\ queues'[eq_index].len = queues[eq_index].len + 1
          /\ \A i \in Slot \ {eq_index} : queues'[i].len = queues[i].len
      BY <2>2, <2>6 DEF Enqueue, Link, EnqueueQueue, ThreadQueues
    <3>2. SumOfLengths[num_queues]' = SumOfLengths[num_queues] + 1
      BY <2>1, <2>2, <3>1, SumStep
    <3> QED
      BY <2>1, <2>2, <3>1, <3>2 DEF LengthsSumToLen
  <2>7. CASE UNCHANGED vars
    BY <1>2, <2>7 DEF vars, LengthsSumToLen, SumOfLengths
  <2> QED
    BY <1>2, <2>3, <2>4, <2>5, <2>6, <2>7 DEF Next
<1> QED
  BY <1>1, <1>2, Inductive, PTL DEF Spec

\* The ready queue hands workers over first in first out, and answers NULL
\* only when it holds none: every call of the array of lists is a call of the
\* abstract queue with the same answer, or leaves it alone.
THEOREM ReadyQueueIsFifo ==
  ASSUME UsingMalloc = FALSE
  PROVE  Spec => ImplementsFifo
<1>1. Init => Fifo!Init
  BY DEF Init, Fifo!Init
<1>2. IInv /\ [Next]_vars => [Fifo!Next]_(Fifo!vars)
  <2> SUFFICES ASSUME IInv, [Next]_vars
               PROVE  Fifo!Next \/ UNCHANGED Fifo!vars
    OBVIOUS
  <2>1. CASE Reinit
    BY <2>1 DEF Reinit, Fifo!vars
  <2>2. CASE Dequeue
    <3>1. order \in Seq(Worker) /\ order # << >> /\ ret' = order[1]
      BY <2>2, Ends DEF Dequeue, IInv, TypeOK
    <3>2. order' = SubSeq(order, 2, Len(order))
      BY <2>2 DEF Dequeue
    <3>3. Head(order) = order[1] /\ Tail(order) = SubSeq(order, 2, Len(order))
      BY <3>1
    <3> QED
      BY <3>1, <3>2, <3>3 DEF Fifo!Next, Fifo!Dequeue
  <2>3. CASE DequeueEmpty
    BY <2>3, DequeueEmptyInv DEF DequeueEmpty, Fifo!Next, Fifo!DequeueEmpty
  <2>4. ASSUME NEW t \in Worker, Enqueue(t)
        PROVE  Fifo!Next
    BY <2>4 DEF Enqueue, Link, Fifo!Next, Fifo!Enqueue
  <2>5. CASE UNCHANGED vars
    BY <2>5 DEF vars, Fifo!vars
  <2> QED
    BY <2>1, <2>2, <2>3, <2>4, <2>5 DEF Next
<1> QED
  BY <1>1, <1>2, Inductive, PTL DEF Spec, ImplementsFifo, Fifo!Spec
==============================================================================
