---------------------------- MODULE PrefetchQueue ----------------------------
(***************************************************************************)
(* The class PrefetchingThreadQueue of system/ThreadQueue.h: the ready     *)
(* queue of the scheduler.  Workers are dealt round-robin over num_queues  *)
(* linked lists, so that the list from which a worker will come a few      *)
(* switches from now can be prefetched.  eq_index and dq_index chase each  *)
(* other around the array; nothing but their arithmetic makes the array a  *)
(* first-in first-out queue.                                               *)
(*                                                                         *)
(* The client's side of the contract is a guard of Next: a worker is       *)
(* enqueued only while it is in no list (its one `next' field can thread   *)
(* only one), and init() is called again only when the queue is drained.   *)
(* Runtime, which enqueues without that guard, shows when the scheduler    *)
(* keeps to the first.                                                     *)
(***************************************************************************)
EXTENDS ThreadQueueOps, Sequences, FiniteSets

CONSTANTS PrefetchDistance,   \* READYQ_PREFETCH_DISTANCE
          UsingMalloc         \* whether the build defines USING_MALLOC

ASSUME DistanceAssumption == PrefetchDistance \in Nat \ {0}
ASSUME MallocAssumption == UsingMalloc \in BOOLEAN

num_queues == 2 * PrefetchDistance
Slot == 0 .. num_queues - 1

VARIABLES queues,     \* the array of lists
          eq_index,   \* the list the next enqueue goes to
          dq_index,   \* the list the next dequeue comes from
          len,        \* how many workers the queue believes it holds
          next,       \* the next field of every worker
          ret,        \* what the last dequeue() answered
          order       \* history: the workers enqueued and not yet handed over

vars == <<queues, eq_index, dq_index, len, next, ret, order>>

(***************************************************************************)
(* Memory for the lists.  `new ThreadQueue[n]' runs the constructors.      *)
(* Under USING_MALLOC the array is malloc'ed and nothing constructs its    *)
(* elements: every field holds whatever the memory held.                   *)
(***************************************************************************)
Garbage == [head : {NULL, Wild}, tail : {NULL, Wild}, len : 0 .. 1]

AllocatedQueues ==
  IF UsingMalloc THEN [Slot -> Garbage] ELSE {[i \in Slot |-> Constructed]}

Init ==
  /\ queues \in AllocatedQueues
  /\ eq_index = 0
  /\ dq_index = 0
  /\ len = 0
  /\ next = [t \in Node |-> NULL]
  /\ ret = NULL
  /\ order = << >>

\* Slips in enqueue() and dequeue(): the index runs off the array, or steps
\* over a list.
AdvanceNoWrap(i) == i + 1
AdvanceByTwo(i) == IF i + 2 >= num_queues THEN 0 ELSE i + 2

\* Advance an index around the array.
Advance(i) == IF i + 1 = num_queues THEN 0 ELSE i + 1

Queued == {order[k] : k \in 1 .. Len(order)}

\* init() on a drained queue: fresh lists, while both indices and len stay.
Reinit ==
  /\ len = 0
  /\ queues' \in AllocatedQueues
  /\ UNCHANGED <<eq_index, dq_index, len, next, ret, order>>

\* enqueue(): t goes behind the list at eq_index, whether or not it is in a
\* list already.
Link(t) ==
  /\ queues' = [queues EXCEPT ![eq_index] = EnqueueQueue(queues[eq_index], t)]
  /\ next' = EnqueueNext(queues[eq_index], next, t)
  /\ eq_index' = Advance(eq_index)
  /\ len' = len + 1
  /\ order' = Append(order, t)
  /\ UNCHANGED <<dq_index, ret>>

\* What a client is to do: enqueue only what is in no list.
Enqueue(t) == t \notin Queued /\ Link(t)

\* A slip in dequeue(): it keeps to the list it took from.
DequeueSameList ==
  LET tq == queues[dq_index] IN
  /\ tq.head # NULL
  /\ queues' = [queues EXCEPT ![dq_index] = DequeueQueue(tq, next)]
  /\ len' = len - 1
  /\ next' = [next EXCEPT ![tq.head] = NULL]
  /\ ret' = tq.head
  /\ order' = SubSeq(order, 2, Len(order))
  /\ UNCHANGED <<eq_index, dq_index>>

\* dequeue() when the list at dq_index has a worker.
Dequeue ==
  LET tq == queues[dq_index] IN
  /\ tq.head # NULL
  /\ queues' = [queues EXCEPT ![dq_index] = DequeueQueue(tq, next)]
  /\ dq_index' = Advance(dq_index)
  /\ len' = len - 1
  /\ next' = [next EXCEPT ![tq.head] = NULL]
  /\ ret' = tq.head
  /\ order' = SubSeq(order, 2, Len(order))
  /\ UNCHANGED eq_index

\* dequeue() when the list at dq_index is empty: the others are not tried.
DequeueEmpty ==
  LET tq == queues[dq_index] IN
  /\ tq.head = NULL
  /\ queues' = [queues EXCEPT ![dq_index] = DequeueQueue(tq, next)]
  /\ ret' = NULL
  /\ UNCHANGED <<eq_index, dq_index, len, next, order>>

Next == Reinit \/ Dequeue \/ DequeueEmpty \/ \E t \in Worker : Enqueue(t)

Spec == Init /\ [][Next]_vars

------------------------------------------------------------------------------
\* Every field of the queue and of the workers keeps its type.
TypeOK ==
  /\ queues \in [Slot -> ThreadQueues]
  /\ eq_index \in Slot
  /\ dq_index \in Slot
  /\ len \in Nat
  /\ next \in [Node -> Pointer]
  /\ ret \in Pointer
  /\ order \in Seq(Worker)

\* check_invariants(), first assertion: the lists never differ in length by
\* more than one, whatever the calls so far.
Balanced == \A i, j \in Slot : queues[i].len <= queues[j].len + 1

\* check_invariants(), second assertion: the lengths of the lists sum to len.
SumOfLengths[n \in 0 .. num_queues] ==
  IF n = 0 THEN 0 ELSE SumOfLengths[n - 1] + queues[n - 1].len
LengthsSumToLen == SumOfLengths[num_queues] = len

------------------------------------------------------------------------------
(***************************************************************************)
(* The shape of the whole structure when `order' is the queue's contents.  *)
(* Fwd(j) is the list j places after dq_index, Back(m) the list m places   *)
(* before the one eq_index would fill.                                     *)
(***************************************************************************)
Fwd(j)  == IF dq_index + j < num_queues THEN dq_index + j
                                        ELSE dq_index + j - num_queues
Back(m) == IF eq_index - 1 - m >= 0 THEN eq_index - 1 - m
                                    ELSE eq_index - 1 - m + num_queues

\* The k-th queued worker is num_queues behind the worker that links to it.
Links == \A k \in 1 .. Len(order) :
  next[order[k]] = IF k + num_queues <= Len(order) THEN order[k + num_queues]
                                                   ELSE NULL
Heads == \A j \in Slot :
  queues[Fwd(j)].head = IF j < Len(order) THEN order[j + 1] ELSE NULL
Tails == \A m \in Slot :
  m < Len(order) => queues[Back(m)].tail = order[Len(order) - m]
Lengths == \A j \in Slot :
  queues[Fwd(j)].len = (Len(order) \div num_queues)
                       + (IF j < Len(order) % num_queues THEN 1 ELSE 0)

\* The lists hold exactly the queued workers, dealt round-robin in the order
\* they were enqueued: no worker is lost, linked twice or out of place.
DealtRoundRobin ==
  /\ len = Len(order)
  /\ \A k, l \in 1 .. Len(order) : order[k] = order[l] => k = l
  /\ eq_index = Fwd(Len(order) % num_queues)
  /\ Links
  /\ Heads
  /\ Tails
  /\ Lengths

\* The array of lists implements the abstract first-in first-out queue: the
\* worker handed over is always the oldest, and NULL means nothing is queued.
Fifo == INSTANCE FifoQueue WITH q <- order
ImplementsFifo == Fifo!Spec
==============================================================================
