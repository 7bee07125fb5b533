---------------------------- MODULE RuntimeProofs ----------------------------
(***************************************************************************)
(* Proofs about Runtime.  They rest on an invariant of the whole machine,  *)
(* which says where every thread is, in particular how far the hand-shake  *)
(* of worker_spawn() with tramp() has gone, together with the invariant    *)
(* that PrefetchQueueProofs shows for the ready queue on its own.  The     *)
(* second half adds that Runtime implements TaskScheduler, that it keeps   *)
(* its types, and that it keeps its tracking list.                         *)
(***************************************************************************)
EXTENDS Runtime, TLAPS

RQP == INSTANCE PrefetchQueueProofs WITH Worker <- Thread, UsingMalloc <- FALSE

------------------------------------------------------------------------------
\* The ready queue: what its invariant and its operations give the runtime.
Queue == RQ!TypeOK /\ RQ!DealtRoundRobin

\* What PrefetchQueue assumes of its constants.
LEMMA QueueConstants ==
  /\ PrefetchDistance \in Nat \ {0} /\ FALSE \in BOOLEAN
  /\ NULL \notin Thread \cup {Wild} /\ Wild \notin Thread
BY DistancePositive, WorkersDiffer DEF Thread

LEMMA SameQueue == Queue <=> RQP!IInv
BY DEF Queue, RQP!IInv,
  RQ!TypeOK, RQ!DealtRoundRobin, RQ!Slot, RQ!num_queues, RQ!ThreadQueues, RQ!Pointer, RQ!Node,
  RQ!Links, RQ!Heads, RQ!Tails, RQ!Lengths, RQ!Fwd, RQ!Back,
  RQP!TypeOK, RQP!DealtRoundRobin, RQP!Slot, RQP!num_queues, RQP!ThreadQueues, RQP!Pointer, RQP!Node,
  RQP!Links, RQP!Heads, RQP!Tails, RQP!Lengths, RQP!Fwd, RQP!Back
LEMMA SameQueueNext == Queue' <=> RQP!IInv'
BY DEF Queue, RQP!IInv,
  RQ!TypeOK, RQ!DealtRoundRobin, RQ!Slot, RQ!num_queues, RQ!ThreadQueues, RQ!Pointer, RQ!Node,
  RQ!Links, RQ!Heads, RQ!Tails, RQ!Lengths, RQ!Fwd, RQ!Back,
  RQP!TypeOK, RQP!DealtRoundRobin, RQP!Slot, RQP!num_queues, RQP!ThreadQueues, RQP!Pointer, RQP!Node,
  RQP!Links, RQP!Heads, RQP!Tails, RQP!Lengths, RQP!Fwd, RQP!Back

LEMMA QueueEnqueue ==
  ASSUME Queue, NEW t \in Thread, t \notin RQ!Queued, RQ!Link(t)
  PROVE  Queue' /\ RQ!Queued' = RQ!Queued \cup {t}
<1>1. RQP!Enqueue(t)
  BY DEF RQ!Link, RQ!Queued, RQ!EnqueueQueue, RQ!EnqueueNext, RQ!Advance, RQ!num_queues,
     RQP!Enqueue, RQP!Link, RQP!Queued, RQP!EnqueueQueue, RQP!EnqueueNext, RQP!Advance, RQP!num_queues
<1>2. Queue'
  BY <1>1, QueueConstants, SameQueue, SameQueueNext, RQP!EnqueueInv
<1>3. order \in Seq(Thread) /\ order' = Append(order, t)
  BY DEF Queue, RQ!TypeOK, RQ!Link
<1>4. /\ Len(order) \in Nat /\ Len(order') = Len(order) + 1 /\ order'[Len(order) + 1] = t
      /\ \A k \in 1 .. Len(order) : order'[k] = order[k]
  BY <1>3
<1>5. RQ!Queued' = RQ!Queued \cup {t}
  <2>1. \A k \in 1 .. Len(order') : k = Len(order) + 1 \/ k \in 1 .. Len(order)
    BY <1>4
  <2>2. Len(order) + 1 \in 1 .. Len(order') /\ \A k \in 1 .. Len(order) : k \in 1 .. Len(order')
    BY <1>4
  <2> QED
    BY <1>4, <2>1, <2>2 DEF RQ!Queued
<1> QED
  BY <1>2, <1>5 DEF RQ!Link

LEMMA QueueDequeue ==
  ASSUME Queue, RQ!Dequeue
  PROVE  /\ Queue' /\ ret' \in RQ!Queued
         /\ \A t \in RQ!Queued' : t \in RQ!Queued /\ t # ret'
<1>1. RQP!Dequeue
  BY DEF RQ!Dequeue, RQ!DequeueQueue, RQ!Advance, RQ!num_queues,
     RQP!Dequeue, RQP!DequeueQueue, RQP!Advance, RQP!num_queues
<1>2. Queue'
  BY <1>1, QueueConstants, SameQueue, SameQueueNext, RQP!DequeueInv
<1>3. queues[dq_index].head = IF order = << >> THEN NULL ELSE order[1]
  BY QueueConstants, SameQueue, RQP!Ends
<1>4. /\ order \in Seq(Thread) /\ order # << >> /\ ret' = order[1]
      /\ order' = SubSeq(order, 2, Len(order))
  BY <1>3 DEF Queue, RQ!TypeOK, RQ!Dequeue
<1>5. /\ Len(order) \in Nat /\ Len(order) >= 1 /\ Len(order') = Len(order) - 1
      /\ \A k \in 1 .. Len(order) - 1 : order'[k] = order[k + 1]
  <2>1. Len(order) \in Nat /\ Len(order) # 0
    BY <1>4
  <2>2. order' = SubSeq(order, 2, Len(order)) /\ Len(order) >= 1
    BY <1>4, <2>1
  <2>3. Len(order') = Len(order) - 1
    BY <1>4, <2>1, <2>2
  <2> QED
    BY <1>4, <2>1, <2>2, <2>3
<1>6. ret' \in RQ!Queued
  BY <1>4, <1>5 DEF RQ!Queued
<1>7. ASSUME NEW t \in RQ!Queued'
      PROVE  t \in RQ!Queued /\ t # ret'
  <2>1. PICK k \in 1 .. Len(order') : t = order'[k]
    BY <1>7 DEF RQ!Queued
  <2>2. k + 1 \in 1 .. Len(order) /\ t = order[k + 1] /\ 1 \in 1 .. Len(order) /\ k + 1 # 1
    BY <1>5, <2>1
  <2>3. order[k + 1] # order[1]
    BY <2>2 DEF Queue, RQ!DealtRoundRobin
  <2> QED
    BY <1>4, <2>2, <2>3 DEF RQ!Queued
<1> QED
  BY <1>2, <1>6, <1>7

LEMMA QueueDequeueEmpty ==
  ASSUME Queue, RQ!DequeueEmpty
  PROVE  Queue' /\ RQ!Queued = {} /\ RQ!Queued' = {}
<1>1. RQP!DequeueEmpty
  BY DEF RQ!DequeueEmpty, RQ!DequeueQueue, RQP!DequeueEmpty, RQP!DequeueQueue
<1>2. Queue' /\ order = << >>
  BY <1>1, QueueConstants, SameQueue, SameQueueNext, RQP!DequeueEmptyInv
<1> QED
  BY <1>2 DEF RQ!DequeueEmpty, RQ!Queued

LEMMA QueueKept ==
  ASSUME Queue, UNCHANGED readyQ
  PROVE  Queue' /\ RQ!Queued' = RQ!Queued
BY DEF readyQ, Queue, RQ!TypeOK, RQ!DealtRoundRobin, RQ!Links, RQ!Heads, RQ!Tails, RQ!Lengths,
   RQ!Fwd, RQ!Back, RQ!Queued

\* thread_exit() writes the `next' field of a worker that is in no list.
LEMMA QueueExit ==
  ASSUME Queue, NEW t \in Thread, t \notin RQ!Queued, next' = [next EXCEPT ![t] = NULL],
         UNCHANGED <<queues, eq_index, dq_index, len, ret, order>>
  PROVE  Queue' /\ RQ!Queued' = RQ!Queued
<1>1. RQ!TypeOK'
  BY DEF Queue, RQ!TypeOK, RQ!Pointer, RQ!Node
<1>2. \A k \in 1 .. Len(order) : next'[order[k]] = next[order[k]]
  BY DEF Queue, RQ!TypeOK, RQ!Queued, RQ!Node
<1>3. RQ!Links'
  BY <1>2 DEF Queue, RQ!DealtRoundRobin, RQ!Links
<1>4. RQ!DealtRoundRobin'
  BY <1>3 DEF Queue, RQ!DealtRoundRobin, RQ!Heads, RQ!Tails, RQ!Lengths, RQ!Fwd, RQ!Back
<1> QED
  BY <1>1, <1>4 DEF Queue, RQ!Queued

LEMMA QueueInit ==
  ASSUME RQ!Init
  PROVE  Queue /\ RQ!Queued = {}
<1>1. RQP!Init
  BY DEF RQ!Init, RQ!AllocatedQueues, RQ!Slot, RQ!num_queues, RQ!Constructed, RQ!Node, RQ!Garbage,
     RQP!Init, RQP!AllocatedQueues, RQP!Slot, RQP!num_queues, RQP!Constructed, RQP!Node, RQP!Garbage
<1>2. Queue
  BY <1>1, QueueConstants, SameQueue, RQP!InitInv
<1> QED
  BY <1>2 DEF RQ!Init, RQ!Queued

------------------------------------------------------------------------------
(***************************************************************************)
(* The inductive invariant.  Either a hand-shake is under way between the  *)
(* current thread and the worker it is spawning, with as many of the four  *)
(* values handed over as their places say, or the current thread has the   *)
(* processor outside of one; all other threads rest where a switch to them *)
(* continues.                                                              *)
(***************************************************************************)
Value == Thread \cup {NULL, Func} \cup Nat
LocalFields == [thr : Value, master : Value, my_thr : Value, f : Value, f_arg : Value]

StartPlace == <<"start", "tramp1", "tramp2", "tramp3">>
Startup == {"start", "tramp1", "tramp2", "tramp3", "got1", "got2", "got3", "got4"}
Spot ==
  Startup \cup {"none", "tramp", "user", "ask1", "ask2", "ask3", "ask4",
    "asked1", "asked2", "asked3", "asked4", "ready", "yield", "suspend", "spin",
    "switched", "exit", "run", "wait", "finished"}

Types ==
  /\ current_thread \in Thread /\ cpu \in Thread
  /\ nextId \in Nat \ {0} /\ all_coros \in Thread
  /\ worker \in [Thread -> WorkerFields]
  /\ pc \in [Thread -> Spot]
  /\ local \in [Thread -> LocalFields]
  /\ process \in {"up", "success"}

\* How much of the hand-shake the local variables of tramp() show.
Handed(w, n) ==
  /\ n >= 1 => local[w].master = current_thread
  /\ n >= 2 => local[w].my_thr = w
  /\ n >= 3 => local[w].f = Func
  /\ n >= 4 => local[w].f_arg = worker[w].id

Shake(w) ==
  /\ w \in Worker \ {current_thread}
  /\ \E k \in 1 .. 4 :
       \/ /\ cpu = current_thread /\ pc[cpu] = AskPlace[k]
          /\ pc[w] = StartPlace[k] /\ Handed(w, k - 1)
       \/ /\ cpu = w /\ pc[current_thread] = AskedPlace[k]
          /\ pc[w] = GotPlace[k] /\ Handed(w, k)

Rests(t) == pc[t] \in IF t = Master THEN {"wait"} ELSE {"none", "tramp", "switched", "exit"}

Alone ==
  /\ cpu = current_thread
  /\ pc[cpu] \in {"user", "ready"} \cup (IF cpu = Master THEN {"run"}
                                                        ELSE {"yield", "suspend", "spin"})
  /\ pc[cpu] = "ready" => NewThr \in Worker \ {cpu} /\ pc[NewThr] = "tramp"
  /\ \A t \in Thread \ {cpu} : Rests(t)

Control ==
  process = "up" =>
    \/ Shake(NewThr) /\ \A t \in Thread \ {current_thread, NewThr} : Rests(t)
    \/ Alone

Started(w) == local[w].my_thr = w /\ local[w].f = Func /\ local[w].f_arg = worker[w].id
Arguments == \A w \in Worker : pc[w] \notin Startup \cup {"none"} => Started(w)

Asleep == \A w \in Worker : worker[w].suspended => pc[w] \in {"suspend", "spin", "switched"}

Waiting ==
  \A t \in RQ!Queued : /\ t \in Worker /\ ~worker[t].suspended
                       /\ pc[t] \in {"tramp", "switched", "yield"}

\* createTask() queues a worker that is in no list yet.
Fresh == pc[current_thread] = "ready" => NewThr \notin RQ!Queued

Colour == \E k \in 0 .. NumOffsets - 1 : current_stack_offset = LineSize * k

IInv ==
  /\ Types /\ Control /\ Arguments /\ Asleep /\ Waiting /\ Fresh /\ Colour
  /\ StackInAllocation /\ Queue

------------------------------------------------------------------------------
\* Where the places of the hand-shake lie.
LEMMA Places ==
  ASSUME NEW k \in 1 .. 4
  PROVE  /\ AskPlace[k] \in {"ask1", "ask2", "ask3", "ask4"}
         /\ AskedPlace[k] \in {"asked1", "asked2", "asked3", "asked4"}
         /\ GotPlace[k] \in {"got1", "got2", "got3", "got4"}
         /\ StartPlace[k] \in {"start", "tramp1", "tramp2", "tramp3"}
         /\ TrampPlace[k] = IF k = 4 THEN "tramp" ELSE StartPlace[k + 1]
         /\ \A l \in 1 .. 4 : AskPlace[l] = AskPlace[k] \/ GotPlace[l] = GotPlace[k] => l = k
<1>1. k = 1 \/ k = 2 \/ k = 3 \/ k = 4
  OBVIOUS
<1>2. \A l \in 1 .. 4 : l = 1 \/ l = 2 \/ l = 3 \/ l = 4
  OBVIOUS
<1> QED
  BY <1>1, <1>2 DEF AskPlace, AskedPlace, GotPlace, StartPlace, TrampPlace

\* Where a parked thread goes on.
LEMMA AfterPlaces ==
  /\ After["tramp"] = "user" /\ After["switched"] = "user"
  /\ \A k \in 1 .. 4 : /\ After[StartPlace[k]] = GotPlace[k]
                       /\ After[AskedPlace[k]] = IF k = 4 THEN "ready" ELSE AskPlace[k + 1]
  /\ \A k \in 1 .. 4 : StartPlace[k] \in DOMAIN Stores
  /\ DOMAIN Stores = {"start", "tramp1", "tramp2", "tramp3"}
<1>1. /\ After["tramp"] = "user" /\ After["switched"] = "user"
      /\ After["start"] = "got1" /\ After["tramp1"] = "got2"
      /\ After["tramp2"] = "got3" /\ After["tramp3"] = "got4"
      /\ After["asked1"] = "ask2" /\ After["asked2"] = "ask3"
      /\ After["asked3"] = "ask4" /\ After["asked4"] = "ready"
  BY DEF After
<1>2. DOMAIN Stores = {"start", "tramp1", "tramp2", "tramp3"}
  BY DEF Stores
<1>3. \A k \in 1 .. 4 : k = 1 \/ k = 2 \/ k = 3 \/ k = 4
  OBVIOUS
<1>4. /\ StartPlace[1] = "start" /\ StartPlace[2] = "tramp1"
      /\ StartPlace[3] = "tramp2" /\ StartPlace[4] = "tramp3"
      /\ GotPlace[1] = "got1" /\ GotPlace[2] = "got2" /\ GotPlace[3] = "got3" /\ GotPlace[4] = "got4"
      /\ AskPlace[2] = "ask2" /\ AskPlace[3] = "ask3" /\ AskPlace[4] = "ask4"
      /\ AskedPlace[1] = "asked1" /\ AskedPlace[2] = "asked2"
      /\ AskedPlace[3] = "asked3" /\ AskedPlace[4] = "asked4"
  BY DEF StartPlace, GotPlace, AskPlace, AskedPlace
<1>5. ASSUME NEW k \in 1 .. 4
      PROVE  /\ After[StartPlace[k]] = GotPlace[k]
             /\ After[AskedPlace[k]] = IF k = 4 THEN "ready" ELSE AskPlace[k + 1]
             /\ StartPlace[k] \in DOMAIN Stores
  <2>1. CASE k = 1
    BY <1>1, <1>2, <1>4, <2>1
  <2>2. CASE k = 2
    BY <1>1, <1>2, <1>4, <2>2
  <2>3. CASE k = 3
    BY <1>1, <1>2, <1>4, <2>3
  <2>4. CASE k = 4
    BY <1>1, <1>2, <1>4, <2>4
  <2> QED
    BY <1>3, <2>1, <2>2, <2>3, <2>4
<1> QED
  BY <1>1, <1>2, <1>5

\* A hand-shake is seen from where the processor is.
LEMMA ShakeCpu ==
  ASSUME NEW w, Shake(w)
  PROVE  pc[cpu] \in {"ask1", "ask2", "ask3", "ask4", "got1", "got2", "got3", "got4"}
BY Places DEF Shake

\* Outside of a hand-shake the thread on the processor is the current one.
LEMMA AloneFacts ==
  ASSUME IInv, process = "up", NEW t \in Thread, cpu = t,
         pc[t] \in {"user", "ready", "run", "yield", "suspend", "spin"}
  PROVE  /\ Alone /\ current_thread = t
         /\ \A u \in Thread \ {t} : Rests(u)
<1>1. ~Shake(NewThr)
  BY ShakeCpu
<1> QED
  BY <1>1 DEF IInv, Control, Alone

\* The fields that tell one worker from another.
Kept ==
  /\ worker' \in [Thread -> WorkerFields]
  /\ \A t \in Thread : worker'[t].id = worker[t].id /\ worker'[t].stack = worker[t].stack

\* One bit of one worker, set.
SetRunning(fields, n, b) == [fields EXCEPT ![n].running = b]
SetSuspended(fields, n, b) == [fields EXCEPT ![n].suspended = b]

LEMMA RunningKept ==
  ASSUME NEW fields \in [Thread -> WorkerFields], NEW n \in Thread, NEW b \in BOOLEAN,
         NEW after, after = SetRunning(fields, n, b)
  PROVE  /\ after \in [Thread -> WorkerFields]
         /\ \A t \in Thread : /\ after[t].id = fields[t].id /\ after[t].stack = fields[t].stack
                              /\ after[t].suspended = fields[t].suspended
BY DEF WorkerFields, SetRunning

LEMMA SuspendedKept ==
  ASSUME NEW fields \in [Thread -> WorkerFields], NEW n \in Thread, NEW b \in BOOLEAN,
         NEW after, after = SetSuspended(fields, n, b)
  PROVE  /\ after \in [Thread -> WorkerFields]
         /\ \A t \in Thread : /\ after[t].id = fields[t].id /\ after[t].stack = fields[t].stack
                              /\ (t # n => after[t].suspended = fields[t].suspended)
         /\ after[n].suspended = b
BY DEF WorkerFields, SetSuspended

LEMMA RunBitsKept ==
  ASSUME worker \in [Thread -> WorkerFields], NEW me \in Thread, NEW to \in Thread
  PROVE  /\ RunBits(me, to) \in [Thread -> WorkerFields]
         /\ \A t \in Thread : /\ RunBits(me, to)[t].id = worker[t].id
                              /\ RunBits(me, to)[t].stack = worker[t].stack
                              /\ RunBits(me, to)[t].suspended = worker[t].suspended
<1>1. PICK no \in BOOLEAN : no = FALSE
  OBVIOUS
<1>2. PICK yes \in BOOLEAN : yes = TRUE
  OBVIOUS
<1>3. PICK once : once = SetRunning(worker, me, no)
  OBVIOUS
<1>4. RunBits(me, to) = SetRunning(once, to, yes)
  BY <1>1, <1>2, <1>3 DEF RunBits, SetRunning
<1>5. /\ once \in [Thread -> WorkerFields]
      /\ \A t \in Thread : /\ once[t].id = worker[t].id /\ once[t].stack = worker[t].stack
                           /\ once[t].suspended = worker[t].suspended
  BY <1>3, RunningKept
<1> QED
  BY <1>4, <1>5, RunningKept

LEMMA StacksKept ==
  ASSUME IInv, Kept, UNCHANGED current_stack_offset
  PROVE  Colour' /\ StackInAllocation'
BY DEF IInv, Types, Kept, Colour, StackInAllocation, Created, Thread

------------------------------------------------------------------------------
\* A switch from one thread to another that is parked, or back to itself.
LEMMA InvokeFacts ==
  ASSUME Types, NEW me \in Thread, NEW to \in Thread, NEW val, NEW place \in Spot,
         NEW at \in Spot, at = IF to = me THEN place ELSE pc[to],
         CoroInvoke(me, to, val, place)
  PROVE  /\ cpu' = to
         /\ \A t \in Thread \ {to, me} : pc'[t] = pc[t]
         /\ to # me => pc'[me] = place
         /\ pc'[to] = IF at # "wait" THEN After[at] ELSE IF val = NULL THEN "user" ELSE "run"
         /\ pc'[to] \in Spot => pc' \in [Thread -> Spot]
         /\ at \notin DOMAIN Stores => local' = local
         /\ at \in DOMAIN Stores => local' = [local EXCEPT ![to][Stores[at]] = val]
         /\ process' = IF at = "exit" THEN "failure" ELSE "up"
<1> DEFINE parked == [pc EXCEPT ![me] = place]
<1>1. /\ parked \in [Thread -> Spot] /\ parked[me] = place
      /\ \A t \in Thread \ {me} : parked[t] = pc[t]
  BY DEF Types
<1>2. parked[to] = at
  BY <1>1
<1>3. /\ cpu' = to
      /\ pc' = [parked EXCEPT ![to] =
                  IF at # "wait" THEN After[at] ELSE IF val = NULL THEN "user" ELSE "run"]
      /\ local' = IF at \in DOMAIN Stores THEN [local EXCEPT ![to][Stores[at]] = val] ELSE local
      /\ process' = IF at = "exit" THEN "failure" ELSE "up"
  BY <1>2 DEF CoroInvoke
<1> HIDE DEF parked
<1>4. /\ pc'[to] = IF at # "wait" THEN After[at] ELSE IF val = NULL THEN "user" ELSE "run"
      /\ \A t \in Thread \ {to} : pc'[t] = parked[t]
      /\ pc'[to] \in Spot => pc' \in [Thread -> Spot]
  BY <1>1, <1>3
<1> QED
  BY <1>1, <1>3, <1>4

\* The switches out of nextCoroutine(), thread_wait() and the calls that wake.
LEMMA SwitchInv ==
  ASSUME IInv, process = "up", Alone, NEW to \in Worker,
         to = cpu \/ pc[to] \in {"tramp", "switched"},
         NEW place, place = IF cpu = Master THEN "wait" ELSE "switched",
         Kept, UNCHANGED <<nextId, all_coros>>, current_thread' = to,
         CoroInvoke(current_thread, to, NULL, place)
  PROVE  /\ Types' /\ Control' /\ Arguments'
         /\ pc'[to] = "user" /\ (cpu # to => pc'[cpu] = place)
         /\ \A t \in Thread \ {to, cpu} : pc'[t] = pc[t]
<1> DEFINE at == IF to = cpu THEN place ELSE pc[to]
<1> USE WorkersDiffer
<1>1. /\ to \in Thread /\ cpu \in Thread /\ current_thread = cpu /\ to # Master
      /\ place \in Spot /\ Types
  BY DEF IInv, Types, Alone, Thread, Spot
<1>2. at \in {"tramp", "switched"} /\ at \in Spot
  BY <1>1 DEF Spot
<1> HIDE DEF at
<1>3. at = IF to = cpu THEN place ELSE pc[to]
  BY DEF at
<1>4. /\ cpu' = to
      /\ \A t \in Thread \ {to, cpu} : pc'[t] = pc[t]
      /\ to # cpu => pc'[cpu] = place
      /\ pc'[to] = After[at]
      /\ pc'[to] \in Spot => pc' \in [Thread -> Spot]
      /\ at \notin DOMAIN Stores => local' = local
      /\ process' = "up"
  BY <1>1, <1>2, <1>3, InvokeFacts
<1>5. pc'[to] = "user" /\ local' = local
  BY <1>2, <1>4, AfterPlaces
<1>6. Types'
  BY <1>1, <1>4, <1>5 DEF Types, Kept, Spot
<1>7. Control'
  <2>1. ASSUME NEW t \in Thread \ {to}
        PROVE  Rests(t)'
    <3>1. CASE t = cpu
      BY <1>1, <1>4, <2>1, <3>1 DEF Rests
    <3>2. CASE t # cpu
      BY <1>4, <2>1, <3>2 DEF Rests, Alone
    <3> QED
      BY <3>1, <3>2
  <2> QED
    BY <1>1, <1>4, <1>5, <2>1 DEF Control, Alone
<1>8. Arguments'
  <2>1. ASSUME NEW w \in Worker, pc'[w] \notin Startup \cup {"none"}
        PROVE  pc[w] \notin Startup \cup {"none"} /\ w \in Thread
    <3>1. CASE w = cpu
      BY <3>1 DEF Alone, Startup, Thread
    <3>2. CASE w # cpu /\ w = to
      BY <3>2 DEF Startup, Thread
    <3>3. CASE w # cpu /\ w # to
      BY <1>4, <2>1, <3>3 DEF Thread
    <3> QED
      BY <3>1, <3>2, <3>3
  <2> QED
    BY <1>5, <2>1 DEF IInv, Arguments, Started, Kept
<1> QED
  BY <1>4, <1>5, <1>6, <1>7, <1>8

\* A step that leaves the processor where it is and only moves its thread.
LEMMA MoveInv ==
  ASSUME IInv, process = "up", Alone, NEW place,
         place \in {"user"} \cup (IF cpu = Master THEN {"run"} ELSE {"yield", "suspend", "spin"}),
         pc' = [pc EXCEPT ![cpu] = place],
         Kept, UNCHANGED <<nextId, all_coros, current_thread, cpu, local, process>>
  PROVE  /\ Types' /\ Control' /\ Arguments'
         /\ pc'[cpu] = place /\ \A t \in Thread \ {cpu} : pc'[t] = pc[t]
<1>1. /\ cpu \in Thread /\ current_thread = cpu /\ Types /\ place \in Spot
  BY DEF IInv, Types, Alone, Spot
<1>2. /\ pc' \in [Thread -> Spot] /\ pc'[cpu] = place
      /\ \A t \in Thread \ {cpu} : pc'[t] = pc[t]
  BY <1>1 DEF Types
<1>3. Types'
  BY <1>1, <1>2 DEF Types, Kept
<1>4. Control'
  <2>1. \A t \in Thread \ {cpu} : Rests(t)'
    BY <1>2 DEF Alone, Rests
  <2>2. place # "ready"
    OBVIOUS
  <2> QED
    BY <1>1, <1>2, <2>1, <2>2 DEF Control, Alone
<1>5. Arguments'
  <2>1. \A w \in Worker : pc'[w] \notin Startup \cup {"none"} => pc[w] \notin Startup \cup {"none"}
    BY <1>2 DEF Alone, Startup, Thread
  <2> QED
    BY <2>1 DEF IInv, Arguments, Started, Kept, Thread
<1> QED
  BY <1>2, <1>3, <1>4, <1>5

------------------------------------------------------------------------------
\* Stack colours go round: the k-th is followed by the next, the last by none.
LEMMA NextColour ==
  ASSUME NEW k \in 0 .. NumOffsets - 1
  PROVE  \E l \in 0 .. NumOffsets - 1 : NextOffset(LineSize * k) = LineSize * l
<1> DEFINE size == LineSize * NumOffsets
<1> USE SizesNat, ColoursFit
<1>1. /\ k \in Nat /\ LineSize \in Nat /\ NumOffsets \in Nat /\ LineSize > 0
      /\ k + 1 \in Nat /\ k + 1 <= NumOffsets
  OBVIOUS
<1>2. LineSize * k + LineSize = LineSize * (k + 1)
  BY <1>1, SMTT(20)
<1>3. LineSize * (k + 1) \in Nat /\ size \in Nat /\ size > 0
  BY <1>1, SMTT(20)
<1>4. CASE k + 1 < NumOffsets
  <2>1. LineSize * (k + 1) < size
    BY <1>1, <1>4, SMTT(20)
  <2>2. LineSize * (k + 1) % size = LineSize * (k + 1)
    <3> DEFINE a == LineSize * (k + 1)
    <3>1. a \in Nat /\ a < size /\ size \in Nat \ {0}
      BY <1>3, <2>1
    <3> HIDE DEF a, size
    <3>2. a % size = a
      BY <3>1, RQP!QuotientSmall, QueueConstants
    <3> QED
      BY <3>2 DEF a
  <2>3. NextOffset(LineSize * k) = LineSize * (k + 1)
    BY <1>2, <2>2 DEF NextOffset
  <2>4. k + 1 \in 0 .. NumOffsets - 1
    BY <1>1, <1>4
  <2> QED
    BY <2>3, <2>4, Zenon
<1>5. CASE k + 1 = NumOffsets
  <2>1. LineSize * (k + 1) = size
    BY <1>5
  <2>2. size % size = 0
    <3> HIDE DEF size
    <3> QED
      BY <1>3, SMTT(20)
  <2>3. NextOffset(LineSize * k) = LineSize * 0
    BY <1>1, <1>2, <2>1, <2>2 DEF NextOffset
  <2>4. 0 \in 0 .. NumOffsets - 1
    BY <1>1
  <2> QED
    BY <2>3, <2>4, Zenon
<1> QED
  BY <1>1, <1>4, <1>5

\* The stack coro_spawn() lays out for a colour.
LEMMA ColouredStack ==
  ASSUME NEW k \in 0 .. NumOffsets - 1
  PROVE  STACK_SIZE + Reserve - LineSize * k \in Reserve + LineSize .. STACK_SIZE + Reserve
<1> USE SizesNat, ColoursFit
<1>1. LineSize * k \in Nat /\ LineSize * k + LineSize <= LineSize * NumOffsets
  BY SMTT(20)
<1>2. LineSize * NumOffsets \in Nat
  BY SMTT(20)
<1> QED
  BY <1>1, <1>2

LEMMA SpawnInv ==
  ASSUME IInv, NEW t \in Thread, NEW w \in Worker, Spawn(t, w)
  PROVE  IInv'
<1> USE WorkersDiffer
<1>1. process = "up" /\ cpu = t /\ pc[t] = "user" /\ pc[w] = "none" /\ w \in Thread /\ w # t
  BY DEF Spawn, InUser, Thread
<1>2. Alone /\ current_thread = t /\ \A u \in Thread \ {t} : Rests(u)
  BY <1>1, AloneFacts
<1>3. /\ pc' = [pc EXCEPT ![t] = "ask1", ![w] = "start"]
      /\ local' = [local EXCEPT ![t].thr = w]
      /\ nextId' = nextId + 1 /\ all_coros' = w
      /\ current_stack_offset' = NextOffset(current_stack_offset)
      /\ UNCHANGED <<readyQ, current_thread, cpu, process>>
  BY DEF Spawn, CoroSpawn
<1>4. /\ pc' \in [Thread -> Spot] /\ pc'[t] = "ask1" /\ pc'[w] = "start"
      /\ \A u \in Thread \ {t, w} : pc'[u] = pc[u]
  <2>1. "ask1" \in Spot /\ "start" \in Spot /\ pc \in [Thread -> Spot]
    BY DEF Spot, Startup, IInv, Types
  <2> QED
    BY <1>1, <1>3, <2>1
<1>5. /\ local' \in [Thread -> LocalFields] /\ local'[t].thr = w
      /\ \A u \in Thread : /\ local'[u].my_thr = local[u].my_thr
                           /\ local'[u].f = local[u].f /\ local'[u].f_arg = local[u].f_arg
  <2>1. w \in Value /\ local \in [Thread -> LocalFields]
    BY <1>1 DEF Value, IInv, Types
  <2> QED
    BY <1>3, <2>1 DEF LocalFields
<1>6. PICK k \in 0 .. NumOffsets - 1 : current_stack_offset = LineSize * k
  BY DEF IInv, Colour
<1>7. /\ worker' \in [Thread -> WorkerFields]
      /\ \A u \in Thread \ {w} : /\ worker'[u].id = worker[u].id
                                 /\ worker'[u].stack = worker[u].stack
                                 /\ worker'[u].suspended = worker[u].suspended
      /\ worker'[w].stack = STACK_SIZE + Reserve - LineSize * k
      /\ worker'[w].suspended = FALSE
  <2> DEFINE fields == [running |-> FALSE, suspended |-> FALSE, id |-> nextId,
                        stack |-> STACK_SIZE + Reserve - current_stack_offset,
                        tracking_prev |-> NULL, tracking_next |-> NULL]
             linked == [worker EXCEPT ![all_coros].tracking_prev = w]
  <2>1. STACK_SIZE + Reserve - LineSize * k \in Int /\ nextId \in Nat
    BY ColouredStack, SizesNat DEF IInv, Types
  <2>2. fields \in WorkerFields /\ [fields EXCEPT !.tracking_next = all_coros] \in WorkerFields
    BY <1>6, <2>1 DEF WorkerFields, IInv, Types
  <2>3. /\ [fields EXCEPT !.tracking_next = all_coros].stack = STACK_SIZE + Reserve - LineSize * k
        /\ [fields EXCEPT !.tracking_next = all_coros].suspended = FALSE
    BY <1>6
  <2>4. worker' = [linked EXCEPT ![w] = [fields EXCEPT !.tracking_next = all_coros]]
    BY DEF Spawn, CoroSpawn, InsertCoro
  <2>5. /\ linked \in [Thread -> WorkerFields]
        /\ \A u \in Thread : /\ linked[u].id = worker[u].id /\ linked[u].stack = worker[u].stack
                             /\ linked[u].suspended = worker[u].suspended
    BY <1>1 DEF WorkerFields, IInv, Types
  <2> HIDE DEF fields, linked
  <2> QED
    BY <1>1, <2>2, <2>3, <2>4, <2>5
<1>8. Types'
  BY <1>1, <1>3, <1>4, <1>5, <1>7 DEF IInv, Types
<1>9. Control'
  <2>1. NewThr' = w /\ current_thread' = t /\ cpu' = t
    BY <1>1, <1>2, <1>3, <1>5 DEF NewThr
  <2>2. AskPlace[1] = "ask1" /\ StartPlace[1] = "start"
    BY DEF AskPlace, StartPlace
  <2>3. Handed(w, 0)'
    BY DEF Handed
  <2>4. Shake(w)'
    <3>1. cpu' = current_thread' /\ pc'[cpu'] = AskPlace[1] /\ pc'[w] = StartPlace[1]
      BY <1>4, <2>1, <2>2
    <3>2. 1 \in 1 .. 4 /\ 1 - 1 = 0
      OBVIOUS
    <3> QED
      BY <1>1, <2>1, <2>3, <3>1, <3>2 DEF Shake
  <2>5. \A u \in Thread \ {t, w} : Rests(u)'
    BY <1>2, <1>4 DEF Rests
  <2> QED
    BY <2>1, <2>4, <2>5 DEF Control
<1>10. Arguments'
  BY <1>1, <1>4, <1>5, <1>7 DEF IInv, Arguments, Started, Startup, Thread
<1>11. Asleep'
  BY <1>1, <1>4, <1>7 DEF IInv, Asleep, Thread
<1>12. Queue' /\ RQ!Queued' = RQ!Queued
  BY <1>3, QueueKept DEF IInv
<1>13. Waiting'
  BY <1>1, <1>4, <1>7, <1>12 DEF IInv, Waiting, Thread
<1>14. Colour'
  BY <1>3, <1>6, NextColour DEF Colour
<1>15. StackInAllocation'
  <2>1. worker'[w].stack \in Reserve + LineSize .. STACK_SIZE + Reserve
    BY <1>7, ColouredStack
  <2> QED
    BY <1>7, <2>1 DEF IInv, StackInAllocation, Created, Thread
<1>16. Fresh'
  BY <1>2, <1>3, <1>4 DEF Fresh
<1> QED
  BY <1>8, <1>9, <1>10, <1>11, <1>12, <1>13, <1>14, <1>15, <1>16 DEF IInv

\* What tramp() stores when it is resumed for the k-th time.
Put(w, k, v) == [local EXCEPT ![w][Stores[StartPlace[k]]] = v]

LEMMA Stored ==
  ASSUME local \in [Thread -> LocalFields], NEW w \in Thread, NEW k \in 1 .. 4, NEW v \in Value,
         local' = Put(w, k, v)
  PROVE  /\ local' \in [Thread -> LocalFields]
         /\ \A u \in Thread \ {w} : local'[u] = local[u]
         /\ local'[w].thr = local[w].thr
         /\ local'[w].master = IF k = 1 THEN v ELSE local[w].master
         /\ local'[w].my_thr = IF k = 2 THEN v ELSE local[w].my_thr
         /\ local'[w].f = IF k = 3 THEN v ELSE local[w].f
         /\ local'[w].f_arg = IF k = 4 THEN v ELSE local[w].f_arg
<1>1. /\ Stores[StartPlace[1]] = "master" /\ Stores[StartPlace[2]] = "my_thr"
      /\ Stores[StartPlace[3]] = "f" /\ Stores[StartPlace[4]] = "f_arg"
  BY DEF Stores, StartPlace
<1>2. CASE k = 1
  <2>1. local' = [local EXCEPT ![w].master = v]
    BY <1>1, <1>2 DEF Put
  <2> QED
    BY <1>2, <2>1 DEF LocalFields
<1>3. CASE k = 2
  <2>1. local' = [local EXCEPT ![w].my_thr = v]
    BY <1>1, <1>3 DEF Put
  <2> QED
    BY <1>3, <2>1 DEF LocalFields
<1>4. CASE k = 3
  <2>1. local' = [local EXCEPT ![w].f = v]
    BY <1>1, <1>4 DEF Put
  <2> QED
    BY <1>4, <2>1 DEF LocalFields
<1>5. CASE k = 4
  <2>1. local' = [local EXCEPT ![w].f_arg = v]
    BY <1>1, <1>5 DEF Put
  <2> QED
    BY <1>5, <2>1 DEF LocalFields
<1> QED
  BY <1>2, <1>3, <1>4, <1>5

LEMMA AskInv ==
  ASSUME IInv, NEW t \in Thread, NEW k \in 1 .. 4, Ask(t, k)
  PROVE  IInv'
<1>0. PICK w : w = NewThr
  OBVIOUS
<1>1. /\ process = "up" /\ cpu = t /\ pc[t] = AskPlace[k]
      /\ AskPlace[k] \in {"ask1", "ask2", "ask3", "ask4"} /\ Types
  BY Places DEF Ask, At, IInv
<1>2. Shake(w) /\ \A u \in Thread \ {current_thread, w} : Rests(u)
  BY <1>0, <1>1 DEF IInv, Control, Alone
<1>3. /\ t = current_thread /\ w \in Worker \ {t} /\ w \in Thread /\ local[t].thr = w
      /\ pc[w] = StartPlace[k] /\ Handed(w, k - 1)
  <2>1. PICK j \in 1 .. 4 :
          \/ /\ cpu = current_thread /\ pc[cpu] = AskPlace[j]
             /\ pc[w] = StartPlace[j] /\ Handed(w, j - 1)
          \/ /\ cpu = w /\ pc[current_thread] = AskedPlace[j]
             /\ pc[w] = GotPlace[j] /\ Handed(w, j)
    BY <1>2 DEF Shake
  <2>2. GotPlace[j] \in {"got1", "got2", "got3", "got4"} /\ (AskPlace[j] = AskPlace[k] => j = k)
    BY Places
  <2>3. j = k /\ cpu = current_thread /\ pc[w] = StartPlace[j] /\ Handed(w, j - 1)
    BY <1>1, <2>1, <2>2
  <2> QED
    BY <1>0, <1>1, <1>2, <2>3 DEF Shake, NewThr, Thread
<1>4. /\ CoroInvoke(t, w, Values(t)[k], AskedPlace[k]) /\ worker' = RunBits(t, w)
      /\ UNCHANGED <<readyQ, sched, coros>>
  BY <1>3 DEF Ask
<1>5. /\ StartPlace[k] \in Spot /\ AskedPlace[k] \in Spot /\ GotPlace[k] \in Spot
      /\ StartPlace[k] \in Startup /\ GotPlace[k] \in Startup
      /\ AskedPlace[k] \notin Startup \cup {"none"} /\ AskPlace[k] \notin Startup \cup {"none"}
      /\ StartPlace[k] # "exit" /\ StartPlace[k] # "wait"
  BY Places DEF Spot, Startup
<1>6. /\ cpu' = w /\ pc'[t] = AskedPlace[k] /\ pc'[w] = GotPlace[k]
      /\ \A u \in Thread \ {t, w} : pc'[u] = pc[u]
      /\ pc' \in [Thread -> Spot]
      /\ local' = [local EXCEPT ![w][Stores[StartPlace[k]]] = Values(t)[k]]
      /\ process' = "up"
  BY <1>1, <1>3, <1>4, <1>5, InvokeFacts, AfterPlaces
<1>7. /\ Values(t)[1] = t /\ Values(t)[2] = w /\ Values(t)[3] = Func
      /\ Values(t)[4] = worker[w].id /\ worker[w].id \in Nat
  BY <1>1, <1>3 DEF Values, Types, WorkerFields
<1>8. Values(t)[k] \in Value
  <2>1. k = 1 \/ k = 2 \/ k = 3 \/ k = 4
    OBVIOUS
  <2> QED
    BY <1>3, <1>7, <2>1 DEF Value
<1>9. /\ local' \in [Thread -> LocalFields]
      /\ \A u \in Thread \ {w} : local'[u] = local[u]
      /\ local'[w].master = IF k = 1 THEN t ELSE local[w].master
      /\ local'[w].my_thr = IF k = 2 THEN w ELSE local[w].my_thr
      /\ local'[w].f = IF k = 3 THEN Func ELSE local[w].f
      /\ local'[w].f_arg = IF k = 4 THEN worker[w].id ELSE local[w].f_arg
  <2>1. PICK v : v = Values(t)[k]
    OBVIOUS
  <2>2. /\ local \in [Thread -> LocalFields] /\ v \in Value /\ w \in Thread /\ k \in 1 .. 4
        /\ local' = Put(w, k, v)
    BY <1>1, <1>3, <1>6, <1>8, <2>1 DEF Types, Put
  <2>3. /\ local' \in [Thread -> LocalFields]
        /\ \A u \in Thread \ {w} : local'[u] = local[u]
        /\ local'[w].master = IF k = 1 THEN v ELSE local[w].master
        /\ local'[w].my_thr = IF k = 2 THEN v ELSE local[w].my_thr
        /\ local'[w].f = IF k = 3 THEN v ELSE local[w].f
        /\ local'[w].f_arg = IF k = 4 THEN v ELSE local[w].f_arg
    BY <2>2, Stored
  <2> QED
    BY <1>7, <2>1, <2>3
<1>10. /\ Kept
       /\ \A u \in Thread : worker'[u].suspended = worker[u].suspended
  BY <1>1, <1>3, <1>4, RunBitsKept DEF Kept, Types
<1>11. UNCHANGED <<readyQ, current_thread, nextId, all_coros, current_stack_offset>>
  BY <1>4 DEF sched, coros
<1>12. Types'
  BY <1>1, <1>3, <1>6, <1>9, <1>10, <1>11 DEF Types, Kept
<1>13. Control'
  <2>1. NewThr' = w /\ current_thread' = t
    BY <1>3, <1>9, <1>11 DEF NewThr
  <2>2. Handed(w, k)'
    BY <1>3, <1>9, <1>10, <2>1 DEF Handed, Kept
  <2>3. Shake(w)'
    BY <1>3, <1>6, <2>1, <2>2 DEF Shake
  <2>4. \A u \in Thread \ {t, w} : Rests(u)'
    BY <1>2, <1>3, <1>6 DEF Rests
  <2> QED
    BY <2>1, <2>3, <2>4 DEF Control
<1>14. Arguments'
  <2>1. ASSUME NEW u \in Worker, pc'[u] \notin Startup \cup {"none"}
        PROVE  u # w /\ pc[u] \notin Startup \cup {"none"} /\ u \in Thread
    BY <1>1, <1>3, <1>5, <1>6, <2>1 DEF Thread
  <2> QED
    BY <1>9, <1>10, <2>1 DEF IInv, Arguments, Started, Kept
<1>15. Asleep'
  BY <1>1, <1>3, <1>5, <1>6, <1>10 DEF IInv, Asleep, Thread, Startup
<1>16. Queue' /\ RQ!Queued' = RQ!Queued
  BY <1>11, QueueKept DEF IInv
<1>17. Waiting'
  BY <1>1, <1>3, <1>5, <1>6, <1>10, <1>16 DEF IInv, Waiting, Thread, Startup
<1>18. Colour' /\ StackInAllocation'
  BY <1>10, <1>11, StacksKept
<1>19. Fresh'
  <2>1. current_thread' = t /\ pc'[t] = AskedPlace[k] /\ t # w
    BY <1>3, <1>6, <1>11
  <2> QED
    BY <2>1, Places DEF Fresh
<1> QED
  BY <1>12, <1>13, <1>14, <1>15, <1>16, <1>17, <1>18, <1>19 DEF IInv

LEMMA AnswerInv ==
  ASSUME IInv, NEW w \in Worker, NEW k \in 1 .. 4, Answer(w, k)
  PROVE  IInv'
<1>0. PICK m : m = current_thread
  OBVIOUS
<1>1. /\ process = "up" /\ cpu = w /\ pc[w] = GotPlace[k]
      /\ GotPlace[k] \in {"got1", "got2", "got3", "got4"} /\ Types
  BY Places DEF Answer, At, IInv
<1>2. Shake(NewThr) /\ \A u \in Thread \ {m, NewThr} : Rests(u)
  BY <1>0, <1>1 DEF IInv, Control, Alone
<1>3. /\ w = NewThr /\ w \in Worker \ {m} /\ w \in Thread /\ m \in Thread
      /\ pc[m] = AskedPlace[k] /\ Handed(w, k) /\ local[w].master = m
  <2>1. PICK j \in 1 .. 4 :
          \/ /\ cpu = m /\ pc[cpu] = AskPlace[j]
             /\ pc[NewThr] = StartPlace[j] /\ Handed(NewThr, j - 1)
          \/ /\ cpu = NewThr /\ pc[m] = AskedPlace[j]
             /\ pc[NewThr] = GotPlace[j] /\ Handed(NewThr, j)
    BY <1>0, <1>2 DEF Shake
  <2>2. AskPlace[j] \in {"ask1", "ask2", "ask3", "ask4"} /\ (GotPlace[j] = GotPlace[k] => j = k)
    BY Places
  <2>3. j = k /\ cpu = NewThr /\ pc[m] = AskedPlace[j] /\ Handed(NewThr, j)
    BY <1>1, <2>1, <2>2
  <2>4. k >= 1
    OBVIOUS
  <2> QED
    BY <1>0, <1>1, <1>2, <2>3, <2>4 DEF Shake, Thread, Types, Handed
<1>4. /\ CoroInvoke(w, m, NULL, TrampPlace[k]) /\ worker' = RunBits(w, m)
      /\ UNCHANGED <<readyQ, current_thread, nextId, all_coros, current_stack_offset>>
  BY <1>3 DEF Answer, sched, coros
<1>5. /\ AskedPlace[k] \in Spot /\ TrampPlace[k] \in Spot
      /\ AskedPlace[k] \notin Startup \cup {"none"} /\ AskedPlace[k] \notin DOMAIN Stores
      /\ AskedPlace[k] \notin {"exit", "wait", "tramp", "switched", "yield", "suspend", "spin"}
      /\ TrampPlace[k] \in Startup \cup {"tramp"} /\ (k # 4 => TrampPlace[k] \in Startup)
  <2>1. k # 4 => k + 1 \in 1 .. 4
    OBVIOUS
  <2> QED
    BY <2>1, Places, AfterPlaces DEF Spot, Startup
<1>6. After[AskedPlace[k]] = (IF k = 4 THEN "ready" ELSE AskPlace[k + 1])
  BY AfterPlaces
<1>7. After[AskedPlace[k]] \in Spot \ (Startup \cup {"none"})
  <2>1. k # 4 => k + 1 \in 1 .. 4
    OBVIOUS
  <2> QED
    BY <1>6, <2>1, Places DEF Spot, Startup
<1>8. /\ cpu' = m /\ pc'[w] = TrampPlace[k] /\ pc'[m] = After[AskedPlace[k]]
      /\ \A u \in Thread \ {m, w} : pc'[u] = pc[u]
      /\ pc' \in [Thread -> Spot]
      /\ local' = local
      /\ process' = "up"
  BY <1>1, <1>3, <1>4, <1>5, <1>7, InvokeFacts
<1>9. /\ Kept
      /\ \A u \in Thread : worker'[u].suspended = worker[u].suspended
  BY <1>1, <1>3, <1>4, RunBitsKept DEF Kept, Types
<1>10. Types'
  BY <1>1, <1>3, <1>4, <1>8, <1>9 DEF Types, Kept
<1>11. NewThr' = w /\ current_thread' = m
  BY <1>0, <1>3, <1>4, <1>8 DEF NewThr
<1>12. \A n \in 1 .. 4 : Handed(w, n)' <=> Handed(w, n)
  BY <1>3, <1>4, <1>8, <1>9 DEF Handed, Kept
<1>13. Control'
  <2>1. \A u \in Thread \ {m, w} : Rests(u)'
    BY <1>2, <1>3, <1>8 DEF Rests
  <2>2. CASE k = 4
    <3>1. pc'[m] = "ready" /\ pc'[w] = "tramp"
      BY <1>6, <1>8, <2>2, Places
    <3>2. Rests(w)'
      BY <1>3, <3>1, WorkersDiffer DEF Rests
    <3> QED
      BY <1>3, <1>8, <1>11, <2>1, <3>1, <3>2 DEF Control, Alone
  <2>3. CASE k # 4
    <3>1. pc'[m] = AskPlace[k + 1] /\ pc'[w] = StartPlace[k + 1]
      BY <1>6, <1>8, <2>3, Places
    <3>2. k + 1 \in 1 .. 4 /\ (k + 1) - 1 = k
      BY <2>3
    <3>3. Handed(w, (k + 1) - 1)'
      BY <1>3, <1>12, <3>2
    <3>4. Shake(w)'
      BY <1>3, <1>8, <1>11, <3>1, <3>2, <3>3 DEF Shake
    <3> QED
      BY <1>11, <2>1, <3>4 DEF Control
  <2> QED
    BY <2>2, <2>3
<1>14. Arguments'
  <2>1. Started(w)' \/ pc'[w] \in Startup
    <3>1. k = 4 => Started(w)
      BY <1>3 DEF Handed, Started
    <3> QED
      BY <1>3, <1>5, <1>8, <1>9, <3>1 DEF Started, Kept
  <2>2. ASSUME NEW u \in Worker \ {w}, pc'[u] \notin Startup \cup {"none"}
        PROVE  pc[u] \notin Startup \cup {"none"} /\ u \in Thread
    BY <1>5, <1>3, <1>8, <2>2 DEF Thread
  <2>3. \A u \in Worker \ {w} : pc'[u] \notin Startup \cup {"none"} => Started(u)'
    BY <1>8, <1>9, <2>2 DEF IInv, Arguments, Started, Kept
  <2> QED
    BY <2>1, <2>3 DEF Arguments
<1>15. Asleep'
  BY <1>1, <1>3, <1>5, <1>8, <1>9 DEF IInv, Asleep, Thread
<1>16. Queue' /\ RQ!Queued' = RQ!Queued
  BY <1>4, QueueKept DEF IInv
<1>17. Waiting'
  BY <1>1, <1>3, <1>5, <1>8, <1>9, <1>16 DEF IInv, Waiting, Thread
<1>18. Colour' /\ StackInAllocation'
  BY <1>4, <1>9, StacksKept
<1>19. Fresh'
  <2>1. w \notin RQ!Queued
    BY <1>1 DEF IInv, Waiting
  <2> QED
    BY <1>11, <1>16, <2>1 DEF Fresh
<1> QED
  BY <1>10, <1>13, <1>14, <1>15, <1>16, <1>17, <1>18, <1>19 DEF IInv

\* Fields that no call but the one named changes.
LEMMA WorkerKept ==
  ASSUME IInv, worker' = worker
  PROVE  /\ Kept
         /\ \A u \in Thread : worker'[u].suspended = worker[u].suspended
BY DEF IInv, Types, Kept

LEMMA ReadyInv ==
  ASSUME IInv, NEW t \in Thread, Ready(t)
  PROVE  IInv'
<1>1. process = "up" /\ cpu = t /\ pc[t] = "ready"
  BY DEF Ready, At
<1>2. Alone /\ current_thread = t
  BY <1>1, AloneFacts
<1>3. PICK w : w = local[t].thr
  OBVIOUS
<1>4. w \in Worker \ {t} /\ w \in Thread /\ pc[w] = "tramp"
  BY <1>1, <1>2, <1>3 DEF Alone, NewThr, Thread
<1>5. /\ RQ!Link(w) /\ pc' = [pc EXCEPT ![cpu] = "user"]
      /\ UNCHANGED <<cpu, local, process>> /\ worker' = worker
      /\ UNCHANGED <<nextId, all_coros, current_thread, current_stack_offset>>
  BY <1>1, <1>3 DEF Ready, Goto, sched, coros
<1>6. /\ Kept
      /\ \A u \in Thread : worker'[u].suspended = worker[u].suspended
  BY <1>5, WorkerKept
<1>7. /\ Types' /\ Control' /\ Arguments'
      /\ pc'[t] = "user" /\ \A u \in Thread \ {t} : pc'[u] = pc[u]
  BY <1>1, <1>2, <1>5, <1>6, MoveInv
<1>8. Queue' /\ RQ!Queued' = RQ!Queued \cup {w}
  <2>1. w \notin RQ!Queued
    BY <1>1, <1>2, <1>3 DEF IInv, Fresh, NewThr
  <2> QED
    BY <1>4, <1>5, <2>1, QueueEnqueue DEF IInv
<1>9. Asleep'
  BY <1>1, <1>6, <1>7 DEF IInv, Asleep, Thread
<1>10. ~worker'[w].suspended
  BY <1>4, <1>6 DEF IInv, Asleep
<1>11. Waiting'
  BY <1>1, <1>4, <1>6, <1>7, <1>8, <1>10 DEF IInv, Waiting, Thread
<1>12. Colour' /\ StackInAllocation'
  BY <1>5, <1>6, StacksKept
<1>13. Fresh'
  BY <1>2, <1>5, <1>7 DEF Fresh
<1> QED
  BY <1>7, <1>8, <1>9, <1>11, <1>12, <1>13 DEF IInv

LEMMA YieldInv ==
  ASSUME IInv, NEW t \in Worker, Yield(t)
  PROVE  IInv'
<1>1. process = "up" /\ cpu = t /\ pc[t] = "user" /\ t \in Thread /\ t # Master
  BY WorkersDiffer DEF Yield, InUser, Thread
<1>2. Alone /\ current_thread = t
  BY <1>1, AloneFacts
<1>3. /\ RQ!Link(t) /\ pc' = [pc EXCEPT ![cpu] = "yield"]
      /\ UNCHANGED <<cpu, local, process>> /\ worker' = worker
      /\ UNCHANGED <<nextId, all_coros, current_thread, current_stack_offset>>
  BY <1>1, <1>2 DEF Yield, Goto, sched, coros
<1>4. /\ Kept
      /\ \A u \in Thread : worker'[u].suspended = worker[u].suspended
  BY <1>3, WorkerKept
<1>5. /\ Types' /\ Control' /\ Arguments'
      /\ pc'[t] = "yield" /\ \A u \in Thread \ {t} : pc'[u] = pc[u]
  BY <1>1, <1>2, <1>3, <1>4, MoveInv
<1>6. Queue' /\ RQ!Queued' = RQ!Queued \cup {t}
  <2>1. t \notin RQ!Queued
    BY <1>1 DEF IInv, Waiting
  <2> QED
    BY <1>1, <1>3, <2>1, QueueEnqueue DEF IInv
<1>7. Asleep' /\ ~worker'[t].suspended
  BY <1>1, <1>4, <1>5 DEF IInv, Asleep, Thread
<1>8. Waiting'
  BY <1>1, <1>4, <1>5, <1>6, <1>7 DEF IInv, Waiting, Thread
<1>9. Colour' /\ StackInAllocation'
  BY <1>3, <1>4, StacksKept
<1>10. Fresh'
  BY <1>2, <1>3, <1>5 DEF Fresh
<1> QED
  BY <1>5, <1>6, <1>7, <1>8, <1>9, <1>10 DEF IInv

LEMMA SuspendInv ==
  ASSUME IInv, NEW t \in Worker, Suspend(t)
  PROVE  IInv'
<1>1. process = "up" /\ cpu = t /\ pc[t] = "user" /\ t \in Thread /\ t # Master
  BY WorkersDiffer DEF Suspend, InUser, Thread
<1>2. Alone /\ current_thread = t
  BY <1>1, AloneFacts
<1>3. /\ pc' = [pc EXCEPT ![cpu] = "suspend"]
      /\ UNCHANGED <<cpu, local, process, readyQ>>
      /\ worker' = [worker EXCEPT ![t].running = FALSE, ![t].suspended = TRUE]
      /\ UNCHANGED <<nextId, all_coros, current_thread, current_stack_offset>>
  BY <1>1, <1>2 DEF Suspend, Goto, sched, coros
<1>4. /\ Kept
      /\ \A u \in Thread \ {t} : worker'[u].suspended = worker[u].suspended
  <2>1. PICK no \in BOOLEAN : no = FALSE
    OBVIOUS
  <2>2. PICK yes \in BOOLEAN : yes = TRUE
    OBVIOUS
  <2>3. PICK once : once = SetRunning(worker, t, no)
    OBVIOUS
  <2>4. worker' = SetSuspended(once, t, yes)
    BY <1>3, <2>1, <2>2, <2>3 DEF SetRunning, SetSuspended
  <2>5. /\ once \in [Thread -> WorkerFields]
        /\ \A u \in Thread : /\ once[u].id = worker[u].id /\ once[u].stack = worker[u].stack
                             /\ once[u].suspended = worker[u].suspended
    BY <1>1, <2>3, RunningKept DEF IInv, Types
  <2>6. /\ worker' \in [Thread -> WorkerFields]
        /\ \A u \in Thread : /\ worker'[u].id = once[u].id /\ worker'[u].stack = once[u].stack
                             /\ (u # t => worker'[u].suspended = once[u].suspended)
    BY <1>1, <2>4, <2>5, SuspendedKept
  <2> QED
    BY <2>5, <2>6 DEF Kept
<1>5. /\ Types' /\ Control' /\ Arguments'
      /\ pc'[t] = "suspend" /\ \A u \in Thread \ {t} : pc'[u] = pc[u]
  BY <1>1, <1>2, <1>3, <1>4, MoveInv
<1>6. Queue' /\ RQ!Queued' = RQ!Queued
  BY <1>3, QueueKept DEF IInv
<1>7. Asleep'
  BY <1>1, <1>4, <1>5 DEF IInv, Asleep, Thread
<1>8. Waiting'
  BY <1>1, <1>4, <1>5, <1>6 DEF IInv, Waiting, Thread
<1>9. Colour' /\ StackInAllocation'
  BY <1>3, <1>4, StacksKept
<1>10. Fresh'
  BY <1>2, <1>3, <1>5 DEF Fresh
<1> QED
  BY <1>5, <1>6, <1>7, <1>8, <1>9, <1>10 DEF IInv

LEMMA WakeInv ==
  ASSUME IInv, NEW t \in Thread, NEW n \in Worker, Wake(t, n)
  PROVE  IInv'
<1>1. /\ process = "up" /\ cpu = t /\ pc[t] = "user" /\ n \in Thread /\ pc[n] = "switched"
      /\ pc \in [Thread -> Spot] /\ worker \in [Thread -> WorkerFields]
  BY DEF Wake, InUser, MayWake, Thread, IInv, Types
<1>2. Alone /\ current_thread = t
  BY <1>1, AloneFacts
<1>3. /\ RQ!Link(n) /\ worker' = [worker EXCEPT ![n].suspended = FALSE]
      /\ UNCHANGED <<cpu, pc, local, process>>
      /\ UNCHANGED <<nextId, all_coros, current_thread, current_stack_offset>>
  BY DEF Wake, sched, coros, machine
<1>4. /\ Kept /\ ~worker'[n].suspended
      /\ \A u \in Thread \ {n} : worker'[u].suspended = worker[u].suspended
  <2>0. PICK no \in BOOLEAN : no = FALSE
    OBVIOUS
  <2>1. worker' = SetSuspended(worker, n, no)
    BY <1>3, <2>0 DEF SetSuspended
  <2>2. /\ worker' \in [Thread -> WorkerFields] /\ worker'[n].suspended = no
        /\ \A u \in Thread : /\ worker'[u].id = worker[u].id /\ worker'[u].stack = worker[u].stack
                             /\ u # n => worker'[u].suspended = worker[u].suspended
    BY <1>1, <2>1, SuspendedKept
  <2> QED
    BY <2>0, <2>2 DEF Kept
<1>5. Types' /\ Control' /\ Arguments'
  <2>1. pc' = [pc EXCEPT ![cpu] = "user"]
    BY <1>1, <1>3
  <2> QED
    BY <1>1, <1>2, <1>3, <1>4, <2>1, MoveInv
<1>6. Queue' /\ RQ!Queued' = RQ!Queued \cup {n}
  <2>1. n \notin RQ!Queued
    BY DEF Wake, MayWake, IInv, Waiting
  <2> QED
    BY <1>1, <1>3, <2>1, QueueEnqueue DEF IInv
<1>7. Asleep'
  BY <1>1, <1>3, <1>4 DEF IInv, Asleep, Thread
<1>8. Waiting'
  BY <1>1, <1>3, <1>4, <1>6 DEF IInv, Waiting, Thread
<1>9. Colour' /\ StackInAllocation'
  BY <1>3, <1>4, StacksKept
<1>10. Fresh'
  BY <1>1, <1>2, <1>3 DEF Fresh
<1> QED
  BY <1>5, <1>6, <1>7, <1>8, <1>9, <1>10 DEF IInv

LEMMA RunInv ==
  ASSUME IInv, Run
  PROVE  IInv'
<1>1. process = "up" /\ cpu = Master /\ pc[Master] = "user" /\ Master \in Thread
  BY DEF Run, InUser, Thread
<1>2. Alone /\ current_thread = Master
  BY <1>1, AloneFacts
<1>3. /\ pc' = [pc EXCEPT ![cpu] = "run"] /\ worker' = worker
      /\ UNCHANGED <<cpu, local, process, readyQ>>
      /\ UNCHANGED <<nextId, all_coros, current_thread, current_stack_offset>>
  BY <1>1 DEF Run, Goto, sched, coros
<1>4. /\ Kept
      /\ \A u \in Thread : worker'[u].suspended = worker[u].suspended
  BY <1>3, WorkerKept
<1>5. /\ Types' /\ Control' /\ Arguments'
      /\ \A u \in Thread \ {Master} : pc'[u] = pc[u]
  BY <1>1, <1>2, <1>3, <1>4, MoveInv
<1>6. Queue' /\ RQ!Queued' = RQ!Queued
  BY <1>3, QueueKept DEF IInv
<1>7. Asleep' /\ Waiting'
  BY <1>4, <1>5, <1>6, WorkersDiffer DEF IInv, Asleep, Waiting, Thread
<1>8. Colour' /\ StackInAllocation'
  BY <1>3, <1>4, StacksKept
<1>9. Fresh'
  BY <1>1, <1>2, <1>3 DEF Fresh, IInv, Types
<1> QED
  BY <1>5, <1>6, <1>7, <1>8, <1>9 DEF IInv

------------------------------------------------------------------------------
\* nextCoroutine() that finds a worker, called by any thread.
LEMMA DispatchInv ==
  ASSUME IInv, process = "up", Alone, pc[cpu] \in {"run", "yield", "suspend", "spin"},
         NEW place, place = IF cpu = Master THEN "wait" ELSE "switched",
         Dispatch(place)
  PROVE  IInv'
<1>1. PICK to : to = ret'
  OBVIOUS
<1>2. /\ RQ!Dequeue /\ current_thread' = to /\ CoroInvoke(current_thread, to, NULL, place)
      /\ worker' = RunBits(current_thread, to)
      /\ UNCHANGED <<nextId, all_coros, current_stack_offset>>
  BY <1>1 DEF Dispatch, coros
<1>3. Queue' /\ to \in RQ!Queued /\ \A u \in RQ!Queued' : u \in RQ!Queued /\ u # to
  BY <1>1, <1>2, QueueDequeue DEF IInv
<1>4. /\ to \in Worker /\ ~worker[to].suspended /\ pc[to] \in {"tramp", "switched", "yield"}
      /\ to \in Thread /\ to # Master /\ cpu \in Thread
  BY <1>3, WorkersDiffer DEF IInv, Waiting, Thread, Types
<1>5. to = cpu \/ pc[to] \in {"tramp", "switched"}
  <2>1. to # cpu => Rests(to)
    BY <1>4 DEF Alone
  <2> QED
    BY <1>4, <2>1 DEF Rests
<1>6. /\ Kept
      /\ \A u \in Thread : worker'[u].suspended = worker[u].suspended
  BY <1>2, <1>4, RunBitsKept DEF IInv, Types, Kept
<1>7. /\ Types' /\ Control' /\ Arguments'
      /\ pc'[to] = "user" /\ (cpu # to => pc'[cpu] = place)
      /\ \A u \in Thread \ {to, cpu} : pc'[u] = pc[u]
  <2>1. CoroInvoke(current_thread, to, NULL, place) /\ UNCHANGED <<nextId, all_coros>>
    BY <1>2
  <2> QED
    BY <1>2, <1>4, <1>5, <1>6, <2>1, SwitchInv
<1>8. \A u \in Worker : u \in Thread /\ (u = cpu => place = "switched")
  BY WorkersDiffer DEF Thread
<1>9. Asleep'
  BY <1>4, <1>6, <1>7, <1>8 DEF IInv, Asleep
<1>10. Waiting'
  BY <1>3, <1>6, <1>7, <1>8 DEF IInv, Waiting
<1>11. Colour' /\ StackInAllocation'
  BY <1>2, <1>6, StacksKept
<1>12. Fresh'
  BY <1>2, <1>7 DEF Fresh
<1> QED
  BY <1>3, <1>7, <1>9, <1>10, <1>11, <1>12 DEF IInv

\* nextCoroutine() that finds none.
LEMMA NoneReadyInv ==
  ASSUME IInv, process = "up", Alone, NEW place,
         place = IF cpu = Master THEN "user" ELSE "spin",
         cpu # Master => pc[cpu] \in {"yield", "suspend", "spin"},
         RQ!DequeueEmpty, Goto(cpu, place), UNCHANGED <<sched, worker, coros>>
  PROVE  IInv'
<1>1. /\ pc' = [pc EXCEPT ![cpu] = place] /\ UNCHANGED <<cpu, local, process>>
      /\ UNCHANGED <<nextId, all_coros, current_thread, current_stack_offset>>
      /\ worker' = worker
  BY DEF Goto, sched, coros
<1>2. Queue' /\ RQ!Queued = {} /\ RQ!Queued' = {}
  BY QueueDequeueEmpty DEF IInv
<1>3. /\ Kept
      /\ \A u \in Thread : worker'[u].suspended = worker[u].suspended
  BY <1>1, WorkerKept
<1>4. /\ Types' /\ Control' /\ Arguments'
      /\ pc'[cpu] = place /\ \A u \in Thread \ {cpu} : pc'[u] = pc[u]
  <2>1. place \in {"user"} \cup (IF cpu = Master THEN {"run"} ELSE {"yield", "suspend", "spin"})
    OBVIOUS
  <2> QED
    BY <1>1, <1>3, <2>1, MoveInv
<1>5. Asleep' /\ Waiting'
  BY <1>2, <1>3, <1>4, WorkersDiffer DEF IInv, Asleep, Waiting, Thread
<1>6. Colour' /\ StackInAllocation'
  BY <1>1, <1>3, StacksKept
<1>7. Fresh'
  BY <1>1, <1>4 DEF Fresh, Alone
<1> QED
  BY <1>2, <1>4, <1>5, <1>6, <1>7 DEF IInv

LEMMA NextCoroutineInv ==
  ASSUME IInv, NEW t \in Worker, NextCoroutine(t)
  PROVE  IInv'
<1>1. /\ process = "up" /\ cpu = t /\ pc[t] \in {"yield", "suspend", "spin"}
      /\ t \in Thread /\ t # Master
  BY WorkersDiffer DEF NextCoroutine, At, Thread
<1>2. Alone
  BY <1>1, AloneFacts
<1>3. CASE Dispatch("switched")
  BY <1>1, <1>2, <1>3, DispatchInv
<1>4. CASE RQ!DequeueEmpty /\ Goto(t, "spin") /\ UNCHANGED <<sched, worker, coros>>
  BY <1>1, <1>2, <1>4, NoneReadyInv
<1> QED
  BY <1>3, <1>4 DEF NextCoroutine

LEMMA ThreadWaitInv ==
  ASSUME IInv, ThreadWait
  PROVE  IInv'
<1>1. process = "up" /\ cpu = Master /\ pc[Master] = "run" /\ Master \in Thread
  BY DEF ThreadWait, At, Thread
<1>2. Alone
  BY <1>1, AloneFacts
<1>3. CASE Dispatch("wait")
  BY <1>1, <1>2, <1>3, DispatchInv
<1>4. CASE RQ!DequeueEmpty /\ Goto(Master, "user") /\ UNCHANGED <<sched, worker, coros>>
  BY <1>1, <1>2, <1>4, NoneReadyInv
<1> QED
  BY <1>3, <1>4 DEF ThreadWait

LEMMA HandToInv ==
  ASSUME IInv, NEW t \in Worker, NEW n \in Worker, NEW suspends \in BOOLEAN,
         HandTo(t, n, suspends), Queue',
         RQ!Queued' = IF suspends THEN RQ!Queued ELSE RQ!Queued \cup {t}
  PROVE  IInv'
<1>1. /\ process = "up" /\ cpu = t /\ pc[t] = "user" /\ t \in Thread /\ t # Master
      /\ pc[n] = "switched" /\ worker[n].suspended /\ n \in Thread /\ n # t
  BY WorkersDiffer DEF HandTo, InUser, MayWake, Thread
<1>2. Alone /\ current_thread = t
  BY <1>1, AloneFacts
<1>3. /\ worker' = [RunBits(t, n) EXCEPT ![n].suspended = FALSE, ![t].suspended = suspends]
      /\ current_thread' = n /\ CoroInvoke(current_thread, n, NULL, "switched")
      /\ UNCHANGED <<nextId, all_coros, current_stack_offset>>
  BY DEF HandTo, coros
<1>4. /\ Kept /\ ~worker'[n].suspended /\ worker'[t].suspended = suspends
      /\ \A u \in Thread \ {n, t} : worker'[u].suspended = worker[u].suspended
  <2>1. PICK once : once = RunBits(t, n)
    OBVIOUS
  <2>2. /\ once \in [Thread -> WorkerFields]
        /\ \A u \in Thread : /\ once[u].id = worker[u].id /\ once[u].stack = worker[u].stack
                             /\ once[u].suspended = worker[u].suspended
    BY <1>1, <2>1, RunBitsKept DEF IInv, Types
  <2>3. PICK no \in BOOLEAN : no = FALSE
    OBVIOUS
  <2>4. PICK twice : twice = SetSuspended(once, n, no)
    OBVIOUS
  <2>5. /\ twice \in [Thread -> WorkerFields] /\ twice[n].suspended = no
        /\ \A u \in Thread : /\ twice[u].id = once[u].id /\ twice[u].stack = once[u].stack
                             /\ u # n => twice[u].suspended = once[u].suspended
    BY <1>1, <2>2, <2>4, SuspendedKept
  <2>6. worker' = SetSuspended(twice, t, suspends)
    BY <1>3, <2>1, <2>3, <2>4 DEF SetSuspended
  <2>7. /\ worker' \in [Thread -> WorkerFields] /\ worker'[t].suspended = suspends
        /\ \A u \in Thread : /\ worker'[u].id = twice[u].id /\ worker'[u].stack = twice[u].stack
                             /\ u # t => worker'[u].suspended = twice[u].suspended
    BY <1>1, <2>5, <2>6, SuspendedKept
  <2> QED
    BY <1>1, <2>2, <2>3, <2>5, <2>7 DEF Kept
<1>5. /\ Types' /\ Control' /\ Arguments'
      /\ pc'[n] = "user" /\ pc'[t] = "switched"
      /\ \A u \in Thread \ {n, t} : pc'[u] = pc[u]
  <2>1. PICK place : place = IF cpu = Master THEN "wait" ELSE "switched"
    OBVIOUS
  <2>2. /\ place = "switched" /\ (n = cpu \/ pc[n] \in {"tramp", "switched"})
        /\ cpu = t /\ cpu # n
    BY <1>1, <2>1
  <2>3. CoroInvoke(current_thread, n, NULL, place) /\ UNCHANGED <<nextId, all_coros>>
    BY <1>3, <2>2
  <2>4. /\ Types' /\ Control' /\ Arguments'
        /\ pc'[n] = "user" /\ (cpu # n => pc'[cpu] = place)
        /\ \A u \in Thread \ {n, cpu} : pc'[u] = pc[u]
    BY <1>1, <1>2, <1>3, <1>4, <2>1, <2>2, <2>3, SwitchInv
  <2> QED
    BY <2>2, <2>4
<1>6. Asleep'
  BY <1>4, <1>5 DEF IInv, Asleep, Thread
<1>7. Waiting'
  <2>1. t \notin RQ!Queued /\ n \notin RQ!Queued
    BY <1>1 DEF IInv, Waiting
  <2> QED
    BY <1>4, <1>5, <2>1 DEF IInv, Waiting, Thread
<1>8. Colour' /\ StackInAllocation'
  BY <1>3, <1>4, StacksKept
<1>9. Fresh'
  BY <1>3, <1>5 DEF Fresh
<1> QED
  BY <1>5, <1>6, <1>7, <1>8, <1>9 DEF IInv

LEMMA YieldWakeInv ==
  ASSUME IInv, NEW t \in Worker, NEW n \in Worker, YieldWake(t, n)
  PROVE  IInv'
<1>1. process = "up" /\ cpu = t /\ pc[t] = "user" /\ t \in Thread
  BY DEF YieldWake, HandTo, InUser, Thread
<1>2. current_thread = t
  BY <1>1, AloneFacts
<1>3. RQ!Link(t) /\ HandTo(t, n, FALSE)
  BY <1>2 DEF YieldWake
<1>4. Queue' /\ RQ!Queued' = RQ!Queued \cup {t}
  <2>1. t \notin RQ!Queued
    BY <1>1 DEF IInv, Waiting
  <2> QED
    BY <1>1, <1>3, <2>1, QueueEnqueue DEF IInv
<1> QED
  BY <1>3, <1>4, HandToInv

LEMMA SuspendWakeInv ==
  ASSUME IInv, NEW t \in Worker, NEW n \in Worker, SuspendWake(t, n)
  PROVE  IInv'
<1>1. UNCHANGED readyQ /\ HandTo(t, n, TRUE)
  BY DEF SuspendWake
<1>2. Queue' /\ RQ!Queued' = RQ!Queued
  BY <1>1, QueueKept DEF IInv
<1> QED
  BY <1>1, <1>2, HandToInv

LEMMA ExitInv ==
  ASSUME IInv, NEW t \in Worker, Exit(t)
  PROVE  IInv'
<1>1. /\ process = "up" /\ cpu = t /\ pc[t] = "user" /\ t \in Thread /\ t # Master
      /\ t # NULL /\ Master \in Thread /\ Types
  BY WorkersDiffer DEF Exit, InUser, Thread, IInv
<1>2. Alone /\ current_thread = t /\ \A u \in Thread \ {t} : Rests(u)
  BY <1>1, AloneFacts
<1>3. local[t].my_thr = t
  BY <1>1 DEF IInv, Arguments, Started, Startup
<1>4. /\ next' = [next EXCEPT ![t] = NULL]
      /\ UNCHANGED <<queues, eq_index, dq_index, len, ret, order>>
      /\ current_thread' = Master /\ CoroInvoke(t, Master, t, "exit")
      /\ worker' = RunBits(t, Master)
      /\ UNCHANGED <<nextId, all_coros, current_stack_offset>>
  BY <1>2, <1>3 DEF Exit, coros
<1>5. t \notin RQ!Queued
  BY <1>1 DEF IInv, Waiting
<1>6. Queue' /\ RQ!Queued' = RQ!Queued
  BY <1>1, <1>4, <1>5, QueueExit DEF IInv
<1>7. pc[Master] = "wait" /\ "wait" \in Spot /\ "exit" \in Spot /\ "run" \in Spot
  BY <1>1, <1>2 DEF Rests, Spot
<1>8. /\ cpu' = Master /\ pc'[t] = "exit" /\ pc'[Master] = "run"
      /\ \A u \in Thread \ {Master, t} : pc'[u] = pc[u]
      /\ pc' \in [Thread -> Spot] /\ local' = local /\ process' = "up"
  BY <1>1, <1>4, <1>7, InvokeFacts, AfterPlaces
<1>9. /\ Kept
      /\ \A u \in Thread : worker'[u].suspended = worker[u].suspended
  BY <1>1, <1>4, RunBitsKept DEF Types, Kept
<1>10. Types'
  BY <1>1, <1>4, <1>8, <1>9 DEF Types, Kept
<1>11. Control'
  <2>1. \A u \in Thread \ {Master} : Rests(u)'
    BY <1>1, <1>2, <1>8 DEF Rests
  <2> QED
    BY <1>4, <1>8, <2>1 DEF Control, Alone
<1>12. Arguments'
  <2>1. ASSUME NEW u \in Worker, pc'[u] \notin Startup \cup {"none"}
        PROVE  pc[u] \notin Startup \cup {"none"} /\ u \in Thread
    BY <1>1, <1>8, <2>1, WorkersDiffer DEF Thread, Startup
  <2> QED
    BY <1>8, <1>9, <2>1 DEF IInv, Arguments, Started, Kept
<1>13. Asleep'
  BY <1>1, <1>8, <1>9, WorkersDiffer DEF IInv, Asleep, Thread
<1>14. Waiting'
  BY <1>1, <1>5, <1>6, <1>8, <1>9, WorkersDiffer DEF IInv, Waiting, Thread
<1>15. Colour' /\ StackInAllocation'
  BY <1>4, <1>9, StacksKept
<1>16. Fresh'
  BY <1>4, <1>8 DEF Fresh
<1> QED
  BY <1>6, <1>10, <1>11, <1>12, <1>13, <1>14, <1>15, <1>16 DEF IInv

LEMMA FinalizeInv ==
  ASSUME IInv, Finalize
  PROVE  IInv'
<1>1. /\ pc' = [pc EXCEPT ![Master] = "finished"] /\ process' = "success"
      /\ UNCHANGED <<readyQ, cpu, local>> /\ worker' = worker
      /\ UNCHANGED <<nextId, all_coros, current_thread, current_stack_offset>>
  BY DEF Finalize, sched
<1>2. /\ Kept
      /\ \A u \in Thread : worker'[u].suspended = worker[u].suspended
  BY <1>1, WorkerKept
<1>3. \A u \in Worker : pc'[u] = pc[u]
  BY <1>1, WorkersDiffer DEF IInv, Types, Thread
<1>4. Types'
  <2>1. "finished" \in Spot
    BY DEF Spot
  <2> QED
    BY <1>1, <1>2, <2>1 DEF IInv, Types, Kept
<1>5. Control'
  BY <1>1 DEF Control
<1>6. Arguments' /\ Asleep'
  BY <1>1, <1>3 DEF IInv, Arguments, Started, Asleep
<1>7. Queue' /\ RQ!Queued' = RQ!Queued
  BY <1>1, QueueKept DEF IInv
<1>8. Waiting'
  BY <1>1, <1>3, <1>7 DEF IInv, Waiting
<1>9. Colour' /\ StackInAllocation'
  BY <1>1, <1>2, StacksKept
<1>10. Fresh'
  <2>1. current_thread' = current_thread /\ pc \in [Thread -> Spot] /\ current_thread \in Thread
    BY <1>1 DEF IInv, Types
  <2>2. pc'[current_thread] = "ready" => pc[current_thread] = "ready"
    BY <1>1, <2>1
  <2> QED
    BY <1>1, <1>7, <2>1, <2>2 DEF IInv, Fresh, NewThr
<1> QED
  BY <1>4, <1>5, <1>6, <1>7, <1>8, <1>9, <1>10 DEF IInv

LEMMA StutterInv ==
  ASSUME IInv, UNCHANGED vars
  PROVE  IInv'
<1>1. /\ UNCHANGED <<readyQ, cpu, pc, local, process>> /\ worker' = worker
      /\ UNCHANGED <<nextId, all_coros, current_thread, current_stack_offset>>
  BY DEF vars, sched, coros, machine
<1>2. Types' /\ Arguments' /\ Asleep'
  BY <1>1 DEF IInv, Types, Arguments, Started, Asleep
<1>3. Control'
  BY <1>1 DEF IInv, Control, Shake, Handed, Alone, Rests, NewThr
<1>4. Queue' /\ RQ!Queued' = RQ!Queued
  BY <1>1, QueueKept DEF IInv
<1>5. Waiting'
  BY <1>1, <1>4 DEF IInv, Waiting
<1>6. Colour' /\ StackInAllocation'
  BY <1>1, WorkerKept, StacksKept
<1>7. Fresh'
  BY <1>1, <1>4 DEF IInv, Fresh, NewThr
<1> QED
  BY <1>2, <1>3, <1>4, <1>5, <1>6, <1>7 DEF IInv

------------------------------------------------------------------------------
LEMMA InitInv == Init => IInv
<1> SUFFICES ASSUME Init
             PROVE  IInv
  OBVIOUS
<1> USE WorkersDiffer
<1>1. Master \in Thread /\ \A w \in Worker : w \in Thread /\ w # Master
  BY DEF Thread
<1>2. Queue /\ RQ!Queued = {}
  BY QueueInit DEF Init
<1>3. MasterFields \in WorkerFields
  BY DEF MasterFields, WorkerFields
<1>4. /\ worker \in [Thread -> WorkerFields]
      /\ \A t \in Thread : worker[t].id = 0 /\ worker[t].suspended = FALSE
  BY <1>3 DEF Init, MasterFields, WorkerFields
<1>5. /\ pc \in [Thread -> Spot] /\ pc[Master] = "user" /\ \A w \in Worker : pc[w] = "none"
  BY <1>1 DEF Init, Spot
<1>6. Types
  <2>1. local \in [Thread -> LocalFields]
    BY DEF Init, LocalFields, Value
  <2> QED
    BY <1>1, <1>4, <1>5, <2>1 DEF Init, Types
<1>7. Control
  BY <1>1, <1>5 DEF Init, Control, Alone, Rests, Thread
<1>8. Arguments /\ Asleep /\ Waiting /\ StackInAllocation
  BY <1>1, <1>2, <1>4, <1>5 DEF Arguments, Asleep, Waiting, StackInAllocation, Created
<1>9. Colour
  <2>1. 0 \in 0 .. NumOffsets - 1 /\ LineSize * 0 = 0
    BY SizesNat
  <2> QED
    BY <2>1 DEF Init, Colour
<1>10. Fresh
  BY <1>1, <1>5 DEF Init, Fresh
<1> QED
  BY <1>2, <1>6, <1>7, <1>8, <1>9, <1>10 DEF IInv

\* The other calls of tasks alone, if main() does not yield.
LEMMA OnlyTasksYield ==
  ASSUME "master_yield" \notin Calls, IInv, NEW t \in Thread, Yield(t) \/ NextCoroutine(t)
  PROVE  t \in Worker
<1>1. CASE Yield(t)
  BY <1>1 DEF Yield, Thread
<1>2. CASE NextCoroutine(t)
  <2>1. process = "up" /\ cpu = t /\ pc[t] \in {"yield", "suspend", "spin"}
    BY <1>2 DEF NextCoroutine, At
  <2>2. Alone
    BY <2>1, AloneFacts
  <2> QED
    BY <2>1, <2>2 DEF Alone, Thread
<1> QED
  BY <1>1, <1>2

LEMMA NextInv ==
  ASSUME "master_yield" \notin Calls
  PROVE  IInv /\ [Next]_vars => IInv'
<1> SUFFICES ASSUME IInv, [Next]_vars
             PROVE  IInv'
  OBVIOUS
<1>1. CASE \E t \in Thread, thr \in Worker : Spawn(t, thr)
  BY <1>1, SpawnInv
<1>2. CASE \E t \in Thread, k \in 1 .. 4 : Ask(t, k)
  BY <1>2, AskInv
<1>3. CASE \E t \in Worker, k \in 1 .. 4 : Answer(t, k)
  BY <1>3, AnswerInv
<1>4. CASE \E t \in Thread : Ready(t)
  BY <1>4, ReadyInv
<1>5. CASE \E t \in Worker : Yield(t) \/ Suspend(t) \/ NextCoroutine(t) \/ Exit(t)
  BY <1>5, YieldInv, SuspendInv, NextCoroutineInv, ExitInv
<1>6. CASE \E t \in Thread, n \in Worker : Wake(t, n)
  BY <1>6, WakeInv
<1>7. CASE \E t, n \in Worker : YieldWake(t, n) \/ SuspendWake(t, n)
  BY <1>7, YieldWakeInv, SuspendWakeInv
<1>8. CASE Run \/ ThreadWait \/ Finalize
  BY <1>8, RunInv, ThreadWaitInv, FinalizeInv
<1>9. CASE Terminated \/ UNCHANGED vars
  BY <1>9, StutterInv DEF Terminated
<1> QED
  BY <1>1, <1>2, <1>3, <1>4, <1>5, <1>6, <1>7, <1>8, <1>9,
     OnlyTasksYield DEF Next

THEOREM Inductive ==
  ASSUME "master_yield" \notin Calls
  PROVE  Spec => []IInv
<1>1. Init => IInv
  BY InitInv
<1>2. IInv /\ [Next]_vars => IInv'
  BY NextInv
<1> QED
  BY <1>1, <1>2, PTL DEF Spec

------------------------------------------------------------------------------
\* Whoever creates a task, and whatever ran before its creator went on, its
\* function starts with the worker and the arguments it was created with:
\* worker_spawn() and tramp() take their coro_invoke() calls in step.
THEOREM AlwaysStartsWithItsArguments ==
  ASSUME "master_yield" \notin Calls
  PROVE  Spec => []StartsWithItsArguments
<1>1. IInv => StartsWithItsArguments
  <2>1. /\ \A k \in 1 .. 4 : GotPlace[k] \in {"got1", "got2", "got3", "got4"}
        /\ \A k \in 1 .. 3 : TrampPlace[k] \in {"tramp1", "tramp2", "tramp3"}
    <3>1. \A k \in 1 .. 3 : k = 1 \/ k = 2 \/ k = 3
      OBVIOUS
    <3> QED
      BY <3>1, Places DEF TrampPlace
  <2>2. /\ GotPlace[1] = "got1" /\ GotPlace[2] = "got2" /\ GotPlace[3] = "got3" /\ GotPlace[4] = "got4"
        /\ TrampPlace[1] = "tramp1" /\ TrampPlace[2] = "tramp2" /\ TrampPlace[3] = "tramp3"
    BY DEF GotPlace, TrampPlace
  <2>3. Startup \cup {"none"} =
          {"none", "start"} \cup {GotPlace[k] : k \in 1 .. 4} \cup {TrampPlace[k] : k \in 1 .. 3}
    <3>1. \A k \in 1 .. 3 : k = 1 \/ k = 2 \/ k = 3
      OBVIOUS
    <3>2. 1 \in 1 .. 4 /\ 2 \in 1 .. 4 /\ 3 \in 1 .. 4 /\ 4 \in 1 .. 4
          /\ 1 \in 1 .. 3 /\ 2 \in 1 .. 3 /\ 3 \in 1 .. 3
      OBVIOUS
    <3> QED
      BY <2>1, <2>2, <3>1, <3>2 DEF Startup
  <2> QED
    BY <2>3 DEF IInv, Arguments, Started, StartsWithItsArguments
<1> QED
  BY <1>1, Inductive, PTL

\* For any stack size, reserve, cache line and number of colours that fit, the
\* stack pointer coro_spawn() gives a task is inside what it allocated.
THEOREM AlwaysStackInAllocation ==
  ASSUME "master_yield" \notin Calls
  PROVE  Spec => []StackInAllocation
<1>1. IInv => StackInAllocation
  BY DEF IInv
<1> QED
  BY <1>1, Inductive, PTL

\* The round-robin lists of the ready queue keep their shape in the whole
\* runtime, where tasks are linked and unlinked by every call and
\* thread_exit() writes a link without the queue knowing.
THEOREM QueueAlwaysKeepsShape ==
  ASSUME "master_yield" \notin Calls
  PROVE  Spec => []QueueKeepsShape
<1>1. IInv => QueueKeepsShape
  BY DEF IInv, Queue, QueueKeepsShape
<1> QED
  BY <1>1, Inductive, PTL

------------------------------------------------------------------------------
(***************************************************************************)
(* What the refinement needs besides IInv: the running bits, what a call   *)
(* under way has done so far, and that it may be made.                     *)
(***************************************************************************)
OnlyCpuRuns ==
  process = "up" =>
    \A t \in Thread : worker[t].running = (t = cpu /\ pc[t] \notin {"suspend", "spin"})

Permitted ==
  process = "up" =>
    /\ Spawning => current_thread = Master \/ "create" \in Calls
    /\ Yielding => "yield" \in Calls
    /\ Suspending => "suspend" \in Calls

Begun ==
  process = "up" =>
    /\ Yielding => order # << >> /\ order[Len(order)] = current_thread
    /\ Suspending => worker[current_thread].suspended
    /\ pc[current_thread] = "spin" => order = << >>

Numbered ==
  /\ \A w \in Worker : pc[w] = "none" => worker[w].id = 0
  /\ Spawning => worker[NewThr].id = nextId - 1

Extra == OnlyCpuRuns /\ Permitted /\ Begun /\ Numbered

------------------------------------------------------------------------------
\* The abstract state, by what is under way.
SpawningPlace == {"ask1", "ask2", "ask3", "ask4", "ready", "asked1", "asked2", "asked3", "asked4"}

LEMMA SpawningPlaces == Spawning <=> pc[current_thread] \in SpawningPlace
<1>1. /\ AskPlace[1] = "ask1" /\ AskPlace[2] = "ask2" /\ AskPlace[3] = "ask3" /\ AskPlace[4] = "ask4"
      /\ AskedPlace[1] = "asked1" /\ AskedPlace[2] = "asked2"
      /\ AskedPlace[3] = "asked3" /\ AskedPlace[4] = "asked4"
  BY DEF AskPlace, AskedPlace
<1>2. \A k \in 1 .. 4 : k = 1 \/ k = 2 \/ k = 3 \/ k = 4
  OBVIOUS
<1>3. 1 \in 1 .. 4 /\ 2 \in 1 .. 4 /\ 3 \in 1 .. 4 /\ 4 \in 1 .. 4
  OBVIOUS
<1> QED
  BY <1>1, <1>2, <1>3 DEF Spawning, SpawningPlace

Plain == pc[current_thread] \notin SpawningPlace \cup {"yield", "suspend"}

\* How the two runtimes look alike: running bits aside, which OnlyCpuRuns gives.
PlainView ==
  /\ ~Spawning /\ MappedCpu = cpu /\ MappedPc = pc /\ MappedReadyQ = order
  /\ MappedSuspended = [t \in Thread |-> worker[t].suspended]
  /\ MappedId = [t \in Thread |-> worker[t].id]
SpawningView ==
  /\ Spawning /\ MappedCpu = current_thread /\ MappedReadyQ = order
  /\ MappedPc = [pc EXCEPT ![current_thread] = "user", ![NewThr] = "none"]
  /\ MappedSuspended = [t \in Thread |-> worker[t].suspended]
  /\ MappedId = [t \in Thread |-> IF t = NewThr THEN 0 ELSE worker[t].id]
YieldingView ==
  /\ ~Spawning /\ MappedCpu = cpu /\ MappedReadyQ = SubSeq(order, 1, Len(order) - 1)
  /\ MappedPc = [pc EXCEPT ![current_thread] = "user"]
  /\ MappedSuspended = [t \in Thread |-> worker[t].suspended]
  /\ MappedId = [t \in Thread |-> worker[t].id]
SuspendingView ==
  /\ ~Spawning /\ MappedCpu = cpu /\ MappedReadyQ = order
  /\ MappedPc = [pc EXCEPT ![current_thread] = "user"]
  /\ MappedSuspended = [t \in Thread |-> worker[t].suspended /\ t # current_thread]
  /\ MappedId = [t \in Thread |-> worker[t].id]
RunningView ==
  MappedRunning = [t \in Thread |-> t = current_thread /\ pc[current_thread] # "spin"]

LEMMA Views ==
  Types =>
    /\ Plain => PlainView
    /\ pc[current_thread] \in SpawningPlace => SpawningView
    /\ Yielding => YieldingView
    /\ Suspending => SuspendingView
<1> SUFFICES ASSUME Types
             PROVE  /\ Plain => PlainView
                    /\ pc[current_thread] \in SpawningPlace => SpawningView
                    /\ Yielding => YieldingView
                    /\ Suspending => SuspendingView
  OBVIOUS
<1>1. \A t \in Thread : worker[t].suspended \in BOOLEAN
  BY DEF Types, WorkerFields
<1> USE SpawningPlaces, <1>1
    DEF MappedCpu, MappedPc, MappedReadyQ, MappedSuspended, MappedId, Unborn, Yielding, Suspending
<1>2. Plain => PlainView
  BY DEF Plain, PlainView
<1>3. pc[current_thread] \in SpawningPlace => SpawningView
  BY DEF SpawningView, SpawningPlace
<1>4. Yielding => YieldingView
  BY DEF YieldingView, SpawningPlace
<1>5. Suspending => SuspendingView
  BY DEF SuspendingView, SpawningPlace
<1> QED
  BY <1>2, <1>3, <1>4, <1>5

\* Outside of a hand-shake the processor is with the current thread.
LEMMA CurrentOnCpu ==
  ASSUME IInv, process = "up", pc[current_thread] \notin SpawningPlace
  PROVE  Alone
BY Places DEF IInv, Control, Shake, SpawningPlace

LEMMA RunningMap == IInv /\ Extra /\ process = "up" => RunningView
<1> SUFFICES ASSUME IInv, Extra, process = "up"
             PROVE  RunningView
  OBVIOUS
<1>1. CASE pc[current_thread] \in SpawningPlace
  BY <1>1, SpawningPlaces DEF RunningView, MappedRunning, SpawningPlace
<1>2. CASE pc[current_thread] \notin SpawningPlace
  <2>1. cpu = current_thread
    BY <1>2, CurrentOnCpu DEF Alone
  <2> QED
    BY <1>2, <2>1, SpawningPlaces
       DEF RunningView, MappedRunning, Suspending, Extra, OnlyCpuRuns
<1> QED
  BY <1>1, <1>2

LEMMA ViewsNext ==
  Types' =>
    /\ Plain' => PlainView'
    /\ (pc[current_thread] \in SpawningPlace)' => SpawningView'
    /\ Yielding' => YieldingView'
    /\ Suspending' => SuspendingView'
BY Views, PTL
LEMMA RunningMapNext == IInv' /\ Extra' /\ (process = "up")' => RunningView'
BY RunningMap, PTL

------------------------------------------------------------------------------
\* A switch here to a thread that is parked, seen from TaskScheduler.
LEMMA AbstractSwitch ==
  ASSUME NEW from \in Thread, from = current_thread, NEW to \in Thread, NEW b \in BOOLEAN,
         MappedRunning = [t \in Thread |-> t = from /\ b],
         MappedRunning' = [t \in Thread |-> t = to],
         MappedPc \in [Thread -> Spot], MappedPc' \in [Thread -> Spot],
         NEW place, NEW val, NEW at, at = IF to = from THEN place ELSE MappedPc[to],
         place \in Spot,
         MappedPc'[to] = Abstract!Continue(at, val),
         to # from => MappedPc'[from] = place,
         \A t \in Thread \ {from, to} : MappedPc'[t] = MappedPc[t],
         current_thread' = to, MappedCpu' = to,
         reaped' = IF at = "wait" /\ val # NULL THEN reaped \cup {val} ELSE reaped,
         at # "exit", process' = "up"
  PROVE  Abstract!SwitchTo(to, val, place)
<1> DEFINE parked == [MappedPc EXCEPT ![from] = place]
<1>1. parked \in [Thread -> Spot] /\ parked[to] = at
  OBVIOUS
<1>2. MappedPc' = [parked EXCEPT ![to] = Abstract!Continue(parked[to], val)]
  <2>1. MappedPc' = [t \in Thread |-> MappedPc'[t]]
    OBVIOUS
  <2>2. \A t \in Thread : MappedPc'[t] = [parked EXCEPT ![to] = Abstract!Continue(parked[to], val)][t]
    BY <1>1
  <2>3. [parked EXCEPT ![to] = Abstract!Continue(parked[to], val)]
          = [t \in Thread |-> [parked EXCEPT ![to] = Abstract!Continue(parked[to], val)][t]]
    BY <1>1
  <2> QED
    BY <2>1, <2>2, <2>3
<1>3. MappedRunning' = [MappedRunning EXCEPT ![from] = FALSE, ![to] = TRUE]
  OBVIOUS
<1> QED
  BY <1>1, <1>2, <1>3 DEF Abstract!SwitchTo

\* A switch to a worker that was parked, or back to the thread itself.
LEMMA SwitchShape ==
  ASSUME IInv, process = "up", Alone, NEW to \in Worker,
         to = cpu \/ pc[to] \in {"tramp", "switched"},
         NEW place, place = IF cpu = Master THEN "wait" ELSE "switched",
         CoroInvoke(current_thread, to, NULL, place)
  PROVE  /\ cpu' = to /\ pc'[to] = "user" /\ (cpu # to => pc'[cpu] = place)
         /\ \A t \in Thread \ {to, cpu} : pc'[t] = pc[t]
         /\ pc' \in [Thread -> Spot]
         /\ UNCHANGED <<reaped, local>> /\ process' = "up"
<1> USE WorkersDiffer
<1>1. /\ to \in Thread /\ cpu \in Thread /\ current_thread = cpu /\ to # Master
      /\ place \in Spot /\ Types
  BY DEF IInv, Types, Alone, Thread, Spot
<1>2. PICK at : at = IF to = cpu THEN place ELSE pc[to]
  OBVIOUS
<1>3. at \in {"tramp", "switched"} /\ at \in Spot /\ at # "wait"
  BY <1>1, <1>2 DEF Spot
<1>4. [pc EXCEPT ![current_thread] = place][to] = at
  BY <1>1, <1>2 DEF Types
<1>5. reaped' = reaped
  BY <1>3, <1>4 DEF CoroInvoke
<1> QED
  BY <1>1, <1>2, <1>3, <1>5, InvokeFacts, AfterPlaces DEF Spot

LEMMA SpawningPlacesNext == Spawning' <=> (pc[current_thread] \in SpawningPlace)'
BY SpawningPlaces, PTL

LEMMA RunBitsRun ==
  ASSUME worker \in [Thread -> WorkerFields], NEW me \in Thread, NEW to \in Thread,
         NEW t \in Thread
  PROVE  RunBits(me, to)[t].running = (t = to \/ (t # me /\ worker[t].running))
BY DEF RunBits, WorkerFields

\* After a call has ended nothing is under way.
LEMMA ExtraEnded ==
  ASSUME pc'[current_thread'] \notin SpawningPlace \cup {"yield", "suspend", "spin"},
         OnlyCpuRuns', \A w \in Worker : pc'[w] = "none" => worker'[w].id = 0
  PROVE  Extra' /\ Plain'
BY SpawningPlacesNext DEF Extra, Permitted, Begun, Numbered, Yielding, Suspending, Plain

\* After a switch the thread switched to is the only one marked running.
LEMMA SwitchRuns ==
  ASSUME IInv, Extra, process = "up", Alone, NEW to \in Thread,
         \A t \in Thread : worker'[t].running = (t = to \/ (t # cpu /\ worker[t].running)),
         cpu' = to, pc'[to] \notin {"suspend", "spin"}
  PROVE  OnlyCpuRuns'
BY DEF Extra, OnlyCpuRuns

LEMMA QueueHead ==
  ASSUME Queue, RQ!Dequeue
  PROVE  /\ order \in Seq(Thread) /\ order # << >>
         /\ ret' = Head(order) /\ order' = Tail(order)
<1>1. queues[dq_index].head = IF order = << >> THEN NULL ELSE order[1]
  BY QueueConstants, SameQueue, RQP!Ends
<1>2. /\ order \in Seq(Thread) /\ order # << >> /\ ret' = order[1]
      /\ order' = SubSeq(order, 2, Len(order))
  BY <1>1 DEF Queue, RQ!TypeOK, RQ!Dequeue
<1>3. Head(order) = order[1] /\ Tail(order) = SubSeq(order, 2, Len(order))
  BY <1>2
<1> QED
  BY <1>2, <1>3

\* What nextCoroutine() and thread_wait() do when a worker is ready.
LEMMA DispatchShape ==
  ASSUME IInv, Extra, process = "up", Alone, NEW place,
         place = IF cpu = Master THEN "wait" ELSE "switched",
         cpu = Master => pc[cpu] = "run",
         cpu # Master => pc[cpu] \in {"yield", "suspend", "spin"},
         Dispatch(place)
  PROVE  /\ current_thread = cpu /\ ret' \in Worker /\ ~worker[ret'].suspended
         /\ ret' = cpu \/ pc[ret'] \in {"tramp", "switched"}
         /\ order \in Seq(Thread) /\ order # << >> /\ ret' = Head(order) /\ order' = Tail(order)
         /\ current_thread' = ret' /\ cpu' = ret' /\ pc' \in [Thread -> Spot]
         /\ pc'[ret'] = "user" /\ (cpu # ret' => pc'[cpu] = place)
         /\ \A t \in Thread \ {ret', cpu} : pc'[t] = pc[t]
         /\ \A t \in Thread : /\ worker'[t].id = worker[t].id
                              /\ worker'[t].suspended = worker[t].suspended
         /\ UNCHANGED <<reaped, nextId, num_workers>> /\ process' = "up"
         /\ IInv' /\ Extra' /\ PlainView' /\ RunningView'
<1> USE WorkersDiffer
<1>1. PICK to : to = ret'
  OBVIOUS
<1>2. /\ RQ!Dequeue /\ current_thread' = to /\ CoroInvoke(current_thread, to, NULL, place)
      /\ worker' = RunBits(current_thread, to) /\ UNCHANGED <<nextId, num_workers>>
  BY <1>1 DEF Dispatch
<1>3. IInv'
  BY DispatchInv
<1>4. /\ order \in Seq(Thread) /\ order # << >> /\ to = Head(order) /\ order' = Tail(order)
      /\ to \in RQ!Queued
  BY <1>1, <1>2, QueueHead, QueueDequeue DEF IInv
<1>5. /\ current_thread = cpu /\ cpu \in Thread /\ worker \in [Thread -> WorkerFields]
      /\ pc \in [Thread -> Spot] /\ to \in Worker /\ to \in Thread /\ ~worker[to].suspended
      /\ to = cpu \/ pc[to] \in {"tramp", "switched"}
  BY <1>4 DEF IInv, Types, Alone, Waiting, Rests, Thread
<1>6. /\ cpu' = to /\ pc'[to] = "user" /\ (cpu # to => pc'[cpu] = place)
      /\ \A t \in Thread \ {to, cpu} : pc'[t] = pc[t]
      /\ pc' \in [Thread -> Spot]
      /\ UNCHANGED <<reaped, local>> /\ process' = "up"
  BY <1>2, <1>5, SwitchShape
<1>7. \A t \in Thread : /\ worker'[t].id = worker[t].id
                        /\ worker'[t].suspended = worker[t].suspended
                        /\ worker'[t].running = (t = to \/ (t # cpu /\ worker[t].running))
  BY <1>2, <1>5, RunBitsKept, RunBitsRun
<1>8. OnlyCpuRuns'
  BY <1>5, <1>6, <1>7, SwitchRuns
<1>9. \A w \in Worker : pc'[w] = "none" => worker'[w].id = 0
  BY <1>5, <1>6, <1>7 DEF Extra, Numbered, Thread
<1>10. Extra' /\ Plain'
  BY <1>2, <1>6, <1>8, <1>9, ExtraEnded DEF SpawningPlace
<1>11. PlainView' /\ RunningView'
  BY <1>3, <1>6, <1>10, ViewsNext, RunningMapNext DEF IInv
<1> QED
  BY <1>1, <1>2, <1>3, <1>4, <1>5, <1>6, <1>7, <1>10, <1>11

\* The abstract switch, out of DispatchShape and the two views.
LEMMA DispatchIsSwitch ==
  ASSUME IInv, Extra, process = "up", NEW from \in Thread, from = current_thread,
         NEW to \in Thread, NEW place \in {"switched", "wait"}, to = from => place = "switched",
         to # from => pc[to] \in {"tramp", "switched"},
         MappedPc \in [Thread -> Spot], \A t \in Thread \ {from} : MappedPc[t] = pc[t],
         current_thread' = to, cpu' = to, pc' \in [Thread -> Spot], pc'[to] = "user",
         to # from => pc'[from] = place, \A t \in Thread \ {to, from} : pc'[t] = pc[t],
         UNCHANGED reaped, process' = "up", PlainView', RunningView'
  PROVE  Abstract!SwitchTo(to, NULL, place)
<1>1. PICK at : at = IF to = from THEN place ELSE MappedPc[to]
  OBVIOUS
<1>2. at \in {"tramp", "switched"}
  BY <1>1
<1>3. place \in Spot
  BY DEF Spot
<1>4. MappedPc' = pc' /\ MappedCpu' = to
  BY DEF PlainView
<1>5. MappedPc'[to] = Abstract!Continue(at, NULL)
  BY <1>2, <1>4 DEF Abstract!Continue
<1>6. PICK b \in BOOLEAN : b = (pc[from] # "spin")
  OBVIOUS
<1>7. MappedRunning = [t \in Thread |-> t = from /\ b]
  BY <1>6, RunningMap DEF RunningView
<1>8. MappedRunning' = [t \in Thread |-> t = to]
  BY DEF RunningView
<1>9. reaped' = IF at = "wait" /\ NULL # NULL THEN reaped \cup {NULL} ELSE reaped
  BY <1>2
<1>10. at # "exit"
  BY <1>2
<1> QED
  BY <1>1, <1>3, <1>4, <1>5, <1>7, <1>8, <1>9, <1>10, AbstractSwitch

LEMMA AppendLast ==
  ASSUME NEW S, NEW s \in Seq(S), s # << >>
  PROVE  Append(SubSeq(s, 1, Len(s) - 1), s[Len(s)]) = s
<1>1. Len(s) \in Nat /\ Len(s) >= 1 /\ Len(s) - 1 \in Nat
  OBVIOUS
<1>2. PICK u : u = SubSeq(s, 1, Len(s) - 1)
  OBVIOUS
<1>3. /\ u \in Seq(S) /\ Len(u) = Len(s) - 1 /\ \A k \in 1 .. Len(s) - 1 : u[k] = s[k]
  <2>1. PICK n \in Nat : n = Len(s) - 1
    BY <1>1
  <2>2. u = SubSeq(s, 1, n) /\ n <= Len(s)
    BY <1>1, <1>2, <2>1
  <2>3. Len(u) = n
    BY <2>2
  <2>4. \A k \in 1 .. n : u[k] = s[k]
    BY <2>2
  <2>5. u \in Seq(S)
    BY <2>2
  <2> QED
    BY <2>1, <2>3, <2>4, <2>5
<1>4. s[Len(s)] \in S
  BY <1>1
<1>5. /\ Append(u, s[Len(s)]) \in Seq(S) /\ Len(Append(u, s[Len(s)])) = Len(s)
      /\ \A k \in 1 .. Len(s) : Append(u, s[Len(s)])[k] = s[k]
  BY <1>1, <1>3, <1>4
<1> QED
  BY <1>2, <1>5

Simulated == Abstract!Next \/ UNCHANGED Abstract!vars

LEMMA NextCoroutineStep ==
  ASSUME IInv, Extra, NEW t \in Worker, NextCoroutine(t)
  PROVE  Extra' /\ Simulated
<1>1. /\ process = "up" /\ cpu = t /\ pc[t] \in {"yield", "suspend", "spin"}
      /\ t \in Thread /\ t # Master /\ IInv'
  BY WorkersDiffer, NextCoroutineInv DEF NextCoroutine, At, Thread
<1>2. Alone /\ current_thread = t
  BY <1>1, AloneFacts
<1>3. CASE Dispatch("switched")
  <2>1. PICK to : to = ret'
    OBVIOUS
  <2>2. /\ to \in Worker /\ ~worker[to].suspended /\ to \in Thread
        /\ to = t \/ pc[to] \in {"tramp", "switched"}
        /\ order \in Seq(Thread) /\ order # << >> /\ to = Head(order) /\ order' = Tail(order)
        /\ current_thread' = to /\ cpu' = to /\ pc' \in [Thread -> Spot]
        /\ pc'[to] = "user" /\ (to # t => pc'[t] = "switched")
        /\ \A u \in Thread \ {to, t} : pc'[u] = pc[u]
        /\ \A u \in Thread : /\ worker'[u].id = worker[u].id
                             /\ worker'[u].suspended = worker[u].suspended
        /\ UNCHANGED <<reaped, nextId, num_workers>> /\ process' = "up"
        /\ Extra' /\ PlainView' /\ RunningView'
    BY <1>1, <1>2, <1>3, <2>1, DispatchShape DEF Thread
  <2>3. pc[t] # "spin"
    BY <1>1, <1>2, <2>2 DEF Extra, Begun
  <2>4. /\ MappedPc = [pc EXCEPT ![t] = "user"] /\ pc \in [Thread -> Spot]
        /\ (Yielding => YieldingView) /\ (Suspending => SuspendingView)
        /\ Yielding \/ Suspending
    BY <1>1, <1>2, <2>3, Views DEF IInv, Types, YieldingView, SuspendingView, Yielding, Suspending
  <2>5. /\ MappedPc \in [Thread -> Spot] /\ MappedPc[t] = "user"
        /\ \A u \in Thread \ {t} : MappedPc[u] = pc[u]
    BY <1>1, <2>4 DEF Spot
  <2>6. Abstract!SwitchTo(to, NULL, "switched")
    BY <1>1, <1>2, <2>2, <2>5, DispatchIsSwitch
  <2>7. Abstract!Dispatch(order, "switched")
    BY <2>2, <2>6 DEF Abstract!Dispatch, PlainView
  <2>8. CASE Yielding
    <3>1. Append(MappedReadyQ, current_thread) = order
      BY <1>1, <1>2, <2>2, <2>4, <2>8, AppendLast DEF YieldingView, Extra, Begun
    <3>2. Abstract!UserCalls(t, "yield")
      BY <1>1, <1>2, <2>4, <2>5, <2>8
         DEF Abstract!UserCalls, Abstract!InUser, YieldingView, Extra, Permitted
    <3>3. UNCHANGED <<MappedSuspended, MappedId>> /\ ~Spawning /\ ~Spawning'
      <4>1. YieldingView /\ PlainView'
        BY <2>2, <2>4, <2>8
      <4>2. MappedSuspended' = MappedSuspended
        BY <2>2, <4>1 DEF YieldingView, PlainView
      <4>3. MappedId' = MappedId
        BY <2>2, <4>1 DEF YieldingView, PlainView
      <4> QED
        BY <4>1, <4>2, <4>3 DEF YieldingView, PlainView
    <3>4. Abstract!Yield(t)
      BY <1>1, <2>2, <2>7, <3>1, <3>2, <3>3 DEF Abstract!Yield
    <3> QED
      BY <1>1, <2>2, <3>4 DEF Simulated, Abstract!Next, Abstract!Thread, Thread
  <2>9. CASE Suspending
    <3>1. MappedReadyQ = order
      BY <2>4, <2>9 DEF SuspendingView
    <3>2. Abstract!UserCalls(t, "suspend")
      BY <1>1, <1>2, <2>4, <2>5, <2>9
         DEF Abstract!UserCalls, Abstract!InUser, SuspendingView, Extra, Permitted
    <3>3. UNCHANGED MappedId /\ ~Spawning /\ ~Spawning'
      BY <2>2, <2>4, <2>9 DEF SuspendingView, PlainView
    <3>4. MappedSuspended' = [MappedSuspended EXCEPT ![t] = TRUE]
      <4>1. worker[t].suspended = TRUE /\ \A u \in Thread : worker[u].suspended \in BOOLEAN
        BY <1>1, <1>2, <2>9 DEF Extra, Begun, IInv, Types, WorkerFields
      <4>2. MappedSuspended = [u \in Thread |-> worker[u].suspended /\ u # t]
        BY <1>2, <2>4, <2>9 DEF SuspendingView
      <4>3. MappedSuspended' = [u \in Thread |-> worker[u].suspended]
        BY <2>2 DEF PlainView
      <4> QED
        BY <4>1, <4>2, <4>3
    <3>5. Abstract!Suspend(t)
      BY <1>2, <2>2, <2>7, <3>1, <3>2, <3>3, <3>4 DEF Abstract!Suspend
    <3> QED
      BY <2>2, <3>5 DEF Simulated, Abstract!Next
  <2> QED
    BY <2>4, <2>8, <2>9
<1>4. CASE RQ!DequeueEmpty /\ Goto(t, "spin") /\ UNCHANGED <<sched, worker, coros>>
  <2>1. /\ pc' = [pc EXCEPT ![t] = "spin"] /\ worker' = worker
        /\ UNCHANGED <<cpu, reaped, process, current_thread, nextId, num_workers, order>>
    BY <1>4 DEF Goto, sched, RQ!DequeueEmpty
  <2>2. order = << >>
    <3>1. order \in Seq(Thread) /\ (order # << >> => order[1] \in RQ!Queued)
      BY DEF IInv, Queue, RQ!TypeOK, RQ!Queued
    <3> QED
      BY <1>4, <3>1, QueueDequeueEmpty DEF IInv
  <2>3. pc[t] # "yield" /\ pc \in [Thread -> Spot]
    BY <1>1, <1>2, <2>2 DEF Extra, Begun, Yielding, IInv, Types
  <2>4. /\ pc'[t] = "spin" /\ current_thread' = t
        /\ \A u \in Thread \ {t} : pc'[u] = pc[u]
    BY <1>1, <1>2, <2>1, <2>3
  <2>5. Extra' /\ Plain'
    <3>1. OnlyCpuRuns'
      BY <1>1, <2>1, <2>3, <2>4 DEF Extra, OnlyCpuRuns
    <3>2. Numbered' /\ Permitted' /\ Plain'
      BY <1>1, <2>1, <2>4, SpawningPlacesNext
         DEF Extra, Numbered, Permitted, Yielding, Suspending, Plain, SpawningPlace, Thread
    <3>3. Begun'
      BY <2>1, <2>2, <2>4 DEF Begun, Yielding, Suspending
    <3> QED
      BY <3>1, <3>2, <3>3 DEF Extra
  <2>6. PlainView' /\ RunningView' /\ RunningView
    BY <1>1, <2>1, <2>5, ViewsNext, RunningMap, RunningMapNext DEF IInv
  <2>7. CASE pc[t] = "spin"
    <3>1. PlainView
      BY <1>2, <2>7, Views DEF Plain, SpawningPlace, IInv
    <3>2. pc' = pc
      BY <2>1, <2>3, <2>7
    <3>3. UNCHANGED Abstract!vars
      BY <2>1, <2>6, <3>1, <3>2 DEF Abstract!vars, PlainView, RunningView
    <3> QED
      BY <2>5, <3>3 DEF Simulated
  <2>8. CASE pc[t] = "suspend"
    <3>1. SuspendingView /\ Suspending
      BY <1>2, <2>8, Views DEF Suspending, IInv
    <3>2. Abstract!UserCalls(t, "suspend")
      BY <1>1, <1>2, <2>3, <3>1
         DEF Abstract!UserCalls, Abstract!InUser, SuspendingView, Extra, Permitted
    <3>3. UNCHANGED MappedId /\ ~Spawning /\ ~Spawning'
      BY <2>1, <2>6, <3>1 DEF SuspendingView, PlainView
    <3>4. MappedSuspended' = [MappedSuspended EXCEPT ![t] = TRUE]
      <4>1. worker[t].suspended = TRUE /\ \A u \in Thread : worker[u].suspended \in BOOLEAN
        BY <1>1, <1>2, <3>1 DEF Extra, Begun, IInv, Types, WorkerFields
      <4>2. MappedSuspended = [u \in Thread |-> worker[u].suspended /\ u # t]
        BY <1>2, <3>1 DEF SuspendingView
      <4>3. MappedSuspended' = [u \in Thread |-> worker[u].suspended]
        BY <2>1, <2>6 DEF PlainView
      <4> QED
        BY <4>1, <4>2, <4>3
    <3>5. MappedRunning' = [MappedRunning EXCEPT ![t] = FALSE]
      BY <1>2, <2>4, <2>6 DEF RunningView
    <3>6. MappedPc' = [MappedPc EXCEPT ![t] = "spin"]
      BY <1>1, <1>2, <2>1, <2>3, <2>6, <3>1 DEF PlainView, SuspendingView
    <3>7. Abstract!SuspendBlocks
      BY <1>1, <1>2, <2>1, <2>2, <2>6, <3>1, <3>5, <3>6
         DEF Abstract!SuspendBlocks, PlainView, SuspendingView
    <3>8. Abstract!Suspend(t)
      BY <1>2, <2>1, <3>2, <3>3, <3>4, <3>7 DEF Abstract!Suspend
    <3> QED
      BY <2>5, <3>8 DEF Simulated, Abstract!Next
  <2> QED
    BY <1>1, <2>3, <2>7, <2>8
<1> QED
  BY <1>3, <1>4 DEF NextCoroutine

LEMMA FrontOfAppend ==
  ASSUME NEW S, NEW s \in Seq(S), NEW e \in S
  PROVE  SubSeq(Append(s, e), 1, Len(Append(s, e)) - 1) = s
<1>1. PICK u : u = Append(s, e)
  OBVIOUS
<1>2. PICK n \in Nat : n = Len(s)
  OBVIOUS
<1>3. /\ u \in Seq(S) /\ Len(u) = n + 1 /\ Len(u) - 1 = n
      /\ \A k \in 1 .. n : u[k] = s[k]
  BY <1>1, <1>2
<1>4. PICK v : v = SubSeq(u, 1, n)
  OBVIOUS
<1>5. Len(v) = n
  BY <1>3, <1>4
<1>6. \A k \in 1 .. n : v[k] = s[k]
  BY <1>3, <1>4
<1>7. v \in Seq(S)
  BY <1>3, <1>4
<1>8. v = s
  BY <1>2, <1>5, <1>6, <1>7
<1> QED
  BY <1>1, <1>3, <1>4, <1>8

LEMMA YieldStep ==
  ASSUME IInv, Extra, NEW t \in Worker, Yield(t)
  PROVE  Extra' /\ Simulated
<1>1. /\ process = "up" /\ cpu = t /\ pc[t] = "user" /\ t \in Thread /\ "yield" \in Calls
      /\ IInv' /\ pc \in [Thread -> Spot] /\ order \in Seq(Thread)
  BY WorkersDiffer, YieldInv DEF Yield, InUser, Thread, IInv, Types, Queue, RQ!TypeOK
<1>2. current_thread = t
  BY <1>1, AloneFacts
<1>3. /\ order' = Append(order, t) /\ pc' = [pc EXCEPT ![t] = "yield"] /\ worker' = worker
      /\ UNCHANGED <<cpu, reaped, process, current_thread, nextId, num_workers>>
  BY <1>2 DEF Yield, RQ!Link, Goto, sched
<1>4. /\ pc'[t] = "yield" /\ \A u \in Thread \ {t} : pc'[u] = pc[u]
      /\ Yielding' /\ ~Suspending' /\ ~Spawning'
  BY <1>1, <1>2, <1>3, SpawningPlacesNext DEF Yielding, Suspending, SpawningPlace
<1>5. Extra'
  <2>1. OnlyCpuRuns'
    BY <1>1, <1>3, <1>4 DEF Extra, OnlyCpuRuns
  <2>2. Permitted' /\ Numbered'
    BY <1>1, <1>3, <1>4 DEF Extra, Permitted, Numbered, Thread
  <2>3. Begun'
    BY <1>1, <1>2, <1>3, <1>4 DEF Begun
  <2> QED
    BY <2>1, <2>2, <2>3 DEF Extra
<1>6. PlainView /\ YieldingView' /\ RunningView /\ RunningView'
  BY <1>1, <1>2, <1>3, <1>4, <1>5, Views, ViewsNext, RunningMap, RunningMapNext
     DEF IInv, Plain, SpawningPlace
<1>7. MappedReadyQ' = order
  BY <1>1, <1>3, <1>6, FrontOfAppend DEF YieldingView
<1>8. MappedPc' = pc
  BY <1>1, <1>2, <1>3, <1>6 DEF YieldingView
<1>9. MappedRunning' = MappedRunning
  BY <1>1, <1>2, <1>3, <1>4, <1>6 DEF RunningView
<1> QED
  BY <1>3, <1>4, <1>5, <1>6, <1>7, <1>8, <1>9 DEF Simulated, Abstract!vars, PlainView, YieldingView

LEMMA SuspendStep ==
  ASSUME IInv, Extra, NEW t \in Worker, Suspend(t)
  PROVE  Extra' /\ Simulated
<1>1. /\ process = "up" /\ cpu = t /\ pc[t] = "user" /\ t \in Thread /\ "suspend" \in Calls
      /\ IInv' /\ pc \in [Thread -> Spot] /\ worker \in [Thread -> WorkerFields]
      /\ ~worker[t].suspended
  BY SuspendInv DEF Suspend, InUser, Thread, IInv, Types, Asleep
<1>2. current_thread = t
  BY <1>1, AloneFacts
<1>3. /\ worker' = [worker EXCEPT ![t].running = FALSE, ![t].suspended = TRUE]
      /\ pc' = [pc EXCEPT ![t] = "suspend"] /\ order' = order
      /\ UNCHANGED <<cpu, reaped, process, current_thread, nextId, num_workers>>
  BY <1>2 DEF Suspend, readyQ, Goto, sched
<1>4. /\ pc'[t] = "suspend" /\ \A u \in Thread \ {t} : pc'[u] = pc[u]
      /\ Suspending' /\ ~Yielding' /\ ~Spawning'
  BY <1>1, <1>2, <1>3, SpawningPlacesNext DEF Yielding, Suspending, SpawningPlace
<1>5. /\ \A u \in Thread : worker'[u].id = worker[u].id
      /\ \A u \in Thread \ {t} : /\ worker'[u].running = worker[u].running
                                 /\ worker'[u].suspended = worker[u].suspended
      /\ worker'[t].running = FALSE /\ worker'[t].suspended = TRUE
  BY <1>1, <1>3 DEF WorkerFields
<1>6. Extra'
  <2>1. OnlyCpuRuns'
    BY <1>1, <1>3, <1>4, <1>5 DEF Extra, OnlyCpuRuns
  <2>2. Permitted' /\ Numbered'
    BY <1>1, <1>3, <1>4, <1>5 DEF Extra, Permitted, Numbered, Thread
  <2>3. Begun'
    BY <1>2, <1>3, <1>4, <1>5 DEF Begun
  <2> QED
    BY <2>1, <2>2, <2>3 DEF Extra
<1>7. PlainView /\ SuspendingView' /\ RunningView /\ RunningView'
  BY <1>1, <1>2, <1>3, <1>4, <1>6, Views, ViewsNext, RunningMap, RunningMapNext
     DEF IInv, Plain, SpawningPlace
<1>8. MappedSuspended' = MappedSuspended
  <2>1. \A u \in Thread : worker[u].suspended \in BOOLEAN
    BY <1>1 DEF WorkerFields
  <2> QED
    BY <1>1, <1>2, <1>3, <1>5, <1>7, <2>1 DEF PlainView, SuspendingView
<1>9. MappedId' = MappedId
  BY <1>5, <1>7 DEF PlainView, SuspendingView
<1>10. MappedPc' = pc
  BY <1>1, <1>2, <1>3, <1>7 DEF SuspendingView
<1>11. MappedRunning' = MappedRunning
  BY <1>1, <1>2, <1>3, <1>4, <1>7 DEF RunningView
<1> QED
  BY <1>3, <1>4, <1>6, <1>7, <1>8, <1>9, <1>10, <1>11
     DEF Simulated, Abstract!vars, PlainView, SuspendingView

LEMMA ThreadWaitStep ==
  ASSUME IInv, Extra, ThreadWait
  PROVE  Extra' /\ Simulated
<1>1. /\ process = "up" /\ cpu = Master /\ pc[Master] = "run" /\ Master \in Thread
      /\ current_thread = Master /\ IInv' /\ pc \in [Thread -> Spot]
  BY ThreadWaitInv DEF ThreadWait, At, Thread, IInv, Types
<1>2. Alone
  BY <1>1, AloneFacts
<1>3. PlainView
  BY <1>1, Views DEF Plain, SpawningPlace, IInv
<1>4. CASE Dispatch("wait")
  <2>1. PICK to : to = ret'
    OBVIOUS
  <2>2. /\ to \in Worker /\ to \in Thread /\ to # Master
        /\ pc[to] \in {"tramp", "switched"}
        /\ order \in Seq(Thread) /\ order # << >> /\ to = Head(order) /\ order' = Tail(order)
        /\ current_thread' = to /\ cpu' = to /\ pc' \in [Thread -> Spot]
        /\ pc'[to] = "user" /\ (to # Master => pc'[Master] = "wait")
        /\ \A u \in Thread \ {to, Master} : pc'[u] = pc[u]
        /\ \A u \in Thread : /\ worker'[u].id = worker[u].id
                             /\ worker'[u].suspended = worker[u].suspended
        /\ UNCHANGED <<reaped, nextId, num_workers>> /\ process' = "up"
        /\ Extra' /\ PlainView' /\ RunningView'
    BY <1>1, <1>2, <1>4, <2>1, DispatchShape, WorkersDiffer DEF Thread
  <2>3. /\ MappedPc \in [Thread -> Spot] /\ MappedPc[Master] = "run"
        /\ \A u \in Thread \ {Master} : MappedPc[u] = pc[u]
    BY <1>1, <1>3 DEF PlainView
  <2>4. Abstract!SwitchTo(to, NULL, "wait")
    BY <1>1, <2>2, <2>3, DispatchIsSwitch
  <2>5. Abstract!Dispatch(order, "wait")
    BY <2>2, <2>4 DEF Abstract!Dispatch, PlainView
  <2>6. UNCHANGED <<MappedSuspended, MappedId>> /\ ~Spawning /\ ~Spawning'
    BY <1>3, <2>2 DEF PlainView
  <2>7. Abstract!ThreadWait
    BY <1>1, <1>3, <2>2, <2>3, <2>5, <2>6 DEF Abstract!ThreadWait, PlainView
  <2> QED
    BY <2>2, <2>7 DEF Simulated, Abstract!Next
<1>5. CASE RQ!DequeueEmpty /\ Goto(Master, "user") /\ UNCHANGED <<sched, worker, coros>>
  <2>1. /\ pc' = [pc EXCEPT ![Master] = "user"] /\ worker' = worker
        /\ UNCHANGED <<cpu, reaped, process, current_thread, nextId, num_workers, order>>
    BY <1>5 DEF Goto, sched, RQ!DequeueEmpty
  <2>2. order = << >>
    <3>1. order \in Seq(Thread) /\ (order # << >> => order[1] \in RQ!Queued)
      BY DEF IInv, Queue, RQ!TypeOK, RQ!Queued
    <3> QED
      BY <1>5, <3>1, QueueDequeueEmpty DEF IInv
  <2>3. /\ pc'[Master] = "user" /\ current_thread' = Master
        /\ \A u \in Thread \ {Master} : pc'[u] = pc[u]
    BY <1>1, <2>1
  <2>4. OnlyCpuRuns'
    BY <1>1, <2>1, <2>3 DEF Extra, OnlyCpuRuns
  <2>5. \A w \in Worker : pc'[w] = "none" => worker'[w].id = 0
    BY <2>1, <2>3, WorkersDiffer DEF Extra, Numbered, Thread
  <2>6. Extra' /\ Plain'
    BY <2>3, <2>4, <2>5, ExtraEnded DEF SpawningPlace
  <2>7. PlainView' /\ RunningView' /\ RunningView
    BY <1>1, <2>1, <2>6, ViewsNext, RunningMap, RunningMapNext DEF IInv
  <2>8. MappedRunning' = MappedRunning
    BY <1>1, <2>1, <2>3, <2>7 DEF RunningView
  <2>9. Abstract!ThreadWait
    BY <1>1, <1>3, <2>1, <2>2, <2>7, <2>8 DEF Abstract!ThreadWait, PlainView
  <2> QED
    BY <2>6, <2>9 DEF Simulated, Abstract!Next
<1> QED
  BY <1>4, <1>5 DEF ThreadWait

LEMMA WakeStep ==
  ASSUME IInv, Extra, NEW t \in Thread, NEW n \in Worker, Wake(t, n)
  PROVE  Extra' /\ Simulated
<1>1. /\ process = "up" /\ cpu = t /\ pc[t] = "user" /\ n \in Thread /\ pc[n] = "switched"
      /\ pc \in [Thread -> Spot] /\ worker \in [Thread -> WorkerFields]
      /\ worker[n].suspended /\ (IF t = Master THEN "master_wake" ELSE "wake") \in Calls /\ IInv'
  BY WakeInv DEF Wake, InUser, MayWake, Thread, IInv, Types
<1>2. current_thread = t
  BY <1>1, AloneFacts
<1>3. /\ worker' = [worker EXCEPT ![n].suspended = FALSE] /\ order' = Append(order, n)
      /\ UNCHANGED <<cpu, pc, reaped, process, current_thread, nextId, num_workers>>
  BY DEF Wake, RQ!Link, sched, machine
<1>4. \A u \in Thread : /\ worker'[u].id = worker[u].id /\ worker'[u].running = worker[u].running
                        /\ worker'[u].suspended = (u # n /\ worker[u].suspended)
  BY <1>1, <1>3 DEF WorkerFields
<1>5. Extra' /\ Plain'
  <2>1. OnlyCpuRuns'
    BY <1>3, <1>4 DEF Extra, OnlyCpuRuns
  <2>2. \A w \in Worker : pc'[w] = "none" => worker'[w].id = 0
    BY <1>3, <1>4 DEF Extra, Numbered, Thread
  <2> QED
    BY <1>1, <1>2, <1>3, <2>1, <2>2, ExtraEnded DEF SpawningPlace
<1>6. PlainView /\ PlainView' /\ RunningView /\ RunningView'
  BY <1>1, <1>2, <1>3, <1>5, Views, ViewsNext, RunningMap, RunningMapNext
     DEF IInv, Plain, SpawningPlace
<1>7. MappedSuspended' = [MappedSuspended EXCEPT ![n] = FALSE]
  <2>1. \A u \in Thread : worker[u].suspended \in BOOLEAN
    BY <1>1 DEF WorkerFields
  <2> QED
    BY <1>1, <1>4, <1>6, <2>1 DEF PlainView
<1>8. UNCHANGED <<MappedId, MappedRunning, MappedPc, MappedCpu>> /\ ~Spawning /\ ~Spawning'
  BY <1>3, <1>4, <1>6 DEF PlainView, RunningView
<1>9. Abstract!UserCalls(t, IF t = Master THEN "master_wake" ELSE "wake") /\ Abstract!MayWake(n)
  BY <1>1, <1>6 DEF Abstract!UserCalls, Abstract!InUser, Abstract!MayWake, PlainView
<1>10. Abstract!Wake(t, n)
  BY <1>3, <1>6, <1>7, <1>8, <1>9 DEF Abstract!Wake, PlainView
<1> QED
  BY <1>5, <1>10 DEF Simulated, Abstract!Next, Abstract!Thread, Thread

LEMMA SuspendedRun ==
  ASSUME NEW fields \in [Thread -> WorkerFields], NEW n \in Thread, NEW b \in BOOLEAN,
         NEW after, after = SetSuspended(fields, n, b)
  PROVE  \A t \in Thread : after[t].running = fields[t].running
BY DEF WorkerFields, SetSuspended

LEMMA HandToShape ==
  ASSUME IInv, Extra, NEW t \in Worker, NEW n \in Worker, NEW suspends \in BOOLEAN,
         HandTo(t, n, suspends), IInv'
  PROVE  /\ process = "up" /\ process' = "up" /\ current_thread = t /\ current_thread' = n
         /\ Extra' /\ PlainView /\ PlainView'
         /\ Abstract!InUser(t) /\ Abstract!MayWake(n)
         /\ Abstract!SwitchTo(n, NULL, "switched")
         /\ MappedSuspended' = [MappedSuspended EXCEPT ![n] = FALSE, ![t] = suspends]
         /\ UNCHANGED <<MappedId, nextId, num_workers>>
<1>1. /\ process = "up" /\ cpu = t /\ pc[t] = "user" /\ t \in Thread /\ t # Master
      /\ pc[n] = "switched" /\ worker[n].suspended /\ n \in Thread /\ n # t
      /\ pc \in [Thread -> Spot] /\ worker \in [Thread -> WorkerFields]
  BY WorkersDiffer DEF HandTo, InUser, MayWake, Thread, IInv, Types
<1>2. Alone /\ current_thread = t
  BY <1>1, AloneFacts
<1>3. /\ worker' = [RunBits(t, n) EXCEPT ![n].suspended = FALSE, ![t].suspended = suspends]
      /\ current_thread' = n /\ CoroInvoke(current_thread, n, NULL, "switched")
      /\ UNCHANGED <<nextId, num_workers>>
  BY DEF HandTo
<1>4. /\ cpu' = n /\ pc'[n] = "user" /\ pc'[t] = "switched"
      /\ \A u \in Thread \ {n, t} : pc'[u] = pc[u]
      /\ pc' \in [Thread -> Spot] /\ UNCHANGED reaped /\ process' = "up"
  <2>1. PICK place : place = IF cpu = Master THEN "wait" ELSE "switched"
    OBVIOUS
  <2>2. place = "switched" /\ CoroInvoke(current_thread, n, NULL, place)
    BY <1>1, <1>3, <2>1
  <2> QED
    BY <1>1, <1>2, <2>1, <2>2, SwitchShape
<1>5. \A u \in Thread :
        /\ worker'[u].id = worker[u].id
        /\ worker'[u].suspended = IF u = t THEN suspends ELSE u # n /\ worker[u].suspended
        /\ worker'[u].running = (u = n \/ (u # cpu /\ worker[u].running))
  <2>1. PICK once : once = RunBits(t, n)
    OBVIOUS
  <2>2. /\ once \in [Thread -> WorkerFields]
        /\ \A u \in Thread : /\ once[u].id = worker[u].id
                             /\ once[u].suspended = worker[u].suspended
                             /\ once[u].running = (u = n \/ (u # cpu /\ worker[u].running))
    BY <1>1, <2>1, RunBitsKept, RunBitsRun
  <2>3. PICK no \in BOOLEAN : no = FALSE
    OBVIOUS
  <2>4. PICK twice : twice = SetSuspended(once, n, no)
    OBVIOUS
  <2>5. worker' = SetSuspended(twice, t, suspends)
    BY <1>3, <2>1, <2>3, <2>4 DEF SetSuspended
  <2>6. once \in [Thread -> WorkerFields] /\ t \in Thread /\ n \in Thread
    BY <1>1, <2>2
  <2>7. \A u \in Thread : twice[u].running = once[u].running
    BY <2>6, <2>3, <2>4, SuspendedRun
  <2>8. /\ twice \in [Thread -> WorkerFields] /\ twice[n].suspended = no
        /\ \A u \in Thread : /\ twice[u].id = once[u].id
                             /\ u # n => twice[u].suspended = once[u].suspended
    BY <2>6, <2>4, SuspendedKept
  <2>9. \A u \in Thread : worker'[u].running = twice[u].running
    BY <2>6, <2>5, <2>8, SuspendedRun
  <2>10. /\ worker'[t].suspended = suspends
        /\ \A u \in Thread : /\ worker'[u].id = twice[u].id
                             /\ u # t => worker'[u].suspended = twice[u].suspended
    BY <2>6, <2>5, <2>8, SuspendedKept
  <2>11. \A u \in Thread : worker[u].suspended \in BOOLEAN
    BY <1>1 DEF WorkerFields
  <2>12. \A u \in Thread :
          worker'[u].suspended = IF u = t THEN suspends ELSE u # n /\ worker[u].suspended
    BY <1>1, <2>2, <2>3, <2>8, <2>10, <2>11
  <2> QED
    BY <2>2, <2>7, <2>8, <2>9, <2>10, <2>12
<1>6. Extra' /\ Plain'
  <2>1. OnlyCpuRuns'
    BY <1>1, <1>2, <1>4, <1>5, SwitchRuns
  <2>2. \A w \in Worker : pc'[w] = "none" => worker'[w].id = 0
    BY <1>4, <1>5 DEF Extra, Numbered, Thread
  <2> QED
    BY <1>3, <1>4, <2>1, <2>2, ExtraEnded DEF SpawningPlace
<1>7. PlainView /\ PlainView' /\ RunningView'
  BY <1>1, <1>2, <1>4, <1>6, Views, ViewsNext, RunningMapNext
     DEF IInv, Plain, SpawningPlace
<1>8. Abstract!SwitchTo(n, NULL, "switched")
  <2>1. MappedPc \in [Thread -> Spot] /\ \A u \in Thread \ {t} : MappedPc[u] = pc[u]
    BY <1>1, <1>7 DEF PlainView
  <2> QED
    BY <1>1, <1>2, <1>3, <1>4, <1>7, <2>1, DispatchIsSwitch
<1>9. MappedSuspended' = [MappedSuspended EXCEPT ![n] = FALSE, ![t] = suspends]
  <2>1. \A u \in Thread : worker[u].suspended \in BOOLEAN
    BY <1>1 DEF WorkerFields
  <2> QED
    BY <1>1, <1>5, <1>7, <2>1 DEF PlainView
<1>10. MappedId' = MappedId
  BY <1>5, <1>7 DEF PlainView
<1>11. Abstract!InUser(t) /\ Abstract!MayWake(n)
  BY <1>1, <1>7 DEF Abstract!InUser, Abstract!MayWake, PlainView
<1> QED
  BY <1>1, <1>2, <1>3, <1>4, <1>6, <1>7, <1>8, <1>9, <1>10, <1>11

LEMMA YieldWakeStep ==
  ASSUME IInv, Extra, NEW t \in Worker, NEW n \in Worker, YieldWake(t, n)
  PROVE  Extra' /\ Simulated
<1>1. HandTo(t, n, FALSE) /\ order' = Append(order, current_thread) /\ "yield_wake" \in Calls
  BY DEF YieldWake, RQ!Link
<1>2. PICK no \in BOOLEAN : no = FALSE
  OBVIOUS
<1>3. HandTo(t, n, no) /\ IInv'
  BY <1>1, <1>2, YieldWakeInv
<1>4. /\ process = "up" /\ current_thread = t /\ Extra' /\ PlainView /\ PlainView'
      /\ Abstract!InUser(t) /\ Abstract!MayWake(n) /\ Abstract!SwitchTo(n, NULL, "switched")
      /\ MappedSuspended' = [MappedSuspended EXCEPT ![n] = FALSE, ![t] = no]
      /\ UNCHANGED <<MappedId, nextId, num_workers>>
  BY <1>3, HandToShape
<1>5. MappedSuspended' = [MappedSuspended EXCEPT ![n] = FALSE]
  <2>1. cpu = t /\ pc[t] = "user" /\ t \in Thread /\ worker \in [Thread -> WorkerFields]
    BY <1>3 DEF HandTo, InUser, Thread, IInv, Types
  <2>2. worker[t].suspended = FALSE
    BY <2>1 DEF IInv, Asleep, WorkerFields
  <2>3. MappedSuspended = [u \in Thread |-> worker[u].suspended]
    BY <1>4 DEF PlainView
  <2> QED
    BY <1>2, <1>4, <2>1, <2>2, <2>3
<1>6. Abstract!YieldWake(t, n)
  BY <1>1, <1>4, <1>5 DEF Abstract!YieldWake, Abstract!UserCalls, PlainView
<1> QED
  BY <1>4, <1>6 DEF Simulated, Abstract!Next

LEMMA SuspendWakeStep ==
  ASSUME IInv, Extra, NEW t \in Worker, NEW n \in Worker, SuspendWake(t, n)
  PROVE  Extra' /\ Simulated
<1>1. HandTo(t, n, TRUE) /\ order' = order /\ "suspend_wake" \in Calls
  BY DEF SuspendWake, readyQ
<1>2. PICK yes \in BOOLEAN : yes = TRUE
  OBVIOUS
<1>3. HandTo(t, n, yes) /\ IInv'
  BY <1>1, <1>2, SuspendWakeInv
<1>4. /\ current_thread = t /\ Extra' /\ PlainView /\ PlainView'
      /\ Abstract!InUser(t) /\ Abstract!MayWake(n) /\ Abstract!SwitchTo(n, NULL, "switched")
      /\ MappedSuspended' = [MappedSuspended EXCEPT ![n] = FALSE, ![t] = yes]
      /\ UNCHANGED <<MappedId, nextId, num_workers>>
  BY <1>3, HandToShape
<1>5. Abstract!SuspendWake(t, n)
  BY <1>1, <1>2, <1>4 DEF Abstract!SuspendWake, Abstract!UserCalls, PlainView
<1> QED
  BY <1>4, <1>5 DEF Simulated, Abstract!Next

LEMMA RunStep ==
  ASSUME IInv, Extra, Run
  PROVE  Extra' /\ Simulated
<1>1. /\ process = "up" /\ cpu = Master /\ pc[Master] = "user" /\ Master \in Thread
      /\ pc \in [Thread -> Spot] /\ IInv'
  BY RunInv DEF Run, InUser, Thread, IInv, Types
<1>2. current_thread = Master
  BY <1>1, AloneFacts
<1>3. /\ pc' = [pc EXCEPT ![Master] = "run"] /\ worker' = worker /\ order' = order
      /\ UNCHANGED <<cpu, reaped, process, current_thread, nextId, num_workers>>
  BY DEF Run, Goto, sched, readyQ
<1>4. pc'[Master] = "run" /\ \A u \in Thread \ {Master} : pc'[u] = pc[u]
  BY <1>1, <1>3
<1>5. Extra' /\ Plain'
  <2>1. OnlyCpuRuns'
    BY <1>1, <1>3, <1>4 DEF Extra, OnlyCpuRuns
  <2>2. \A w \in Worker : pc'[w] = "none" => worker'[w].id = 0
    BY <1>3, <1>4, WorkersDiffer DEF Extra, Numbered, Thread
  <2> QED
    BY <1>2, <1>3, <1>4, <2>1, <2>2, ExtraEnded DEF SpawningPlace
<1>6. PlainView /\ PlainView' /\ RunningView /\ RunningView'
  BY <1>1, <1>2, <1>3, <1>5, Views, ViewsNext, RunningMap, RunningMapNext
     DEF IInv, Plain, SpawningPlace
<1>7. MappedRunning' = MappedRunning
  BY <1>1, <1>2, <1>3, <1>4, <1>6 DEF RunningView
<1>8. Abstract!Run
  BY <1>1, <1>3, <1>6, <1>7 DEF Abstract!Run, Abstract!InUser, PlainView
<1> QED
  BY <1>5, <1>8 DEF Simulated, Abstract!Next

LEMMA FinalizeStep ==
  ASSUME IInv, Extra, Finalize
  PROVE  Extra' /\ Simulated
<1>1. /\ process = "up" /\ cpu = Master /\ pc[Master] = "user" /\ Master \in Thread
      /\ pc \in [Thread -> Spot] /\ IInv'
  BY FinalizeInv DEF Finalize, InUser, Thread, IInv, Types
<1>2. current_thread = Master
  BY <1>1, AloneFacts
<1>3. /\ pc' = [pc EXCEPT ![Master] = "finished"] /\ worker' = worker /\ order' = order
      /\ process' = "success"
      /\ UNCHANGED <<cpu, reaped, current_thread, nextId, num_workers>>
  BY DEF Finalize, sched, readyQ
<1>4. pc'[Master] = "finished" /\ \A u \in Thread \ {Master} : pc'[u] = pc[u]
  BY <1>1, <1>3
<1>5. Extra' /\ Plain'
  <2>1. OnlyCpuRuns'
    BY <1>3 DEF OnlyCpuRuns
  <2>2. \A w \in Worker : pc'[w] = "none" => worker'[w].id = 0
    BY <1>3, <1>4, WorkersDiffer DEF Extra, Numbered, Thread
  <2> QED
    BY <1>2, <1>3, <1>4, <2>1, <2>2, ExtraEnded DEF SpawningPlace
<1>6. PlainView /\ PlainView'
  BY <1>1, <1>2, <1>5, Views, ViewsNext DEF IInv, Plain, SpawningPlace
<1>7. MappedRunning' = MappedRunning
  BY <1>3, <1>6, <1>1, <1>2, <1>4 DEF MappedRunning, PlainView, Suspending
<1>8. Abstract!Finalize
  BY <1>1, <1>3, <1>6, <1>7 DEF Abstract!Finalize, Abstract!InUser, PlainView
<1> QED
  BY <1>5, <1>8 DEF Simulated, Abstract!Next

LEMMA StutterStep ==
  ASSUME Extra, UNCHANGED vars
  PROVE  Extra' /\ Simulated
<1>1. /\ UNCHANGED <<order, cpu, pc, local, process, reaped, worker>>
      /\ UNCHANGED <<nextId, num_workers, current_thread>>
  BY DEF vars, readyQ, sched, machine
<1>2. UNCHANGED <<Spawning, Yielding, Suspending, NewThr>>
  BY <1>1, SpawningPlaces, SpawningPlacesNext DEF Yielding, Suspending, NewThr
<1>3. Extra'
  BY <1>1, <1>2 DEF Extra, OnlyCpuRuns, Permitted, Begun, Numbered
<1>4. UNCHANGED Abstract!vars
  BY <1>1, <1>2 DEF Abstract!vars, MappedCpu, MappedPc, MappedReadyQ, MappedRunning,
     MappedSuspended, MappedId, Unborn
<1> QED
  BY <1>3, <1>4 DEF Simulated

LEMMA ExitStep ==
  ASSUME IInv, Extra, NEW t \in Worker, Exit(t)
  PROVE  Extra' /\ Simulated
<1>1. /\ process = "up" /\ cpu = t /\ pc[t] = "user" /\ t \in Thread /\ t # Master
      /\ t # NULL /\ Master \in Thread /\ Types /\ IInv'
      /\ pc \in [Thread -> Spot] /\ worker \in [Thread -> WorkerFields]
  BY ExitInv, WorkersDiffer DEF Exit, InUser, Thread, IInv, Types
<1>2. Alone /\ current_thread = t /\ \A u \in Thread \ {t} : Rests(u)
  BY <1>1, AloneFacts
<1>3. /\ current_thread' = Master /\ CoroInvoke(t, Master, t, "exit")
      /\ worker' = RunBits(t, Master) /\ num_workers' = num_workers - 1
      /\ UNCHANGED <<nextId, order>>
  BY <1>2 DEF Exit
<1>4. pc[Master] = "wait" /\ "wait" \in Spot /\ "exit" \in Spot /\ "run" \in Spot
  BY <1>1, <1>2 DEF Rests, Spot
<1>5. /\ cpu' = Master /\ pc'[t] = "exit" /\ pc'[Master] = "run"
      /\ \A u \in Thread \ {Master, t} : pc'[u] = pc[u]
      /\ pc' \in [Thread -> Spot] /\ process' = "up"
  BY <1>1, <1>3, <1>4, InvokeFacts, AfterPlaces
<1>6. reaped' = reaped \cup {t}
  <2>1. [pc EXCEPT ![t] = "exit"][Master] = "wait"
    BY <1>1, <1>4
  <2> QED
    BY <1>1, <1>3, <2>1 DEF CoroInvoke
<1>7. \A u \in Thread : /\ worker'[u].id = worker[u].id
                        /\ worker'[u].suspended = worker[u].suspended
                        /\ worker'[u].running = (u = Master \/ (u # cpu /\ worker[u].running))
  BY <1>1, <1>3, RunBitsKept, RunBitsRun
<1>8. Extra' /\ Plain'
  <2>1. OnlyCpuRuns'
    BY <1>1, <1>2, <1>5, <1>7, SwitchRuns
  <2>2. \A w \in Worker : pc'[w] = "none" => worker'[w].id = 0
    BY <1>5, <1>7, WorkersDiffer DEF Extra, Numbered, Thread
  <2> QED
    BY <1>3, <1>5, <2>1, <2>2, ExtraEnded DEF SpawningPlace
<1>9. PlainView /\ PlainView' /\ RunningView /\ RunningView'
  BY <1>1, <1>2, <1>3, <1>5, <1>8, Views, ViewsNext, RunningMap, RunningMapNext
     DEF IInv, Plain, SpawningPlace
<1>10. Abstract!SwitchTo(Master, t, "exit")
  <2>1. PICK b \in BOOLEAN : b = (pc[t] # "spin")
    OBVIOUS
  <2>2. MappedRunning = [u \in Thread |-> u = t /\ b]
    BY <1>2, <1>9, <2>1 DEF RunningView
  <2>3. MappedRunning' = [u \in Thread |-> u = Master]
    BY <1>3, <1>5, <1>9 DEF RunningView
  <2>4. MappedPc = pc /\ MappedPc' = pc' /\ MappedCpu' = Master
    BY <1>5, <1>9 DEF PlainView
  <2>5. PICK at : at = IF Master = t THEN "exit" ELSE MappedPc[Master]
    OBVIOUS
  <2>6. at = "wait"
    BY <1>1, <1>4, <2>4, <2>5
  <2>7. MappedPc'[Master] = Abstract!Continue(at, t)
    BY <1>1, <1>5, <2>4, <2>6 DEF Abstract!Continue
  <2>8. reaped' = IF at = "wait" /\ t # NULL THEN reaped \cup {t} ELSE reaped
    BY <1>1, <1>6, <2>6
  <2> QED
    BY <1>1, <1>2, <1>3, <1>4, <1>5, <2>2, <2>3, <2>4, <2>5, <2>6, <2>7, <2>8, AbstractSwitch
<1>11. UNCHANGED <<MappedSuspended, MappedId>>
  BY <1>7, <1>9 DEF PlainView
<1>12. Abstract!Exit(t)
  BY <1>1, <1>2, <1>3, <1>9, <1>10, <1>11 DEF Abstract!Exit, Abstract!InUser, PlainView
<1> QED
  BY <1>8, <1>12 DEF Simulated, Abstract!Next

------------------------------------------------------------------------------
\* The hand-shake of worker_spawn() with tramp(): all of it is one call, the
\* last step of which is ready().
LEMMA SpawnStep ==
  ASSUME IInv, Extra, num_workers \in Int, NEW t \in Thread, NEW w \in Worker, Spawn(t, w)
  PROVE  Extra' /\ Simulated
<1> USE WorkersDiffer
<1>1. /\ process = "up" /\ cpu = t /\ pc[t] = "user" /\ pc[w] = "none" /\ w \in Thread /\ w # t
      /\ pc \in [Thread -> Spot] /\ worker \in [Thread -> WorkerFields] /\ nextId \in Nat
      /\ local \in [Thread -> LocalFields] /\ all_coros \in Thread /\ IInv'
      /\ t = Master \/ "create" \in Calls
  BY SpawnInv DEF Spawn, InUser, Thread, IInv, Types
<1>2. current_thread = t
  BY <1>1, AloneFacts
<1>3. /\ pc' = [pc EXCEPT ![t] = "ask1", ![w] = "start"]
      /\ local' = [local EXCEPT ![t].thr = w]
      /\ nextId' = nextId + 1 /\ num_workers' = num_workers + 1 /\ order' = order
      /\ UNCHANGED <<current_thread, cpu, process, reaped>>
  BY DEF Spawn, CoroSpawn, readyQ
<1>4. /\ pc'[t] = "ask1" /\ pc'[w] = "start"
      /\ \A u \in Thread \ {t, w} : pc'[u] = pc[u]
  BY <1>1, <1>3
<1>5. NewThr' = w
  BY <1>1, <1>2, <1>3 DEF NewThr, LocalFields
<1>6. /\ worker'[w].id = nextId /\ worker'[w].running = FALSE /\ worker'[w].suspended = FALSE
      /\ \A u \in Thread \ {w} : /\ worker'[u].id = worker[u].id
                                 /\ worker'[u].suspended = worker[u].suspended
                                 /\ worker'[u].running = worker[u].running
  <2> DEFINE fields == [running |-> FALSE, suspended |-> FALSE, id |-> nextId,
                        stack |-> STACK_SIZE + Reserve - current_stack_offset,
                        tracking_prev |-> NULL, tracking_next |-> NULL]
             placed == [fields EXCEPT !.tracking_next = all_coros]
             linked == [worker EXCEPT ![all_coros].tracking_prev = w]
  <2>1. placed.id = nextId /\ placed.running = FALSE /\ placed.suspended = FALSE
    OBVIOUS
  <2>2. worker' = [linked EXCEPT ![w] = placed]
    BY DEF Spawn, CoroSpawn, InsertCoro
  <2>3. /\ DOMAIN linked = Thread
        /\ \A u \in Thread : /\ linked[u].id = worker[u].id
                             /\ linked[u].suspended = worker[u].suspended
                             /\ linked[u].running = worker[u].running
    BY <1>1 DEF WorkerFields
  <2> HIDE DEF fields, placed, linked
  <2>4. worker'[w] = placed /\ \A u \in Thread \ {w} : worker'[u] = linked[u]
    BY <1>1, <2>2, <2>3
  <2> QED
    BY <2>1, <2>3, <2>4
<1>7. Spawning' /\ ~Yielding' /\ ~Suspending'
  BY <1>2, <1>3, <1>4, SpawningPlacesNext DEF SpawningPlace, Yielding, Suspending
<1>8. Extra'
  <2>1. OnlyCpuRuns'
    <3>1. \A u \in Thread \ {w} : worker[u].running = (u = t /\ pc[u] \notin {"suspend", "spin"})
      BY <1>1 DEF Extra, OnlyCpuRuns
    <3>2. \A u \in Thread : pc'[u] \in {"suspend", "spin"} => pc'[u] = pc[u]
      BY <1>4
    <3>3. \A u \in Thread \ {w} :
            worker'[u].running = (u = cpu' /\ pc'[u] \notin {"suspend", "spin"})
      BY <1>1, <1>3, <1>4, <1>6, <3>1, <3>2
    <3>4. worker'[w].running = FALSE /\ w # cpu'
      BY <1>1, <1>3, <1>6
    <3> QED
      BY <3>3, <3>4 DEF OnlyCpuRuns
  <2>2. Permitted' /\ Begun'
    BY <1>1, <1>2, <1>3, <1>4, <1>7 DEF Permitted, Begun
  <2>3. Numbered'
    BY <1>1, <1>3, <1>4, <1>5, <1>6 DEF Extra, Numbered, Thread
  <2> QED
    BY <2>1, <2>2, <2>3 DEF Extra
<1>9. PlainView /\ SpawningView' /\ RunningView /\ RunningView'
  BY <1>1, <1>2, <1>3, <1>4, <1>8, Views, ViewsNext, RunningMap, RunningMapNext
     DEF IInv, Plain, SpawningPlace
<1>10. MappedPc' = MappedPc
  <2>1. [pc' EXCEPT ![t] = "user", ![w] = "none"] = pc
    BY <1>1, <1>3
  <2> QED
    BY <1>2, <1>3, <1>5, <1>9, <2>1 DEF PlainView, SpawningView
<1>11. MappedRunning' = MappedRunning
  BY <1>1, <1>2, <1>3, <1>4, <1>9 DEF RunningView
<1>12. MappedSuspended' = MappedSuspended
  <2>1. worker[w].suspended = FALSE
    BY <1>1 DEF IInv, Asleep, WorkerFields
  <2> QED
    BY <1>6, <1>9, <2>1 DEF PlainView, SpawningView
<1>13. MappedId' = MappedId
  <2>1. worker[w].id = 0
    BY <1>1 DEF Extra, Numbered
  <2> QED
    BY <1>5, <1>6, <1>9, <2>1 DEF PlainView, SpawningView
<1>14. /\ (IF Spawning' THEN nextId' - 1 ELSE nextId') = (IF Spawning THEN nextId - 1 ELSE nextId)
       /\ (IF Spawning' THEN num_workers' - 1 ELSE num_workers')
            = (IF Spawning THEN num_workers - 1 ELSE num_workers)
  <2>1. Spawning' /\ ~Spawning
    BY <1>7, <1>9 DEF PlainView
  <2>2. nextId' - 1 = nextId /\ num_workers' - 1 = num_workers
    BY <1>1, <1>3
  <2> QED
    BY <2>1, <2>2
<1> QED
  BY <1>1, <1>2, <1>3, <1>8, <1>9, <1>10, <1>11, <1>12, <1>13, <1>14
     DEF Simulated, Abstract!vars, PlainView, SpawningView

\* A switch within the hand-shake is no step of the scheduler.
LEMMA HandShakeStep ==
  ASSUME IInv, Extra, process = "up", IInv', process' = "up",
         NEW m \in Thread, m = current_thread, NEW w \in Worker, w = NewThr, w # m, w \in Thread,
         current_thread' = m, NewThr' = w,
         pc[m] \in SpawningPlace, pc'[m] \in SpawningPlace,
         pc[w] # "none", pc'[w] # "none",
         \A u \in Thread \ {m, w} : pc'[u] = pc[u],
         NEW from \in Thread, NEW to \in Thread, cpu = from, cpu' = to, worker' = RunBits(from, to),
         pc'[to] \notin {"suspend", "spin"}, pc[from] \notin {"suspend", "spin"},
         UNCHANGED <<order, nextId, num_workers, reaped>>
  PROVE  Extra' /\ Simulated
<1>1. /\ pc \in [Thread -> Spot] /\ pc' \in [Thread -> Spot]
      /\ worker \in [Thread -> WorkerFields]
  BY DEF IInv, Types
<1>2. Spawning /\ Spawning' /\ ~Yielding' /\ ~Suspending' /\ pc'[m] # "spin" /\ pc[m] # "spin"
  BY SpawningPlaces, SpawningPlacesNext DEF SpawningPlace, Yielding, Suspending
<1>3. \A u \in Thread : /\ worker'[u].id = worker[u].id
                        /\ worker'[u].suspended = worker[u].suspended
                        /\ worker'[u].running = (u = to \/ (u # from /\ worker[u].running))
  BY <1>1, RunBitsKept, RunBitsRun
<1>4. Extra'
  <2>1. OnlyCpuRuns'
    BY <1>3 DEF Extra, OnlyCpuRuns
  <2>2. Permitted' /\ Begun'
    BY <1>2 DEF Extra, Permitted, Begun
  <2>3. Numbered'
    BY <1>2, <1>3, SpawningPlaces DEF Extra, Numbered, SpawningPlace, Thread
  <2> QED
    BY <2>1, <2>2, <2>3 DEF Extra
<1>5. SpawningView /\ SpawningView' /\ RunningView /\ RunningView'
  BY <1>4, Views, ViewsNext, RunningMap, RunningMapNext DEF IInv
<1>6. MappedPc' = MappedPc
  <2>1. [pc' EXCEPT ![m] = "user", ![w] = "none"] = [pc EXCEPT ![m] = "user", ![w] = "none"]
    BY <1>1
  <2> QED
    BY <1>5, <2>1 DEF SpawningView
<1>7. MappedRunning' = MappedRunning
  BY <1>2, <1>5 DEF RunningView
<1>8. UNCHANGED <<MappedSuspended, MappedId>>
  BY <1>3, <1>5 DEF SpawningView
<1> QED
  BY <1>4, <1>5, <1>6, <1>7, <1>8 DEF Simulated, Abstract!vars, SpawningView

LEMMA AskStep ==
  ASSUME IInv, Extra, NEW t \in Thread, NEW k \in 1 .. 4, Ask(t, k)
  PROVE  Extra' /\ Simulated /\ reaped' = reaped
<1>0. PICK w : w = NewThr
  OBVIOUS
<1>1. /\ process = "up" /\ cpu = t /\ pc[t] = AskPlace[k] /\ IInv'
      /\ AskPlace[k] \in {"ask1", "ask2", "ask3", "ask4"} /\ Types
  BY Places, AskInv DEF Ask, At, IInv
<1>2. Shake(w)
  BY <1>0, <1>1 DEF IInv, Control, Alone
<1>3. /\ t = current_thread /\ w \in Worker \ {t} /\ w \in Thread /\ local[t].thr = w
      /\ pc[w] = StartPlace[k]
  <2>1. PICK j \in 1 .. 4 :
          \/ cpu = current_thread /\ pc[cpu] = AskPlace[j] /\ pc[w] = StartPlace[j]
          \/ cpu = w /\ pc[w] = GotPlace[j]
    BY <1>2 DEF Shake
  <2>2. GotPlace[j] \in {"got1", "got2", "got3", "got4"} /\ (AskPlace[j] = AskPlace[k] => j = k)
    BY Places
  <2>3. j = k /\ cpu = current_thread /\ pc[w] = StartPlace[j]
    BY <1>1, <2>1, <2>2
  <2> QED
    BY <1>0, <1>1, <1>2, <2>3 DEF Shake, NewThr, Thread
<1>4. /\ CoroInvoke(t, w, Values(t)[k], AskedPlace[k]) /\ worker' = RunBits(t, w)
      /\ UNCHANGED <<order, current_thread, nextId, num_workers>>
  BY <1>3 DEF Ask, readyQ, sched
<1>5. /\ StartPlace[k] \in Spot /\ AskedPlace[k] \in Spot /\ GotPlace[k] \in Spot
      /\ StartPlace[k] \notin {"exit", "wait", "none"}
      /\ AskedPlace[k] \in SpawningPlace /\ AskPlace[k] \in SpawningPlace
      /\ GotPlace[k] \notin {"none", "suspend", "spin"}
  BY Places DEF Spot, Startup, SpawningPlace
<1>6. /\ cpu' = w /\ pc'[t] = AskedPlace[k] /\ pc'[w] = GotPlace[k]
      /\ \A u \in Thread \ {t, w} : pc'[u] = pc[u]
      /\ local' = [local EXCEPT ![w][Stores[StartPlace[k]]] = Values(t)[k]]
      /\ process' = "up"
  BY <1>1, <1>3, <1>4, <1>5, InvokeFacts, AfterPlaces
<1>7. NewThr' = w
  <2>1. local'[t] = local[t]
    BY <1>1, <1>3, <1>6 DEF Types
  <2> QED
    BY <1>3, <1>4, <2>1 DEF NewThr
<1>8. reaped' = reaped
  <2>1. [pc EXCEPT ![t] = AskedPlace[k]][w] = StartPlace[k]
    BY <1>1, <1>3 DEF Types
  <2> QED
    BY <1>4, <1>5, <2>1 DEF CoroInvoke
<1>9. AskPlace[k] \notin {"suspend", "spin"}
  BY <1>1
<1> QED
  BY <1>0, <1>1, <1>3, <1>4, <1>5, <1>6, <1>7, <1>8, <1>9, HandShakeStep

LEMMA AnswerStep ==
  ASSUME IInv, Extra, NEW w \in Worker, NEW k \in 1 .. 4, Answer(w, k)
  PROVE  Extra' /\ Simulated
<1>0. PICK m : m = current_thread
  OBVIOUS
<1>1. /\ process = "up" /\ cpu = w /\ pc[w] = GotPlace[k] /\ IInv'
      /\ GotPlace[k] \in {"got1", "got2", "got3", "got4"} /\ Types
  BY Places, AnswerInv DEF Answer, At, IInv
<1>2. Shake(NewThr)
  BY <1>0, <1>1 DEF IInv, Control, Alone
<1>3. /\ w = NewThr /\ w \in Worker \ {m} /\ w \in Thread /\ m \in Thread
      /\ pc[m] = AskedPlace[k] /\ local[w].master = m
  <2>1. PICK j \in 1 .. 4 :
          \/ cpu = m /\ pc[cpu] = AskPlace[j]
          \/ /\ cpu = NewThr /\ pc[m] = AskedPlace[j]
             /\ pc[NewThr] = GotPlace[j] /\ Handed(NewThr, j)
    BY <1>0, <1>2 DEF Shake
  <2>2. AskPlace[j] \in {"ask1", "ask2", "ask3", "ask4"} /\ (GotPlace[j] = GotPlace[k] => j = k)
    BY Places
  <2>3. j = k /\ cpu = NewThr /\ pc[m] = AskedPlace[j] /\ Handed(NewThr, j)
    BY <1>1, <2>1, <2>2
  <2>4. k >= 1
    OBVIOUS
  <2> QED
    BY <1>0, <1>1, <1>2, <2>3, <2>4 DEF Shake, Thread, Types, Handed
<1>4. /\ CoroInvoke(w, m, NULL, TrampPlace[k]) /\ worker' = RunBits(w, m)
      /\ UNCHANGED <<order, current_thread, nextId, num_workers>>
  BY <1>3 DEF Answer, readyQ, sched
<1>5. /\ AskedPlace[k] \in Spot /\ TrampPlace[k] \in Spot
      /\ AskedPlace[k] \notin {"exit", "wait"} /\ AskedPlace[k] \notin DOMAIN Stores
      /\ AskedPlace[k] \in SpawningPlace /\ TrampPlace[k] # "none"
  <2>1. k # 4 => k + 1 \in 1 .. 4
    OBVIOUS
  <2> QED
    BY <2>1, Places, AfterPlaces DEF Spot, Startup, SpawningPlace
<1>6. After[AskedPlace[k]] = (IF k = 4 THEN "ready" ELSE AskPlace[k + 1])
  BY AfterPlaces
<1>7. After[AskedPlace[k]] \in Spot /\ After[AskedPlace[k]] \in SpawningPlace
  <2>1. k # 4 => k + 1 \in 1 .. 4
    OBVIOUS
  <2> QED
    BY <1>6, <2>1, Places DEF Spot, SpawningPlace
<1>8. /\ cpu' = m /\ pc'[w] = TrampPlace[k] /\ pc'[m] = After[AskedPlace[k]]
      /\ \A u \in Thread \ {m, w} : pc'[u] = pc[u]
      /\ local' = local /\ process' = "up"
  BY <1>1, <1>3, <1>4, <1>5, <1>7, InvokeFacts
<1>9. NewThr' = w /\ current_thread' = m
  BY <1>0, <1>3, <1>4, <1>8 DEF NewThr
<1>10. reaped' = reaped
  <2>1. [pc EXCEPT ![w] = TrampPlace[k]][m] = AskedPlace[k]
    BY <1>1, <1>3 DEF Types
  <2> QED
    BY <1>4, <1>5, <2>1 DEF CoroInvoke
<1>11. /\ pc[w] \notin {"none", "suspend", "spin"} /\ pc'[w] # "none"
       /\ pc'[m] \notin {"suspend", "spin"}
  BY <1>1, <1>5, <1>7, <1>8 DEF SpawningPlace
<1> QED
  BY <1>0, <1>1, <1>3, <1>4, <1>5, <1>7, <1>8, <1>9, <1>10, <1>11, HandShakeStep

LEMMA ReadyStep ==
  ASSUME IInv, Extra, num_workers \in Int, NEW t \in Thread, Ready(t)
  PROVE  Extra' /\ Simulated
<1>1. /\ process = "up" /\ cpu = t /\ pc[t] = "ready" /\ IInv' /\ nextId \in Nat
      /\ pc \in [Thread -> Spot] /\ worker \in [Thread -> WorkerFields]
  BY ReadyInv DEF Ready, At, IInv, Types
<1>2. Alone /\ current_thread = t
  BY <1>1, AloneFacts
<1>3. PICK w : w = NewThr
  OBVIOUS
<1>4. w \in Worker /\ w # t /\ w \in Thread /\ pc[w] = "tramp" /\ local[t].thr = w
  BY <1>1, <1>2, <1>3 DEF Alone, NewThr, Thread
<1>5. /\ order' = Append(order, w) /\ pc' = [pc EXCEPT ![t] = "user"] /\ worker' = worker
      /\ UNCHANGED <<cpu, process, reaped, current_thread, nextId, num_workers>>
  BY <1>4 DEF Ready, RQ!Link, Goto, sched
<1>6. pc'[t] = "user" /\ \A u \in Thread \ {t} : pc'[u] = pc[u]
  BY <1>1, <1>5
<1>7. Spawning
  BY <1>1, <1>2, SpawningPlaces DEF SpawningPlace
<1>8. Extra' /\ Plain'
  <2>1. OnlyCpuRuns'
    BY <1>1, <1>5, <1>6 DEF Extra, OnlyCpuRuns
  <2>2. \A u \in Worker : pc'[u] = "none" => worker'[u].id = 0
    BY <1>5, <1>6 DEF Extra, Numbered, Thread
  <2> QED
    BY <1>2, <1>5, <1>6, <2>1, <2>2, ExtraEnded DEF SpawningPlace
<1>9. SpawningView /\ PlainView' /\ RunningView /\ RunningView'
  BY <1>1, <1>2, <1>5, <1>8, Views, ViewsNext, RunningMap, RunningMapNext
     DEF IInv, SpawningPlace
<1>10. MappedPc = [pc EXCEPT ![t] = "user", ![w] = "none"] /\ MappedCpu = t /\ MappedReadyQ = order
  BY <1>2, <1>3, <1>9 DEF SpawningView
<1>11. MappedPc' = [MappedPc EXCEPT ![w] = "tramp"]
  <2>1. pc' = [[pc EXCEPT ![t] = "user", ![w] = "none"] EXCEPT ![w] = "tramp"]
    BY <1>1, <1>4, <1>5
  <2> QED
    BY <1>9, <1>10, <2>1 DEF PlainView
<1>12. MappedRunning' = [MappedRunning EXCEPT ![w] = FALSE, ![t] = TRUE]
  BY <1>1, <1>2, <1>4, <1>5, <1>6, <1>9 DEF RunningView
<1>13. MappedSuspended' = [MappedSuspended EXCEPT ![w] = FALSE]
  <2>1. worker[w].suspended = FALSE
    BY <1>1, <1>4 DEF IInv, Asleep, WorkerFields
  <2> QED
    BY <1>5, <1>9, <2>1 DEF PlainView, SpawningView
<1>14. MappedId' = [MappedId EXCEPT ![w] = nextId - 1]
  <2>1. worker[w].id = nextId - 1
    BY <1>3, <1>7 DEF Extra, Numbered
  <2> QED
    BY <1>3, <1>4, <1>5, <1>9, <2>1 DEF PlainView, SpawningView
<1>15. /\ Abstract!InUser(t) /\ (t = Master \/ "create" \in Calls) /\ MappedPc[w] = "none"
  BY <1>1, <1>2, <1>4, <1>7, <1>10 DEF Abstract!InUser, Extra, Permitted
<1>16. Abstract!CreateTask(t, w)
  <2>1. ~Spawning' /\ MappedReadyQ' = order' /\ MappedCpu' = t
    BY <1>1, <1>5, <1>9 DEF PlainView
  <2>2. nextId = (nextId - 1) + 1 /\ num_workers = (num_workers - 1) + 1
    BY <1>1
  <2> QED
    BY <1>2, <1>5, <1>7, <1>10, <1>11, <1>12, <1>13, <1>14, <1>15, <2>1, <2>2
       DEF Abstract!CreateTask
<1> QED
  BY <1>4, <1>8, <1>16 DEF Simulated, Abstract!Next, Abstract!Thread, Thread

------------------------------------------------------------------------------
LEMMA InitExtra == Init => Extra /\ num_workers \in Int /\ Abstract!Init
<1> SUFFICES ASSUME Init
             PROVE  Extra /\ num_workers \in Int /\ Abstract!Init
  OBVIOUS
<1> USE WorkersDiffer
<1>1. IInv
  BY InitInv
<1>2. /\ Master \in Thread /\ process = "up" /\ cpu = Master /\ current_thread = Master
      /\ pc = [t \in Thread |-> IF t = Master THEN "user" ELSE "none"]
      /\ worker = [t \in Thread |-> [MasterFields EXCEPT !.running = t = Master]]
      /\ order = << >> /\ reaped = {} /\ nextId = 1 /\ num_workers = 0
  BY DEF Init, RQ!Init, Thread
<1>3. \A t \in Thread : /\ worker[t].running = (t = Master)
                        /\ worker[t].id = 0 /\ worker[t].suspended = FALSE
  BY <1>2 DEF MasterFields
<1>4. pc[current_thread] = "user"
  BY <1>2
<1>5. ~Spawning /\ ~Yielding /\ ~Suspending /\ Plain
  BY <1>4, SpawningPlaces DEF SpawningPlace, Yielding, Suspending, Plain
<1>6. Extra
  <2>1. OnlyCpuRuns
    BY <1>2, <1>3, <1>4 DEF OnlyCpuRuns
  <2>2. Permitted /\ Begun /\ Numbered
    BY <1>2, <1>3, <1>4, <1>5 DEF Permitted, Begun, Numbered, Thread
  <2> QED
    BY <2>1, <2>2 DEF Extra
<1>7. PlainView /\ RunningView
  BY <1>1, <1>2, <1>5, <1>6, Views, RunningMap DEF IInv
<1>8. Abstract!Init
  <2>1. MappedRunning = [t \in Thread |-> t = Master]
    BY <1>2, <1>4, <1>7 DEF RunningView
  <2>2. MappedSuspended = [t \in Thread |-> FALSE] /\ MappedId = [t \in Thread |-> 0]
    BY <1>3, <1>7 DEF PlainView
  <2> QED
    BY <1>2, <1>5, <1>7, <2>1, <2>2 DEF Abstract!Init, Abstract!Thread, PlainView, Thread
<1> QED
  BY <1>2, <1>6, <1>8

\* num_workers is only counted up and down.
LEMMA CountNext == [Next]_vars /\ num_workers \in Int => num_workers' \in Int
<1> SUFFICES ASSUME [Next]_vars, num_workers \in Int
             PROVE  num_workers' \in Int
  OBVIOUS
<1>1. CASE \E t \in Thread, thr \in Worker : Spawn(t, thr)
  BY <1>1 DEF Spawn
<1>2. CASE \E t \in Thread, k \in 1 .. 4 : Ask(t, k)
  BY <1>2 DEF Ask, sched
<1>3. CASE \E t \in Worker, k \in 1 .. 4 : Answer(t, k)
  BY <1>3 DEF Answer, sched
<1>4. CASE \E t \in Thread : Ready(t)
  BY <1>4 DEF Ready, sched
<1>5. CASE \/ \E t \in Thread : Yield(t)
           \/ \E t \in Worker : Suspend(t)
  BY <1>5 DEF Yield, Suspend, sched
<1>6. CASE \/ \E t \in Thread : NextCoroutine(t)
           \/ \E t \in Worker : Exit(t)
  BY <1>6 DEF NextCoroutine, Dispatch, sched, Exit
<1>7. CASE \E t \in Thread, n \in Worker : Wake(t, n)
  BY <1>7 DEF Wake, sched
<1>8. CASE \E t, n \in Worker : YieldWake(t, n) \/ SuspendWake(t, n)
  BY <1>8 DEF YieldWake, SuspendWake, HandTo
<1>9. CASE Run \/ ThreadWait \/ Finalize
  BY <1>9 DEF Run, ThreadWait, Dispatch, Finalize, sched
<1>10. CASE Terminated \/ UNCHANGED vars
  BY <1>10 DEF Terminated, vars, sched
<1> QED
  BY <1>1, <1>2, <1>3, <1>4, <1>5, <1>6, <1>7, <1>8, <1>9, <1>10 DEF Next

LEMMA NextStep ==
  ASSUME "master_yield" \notin Calls
  PROVE  IInv /\ Extra /\ num_workers \in Int /\ [Next]_vars => Extra' /\ Simulated
<1> SUFFICES ASSUME IInv, Extra, num_workers \in Int, [Next]_vars
             PROVE  Extra' /\ Simulated
  OBVIOUS
<1>1. CASE \E t \in Thread, thr \in Worker : Spawn(t, thr)
  BY <1>1, SpawnStep
<1>2. CASE \E t \in Thread, k \in 1 .. 4 : Ask(t, k)
  BY <1>2, AskStep
<1>3. CASE \E t \in Worker, k \in 1 .. 4 : Answer(t, k)
  BY <1>3, AnswerStep
<1>4. CASE \E t \in Thread : Ready(t)
  BY <1>4, ReadyStep
<1>5. CASE \E t \in Worker : Yield(t) \/ Suspend(t) \/ NextCoroutine(t) \/ Exit(t)
  BY <1>5, YieldStep, SuspendStep, NextCoroutineStep, ExitStep
<1>6. CASE \E t \in Thread, n \in Worker : Wake(t, n)
  BY <1>6, WakeStep
<1>7. CASE \E t, n \in Worker : YieldWake(t, n) \/ SuspendWake(t, n)
  BY <1>7, YieldWakeStep, SuspendWakeStep
<1>8. CASE Run \/ ThreadWait \/ Finalize
  BY <1>8, RunStep, ThreadWaitStep, FinalizeStep
<1>9. CASE Terminated \/ UNCHANGED vars
  BY <1>9, StutterStep DEF Terminated
<1> QED
  BY <1>1, <1>2, <1>3, <1>4, <1>5, <1>6, <1>7, <1>8, <1>9,
     OnlyTasksYield DEF Next

\* The runtime as it is built, with its array of intrusive lists, the four
\* switches of every task creation and the single switches of every call,
\* implements the scheduler whose calls are single steps on a sequence.
THEOREM RuntimeImplementsScheduler ==
  ASSUME "master_yield" \notin Calls
  PROVE  Spec => ImplementsScheduler
<1>1. Init => Extra /\ num_workers \in Int /\ Abstract!Init
  BY InitExtra
<1>2. IInv /\ Extra /\ num_workers \in Int /\ [Next]_vars
        => Extra' /\ (num_workers \in Int)' /\ [Abstract!Next]_(Abstract!vars)
  BY NextStep, CountNext DEF Simulated
<1> QED
  BY <1>1, <1>2, Inductive, PTL DEF Spec, ImplementsScheduler, Abstract!Spec

------------------------------------------------------------------------------
(***************************************************************************)
(* The tracking list.  Besides TrackingList itself the induction needs     *)
(* that ids tell the coroutines apart and stay below nextId, and that no   *)
(* link leads out of the list.                                             *)
(***************************************************************************)
Coro == {Master} \cup {w \in Worker : Created(w)}

Tracked ==
  /\ TrackingList
  /\ worker[Master].id = 0 /\ total_coros \in Nat
  /\ \A c, d \in Coro : worker[c].id = worker[d].id => c = d
  /\ \A c \in Coro : /\ worker[c].id < nextId
                     /\ worker[c].tracking_next \in Coro \cup {NULL}
                     /\ worker[c].tracking_prev \in Coro \cup {NULL}

\* What every call but createTask() does to the list: nothing.
SameLinks(fields, after) ==
  \A t \in Thread : /\ after[t].id = fields[t].id
                    /\ after[t].tracking_prev = fields[t].tracking_prev
                    /\ after[t].tracking_next = fields[t].tracking_next

LEMMA RunningLinks ==
  ASSUME NEW fields \in [Thread -> WorkerFields], NEW n, NEW b \in BOOLEAN
  PROVE  /\ n \in Thread => SetRunning(fields, n, b) \in [Thread -> WorkerFields]
         /\ SameLinks(fields, SetRunning(fields, n, b))
BY DEF WorkerFields, SetRunning, SameLinks

LEMMA SuspendedLinks ==
  ASSUME NEW fields \in [Thread -> WorkerFields], NEW n, NEW b \in BOOLEAN
  PROVE  /\ n \in Thread => SetSuspended(fields, n, b) \in [Thread -> WorkerFields]
         /\ SameLinks(fields, SetSuspended(fields, n, b))
BY DEF WorkerFields, SetSuspended, SameLinks

LEMMA RunBitsLinks ==
  ASSUME worker \in [Thread -> WorkerFields], NEW me \in Thread, NEW to
  PROVE  SameLinks(worker, RunBits(me, to))
<1>1. PICK no \in BOOLEAN : no = FALSE
  OBVIOUS
<1>2. PICK yes \in BOOLEAN : yes = TRUE
  OBVIOUS
<1>3. PICK once : once = SetRunning(worker, me, no)
  OBVIOUS
<1>4. RunBits(me, to) = SetRunning(once, to, yes)
  BY <1>1, <1>2, <1>3 DEF RunBits, SetRunning
<1>5. once \in [Thread -> WorkerFields] /\ SameLinks(worker, once)
  BY <1>3, RunningLinks
<1>6. SameLinks(once, RunBits(me, to))
  BY <1>4, <1>5, RunningLinks
<1> QED
  BY <1>5, <1>6 DEF SameLinks

LEMMA KeptTracked ==
  ASSUME Tracked, SameLinks(worker, worker'), UNCHANGED <<all_coros, nextId>>,
         total_coros' \in Nat,
         process' = "up" => process = "up" /\ total_coros' = total_coros
  PROVE  Tracked'
<1>1. Coro' = Coro /\ \A c \in Coro : c \in Thread
  BY DEF Coro, Created, SameLinks, Thread
<1>2. /\ worker'[Master].id = 0
      /\ \A c \in Coro : /\ worker'[c].id = worker[c].id
                         /\ worker'[c].tracking_prev = worker[c].tracking_prev
                         /\ worker'[c].tracking_next = worker[c].tracking_next
  BY <1>1 DEF Tracked, SameLinks, Thread
<1>3. TrackingList'
  <2>1. all_coros' \in Coro' /\ worker'[all_coros'].id = nextId' - 1
    BY <1>1, <1>2 DEF Tracked, TrackingList, Coro
  <2>2. ASSUME NEW c \in Coro, NEW d \in Coro
        PROVE  /\ (worker'[c].tracking_next = d) = (worker'[c].id = worker'[d].id + 1)
               /\ (worker'[d].tracking_prev = c) = (worker'[c].id = worker'[d].id + 1)
    BY <1>2 DEF Tracked, TrackingList, Coro
  <2>3. process' = "up" => total_coros' = nextId'
    BY DEF Tracked, TrackingList
  <2> QED
    BY <1>1, <2>1, <2>2, <2>3 DEF TrackingList, Coro
<1> QED
  BY <1>1, <1>2, <1>3 DEF Tracked

LEMMA SpawnTracked ==
  ASSUME IInv, Extra, Tracked, NEW t \in Thread, NEW w \in Worker, Spawn(t, w)
  PROVE  Tracked'
<1> USE WorkersDiffer
<1>1. /\ process = "up" /\ pc[w] = "none" /\ w \in Thread /\ w # Master
      /\ worker \in [Thread -> WorkerFields] /\ nextId \in Nat \ {0} /\ all_coros \in Thread
  BY DEF Spawn, InUser, Thread, IInv, Types
<1>2. w \notin Coro /\ Master \in Coro /\ \A c \in Coro : c \in Thread /\ c # NULL
  BY <1>1 DEF Extra, Numbered, Coro, Created, Thread
<1>3. all_coros \in Coro /\ worker[all_coros].id = nextId - 1 /\ total_coros = nextId
  BY <1>1 DEF Tracked, TrackingList, Coro
<1>4. nextId' = nextId + 1 /\ all_coros' = w /\ total_coros' = total_coros + 1
  BY DEF Spawn, CoroSpawn
<1>5. /\ worker'[w].id = nextId /\ worker'[w].tracking_next = all_coros
      /\ worker'[w].tracking_prev = NULL
      /\ \A u \in Thread \ {w} :
           /\ worker'[u].id = worker[u].id /\ worker'[u].tracking_next = worker[u].tracking_next
           /\ worker'[u].tracking_prev = IF u = all_coros THEN w ELSE worker[u].tracking_prev
  <2> DEFINE fields == [running |-> FALSE, suspended |-> FALSE, id |-> nextId,
                        stack |-> STACK_SIZE + Reserve - current_stack_offset,
                        tracking_prev |-> NULL, tracking_next |-> NULL]
             placed == [fields EXCEPT !.tracking_next = all_coros]
             linked == [worker EXCEPT ![all_coros].tracking_prev = w]
  <2>1. placed.id = nextId /\ placed.tracking_next = all_coros /\ placed.tracking_prev = NULL
    OBVIOUS
  <2>2. worker' = [linked EXCEPT ![w] = placed]
    BY DEF Spawn, CoroSpawn, InsertCoro
  <2>3. /\ DOMAIN linked = Thread
        /\ \A u \in Thread :
             /\ linked[u].id = worker[u].id /\ linked[u].tracking_next = worker[u].tracking_next
             /\ linked[u].tracking_prev = IF u = all_coros THEN w ELSE worker[u].tracking_prev
    BY <1>1 DEF WorkerFields
  <2> HIDE DEF fields, placed, linked
  <2>4. worker'[w] = placed /\ \A u \in Thread \ {w} : worker'[u] = linked[u]
    BY <1>1, <2>2, <2>3
  <2> QED
    BY <2>1, <2>3, <2>4
<1>6. Coro' = Coro \cup {w}
  <2>1. \A u \in Worker : u \in Coro' <=> u \in Coro \/ u = w
    BY <1>1, <1>5 DEF Coro, Created, Thread
  <2> QED
    BY <1>1, <2>1 DEF Coro
<1>7. /\ \A c \in Coro : /\ worker[c].id < nextId /\ worker[c].id \in Nat
                         /\ worker[c].tracking_next \in Coro \cup {NULL}
                         /\ worker[c].tracking_prev \in Coro \cup {NULL}
      /\ \A c, d \in Coro : worker[c].id = worker[d].id => c = d
      /\ \A c, d \in Coro :
           /\ worker[c].tracking_next = d <=> worker[c].id = worker[d].id + 1
           /\ worker[d].tracking_prev = c <=> worker[c].id = worker[d].id + 1
  BY <1>1, <1>2 DEF Tracked, TrackingList, Coro, WorkerFields
<1>8. ASSUME NEW c \in Coro', NEW d \in Coro'
      PROVE  /\ worker'[c].tracking_next = d <=> worker'[c].id = worker'[d].id + 1
             /\ worker'[d].tracking_prev = c <=> worker'[c].id = worker'[d].id + 1
  <2>1. CASE c = w /\ d = w
    BY <1>1, <1>2, <1>3, <1>5, <2>1
  <2>2. CASE c = w /\ d \in Coro
    <3>1. worker'[d].id = worker[d].id /\ d # w /\ d \in Thread
      BY <1>2, <1>5, <2>2
    <3>2. nextId = worker[d].id + 1 <=> d = all_coros
      BY <1>1, <1>3, <1>7, <2>2
    <3>3. worker'[d].tracking_prev = w <=> d = all_coros
      BY <1>1, <1>2, <1>5, <1>7, <2>2, <3>1
    <3>4. worker'[w].tracking_next = d <=> d = all_coros
      BY <1>5
    <3> QED
      BY <1>5, <2>2, <3>1, <3>2, <3>3, <3>4
  <2>3. CASE c \in Coro /\ d = w
    <3>1. worker'[c].id = worker[c].id /\ c # w /\ c # NULL /\ c \in Thread
      BY <1>2, <1>5, <2>3
    <3>2. worker[c].id # nextId + 1
      BY <1>1, <1>7, <2>3
    <3>3. worker'[c].tracking_next # w
      BY <1>1, <1>2, <1>5, <1>7, <2>3, <3>1
    <3> QED
      BY <1>5, <2>3, <3>1, <3>2, <3>3
  <2>4. CASE c \in Coro /\ d \in Coro
    <3>1. /\ worker'[c].id = worker[c].id /\ worker'[d].id = worker[d].id
          /\ worker'[c].tracking_next = worker[c].tracking_next /\ c # w
      BY <1>2, <1>5, <2>4
    <3>2. d = all_coros => worker[c].id # worker[d].id + 1
      BY <1>1, <1>3, <1>7, <2>4
    <3>3. worker'[d].tracking_prev = c <=> worker[d].tracking_prev = c /\ d # all_coros
      BY <1>2, <1>5, <1>7, <2>4, <3>1, <3>2
    <3> QED
      BY <1>7, <2>4, <3>1, <3>2, <3>3
  <2> QED
    BY <1>6, <2>1, <2>2, <2>3, <2>4
<1>9. TrackingList'
  <2>1. \A c, d \in Coro' :
          LET follows == worker'[c].id = worker'[d].id + 1 IN
          (worker'[c].tracking_next = d) = follows /\ (worker'[d].tracking_prev = c) = follows
    BY <1>8
  <2>2. w \in Coro' /\ nextId = nextId' - 1 /\ total_coros' = nextId'
    BY <1>1, <1>3, <1>4, <1>6
  <2> QED
    BY <1>4, <1>5, <2>1, <2>2 DEF TrackingList, Coro
<1>10. \A c, d \in Coro' : worker'[c].id = worker'[d].id => c = d
  <2>1. \A c \in Coro : worker'[c].id = worker[c].id /\ worker[c].id # nextId
    BY <1>1, <1>2, <1>5, <1>7
  <2> QED
    BY <1>5, <1>6, <1>7, <2>1
<1>11. \A c \in Coro' : /\ worker'[c].id < nextId'
                        /\ worker'[c].tracking_next \in Coro' \cup {NULL}
                        /\ worker'[c].tracking_prev \in Coro' \cup {NULL}
  <2>1. ASSUME NEW c \in Coro
        PROVE  /\ worker'[c].id < nextId'
               /\ worker'[c].tracking_next \in Coro' \cup {NULL}
               /\ worker'[c].tracking_prev \in Coro' \cup {NULL}
    <3>1. /\ worker'[c].id = worker[c].id /\ worker'[c].tracking_next = worker[c].tracking_next
          /\ worker'[c].tracking_prev \in {w, worker[c].tracking_prev}
      BY <1>2, <1>5, <2>1
    <3>2. worker[c].id < nextId + 1
      BY <1>1, <1>7
    <3> QED
      BY <1>4, <1>6, <1>7, <3>1, <3>2
  <2>2. nextId < nextId + 1
    BY <1>1
  <2> QED
    BY <1>3, <1>4, <1>5, <1>6, <2>1, <2>2
<1>12. worker'[Master].id = 0 /\ total_coros' \in Nat
  BY <1>1, <1>2, <1>3, <1>4, <1>5 DEF Tracked
<1> QED
  BY <1>9, <1>10, <1>11, <1>12 DEF Tracked

\* A step that leaves the list alone.
Untracked ==
  /\ SameLinks(worker, worker') /\ UNCHANGED <<all_coros, nextId, total_coros>>
  /\ process = "up" \/ process' = process

LEMMA HandToLinks ==
  ASSUME IInv, NEW t \in Worker, NEW n \in Worker, NEW b \in BOOLEAN, HandTo(t, n, b)
  PROVE  Untracked
<1>1. worker \in [Thread -> WorkerFields] /\ t \in Thread /\ n \in Thread
  BY DEF IInv, Types, Thread
<1>2. PICK switched : switched = RunBits(t, n)
  OBVIOUS
<1>3. PICK no \in BOOLEAN : no = FALSE
  OBVIOUS
<1>4. PICK woken : woken = SetSuspended(switched, n, no)
  OBVIOUS
<1>5. worker' = SetSuspended(woken, t, b)
  BY <1>2, <1>3, <1>4 DEF HandTo, SetSuspended
<1>6. switched \in [Thread -> WorkerFields] /\ SameLinks(worker, switched)
  BY <1>1, <1>2, RunBitsKept, RunBitsLinks
<1>7. woken \in [Thread -> WorkerFields] /\ SameLinks(switched, woken)
  BY <1>1, <1>4, <1>6, SuspendedLinks
<1>8. SameLinks(woken, worker')
  BY <1>5, <1>7, SuspendedLinks
<1> QED
  BY <1>6, <1>7, <1>8 DEF SameLinks, Untracked, HandTo, InUser, coros

LEMMA SuspendLinks ==
  ASSUME IInv, NEW t \in Worker, Suspend(t)
  PROVE  Untracked
<1>1. worker \in [Thread -> WorkerFields] /\ current_thread \in Thread
  BY DEF IInv, Types
<1>2. PICK no \in BOOLEAN : no = FALSE
  OBVIOUS
<1>3. PICK yes \in BOOLEAN : yes = TRUE
  OBVIOUS
<1>4. PICK stopped : stopped = SetRunning(worker, current_thread, no)
  OBVIOUS
<1>5. worker' = SetSuspended(stopped, current_thread, yes)
  BY <1>2, <1>3, <1>4 DEF Suspend, SetRunning, SetSuspended
<1>6. stopped \in [Thread -> WorkerFields] /\ SameLinks(worker, stopped)
  BY <1>1, <1>4, RunningLinks
<1>7. SameLinks(stopped, worker')
  BY <1>5, <1>6, SuspendedLinks
<1> QED
  BY <1>6, <1>7 DEF SameLinks, Untracked, Suspend, InUser, coros, sched

LEMMA WakeLinks ==
  ASSUME IInv, NEW t \in Thread, NEW n \in Worker, Wake(t, n)
  PROVE  Untracked
<1>1. worker \in [Thread -> WorkerFields]
  BY DEF IInv, Types
<1>2. PICK no \in BOOLEAN : no = FALSE
  OBVIOUS
<1>3. worker' = SetSuspended(worker, n, no)
  BY <1>2 DEF Wake, SetSuspended
<1>4. SameLinks(worker, worker')
  BY <1>1, <1>3, SuspendedLinks
<1> QED
  BY <1>4 DEF Untracked, Wake, InUser, coros, sched

LEMMA OthersLinks ==
  ASSUME IInv, [Next]_vars,
         ~\E t \in Thread, w \in Worker : Spawn(t, w), ~Finalize
  PROVE  Untracked
<1>1. worker \in [Thread -> WorkerFields] /\ current_thread \in Thread
  BY DEF IInv, Types
<1>2. SameLinks(worker, worker)
  BY DEF SameLinks
<1>3. ASSUME NEW me \in Thread, NEW to
      PROVE  SameLinks(worker, RunBits(me, to))
  BY <1>1, RunBitsLinks
<1>4. ASSUME NEW place, Dispatch(place)
      PROVE  SameLinks(worker, worker') /\ UNCHANGED <<all_coros, nextId, total_coros>>
  BY <1>1, <1>3, <1>4 DEF Dispatch, coros
<1>5. CASE \E t \in Thread, k \in 1 .. 4 : Ask(t, k)
  BY <1>3, <1>5 DEF Ask, At, sched, coros, Untracked
<1>6. CASE \E t \in Worker, k \in 1 .. 4 : Answer(t, k)
  BY <1>3, <1>6 DEF Answer, At, sched, coros, Untracked, Thread
<1>7. CASE \E t \in Thread : Ready(t)
  BY <1>2, <1>7 DEF Ready, At, sched, coros, Untracked
<1>8. CASE \E t \in Thread : Yield(t)
  BY <1>2, <1>8 DEF Yield, InUser, sched, coros, Untracked
<1>9. CASE \E t \in Worker : Suspend(t)
  BY <1>9, SuspendLinks
<1>10. CASE \E t \in Thread : NextCoroutine(t)
  BY <1>2, <1>4, <1>10 DEF NextCoroutine, At, sched, coros, Untracked
<1>11. CASE \E t \in Thread, n \in Worker : Wake(t, n)
  BY <1>11, WakeLinks
<1>12. CASE \E t, n \in Worker : YieldWake(t, n) \/ SuspendWake(t, n)
  BY <1>12, HandToLinks DEF YieldWake, SuspendWake
<1>13. CASE \E t \in Worker : Exit(t)
  BY <1>1, <1>3, <1>13 DEF Exit, InUser, coros, Untracked
<1>14. CASE Run \/ ThreadWait
  BY <1>2, <1>4, <1>14 DEF Run, ThreadWait, InUser, At, sched, coros, Untracked
<1>15. CASE Terminated \/ UNCHANGED vars
  BY <1>2, <1>15 DEF Terminated, vars, sched, coros, machine, Untracked
<1> QED
  BY <1>5, <1>6, <1>7, <1>8, <1>9, <1>10, <1>11, <1>12, <1>13, <1>14, <1>15 DEF Next

LEMMA TrackedNext ==
  ASSUME "master_yield" \notin Calls
  PROVE  IInv /\ Extra /\ Tracked /\ [Next]_vars => Tracked'
<1> SUFFICES ASSUME IInv, Extra, Tracked, [Next]_vars
             PROVE  Tracked'
  OBVIOUS
<1>1. CASE \E t \in Thread, w \in Worker : Spawn(t, w)
  BY <1>1, SpawnTracked
<1>2. CASE Finalize
  <2>1. /\ SameLinks(worker, worker') /\ UNCHANGED <<all_coros, nextId>>
        /\ total_coros' = total_coros - 1 /\ process' = "success" /\ process = "up"
    BY <1>2 DEF Finalize, InUser, sched, SameLinks
  <2>2. total_coros' \in Nat
    BY <2>1 DEF Tracked, TrackingList, IInv, Types
  <2> QED
    BY <2>1, <2>2, KeptTracked
<1>3. CASE ~(\E t \in Thread, w \in Worker : Spawn(t, w)) /\ ~Finalize
  <2>1. Untracked
    BY <1>3, OthersLinks
  <2> QED
    BY <2>1, KeptTracked DEF Untracked, Tracked
<1> QED
  BY <1>1, <1>2, <1>3

LEMMA InitTracked == Init => Tracked
<1> SUFFICES ASSUME Init
             PROVE  Tracked
  OBVIOUS
<1>1. /\ Master \in Thread /\ all_coros = Master /\ total_coros = 1 /\ nextId = 1
      /\ \A t \in Thread : /\ worker[t].id = 0 /\ worker[t].tracking_prev = NULL
                           /\ worker[t].tracking_next = NULL
  BY DEF Init, MasterFields, Thread
<1>2. Coro = {Master}
  BY <1>1 DEF Coro, Created, Thread
<1>3. Master # NULL
  BY WorkersDiffer
<1>4. \A c, d \in Coro :
        /\ (worker[c].tracking_next = d) = (worker[c].id = worker[d].id + 1)
        /\ (worker[d].tracking_prev = c) = (worker[c].id = worker[d].id + 1)
  BY <1>1, <1>2, <1>3
<1>5. TrackingList
  BY <1>1, <1>2, <1>4 DEF TrackingList, Coro
<1> QED
  BY <1>1, <1>2, <1>5 DEF Tracked

\* The tracking list of CORO_DEBUG builds always links the coroutines there
\* are, in both directions and in the order they were made.
THEOREM AlwaysTracksCoroutines ==
  ASSUME "master_yield" \notin Calls
  PROVE  Spec => []TrackingList
<1>1. Init => Extra /\ Tracked /\ num_workers \in Int
  BY InitExtra, InitTracked
<1>2. IInv /\ Extra /\ Tracked /\ num_workers \in Int /\ [Next]_vars
        => Extra' /\ Tracked' /\ (num_workers \in Int)'
  BY NextStep, CountNext, TrackedNext
<1>3. Tracked => TrackingList
  BY DEF Tracked
<1> QED
  BY <1>1, <1>2, <1>3, Inductive, PTL DEF Spec

------------------------------------------------------------------------------
\* Only an exiting worker is reported to thread_wait().
LEMMA ReapedNext ==
  IInv /\ Extra /\ reaped \subseteq Worker /\ [Next]_vars => reaped' \subseteq Worker
<1> SUFFICES ASSUME IInv, Extra, reaped \subseteq Worker, [Next]_vars
             PROVE  reaped' \subseteq Worker
  OBVIOUS
<1>1. ASSUME NEW me, NEW to, NEW place, CoroInvoke(me, to, NULL, place)
      PROVE  reaped' = reaped
  BY <1>1 DEF CoroInvoke
<1>2. CASE \E t \in Thread, w \in Worker : Spawn(t, w)
  BY <1>2 DEF Spawn
<1>3. CASE \E t \in Thread, k \in 1 .. 4 : Ask(t, k)
  BY <1>3, AskStep
<1>4. CASE \E t \in Worker, k \in 1 .. 4 : Answer(t, k)
  BY <1>1, <1>4 DEF Answer
<1>5. CASE \E t \in Thread : Ready(t)
  BY <1>5 DEF Ready, Goto
<1>6. CASE \/ \E t \in Thread : Yield(t)
           \/ \E t \in Worker : Suspend(t)
  BY <1>6 DEF Yield, Suspend, Goto
<1>7. CASE \E t \in Thread : NextCoroutine(t)
  BY <1>1, <1>7 DEF NextCoroutine, Dispatch, Goto
<1>8. CASE \E t \in Thread, n \in Worker : Wake(t, n)
  BY <1>8 DEF Wake, machine
<1>9. CASE \E t, n \in Worker : YieldWake(t, n) \/ SuspendWake(t, n)
  BY <1>1, <1>9 DEF YieldWake, SuspendWake, HandTo
<1>10. ASSUME NEW t \in Worker, Exit(t)
       PROVE  reaped' \subseteq Worker
  <2>1. current_thread = t
    BY <1>10, AloneFacts DEF Exit, InUser, Thread
  <2>2. CoroInvoke(t, Master, t, "exit")
    BY <1>10, <2>1 DEF Exit
  <2>3. reaped' = reaped \cup {t} \/ reaped' = reaped
    BY <2>2 DEF CoroInvoke
  <2> QED
    BY <2>3
<1>11. CASE Run \/ ThreadWait \/ Finalize
  BY <1>1, <1>11 DEF Run, ThreadWait, Dispatch, Goto, Finalize
<1>12. CASE Terminated \/ UNCHANGED vars
  BY <1>12 DEF Terminated, vars, machine
<1> QED
  BY <1>2, <1>3, <1>4, <1>5, <1>6, <1>7, <1>8, <1>9, <1>10, <1>11, <1>12 DEF Next

LEMMA TypesSuffice ==
  ASSUME IInv, Tracked, num_workers \in Int, reaped \subseteq Worker
  PROVE  TypeOK
<1>1. current_stack_offset \in Nat
  <2>1. PICK k \in 0 .. NumOffsets - 1 : current_stack_offset = LineSize * k
    BY DEF IInv, Colour
  <2>2. k \in Nat /\ LineSize \in Nat
    BY SizesNat
  <2>3. \A a, b \in Nat : a * b \in Nat
    OBVIOUS
  <2> QED
    BY <2>1, <2>2, <2>3
<1>2. DOMAIN pc = Thread /\ DOMAIN local = Thread
  BY DEF IInv, Types
<1> QED
  BY <1>1, <1>2 DEF TypeOK, IInv, Types, Queue, Tracked

\* Every variable of the runtime keeps its type; total_coros, which
\* AccirrFinalize() decrements, never falls below zero.
THEOREM RuntimeTypeCorrect ==
  ASSUME "master_yield" \notin Calls
  PROVE  Spec => []TypeOK
<1>1. Init => Extra /\ Tracked /\ num_workers \in Int /\ reaped \subseteq Worker
  BY InitExtra, InitTracked DEF Init
<1>2. IInv /\ Extra /\ Tracked /\ num_workers \in Int /\ reaped \subseteq Worker /\ [Next]_vars
        => Extra' /\ Tracked' /\ (num_workers \in Int)' /\ (reaped \subseteq Worker)'
  BY NextStep, CountNext, TrackedNext, ReapedNext
<1>3. IInv /\ Tracked /\ num_workers \in Int /\ reaped \subseteq Worker => TypeOK
  BY TypesSuffice
<1> QED
  BY <1>1, <1>2, <1>3, Inductive, PTL DEF Spec
==============================================================================
