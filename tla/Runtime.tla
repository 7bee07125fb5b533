------------------------------- MODULE Runtime -------------------------------
(***************************************************************************)
(* The runtime as it is built: the scheduler on the array of intrusive     *)
(* lists of ThreadQueue.h, every coro_invoke() a switch of its own, the    *)
(* hand-shake of worker_spawn() with tramp(), the stacks coro_spawn()      *)
(* lays out and the tracking list of CORO_DEBUG builds.  It is checked to  *)
(* implement TaskScheduler, whose calls are single steps on a sequence.    *)
(* As there, user code makes any call in Calls, wakes only a suspended     *)
(* worker, and passes createTask() the number of the task as argument, as  *)
(* every program of the repository does.  The no-switch region is left to  *)
(* TaskScheduler; thread_yield() of main() is only here, the call          *)
(* "master_yield": it queues the system worker, which may be queued        *)
(* already, and a worker has one `next' field.                             *)
(***************************************************************************)
EXTENDS Integers, Sequences, FiniteSets

CONSTANTS Worker, Master, NULL, Wild, Calls,
          Func,               \* the function every task runs
          PrefetchDistance,   \* READYQ_PREFETCH_DISTANCE
          STACK_SIZE,         \* usable bytes of a task's stack
          Reserve,            \* the 4096 bytes below and above it
          LineSize,           \* cache_line_size, also the step stack_offset
          NumOffsets          \* num_offsets, the number of stack colours

ASSUME WorkersDiffer ==
  Master \notin Worker /\ {NULL, Wild} \cap (Worker \cup {Master}) = {} /\ NULL # Wild
ASSUME DistancePositive == PrefetchDistance \in Nat \ {0}
ASSUME SizesNat == STACK_SIZE \in Nat /\ Reserve \in Nat /\ LineSize \in Nat /\ NumOffsets \in Nat \ {0}
ASSUME ColoursFit == LineSize > 0 /\ LineSize * NumOffsets <= STACK_SIZE

Thread == Worker \cup {Master}

VARIABLES
  queues, eq_index, dq_index, len, next, ret, order,   \* readyQ, see PrefetchQueue
  current_thread, nextId, num_workers,                 \* the other fields of the scheduler
  worker,                \* the fields of each Worker, see WorkerFields
  all_coros, total_coros, current_stack_offset,        \* globals of Worker.cpp
  cpu,                   \* whose stack the processor is on
  pc,                    \* where each thread is, see After
  local,                 \* the locals of worker_spawn() and tramp() on each stack
  reaped, process        \* as in TaskScheduler

RQ == INSTANCE PrefetchQueue WITH Worker <- Thread, UsingMalloc <- FALSE

readyQ == <<queues, eq_index, dq_index, len, next, ret, order>>
sched == <<current_thread, nextId, num_workers>>
coros == <<all_coros, total_coros, current_stack_offset>>
machine == <<cpu, pc, local, reaped, process>>
vars == <<readyQ, sched, worker, coros, machine>>

WorkerFields == [running : BOOLEAN, suspended : BOOLEAN, id : Nat, stack : Int,
                 tracking_prev : Thread \cup {NULL}, tracking_next : Thread \cup {NULL}]

\* The fields convert_to_master() gives main(): it keeps the stack it has.
MasterFields ==
  [running |-> TRUE, suspended |-> FALSE, id |-> 0, stack |-> 0,
   tracking_prev |-> NULL, tracking_next |-> NULL]

\* AccirrInit(): convert_to_master() and init() of the scheduler.  Workers
\* not yet created have no fields; what stands for them is never read.
Init ==
  /\ RQ!Init
  /\ current_thread = Master /\ nextId = 1 /\ num_workers = 0
  /\ worker = [t \in Thread |-> [MasterFields EXCEPT !.running = t = Master]]
  /\ all_coros = Master /\ total_coros = 1 /\ current_stack_offset = 0
  /\ cpu = Master
  /\ pc = [t \in Thread |-> IF t = Master THEN "user" ELSE "none"]
  /\ local = [t \in Thread |-> [thr |-> NULL, master |-> NULL, my_thr |-> NULL,
                                f |-> NULL, f_arg |-> NULL]]
  /\ reaped = {} /\ process = "up"

------------------------------------------------------------------------------
\* Where a thread parked in a coro_invoke() goes on.  A new stack is parked in
\* makestack and enters tramp(), whose k-th coro_invoke() is tramp<k>; the
\* creator's k-th is asked<k>.
After == [start |-> "got1", tramp1 |-> "got2", tramp2 |-> "got3", tramp3 |-> "got4",
          tramp |-> "user", asked1 |-> "ask2", asked2 |-> "ask3", asked3 |-> "ask4",
          asked4 |-> "ready", switched |-> "user", exit |-> "exit"]

\* The local that tramp() assigns the value it is resumed with.
Stores == [start |-> "master", tramp1 |-> "my_thr", tramp2 |-> "f", tramp3 |-> "f_arg"]

\* coro_invoke(me, to, val): me parks at place, `to' goes on with val.
CoroInvoke(me, to, val, place) ==
  LET parked == [pc EXCEPT ![me] = place]
      at == parked[to] IN
  /\ cpu' = to
  /\ pc' = [parked EXCEPT ![to] =
              IF at # "wait" THEN After[at] ELSE IF val = NULL THEN "user" ELSE "run"]
  /\ local' = IF at \in DOMAIN Stores THEN [local EXCEPT ![to][Stores[at]] = val] ELSE local
  /\ reaped' = IF at = "wait" /\ val # NULL THEN reaped \cup {val} ELSE reaped
  /\ process' = IF at = "exit" THEN "failure" ELSE "up"

RunBits(me, to) == [worker EXCEPT ![me].running = FALSE, ![to].running = TRUE]

InUser(t) == process = "up" /\ cpu = t /\ pc[t] = "user"
At(t, place) == process = "up" /\ cpu = t /\ pc[t] = place
Goto(t, place) == pc' = [pc EXCEPT ![t] = place] /\ UNCHANGED <<cpu, local, reaped, process>>

------------------------------------------------------------------------------
\* A slip in coro_spawn(): the colours wrap one line late.
NextOffsetLate(offset) == (offset + LineSize) % (LineSize * (NumOffsets + 1))

\* The next stack colour.  The code masks with LineSize * NumOffsets - 1,
\* which is this remainder as long as the product is a power of two.
NextOffset(offset) == (offset + LineSize) % (LineSize * NumOffsets)

\* Slips in insert_coro() and coro_spawn(): the old head is not linked back,
\* or the new worker's own back link is never set.
InsertOneWay(c, fields) ==
  [worker EXCEPT ![c] = [fields EXCEPT !.tracking_next = all_coros]]
InsertUninitialised(c, fields) ==
  [worker EXCEPT ![all_coros].tracking_prev = c,
                 ![c] = [fields EXCEPT !.tracking_next = all_coros, !.tracking_prev = Wild]]

\* insert_coro(c) of a worker with these fields: the new head of the list.
InsertCoro(c, fields) ==
  [worker EXCEPT ![all_coros].tracking_prev = c,
                 ![c] = [fields EXCEPT !.tracking_next = all_coros]]

\* coro_spawn(): a stack, distances from its base, and a place in the list.
CoroSpawn(c) ==
  /\ worker' = InsertCoro(c,
       [running |-> FALSE, suspended |-> FALSE, id |-> nextId,
        stack |-> STACK_SIZE + Reserve - current_stack_offset,
        tracking_prev |-> NULL, tracking_next |-> NULL])
  /\ current_stack_offset' = NextOffset(current_stack_offset)
  /\ all_coros' = c
  /\ total_coros' = total_coros + 1

\* createTask(): worker_spawn() up to its first coro_invoke().
Spawn(t, thr) ==
  /\ InUser(t)
  /\ t = Master \/ "create" \in Calls
  /\ pc[thr] = "none"
  /\ nextId' = nextId + 1
  /\ num_workers' = num_workers + 1
  /\ CoroSpawn(thr)
  /\ pc' = [pc EXCEPT ![t] = "ask1", ![thr] = "start"]
  /\ local' = [local EXCEPT ![t].thr = thr]
  /\ UNCHANGED <<readyQ, current_thread, cpu, reaped, process>>

\* A slip in worker_spawn(): the function and its argument in the wrong order.
ValuesSwapped(t) == LET thr == local[t].thr IN <<t, thr, worker[thr].id, Func>>
\* The four values of worker_spawn(); the argument is the task's number.
Values(t) == LET thr == local[t].thr IN <<t, thr, Func, worker[thr].id>>

AskPlace == <<"ask1", "ask2", "ask3", "ask4">>
AskedPlace == <<"asked1", "asked2", "asked3", "asked4">>
GotPlace == <<"got1", "got2", "got3", "got4">>
TrampPlace == <<"tramp1", "tramp2", "tramp3", "tramp">>

\* The k-th coro_invoke() of worker_spawn().
Ask(t, k) ==
  /\ At(t, AskPlace[k])
  /\ CoroInvoke(t, local[t].thr, Values(t)[k], AskedPlace[k])
  /\ worker' = RunBits(t, local[t].thr)
  /\ UNCHANGED <<readyQ, sched, coros>>

\* The k-th coro_invoke() of tramp(), back to the stack it came from.
Answer(t, k) ==
  /\ At(t, GotPlace[k])
  /\ CoroInvoke(t, local[t].master, NULL, TrampPlace[k])
  /\ worker' = RunBits(t, local[t].master)
  /\ UNCHANGED <<readyQ, sched, coros>>

\* The end of createTask(): ready().
Ready(t) ==
  /\ At(t, "ready")
  /\ RQ!Link(local[t].thr)
  /\ Goto(t, "user")
  /\ UNCHANGED <<sched, worker, coros>>

------------------------------------------------------------------------------
\* thread_yield() up to nextCoroutine().  It complains of the system worker
\* and queues it all the same.
Yield(t) ==
  /\ InUser(t) /\ (IF t = Master THEN "master_yield" ELSE "yield") \in Calls
  /\ RQ!Link(current_thread)
  /\ Goto(t, "yield")
  /\ UNCHANGED <<sched, worker, coros>>

\* thread_suspend() up to nextCoroutine()
Suspend(t) ==
  /\ InUser(t) /\ "suspend" \in Calls
  /\ worker' = [worker EXCEPT ![current_thread].running = FALSE,
                              ![current_thread].suspended = TRUE]
  /\ Goto(t, "suspend")
  /\ UNCHANGED <<readyQ, sched, coros>>

\* A slip in the callers of nextCoroutine(): current_thread is not moved on.
DispatchKeepsCurrent(place) ==
  /\ RQ!Dequeue
  /\ CoroInvoke(current_thread, ret', NULL, place)
  /\ worker' = RunBits(current_thread, ret')
  /\ UNCHANGED <<current_thread, nextId, num_workers, coros>>

\* nextCoroutine() with a ready worker, and the switch to it.
Dispatch(place) ==
  /\ RQ!Dequeue
  /\ current_thread' = ret'
  /\ CoroInvoke(current_thread, ret', NULL, place)
  /\ worker' = RunBits(current_thread, ret')
  /\ UNCHANGED <<nextId, num_workers, coros>>

NextCoroutine(t) ==
  /\ \E place \in {"yield", "suspend", "spin"} : At(t, place)
  /\ \/ Dispatch("switched")
     \/ /\ RQ!DequeueEmpty
        /\ Goto(t, "spin")
        /\ UNCHANGED <<sched, worker, coros>>

MayWake(n) == worker[n].suspended /\ pc[n] = "switched"

\* thread_wake(n)
Wake(t, n) ==
  /\ InUser(t) /\ (IF t = Master THEN "master_wake" ELSE "wake") \in Calls
  /\ MayWake(n)
  /\ worker' = [worker EXCEPT ![n].suspended = FALSE]
  /\ RQ!Link(n)
  /\ UNCHANGED <<sched, coros, machine>>

\* thread_yield_wake(n) and thread_suspend_wake(n): straight to n.
HandTo(t, n, suspends) ==
  /\ InUser(t) /\ MayWake(n)
  /\ worker' = [RunBits(t, n) EXCEPT ![n].suspended = FALSE, ![t].suspended = suspends]
  /\ current_thread' = n
  /\ CoroInvoke(current_thread, n, NULL, "switched")
  /\ UNCHANGED <<nextId, num_workers, coros>>
YieldWake(t, n) ==
  "yield_wake" \in Calls /\ RQ!Link(current_thread) /\ HandTo(t, n, FALSE)
\* A slip in thread_suspend_wake(): it queues the current thread as well.
SuspendWakeQueues(t, n) ==
  "suspend_wake" \in Calls /\ RQ!Link(current_thread) /\ HandTo(t, n, TRUE)
SuspendWake(t, n) ==
  "suspend_wake" \in Calls /\ UNCHANGED readyQ /\ HandTo(t, n, TRUE)

\* Slips in thread_exit() and thread_on_exit(): thread_wait() is handed nothing,
\* or the `next' field of the creator is written.
ExitHandsOverNull(t) ==
  /\ InUser(t)
  /\ next' = [next EXCEPT ![local[t].my_thr] = NULL]
  /\ num_workers' = num_workers - 1
  /\ current_thread' = Master
  /\ CoroInvoke(current_thread, Master, NULL, "exit")
  /\ worker' = RunBits(current_thread, Master)
  /\ UNCHANGED <<queues, eq_index, dq_index, len, ret, order, nextId, coros>>
ExitClearsCreator(t) ==
  /\ InUser(t)
  /\ next' = [next EXCEPT ![local[t].master] = NULL]
  /\ num_workers' = num_workers - 1
  /\ current_thread' = Master
  /\ CoroInvoke(current_thread, Master, current_thread, "exit")
  /\ worker' = RunBits(current_thread, Master)
  /\ UNCHANGED <<queues, eq_index, dq_index, len, ret, order, nextId, coros>>

\* The task's function returns: thread_exit(my_thr, NULL), thread_on_exit().
Exit(t) ==
  /\ InUser(t)
  /\ next' = [next EXCEPT ![local[t].my_thr] = NULL]
  /\ num_workers' = num_workers - 1
  /\ current_thread' = Master
  /\ CoroInvoke(current_thread, Master, current_thread, "exit")
  /\ worker' = RunBits(current_thread, Master)
  /\ UNCHANGED <<queues, eq_index, dq_index, len, ret, order, nextId, coros>>

\* run() and thread_wait()
Run ==
  /\ InUser(Master)
  /\ Goto(Master, "run")
  /\ UNCHANGED <<readyQ, sched, worker, coros>>
ThreadWait ==
  /\ At(Master, "run")
  /\ current_thread = Master
  /\ \/ Dispatch("wait")
     \/ /\ RQ!DequeueEmpty
        /\ Goto(Master, "user")
        /\ UNCHANGED <<sched, worker, coros>>

\* AccirrFinalize(): destroy_thread() of the system worker, which has no base
\* and so stays in the tracking list; the end of main().
Finalize ==
  /\ InUser(Master)
  /\ total_coros' = total_coros - 1
  /\ pc' = [pc EXCEPT ![Master] = "finished"]
  /\ process' = "success"
  /\ UNCHANGED <<readyQ, sched, worker, all_coros, current_stack_offset, cpu, local, reaped>>

Terminated == process # "up" /\ UNCHANGED vars

Next ==
  \/ \E t \in Thread, thr \in Worker : Spawn(t, thr)
  \/ \E t \in Thread, k \in 1 .. 4 : Ask(t, k)
  \/ \E t \in Worker, k \in 1 .. 4 : Answer(t, k)
  \/ \E t \in Thread : Ready(t)
  \/ \E t \in Thread : Yield(t)
  \/ \E t \in Worker : Suspend(t)
  \/ \E t \in Thread : NextCoroutine(t)
  \/ \E t \in Thread, n \in Worker : Wake(t, n)
  \/ \E t, n \in Worker : YieldWake(t, n)
  \/ \E t, n \in Worker : SuspendWake(t, n)
  \/ \E t \in Worker : Exit(t)
  \/ Run
  \/ ThreadWait
  \/ Finalize
  \/ Terminated

Spec == Init /\ [][Next]_vars

------------------------------------------------------------------------------
\* Every variable keeps its type.
TypeOK ==
  /\ RQ!TypeOK
  /\ current_thread \in Thread /\ cpu \in Thread
  /\ nextId \in Nat \ {0} /\ num_workers \in Int
  /\ worker \in [Thread -> WorkerFields]
  /\ all_coros \in Thread /\ total_coros \in Nat /\ current_stack_offset \in Nat
  /\ DOMAIN pc = Thread /\ DOMAIN local = Thread
  /\ reaped \subseteq Worker
  /\ process \in {"up", "success", "failure"}

\* coro_spawn() has made w; ids start at 1.
Created(w) == worker[w].id # 0

\* A task starts with its own arguments: once tramp() calls the function, its
\* locals are the values its creator handed over, whoever created it and
\* whatever ran in between.
StartsWithItsArguments ==
  \A w \in Worker : pc[w] \notin {"none", "start"} \cup {GotPlace[k] : k \in 1 .. 4}
                              \cup {TrampPlace[k] : k \in 1 .. 3} =>
    /\ local[w].my_thr = w
    /\ local[w].f = Func
    /\ local[w].f_arg = worker[w].id

\* Every task's first stack pointer lies in its allocation and leaves it at
\* least a line above the reserve that stack_remaining() keeps, whatever colour
\* it got.
StackInAllocation ==
  \A w \in Worker : Created(w) =>
    worker[w].stack \in Reserve + LineSize .. STACK_SIZE + Reserve

\* The lists of the queue are as PrefetchQueue has them, although tasks come
\* and go and thread_exit() writes a `next' field of its own.
QueueKeepsShape == RQ!DealtRoundRobin


\* run() returns with tasks still ready only if it is main() itself that
\* nextCoroutine() took from the queue, which then holds what main() has left
\* behind.
RunReturns == pc[Master] \in {"run", "wait"} /\ pc'[Master] = "user"

\* The threads the lists lead to.
Linked ==
  LET reach[k \in 0 .. Cardinality(Thread)] ==
        IF k = 0 THEN {queues[i].head : i \in RQ!Slot}
        ELSE reach[k - 1] \cup {next[t] : t \in reach[k - 1] \ {NULL}}
  IN reach[Cardinality(Thread)] \ {NULL}

\* Broken lists lose tasks, but a task they still lead to can run: it is parked
\* or at its own switch, and neither suspended, back in user code nor gone.  So
\* no task is resumed out of turn, and none that has exited.
LinkedTasksCanRun ==
  process = "up" => \A w \in Linked \cap Worker :
    pc[w] \in {"tramp", "switched", "yield", "spin"} /\ ~worker[w].suspended

\* Both assertions of check_invariants() hold whatever main() does: the class's
\* own check does not see a task that is lost.
AssertionsStillHold == RQ!Balanced /\ RQ!LengthsSumToLen

\* The tracking list runs from the newest coroutine down to the system worker,
\* the coroutines in the order they were made, and its links run both ways.
TrackingList ==
  LET coro == {Master} \cup {w \in Worker : Created(w)} IN
  /\ all_coros \in coro /\ worker[all_coros].id = nextId - 1
  /\ \A c, d \in coro :
       LET follows == worker[c].id = worker[d].id + 1 IN
       (worker[c].tracking_next = d) = follows /\ (worker[d].tracking_prev = c) = follows
  /\ process = "up" => total_coros = nextId

------------------------------------------------------------------------------
(***************************************************************************)
(* The refinement.  A call of TaskScheduler happens at its last step here, *)
(* so until then what the earlier steps did is taken back: a worker being  *)
(* spawned does not exist yet, and a yield or a suspension under way has   *)
(* changed nothing.                                                        *)
(***************************************************************************)
Spawning == pc[current_thread] \in {AskPlace[k] : k \in 1 .. 4} \cup {"ready"}
                                   \cup {AskedPlace[k] : k \in 1 .. 4}
NewThr == local[current_thread].thr
Unborn(t) == Spawning /\ t = NewThr
Yielding == pc[current_thread] = "yield"
Suspending == pc[current_thread] = "suspend"

MappedCpu == IF Spawning THEN current_thread ELSE cpu
MappedPc ==
  IF Spawning THEN [pc EXCEPT ![current_thread] = "user", ![NewThr] = "none"]
  ELSE IF Yielding \/ Suspending THEN [pc EXCEPT ![current_thread] = "user"]
  ELSE pc
MappedReadyQ == IF Yielding THEN SubSeq(order, 1, Len(order) - 1) ELSE order
MappedRunning == [t \in Thread |-> IF Spawning \/ Suspending THEN t = current_thread
                                                              ELSE worker[t].running]
MappedSuspended == [t \in Thread |-> worker[t].suspended /\ ~(Suspending /\ t = current_thread)]
MappedId == [t \in Thread |-> IF Unborn(t) THEN 0 ELSE worker[t].id]

Abstract == INSTANCE TaskScheduler WITH
  cpu <- MappedCpu,
  pc <- MappedPc,
  readyQ <- MappedReadyQ,
  running <- MappedRunning,
  suspended <- MappedSuspended,
  id <- MappedId,
  nextId <- IF Spawning THEN nextId - 1 ELSE nextId,
  num_workers <- IF Spawning THEN num_workers - 1 ELSE num_workers,
  in_no_switch_region_ <- FALSE

\* The runtime as built implements the scheduler of TaskScheduler.
ImplementsScheduler == Abstract!Spec

------------------------------------------------------------------------------
\* "can't yield on a system Worker" (thread_yield): the system worker is
\* never in the ready queue.
SystemWorkerNotQueued == Master \notin RQ!Queued
==============================================================================
