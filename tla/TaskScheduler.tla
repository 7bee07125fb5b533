---------------------------- MODULE TaskScheduler ----------------------------
(***************************************************************************)
(* The scheduler of system/TaskScheduler.{h,cpp} with the switch of        *)
(* system/Worker.h under it and the calls of system/Accirr.cpp above it.   *)
(* One operating-system thread runs main(), which is the system worker     *)
(* (master), and every task; control moves only inside the scheduler's     *)
(* calls, so each call is one action, from its entry to the switch that    *)
(* ends it.  What user code does between two calls is left open: a task    *)
(* may make any call in Calls, any number of times, and return when it     *)
(* likes.                                                                  *)
(*                                                                         *)
(* readyQ is the first-in first-out queue PrefetchQueue implements, as     *)
(* long as no thread is queued that is queued already.  The calls here     *)
(* keep to that.  One the code lets pass does not: thread_yield() of       *)
(* main(), which "can't yield on a system Worker" and is queued all the    *)
(* same, perhaps again.  What that does to the lists shows only on the     *)
(* lists, so Runtime models it.                                            *)
(*                                                                         *)
(* A worker is only woken while it is suspended: no call checks this, it   *)
(* is the contract of wake, yield_wake and suspend_wake.                   *)
(***************************************************************************)
EXTENDS Integers, Sequences, FiniteSets

CONSTANTS Worker,    \* the tasks that can be created
          Master,    \* the system worker: main() itself
          NULL,      \* the null pointer
          Calls      \* which calls user code makes

AllCalls == {"create", "yield", "suspend", "wake", "yield_wake", "suspend_wake",
             "set_no_switch_region", "master_wake"}

ASSUME ThreadAssumption == Master \notin Worker /\ NULL \notin Worker \cup {Master}
ASSUME CallsAssumption == Calls \subseteq AllCalls

Thread == Worker \cup {Master}

VARIABLES
  current_thread,        \* who the scheduler believes is running
  cpu,                   \* whose stack the processor is really on
  pc,                    \* where each thread is, see Place
  readyQ,                \* threads waiting for the processor, oldest first
  running, suspended,    \* the bits of each worker's run state
  id, nextId,            \* the id of each worker and the next to assign
  num_workers,           \* the scheduler's count of workers
  in_no_switch_region_,  \* the flag of the same name
  reaped,                \* history: the workers thread_wait() has answered
  process                \* "up", or how the process ended

vars == <<current_thread, cpu, pc, readyQ, running, suspended, id, nextId,
          num_workers, in_no_switch_region_, reaped, process>>

(***************************************************************************)
(* Where a thread is: not created; parked at the end of its tramp() start- *)
(* up; in user code; parked in a switch that returns to user code; in the  *)
(* blocking loop of nextCoroutine() with nothing to take; in run() about   *)
(* to call thread_wait(); parked in thread_wait(); parked for good in      *)
(* thread_exit(); past the end of main().                                  *)
(***************************************************************************)
Place == {"none", "tramp", "user", "switched", "spin", "run", "wait", "exit",
          "finished"}

\* AccirrInit(): main's thread becomes the system worker of a new scheduler.
Init ==
  /\ current_thread = Master
  /\ cpu = Master
  /\ pc = [t \in Thread |-> IF t = Master THEN "user" ELSE "none"]
  /\ readyQ = << >>
  /\ running = [t \in Thread |-> t = Master]
  /\ suspended = [t \in Thread |-> FALSE]
  /\ id = [t \in Thread |-> 0]
  /\ nextId = 1
  /\ num_workers = 0
  /\ in_no_switch_region_ = FALSE
  /\ reaped = {}
  /\ process = "up"

------------------------------------------------------------------------------
\* User code of t has the processor.
InUser(t) == process = "up" /\ cpu = t /\ pc[t] = "user"

\* User code of t makes a call of kind c.
UserCalls(t, c) == InUser(t) /\ c \in Calls
(***************************************************************************)
(* Where a parked thread is once it is switched to with the value val:     *)
(* run() calls thread_wait() again unless that answers NULL; every other   *)
(* switch ignores the value.  thread_exit() calls exit() if it ever        *)
(* continues.                                                              *)
(***************************************************************************)
Continue(place, val) ==
  IF place = "wait" /\ val # NULL THEN "run" ELSE "user"

\* A slip in the callers of thread_context_switch(): current_thread keeps the
\* thread that is switched away from.
SwitchToKeepsCurrent(to, val, place) ==
  LET parked == [pc EXCEPT ![current_thread] = place] IN
  /\ UNCHANGED current_thread
  /\ cpu' = to
  /\ running' = [running EXCEPT ![current_thread] = FALSE, ![to] = TRUE]
  /\ pc' = [parked EXCEPT ![to] = Continue(parked[to], val)]
  /\ reaped' = IF parked[to] = "wait" /\ val # NULL THEN reaped \cup {val}
                                                    ELSE reaped
  /\ process' = IF parked[to] = "exit" THEN "failure" ELSE "up"

\* thread_context_switch(current_thread, to, val), with the current thread
\* parked at `place', and the assignment to current_thread before it.
SwitchTo(to, val, place) ==
  LET parked == [pc EXCEPT ![current_thread] = place] IN
  /\ current_thread' = to
  /\ cpu' = to
  /\ running' = [running EXCEPT ![current_thread] = FALSE, ![to] = TRUE]
  /\ pc' = [parked EXCEPT ![to] = Continue(parked[to], val)]
  /\ reaped' = IF parked[to] = "wait" /\ val # NULL THEN reaped \cup {val}
                                                    ELSE reaped
  /\ process' = IF parked[to] = "exit" THEN "failure" ELSE "up"

\* nextCoroutine() in the no-switch region: the process exits.
RegionExit(queue) ==
  /\ in_no_switch_region_
  /\ process' = "failure"
  /\ readyQ' = queue
  /\ UNCHANGED <<current_thread, cpu, pc, reaped>>

\* nextCoroutine() takes the oldest thread of queue and control goes to it.
Dispatch(queue, place) ==
  /\ ~in_no_switch_region_
  /\ queue # << >>
  /\ readyQ' = Tail(queue)
  /\ SwitchTo(Head(queue), NULL, place)

------------------------------------------------------------------------------
\* A slip in assignTid(): the id is not counted up.
CreateTaskSameId(t, w) ==
  /\ InUser(t)
  /\ t = Master \/ "create" \in Calls
  /\ pc[w] = "none"
  /\ pc' = [pc EXCEPT ![w] = "tramp"]
  /\ running' = [running EXCEPT ![w] = FALSE, ![current_thread] = TRUE]
  /\ suspended' = [suspended EXCEPT ![w] = FALSE]
  /\ id' = [id EXCEPT ![w] = nextId]
  /\ num_workers' = num_workers + 1
  /\ readyQ' = Append(readyQ, w)
  /\ UNCHANGED <<nextId, current_thread, cpu, in_no_switch_region_, reaped, process>>

\* createTask(): worker_spawn() of a new worker by thread t, then ready().
\* The hand-shake of worker_spawn() leaves the new worker parked in tramp()
\* and the processor with t.
CreateTask(t, w) ==
  /\ InUser(t)
  /\ t = Master \/ "create" \in Calls
  /\ pc[w] = "none"
  /\ pc' = [pc EXCEPT ![w] = "tramp"]
  /\ running' = [running EXCEPT ![w] = FALSE, ![current_thread] = TRUE]
  /\ suspended' = [suspended EXCEPT ![w] = FALSE]
  /\ id' = [id EXCEPT ![w] = nextId]
  /\ nextId' = nextId + 1
  /\ num_workers' = num_workers + 1
  /\ readyQ' = Append(readyQ, w)
  /\ UNCHANGED <<current_thread, cpu, in_no_switch_region_, reaped, process>>

\* A slip in ready(): a thread that yields is queued behind the next one only.
YieldBehindNext(t) ==
  LET queue == IF readyQ = << >> THEN <<current_thread>>
               ELSE <<Head(readyQ), current_thread>> \o Tail(readyQ) IN
  /\ UserCalls(t, "yield")
  /\ \/ RegionExit(queue) /\ UNCHANGED running
     \/ Dispatch(queue, "switched")
  /\ UNCHANGED <<suspended, id, nextId, num_workers, in_no_switch_region_>>

\* thread_yield() of a task: queue the current thread, then switch to the
\* oldest one.
Yield(t) ==
  LET queue == Append(readyQ, current_thread) IN
  /\ UserCalls(t, "yield")
  /\ \/ RegionExit(queue) /\ UNCHANGED running
     \/ Dispatch(queue, "switched")
  /\ UNCHANGED <<suspended, id, nextId, num_workers, in_no_switch_region_>>

\* thread_suspend() with nobody ready: nextCoroutine() loops on an empty queue.
SuspendBlocks ==
  /\ ~in_no_switch_region_
  /\ readyQ = << >>
  /\ running' = [running EXCEPT ![current_thread] = FALSE]
  /\ pc' = [pc EXCEPT ![current_thread] = "spin"]
  /\ UNCHANGED <<current_thread, cpu, readyQ, reaped, process>>

\* thread_suspend(): switch to the oldest ready thread without queueing.
Suspend(t) ==
  /\ UserCalls(t, "suspend")
  /\ suspended' = [suspended EXCEPT ![current_thread] = TRUE]
  /\ \/ /\ RegionExit(readyQ)
        /\ running' = [running EXCEPT ![current_thread] = FALSE]
     \/ Dispatch(readyQ, "switched")
     \/ SuspendBlocks
  /\ UNCHANGED <<id, nextId, num_workers, in_no_switch_region_>>

\* One turn of the loop of nextCoroutine() that finds the queue still empty.
Spin ==
  /\ process = "up"
  /\ pc[cpu] = "spin"
  /\ readyQ = << >>
  /\ UNCHANGED vars

\* The contract of the wake calls: the target is suspended and parked.
MayWake(n) == suspended[n] /\ pc[n] = "switched"

\* Slips in thread_wake(): the worker stays suspended, or is not queued.
WakeStaysSuspended(t, n) ==
  /\ UserCalls(t, IF t = Master THEN "master_wake" ELSE "wake")
  /\ MayWake(n)
  /\ readyQ' = Append(readyQ, n)
  /\ UNCHANGED <<suspended, current_thread, cpu, pc, running, id, nextId,
                 num_workers, in_no_switch_region_, reaped, process>>
WakeNotQueued(t, n) ==
  /\ UserCalls(t, IF t = Master THEN "master_wake" ELSE "wake")
  /\ MayWake(n)
  /\ suspended' = [suspended EXCEPT ![n] = FALSE]
  /\ UNCHANGED <<readyQ, current_thread, cpu, pc, running, id, nextId,
                 num_workers, in_no_switch_region_, reaped, process>>

\* thread_wake(n)
Wake(t, n) ==
  /\ UserCalls(t, IF t = Master THEN "master_wake" ELSE "wake")
  /\ MayWake(n)
  /\ suspended' = [suspended EXCEPT ![n] = FALSE]
  /\ readyQ' = Append(readyQ, n)
  /\ UNCHANGED <<current_thread, cpu, pc, running, id, nextId, num_workers,
                 in_no_switch_region_, reaped, process>>

\* thread_yield_wake(n): queue the current thread, switch straight to n.
YieldWake(t, n) ==
  /\ UserCalls(t, "yield_wake")
  /\ MayWake(n)
  /\ suspended' = [suspended EXCEPT ![n] = FALSE]
  /\ readyQ' = Append(readyQ, current_thread)
  /\ SwitchTo(n, NULL, "switched")
  /\ UNCHANGED <<id, nextId, num_workers, in_no_switch_region_>>

\* thread_suspend_wake(n): suspend the current thread, switch straight to n.
SuspendWake(t, n) ==
  /\ UserCalls(t, "suspend_wake")
  /\ MayWake(n)
  /\ suspended' = [suspended EXCEPT ![n] = FALSE, ![current_thread] = TRUE]
  /\ SwitchTo(n, NULL, "switched")
  /\ UNCHANGED <<readyQ, id, nextId, num_workers, in_no_switch_region_>>

\* Slips in thread_exit() and thread_on_exit(): the exit is not counted, or
\* thread_wait() is handed nothing, or the system worker instead of the task.
ExitNotCounted(t) ==
  /\ InUser(t)
  /\ SwitchTo(Master, current_thread, "exit")
  /\ UNCHANGED <<num_workers, readyQ, suspended, id, nextId, in_no_switch_region_>>
ExitHandsOver(t, val) ==
  /\ InUser(t)
  /\ num_workers' = num_workers - 1
  /\ SwitchTo(Master, val, "exit")
  /\ UNCHANGED <<readyQ, suspended, id, nextId, in_no_switch_region_>>
ExitHandsOverNull(t) == ExitHandsOver(t, NULL)
ExitHandsOverMaster(t) == ExitHandsOver(t, Master)

\* The task's function returns: tramp() calls thread_exit(), which switches
\* to the system worker and hands it the worker that exited.
Exit(t) ==
  /\ InUser(t)
  /\ num_workers' = num_workers - 1
  /\ SwitchTo(Master, current_thread, "exit")
  /\ UNCHANGED <<readyQ, suspended, id, nextId, in_no_switch_region_>>

\* set_no_switch_region(val), by any thread.
SetNoSwitchRegion(t, val) ==
  /\ UserCalls(t, "set_no_switch_region")
  /\ in_no_switch_region_' = val
  /\ UNCHANGED <<current_thread, cpu, pc, readyQ, running, suspended, id,
                 nextId, num_workers, reaped, process>>

\* AccirrRun(): main() enters run().
Run ==
  /\ InUser(Master)
  /\ pc' = [pc EXCEPT ![Master] = "run"]
  /\ UNCHANGED <<current_thread, cpu, readyQ, running, suspended, id, nextId,
                 num_workers, in_no_switch_region_, reaped, process>>

\* A slip in thread_wait(): it waits even with nobody ready.
ThreadWaitForEver ==
  /\ process = "up"
  /\ cpu = Master
  /\ pc[Master] = "run"
  /\ Dispatch(readyQ, "wait")
  /\ UNCHANGED <<suspended, id, nextId, num_workers, in_no_switch_region_>>

\* thread_wait() with a ready thread: switch to it until a worker exits.
\* With none it answers NULL and run() returns.  It insists on being called
\* by the system worker.
ThreadWait ==
  /\ process = "up"
  /\ cpu = Master
  /\ pc[Master] = "run"
  /\ \/ /\ current_thread # Master \/ in_no_switch_region_
        /\ process' = "failure"
        /\ UNCHANGED <<current_thread, cpu, pc, readyQ, running, reaped>>
     \/ /\ current_thread = Master
        /\ Dispatch(readyQ, "wait")
     \/ /\ current_thread = Master
        /\ ~in_no_switch_region_
        /\ readyQ = << >>
        /\ pc' = [pc EXCEPT ![Master] = "user"]
        /\ UNCHANGED <<current_thread, cpu, readyQ, running, reaped, process>>
  /\ UNCHANGED <<suspended, id, nextId, num_workers, in_no_switch_region_>>

\* AccirrFinalize() and the end of main().
Finalize ==
  /\ InUser(Master)
  /\ pc' = [pc EXCEPT ![Master] = "finished"]
  /\ process' = "success"
  /\ UNCHANGED <<current_thread, cpu, readyQ, running, suspended, id, nextId,
                 num_workers, in_no_switch_region_, reaped>>

\* The process is gone.
Terminated == process # "up" /\ UNCHANGED vars

Next ==
  \/ \E t \in Thread, w \in Worker : CreateTask(t, w)
  \/ \E t \in Worker : Yield(t)
  \/ \E t \in Worker : Suspend(t)
  \/ Spin
  \/ \E t \in Thread, n \in Worker : Wake(t, n)
  \/ \E t, n \in Worker : YieldWake(t, n)
  \/ \E t, n \in Worker : SuspendWake(t, n)
  \/ \E t \in Worker : Exit(t)
  \/ \E t \in Thread, val \in BOOLEAN : SetNoSwitchRegion(t, val)
  \/ Run
  \/ ThreadWait
  \/ Finalize
  \/ Terminated

Spec == Init /\ [][Next]_vars

\* The processor keeps executing the one operating-system thread, and a task
\* that has it comes to its next call or returns.
FairSpec == Spec /\ WF_vars(Next)

------------------------------------------------------------------------------
\* Every variable keeps its type.
TypeOK ==
  /\ current_thread \in Thread
  /\ cpu \in Thread
  /\ pc \in [Thread -> Place]
  /\ readyQ \in Seq(Thread)
  /\ running \in [Thread -> BOOLEAN]
  /\ suspended \in [Thread -> BOOLEAN]
  /\ id \in [Thread -> Nat]
  /\ nextId \in Nat
  /\ num_workers \in Int
  /\ in_no_switch_region_ \in BOOLEAN
  /\ reaped \subseteq Worker
  /\ process \in {"up", "success", "failure"}

Members(queue) == {queue[k] : k \in 1 .. Len(queue)}
Queued == Members(readyQ)
Created(w) == pc[w] # "none"
Live(w) == pc[w] \notin {"none", "exit"}

\* The scheduler's current_thread is the thread whose stack the processor is
\* on, that thread alone is marked running, and it is one that can run: the
\* assignments to current_thread and the switches never drift apart.
CurrentIsOnCpu ==
  process = "up" =>
    /\ current_thread = cpu
    /\ pc[cpu] \in {"user", "spin", "run"}
    /\ \A t \in Thread : running[t] <=> t = cpu /\ pc[t] # "spin"

\* No thread is in a queue twice.
OnceEach(queue) == \A k, l \in 1 .. Len(queue) : queue[k] = queue[l] => k = l

\* Where task w is, by its run state, by the ready queue and by its stack.
PlaceOf(w) ==
  /\ w \in Queued <=> pc[w] = "tramp" \/ (pc[w] = "switched" /\ ~suspended[w])
  /\ w = cpu <=> pc[w] \in {"user", "spin"}
  /\ suspended[w] => pc[w] \in {"switched", "spin"}
  /\ pc[w] \notin {"run", "wait", "finished"}

\* Every task is in one place: on the processor, in the ready queue once,
\* suspended and in nobody's hands, or gone.  No call loses a task, queues it
\* twice, or queues one that is suspended, running or gone.
OnePlaceEach ==
  process = "up" =>
    OnceEach(readyQ) /\ \A w \in Worker : PlaceOf(w)

\* getWorkerNum() is the number of tasks created and not yet exited.
WorkerCount == num_workers = Cardinality({w \in Worker : Live(w)})

\* thread_wait() has answered every task that has exited and no other: no
\* exit is reported to anyone else, or lost.
ExitsReported == process = "up" => reaped = {w \in Worker : pc[w] = "exit"}

\* Ids identify the tasks: no two are given the same, and none that of the
\* system worker, 0.
IdsIdentify ==
  \A v, w \in Worker : Created(v) /\ Created(w) /\ id[v] \in {0, id[w]} => v = w /\ id[v] # 0

\* A task that blocks in nextCoroutine() blocks because nothing can run: all
\* other live tasks are suspended.  It never spins past a task that is ready.
SpinsOnlyWhenAllSuspended ==
  \A t \in Worker : pc[t] = "spin" =>
    \A w \in Worker : Live(w) => suspended[w]

\* run() returns to main() only when no task can run any more: each has
\* exited, or is suspended and nobody is left to wake it but main().
RunReturns == pc[Master] \in {"run", "wait"} /\ pc'[Master] = "user"
RunDrainsReadyQ ==
  [][RunReturns => readyQ' = << >> /\ \A w \in Worker : Live(w)' => suspended'[w]]_vars

\* A ready task is not starved: once main() waits in run(), each gets the
\* processor, however long the other tasks go on yielding, suspending and
\* waking.  The one way past the queue is suspend_wake(): tasks that hand the
\* processor to one another for ever starve everybody else.
HandOffsEnd == <>[][~ \E t, n \in Worker : SuspendWake(t, n)]_vars
ReadyTasksRun ==
  HandOffsEnd => \A w \in Worker : (w \in Queued /\ pc[Master] = "wait") ~> cpu = w

\* AccirrRun() comes back to main() when no task that keeps getting the
\* processor goes on for ever and only so many tasks are created (the set
\* Worker is finite: tasks that create tasks without end keep run() going),
\* with one exception: a task that suspends when it is the last that could run
\* loops in nextCoroutine() without end.
TasksReturn == \A w \in Worker : SF_vars(Exit(w))
AllAsleep == \E w \in Worker : pc[w] = "spin" /\ \A v \in Worker : Live(v) => suspended[v]
RunTerminates ==
  TasksReturn => (pc[Master] = "run" ~> pc[Master] = "user" \/ AllAsleep)

------------------------------------------------------------------------------
\* "Trying to context switch in no-switch region" (nextCoroutine): inside the
\* region the processor stays with its thread, unless that thread exits.
NoSwitchInRegion ==
  [][in_no_switch_region_ /\ pc'[cpu] # "exit" => cpu' = cpu]_vars
==============================================================================
