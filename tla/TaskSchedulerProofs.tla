------------------------- MODULE TaskSchedulerProofs -------------------------
(***************************************************************************)
(* For every set of tasks and every choice of calls: the scheduler's       *)
(* variables keep their types, its current_thread is the thread on the     *)
(* processor, and every task is in one place; and from the inductive       *)
(* invariant of these three, what the runs check of ids, counts, exits,    *)
(* the loop of nextCoroutine() and the no-switch region.                   *)
(***************************************************************************)
EXTENDS TaskScheduler, FiniteSetTheorems, TLAPS

------------------------------------------------------------------------------
\* The ready queue as a set of threads.

LEMMA AppendMembers ==
  ASSUME NEW queue \in Seq(Thread), NEW t \in Thread
  PROVE  /\ Append(queue, t) \in Seq(Thread)
         /\ Append(queue, t) # << >>
         /\ Members(Append(queue, t)) = Members(queue) \cup {t}
         /\ OnceEach(queue) /\ t \notin Members(queue)
              => OnceEach(Append(queue, t))
<1> DEFINE after == Append(queue, t)
<1>1. /\ after \in Seq(Thread) /\ Len(after) = Len(queue) + 1 /\ Len(queue) \in Nat
      /\ after[Len(queue) + 1] = t
      /\ \A k \in 1 .. Len(queue) : after[k] = queue[k]
  OBVIOUS
<1>2. \A k \in 1 .. Len(after) : k = Len(queue) + 1 \/ k \in 1 .. Len(queue)
  BY <1>1
<1>3. Len(queue) + 1 \in 1 .. Len(after) /\ \A k \in 1 .. Len(queue) : k \in 1 .. Len(after)
  BY <1>1
<1> HIDE DEF after
<1>4. Members(after) = Members(queue) \cup {t}
  BY <1>1, <1>2, <1>3 DEF Members
<1>5. OnceEach(queue) /\ t \notin Members(queue) => OnceEach(after)
  BY <1>1, <1>2 DEF OnceEach, Members
<1>6. after # << >>
  BY <1>1
<1> QED
  BY <1>1, <1>4, <1>5, <1>6 DEF after

LEMMA TailMembers ==
  ASSUME NEW queue \in Seq(Thread), queue # << >>
  PROVE  /\ Head(queue) \in Thread
         /\ Head(queue) \in Members(queue)
         /\ Tail(queue) \in Seq(Thread)
         /\ OnceEach(queue) =>
              /\ OnceEach(Tail(queue))
              /\ \A w \in Worker :
                   w \in Members(Tail(queue)) <=> w \in Members(queue) /\ w # Head(queue)
<1> DEFINE rest == Tail(queue)
<1>1. /\ Len(queue) \in Nat /\ Len(queue) >= 1
      /\ Head(queue) = queue[1] /\ queue[1] \in Thread
      /\ rest \in Seq(Thread) /\ Len(rest) = Len(queue) - 1
      /\ \A k \in 1 .. Len(queue) - 1 : rest[k] = queue[k + 1]
  OBVIOUS
<1> HIDE DEF rest
<1>2. \A k \in 1 .. Len(queue) : k = 1 \/ (k - 1 \in 1 .. Len(rest) /\ queue[k] = rest[k - 1])
  <2>1. ASSUME NEW k \in 1 .. Len(queue), k # 1
        PROVE  k - 1 \in 1 .. Len(rest) /\ (k - 1) + 1 = k
    BY <1>1, <2>1
  <2> QED
    BY <1>1, <2>1
<1>3. \A k \in 1 .. Len(rest) : k + 1 \in 1 .. Len(queue) /\ rest[k] = queue[k + 1] /\ k + 1 # 1
  BY <1>1
<1>4. ASSUME OnceEach(queue)
      PROVE  OnceEach(rest)
  <2> SUFFICES ASSUME NEW k \in 1 .. Len(rest), NEW l \in 1 .. Len(rest),
                      rest[k] = rest[l]
               PROVE  k = l
    BY DEF OnceEach
  <2>1. k + 1 = l + 1
    BY <1>3, <1>4 DEF OnceEach
  <2> QED
    BY <1>1, <2>1
<1>5. ASSUME OnceEach(queue), NEW w \in Worker
      PROVE  w \in Members(rest) <=> w \in Members(queue) /\ w # queue[1]
  <2>1. ASSUME w \in Members(rest)
        PROVE  w \in Members(queue) /\ w # queue[1]
    <3>1. PICK k \in 1 .. Len(rest) : w = rest[k]
      BY <2>1 DEF Members
    <3>2. w = queue[k + 1] /\ k + 1 \in 1 .. Len(queue) /\ k + 1 # 1 /\ 1 \in 1 .. Len(queue)
      BY <1>1, <1>3, <3>1
    <3> QED
      BY <1>5, <3>2 DEF Members, OnceEach
  <2>2. ASSUME w \in Members(queue), w # queue[1]
        PROVE  w \in Members(rest)
    BY <1>2, <2>2 DEF Members
  <2> QED
    BY <2>1, <2>2
<1>6. Head(queue) \in Members(queue)
  BY <1>1 DEF Members
<1> QED
  BY <1>1, <1>4, <1>5, <1>6 DEF rest

------------------------------------------------------------------------------
(***************************************************************************)
(* The inductive invariant adds to the two safety invariants where main()  *)
(* is: it has the processor in its own code and in run(), and otherwise is *)
(* parked in a switch.  That this is always the one of thread_wait() is    *)
(* MasterNotQueued, further down, which needs this invariant.              *)
(***************************************************************************)
MasterPlace ==
  process = "up" =>
    /\ pc[Master] \in {"user", "run", "wait", "switched"}
    /\ Master = cpu <=> pc[Master] \in {"user", "run"}

IInv == TypeOK /\ CurrentIsOnCpu /\ OnePlaceEach /\ MasterPlace

LEMMA InitInv == Init => IInv
<1> SUFFICES ASSUME Init
             PROVE  IInv
  OBVIOUS
<1> USE ThreadAssumption DEF Init
<1>1. TypeOK
  <2>1. running \in [Thread -> BOOLEAN] /\ suspended \in [Thread -> BOOLEAN]
    BY Zenon
  <2>2. pc \in [Thread -> Place] /\ Master \in Thread
    BY DEF Place, Thread
  <2>3. readyQ \in Seq(Thread) /\ reaped \subseteq Worker
    OBVIOUS
  <2>4. /\ current_thread \in Thread /\ cpu \in Thread
        /\ in_no_switch_region_ \in BOOLEAN /\ process \in {"up", "success", "failure"}
    BY <2>2
  <2>5. id \in [Thread -> Nat] /\ nextId \in Nat /\ num_workers \in Int
    <3>1. 0 \in Nat /\ 1 \in Nat /\ 0 \in Int
      OBVIOUS
    <3> QED
      BY <3>1, Zenon
  <2> HIDE DEF Init
  <2> QED
    BY <2>1, <2>2, <2>3, <2>4, <2>5 DEF TypeOK
<1>2. CurrentIsOnCpu /\ MasterPlace
  BY DEF CurrentIsOnCpu, MasterPlace, Thread
<1>3. OnePlaceEach
  BY DEF OnePlaceEach, OnceEach, PlaceOf, Queued, Members, Thread
<1> QED
  BY <1>1, <1>2, <1>3 DEF IInv

\* The ready queue holds only threads that a switch can continue.
LEMMA QueuedParked ==
  ASSUME IInv, process = "up", NEW t \in Queued, t # cpu
  PROVE  t \in Thread /\ pc[t] \in {"tramp", "switched", "wait"}
<1>1. t \in Thread
  BY DEF IInv, TypeOK, Queued, Members
<1>2. CASE t \in Worker
  BY <1>1, <1>2 DEF IInv, OnePlaceEach, PlaceOf
<1>3. CASE t = Master
  BY <1>1, <1>3 DEF IInv, MasterPlace
<1> QED
  BY <1>1, <1>2, <1>3 DEF Thread

\* What a switch does: the thread switched to is the current one and on the
\* processor, the other one is parked, and nobody else moves.
LEMMA SwitchFacts ==
  ASSUME IInv, process = "up",
         NEW to \in Thread, NEW val \in Worker \cup {NULL}, NEW place \in {"switched", "wait", "exit"},
         place = "wait" => cpu = Master,
         to = cpu => place \in {"switched", "wait"} /\ val = NULL,
         to # cpu => pc[to] \in {"tramp", "switched", "wait"},
         SwitchTo(to, val, place)
  PROVE  /\ process' = "up" /\ current_thread' = to /\ cpu' = to
         /\ pc' \in [Thread -> Place]
         /\ \A t \in Thread \ {to, cpu} : pc'[t] = pc[t]
         /\ cpu # to => pc'[cpu] = place
         /\ pc'[to] \in {"user", "run"}
         /\ to # Master => pc'[to] = "user"
         /\ running' \in [Thread -> BOOLEAN]
         /\ \A t \in Thread : running'[t] <=> t = to
         /\ reaped' \subseteq Worker
<1> DEFINE parked == [pc EXCEPT ![cpu] = place]
<1> USE ThreadAssumption
<1>1. /\ cpu \in Thread /\ current_thread = cpu
      /\ pc \in [Thread -> Place] /\ running \in [Thread -> BOOLEAN]
      /\ reaped \subseteq Worker
      /\ \A t \in Thread \ {cpu} : ~running[t]
  BY DEF IInv, TypeOK, CurrentIsOnCpu
<1>2. /\ pc' = [parked EXCEPT ![to] = Continue(parked[to], val)]
      /\ running' = [running EXCEPT ![cpu] = FALSE, ![to] = TRUE]
      /\ current_thread' = to /\ cpu' = to
      /\ reaped' = IF parked[to] = "wait" /\ val # NULL THEN reaped \cup {val} ELSE reaped
      /\ process' = IF parked[to] = "exit" THEN "failure" ELSE "up"
  BY <1>1 DEF SwitchTo
<1>3. parked \in [Thread -> Place] /\ parked[cpu] = place
      /\ \A t \in Thread \ {cpu} : parked[t] = pc[t]
  BY <1>1 DEF Place
<1>4. parked[to] \in {"tramp", "switched", "wait"}
  BY <1>3
<1>5. Continue(parked[to], val) \in {"user", "run"} /\ Continue(parked[to], val) \in Place
  BY DEF Continue, Place
<1>6. to # Master => Continue(parked[to], val) = "user"
  <2> SUFFICES ASSUME to \in Worker
               PROVE  parked[to] # "wait"
    BY DEF Continue, Thread
  <2>1. to # cpu => pc[to] # "wait"
    BY DEF IInv, OnePlaceEach, PlaceOf
  <2>2. to = cpu => place # "wait"
    OBVIOUS
  <2> QED
    BY <1>3, <2>1, <2>2
<1> HIDE DEF parked
<1>7. /\ pc' \in [Thread -> Place]
      /\ pc'[to] = Continue(parked[to], val)
      /\ \A t \in Thread \ {to} : pc'[t] = parked[t]
  BY <1>2, <1>3, <1>5
<1>8. running' \in [Thread -> BOOLEAN] /\ \A t \in Thread : running'[t] <=> t = to
  BY <1>1, <1>2
<1>9. reaped' \subseteq Worker
  BY <1>1, <1>2
<1> QED
  BY <1>1, <1>2, <1>3, <1>4, <1>5, <1>6, <1>7, <1>8, <1>9

\* The part of the invariant a switch re-establishes by itself.
LEMMA SwitchInv ==
  ASSUME IInv, process = "up",
         NEW to \in Thread, NEW val \in Worker \cup {NULL}, NEW place \in {"switched", "wait", "exit"},
         place = "wait" => cpu = Master,
         place = "exit" => cpu # Master,
         to = cpu => place \in {"switched", "wait"} /\ val = NULL,
         to # cpu => pc[to] \in {"tramp", "switched", "wait"},
         SwitchTo(to, val, place)
  PROVE  CurrentIsOnCpu' /\ MasterPlace'
<1>1. CurrentIsOnCpu'
  BY SwitchFacts DEF CurrentIsOnCpu
<1>2. MasterPlace'
  <2>1. Master \in Thread
    BY DEF Thread
  <2>2. CASE to = Master
    BY <2>2, SwitchFacts DEF MasterPlace
  <2>3. CASE to # Master /\ cpu = Master
    BY <2>1, <2>3, SwitchFacts DEF MasterPlace
  <2>4. CASE to # Master /\ cpu # Master
    BY <2>1, <2>4, SwitchFacts DEF MasterPlace, IInv
  <2> QED
    BY <2>2, <2>3, <2>4
<1> QED
  BY <1>1, <1>2

------------------------------------------------------------------------------
\* A thread in user code is the current one and on the processor.
LEMMA InUserFacts ==
  ASSUME IInv, NEW t \in Thread, InUser(t)
  PROVE  process = "up" /\ cpu = t /\ current_thread = t /\ pc[t] = "user"
BY DEF IInv, CurrentIsOnCpu, InUser

\* Only the place of a task that moved needs looking at.
LEMMA UntouchedPlace ==
  ASSUME NEW w \in Worker, PlaceOf(w),
         w \in Queued' <=> w \in Queued,
         w = cpu' <=> w = cpu, pc'[w] = pc[w], suspended'[w] = suspended[w]
  PROVE  PlaceOf(w)'
BY DEF PlaceOf

LEMMA CreateInv ==
  ASSUME IInv, NEW t \in Thread, NEW w \in Worker, CreateTask(t, w)
  PROVE  IInv'
<1> USE ThreadAssumption
<1>1. InUser(t)
  BY DEF CreateTask
<1>2. process = "up" /\ cpu = t /\ current_thread = t /\ pc[t] = "user" /\ w # t /\ pc[w] = "none"
  BY <1>1, InUserFacts DEF CreateTask
<1>3. /\ TypeOK /\ OnceEach(readyQ) /\ \A v \in Worker : PlaceOf(v)
      /\ \A v \in Thread : running[v] <=> v = cpu /\ pc[v] # "spin"
      /\ pc[Master] \in {"user", "run", "wait", "switched"}
      /\ Master = cpu <=> pc[Master] \in {"user", "run"}
  BY <1>2 DEF IInv, CurrentIsOnCpu, OnePlaceEach, MasterPlace
<1>4. w \notin Queued /\ w \in Thread /\ Master \in Thread
  BY <1>2, <1>3 DEF PlaceOf, Thread
<1>5. /\ readyQ' \in Seq(Thread) /\ Queued' = Queued \cup {w} /\ OnceEach(readyQ')
  BY <1>3, <1>4, AppendMembers DEF CreateTask, TypeOK, Queued
<1>6. /\ pc' = [pc EXCEPT ![w] = "tramp"]
      /\ running' = [running EXCEPT ![w] = FALSE, ![cpu] = TRUE]
      /\ suspended' = [suspended EXCEPT ![w] = FALSE]
      /\ cpu' = cpu /\ current_thread' = current_thread /\ process' = process
  BY <1>2 DEF CreateTask
<1>7. TypeOK'
  <2>1. pc' \in [Thread -> Place]
    BY <1>3, <1>6 DEF TypeOK, Place
  <2>2. running' \in [Thread -> BOOLEAN] /\ suspended' \in [Thread -> BOOLEAN]
    BY <1>3, <1>6 DEF TypeOK
  <2>3. id' \in [Thread -> Nat] /\ nextId' \in Nat /\ num_workers' \in Int
    <3>1. /\ id' = [id EXCEPT ![w] = nextId] /\ nextId' = nextId + 1
          /\ num_workers' = num_workers + 1
      BY DEF CreateTask
    <3>2. id \in [Thread -> Nat] /\ nextId \in Nat /\ num_workers \in Int
      BY <1>3 DEF TypeOK
    <3>3. id' \in [Thread -> Nat]
      BY <3>1, <3>2
    <3>4. nextId' \in Nat /\ num_workers' \in Int
      BY <3>1, <3>2
    <3> QED
      BY <3>3, <3>4
  <2>4. in_no_switch_region_' \in BOOLEAN /\ reaped' \subseteq Worker
    BY <1>3 DEF TypeOK, CreateTask
  <2> QED
    BY <1>1, <1>3, <1>5, <1>6, <2>1, <2>2, <2>3, <2>4 DEF TypeOK
<1>8. CurrentIsOnCpu'
  <2>1. \A v \in Thread : running'[v] <=> v = cpu
    BY <1>2, <1>3, <1>4, <1>6 DEF TypeOK
  <2> QED
    BY <1>2, <1>3, <1>4, <1>6, <2>1 DEF CurrentIsOnCpu, TypeOK
<1>9. MasterPlace'
  BY <1>2, <1>3, <1>4, <1>6 DEF MasterPlace, TypeOK
<1>10. OnePlaceEach'
  <2>1. ASSUME NEW v \in Worker
        PROVE  PlaceOf(v)'
    <3>1. CASE v = w
      BY <1>2, <1>3, <1>4, <1>5, <1>6, <3>1 DEF PlaceOf, TypeOK
    <3>2. CASE v # w
      <4>1. pc'[v] = pc[v] /\ suspended'[v] = suspended[v] /\ v \in Thread
        BY <1>3, <1>6, <3>2 DEF TypeOK, Thread
      <4> QED
        BY <1>3, <1>5, <1>6, <3>2, <4>1, UntouchedPlace
    <3> QED
      BY <3>1, <3>2
  <2> QED
    BY <1>5, <2>1 DEF OnePlaceEach
<1> QED
  BY <1>7, <1>8, <1>9, <1>10 DEF IInv

------------------------------------------------------------------------------
\* nextCoroutine() and the switch to the thread it takes: the queue it takes
\* from holds what was ready and, unless it suspends, the current thread.
LEMMA DispatchInv ==
  ASSUME IInv, process = "up",
         NEW queue \in Seq(Thread), NEW place \in {"switched", "wait"},
         place = "wait" => cpu = Master,
         OnceEach(queue), Members(queue) \subseteq Queued \cup {cpu},
         \A t \in Thread \ {cpu} : suspended'[t] = suspended[t],
         \A w \in Worker : w \in Members(queue) <=>
                             w \in Queued \/ (w = cpu /\ ~suspended'[w]),
         Dispatch(queue, place)
  PROVE  /\ process' = "up" /\ readyQ' \in Seq(Thread)
         /\ current_thread' \in Thread /\ cpu' \in Thread
         /\ pc' \in [Thread -> Place] /\ running' \in [Thread -> BOOLEAN]
         /\ reaped' \subseteq Worker
         /\ CurrentIsOnCpu' /\ OnePlaceEach' /\ MasterPlace'
<1> DEFINE to == Head(queue)
<1> USE ThreadAssumption
<1>1. queue # << >> /\ readyQ' = Tail(queue) /\ SwitchTo(to, NULL, place)
  BY DEF Dispatch
<1>2. /\ to \in Thread /\ to \in Members(queue)
      /\ readyQ' \in Seq(Thread) /\ OnceEach(readyQ')
      /\ \A w \in Worker : w \in Queued' <=> w \in Members(queue) /\ w # to
  BY <1>1, TailMembers DEF Queued
<1> HIDE DEF to
<1>3. to # cpu => to \in Queued /\ pc[to] \in {"tramp", "switched", "wait"}
  BY <1>2, QueuedParked
<1>4. NULL \in Worker \cup {NULL} /\ place \in {"switched", "wait", "exit"} /\ place # "exit"
  OBVIOUS
<1>5. /\ process' = "up" /\ current_thread' = to /\ cpu' = to
      /\ pc' \in [Thread -> Place]
      /\ \A t \in Thread \ {to, cpu} : pc'[t] = pc[t]
      /\ cpu # to => pc'[cpu] = place
      /\ to # Master => pc'[to] = "user"
      /\ running' \in [Thread -> BOOLEAN]
      /\ reaped' \subseteq Worker
  BY <1>1, <1>2, <1>3, <1>4, SwitchFacts
<1>6. CurrentIsOnCpu' /\ MasterPlace'
  BY <1>1, <1>2, <1>3, <1>4, SwitchInv
<1>7. ASSUME NEW w \in Worker
      PROVE  PlaceOf(w)'
  <2>1. PlaceOf(w) /\ w \in Thread /\ w # Master
    BY DEF IInv, OnePlaceEach, Thread
  <2>2. CASE w = to
    <3>1. w \notin Queued' /\ pc'[w] = "user" /\ w = cpu'
      BY <1>2, <1>5, <2>1, <2>2
    <3>2. ~suspended'[w]
      <4>1. CASE w = cpu
        <5>1. w \notin Queued
          BY <2>1, <4>1 DEF PlaceOf
        <5> QED
          BY <1>2, <2>2, <4>1, <5>1
      <4>2. CASE w # cpu
        <5>1. suspended'[w] = suspended[w] /\ w \in Queued
          BY <1>3, <2>1, <2>2, <4>2
        <5>2. ~suspended[w]
          BY <2>1, <5>1 DEF PlaceOf
        <5> QED
          BY <5>1, <5>2
      <4> QED
        BY <4>1, <4>2
    <3> QED
      BY <3>1, <3>2 DEF PlaceOf
  <2>3. CASE w # to /\ w = cpu
    <3>1. pc'[w] = "switched" /\ w # cpu'
      BY <1>5, <2>1, <2>3
    <3>2. w \notin Queued
      BY <2>1, <2>3 DEF PlaceOf
    <3>3. w \in Queued' <=> ~suspended'[w]
      BY <1>2, <2>3, <3>2
    <3> QED
      BY <3>1, <3>3 DEF PlaceOf
  <2>4. CASE w # to /\ w # cpu
    <3>1. pc'[w] = pc[w] /\ suspended'[w] = suspended[w]
      BY <1>5, <2>1, <2>4
    <3>2. w \in Queued' <=> w \in Queued
      BY <1>2, <2>4
    <3>3. w = cpu' <=> w = cpu
      BY <1>5, <2>4
    <3> QED
      BY <2>1, <3>1, <3>2, <3>3, UntouchedPlace
  <2> QED
    BY <2>2, <2>3, <2>4
<1>8. OnePlaceEach'
  BY <1>2, <1>7 DEF OnePlaceEach
<1> QED
  BY <1>2, <1>5, <1>6, <1>8

------------------------------------------------------------------------------
\* Once the process is not up only the types are left to show.
LEMMA NotUp ==
  ASSUME TypeOK', process' # "up"
  PROVE  IInv'
BY DEF IInv, CurrentIsOnCpu, OnePlaceEach, MasterPlace

\* What the invariant says while the process is up.
LEMMA UpFacts ==
  ASSUME IInv, process = "up"
  PROVE  /\ TypeOK /\ current_thread = cpu /\ cpu \in Thread
         /\ pc[cpu] \in {"user", "spin", "run"}
         /\ \A t \in Thread : running[t] <=> t = cpu /\ pc[t] # "spin"
         /\ OnceEach(readyQ) /\ \A w \in Worker : PlaceOf(w)
         /\ pc[Master] \in {"user", "run", "wait", "switched"}
         /\ Master = cpu <=> pc[Master] \in {"user", "run"}
BY DEF IInv, TypeOK, CurrentIsOnCpu, OnePlaceEach, MasterPlace

\* The types of the variables no switch touches.
RestType ==
  /\ suspended \in [Thread -> BOOLEAN]
  /\ id \in [Thread -> Nat]
  /\ nextId \in Nat
  /\ num_workers \in Int
  /\ in_no_switch_region_ \in BOOLEAN

SwitchType ==
  /\ current_thread \in Thread
  /\ cpu \in Thread
  /\ pc \in [Thread -> Place]
  /\ readyQ \in Seq(Thread)
  /\ running \in [Thread -> BOOLEAN]
  /\ reaped \subseteq Worker
  /\ process \in {"up", "success", "failure"}

LEMMA TypeParts == TypeOK <=> SwitchType /\ RestType
BY DEF TypeOK, SwitchType, RestType

LEMMA TypePartsNext == TypeOK' <=> SwitchType' /\ RestType'
BY DEF TypeOK, SwitchType, RestType

\* Leaving the process in the no-switch region.
LEMMA RegionExitType ==
  ASSUME SwitchType, NEW queue \in Seq(Thread), RegionExit(queue),
         running' \in [Thread -> BOOLEAN]
  PROVE  SwitchType' /\ process' # "up"
BY DEF RegionExit, SwitchType

LEMMA YieldInv ==
  ASSUME IInv, NEW t \in Worker, Yield(t)
  PROVE  IInv'
<1> DEFINE queue == Append(readyQ, cpu)
<1> USE ThreadAssumption
<1>1. InUser(t) /\ t \in Thread
  BY DEF Yield, UserCalls, Thread
<1>2. process = "up" /\ cpu = t /\ current_thread = t /\ pc[t] = "user"
  BY <1>1, InUserFacts
<1>3. /\ SwitchType /\ RestType /\ OnceEach(readyQ)
      /\ \A w \in Worker : PlaceOf(w)
  BY <1>2, UpFacts, TypeParts
<1>4. cpu \notin Queued
  BY <1>2, <1>3 DEF PlaceOf
<1>5. /\ queue \in Seq(Thread) /\ OnceEach(queue)
      /\ Members(queue) = Queued \cup {cpu}
  BY <1>2, <1>3, <1>4, AppendMembers DEF Queued, SwitchType
<1>6. RestType'
  BY <1>3 DEF Yield, RestType
<1>7. suspended' = suspended
      /\ ((RegionExit(queue) /\ UNCHANGED running) \/ Dispatch(queue, "switched"))
  BY <1>2 DEF Yield
<1> HIDE DEF queue
<1>8. CASE RegionExit(queue) /\ UNCHANGED running
  <2>1. running' \in [Thread -> BOOLEAN]
    BY <1>3, <1>8 DEF SwitchType
  <2> QED
    BY <1>3, <1>5, <1>6, <1>8, <2>1, RegionExitType, TypePartsNext, NotUp
<1>9. CASE Dispatch(queue, "switched")
  <2>1. \A w \in Worker : w = cpu => ~suspended[w]
    BY <1>2, <1>3 DEF PlaceOf
  <2>2. \A w \in Worker : w \in Members(queue) <=> w \in Queued \/ (w = cpu /\ ~suspended'[w])
    BY <1>5, <1>7, <2>1
  <2>3. /\ process' = "up" /\ SwitchType'
        /\ CurrentIsOnCpu' /\ OnePlaceEach' /\ MasterPlace'
    BY <1>2, <1>5, <1>7, <1>9, <2>2, DispatchInv DEF SwitchType
  <2> QED
    BY <1>6, <2>3, TypePartsNext DEF IInv
<1> QED
  BY <1>7, <1>8, <1>9

LEMMA SuspendInv ==
  ASSUME IInv, NEW t \in Worker, Suspend(t)
  PROVE  IInv'
<1> USE ThreadAssumption
<1>1. InUser(t) /\ UserCalls(t, "suspend") /\ t \in Thread
  BY DEF Suspend, UserCalls, Thread
<1>2. process = "up" /\ cpu = t /\ current_thread = t /\ pc[t] = "user" /\ t # Master
  BY <1>1, InUserFacts
<1>3. /\ SwitchType /\ RestType /\ OnceEach(readyQ)
      /\ \A w \in Worker : PlaceOf(w)
      /\ \A u \in Thread : running[u] <=> u = cpu /\ pc[u] # "spin"
      /\ pc[Master] \in {"user", "run", "wait", "switched"}
      /\ Master = cpu <=> pc[Master] \in {"user", "run"}
  BY <1>2, UpFacts, TypeParts
<1>4. suspended' = [suspended EXCEPT ![cpu] = TRUE]
  BY <1>2 DEF Suspend
<1>5. /\ suspended' \in [Thread -> BOOLEAN] /\ suspended'[cpu]
      /\ \A u \in Thread \ {cpu} : suspended'[u] = suspended[u]
  BY <1>1, <1>2, <1>3, <1>4 DEF RestType
<1>6. RestType'
  BY <1>3, <1>5 DEF Suspend, RestType
<1>7. cpu \notin Queued
  BY <1>2, <1>3 DEF PlaceOf
<1>8. CASE RegionExit(readyQ) /\ running' = [running EXCEPT ![current_thread] = FALSE]
  <2>1. running' \in [Thread -> BOOLEAN] /\ readyQ \in Seq(Thread)
    BY <1>3, <1>8 DEF SwitchType
  <2> QED
    BY <1>3, <1>6, <1>8, <2>1, RegionExitType, TypePartsNext, NotUp
<1>9. CASE Dispatch(readyQ, "switched")
  <2>1. /\ Members(readyQ) \subseteq Queued \cup {cpu} /\ readyQ \in Seq(Thread)
        /\ \A w \in Worker : w \in Members(readyQ) <=> w \in Queued \/ (w = cpu /\ ~suspended'[w])
    BY <1>3, <1>5 DEF Queued, SwitchType
  <2>2. /\ process' = "up" /\ SwitchType'
        /\ CurrentIsOnCpu' /\ OnePlaceEach' /\ MasterPlace'
    BY <1>2, <1>3, <1>5, <1>9, <2>1, DispatchInv DEF SwitchType
  <2> QED
    BY <1>6, <2>2, TypePartsNext DEF IInv
<1>10. CASE SuspendBlocks
  <2>1. /\ pc' = [pc EXCEPT ![cpu] = "spin"]
        /\ running' = [running EXCEPT ![cpu] = FALSE]
        /\ UNCHANGED <<current_thread, cpu, readyQ, reaped, process>>
    BY <1>2, <1>10 DEF SuspendBlocks
  <2>2. pc' \in [Thread -> Place] /\ pc'[cpu] = "spin"
        /\ \A u \in Thread \ {cpu} : pc'[u] = pc[u]
    BY <1>3, <2>1 DEF SwitchType, Place
  <2>3. running' \in [Thread -> BOOLEAN] /\ \A u \in Thread : ~running'[u]
    BY <1>3, <2>1 DEF SwitchType
  <2>4. SwitchType'
    BY <1>3, <2>1, <2>2, <2>3 DEF SwitchType
  <2>5. CurrentIsOnCpu'
    BY <1>2, <2>1, <2>2, <2>3 DEF CurrentIsOnCpu
  <2>6. MasterPlace'
    BY <1>2, <1>3, <2>1, <2>2 DEF MasterPlace, Thread
  <2>7. ASSUME NEW w \in Worker
        PROVE  PlaceOf(w)'
    <3>1. Queued' = Queued /\ cpu' = cpu /\ w \in Thread
      BY <2>1 DEF Queued, Members, Thread
    <3>2. CASE w = cpu
      BY <1>5, <1>7, <2>2, <3>1, <3>2 DEF PlaceOf
    <3>3. CASE w # cpu
      BY <1>3, <1>5, <2>2, <3>1, <3>3, UntouchedPlace
    <3> QED
      BY <3>2, <3>3
  <2>8. OnePlaceEach'
    BY <1>3, <2>1, <2>7 DEF OnePlaceEach
  <2> QED
    BY <1>6, <2>4, <2>5, <2>6, <2>8, TypePartsNext DEF IInv
<1> QED
  BY <1>8, <1>9, <1>10 DEF Suspend

LEMMA WakeInv ==
  ASSUME IInv, NEW t \in Thread, NEW n \in Worker, Wake(t, n)
  PROVE  IInv'
<1> USE ThreadAssumption
<1>1. InUser(t) /\ suspended[n] /\ pc[n] = "switched" /\ n \in Thread
  BY DEF Wake, UserCalls, MayWake, Thread
<1>2. process = "up" /\ cpu = t /\ current_thread = t /\ pc[t] = "user"
  BY <1>1, InUserFacts
<1>3. /\ SwitchType /\ RestType /\ OnceEach(readyQ)
      /\ \A w \in Worker : PlaceOf(w)
  BY <1>2, UpFacts, TypeParts
<1>4. /\ suspended' = [suspended EXCEPT ![n] = FALSE]
      /\ readyQ' = Append(readyQ, n)
      /\ UNCHANGED <<current_thread, cpu, pc, running, reaped, process>>
  BY DEF Wake
<1>5. /\ suspended' \in [Thread -> BOOLEAN] /\ ~suspended'[n]
      /\ \A u \in Thread \ {n} : suspended'[u] = suspended[u]
  BY <1>1, <1>3, <1>4 DEF RestType
<1>6. n \notin Queued
  BY <1>1, <1>3 DEF PlaceOf
<1>7. readyQ' \in Seq(Thread) /\ OnceEach(readyQ') /\ Queued' = Queued \cup {n}
  BY <1>1, <1>3, <1>4, <1>6, AppendMembers DEF Queued, SwitchType
<1>8. RestType'
  BY <1>3, <1>5 DEF Wake, RestType
<1>9. SwitchType'
  BY <1>3, <1>4, <1>7 DEF SwitchType
<1>10. CurrentIsOnCpu' /\ MasterPlace'
  BY <1>4 DEF IInv, CurrentIsOnCpu, MasterPlace
<1>11. ASSUME NEW w \in Worker
       PROVE  PlaceOf(w)'
  <2>1. pc'[w] = pc[w] /\ cpu' = cpu /\ w \in Thread /\ PlaceOf(w)
    BY <1>3, <1>4 DEF Thread
  <2>2. CASE w = n
    BY <1>1, <1>5, <1>7, <2>1, <2>2 DEF PlaceOf
  <2>3. CASE w # n
    BY <1>5, <1>7, <2>1, <2>3, UntouchedPlace
  <2> QED
    BY <2>2, <2>3
<1> QED
  BY <1>7, <1>8, <1>9, <1>10, <1>11, TypePartsNext DEF IInv, OnePlaceEach

\* The two calls that switch straight to the worker they wake differ only in
\* what becomes of the caller: queued, or suspended.
LEMMA HandOffInv ==
  ASSUME IInv, NEW t \in Worker, NEW n \in Worker, InUser(t), MayWake(n),
         SwitchTo(n, NULL, "switched"),
         suspended' \in [Thread -> BOOLEAN], ~suspended'[n],
         \A u \in Thread \ {n, t} : suspended'[u] = suspended[u],
         readyQ' \in Seq(Thread), OnceEach(readyQ'),
         \A w \in Worker : w \in Queued' <=> w \in Queued \/ (w = t /\ ~suspended'[t])
  PROVE  SwitchType' /\ CurrentIsOnCpu' /\ OnePlaceEach' /\ MasterPlace'
<1> USE ThreadAssumption
<1>1. t \in Thread /\ n \in Thread
  BY DEF Thread
<1>2. process = "up" /\ cpu = t /\ current_thread = t /\ pc[t] = "user"
  BY <1>1, InUserFacts
<1>3. \A w \in Worker : PlaceOf(w)
  BY <1>2, UpFacts
<1>4. suspended[n] /\ pc[n] = "switched" /\ n # cpu
  BY <1>2 DEF MayWake
<1>5. NULL \in Worker \cup {NULL} /\ "switched" \in {"switched", "wait", "exit"}
  OBVIOUS
<1>6. /\ process' = "up" /\ current_thread' = n /\ cpu' = n
      /\ pc' \in [Thread -> Place]
      /\ \A u \in Thread \ {n, t} : pc'[u] = pc[u]
      /\ pc'[t] = "switched" /\ pc'[n] = "user"
      /\ running' \in [Thread -> BOOLEAN] /\ reaped' \subseteq Worker
  BY <1>1, <1>2, <1>4, <1>5, SwitchFacts
<1>7. CurrentIsOnCpu' /\ MasterPlace'
  BY <1>1, <1>2, <1>4, <1>5, SwitchInv
<1>8. ASSUME NEW w \in Worker
      PROVE  PlaceOf(w)'
  <2>1. w \in Thread /\ PlaceOf(w)
    BY <1>3 DEF Thread
  <2>2. CASE w = n
    <3>1. w \notin Queued /\ w # t
      BY <1>2, <1>4, <2>1, <2>2 DEF PlaceOf
    <3> QED
      BY <1>6, <2>2, <3>1 DEF PlaceOf
  <2>3. CASE w = t
    <3>1. w \notin Queued /\ w # n
      BY <1>2, <1>4, <2>1, <2>3 DEF PlaceOf
    <3> QED
      BY <1>6, <2>3, <3>1 DEF PlaceOf
  <2>4. CASE w # n /\ w # t
    BY <1>2, <1>6, <2>1, <2>4, UntouchedPlace
  <2> QED
    BY <2>2, <2>3, <2>4
<1> QED
  BY <1>1, <1>6, <1>7, <1>8 DEF SwitchType, OnePlaceEach

LEMMA YieldWakeInv ==
  ASSUME IInv, NEW t \in Worker, NEW n \in Worker, YieldWake(t, n)
  PROVE  IInv'
<1> USE ThreadAssumption
<1>1. /\ UserCalls(t, "yield_wake") /\ InUser(t) /\ MayWake(n)
      /\ t \in Thread /\ n \in Thread
  BY DEF YieldWake, UserCalls, Thread
<1>2. process = "up" /\ cpu = t /\ current_thread = t /\ pc[t] = "user"
  BY <1>1, InUserFacts
<1>3. /\ SwitchType /\ RestType /\ OnceEach(readyQ) /\ PlaceOf(t)
  BY <1>2, UpFacts, TypeParts
<1>4. /\ suspended' = [suspended EXCEPT ![n] = FALSE]
      /\ readyQ' = Append(readyQ, t)
      /\ SwitchTo(n, NULL, "switched")
  BY <1>2 DEF YieldWake
<1>5. /\ suspended' \in [Thread -> BOOLEAN] /\ ~suspended'[n]
      /\ \A u \in Thread \ {n} : suspended'[u] = suspended[u]
  BY <1>1, <1>3, <1>4 DEF RestType
<1>6. t \notin Queued /\ ~suspended[t] /\ t # n
  BY <1>1, <1>2, <1>3 DEF PlaceOf, MayWake
<1>7. readyQ' \in Seq(Thread) /\ OnceEach(readyQ') /\ Queued' = Queued \cup {t}
  BY <1>1, <1>3, <1>4, <1>6, AppendMembers DEF Queued, SwitchType
<1>8. ~suspended'[t]
  BY <1>1, <1>5, <1>6
<1>9. RestType'
  BY <1>3, <1>5 DEF YieldWake, RestType
<1> QED
  BY <1>1, <1>4, <1>5, <1>7, <1>8, <1>9, HandOffInv, TypePartsNext DEF IInv

LEMMA SuspendWakeInv ==
  ASSUME IInv, NEW t \in Worker, NEW n \in Worker, SuspendWake(t, n)
  PROVE  IInv'
<1> USE ThreadAssumption
<1>1. /\ UserCalls(t, "suspend_wake") /\ InUser(t) /\ MayWake(n)
      /\ t \in Thread /\ n \in Thread
  BY DEF SuspendWake, UserCalls, Thread
<1>2. process = "up" /\ cpu = t /\ current_thread = t /\ pc[t] = "user"
  BY <1>1, InUserFacts
<1>3. /\ SwitchType /\ RestType /\ OnceEach(readyQ) /\ PlaceOf(t) /\ t # n
  BY <1>1, <1>2, UpFacts, TypeParts DEF MayWake
<1>4. /\ suspended' = [suspended EXCEPT ![n] = FALSE, ![t] = TRUE]
      /\ readyQ' = readyQ
      /\ SwitchTo(n, NULL, "switched")
  BY <1>2 DEF SuspendWake
<1>5. /\ suspended' \in [Thread -> BOOLEAN] /\ ~suspended'[n] /\ suspended'[t]
      /\ \A u \in Thread \ {n, t} : suspended'[u] = suspended[u]
  BY <1>1, <1>3, <1>4 DEF RestType
<1>6. readyQ' \in Seq(Thread) /\ OnceEach(readyQ') /\ Queued' = Queued
  BY <1>3, <1>4 DEF Queued, SwitchType
<1>7. RestType'
  BY <1>3, <1>5 DEF SuspendWake, RestType
<1> QED
  BY <1>1, <1>4, <1>5, <1>6, <1>7, HandOffInv, TypePartsNext DEF IInv

LEMMA ExitInv ==
  ASSUME IInv, NEW t \in Worker, Exit(t)
  PROVE  IInv'
<1> USE ThreadAssumption
<1>1. InUser(t) /\ t \in Thread /\ Master \in Thread /\ t # Master
  BY DEF Exit, Thread
<1>2. process = "up" /\ cpu = t /\ current_thread = t /\ pc[t] = "user"
  BY <1>1, InUserFacts
<1>3. /\ SwitchType /\ RestType /\ OnceEach(readyQ)
      /\ \A w \in Worker : PlaceOf(w)
      /\ pc[Master] \in {"user", "run", "wait", "switched"}
      /\ Master = cpu <=> pc[Master] \in {"user", "run"}
  BY <1>2, UpFacts, TypeParts
<1>4. pc[Master] \in {"tramp", "switched", "wait"} /\ Master # cpu
  BY <1>1, <1>2, <1>3
<1>5. SwitchTo(Master, t, "exit") /\ t \in Worker \cup {NULL}
      /\ "exit" \in {"switched", "wait", "exit"} /\ "exit" # "wait"
  BY <1>2 DEF Exit
<1>6. /\ process' = "up" /\ current_thread' = Master /\ cpu' = Master
      /\ pc' \in [Thread -> Place]
      /\ \A u \in Thread \ {Master, t} : pc'[u] = pc[u]
      /\ pc'[t] = "exit"
      /\ running' \in [Thread -> BOOLEAN] /\ reaped' \subseteq Worker
  BY <1>1, <1>2, <1>4, <1>5, SwitchFacts
<1>7. CurrentIsOnCpu' /\ MasterPlace'
  BY <1>1, <1>2, <1>4, <1>5, SwitchInv
<1>8. readyQ' = readyQ /\ suspended' = suspended /\ Queued' = Queued
  BY DEF Exit, Queued
<1>9. RestType'
  BY <1>3 DEF Exit, RestType
<1>10. ASSUME NEW w \in Worker
       PROVE  PlaceOf(w)'
  <2>1. w \in Thread /\ w # Master /\ PlaceOf(w)
    BY <1>3 DEF Thread
  <2>2. CASE w = t
    BY <1>2, <1>6, <1>8, <2>1, <2>2 DEF PlaceOf
  <2>3. CASE w # t
    BY <1>2, <1>6, <1>8, <2>1, <2>3, UntouchedPlace
  <2> QED
    BY <2>2, <2>3
<1>11. SwitchType' /\ OnePlaceEach'
  BY <1>1, <1>3, <1>6, <1>8, <1>10 DEF SwitchType, OnePlaceEach
<1> QED
  BY <1>7, <1>9, <1>11, TypePartsNext DEF IInv

\* A step that moves only main(), between its own code and run().
LEMMA MasterMoveInv ==
  ASSUME IInv, process = "up", cpu = Master, pc[Master] \in {"user", "run"},
         NEW place \in {"user", "run"}, pc' = [pc EXCEPT ![Master] = place],
         UNCHANGED <<current_thread, cpu, readyQ, running, suspended, reaped, process>>
  PROVE  SwitchType' /\ CurrentIsOnCpu' /\ OnePlaceEach' /\ MasterPlace'
<1> USE ThreadAssumption
<1>1. /\ SwitchType /\ OnceEach(readyQ) /\ \A w \in Worker : PlaceOf(w)
      /\ current_thread = cpu
      /\ \A t \in Thread : running[t] <=> t = cpu /\ pc[t] # "spin"
  BY UpFacts, TypeParts
<1>2. /\ pc' \in [Thread -> Place] /\ pc'[Master] = place
      /\ \A t \in Thread \ {Master} : pc'[t] = pc[t]
  BY <1>1 DEF SwitchType, Place, Thread
<1>3. SwitchType'
  BY <1>1, <1>2 DEF SwitchType
<1>4. CurrentIsOnCpu'
  <2>1. \A t \in Thread : pc'[t] # "spin" <=> pc[t] # "spin"
    BY <1>2
  <2> QED
    BY <1>1, <1>2, <2>1 DEF CurrentIsOnCpu
<1>5. MasterPlace'
  BY <1>2 DEF MasterPlace
<1>6. ASSUME NEW w \in Worker
      PROVE  PlaceOf(w)'
  <2>1. pc'[w] = pc[w] /\ Queued' = Queued
    BY <1>2 DEF Thread, Queued
  <2> QED
    BY <1>1, <2>1, UntouchedPlace
<1> QED
  BY <1>1, <1>3, <1>4, <1>5, <1>6 DEF OnePlaceEach

LEMMA RunInv ==
  ASSUME IInv, Run
  PROVE  IInv'
<1>1. process = "up" /\ cpu = Master /\ pc[Master] = "user"
  BY DEF Run, InUser
<1>2. RestType'
  BY TypeParts DEF IInv, Run, RestType
<1> QED
  BY <1>1, <1>2, MasterMoveInv, TypePartsNext DEF Run, IInv

LEMMA ThreadWaitInv ==
  ASSUME IInv, ThreadWait
  PROVE  IInv'
<1>1. process = "up" /\ cpu = Master /\ pc[Master] = "run"
  BY DEF ThreadWait
<1>2. /\ SwitchType /\ RestType /\ OnceEach(readyQ)
  BY <1>1, UpFacts, TypeParts
<1>3. RestType' /\ suspended' = suspended
  BY <1>2 DEF ThreadWait, RestType
<1>4. CASE /\ process' = "failure"
           /\ UNCHANGED <<current_thread, cpu, pc, readyQ, running, reaped>>
  BY <1>2, <1>3, <1>4, TypePartsNext, NotUp DEF SwitchType
<1>5. CASE Dispatch(readyQ, "wait")
  <2>1. cpu \notin Worker
    BY <1>1, ThreadAssumption
  <2>2. /\ Members(readyQ) \subseteq Queued \cup {cpu} /\ readyQ \in Seq(Thread)
        /\ \A w \in Worker : w \in Members(readyQ) <=> w \in Queued \/ (w = cpu /\ ~suspended'[w])
    BY <1>2, <2>1 DEF Queued, SwitchType
  <2>3. /\ process' = "up" /\ SwitchType'
        /\ CurrentIsOnCpu' /\ OnePlaceEach' /\ MasterPlace'
    BY <1>1, <1>2, <1>3, <1>5, <2>2, DispatchInv DEF SwitchType
  <2> QED
    BY <1>3, <2>3, TypePartsNext DEF IInv
<1>6. CASE /\ pc' = [pc EXCEPT ![Master] = "user"]
           /\ UNCHANGED <<current_thread, cpu, readyQ, running, reaped, process>>
  BY <1>1, <1>3, <1>6, MasterMoveInv, TypePartsNext DEF IInv
<1> QED
  BY <1>4, <1>5, <1>6 DEF ThreadWait

LEMMA SetNoSwitchRegionInv ==
  ASSUME IInv, NEW t \in Thread, NEW val \in BOOLEAN, SetNoSwitchRegion(t, val)
  PROVE  IInv'
<1>1. UNCHANGED <<current_thread, cpu, pc, readyQ, running, suspended, id,
                  nextId, num_workers, reaped, process>>
      /\ in_no_switch_region_' \in BOOLEAN
  BY DEF SetNoSwitchRegion
<1>2. TypeOK'
  BY <1>1 DEF IInv, TypeOK
<1>3. CurrentIsOnCpu' /\ MasterPlace'
  BY <1>1 DEF IInv, CurrentIsOnCpu, MasterPlace
<1>4. OnePlaceEach'
  BY <1>1 DEF IInv, OnePlaceEach, PlaceOf, Queued
<1> QED
  BY <1>2, <1>3, <1>4 DEF IInv

LEMMA FinalizeInv ==
  ASSUME IInv, Finalize
  PROVE  IInv'
<1>1. pc' \in [Thread -> Place]
  BY DEF Finalize, IInv, TypeOK, Place
<1>2. TypeOK'
  BY <1>1 DEF Finalize, IInv, TypeOK
<1> QED
  BY <1>2, NotUp DEF Finalize

LEMMA StutterInv ==
  ASSUME IInv, UNCHANGED vars
  PROVE  IInv'
<1>1. TypeOK'
  BY DEF vars, IInv, TypeOK
<1>2. CurrentIsOnCpu' /\ MasterPlace'
  BY DEF vars, IInv, CurrentIsOnCpu, MasterPlace
<1>3. OnePlaceEach'
  BY DEF vars, IInv, OnePlaceEach, PlaceOf, Queued
<1> QED
  BY <1>1, <1>2, <1>3 DEF IInv

LEMMA NextInv ==
  ASSUME IInv, [Next]_vars
  PROVE  IInv'
<1>1. ASSUME NEW t \in Thread, NEW w \in Worker, CreateTask(t, w)
      PROVE  IInv'
  BY <1>1, CreateInv
<1>2. ASSUME NEW t \in Worker, Yield(t)
      PROVE  IInv'
  BY <1>2, YieldInv
<1>3. ASSUME NEW t \in Worker, Suspend(t)
      PROVE  IInv'
  BY <1>3, SuspendInv
<1>4. CASE Spin \/ Terminated
  BY <1>4, StutterInv DEF Spin, Terminated
<1>5. ASSUME NEW t \in Thread, NEW n \in Worker, Wake(t, n)
      PROVE  IInv'
  BY <1>5, WakeInv
<1>6. ASSUME NEW t \in Worker, NEW n \in Worker, YieldWake(t, n)
      PROVE  IInv'
  BY <1>6, YieldWakeInv
<1>7. ASSUME NEW t \in Worker, NEW n \in Worker, SuspendWake(t, n)
      PROVE  IInv'
  BY <1>7, SuspendWakeInv
<1>8. ASSUME NEW t \in Worker, Exit(t)
      PROVE  IInv'
  BY <1>8, ExitInv
<1>9. ASSUME NEW t \in Thread, NEW val \in BOOLEAN, SetNoSwitchRegion(t, val)
      PROVE  IInv'
  BY <1>9, SetNoSwitchRegionInv
<1>10. CASE Run \/ ThreadWait \/ Finalize
  BY <1>10, RunInv, ThreadWaitInv, FinalizeInv
<1>11. CASE UNCHANGED vars
  BY <1>11, StutterInv
<1> QED
  BY <1>1, <1>2, <1>3, <1>4, <1>5, <1>6, <1>7, <1>8, <1>9, <1>10, <1>11 DEF Next

LEMMA Inductive == Spec => []IInv
<1>1. IInv /\ [Next]_vars => IInv'
  BY NextInv
<1> QED
  BY <1>1, InitInv, PTL DEF Spec

------------------------------------------------------------------------------
\* TaskScheduler: every field keeps its type.
THEOREM SchedulerTypeCorrect == Spec => []TypeOK
<1>1. IInv => TypeOK
  BY DEF IInv
<1> QED
  BY <1>1, Inductive, PTL

\* current_thread and the switches of TaskScheduler.h never drift apart: the
\* current thread is the one on the processor, and alone marked running.
THEOREM CurrentAlwaysOnCpu == Spec => []CurrentIsOnCpu
<1>1. IInv => CurrentIsOnCpu
  BY DEF IInv
<1> QED
  BY <1>1, Inductive, PTL

\* No call of TaskScheduler.h loses a task, queues it twice, or queues one
\* that is suspended, running or gone.
THEOREM AlwaysOnePlaceEach == Spec => []OnePlaceEach
<1>1. IInv => OnePlaceEach
  BY DEF IInv
<1> QED
  BY <1>1, Inductive, PTL

------------------------------------------------------------------------------
\* The further properties.  Most need to know of a step only which of four kinds
\* it is: it creates a task, ends one, leaves one in the loop of nextCoroutine(),
\* or moves tasks between the places where they can still run.
Awake == {"tramp", "user", "switched", "run", "wait"}
Shift(t) == pc'[t] = pc[t] \/ {pc[t], pc'[t]} \subseteq Awake

\* A step that creates and ends no task, and leaves none in the loop.
Quiet ==
  /\ UNCHANGED <<id, nextId, num_workers, reaped>>
  /\ \A w \in Worker : Shift(w)

\* A switch that hands over no worker is quiet.
LEMMA SwitchShift ==
  ASSUME IInv, process = "up", pc[cpu] \in {"user", "run"},
         NEW to \in Thread, NEW place \in {"switched", "wait"},
         place = "wait" => cpu = Master,
         to # cpu => pc[to] \in {"tramp", "switched", "wait"},
         SwitchTo(to, NULL, place)
  PROVE  /\ \A t \in Thread : Shift(t)
         /\ UNCHANGED reaped
         /\ \A t \in Thread \ {to, cpu} : pc'[t] = pc[t]
         /\ cpu # to => pc'[cpu] = place
         /\ pc'[to] \in {"user", "run"}
<1>1. NULL \in Worker \cup {NULL} /\ place \in {"switched", "wait", "exit"}
  OBVIOUS
<1>2. /\ \A t \in Thread \ {to, cpu} : pc'[t] = pc[t]
      /\ cpu # to => pc'[cpu] = place
      /\ pc'[to] \in {"user", "run"}
  BY <1>1, SwitchFacts
<1>3. UNCHANGED reaped
  BY DEF SwitchTo
<1>4. ASSUME NEW t \in Thread
      PROVE  Shift(t)
  <2>1. CASE t = to
    BY <1>2, <2>1 DEF Shift, Awake
  <2>2. CASE t # to /\ t = cpu
    BY <1>2, <2>2 DEF Shift, Awake
  <2>3. CASE t # to /\ t # cpu
    BY <1>2, <2>3 DEF Shift
  <2> QED
    BY <2>1, <2>2, <2>3
<1> QED
  BY <1>2, <1>3, <1>4

\* So is nextCoroutine() with the switch to the thread it takes.
LEMMA DispatchShift ==
  ASSUME IInv, process = "up", pc[cpu] \in {"user", "run"},
         NEW queue \in Seq(Thread), NEW place \in {"switched", "wait"},
         place = "wait" => cpu = Master,
         Members(queue) \subseteq Queued \cup {cpu},
         Dispatch(queue, place)
  PROVE  /\ \A t \in Thread : Shift(t)
         /\ UNCHANGED reaped
         /\ Head(queue) \in Members(queue) /\ Head(queue) \in Thread
         /\ \A t \in Thread \ {Head(queue), cpu} : pc'[t] = pc[t]
         /\ cpu # Head(queue) => pc'[cpu] = place
         /\ pc'[Head(queue)] \in {"user", "run"}
<1>1. queue # << >> /\ SwitchTo(Head(queue), NULL, place)
  BY DEF Dispatch
<1>2. Head(queue) \in Members(queue) /\ Head(queue) \in Thread
  BY <1>1, TailMembers
<1>3. Head(queue) # cpu => pc[Head(queue)] \in {"tramp", "switched", "wait"}
  BY <1>2, QueuedParked
<1> QED
  BY <1>1, <1>2, <1>3, SwitchShift

\* The queue thread_yield() takes from.
LEMMA YieldQueue ==
  ASSUME IInv, NEW t \in Worker, Yield(t)
  PROVE  /\ process = "up" /\ cpu = t /\ pc[cpu] = "user"
         /\ Append(readyQ, cpu) \in Seq(Thread)
         /\ Members(Append(readyQ, cpu)) = Queued \cup {cpu}
         /\ \/ RegionExit(Append(readyQ, cpu))
            \/ Dispatch(Append(readyQ, cpu), "switched")
<1>1. process = "up" /\ cpu = t /\ current_thread = t /\ pc[t] = "user" /\ t \in Thread
  BY InUserFacts DEF Yield, UserCalls, Thread
<1>2. readyQ \in Seq(Thread)
  BY DEF IInv, TypeOK
<1> QED
  BY <1>1, <1>2, AppendMembers DEF Yield, Queued

LEMMA YieldQuiet ==
  ASSUME IInv, NEW t \in Worker, Yield(t)
  PROVE  Quiet
<1>1. UNCHANGED <<id, nextId, num_workers>>
  BY DEF Yield
<1>2. CASE RegionExit(Append(readyQ, cpu))
  BY <1>1, <1>2 DEF RegionExit, Quiet, Shift
<1>3. CASE Dispatch(Append(readyQ, cpu), "switched")
  <2>1. UNCHANGED reaped /\ \A w \in Thread : Shift(w)
    BY <1>3, YieldQueue, DispatchShift
  <2> QED
    BY <1>1, <2>1 DEF Quiet, Thread
<1> QED
  BY <1>2, <1>3, YieldQueue

LEMMA SuspendQuiet ==
  ASSUME IInv, NEW t \in Worker, Suspend(t), ~SuspendBlocks
  PROVE  Quiet
<1>1. process = "up" /\ cpu = t /\ current_thread = t /\ pc[t] = "user"
  BY InUserFacts DEF Suspend, UserCalls, Thread
<1>2. UNCHANGED <<id, nextId, num_workers>>
  BY DEF Suspend
<1>3. CASE RegionExit(readyQ)
  BY <1>2, <1>3 DEF RegionExit, Quiet, Shift
<1>4. CASE Dispatch(readyQ, "switched")
  <2>1. readyQ \in Seq(Thread) /\ Members(readyQ) = Queued
    BY DEF IInv, TypeOK, Queued
  <2>2. UNCHANGED reaped /\ \A w \in Thread : Shift(w)
    BY <1>1, <1>4, <2>1, DispatchShift
  <2> QED
    BY <1>2, <2>2 DEF Quiet, Thread
<1> QED
  BY <1>3, <1>4 DEF Suspend

LEMMA HandOffQuiet ==
  ASSUME IInv, NEW t \in Worker, NEW n \in Worker, YieldWake(t, n) \/ SuspendWake(t, n)
  PROVE  /\ Quiet
         /\ process = "up" /\ cpu = t
         /\ \A u \in Thread \ {n, t} : pc'[u] = pc[u]
<1>1. /\ InUser(t) /\ MayWake(n) /\ SwitchTo(n, NULL, "switched")
      /\ UNCHANGED <<id, nextId, num_workers>> /\ t \in Thread /\ n \in Thread
  BY DEF YieldWake, SuspendWake, UserCalls, Thread
<1>2. process = "up" /\ cpu = t /\ pc[t] = "user"
  BY <1>1, InUserFacts
<1>3. /\ UNCHANGED reaped /\ \A w \in Thread : Shift(w)
      /\ \A u \in Thread \ {n, t} : pc'[u] = pc[u]
  BY <1>1, <1>2, SwitchShift DEF MayWake
<1> QED
  BY <1>1, <1>2, <1>3 DEF Quiet, Thread

LEMMA ThreadWaitQuiet ==
  ASSUME IInv, ThreadWait
  PROVE  Quiet
<1>1. /\ process = "up" /\ cpu = Master /\ pc[Master] = "run"
      /\ UNCHANGED <<id, nextId, num_workers>>
  BY DEF ThreadWait
<1>2. CASE UNCHANGED <<pc, reaped>>
  BY <1>1, <1>2 DEF Quiet, Shift
<1>3. CASE Dispatch(readyQ, "wait")
  <2>1. readyQ \in Seq(Thread) /\ Members(readyQ) = Queued
    BY DEF IInv, TypeOK, Queued
  <2>2. UNCHANGED reaped /\ \A w \in Thread : Shift(w)
    BY <1>1, <1>3, <2>1, DispatchShift
  <2> QED
    BY <1>1, <2>2 DEF Quiet, Thread
<1>4. CASE pc' = [pc EXCEPT ![Master] = "user"] /\ UNCHANGED reaped
  <2>1. \A w \in Worker : pc'[w] = pc[w]
    BY <1>4, ThreadAssumption DEF IInv, TypeOK, Thread
  <2> QED
    BY <1>1, <1>4, <2>1 DEF Quiet, Shift
<1> QED
  BY <1>2, <1>3, <1>4 DEF ThreadWait

LEMMA StepKinds ==
  ASSUME IInv, [Next]_vars
  PROVE  \/ \E t \in Thread, w \in Worker : CreateTask(t, w)
         \/ \E t \in Worker : Exit(t)
         \/ \E t \in Worker : Suspend(t) /\ SuspendBlocks
         \/ Quiet
<1>1. ASSUME UNCHANGED <<pc, id, nextId, num_workers, reaped>>
      PROVE  Quiet
  BY <1>1 DEF Quiet, Shift
<1>2. ASSUME NEW place, pc' = [pc EXCEPT ![Master] = place],
             UNCHANGED <<id, nextId, num_workers, reaped>>
      PROVE  Quiet
  <2>1. \A w \in Worker : pc'[w] = pc[w]
    BY <1>2, ThreadAssumption DEF IInv, TypeOK, Thread
  <2> QED
    BY <1>2, <2>1 DEF Quiet, Shift
<1>3. CASE UNCHANGED vars \/ Spin \/ Terminated
  BY <1>1, <1>3 DEF vars, Spin, Terminated
<1>4. CASE \E t \in Worker : Yield(t)
  BY <1>4, YieldQuiet
<1>5. CASE \E t \in Worker : Suspend(t)
  BY <1>5, SuspendQuiet
<1>6. CASE \E t \in Thread, n \in Worker : Wake(t, n)
  BY <1>1, <1>6 DEF Wake
<1>7. CASE \E t, n \in Worker : YieldWake(t, n) \/ SuspendWake(t, n)
  BY <1>7, HandOffQuiet
<1>8. CASE \E t \in Thread, val \in BOOLEAN : SetNoSwitchRegion(t, val)
  BY <1>1, <1>8 DEF SetNoSwitchRegion
<1>9. CASE ThreadWait
  BY <1>9, ThreadWaitQuiet
<1>10. CASE Run \/ Finalize
  BY <1>2, <1>10 DEF Run, Finalize
<1> QED
  BY <1>3, <1>4, <1>5, <1>6, <1>7, <1>8, <1>9, <1>10 DEF Next

\* What becomes of the tasks in each kind of step.
LEMMA QuietTasks ==
  ASSUME Quiet, NEW w \in Worker
  PROVE  /\ Created(w)' <=> Created(w)
         /\ Live(w)' <=> Live(w)
         /\ pc'[w] = "exit" <=> pc[w] = "exit"
         /\ pc'[w] = "spin" => pc[w] = "spin"
BY DEF Quiet, Shift, Awake, Created, Live

LEMMA CreateFacts ==
  ASSUME IInv, NEW t \in Thread, NEW w \in Worker, CreateTask(t, w)
  PROVE  /\ pc[w] = "none" /\ pc'[w] = "tramp"
         /\ \A v \in Thread \ {w} : pc'[v] = pc[v]
         /\ id'[w] = nextId /\ \A v \in Thread \ {w} : id'[v] = id[v]
         /\ nextId' = nextId + 1 /\ num_workers' = num_workers + 1
         /\ UNCHANGED reaped
BY DEF IInv, TypeOK, CreateTask, Thread

LEMMA ExitTasks ==
  ASSUME IInv, NEW t \in Worker, Exit(t)
  PROVE  /\ process = "up" /\ cpu = t /\ pc[t] = "user" /\ pc'[t] = "exit"
         /\ \A v \in Thread \ {t, Master} : pc'[v] = pc[v]
         /\ pc[Master] \in {"wait", "switched"} /\ pc'[Master] \in {"user", "run"}
         /\ UNCHANGED <<id, nextId, readyQ>> /\ num_workers' = num_workers - 1
         /\ pc[Master] = "wait" => reaped' = reaped \cup {t} /\ pc'[Master] = "run"
<1> USE ThreadAssumption
<1>1. t \in Thread /\ Master \in Thread /\ t # Master
  BY DEF Thread
<1>2. process = "up" /\ cpu = t /\ current_thread = t /\ pc[t] = "user"
  BY <1>1, InUserFacts DEF Exit
<1>3. pc[Master] \in {"wait", "switched"}
  BY <1>1, <1>2 DEF IInv, MasterPlace
<1>4. /\ SwitchTo(Master, t, "exit") /\ UNCHANGED <<id, nextId, readyQ>>
      /\ num_workers' = num_workers - 1
  BY <1>2 DEF Exit
<1>5. t \in Worker \cup {NULL} /\ "exit" \in {"switched", "wait", "exit"} /\ "exit" # "wait"
  OBVIOUS
<1>6. /\ \A v \in Thread \ {t, Master} : pc'[v] = pc[v]
      /\ pc'[t] = "exit" /\ pc'[Master] \in {"user", "run"}
  BY <1>1, <1>2, <1>3, <1>4, <1>5, SwitchFacts
<1>7. ASSUME pc[Master] = "wait"
      PROVE  reaped' = reaped \cup {t} /\ pc'[Master] = "run"
  <2>1. [pc EXCEPT ![t] = "exit"] \in [Thread -> Place]
        /\ [pc EXCEPT ![t] = "exit"][Master] = "wait"
    BY <1>1, <1>7 DEF IInv, TypeOK, Place
  <2>2. t # NULL
    OBVIOUS
  <2> QED
    BY <1>1, <1>2, <1>4, <2>1, <2>2 DEF SwitchTo, Continue
<1> QED
  BY <1>2, <1>3, <1>4, <1>6, <1>7

LEMMA BlockTasks ==
  ASSUME IInv, NEW t \in Worker, Suspend(t), SuspendBlocks
  PROVE  /\ process = "up" /\ process' = "up" /\ pc[t] = "user" /\ pc'[t] = "spin"
         /\ \A v \in Thread \ {t} : pc'[v] = pc[v]
         /\ UNCHANGED <<id, nextId, num_workers, reaped, readyQ>>
         /\ readyQ = << >> /\ suspended'[t]
<1>1. t \in Thread
  BY DEF Thread
<1>2. process = "up" /\ cpu = t /\ current_thread = t /\ pc[t] = "user"
  BY <1>1, InUserFacts DEF Suspend, UserCalls
<1> QED
  BY <1>1, <1>2 DEF Suspend, SuspendBlocks, IInv, TypeOK

------------------------------------------------------------------------------
\* Ids: those given out lie below nextId.
IdsInv ==
  /\ nextId \in Nat \ {0}
  /\ \A w \in Worker : Created(w) => id[w] \in 1 .. nextId - 1
  /\ \A v, w \in Worker : Created(v) /\ Created(w) /\ id[v] = id[w] => v = w

LEMMA IdsNext ==
  ASSUME IInv, IdsInv, [Next]_vars
  PROVE  IdsInv'
<1>1. ASSUME NEW t \in Thread, NEW w \in Worker, CreateTask(t, w)
      PROVE  IdsInv'
  <2>1. /\ Created(w)' /\ id'[w] = nextId /\ nextId' = nextId + 1
        /\ \A v \in Worker \ {w} : (Created(v)' <=> Created(v)) /\ id'[v] = id[v]
    BY <1>1, CreateFacts DEF Created, Thread
  <2>2. \A v \in Worker \ {w} : Created(v)' => id'[v] \in 1 .. nextId - 1
    BY <2>1 DEF IdsInv
  <2>3. nextId' \in Nat \ {0}
        /\ \A v \in Worker : Created(v)' => id'[v] \in 1 .. nextId' - 1
    BY <2>1, <2>2 DEF IdsInv
  <2>4. \A u, v \in Worker : Created(u)' /\ Created(v)' /\ id'[u] = id'[v] => u = v
    <3>1. nextId \notin 1 .. nextId - 1
      BY DEF IdsInv
    <3>2. \A v \in Worker \ {w} : Created(v)' => id'[v] # id'[w]
      BY <2>1, <2>2, <3>1
    <3> QED
      BY <2>1, <3>2 DEF IdsInv
  <2> QED
    BY <2>3, <2>4 DEF IdsInv
<1>2. ASSUME UNCHANGED <<id, nextId>>, \A w \in Worker : Created(w)' <=> Created(w)
      PROVE  IdsInv'
  BY <1>2 DEF IdsInv
<1>3. CASE \E t \in Worker : Exit(t)
  <2>1. PICK t \in Worker : Exit(t)
    BY <1>3
  <2>2. \A w \in Worker : Created(w)' <=> Created(w)
    BY <2>1, ExitTasks, ThreadAssumption DEF Created, Thread
  <2> QED
    BY <1>2, <2>1, <2>2, ExitTasks
<1>4. CASE \E t \in Worker : Suspend(t) /\ SuspendBlocks
  <2>1. PICK t \in Worker : Suspend(t) /\ SuspendBlocks
    BY <1>4
  <2>2. \A w \in Worker : Created(w)' <=> Created(w)
    BY <2>1, BlockTasks DEF Created, Thread
  <2> QED
    BY <1>2, <2>1, <2>2, BlockTasks
<1>5. CASE Quiet
  BY <1>2, <1>5, QuietTasks DEF Quiet
<1> QED
  BY <1>1, <1>3, <1>4, <1>5, StepKinds

LEMMA IdsInductive == Spec => []IdsInv
<1>1. Init => IdsInv
  BY ThreadAssumption DEF Init, IdsInv, Created, Thread
<1>2. IInv /\ IdsInv /\ [Next]_vars => IdsInv'
  BY IdsNext
<1> QED
  BY <1>1, <1>2, Inductive, PTL DEF Spec

\* assignTid() of TaskScheduler.h gives no id twice, and never the system
\* worker's.
THEOREM AlwaysIdsIdentify == Spec => []IdsIdentify
<1>1. IdsInv => IdsIdentify
  BY DEF IdsInv, IdsIdentify
<1> QED
  BY <1>1, IdsInductive, PTL

------------------------------------------------------------------------------
\* The scheduler's count of workers.
LiveTasks == {w \in Worker : Live(w)}
CountInv == IsFiniteSet(LiveTasks) /\ num_workers = Cardinality(LiveTasks)

LEMMA CountNext ==
  ASSUME IInv, CountInv, [Next]_vars
  PROVE  CountInv'
<1>1. ASSUME NEW t \in Thread, NEW w \in Worker, CreateTask(t, w)
      PROVE  CountInv'
  <2>1. w \notin LiveTasks /\ LiveTasks' = LiveTasks \cup {w} /\ num_workers' = num_workers + 1
    BY <1>1, CreateFacts DEF LiveTasks, Live, Thread
  <2>2. IsFiniteSet(LiveTasks \cup {w}) /\ Cardinality(LiveTasks \cup {w}) = Cardinality(LiveTasks) + 1
    BY <2>1, FS_AddElement DEF CountInv
  <2> QED
    BY <2>1, <2>2 DEF CountInv
<1>2. ASSUME NEW t \in Worker, Exit(t)
      PROVE  CountInv'
  <2>1. t \in LiveTasks /\ LiveTasks' = LiveTasks \ {t} /\ num_workers' = num_workers - 1
    BY <1>2, ExitTasks, ThreadAssumption DEF LiveTasks, Live, Thread
  <2>2. IsFiniteSet(LiveTasks \ {t}) /\ Cardinality(LiveTasks \ {t}) = Cardinality(LiveTasks) - 1
    BY <2>1, FS_RemoveElement DEF CountInv
  <2> QED
    BY <2>1, <2>2 DEF CountInv
<1>3. ASSUME UNCHANGED num_workers, \A w \in Worker : Live(w)' <=> Live(w)
      PROVE  CountInv'
  <2>1. LiveTasks' = LiveTasks
    BY <1>3 DEF LiveTasks
  <2> QED
    BY <1>3, <2>1 DEF CountInv
<1>4. CASE \E t \in Worker : Suspend(t) /\ SuspendBlocks
  <2>1. PICK t \in Worker : Suspend(t) /\ SuspendBlocks
    BY <1>4
  <2>2. \A w \in Worker : Live(w)' <=> Live(w)
    BY <2>1, BlockTasks DEF Live, Thread
  <2> QED
    BY <1>3, <2>1, <2>2, BlockTasks
<1>5. CASE Quiet
  BY <1>3, <1>5, QuietTasks DEF Quiet
<1> QED
  BY <1>1, <1>2, <1>4, <1>5, StepKinds

\* getWorkerNum() of TaskScheduler.h is the number of tasks created and not
\* yet exited.
THEOREM AlwaysWorkerCount == Spec => []WorkerCount
<1>1. Init => CountInv
  <2> SUFFICES ASSUME Init
               PROVE  CountInv
    OBVIOUS
  <2>1. LiveTasks = {}
    BY ThreadAssumption DEF Init, LiveTasks, Live, Thread
  <2> QED
    BY <2>1, FS_EmptySet DEF Init, CountInv
<1>2. IInv /\ CountInv /\ [Next]_vars => CountInv'
  BY CountNext
<1>3. CountInv => WorkerCount
  BY DEF CountInv, WorkerCount, LiveTasks
<1> QED
  BY <1>1, <1>2, <1>3, Inductive, PTL DEF Spec

------------------------------------------------------------------------------
\* A task in the loop of nextCoroutine() stays there, and nothing else happens:
\* the queue was empty when it came and nobody is left to fill it.
LEMMA SpinStutters ==
  ASSUME IInv, NEW t \in Worker, pc[t] = "spin", process = "up", [Next]_vars
  PROVE  UNCHANGED vars
<1>1. cpu = t /\ t # Master
  BY ThreadAssumption DEF IInv, OnePlaceEach, PlaceOf
<1>2. \A u \in Thread : ~InUser(u)
  BY <1>1 DEF InUser
<1> QED
  BY <1>1, <1>2 DEF Next, CreateTask, Yield, Suspend, Spin, Wake, YieldWake, SuspendWake,
     Exit, SetNoSwitchRegion, Run, ThreadWait, Finalize, Terminated, UserCalls, Thread

SpinInv ==
  \A t \in Worker : pc[t] = "spin" => process = "up" /\ readyQ = << >> /\ suspended[t]

LEMMA SpinNext ==
  ASSUME IInv, SpinInv, [Next]_vars
  PROVE  SpinInv'
<1> SUFFICES ASSUME NEW t \in Worker, pc'[t] = "spin"
             PROVE  process' = "up" /\ readyQ' = << >> /\ suspended'[t]
  BY DEF SpinInv
<1>1. CASE pc[t] = "spin"
  <2>1. UNCHANGED vars
    BY <1>1, SpinStutters DEF SpinInv
  <2> QED
    BY <1>1, <2>1 DEF SpinInv, vars
<1>2. CASE pc[t] # "spin"
  <2>1. ~Quiet
    BY <1>2, QuietTasks
  <2>2. ~ \E u \in Thread, w \in Worker : CreateTask(u, w)
    BY <1>2, CreateFacts DEF Thread
  <2>3. ~ \E u \in Worker : Exit(u)
    BY <1>2, ExitTasks, ThreadAssumption DEF Thread
  <2>4. PICK u \in Worker : Suspend(u) /\ SuspendBlocks
    BY <2>1, <2>2, <2>3, StepKinds
  <2>5. u = t
    BY <1>2, <2>4, BlockTasks DEF Thread
  <2> QED
    BY <2>4, <2>5, BlockTasks
<1> QED
  BY <1>1, <1>2

LEMMA SpinImplies ==
  ASSUME IInv, SpinInv
  PROVE  SpinsOnlyWhenAllSuspended
<1> SUFFICES ASSUME NEW t \in Worker, pc[t] = "spin", NEW w \in Worker, Live(w)
             PROVE  suspended[w]
  BY DEF SpinsOnlyWhenAllSuspended
<1>1. process = "up" /\ readyQ = << >> /\ suspended[t]
  BY DEF SpinInv
<1>2. PlaceOf(t) /\ PlaceOf(w) /\ w \notin Queued /\ w \in Thread
  BY <1>1 DEF IInv, OnePlaceEach, Queued, Members, Thread
<1>3. pc[w] \in Place \ {"none", "exit", "run", "wait", "finished"}
  BY <1>2 DEF IInv, TypeOK, Live, PlaceOf
<1>4. CASE w = cpu
  BY <1>1, <1>2, <1>4 DEF PlaceOf
<1>5. CASE w # cpu
  BY <1>2, <1>3, <1>5 DEF PlaceOf, Place
<1> QED
  BY <1>4, <1>5

\* nextCoroutine() of TaskScheduler.h loops only when no task can run: it never
\* spins past a task that is ready.
THEOREM SpinsOnlyWhenNoneCanRun == Spec => []SpinsOnlyWhenAllSuspended
<1>1. Init => SpinInv
  BY ThreadAssumption DEF Init, SpinInv, Thread
<1>2. IInv /\ SpinInv /\ [Next]_vars => SpinInv'
  BY SpinNext
<1>3. IInv /\ SpinInv => SpinsOnlyWhenAllSuspended
  BY SpinImplies
<1> QED
  BY <1>1, <1>2, <1>3, Inductive, PTL DEF Spec

------------------------------------------------------------------------------
(***************************************************************************)
(* main() never waits in the ready queue, and once in run() only an exit   *)
(* or an empty queue brings the processor back to it.                      *)
(***************************************************************************)
MasterNotQueued == process = "up" => Master \notin Queued /\ pc[Master] # "switched"

LEMMA MasterNotQueuedNext ==
  ASSUME IInv, MasterNotQueued, [Next]_vars
  PROVE  MasterNotQueued'
<1> USE ThreadAssumption
<1> SUFFICES ASSUME process' = "up"
             PROVE  Master \notin Queued' /\ pc'[Master] # "switched"
  BY DEF MasterNotQueued
<1>1. readyQ \in Seq(Thread) /\ Master \in Thread
  BY DEF IInv, TypeOK, Thread
<1>2. ASSUME process = "up", UNCHANGED <<readyQ, pc>>
      PROVE  Master \notin Queued' /\ pc'[Master] # "switched"
  BY <1>2 DEF MasterNotQueued, Queued
<1>3. ASSUME NEW queue \in Seq(Thread), Master \notin Members(queue), process = "up",
             Members(queue) \subseteq Queued \cup {cpu}, pc[cpu] \in {"user", "run"},
             NEW place \in {"switched", "wait"}, place = "wait" <=> cpu = Master,
             Dispatch(queue, place)
      PROVE  Master \notin Queued' /\ pc'[Master] # "switched"
  <2>1. /\ Head(queue) \in Members(queue)
        /\ \A t \in Thread \ {Head(queue), cpu} : pc'[t] = pc[t]
        /\ cpu # Head(queue) => pc'[cpu] = place
    BY <1>3, DispatchShift
  <2>2. pc'[Master] # "switched"
    BY <1>1, <1>3, <2>1 DEF MasterNotQueued
  <2>3. Queued' \subseteq Members(queue)
    <3>1. queue # << >> /\ readyQ' = Tail(queue)
      BY <1>3 DEF Dispatch
    <3>2. ASSUME NEW k \in 1 .. Len(Tail(queue))
          PROVE  Tail(queue)[k] = queue[k + 1] /\ k + 1 \in 1 .. Len(queue)
      BY <1>3, <3>1
    <3> QED
      BY <3>1, <3>2 DEF Queued, Members
  <2> QED
    BY <1>3, <2>2, <2>3
<1>4. ASSUME NEW t \in Thread, NEW w \in Worker, CreateTask(t, w)
      PROVE  Master \notin Queued' /\ pc'[Master] # "switched"
  <2>1. process = "up" /\ readyQ' = Append(readyQ, w) /\ w \in Thread /\ w # Master
    BY <1>4 DEF CreateTask, InUser, Thread
  <2>2. Queued' = Queued \cup {w}
    BY <1>1, <2>1, AppendMembers DEF Queued
  <2> QED
    BY <1>1, <1>4, <2>1, <2>2, CreateFacts DEF MasterNotQueued
<1>5. ASSUME NEW t \in Worker, Yield(t)
      PROVE  Master \notin Queued' /\ pc'[Master] # "switched"
  <2>1. t # Master
    OBVIOUS
  <2>2. process = "up" /\ cpu = t /\ pc[cpu] = "user"
        /\ Append(readyQ, cpu) \in Seq(Thread)
        /\ Members(Append(readyQ, cpu)) = Queued \cup {cpu}
        /\ Dispatch(Append(readyQ, cpu), "switched")
    BY <1>5, YieldQueue DEF RegionExit
  <2> QED
    BY <1>3, <2>1, <2>2 DEF MasterNotQueued
<1>6. ASSUME NEW t \in Worker, Suspend(t)
      PROVE  Master \notin Queued' /\ pc'[Master] # "switched"
  <2>1. process = "up" /\ cpu = t /\ pc[cpu] = "user" /\ t # Master /\ t \in Thread
    BY <1>6, InUserFacts DEF Suspend, UserCalls, Thread
  <2>2. CASE SuspendBlocks
    BY <1>1, <1>6, <2>1, <2>2, BlockTasks DEF MasterNotQueued, Queued
  <2>3. CASE Dispatch(readyQ, "switched")
    BY <1>1, <1>3, <2>1, <2>3 DEF MasterNotQueued, Queued
  <2> QED
    BY <1>6, <2>2, <2>3 DEF Suspend, RegionExit
<1>7. ASSUME NEW t \in Thread, NEW n \in Worker, Wake(t, n)
      PROVE  Master \notin Queued' /\ pc'[Master] # "switched"
  <2>1. process = "up" /\ readyQ' = Append(readyQ, n) /\ UNCHANGED pc
        /\ n \in Thread /\ n # Master
    BY <1>7 DEF Wake, UserCalls, InUser, Thread
  <2>2. Queued' = Queued \cup {n}
    BY <1>1, <2>1, AppendMembers DEF Queued
  <2> QED
    BY <2>1, <2>2 DEF MasterNotQueued
<1>8. ASSUME NEW t \in Worker, NEW n \in Worker, YieldWake(t, n) \/ SuspendWake(t, n)
      PROVE  Master \notin Queued' /\ pc'[Master] # "switched"
  <2>1. process = "up" /\ cpu = t /\ pc'[Master] = pc[Master]
    BY <1>1, <1>8, HandOffQuiet
  <2>2. t \in Thread /\ t # Master /\ current_thread = cpu
    BY <2>1, UpFacts DEF Thread
  <2>3. Queued' \subseteq Queued \cup {t}
    <3>1. CASE readyQ' = Append(readyQ, t)
      BY <1>1, <2>2, <3>1, AppendMembers DEF Queued
    <3>2. CASE readyQ' = readyQ
      BY <3>2 DEF Queued
    <3> QED
      BY <1>8, <2>1, <2>2, <3>1, <3>2 DEF YieldWake, SuspendWake
  <2> QED
    BY <2>1, <2>2, <2>3 DEF MasterNotQueued
<1>9. ASSUME NEW t \in Worker, Exit(t)
      PROVE  Master \notin Queued' /\ pc'[Master] # "switched"
  <2>1. process = "up" /\ UNCHANGED readyQ /\ pc'[Master] \in {"user", "run"}
    BY <1>9, ExitTasks
  <2> QED
    BY <2>1 DEF MasterNotQueued, Queued
<1>10. CASE Run
  <2>1. process = "up" /\ UNCHANGED readyQ /\ pc'[Master] = "run"
    BY <1>1, <1>10 DEF Run, InUser, IInv, TypeOK
  <2> QED
    BY <2>1 DEF MasterNotQueued, Queued
<1>11. CASE ThreadWait
  <2>1. process = "up" /\ cpu = Master /\ pc[Master] = "run"
    BY <1>11 DEF ThreadWait
  <2>2. CASE Dispatch(readyQ, "wait")
    BY <1>1, <1>3, <2>1, <2>2 DEF MasterNotQueued, Queued
  <2>3. CASE pc' = [pc EXCEPT ![Master] = "user"] /\ UNCHANGED readyQ
    <3>1. pc'[Master] = "user"
      BY <1>1, <2>3 DEF IInv, TypeOK
    <3> QED
      BY <2>1, <2>3, <3>1 DEF MasterNotQueued, Queued
  <2> QED
    BY <1>11, <2>2, <2>3 DEF ThreadWait
<1>12. CASE Finalize \/ Terminated
  BY <1>12 DEF Finalize, Terminated, vars
<1>13. CASE Spin \/ UNCHANGED vars
  BY <1>2, <1>13 DEF Spin, vars
<1>14. CASE \E t \in Thread, val \in BOOLEAN : SetNoSwitchRegion(t, val)
  BY <1>2, <1>14 DEF SetNoSwitchRegion, UserCalls, InUser
<1> QED
  BY <1>4, <1>5, <1>6, <1>7, <1>8, <1>9, <1>10, <1>11, <1>12, <1>13, <1>14 DEF Next

LEMMA MasterNeverQueued == Spec => []MasterNotQueued
<1>1. Init => MasterNotQueued
  BY DEF Init, MasterNotQueued, Queued, Members, Thread
<1>2. IInv /\ MasterNotQueued /\ [Next]_vars => MasterNotQueued'
  BY MasterNotQueuedNext
<1> QED
  BY <1>1, <1>2, Inductive, PTL DEF Spec

ExitsInv == reaped = {w \in Worker : pc[w] = "exit"}

LEMMA ExitsNext ==
  ASSUME IInv, MasterNotQueued, ExitsInv, [Next]_vars
  PROVE  ExitsInv'
<1>1. ASSUME UNCHANGED reaped, \A w \in Worker : pc'[w] = "exit" <=> pc[w] = "exit"
      PROVE  ExitsInv'
  BY <1>1 DEF ExitsInv
<1>2. CASE \E t \in Thread, w \in Worker : CreateTask(t, w)
  <2>1. PICK t \in Thread, w \in Worker : CreateTask(t, w)
    BY <1>2
  <2>2. UNCHANGED reaped /\ \A v \in Worker : pc'[v] = "exit" <=> pc[v] = "exit"
    BY <2>1, CreateFacts DEF Thread
  <2> QED
    BY <1>1, <2>2
<1>3. CASE \E t \in Worker : Exit(t)
  <2>1. PICK t \in Worker : Exit(t)
    BY <1>3
  <2>2. /\ reaped' = reaped \cup {t} /\ pc'[t] = "exit"
        /\ \A v \in Worker \ {t} : pc'[v] = pc[v]
    BY <2>1, ExitTasks, ThreadAssumption DEF MasterNotQueued, Thread
  <2> QED
    BY <2>2 DEF ExitsInv
<1>4. CASE \E t \in Worker : Suspend(t) /\ SuspendBlocks
  <2>1. PICK t \in Worker : Suspend(t) /\ SuspendBlocks
    BY <1>4
  <2>2. UNCHANGED reaped /\ \A v \in Worker : pc'[v] = "exit" <=> pc[v] = "exit"
    BY <2>1, BlockTasks DEF Thread
  <2> QED
    BY <1>1, <2>2
<1>5. CASE Quiet
  BY <1>1, <1>5, QuietTasks DEF Quiet
<1> QED
  BY <1>2, <1>3, <1>4, <1>5, StepKinds

\* thread_wait() of TaskScheduler.cpp is handed every worker that exits, once
\* and as it exits.
THEOREM AlwaysExitsReported == Spec => []ExitsReported
<1>1. Init => ExitsInv
  BY ThreadAssumption DEF Init, ExitsInv, Thread
<1>2. IInv /\ MasterNotQueued /\ ExitsInv /\ [Next]_vars => ExitsInv'
  BY ExitsNext
<1>3. ExitsInv => ExitsReported
  BY DEF ExitsInv, ExitsReported
<1>4. Spec => []MasterNotQueued
  BY MasterNeverQueued
<1> QED
  BY <1>1, <1>2, <1>3, <1>4, Inductive, PTL DEF Spec

------------------------------------------------------------------------------
\* run() comes back only by finding the ready queue empty.
LEMMA RunReturnsEmpty ==
  ASSUME IInv, MasterNotQueued, [Next]_vars, RunReturns
  PROVE  /\ process = "up" /\ cpu = Master /\ readyQ = << >>
         /\ pc' = [pc EXCEPT ![Master] = "user"]
         /\ UNCHANGED <<readyQ, suspended>>
<1> USE ThreadAssumption
<1>1. readyQ \in Seq(Thread) /\ Master \in Thread /\ pc \in [Thread -> Place]
      /\ pc[Master] \in {"run", "wait"} /\ pc'[Master] = "user"
  BY DEF IInv, TypeOK, Thread, RunReturns
<1>2. ASSUME NEW queue \in Seq(Thread), Master \notin Members(queue), process = "up",
             Members(queue) \subseteq Queued \cup {cpu}, pc[cpu] \in {"user", "run"},
             NEW place \in {"switched", "wait"}, place = "wait" <=> cpu = Master,
             Dispatch(queue, place)
      PROVE  FALSE
  <2>1. /\ Head(queue) \in Members(queue)
        /\ \A t \in Thread \ {Head(queue), cpu} : pc'[t] = pc[t]
        /\ cpu # Head(queue) => pc'[cpu] = place
    BY <1>2, DispatchShift
  <2> QED
    BY <1>1, <1>2, <2>1
<1>3. pc'[Master] # pc[Master]
  BY <1>1
<1>4. ASSUME NEW t \in Thread, NEW w \in Worker, CreateTask(t, w)
      PROVE  FALSE
  BY <1>1, <1>3, <1>4, CreateFacts
<1>5. ASSUME NEW t \in Worker, Yield(t)
      PROVE  FALSE
  <2>1. t # Master
    OBVIOUS
  <2>2. process = "up" /\ cpu = t /\ pc[cpu] = "user"
        /\ Append(readyQ, cpu) \in Seq(Thread)
        /\ Members(Append(readyQ, cpu)) = Queued \cup {cpu}
        /\ Dispatch(Append(readyQ, cpu), "switched")
    BY <1>3, <1>5, YieldQueue DEF RegionExit
  <2> QED
    BY <1>2, <2>1, <2>2 DEF MasterNotQueued
<1>6. ASSUME NEW t \in Worker, Suspend(t)
      PROVE  FALSE
  <2>1. process = "up" /\ cpu = t /\ pc[cpu] = "user" /\ t # Master /\ t \in Thread
    BY <1>6, InUserFacts DEF Suspend, UserCalls, Thread
  <2>2. CASE SuspendBlocks
    BY <1>1, <1>3, <1>6, <2>1, <2>2, BlockTasks
  <2>3. CASE Dispatch(readyQ, "switched")
    BY <1>1, <1>2, <2>1, <2>3 DEF MasterNotQueued, Queued
  <2> QED
    BY <1>3, <1>6, <2>2, <2>3 DEF Suspend, RegionExit
<1>7. ASSUME NEW t \in Worker, NEW n \in Worker, YieldWake(t, n) \/ SuspendWake(t, n)
      PROVE  FALSE
  BY <1>1, <1>3, <1>7, HandOffQuiet DEF Thread
<1>8. ASSUME NEW t \in Worker, Exit(t)
      PROVE  FALSE
  BY <1>1, <1>8, ExitTasks DEF MasterNotQueued
<1>9. ~Run /\ ~Finalize
  BY <1>1 DEF Run, Finalize, InUser
<1>10. ASSUME ThreadWait
       PROVE  /\ process = "up" /\ cpu = Master /\ readyQ = << >>
              /\ pc' = [pc EXCEPT ![Master] = "user"]
              /\ UNCHANGED <<readyQ, suspended>>
  <2>1. process = "up" /\ cpu = Master /\ pc[Master] = "run" /\ UNCHANGED suspended
    BY <1>10 DEF ThreadWait
  <2>2. ~Dispatch(readyQ, "wait")
    BY <1>1, <1>2, <2>1 DEF MasterNotQueued, Queued
  <2> QED
    BY <1>3, <1>10, <2>1, <2>2 DEF ThreadWait
<1>11. ASSUME UNCHANGED pc
       PROVE  FALSE
  BY <1>3, <1>11
<1> QED
  BY <1>4, <1>5, <1>6, <1>7, <1>8, <1>9, <1>10, <1>11
  DEF Next, Spin, Wake, SetNoSwitchRegion, Terminated, vars

LEMMA RunDrainsStep ==
  ASSUME IInv, MasterNotQueued, [Next]_vars, RunReturns
  PROVE  readyQ' = << >> /\ \A w \in Worker : Live(w)' => suspended'[w]
<1>1. /\ process = "up" /\ cpu = Master /\ readyQ = << >>
      /\ pc' = [pc EXCEPT ![Master] = "user"]
      /\ UNCHANGED <<readyQ, suspended>>
  BY RunReturnsEmpty
<1>2. ASSUME NEW w \in Worker, Live(w)'
      PROVE  suspended[w]
  <2>1. w \in Thread /\ w # Master /\ w \notin Queued /\ PlaceOf(w) /\ pc'[w] = pc[w]
    BY <1>1, ThreadAssumption DEF IInv, TypeOK, OnePlaceEach, Queued, Members, Thread
  <2>2. pc[w] \in Place \ {"none", "exit", "run", "wait", "finished", "user", "spin"}
    BY <1>1, <1>2, <2>1 DEF IInv, TypeOK, Live, PlaceOf
  <2> QED
    BY <2>1, <2>2 DEF PlaceOf, Place
<1> QED
  BY <1>1, <1>2

\* run() of TaskScheduler.cpp returns only when nothing is ready and every live
\* task is suspended.
THEOREM RunAlwaysDrainsReadyQ == Spec => RunDrainsReadyQ
<1>1. IInv /\ MasterNotQueued /\ [Next]_vars
        => [RunReturns => readyQ' = << >> /\ \A w \in Worker : Live(w)' => suspended'[w]]_vars
  BY RunDrainsStep
<1>2. Spec => []MasterNotQueued
  BY MasterNeverQueued
<1> QED
  BY <1>1, <1>2, Inductive, PTL DEF Spec, RunDrainsReadyQ

==============================================================================
