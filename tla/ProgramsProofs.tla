---------------------------- MODULE ProgramsProofs ----------------------------
(***************************************************************************)
(* The programs on top of the scheduler, for every number of tasks, every  *)
(* text, every hash and every amount of work: the word count's table       *)
(* counts the text, its lookups find what the table holds, and the         *)
(* switches of the benchmark are counted, whatever the tasks do in between *)
(* each other's calls.  What is proved of the scheduler is used as it is:  *)
(* a program is one of the behaviours of TaskScheduler.                    *)
(***************************************************************************)
EXTENDS Programs, TaskSchedulerProofs, SharesProofs, Induction

------------------------------------------------------------------------------
\* A program takes steps of the scheduler only, whatever its tasks compute.
LEMMA StepOfScheduler == [ProgramNext]_progVars => [Next]_vars
<1> SUFFICES ASSUME [ProgramNext]_progVars
             PROVE  [Next]_vars
  OBVIOUS
<1> USE DEF Thread
<1>1. CASE BuildTable
  BY <1>1 DEF BuildTable
<1>2. CASE CreateTasks
  BY <1>2 DEF CreateTasks, Next
<1>3. CASE StartRun
  BY <1>3 DEF StartRun, Next
<1>4. CASE InRun
  BY <1>4 DEF InRun, Next
<1>5. CASE \E t \in Worker : TaskRuns(t)
  BY <1>5 DEF TaskRuns, Next
<1>6. CASE EndMain
  BY <1>6 DEF EndMain, Next
<1>7. CASE UNCHANGED progVars
  BY <1>7 DEF progVars
<1> QED
  BY <1>1, <1>2, <1>3, <1>4, <1>5, <1>6, <1>7 DEF ProgramNext

\* The programs of the repository are behaviours of the scheduler, so that all
\* that is proved of TaskScheduler holds while they run.
THEOREM ProgramsUseScheduler == ProgramSpec => Spec
<1>1. ProgramInit => Init
  BY DEF ProgramInit
<1> QED
  BY <1>1, StepOfScheduler, PTL DEF ProgramSpec, Spec

\* What the scheduler's invariants say while a program runs.
Scheduled == IInv /\ IdsInv /\ MasterNotQueued

LEMMA AlwaysScheduled == ProgramSpec => []Scheduled
<1> QED
  BY MasterNeverQueued, ProgramsUseScheduler, Inductive, IdsInductive, PTL DEF Scheduled

------------------------------------------------------------------------------
\* What a task has of its own before it first has the processor.
Initial == [at |-> "new", accumNum |-> 0, i |-> 0, queryWord |-> NULL, node |-> 0]

CreatedTasks == {w \in Worker : Created(w)}
Exited == {w \in Worker : pc[w] = "exit"}

\* main() builds, creates all tasks, runs them, and ends when all have returned.
\* A task has its first values until it first runs, and ids go up from 1.
Base ==
  /\ process \in {"up", "success"}
  /\ ~in_no_switch_region_
  /\ main \in {"build", "run"}
  /\ \A w \in Worker : pc[w] \in {"none", "tramp", "user", "switched", "exit"} /\ ~suspended[w]
  /\ mine = [w \in Worker |-> mine[w]]
  /\ \A w \in Worker : pc[w] \in {"none", "tramp"} => mine[w] = Initial
  /\ nextId = Cardinality(CreatedTasks) + 1
  /\ \A k \in 1 .. nextId - 1 : \E w \in CreatedTasks : id[w] = k
  /\ main = "build" => /\ process = "up" /\ cpu = Master /\ pc[Master] = "user"
                       /\ \A w \in Worker : pc[w] \in {"none", "tramp"}
  /\ main = "run" => CreatedTasks = Worker
  /\ main = "run" /\ pc[Master] \in {"user", "finished"} => Exited = Worker
  /\ process = "success" => main = "run" /\ pc[Master] = "finished"

LEMMA BaseInit == ProgramInit => Base
<1> SUFFICES ASSUME ProgramInit
             PROVE  Base
  OBVIOUS
<1> USE DEF ProgramInit, Init
<1>1. \A w \in Worker : pc[w] = "none" /\ mine[w] = Initial /\ ~suspended[w]
  BY ThreadAssumption DEF Thread, Initial
<1>2. CreatedTasks = {} /\ nextId = 1
  BY <1>1 DEF CreatedTasks, Created
<1>3. Cardinality(CreatedTasks) = 0
  BY <1>2, FS_EmptySet
<1>4. nextId = Cardinality(CreatedTasks) + 1
  BY <1>2, <1>3
<1>5. \A k \in 1 .. nextId - 1 : FALSE
  BY <1>2
<1>6. pc[Master] = "user"
  BY DEF Thread
<1> QED
  BY <1>1, <1>4, <1>5, <1>6 DEF Base

\* A step that creates no task and ends none leaves the places of main() and of
\* the tasks to be looked at.
LEMMA SameTasks ==
  ASSUME IInv, Base, UNCHANGED <<id, nextId, suspended, in_no_switch_region_>>,
         \A w \in Worker : Created(w)' <=> Created(w)
  PROVE  /\ CreatedTasks' = CreatedTasks
         /\ ~in_no_switch_region_'
         /\ \A w \in Worker : ~suspended'[w]
         /\ nextId' = Cardinality(CreatedTasks') + 1
         /\ \A k \in 1 .. nextId' - 1 : \E w \in CreatedTasks' : id'[w] = k
<1>1. CreatedTasks' = CreatedTasks
  BY DEF CreatedTasks
<1> QED
  BY <1>1 DEF Base

LEMMA BuildTableBase ==
  ASSUME IInv, Base, BuildTable
  PROVE  Base'
<1>1. UNCHANGED <<vars, main, mine>>
  BY DEF BuildTable
<1> QED
  BY <1>1 DEF Base, vars, CreatedTasks, Created, Exited

LEMMA CreateTasksBase ==
  ASSUME IInv, Base, CreateTasks
  PROVE  /\ Base' /\ process = "up" /\ process' = "up" /\ main = "build"
         /\ UNCHANGED <<program, main, shared, mine>>
         /\ Exited' = Exited
         /\ \A w \in Worker : Created(w) => id'[w] = id[w]
<1>1. PICK w \in Worker : CreateTask(Master, w)
  BY DEF CreateTasks
<1>2. main = "build" /\ UNCHANGED <<program, main, shared, mine>>
  BY DEF CreateTasks
<1>3. Master \in Thread /\ w \in Thread
  BY DEF Thread
<1>4. /\ pc[w] = "none" /\ pc'[w] = "tramp"
      /\ \A v \in Thread \ {w} : pc'[v] = pc[v]
      /\ id'[w] = nextId /\ \A v \in Thread \ {w} : id'[v] = id[v]
      /\ nextId' = nextId + 1
  BY <1>1, <1>3, CreateFacts
<1>5. /\ process = "up" /\ UNCHANGED <<cpu, in_no_switch_region_, process>>
      /\ suspended' = [suspended EXCEPT ![w] = FALSE]
  BY <1>1 DEF CreateTask, InUser
<1>6. w \notin CreatedTasks /\ CreatedTasks' = CreatedTasks \cup {w}
  BY <1>4 DEF CreatedTasks, Created, Thread
<1>7. IsFiniteSet(CreatedTasks)
  BY TasksAssumption, FS_Subset DEF CreatedTasks
<1>8. Cardinality(CreatedTasks) \in Nat /\ Cardinality(CreatedTasks') = Cardinality(CreatedTasks) + 1
  BY <1>6, <1>7, FS_CardinalityType, FS_AddElement
<1>9. nextId' = Cardinality(CreatedTasks') + 1 /\ nextId \in Nat \ {0}
  BY <1>4, <1>8 DEF Base
<1>10. \A v \in Worker : Created(v) => id'[v] = id[v]
  BY <1>4, <1>6 DEF CreatedTasks, Thread
<1>11. \A k \in 1 .. nextId' - 1 : \E v \in CreatedTasks' : id'[v] = k
  <2>1. TAKE k \in 1 .. nextId' - 1
  <2>2. CASE k = nextId
    BY <1>4, <1>6, <2>2
  <2>3. CASE k # nextId
    <3>1. k \in 1 .. nextId - 1
      BY <1>4, <1>9, <2>3
    <3>2. PICK v \in CreatedTasks : id[v] = k
      BY <3>1 DEF Base
    <3> QED
      BY <1>6, <1>10, <3>2 DEF CreatedTasks
  <2> QED
    BY <2>2, <2>3
<1>12. \A v \in Worker : ~suspended'[v]
  BY <1>5 DEF Base, IInv, TypeOK, Thread
<1>13. \A v \in Worker : pc'[v] \in {"none", "tramp"} /\ pc[v] \in {"none", "tramp"}
  BY <1>2, <1>4 DEF Base, Thread
<1>14. pc'[Master] = pc[Master]
  BY <1>1, <1>3, <1>4, ThreadAssumption
<1>15. Exited' = Exited
  BY <1>13 DEF Exited
<1>16. Base'
  BY <1>2, <1>5, <1>9, <1>11, <1>12, <1>13, <1>14 DEF Base
<1> QED
  BY <1>2, <1>5, <1>10, <1>15, <1>16

LEMMA StartRunBase ==
  ASSUME IInv, Base, StartRun
  PROVE  /\ Base' /\ process = "up" /\ process' = "up"
         /\ UNCHANGED <<program, shared, mine, readyQ>> /\ cpu' = cpu
         /\ Exited' = Exited
         /\ \A w \in Worker : Created(w) => id'[w] = id[w]
<1>1. /\ main = "build" /\ main' = "run" /\ nextId = tasks + 1
      /\ UNCHANGED <<program, shared, mine>>
  BY DEF StartRun
<1>2. /\ process = "up"
      /\ UNCHANGED <<cpu, readyQ, suspended, id, nextId, in_no_switch_region_, process>>
      /\ pc' = [pc EXCEPT ![Master] = "run"]
  BY DEF StartRun, Run, InUser
<1>3. \A w \in Worker : pc'[w] = pc[w]
  BY <1>2, ThreadAssumption DEF IInv, TypeOK, Thread
<1>4. pc'[Master] = "run"
  BY <1>2 DEF IInv, TypeOK, Thread
<1>5. \A w \in Worker : Created(w)' <=> Created(w)
  BY <1>3 DEF Created
<1>6. CreatedTasks = Worker
  <2>1. Cardinality(CreatedTasks) = Cardinality(Worker)
    <3>1. Cardinality(CreatedTasks) \in Nat /\ Cardinality(Worker) \in Nat
      BY TasksAssumption, FS_Subset, FS_CardinalityType DEF CreatedTasks
    <3> QED
      BY <1>1, <3>1 DEF Base, tasks
  <2>2. CreatedTasks \subseteq Worker
    BY DEF CreatedTasks
  <2> QED
    BY <2>1, <2>2, TasksAssumption, FS_Subset
<1>7. Exited' = Exited
  BY <1>3 DEF Exited
<1>8. Base'
  BY <1>1, <1>2, <1>3, <1>4, <1>5, <1>6, SameTasks DEF Base
<1> QED
  BY <1>1, <1>2, <1>7, <1>8

LEMMA InRunBase ==
  ASSUME Scheduled, Scheduled', Base, InRun
  PROVE  /\ Base' /\ process = "up" /\ process' = "up" /\ main = "run"
         /\ UNCHANGED <<program, main, shared, mine, id>>
         /\ Exited' = Exited
         /\ \/ readyQ # << >> /\ readyQ' = Tail(readyQ) /\ cpu' = Head(readyQ)
            \/ UNCHANGED <<readyQ, cpu>>
<1> USE DEF Scheduled
<1>1. /\ process = "up" /\ cpu = Master /\ pc[Master] = "run"
      /\ UNCHANGED <<program, main, shared, mine, suspended, id, nextId, in_no_switch_region_>>
  BY DEF InRun, ThreadWait
<1>2. current_thread = Master /\ ~in_no_switch_region_ /\ main = "run"
  BY <1>1, UpFacts DEF Base
<1>3. CASE Dispatch(readyQ, "wait")
  <2>1. readyQ # << >> /\ readyQ' = Tail(readyQ) /\ cpu' = Head(readyQ)
        /\ readyQ \in Seq(Thread)
    BY <1>3 DEF Dispatch, SwitchTo, IInv, TypeOK
  <2>2. /\ Head(readyQ) \in Queued /\ Head(readyQ) \in Thread
        /\ \A t \in Thread \ {Head(readyQ), cpu} : pc'[t] = pc[t]
        /\ cpu # Head(readyQ) => pc'[cpu] = "wait"
        /\ pc'[Head(readyQ)] \in {"user", "run"}
    BY <1>1, <1>3, <2>1, DispatchShift DEF Queued
  <2>3. Head(readyQ) \in Worker
    BY <1>1, <2>2 DEF MasterNotQueued, Thread
  <2>4. process' = "up"
    <3>1. pc[Head(readyQ)] # "exit"
      BY <1>1, <2>2, <2>3, UpFacts DEF PlaceOf
    <3> QED
      BY <1>1, <1>2, <1>3, <2>3, <3>1, ThreadAssumption
      DEF Dispatch, SwitchTo, IInv, TypeOK, Thread
  <2>5. pc'[Head(readyQ)] = "user"
    BY <2>2, <2>3, <2>4, UpFacts DEF IInv, OnePlaceEach, PlaceOf
  <2>6. /\ \A w \in Worker \ {Head(readyQ)} : pc'[w] = pc[w]
        /\ pc'[Master] = "wait"
    BY <1>1, <2>2, <2>3, ThreadAssumption DEF Thread
  <2>7. pc[Head(readyQ)] \in {"tramp", "switched"}
    BY <1>1, <2>2, <2>3, UpFacts DEF PlaceOf
  <2>8. \A w \in Worker : Created(w)' <=> Created(w)
    BY <2>5, <2>6, <2>7 DEF Created
  <2>9. Exited' = Exited
    BY <2>5, <2>6, <2>7 DEF Exited
  <2>10. Base'
    BY <1>1, <1>2, <2>4, <2>5, <2>6, <2>8, SameTasks DEF Base
  <2> QED
    BY <1>1, <1>2, <2>1, <2>4, <2>9, <2>10
<1>4. CASE ~Dispatch(readyQ, "wait")
  <2>1. /\ readyQ = << >> /\ pc' = [pc EXCEPT ![Master] = "user"]
        /\ UNCHANGED <<cpu, readyQ, process>>
    BY <1>2, <1>4 DEF InRun, ThreadWait
  <2>2. \A w \in Worker : pc'[w] = pc[w]
    BY <2>1, ThreadAssumption DEF IInv, TypeOK, Thread
  <2>3. Queued = {}
    BY <2>1 DEF Queued, Members
  <2>4. \A w \in Worker : pc[w] = "exit"
    <3>1. \A w \in Worker : PlaceOf(w) /\ w # cpu
      BY <1>1, UpFacts, ThreadAssumption
    <3>2. \A w \in Worker : pc[w] # "none"
      BY <1>2 DEF Base, CreatedTasks, Created
    <3> QED
      BY <2>3, <3>1, <3>2 DEF Base, PlaceOf
  <2>5. Exited' = Exited /\ Exited = Worker
    BY <2>2, <2>4 DEF Exited
  <2>6. \A w \in Worker : Created(w)' <=> Created(w)
    BY <2>2 DEF Created
  <2>7. Base'
    BY <1>1, <1>2, <2>1, <2>2, <2>5, <2>6, SameTasks DEF Base
  <2> QED
    BY <1>1, <1>2, <2>1, <2>5, <2>7
<1> QED
  BY <1>3, <1>4

\* What the code of t does is one of its outcomes, at whose end t is behind all
\* that are ready, or has exited.
TaskStep(t, o) ==
  /\ process = "up" /\ process' = "up" /\ main = "run" /\ cpu = t
  /\ t \notin Exited /\ pc[t] = "user"
  /\ UNCHANGED <<program, main, id>>
  /\ shared' = o.shared /\ mine' = [mine EXCEPT ![t] = o.mine]
  /\ \/ /\ o.call = "yield" /\ Exited' = Exited
        /\ readyQ' = Tail(Append(readyQ, t)) /\ cpu' = Head(Append(readyQ, t))
     \/ /\ o.call # "yield" /\ Exited' = Exited \cup {t}
        /\ readyQ' = readyQ /\ cpu' = Master

LEMMA TaskRunsBase ==
  ASSUME Scheduled, Scheduled', Base, NEW t \in Worker, TaskRuns(t)
  PROVE  Base' /\ \E o \in Outcomes(t) : TaskStep(t, o)
<1> USE DEF Scheduled
<1>1. PICK o \in Outcomes(t) :
        /\ shared' = o.shared
        /\ mine' = [mine EXCEPT ![t] = o.mine]
        /\ IF o.call = "yield" THEN Yield(t) ELSE Exit(t)
  BY DEF TaskRuns
<1>2. /\ process = "up" /\ cpu = t /\ current_thread = t /\ pc[t] = "user"
      /\ t \in Thread /\ t # Master
      /\ UNCHANGED <<program, main>>
  BY InUserFacts, ThreadAssumption DEF TaskRuns, Thread
<1>3. main = "run" /\ t \notin Exited /\ ~in_no_switch_region_
  BY <1>2 DEF Base, Exited
<1>4. /\ mine' = [w \in Worker |-> mine'[w]]
      /\ \A w \in Worker \ {t} : mine'[w] = mine[w]
  BY <1>1 DEF Base
<1>5. CASE o.call = "yield"
  <2>1. Yield(t)
    BY <1>1, <1>5
  <2>2. /\ UNCHANGED <<suspended, id, nextId, in_no_switch_region_>>
        /\ Append(readyQ, t) \in Seq(Thread)
        /\ Members(Append(readyQ, t)) = Queued \cup {t}
        /\ Dispatch(Append(readyQ, t), "switched")
    BY <1>2, <1>3, <2>1, YieldQueue DEF Yield, RegionExit
  <2> DEFINE h == Head(Append(readyQ, t))
  <2>3. /\ h \in Queued \cup {t} /\ h \in Thread
        /\ \A u \in Thread \ {h, t} : pc'[u] = pc[u]
        /\ t # h => pc'[t] = "switched"
        /\ pc'[h] \in {"user", "run"}
        /\ readyQ' = Tail(Append(readyQ, t)) /\ cpu' = h
    BY <1>2, <2>2, DispatchShift DEF Dispatch, SwitchTo
  <2>4. h \in Worker /\ h # Master
    BY <1>2, <2>3, ThreadAssumption DEF MasterNotQueued, Thread
  <2> HIDE DEF h
  <2>5. pc[h] \in {"tramp", "switched", "user"}
    BY <1>2, <2>3, <2>4, UpFacts DEF PlaceOf
  <2>6. process' = "up"
    <3>1. /\ process' = IF [pc EXCEPT ![current_thread] = "switched"][h] = "exit"
                        THEN "failure" ELSE "up"
      BY <2>2 DEF Dispatch, SwitchTo, h
    <3> QED
      BY <1>2, <2>3, <2>5, <3>1 DEF IInv, TypeOK
  <2>7. pc'[h] = "user"
    BY <2>3, <2>4, <2>6, UpFacts DEF IInv, OnePlaceEach, PlaceOf
  <2>8. /\ \A w \in Worker \ {h, t} : pc'[w] = pc[w]
        /\ pc'[t] \in {"user", "switched"} /\ pc'[Master] = pc[Master]
    BY <1>2, <2>3, <2>4, <2>7 DEF Thread
  <2>9. \A w \in Worker : Created(w)' <=> Created(w)
    BY <1>2, <2>5, <2>7, <2>8 DEF Created
  <2>10. Exited' = Exited
    BY <1>2, <2>5, <2>7, <2>8 DEF Exited
  <2>11. Base'
    BY <1>2, <1>3, <1>4, <2>2, <2>6, <2>7, <2>8, <2>9, <2>10, SameTasks DEF Base
  <2>12. TaskStep(t, o)
    BY <1>1, <1>2, <1>3, <1>5, <2>2, <2>3, <2>6, <2>10 DEF TaskStep, h
  <2> QED
    BY <2>11, <2>12
<1>6. CASE o.call # "yield"
  <2>1. Exit(t)
    BY <1>1, <1>6
  <2>2. /\ UNCHANGED <<readyQ, suspended, id, nextId, in_no_switch_region_>>
        /\ cpu' = Master
    BY <2>1 DEF Exit, SwitchTo
  <2>3. /\ pc'[t] = "exit" /\ pc[Master] = "wait" /\ pc'[Master] = "run"
        /\ \A v \in Thread \ {t, Master} : pc'[v] = pc[v]
    BY <1>2, <2>1, ExitTasks DEF MasterNotQueued
  <2>4. \A w \in Worker \ {t} : pc'[w] = pc[w]
    BY <2>3, ThreadAssumption DEF Thread
  <2>5. process' = "up"
    <3>1. process' = IF [pc EXCEPT ![current_thread] = "exit"][Master] = "exit"
                     THEN "failure" ELSE "up"
      BY <2>1 DEF Exit, SwitchTo
    <3> QED
      BY <1>2, <2>3, <3>1 DEF IInv, TypeOK, Thread
  <2>6. \A w \in Worker : Created(w)' <=> Created(w)
    BY <1>2, <2>3, <2>4 DEF Created
  <2>7. Exited' = Exited \cup {t}
    BY <2>3, <2>4 DEF Exited
  <2>8. Base'
    BY <1>2, <1>3, <1>4, <2>2, <2>3, <2>4, <2>5, <2>6, SameTasks DEF Base
  <2>9. TaskStep(t, o)
    BY <1>1, <1>2, <1>3, <1>6, <2>2, <2>5, <2>7 DEF TaskStep
  <2> QED
    BY <2>8, <2>9
<1> QED
  BY <1>5, <1>6

LEMMA EndMainBase ==
  ASSUME Scheduled, Base, EndMain
  PROVE  /\ Base' /\ process = "up" /\ process' = "success"
         /\ Exited = Worker /\ Exited' = Exited
         /\ shared' = [shared EXCEPT !.mHashMap = EmptyTable]
         /\ UNCHANGED <<program, main, mine, id>>
<1> USE DEF Scheduled
<1>1. /\ main = "run" /\ shared' = [shared EXCEPT !.mHashMap = EmptyTable]
      /\ process = "up" /\ process' = "success" /\ pc[Master] = "user"
      /\ UNCHANGED <<program, main, mine, suspended, id, nextId, in_no_switch_region_>>
      /\ pc' = [pc EXCEPT ![Master] = "finished"]
  BY DEF EndMain, Finalize, InUser
<1>2. \A w \in Worker : pc'[w] = pc[w]
  BY <1>1, ThreadAssumption DEF IInv, TypeOK, Thread
<1>3. pc'[Master] = "finished"
  BY <1>1 DEF IInv, TypeOK, Thread
<1>4. Exited = Worker /\ Exited' = Exited
  BY <1>1, <1>2 DEF Base, Exited
<1>5. \A w \in Worker : Created(w)' <=> Created(w)
  BY <1>2 DEF Created
<1>6. Base'
  BY <1>1, <1>2, <1>3, <1>4, <1>5, SameTasks DEF Base
<1> QED
  BY <1>1, <1>4, <1>6

\* The steps that compute nothing: of main(), or of nobody.
Idle ==
  /\ UNCHANGED <<program, shared, mine, process>> /\ Exited' = Exited
  /\ \A w \in Worker : Created(w) => id'[w] = id[w]
  /\ main' = main \/ main' = "run"
  /\ \/ \E w \in Worker : main = "build" /\ readyQ' = Append(readyQ, w) /\ cpu' = cpu
                           /\ pc[w] = "none"
     \/ cpu = Master /\ readyQ # << >> /\ readyQ' = Tail(readyQ) /\ cpu' = Head(readyQ)
     \/ UNCHANGED <<readyQ, cpu>>

LEMMA ProgramSteps ==
  ASSUME Scheduled, Scheduled', Base, [ProgramNext]_progVars
  PROVE  /\ Base'
         /\ \/ BuildTable
            \/ \E t \in Worker : \E o \in Outcomes(t) : TaskStep(t, o)
            \/ EndMain
            \/ Idle
<1>1. CASE BuildTable
  BY <1>1, BuildTableBase DEF Scheduled
<1>2. CASE CreateTasks
  <2>1. PICK w \in Worker : CreateTask(Master, w)
    BY <1>2 DEF CreateTasks
  <2>2. readyQ' = Append(readyQ, w) /\ cpu' = cpu /\ pc[w] = "none"
    BY <2>1 DEF CreateTask
  <2> QED
    BY <1>2, <2>2, CreateTasksBase DEF Idle, Scheduled
<1>3. CASE StartRun
  BY <1>3, StartRunBase DEF Idle, Scheduled, StartRun
<1>4. CASE InRun
  <2>1. cpu = Master
    BY <1>4 DEF InRun, ThreadWait
  <2> QED
    BY <1>4, <2>1, InRunBase DEF Idle
<1>5. CASE \E t \in Worker : TaskRuns(t)
  BY <1>5, TaskRunsBase
<1>6. CASE EndMain
  BY <1>6, EndMainBase
<1>7. CASE UNCHANGED progVars
  BY <1>7 DEF progVars, vars, Idle, Base, Exited, CreatedTasks, Created
<1> QED
  BY <1>1, <1>2, <1>3, <1>4, <1>5, <1>6, <1>7 DEF ProgramNext

LEMMA AlwaysBase == ProgramSpec => []Base
<1>1. Scheduled /\ Scheduled' /\ Base /\ [ProgramNext]_progVars => Base'
  BY ProgramSteps
<1> QED
  BY <1>1, BaseInit, AlwaysScheduled, PTL DEF ProgramSpec

------------------------------------------------------------------------------
\* The table of the word count.
Node == [mWord : Word, mCount : Nat]
Occur(text, w) == Cardinality({j \in 1 .. Len(text) : text[j] = w})
InChain(chain, w) == \E k \in 1 .. Len(chain) : chain[k].mWord = w

\* Every word of a chain has the hash of the chain, stands there once, and is
\* counted as often as the text has it; and every word of the text is there.
ChainCounts(chain, b, text) ==
  /\ chain \in Seq(Node)
  /\ \A k \in 1 .. Len(chain) :
       /\ Hash[chain[k].mWord] = b
       /\ chain[k].mCount = Occur(text, chain[k].mWord)
       /\ \A l \in 1 .. Len(chain) : chain[k].mWord = chain[l].mWord => k = l
  /\ \A w \in Word : Hash[w] = b /\ ~InChain(chain, w) => Occur(text, w) = 0

Counts(table, text) ==
  /\ text \in Seq(Word)
  /\ table = [b \in Bucket |-> table[b]]
  /\ \A b \in Bucket : ChainCounts(table[b], b, text)

\* A word more in the text is one occurrence more of that word.
LEMMA OneMore ==
  ASSUME NEW text \in Seq(Word), NEW v \in Word, NEW w \in Word
  PROVE  /\ Occur(text, w) \in Nat
         /\ Occur(Append(text, v), w) = Occur(text, w) + (IF v = w THEN 1 ELSE 0)
<1> DEFINE more == Append(text, v)
           P == {j \in 1 .. Len(more) : more[j] = w}
           n == Len(more)
<1>1. n \in Nat \ {0} /\ Len(text) = n - 1 /\ more[n] = v
      /\ \A j \in 1 .. n - 1 : more[j] = text[j]
  OBVIOUS
<1>2. P \cap (1 .. n) = P
  OBVIOUS
<1>3. P \cap (1 .. n - 1) = {j \in 1 .. Len(text) : text[j] = w}
  BY <1>1
<1>4. n \in P <=> v = w
  BY <1>1
<1> HIDE DEF P, n
<1>5. /\ Cardinality(P \cap (1 .. n - 1)) \in Nat
      /\ Cardinality(P \cap (1 .. n))
         = Cardinality(P \cap (1 .. n - 1)) + (IF n \in P THEN 1 ELSE 0)
  BY <1>1, CountStep
<1> QED
  BY <1>2, <1>3, <1>4, <1>5 DEF P, n, Occur

\* Where a word is in a chain, its node is the only one and has its count.
LEMMA TheNode ==
  ASSUME NEW b, NEW text \in Seq(Word), NEW chain, ChainCounts(chain, b, text),
         NEW k \in 1 .. Len(chain)
  PROVE  /\ chain[k] \in Node /\ Hash[chain[k].mWord] = b
         /\ chain[k].mCount = Occur(text, chain[k].mWord)
         /\ \A l \in 1 .. Len(chain) : chain[l].mWord = chain[k].mWord => l = k
BY DEF ChainCounts

\* A loop over the nodes of a chain that goes on to the next one up to node k
\* comes to what it comes to there.
LEMMA WalksTo ==
  ASSUME NEW k \in Nat \ {0}, NEW walk, \A l \in 1 .. k - 1 : walk[l] = walk[l + 1]
  PROVE  walk[1] = walk[k]
<1>1. PICK S : S = {m \in 0 .. k - 1 : walk[k - m] = walk[k]}
  OBVIOUS
<1>2. 0 \in S
  BY <1>1
<1>3. ASSUME NEW m \in 1 .. k - 1, m - 1 \in S
      PROVE  m \in S
  <2>1. k - m \in 1 .. k - 1 /\ (k - m) + 1 = k - (m - 1)
    OBVIOUS
  <2>2. walk[k - m] = walk[k - (m - 1)]
    BY <2>1
  <2> QED
    BY <1>1, <1>3, <2>2
<1>4. 0 .. k - 1 \subseteq S
  <2>1. k - 1 \in Nat
    OBVIOUS
  <2> QED
    BY <1>2, <1>3, <2>1, UpTo
<1>5. k - 1 \in S /\ k - (k - 1) = 1
  BY <1>4
<1> QED
  BY <1>1, <1>5

\* getWords(): the loop counts up the node that holds the word ...
LEMMA CountedAt ==
  ASSUME NEW chain \in Seq(Node), NEW w, NEW k \in 1 .. Len(chain), chain[k].mWord = w,
         \A l \in 1 .. Len(chain) : chain[l].mWord = w => l = k
  PROVE  Counted(chain, w) = [chain EXCEPT ![k].mCount = @ + 1]
<1> DEFINE n == Len(chain)
           Up(l) == [chain EXCEPT ![l].mCount = @ + 1]
           Def(f) == f = [l \in 1 .. n |-> IF chain[l].mWord = w THEN Up(l)
                                           ELSE IF l = n THEN Append(chain, NewNode(w))
                                           ELSE f[l + 1]]
           walk == CHOOSE f : Def(f)
           g == [l \in 1 .. n |-> IF l <= k THEN Up(k) ELSE Append(chain, NewNode(w))]
<1>0. n \in Nat /\ k \in Nat /\ k >= 1 /\ k <= n /\ chain # << >>
  OBVIOUS
<1>1. Counted(chain, w) = walk[1]
  BY <1>0 DEF Counted
<1> HIDE DEF Up, n
<1>2. \A l \in 1 .. n : g[l] = IF chain[l].mWord = w THEN Up(l)
                               ELSE IF l = n THEN Append(chain, NewNode(w))
                               ELSE g[l + 1]
  <2> SUFFICES ASSUME NEW l \in 1 .. n
               PROVE  g[l] = IF chain[l].mWord = w THEN Up(l)
                             ELSE IF l = n THEN Append(chain, NewNode(w))
                             ELSE g[l + 1]
    OBVIOUS
  <2>1. chain[l].mWord = w <=> l = k
    BY DEF n
  <2>2. g[l] = IF l <= k THEN Up(k) ELSE Append(chain, NewNode(w))
    OBVIOUS
  <2>3. l # n => g[l + 1] = IF l + 1 <= k THEN Up(k) ELSE Append(chain, NewNode(w))
    BY <1>0
  <2> HIDE DEF g
  <2> QED
    BY <1>0, <2>1, <2>2, <2>3
<1>3. Def(g)
  <2>1. g = [l \in 1 .. n |-> g[l]]
    OBVIOUS
  <2> HIDE DEF g
  <2> QED
    BY <1>2, <2>1
<1>4. Def(walk)
  <2> HIDE DEF Def, g
  <2> QED
    BY <1>3
<1> HIDE DEF walk
<1>5. walk[k] = Up(k)
  BY <1>0, <1>4
<1>6. \A l \in 1 .. k - 1 : walk[l] = walk[l + 1]
  <2> SUFFICES ASSUME NEW l \in 1 .. k - 1
               PROVE  walk[l] = walk[l + 1]
    OBVIOUS
  <2>1. l \in 1 .. n /\ l # n /\ l # k
    BY <1>0
  <2>2. chain[l].mWord # w
    BY <2>1 DEF n
  <2> QED
    BY <1>4, <2>1, <2>2
<1> HIDE DEF Def
<1>7. walk[1] = walk[k]
  BY <1>0, <1>6, WalksTo
<1> QED
  BY <1>1, <1>5, <1>7 DEF Up

\* ... and appends one behind the last if none does.
LEMMA CountedNowhere ==
  ASSUME NEW chain \in Seq(Node), NEW w, \A l \in 1 .. Len(chain) : chain[l].mWord # w
  PROVE  Counted(chain, w) = Append(chain, NewNode(w))
<1> DEFINE n == Len(chain)
           Up(l) == [chain EXCEPT ![l].mCount = @ + 1]
           Def(f) == f = [l \in 1 .. n |-> IF chain[l].mWord = w THEN Up(l)
                                           ELSE IF l = n THEN Append(chain, NewNode(w))
                                           ELSE f[l + 1]]
           walk == CHOOSE f : Def(f)
           g == [l \in 1 .. n |-> Append(chain, NewNode(w))]
<1>0. CASE chain = << >>
  <2>1. Append(<< >>, NewNode(w)) = <<NewNode(w)>>
    OBVIOUS
  <2> QED
    BY <1>0, <2>1 DEF Counted
<1>1. CASE chain # << >>
  <2>1. n \in Nat \ {0}
    BY <1>1
  <2>2. Counted(chain, w) = walk[1]
    BY <1>1 DEF Counted
  <2> HIDE DEF Up, n
  <2>3. \A l \in 1 .. n : chain[l].mWord # w
    BY DEF n
  <2>4. Def(g)
    <3>1. \A l \in 1 .. n : l # n => l + 1 \in 1 .. n
      BY <2>1
    <3>2. \A l \in 1 .. n : g[l] = IF chain[l].mWord = w THEN Up(l)
                                   ELSE IF l = n THEN Append(chain, NewNode(w))
                                   ELSE g[l + 1]
      BY <2>3, <3>1
    <3>3. g = [l \in 1 .. n |-> g[l]]
      OBVIOUS
    <3> HIDE DEF g
    <3> QED
      BY <3>2, <3>3
  <2>5. Def(walk)
    <3> HIDE DEF Def, g
    <3> QED
      BY <2>4
  <2> HIDE DEF walk
  <2>6. walk[n] = Append(chain, NewNode(w))
    BY <2>1, <2>3, <2>5
  <2>7. \A l \in 1 .. n - 1 : walk[l] = walk[l + 1]
    <3> SUFFICES ASSUME NEW l \in 1 .. n - 1
                 PROVE  walk[l] = walk[l + 1]
      OBVIOUS
    <3>1. l \in 1 .. n /\ l # n
      BY <2>1
    <3> QED
      BY <2>3, <2>5, <3>1
  <2> HIDE DEF Def
  <2>8. walk[1] = walk[n]
    BY <2>1, <2>7, WalksTo
  <2> QED
    BY <2>2, <2>6, <2>8
<1> QED
  BY <1>0, <1>1

\* findCount() answers the count of the node that holds the word, 0 if none does.
LEMMA FindsCount ==
  ASSUME NEW table, NEW w, NEW chain \in Seq(Node), chain = table[Hash[w]]
  PROVE  /\ \A k \in 1 .. Len(chain) :
              chain[k].mWord = w /\ (\A l \in 1 .. Len(chain) : chain[l].mWord = w => l = k)
              => findCount(table, w) = chain[k].mCount
         /\ (\A l \in 1 .. Len(chain) : chain[l].mWord # w) => findCount(table, w) = 0
<1> DEFINE n == Len(chain)
           Def(f) == f = [l \in 1 .. n + 1 |-> IF l > n THEN 0
                                               ELSE IF chain[l].mWord = w THEN chain[l].mCount
                                               ELSE f[l + 1]]
           rst == CHOOSE f : Def(f)
<1>0. n \in Nat
  OBVIOUS
<1>1. findCount(table, w) = rst[1]
  BY DEF findCount
<1>2. ASSUME NEW g, Def(g)
      PROVE  \A l \in 1 .. n + 1 : rst[l] = IF l > n THEN 0
                                            ELSE IF chain[l].mWord = w THEN chain[l].mCount
                                            ELSE rst[l + 1]
  <2>1. Def(rst)
    <3> HIDE DEF Def
    <3> QED
      BY <1>2
  <2> HIDE DEF rst
  <2> QED
    BY <2>1
<1> HIDE DEF rst
<1>3. ASSUME NEW k \in 1 .. n, chain[k].mWord = w, \A l \in 1 .. n : chain[l].mWord = w => l = k
      PROVE  findCount(table, w) = chain[k].mCount
  <2> DEFINE g == [l \in 1 .. n + 1 |-> IF l <= k THEN chain[k].mCount ELSE 0]
  <2> HIDE DEF n
  <2>1. Def(g)
    <3>1. \A l \in 1 .. n + 1 : g[l] = IF l > n THEN 0
                                       ELSE IF chain[l].mWord = w THEN chain[l].mCount
                                       ELSE g[l + 1]
      <4> SUFFICES ASSUME NEW l \in 1 .. n + 1
                   PROVE  g[l] = IF l > n THEN 0
                                 ELSE IF chain[l].mWord = w THEN chain[l].mCount
                                 ELSE g[l + 1]
        OBVIOUS
      <4>1. ~(l > n) => (chain[l].mWord = w <=> l = k)
        BY <1>0, <1>3
      <4>2. g[l] = IF l <= k THEN chain[k].mCount ELSE 0
        OBVIOUS
      <4>3. ~(l > n) => g[l + 1] = IF l + 1 <= k THEN chain[k].mCount ELSE 0
        BY <1>0
      <4> HIDE DEF g
      <4> QED
        BY <1>0, <4>1, <4>2, <4>3
    <3>2. g = [l \in 1 .. n + 1 |-> g[l]]
      OBVIOUS
    <3> HIDE DEF g
    <3> QED
      BY <3>1, <3>2
  <2> HIDE DEF Def, g
  <2>2. \A l \in 1 .. n + 1 : rst[l] = IF l > n THEN 0
                                       ELSE IF chain[l].mWord = w THEN chain[l].mCount
                                       ELSE rst[l + 1]
    BY <1>2, <2>1
  <2>3. k \in 1 .. n + 1 /\ ~(k > n) /\ k \in Nat \ {0}
    BY <1>0
  <2>4. rst[k] = chain[k].mCount
    BY <1>3, <2>2, <2>3
  <2>5. \A l \in 1 .. k - 1 : rst[l] = rst[l + 1]
    <3> SUFFICES ASSUME NEW l \in 1 .. k - 1
                 PROVE  rst[l] = rst[l + 1]
      OBVIOUS
    <3>1. l \in 1 .. n + 1 /\ ~(l > n) /\ l \in 1 .. n /\ l # k
      BY <1>0
    <3> QED
      BY <1>3, <2>2, <3>1
  <2>6. rst[1] = rst[k]
    BY <2>3, <2>5, WalksTo
  <2> QED
    BY <1>1, <2>4, <2>6
<1>4. ASSUME \A l \in 1 .. n : chain[l].mWord # w
      PROVE  findCount(table, w) = 0
  <2> DEFINE g == [l \in 1 .. n + 1 |-> 0]
  <2> HIDE DEF n
  <2>1. Def(g)
    <3>1. \A l \in 1 .. n + 1 : ~(l > n) => chain[l].mWord # w /\ l + 1 \in 1 .. n + 1
      BY <1>0, <1>4
    <3>2. \A l \in 1 .. n + 1 : g[l] = IF l > n THEN 0
                                       ELSE IF chain[l].mWord = w THEN chain[l].mCount
                                       ELSE g[l + 1]
      BY <3>1
    <3>3. g = [l \in 1 .. n + 1 |-> g[l]]
      OBVIOUS
    <3> HIDE DEF g
    <3> QED
      BY <3>2, <3>3
  <2> HIDE DEF Def, g
  <2>2. \A l \in 1 .. n + 1 : rst[l] = IF l > n THEN 0
                                       ELSE IF chain[l].mWord = w THEN chain[l].mCount
                                       ELSE rst[l + 1]
    BY <1>2, <2>1
  <2>3. n + 1 \in 1 .. n + 1 /\ n + 1 > n /\ n + 1 \in Nat \ {0}
    BY <1>0
  <2>4. rst[n + 1] = 0
    BY <2>2, <2>3
  <2>5. \A l \in 1 .. (n + 1) - 1 : rst[l] = rst[l + 1]
    <3> SUFFICES ASSUME NEW l \in 1 .. (n + 1) - 1
                 PROVE  rst[l] = rst[l + 1]
      OBVIOUS
    <3>1. l \in 1 .. n + 1 /\ ~(l > n) /\ l \in 1 .. n
      BY <1>0
    <3> QED
      BY <1>4, <2>2, <3>1
  <2>6. rst[1] = rst[n + 1]
    BY <2>3, <2>5, WalksTo
  <2> QED
    BY <1>1, <2>4, <2>6
<1> QED
  BY <1>3, <1>4

\* getWords() counts a word up where it is ...
LEMMA CountedUp ==
  ASSUME NEW text \in Seq(Word), NEW v \in Word, NEW chain,
         ChainCounts(chain, Hash[v], text), InChain(chain, v)
  PROVE  ChainCounts(Counted(chain, v), Hash[v], Append(text, v))
<1> DEFINE c == Counted(chain, v)
<1>1. PICK first \in 1 .. Len(chain) : chain[first].mWord = v
  BY DEF InChain
<1>2. c = [chain EXCEPT ![first].mCount = @ + 1]
  <2>1. chain \in Seq(Node) /\ \A l \in 1 .. Len(chain) : chain[l].mWord = v => l = first
    BY <1>1 DEF ChainCounts
  <2> QED
    BY <1>1, <2>1, CountedAt
<1> HIDE DEF c
<1>3. /\ c \in Seq(Node) /\ Len(c) = Len(chain)
      /\ \A k \in 1 .. Len(chain) : c[k].mWord = chain[k].mWord
      /\ \A k \in 1 .. Len(chain) :
           c[k].mCount = chain[k].mCount + (IF k = first THEN 1 ELSE 0)
  <2>1. chain \in Seq(Node) /\ chain[first] \in Node
    BY <1>1 DEF ChainCounts
  <2>2. c = [chain EXCEPT ![first] = [chain[first] EXCEPT !.mCount = @ + 1]]
    BY <1>2
  <2>3. [chain[first] EXCEPT !.mCount = @ + 1] \in Node
    <3>1. \A node \in Node : [node EXCEPT !.mCount = @ + 1] \in Node
      BY DEF Node
    <3> QED
      BY <2>1, <3>1
  <2>4. c \in Seq(Node) /\ Len(c) = Len(chain)
        /\ \A k \in 1 .. Len(chain) :
             c[k] = IF k = first THEN [chain[first] EXCEPT !.mCount = @ + 1] ELSE chain[k]
    BY <1>1, <2>1, <2>2, <2>3
  <2>5. PICK n : n = [chain[first] EXCEPT !.mCount = @ + 1]
    OBVIOUS
  <2>6. n.mWord = chain[first].mWord /\ n.mCount = chain[first].mCount + 1
    BY <2>1, <2>5 DEF Node
  <2>7. \A k \in 1 .. Len(chain) : c[k] = IF k = first THEN n ELSE chain[k]
    BY <2>4, <2>5
  <2>8. \A k \in 1 .. Len(chain) : chain[k].mCount \in Nat
    <3>1. \A k \in 1 .. Len(chain) : chain[k] \in Node
      BY <2>1
    <3> QED
      BY <3>1 DEF Node
  <2> QED
    BY <1>1, <2>4, <2>6, <2>7, <2>8
<1>4. ASSUME NEW k \in 1 .. Len(c)
      PROVE  c[k].mCount = Occur(Append(text, v), c[k].mWord)
  <2>1. /\ k \in 1 .. Len(chain) /\ chain[k].mWord \in Word
        /\ chain[k].mCount = Occur(text, chain[k].mWord)
        /\ chain[k].mWord = v => k = first
    <3>1. k \in 1 .. Len(chain)
      BY <1>3
    <3>2. chain[k] \in Node
      BY <3>1, TheNode
    <3>3. chain[k].mWord \in Word
      BY <3>2 DEF Node
    <3> QED
      BY <1>1, <3>1, <3>3, TheNode
  <2>2. Occur(Append(text, v), chain[k].mWord)
        = Occur(text, chain[k].mWord) + (IF v = chain[k].mWord THEN 1 ELSE 0)
    BY <2>1, OneMore
  <2> QED
    BY <1>1, <1>3, <2>1, <2>2
<1>5. ASSUME NEW w \in Word, Hash[w] = Hash[v], ~InChain(c, w)
      PROVE  Occur(Append(text, v), w) = 0
  <2>1. ~InChain(chain, w)
    BY <1>3, <1>5 DEF InChain
  <2>2. Occur(text, w) = 0 /\ w # v
    BY <1>5, <2>1 DEF ChainCounts
  <2> QED
    BY <2>2, OneMore
<1>6. c \in Seq(Node) /\ \A k \in 1 .. Len(c) :
        /\ Hash[c[k].mWord] = Hash[v]
        /\ \A l \in 1 .. Len(c) : c[k].mWord = c[l].mWord => k = l
  BY <1>3 DEF ChainCounts
<1> QED
  BY <1>4, <1>5, <1>6 DEF ChainCounts, c

\* ... and appends it where it is not.
LEMMA CountedNew ==
  ASSUME NEW text \in Seq(Word), NEW v \in Word, NEW chain,
         ChainCounts(chain, Hash[v], text), ~InChain(chain, v)
  PROVE  ChainCounts(Counted(chain, v), Hash[v], Append(text, v))
<1> DEFINE c == Counted(chain, v)
           new == NewNode(v)
<1>1. c = Append(chain, new)
  <2>1. chain \in Seq(Node) /\ \A l \in 1 .. Len(chain) : chain[l].mWord # v
    BY DEF ChainCounts, InChain
  <2> QED
    BY <2>1, CountedNowhere
<1>2. chain \in Seq(Node) /\ new \in Node /\ new.mWord = v /\ new.mCount = 1
  BY DEF ChainCounts, Node, NewNode
<1> HIDE DEF new, c
<1>3. /\ c \in Seq(Node) /\ Len(c) = Len(chain) + 1 /\ Len(chain) \in Nat
      /\ \A k \in 1 .. Len(chain) : c[k] = chain[k]
      /\ c[Len(chain) + 1] = new
  BY <1>1, <1>2
<1>4. \A w \in Word : InChain(c, w) <=> InChain(chain, w) \/ w = v
  <2>1. TAKE w \in Word
  <2>2. ASSUME NEW k \in 1 .. Len(c), c[k].mWord = w
        PROVE  InChain(chain, w) \/ w = v
    <3>1. k \in 1 .. Len(chain) \/ k = Len(chain) + 1
      BY <1>3, <2>2
    <3> QED
      BY <1>2, <1>3, <2>2, <3>1 DEF InChain
  <2>3. ASSUME NEW k \in 1 .. Len(chain), chain[k].mWord = w
        PROVE  InChain(c, w)
    <3>1. k \in 1 .. Len(c)
      BY <1>3, <2>3
    <3> QED
      BY <1>3, <2>3, <3>1 DEF InChain
  <2>4. InChain(c, v)
    <3>1. Len(chain) + 1 \in 1 .. Len(c)
      BY <1>3
    <3> QED
      BY <1>2, <1>3, <3>1 DEF InChain
  <2> QED
    BY <2>2, <2>3, <2>4 DEF InChain
<1>5. \A k \in 1 .. Len(chain) :
        /\ chain[k].mWord \in Word /\ chain[k].mWord # v
        /\ chain[k].mCount = Occur(text, chain[k].mWord)
        /\ Hash[chain[k].mWord] = Hash[v]
  BY TheNode DEF Node, InChain
<1>6. Occur(text, v) = 0
  BY DEF ChainCounts
<1>7. ASSUME NEW k \in 1 .. Len(c)
      PROVE  /\ c[k].mCount = Occur(Append(text, v), c[k].mWord)
             /\ Hash[c[k].mWord] = Hash[v]
  <2>1. k \in 1 .. Len(chain) \/ k = Len(chain) + 1
    BY <1>3
  <2>2. CASE k \in 1 .. Len(chain)
    <3>1. /\ chain[k].mWord \in Word /\ chain[k].mWord # v
          /\ chain[k].mCount = Occur(text, chain[k].mWord) /\ Hash[chain[k].mWord] = Hash[v]
      BY <1>5, <2>2
    <3>2. Occur(Append(text, v), chain[k].mWord) = Occur(text, chain[k].mWord)
      BY <3>1, OneMore
    <3> QED
      BY <1>3, <2>2, <3>1, <3>2
  <2>3. CASE k = Len(chain) + 1
    <3>1. Occur(Append(text, v), v) = 1
      BY <1>6, OneMore
    <3> QED
      BY <1>2, <1>3, <2>3, <3>1
  <2> QED
    BY <2>1, <2>2, <2>3
<1>8. ASSUME NEW k \in 1 .. Len(c), NEW l \in 1 .. Len(c), c[k].mWord = c[l].mWord
      PROVE  k = l
  <2>1. /\ k \in 1 .. Len(chain) \/ k = Len(chain) + 1
        /\ l \in 1 .. Len(chain) \/ l = Len(chain) + 1
    BY <1>3
  <2>2. CASE k \in 1 .. Len(chain) /\ l \in 1 .. Len(chain)
    BY <1>3, <1>8, <2>2 DEF ChainCounts
  <2>3. CASE k \in 1 .. Len(chain) /\ l = Len(chain) + 1
    BY <1>2, <1>3, <1>5, <1>8, <2>3
  <2>4. CASE k = Len(chain) + 1 /\ l \in 1 .. Len(chain)
    BY <1>2, <1>3, <1>5, <1>8, <2>4
  <2> QED
    BY <2>1, <2>2, <2>3, <2>4
<1>9. ASSUME NEW w \in Word, Hash[w] = Hash[v], ~InChain(c, w)
      PROVE  Occur(Append(text, v), w) = 0
  <2>1. ~InChain(chain, w) /\ w # v
    BY <1>4, <1>9
  <2>2. Occur(text, w) = 0
    BY <1>9, <2>1 DEF ChainCounts
  <2> QED
    BY <2>1, <2>2, OneMore
<1> QED
  BY <1>3, <1>7, <1>8, <1>9 DEF ChainCounts, c

\* The chains of other hashes are not concerned.
LEMMA OtherChain ==
  ASSUME NEW text \in Seq(Word), NEW v \in Word, NEW chain, NEW b \in Bucket,
         b # Hash[v], ChainCounts(chain, b, text)
  PROVE  ChainCounts(chain, b, Append(text, v))
<1>1. ASSUME NEW w \in Word, Hash[w] = b
      PROVE  Occur(Append(text, v), w) = Occur(text, w)
  <2>1. w # v
    BY <1>1
  <2> QED
    BY <2>1, OneMore
<1>2. \A k \in 1 .. Len(chain) : chain[k] \in Node /\ Hash[chain[k].mWord] = b
  BY DEF ChainCounts
<1>3. \A k \in 1 .. Len(chain) : chain[k].mWord \in Word
  BY <1>2 DEF Node
<1>4. \A k \in 1 .. Len(chain) :
        Occur(Append(text, v), chain[k].mWord) = Occur(text, chain[k].mWord)
  BY <1>1, <1>2, <1>3
<1> QED
  BY <1>1, <1>4 DEF ChainCounts

LEMMA GetWordCounts ==
  ASSUME NEW globals, NEW v \in Word, Counts(globals.mHashMap, globals.text),
         globals = [total_switch |-> globals.total_switch,
                    total_accum |-> globals.total_accum,
                    foundCount |-> globals.foundCount,
                    mHashMap |-> globals.mHashMap,
                    text |-> globals.text, asked |-> globals.asked]
  PROVE  Counts(GetWord(globals, v).mHashMap, GetWord(globals, v).text)
<1> DEFINE table == globals.mHashMap
           text == globals.text
           after == GetWord(globals, v)
<1>1. /\ after.mHashMap = [table EXCEPT ![Hash[v]] = Counted(@, v)]
      /\ after.text = Append(text, v)
  BY DEF GetWord
<1>2. text \in Seq(Word) /\ table = [b \in Bucket |-> table[b]] /\ Hash[v] \in Bucket
      /\ \A b \in Bucket : ChainCounts(table[b], b, text)
  BY DEF Counts, Bucket
<1> HIDE DEF table, text, after
<1>3. \A b \in Bucket :
        after.mHashMap[b] = IF b = Hash[v] THEN Counted(table[b], v) ELSE table[b]
  BY <1>1, <1>2
<1>4. ASSUME NEW b \in Bucket
      PROVE  ChainCounts(after.mHashMap[b], b, Append(text, v))
  <2>1. CASE b = Hash[v]
    BY <1>2, <1>3, <2>1, CountedUp, CountedNew
  <2>2. CASE b # Hash[v]
    BY <1>2, <1>3, <2>2, OtherChain
  <2> QED
    BY <2>1, <2>2
<1>5. after.mHashMap = [b \in Bucket |-> after.mHashMap[b]]
  BY <1>1, <1>2
<1>6. Append(text, v) \in Seq(Word)
  BY <1>2
<1> QED
  BY <1>1, <1>4, <1>5, <1>6 DEF Counts, after

------------------------------------------------------------------------------
\* The lookups of the word count: the part of task idx, and what it has of its
\* own once it has a word to look up: a number of its part, and, when it stands
\* at a node, none of the nodes before it has the word.
Part(idx) == First(QUERYWORDS, tasks, idx) .. Past(QUERYWORDS, tasks, idx) - 1

Locals == [at : {"new", "chain", "node"}, accumNum : {0}, i : Nat,
           queryWord : Word \cup {NULL}, node : Nat]

Looking(idx, table, locals) ==
  /\ locals \in Locals
  /\ locals.at # "new" =>
       /\ locals.queryWord \in Word
       /\ locals.i \in Part(idx)
       /\ locals.at = "node" =>
            LET chain == table[Hash[locals.queryWord]] IN
            /\ locals.node \in 1 .. Len(chain)
            /\ \A k \in 1 .. locals.node - 1 : chain[k].mWord # locals.queryWord

Shaped(globals) ==
  globals = [total_switch |-> globals.total_switch, total_accum |-> globals.total_accum,
             foundCount |-> globals.foundCount, mHashMap |-> globals.mHashMap,
             text |-> globals.text, asked |-> globals.asked]

LEMMA TasksNumber == tasks \in Nat \ {0}
<1>1. tasks \in Nat /\ (tasks = 0 <=> Worker = {})
  BY TasksAssumption, FS_CardinalityType, FS_EmptySet DEF tasks
<1> QED
  BY <1>1, TasksAssumption

LEMMA PartFacts ==
  ASSUME NEW idx \in 0 .. tasks - 1
  PROVE  /\ First(QUERYWORDS, tasks, idx) \in Nat
         /\ Past(QUERYWORDS, tasks, idx) \in 0 .. QUERYWORDS
         /\ First(QUERYWORDS, tasks, idx) <= Past(QUERYWORDS, tasks, idx)
<1>1. QUERYWORDS \in Nat /\ tasks \in Nat \ {0}
  BY CountAssumption, TasksNumber
<1>2. /\ First(QUERYWORDS, tasks, idx) \in Nat
      /\ Past(QUERYWORDS, tasks, idx) \in 0 .. QUERYWORDS
  BY <1>1, SharesCover
<1>3. /\ Past(QUERYWORDS, tasks, idx)
         = First(QUERYWORDS, tasks, idx) + ShareLen(QUERYWORDS, tasks, idx)
      /\ ShareLen(QUERYWORDS, tasks, idx)
         \in {QUERYWORDS \div tasks, QUERYWORDS \div tasks + 1}
  BY <1>1, SharesTile
<1>4. QUERYWORDS \div tasks \in Nat
  BY <1>1, Division
<1> QED
  BY <1>2, <1>3, <1>4

\* Taking up the i-th word.
Takes(idx, i, globals, locals, o) ==
  /\ o.shared = globals
  /\ \/ /\ o.call = "yield" /\ i < Past(QUERYWORDS, tasks, idx)
        /\ o.mine.at = "chain" /\ o.mine.i = i /\ o.mine.queryWord \in Word
        /\ o.mine \in Locals
     \/ /\ o.call = "return" /\ i >= Past(QUERYWORDS, tasks, idx)
        /\ o.mine = locals

LEMMA AskNextTakes ==
  ASSUME NEW idx \in 0 .. tasks - 1, NEW i \in Nat, NEW globals, NEW locals \in Locals,
         NEW o \in AskNext(idx, i, globals, locals)
  PROVE  Takes(idx, i, globals, locals, o)
<1>1. Past(QUERYWORDS, tasks, idx) \in Int
  BY PartFacts
<1>2. CASE i < Past(QUERYWORDS, tasks, idx)
  <2>1. PICK w \in Word :
          o = Yields(globals, [locals EXCEPT !.at = "chain", !.i = i, !.queryWord = w])
    BY <1>2 DEF AskNext
  <2>2. PICK m : m = [locals EXCEPT !.at = "chain", !.i = i, !.queryWord = w]
    OBVIOUS
  <2>3. m \in Locals /\ m.at = "chain" /\ m.i = i /\ m.queryWord = w
    BY <2>2 DEF Locals
  <2>4. o.shared = globals /\ o.mine = m /\ o.call = "yield"
    BY <2>1, <2>2 DEF Yields
  <2> QED
    BY <1>2, <2>3, <2>4 DEF Takes
<1>3. CASE ~(i < Past(QUERYWORDS, tasks, idx))
  <2>1. o = Returns(globals, locals)
    BY <1>3 DEF AskNext
  <2>2. o.shared = globals /\ o.mine = locals /\ o.call = "return"
    BY <2>1 DEF Returns
  <2> QED
    BY <1>1, <1>3, <2>2 DEF Takes
<1> QED
  BY <1>2, <1>3

\* What a task of the word count does up to its next call: it may answer its word,
\* with the number of times the text has it, and take up the next; or move on.
Answered(globals, w) ==
  [globals EXCEPT !.foundCount = @ + Occur(globals.text, w), !.asked[w] = @ + 1]
NextWord(idx, locals, done) ==
  IF locals.at = "new" THEN First(QUERYWORDS, tasks, idx)
  ELSE locals.i + (IF done THEN 1 ELSE 0)
Queries(idx, globals, locals, o, done) ==
  /\ done => locals.at # "new" /\ o.shared = Answered(globals, locals.queryWord)
  /\ ~done => o.shared = globals
  /\ \/ /\ o.call = "yield" /\ Looking(idx, globals.mHashMap, o.mine)
        /\ o.mine.at # "new" /\ o.mine.i = NextWord(idx, locals, done)
     \/ /\ o.call = "return" /\ o.mine = locals
        /\ NextWord(idx, locals, done) >= Past(QUERYWORDS, tasks, idx)

LEMMA AnswerQueries ==
  ASSUME NEW idx \in 0 .. tasks - 1, NEW globals, NEW locals,
         Looking(idx, globals.mHashMap, locals), locals.at # "new",
         NEW count, count = Occur(globals.text, locals.queryWord),
         NEW o \in Answer(idx, globals, locals, count)
  PROVE  Queries(idx, globals, locals, o, TRUE)
<1> DEFINE after == [globals EXCEPT !.foundCount = @ + count, !.asked[locals.queryWord] = @ + 1]
<1>1. /\ locals \in Locals /\ locals.i \in Part(idx) /\ locals.i + 1 \in Nat
      /\ First(QUERYWORDS, tasks, idx) \in Nat /\ Past(QUERYWORDS, tasks, idx) \in Int
  BY PartFacts DEF Looking, Part
<1>2. o \in AskNext(idx, locals.i + 1, after, locals)
  BY DEF Answer
<1>3. after = Answered(globals, locals.queryWord)
  BY DEF Answered
<1> HIDE DEF after
<1>4. Takes(idx, locals.i + 1, after, locals, o)
  BY <1>1, <1>2, AskNextTakes
<1>5. NextWord(idx, locals, TRUE) = locals.i + 1
  BY DEF NextWord
<1>6. o.shared = Answered(globals, locals.queryWord)
  BY <1>3, <1>4 DEF Takes
<1>7. CASE o.call = "yield" /\ o.mine.at = "chain"
  <2>1. locals.i + 1 \in Part(idx)
    BY <1>1, <1>4, <1>7 DEF Takes, Part
  <2>2. Looking(idx, globals.mHashMap, o.mine) /\ o.mine.i = locals.i + 1
    BY <1>4, <1>7, <2>1 DEF Takes, Looking
  <2> QED
    BY <1>5, <1>6, <1>7, <2>2 DEF Queries
<1>8. CASE o.call = "return"
  BY <1>4, <1>5, <1>6, <1>8 DEF Takes, Queries
<1> QED
  BY <1>4, <1>7, <1>8 DEF Takes

LEMMA ToNodeQueries ==
  ASSUME NEW idx \in 0 .. tasks - 1, NEW globals, NEW locals,
         Counts(globals.mHashMap, globals.text),
         Looking(idx, globals.mHashMap, locals), locals.at # "new",
         NEW chain, chain = globals.mHashMap[Hash[locals.queryWord]],
         NEW node \in Nat \ {0}, node <= Len(chain) + 1,
         \A k \in 1 .. node - 1 : chain[k].mWord # locals.queryWord,
         NEW o \in ToNode(idx, globals, locals, chain, node)
  PROVE  \E done \in BOOLEAN : Queries(idx, globals, locals, o, done)
<1> DEFINE w == locals.queryWord
<1>1. w \in Word /\ Hash[w] \in Bucket /\ locals \in Locals
  BY DEF Looking, Bucket
<1>2. ChainCounts(chain, Hash[w], globals.text) /\ Len(chain) \in Nat
  <2>1. ChainCounts(chain, Hash[w], globals.text)
    BY <1>1 DEF Counts
  <2>2. chain \in Seq(Node)
    BY <2>1 DEF ChainCounts
  <2> QED
    BY <2>1, <2>2
<1>3. CASE node > Len(chain)
  <2>1. ~InChain(chain, w)
    BY <1>2, <1>3 DEF InChain
  <2>2. Occur(globals.text, w) = 0
    BY <1>1, <1>2, <2>1 DEF ChainCounts
  <2> QED
    BY <1>3, <2>2, AnswerQueries DEF ToNode
<1>4. CASE ~(node > Len(chain))
  <2>1. o = Yields(globals, [locals EXCEPT !.at = "node", !.node = node])
    BY <1>4 DEF ToNode
  <2>2. PICK m : m = [locals EXCEPT !.at = "node", !.node = node]
    OBVIOUS
  <2>3. /\ m \in Locals /\ m.at = "node" /\ m.node = node
        /\ m.i = locals.i /\ m.queryWord = w
    BY <1>1, <2>2 DEF Locals
  <2>4. o.shared = globals /\ o.mine = m /\ o.call = "yield"
    BY <2>1, <2>2 DEF Yields
  <2>5. node \in 1 .. Len(chain)
    BY <1>2, <1>4
  <2>6. Looking(idx, globals.mHashMap, m)
    BY <1>1, <2>3, <2>5 DEF Looking
  <2>7. NextWord(idx, locals, FALSE) = locals.i
    BY <1>1 DEF NextWord, Locals
  <2> QED
    BY <2>3, <2>4, <2>6, <2>7 DEF Queries
<1> QED
  BY <1>3, <1>4

LEMMA QueryTask ==
  ASSUME NEW idx \in 0 .. tasks - 1, NEW globals, NEW locals,
         Counts(globals.mHashMap, globals.text),
         Looking(idx, globals.mHashMap, locals),
         NEW o \in queryTask(idx, globals, locals)
  PROVE  \E done \in BOOLEAN : Queries(idx, globals, locals, o, done)
<1> DEFINE w == locals.queryWord
           chain == globals.mHashMap[Hash[w]]
<1>1. locals \in Locals /\ locals.at \in {"new", "chain", "node"}
  BY DEF Looking, Locals
<1>2. CASE locals.at = "new"
  <2>1. /\ First(QUERYWORDS, tasks, idx) \in Nat /\ Past(QUERYWORDS, tasks, idx) \in Int
        /\ First(QUERYWORDS, tasks, idx) <= Past(QUERYWORDS, tasks, idx)
    BY PartFacts
  <2>2. o \in AskNext(idx, First(QUERYWORDS, tasks, idx), globals, locals)
    BY <1>2 DEF queryTask
  <2>3. Takes(idx, First(QUERYWORDS, tasks, idx), globals, locals, o)
    BY <1>1, <2>1, <2>2, AskNextTakes
  <2>4. NextWord(idx, locals, FALSE) = First(QUERYWORDS, tasks, idx)
    BY <1>2 DEF NextWord
  <2>5. Queries(idx, globals, locals, o, FALSE)
    <3>1. CASE o.call = "yield" /\ o.mine.at = "chain"
      <4>1. First(QUERYWORDS, tasks, idx) \in Part(idx)
        BY <2>1, <2>3, <3>1 DEF Takes, Part
      <4> QED
        BY <2>3, <2>4, <3>1, <4>1 DEF Takes, Queries, Looking
    <3>2. CASE o.call = "return"
      BY <2>3, <2>4, <3>2 DEF Takes, Queries
    <3> QED
      BY <2>3, <3>1, <3>2 DEF Takes
  <2> QED
    BY <2>5
<1>3. CASE locals.at = "chain"
  <2>1. o \in ToNode(idx, globals, locals, chain, 1)
    BY <1>3 DEF queryTask
  <2>2. w \in Word /\ Hash[w] \in Bucket
    BY <1>3 DEF Looking, Bucket
  <2>3. Len(chain) \in Nat
    BY <2>2 DEF Counts, ChainCounts
  <2>4. 1 \in Nat \ {0} /\ 1 <= Len(chain) + 1 /\ \A k \in 1 .. 1 - 1 : FALSE
    BY <2>3
  <2> HIDE DEF chain, w
  <2> QED
    BY <1>3, <2>1, <2>4, ToNodeQueries DEF chain, w
<1>4. CASE locals.at = "node"
  <2>1. /\ w \in Word /\ Hash[w] \in Bucket /\ locals.node \in 1 .. Len(chain)
        /\ \A k \in 1 .. locals.node - 1 : chain[k].mWord # w
    BY <1>4 DEF Looking, Bucket
  <2>2. ChainCounts(chain, Hash[w], globals.text) /\ Len(chain) \in Nat
    <3>1. ChainCounts(chain, Hash[w], globals.text)
      BY <2>1 DEF Counts
    <3>2. chain \in Seq(Node)
      BY <3>1 DEF ChainCounts
    <3> HIDE DEF chain
    <3> QED
      BY <3>1, <3>2
  <2>3. CASE chain[locals.node].mWord = w
    <3>1. chain[locals.node].mCount = Occur(globals.text, w)
      BY <2>1, <2>2, <2>3 DEF ChainCounts
    <3>2. o \in Answer(idx, globals, locals, chain[locals.node].mCount)
      BY <1>4, <2>3 DEF queryTask
    <3> QED
      BY <1>4, <3>1, <3>2, AnswerQueries
  <2>4. CASE chain[locals.node].mWord # w
    <3>1. o \in ToNode(idx, globals, locals, chain, locals.node + 1)
      BY <1>4, <2>4 DEF queryTask, NodeAfter
    <3>2. PICK node : node = locals.node + 1
      OBVIOUS
    <3> HIDE DEF chain, w
    <3>3. /\ node \in Nat \ {0} /\ node <= Len(chain) + 1
          /\ \A k \in 1 .. node - 1 : chain[k].mWord # w
      <4>1. \A k \in 1 .. node - 1 : k \in 1 .. locals.node - 1 \/ k = locals.node
        BY <2>1, <3>2
      <4>2. node \in Nat \ {0} /\ node <= Len(chain) + 1
        BY <2>1, <3>2
      <4> QED
        BY <2>1, <2>4, <4>1, <4>2
    <3> QED
      BY <1>4, <3>1, <3>2, <3>3, ToNodeQueries DEF chain, w
  <2> QED
    BY <2>3, <2>4
<1> QED
  BY <1>1, <1>2, <1>3, <1>4

------------------------------------------------------------------------------
\* The lookups a task has made, and those that all tasks have made.
Made(w) ==
  IF pc[w] = "exit" THEN Part(id[w] - 1)
  ELSE IF mine[w].at = "new" THEN {}
  ELSE First(QUERYWORDS, tasks, id[w] - 1) .. mine[w].i - 1
AllMade == {k \in 0 .. QUERYWORDS - 1 : \E w \in Worker : k \in Made(w)}

\* What the lookups of each word have found.
Found(asked, text) == [w \in Word |-> asked[w] * Occur(text, w)]

Zeros == [w \in Word |-> 0]

\* The sums are over all words; with each lookup made one of their terms changes.
Looked ==
  /\ \A w \in Worker : pc[w] # "exit" => Looking(id[w] - 1, shared.mHashMap, mine[w])
  /\ shared.text \in Seq(Word)
  /\ shared.asked \in [Word -> Nat]
  /\ shared.foundCount \in Int
  /\ main = "build" => shared.foundCount = 0 /\ shared.asked = Zeros
  /\ SumFunction(shared.asked) = Cardinality(AllMade)
  /\ shared.foundCount = SumFunction(Found(shared.asked, shared.text))

LEMMA OccurNat ==
  ASSUME NEW text \in Seq(Word), NEW w
  PROVE  Occur(text, w) \in Nat
<1>1. IsFiniteSet(1 .. Len(text))
  BY FS_Interval
<1>2. IsFiniteSet({j \in 1 .. Len(text) : text[j] = w})
  BY <1>1, FS_Subset
<1> QED
  BY <1>2, FS_CardinalityType DEF Occur

LEMMA FoundType ==
  ASSUME NEW asked \in [Word -> Nat], NEW text \in Seq(Word)
  PROVE  Found(asked, text) \in [Word -> Int] /\ asked \in [Word -> Int]
<1>1. ASSUME NEW w \in Word
      PROVE  asked[w] * Occur(text, w) \in Int
  <2>1. asked[w] \in Nat /\ Occur(text, w) \in Nat
    BY OccurNat
  <2> QED
    BY <2>1
<1> QED
  BY <1>1 DEF Found

LEMMA NothingFound ==
  ASSUME NEW text \in Seq(Word)
  PROVE  SumFunction(Zeros) = 0 /\ SumFunction(Found(Zeros, text)) = 0
<1>1. SumFunction(Zeros) = 0
  BY WordAssumption, SumOfZeros DEF Zeros
<1>2. \A w \in Word : Zeros[w] * Occur(text, w) = 0
  <2>1. \A w \in Word : Occur(text, w) \in Nat
    BY OccurNat
  <2> QED
    BY <2>1 DEF Zeros
<1>3. Found(Zeros, text) = Zeros
  BY <1>2 DEF Found, Zeros
<1> QED
  BY <1>1, <1>3

LEMMA MadeFinite == IsFiniteSet(AllMade)
<1>1. IsFiniteSet(0 .. QUERYWORDS - 1)
  BY CountAssumption, FS_Interval
<1> QED
  BY <1>1, FS_Subset DEF AllMade

\* A created task has one of the parts.
LEMMA TaskPart ==
  ASSUME Scheduled, Base, NEW w \in Worker, Created(w), main = "run"
  PROVE  id[w] - 1 \in 0 .. tasks - 1
<1>1. id[w] \in 1 .. nextId - 1
  BY DEF Scheduled, IdsInv
<1>2. nextId = tasks + 1
  BY DEF Base, tasks
<1> QED
  BY <1>1, <1>2, TasksNumber

\* A task makes the lookups of its part only.
LEMMA MadeInPart ==
  ASSUME Scheduled, Base, Looked, NEW w \in Worker
  PROVE  Made(w) \subseteq Part(id[w] - 1)
<1>1. CASE pc[w] = "exit" \/ mine[w].at = "new"
  BY <1>1 DEF Made
<1>2. CASE pc[w] # "exit" /\ mine[w].at # "new"
  <2>1. mine[w].i \in Part(id[w] - 1)
    BY <1>2 DEF Looked, Looking
  <2>2. main = "run" /\ Created(w)
    <3>1. pc[w] \notin {"none", "tramp"}
      BY <1>2 DEF Base, Initial
    <3> QED
      BY <3>1 DEF Base, Created
  <2>3. /\ First(QUERYWORDS, tasks, id[w] - 1) \in Nat
        /\ Past(QUERYWORDS, tasks, id[w] - 1) \in Int
    BY <2>2, TaskPart, PartFacts
  <2> QED
    BY <1>2, <2>1, <2>3 DEF Made, Part
<1> QED
  BY <1>1, <1>2

\* No lookup is left out once all tasks have exited.
LEMMA AllLookedUp ==
  ASSUME Scheduled, Base, main = "run", Exited = Worker
  PROVE  AllMade = 0 .. QUERYWORDS - 1
<1>1. ASSUME NEW k \in 0 .. QUERYWORDS - 1
      PROVE  \E w \in Worker : k \in Made(w)
  <2>1. PICK i \in 0 .. tasks - 1 : k \in Part(i)
    BY CountAssumption, TasksNumber, SharesCover DEF Part
  <2>2. nextId = tasks + 1 /\ i + 1 \in 1 .. nextId - 1 /\ i \in Int
    BY TasksNumber DEF Base, tasks
  <2>3. PICK w \in CreatedTasks : id[w] = i + 1
    BY <2>2 DEF Base
  <2>4. w \in Worker /\ pc[w] = "exit" /\ id[w] - 1 = i
    BY <2>2, <2>3 DEF CreatedTasks, Exited
  <2> QED
    BY <2>1, <2>4 DEF Made
<1> QED
  BY <1>1 DEF AllMade

LEMMA WordSum ==
  ASSUME NEW f \in [Word -> Int], NEW h \in [Word -> Int], NEW w \in Word,
         \A v \in Word : v # w => h[v] = f[v]
  PROVE  /\ SumFunction(f) \in Int
         /\ SumFunction(h) = SumFunction(f) + (h[w] - f[w])
<1>1. IsFiniteSet(Word)
  BY WordAssumption
<1> QED
  BY <1>1, SumChanges

\* An answer adds one lookup, and what it finds, to the sums.
LEMMA AnswerSums ==
  ASSUME NEW asked \in [Word -> Nat], NEW text \in Seq(Word), NEW w \in Word,
         NEW after \in [Word -> Nat], after[w] = asked[w] + 1,
         \A v \in Word : v # w => after[v] = asked[v]
  PROVE  /\ SumFunction(asked) \in Int
         /\ SumFunction(after) = SumFunction(asked) + 1
         /\ SumFunction(Found(asked, text)) \in Int
         /\ SumFunction(Found(after, text)) = SumFunction(Found(asked, text)) + Occur(text, w)
<1>1. IsFiniteSet(Word) /\ asked[w] \in Nat
  BY WordAssumption
<1>2. /\ Found(asked, text) \in [Word -> Int] /\ Found(after, text) \in [Word -> Int]
      /\ asked \in [Word -> Int] /\ after \in [Word -> Int]
  BY FoundType
<1>3. /\ SumFunction(asked) \in Int
      /\ SumFunction(after) = SumFunction(asked) + (after[w] - asked[w])
  BY <1>2, WordSum
<1>4. \A v \in Word : v # w => Found(after, text)[v] = Found(asked, text)[v]
  BY DEF Found
<1>5. PICK f, h : f = Found(asked, text) /\ h = Found(after, text)
  OBVIOUS
<1>6. /\ SumFunction(f) \in Int
      /\ SumFunction(h) = SumFunction(f) + (h[w] - f[w])
  <2>1. f \in [Word -> Int] /\ h \in [Word -> Int] /\ \A v \in Word : v # w => h[v] = f[v]
    BY <1>2, <1>4, <1>5
  <2> QED
    BY <2>1, WordSum
<1>7. h[w] - f[w] = Occur(text, w)
  <2>1. /\ h[w] = (asked[w] + 1) * Occur(text, w)
        /\ f[w] = asked[w] * Occur(text, w)
    BY <1>5 DEF Found
  <2>2. Occur(text, w) \in Nat
    BY OccurNat
  <2>3. ASSUME NEW a \in Nat, NEW n \in Nat
        PROVE  (a + 1) * n - a * n = n
    BY <2>3
  <2> QED
    BY <1>1, <2>1, <2>2, <2>3
<1>8. SumFunction(after) = SumFunction(asked) + 1
  BY <1>1, <1>3
<1> QED
  BY <1>3, <1>5, <1>6, <1>7, <1>8

LEMMA QueryLooked ==
  ASSUME Scheduled, Scheduled', Base, Base', Looked, Shaped(shared),
         Counts(shared.mHashMap, shared.text), program = "wordcount",
         NEW t \in Worker, NEW o \in Outcomes(t), TaskStep(t, o)
  PROVE  /\ Looked' /\ Shaped(shared)'
         /\ shared'.mHashMap = shared.mHashMap /\ shared'.text = shared.text
<1> DEFINE idx == id[t] - 1
           m == mine[t]
           k == m.i
<1>1. /\ main = "run" /\ main' = "run" /\ t \notin Exited /\ pc[t] = "user"
      /\ id' = id /\ shared' = o.shared /\ mine' = [mine EXCEPT ![t] = o.mine]
      /\ o.call = "yield" => Exited' = Exited
      /\ o.call # "yield" => Exited' = Exited \cup {t}
  BY DEF TaskStep
<1>2. idx \in 0 .. tasks - 1
  BY <1>1, TaskPart DEF Created
<1>3. Looking(idx, shared.mHashMap, m)
  BY <1>1 DEF Looked
<1>4. o \in queryTask(idx, shared, m)
  BY DEF Outcomes
<1>5. PICK done \in BOOLEAN : Queries(idx, shared, m, o, done)
  BY <1>2, <1>3, <1>4, QueryTask
<1>6. /\ First(QUERYWORDS, tasks, idx) \in Nat
      /\ Past(QUERYWORDS, tasks, idx) \in 0 .. QUERYWORDS
      /\ First(QUERYWORDS, tasks, idx) <= Past(QUERYWORDS, tasks, idx)
  BY <1>2, PartFacts
<1>7. m.at # "new" => /\ k \in Part(idx) /\ m.queryWord \in Word
                      /\ k \in First(QUERYWORDS, tasks, idx) .. Past(QUERYWORDS, tasks, idx) - 1
  BY <1>3 DEF Looking, Part
<1>8. /\ mine'[t] = o.mine
      /\ \A w \in Worker \ {t} : mine'[w] = mine[w]
  BY <1>1 DEF Base
<1> HIDE DEF idx, m, k
<1>9. Made(t)' = Made(t) \cup (IF done THEN {k} ELSE {})
  <2>1. Made(t) = IF m.at = "new" THEN {} ELSE First(QUERYWORDS, tasks, idx) .. k - 1
    BY <1>1 DEF Made, idx, m, k
  <2>2. NextWord(idx, m, done)
        = IF m.at = "new" THEN First(QUERYWORDS, tasks, idx) ELSE k + (IF done THEN 1 ELSE 0)
    BY DEF NextWord, k
  <2>3. done => m.at # "new"
    BY <1>5 DEF Queries
  <2>4. CASE o.call = "yield"
    <3>1. /\ o.mine.at # "new" /\ o.mine.i = NextWord(idx, m, done)
      BY <1>5, <2>4 DEF Queries
    <3>2. pc'[t] # "exit"
      BY <1>1, <2>4 DEF Exited
    <3>3. Made(t)' = First(QUERYWORDS, tasks, idx) .. NextWord(idx, m, done) - 1
      BY <1>1, <1>8, <3>1, <3>2 DEF Made, idx
    <3> QED
      BY <1>6, <1>7, <2>1, <2>2, <2>3, <3>3
  <2>5. CASE o.call # "yield"
    <3>1. NextWord(idx, m, done) >= Past(QUERYWORDS, tasks, idx)
      BY <1>5, <2>5 DEF Queries
    <3>2. pc'[t] = "exit"
      BY <1>1, <2>5 DEF Exited
    <3>3. Made(t)' = First(QUERYWORDS, tasks, idx) .. Past(QUERYWORDS, tasks, idx) - 1
      BY <1>1, <3>2 DEF Made, idx, Part
    <3> QED
      BY <1>6, <1>7, <2>1, <2>2, <2>3, <3>1, <3>3
  <2> QED
    BY <2>4, <2>5
<1>10. \A w \in Worker \ {t} : (pc'[w] = "exit" <=> pc[w] = "exit") /\ Made(w)' = Made(w)
  <2>1. \A w \in Worker \ {t} : pc'[w] = "exit" <=> pc[w] = "exit"
    BY <1>1 DEF Exited
  <2> QED
    BY <1>1, <1>8, <2>1 DEF Made
<1>11. /\ shared'.mHashMap = shared.mHashMap /\ shared'.text = shared.text
       /\ Shaped(shared)'
       /\ done => /\ shared'.foundCount = shared.foundCount + Occur(shared.text, m.queryWord)
                  /\ shared'.asked = [shared.asked EXCEPT ![m.queryWord] = @ + 1]
       /\ ~done => shared' = shared
  <2>1. CASE done
    <3>1. shared' = Answered(shared, m.queryWord)
      BY <1>1, <1>5, <2>1 DEF Queries
    <3> QED
      BY <2>1, <3>1 DEF Answered, Shaped
  <2>2. CASE ~done
    <3>1. shared' = shared
      BY <1>1, <1>5, <2>2 DEF Queries
    <3> QED
      BY <2>2, <3>1 DEF Shaped
  <2> QED
    BY <2>1, <2>2
<1>12. ASSUME NEW w \in Worker, pc'[w] # "exit"
       PROVE  Looking(id'[w] - 1, shared'.mHashMap, mine'[w])
  <2>1. CASE w = t
    <3>1. o.call = "yield"
      BY <1>1, <1>12, <2>1 DEF Exited
    <3>2. Looking(idx, shared.mHashMap, o.mine)
      BY <1>5, <3>1 DEF Queries
    <3> QED
      BY <1>1, <1>8, <1>11, <2>1, <3>2 DEF idx
  <2>2. CASE w # t
    BY <1>1, <1>8, <1>10, <1>11, <1>12, <2>2 DEF Looked
  <2> QED
    BY <2>1, <2>2
<1>13. /\ shared'.asked \in [Word -> Nat] /\ shared'.foundCount \in Int
       /\ SumFunction(shared'.asked) = Cardinality(AllMade')
       /\ shared'.foundCount = SumFunction(Found(shared'.asked, shared'.text))
  <2>1. CASE ~done
    <3>1. \A w \in Worker : Made(w)' = Made(w)
      BY <1>9, <1>10, <2>1
    <3>2. AllMade' = AllMade
      BY <3>1 DEF AllMade
    <3> QED
      BY <1>11, <2>1, <3>2 DEF Looked
  <2>2. CASE done
    <3>1. m.at # "new" /\ k \in Part(idx) /\ m.queryWord \in Word
      BY <1>5, <1>7, <2>2 DEF Queries
    <3>2. k \in 0 .. QUERYWORDS - 1
      BY <1>6, <1>7, <3>1, CountAssumption
    <3>3. k \notin Made(t)
      <4>1. Made(t) = First(QUERYWORDS, tasks, idx) .. k - 1
        BY <1>1, <3>1 DEF Made, idx, m, k
      <4> QED
        BY <1>6, <3>2, <4>1
    <3>4. ASSUME NEW w \in Worker \ {t}
          PROVE  k \notin Made(w)
      <4>1. Created(w) /\ Created(t)
        BY <1>1 DEF Base, CreatedTasks
      <4>2. id[w] # id[t]
        BY <4>1 DEF Scheduled, IdsInv
      <4>3. id[w] - 1 \in 0 .. tasks - 1 /\ id[w] \in Nat /\ id[t] \in Nat
        BY <1>1, <4>1, TaskPart DEF Scheduled, IInv, TypeOK, Thread
      <4>4. id[w] - 1 # idx
        BY <4>2, <4>3 DEF idx
      <4>5. Part(id[w] - 1) \cap Part(idx) = {}
        BY <1>2, <4>3, <4>4, CountAssumption, TasksNumber, SharesAreDisjoint DEF Part
      <4> QED
        BY <3>1, <4>5, MadeInPart
    <3>5. AllMade' = AllMade \cup {k} /\ k \notin AllMade
      <4>1. k \notin AllMade
        BY <3>3, <3>4 DEF AllMade
      <4>2. Made(t)' = Made(t) \cup {k}
        BY <1>9, <2>2
      <4>3. \A j : (\E w \in Worker : j \in Made(w)') <=> (\E w \in Worker : j \in Made(w)) \/ j = k
        BY <1>10, <4>2
      <4> QED
        BY <3>2, <4>1, <4>3 DEF AllMade
    <3>6. Cardinality(AllMade') = Cardinality(AllMade) + 1
      BY <3>5, MadeFinite, FS_AddElement
    <3>7. shared.asked \in [Word -> Nat] /\ shared.text \in Seq(Word) /\ shared.foundCount \in Int
      BY DEF Looked
    <3>8. /\ shared'.asked \in [Word -> Nat]
          /\ SumFunction(shared'.asked) = SumFunction(shared.asked) + 1
          /\ SumFunction(Found(shared'.asked, shared.text))
             = SumFunction(Found(shared.asked, shared.text)) + Occur(shared.text, m.queryWord)
      <4>1. shared'.asked = [shared.asked EXCEPT ![m.queryWord] = @ + 1]
        BY <1>11, <2>2
      <4>2. PICK asked \in [Word -> Nat], text \in Seq(Word), w \in Word :
              asked = shared.asked /\ text = shared.text /\ w = m.queryWord
        BY <3>1, <3>7
      <4>3. PICK after \in [Word -> Nat] : after = [asked EXCEPT ![w] = @ + 1]
        <5>1. [asked EXCEPT ![w] = @ + 1] \in [Word -> Nat]
          OBVIOUS
        <5> QED
          BY <5>1
      <4>4. after[w] = asked[w] + 1 /\ \A v \in Word : v # w => after[v] = asked[v]
        BY <4>3
      <4>5. /\ SumFunction(after) = SumFunction(asked) + 1
            /\ SumFunction(Found(after, text)) = SumFunction(Found(asked, text)) + Occur(text, w)
        BY <4>4, AnswerSums
      <4>6. after = shared'.asked
        BY <4>1, <4>2, <4>3
      <4> QED
        BY <4>2, <4>5, <4>6
    <3>9. Occur(shared.text, m.queryWord) \in Nat
      BY <3>7, OccurNat
    <3> QED
      BY <1>11, <2>2, <3>6, <3>7, <3>8, <3>9 DEF Looked
  <2> QED
    BY <2>1, <2>2
<1> QED
  BY <1>1, <1>11, <1>12, <1>13 DEF Looked

------------------------------------------------------------------------------
\* The benchmark pureyield.  As the tasks take turns, all have begun before the
\* first counts a switch: those that are new stand before all others.
YieldLocals == [at : {"new", "switch"}, accumNum : Nat, i : {0},
                queryWord : {NULL}, node : {0}]
New(w) == mine[w].at = "new"
NewFirst ==
  \A k \in 1 .. Len(readyQ) : New(readyQ[k]) =>
    /\ \A l \in 1 .. k - 1 : New(readyQ[l])
    /\ cpu \in Worker => New(cpu)

\* Twice what the rounds of a task have added: a task that yielded has yet to
\* add the last.
Rounds(a, last) == IF last THEN a * (a + 1) ELSE a * (a - 1)
Added == [w \in Worker |-> Rounds(mine[w].accumNum, pc[w] = "exit")]

Switched ==
  /\ mine \in [Worker -> YieldLocals]
  /\ \A w \in Worker : New(w) => mine[w].accumNum = 0
  /\ shared.total_switch \in Nat /\ shared.total_accum \in Nat
  /\ shared.total_switch <= TOTAL_SWITCH => Exited = {}
  /\ shared.total_switch > TOTAL_SWITCH =>
       shared.total_switch = TOTAL_SWITCH + Cardinality(Exited)
  /\ shared.total_switch > 0 => \A w \in Worker : ~New(w)
  /\ process = "up" => NewFirst
  /\ 2 * shared.total_accum = SumFunction(Added)

\* What a task of pureyield does up to its next call.
Mytask(globals, locals, o) ==
  LET begun == locals.at # "new"
      a == locals.accumNum
      switches == globals.total_switch + (IF begun THEN 1 ELSE 0)
      accum == globals.total_accum + (IF begun THEN a ELSE 0) IN
  /\ Shaped(o.shared)
  /\ o.shared.mHashMap = globals.mHashMap /\ o.shared.text = globals.text
  /\ o.shared.total_switch = switches
  /\ \/ /\ switches > TOTAL_SWITCH
        /\ o.call = "return" /\ o.mine = locals /\ o.shared.total_accum = accum
     \/ /\ ~(switches > TOTAL_SWITCH)
        /\ o.call = "yield" /\ o.mine \in YieldLocals /\ o.mine.at = "switch"
        /\ o.mine.accumNum = a + 3
        /\ o.shared.total_accum = accum + (a + 1) + (a + 2)

LEMMA LoopOfMytask ==
  ASSUME NEW globals, Shaped(globals), NEW locals \in YieldLocals,
         NEW o, o = MytaskLoop(globals, locals)
  PROVE  /\ Shaped(o.shared)
         /\ o.shared.mHashMap = globals.mHashMap /\ o.shared.text = globals.text
         /\ o.shared.total_switch = globals.total_switch
         /\ \/ /\ globals.total_switch > TOTAL_SWITCH
               /\ o.call = "return" /\ o.mine = locals
               /\ o.shared.total_accum = globals.total_accum
            \/ /\ ~(globals.total_switch > TOTAL_SWITCH)
               /\ o.call = "yield" /\ o.mine \in YieldLocals /\ o.mine.at = "switch"
               /\ o.mine.accumNum = locals.accumNum + 3
               /\ o.shared.total_accum
                  = globals.total_accum + (locals.accumNum + 1) + (locals.accumNum + 2)
<1>1. CASE globals.total_switch > TOTAL_SWITCH
  <2>1. o.shared = globals /\ o.mine = locals /\ o.call = "return"
    BY <1>1 DEF MytaskLoop, Returns
  <2> QED
    BY <1>1, <2>1
<1>2. CASE ~(globals.total_switch > TOTAL_SWITCH)
  <2> DEFINE a == locals.accumNum
             g == [globals EXCEPT !.total_accum = @ + (a + 1) + (a + 2)]
             m == [locals EXCEPT !.at = "switch", !.accumNum = a + 3]
  <2>1. o.shared = g /\ o.mine = m /\ o.call = "yield"
    BY <1>2 DEF MytaskLoop, Yields
  <2>2. m \in YieldLocals /\ m.at = "switch" /\ m.accumNum = a + 3
    <3>1. PICK next : next = a + 3
      OBVIOUS
    <3>2. next \in Nat
      BY <3>1 DEF YieldLocals
    <3>3. m = [locals EXCEPT !.at = "switch", !.accumNum = next]
      BY <3>1
    <3> HIDE DEF m, a
    <3> QED
      BY <3>1, <3>2, <3>3 DEF YieldLocals
  <2>3. /\ Shaped(g) /\ g.mHashMap = globals.mHashMap /\ g.text = globals.text
        /\ g.total_switch = globals.total_switch
        /\ g.total_accum = globals.total_accum + (a + 1) + (a + 2)
    BY DEF Shaped
  <2> QED
    BY <1>2, <2>1, <2>2, <2>3
<1> QED
  BY <1>1, <1>2

LEMMA PureyieldTask ==
  ASSUME NEW globals, Shaped(globals), NEW locals \in YieldLocals,
         globals.total_switch \in Nat, globals.total_accum \in Nat,
         NEW o \in pureyieldTask(globals, locals)
  PROVE  Mytask(globals, locals, o)
<1>1. CASE locals.at = "new"
  <2>1. o = MytaskLoop(globals, locals)
    BY <1>1 DEF pureyieldTask
  <2>2. /\ globals.total_switch + 0 = globals.total_switch
        /\ globals.total_accum + 0 = globals.total_accum
    OBVIOUS
  <2> QED
    BY <1>1, <2>1, <2>2, LoopOfMytask DEF Mytask
<1>2. CASE locals.at # "new"
  <2> DEFINE g == [globals EXCEPT !.total_switch = @ + 1,
                                  !.total_accum = @ + locals.accumNum]
  <2>1. o = MytaskLoop(g, locals)
    BY <1>2 DEF pureyieldTask, MytaskResumed
  <2>2. /\ Shaped(g) /\ g.mHashMap = globals.mHashMap /\ g.text = globals.text
        /\ g.total_switch = globals.total_switch + 1
        /\ g.total_accum = globals.total_accum + locals.accumNum
    <3>1. PICK s, accum :
            s = globals.total_switch + 1 /\ accum = globals.total_accum + locals.accumNum
      OBVIOUS
    <3>2. g = [globals EXCEPT !.total_switch = s, !.total_accum = accum]
      BY <3>1
    <3> HIDE DEF g
    <3>3. /\ Shaped(g) /\ g.mHashMap = globals.mHashMap /\ g.text = globals.text
          /\ g.total_switch = s /\ g.total_accum = accum
      BY <3>2 DEF Shaped
    <3> QED
      BY <3>1, <3>3
  <2> HIDE DEF g
  <2> QED
    BY <1>2, <2>1, <2>2, LoopOfMytask DEF Mytask
<1> QED
  BY <1>1, <1>2

LEMMA ExitedFinite ==
  /\ IsFiniteSet(Exited) /\ Cardinality(Exited) \in Nat
  /\ \A t \in Worker : t \notin Exited =>
       Cardinality(Exited \cup {t}) = Cardinality(Exited) + 1
<1>1. IsFiniteSet(Exited)
  BY TasksAssumption, FS_Subset DEF Exited
<1> QED
  BY <1>1, FS_CardinalityType, FS_AddElement

\* Only the first and the last call of a task change what its rounds add up to.
LEMMA RoundsStep ==
  ASSUME NEW a \in Nat
  PROVE  /\ Rounds(a, FALSE) \in Int /\ Rounds(a, TRUE) \in Int
         /\ Rounds(a, TRUE) - Rounds(a, FALSE) = 2 * a
         /\ Rounds(a + 3, FALSE) - Rounds(a, FALSE) = 2 * (a + (a + 1) + (a + 2))
<1>1. PICK q \in Int : q = a * a
  <2>1. a * a \in Int
    OBVIOUS
  <2> QED
    BY <2>1
<1>2. a * (a + 1) = q + a /\ a * (a - 1) = q - a
  BY <1>1
<1>3. (a + 3) * ((a + 3) - 1) = q + 5 * a + 6
  BY <1>1
<1> QED
  BY <1>2, <1>3 DEF Rounds

LEMMA TaskSum ==
  ASSUME NEW f \in [Worker -> Int], NEW h \in [Worker -> Int], NEW t \in Worker,
         \A v \in Worker : v # t => h[v] = f[v]
  PROVE  /\ SumFunction(f) \in Int
         /\ SumFunction(h) = SumFunction(f) + (h[t] - f[t])
<1>1. IsFiniteSet(Worker)
  BY TasksAssumption
<1> QED
  BY <1>1, SumChanges

\* Who is ready is a task.
LEMMA ReadyTasks ==
  ASSUME Scheduled, process = "up"
  PROVE  /\ readyQ \in Seq(Thread)
         /\ \A k \in 1 .. Len(readyQ) : readyQ[k] \in Worker /\ readyQ[k] # cpu
<1>1. readyQ \in Seq(Thread)
  BY DEF Scheduled, IInv, TypeOK
<1>2. ASSUME NEW k \in 1 .. Len(readyQ)
      PROVE  readyQ[k] \in Worker /\ readyQ[k] # cpu
  <2>1. readyQ[k] \in Queued /\ readyQ[k] \in Thread
    BY <1>1 DEF Queued, Members
  <2>2. readyQ[k] \in Worker
    BY <2>1 DEF Scheduled, MasterNotQueued, Thread
  <2> QED
    BY <2>1, <2>2, UpFacts DEF Scheduled, PlaceOf
<1> QED
  BY <1>1, <1>2

\* Arithmetic of the next lemma: what is before k now was before k + 1.
LEMMA Earlier ==
  ASSUME NEW n \in Int, NEW k \in Int, k <= n - 1, NEW l \in 1 .. k - 1
  PROVE  l \in 1 .. n - 1 /\ l + 1 \in 1 .. k + 1 - 1
  OBVIOUS

\* The order is kept when the oldest ready task gets the processor, also if
\* the task that had it goes to the end, past the first call of its loop.
LEMMA OrderKept ==
  ASSUME Scheduled, process = "up", NewFirst, mine' = [w \in Worker |-> mine'[w]],
         NEW queue \in Seq(Thread), queue # << >>,
         readyQ' = Tail(queue), cpu' = Head(queue),
         \/ queue = readyQ /\ mine' = mine
         \/ /\ cpu \in Worker /\ queue = Append(readyQ, cpu) /\ mine'[cpu].at # "new"
            /\ \A w \in Worker \ {cpu} : mine'[w] = mine[w]
  PROVE  NewFirst'
<1>1. /\ readyQ \in Seq(Thread)
      /\ \A k \in 1 .. Len(readyQ) : readyQ[k] \in Worker /\ readyQ[k] # cpu
  BY ReadyTasks
<1>2. PICK n \in Nat \ {0}, rest \in Seq(Thread) :
        /\ rest = readyQ' /\ n = Len(queue) /\ Len(rest) = n - 1
        /\ \A k \in 1 .. n - 1 : rest[k] = queue[k + 1]
        /\ Head(queue) = queue[1]
  <2>1. /\ Tail(queue) \in Seq(Thread)
        /\ Len(Tail(queue)) = Len(queue) - 1 /\ Len(queue) \in Nat \ {0}
        /\ \A k \in 1 .. Len(queue) - 1 : Tail(queue)[k] = queue[k + 1]
        /\ Head(queue) = queue[1]
    OBVIOUS
  <2> QED
    BY <2>1
<1>3. ASSUME NEW k \in 1 .. Len(queue), New(queue[k])'
      PROVE  \A l \in 1 .. k - 1 : New(queue[l])'
  <2>1. k \in 1 .. Len(readyQ) /\ queue[k] = readyQ[k]
        /\ \A l \in 1 .. k - 1 : l \in 1 .. Len(readyQ) /\ queue[l] = readyQ[l]
    <3>1. CASE queue = readyQ
      BY <1>3, <3>1
    <3>2. CASE queue = Append(readyQ, cpu) /\ mine'[cpu].at # "new"
      <4>1. /\ Len(queue) = Len(readyQ) + 1 /\ queue[Len(readyQ) + 1] = cpu
            /\ \A l \in 1 .. Len(readyQ) : queue[l] = readyQ[l]
        BY <1>1, <3>2
      <4>2. queue[k] # cpu
        BY <1>3, <3>2 DEF New
      <4>3. k # Len(readyQ) + 1
        BY <4>1, <4>2
      <4>4. Len(readyQ) \in Nat
        BY <1>1
      <4>5. k \in 1 .. Len(readyQ)
        BY <4>1, <4>3, <4>4
      <4>6. \A l \in 1 .. k - 1 : l \in 1 .. Len(readyQ)
        BY <4>4, <4>5
      <4> QED
        BY <4>1, <4>5, <4>6
    <3> QED
      BY <3>1, <3>2
  <2>2. \A l \in 1 .. Len(readyQ) : mine'[readyQ[l]] = mine[readyQ[l]]
    BY <1>1
  <2>3. New(readyQ[k])
    BY <1>3, <2>1, <2>2 DEF New
  <2>4. \A l \in 1 .. k - 1 : New(readyQ[l])
    BY <2>1, <2>3 DEF NewFirst
  <2> QED
    BY <2>1, <2>2, <2>4 DEF New
<1>4. ASSUME NEW k \in 1 .. Len(readyQ'), New(readyQ[k])'
      PROVE  (\A l \in 1 .. k - 1 : New(readyQ[l])') /\ New(cpu)'
  <2>0. k \in 1 .. n - 1
    BY <1>2, <1>4
  <2>1. PICK next \in 1 .. n : next = k + 1 /\ readyQ'[k] = queue[next]
    <3>1. k + 1 \in 1 .. n
      BY <2>0
    <3> QED
      BY <1>2, <2>0, <3>1
  <2>2. New(queue[next])'
    BY <1>4, <2>1 DEF New
  <2>3. \A l \in 1 .. next - 1 : New(queue[l])'
    BY <1>2, <1>3, <2>2
  <2>4. \A l \in 1 .. k - 1 : l + 1 \in 1 .. next - 1 /\ readyQ'[l] = queue[l + 1]
    <3>1. n \in Int /\ k \in Int /\ k <= n - 1 /\ next = k + 1
      BY <2>0, <2>1
    <3>2. ASSUME NEW l \in 1 .. k - 1
          PROVE  l \in 1 .. n - 1 /\ l + 1 \in 1 .. next - 1
      BY <3>1, Earlier
    <3> QED
      BY <1>2, <3>2
  <2>5. 1 \in 1 .. next - 1
    BY <2>0, <2>1
  <2>6. \A l \in 1 .. k - 1 : New(readyQ[l])'
    BY <2>3, <2>4 DEF New
  <2>7. New(cpu)'
    BY <1>2, <2>3, <2>5 DEF New
  <2> QED
    BY <2>6, <2>7
<1> QED
  BY <1>4 DEF NewFirst

\* A task that comes back from its call finds none that is still to begin.
LEMMA AllHaveBegun ==
  ASSUME Scheduled, Base, Switched, process = "up", main = "run",
         cpu \in Worker, ~New(cpu)
  PROVE  \A w \in Worker : ~New(w)
<1> SUFFICES ASSUME NEW w \in Worker, New(w)
             PROVE  FALSE
  OBVIOUS
<1>1. PlaceOf(w) /\ w # cpu
  BY UpFacts DEF Scheduled
<1>2. CASE pc[w] = "exit"
  <2>1. w \in Exited
    BY <1>2 DEF Exited
  <2>2. shared.total_switch > TOTAL_SWITCH
    BY <2>1, CountAssumption DEF Switched
  <2>3. shared.total_switch > 0
    BY <2>2, CountAssumption DEF Switched
  <2> QED
    BY <2>3 DEF Switched
<1>3. CASE pc[w] # "exit"
  <2>1. pc[w] \in {"tramp", "switched"} /\ ~suspended[w]
    BY <1>1, <1>3 DEF Base, PlaceOf, CreatedTasks, Created
  <2>2. w \in Queued
    BY <1>1, <2>1 DEF PlaceOf
  <2>3. PICK k \in 1 .. Len(readyQ) : readyQ[k] = w
    BY <2>2 DEF Queued, Members
  <2> QED
    BY <2>3 DEF Switched, NewFirst
<1> QED
  BY <1>2, <1>3

LEMMA AddedType ==
  ASSUME Switched
  PROVE  Added \in [Worker -> Int]
<1>1. \A w \in Worker : mine[w].accumNum \in Nat
  BY DEF Switched, YieldLocals
<1>2. \A w \in Worker : Rounds(mine[w].accumNum, pc[w] = "exit") \in Int
  <2>1. \A w \in Worker : Rounds(mine[w].accumNum, TRUE) \in Int
                          /\ Rounds(mine[w].accumNum, FALSE) \in Int
    BY <1>1, RoundsStep
  <2> QED
    BY <2>1
<1> QED
  BY <1>2 DEF Added

LEMMA MytaskSwitched ==
  ASSUME Scheduled, Scheduled', Base, Base', Switched, Shaped(shared), program = "pureyield",
         NEW t \in Worker, NEW o \in Outcomes(t), TaskStep(t, o)
  PROVE  /\ Switched' /\ Shaped(shared)'
         /\ shared'.mHashMap = shared.mHashMap /\ shared'.text = shared.text
<1> DEFINE m == mine[t]
           a == m.accumNum
           total == shared.total_switch
<1>1. /\ process = "up" /\ main = "run" /\ cpu = t /\ t \notin Exited /\ pc[t] = "user"
      /\ shared' = o.shared /\ mine' = [mine EXCEPT ![t] = o.mine]
  BY DEF TaskStep
<1>2. /\ m \in YieldLocals /\ a \in Nat /\ total \in Nat /\ shared.total_accum \in Nat
      /\ m.at = "new" => a = 0
  BY DEF Switched, YieldLocals, New
<1>3. Mytask(shared, m, o)
  <2>1. o \in pureyieldTask(shared, m)
    BY DEF Outcomes
  <2> QED
    BY <1>2, <2>1, PureyieldTask
<1>4. /\ Shaped(shared)' /\ shared'.mHashMap = shared.mHashMap /\ shared'.text = shared.text
  BY <1>1, <1>3 DEF Mytask
<1>5. /\ mine'[t] = o.mine /\ \A w \in Worker \ {t} : mine'[w] = mine[w]
      /\ mine' = [w \in Worker |-> mine'[w]]
  BY <1>1 DEF Base
<1>6. \A w \in Worker \ {t} : pc'[w] = "exit" <=> pc[w] = "exit"
  BY DEF TaskStep, Exited
<1> HIDE DEF m, a, total
<1>7. m.at = "new" => total = 0
  BY <1>2 DEF Switched, New, m, total
<1>8. m.at # "new" => \A w \in Worker : ~New(w)
  BY <1>1, AllHaveBegun DEF New, m
<1>9. \A w \in Worker : Added'[w] = Rounds(mine'[w].accumNum, pc'[w] = "exit")
                        /\ Added[w] = Rounds(mine[w].accumNum, pc[w] = "exit")
  BY DEF Added
<1>10. \A w \in Worker \ {t} : Added'[w] = Added[w]
  BY <1>5, <1>6, <1>9
<1>11. pc[t] # "exit" /\ Added[t] = Rounds(a, FALSE)
  BY <1>1, <1>9 DEF a, m
<1>12. CASE o.call = "yield"
  <2>1. /\ Exited' = Exited
        /\ readyQ' = Tail(Append(readyQ, t)) /\ cpu' = Head(Append(readyQ, t))
    BY <1>12 DEF TaskStep
  <2>2. /\ o.mine \in YieldLocals /\ o.mine.at = "switch" /\ o.mine.accumNum = a + 3
        /\ shared'.total_switch = total + (IF m.at # "new" THEN 1 ELSE 0)
        /\ ~(shared'.total_switch > TOTAL_SWITCH)
        /\ shared'.total_accum
           = shared.total_accum + (IF m.at # "new" THEN a ELSE 0) + (a + 1) + (a + 2)
    BY <1>1, <1>3, <1>12 DEF Mytask, a, m, total
  <2>3. shared'.total_accum = shared.total_accum + (a + (a + 1) + (a + 2))
    BY <1>2, <2>2
  <2>4. pc'[t] # "exit" /\ Added'[t] = Rounds(a + 3, FALSE)
    <3>1. pc'[t] # "exit"
      BY <1>1, <2>1 DEF Exited
    <3>2. mine'[t].accumNum = a + 3
      BY <1>5, <2>2
    <3>3. Added'[t] = Rounds(mine'[t].accumNum, pc'[t] = "exit")
      BY <1>9
    <3>4. (pc'[t] = "exit") = FALSE
      BY <3>1
    <3> QED
      BY <3>1, <3>2, <3>3, <3>4
  <2>5. /\ mine' \in [Worker -> YieldLocals]
        /\ \A w \in Worker : New(w)' => mine'[w].accumNum = 0
    BY <1>1, <1>5, <2>2 DEF Switched, New
  <2>6. /\ shared'.total_switch \in Nat /\ shared'.total_accum \in Nat
        /\ shared'.total_switch <= TOTAL_SWITCH
    BY <1>2, <2>2, <2>3, CountAssumption
  <2>7. Exited' = {}
    <3>1. total <= TOTAL_SWITCH
      BY <1>2, <2>2, <2>6, CountAssumption
    <3> QED
      BY <2>1, <3>1 DEF Switched, total
  <2>8. shared'.total_switch > 0 => \A w \in Worker : ~New(w)'
    <3>1. shared'.total_switch > 0 => m.at # "new"
      BY <1>7, <2>2
    <3>2. m.at # "new" => \A w \in Worker : ~New(w)'
      BY <1>5, <1>8, <2>2 DEF New
    <3> QED
      BY <3>1, <3>2
  <2>9. NewFirst'
    <3>1. readyQ \in Seq(Thread) /\ t \in Thread
      <4>1. process = "up"
        BY <1>1
      <4>2. readyQ \in Seq(Thread)
        BY <4>1, ReadyTasks
      <4> QED
        BY <4>2 DEF Thread
    <3>2. Append(readyQ, t) \in Seq(Thread) /\ Append(readyQ, t) # << >>
      BY <3>1, AppendMembers
    <3>3. PICK queue \in Seq(Thread) : queue = Append(readyQ, t)
      BY <3>2
    <3>4. mine'[cpu].at # "new"
      BY <1>1, <1>5, <2>2
    <3> QED
      BY <1>1, <1>5, <2>1, <3>2, <3>3, <3>4, OrderKept DEF Switched
  <2>10. 2 * shared'.total_accum = SumFunction(Added')
    <3>1. Added' \in [Worker -> Int]
      <4>1. \A w \in Worker : Added'[w] \in Int
        <5>1. Added'[t] \in Int
          <6>1. a + 3 \in Nat
            BY <1>2
          <6> QED
            BY <2>4, <6>1, RoundsStep
        <5> QED
          BY <1>10, <5>1, AddedType
      <4> QED
        BY <4>1 DEF Added
    <3>2. PICK f, h : f = Added /\ h = Added'
      OBVIOUS
    <3>3. /\ f \in [Worker -> Int] /\ h \in [Worker -> Int]
          /\ \A w \in Worker : w # t => h[w] = f[w]
      BY <1>10, <3>1, <3>2, AddedType
    <3>4. SumFunction(f) \in Int /\ SumFunction(h) = SumFunction(f) + (h[t] - f[t])
      BY <3>3, TaskSum
    <3>5. h[t] - f[t] = 2 * (a + (a + 1) + (a + 2))
      BY <1>2, <1>11, <2>4, <3>2, RoundsStep
    <3>6. 2 * shared.total_accum = SumFunction(f)
      BY <3>2 DEF Switched
    <3> QED
      BY <1>2, <2>3, <3>2, <3>4, <3>5, <3>6
  <2> QED
    BY <1>4, <2>2, <2>5, <2>6, <2>7, <2>8, <2>9, <2>10 DEF Switched
<1>13. CASE o.call # "yield"
  <2>1. /\ Exited' = Exited \cup {t} /\ readyQ' = readyQ /\ cpu' = Master
    BY <1>13 DEF TaskStep
  <2>2. /\ o.mine = m
        /\ shared'.total_switch = total + (IF m.at # "new" THEN 1 ELSE 0)
        /\ shared'.total_switch > TOTAL_SWITCH
        /\ shared'.total_accum = shared.total_accum + (IF m.at # "new" THEN a ELSE 0)
    BY <1>1, <1>3, <1>13 DEF Mytask, a, m, total
  <2>3. m.at # "new"
    BY <1>2, <1>7, <2>2, CountAssumption
  <2>4. mine' = mine
    BY <1>1, <1>5, <2>2 DEF m, Switched
  <2>5. /\ shared'.total_switch = total + 1
        /\ shared'.total_accum = shared.total_accum + a
    BY <2>2, <2>3
  <2>6. \A w \in Worker : ~New(w)'
    BY <1>8, <2>3, <2>4 DEF New
  <2>7. pc'[t] = "exit" /\ Added'[t] = Rounds(a, TRUE)
    <3>1. pc'[t] = "exit"
      BY <2>1 DEF Exited
    <3> QED
      BY <1>9, <2>4, <3>1 DEF a, m
  <2>8. shared'.total_switch = TOTAL_SWITCH + Cardinality(Exited')
    <3>1. Cardinality(Exited') = Cardinality(Exited) + 1 /\ Cardinality(Exited) \in Nat
      BY <1>1, <2>1, ExitedFinite
    <3>2. CASE total <= TOTAL_SWITCH
      <4>1. Exited = {} /\ total = TOTAL_SWITCH
        BY <1>2, <2>2, <2>5, <3>2, CountAssumption DEF Switched, total
      <4>2. Cardinality(Exited) = 0
        BY <4>1, FS_EmptySet
      <4> QED
        BY <2>5, <3>1, <4>1, <4>2, CountAssumption
    <3>3. CASE ~(total <= TOTAL_SWITCH)
      <4>1. total = TOTAL_SWITCH + Cardinality(Exited)
        BY <1>2, <3>3, CountAssumption DEF Switched, total
      <4> QED
        BY <2>5, <3>1, <4>1, CountAssumption
    <3> QED
      BY <3>2, <3>3
  <2>9. /\ shared'.total_switch \in Nat /\ shared'.total_accum \in Nat
        /\ ~(shared'.total_switch <= TOTAL_SWITCH)
    BY <1>2, <2>2, <2>5, CountAssumption
  <2>10. NewFirst'
    <3>1. \A k \in 1 .. Len(readyQ') : readyQ'[k] \in Worker
      BY <1>1, <2>1, ReadyTasks
    <3>2. \A k \in 1 .. Len(readyQ') : ~New(readyQ[k])'
      BY <2>6, <3>1 DEF New
    <3> QED
      BY <3>2 DEF NewFirst
  <2>11. 2 * shared'.total_accum = SumFunction(Added')
    <3>1. Added' \in [Worker -> Int]
      <4>1. \A w \in Worker : Added'[w] \in Int
        <5>1. Added'[t] \in Int
          BY <1>2, <2>7, RoundsStep
        <5> QED
          BY <1>10, <5>1, AddedType
      <4> QED
        BY <4>1 DEF Added
    <3>2. PICK f, h : f = Added /\ h = Added'
      OBVIOUS
    <3>3. /\ f \in [Worker -> Int] /\ h \in [Worker -> Int]
          /\ \A w \in Worker : w # t => h[w] = f[w]
      BY <1>10, <3>1, <3>2, AddedType
    <3>4. SumFunction(f) \in Int /\ SumFunction(h) = SumFunction(f) + (h[t] - f[t])
      BY <3>3, TaskSum
    <3>5. h[t] - f[t] = 2 * a
      BY <1>2, <1>11, <2>7, <3>2, RoundsStep
    <3>6. 2 * shared.total_accum = SumFunction(f)
      BY <3>2 DEF Switched
    <3> QED
      BY <1>2, <2>5, <3>2, <3>4, <3>5, <3>6
  <2> QED
    BY <1>4, <2>4, <2>6, <2>8, <2>9, <2>10, <2>11 DEF Switched, New
<1> QED
  BY <1>12, <1>13


------------------------------------------------------------------------------
\* The example hello_world, and all the programs together.
Greeted == shared.total_switch = Cardinality(Exited)

LEMMA HelloGreeted ==
  ASSUME Greeted, Shaped(shared), program = "hello_world",
         NEW t \in Worker, NEW o \in Outcomes(t), TaskStep(t, o)
  PROVE  /\ Greeted' /\ Shaped(shared)'
         /\ shared'.mHashMap = shared.mHashMap /\ shared'.text = shared.text
<1>1. o = Returns([shared EXCEPT !.total_switch = @ + 1], mine[t])
  BY DEF Outcomes, helloTask
<1>2. /\ o.call = "return" /\ shared' = [shared EXCEPT !.total_switch = @ + 1]
  BY <1>1 DEF Returns, TaskStep
<1>3. /\ Shaped(shared') /\ shared'.total_switch = shared.total_switch + 1
      /\ shared'.mHashMap = shared.mHashMap /\ shared'.text = shared.text
  BY <1>2 DEF Shaped
<1>4. t \notin Exited /\ Exited' = Exited \cup {t}
  BY <1>2 DEF TaskStep
<1>5. Cardinality(Exited') = Cardinality(Exited) + 1
  BY <1>4, ExitedFinite
<1> QED
  BY <1>3, <1>5 DEF Greeted, Shaped

\* What each program's data is while it runs.
DataInv ==
  /\ Shaped(shared)
  /\ program \in {"wordcount", "pureyield", "hello_world"}
  /\ process = "up" => Counts(shared.mHashMap, shared.text)
  /\ program = "wordcount" => Looked
  /\ program = "pureyield" => Switched
  /\ program = "hello_world" => Greeted

LEMMA DataInit == ProgramInit => DataInv
<1> SUFFICES ASSUME ProgramInit
             PROVE  DataInv
  OBVIOUS
<1>1. \A w \in Worker : pc[w] = "none" /\ mine[w] = Initial
  BY ThreadAssumption DEF ProgramInit, Init, Thread, Initial
<1>2. shared = [total_switch |-> 0, total_accum |-> 0, foundCount |-> 0,
                mHashMap |-> EmptyTable, text |-> << >>, asked |-> Zeros]
  BY DEF ProgramInit, Zeros
<1>3. /\ Shaped(shared) /\ shared.total_switch = 0 /\ shared.total_accum = 0
      /\ shared.foundCount = 0 /\ shared.mHashMap = EmptyTable
      /\ shared.text = << >> /\ shared.asked = Zeros
  BY <1>2 DEF Shaped
<1>4. Exited = {} /\ Cardinality(Exited) = 0
  <2>1. Exited = {}
    BY <1>1 DEF Exited
  <2> QED
    BY <2>1, FS_EmptySet
<1>5. Counts(EmptyTable, << >>)
  <2>1. \A w : Occur(<< >>, w) = 0
    <3>1. \A w : {j \in 1 .. Len(<< >>) : (<< >>)[j] = w} = {}
      OBVIOUS
    <3> QED
      BY <3>1, FS_EmptySet DEF Occur
  <2>2. << >> \in Seq(Node) /\ << >> \in Seq(Word) /\ 1 .. Len(<< >>) = {}
    OBVIOUS
  <2>3. \A b \in Bucket : ChainCounts(<< >>, b, << >>)
    BY <2>1, <2>2 DEF ChainCounts
  <2> QED
    BY <2>2, <2>3 DEF Counts, EmptyTable
<1>6. Looked
  <2>1. \A w \in Worker : Made(w) = {}
    BY <1>1 DEF Made, Initial
  <2>2. AllMade = {}
    BY <2>1 DEF AllMade
  <2>3. \A w \in Worker : Looking(id[w] - 1, shared.mHashMap, mine[w])
    BY <1>1 DEF Looking, Initial, Locals
  <2>4. Zeros \in [Word -> Nat] /\ << >> \in Seq(Word)
    BY DEF Zeros
  <2>5. SumFunction(Zeros) = 0 /\ SumFunction(Found(Zeros, << >>)) = 0
    BY <2>4, NothingFound
  <2>6. Cardinality(AllMade) = 0
    BY <2>2, FS_EmptySet
  <2> QED
    BY <1>3, <2>3, <2>4, <2>5, <2>6 DEF Looked
<1>7. Switched
  <2>1. mine \in [Worker -> YieldLocals] /\ \A w \in Worker : New(w) /\ mine[w].accumNum = 0
    <3>1. Initial \in YieldLocals /\ Initial.at = "new" /\ Initial.accumNum = 0
      BY DEF Initial, YieldLocals
    <3>2. mine = [w \in Worker |-> Initial]
      BY DEF ProgramInit, Initial
    <3> QED
      BY <3>1, <3>2 DEF New
  <2>2. NewFirst
    <3>1. readyQ = << >>
      BY DEF ProgramInit, Init
    <3> QED
      BY <3>1 DEF NewFirst
  <2>3. Added = [w \in Worker |-> 0]
    <3>1. Rounds(0, TRUE) = 0 /\ Rounds(0, FALSE) = 0
      BY DEF Rounds
    <3> QED
      BY <1>1, <2>1, <3>1 DEF Added
  <2>4. SumFunction(Added) = 0
    BY <2>3, TasksAssumption, SumOfZeros
  <2> QED
    BY <1>3, <1>4, <2>1, <2>2, <2>4, CountAssumption DEF Switched
<1>8. Greeted
  BY <1>3, <1>4 DEF Greeted
<1>9. program \in {"wordcount", "pureyield", "hello_world"}
  BY DEF ProgramInit
<1> QED
  BY <1>3, <1>5, <1>6, <1>7, <1>8, <1>9 DEF DataInv

\* Where no task goes on, nothing changes in what they have looked up or added.
LEMMA SameMade ==
  ASSUME Base, mine' = mine, Exited' = Exited,
         \A w \in Worker : Created(w) => id'[w] = id[w]
  PROVE  AllMade' = AllMade /\ Added' = Added
<1>1. \A w \in Worker : pc'[w] = "exit" <=> pc[w] = "exit"
  BY DEF Exited
<1>2. \A w \in Worker : pc[w] = "exit" \/ mine[w].at # "new" => id'[w] = id[w]
  BY DEF Base, Created, Initial
<1>3. \A w \in Worker : Made(w)' = Made(w)
  BY <1>1, <1>2 DEF Made
<1> QED
  BY <1>1, <1>3 DEF AllMade, Added

LEMMA BuildTableData ==
  ASSUME Base, DataInv, BuildTable
  PROVE  DataInv'
<1>1. /\ main = "build" /\ program = "wordcount" /\ process = "up"
      /\ UNCHANGED <<pc, id, process, program, main, mine>>
  BY DEF BuildTable, vars, Base
<1>2. PICK v \in Word : shared' = GetWord(shared, v)
  BY DEF BuildTable
<1>3. Shaped(shared) /\ Counts(shared.mHashMap, shared.text) /\ Looked
  BY <1>1 DEF DataInv
<1>4. /\ Shaped(shared') /\ shared'.text = Append(shared.text, v)
      /\ shared'.foundCount = shared.foundCount /\ shared'.asked = shared.asked
  BY <1>2, <1>3 DEF GetWord, Shaped
<1>5. Counts(shared'.mHashMap, shared'.text)
  BY <1>2, <1>3, GetWordCounts DEF Shaped
<1>6. shared'.text \in Seq(Word)
  BY <1>5 DEF Counts
<1>7. shared.asked = Zeros /\ shared.foundCount = 0
  BY <1>1, <1>3 DEF Looked
<1>8. AllMade' = AllMade
  <2>1. Exited' = Exited
    BY <1>1 DEF Exited
  <2> QED
    BY <1>1, <2>1, SameMade
<1>9. \A w \in Worker : Looking(id'[w] - 1, shared'.mHashMap, mine'[w])
  <2>1. \A w \in Worker : mine'[w] = Initial
    BY <1>1 DEF Base
  <2> QED
    BY <2>1 DEF Looking, Initial, Locals
<1>10. shared'.foundCount = SumFunction(Found(shared'.asked, shared'.text))
  BY <1>4, <1>6, <1>7, NothingFound
<1>11. Looked'
  BY <1>1, <1>3, <1>4, <1>6, <1>8, <1>9, <1>10 DEF Looked
<1> QED
  BY <1>1, <1>4, <1>5, <1>11 DEF DataInv, Shaped

\* main() ends when nobody looks anything up any more.
LEMMA EndMainData ==
  ASSUME Scheduled, Base, DataInv, EndMain
  PROVE  DataInv'
<1>1. /\ process' = "success" /\ Exited = Worker /\ Exited' = Exited
      /\ shared' = [shared EXCEPT !.mHashMap = EmptyTable]
      /\ UNCHANGED <<program, main, mine, id>>
  BY EndMainBase
<1>2. /\ Shaped(shared') /\ shared'.text = shared.text
      /\ shared'.total_switch = shared.total_switch
      /\ shared'.total_accum = shared.total_accum
      /\ shared'.foundCount = shared.foundCount /\ shared'.asked = shared.asked
  BY <1>1 DEF DataInv, Shaped
<1>3. AllMade' = AllMade /\ Added' = Added
  BY <1>1, SameMade
<1>4. \A w \in Worker : pc'[w] = "exit"
  BY <1>1 DEF Exited
<1>5. Looked => Looked'
  BY <1>1, <1>2, <1>3, <1>4 DEF Looked
<1>6. Switched => Switched'
  BY <1>1, <1>2, <1>3 DEF Switched, New
<1>7. Greeted => Greeted'
  BY <1>1, <1>2 DEF Greeted
<1> QED
  BY <1>1, <1>2, <1>5, <1>6, <1>7 DEF DataInv, Shaped

LEMMA IdleData ==
  ASSUME Scheduled, Scheduled', Base, DataInv, Idle
  PROVE  DataInv'
<1>1. /\ UNCHANGED <<program, shared, mine, process>> /\ Exited' = Exited
      /\ \A w \in Worker : Created(w) => id'[w] = id[w]
      /\ main' = "build" => main = "build"
  BY DEF Idle
<1>2. AllMade' = AllMade /\ Added' = Added
  BY <1>1, SameMade
<1>3. \A w \in Worker : pc'[w] = "exit" <=> pc[w] = "exit"
  BY <1>1 DEF Exited
<1>4. Looked => Looked'
  <2>1. ASSUME Looked, NEW w \in Worker, pc'[w] # "exit"
        PROVE  Looking(id'[w] - 1, shared'.mHashMap, mine'[w])
    <3>1. Looking(id[w] - 1, shared.mHashMap, mine[w])
      BY <1>3, <2>1 DEF Looked
    <3>2. CASE Created(w)
      BY <1>1, <3>1, <3>2
    <3>3. CASE ~Created(w)
      <4>1. mine[w] = Initial
        BY <3>3 DEF Base, Created
      <4> QED
        BY <1>1, <4>1 DEF Looking, Initial, Locals
    <3> QED
      BY <3>2, <3>3
  <2> QED
    BY <1>1, <1>2, <2>1 DEF Looked
<1>5. ASSUME Switched, process = "up"
      PROVE  NewFirst'
  <2>1. mine' = [w \in Worker |-> mine'[w]] /\ NewFirst
    BY <1>1, <1>5 DEF Switched
  <2>2. readyQ \in Seq(Thread)
    BY <1>5, ReadyTasks
  <2>3. ASSUME NEW v \in Worker, main = "build", readyQ' = Append(readyQ, v)
        PROVE  NewFirst'
    <3>1. \A w \in Worker : mine'[w] = Initial
      BY <1>1, <2>3 DEF Base
    <3>2. \A w \in Worker : New(w)'
      BY <3>1 DEF New, Initial
    <3>3. \A k \in 1 .. Len(readyQ) : readyQ[k] \in Worker
      BY <1>5, ReadyTasks
    <3>4. /\ Len(readyQ') = Len(readyQ) + 1 /\ Len(readyQ) \in Nat
          /\ readyQ'[Len(readyQ) + 1] = v
          /\ \A k \in 1 .. Len(readyQ) : readyQ'[k] = readyQ[k]
      BY <2>2, <2>3 DEF Thread
    <3>5. \A k \in 1 .. Len(readyQ') : k = Len(readyQ) + 1 \/ k \in 1 .. Len(readyQ)
      BY <3>4
    <3>6. \A k \in 1 .. Len(readyQ') : readyQ'[k] \in Worker
      BY <3>3, <3>4, <3>5
    <3>7. \A k \in 1 .. Len(readyQ') : \A l \in 1 .. k - 1 : l \in 1 .. Len(readyQ')
      BY <3>4
    <3> QED
      BY <3>2, <3>6, <3>7 DEF NewFirst, New
  <2>4. CASE readyQ # << >> /\ readyQ' = Tail(readyQ) /\ cpu' = Head(readyQ)
    BY <1>1, <1>5, <2>1, <2>2, <2>4, OrderKept
  <2>5. CASE UNCHANGED <<readyQ, cpu>>
    BY <1>1, <2>1, <2>5 DEF NewFirst, New
  <2> QED
    BY <2>3, <2>4, <2>5 DEF Idle
<1>6. Switched => Switched'
  BY <1>1, <1>2, <1>5 DEF Switched, New
<1>7. Greeted => Greeted'
  BY <1>1 DEF Greeted
<1> QED
  BY <1>1, <1>4, <1>6, <1>7 DEF DataInv, Shaped, Counts

LEMMA TaskData ==
  ASSUME Scheduled, Scheduled', Base, Base', DataInv,
         NEW t \in Worker, NEW o \in Outcomes(t), TaskStep(t, o)
  PROVE  DataInv'
<1>1. process = "up" /\ process' = "up" /\ program' = program
  BY DEF TaskStep
<1>2. Shaped(shared) /\ Counts(shared.mHashMap, shared.text)
  BY <1>1 DEF DataInv
<1>3. CASE program = "wordcount"
  <2>1. /\ Looked' /\ Shaped(shared)'
        /\ shared'.mHashMap = shared.mHashMap /\ shared'.text = shared.text
    BY <1>2, <1>3, QueryLooked DEF DataInv
  <2> QED
    BY <1>1, <1>2, <1>3, <2>1 DEF DataInv
<1>4. CASE program = "pureyield"
  <2>1. /\ Switched' /\ Shaped(shared)'
        /\ shared'.mHashMap = shared.mHashMap /\ shared'.text = shared.text
    BY <1>2, <1>4, MytaskSwitched DEF DataInv
  <2> QED
    BY <1>1, <1>2, <1>4, <2>1 DEF DataInv
<1>5. CASE program = "hello_world"
  <2>1. /\ Greeted' /\ Shaped(shared)'
        /\ shared'.mHashMap = shared.mHashMap /\ shared'.text = shared.text
    BY <1>2, <1>5, HelloGreeted DEF DataInv
  <2> QED
    BY <1>1, <1>2, <1>5, <2>1 DEF DataInv
<1> QED
  BY <1>3, <1>4, <1>5 DEF DataInv

LEMMA AlwaysData == ProgramSpec => [](Scheduled /\ Base /\ DataInv)
<1>1. Scheduled /\ Scheduled' /\ Base /\ Base' /\ DataInv /\ [ProgramNext]_progVars => DataInv'
  <2> SUFFICES ASSUME Scheduled, Scheduled', Base, Base', DataInv, [ProgramNext]_progVars
               PROVE  DataInv'
    OBVIOUS
  <2> QED
    BY ProgramSteps, BuildTableData, EndMainData, IdleData, TaskData
<1> QED
  BY <1>1, DataInit, AlwaysBase, AlwaysScheduled, PTL DEF ProgramSpec

------------------------------------------------------------------------------
\* For all texts and all hashes of their words: getWords() leaves a table that
\* has one node for every word of the text, in the chain of its hash, with the
\* number of its occurrences, and findCount() answers that number.
THEOREM TableAlwaysCountsText == ProgramSpec => []TableCountsText
<1>1. DataInv => TableCountsText
  <2> SUFFICES ASSUME DataInv, process = "up"
               PROVE  TableCountsText
    BY DEF TableCountsText
  <2> DEFINE table == shared.mHashMap
             text == shared.text
  <2>1. text \in Seq(Word) /\ \A b \in Bucket : ChainCounts(table[b], b, text)
    BY DEF DataInv, Counts
  <2> HIDE DEF table, text
  <2>2. ASSUME NEW b \in Bucket, NEW k \in 1 .. Len(table[b]), NEW l \in 1 .. Len(table[b])
        PROVE  /\ Hash[table[b][k].mWord] = b
               /\ table[b][k].mWord = table[b][l].mWord => k = l
    BY <2>1 DEF ChainCounts
  <2>3. ASSUME NEW w \in Word
        PROVE  findCount(table, w) = Occur(text, w)
    <3> DEFINE b == Hash[w]
               chain == table[b]
    <3>1. b \in Bucket /\ ChainCounts(chain, b, text) /\ chain \in Seq(Node)
      BY <2>1 DEF Bucket, ChainCounts
    <3>2. chain = table[Hash[w]]
      OBVIOUS
    <3> HIDE DEF b, chain
    <3>3. CASE ~InChain(chain, w)
      <4>1. Occur(text, w) = 0
        BY <3>1, <3>3 DEF ChainCounts, b
      <4>2. \A l \in 1 .. Len(chain) : chain[l].mWord # w
        BY <3>3 DEF InChain
      <4> QED
        BY <3>1, <3>2, <4>1, <4>2, FindsCount
    <3>4. CASE InChain(chain, w)
      <4>1. PICK k \in 1 .. Len(chain) : chain[k].mWord = w
        BY <3>4 DEF InChain
      <4>2. \A l \in 1 .. Len(chain) : chain[l].mWord = w => l = k
        BY <3>1, <4>1 DEF ChainCounts
      <4>3. chain[k].mCount = Occur(text, w)
        BY <3>1, <4>1 DEF ChainCounts
      <4> QED
        BY <3>1, <3>2, <4>1, <4>2, <4>3, FindsCount
    <3> QED
      BY <3>3, <3>4
  <2> QED
    BY <2>2, <2>3 DEF TableCountsText, Occurrences, Occur, table, text
<1> QED
  BY <1>1, AlwaysData, PTL

\* For every number of tasks and of lookups: when main() has returned, all the
\* lookups have been made, each by one task, and foundCount is what the text
\* holds of their words.
THEOREM LookupsAlwaysCounted == ProgramSpec => []LookupsAreCounted
<1>1. Scheduled /\ Base /\ DataInv => LookupsAreCounted
  <2> SUFFICES ASSUME Scheduled, Base, DataInv, Returned, program = "wordcount"
               PROVE  LookupsAreCounted
    BY DEF LookupsAreCounted
  <2>1. Looked
    BY DEF DataInv
  <2>2. main = "run" /\ Exited = Worker
    BY DEF Base, Returned
  <2>3. AllMade = 0 .. QUERYWORDS - 1
    BY <2>2, AllLookedUp
  <2>4. Cardinality(AllMade) = QUERYWORDS
    <3>1. Cardinality(0 .. QUERYWORDS - 1)
          = IF 0 > QUERYWORDS - 1 THEN 0 ELSE (QUERYWORDS - 1) - 0 + 1
      BY CountAssumption, FS_Interval
    <3> QED
      BY <2>3, <3>1, CountAssumption
  <2>5. Found(shared.asked, shared.text)
        = [w \in Word |-> shared.asked[w] * Occurrences(w)]
    BY DEF Found, Occur, Occurrences
  <2> QED
    BY <2>1, <2>4, <2>5 DEF LookupsAreCounted, Looked
<1> QED
  BY <1>1, AlwaysData, PTL

\* For every number of tasks and of switches asked for: each task makes its
\* last switch after the benchmark has the number it waits for, so that there
\* are as many more as there are tasks; and no addition to total_accum is lost.
THEOREM SwitchesAlwaysCounted == ProgramSpec => []SwitchesAreCounted
<1>1. Scheduled /\ Base /\ DataInv => SwitchesAreCounted
  <2> SUFFICES ASSUME Scheduled, Base, DataInv, Returned
               PROVE  SwitchesAreCounted
    BY DEF SwitchesAreCounted
  <2>1. main = "run" /\ Exited = Worker
    BY DEF Base, Returned
  <2>2. CASE program = "pureyield"
    <3>1. Switched
      BY <2>2 DEF DataInv
    <3>2. shared.total_switch = TOTAL_SWITCH + tasks
      <4>1. ~(shared.total_switch <= TOTAL_SWITCH)
        BY <2>1, <3>1, TasksAssumption DEF Switched
      <4>2. shared.total_switch > TOTAL_SWITCH
        BY <3>1, <4>1, CountAssumption DEF Switched
      <4> QED
        BY <2>1, <3>1, <4>2 DEF Switched, tasks
    <3>3. Added = [w \in Worker |-> mine[w].accumNum * (mine[w].accumNum + 1)]
      <4>1. \A w \in Worker : pc[w] = "exit"
        BY <2>1 DEF Exited
      <4> QED
        BY <4>1 DEF Added, Rounds
    <3> QED
      BY <2>2, <3>1, <3>2, <3>3 DEF SwitchesAreCounted, Switched
  <2>3. CASE program = "hello_world"
    BY <2>1, <2>3 DEF SwitchesAreCounted, DataInv, Greeted, tasks
  <2>4. CASE program = "wordcount"
    BY <2>4 DEF SwitchesAreCounted
  <2> QED
    BY <2>2, <2>3, <2>4 DEF DataInv
<1> QED
  BY <1>1, AlwaysData, PTL
==============================================================================
