------------------------------- MODULE Programs -------------------------------
(***************************************************************************)
(* Programs composed with the scheduler: main() builds its data, creates   *)
(* its tasks, calls AccirrRun() and finalizes, and the tasks run the       *)
(* program's own code on the first-in first-out order the scheduler gives  *)
(* them.  A program is an operator that, from the globals and the locals   *)
(* of the task that has the processor, gives what it may do up to its next *)
(* call: the globals and locals it leaves, and the call, a yield or the    *)
(* return of the task.  rand() is what makes it a set.                     *)
(*                                                                         *)
(* The programs are application/wordcount (with DATA_PREFETCH, as its      *)
(* Makefile builds it), pureyield and hello_world.                         *)
(***************************************************************************)
EXTENDS TaskScheduler, Shares, FiniteSetsExt

CONSTANTS Word,             \* the words randomWord() makes
          Hash,             \* BKDRHash() % BIG_PRIME of each
          INITTEXTSIZE,     \* how many words are counted
          QUERYWORDS,       \* how many are looked up
          TOTAL_SWITCH      \* the switches pureyield makes before it stops

ASSUME WordAssumption == Hash \in [Word -> Nat] /\ NULL \notin Word /\ IsFiniteSet(Word)
\* CORO_NUM and TOTAL_TASKS: with no task there is nothing to deal the lookups to.
ASSUME TasksAssumption == IsFiniteSet(Worker) /\ Worker # {}
ASSUME CountAssumption == INITTEXTSIZE \in Nat /\ QUERYWORDS \in Nat /\ TOTAL_SWITCH \in Nat
ASSUME CallsOfPrograms == Calls = {"yield"}

VARIABLES program,   \* which of the programs this process runs
          main,      \* where main() is: "build", "create", "run"
          shared,    \* the globals
          mine       \* the locals of each task

progVars == <<vars, program, main, shared, mine>>

tasks == Cardinality(Worker)   \* CORO_NUM, TOTAL_TASKS
Bucket == {Hash[w] : w \in Word}
EmptyTable == [b \in Bucket |-> << >>]

ProgramInit ==
  /\ Init
  /\ program \in {"wordcount", "pureyield", "hello_world"}
  /\ main = "build"
  /\ shared = [total_switch |-> 0, total_accum |-> 0, foundCount |-> 0,
               mHashMap |-> EmptyTable,
               text |-> << >>,                     \* history: the words counted
               asked |-> [w \in Word |-> 0]]       \* history: the lookups made
  /\ mine = [w \in Worker |-> [at |-> "new", accumNum |-> 0, i |-> 0,
                               queryWord |-> NULL, node |-> 0]]

Yields(globals, locals) == [shared |-> globals, mine |-> locals, call |-> "yield"]
Returns(globals, locals) == [shared |-> globals, mine |-> locals, call |-> "return"]

------------------------------------------------------------------------------
\* mytask() of pureyield from the test of its loop to the third round, where
\* it yields with that round's accumNum still to be added.
MytaskLoop(globals, locals) ==
  LET a == locals.accumNum IN
  IF globals.total_switch > TOTAL_SWITCH THEN Returns(globals, locals)
  ELSE Yields([globals EXCEPT !.total_accum = @ + (a + 1) + (a + 2)],
              [locals EXCEPT !.at = "switch", !.accumNum = a + 3])

\* A slip: the round that yields goes on to the next without its accumNum.
MytaskResumedContinues(globals, locals) ==
  MytaskLoop([globals EXCEPT !.total_switch = @ + 1], locals)

MytaskResumed(globals, locals) ==
  MytaskLoop([globals EXCEPT !.total_switch = @ + 1,
                             !.total_accum = @ + locals.accumNum], locals)

pureyieldTask(globals, locals) ==
  {IF locals.at = "new" THEN MytaskLoop(globals, locals) ELSE MytaskResumed(globals, locals)}

\* mytask() of hello_world
helloTask(globals, locals) ==
  {Returns([globals EXCEPT !.total_switch = @ + 1], locals)}

------------------------------------------------------------------------------
NewNode(w) == [mWord |-> w, mCount |-> 1]

\* A slip in getWords(): the loop asks for the next node before it compares.
CountedNextFirst(chain, w) ==
  LET walk[k \in 1 .. Len(chain)] ==
        IF k = Len(chain) THEN Append(chain, NewNode(w))
        ELSE IF chain[k].mWord = w THEN [chain EXCEPT ![k].mCount = @ + 1]
        ELSE walk[k + 1]
  IN  IF chain = << >> THEN <<NewNode(w)>> ELSE walk[1]

\* getWords() for one word: what becomes of the chain when the loop is at node
\* k.  It counts the node up if the word is there, appends a node if there is
\* no next one, and goes on to that one otherwise.
Counted(chain, w) ==
  LET walk[k \in 1 .. Len(chain)] ==
        IF chain[k].mWord = w THEN [chain EXCEPT ![k].mCount = @ + 1]
        ELSE IF k = Len(chain) THEN Append(chain, NewNode(w))
        ELSE walk[k + 1]
  IN  IF chain = << >> THEN <<NewNode(w)>> ELSE walk[1]

GetWord(globals, w) ==
  [globals EXCEPT !.mHashMap[Hash[w]] = Counted(@, w), !.text = Append(@, w)]

\* findCount() of old_wc: rst when the loop is at node k, which is none behind
\* the end of the chain.
findCount(table, w) ==
  LET chain == table[Hash[w]]
      rst[k \in 1 .. Len(chain) + 1] ==
        IF k > Len(chain) THEN 0
        ELSE IF chain[k].mWord = w THEN chain[k].mCount
        ELSE rst[k + 1]
  IN  rst[1]

\* queryTask() takes up its next word, if its share has one, and yields before
\* it reads the chain.
AskNext(idx, i, globals, locals) ==
  IF i < Past(QUERYWORDS, tasks, idx)
  THEN {Yields(globals, [locals EXCEPT !.at = "chain", !.i = i, !.queryWord = w]) : w \in Word}
  ELSE {Returns(globals, locals)}

\* ... is done with a word, which it found count times,
Answer(idx, globals, locals, count) ==
  AskNext(idx, locals.i + 1,
          [globals EXCEPT !.foundCount = @ + count, !.asked[locals.queryWord] = @ + 1], locals)

\* ... goes to the node-th of the chain, and yields before it reads it.
ToNode(idx, globals, locals, chain, node) ==
  IF node > Len(chain) THEN Answer(idx, globals, locals, 0)
  ELSE {Yields(globals, [locals EXCEPT !.at = "node", !.node = node])}

\* A slip: the loop stays at its node.
NodeAfterSame(node) == node

\* mNode = mNode->next
NodeAfter(node) == node + 1

queryTask(idx, globals, locals) ==
  IF locals.at = "new" THEN AskNext(idx, First(QUERYWORDS, tasks, idx), globals, locals)
  ELSE LET chain == globals.mHashMap[Hash[locals.queryWord]] IN
       IF locals.at = "chain" THEN ToNode(idx, globals, locals, chain, 1)
       ELSE IF chain[locals.node].mWord = locals.queryWord
            THEN Answer(idx, globals, locals, chain[locals.node].mCount)
            ELSE ToNode(idx, globals, locals, chain, NodeAfter(locals.node))

------------------------------------------------------------------------------
\* What the code of task t may do next; the argument of a task is its number.
Outcomes(t) ==
  CASE program = "wordcount"   -> queryTask(id[t] - 1, shared, mine[t])
    [] program = "pureyield"   -> pureyieldTask(shared, mine[t])
    [] program = "hello_world" -> helloTask(shared, mine[t])

TaskRuns(t) ==
  /\ InUser(t)
  /\ \E o \in Outcomes(t) :
       /\ shared' = o.shared
       /\ mine' = [mine EXCEPT ![t] = o.mine]
       /\ IF o.call = "yield" THEN Yield(t) ELSE Exit(t)
  /\ UNCHANGED <<program, main>>

\* main() of wordcount before its tasks: getWords().
BuildTable ==
  /\ main = "build" /\ program = "wordcount" /\ Len(shared.text) < INITTEXTSIZE
  /\ \E w \in Word : shared' = GetWord(shared, w)
  /\ UNCHANGED <<vars, program, main, mine>>

Built == program = "wordcount" => Len(shared.text) = INITTEXTSIZE

CreateTasks ==
  /\ main = "build" /\ Built
  /\ \E w \in Worker : CreateTask(Master, w)
  /\ UNCHANGED <<program, main, shared, mine>>

StartRun ==
  /\ main = "build" /\ nextId = tasks + 1
  /\ Run
  /\ main' = "run"
  /\ UNCHANGED <<program, shared, mine>>

InRun == ThreadWait /\ UNCHANGED <<program, main, shared, mine>>

\* AccirrFinalize(), destroyAll() and the end of main().
EndMain ==
  /\ main = "run"
  /\ Finalize
  /\ shared' = [shared EXCEPT !.mHashMap = EmptyTable]
  /\ UNCHANGED <<program, main, mine>>

ProgramNext ==
  \/ BuildTable
  \/ CreateTasks
  \/ StartRun
  \/ InRun
  \/ \E t \in Worker : TaskRuns(t)
  \/ EndMain
  \/ Terminated /\ UNCHANGED progVars

ProgramSpec == ProgramInit /\ [][ProgramNext]_progVars /\ WF_progVars(ProgramNext)

------------------------------------------------------------------------------
Occurrences(w) == Cardinality({k \in 1 .. Len(shared.text) : shared.text[k] = w})

\* The table counts the text: every word has one node, in the chain of its
\* hash, with the number of times it occurs, however the words collide; and
\* findCount() answers that number.
TableCountsText ==
  process = "up" =>
    /\ \A w \in Word : findCount(shared.mHashMap, w) = Occurrences(w)
    /\ \A b \in Bucket : LET chain == shared.mHashMap[b] IN
         \A k, l \in 1 .. Len(chain) :
           /\ Hash[chain[k].mWord] = b
           /\ chain[k].mWord = chain[l].mWord => k = l

\* What the lookups found is what the text holds: foundCount is the sum over
\* all lookups of the word's occurrences, and QUERYWORDS lookups were made,
\* whatever the tasks' shares and however their yields interleave.
Returned == process = "success"
LookupsAreCounted ==
  Returned /\ program = "wordcount" =>
    /\ shared.foundCount = SumFunction([w \in Word |-> shared.asked[w] * Occurrences(w)])
    /\ SumFunction(shared.asked) = QUERYWORDS

\* pureyield loses no update of its two counters, and because the scheduler
\* takes the tasks in turn, each of them makes exactly one switch more than
\* TOTAL_SWITCH asks for.  hello_world runs each task once.
SwitchesAreCounted ==
  Returned =>
    CASE program = "pureyield" ->
           /\ shared.total_switch = TOTAL_SWITCH + tasks
           /\ 2 * shared.total_accum =
                SumFunction([w \in Worker |-> mine[w].accumNum * (mine[w].accumNum + 1)])
      [] program = "hello_world" -> shared.total_switch = tasks
      [] OTHER -> TRUE

\* Every program comes to the end of main(), with no assumption on its tasks
\* but that the processor goes on executing them.
ProgramsEnd == <>(process = "success")
==============================================================================
