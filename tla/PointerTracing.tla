---------------------------- MODULE PointerTracing ----------------------------
(***************************************************************************)
(* The pointer tracing programs: each builds linked lists whose nodes lie  *)
(* in memory in random order, lets tasks follow them, a yield before every *)
(* node, and frees them.  Three families:                                  *)
(*   pttest, loadspttest, newnodepttest    each of CORO_NUM tasks walks    *)
(*     its share of the lists once and reads a node REPEAT_TIMES times;    *)
(*   pcm_pttest, mppttest, mtpttest        it walks them REPEAT_TIMES      *)
(*     times and reads a node once;                                        *)
(*   old_pointer_tracing, pointer_tracing  rings, and a task for each.     *)
(* The processes of a program share nothing, so one of them is followed    *)
(* once it has its number.  Tasks run in any order: the programs must not  *)
(* depend on the one TaskScheduler gives.                                  *)
(*                                                                         *)
(* A node is its place in memory; data[n] stands for the LOCAL_NUM numbers *)
(* the value counter gave it.                                              *)
(***************************************************************************)
EXTENDS Processes, SequencesExt

VARIABLES me,        \* the process that is followed
          phase,     \* where its main() is
          head, allList, listsLen, listNumber, tofillLists,
          mBitmap,   \* pointer_tracing: the order of the nodes
          next, data,
          live,      \* the nodes that are allocated
          mine,      \* the locals of each task
          total_accum, tra_times,
          freeing    \* where destroyList() is

build == <<head, allList, listsLen, listNumber, tofillLists, mBitmap, next, data>>
totals == <<total_accum, tra_times>>
tracingVars == <<args, procs, me, phase, build, live, mine, totals, freeing>>

NULL == -1
Program == args.program
Rings == {"old_pointer_tracing", "pointer_tracing"}
Rereads == {"pttest", "loadspttest", "newnodepttest"}   \* REPEAT_TIMES at each node
Rewalks == {"pcm_pttest", "mppttest", "mtpttest"}       \* REPEAT_TIMES over all
Lists == 0 .. args.TOTAL_LISTS - 1
Tasks == 0 .. (IF Program \in Rings THEN args.TOTAL_LISTS ELSE args.CORO_NUM) - 1
LIST_LEN == procs[me].LIST_LEN

Empty == [i \in {} |-> NULL]
Extend(f, x, y) == [z \in DOMAIN f \union {x} |-> IF z = x THEN y ELSE f[z]]

ASSUME TracingAssumption ==
  \A c \in Commands :
    /\ c.program \in Rereads \union Rewalks => c.LIST_LEN > 0 /\ c.CORO_NUM > 0
    /\ c.program \in Rings => c.TOTAL_LISTS > 0
    /\ c.program = "pointer_tracing" =>      \* else listHead[] is too short
         c.TOTAL_DATA >= c.TOTAL_LISTS /\ c.TOTAL_DATA % c.TOTAL_LISTS = 0

TracingInit ==
  /\ ForkInit
  /\ me = 0 /\ phase = "processes"
  /\ head = [i \in Lists |-> NULL] /\ allList = head
  /\ listsLen = [i \in Lists |-> 0]
  /\ listNumber = [i \in Lists |-> i]
  /\ tofillLists = args.TOTAL_LISTS
  /\ mBitmap = IF Program = "pointer_tracing" THEN [i \in 0 .. args.TOTAL_DATA - 1 |-> i] ELSE Empty
  /\ next = Empty /\ data = Empty
  /\ live = DOMAIN mBitmap
  /\ mine = [t \in Tasks |-> [at |-> "new", i |-> 0, j |-> 0, node |-> NULL, accum |-> 0, times |-> 0]]
  /\ total_accum = 0 /\ tra_times = 0
  /\ freeing = [j |-> 0, node |-> NULL]

BecomeProcess ==
  /\ phase = "processes" /\ AllBound
  /\ me' \in 1 .. Len(procs)
  /\ phase' = IF Program \in {"mpwordcount", "mpbfs"} THEN "elsewhere" ELSE "build"
  /\ UNCHANGED <<args, procs, build, live, mine, totals, freeing>>

------------------------------------------------------------------------------
\* The node that is allocated next gets the next value.
Allocated == Cardinality(DOMAIN next)

\* In newnodepttest a node has an array, which is made and freed with it.
NewNode ==
  /\ live' = live \union {Allocated}
  /\ data' = Extend(data, Allocated, Allocated)

\* insertToListI(): l goes to the end of list i; in a ring it leads to the head.
insertToListI(i, l) ==
  LET first == IF head[i] = NULL THEN l ELSE head[i]
      linked == IF head[i] = NULL THEN next ELSE [next EXCEPT ![allList[i]] = l]
  IN /\ head' = [head EXCEPT ![i] = first]
     /\ allList' = [allList EXCEPT ![i] = l]
     /\ next' = Extend(linked, l, IF Program \in Rings THEN first ELSE NULL)

\* A slip in buildList(): the full list is replaced after tofillLists is counted down.
FillDecrementsFirst(idx) ==
  LET i == listNumber[idx] IN
  /\ insertToListI(i, Allocated)
  /\ listsLen' = [listsLen EXCEPT ![i] = @ + 1]
  /\ IF listsLen[i] + 1 = LIST_LEN
     THEN /\ tofillLists' = tofillLists - 1
          /\ listNumber' = [listNumber EXCEPT ![idx] =
                              listNumber[IF tofillLists > 1 THEN tofillLists - 2 ELSE 0]]
     ELSE UNCHANGED <<tofillLists, listNumber>>

\* buildList() gives a node to the idx-th of the lists that are not full; a
\* list that is full then gives its place to the last of them.
Fill(idx) ==
  LET i == listNumber[idx] IN
  /\ insertToListI(i, Allocated)
  /\ listsLen' = [listsLen EXCEPT ![i] = @ + 1]
  /\ IF listsLen[i] + 1 = LIST_LEN
     THEN /\ listNumber' = [listNumber EXCEPT ![idx] = listNumber[tofillLists - 1]]
          /\ tofillLists' = tofillLists - 1
     ELSE UNCHANGED <<tofillLists, listNumber>>

BuildList ==
  /\ phase = "build" /\ Program \notin Rings /\ tofillLists > 0
  /\ \E idx \in 0 .. tofillLists - 1 : Fill(idx)
  /\ NewNode
  /\ UNCHANGED <<args, procs, me, phase, mBitmap, mine, totals, freeing>>

\* old_pointer_tracing gives each node to any of the lists.
BuildRings ==
  /\ phase = "build" /\ Program = "old_pointer_tracing" /\ Allocated < args.TOTAL_DATA
  /\ \E i \in Lists : insertToListI(i, Allocated)
  /\ NewNode
  /\ UNCHANGED <<args, procs, me, phase, listsLen, listNumber, tofillLists, mBitmap,
                 mine, totals, freeing>>

\* pointer_tracing shuffles its nodes, here with tofillLists for len, ...
Shuffled == Allocated > 0
len == args.TOTAL_DATA - (args.TOTAL_LISTS - tofillLists)
Shuffle ==
  /\ phase = "build" /\ Program = "pointer_tracing" /\ len > 1
  /\ \E idx \in 0 .. len - 1 :
       mBitmap' = [mBitmap EXCEPT ![idx] = mBitmap[len - 1], ![len - 1] = mBitmap[idx]]
  /\ tofillLists' = tofillLists - 1
  /\ UNCHANGED <<args, procs, me, phase, head, allList, listsLen, listNumber, next, data,
                 live, mine, totals, freeing>>

\* ... and makes a ring of each listLen of them: where the i-th leads.
RingNext(i, listLen) ==
  IF i % listLen = listLen - 1 \/ i = args.TOTAL_DATA - 1
  THEN mBitmap[i - (i % listLen)] ELSE mBitmap[i + 1]

LinkRings ==
  /\ phase = "build" /\ Program = "pointer_tracing" /\ len <= 1 /\ ~Shuffled
  /\ LET listLen == args.TOTAL_DATA \div args.TOTAL_LISTS
         place == [n \in DOMAIN mBitmap |-> CHOOSE i \in DOMAIN mBitmap : mBitmap[i] = n]
     IN /\ head' = [i \in Lists |-> mBitmap[i * listLen]]     \* listHead
        /\ next' = [n \in DOMAIN mBitmap |-> RingNext(place[n], listLen)]
        /\ data' = place
  /\ UNCHANGED <<args, procs, me, phase, allList, listsLen, listNumber, tofillLists, mBitmap,
                 live, mine, totals, freeing>>

Built == CASE Program = "old_pointer_tracing" -> Allocated = args.TOTAL_DATA
           [] Program = "pointer_tracing" -> Shuffled
           [] OTHER -> tofillLists = 0

\* main() creates the tasks and calls AccirrRun().
StartTasks ==
  /\ phase = "build" /\ Built
  /\ allList' = head
  /\ phase' = "run"
  /\ UNCHANGED <<args, procs, me, head, listsLen, listNumber, tofillLists, mBitmap, next, data,
                 live, mine, totals, freeing>>

------------------------------------------------------------------------------
\* Where a task is: round i, list j, at node, which it has yet to read, or NULL
\* if it has come to its end.
Place(i, j, node) == [i |-> i, j |-> j, node |-> node]
Rounds == IF Program \in Rewalks THEN args.REPEAT_TIMES ELSE 1

\* The next list with nodes after list j of task t's share, in this round or
\* the next.
NextList(t, i, j) ==
  LET share == {l \in First(args.TOTAL_LISTS, args.CORO_NUM, t) ..
                        Past(args.TOTAL_LISTS, args.CORO_NUM, t) - 1 : head[l] # NULL}
      later == {l \in share : l > j}
  IN IF i < Rounds /\ later # {} THEN Place(i, Min(later), head[Min(later)])
     ELSE IF i + 1 < Rounds /\ share # {} THEN Place(i + 1, Min(share), head[Min(share)])
     ELSE Place(i, j, NULL)

NextInList(t, i, j, node) ==
  IF next[node] # NULL THEN Place(i, j, next[node]) ELSE NextList(t, i, j)

\* old_pointer_tracing goes round its ring once: allList[t] is where it starts.
FirstInRing(t) == Place(0, t, allList[t])
NextInRing(t, i, j, node) ==
  Place(i, j, IF next[node] # head[t] THEN next[node] ELSE NULL)

\* pointer_tracing makes as many steps on each ring.
Steps == args.TOTAL_TRAVERSE_TIME \div args.TOTAL_LISTS
FirstStep(t) == Place(0, t, IF Steps > 0 THEN head[t] ELSE NULL)

\* A slip: one step more.
NextStepOnceMore(i, j, node) == Place(i + 1, j, IF i < Steps THEN next[node] ELSE NULL)

NextStep(i, j, node) == Place(i + 1, j, IF i + 1 < Steps THEN next[node] ELSE NULL)

FirstPlace(t) ==
  CASE Program = "old_pointer_tracing" -> FirstInRing(t)
    [] Program = "pointer_tracing"     -> FirstStep(t)
    [] OTHER                           -> NextList(t, 0, NULL)

NextPlace(t, i, j, node) ==
  CASE Program = "old_pointer_tracing" -> NextInRing(t, i, j, node)
    [] Program = "pointer_tracing"     -> NextStep(i, j, node)
    [] OTHER                           -> NextInList(t, i, j, node)

\* Task t yields at its next node, or adds up what it counted and returns.  The
\* ring programs count tra_times at every node.
GoesTo(t, place, accum, times) ==
  /\ mine' = [mine EXCEPT ![t] =
       [at |-> IF place.node = NULL THEN "returned" ELSE "node",
        i |-> place.i, j |-> place.j, node |-> place.node, accum |-> accum, times |-> times]]
  /\ total_accum' = total_accum + IF place.node = NULL THEN accum ELSE 0
  /\ tra_times' = tra_times + IF Program \in Rings THEN times - mine[t].times
                              ELSE IF place.node = NULL THEN times ELSE 0
  /\ UNCHANGED <<args, procs, me, phase, build, live, freeing>>

StartTask(t) ==
  /\ phase = "run" /\ mine[t].at = "new"
  /\ GoesTo(t, FirstPlace(t), 0, 0)

\* The task has the processor again and reads its node.
ReadNode(t) ==
  /\ phase = "run" /\ mine[t].at = "node"
  /\ LET n == mine[t].node IN
     GoesTo(t, NextPlace(t, mine[t].i, mine[t].j, n),
            mine[t].accum + data[n] * (IF Program \in Rereads THEN args.REPEAT_TIMES ELSE 1),
            mine[t].times + 1)

AllReturned == \A t \in Tasks : mine[t].at = "returned"

------------------------------------------------------------------------------
\* destroyList(), a node at a time.  The ring programs free at most mSpace.
StartFreeing ==
  /\ phase = "run" /\ AllReturned
  /\ IF Program \in Rings
     THEN /\ phase' = "end"
          /\ live' = IF Program = "pointer_tracing" THEN {} ELSE live
          /\ UNCHANGED freeing
     ELSE /\ phase' = IF Lists = {} THEN "end" ELSE "free"
          /\ freeing' = [j |-> 0, node |-> IF Lists = {} THEN NULL ELSE head[0]]
          /\ UNCHANGED live
  /\ UNCHANGED <<args, procs, me, build, mine, totals>>

\* A slip: the loop ends before the last node of a list.
AfterFreeingStopsEarly(j, node) ==
  IF next[node] # NULL /\ next[next[node]] # NULL THEN [j |-> j, node |-> next[node]]
  ELSE [j |-> j + 1, node |-> IF j + 1 \in Lists THEN head[j + 1] ELSE NULL]

AfterFreeing(j, node) ==
  IF next[node] # NULL THEN [j |-> j, node |-> next[node]]
  ELSE [j |-> j + 1, node |-> IF j + 1 \in Lists THEN head[j + 1] ELSE NULL]

FreeNode ==
  /\ phase = "free"
  /\ freeing' = AfterFreeing(freeing.j, freeing.node)
  /\ phase' = IF freeing'.j \in Lists THEN "free" ELSE "end"
  /\ live' = live \ {freeing.node}
  /\ UNCHANGED <<args, procs, me, build, mine, totals>>

ForkStep == phase = "processes" /\ ForkNext
            /\ UNCHANGED <<me, phase, build, live, mine, totals, freeing>>

Ended == phase \in {"end", "elsewhere"} /\ UNCHANGED tracingVars

TracingNext ==
  \/ ForkStep
  \/ BecomeProcess
  \/ BuildList
  \/ BuildRings
  \/ Shuffle
  \/ LinkRings
  \/ StartTasks
  \/ \E t \in Tasks : StartTask(t) \/ ReadNode(t)
  \/ StartFreeing
  \/ FreeNode
  \/ Ended

TracingSpec == TracingInit /\ [][TracingNext]_tracingVars /\ WF_tracingVars(TracingNext)

------------------------------------------------------------------------------
\* Where the links lead from node, step by step, ...
Walk(node) ==
  LET w[k \in 0 .. Cardinality(DOMAIN next)] ==
        IF k = 0 THEN node
        ELSE LET n == w[k - 1] IN IF n = NULL THEN NULL ELSE next[n]
  IN w

\* ... and the nodes on the way, as far as they are distinct.
Chain(node) ==
  LET w == Walk(node)
      Ends(k) == w[k] = NULL \/ \E j \in 0 .. k - 1 : w[j] = w[k]
      n == CHOOSE k \in DOMAIN w : Ends(k) /\ \A j \in 0 .. k - 1 : ~Ends(j)
  IN [k \in 1 .. n |-> w[k - 1]]

\* Although lists are filled and dropped at random, each of them grows by
\* exactly listsLen nodes, which end at allList; no node is in two lists; and
\* the lists still to be filled are the first tofillLists of listNumber, once
\* each, so that none is left short and none is filled beyond LIST_LEN.
ListsFill ==
  phase = "build" /\ Program \notin Rings =>
    /\ \A i \in Lists :
         /\ Len(Chain(head[i])) = listsLen[i]
         /\ head[i] # NULL => Last(Chain(head[i])) = allList[i]
         /\ listsLen[i] <= LIST_LEN
         /\ Cardinality({k \in 0 .. tofillLists - 1 : listNumber[k] = i}) =
              (IF listsLen[i] < LIST_LEN THEN 1 ELSE 0)
    /\ \A n \in DOMAIN next : \E i \in Lists :
         \A j \in Lists : Contains(Chain(head[j]), n) <=> j = i

\* Although destroyList() frees the nodes it walks along, nothing is freed that
\* is not allocated, nor read after it is freed, by a task or by the walk; and in
\* the end everything is freed but the nodes of old_pointer_tracing.
FreedOnce ==
  /\ phase = "free" => freeing.node \in live
  /\ \A t \in Tasks : mine[t].at = "node" => mine[t].node \in live
  /\ phase = "end" => live = IF Program = "old_pointer_tracing" THEN DOMAIN next ELSE {}

\* What the traversals of all the nodes come to.
Sum(S) == MapThenSumSet(LAMBDA n : data[n], S)
Repeats == IF Program \in Rings THEN 1 ELSE args.REPEAT_TIMES
RingTotals(i) ==
  LET ring == Chain(head[i]) IN
  MapThenSumSet(LAMBDA k : data[ring[(k % Len(ring)) + 1]], 0 .. Steps - 1)
AllRead ==
  IF Program = "pointer_tracing"
  THEN /\ total_accum = MapThenSumSet(RingTotals, Lists)
       /\ tra_times = Steps * args.TOTAL_LISTS
  ELSE /\ total_accum = Repeats * Sum(DOMAIN next)
       /\ tra_times = Cardinality(DOMAIN next) *
                        (IF Program \in Rewalks THEN args.REPEAT_TIMES ELSE 1)

\* Every program comes to its end, if no task is refused the processor for
\* ever; and then its tasks have read every node of every list as often as
\* asked, whatever the shares and however they interleave.
TracingEnds == <>(phase = "elsewhere" \/ (phase = "end" /\ AllRead))
==============================================================================
