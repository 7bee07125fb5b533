---------------------------------- MODULE Bfs ----------------------------------
(***************************************************************************)
(* The breadth-first search of application/bfs: the program the runtime    *)
(* was written for.  getGraph() lays an edge list out as an array of       *)
(* neighbours and an array of offsets into it; bfs() then works level by   *)
(* level, dealing the vertices of the level to a few tasks that share      *)
(* parent[] and nextQ[] and yield wherever they would miss the cache.      *)
(*                                                                         *)
(* bfs.cpp and mpbfs.cpp are one program with different yields, so YieldAt *)
(* says where a task yields; threadbfs.cpp is the case of one task and no  *)
(* yield.  Between two yields a task is never interrupted.  At a yield any *)
(* task may come next, although the ready queue is first-in first-out: the *)
(* search is checked for every order a scheduler could choose.             *)
(***************************************************************************)
EXTENDS Integers, Sequences, FiniteSets

CONSTANTS vertexNum, edgeNum,   \* the size of the graph
          Pairs,                \* the pairs of vertices an edge may join
          source,               \* where the search starts
          MAX_COROS,            \* the most tasks of one level
          YieldAt               \* the places where the build yields

Vertex == 0 .. vertexNum - 1
Coro == 0 .. MAX_COROS - 1
Yields == {"vertex", "edges", "parent"}

ASSUME SizeAssumption == vertexNum \in Nat \ {0} /\ edgeNum \in Nat
\* Edges join two different vertices: of an edge from a vertex to itself the
\* second slot of linkedList would stay unset.
ASSUME PairsAssumption == Pairs \subseteq {e \in Vertex \X Vertex : e[1] # e[2]}
ASSUME SourceAssumption == source \in Vertex
ASSUME CorosAssumption == MAX_COROS \in Nat \ {0}
ASSUME YieldAssumption == YieldAt \subseteq Yields

\* For a graph with fewer than vertexNum edge ends the bound that spreadTask()
\* gives the last vertex lies beyond linkedList: reading there is undefined.
ASSUME DenseAssumption == 2 * edgeNum >= vertexNum

VARIABLES edges,         \* the edges of the file
          vertexIndex,   \* where the neighbours of each vertex start ...
          linkedList,    \* ... in this array
          currentQ,      \* the vertices of the level, cQLen of them
          nextQ,         \* those found for the next one, nQLen of them
          parent,        \* the search tree, -1 for none
          level,         \* the level
          main,          \* where bfs() is: "level", in AccirrRun(), "done"
          task,          \* what each task of the level has got to
          turn           \* the task that has the processor, if one has

graph == <<edges, vertexIndex, linkedList>>
vars == <<edges, vertexIndex, linkedList, currentQ, nextQ, parent, level, main,
          task, turn>>

Nobody == -1
Members(s) == {s[k] : k \in 1 .. Len(s)}

\* What the graph file may hold.
EdgeLists == [1 .. edgeNum -> Pairs]

\* getGraph(): the loop that counts the edge ends at each vertex, as vertexIndex
\* after the first n edges.
Counts(es) ==
  LET count[n \in 0 .. edgeNum] ==
        IF n = 0 THEN [v \in Vertex |-> 0]
        ELSE LET at == count[n - 1]
             IN  [at EXCEPT ![es[n][1]] = at[es[n][1]] + 1, ![es[n][2]] = at[es[n][2]] + 1]
  IN  count

\* The loop that adds to each count the one before it, after pass i.
Sums(counted) ==
  LET sum[i \in Vertex] ==
        IF i = 0 THEN counted
        ELSE LET at == sum[i - 1] IN [at EXCEPT ![i] = at[i] + at[i - 1]]
  IN  sum

\* A slip in getGraph(): the shifting loop goes upwards.
ShiftsUpwards(summed) ==
  LET shift[n \in Vertex] ==
        IF n = 0 THEN summed
        ELSE LET at == shift[n - 1] IN [at EXCEPT ![n] = at[n - 1]]
  IN  shift

\* The loop that moves the sums one vertex up, from the last vertex down to 1,
\* after n passes.  index is filled with the same values.
Shifts(summed) ==
  LET shift[n \in Vertex] ==
        IF n = 0 THEN summed
        ELSE LET at == shift[n - 1]
                 i == vertexNum - n
             IN  [at EXCEPT ![i] = at[i - 1]]
  IN  shift

\* vertexIndex, and index, as they are filled in.
Offsets(es) ==
  LET summed == Sums(Counts(es)[edgeNum])[vertexNum - 1]
  IN  [Shifts(summed)[vertexNum - 1] EXCEPT ![0] = 0]

\* getGraph(): the filling loop, as linkedList and index after the first n edges.
Fills(es) ==
  LET fill[n \in 0 .. edgeNum] ==
        IF n = 0
        THEN [list |-> [s \in 0 .. 2 * edgeNum - 1 |-> -1], index |-> Offsets(es)]
        ELSE LET v1 == es[n][1]
                 v2 == es[n][2]
                 to == fill[n - 1].index
             IN  [list  |-> [fill[n - 1].list EXCEPT ![to[v1]] = v2, ![to[v2]] = v1],
                  index |-> [to EXCEPT ![v1] = to[v1] + 1, ![v2] = to[v2] + 1]]
  IN  fill
Filled(es) == Fills(es)[edgeNum].list

\* main() up to the loop of bfs().
Init ==
  /\ edges \in EdgeLists
  /\ vertexIndex = Offsets(edges)
  /\ linkedList = Filled(edges)
  /\ currentQ = <<source>>
  /\ nextQ = << >>
  /\ parent = [v \in Vertex |-> -1]
  /\ level = 0
  /\ main = "level"
  /\ task = [c \in Coro |-> [at |-> "none", i |-> 0, j |-> 0]]
  /\ turn = Nobody

------------------------------------------------------------------------------
realCoros == IF Len(currentQ) < MAX_COROS THEN Len(currentQ) ELSE MAX_COROS

\* The vertices of currentQ that task idx of the level visits.
pointsPerCoro == Len(currentQ) \div realCoros
remainder == Len(currentQ) % realCoros
mIdx(idx) ==
  idx * pointsPerCoro + (IF idx >= remainder THEN remainder ELSE idx)
\* A slip in spreadTask(): the remainder is dealt to no task.
nextIdxNoRemainder(idx) == mIdx(idx) + pointsPerCoro

nextIdx(idx) == mIdx(idx) + pointsPerCoro + (IF idx >= remainder THEN 0 ELSE 1)

\* The bound of the neighbours of u, as spreadTask() takes it.
nextVertexIndex(u) ==
  IF u + 1 < vertexNum THEN vertexIndex[u + 1] ELSE vertexNum

\* Vertex i of the level; the array starts at 0, the sequence at 1.
mVertex(i) == currentQ[i + 1]

None == [at |-> "none", i |-> 0, j |-> 0]

\* Task c at the head of its outer loop with loop variable i.
AtVertex(c, i) ==
  IF i < nextIdx(c) THEN [at |-> "vertex", i |-> i, j |-> 0] ELSE None

\* A slip in spreadTask(): the source is a neighbour like any other.
AtEdgeOfSource(c, i, j) ==
  IF j >= nextVertexIndex(mVertex(i)) THEN AtVertex(c, i + 1)
  ELSE [at |-> "parent", i |-> i, j |-> j]

\* Task c in its inner loop at j: the next neighbour that is not the source,
\* or the head of the outer loop when there is none.
AtEdge(c, i, j) ==
  LET left == {k \in j .. nextVertexIndex(mVertex(i)) - 1 : linkedList[k] # source}
  IN  IF left = {} THEN AtVertex(c, i + 1)
      ELSE [at |-> "parent", i |-> i,
            j |-> CHOOSE k \in left : \A l \in left : k <= l]

\* A slip in tramp(): a task that returns keeps the processor.
MoveWithoutExit(c, t) ==
  /\ task' = [task EXCEPT ![c] = t]
  /\ turn' = IF t.at \in YieldAt THEN Nobody ELSE c

\* Task c gets to t and gives the processor up there if it yields or returns.
Move(c, t) ==
  /\ task' = [task EXCEPT ![c] = t]
  /\ turn' = IF t.at \in YieldAt \cup {"none"} THEN Nobody ELSE c

At(c, place) == turn = c /\ task[c].at = place

\* bfs() deals the level to realCoros tasks and calls AccirrRun().
StartLevel ==
  /\ main = "level"
  /\ currentQ # << >>
  /\ task' = [c \in Coro |-> IF c < realCoros THEN [None EXCEPT !.at = "start"]
                                              ELSE None]
  /\ main' = "run"
  /\ UNCHANGED <<graph, currentQ, nextQ, parent, level, turn>>

\* The scheduler hands a task the processor.
Resume(c) ==
  /\ main = "run"
  /\ turn = Nobody
  /\ task[c].at # "none"
  /\ turn' = c
  /\ UNCHANGED <<graph, currentQ, nextQ, parent, level, main, task>>

\* spreadTask() computes its share.
Begin(c) ==
  /\ At(c, "start")
  /\ Move(c, AtVertex(c, mIdx(c)))
  /\ UNCHANGED <<graph, currentQ, nextQ, parent, level, main>>

\* It reads the offsets of the vertex ...
ReadVertex(c) ==
  /\ At(c, "vertex")
  /\ Move(c, [task[c] EXCEPT !.at = "edges"])
  /\ UNCHANGED <<graph, currentQ, nextQ, parent, level, main>>

\* ... and goes through its neighbours.
ScanEdges(c) ==
  /\ At(c, "edges")
  /\ Move(c, AtEdge(c, task[c].i, vertexIndex[mVertex(task[c].i)]))
  /\ UNCHANGED <<graph, currentQ, nextQ, parent, level, main>>

\* It claims a neighbour that has no parent yet.
CheckParent(c) ==
  LET t == task[c]
      v == linkedList[t.j]
  IN  /\ At(c, "parent")
      /\ IF parent[v] = -1
         THEN /\ parent' = [parent EXCEPT ![v] = mVertex(t.i)]
              /\ nextQ' = Append(nextQ, v)
         ELSE UNCHANGED <<parent, nextQ>>
      /\ Move(c, AtEdge(c, t.i, t.j + 1))
      /\ UNCHANGED <<graph, currentQ, level, main>>

\* A slip in bfs(): nQLen is not reset.
EndLevelKeepsNext ==
  /\ main = "run"
  /\ turn = Nobody
  /\ \A c \in Coro : task[c].at = "none"
  /\ currentQ' = nextQ
  /\ level' = level + 1
  /\ main' = "level"
  /\ UNCHANGED <<graph, nextQ, parent, task, turn>>

\* AccirrRun() returns and bfs() takes up the vertices that were found.
EndLevel ==
  /\ main = "run"
  /\ turn = Nobody
  /\ \A c \in Coro : task[c].at = "none"
  /\ currentQ' = nextQ
  /\ nextQ' = << >>
  /\ level' = level + 1
  /\ main' = "level"
  /\ UNCHANGED <<graph, parent, task, turn>>

\* No vertex was found: the search is over.
Finish ==
  /\ main = "level"
  /\ currentQ = << >>
  /\ main' = "done"
  /\ UNCHANGED <<graph, currentQ, nextQ, parent, level, task, turn>>

Next ==
  \/ StartLevel
  \/ \E c \in Coro : Resume(c)
  \/ \E c \in Coro : Begin(c)
  \/ \E c \in Coro : ReadVertex(c)
  \/ \E c \in Coro : ScanEdges(c)
  \/ \E c \in Coro : CheckParent(c)
  \/ EndLevel
  \/ Finish

Spec == Init /\ [][Next]_vars
FairSpec == Spec /\ WF_vars(Next)

------------------------------------------------------------------------------
\* Every variable keeps its type; the queues fit the arrays, which have
\* vertexNum elements.
TypeOK ==
  /\ edges \in EdgeLists
  /\ vertexIndex \in [Vertex -> 0 .. 2 * edgeNum]
  /\ linkedList \in [0 .. 2 * edgeNum - 1 -> Vertex]
  /\ \A q \in {currentQ, nextQ} : q \in Seq(Vertex) /\ Len(q) <= vertexNum
  /\ parent \in [Vertex -> Vertex \cup {-1}]
  /\ level \in 0 .. vertexNum
  /\ main \in {"level", "run", "done"}
  /\ task \in [Coro -> [at : Yields \cup {"start", "none"}, i : 0 .. vertexNum - 1,
                        j : 0 .. 2 * edgeNum - 1]]
  /\ turn \in Coro \cup {Nobody}

\* The layout is the graph: between the offset of a vertex and the next one
\* stands each of its neighbours, once for every edge that joins them.
Slots(u) ==
  vertexIndex[u] .. (IF u + 1 < vertexNum THEN vertexIndex[u + 1] ELSE 2 * edgeNum) - 1
LinkedListHoldsEdges ==
  \A u, v \in Vertex :
    Cardinality({j \in Slots(u) : linkedList[j] = v})
    = Cardinality({k \in 1 .. edgeNum : edges[k] \in {<<u, v>>, <<v, u>>}})

\* The neighbours the search looks at, which for the last vertex are not all.
Seen(u) == {linkedList[j] : j \in vertexIndex[u] .. nextVertexIndex(u) - 1}

\* The vertices at most n, and exactly n, such steps away from the source.
Within[n \in 0 .. vertexNum + 1] ==
  IF n = 0 THEN {source}
  ELSE LET near == Within[n - 1] IN near \cup UNION {Seen(u) : u \in near}
Layer(n) == IF n = 0 THEN {source} ELSE Within[n] \ Within[n - 1]

Distinct(s) == \A k, l \in 1 .. Len(s) : s[k] = s[l] => k = l

\* The search is breadth-first however its tasks interleave: each level holds
\* the vertices at that distance, all of them, each once, and while the level
\* is searched only vertices one step farther are found.
LevelsAreLayers ==
  /\ Distinct(currentQ)
  /\ Distinct(nextQ)
  /\ main = "level" => Members(currentQ) = Layer(level)
  /\ Members(nextQ) \subseteq Layer(level + 1)

\* The tree is one of shortest paths: a vertex has a parent exactly when the
\* search has found it, and its parent is a neighbour one step nearer, so that
\* printPath() ends at the source.
ShortestPathTree ==
  /\ {v \in Vertex : parent[v] # -1} = (Within[level] \ {source}) \cup Members(nextQ)
  /\ \A n \in 1 .. level + 1 : \A v \in Layer(n) :
       parent[v] # -1 => parent[v] \in Layer(n - 1) /\ v \in Seen(parent[v])

\* The search ends.
SearchEnds == <>(main = "done")

------------------------------------------------------------------------------
\* Joined[n]: the vertices a path of at most n edges of the file leads to.
Joined[n \in 0 .. vertexNum] ==
  IF n = 0 THEN {source}
  ELSE LET near == Joined[n - 1] IN
       near \cup {v \in Vertex : \E k \in 1 .. edgeNum, u \in near :
                                 edges[k] \in {<<u, v>>, <<v, u>>}}

\* "no path" (printPath): it is printed of a vertex only if no path of the
\* graph leads there from the source.  The source itself is no such vertex.
NoPathMeansNone ==
  main = "done" =>
    \A v \in Vertex \ {source} : parent[v] = -1 => v \notin Joined[vertexNum]
==============================================================================
