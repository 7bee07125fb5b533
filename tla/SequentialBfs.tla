----------------------------- MODULE SequentialBfs -----------------------------
(***************************************************************************)
(* The two searches of application/bfs that use no tasks, on the graph of  *)
(* Bfs: threadbfs.cpp, which the search with tasks is measured against,    *)
(* and naivebfs.cpp, with one queue that wraps round.  Both lay the graph  *)
(* out as bfs.cpp does.                                                    *)
(***************************************************************************)
EXTENDS Bfs, SequencesExt

\* With one vertex endIdx is never wrapped round to nowIdx.
ASSUME NaiveAssumption == vertexNum > 1

\* The neighbours that stand at from .. to - 1 of linkedList, in that order.
Neighbours(from, to) == [k \in 1 .. to - from |-> linkedList[from + k - 1]]
NoParent == [v \in Vertex |-> -1]

------------------------------------------------------------------------------
\* A slip in threadbfs: only what the vertex itself has found is not found again.
VisitTwice(u, found, v) ==
  IF v = source \/ found.parent[v] = u THEN found
  ELSE [parent |-> [found.parent EXCEPT ![v] = u], nextQ |-> Append(found.nextQ, v)]

\* spreadTask() of threadbfs looks at neighbour v of u,
Visit(u, found, v) ==
  IF v = source \/ found.parent[v] # -1 THEN found
  ELSE [parent |-> [found.parent EXCEPT ![v] = u], nextQ |-> Append(found.nextQ, v)]

\* ... at all neighbours of u, up to the bound bfs.cpp has, too,
VisitVertex(found, u) ==
  FoldLeft(LAMBDA f, v : Visit(u, f, v), found, Neighbours(vertexIndex[u], nextVertexIndex(u)))

\* ... and bfs() of threadbfs is at its n-th level.
threadbfs(level_) ==
  LET bfs[n \in 0 .. level_] ==
        IF n = 0 THEN [parent |-> NoParent, currentQ |-> <<source>>]
        ELSE LET found == FoldLeft(VisitVertex, [parent |-> bfs[n - 1].parent, nextQ |-> << >>],
                                   bfs[n - 1].currentQ)
             IN [parent |-> found.parent, currentQ |-> found.nextQ]
  IN bfs[level_]

\* The queue of naivebfs wraps round.
WrapAround(i) == IF i + 1 < vertexNum THEN i + 1 ELSE 0

\* A slip: it wraps round one place too late.
NaiveVisitLate(u, s, v) ==
  IF s.parent[v] # -1 THEN s
  ELSE [s EXCEPT !.parent[v] = u, !.searchedList[s.endIdx] = v,
                 !.endIdx = IF @ < vertexNum THEN @ + 1 ELSE 0]

NaiveVisit(u, s, v) ==
  IF s.parent[v] # -1 THEN s
  ELSE [s EXCEPT !.parent[v] = u, !.searchedList[s.endIdx] = v, !.endIdx = WrapAround(@)]

\* The neighbours of u, as far as the loop gets: it breaks at the source.
NaiveSees(u) ==
  LET all == Neighbours(vertexIndex[u],
                        IF u + 1 < vertexNum THEN vertexIndex[u + 1] ELSE 2 * edgeNum)
      stops == {k \in 1 .. Len(all) : all[k] = source}
  IN IF stops = {} THEN all ELSE SubSeq(all, 1, Min(stops) - 1)

NaiveStep(s) ==
  LET u == s.searchedList[s.nowIdx] IN
  FoldLeft(LAMBDA r, v : NaiveVisit(u, r, v), [s EXCEPT !.nowIdx = WrapAround(@)], NaiveSees(u))

\* bfs() of naivebfs after at most n rounds of its loop.
naivebfs(rounds) ==
  LET bfs[n \in 0 .. rounds] ==
        IF n = 0 THEN [searchedList |-> [i \in Vertex |-> IF i = 0 THEN source ELSE -1],
                       nowIdx |-> 0, endIdx |-> 1, parent |-> NoParent]
        ELSE IF bfs[n - 1].nowIdx = bfs[n - 1].endIdx THEN bfs[n - 1] ELSE NaiveStep(bfs[n - 1])
  IN bfs[rounds]

------------------------------------------------------------------------------
\* The search with tasks finds, level by level, what threadbfs finds: the same
\* vertices, whichever task found them first, though perhaps in another order
\* and by other parents.
FindsWhatThreadbfsFinds ==
  main = "level" =>
    LET sequential == threadbfs(level) IN
    /\ ToSet(currentQ) = ToSet(sequential.currentQ)
    /\ Len(currentQ) = Len(sequential.currentQ)
    /\ \A v \in Vertex : parent[v] = -1 <=> sequential.parent[v] = -1

\* The vertices that n steps along the neighbours naivebfs looks at lead to.
NaiveWithin[n \in 0 .. vertexNum] ==
  IF n = 0 THEN {source}
  ELSE LET near == NaiveWithin[n - 1] IN near \cup UNION {ToSet(NaiveSees(u)) : u \in near}

\* naivebfs ends although its queue is told empty by nowIdx = endIdx alone and
\* wraps round, and its tree is then one of shortest paths among the neighbours
\* it looks at: printPath() ends at the source.
NaiveTreeIsShortest ==
  main = "level" /\ level = 0 =>
    LET done == naivebfs(vertexNum) IN
    /\ done.nowIdx = done.endIdx
    /\ \A v \in Vertex : done.parent[v] # -1 <=> v \in NaiveWithin[vertexNum] \ {source}
    /\ \A n \in 1 .. vertexNum : \A v \in NaiveWithin[n] \ NaiveWithin[n - 1] :
         LET p == done.parent[v] IN
         /\ p \in NaiveWithin[n - 1] /\ (n > 1 => p \notin NaiveWithin[n - 2])
         /\ v \in ToSet(NaiveSees(p))
==============================================================================
