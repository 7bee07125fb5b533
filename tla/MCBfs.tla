-------------------------------- MODULE MCBfs --------------------------------
\* Places to yield for checking Bfs: mpbfs.cpp yields at all three, bfs.cpp
\* only before it goes through the neighbours of a vertex.
EXTENDS SequentialBfs

MpbfsYields == {"vertex", "edges", "parent"}
BfsYields == {"edges"}

\* Edges on five vertices: a star of three around vertex 1, cycles over it, and
\* a vertex that is two steps away.  Listed in both directions.
FivePairs == {<<0, 1>>, <<1, 2>>, <<3, 1>>, <<0, 3>>, <<3, 2>>, <<2, 4>>, <<4, 0>>}
==============================================================================
