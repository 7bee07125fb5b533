--------------------------- MODULE MCPrefetchQueue ---------------------------
\* Model values and symmetry for checking PrefetchQueue.
EXTENDS PrefetchQueue, TLC

\* Workers are interchangeable: they differ only in their addresses.
WorkerSymmetry == Permutations(Worker)
==============================================================================
