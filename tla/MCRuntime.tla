------------------------------- MODULE MCRuntime -------------------------------
\* Model values and symmetry for checking Runtime.
EXTENDS Runtime, TLC

WorkerSymmetry == Permutations(Worker)
==============================================================================
