--------------------------- MODULE MCTaskScheduler ---------------------------
\* Model values, workloads and symmetry for checking TaskScheduler.
EXTENDS TaskScheduler, TLC

\* Tasks are interchangeable: which is which is decided by the calls they make.
WorkerSymmetry == Permutations(Worker)
==============================================================================
