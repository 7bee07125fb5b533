------------------------------ MODULE FifoQueue ------------------------------
(***************************************************************************)
(* What the ready queue promises the scheduler: a first-in first-out queue *)
(* of workers.  Dequeue hands over the oldest worker, and answers NULL     *)
(* exactly when nothing is queued.  PrefetchQueue, the round-robin array   *)
(* of intrusive lists in ThreadQueue.h, is checked to implement it.        *)
(***************************************************************************)
EXTENDS Sequences

CONSTANTS Worker,   \* the workers (coroutines) a queue can hold
          NULL      \* the null pointer

VARIABLES q,        \* the queued workers, oldest first
          ret       \* what the last dequeue answered

vars == <<q, ret>>

Init == q = << >> /\ ret = NULL

Enqueue(t) ==
  /\ q' = Append(q, t)
  /\ UNCHANGED ret

Dequeue ==
  /\ q # << >>
  /\ ret' = Head(q)
  /\ q' = Tail(q)

DequeueEmpty ==
  /\ q = << >>
  /\ ret' = NULL
  /\ UNCHANGED q

Next == Dequeue \/ DequeueEmpty \/ \E t \in Worker : Enqueue(t)

Spec == Init /\ [][Next]_vars
==============================================================================
