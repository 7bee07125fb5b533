---------------------------- MODULE ThreadQueueOps ----------------------------
(***************************************************************************)
(* The class ThreadQueue of system/ThreadQueue.h: a singly linked list     *)
(* threaded through the `next' field of the workers themselves.  A queue   *)
(* is a record of its three fields; the `next' fields of all workers are   *)
(* one function, because every queue of the program writes the same field. *)
(* Each operation is two operators: the queue it leaves behind and the     *)
(* `next' fields it leaves behind.                                         *)
(***************************************************************************)
EXTENDS Integers

CONSTANTS Worker,   \* the workers
          Wild,     \* an uninitialised pointer: a node that is no worker
          NULL      \* the null pointer

ASSUME NullAssumption == NULL \notin Worker \cup {Wild}
ASSUME WildAssumption == Wild \notin Worker

Node == Worker \cup {Wild}
Pointer == Node \cup {NULL}

ThreadQueues == [head : Pointer, tail : Pointer, len : Nat]

\* The state the constructor ThreadQueue() leaves.
Constructed == [head |-> NULL, tail |-> NULL, len |-> 0]

\* A slip in enqueue(): the tail stays where it was.
EnqueueQueueKeepsTail(tq, t) ==
  [head |-> IF tq.head = NULL THEN t ELSE tq.head,
   tail |-> IF tq.head = NULL THEN t ELSE tq.tail,
   len  |-> tq.len + 1]

\* enqueue(t): link t behind the tail, or make it the head of an empty list.
EnqueueQueue(tq, t) ==
  [head |-> IF tq.head = NULL THEN t ELSE tq.head,
   tail |-> t,
   len  |-> tq.len + 1]

EnqueueNext(tq, next, t) ==
  IF tq.head = NULL
  THEN [next EXCEPT ![t] = NULL]
  ELSE [next EXCEPT ![tq.tail] = t, ![t] = NULL]

\* A slip in dequeueLazy(): the length is not counted down.
DequeueQueueKeepsLen(tq, next) ==
  IF tq.head # NULL
  THEN [tq EXCEPT !.head = next[tq.head]]
  ELSE [tq EXCEPT !.tail = NULL]

\* dequeueLazy(): unlink the head; its own next field is left as it was, and
\* the tail is reset only by a call that finds the list empty.
DequeueQueue(tq, next) ==
  IF tq.head # NULL
  THEN [tq EXCEPT !.head = next[tq.head], !.len = tq.len - 1]
  ELSE [tq EXCEPT !.tail = NULL]
==============================================================================
