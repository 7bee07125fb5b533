------------------------------- MODULE Processes -------------------------------
(***************************************************************************)
(* The programs that run as several processes fork them before they do     *)
(* anything else: the parent forks PROC_NUM - 1 children, each of which    *)
(* leaves the loop with the processid its parent then had, and every       *)
(* process binds itself to a core by that number.  mtpttest also takes its *)
(* share of LIST_LEN by it.  fork() may fail: the loop only tests for 0,   *)
(* so that number then has no process.                                     *)
(***************************************************************************)
EXTENDS Shares, Sequences, FiniteSets, FiniteSetsExt

CONSTANT Commands   \* the programs and the arguments they are started with

\* What a command line gives, and the machine it is given on.
Command == [program : {"pttest", "loadspttest", "newnodepttest", "pcm_pttest", "mppttest",
                       "mtpttest", "old_pointer_tracing", "pointer_tracing", "mpwordcount", "mpbfs"},
            syscpu : Nat \ {0}, PROC_NUM : Nat, CORO_NUM : Nat, TOTAL_LISTS : Nat, LIST_LEN : Nat,
            REPEAT_TIMES : Nat, TOTAL_DATA : Nat, TOTAL_TRAVERSE_TIME : Nat]

Forking == {"mppttest", "mtpttest", "mpwordcount", "mpbfs"}

ASSUME CommandAssumption ==
  \A c \in Commands :
    /\ c \in Command
    /\ c.program \in Forking => c.PROC_NUM > 0
    /\ c.program \in {"mppttest", "mtpttest"} => c.syscpu > 1      \* offset%halfcore
    /\ c.program = "mtpttest" => c.LIST_LEN >= c.PROC_NUM

VARIABLES args,    \* the command
          procs    \* the processes, in the order they were made

ForkInit ==
  /\ args \in Commands
  /\ procs = <<[at |-> IF args.program \in Forking THEN "fork" ELSE "bind",
                processid |-> 0, bindid |-> 0, LIST_LEN |-> args.LIST_LEN]>>

More(p) == procs[p].at = "fork" /\ procs[p].processid < args.PROC_NUM - 1
CountedBy(p) == [procs EXCEPT ![p].processid = @ + 1]

\* A slip: the parent counts the child before it makes it.
ForkCountsFirst(p) ==
  /\ More(p)
  /\ procs' = Append(CountedBy(p), [CountedBy(p)[p] EXCEPT !.at = "bind"])
  /\ UNCHANGED args

\* fork() makes a child, which is out of the loop ...
Fork(p) ==
  /\ More(p)
  /\ procs' = Append(CountedBy(p), [procs[p] EXCEPT !.at = "bind"])
  /\ UNCHANGED args

\* ... or fails.
ForkFails(p) == More(p) /\ procs' = CountedBy(p) /\ UNCHANGED args

\* The cores processes are dealt to: first one to each quarter of the machine
\* by turns (mppttest), first both halves (mtpttest), or in order.
DiffSocket(syscpu, offset) ==
  LET halfcore == syscpu \div 2
      halfoffset == offset % halfcore
  IN (IF offset < halfcore THEN 0 ELSE halfcore) + (halfoffset \div 2)
       + (IF halfoffset % 2 = 0 THEN 0 ELSE syscpu \div 4)
SameCore(syscpu, offset) == (offset \div 2) + (offset % 2) * (syscpu \div 2)

BindId(processid) ==
  LET offset == processid % args.syscpu IN
  CASE args.program = "mppttest" -> DiffSocket(args.syscpu, offset)
    [] args.program = "mtpttest" -> SameCore(args.syscpu, offset)
    [] args.program \in {"mpwordcount", "mpbfs"} -> offset
    [] OTHER -> 0

Bind(p) ==
  /\ procs[p].at \in {"fork", "bind"} /\ ~More(p)
  /\ procs' = [procs EXCEPT
       ![p].at = "main",
       ![p].bindid = BindId(procs[p].processid),
       ![p].LIST_LEN = IF args.program = "mtpttest"
                       THEN ShareLen(args.LIST_LEN, args.PROC_NUM, procs[p].processid) ELSE @]
  /\ UNCHANGED args

ForkNext == \E p \in 1 .. Len(procs) : Fork(p) \/ ForkFails(p) \/ Bind(p)
AllBound == \A p \in 1 .. Len(procs) : procs[p].at = "main"
------------------------------------------------------------------------------
On(core) == Cardinality({p \in 1 .. Len(procs) : procs[p].bindid = core})
Dealt ==   \* the programs deal cores evenly on machines of this shape
  CASE args.program = "mppttest" -> args.syscpu % 4 = 0
    [] args.program = "mtpttest" -> args.syscpu % 2 = 0
    [] OTHER -> args.program \in Forking

\* The processes divide the work: no two have the same number, so that no two
\* write the same log file; and if no fork failed, the shares of LIST_LEN that
\* mtpttest's take sum to it, and no core has two processes more than another,
\* although mppttest and mtpttest deal the cores in orders of their own.
ProcessesShare ==
  AllBound =>
    /\ \A p, q \in 1 .. Len(procs) : p # q => procs[p].processid # procs[q].processid
    /\ Len(procs) = args.PROC_NUM =>
         /\ args.program = "mtpttest" =>
              SumFunction([p \in 1 .. Len(procs) |-> procs[p].LIST_LEN]) = args.LIST_LEN
         /\ Dealt => \A c, d \in 0 .. args.syscpu - 1 : On(c) <= On(d) + 1
    /\ \A p \in 1 .. Len(procs) : procs[p].bindid \in 0 .. args.syscpu - 1
================================================================================
