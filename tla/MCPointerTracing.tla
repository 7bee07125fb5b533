--------------------------- MODULE MCPointerTracing ---------------------------
\* Command lines for checking PointerTracing.
EXTENDS PointerTracing

MCCommand == [program |-> "pttest", syscpu |-> 4, PROC_NUM |-> 1, CORO_NUM |-> 2,
              TOTAL_LISTS |-> 3, LIST_LEN |-> 2, REPEAT_TIMES |-> 2, TOTAL_DATA |-> 0,
              TOTAL_TRAVERSE_TIME |-> 0]

MCCommands ==
  {[MCCommand EXCEPT !.program = p] : p \in {"pttest", "loadspttest", "newnodepttest", "pcm_pttest"}}
  \* one list more than there are tasks, and fewer lists than tasks
  \union {[MCCommand EXCEPT !.program = "pcm_pttest", !.CORO_NUM = 3, !.TOTAL_LISTS = 2]}
  \* as many processes as cores, more, and a remainder of LIST_LEN
  \union {[MCCommand EXCEPT !.program = "mppttest", !.PROC_NUM = p, !.syscpu = c, !.TOTAL_LISTS = 2] :
            p \in {3, 5}, c \in {4, 8}}
  \union {[MCCommand EXCEPT !.program = "mtpttest", !.PROC_NUM = 3, !.LIST_LEN = 4,
                            !.TOTAL_LISTS = 2, !.syscpu = c] : c \in {2, 6}}
  \union {[MCCommand EXCEPT !.program = p, !.PROC_NUM = 4, !.syscpu = 3] : p \in {"mpwordcount", "mpbfs"}}
  \union {[MCCommand EXCEPT !.program = "old_pointer_tracing", !.TOTAL_DATA = 4]}
  \* fewer steps than a ring has nodes, as many, and more
  \union {[MCCommand EXCEPT !.program = "pointer_tracing", !.TOTAL_LISTS = 2, !.TOTAL_DATA = 4,
                            !.TOTAL_TRAVERSE_TIME = n] : n \in {2, 4, 7}}
==============================================================================
