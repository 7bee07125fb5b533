------------------------- MODULE PointerTracingProofs -------------------------
(***************************************************************************)
(* The processes share the machine and the work, the lists are filled,     *)
(* every node is freed once, and in the end every node has been read as    *)
(* often as asked: for every number of processes, cores, tasks, lists and  *)
(* nodes, whichever lists or rings the nodes are dealt to.                 *)
(***************************************************************************)
EXTENDS PointerTracing, SharesProofs, Induction, SequenceTheorems

------------------------------------------------------------------------------
\* A process, and what it has once it is bound to its core.
Process == [at : {"fork", "bind", "main"}, processid : Nat, bindid : Nat, LIST_LEN : Nat]
Length(p) ==
  IF args.program = "mtpttest" /\ procs[p].at = "main"
  THEN ShareLen(args.LIST_LEN, args.PROC_NUM, procs[p].processid) ELSE args.LIST_LEN

Has(p) ==
  /\ procs[p].LIST_LEN = Length(p)
  /\ procs[p].at = "main" => procs[p].bindid = BindId(procs[p].processid)

\* Only the first process forks, and it has counted past the number of every
\* other; while no fork has failed, the numbers are those of the forks.
Forked ==
  /\ args \in Commands
  /\ procs \in Seq(Process) /\ Len(procs) > 0
  /\ \A p \in 2 .. Len(procs) : procs[p].at # "fork" /\ procs[p].processid < procs[1].processid
  /\ \A p, q \in 1 .. Len(procs) : p # q => procs[p].processid # procs[q].processid
  /\ IF args.program \in Forking
     THEN /\ procs[1].processid < args.PROC_NUM
          /\ procs[1].at # "fork" => procs[1].processid = args.PROC_NUM - 1
     ELSE procs[1].processid = 0 /\ procs[1].at # "fork"
  /\ Len(procs) <= procs[1].processid + 1
  /\ Len(procs) = procs[1].processid + 1 =>
       \A p \in 2 .. Len(procs) : procs[p].processid = p - 2
  /\ \A p \in 1 .. Len(procs) : Has(p)

------------------------------------------------------------------------------
Nodes == DOMAIN next
Listing == Program \in Rereads \cup Rewalks    \* builds lists, not rings
Before == phase \in {"processes", "build"}
After == phase \in {"free", "end"}

\* Links and lists lead to nodes, whatever the program.
Closed ==
  /\ phase \in {"processes", "elsewhere", "build", "run", "free", "end"}
  /\ phase \notin {"processes", "elsewhere"} => Program \in Rings \cup Rereads \cup Rewalks
  /\ phase # "processes" => AllBound /\ me \in 1 .. Len(procs)
  /\ Allocated \in Nat /\ Nodes = 0 .. Allocated - 1
  /\ next \in [Nodes -> Nodes \cup {NULL}]
  /\ head \in [Lists -> Nodes \cup {NULL}]
  /\ allList \in [Lists -> Nodes \cup {NULL}]
  /\ tofillLists \in Int /\ tofillLists <= args.TOTAL_LISTS
  /\ Program = "pointer_tracing" =>
       /\ mBitmap \in [0 .. args.TOTAL_DATA - 1 -> 0 .. args.TOTAL_DATA - 1]
       /\ \A n \in 0 .. args.TOTAL_DATA - 1 : \E i \in 0 .. args.TOTAL_DATA - 1 : mBitmap[i] = n
       /\ Nodes \in {{}, 0 .. args.TOTAL_DATA - 1}
       /\ ~Before /\ phase # "elsewhere" => Nodes # {}

\* What is allocated, and where the tasks are in it.
Kept ==
  /\ ~After => live = IF Program = "pointer_tracing" THEN 0 .. args.TOTAL_DATA - 1 ELSE Nodes
  /\ phase = "end" => live = IF Program = "old_pointer_tracing" THEN Nodes ELSE {}
  /\ mine = [t \in Tasks |-> mine[t]]
  /\ \A t \in Tasks : mine[t].at = "node" => phase = "run" /\ mine[t].node \in Nodes
  /\ phase = "free" => Listing

\* The lists that are not full are the first of listNumber, once each.
Filling ==
  Listing =>
    /\ listsLen \in [Lists -> Nat]
    /\ listNumber \in [Lists -> Lists]
    /\ tofillLists >= 0
    /\ \A k, l \in 0 .. tofillLists - 1 : k # l => listNumber[k] # listNumber[l]
    /\ phase = "processes" =>
         /\ tofillLists = args.TOTAL_LISTS
         /\ \A i \in Lists : listNumber[i] = i /\ listsLen[i] = 0
    /\ phase = "build" => \A i \in Lists :
         /\ listsLen[i] <= LIST_LEN
         /\ listsLen[i] < LIST_LEN <=> \E k \in 0 .. tofillLists - 1 : listNumber[k] = i
    /\ ~Before => \A i \in Lists : listsLen[i] > 0

\* nodes are the nodes of each list, in the order of the links: every node is in
\* one list, at one place.
Linked(nodes) ==
  /\ \A i \in Lists :
       /\ Len(nodes[i]) = listsLen[i]
       /\ head[i] = IF listsLen[i] = 0 THEN NULL ELSE nodes[i][1]
       /\ \A k \in 1 .. listsLen[i] :
            next[nodes[i][k]] = IF k < listsLen[i] THEN nodes[i][k + 1] ELSE NULL
  /\ \A n \in Nodes : \E i \in Lists : \E k \in 1 .. listsLen[i] : nodes[i][k] = n
  /\ \A i, j \in Lists : \A k \in 1 .. listsLen[i], l \in 1 .. listsLen[j] :
       nodes[i][k] = nodes[j][l] => i = j /\ k = l

\* While the lists are built, allList is where they end.
Ends(nodes) ==
  \A i \in Lists : allList[i] = IF listsLen[i] = 0 THEN NULL ELSE nodes[i][listsLen[i]]

\* While they are freed, what lies before freeing is gone.
Freed(nodes) ==
  /\ freeing.j \in Lists
  /\ \E pos \in 1 .. listsLen[freeing.j] :
       /\ freeing.node = nodes[freeing.j][pos]
       /\ \A i \in Lists : \A k \in 1 .. listsLen[i] :
            nodes[i][k] \in live <=> (i > freeing.j \/ (i = freeing.j /\ k >= pos))
  /\ live \subseteq Nodes

Chained ==
  Listing => \E nodes \in [Lists -> Seq(Nodes)] :
    Linked(nodes) /\ (Before => Ends(nodes)) /\ (phase = "free" => Freed(nodes))

\* The inductive invariant.
TracingInv == Forked /\ Closed /\ Kept /\ Filling /\ Chained
------------------------------------------------------------------------------
\* What quotients of 2 and 4 come to.
LEMMA Halves ==
  ASSUME NEW x \in Nat
  PROVE  /\ x \div 2 \in Nat /\ x % 2 \in {0, 1} /\ x = (x \div 2) + (x \div 2) + (x % 2)
         /\ x \div 4 \in Nat /\ 4 * (x \div 4) <= x
<1>1. x \div 2 \in Nat /\ x % 2 \in 0 .. 1 /\ x = 2 * (x \div 2) + (x % 2)
  BY Division
<1>2. x \div 4 \in Nat /\ x % 4 \in 0 .. 3 /\ x = 4 * (x \div 4) + (x % 4)
  BY Division
<1>3. \A d, r \in Nat : x = 2 * d + r => x = d + d + r
  OBVIOUS
<1>4. \A d, r \in Nat : x = 4 * d + r => 4 * d <= x
  OBVIOUS
<1> QED
  BY <1>1, <1>2, <1>3, <1>4

\* A process is bound to a core that there is.
LEMMA BoundToACore ==
  ASSUME args \in Command, args.program = "mppttest" => args.syscpu > 1, NEW id \in Nat
  PROVE  BindId(id) \in 0 .. args.syscpu - 1
<1> DEFINE s == args.syscpu
           h == s \div 2
           o == id % s
<1>1. s \in Nat \ {0} /\ o \in 0 .. s - 1 /\ h \in Nat
      /\ h + h <= s /\ s <= h + h + 1 /\ (args.program = "mppttest" => h > 0)
  <2>1. s \in Nat \ {0}
    BY DEF Command
  <2>2. o \in 0 .. s - 1
    BY <2>1, Division
  <2>3. h \in Nat /\ h + h <= s /\ s <= h + h + 1
    BY <2>1, SMTT(20)
  <2> QED
    BY <2>1, <2>2, <2>3
<1>2. BindId(id) = CASE args.program = "mppttest" -> DiffSocket(s, o)
                     [] args.program = "mtpttest" -> SameCore(s, o)
                     [] args.program \in {"mpwordcount", "mpbfs"} -> o
                     [] OTHER -> 0
  BY DEF BindId
<1> HIDE DEF s, h, o
<1>3. CASE args.program = "mppttest"
  <2>1. o % h \in 0 .. h - 1
    BY <1>1, <1>3, Division
  <2> DEFINE g == o % h
             d == g \div 2
             e == g % 2
             u == s \div 4
  <2>2. DiffSocket(s, o) = (IF o < h THEN 0 ELSE h) + d + (IF e = 0 THEN 0 ELSE u)
    BY DEF DiffSocket, h
  <2>3. g \in 0 .. h - 1
    BY <2>1
  <2> HIDE DEF g
  <2>4. d \in Nat /\ e \in {0, 1} /\ g = d + d + e
    BY <1>1, <2>3, Halves
  <2>5. u \in Nat /\ 4 * u <= s
    BY <1>1, Halves
  <2> HIDE DEF d, e, u
  <2>6. DiffSocket(s, o) \in 0 .. s - 1
    BY <1>1, <2>2, <2>3, <2>4, <2>5
  <2> QED
    BY <1>2, <1>3, <2>6 DEF s
<1>4. CASE args.program = "mtpttest"
  <2> DEFINE d == o \div 2
             e == o % 2
  <2>1. SameCore(s, o) = d + e * h
    BY DEF SameCore, h
  <2>2. d \in Nat /\ e \in {0, 1} /\ o = d + d + e
    BY <1>1, Halves
  <2> HIDE DEF d, e
  <2>3. e * h = IF e = 0 THEN 0 ELSE h
    BY <1>1, <2>2
  <2>4. SameCore(s, o) \in 0 .. s - 1
    BY <1>1, <2>1, <2>2, <2>3
  <2> QED
    BY <1>2, <1>4, <2>4 DEF s
<1>5. CASE args.program \notin {"mppttest", "mtpttest"}
  <2> QED
    BY <1>1, <1>2, <1>5 DEF s
<1> QED
  BY <1>3, <1>4, <1>5

------------------------------------------------------------------------------
\* The commands are what they may be.
LEMMA CommandGiven ==
  ASSUME args \in Commands
  PROVE  /\ args \in Command
         /\ args.program \in Forking => args.PROC_NUM \in Nat \ {0}
         /\ args.program = "mppttest" => args.syscpu > 1
         /\ args.program = "mtpttest" => args.LIST_LEN \in Nat /\ args.LIST_LEN >= args.PROC_NUM
BY CommandAssumption DEF Command

LEMMA ForkedInit == ForkInit => Forked
<1> SUFFICES ASSUME ForkInit
             PROVE  Forked
  OBVIOUS
<1>1. args \in Commands /\ args \in Command
  BY CommandGiven DEF ForkInit
<1>2. args.LIST_LEN \in Nat /\ (args.program \in Forking => args.PROC_NUM \in Nat \ {0})
  BY <1>1, CommandGiven DEF Command
<1>3. PICK r : r = [at |-> IF args.program \in Forking THEN "fork" ELSE "bind",
                    processid |-> 0, bindid |-> 0, LIST_LEN |-> args.LIST_LEN]
  OBVIOUS
<1>4. procs = <<r>> /\ Len(procs) = 1 /\ procs[1] = r
  BY <1>3 DEF ForkInit
<1>5. r \in Process
  BY <1>1, <1>3 DEF Process, Command
<1>6. procs \in Seq(Process)
  BY <1>4, <1>5
<1>7. \A p \in 1 .. Len(procs) : p = 1
  BY <1>4
<1>8. 2 .. Len(procs) = {}
  BY <1>4
<1>9. r.at \in {"fork", "bind"} /\ r.processid = 0 /\ r.LIST_LEN = args.LIST_LEN
      /\ (r.at = "fork" <=> args.program \in Forking)
  BY <1>3
<1>10. \A p \in 1 .. Len(procs) : Has(p)
  BY <1>4, <1>7, <1>9 DEF Length, Has
<1> QED
  BY <1>1, <1>2, <1>4, <1>6, <1>7, <1>8, <1>9, <1>10 DEF Forked

LEMMA Numbered ==
  ASSUME procs \in Seq(Process)
  PROVE  \A q \in 1 .. Len(procs) : procs[q] \in Process /\ procs[q].processid \in Nat
<1>1. \A q \in 1 .. Len(procs) : procs[q] \in Process
  BY ElementOfSeq
<1> QED
  BY <1>1 DEF Process

\* The parent is one number further.
LEMMA Counted ==
  ASSUME Forked, NEW p \in 1 .. Len(procs), More(p)
  PROVE  /\ p = 1 /\ args.program \in Forking
         /\ procs[1].processid + 1 \in 1 .. args.PROC_NUM - 1
         /\ CountedBy(p) \in Seq(Process) /\ Len(CountedBy(p)) = Len(procs)
         /\ CountedBy(p)[1] = [procs[1] EXCEPT !.processid = @ + 1]
         /\ \A q \in 2 .. Len(procs) : CountedBy(p)[q] = procs[q]
<1>1. p = 1
  BY DEF More, Forked
<1>2. procs \in Seq(Process) /\ Len(procs) \in Nat /\ procs[1] \in Process
  BY <1>1 DEF Forked
<1>3. args.program \in Forking /\ args.PROC_NUM \in Nat
  BY <1>1, CommandGiven DEF Forked, More
<1>4. procs[1].processid \in Nat /\ procs[1].processid < args.PROC_NUM - 1
  BY <1>1, <1>2 DEF More, Process
<1>5. PICK r : r = [procs[1] EXCEPT !.processid = @ + 1]
  OBVIOUS
<1>6. r \in Process
  <2>1. PICK a : a = procs[1]
    OBVIOUS
  <2>2. PICK id \in Nat : id = a.processid + 1
    BY <1>4, <2>1
  <2>3. r = [a EXCEPT !.processid = id]
    BY <1>5, <2>1, <2>2
  <2> QED
    BY <1>2, <2>1, <2>2, <2>3 DEF Process
<1>7. CountedBy(p) = [procs EXCEPT ![1] = r]
  BY <1>1, <1>5 DEF CountedBy
<1>8. CountedBy(p) \in Seq(Process) /\ Len(CountedBy(p)) = Len(procs)
      /\ \A q \in 1 .. Len(procs) : CountedBy(p)[q] = IF q = 1 THEN r ELSE procs[q]
  BY <1>1, <1>2, <1>6, <1>7, ExceptSeq
<1>9. \A q \in 2 .. Len(procs) : q \in 1 .. Len(procs) /\ q # 1
  BY <1>2
<1>10. CountedBy(p)[1] = r /\ \A q \in 2 .. Len(procs) : CountedBy(p)[q] = procs[q]
  BY <1>1, <1>8, <1>9
<1>11. procs[1].processid + 1 \in 1 .. args.PROC_NUM - 1
  BY <1>3, <1>4
<1> QED
  BY <1>1, <1>3, <1>5, <1>8, <1>10, <1>11

LEMMA ForkedFork ==
  ASSUME Forked, NEW p \in 1 .. Len(procs), Fork(p)
  PROVE  Forked'
<1>1. More(p) /\ args' = args
  BY DEF Fork
<1>2. /\ p = 1 /\ args.program \in Forking
      /\ procs[1].processid + 1 \in 1 .. args.PROC_NUM - 1
      /\ CountedBy(1) \in Seq(Process) /\ Len(CountedBy(1)) = Len(procs)
      /\ CountedBy(1)[1] = [procs[1] EXCEPT !.processid = @ + 1]
      /\ \A q \in 2 .. Len(procs) : CountedBy(1)[q] = procs[q]
  BY <1>1, Counted
<1>3. PICK L, r, c : L = Len(procs) /\ r = procs[1] /\ c = [procs[1] EXCEPT !.at = "bind"]
  OBVIOUS
<1>4. L \in Nat \ {0} /\ r \in Process /\ procs \in Seq(Process)
  BY <1>2, <1>3 DEF Forked
<1>5. c \in Process /\ c.at = "bind" /\ c.processid = r.processid /\ c.LIST_LEN = r.LIST_LEN
  BY <1>3, <1>4 DEF Process
<1>6. procs' = Append(CountedBy(1), c)
  BY <1>2, <1>3 DEF Fork
<1>7. /\ procs' \in Seq(Process) /\ Len(procs') = L + 1
      /\ \A q \in 1 .. L : procs'[q] = CountedBy(1)[q]
      /\ procs'[L + 1] = c
  <2>1. PICK s : s = CountedBy(1)
    OBVIOUS
  <2>2. s \in Seq(Process) /\ Len(s) = L /\ c \in Process /\ procs' = Append(s, c)
    BY <1>2, <1>3, <1>5, <1>6, <2>1
  <2> QED
    BY <1>4, <2>1, <2>2, AppendProperties
<1>8. procs'[1].at = "fork" /\ procs'[1].processid = r.processid + 1
      /\ procs'[1].LIST_LEN = r.LIST_LEN
  <2>1. 1 \in 1 .. L /\ r.at = "fork"
    BY <1>1, <1>2, <1>3, <1>4 DEF More
  <2>2. procs'[1] = [r EXCEPT !.processid = @ + 1]
    BY <1>2, <1>3, <1>7, <2>1
  <2>3. r.at = "fork" /\ r \in Process
    BY <1>4, <2>1
  <2> QED
    BY <2>2, <2>3 DEF Process
<1>9. \A q \in 2 .. L : procs'[q] = procs[q]
  BY <1>2, <1>3, <1>4, <1>7
<1>18. procs'[L + 1].at = "bind" /\ procs'[L + 1].processid = r.processid
       /\ procs'[L + 1].LIST_LEN = r.LIST_LEN
  <2>1. procs'[L + 1] = c
    BY <1>7
  <2> QED
    BY <1>5, <2>1
<1>10. \A q \in 1 .. L + 1 : q = 1 \/ q \in 2 .. L \/ q = L + 1
  BY <1>4
<1>11. r.processid \in Nat /\ args.PROC_NUM \in Nat
  BY <1>1, <1>2, <1>4, CommandGiven DEF Process, Forked
<1>12. /\ \A q \in 2 .. L : procs[q].at # "fork" /\ procs[q].processid < r.processid
       /\ \A q, k \in 1 .. L : q # k => procs[q].processid # procs[k].processid
       /\ L <= r.processid + 1
       /\ L = r.processid + 1 => \A q \in 2 .. L : procs[q].processid = q - 2
       /\ \A q \in 1 .. L : Has(q)
  BY <1>3 DEF Forked
<1>13. \A q \in 2 .. L : procs[q].processid \in Nat
  <2>1. \A q \in 2 .. L : q \in 1 .. L
    BY <1>4
  <2> QED
    BY <1>3, <1>4, <2>1, Numbered
<1>14. \A q \in 2 .. L + 1 : procs'[q].at # "fork" /\ procs'[q].processid < procs'[1].processid
  <2> SUFFICES ASSUME NEW q \in 2 .. L + 1
               PROVE  procs'[q].at # "fork" /\ procs'[q].processid < procs'[1].processid
    OBVIOUS
  <2>1. CASE q \in 2 .. L
    BY <1>8, <1>9, <1>11, <1>12, <1>13, <2>1
  <2>2. CASE q = L + 1
    BY <1>8, <1>18, <1>11, <2>2
  <2> QED
    BY <1>4, <2>1, <2>2
<1>15. \A q, k \in 1 .. L + 1 : q # k => procs'[q].processid # procs'[k].processid
  <2>1. \A q, k \in 2 .. L : q # k => procs[q].processid # procs[k].processid
    BY <1>12
  <2>2. \A q \in 2 .. L :
          /\ procs'[q].processid \in Nat /\ procs'[q].processid < r.processid
          /\ \A k \in 2 .. L : q # k => procs'[q].processid # procs'[k].processid
    <3>1. \A q \in 2 .. L : procs'[q].processid \in Nat /\ procs'[q].processid < r.processid
      BY <1>9, <1>12, <1>13
    <3>2. \A q, k \in 2 .. L : q # k => procs'[q].processid # procs'[k].processid
      BY <1>9, <2>1
    <3> QED
      BY <3>1, <3>2
  <2> SUFFICES ASSUME NEW q \in 1 .. L + 1, NEW k \in 1 .. L + 1, q # k
               PROVE  procs'[q].processid # procs'[k].processid
    OBVIOUS
  <2>3. CASE q = 1
    BY <1>8, <1>10, <1>11, <1>18, <2>2, <2>3
  <2>4. CASE q = L + 1
    BY <1>8, <1>10, <1>11, <1>18, <2>2, <2>4
  <2>5. CASE q \in 2 .. L
    BY <1>8, <1>10, <1>11, <1>18, <2>2, <2>5
  <2> QED
    BY <1>10, <2>3, <2>4, <2>5
<1>16. L + 1 = procs'[1].processid + 1 => \A q \in 2 .. L + 1 : procs'[q].processid = q - 2
  <2> SUFFICES ASSUME L + 1 = procs'[1].processid + 1, NEW q \in 2 .. L + 1
               PROVE  procs'[q].processid = q - 2
    OBVIOUS
  <2>1. L = r.processid + 1
    BY <1>4, <1>8, <1>11
  <2>2. CASE q \in 2 .. L
    BY <1>9, <1>12, <2>1, <2>2
  <2>3. CASE q = L + 1
    <3>1. procs'[q].processid = r.processid
      BY <1>18, <2>3
    <3>2. q - 2 = r.processid
      BY <1>11, <2>1, <2>3
    <3> QED
      BY <3>1, <3>2
  <2> QED
    BY <1>4, <2>2, <2>3
<1>17. \A q \in 1 .. L + 1 : Has(q)'
  <2>1. r.LIST_LEN = args.LIST_LEN
    BY <1>1, <1>2, <1>3, <1>4, <1>12 DEF Has, Length, More
  <2>2. ASSUME NEW q \in 1 .. L + 1
        PROVE  Has(q)'
    <3>1. CASE q = 1
      BY <1>1, <1>8, <2>1, <3>1 DEF Has, Length
    <3>2. CASE q = L + 1
      BY <1>1, <1>18, <2>1, <3>2 DEF Has, Length
    <3>3. CASE q \in 2 .. L
      BY <1>1, <1>9, <1>12, <3>3 DEF Has, Length, BindId
    <3> QED
      BY <1>10, <3>1, <3>2, <3>3
  <2> QED
    BY <2>2
<1> QED
  BY <1>1, <1>2, <1>3, <1>4, <1>7, <1>8, <1>11, <1>12, <1>14, <1>15, <1>16, <1>17 DEF Forked

LEMMA ForkedForkFails ==
  ASSUME Forked, NEW p \in 1 .. Len(procs), ForkFails(p)
  PROVE  Forked'
<1>1. More(p) /\ args' = args /\ procs' = CountedBy(p)
  BY DEF ForkFails
<1>2. /\ p = 1 /\ args.program \in Forking
      /\ procs[1].processid + 1 \in 1 .. args.PROC_NUM - 1
      /\ procs' \in Seq(Process) /\ Len(procs') = Len(procs)
      /\ procs'[1] = [procs[1] EXCEPT !.processid = @ + 1]
      /\ \A q \in 2 .. Len(procs) : procs'[q] = procs[q]
  BY <1>1, Counted
<1>3. PICK L, r : L = Len(procs) /\ r = procs[1]
  OBVIOUS
<1>4. L \in Nat \ {0} /\ r \in Process /\ procs \in Seq(Process)
  BY <1>2, <1>3 DEF Forked
<1>5. procs'[1].at = "fork" /\ procs'[1].processid = r.processid + 1
      /\ procs'[1].LIST_LEN = r.LIST_LEN /\ r.at = "fork"
  BY <1>1, <1>2, <1>3, <1>4 DEF Process, More
<1>6. r.processid \in Nat /\ args.PROC_NUM \in Nat
  BY <1>1, <1>2, <1>4, CommandGiven DEF Process, Forked
<1>7. /\ \A q \in 2 .. L : procs[q].at # "fork" /\ procs[q].processid < r.processid
      /\ \A q, k \in 1 .. L : q # k => procs[q].processid # procs[k].processid
      /\ L <= r.processid + 1
      /\ \A q \in 1 .. L : Has(q)
  BY <1>3 DEF Forked
<1>8. \A q \in 2 .. L : procs[q].processid \in Nat
  <2>1. \A q \in 2 .. L : q \in 1 .. L
    BY <1>4
  <2> QED
    BY <1>3, <1>4, <2>1, Numbered
<1>9. \A q \in 2 .. L : procs'[q].at # "fork" /\ procs'[q].processid < procs'[1].processid
  BY <1>2, <1>3, <1>5, <1>6, <1>7, <1>8
<1>10. \A q, k \in 1 .. L : q # k => procs'[q].processid # procs'[k].processid
  <2>1. \A q, k \in 2 .. L : q # k => procs[q].processid # procs[k].processid
    BY <1>7
  <2>2. \A q \in 1 .. L : q = 1 \/ q \in 2 .. L
    BY <1>4
  <2>7. \A q \in 2 .. L : procs'[q] = procs[q]
    BY <1>2, <1>3
  <2>3. \A q \in 2 .. L :
          /\ procs'[q].processid \in Nat /\ procs'[q].processid < r.processid
          /\ \A k \in 2 .. L : q # k => procs'[q].processid # procs'[k].processid
    <3>1. \A q \in 2 .. L : procs'[q].processid \in Nat /\ procs'[q].processid < r.processid
      BY <1>7, <1>8, <2>7
    <3>2. \A q, k \in 2 .. L : q # k => procs'[q].processid # procs'[k].processid
      BY <2>1, <2>7
    <3> QED
      BY <3>1, <3>2
  <2> SUFFICES ASSUME NEW q \in 1 .. L, NEW k \in 1 .. L, q # k
               PROVE  procs'[q].processid # procs'[k].processid
    OBVIOUS
  <2>4. CASE q = 1
    BY <1>5, <1>6, <2>2, <2>3, <2>4
  <2>5. CASE q \in 2 .. L
    BY <1>5, <1>6, <2>2, <2>3, <2>5
  <2> QED
    BY <2>2, <2>4, <2>5
<1>11. \A q \in 1 .. L : Has(q)'
  <2>1. r.LIST_LEN = args.LIST_LEN
    BY <1>3, <1>4, <1>5, <1>7 DEF Has, Length
  <2> SUFFICES ASSUME NEW q \in 1 .. L
               PROVE  Has(q)'
    OBVIOUS
  <2>2. CASE q = 1
    BY <1>1, <1>5, <2>1, <2>2 DEF Has, Length
  <2>3. CASE q \in 2 .. L
    BY <1>1, <1>2, <1>3, <1>7, <2>3 DEF Has, Length, BindId
  <2> QED
    BY <1>4, <2>2, <2>3
<1>12. L < procs'[1].processid + 1
  BY <1>4, <1>5, <1>6, <1>7
<1> QED
  BY <1>1, <1>2, <1>3, <1>4, <1>5, <1>6, <1>9, <1>10, <1>11, <1>12 DEF Forked

LEMMA ForkedBind ==
  ASSUME Forked, NEW p \in 1 .. Len(procs), Bind(p)
  PROVE  Forked'
<1>1. /\ procs[p].at # "main" /\ ~More(p) /\ args' = args
      /\ procs' = [procs EXCEPT
           ![p].at = "main",
           ![p].bindid = BindId(procs[p].processid),
           ![p].LIST_LEN = IF args.program = "mtpttest"
                           THEN ShareLen(args.LIST_LEN, args.PROC_NUM, procs[p].processid)
                           ELSE @]
  BY DEF Bind
<1>2. PICK L : L = Len(procs)
  OBVIOUS
<1>3. /\ L \in Nat \ {0} /\ procs \in Seq(Process) /\ procs[p] \in Process
      /\ procs[p].LIST_LEN = args.LIST_LEN /\ args.LIST_LEN \in Nat
  <2>1. L \in Nat \ {0} /\ procs \in Seq(Process) /\ args \in Command
    BY <1>2, CommandGiven DEF Forked
  <2>2. procs[p].LIST_LEN = args.LIST_LEN
    BY <1>1, <1>2 DEF Forked, Has, Length
  <2>3. procs[p] \in Process
    BY <2>1, ElementOfSeq
  <2> QED
    BY <2>1, <2>2, <2>3 DEF Command
<1>4. PICK len2 : len2 = IF args.program = "mtpttest"
                         THEN ShareLen(args.LIST_LEN, args.PROC_NUM, procs[p].processid)
                         ELSE args.LIST_LEN
  OBVIOUS
<1>5. PICK r : r = [procs[p] EXCEPT !.at = "main", !.bindid = BindId(procs[p].processid),
                                    !.LIST_LEN = len2]
  OBVIOUS
<1>6. /\ r.at = "main" /\ r.processid = procs[p].processid /\ r.LIST_LEN = len2
      /\ r.bindid = BindId(r.processid) /\ r \in Process
  <2>1. args \in Command /\ procs[p].processid \in Nat
    BY <1>3, CommandGiven DEF Forked, Process
  <2>2. BindId(procs[p].processid) \in Nat
    <3>1. BindId(procs[p].processid) \in 0 .. args.syscpu - 1
      BY <2>1, BoundToACore, CommandGiven DEF Forked
    <3> QED
      BY <2>1, <3>1 DEF Command
  <2>3. len2 \in Nat
    <3>1. CASE args.program = "mtpttest"
      <4>1. args.PROC_NUM \in Nat \ {0}
        BY <3>1, CommandGiven DEF Forked, Forking
      <4>2. args.LIST_LEN \div args.PROC_NUM \in Nat
        BY <1>3, <4>1, Division
      <4> QED
        BY <1>4, <3>1, <4>2 DEF ShareLen
    <3>2. CASE args.program # "mtpttest"
      BY <1>3, <1>4, <3>2
    <3> QED
      BY <3>1, <3>2
  <2> QED
    BY <1>3, <1>5, <2>1, <2>2, <2>3 DEF Process
<1>7. procs' = [procs EXCEPT ![p] = r]
  BY <1>1, <1>3, <1>4, <1>5
<1>8. procs' \in Seq(Process) /\ Len(procs') = L
      /\ \A q \in 1 .. L : procs'[q] = IF q = p THEN r ELSE procs[q]
  BY <1>2, <1>3, <1>6, <1>7, ExceptSeq
<1>9. \A q \in 1 .. L : procs'[q].processid = procs[q].processid
  BY <1>6, <1>8
<1>10. \A q \in 2 .. L : procs'[q].at # "fork" /\ procs'[q].processid < procs'[1].processid
  <2>1. \A q \in 2 .. L : q \in 1 .. L /\ 1 \in 1 .. L
    BY <1>3
  <2> QED
    BY <1>2, <1>6, <1>8, <1>9, <2>1 DEF Forked
<1>11. \A q, k \in 1 .. L : q # k => procs'[q].processid # procs'[k].processid
  BY <1>2, <1>9 DEF Forked
<1>12. IF args.program \in Forking
       THEN /\ procs'[1].processid < args.PROC_NUM
            /\ procs'[1].at # "fork" => procs'[1].processid = args.PROC_NUM - 1
       ELSE procs'[1].processid = 0 /\ procs'[1].at # "fork"
  <2>1. 1 \in 1 .. L
    BY <1>3
  <2>2. CASE p # 1
    BY <1>2, <1>8, <1>9, <2>1, <2>2 DEF Forked
  <2>3. CASE p = 1
    <3>1. procs'[1].at = "main" /\ procs'[1].processid = procs[1].processid
          /\ procs[1].processid \in Nat
      BY <1>3, <1>6, <1>8, <2>1, <2>3 DEF Process
    <3>2. CASE args.program \in Forking
      <4>1. procs[1].processid < args.PROC_NUM /\ args.PROC_NUM \in Nat
        BY <3>2, CommandGiven DEF Forked
      <4>2. procs[1].at # "fork" => procs[1].processid = args.PROC_NUM - 1
        BY <3>2 DEF Forked
      <4>3. procs[1].at = "fork" => ~(procs[1].processid < args.PROC_NUM - 1)
        BY <1>1, <2>3 DEF More
      <4>4. procs[1].processid = args.PROC_NUM - 1
        BY <3>1, <4>1, <4>2, <4>3
      <4> QED
        BY <3>1, <3>2, <4>1, <4>4
    <3>3. CASE args.program \notin Forking
      BY <3>1, <3>3 DEF Forked
    <3> QED
      BY <3>2, <3>3
  <2> QED
    BY <2>2, <2>3
<1>13. \A q \in 1 .. L : Has(q)'
  <2> SUFFICES ASSUME NEW q \in 1 .. L
               PROVE  Has(q)'
    OBVIOUS
  <2>1. CASE q = p
    BY <1>1, <1>4, <1>6, <1>8, <2>1 DEF Has, Length, BindId
  <2>2. CASE q # p
    <3>1. Has(q)
      BY <1>2 DEF Forked
    <3>2. procs'[q] = procs[q] /\ args' = args
      BY <1>1, <1>8, <2>2
    <3> QED
      BY <3>1, <3>2 DEF Has, Length, BindId
  <2> QED
    BY <2>1, <2>2
<1>14. /\ Len(procs) <= procs[1].processid + 1
       /\ Len(procs) = procs[1].processid + 1 =>
            \A q \in 2 .. Len(procs) : procs[q].processid = q - 2
  BY DEF Forked
<1>15. /\ L <= procs'[1].processid + 1
       /\ L = procs'[1].processid + 1 => \A q \in 2 .. L : procs'[q].processid = q - 2
  <2>1. \A q \in 2 .. L : q \in 1 .. L
    BY <1>3
  <2>2. 1 \in 1 .. L
    BY <1>3
  <2> QED
    BY <1>2, <1>9, <1>14, <2>1, <2>2
<1>16. args' \in Commands
  BY <1>1 DEF Forked
<1>17. args' = args /\ Len(procs') = L /\ L > 0 /\ procs' \in Seq(Process)
  BY <1>1, <1>3, <1>8
<1> QED
  BY <1>10, <1>11, <1>12, <1>13, <1>15, <1>16, <1>17 DEF Forked

LEMMA ForkedStep == ASSUME Forked, [ForkNext]_<<args, procs>> PROVE Forked'
<1>1. CASE ForkNext
  BY <1>1, ForkedFork, ForkedForkFails, ForkedBind DEF ForkNext
<1>2. CASE UNCHANGED <<args, procs>>
  BY <1>2 DEF Forked, Has, Length, BindId
<1> QED
  BY <1>1, <1>2

------------------------------------------------------------------------------
\* On machines of the right shape the cores of the numbers below syscpu are
\* different cores.
LEMMA DealsDiffSockets ==
  ASSUME NEW s \in Nat \ {0}, s % 4 = 0, NEW o \in 0 .. s - 1, NEW k \in 0 .. s - 1,
         DiffSocket(s, o) = DiffSocket(s, k)
  PROVE  o = k
<1>1. PICK m \in Nat \ {0} : s = 4 * m /\ s = m + m + m + m
  <2>1. s \div 4 \in Nat /\ s % 4 \in 0 .. 3 /\ s = 4 * (s \div 4) + (s % 4)
    BY Division
  <2>2. PICK m \in Nat : m = s \div 4
    BY <2>1
  <2>3. s = 4 * m /\ s = m + m + m + m /\ m # 0
    BY <2>1, <2>2
  <2> QED
    BY <2>3
<1>2. s \div 2 = m + m /\ s \div 4 = m
  <2>1. s = 2 * (m + m) + 0 /\ s = 4 * m + 0 /\ m + m \in Nat
    BY <1>1
  <2>2. (2 * (m + m) + 0) \div 2 = m + m /\ (4 * m + 0) \div 4 = m
    BY <2>1, Remainder
  <2> QED
    BY <2>1, <2>2
<1>3. ASSUME NEW x \in 0 .. s - 1
      PROVE  \E d \in 0 .. m - 1, e \in {0, 1} :
               /\ x = (IF x < m + m THEN 0 ELSE m + m) + d + d + e
               /\ DiffSocket(s, x) = (IF x < m + m THEN 0 ELSE m + m) + d
                                       + (IF e = 0 THEN 0 ELSE m)
  <2>1. PICK g \in 0 .. m + m - 1 : g = x % (m + m)
                                    /\ x = (IF x < m + m THEN 0 ELSE m + m) + g
    <3>1. m + m \in Nat \ {0}
      BY <1>1
    <3>2. CASE x < m + m
      <4>1. x \in 0 .. (m + m) - 1 /\ (m + m) * 0 + x = x
        BY <1>1, <3>2
      <4>2. x % (m + m) = x
        BY <3>1, <4>1, Remainder
      <4> QED
        BY <3>2, <4>1, <4>2
    <3>3. CASE ~(x < m + m)
      <4>1. x - (m + m) \in 0 .. (m + m) - 1 /\ (m + m) * 1 + (x - (m + m)) = x
        BY <1>1, <3>3
      <4>2. x % (m + m) = x - (m + m)
        <5>1. PICK h \in Nat \ {0} : h = m + m
          BY <3>1
        <5>3. PICK g \in 0 .. h - 1 : g = x - (m + m)
          BY <4>1, <5>1
        <5>2. (h * 1 + g) % h = g
          BY Remainder
        <5> QED
          BY <4>1, <5>1, <5>2, <5>3
      <4>3. x = (m + m) + (x - (m + m))
        BY <1>1
      <4> QED
        BY <3>3, <4>1, <4>2, <4>3
    <3> QED
      BY <3>2, <3>3
  <2>2. PICK d \in Nat, e \in {0, 1} : d = g \div 2 /\ e = g % 2 /\ g = d + d + e
    BY <1>1, <2>1, Halves
  <2>3. d \in 0 .. m - 1
    BY <1>1, <2>1, <2>2
  <2>4. DiffSocket(s, x) = (IF x < m + m THEN 0 ELSE m + m) + d + (IF e = 0 THEN 0 ELSE m)
    BY <1>2, <2>1, <2>2 DEF DiffSocket
  <2>5. x = (IF x < m + m THEN 0 ELSE m + m) + d + d + e
    <3>1. x = (IF x < m + m THEN 0 ELSE m + m) + g /\ g = d + d + e
      BY <2>1, <2>2
    <3>2. CASE x < m + m
      BY <3>1, <3>2
    <3>3. CASE ~(x < m + m)
      BY <1>1, <3>1, <3>3
    <3> QED
      BY <3>2, <3>3
  <2> QED
    BY <2>3, <2>4, <2>5
<1>4. PICK d \in 0 .. m - 1, e \in {0, 1} :
        /\ o = (IF o < m + m THEN 0 ELSE m + m) + d + d + e
        /\ DiffSocket(s, o) = (IF o < m + m THEN 0 ELSE m + m) + d + (IF e = 0 THEN 0 ELSE m)
  BY <1>3
<1>5. PICK b \in 0 .. m - 1, c \in {0, 1} :
        /\ k = (IF k < m + m THEN 0 ELSE m + m) + b + b + c
        /\ DiffSocket(s, k) = (IF k < m + m THEN 0 ELSE m + m) + b + (IF c = 0 THEN 0 ELSE m)
  BY <1>3
<1> QED
  BY <1>1, <1>4, <1>5

LEMMA DealsBothHalves ==
  ASSUME NEW s \in Nat \ {0}, s % 2 = 0, NEW o \in 0 .. s - 1, NEW k \in 0 .. s - 1,
         SameCore(s, o) = SameCore(s, k)
  PROVE  o = k
<1>1. PICK h \in Nat : h = s \div 2 /\ s = h + h
  BY Halves
<1>2. ASSUME NEW x \in 0 .. s - 1
      PROVE  \E d \in 0 .. h - 1, e \in {0, 1} :
               x = d + d + e /\ SameCore(s, x) = d + (IF e = 0 THEN 0 ELSE h)
  <2>1. PICK d \in Nat, e \in {0, 1} : d = x \div 2 /\ e = x % 2 /\ x = d + d + e
    BY Halves
  <2>2. d \in 0 .. h - 1
    BY <1>1, <2>1
  <2>3. SameCore(s, x) = d + e * h
    BY <1>1, <2>1 DEF SameCore
  <2>4. e * h = IF e = 0 THEN 0 ELSE h
    BY <1>1, <2>1
  <2> QED
    BY <2>1, <2>2, <2>3, <2>4
<1>3. PICK d \in 0 .. h - 1, e \in {0, 1} :
        o = d + d + e /\ SameCore(s, o) = d + (IF e = 0 THEN 0 ELSE h)
  BY <1>2
<1>4. PICK b \in 0 .. h - 1, c \in {0, 1} :
        k = b + b + c /\ SameCore(s, k) = b + (IF c = 0 THEN 0 ELSE h)
  BY <1>2
<1> QED
  BY <1>1, <1>3, <1>4

\* Every core is that of one number below syscpu, and of those that differ from
\* it by a multiple of syscpu.
LEMMA DealsEveryCore ==
  ASSUME args \in Command, args.program \in Forking, Dealt,
         args.program = "mppttest" => args.syscpu > 1,
         NEW core \in 0 .. args.syscpu - 1
  PROVE  \E o \in 0 .. args.syscpu - 1 :
           \A id \in Nat : BindId(id) = core <=> id % args.syscpu = o
<1>1. PICK s \in Nat \ {0} : s = args.syscpu
  BY DEF Command
<1>2. \A o \in 0 .. s - 1 : o % s = o
  <2> SUFFICES ASSUME NEW o \in 0 .. s - 1
               PROVE  o % s = o
    OBVIOUS
  <2>1. s * 0 + o = o
    BY <1>1
  <2> QED
    BY <2>1, Remainder
<1>3. \A id \in Nat : id % s \in 0 .. s - 1 /\ BindId(id) = BindId(id % s)
  <2>1. \A id \in Nat : id % s \in 0 .. s - 1
    BY Division
  <2> QED
    BY <1>1, <1>2, <2>1 DEF BindId
<1>4. ASSUME NEW o \in 0 .. s - 1, NEW k \in 0 .. s - 1, BindId(o) = BindId(k)
      PROVE  o = k
  <2>1. CASE args.program = "mppttest"
    <3>1. DiffSocket(s, o) = DiffSocket(s, k)
      BY <1>1, <1>2, <1>4, <2>1 DEF BindId
    <3>2. s % 4 = 0
      BY <1>1, <2>1 DEF Dealt
    <3> QED
      BY <3>1, <3>2, DealsDiffSockets
  <2>2. CASE args.program = "mtpttest"
    <3>1. SameCore(s, o) = SameCore(s, k)
      BY <1>1, <1>2, <1>4, <2>2 DEF BindId
    <3>2. s % 2 = 0
      BY <1>1, <2>2 DEF Dealt
    <3> QED
      BY <3>1, <3>2, DealsBothHalves
  <2>3. CASE args.program \in {"mpwordcount", "mpbfs"}
    BY <1>1, <1>2, <1>4, <2>3 DEF BindId
  <2> QED
    BY <2>1, <2>2, <2>3 DEF Forking
<1>5. PICK f : f = [o \in 0 .. s - 1 |-> BindId(o)]
  OBVIOUS
<1>6. f \in Injection(0 .. s - 1, 0 .. s - 1)
  <2>1. \A o \in 0 .. s - 1 : BindId(o) \in 0 .. s - 1
    BY <1>1, BoundToACore
  <2>2. f \in [0 .. s - 1 -> 0 .. s - 1]
    BY <1>5, <2>1
  <2>3. \A o, k \in 0 .. s - 1 : f[o] = f[k] => o = k
    BY <1>4, <1>5
  <2> QED
    BY <2>2, <2>3 DEF Injection, IsInjective
<1>7. f \in Surjection(0 .. s - 1, 0 .. s - 1)
  <2>1. IsFiniteSet(0 .. s - 1)
    BY FS_Interval
  <2> QED
    BY <1>6, <2>1, FS_Injection
<1>8. PICK o \in 0 .. s - 1 : BindId(o) = core
  BY <1>1, <1>5, <1>7 DEF Surjection
<1>9. ASSUME NEW id \in Nat
      PROVE  BindId(id) = core <=> id % s = o
  <2>1. id % s \in 0 .. s - 1 /\ BindId(id) = BindId(id % s)
    BY <1>3
  <2> QED
    BY <1>4, <1>8, <2>1
<1> QED
  BY <1>1, <1>9

LEMMA ForkedShare == Forked => ProcessesShare
<1> SUFFICES ASSUME Forked, AllBound
             PROVE  ProcessesShare
  BY DEF ProcessesShare
<1>1. /\ args \in Command
      /\ args.program = "mppttest" => args.syscpu > 1
      /\ procs \in Seq(Process) /\ Len(procs) \in Nat \ {0}
  BY CommandGiven DEF Forked
<1>2. \A p \in 1 .. Len(procs) :
        /\ procs[p].processid \in Nat
        /\ procs[p].bindid = BindId(procs[p].processid)
        /\ procs[p].LIST_LEN = Length(p)
  BY <1>1, Numbered DEF Forked, Has, AllBound
<1>3. \A p, q \in 1 .. Len(procs) : p # q => procs[p].processid # procs[q].processid
  BY DEF Forked
<1>4. \A p \in 1 .. Len(procs) : procs[p].bindid \in 0 .. args.syscpu - 1
  BY <1>1, <1>2, BoundToACore
<1>5. ASSUME Len(procs) = args.PROC_NUM, args.program \in Forking
      PROVE  /\ args.program = "mtpttest" =>
                  SumFunction([p \in 1 .. Len(procs) |-> procs[p].LIST_LEN]) = args.LIST_LEN
             /\ Dealt => \A c, d \in 0 .. args.syscpu - 1 : On(c) <= On(d) + 1
  <2>1. PICK n \in Nat \ {0} : n = Len(procs)
    BY <1>1
  <2>2. PICK id : id = [p \in 1 .. n |-> procs[p].processid]
    OBVIOUS
  <2>3. \A p \in 1 .. n : id[p] = IF p = 1 THEN n - 1 ELSE p - 2
    <3>1. 1 \in 1 .. n /\ procs[1].processid = n - 1
      BY <1>5, <2>1 DEF Forked, AllBound
    <3>2. \A p \in 2 .. n : procs[p].processid = p - 2
      BY <2>1, <3>1 DEF Forked
    <3>3. \A p \in 1 .. n : p = 1 \/ p \in 2 .. n
      BY <2>1
    <3> QED
      BY <2>2, <3>1, <3>2, <3>3
  <2>4. id \in [1 .. n -> 0 .. n - 1]
    BY <2>2, <2>3
  <2>5. \A p, q \in 1 .. n : p # q => id[p] # id[q]
    BY <1>3, <2>1, <2>2
  <2>6. \A i \in 0 .. n - 1 : \E p \in 1 .. n : id[p] = i
    <3> SUFFICES ASSUME NEW i \in 0 .. n - 1
                 PROVE  \E p \in 1 .. n : id[p] = i
      OBVIOUS
    <3>1. CASE i = n - 1
      BY <2>3, <3>1
    <3>2. CASE i # n - 1
      <4>1. i + 2 \in 1 .. n /\ i + 2 # 1 /\ i + 2 - 2 = i
        BY <3>2
      <4> QED
        BY <2>3, <4>1
    <3> QED
      BY <3>1, <3>2
  <2>7. ASSUME args.program = "mtpttest"
        PROVE  SumFunction([p \in 1 .. n |-> procs[p].LIST_LEN]) = args.LIST_LEN
    <3>1. [p \in 1 .. n |-> procs[p].LIST_LEN]
          = [p \in 1 .. n |-> ShareLen(args.LIST_LEN, n, id[p])]
      <4>1. \A p \in 1 .. n : procs[p].LIST_LEN = ShareLen(args.LIST_LEN, n, id[p])
        BY <1>2, <1>5, <2>1, <2>2, <2>7 DEF Length, AllBound
      <4> QED
        BY <4>1
    <3>2. args.LIST_LEN \in Nat
      BY <1>1 DEF Command
    <3>3. PICK total \in Nat : total = args.LIST_LEN
      BY <3>2
    <3>4. SumFunction([p \in 1 .. n |-> ShareLen(total, n, id[p])]) = total
      <4>1. Numbers(n, id)
        BY <2>4, <2>5, <2>6 DEF Numbers
      <4> QED
        BY <2>4, <4>1, SharesSum
    <3> QED
      BY <3>1, <3>3, <3>4
  <2>8. ASSUME Dealt, NEW c \in 0 .. args.syscpu - 1, NEW d \in 0 .. args.syscpu - 1
        PROVE  On(c) <= On(d) + 1
    <3>1. PICK s \in Nat \ {0} : s = args.syscpu
      BY <1>1 DEF Command
    <3>2. ASSUME NEW core \in 0 .. s - 1
          PROVE  \E o \in 0 .. s - 1 :
                   On(core) = Cardinality({i \in 0 .. n - 1 : i % s = o})
      <4>1. PICK o \in 0 .. s - 1 : \A k \in Nat : BindId(k) = core <=> k % s = o
        BY <1>1, <1>5, <2>8, <3>1, DealsEveryCore
      <4>2. PICK A, B : /\ A = {p \in 1 .. n : procs[p].bindid = core}
                        /\ B = {i \in 0 .. n - 1 : i % s = o}
        OBVIOUS
      <4>3. \A p \in 1 .. n : p \in A <=> id[p] \in B
        BY <1>2, <2>1, <2>2, <2>4, <4>1, <4>2
      <4>4. PICK g : g = [p \in A |-> id[p]]
        OBVIOUS
      <4>5. g \in Bijection(A, B)
        <5>1. g \in [A -> B]
          BY <4>2, <4>3, <4>4
        <5>2. \A p, q \in A : g[p] = g[q] => p = q
          BY <2>5, <4>2, <4>4
        <5>3. \A i \in B : \E p \in A : g[p] = i
          BY <2>6, <4>2, <4>3, <4>4
        <5> QED
          BY <5>1, <5>2, <5>3 DEF Bijection, Injection, Surjection, IsInjective
      <4>6. IsFiniteSet(A)
        <5>1. IsFiniteSet(1 .. n) /\ A \in SUBSET (1 .. n)
          BY <4>2, FS_Interval
        <5> QED
          BY <5>1, FS_Subset
      <4>7. Cardinality(B) = Cardinality(A)
        BY <4>5, <4>6, FS_Bijection DEF ExistsBijection
      <4>8. On(core) = Cardinality(A)
        BY <2>1, <4>2 DEF On
      <4> QED
        BY <4>2, <4>7, <4>8
    <3>3. PICK o \in 0 .. s - 1 : On(c) = Cardinality({i \in 0 .. n - 1 : i % s = o})
      BY <3>1, <3>2
    <3>4. PICK k \in 0 .. s - 1 : On(d) = Cardinality({i \in 0 .. n - 1 : i % s = k})
      BY <3>1, <3>2
    <3> QED
      BY <3>3, <3>4, TurnsEven
  <2> QED
    BY <2>1, <2>7, <2>8
<1>6. args.program \notin Forking => args.program # "mtpttest" /\ ~Dealt
  BY DEF Forking, Dealt
<1> QED
  BY <1>3, <1>4, <1>5, <1>6 DEF ProcessesShare

------------------------------------------------------------------------------
\* What the arguments are, for the programs they matter to.
LEMMA ArgumentsGiven ==
  ASSUME args \in Commands
  PROVE  /\ args.TOTAL_LISTS \in Nat /\ args.TOTAL_DATA \in Nat /\ args.LIST_LEN \in Nat
         /\ args.CORO_NUM \in Nat /\ args.PROC_NUM \in Nat
         /\ Listing => args.LIST_LEN > 0 /\ args.CORO_NUM > 0
         /\ Program \in Rings => args.TOTAL_LISTS > 0
         /\ Program = "pointer_tracing" =>
              args.TOTAL_DATA >= args.TOTAL_LISTS /\ args.TOTAL_DATA % args.TOTAL_LISTS = 0
         /\ Program \in Forking \cup Rings \cup Rereads \cup Rewalks
         /\ Listing => Program \notin Rings
<1>1. args \in Command
  BY CommandGiven
<1>2. Program = args.program
  BY DEF Program
<1>3. Program \in Forking \cup Rings \cup Rereads \cup Rewalks
  BY <1>1, <1>2 DEF Command, Forking, Rings, Rereads, Rewalks
<1>4. Listing => Program \notin Rings
  BY DEF Listing, Rings, Rereads, Rewalks
<1>5. /\ args.TOTAL_LISTS \in Nat /\ args.TOTAL_DATA \in Nat /\ args.LIST_LEN \in Nat
      /\ args.CORO_NUM \in Nat /\ args.PROC_NUM \in Nat
  BY <1>1 DEF Command
<1>6. /\ Listing => args.LIST_LEN > 0 /\ args.CORO_NUM > 0
      /\ Program \in Rings => args.TOTAL_LISTS > 0
      /\ Program = "pointer_tracing" =>
           args.TOTAL_DATA >= args.TOTAL_LISTS /\ args.TOTAL_DATA % args.TOTAL_LISTS = 0
  BY <1>2, TracingAssumption DEF Listing
<1> QED
  BY <1>3, <1>4, <1>5, <1>6

LEMMA TracingInvInit == TracingInit => TracingInv
<1> SUFFICES ASSUME TracingInit
             PROVE  TracingInv
  OBVIOUS
<1>1. Forked
  BY ForkedInit DEF TracingInit
<1>2. args \in Commands
  BY <1>1 DEF Forked
<1>3. /\ args.TOTAL_LISTS \in Nat /\ args.TOTAL_DATA \in Nat
  BY <1>2, ArgumentsGiven
<1>4. /\ me = 0 /\ phase = "processes"
      /\ head = [i \in Lists |-> NULL] /\ allList = head
      /\ listsLen = [i \in Lists |-> 0]
      /\ listNumber = [i \in Lists |-> i]
      /\ tofillLists = args.TOTAL_LISTS
      /\ mBitmap = IF Program = "pointer_tracing" THEN [i \in 0 .. args.TOTAL_DATA - 1 |-> i]
                   ELSE Empty
      /\ next = Empty
      /\ live = DOMAIN mBitmap
      /\ \A t \in Tasks : mine[t].at = "new"
      /\ mine = [t \in Tasks |-> mine[t]]
  BY DEF TracingInit
<1>5. Nodes = {} /\ Allocated = 0 /\ 0 .. 0 - 1 = {}
  BY <1>4, FS_EmptySet DEF Nodes, Allocated, Empty
<1>6. Closed
  <2>1. next \in [Nodes -> Nodes \cup {NULL}]
    BY <1>4, <1>5 DEF Nodes, Empty
  <2>2. head \in [Lists -> Nodes \cup {NULL}] /\ allList \in [Lists -> Nodes \cup {NULL}]
    BY <1>4
  <2>3. Program = "pointer_tracing" =>
          /\ mBitmap \in [0 .. args.TOTAL_DATA - 1 -> 0 .. args.TOTAL_DATA - 1]
          /\ \A n \in 0 .. args.TOTAL_DATA - 1 : mBitmap[n] = n
    BY <1>4
  <2> QED
    BY <1>3, <1>4, <1>5, <2>1, <2>2, <2>3 DEF Closed, Before
<1>7. Kept
  <2>1. live = IF Program = "pointer_tracing" THEN 0 .. args.TOTAL_DATA - 1 ELSE {}
    BY <1>4 DEF Empty
  <2> QED
    BY <1>4, <1>5, <2>1 DEF Kept, After
<1>8. Filling
  BY <1>3, <1>4 DEF Filling, Before, Lists
<1>9. Chained
  <2>1. PICK nodes : nodes = [i \in Lists |-> << >>]
    OBVIOUS
  <2>2. nodes \in [Lists -> Seq(Nodes)] /\ \A i \in Lists : Len(nodes[i]) = 0
    BY <2>1
  <2>3. Linked(nodes) /\ Ends(nodes)
    BY <1>4, <1>5, <2>2 DEF Linked, Ends
  <2> QED
    BY <1>4, <2>2, <2>3 DEF Chained
<1> QED
  BY <1>1, <1>6, <1>7, <1>8, <1>9 DEF TracingInv

------------------------------------------------------------------------------
\* A step that leaves the lists as they are.
SameLists == UNCHANGED <<args, procs, head, listsLen, listNumber, tofillLists, mBitmap, next>>

\* What Linked says of one list, and of two.
LEMMA ListLinked ==
  ASSUME NEW nodes, Linked(nodes), NEW i \in Lists
  PROVE  /\ Len(nodes[i]) = listsLen[i]
         /\ head[i] = IF listsLen[i] = 0 THEN NULL ELSE nodes[i][1]
         /\ \A k \in 1 .. listsLen[i] :
              next[nodes[i][k]] = IF k < listsLen[i] THEN nodes[i][k + 1] ELSE NULL
<1>1. \A j \in Lists :
        /\ Len(nodes[j]) = listsLen[j]
        /\ head[j] = IF listsLen[j] = 0 THEN NULL ELSE nodes[j][1]
        /\ \A k \in 1 .. listsLen[j] :
             next[nodes[j][k]] = IF k < listsLen[j] THEN nodes[j][k + 1] ELSE NULL
  BY Zenon DEF Linked
<1> QED
  BY <1>1, Zenon

LEMMA OnePlaceOnly ==
  ASSUME NEW nodes, Linked(nodes), NEW i \in Lists, NEW j \in Lists,
         NEW k \in 1 .. listsLen[i], NEW l \in 1 .. listsLen[j], nodes[i][k] = nodes[j][l]
  PROVE  i = j /\ k = l
<1>1. \A h, g \in Lists : \A x \in 1 .. listsLen[h], y \in 1 .. listsLen[g] :
        nodes[h][x] = nodes[g][y] => h = g /\ x = y
  BY Zenon DEF Linked
<1> QED
  BY <1>1, Zenon

\* Steps that leave the lists alone leave Linked alone.
LEMMA LinkedKept ==
  ASSUME SameLists, NEW nodes
  PROVE  Linked(nodes)' <=> Linked(nodes)
BY DEF SameLists, Linked, Lists, Nodes

LEMMA ForkStepKeeps == ASSUME TracingInv, ForkStep PROVE TracingInv'
<1>1. /\ phase = "processes" /\ ForkNext
      /\ UNCHANGED <<me, phase, build, live, mine, totals, freeing>>
  BY DEF ForkStep
<1>2. args' = args
  BY <1>1 DEF ForkNext, Fork, ForkFails, Bind
<1>3. Forked'
  BY <1>1, ForkedStep DEF TracingInv
<1>4. Closed'
  BY <1>1, <1>2 DEF TracingInv, Closed, Before, build, Nodes, Lists, Allocated, Program
<1>5. Kept'
  BY <1>1, <1>2 DEF TracingInv, Kept, After, build, Nodes, Program, Tasks, Listing
<1>6. Filling'
  BY <1>1, <1>2 DEF TracingInv, Filling, Before, build, Lists, Program, Listing
<1>7. Chained'
  BY <1>1, <1>2 DEF TracingInv, Chained, Linked, Ends, Before, build, Nodes, Lists, Program, Listing
<1> QED
  BY <1>3, <1>4, <1>5, <1>6, <1>7 DEF TracingInv

\* Every process of the list programs has lists to fill.
LEMMA LengthPositive ==
  ASSUME Forked, Listing, NEW p \in 1 .. Len(procs)
  PROVE  procs[p].LIST_LEN \in Nat \ {0}
<1>1. args \in Commands /\ args.LIST_LEN \in Nat \ {0} /\ Length(p) = procs[p].LIST_LEN
  BY ArgumentsGiven DEF Forked, Has
<1>2. CASE args.program = "mtpttest"
  <2>1. args.PROC_NUM \in Nat \ {0} /\ args.LIST_LEN >= args.PROC_NUM
    BY <1>1, <1>2, CommandGiven DEF Forking
  <2>2. /\ args.LIST_LEN \div args.PROC_NUM \in Nat
        /\ args.LIST_LEN % args.PROC_NUM \in 0 .. args.PROC_NUM - 1
        /\ args.LIST_LEN = args.PROC_NUM * (args.LIST_LEN \div args.PROC_NUM)
                             + (args.LIST_LEN % args.PROC_NUM)
    BY <1>1, <2>1, Division
  <2>3. args.LIST_LEN \div args.PROC_NUM # 0
    <3>1. args.PROC_NUM * 0 = 0
      BY <2>1
    <3> QED
      BY <2>1, <2>2, <3>1
  <2> QED
    BY <1>1, <2>2, <2>3 DEF Length, ShareLen
<1>3. CASE args.program # "mtpttest"
  BY <1>1, <1>3 DEF Length
<1> QED
  BY <1>2, <1>3

LEMMA BecomeProcessKeeps == ASSUME TracingInv, BecomeProcess PROVE TracingInv'
<1>1. /\ phase = "processes" /\ AllBound
      /\ me' \in 1 .. Len(procs)
      /\ phase' = IF Program \in {"mpwordcount", "mpbfs"} THEN "elsewhere" ELSE "build"
      /\ UNCHANGED <<args, procs, build, live, mine, totals, freeing>>
  BY DEF BecomeProcess
<1>2. /\ args' = args /\ procs' = procs /\ me' \in 1 .. Len(procs) /\ AllBound'
      /\ phase' \in {"elsewhere", "build"}
      /\ head' = head /\ allList' = allList /\ listsLen' = listsLen /\ listNumber' = listNumber
      /\ tofillLists' = tofillLists /\ mBitmap' = mBitmap /\ next' = next
      /\ live' = live /\ mine' = mine
  BY <1>1 DEF build, AllBound
<1>3. Forked'
  BY <1>2, ForkedStep DEF TracingInv
<1>4. phase' # "elsewhere" => Program \in Rings \cup Rereads \cup Rewalks
  <2>1. Program \in Forking \cup Rings \cup Rereads \cup Rewalks
    BY ArgumentsGiven DEF TracingInv, Forked
  <2> QED
    BY <1>1, <2>1 DEF Forking, Rereads, Rewalks
<1>5. Closed'
  BY <1>1, <1>2, <1>4 DEF TracingInv, Closed, Before, Nodes, Lists, Allocated, Program
<1>6. Kept'
  BY <1>1, <1>2 DEF TracingInv, Kept, After, Nodes, Program, Tasks, Listing
<1>7. Filling'
  <2> SUFFICES ASSUME Listing
               PROVE  Filling'
    BY <1>2 DEF Filling, Listing, Program
  <2>1. procs[me'].LIST_LEN \in Nat \ {0}
    BY <1>2, LengthPositive DEF TracingInv
  <2>2. phase' = "build"
    BY <1>1 DEF Listing, Rereads, Rewalks
  <2>3. /\ listsLen \in [Lists -> Nat] /\ listNumber \in [Lists -> Lists] /\ tofillLists >= 0
        /\ \A k, l \in 0 .. tofillLists - 1 : k # l => listNumber[k] # listNumber[l]
        /\ tofillLists = args.TOTAL_LISTS
        /\ \A i \in Lists : listNumber[i] = i /\ listsLen[i] = 0
    BY <1>1 DEF TracingInv, Filling
  <2>4. Lists = 0 .. tofillLists - 1
    BY <2>3 DEF Lists
  <2>5. ASSUME NEW i \in Lists
        PROVE  /\ listsLen[i] <= procs[me'].LIST_LEN
               /\ listsLen[i] < procs[me'].LIST_LEN
               /\ \E k \in 0 .. tofillLists - 1 : listNumber[k] = i
    BY <2>1, <2>3, <2>4
  <2> QED
    BY <1>2, <2>2, <2>3, <2>5 DEF Filling, Lists, LIST_LEN, Before
<1>8. Chained'
  <2> SUFFICES ASSUME Listing
               PROVE  Chained'
    BY <1>2 DEF Chained, Listing, Program
  <2>1. PICK nodes \in [Lists -> Seq(Nodes)] : Linked(nodes) /\ Ends(nodes)
    BY <1>1 DEF TracingInv, Chained, Before
  <2>2. Linked(nodes)' /\ Ends(nodes)'
    BY <1>2, <2>1 DEF Linked, Ends, Lists, Nodes
  <2>3. nodes \in [Lists' -> Seq(Nodes')]
    BY <1>2, <2>1 DEF Lists, Nodes
  <2> QED
    BY <1>2, <2>2, <2>3 DEF Chained
<1> QED
  BY <1>3, <1>5, <1>6, <1>7, <1>8 DEF TracingInv

------------------------------------------------------------------------------
\* The node that is inserted is new, and what the links become.
LEMMA Inserts ==
  ASSUME TracingInv, NEW i \in Lists, NEW l, l = Allocated, insertToListI(i, l), args' = args
  PROVE  /\ l \in Nat /\ l \notin Nodes
         /\ Nodes' = Nodes \cup {l} /\ Allocated' = l + 1 /\ Nodes' = 0 .. l
         /\ next' \in [Nodes' -> Nodes' \cup {NULL}]
         /\ head' \in [Lists -> Nodes' \cup {NULL}]
         /\ allList' \in [Lists -> Nodes' \cup {NULL}]
         /\ head' = [head EXCEPT ![i] = IF head[i] = NULL THEN l ELSE head[i]]
         /\ allList' = [allList EXCEPT ![i] = l]
         /\ Program \notin Rings => next'[l] = NULL
         /\ \A n \in Nodes : next'[n] = IF head[i] # NULL /\ n = allList[i] THEN l ELSE next[n]
<1>1. /\ l \in Nat /\ Nodes = 0 .. l - 1 /\ Nodes = DOMAIN next
      /\ next \in [Nodes -> Nodes \cup {NULL}]
      /\ head \in [Lists -> Nodes \cup {NULL}] /\ allList \in [Lists -> Nodes \cup {NULL}]
  BY DEF TracingInv, Closed, Nodes
<1>2. PICK first : first = IF head[i] = NULL THEN l ELSE head[i]
  OBVIOUS
<1>3. PICK linked : linked = IF head[i] = NULL THEN next ELSE [next EXCEPT ![allList[i]] = l]
  OBVIOUS
<1>4. /\ head' = [head EXCEPT ![i] = first] /\ allList' = [allList EXCEPT ![i] = l]
      /\ next' = Extend(linked, l, IF Program \in Rings THEN first ELSE NULL)
  BY <1>2, <1>3 DEF insertToListI
<1>5. l \notin Nodes /\ Nodes \cup {l} = 0 .. l
  BY <1>1
<1>6. first \in Nodes \cup {l}
  BY <1>1, <1>2
<1>7. /\ linked \in [Nodes -> Nodes \cup {l, NULL}]
      /\ \A n \in Nodes : linked[n] = IF head[i] # NULL /\ n = allList[i] THEN l ELSE next[n]
  BY <1>1, <1>3
<1>8. PICK y \in Nodes \cup {l, NULL} : y = IF Program \in Rings THEN first ELSE NULL
  BY <1>6
<1>9. next' = [z \in Nodes \cup {l} |-> IF z = l THEN y ELSE linked[z]]
  BY <1>4, <1>7, <1>8 DEF Extend
<1>10. Nodes' = Nodes \cup {l} /\ next' \in [Nodes' -> Nodes' \cup {NULL}]
  BY <1>7, <1>9 DEF Nodes
<1>11. Allocated' = l + 1
  <2>1. Cardinality(0 .. l) = IF 0 > l THEN 0 ELSE l - 0 + 1
    <3>1. l \in Int /\ 0 \in Int
      BY <1>1
    <3> QED
      BY <3>1, FS_Interval
  <2> QED
    <3>1. Cardinality(0 .. l) = l + 1
      BY <1>1, <2>1
    <3>2. DOMAIN next' = 0 .. l
      BY <1>5, <1>10 DEF Nodes
    <3> QED
      BY <3>1, <3>2 DEF Allocated
<1>12. /\ head' \in [Lists -> Nodes' \cup {NULL}]
       /\ allList' \in [Lists -> Nodes' \cup {NULL}]
  BY <1>1, <1>4, <1>6, <1>10
<1>13. /\ Program \notin Rings => next'[l] = NULL
       /\ \A n \in Nodes : next'[n] = IF head[i] # NULL /\ n = allList[i] THEN l ELSE next[n]
  BY <1>5, <1>7, <1>8, <1>9
<1> QED
  BY <1>1, <1>2, <1>4, <1>5, <1>10, <1>11, <1>12, <1>13

\* What is allocated with it.
LEMMA NewNodeKeeps ==
  ASSUME TracingInv, NewNode, phase = "build", Program # "pointer_tracing",
         Nodes' = Nodes \cup {Allocated}, UNCHANGED <<args, phase, mine>>
  PROVE  Kept'
<1>1. /\ live = Nodes
      /\ mine = [t \in Tasks |-> mine[t]]
      /\ \A t \in Tasks : mine[t].at # "node"
  BY DEF TracingInv, Kept, After
<1>2. live' = Nodes'
  BY <1>1 DEF NewNode
<1> QED
  BY <1>1, <1>2 DEF Kept, After, Program, Tasks

LEMMA BuildListKeeps == ASSUME TracingInv, BuildList PROVE TracingInv'
<1>1. PICK idx \in 0 .. tofillLists - 1 : Fill(idx)
  BY DEF BuildList
<1>2. /\ phase = "build" /\ Program \notin Rings /\ tofillLists > 0 /\ NewNode
      /\ UNCHANGED <<args, procs, me, phase, mBitmap, mine, totals, freeing>>
  BY DEF BuildList
<1>3. PICK i, l : i = listNumber[idx] /\ l = Allocated
  OBVIOUS
<1>4. /\ insertToListI(i, l)
      /\ listsLen' = [listsLen EXCEPT ![i] = @ + 1]
      /\ IF listsLen[i] + 1 = LIST_LEN
         THEN /\ listNumber' = [listNumber EXCEPT ![idx] = listNumber[tofillLists - 1]]
              /\ tofillLists' = tofillLists - 1
         ELSE UNCHANGED <<tofillLists, listNumber>>
  BY <1>1, <1>3 DEF Fill
<1>5. Listing /\ args \in Commands /\ args.TOTAL_LISTS \in Nat
  BY <1>2, ArgumentsGiven DEF TracingInv, Closed, Forked, Listing
<1>6. /\ listsLen \in [Lists -> Nat] /\ listNumber \in [Lists -> Lists]
      /\ tofillLists \in 1 .. args.TOTAL_LISTS
      /\ \A k, j \in 0 .. tofillLists - 1 : k # j => listNumber[k] # listNumber[j]
      /\ \A j \in Lists :
           /\ listsLen[j] <= LIST_LEN
           /\ listsLen[j] < LIST_LEN <=> \E k \in 0 .. tofillLists - 1 : listNumber[k] = j
  BY <1>2, <1>5 DEF TracingInv, Closed, Filling
<1>7. 0 .. tofillLists - 1 \subseteq Lists /\ i \in Lists
  BY <1>3, <1>5, <1>6 DEF Lists
<1>8. /\ l \in Nat /\ l \notin Nodes
      /\ Nodes' = Nodes \cup {l} /\ Allocated' = l + 1 /\ Nodes' = 0 .. l
      /\ next' \in [Nodes' -> Nodes' \cup {NULL}]
      /\ head' \in [Lists -> Nodes' \cup {NULL}]
      /\ allList' \in [Lists -> Nodes' \cup {NULL}]
      /\ head' = [head EXCEPT ![i] = IF head[i] = NULL THEN l ELSE head[i]]
      /\ allList' = [allList EXCEPT ![i] = l]
      /\ next'[l] = NULL
      /\ \A n \in Nodes : next'[n] = IF head[i] # NULL /\ n = allList[i] THEN l ELSE next[n]
  BY <1>2, <1>3, <1>4, <1>7, Inserts
<1>9. Program # "pointer_tracing" /\ args' = args /\ procs' = procs /\ me' = me
      /\ phase' = phase /\ Lists' = Lists /\ LIST_LEN' = LIST_LEN
  BY <1>2 DEF Rings, Lists, LIST_LEN
<1>10. Forked'
  BY <1>9, ForkedStep DEF TracingInv
<1>11. tofillLists' \in 0 .. args.TOTAL_LISTS
  BY <1>4, <1>5, <1>6
<1>12. Closed'
  <2>1. AllBound' /\ me \in 1 .. Len(procs)
    BY <1>2, <1>9 DEF TracingInv, Closed, AllBound
  <2>2. Allocated' \in Nat /\ Nodes' = 0 .. Allocated' - 1
    BY <1>8
  <2>3. Program \in Rings \cup Rereads \cup Rewalks
    BY <1>5 DEF Listing
  <2> QED
    BY <1>2, <1>5, <1>8, <1>9, <1>11, <2>1, <2>2, <2>3 DEF Closed, Program
<1>13. Kept'
  BY <1>2, <1>3, <1>8, <1>9, NewNodeKeeps
<1>14. LIST_LEN \in Nat
  BY <1>2, <1>5, LengthPositive DEF TracingInv, Closed, LIST_LEN
<1>15. listsLen' \in [Lists -> Nat]
       /\ \A j \in Lists : listsLen'[j] = IF j = i THEN listsLen[i] + 1 ELSE listsLen[j]
  BY <1>4, <1>6, <1>7
<1>16. listsLen[i] < LIST_LEN
  BY <1>3, <1>6, <1>7
<1>17. Filling'
  <2>1. CASE listsLen[i] + 1 = LIST_LEN
    <3>1. PICK last : last = tofillLists - 1
      OBVIOUS
    <3>2. /\ last \in 0 .. tofillLists - 1 /\ tofillLists' = last
          /\ idx \in Lists /\ last \in Lists
          /\ listNumber' = [listNumber EXCEPT ![idx] = listNumber[last]]
      BY <1>4, <1>6, <1>7, <2>1, <3>1
    <3>3. /\ listNumber' \in [Lists -> Lists]
          /\ \A k \in Lists : listNumber'[k] = IF k = idx THEN listNumber[last] ELSE listNumber[k]
      BY <1>6, <3>2
    <3>4. \A k \in 0 .. last - 1 : k \in 0 .. tofillLists - 1 /\ k # last /\ k \in Lists
      BY <1>6, <1>7, <3>1
    <3>5. \A k, j \in 0 .. last - 1 : k # j => listNumber'[k] # listNumber'[j]
      BY <1>6, <3>2, <3>3, <3>4
    <3>6. ASSUME NEW j \in Lists
          PROVE  /\ listsLen'[j] <= LIST_LEN
                 /\ listsLen'[j] < LIST_LEN <=> \E k \in 0 .. last - 1 : listNumber'[k] = j
      <4>1. CASE j = i
        <5>1. ASSUME NEW k \in 0 .. last - 1
              PROVE  listNumber'[k] # i
          <6>1. CASE k = idx
            <7>1. idx # last
              BY <3>4, <6>1
            <7> QED
              BY <1>3, <1>6, <3>2, <3>3, <6>1, <7>1
          <6>2. CASE k # idx
            BY <1>3, <1>6, <3>3, <3>4, <6>2
          <6> QED
            BY <6>1, <6>2
        <5>2. listsLen'[j] = LIST_LEN
          BY <1>15, <2>1, <4>1
        <5> QED
          BY <1>14, <4>1, <5>1, <5>2
      <4>2. CASE j # i
        <5>1. listsLen'[j] = listsLen[j] /\ listsLen[j] <= LIST_LEN
          BY <1>6, <1>15, <4>2
        <5>2. ASSUME NEW k \in 0 .. tofillLists - 1, listNumber[k] = j
              PROVE  \E x \in 0 .. last - 1 : listNumber'[x] = j
          <6>1. k # idx /\ k \in Lists
            BY <1>3, <1>7, <4>2, <5>2
          <6>2. CASE k = last
            <7>1. idx \in 0 .. last - 1 /\ listNumber'[idx] = j
              BY <1>6, <3>1, <3>2, <3>3, <5>2, <6>1, <6>2
            <7> QED
              BY <7>1
          <6>3. CASE k # last
            <7>1. k \in 0 .. last - 1 /\ listNumber'[k] = j
              BY <1>6, <3>1, <3>3, <5>2, <6>1, <6>3
            <7> QED
              BY <7>1
          <6> QED
            BY <6>2, <6>3
        <5>3. ASSUME NEW x \in 0 .. last - 1, listNumber'[x] = j
              PROVE  \E k \in 0 .. tofillLists - 1 : listNumber[k] = j
          BY <3>2, <3>3, <3>4, <5>3
        <5> QED
          BY <1>6, <5>1, <5>2, <5>3
      <4> QED
        BY <4>1, <4>2
    <3> QED
      BY <1>2, <1>9, <1>11, <1>15, <3>2, <3>3, <3>5, <3>6 DEF Filling, Before
  <2>2. CASE listsLen[i] + 1 # LIST_LEN
    <3>1. tofillLists' = tofillLists /\ listNumber' = listNumber
      BY <1>4, <2>2
    <3>2. \A j \in Lists :
            /\ listsLen'[j] <= LIST_LEN
            /\ listsLen'[j] < LIST_LEN <=> \E k \in 0 .. tofillLists - 1 : listNumber[k] = j
      <4> SUFFICES ASSUME NEW j \in Lists
                   PROVE  /\ listsLen'[j] <= LIST_LEN
                          /\ listsLen'[j] < LIST_LEN <=> listsLen[j] < LIST_LEN
        BY <1>6
      <4>1. CASE j = i
        <5>1. listsLen[i] \in Nat /\ listsLen'[j] = listsLen[i] + 1
          BY <1>6, <1>15, <4>1, <1>7
        <5> QED
          BY <1>14, <1>16, <2>2, <4>1, <5>1
      <4>2. CASE j # i
        BY <1>6, <1>15, <4>2
      <4> QED
        BY <4>1, <4>2
    <3> QED
      BY <1>2, <1>6, <1>9, <1>15, <3>1, <3>2 DEF Filling, Before
  <2> QED
    BY <2>1, <2>2
<1>18. Chained'
  <2>1. PICK nodes \in [Lists -> Seq(Nodes)] : Linked(nodes) /\ Ends(nodes)
    BY <1>2, <1>5 DEF TracingInv, Chained, Before
  <2>2. PICK more : more = [nodes EXCEPT ![i] = Append(nodes[i], l)]
    OBVIOUS
  <2>3. PICK n \in Nat : n = listsLen[i]
    BY <1>6, <1>7
  <2>4. /\ more \in [Lists -> Seq(Nodes')]
        /\ Len(more[i]) = n + 1 /\ more[i][n + 1] = l
        /\ \A k \in 1 .. n : more[i][k] = nodes[i][k]
        /\ \A j \in Lists : j # i => more[j] = nodes[j]
    <3>1. \A j \in Lists : nodes[j] \in Seq(Nodes')
      BY <1>8, <2>1, SeqMonotonic
    <3>2. PICK s, u : s = nodes[i] /\ u = Append(s, l)
      OBVIOUS
    <3>3. s \in Seq(Nodes') /\ l \in Nodes' /\ Len(s) = n
      BY <1>7, <1>8, <2>1, <2>3, <3>1, <3>2 DEF Linked
    <3>4. /\ u \in Seq(Nodes') /\ Len(u) = n + 1 /\ u[n + 1] = l
          /\ \A k \in 1 .. n : u[k] = s[k]
      BY <3>2, <3>3, AppendProperties
    <3>5. more \in [Lists -> Seq(Nodes')] /\ more[i] = u
          /\ \A j \in Lists : j # i => more[j] = nodes[j]
      BY <1>7, <2>1, <2>2, <3>1, <3>2, <3>4
    <3> QED
      BY <3>2, <3>4, <3>5
  <2>5. /\ \A j \in Lists :
             /\ Len(nodes[j]) = listsLen[j]
             /\ head[j] = IF listsLen[j] = 0 THEN NULL ELSE nodes[j][1]
             /\ allList[j] = IF listsLen[j] = 0 THEN NULL ELSE nodes[j][listsLen[j]]
             /\ \A k \in 1 .. listsLen[j] :
                  next[nodes[j][k]] = IF k < listsLen[j] THEN nodes[j][k + 1] ELSE NULL
        /\ \A x \in Nodes : \E j \in Lists : \E k \in 1 .. listsLen[j] : nodes[j][k] = x
        /\ \A j, h \in Lists : \A k \in 1 .. listsLen[j], g \in 1 .. listsLen[h] :
             nodes[j][k] = nodes[h][g] => j = h /\ k = g
    BY <2>1 DEF Linked, Ends
  <2>6. \A j \in Lists : \A k \in 1 .. listsLen[j] : nodes[j][k] \in Nodes
    BY <2>1, <2>5, ElementOfSeq
  <2>7. NULL \notin Nodes' /\ l # NULL
    BY <1>8 DEF NULL
  <2>8. head[i] # NULL <=> n # 0
    <3>1. n # 0 => nodes[i][1] \in Nodes
      BY <1>7, <2>3, <2>6
    <3> QED
      BY <1>7, <1>8, <2>3, <2>5, <2>7, <3>1
  <2>16. n # 0 => /\ allList[i] = nodes[i][n] /\ nodes[i][n] \in Nodes
                  /\ n \in 1 .. listsLen[i]
    <3>1. n # 0 => n \in 1 .. listsLen[i]
      BY <2>3
    <3> QED
      BY <1>7, <2>3, <2>5, <2>6, <3>1
  <2>9. /\ listsLen'[i] = n + 1
        /\ \A j \in Lists : j # i => listsLen'[j] = listsLen[j]
    BY <1>7, <1>15, <2>3
  <2>10. ASSUME NEW j \in Lists
         PROVE  /\ Len(more[j]) = listsLen'[j]
                /\ head'[j] = IF listsLen'[j] = 0 THEN NULL ELSE more[j][1]
                /\ allList'[j] = IF listsLen'[j] = 0 THEN NULL ELSE more[j][listsLen'[j]]
    <3>1. head \in [Lists -> Nodes \cup {NULL}] /\ allList \in [Lists -> Nodes \cup {NULL}]
      BY DEF TracingInv, Closed
    <3>2. CASE j # i
      <4>1. more[j] = nodes[j] /\ listsLen'[j] = listsLen[j]
        BY <2>4, <2>9, <3>2
      <4>2. head'[j] = head[j] /\ allList'[j] = allList[j]
        BY <1>8, <3>1, <3>2
      <4> QED
        BY <2>5, <4>1, <4>2
    <3>3. CASE j = i
      <4>1. head'[i] = (IF head[i] = NULL THEN l ELSE head[i]) /\ allList'[i] = l
        BY <1>7, <1>8, <3>1
      <4>2. n # 0 => head[i] = nodes[i][1] /\ more[i][1] = nodes[i][1]
        BY <1>7, <2>3, <2>4, <2>5
      <4>3. head'[i] = more[i][1]
        BY <2>4, <2>8, <4>1, <4>2
      <4> QED
        BY <2>4, <2>9, <3>3, <4>1, <4>3
    <3> QED
      BY <3>2, <3>3
  <2>11. ASSUME NEW j \in Lists, NEW k \in 1 .. listsLen'[j]
         PROVE  next'[more[j][k]] = IF k < listsLen'[j] THEN more[j][k + 1] ELSE NULL
    <3>1. CASE j # i
      <4>1. k \in 1 .. listsLen[j] /\ more[j] = nodes[j] /\ nodes[j][k] \in Nodes
        BY <2>4, <2>6, <2>9, <3>1
      <4>2. ~(head[i] # NULL /\ nodes[j][k] = allList[i])
        <5> SUFFICES ASSUME head[i] # NULL, nodes[j][k] = allList[i]
                     PROVE  FALSE
          OBVIOUS
        <5>1. n \in 1 .. listsLen[i] /\ nodes[j][k] = nodes[i][n]
          BY <2>8, <2>16
        <5>2. j = i
          BY <1>7, <2>1, <4>1, <5>1, OnePlaceOnly
        <5> QED
          BY <3>1, <5>2
      <4>3. next'[nodes[j][k]] = next[nodes[j][k]]
        BY <1>8, <4>1, <4>2
      <4> QED
        BY <2>5, <2>9, <3>1, <4>1, <4>3
    <3>2. CASE j = i /\ k = n + 1
      BY <1>8, <2>4, <2>9, <3>2
    <3>3. CASE j = i /\ k = n /\ n # 0
      <4>1. nodes[i][n] \in Nodes /\ allList[i] = nodes[i][n] /\ more[i][n] = nodes[i][n]
        BY <2>4, <2>16, <3>3
      <4> QED
        BY <1>8, <2>4, <2>8, <2>9, <3>3, <4>1
    <3>4. CASE j = i /\ k \in 1 .. n - 1
      <4>1. k \in 1 .. n /\ n \in 1 .. n /\ k + 1 \in 1 .. n /\ n # 0 /\ k # n
        BY <3>4
      <4>5. k \in 1 .. listsLen[i] /\ k < listsLen[i]
        BY <2>3, <3>4
      <4>2. nodes[i][k] \in Nodes /\ nodes[i][k] # nodes[i][n] /\ allList[i] = nodes[i][n]
            /\ next[nodes[i][k]] = nodes[i][k + 1]
        BY <1>7, <2>5, <2>6, <2>16, <4>1, <4>5
      <4>3. next'[nodes[i][k]] = nodes[i][k + 1]
        BY <1>8, <4>2
      <4> QED
        BY <2>4, <2>9, <3>4, <4>1, <4>3
    <3>5. j = i => k \in 1 .. n - 1 \/ (k = n /\ n # 0) \/ k = n + 1
      BY <2>9
    <3> QED
      BY <3>1, <3>2, <3>3, <3>4, <3>5
  <2>12. ASSUME NEW x \in Nodes'
         PROVE  \E j \in Lists : \E k \in 1 .. listsLen'[j] : more[j][k] = x
    <3>1. CASE x = l
      <4>1. n + 1 \in 1 .. listsLen'[i] /\ more[i][n + 1] = x
        BY <2>4, <2>9, <3>1
      <4> QED
        BY <1>7, <4>1
    <3>2. CASE x # l
      <4>1. PICK j \in Lists : \E k \in 1 .. listsLen[j] : nodes[j][k] = x
        BY <1>8, <2>5, <3>2
      <4>2. PICK k \in 1 .. listsLen[j] : nodes[j][k] = x
        BY <4>1
      <4>3. k \in 1 .. listsLen'[j] /\ more[j][k] = nodes[j][k]
        <5>1. CASE j = i
          BY <2>3, <2>4, <2>9, <5>1
        <5>2. CASE j # i
          BY <2>4, <2>9, <5>2
        <5> QED
          BY <5>1, <5>2
      <4> QED
        BY <4>2, <4>3
    <3> QED
      BY <3>1, <3>2
  <2>13. ASSUME NEW j \in Lists, NEW k \in 1 .. listsLen'[j]
         PROVE  \/ j = i /\ k = n + 1 /\ more[j][k] = l
                \/ k \in 1 .. listsLen[j] /\ more[j][k] = nodes[j][k] /\ more[j][k] # l
    <3>1. CASE j = i /\ k = n + 1
      BY <2>4, <3>1
    <3>2. CASE ~(j = i /\ k = n + 1)
      <4>1. k \in 1 .. listsLen[j] /\ more[j][k] = nodes[j][k]
        BY <2>3, <2>4, <2>9, <3>2
      <4> QED
        BY <1>8, <2>6, <4>1
    <3> QED
      BY <3>1, <3>2
  <2>14. ASSUME NEW j \in Lists, NEW h \in Lists,
                NEW k \in 1 .. listsLen'[j], NEW g \in 1 .. listsLen'[h],
                more[j][k] = more[h][g]
         PROVE  j = h /\ k = g
    BY <2>5, <2>13, <2>14
  <2>15. Linked(more)' /\ Ends(more)'
    BY <1>9, <2>10, <2>11, <2>12, <2>14 DEF Linked, Ends
  <2> QED
    BY <1>2, <1>9, <2>4, <2>15 DEF Chained
<1> QED
  BY <1>10, <1>12, <1>13, <1>17, <1>18 DEF TracingInv

LEMMA BuildRingsKeeps == ASSUME TracingInv, BuildRings PROVE TracingInv'
<1>1. /\ phase = "build" /\ Program = "old_pointer_tracing" /\ NewNode
      /\ UNCHANGED <<args, procs, me, phase, listsLen, listNumber, tofillLists, mBitmap,
                     mine, totals, freeing>>
  BY DEF BuildRings
<1>2. PICK i \in Lists : insertToListI(i, Allocated)
  BY DEF BuildRings
<1>3. PICK l : l = Allocated
  OBVIOUS
<1>4. /\ l \in Nat
      /\ Nodes' = Nodes \cup {l} /\ Allocated' = l + 1 /\ Nodes' = 0 .. l
      /\ next' \in [Nodes' -> Nodes' \cup {NULL}]
      /\ head' \in [Lists -> Nodes' \cup {NULL}]
      /\ allList' \in [Lists -> Nodes' \cup {NULL}]
  BY <1>1, <1>2, <1>3, Inserts
<1>5. Program # "pointer_tracing" /\ ~Listing /\ Program \in Rings /\ args' = args
      /\ procs' = procs /\ me' = me /\ phase' = phase /\ Lists' = Lists /\ Program' = Program
      /\ ~Listing'
  BY <1>1 DEF Listing, Rings, Rereads, Rewalks, Lists, Program
<1>6. Forked'
  BY <1>5, ForkedStep DEF TracingInv
<1>7. Closed'
  <2>1. AllBound' /\ me \in 1 .. Len(procs)
    BY <1>1, <1>5 DEF TracingInv, Closed, AllBound
  <2>2. Allocated' \in Nat /\ Nodes' = 0 .. Allocated' - 1
    BY <1>4
  <2>3. tofillLists' = tofillLists /\ tofillLists \in Int /\ tofillLists <= args.TOTAL_LISTS
    BY <1>1 DEF TracingInv, Closed
  <2> QED
    BY <1>1, <1>4, <1>5, <2>1, <2>2, <2>3 DEF Closed
<1>8. Kept'
  BY <1>1, <1>3, <1>4, <1>5, NewNodeKeeps
<1>9. Filling' /\ Chained'
  BY <1>5 DEF Filling, Chained
<1> QED
  BY <1>6, <1>7, <1>8, <1>9 DEF TracingInv

LEMMA ShuffleKeeps == ASSUME TracingInv, Shuffle PROVE TracingInv'
<1>1. /\ phase = "build" /\ Program = "pointer_tracing" /\ len > 1
      /\ tofillLists' = tofillLists - 1
      /\ UNCHANGED <<args, procs, me, phase, head, allList, listsLen, listNumber, next, data,
                     live, mine, totals, freeing>>
  BY DEF Shuffle
<1>2. PICK idx \in 0 .. len - 1 :
        mBitmap' = [mBitmap EXCEPT ![idx] = mBitmap[len - 1], ![len - 1] = mBitmap[idx]]
  BY DEF Shuffle
<1>3. PICK m \in Nat : m = args.TOTAL_DATA
  BY ArgumentsGiven DEF TracingInv, Forked
<1>4. /\ mBitmap \in [0 .. m - 1 -> 0 .. m - 1]
      /\ \A n \in 0 .. m - 1 : \E i \in 0 .. m - 1 : mBitmap[i] = n
      /\ Nodes \in {{}, 0 .. m - 1}
      /\ tofillLists \in Int /\ tofillLists <= args.TOTAL_LISTS /\ args.TOTAL_LISTS \in Nat
  BY <1>1, <1>3, ArgumentsGiven DEF TracingInv, Closed, Forked
<1>5. PICK last \in 0 .. m - 1 : last = len - 1 /\ idx \in 0 .. m - 1
  <2>1. len \in Int /\ len <= m /\ len > 1
    BY <1>1, <1>3, <1>4 DEF len
  <2>2. len - 1 \in 0 .. m - 1 /\ idx \in 0 .. m - 1
    BY <1>3, <2>1
  <2> QED
    BY <2>2
<1>6. /\ mBitmap' \in [0 .. m - 1 -> 0 .. m - 1]
      /\ mBitmap'[last] = mBitmap[idx]
      /\ mBitmap'[idx] = mBitmap[last]
      /\ \A i \in 0 .. m - 1 : i # idx /\ i # last => mBitmap'[i] = mBitmap[i]
  BY <1>2, <1>4, <1>5
<1>7. \A n \in 0 .. m - 1 : \E i \in 0 .. m - 1 : mBitmap'[i] = n
  <2> SUFFICES ASSUME NEW n \in 0 .. m - 1
               PROVE  \E i \in 0 .. m - 1 : mBitmap'[i] = n
    OBVIOUS
  <2>1. PICK i \in 0 .. m - 1 : mBitmap[i] = n
    BY <1>4
  <2> QED
    BY <1>5, <1>6, <2>1
<1>8. args' = args /\ Program' = Program /\ ~Listing /\ ~Listing' /\ Lists' = Lists
      /\ Nodes' = Nodes /\ Allocated' = Allocated /\ Tasks' = Tasks
  BY <1>1 DEF Listing, Rereads, Rewalks, Program, Lists, Nodes, Allocated, Tasks
<1>9. Forked'
  BY <1>1, ForkedStep DEF TracingInv
<1>10. Closed'
  <2>1. AllBound' /\ me' \in 1 .. Len(procs') /\ Before'
    BY <1>1 DEF TracingInv, Closed, AllBound, Before
  <2>2. tofillLists' \in Int /\ tofillLists' <= args.TOTAL_LISTS
    BY <1>1, <1>4
  <2> QED
    BY <1>1, <1>3, <1>4, <1>6, <1>7, <1>8, <2>1, <2>2 DEF TracingInv, Closed
<1>11. Kept'
  BY <1>1, <1>8 DEF TracingInv, Kept, After
<1>12. Filling' /\ Chained'
  BY <1>8 DEF Filling, Chained
<1> QED
  BY <1>9, <1>10, <1>11, <1>12 DEF TracingInv

LEMMA LinkRingsKeeps == ASSUME TracingInv, LinkRings PROVE TracingInv'
<1>1. /\ phase = "build" /\ Program = "pointer_tracing"
      /\ UNCHANGED <<args, procs, me, phase, allList, listsLen, listNumber, tofillLists,
                     mBitmap, live, mine, totals, freeing>>
  BY DEF LinkRings
<1>2. PICK listLen : listLen = args.TOTAL_DATA \div args.TOTAL_LISTS
  OBVIOUS
<1>3. PICK place : place = [n \in DOMAIN mBitmap |-> CHOOSE i \in DOMAIN mBitmap : mBitmap[i] = n]
  OBVIOUS
<1>4. /\ head' = [i \in Lists |-> mBitmap[i * listLen]]
      /\ next' = [n \in DOMAIN mBitmap |-> RingNext(place[n], listLen)]
  BY <1>2, <1>3 DEF LinkRings
<1>5. PICK m \in Nat, c \in Nat \ {0} : m = args.TOTAL_DATA /\ c = args.TOTAL_LISTS
                                       /\ m >= c /\ m % c = 0
  <2>1. /\ args.TOTAL_DATA \in Nat /\ args.TOTAL_LISTS \in Nat /\ args.TOTAL_LISTS > 0
        /\ args.TOTAL_DATA >= args.TOTAL_LISTS /\ args.TOTAL_DATA % args.TOTAL_LISTS = 0
    BY <1>1, ArgumentsGiven DEF TracingInv, Forked, Rings
  <2> QED
    BY <2>1
<1>6. /\ mBitmap \in [0 .. m - 1 -> 0 .. m - 1]
      /\ \A n \in 0 .. m - 1 : \E i \in 0 .. m - 1 : mBitmap[i] = n
      /\ Nodes \in {{}, 0 .. m - 1}
  BY <1>1, <1>5 DEF TracingInv, Closed
<1>7. listLen \in Nat \ {0} /\ m = c * listLen
  <2>3. m \div c \in Nat /\ m = c * (m \div c) + (m % c)
    BY Division
  <2>1. listLen \in Nat /\ m = c * listLen + (m % c)
    BY <1>2, <1>5, <2>3
  <2>2. c * listLen \in Nat /\ c * 0 = 0
    BY <1>5, <2>1
  <2> QED
    BY <1>5, <2>1, <2>2
<1>8. ASSUME NEW i \in 0 .. m - 1
      PROVE  RingNext(i, listLen) \in 0 .. m - 1
  <2>1. PICK r \in Nat : r = i % listLen /\ i - r \in 0 .. m - 1
    <3>4. PICK n \in Nat \ {0} : n = listLen
      BY <1>7
    <3>5. i \in Nat
      OBVIOUS
    <3>6. i \div n \in Nat /\ i % n \in 0 .. n - 1 /\ i = n * (i \div n) + (i % n)
      BY <3>5, Division
    <3>1. /\ i \div listLen \in Nat /\ i % listLen \in 0 .. listLen - 1
          /\ i = listLen * (i \div listLen) + (i % listLen)
      BY <3>4, <3>6
    <3>2. listLen * (i \div listLen) \in Nat
      BY <1>7, <3>1, SMTT(20)
    <3>3. i - (i % listLen) \in 0 .. m - 1
      BY <3>1, <3>2
    <3> QED
      BY <3>1, <3>3
  <2>2. i # m - 1 => i + 1 \in 0 .. m - 1
    OBVIOUS
  <2> QED
    BY <1>5, <1>6, <2>1, <2>2 DEF RingNext
<1>9. \A n \in 0 .. m - 1 : place[n] \in 0 .. m - 1
  BY <1>3, <1>6
<1>10. Nodes' = 0 .. m - 1 /\ next' \in [Nodes' -> Nodes' \cup {NULL}]
  <2>1. DOMAIN mBitmap = 0 .. m - 1
    BY <1>6
  <2> QED
    BY <1>4, <1>8, <1>9, <2>1 DEF Nodes
<1>11. Allocated' = m
  <2>1. 0 \in Int /\ m - 1 \in Int /\ Cardinality(0 .. m - 1) = IF 0 > m - 1 THEN 0 ELSE m - 1 - 0 + 1
    BY FS_Interval
  <2>2. Cardinality(0 .. m - 1) = m
    BY <2>1
  <2>3. DOMAIN next' = 0 .. m - 1
    BY <1>10 DEF Nodes
  <2> QED
    BY <2>2, <2>3 DEF Allocated
<1>12. args' = args /\ Program' = Program /\ ~Listing /\ ~Listing' /\ Lists' = Lists
       /\ Tasks' = Tasks
  BY <1>1 DEF Listing, Rereads, Rewalks, Program, Lists, Tasks
<1>13. head' \in [Lists -> Nodes' \cup {NULL}]
  <2>1. ASSUME NEW i \in Lists
        PROVE  i * listLen \in 0 .. m - 1
    <3>1. i \in Nat /\ c \in Nat /\ i < c /\ listLen \in Nat
      BY <1>5, <1>7 DEF Lists
    <3>2. i * listLen \in Nat /\ i * listLen + listLen <= c * listLen
      BY <3>1, ProductGrows
    <3> QED
      BY <1>7, <3>2
  <2> QED
    BY <1>4, <1>6, <1>10, <2>1
<1>14. allList' \in [Lists -> Nodes' \cup {NULL}]
  <2>1. Nodes \subseteq Nodes'
    BY <1>6, <1>10
  <2>2. allList \in [Lists -> Nodes \cup {NULL}]
    BY DEF TracingInv, Closed
  <2> QED
    BY <1>1, <2>1, <2>2
<1>15. Forked'
  BY <1>1, ForkedStep DEF TracingInv
<1>16. Closed'
  <2>1. AllBound' /\ me' \in 1 .. Len(procs') /\ Before'
    BY <1>1 DEF TracingInv, Closed, AllBound, Before
  <2>2. Allocated' \in Nat /\ Nodes' = 0 .. Allocated' - 1
    BY <1>10, <1>11
  <2>3. tofillLists' \in Int /\ tofillLists' <= args.TOTAL_LISTS /\ mBitmap' = mBitmap
    BY <1>1 DEF TracingInv, Closed
  <2>4. phase' \in {"processes", "elsewhere", "build", "run", "free", "end"}
        /\ Program' \in Rings \cup Rereads \cup Rewalks
    BY <1>1, <1>12 DEF Rings
  <2> QED
    BY <1>5, <1>6, <1>10, <1>12, <1>13, <1>14, <2>1, <2>2, <2>3, <2>4 DEF Closed
<1>17. Kept'
  <2>1. Program # "newnodepttest" /\ ~After /\ ~After' /\ phase # "end" /\ phase # "free"
        /\ phase # "run"
    BY <1>1 DEF After
  <2> QED
    BY <1>1, <1>12, <2>1 DEF TracingInv, Kept
<1>18. Filling' /\ Chained'
  BY <1>12 DEF Filling, Chained
<1> QED
  BY <1>15, <1>16, <1>17, <1>18 DEF TracingInv

LEMMA StartTasksKeeps == ASSUME TracingInv, StartTasks PROVE TracingInv'
<1>1. /\ phase = "build" /\ Built /\ allList' = head /\ phase' = "run"
      /\ UNCHANGED <<args, procs, me, head, listsLen, listNumber, tofillLists, mBitmap, next,
                     data, live, mine, totals, freeing>>
  BY DEF StartTasks
<1>2. args' = args /\ Program' = Program /\ (Listing' <=> Listing) /\ Lists' = Lists
      /\ Tasks' = Tasks /\ Nodes' = Nodes /\ Allocated' = Allocated /\ ~Before' /\ ~After'
      /\ Before /\ ~After
  BY <1>1 DEF Listing, Program, Lists, Tasks, Nodes, Allocated, Before, After
<1>3. Forked'
  BY <1>1, ForkedStep DEF TracingInv
<1>4. Closed'
  <2>1. AllBound' /\ me' \in 1 .. Len(procs')
    BY <1>1 DEF TracingInv, Closed, AllBound
  <2>2. Program = "pointer_tracing" => Nodes # {}
    <3> SUFFICES ASSUME Program = "pointer_tracing"
                 PROVE  Nodes # {}
      OBVIOUS
    <3>1. Allocated > 0 /\ Allocated \in Nat /\ Nodes = 0 .. Allocated - 1
      BY <1>1 DEF Built, Shuffled, TracingInv, Closed
    <3>2. 0 \in Nodes
      BY <3>1
    <3> QED
      BY <3>2
  <2> QED
    BY <1>1, <1>2, <2>1, <2>2 DEF TracingInv, Closed
<1>5. Kept'
  BY <1>1, <1>2 DEF TracingInv, Kept
<1>6. Filling'
  <2> SUFFICES ASSUME Listing
               PROVE  Filling'
    BY <1>2 DEF Filling
  <2>1. tofillLists = 0
    BY <1>1 DEF Built, Listing, Rereads, Rewalks
  <2>2. LIST_LEN \in Nat \ {0}
    BY <1>1, LengthPositive DEF TracingInv, Closed, LIST_LEN
  <2>3. \A i \in Lists : listsLen[i] > 0
    BY <1>1, <2>1, <2>2 DEF TracingInv, Filling
  <2> QED
    BY <1>1, <1>2, <2>3 DEF TracingInv, Filling
<1>7. Chained'
  <2>1. SameLists
    BY <1>1 DEF SameLists
  <2> QED
    BY <1>1, <1>2, <2>1, LinkedKept DEF TracingInv, Chained
<1> QED
  BY <1>3, <1>4, <1>5, <1>6, <1>7 DEF TracingInv

------------------------------------------------------------------------------
\* The least of some numbers is one of them.
LEMMA MinIn ==
  ASSUME NEW S, S \subseteq Nat, S # {}
  PROVE  Min(S) \in S
<1>1. \E x \in S : \A y \in S : x <= y
  BY LeastNumber
<1> QED
  BY <1>1 DEF Min

\* Tasks only go to nodes of the program's lists.
LEMMA NextListIsNode ==
  ASSUME TracingInv, Listing, NEW t \in Tasks, NEW i, NEW j
  PROVE  NextList(t, i, j).node \in Nodes \cup {NULL}
<1>1. /\ args.TOTAL_LISTS \in Nat /\ args.CORO_NUM \in Nat \ {0} /\ t \in 0 .. args.CORO_NUM - 1
      /\ head \in [Lists -> Nodes \cup {NULL}]
  <2>1. args \in Commands /\ Program \notin Rings
    BY ArgumentsGiven DEF TracingInv, Forked
  <2>2. args.TOTAL_LISTS \in Nat /\ args.CORO_NUM \in Nat \ {0}
    BY <2>1, ArgumentsGiven
  <2> QED
    BY <2>1, <2>2 DEF TracingInv, Closed, Tasks
<1> DEFINE first == First(args.TOTAL_LISTS, args.CORO_NUM, t)
           past == Past(args.TOTAL_LISTS, args.CORO_NUM, t)
           share == {l \in first .. past - 1 : head[l] # NULL}
           later == {l \in share : l > j}
<1>2. first \in Nat /\ past \in 0 .. args.TOTAL_LISTS
  BY <1>1, SharesCover
<1>3. NextList(t, i, j) = IF i < Rounds /\ later # {} THEN Place(i, Min(later), head[Min(later)])
                          ELSE IF i + 1 < Rounds /\ share # {}
                               THEN Place(i + 1, Min(share), head[Min(share)])
                               ELSE Place(i, j, NULL)
  BY DEF NextList
<1> HIDE DEF first, past
<1>4. share \subseteq Lists /\ later \subseteq Lists /\ share \subseteq Nat /\ later \subseteq Nat
  BY <1>1, <1>2 DEF Lists
<1> HIDE DEF share, later
<1>5. /\ later # {} => head[Min(later)] \in Nodes \cup {NULL}
      /\ share # {} => head[Min(share)] \in Nodes \cup {NULL}
  BY <1>1, <1>4, MinIn
<1> QED
  BY <1>3, <1>5 DEF Place

LEMMA FirstPlaceIsNode ==
  ASSUME TracingInv, phase = "run", NEW t \in Tasks
  PROVE  FirstPlace(t).node \in Nodes \cup {NULL}
<1>1. /\ head \in [Lists -> Nodes \cup {NULL}] /\ allList \in [Lists -> Nodes \cup {NULL}]
      /\ Program \in Rings \cup Rereads \cup Rewalks
  BY DEF TracingInv, Closed
<1>2. Program \in Rings => t \in Lists
  BY DEF Tasks, Lists
<1>3. CASE Program = "old_pointer_tracing"
  BY <1>1, <1>2, <1>3 DEF FirstPlace, FirstInRing, Place, Rings
<1>4. CASE Program = "pointer_tracing"
  BY <1>1, <1>2, <1>4 DEF FirstPlace, FirstStep, Place, Rings
<1>5. CASE Program \notin Rings
  <2>1. Listing
    BY <1>1, <1>5 DEF Listing
  <2> QED
    BY <1>5, <2>1, NextListIsNode DEF FirstPlace, Rings
<1> QED
  BY <1>3, <1>4, <1>5 DEF Rings

LEMMA NextPlaceIsNode ==
  ASSUME TracingInv, phase = "run", NEW t \in Tasks, NEW i, NEW j, NEW node \in Nodes
  PROVE  NextPlace(t, i, j, node).node \in Nodes \cup {NULL}
<1>1. next[node] \in Nodes \cup {NULL} /\ Program \in Rings \cup Rereads \cup Rewalks
  BY DEF TracingInv, Closed
<1>2. CASE Program = "old_pointer_tracing"
  BY <1>1, <1>2 DEF NextPlace, NextInRing, Place
<1>3. CASE Program = "pointer_tracing"
  BY <1>1, <1>3 DEF NextPlace, NextStep, Place
<1>4. CASE Program \notin Rings
  <2>1. Listing
    BY <1>1, <1>4 DEF Listing
  <2>2. NextInList(t, i, j, node).node \in Nodes \cup {NULL}
    <3>1. CASE next[node] # NULL
      BY <1>1, <3>1 DEF NextInList, Place
    <3>2. CASE next[node] = NULL
      BY <2>1, <3>2, NextListIsNode DEF NextInList
    <3> QED
      BY <3>1, <3>2
  <2> QED
    BY <1>4, <2>2 DEF NextPlace, Rings
<1> QED
  BY <1>2, <1>3, <1>4 DEF Rings

LEMMA GoesToKeeps ==
  ASSUME TracingInv, phase = "run", NEW t \in Tasks, NEW place,
         place.node \in Nodes \cup {NULL}, NEW accum, NEW times,
         GoesTo(t, place, accum, times)
  PROVE  TracingInv'
<1>1. PICK m : /\ m.at = (IF place.node = NULL THEN "returned" ELSE "node")
               /\ m.node = place.node
               /\ mine' = [mine EXCEPT ![t] = m]
  <2>1. PICK m : m = [at |-> IF place.node = NULL THEN "returned" ELSE "node",
                      i |-> place.i, j |-> place.j, node |-> place.node,
                      accum |-> accum, times |-> times]
    OBVIOUS
  <2>2. mine' = [mine EXCEPT ![t] = m]
    BY <2>1 DEF GoesTo
  <2> QED
    BY <2>1, <2>2
<1>2. UNCHANGED <<args, procs, me, phase, head, allList, listsLen, listNumber, tofillLists,
                  mBitmap, next, live, freeing>>
  BY DEF GoesTo, build
<1>3. Forked'
  BY <1>2, ForkedStep DEF TracingInv
<1>4. Closed'
  BY <1>2 DEF TracingInv, Closed, AllBound, Before, Nodes, Lists, Allocated, Program
<1>5. Kept'
  <2>1. /\ mine = [k \in Tasks |-> mine[k]]
        /\ \A k \in Tasks : mine[k].at = "node" => mine[k].node \in Nodes
    BY DEF TracingInv, Kept
  <2>2. /\ mine' = [k \in Tasks |-> mine'[k]]
        /\ mine'[t] = m
        /\ \A k \in Tasks : k # t => mine'[k] = mine[k]
    BY <1>1, <2>1
  <2>3. ASSUME NEW k \in Tasks, mine'[k].at = "node"
        PROVE  mine'[k].node \in Nodes
    <3>1. CASE k = t
      BY <1>1, <2>2, <2>3, <3>1
    <3>2. CASE k # t
      BY <2>1, <2>2, <2>3, <3>2
    <3> QED
      BY <3>1, <3>2
  <2>4. Tasks' = Tasks /\ Nodes' = Nodes /\ Program' = Program /\ (Listing' <=> Listing)
        /\ (After' <=> After)
    BY <1>2 DEF Tasks, Nodes, Program, Listing, After
  <2> QED
    BY <1>2, <2>2, <2>3, <2>4 DEF TracingInv, Kept
<1>6. Filling'
  BY <1>2 DEF TracingInv, Filling, Before, Lists, Program, Listing, LIST_LEN
<1>7. Chained'
  BY <1>2, LinkedKept DEF TracingInv, Chained, SameLists, Before, Lists, Program, Listing, Nodes
<1> QED
  BY <1>3, <1>4, <1>5, <1>6, <1>7 DEF TracingInv

LEMMA TaskKeeps ==
  ASSUME TracingInv, NEW t \in Tasks, StartTask(t) \/ ReadNode(t)
  PROVE  TracingInv'
<1>1. CASE StartTask(t)
  <2>1. phase = "run" /\ GoesTo(t, FirstPlace(t), 0, 0)
    BY <1>1 DEF StartTask
  <2> QED
    BY <2>1, FirstPlaceIsNode, GoesToKeeps
<1>2. CASE ReadNode(t)
  <2>1. PICK n : n = mine[t].node
    OBVIOUS
  <2>2. PICK accum : accum = mine[t].accum
                       + data[n] * (IF Program \in Rereads THEN args.REPEAT_TIMES ELSE 1)
    OBVIOUS
  <2>3. PICK place : place = NextPlace(t, mine[t].i, mine[t].j, n)
    OBVIOUS
  <2>4. phase = "run" /\ mine[t].at = "node"
        /\ GoesTo(t, place, accum, mine[t].times + 1)
    BY <1>2, <2>1, <2>2, <2>3 DEF ReadNode
  <2>5. n \in Nodes
    BY <2>1, <2>4 DEF TracingInv, Kept
  <2>6. place.node \in Nodes \cup {NULL}
    BY <2>3, <2>4, <2>5, NextPlaceIsNode
  <2> QED
    BY <2>4, <2>6, GoesToKeeps
<1> QED
  BY <1>1, <1>2

LEMMA StartFreeingKeeps == ASSUME TracingInv, StartFreeing PROVE TracingInv'
<1>1. /\ phase = "run" /\ AllReturned
      /\ IF Program \in Rings
         THEN /\ phase' = "end"
              /\ live' = IF Program = "pointer_tracing" THEN {} ELSE live
              /\ UNCHANGED freeing
         ELSE /\ phase' = IF Lists = {} THEN "end" ELSE "free"
              /\ freeing' = [j |-> 0, node |-> IF Lists = {} THEN NULL ELSE head[0]]
              /\ UNCHANGED live
      /\ UNCHANGED <<args, procs, me, head, allList, listsLen, listNumber, tofillLists, mBitmap,
                     next, data, mine, totals>>
  BY DEF StartFreeing, build
<1>2. /\ args' = args /\ procs' = procs /\ me' = me /\ Program' = Program
      /\ (Listing' <=> Listing) /\ Lists' = Lists /\ Tasks' = Tasks /\ Nodes' = Nodes
      /\ Allocated' = Allocated /\ ~Before /\ ~Before' /\ ~After /\ After'
  BY <1>1 DEF Listing, Program, Lists, Tasks, Nodes, Allocated, Before, After
<1>3. Forked'
  BY <1>2, ForkedStep DEF TracingInv
<1>4. Closed'
  <2>1. AllBound' /\ me' \in 1 .. Len(procs')
    BY <1>1, <1>2 DEF TracingInv, Closed, AllBound
  <2> QED
    BY <1>1, <1>2, <2>1 DEF TracingInv, Closed
<1>5. \A t \in Tasks : mine[t].at # "node"
  BY <1>1 DEF AllReturned
<1>6. Filling'
  BY <1>1, <1>2 DEF TracingInv, Filling
<1>7. Program \in Rings \/ Listing
  BY <1>1 DEF TracingInv, Closed, Listing
<1>8. live = IF Program = "pointer_tracing" THEN 0 .. args.TOTAL_DATA - 1 ELSE Nodes
  BY <1>2 DEF TracingInv, Kept
<1>9. mine = [t \in Tasks |-> mine[t]]
  BY DEF TracingInv, Kept
<1>10. CASE Program \in Rings
  <2>1. ~Listing /\ Program # "newnodepttest"
    BY <1>10 DEF Listing, Rings, Rereads, Rewalks
  <2>2. live' = IF Program = "old_pointer_tracing" THEN Nodes ELSE {}
    BY <1>1, <1>8, <1>10 DEF Rings
  <2>3. Kept'
    BY <1>1, <1>2, <1>5, <1>9, <1>10, <2>1, <2>2 DEF Kept
  <2>4. Chained'
    BY <1>2, <2>1 DEF Chained
  <2> QED
    BY <1>3, <1>4, <1>6, <2>3, <2>4 DEF TracingInv
<1>11. CASE Listing
  <2>1. Program \notin Rings
    BY <1>11, ArgumentsGiven DEF TracingInv, Forked
  <2>2. live' = live /\ live = Nodes /\ freeing'.j = 0
    BY <1>1, <1>8, <2>1 DEF Rings
  <2>3. PICK nodes \in [Lists -> Seq(Nodes)] : Linked(nodes)
    BY <1>11 DEF TracingInv, Chained
  <2>4. Linked(nodes)'
    BY <1>1, <2>3, LinkedKept DEF SameLists
  <2>5. Lists = {} => Nodes = {} /\ phase' = "end"
    BY <1>1, <2>1, <2>3 DEF Linked
  <2>6. Lists # {} => phase' = "free" /\ freeing'.node = head[0]
    BY <1>1, <2>1
  <2>7. Kept'
    <3>1. phase' = "end" => live' = {}
      BY <2>2, <2>5, <2>6
    <3> QED
      BY <1>1, <1>2, <1>5, <1>9, <1>11, <2>1, <2>2, <3>1 DEF Kept, Rings
  <2>8. ASSUME Lists # {}
        PROVE  Freed(nodes)'
    <3>1. 0 \in Lists
      BY <2>8, ArgumentsGiven DEF Lists, TracingInv, Forked
    <3>2. listsLen[0] \in Nat \ {0}
      BY <1>2, <1>11, <3>1 DEF TracingInv, Filling
    <3>3. 1 \in 1 .. listsLen[0] /\ head[0] = nodes[0][1]
      BY <2>3, <3>1, <3>2 DEF Linked
    <3>4. ASSUME NEW i \in Lists, NEW k \in 1 .. listsLen[i]
          PROVE  nodes[i][k] \in live /\ (i > 0 \/ (i = 0 /\ k >= 1))
      <4>1. nodes[i] \in Seq(Nodes) /\ Len(nodes[i]) = listsLen[i]
        BY <2>3 DEF Linked
      <4>2. nodes[i][k] \in Nodes
        BY <4>1, ElementOfSeq
      <4>3. i >= 0 /\ i \in Int /\ k >= 1
        BY DEF Lists
      <4> QED
        BY <2>2, <4>2, <4>3
    <3>5. listsLen' = listsLen
      BY <1>1
    <3> QED
      BY <1>2, <2>2, <2>6, <2>8, <3>1, <3>3, <3>4, <3>5 DEF Freed
  <2>9. Chained'
    BY <1>2, <2>3, <2>4, <2>5, <2>8 DEF Chained
  <2> QED
    BY <1>3, <1>4, <1>6, <2>7, <2>9 DEF TracingInv
<1> QED
  BY <1>7, <1>10, <1>11

LEMMA FreeNodeKeeps == ASSUME TracingInv, FreeNode PROVE TracingInv'
<1>1. PICK j, node : j = freeing.j /\ node = freeing.node
  OBVIOUS
<1>2. /\ phase = "free"
      /\ freeing' = AfterFreeing(j, node)
      /\ phase' = IF freeing'.j \in Lists THEN "free" ELSE "end"
      /\ live' = live \ {node}
      /\ UNCHANGED <<args, procs, me, head, allList, listsLen, listNumber, tofillLists, mBitmap,
                     next, data, mine, totals>>
  BY <1>1 DEF FreeNode, build
<1>3. /\ args' = args /\ procs' = procs /\ me' = me /\ Program' = Program
      /\ (Listing' <=> Listing) /\ Lists' = Lists /\ Tasks' = Tasks /\ Nodes' = Nodes
      /\ Allocated' = Allocated /\ phase' \in {"free", "end"} /\ ~Before /\ ~Before'
      /\ After /\ After' /\ listsLen' = listsLen
  BY <1>2 DEF Listing, Program, Lists, Tasks, Nodes, Allocated, Before, After
<1>4. Forked'
  BY <1>3, ForkedStep DEF TracingInv
<1>5. Closed'
  <2>1. AllBound' /\ me' \in 1 .. Len(procs')
    BY <1>2, <1>3 DEF TracingInv, Closed, AllBound
  <2> QED
    BY <1>2, <1>3, <2>1 DEF TracingInv, Closed
<1>6. Filling'
  BY <1>2, <1>3 DEF TracingInv, Filling
<1>7. Listing /\ Program \notin Rings /\ args.TOTAL_LISTS \in Nat
  BY <1>2, ArgumentsGiven DEF TracingInv, Kept, Forked
<1>8. PICK nodes \in [Lists -> Seq(Nodes)] : Linked(nodes) /\ Freed(nodes)
  BY <1>2, <1>7 DEF TracingInv, Chained
<1>9. PICK pos \in 1 .. listsLen[j] :
        /\ node = nodes[j][pos]
        /\ \A i \in Lists : \A k \in 1 .. listsLen[i] :
             nodes[i][k] \in live <=> (i > j \/ (i = j /\ k >= pos))
  BY <1>1, <1>8 DEF Freed
<1>10. j \in Lists /\ j \in Nat /\ live \subseteq Nodes
  BY <1>1, <1>8 DEF Freed, Lists
<1>11. /\ \A i \in Lists : Len(nodes[i]) = listsLen[i] /\ listsLen[i] \in Nat \ {0}
       /\ \A i \in Lists : head[i] = nodes[i][1]
       /\ \A k \in 1 .. listsLen[j] :
            next[nodes[j][k]] = IF k < listsLen[j] THEN nodes[j][k + 1] ELSE NULL
       /\ \A n \in Nodes : \E i \in Lists : \E k \in 1 .. listsLen[i] : nodes[i][k] = n
       /\ \A i, h \in Lists : \A k \in 1 .. listsLen[i], l \in 1 .. listsLen[h] :
            nodes[i][k] = nodes[h][l] => i = h /\ k = l
  <2>1. \A i \in Lists : listsLen[i] \in Nat \ {0}
    BY <1>3, <1>7 DEF TracingInv, Filling
  <2> QED
    BY <1>8, <1>10, <2>1 DEF Linked
<1>20. ASSUME NEW i \in Lists, NEW k \in 1 .. listsLen[i], NEW h \in Lists,
              NEW l \in 1 .. listsLen[h], nodes[i][k] = nodes[h][l]
       PROVE  i = h /\ k = l
  BY <1>8, <1>20, OnePlaceOnly
<1>12. \A i \in Lists : \A k \in 1 .. listsLen[i] : nodes[i][k] \in Nodes
  BY <1>8, <1>11, ElementOfSeq
<1>13. NULL \notin Nodes
  BY DEF TracingInv, Closed, NULL
\* what is left after node is freed
<1>14. ASSUME NEW i \in Lists, NEW k \in 1 .. listsLen[i]
       PROVE  nodes[i][k] \in live' <=> (i > j \/ (i = j /\ k >= pos + 1))
  <2>1. nodes[i][k] = node <=> i = j /\ k = pos
    <3>1. pos \in 1 .. listsLen[j] /\ node = nodes[j][pos] /\ j \in Lists
      BY <1>9, <1>10
    <3>2. nodes[i][k] = nodes[j][pos] => i = j /\ k = pos
      BY <1>20, <3>1
    <3> QED
      BY <3>1, <3>2
  <2>2. nodes[i][k] \in live <=> (i > j \/ (i = j /\ k >= pos))
    BY <1>9
  <2>3. i \in Int /\ k \in Int /\ pos \in Int
    BY DEF Lists
  <2> QED
    BY <1>2, <1>10, <2>1, <2>2, <2>3
<1>15. /\ freeing' = IF pos < listsLen[j] THEN [j |-> j, node |-> nodes[j][pos + 1]]
                     ELSE [j |-> j + 1, node |-> IF j + 1 \in Lists THEN head[j + 1] ELSE NULL]
  <2>1. next[node] # NULL <=> pos < listsLen[j]
    <3>1. /\ node = nodes[j][pos] /\ listsLen[j] \in Nat
          /\ next[nodes[j][pos]] = IF pos < listsLen[j] THEN nodes[j][pos + 1] ELSE NULL
      BY <1>9, <1>10, <1>11
    <3>2. pos < listsLen[j] => nodes[j][pos + 1] # NULL
      <4> SUFFICES ASSUME pos < listsLen[j]
                   PROVE  nodes[j][pos + 1] # NULL
        OBVIOUS
      <4>1. pos + 1 \in 1 .. listsLen[j]
        BY <3>1
      <4>2. nodes[j][pos + 1] \in Nodes
        BY <1>10, <1>12, <4>1
      <4> QED
        BY <1>13, <4>2
    <3> QED
      BY <3>1, <3>2
  <2>2. pos < listsLen[j] => next[node] = nodes[j][pos + 1]
    BY <1>9, <1>10, <1>11
  <2> QED
    BY <1>2, <2>1, <2>2 DEF AfterFreeing
<1>16. live' \subseteq Nodes
  BY <1>2, <1>10
<1>17. phase' = "end" => live' = {}
  <2> SUFFICES ASSUME phase' = "end"
               PROVE  live' = {}
    OBVIOUS
  <2>1. freeing'.j \notin Lists
    BY <1>2
  <2>2. ~(pos < listsLen[j]) /\ j + 1 \notin Lists
    BY <1>10, <1>15, <2>1
  <2>3. j + 1 = args.TOTAL_LISTS
    BY <1>7, <1>10, <2>2 DEF Lists
  <2>4. ASSUME NEW n \in live'
        PROVE  FALSE
    <3>1. PICK i \in Lists : \E k \in 1 .. listsLen[i] : nodes[i][k] = n
      BY <1>11, <1>16
    <3>2. PICK k \in 1 .. listsLen[i] : nodes[i][k] = n
      BY <3>1
    <3>3. i > j \/ (i = j /\ k >= pos + 1)
      BY <1>14, <3>2
    <3>4. i \in 0 .. args.TOTAL_LISTS - 1
      BY DEF Lists
    <3> QED
      BY <1>7, <1>10, <1>11, <2>2, <2>3, <3>3, <3>4
  <2> QED
    BY <2>4
<1>18. Kept'
  <2>1. /\ mine = [t \in Tasks |-> mine[t]]
        /\ \A t \in Tasks : mine[t].at # "node"
    BY <1>2 DEF TracingInv, Kept
  <2>2. Program # "old_pointer_tracing"
    BY <1>7 DEF Rings
  <2> QED
    BY <1>2, <1>3, <1>7, <1>17, <2>1, <2>2 DEF Kept
<1>19. Chained'
  <2>1. Linked(nodes)'
    BY <1>2, <1>8, LinkedKept DEF SameLists
  <2>2. ASSUME phase' = "free"
        PROVE  Freed(nodes)'
    <3>1. freeing'.j \in Lists
      BY <1>2, <2>2
    <3>2. CASE pos < listsLen[j]
      <4>1. freeing'.j = j /\ freeing'.node = nodes[j][pos + 1]
        BY <1>15, <3>2
      <4>2. pos + 1 \in 1 .. listsLen[j]
        BY <1>10, <1>11, <3>2
      <4> QED
        BY <1>3, <1>14, <1>16, <3>1, <4>1, <4>2 DEF Freed
    <3>3. CASE ~(pos < listsLen[j])
      <4>1. freeing'.j = j + 1 /\ j + 1 \in Lists /\ freeing'.node = nodes[j + 1][1]
        BY <1>11, <1>15, <3>1, <3>3
      <4>2. 1 \in 1 .. listsLen[j + 1]
        BY <1>11, <4>1
      <4>3. ASSUME NEW i \in Lists, NEW k \in 1 .. listsLen[i]
            PROVE  nodes[i][k] \in live' <=> (i > j + 1 \/ (i = j + 1 /\ k >= 1))
        <5>1. i \in Int /\ k \in Nat /\ k >= 1
          BY DEF Lists
        <5>2. i = j => ~(k >= pos + 1)
          BY <1>10, <1>11, <3>3
        <5> QED
          BY <1>10, <1>14, <5>1, <5>2
      <4> QED
        BY <1>3, <1>16, <4>1, <4>2, <4>3 DEF Freed
    <3> QED
      BY <3>2, <3>3
  <2> QED
    BY <1>3, <1>8, <2>1, <2>2 DEF Chained
<1> QED
  BY <1>4, <1>5, <1>6, <1>18, <1>19 DEF TracingInv

LEMMA StutterKeeps == ASSUME TracingInv, UNCHANGED tracingVars PROVE TracingInv'
<1>1. UNCHANGED <<args, procs, me, phase, head, allList, listsLen, listNumber, tofillLists,
                  mBitmap, next, live, mine, freeing>>
  BY DEF tracingVars, build
<1>2. Forked'
  BY <1>1, ForkedStep DEF TracingInv
<1>3. Closed'
  BY <1>1 DEF TracingInv, Closed, AllBound, Before, Nodes, Lists, Allocated, Program
<1>4. Kept'
  BY <1>1 DEF TracingInv, Kept, After, Nodes, Program, Tasks, Listing
<1>5. Filling'
  BY <1>1 DEF TracingInv, Filling, Before, Lists, Program, Listing, LIST_LEN
<1>6. Chained'
  BY <1>1, LinkedKept DEF TracingInv, Chained, Freed, SameLists, Before, Lists, Program,
                          Listing, Nodes, Ends
<1> QED
  BY <1>2, <1>3, <1>4, <1>5, <1>6 DEF TracingInv

LEMMA TracingInvStep == TracingInv /\ [TracingNext]_tracingVars => TracingInv'
<1> SUFFICES ASSUME TracingInv, [TracingNext]_tracingVars
             PROVE  TracingInv'
  OBVIOUS
<1>1. CASE ForkStep
  BY <1>1, ForkStepKeeps
<1>2. CASE BecomeProcess
  BY <1>2, BecomeProcessKeeps
<1>3. CASE BuildList
  BY <1>3, BuildListKeeps
<1>4. CASE BuildRings
  BY <1>4, BuildRingsKeeps
<1>5. CASE Shuffle
  BY <1>5, ShuffleKeeps
<1>6. CASE LinkRings
  BY <1>6, LinkRingsKeeps
<1>7. CASE StartTasks
  BY <1>7, StartTasksKeeps
<1>8. CASE \E t \in Tasks : StartTask(t) \/ ReadNode(t)
  BY <1>8, TaskKeeps
<1>9. CASE StartFreeing
  BY <1>9, StartFreeingKeeps
<1>10. CASE FreeNode
  BY <1>10, FreeNodeKeeps
<1>11. CASE UNCHANGED tracingVars \/ Ended
  BY <1>11, StutterKeeps DEF Ended
<1> QED
  BY <1>1, <1>2, <1>3, <1>4, <1>5, <1>6, <1>7, <1>8, <1>9, <1>10, <1>11 DEF TracingNext

\* The invariant is inductive.
THEOREM TracingInductive == TracingSpec => []TracingInv
<1> QED
  BY TracingInvInit, TracingInvStep, PTL DEF TracingSpec

\* The processes have shared the cores and LIST_LEN, however the forks went,
\* when all of them are bound.
THEOREM ProcessesAlwaysShare == TracingSpec => []ProcessesShare
<1>1. TracingInv => ProcessesShare
  BY ForkedShare DEF TracingInv
<1> QED
  BY <1>1, TracingInductive, PTL

------------------------------------------------------------------------------
\* A task is at a node that is allocated, destroyList() at one that it has not
\* freed; and what is left in the end is what the program does not free.
LEMMA FreedOnceHolds == TracingInv => FreedOnce
<1> SUFFICES ASSUME TracingInv
             PROVE  FreedOnce
  OBVIOUS
<1>1. Closed /\ Kept /\ Chained
  BY DEF TracingInv
<1>2. ASSUME phase = "free"
      PROVE  freeing.node \in live
  <2>1. Listing
    BY <1>1, <1>2 DEF Kept
  <2>2. PICK nodes \in [Lists -> Seq(Nodes)] : Linked(nodes) /\ Freed(nodes)
    BY <1>1, <1>2, <2>1 DEF Chained
  <2>3. PICK pos \in 1 .. listsLen[freeing.j] :
          /\ freeing.node = nodes[freeing.j][pos]
          /\ \A i \in Lists : \A k \in 1 .. listsLen[i] :
               nodes[i][k] \in live <=> (i > freeing.j \/ (i = freeing.j /\ k >= pos))
    BY <2>2 DEF Freed
  <2>4. freeing.j \in Lists
    BY <2>2 DEF Freed
  <2> QED
    BY <2>3, <2>4
<1>3. ASSUME NEW t \in Tasks, mine[t].at = "node"
      PROVE  mine[t].node \in live
  <2>1. phase = "run" /\ mine[t].node \in Nodes
    BY <1>1, <1>3 DEF Kept
  <2>2. live = IF Program = "pointer_tracing" THEN 0 .. args.TOTAL_DATA - 1 ELSE Nodes
    BY <1>1, <2>1 DEF Kept, After
  <2>3. Program = "pointer_tracing" => Nodes = 0 .. args.TOTAL_DATA - 1
    BY <1>1, <2>1 DEF Closed
  <2> QED
    BY <2>1, <2>2, <2>3
<1>4. ASSUME phase = "end"
      PROVE  live = IF Program = "old_pointer_tracing" THEN DOMAIN next ELSE {}
  BY <1>1, <1>4 DEF Kept, Nodes
<1> QED
  BY <1>2, <1>3, <1>4 DEF FreedOnce

\* Nothing is freed twice or read after it is freed, and only the nodes of
\* old_pointer_tracing are left, although the lists are freed while they are followed.
THEOREM AlwaysFreedOnce == TracingSpec => []FreedOnce
<1> QED
  BY FreedOnceHolds, TracingInductive, PTL

------------------------------------------------------------------------------
\* Walk goes a link further at each step, and stays at NULL.
Walks(w, node) ==
  /\ w \in [0 .. Allocated -> Nodes \cup {NULL}]
  /\ w[0] = node
  /\ \A k \in 1 .. Allocated : w[k] = IF w[k - 1] = NULL THEN NULL ELSE next[w[k - 1]]

LEMMA WalkUnfolds ==
  ASSUME Closed, NEW node \in Nodes \cup {NULL}
  PROVE  Walks(Walk(node), node)
<1>1. Allocated \in Nat /\ next \in [Nodes -> Nodes \cup {NULL}]
  BY DEF Closed
<1> DEFINE N == Allocated
           V == Nodes \cup {NULL}
           Further(n) == IF n = NULL THEN NULL ELSE next[n]
<1>2. \A n \in V : Further(n) \in V
  BY <1>1
<1>3. N \in Nat /\ node \in V
  BY <1>1
<1>4. Walk(node) = CHOOSE w : w = [k \in 0 .. N |-> IF k = 0 THEN node ELSE Further(w[k - 1])]
  BY DEF Walk, Allocated
<1> HIDE DEF N, V, Further
<1>5. PICK step : step = [p \in (1 .. N) \X V |-> Further(p[2])]
  OBVIOUS
<1>6. step \in [(1 .. N) \X V -> V]
  BY <1>2, <1>5
<1>7. PICK f \in [0 .. N -> V] : Unfolds(N, node, step, f)
  <2>1. StepsIn(N, V, node, step)
    BY <1>3, <1>6 DEF StepsIn
  <2> QED
    BY <2>1, RecursionUpTo
<1>8. f[0] = node
  BY <1>3, <1>7 DEF Unfolds
<1>9. ASSUME NEW n \in 1 .. N
      PROVE  f[n] = Further(f[n - 1])
  <2>1. n \in 0 .. N /\ n # 0 /\ n - 1 \in 0 .. N
    BY <1>3
  <2>2. f[n] = step[<<n, f[n - 1]>>]
    BY <1>7, <2>1 DEF Unfolds
  <2>3. <<n, f[n - 1]>> \in (1 .. N) \X V
    BY <1>7, <2>1
  <2> QED
    BY <1>5, <2>2, <2>3
<1>10. f = [k \in 0 .. N |-> IF k = 0 THEN node ELSE Further(f[k - 1])]
  <2>1. f = [n \in 0 .. N |-> f[n]]
    BY <1>7
  <2>2. \A n \in 0 .. N : n # 0 => n \in 1 .. N
    BY <1>3
  <2> QED
    BY <1>8, <1>9, <2>1, <2>2
<1>11. PICK w : w = Walk(node)
  OBVIOUS
<1>12. w = [k \in 0 .. N |-> IF k = 0 THEN node ELSE Further(w[k - 1])]
  BY <1>4, <1>10, <1>11
<1>13. w = f
  <2>1. /\ f = [n \in 0 .. N |-> f[n]] /\ w = [n \in 0 .. N |-> w[n]]
        /\ w[0] = f[0]
    BY <1>3, <1>7, <1>8, <1>12
  <2>2. ASSUME NEW n \in 1 .. N, w[n - 1] = f[n - 1]
        PROVE  w[n] = f[n]
    <3>1. n \in 0 .. N /\ n # 0
      BY <1>3
    <3>2. w[n] = Further(w[n - 1])
      BY <1>12, <3>1
    <3> QED
      BY <1>9, <2>2, <3>2
  <2>3. AgreeStepwise(N, w, f)
    BY <1>3, <2>1, <2>2 DEF AgreeStepwise
  <2> QED
    BY <2>3, SameUpTo
<1> QED
  BY <1>7, <1>8, <1>9, <1>11, <1>13 DEF Walks, N, V, Further

\* Nodes that differ are not more than there are.
NoneTwice(s) == \A k, l \in 1 .. Len(s) : s[k] = s[l] => k = l

LEMMA NodesFit ==
  ASSUME Closed, NEW s \in Seq(Nodes), NoneTwice(s)
  PROVE  Len(s) \in 0 .. Allocated
<1>1. Len(s) \in Nat /\ s \in [1 .. Len(s) -> Nodes]
  OBVIOUS
<1>2. \A k, l \in 1 .. Len(s) : s[k] = s[l] => k = l
  BY DEF NoneTwice
<1> DEFINE n == Len(s)
           m == Allocated
<1>3. n \in Nat /\ s \in Injection(1 .. n, Nodes)
  BY <1>1, <1>2 DEF Injection, IsInjective
<1>4. m \in Nat /\ Nodes = 0 .. m - 1
  BY DEF Closed
<1>5. IsFiniteSet(Nodes) /\ Cardinality(Nodes) = m
  <2> HIDE DEF m
  <2>1. m - 1 \in Int /\ (0 > m - 1 => m = 0) /\ (m - 1) - 0 + 1 = m
    BY <1>4
  <2>2. PICK e \in Int : e = m - 1
    BY <2>1
  <2>3. IsFiniteSet(0 .. e) /\ Cardinality(0 .. e) = IF 0 > e THEN 0 ELSE e - 0 + 1
    BY FS_Interval
  <2> QED
    BY <1>4, <2>1, <2>2, <2>3
<1> HIDE DEF n, m
<1>6. Cardinality(1 .. n) = n
  <2>1. n \in Int /\ 1 \in Int /\ (1 > n => n = 0) /\ n - 1 + 1 = n
    BY <1>3
  <2>2. Cardinality(1 .. n) = IF 1 > n THEN 0 ELSE n - 1 + 1
    BY <2>1, FS_Interval
  <2> QED
    BY <2>1, <2>2
<1>7. Cardinality(1 .. n) <= Cardinality(Nodes)
  BY <1>3, <1>5, FS_Injection
<1>8. n \in 0 .. m
  BY <1>3, <1>4, <1>5, <1>6, <1>7
<1> QED
  BY <1>8 DEF n, m

\* Links that lead from node through s, and from its last either nowhere or back.
LeadThrough(node, s) ==
  /\ node = IF Len(s) = 0 THEN NULL ELSE s[1]
  /\ \A k \in 1 .. Len(s) : k < Len(s) => next[s[k]] = s[k + 1]
  /\ Len(s) # 0 => next[s[Len(s)]] \in {NULL, s[1]}

LEMMA ChainIs ==
  ASSUME Closed, NEW s \in Seq(Nodes), NoneTwice(s), NEW node, LeadThrough(node, s)
  PROVE  Chain(node) = s
<1> DEFINE L == Len(s)
           m == Allocated
<1>1. m \in Nat /\ L \in 0 .. m
  BY NodesFit DEF Closed
<1>2. \A k \in 1 .. L : s[k] \in Nodes /\ s[k] # NULL
  <2>1. \A n \in Nodes : n # NULL
    BY DEF Closed, NULL
  <2> QED
    BY <2>1
<1>3. /\ node = IF L = 0 THEN NULL ELSE s[1]
      /\ \A k \in 1 .. L : k < L => next[s[k]] = s[k + 1]
      /\ L # 0 => next[s[L]] \in {NULL, s[1]}
      /\ \A k, l \in 1 .. L : s[k] = s[l] => k = l
  BY DEF LeadThrough, NoneTwice
<1>4. node \in Nodes \cup {NULL}
  BY <1>1, <1>2, <1>3
<1>5. PICK w : w = Walk(node)
  OBVIOUS
<1>6. Walks(w, node)
  BY <1>4, <1>5, WalkUnfolds
<1>7. /\ w[0] = node
      /\ \A k \in 1 .. m : w[k] = IF w[k - 1] = NULL THEN NULL ELSE next[w[k - 1]]
      /\ DOMAIN w = 0 .. m
  BY <1>6 DEF Walks
<1>8. s = [k \in 1 .. L |-> s[k]]
  BY LenProperties
<1> HIDE DEF L, m
<1>9. PICK S : S = {k \in 0 .. m : k < L => w[k] = s[k + 1]}
  OBVIOUS
<1>10. 0 .. m \subseteq S
  <2>1. 0 \in S
    BY <1>1, <1>3, <1>7, <1>9
  <2>2. ASSUME NEW k \in 1 .. m, k - 1 \in S
        PROVE  k \in S
    <3> SUFFICES ASSUME k < L
                 PROVE  w[k] = s[k + 1]
      BY <1>1, <1>9
    <3>1. k \in 1 .. L /\ k - 1 < L /\ (k - 1) + 1 = k
      BY <1>1
    <3>2. w[k - 1] = s[k] /\ s[k] # NULL
      BY <1>2, <1>9, <2>2, <3>1
    <3> QED
      BY <1>3, <1>7, <3>1, <3>2
  <2> QED
    BY <1>1, <2>1, <2>2, UpTo
<1>11. \A k \in 0 .. m : k < L => w[k] = s[k + 1]
  BY <1>9, <1>10
<1> DEFINE Over(k) == w[k] = NULL \/ \E j \in 0 .. k - 1 : w[j] = w[k]
           Is(k) == Over(k) /\ \A j \in 0 .. k - 1 : ~Over(j)
<1>12. \A k \in 0 .. L - 1 : ~Over(k)
  <2> SUFFICES ASSUME NEW k \in 0 .. L - 1
               PROVE  ~Over(k)
    OBVIOUS
  <2>1. k \in 0 .. m /\ k < L /\ k + 1 \in 1 .. L
    BY <1>1
  <2>2. w[k] = s[k + 1] /\ w[k] # NULL
    BY <1>2, <1>11, <2>1
  <2>3. ASSUME NEW j \in 0 .. k - 1
        PROVE  w[j] # w[k]
    <3>1. j \in 0 .. m /\ j < L /\ j + 1 \in 1 .. L /\ j + 1 # k + 1
      BY <1>1, <2>1
    <3>2. w[j] = s[j + 1]
      BY <1>11, <3>1
    <3> QED
      BY <1>3, <2>1, <2>2, <3>1, <3>2
  <2> QED
    BY <2>2, <2>3
<1>13. L \in 0 .. m /\ Over(L)
  <2>1. CASE L = 0
    BY <1>1, <1>3, <1>7, <2>1
  <2>2. CASE L # 0
    <3>1. L \in 1 .. m /\ L \in 1 .. L /\ L - 1 \in 0 .. m /\ L - 1 < L /\ (L - 1) + 1 = L
          /\ 0 \in 0 .. L - 1 /\ 0 \in 0 .. m /\ 0 < L
      BY <1>1, <2>2
    <3>2. w[L - 1] = s[L] /\ s[L] # NULL /\ w[0] = s[0 + 1]
      BY <1>2, <1>11, <3>1
    <3>3. w[L] \in {NULL, s[1]}
      BY <1>3, <1>7, <2>2, <3>1, <3>2
    <3> QED
      BY <1>1, <3>1, <3>2, <3>3
  <2> QED
    BY <2>1, <2>2
<1>14. PICK n : n = CHOOSE k \in DOMAIN w : Is(k)
  OBVIOUS
<1>15. Chain(node) = [k \in 1 .. n |-> w[k - 1]]
  BY <1>5, <1>14 DEF Chain
<1>16. n = L
  <2>1. L \in DOMAIN w /\ Is(L)
    BY <1>7, <1>12, <1>13
  <2>2. n \in DOMAIN w /\ Is(n)
    <3> HIDE DEF Is
    <3> QED
      BY <1>14, <2>1
  <2>3. n \in 0 .. m
    BY <1>7, <2>2
  <2>4. ~(n < L)
    <3>1. n < L => n \in 0 .. L - 1
      BY <1>1, <2>3
    <3> HIDE DEF Over
    <3> QED
      BY <1>12, <2>2, <3>1
  <2>5. ~(L < n)
    <3>1. L < n => L \in 0 .. n - 1
      BY <1>1, <2>3
    <3> HIDE DEF Over
    <3> QED
      BY <1>13, <2>2, <3>1
  <2> QED
    BY <1>1, <2>3, <2>4, <2>5
<1>17. \A k \in 1 .. L : w[k - 1] = s[k]
  <2> SUFFICES ASSUME NEW k \in 1 .. L
               PROVE  w[k - 1] = s[k]
    OBVIOUS
  <2>1. k - 1 \in 0 .. m /\ k - 1 < L /\ (k - 1) + 1 = k
    BY <1>1
  <2> QED
    BY <1>11, <2>1
<1>18. [k \in 1 .. n |-> w[k - 1]] = [k \in 1 .. L |-> s[k]]
  BY <1>16, <1>17
<1> QED
  BY <1>8, <1>15, <1>18

\* So Chain(head[i]) are the nodes of list i.
LEMMA ChainOfList ==
  ASSUME Closed, NEW nodes \in [Lists -> Seq(Nodes)], Linked(nodes), NEW i \in Lists
  PROVE  Chain(head[i]) = nodes[i]
<1>1. PICK s \in Seq(Nodes) : s = nodes[i]
  OBVIOUS
<1>2. /\ Len(s) = listsLen[i]
      /\ head[i] = IF Len(s) = 0 THEN NULL ELSE s[1]
      /\ \A k \in 1 .. Len(s) : next[s[k]] = IF k < Len(s) THEN s[k + 1] ELSE NULL
  BY <1>1, ListLinked
<1>3. NoneTwice(s)
  <2> SUFFICES ASSUME NEW k \in 1 .. listsLen[i], NEW l \in 1 .. listsLen[i],
                      nodes[i][k] = nodes[i][l]
               PROVE  k = l
    BY <1>1, <1>2 DEF NoneTwice
  <2> QED
    BY OnePlaceOnly
<1>4. LeadThrough(head[i], s)
  <2>1. Len(s) # 0 => Len(s) \in 1 .. Len(s) /\ ~(Len(s) < Len(s))
    OBVIOUS
  <2> QED
    BY <1>2, <2>1 DEF LeadThrough
<1> QED
  BY <1>1, <1>3, <1>4, ChainIs

\* A list is once among those that are not full, or not at all.
LEMMA ToFillOnce ==
  ASSUME TracingInv, phase = "build", Listing, NEW i \in Lists
  PROVE  /\ listsLen[i] <= LIST_LEN
         /\ Cardinality({k \in 0 .. tofillLists - 1 : listNumber[k] = i}) =
              (IF listsLen[i] < LIST_LEN THEN 1 ELSE 0)
<1>1. /\ \A k, l \in 0 .. tofillLists - 1 : k # l => listNumber[k] # listNumber[l]
      /\ listsLen[i] <= LIST_LEN
      /\ listsLen[i] < LIST_LEN <=> \E k \in 0 .. tofillLists - 1 : listNumber[k] = i
  BY DEF TracingInv, Filling
<1> DEFINE P == {k \in 0 .. tofillLists - 1 : listNumber[k] = i}
<1>2. CASE listsLen[i] < LIST_LEN
  <2>1. PICK k \in 0 .. tofillLists - 1 : listNumber[k] = i
    BY <1>1, <1>2
  <2>2. P = {k}
    BY <1>1, <2>1
  <2> QED
    BY <1>1, <1>2, <2>2, FS_Singleton
<1>3. CASE ~(listsLen[i] < LIST_LEN)
  <2>1. P = {}
    BY <1>1, <1>3
  <2> QED
    BY <1>1, <1>3, <2>1, FS_EmptySet
<1> QED
  BY <1>2, <1>3

LEMMA ListsFillHolds == TracingInv => ListsFill
<1> SUFFICES ASSUME TracingInv, phase = "build", Program \notin Rings
             PROVE  /\ \A i \in Lists :
                         /\ Len(Chain(head[i])) = listsLen[i]
                         /\ head[i] # NULL => Last(Chain(head[i])) = allList[i]
                         /\ listsLen[i] <= LIST_LEN
                         /\ Cardinality({k \in 0 .. tofillLists - 1 : listNumber[k] = i}) =
                              (IF listsLen[i] < LIST_LEN THEN 1 ELSE 0)
                    /\ \A n \in DOMAIN next : \E i \in Lists :
                         \A j \in Lists : Contains(Chain(head[j]), n) <=> j = i
  BY DEF ListsFill
<1>1. Closed /\ Chained /\ Listing
  BY DEF TracingInv, Closed, Listing
<1>2. PICK nodes \in [Lists -> Seq(Nodes)] : Linked(nodes) /\ Ends(nodes)
  BY <1>1 DEF Chained, Before
<1>3. \A i \in Lists : Chain(head[i]) = nodes[i] /\ Len(nodes[i]) = listsLen[i]
  <2>1. \A i \in Lists : Chain(head[i]) = nodes[i]
    BY <1>1, <1>2, ChainOfList
  <2> QED
    BY <1>2, <2>1 DEF Linked
<1>4. ASSUME NEW i \in Lists, head[i] # NULL
      PROVE  Last(nodes[i]) = allList[i]
  <2>1. listsLen[i] # 0
    BY <1>2, <1>4 DEF Linked
  <2> QED
    BY <1>2, <1>3, <2>1 DEF Ends, Last
<1>5. ASSUME NEW n \in DOMAIN next
      PROVE  \E i \in Lists : \A j \in Lists : Contains(nodes[j], n) <=> j = i
  <2>1. PICK i \in Lists : \E k \in 1 .. listsLen[i] : nodes[i][k] = n
    BY <1>2, <1>5 DEF Linked, Nodes
  <2>2. PICK k \in 1 .. listsLen[i] : nodes[i][k] = n
    BY <2>1
  <2>3. \A j \in Lists : (\E l \in 1 .. listsLen[j] : nodes[j][l] = n) => j = i
    BY <1>2, <2>2, OnePlaceOnly
  <2>4. \A j \in Lists : Contains(nodes[j], n) <=> \E l \in 1 .. listsLen[j] : nodes[j][l] = n
    BY <1>3 DEF Contains
  <2> QED
    BY <2>2, <2>3, <2>4
<1>6. \A i \in Lists :
        /\ listsLen[i] <= LIST_LEN
        /\ Cardinality({k \in 0 .. tofillLists - 1 : listNumber[k] = i}) =
             (IF listsLen[i] < LIST_LEN THEN 1 ELSE 0)
  BY <1>1, ToFillOnce
<1> QED
  BY <1>3, <1>4, <1>5, <1>6

\* While buildList() works, every node is in one list, the links of a list are
\* its nodes up to allList, and the lists that are not full stand once each in
\* the first tofillLists of listNumber.
THEOREM ListsAlwaysFill == TracingSpec => []ListsFill
<1> QED
  BY ListsFillHolds, TracingInductive, PTL

------------------------------------------------------------------------------
\* The lists of a task, their nodes, and those of them that stand before the
\* m-th node of list j.
ShareOf(t) ==
  First(args.TOTAL_LISTS, args.CORO_NUM, t) .. Past(args.TOTAL_LISTS, args.CORO_NUM, t) - 1
Own(nodes, t) ==
  {n \in Nodes : \E i \in ShareOf(t) : \E k \in 1 .. listsLen[i] : n = nodes[i][k]}
Under(nodes, t, j, m) ==
  {n \in Nodes : \E i \in ShareOf(t) : \E k \in 1 .. listsLen[i] :
                   n = nodes[i][k] /\ (i < j \/ (i = j /\ k < m))}

LEMMA ShareFacts ==
  ASSUME TracingInv, Listing
  PROVE  /\ Rounds \in Nat /\ Program \notin Rings
         /\ \A t \in Tasks : ShareOf(t) \subseteq Lists
         /\ \A l \in Lists : \E t \in Tasks : l \in ShareOf(t)
         /\ \A t, u \in Tasks : t # u => ShareOf(t) \cap ShareOf(u) = {}
<1>1. args \in Commands /\ args \in Command
  BY CommandGiven DEF TracingInv, Forked
<1>2. /\ args.TOTAL_LISTS \in Nat /\ args.CORO_NUM \in Nat \ {0} /\ Program \notin Rings
      /\ args.REPEAT_TIMES \in Nat
  <2>1. args.REPEAT_TIMES \in Nat
    BY <1>1 DEF Command
  <2> QED
    BY <1>1, <2>1, ArgumentsGiven
<1>3. Tasks = 0 .. args.CORO_NUM - 1 /\ Lists = 0 .. args.TOTAL_LISTS - 1 /\ Rounds \in Nat
  BY <1>2 DEF Tasks, Lists, Rounds
<1>4. \A t \in 0 .. args.CORO_NUM - 1 : ShareOf(t) \subseteq Lists
  <2> SUFFICES ASSUME NEW t \in 0 .. args.CORO_NUM - 1
               PROVE  ShareOf(t) \subseteq Lists
    OBVIOUS
  <2>1. /\ First(args.TOTAL_LISTS, args.CORO_NUM, t) \in Nat
        /\ Past(args.TOTAL_LISTS, args.CORO_NUM, t) \in 0 .. args.TOTAL_LISTS
    BY <1>2, SharesCover
  <2> QED
    BY <1>2, <1>3, <2>1 DEF ShareOf
<1>5. \A l \in 0 .. args.TOTAL_LISTS - 1 : \E t \in 0 .. args.CORO_NUM - 1 : l \in ShareOf(t)
  BY <1>2, SharesCover DEF ShareOf
<1>6. \A t, u \in 0 .. args.CORO_NUM - 1 : t # u => ShareOf(t) \cap ShareOf(u) = {}
  BY <1>2, SharesAreDisjoint DEF ShareOf
<1> QED
  BY <1>2, <1>3, <1>4, <1>5, <1>6

\* What a node is, the lists being laid out as nodes.
Laid(nodes) == nodes \in [Lists -> Seq(Nodes)] /\ Linked(nodes)

LEMMA LaidFacts ==
  ASSUME TracingInv, Listing, NEW nodes, Laid(nodes), NEW j \in Lists
  PROVE  /\ j \in Nat /\ listsLen[j] \in Nat
         /\ \A m \in 1 .. listsLen[j] : nodes[j][m] \in Nodes /\ nodes[j][m] # NULL
         /\ head[j] = NULL <=> listsLen[j] = 0
         /\ head[j] # NULL => 1 \in 1 .. listsLen[j] /\ head[j] = nodes[j][1]
<1>1. j \in Nat
  BY ArgumentsGiven DEF TracingInv, Forked, Lists
<1>2. listsLen[j] \in Nat
  BY DEF TracingInv, Filling
<1>3. nodes[j] \in Seq(Nodes) /\ Len(nodes[j]) = listsLen[j]
  BY ListLinked DEF Laid
<1>4. head[j] = IF listsLen[j] = 0 THEN NULL ELSE nodes[j][1]
  BY ListLinked DEF Laid
<1>5. \A n \in Nodes : n # NULL
  BY DEF TracingInv, Closed, NULL
<1>6. \A m \in 1 .. listsLen[j] : nodes[j][m] \in Nodes
  BY <1>3, ElementOfSeq
<1>7. listsLen[j] # 0 => 1 \in 1 .. listsLen[j]
  BY <1>2
<1> QED
  BY <1>1, <1>2, <1>4, <1>5, <1>6, <1>7

\* What stands before the next node of a list is this node, too.
LEMMA UnderNext ==
  ASSUME TracingInv, Listing, NEW nodes, Laid(nodes), NEW t \in Tasks, NEW j \in ShareOf(t),
         NEW m \in 1 .. listsLen[j]
  PROVE  /\ Under(nodes, t, j, m + 1) = Under(nodes, t, j, m) \cup {nodes[j][m]}
         /\ nodes[j][m] \notin Under(nodes, t, j, m)
<1>1. ShareOf(t) \subseteq Lists /\ j \in Lists
  BY ShareFacts
<1>2. nodes[j][m] \in Nodes /\ listsLen[j] \in Nat /\ j \in Nat
  BY <1>1, LaidFacts
<1>3. ASSUME NEW i \in ShareOf(t), NEW k \in 1 .. listsLen[i], nodes[j][m] = nodes[i][k]
      PROVE  i = j /\ k = m
  BY <1>1, <1>3, OnePlaceOnly DEF Laid
<1>4. nodes[j][m] \notin Under(nodes, t, j, m)
  <2> SUFFICES ASSUME nodes[j][m] \in Under(nodes, t, j, m)
               PROVE  FALSE
    OBVIOUS
  <2>1. PICK i \in ShareOf(t) : \E k \in 1 .. listsLen[i] :
          nodes[j][m] = nodes[i][k] /\ (i < j \/ (i = j /\ k < m))
    BY DEF Under
  <2>2. PICK k \in 1 .. listsLen[i] : nodes[j][m] = nodes[i][k] /\ (i < j \/ (i = j /\ k < m))
    BY <2>1
  <2>3. i = j /\ k = m
    BY <1>3, <2>2
  <2> QED
    BY <1>2, <2>2, <2>3
<1>5. \A i \in ShareOf(t) : \A k \in 1 .. listsLen[i] :
        (i < j \/ (i = j /\ k < m + 1)) <=> ((i < j \/ (i = j /\ k < m)) \/ (i = j /\ k = m))
  <2>1. \A i \in ShareOf(t) : listsLen[i] \in Nat
    BY <1>1, LaidFacts
  <2> QED
    BY <2>1
<1>6. Under(nodes, t, j, m + 1) \subseteq Under(nodes, t, j, m) \cup {nodes[j][m]}
  BY <1>5 DEF Under
<1>7. Under(nodes, t, j, m) \cup {nodes[j][m]} \subseteq Under(nodes, t, j, m + 1)
  <2>1. Under(nodes, t, j, m) \subseteq Under(nodes, t, j, m + 1)
    BY <1>5 DEF Under
  <2>2. nodes[j][m] \in Under(nodes, t, j, m + 1)
    BY <1>2, <1>5 DEF Under
  <2> QED
    BY <2>1, <2>2
<1> QED
  BY <1>4, <1>6, <1>7

\* What stands before the first node of a list is the lists before it: none of them,
\* the same for two lists between which there are no nodes, or all.
NoneIn(t, a, b) == \A i \in ShareOf(t) : head[i] = NULL \/ i < a \/ b <= i

LEMMA UnderLists ==
  ASSUME TracingInv, Listing, NEW nodes, Laid(nodes), NEW t \in Tasks,
         NEW a \in Int, NEW b \in Int, a <= b
  PROVE  /\ (\A i \in ShareOf(t) : head[i] = NULL \/ a <= i) => Under(nodes, t, a, 1) = {}
         /\ NoneIn(t, a, b) => Under(nodes, t, a, 1) = Under(nodes, t, b, 1)
         /\ (\A i \in ShareOf(t) : head[i] = NULL \/ i < a) =>
              Under(nodes, t, a, 1) = Own(nodes, t)
         /\ (\A i \in ShareOf(t) : head[i] = NULL) => Own(nodes, t) = {}
<1>1. ShareOf(t) \subseteq Lists
  BY ShareFacts
<1>2. \A i \in ShareOf(t) : i \in Nat /\ listsLen[i] \in Nat /\ (head[i] = NULL <=> listsLen[i] = 0)
  BY <1>1, LaidFacts
<1>3. \A i \in ShareOf(t) : \A k \in 1 .. listsLen[i] : head[i] # NULL /\ ~(k < 1)
  BY <1>2
<1>4. \A c : Under(nodes, t, c, 1) =
        {n \in Nodes : \E i \in ShareOf(t) : \E k \in 1 .. listsLen[i] :
                         n = nodes[i][k] /\ i < c}
  BY <1>3 DEF Under
<1>5. ASSUME \A i \in ShareOf(t) : head[i] = NULL \/ a <= i
      PROVE  Under(nodes, t, a, 1) = {}
  <2>1. \A i \in ShareOf(t) : \A k \in 1 .. listsLen[i] : ~(i < a)
    BY <1>2, <1>3, <1>5
  <2> QED
    BY <1>4, <2>1
<1>6. ASSUME NoneIn(t, a, b)
      PROVE  Under(nodes, t, a, 1) = Under(nodes, t, b, 1)
  <2>1. \A i \in ShareOf(t) : \A k \in 1 .. listsLen[i] : i < a <=> i < b
    BY <1>2, <1>3, <1>6 DEF NoneIn
  <2> QED
    BY <1>4, <2>1
<1>7. ASSUME \A i \in ShareOf(t) : head[i] = NULL \/ i < a
      PROVE  Under(nodes, t, a, 1) = Own(nodes, t)
  <2>1. \A i \in ShareOf(t) : \A k \in 1 .. listsLen[i] : i < a
    BY <1>3, <1>7
  <2> QED
    BY <1>4, <2>1 DEF Own
<1>8. ASSUME \A i \in ShareOf(t) : head[i] = NULL
      PROVE  Own(nodes, t) = {}
  BY <1>3, <1>8 DEF Own
<1> QED
  BY <1>5, <1>6, <1>7, <1>8

\* Having come to the end of a list, a task has made what stands before the list after it.
LEMMA UnderAll ==
  ASSUME TracingInv, Listing, NEW nodes, Laid(nodes), NEW t \in Tasks, NEW j \in ShareOf(t)
  PROVE  Under(nodes, t, j, listsLen[j] + 1) = Under(nodes, t, j + 1, 1)
<1>1. ShareOf(t) \subseteq Lists
  BY ShareFacts
<1>2. \A i \in ShareOf(t) : i \in Nat /\ listsLen[i] \in Nat
  BY <1>1, LaidFacts
<1>3. \A i \in ShareOf(t) : \A k \in 1 .. listsLen[i] :
        (i < j \/ (i = j /\ k < listsLen[j] + 1)) <=> (i < j + 1 \/ (i = j + 1 /\ k < 1))
  <2> SUFFICES ASSUME NEW i \in ShareOf(t), NEW k \in 1 .. listsLen[i]
               PROVE  (i < j \/ (i = j /\ k < listsLen[j] + 1)) <=>
                        (i < j + 1 \/ (i = j + 1 /\ k < 1))
    OBVIOUS
  <2>1. i \in Nat /\ j \in Nat /\ listsLen[i] \in Nat /\ listsLen[j] \in Nat
    BY <1>2
  <2> QED
    BY <2>1
<1> QED
  BY <1>3 DEF Under

------------------------------------------------------------------------------
\* Where a task goes that has made S of its nodes in round i: to the first node that
\* it has not made, in this round or the next, or to its end.
GoesOn(nodes, t, place, i, S) ==
  IF place.node = NULL
  THEN \/ S = Own(nodes, t) /\ (i + 1 = Rounds \/ Own(nodes, t) = {})
       \/ S = {} /\ i = 0 /\ Rounds = 0
  ELSE /\ place.j \in ShareOf(t)
       /\ \E m \in 1 .. listsLen[place.j] :
            /\ place.node = nodes[place.j][m]
            /\ \/ place.i = i /\ i < Rounds /\ Under(nodes, t, place.j, m) = S
               \/ /\ place.i = i + 1 /\ i + 1 < Rounds
                  /\ Under(nodes, t, place.j, m) = {} /\ S = Own(nodes, t)

LEMMA NextListGoesOn ==
  ASSUME TracingInv, Listing, NEW nodes, Laid(nodes), NEW t \in Tasks, NEW i \in Nat,
         NEW j \in Nat \cup {-1}, i < Rounds \/ (i = 0 /\ j = -1)
  PROVE  GoesOn(nodes, t, NextList(t, i, j), i, Under(nodes, t, j + 1, 1))
<1> DEFINE share == {l \in ShareOf(t) : head[l] # NULL}
           later == {l \in share : l > j}
<1>1. NextList(t, i, j) = IF i < Rounds /\ later # {} THEN Place(i, Min(later), head[Min(later)])
                          ELSE IF i + 1 < Rounds /\ share # {}
                               THEN Place(i + 1, Min(share), head[Min(share)])
                               ELSE Place(i, j, NULL)
  BY DEF NextList, ShareOf
<1>2. Rounds \in Nat /\ ShareOf(t) \subseteq Lists
  BY ShareFacts
<1>3. \A l \in ShareOf(t) : l \in Nat
  BY <1>2, LaidFacts
<1>4. \A l \in ShareOf(t) : head[l] # NULL =>
        1 \in 1 .. listsLen[l] /\ head[l] = nodes[l][1]
  BY <1>2, LaidFacts
<1>5. CASE i < Rounds /\ later # {}
  <2>1. PICK l : l = Min(later)
    OBVIOUS
  <2>2. l \in later /\ \A k \in later : l <= k
    <3>1. \E x \in later : \A y \in later : x <= y
      BY <1>3, <1>5, LeastNumber
    <3> QED
      BY <2>1, <3>1 DEF Min
  <2>3. PICK place : place = Place(i, l, head[l])
    OBVIOUS
  <2>4. NextList(t, i, j) = place
    BY <1>1, <1>5, <2>1, <2>3
  <2>5. place.i = i /\ place.j = l /\ place.node = head[l] /\ head[l] # NULL
        /\ l \in ShareOf(t) /\ l > j /\ l \in Nat
    BY <1>3, <2>2, <2>3 DEF Place
  <2>6. NoneIn(t, j + 1, l)
    BY <1>3, <2>2, <2>5 DEF NoneIn
  <2>7. Under(nodes, t, j + 1, 1) = Under(nodes, t, l, 1)
    BY <2>5, <2>6, UnderLists
  <2> QED
    BY <1>4, <1>5, <2>4, <2>5, <2>7 DEF GoesOn
<1>6. CASE ~(i < Rounds /\ later # {}) /\ i + 1 < Rounds /\ share # {}
  <2>1. PICK l : l = Min(share)
    OBVIOUS
  <2>2. l \in share /\ \A k \in share : l <= k
    <3>1. \E x \in share : \A y \in share : x <= y
      BY <1>3, <1>6, LeastNumber
    <3> QED
      BY <2>1, <3>1 DEF Min
  <2>3. PICK place : place = Place(i + 1, l, head[l])
    OBVIOUS
  <2>4. NextList(t, i, j) = place
    BY <1>1, <1>6, <2>1, <2>3
  <2>5. place.i = i + 1 /\ place.j = l /\ place.node = head[l] /\ head[l] # NULL
        /\ l \in ShareOf(t) /\ l \in Nat
    BY <1>3, <2>2, <2>3 DEF Place
  <2>6. \A k \in ShareOf(t) : head[k] = NULL \/ l <= k
    BY <2>2
  <2>7. Under(nodes, t, l, 1) = {}
    BY <2>5, <2>6, UnderLists
  <2>8. later = {}
    BY <1>2, <1>6
  <2>9. \A k \in ShareOf(t) : head[k] = NULL \/ k < j + 1
    BY <1>3, <2>8
  <2>10. Under(nodes, t, j + 1, 1) = Own(nodes, t)
    BY <2>9, UnderLists
  <2> QED
    BY <1>4, <1>6, <2>4, <2>5, <2>7, <2>10 DEF GoesOn
<1>7. CASE ~(i < Rounds /\ later # {}) /\ ~(i + 1 < Rounds /\ share # {})
  <2>1. NextList(t, i, j).node = NULL
    BY <1>1, <1>7 DEF Place
  <2>2. CASE Rounds = 0
    <3>1. i = 0 /\ j + 1 = 0
      BY <2>2
    <3>2. Under(nodes, t, 0, 1) = {}
      BY <1>3, UnderLists
    <3> QED
      BY <2>1, <2>2, <3>1, <3>2 DEF GoesOn
  <2>3. CASE Rounds # 0
    <3>1. i < Rounds /\ later = {}
      BY <1>2, <1>7, <2>3
    <3>2. \A k \in ShareOf(t) : head[k] = NULL \/ k < j + 1
      BY <1>3, <3>1
    <3>3. Under(nodes, t, j + 1, 1) = Own(nodes, t)
      BY <3>2, UnderLists
    <3>4. i + 1 = Rounds \/ share = {}
      BY <1>2, <1>7, <3>1
    <3>5. share = {} => Own(nodes, t) = {}
      BY UnderLists
    <3> QED
      BY <2>1, <3>3, <3>4, <3>5 DEF GoesOn
  <2> QED
    BY <2>2, <2>3
<1> QED
  BY <1>5, <1>6, <1>7

LEMMA FirstGoesOn ==
  ASSUME TracingInv, Listing, NEW nodes, Laid(nodes), NEW t \in Tasks
  PROVE  GoesOn(nodes, t, FirstPlace(t), 0, {})
<1>1. FirstPlace(t) = NextList(t, 0, -1)
  BY ShareFacts DEF FirstPlace, Rings, NULL
<1>2. Under(nodes, t, 0, 1) = {}
  <2>1. \A l \in ShareOf(t) : l \in Nat
    BY ShareFacts, LaidFacts
  <2> QED
    BY <2>1, UnderLists
<1>3. GoesOn(nodes, t, NextList(t, 0, -1), 0, Under(nodes, t, -1 + 1, 1))
  BY NextListGoesOn
<1> QED
  BY <1>1, <1>2, <1>3

LEMMA NextGoesOn ==
  ASSUME TracingInv, Listing, NEW nodes, Laid(nodes), NEW t \in Tasks, NEW i \in Nat,
         i < Rounds, NEW j \in ShareOf(t), NEW m \in 1 .. listsLen[j]
  PROVE  GoesOn(nodes, t, NextPlace(t, i, j, nodes[j][m]), i,
                Under(nodes, t, j, m) \cup {nodes[j][m]})
<1>1. j \in Lists /\ j \in Nat /\ listsLen[j] \in Nat
  BY ShareFacts, LaidFacts
<1>2. PICK node : node = nodes[j][m]
  OBVIOUS
<1>3. NextPlace(t, i, j, node) = NextInList(t, i, j, node)
  BY ShareFacts DEF NextPlace, Rings
<1>4. next[node] = IF m < listsLen[j] THEN nodes[j][m + 1] ELSE NULL
  BY <1>1, <1>2, ListLinked DEF Laid
<1>5. Under(nodes, t, j, m) \cup {node} = Under(nodes, t, j, m + 1)
  BY <1>2, UnderNext
<1>6. CASE m < listsLen[j]
  <2>1. m + 1 \in 1 .. listsLen[j] /\ nodes[j][m + 1] # NULL
    BY <1>1, <1>6, LaidFacts
  <2>2. PICK place : place = Place(i, j, nodes[j][m + 1])
    OBVIOUS
  <2>3. NextPlace(t, i, j, node) = place
    BY <1>3, <1>4, <1>6, <2>1, <2>2 DEF NextInList
  <2>4. place.i = i /\ place.j = j /\ place.node = nodes[j][m + 1]
    BY <2>2 DEF Place
  <2>5. GoesOn(nodes, t, place, i, Under(nodes, t, j, m + 1))
    BY <2>1, <2>4 DEF GoesOn
  <2> QED
    BY <1>2, <1>5, <2>3, <2>5
<1>7. CASE ~(m < listsLen[j])
  <2>1. m = listsLen[j]
    BY <1>1, <1>7
  <2>2. NextPlace(t, i, j, node) = NextList(t, i, j)
    BY <1>3, <1>4, <1>7 DEF NextInList
  <2>3. Under(nodes, t, j, m + 1) = Under(nodes, t, j + 1, 1)
    BY <2>1, UnderAll
  <2>4. GoesOn(nodes, t, NextList(t, i, j), i, Under(nodes, t, j + 1, 1))
    BY <1>1, NextListGoesOn
  <2> QED
    BY <1>2, <1>5, <2>2, <2>3, <2>4
<1> QED
  BY <1>6, <1>7

------------------------------------------------------------------------------
\* g sums f over the nodes of every set of nodes.
Gauge(f, g) == f \in [Nodes -> Int] /\ g \in [SUBSET Nodes -> Int] /\ Splits(Nodes, f, g)

LEMMA FiniteNodes == TracingInv => IsFiniteSet(Nodes)
BY FS_Interval DEF TracingInv, Closed

LEMMA GaugeApart ==
  ASSUME TracingInv, NEW f, NEW g, Gauge(f, g), NEW a \in SUBSET Nodes, NEW b \in SUBSET Nodes,
         a \cap b = {}
  PROVE  g[a \cup b] = g[a] + g[b]
<1>1. IsFiniteSet(Nodes)
  BY FiniteNodes
<1>2. f \in [Nodes -> Int] /\ g \in [SUBSET Nodes -> Int] /\ Splits(Nodes, f, g)
  BY DEF Gauge
<1>3. PICK D : D = Nodes
  OBVIOUS
<1>4. IsFiniteSet(D) /\ f \in [D -> Int] /\ g \in [SUBSET D -> Int] /\ Splits(D, f, g)
  BY <1>1, <1>2, <1>3
<1>5. a \in SUBSET D /\ b \in SUBSET D
  BY <1>3
<1>6. Adds(D, g)
  BY <1>4, SplitsAdd
<1> QED
  BY <1>5, <1>6 DEF Adds

\* What a task has made in its rounds up to the m-th node of list j.
Made(g, nodes, t, i, j, m) == i * g[Own(nodes, t)] + g[Under(nodes, t, j, m)]

AllMade(nodes, t, i, S) ==
  \A f, g : Gauge(f, g) => i * g[Own(nodes, t)] + g[S] = Rounds * g[Own(nodes, t)]
StillMade(nodes, t, i, S, place, m) ==
  \A f, g : Gauge(f, g) =>
    Made(g, nodes, t, place.i, place.j, m) = i * g[Own(nodes, t)] + g[S]

LEMMA GoesOnMakes ==
  ASSUME TracingInv, Listing, NEW nodes, NEW t \in Tasks, NEW place, NEW i \in Nat,
         NEW S \in SUBSET Nodes, GoesOn(nodes, t, place, i, S)
  PROVE  /\ place.node = NULL => AllMade(nodes, t, i, S)
         /\ place.node # NULL =>
              /\ place.i \in 0 .. Rounds - 1 /\ place.j \in ShareOf(t)
              /\ \E m \in 1 .. listsLen[place.j] :
                   /\ place.node = nodes[place.j][m]
                   /\ StillMade(nodes, t, i, S, place, m)
<1>1. Rounds \in Nat
  BY ShareFacts
<1>2. Own(nodes, t) \in SUBSET Nodes
  BY DEF Own
<1>3. \A f, g : Gauge(f, g) => /\ g[{}] = 0 /\ g[S] \in Int /\ g[Own(nodes, t)] \in Int
  BY <1>2 DEF Gauge, Splits
<1>4. \A x \in Int : i * x + x = (i + 1) * x /\ 0 * x = 0 /\ i * 0 = 0
  OBVIOUS
<1>5. ASSUME place.node = NULL, NEW f, NEW g, Gauge(f, g)
      PROVE  i * g[Own(nodes, t)] + g[S] = Rounds * g[Own(nodes, t)]
  <2>1. PICK x \in Int : x = g[Own(nodes, t)]
    BY <1>3, <1>5
  <2>2. \/ S = Own(nodes, t) /\ (i + 1 = Rounds \/ Own(nodes, t) = {})
        \/ S = {} /\ i = 0 /\ Rounds = 0
    BY <1>5 DEF GoesOn
  <2>3. CASE S = Own(nodes, t) /\ i + 1 = Rounds
    BY <1>4, <2>1, <2>3
  <2>4. CASE S = Own(nodes, t) /\ Own(nodes, t) = {}
    <3>1. x = 0 /\ g[S] = 0
      BY <1>3, <1>5, <2>1, <2>4
    <3>2. Rounds * 0 = 0
      BY <1>1
    <3> QED
      BY <1>4, <2>1, <3>1, <3>2
  <2>5. CASE S = {} /\ i = 0 /\ Rounds = 0
    <3>1. g[S] = 0
      BY <1>3, <1>5, <2>5
    <3> QED
      BY <1>4, <2>1, <2>5, <3>1
  <2> QED
    BY <2>2, <2>3, <2>4, <2>5
<1>6. ASSUME place.node # NULL
      PROVE  /\ place.i \in 0 .. Rounds - 1 /\ place.j \in ShareOf(t)
             /\ \E m \in 1 .. listsLen[place.j] :
                  /\ place.node = nodes[place.j][m]
                  /\ StillMade(nodes, t, i, S, place, m)
  <2>1. /\ place.j \in ShareOf(t)
        /\ \E m \in 1 .. listsLen[place.j] :
             /\ place.node = nodes[place.j][m]
             /\ \/ place.i = i /\ i < Rounds /\ Under(nodes, t, place.j, m) = S
                \/ /\ place.i = i + 1 /\ i + 1 < Rounds
                   /\ Under(nodes, t, place.j, m) = {} /\ S = Own(nodes, t)
    BY <1>6 DEF GoesOn
  <2>2. PICK m \in 1 .. listsLen[place.j] :
             /\ place.node = nodes[place.j][m]
             /\ \/ place.i = i /\ i < Rounds /\ Under(nodes, t, place.j, m) = S
                \/ /\ place.i = i + 1 /\ i + 1 < Rounds
                   /\ Under(nodes, t, place.j, m) = {} /\ S = Own(nodes, t)
    BY <2>1
  <2>3. place.i \in 0 .. Rounds - 1
    BY <1>1, <2>2
  <2>4. ASSUME NEW f, NEW g, Gauge(f, g)
        PROVE  Made(g, nodes, t, place.i, place.j, m) = i * g[Own(nodes, t)] + g[S]
    <3>1. PICK x \in Int : x = g[Own(nodes, t)]
      BY <1>3, <2>4
    <3>2. CASE place.i = i /\ Under(nodes, t, place.j, m) = S
      BY <3>2 DEF Made
    <3>3. CASE place.i = i + 1 /\ Under(nodes, t, place.j, m) = {} /\ S = Own(nodes, t)
      <4>1. g[Under(nodes, t, place.j, m)] = 0 /\ g[S] = x
        BY <1>3, <2>4, <3>1, <3>3
      <4>2. (i + 1) * x \in Int
        OBVIOUS
      <4>3. (i + 1) * x + 0 = i * x + x
        BY <1>4, <4>2
      <4> QED
        BY <3>1, <3>3, <4>1, <4>3 DEF Made
    <3> QED
      BY <2>2, <3>2, <3>3
  <2> QED
    BY <2>1, <2>2, <2>3, <2>4 DEF StillMade
<1> QED
  BY <1>5, <1>6 DEF AllMade

------------------------------------------------------------------------------
\* Each task that is at a node has read its nodes before that one, REPEAT_TIMES times at
\* each node or as many times over all; and the totals are those of the tasks that
\* have returned.  g sums the data, c counts the nodes.
Times == IF Program \in Rereads THEN args.REPEAT_TIMES ELSE 1

LEMMA TimesInt == TracingInv => Times \in Int
BY CommandGiven DEF Times, Command, TracingInv, Forked

ReadTo(nodes, g, c, t, my) ==
  /\ my.at \in {"new", "node", "returned"}
  /\ my.at = "node" =>
       /\ my.i \in 0 .. Rounds - 1 /\ my.j \in ShareOf(t)
       /\ \E m \in 1 .. listsLen[my.j] :
            /\ my.node = nodes[my.j][m]
            /\ my.accum = Times * Made(g, nodes, t, my.i, my.j, m)
            /\ my.times = Made(c, nodes, t, my.i, my.j, m)

Returned(nodes) ==
  {n \in Nodes : \E t \in Tasks : mine[t].at = "returned" /\ n \in Own(nodes, t)}

Totals(nodes, g, c) ==
  /\ total_accum = Times * (Rounds * g[Returned(nodes)])
  /\ tra_times = Rounds * c[Returned(nodes)]

Reading(nodes, g, c) ==
  (\A t \in Tasks : ReadTo(nodes, g, c, t, mine[t])) /\ Totals(nodes, g, c)

Gauges(g, c) == Gauge(data, g) /\ Gauge([n \in Nodes |-> 1], c)

\* A task that goes on has made S in round i when it does.
LEMMA GoesToReads ==
  ASSUME TracingInv, Listing, NEW nodes, Laid(nodes), NEW g, NEW c, Gauges(g, c),
         Reading(nodes, g, c), NEW t \in Tasks, mine[t].at # "returned", NEW place,
         NEW i \in Nat, NEW S \in SUBSET Nodes, GoesOn(nodes, t, place, i, S),
         GoesTo(t, place, Times * (i * g[Own(nodes, t)] + g[S]), i * c[Own(nodes, t)] + c[S])
  PROVE  Reading(nodes, g, c)'
<1>1. PICK a, b : a = Times * (i * g[Own(nodes, t)] + g[S]) /\ b = i * c[Own(nodes, t)] + c[S]
  OBVIOUS
<1>2. GoesTo(t, place, a, b)
  BY <1>1
<1>3. PICK my : my = [at |-> IF place.node = NULL THEN "returned" ELSE "node",
                      i |-> place.i, j |-> place.j, node |-> place.node,
                      accum |-> a, times |-> b]
  OBVIOUS
<1>4. /\ my.at = (IF place.node = NULL THEN "returned" ELSE "node")
      /\ my.i = place.i /\ my.j = place.j /\ my.node = place.node
      /\ my.accum = a /\ my.times = b
  BY <1>3
<1>5. Program \notin Rings /\ Rounds \in Nat
  BY ShareFacts
<1>6. /\ mine' = [mine EXCEPT ![t] = my]
      /\ total_accum' = total_accum + IF place.node = NULL THEN a ELSE 0
      /\ tra_times' = tra_times + IF place.node = NULL THEN b ELSE 0
      /\ SameLists
  BY <1>2, <1>3, <1>5 DEF GoesTo, build, SameLists
<1>7. /\ mine'[t] = my
      /\ \A u \in Tasks : u # t => mine'[u] = mine[u]
  <2>1. mine = [u \in Tasks |-> mine[u]]
    BY DEF TracingInv, Kept
  <2> QED
    BY <1>6, <2>1
<1>8. /\ Tasks' = Tasks /\ Nodes' = Nodes /\ Times' = Times /\ Rounds' = Rounds
      /\ \A u \in Tasks : Own(nodes, u)' = Own(nodes, u)
      /\ \A u \in Tasks : \A my_1 : ReadTo(nodes, g, c, u, my_1)' <=> ReadTo(nodes, g, c, u, my_1)
  BY <1>6 DEF SameLists, Tasks, Nodes, Times, Rounds, Own, ReadTo, Program, ShareOf, Made, Under
<1>9. Gauge(data, g) /\ Gauge([n \in Nodes |-> 1], c)
  BY DEF Gauges
<1>10. ReadTo(nodes, g, c, t, my)
  <2>1. CASE place.node = NULL
    BY <1>4, <2>1 DEF ReadTo
  <2>2. CASE place.node # NULL
    <3>1. /\ place.i \in 0 .. Rounds - 1 /\ place.j \in ShareOf(t)
          /\ \E m \in 1 .. listsLen[place.j] :
               /\ place.node = nodes[place.j][m]
               /\ StillMade(nodes, t, i, S, place, m)
      BY <2>2, GoesOnMakes
    <3>2. PICK m \in 1 .. listsLen[place.j] :
               /\ place.node = nodes[place.j][m]
               /\ StillMade(nodes, t, i, S, place, m)
      BY <3>1
    <3>3. /\ Made(g, nodes, t, place.i, place.j, m) = i * g[Own(nodes, t)] + g[S]
          /\ Made(c, nodes, t, place.i, place.j, m) = i * c[Own(nodes, t)] + c[S]
      BY <1>9, <3>2 DEF StillMade
    <3> QED
      BY <1>1, <1>4, <2>2, <3>1, <3>2, <3>3 DEF ReadTo
  <2> QED
    BY <2>1, <2>2
<1>11. \A u \in Tasks : ReadTo(nodes, g, c, u, mine'[u])
  BY <1>7, <1>10 DEF Reading
<1>12. (\A u \in Tasks : ReadTo(nodes, g, c, u, mine[u]))'
  BY <1>8, <1>11
<1>13. Totals(nodes, g, c)'
  <2>1. Returned(nodes)' =
          {n \in Nodes : \E u \in Tasks : mine'[u].at = "returned" /\ n \in Own(nodes, u)}
    BY <1>8 DEF Returned
  <2>2. CASE place.node # NULL
    <3>1. \A u \in Tasks : mine'[u].at = "returned" <=> mine[u].at = "returned"
      BY <1>4, <1>7, <2>2
    <3>2. Returned(nodes)' = Returned(nodes)
      BY <2>1, <3>1 DEF Returned
    <3>3. total_accum \in Int /\ tra_times \in Int
      <4>1. Returned(nodes) \in SUBSET Nodes
        BY DEF Returned
      <4>2. g[Returned(nodes)] \in Int /\ c[Returned(nodes)] \in Int
        BY <1>9, <4>1 DEF Gauge
      <4>3. Times \in Int
        BY TimesInt
      <4> QED
        BY <1>5, <4>2, <4>3 DEF Reading, Totals
    <3>4. total_accum' = total_accum /\ tra_times' = tra_times
      BY <1>6, <2>2, <3>3
    <3> QED
      BY <1>8, <3>2, <3>4 DEF Reading, Totals
  <2>3. CASE place.node = NULL
    <3>1. Returned(nodes)' = Returned(nodes) \cup Own(nodes, t)
      <4>1. \A u \in Tasks : mine'[u].at = "returned" <=> (mine[u].at = "returned" \/ u = t)
        BY <1>4, <1>7, <2>3
      <4> QED
        BY <2>1, <4>1 DEF Returned, Own
    <3>2. Returned(nodes) \cap Own(nodes, t) = {}
      <4> SUFFICES ASSUME NEW n \in Returned(nodes), n \in Own(nodes, t)
                   PROVE  FALSE
        OBVIOUS
      <4>1. PICK u \in Tasks : mine[u].at = "returned" /\ n \in Own(nodes, u)
        BY DEF Returned
      <4>2. PICK x \in ShareOf(u) : \E k \in 1 .. listsLen[x] : n = nodes[x][k]
        BY <4>1 DEF Own
      <4>3. PICK y \in ShareOf(t) : \E k \in 1 .. listsLen[y] : n = nodes[y][k]
        BY DEF Own
      <4>4. x \in Lists /\ y \in Lists
        BY ShareFacts
      <4>5. x = y
        <5>1. PICK k \in 1 .. listsLen[x] : n = nodes[x][k]
          BY <4>2
        <5>2. PICK l \in 1 .. listsLen[y] : n = nodes[y][l]
          BY <4>3
        <5>3. nodes[x][k] = nodes[y][l]
          BY <5>1, <5>2
        <5> QED
          BY <4>4, <5>3, OnePlaceOnly DEF Laid
      <4>6. u # t
        BY <4>1
      <4> QED
        BY <4>5, <4>6, ShareFacts
    <3>3. Returned(nodes) \in SUBSET Nodes /\ Own(nodes, t) \in SUBSET Nodes
      BY DEF Returned, Own
    <3>5. ASSUME NEW f, NEW h, Gauge(f, h)
          PROVE  /\ h[Returned(nodes)'] = h[Returned(nodes)] + h[Own(nodes, t)]
                 /\ h[Returned(nodes)] \in Int /\ h[Own(nodes, t)] \in Int
      <4>1. f \in [Nodes -> Int] /\ h \in [SUBSET Nodes -> Int] /\ Splits(Nodes, f, h)
        BY <3>5 DEF Gauge
      <4>2. h[Returned(nodes) \cup Own(nodes, t)] = h[Returned(nodes)] + h[Own(nodes, t)]
        <5>1. PICK r, o : r = Returned(nodes) /\ o = Own(nodes, t)
          OBVIOUS
        <5>2. r \in SUBSET Nodes /\ o \in SUBSET Nodes /\ r \cap o = {}
          BY <3>2, <3>3, <5>1
        <5>3. h[r \cup o] = h[r] + h[o]
          BY <3>5, <5>2, GaugeApart
        <5> QED
          BY <5>1, <5>3
      <4> QED
        BY <3>1, <3>3, <4>1, <4>2
    <3>6. PICK x, y : x = g[Returned(nodes)] /\ y = g[Own(nodes, t)]
      OBVIOUS
    <3>7. PICK v, w : v = c[Returned(nodes)] /\ w = c[Own(nodes, t)]
      OBVIOUS
    <3>8. /\ x \in Int /\ y \in Int /\ g[Returned(nodes)'] = x + y
          /\ v \in Int /\ w \in Int /\ c[Returned(nodes)'] = v + w
      BY <1>9, <3>5, <3>6, <3>7
    <3>9. a = Times * (Rounds * y) /\ b = Rounds * w
      <4>1. AllMade(nodes, t, i, S)
        BY <2>3, GoesOnMakes
      <4>2. /\ i * g[Own(nodes, t)] + g[S] = Rounds * g[Own(nodes, t)]
            /\ i * c[Own(nodes, t)] + c[S] = Rounds * c[Own(nodes, t)]
        BY <1>9, <4>1 DEF AllMade
      <4> QED
        BY <1>1, <3>6, <3>7, <4>2
    <3>10. Times \in Int
      BY TimesInt
    <3>11. Rounds * (x + y) = Rounds * x + Rounds * y /\ Rounds * (v + w) = Rounds * v + Rounds * w
      BY <1>5, <3>8
    <3>12. Times * (Rounds * x + Rounds * y) = Times * (Rounds * x) + Times * (Rounds * y)
      BY <1>5, <3>8, <3>10
    <3>13. total_accum = Times * (Rounds * x) /\ tra_times = Rounds * v
      BY <3>6, <3>7 DEF Reading, Totals
    <3>14. total_accum' = Times * (Rounds * (x + y)) /\ tra_times' = Rounds * (v + w)
      BY <1>6, <2>3, <3>9, <3>11, <3>12, <3>13
    <3> QED
      BY <1>8, <3>8, <3>14 DEF Totals
  <2> QED
    BY <2>2, <2>3
<1> QED
  BY <1>12, <1>13 DEF Reading

LEMMA TaskReads ==
  ASSUME TracingInv, Listing, NEW nodes, Laid(nodes), NEW g, NEW c, Gauges(g, c),
         Reading(nodes, g, c), NEW t \in Tasks, StartTask(t) \/ ReadNode(t)
  PROVE  Reading(nodes, g, c)'
<1>1. Gauge(data, g) /\ Gauge([n \in Nodes |-> 1], c) /\ ReadTo(nodes, g, c, t, mine[t])
  BY DEF Gauges, Reading
<1>2. Rounds \in Nat /\ Times \in Int /\ Own(nodes, t) \in SUBSET Nodes
  BY ShareFacts, TimesInt DEF Own
<1>3. /\ g \in [SUBSET Nodes -> Int] /\ c \in [SUBSET Nodes -> Int]
      /\ g[{}] = 0 /\ c[{}] = 0
  BY <1>1 DEF Gauge, Splits
<1>4. CASE StartTask(t)
  <2>1. mine[t].at = "new" /\ GoesTo(t, FirstPlace(t), 0, 0)
    BY <1>4 DEF StartTask
  <2>2. PICK place : place = FirstPlace(t)
    OBVIOUS
  <2>3. GoesOn(nodes, t, place, 0, {})
    BY <2>2, FirstGoesOn
  <2>4. 0 = Times * (0 * g[Own(nodes, t)] + g[{}]) /\ 0 = 0 * c[Own(nodes, t)] + c[{}]
    <3>1. PICK x, y \in Int : x = g[Own(nodes, t)] /\ y = c[Own(nodes, t)]
      BY <1>2, <1>3
    <3>2. 0 * x + 0 = 0 /\ 0 * y + 0 = 0 /\ Times * 0 = 0
      BY <1>2
    <3> QED
      BY <1>3, <3>1, <3>2
  <2>5. GoesTo(t, place, Times * (0 * g[Own(nodes, t)] + g[{}]), 0 * c[Own(nodes, t)] + c[{}])
    BY <2>1, <2>2, <2>4
  <2> QED
    BY <2>1, <2>3, <2>5, GoesToReads
<1>5. CASE ReadNode(t)
  <2>1. PICK i, j : i = mine[t].i /\ j = mine[t].j
    OBVIOUS
  <2>2. mine[t].at = "node"
    BY <1>5 DEF ReadNode
  <2>3. /\ i \in 0 .. Rounds - 1 /\ j \in ShareOf(t)
        /\ \E m \in 1 .. listsLen[j] :
             /\ mine[t].node = nodes[j][m]
             /\ mine[t].accum = Times * Made(g, nodes, t, i, j, m)
             /\ mine[t].times = Made(c, nodes, t, i, j, m)
    BY <1>1, <2>1, <2>2 DEF ReadTo
  <2>4. PICK m \in 1 .. listsLen[j] :
             /\ mine[t].node = nodes[j][m]
             /\ mine[t].accum = Times * Made(g, nodes, t, i, j, m)
             /\ mine[t].times = Made(c, nodes, t, i, j, m)
    BY <2>3
  <2>5. PICK n : n = nodes[j][m]
    OBVIOUS
  <2>6. PICK place : place = NextPlace(t, i, j, n)
    OBVIOUS
  <2>7. GoesTo(t, place, mine[t].accum + data[n] * Times, mine[t].times + 1)
    BY <1>5, <2>1, <2>4, <2>5, <2>6 DEF ReadNode, Times
  <2>8. i \in Nat /\ i < Rounds /\ j \in Lists /\ n \in Nodes
    <3>1. j \in Lists
      BY <2>3, ShareFacts
    <3> QED
      BY <1>2, <2>3, <2>4, <2>5, <3>1, LaidFacts
  <2>9. PICK U : U = Under(nodes, t, j, m)
    OBVIOUS
  <2>10. GoesOn(nodes, t, place, i, U \cup {n})
    BY <2>3, <2>4, <2>5, <2>6, <2>8, <2>9, NextGoesOn
  <2>11. n \notin U /\ U \in SUBSET Nodes /\ U \cup {n} \in SUBSET Nodes
    BY <2>3, <2>4, <2>5, <2>8, <2>9, UnderNext DEF Under
  <2>12. ASSUME NEW f, NEW h, Gauge(f, h)
         PROVE  h[U \cup {n}] = h[U] + f[n] /\ f[n] \in Int /\ h[U] \in Int
    <3>1. f \in [Nodes -> Int] /\ h \in [SUBSET Nodes -> Int] /\ Splits(Nodes, f, h)
      BY <2>12 DEF Gauge
    <3>2. (U \cup {n}) \ {n} = U /\ n \in U \cup {n}
      BY <2>11
    <3>3. h[U \cup {n}] = f[n] + h[U]
      BY <2>11, <3>1, <3>2 DEF Splits
    <3> QED
      BY <2>8, <2>11, <3>1, <3>3
  <2>13. PICK x, y : x = g[Own(nodes, t)] /\ y = c[Own(nodes, t)]
    OBVIOUS
  <2>14. PICK u, v : u = g[U] /\ v = c[U]
    OBVIOUS
  <2>15. PICK d : d = data[n]
    OBVIOUS
  <2>16. g[U \cup {n}] = u + d /\ d \in Int /\ u \in Int
    BY <1>1, <2>12, <2>14, <2>15
  <2>17. c[U \cup {n}] = v + 1 /\ v \in Int
    <3>1. [k \in Nodes |-> 1][n] = 1
      BY <2>8
    <3> QED
      BY <1>1, <2>12, <2>14, <3>1
  <2>18. x \in Int /\ y \in Int
    BY <1>2, <1>3, <2>13
  <2>19. mine[t].accum = Times * (i * x + u) /\ mine[t].times = i * y + v
    BY <2>4, <2>9, <2>13, <2>14 DEF Made
  <2>20. i * x \in Int /\ i * y \in Int
    BY <2>8, <2>18
  <2>21. Times * (i * x + u) + d * Times = Times * (i * x + (u + d))
    BY <1>2, <2>16, <2>20
  <2>22. (i * y + v) + 1 = i * y + (v + 1)
    BY <2>17, <2>20
  <2>23. GoesTo(t, place, Times * (i * g[Own(nodes, t)] + g[U \cup {n}]),
                i * c[Own(nodes, t)] + c[U \cup {n}])
    BY <2>7, <2>13, <2>15, <2>16, <2>17, <2>19, <2>21, <2>22
  <2>24. mine[t].at # "returned"
    BY <2>2
  <2> QED
    BY <2>8, <2>10, <2>11, <2>23, <2>24, GoesToReads
<1> QED
  BY <1>4, <1>5

------------------------------------------------------------------------------
\* What the tasks have read, while they run and after: the nodes, and sums and numbers
\* of them, are such that it is as Reading says.
SomeRead ==
  \E nodes, g, c : /\ Laid(nodes) /\ Gauges(g, c)
                   /\ SumFunction(data) = g[Nodes] /\ c[Nodes] = Cardinality(Nodes)
                   /\ Reading(nodes, g, c)
Running == phase \in {"run", "free", "end"}
ReadSoFar ==
  Listing =>
    /\ data \in [Nodes -> Int]
    /\ Before => total_accum = 0 /\ tra_times = 0 /\ \A t \in Tasks : mine[t].at = "new"
    /\ Running => SomeRead
    /\ After => AllReturned

\* When a list program ends, its tasks have read every node of every list as often as
\* asked, whatever the shares and however they interleave.
ListsRead == phase = "end" /\ Program \notin Rings => AllRead

LEMMA ReadSoFarEnds == TracingInv /\ ReadSoFar => ListsRead
<1> SUFFICES ASSUME TracingInv, ReadSoFar, phase = "end", Program \notin Rings
             PROVE  AllRead
  BY DEF ListsRead
<1>1. Listing /\ Running /\ After
  BY DEF TracingInv, Closed, Listing, Running, After
<1>2. data \in [Nodes -> Int] /\ AllReturned
  BY <1>1 DEF ReadSoFar
<1>3. PICK nodes, g, c : /\ Laid(nodes) /\ Gauges(g, c)
                         /\ SumFunction(data) = g[Nodes]
                         /\ c[Nodes] = Cardinality(Nodes)
                         /\ Reading(nodes, g, c)
  BY <1>1 DEF ReadSoFar, SomeRead
<1>4. Returned(nodes) = Nodes
  <2> SUFFICES ASSUME NEW n \in Nodes
               PROVE  \E t \in Tasks : mine[t].at = "returned" /\ n \in Own(nodes, t)
    BY DEF Returned
  <2>1. PICK i \in Lists : \E k \in 1 .. listsLen[i] : nodes[i][k] = n
    BY <1>3 DEF Laid, Linked
  <2>2. PICK t \in Tasks : i \in ShareOf(t)
    BY <1>1, ShareFacts
  <2>3. n \in Own(nodes, t)
    BY <2>1, <2>2 DEF Own
  <2> QED
    BY <1>2, <2>3 DEF AllReturned
<1>5. total_accum = Times * (Rounds * SumFunction(data)) /\ tra_times = Rounds * Cardinality(Nodes)
  BY <1>3, <1>4 DEF Reading, Totals
<1>6. Sum(DOMAIN next) = SumFunction(data)
  <2>1. DOMAIN data = DOMAIN next
    BY <1>2 DEF Nodes
  <2> QED
    BY <2>1 DEF Sum, SumFunction, SumFunctionOnSet, FoldFunctionOnSet, MapThenSumSet
<1>7. SumFunction(data) \in Int /\ Cardinality(Nodes) \in Nat /\ args.REPEAT_TIMES \in Nat
  <2>1. SumFunction(data) \in Int
    BY <1>3 DEF Gauges, Gauge
  <2>2. Cardinality(Nodes) \in Nat
    BY DEF TracingInv, Closed, Allocated, Nodes
  <2> QED
    BY <2>1, <2>2, CommandGiven DEF Command, TracingInv, Forked
<1>8. Program \in Rereads \cup Rewalks /\ Program # "pointer_tracing"
  BY <1>1 DEF Listing, Rings
<1>9. PICK r, x, y : r = args.REPEAT_TIMES /\ x = SumFunction(data) /\ y = Cardinality(Nodes)
  OBVIOUS
<1>10. r * (1 * x) = r * x /\ 1 * (r * x) = r * x /\ r * y = y * r /\ 1 * y = y * 1
  BY <1>7, <1>9
<1>11. Repeats = r
  BY <1>9 DEF Repeats
<1>12. CASE Program \in Rereads
  <2>1. Program \notin Rewalks
    BY <1>12 DEF Rereads, Rewalks
  <2>2. Times = r /\ Rounds = 1
    BY <1>9, <1>12, <2>1 DEF Times, Rounds
  <2>3. total_accum = r * x /\ tra_times = y * 1
    BY <1>5, <1>9, <1>10, <2>2
  <2> QED
    BY <1>6, <1>8, <1>9, <1>11, <2>1, <2>3 DEF AllRead, Nodes
<1>13. CASE Program \notin Rereads
  <2>1. Program \in Rewalks
    BY <1>8, <1>13
  <2>2. Times = 1 /\ Rounds = r
    BY <1>9, <1>13, <2>1 DEF Times, Rounds
  <2>3. total_accum = r * x /\ tra_times = y * r
    BY <1>5, <1>9, <1>10, <2>2
  <2> QED
    BY <1>6, <1>8, <1>9, <1>11, <2>1, <2>3 DEF AllRead, Nodes
<1> QED
  BY <1>12, <1>13

\* All that ReadSoFar depends on: the lists, the tasks and the totals.
SameReading == SameLists /\ UNCHANGED <<data, mine, totals>>

LEMMA SameFacts ==
  ASSUME SameLists
  PROVE  /\ (Listing' <=> Listing) /\ Nodes' = Nodes /\ Tasks' = Tasks /\ Lists' = Lists
         /\ \A nodes : Laid(nodes)' <=> Laid(nodes)
BY DEF SameLists, Listing, Program, Nodes, Tasks, Lists, Laid, Linked

LEMMA ReadingSame ==
  ASSUME SameReading, NEW nodes, NEW g, NEW c
  PROVE  /\ Gauges(g, c)' <=> Gauges(g, c)
         /\ Reading(nodes, g, c)' <=> Reading(nodes, g, c)
<1>1. UNCHANGED <<args, listsLen, next, data, mine, total_accum, tra_times>>
  BY DEF SameReading, SameLists, totals
<1>2. Gauges(g, c)' <=> Gauges(g, c)
  BY <1>1 DEF Gauges, Gauge, Nodes
<1>3. /\ Nodes' = Nodes /\ Tasks' = Tasks /\ Times' = Times /\ Rounds' = Rounds
      /\ \A t \in Tasks : Own(nodes, t)' = Own(nodes, t)
      /\ \A t \in Tasks : \A my : ReadTo(nodes, g, c, t, my)' <=> ReadTo(nodes, g, c, t, my)
  BY <1>1 DEF Tasks, Nodes, Times, Rounds, Own, ReadTo, Program, ShareOf, Made, Under
<1>4. Returned(nodes)' = Returned(nodes)
  BY <1>1, <1>3 DEF Returned
<1>5. Totals(nodes, g, c)' <=> Totals(nodes, g, c)
  BY <1>1, <1>3, <1>4 DEF Totals
<1>6. (\A t \in Tasks : ReadTo(nodes, g, c, t, mine[t]))' <=>
        \A t \in Tasks : ReadTo(nodes, g, c, t, mine[t])
  BY <1>1, <1>3
<1> QED
  BY <1>2, <1>5, <1>6 DEF Reading

\* There are such sums when the tasks start ...
LEMMA NoneReadYet ==
  ASSUME TracingInv, Listing, data \in [Nodes -> Int], total_accum = 0, tra_times = 0,
         \A t \in Tasks : mine[t].at = "new"
  PROVE  SomeRead
<1>1. IsFiniteSet(Nodes)
  BY FiniteNodes
<1>2. PICK nodes : Laid(nodes)
  BY DEF TracingInv, Chained, Laid
<1>3. PICK D : D = Nodes
  OBVIOUS
<1>4. IsFiniteSet(D) /\ data \in [D -> Int]
  BY <1>1, <1>3
<1>5. PICK g \in [SUBSET D -> Int] : SumsTo(D, data, g) /\ SumFunction(data) = g[D]
  BY <1>4, SumFunctionSums
<1>6. Splits(D, data, g)
  BY <1>4, <1>5, SumsSplit
<1>7. PICK c : c = [s \in SUBSET D |-> Cardinality(s)]
  OBVIOUS
<1>8. c \in [SUBSET D -> Int] /\ Splits(D, [n \in D |-> 1], c)
  BY <1>4, <1>7, CardinalitySplits
<1>9. [n \in D |-> 1] \in [D -> Int] /\ c[D] = Cardinality(D)
  BY <1>7
<1>10. Gauges(g, c)
  BY <1>3, <1>4, <1>5, <1>6, <1>8, <1>9 DEF Gauges, Gauge
<1>11. g[{}] = 0 /\ c[{}] = 0
  BY <1>6, <1>8 DEF Splits
<1>12. Returned(nodes) = {}
  BY DEF Returned
<1>13. Rounds * 0 = 0 /\ Times * (Rounds * 0) = 0
  <2>1. Rounds \in Int /\ Times \in Int
    BY ShareFacts, TimesInt
  <2>2. Rounds * 0 = 0 /\ Times * 0 = 0
    BY <2>1
  <2> QED
    BY <2>2
<1>14. Totals(nodes, g, c)
  BY <1>11, <1>12, <1>13 DEF Totals
<1>15. \A t \in Tasks : ReadTo(nodes, g, c, t, mine[t])
  BY DEF ReadTo
<1> QED
  BY <1>2, <1>3, <1>5, <1>9, <1>10, <1>14, <1>15 DEF SomeRead, Reading

\* ... and there still are after a step.
LEMMA SomeReadKept ==
  ASSUME TracingInv, Listing, SomeRead, SameReading \/ \E t \in Tasks : StartTask(t) \/ ReadNode(t)
  PROVE  SomeRead'
<1>1. PICK nodes, g, c : /\ Laid(nodes) /\ Gauges(g, c)
                         /\ SumFunction(data) = g[Nodes] /\ c[Nodes] = Cardinality(Nodes)
                         /\ Reading(nodes, g, c)
  BY DEF SomeRead
<1>2. SameLists /\ data' = data /\ (Gauges(g, c)' <=> Gauges(g, c))
  <2>1. CASE SameReading
    BY <2>1, ReadingSame DEF SameReading
  <2>2. CASE \E t \in Tasks : StartTask(t) \/ ReadNode(t)
    <3>1. UNCHANGED <<args, procs, build>>
      BY <2>2 DEF StartTask, ReadNode, GoesTo
    <3> QED
      BY <3>1 DEF build, SameLists, Gauges, Gauge, Nodes
  <2> QED
    BY <2>1, <2>2
<1>3. Reading(nodes, g, c)'
  <2>1. CASE SameReading
    BY <1>1, <2>1, ReadingSame
  <2>2. CASE \E t \in Tasks : StartTask(t) \/ ReadNode(t)
    BY <1>1, <2>2, TaskReads
  <2> QED
    BY <2>1, <2>2
<1>4. Laid(nodes)' /\ Nodes' = Nodes /\ Gauges(g, c)'
  BY <1>1, <1>2, SameFacts
<1> QED
  BY <1>1, <1>2, <1>3, <1>4 DEF SomeRead

------------------------------------------------------------------------------
LEMMA ReadSoFarInit == TracingInit => ReadSoFar
<1> SUFFICES ASSUME TracingInit
             PROVE  ReadSoFar
  OBVIOUS
<1>1. /\ phase = "processes" /\ data = Empty /\ next = Empty
      /\ total_accum = 0 /\ tra_times = 0
      /\ \A t \in Tasks : mine[t].at = "new"
  BY DEF TracingInit
<1>2. data \in [Nodes -> Int]
  BY <1>1 DEF Nodes, Empty
<1> QED
  BY <1>1, <1>2 DEF ReadSoFar, Running, After

LEMMA ReadSoFarStep ==
  ASSUME TracingInv, ReadSoFar, [TracingNext]_tracingVars
  PROVE  ReadSoFar'
<1>1. Listing' <=> Listing
  <2>1. args' = args
    BY DEF TracingNext, ForkStep, ForkNext, Fork, ForkFails, Bind, BecomeProcess, BuildList,
           BuildRings, Shuffle, LinkRings, StartTasks, StartTask, ReadNode, GoesTo,
           StartFreeing, FreeNode, Ended, tracingVars
  <2> QED
    BY <2>1 DEF Listing, Program
<1> SUFFICES ASSUME Listing
             PROVE  ReadSoFar'
  BY <1>1 DEF ReadSoFar
<1>2. /\ data \in [Nodes -> Int]
      /\ Before => total_accum = 0 /\ tra_times = 0 /\ \A t \in Tasks : mine[t].at = "new"
      /\ Running => SomeRead
      /\ After => AllReturned
  BY DEF ReadSoFar
<1>3. Program \notin Rings
  BY ShareFacts
<1>4. CASE ForkStep \/ BecomeProcess
  <2>1. /\ phase = "processes" /\ phase' \in {"processes", "build", "elsewhere"} /\ args' = args
        /\ UNCHANGED <<data, next, mine, total_accum, tra_times>>
    BY <1>4 DEF ForkStep, BecomeProcess, ForkNext, Fork, ForkFails, Bind, build, totals
  <2>2. Before /\ Nodes' = Nodes /\ Tasks' = Tasks /\ ~Running' /\ ~After'
    BY <2>1 DEF Before, Running, After, Nodes, Tasks, Program
  <2> QED
    BY <1>2, <2>1, <2>2 DEF ReadSoFar
<1>5. CASE BuildList
  <2>1. PICK idx \in 0 .. tofillLists - 1 : Fill(idx)
    BY <1>5 DEF BuildList
  <2>2. /\ phase = "build" /\ NewNode
        /\ UNCHANGED <<args, phase, mine, total_accum, tra_times>>
    BY <1>5 DEF BuildList, totals
  <2>3. listNumber[idx] \in Lists
    <3>1. listNumber \in [Lists -> Lists] /\ idx \in Lists
      <4>1. listNumber \in [Lists -> Lists] /\ tofillLists <= args.TOTAL_LISTS /\ tofillLists \in Int
        BY DEF TracingInv, Filling, Closed
      <4>2. args.TOTAL_LISTS \in Nat
        BY ArgumentsGiven DEF TracingInv, Forked
      <4> QED
        BY <4>1, <4>2 DEF Lists
    <3> QED
      BY <3>1
  <2>4. insertToListI(listNumber[idx], Allocated)
    BY <2>1 DEF Fill
  <2>5. Nodes' = Nodes \cup {Allocated} /\ Allocated \in Nat /\ Allocated \notin Nodes
    BY <2>2, <2>3, <2>4, Inserts
  <2>6. data' = [z \in DOMAIN data \cup {Allocated} |-> IF z = Allocated THEN Allocated ELSE data[z]]
    BY <2>2 DEF NewNode, Extend
  <2>7. DOMAIN data = Nodes
    BY <1>2
  <2>8. data' \in [Nodes' -> Int]
    BY <1>2, <2>5, <2>6, <2>7
  <2>9. Before /\ Tasks' = Tasks /\ ~Running' /\ ~After'
    BY <2>2 DEF Before, Running, After, Tasks, Program
  <2> QED
    BY <1>2, <2>2, <2>8, <2>9 DEF ReadSoFar
<1>6. CASE BuildRings \/ Shuffle \/ LinkRings
  BY <1>3, <1>6 DEF BuildRings, Shuffle, LinkRings, Rings
<1>7. CASE StartTasks
  <2>1. phase = "build" /\ phase' = "run" /\ SameReading
    BY <1>7 DEF StartTasks, SameReading, SameLists
  <2>2. Before /\ ~Before' /\ ~After' /\ data' = data /\ Nodes' = Nodes
    BY <2>1, SameFacts DEF Before, After, SameReading
  <2>3. SomeRead
    BY <1>2, <2>2, NoneReadYet
  <2>4. SomeRead'
    BY <2>1, <2>3, SomeReadKept
  <2> QED
    BY <1>2, <2>2, <2>4 DEF ReadSoFar
<1>8. CASE \E t \in Tasks : StartTask(t) \/ ReadNode(t)
  <2>1. phase = "run" /\ UNCHANGED <<args, phase, next, data>>
    BY <1>8 DEF StartTask, ReadNode, GoesTo, build
  <2>2. Running /\ ~Before' /\ ~After' /\ Nodes' = Nodes
    BY <2>1 DEF Running, Before, After, Nodes
  <2>3. SomeRead'
    BY <1>2, <1>8, <2>2, SomeReadKept
  <2> QED
    BY <1>2, <2>1, <2>2, <2>3 DEF ReadSoFar
<1>9. CASE StartFreeing \/ FreeNode
  <2>1. /\ phase \in {"run", "free"} /\ phase' \in {"free", "end"} /\ SameReading
        /\ phase = "run" => AllReturned
    BY <1>3, <1>9 DEF StartFreeing, FreeNode, SameReading, SameLists, build, totals
  <2>2. Running /\ ~Before' /\ AllReturned
    BY <1>2, <2>1 DEF Running, Before, After
  <2>3. AllReturned' /\ data' = data /\ Nodes' = Nodes
    BY <2>1, <2>2, SameFacts DEF SameReading, AllReturned
  <2>4. SomeRead'
    BY <1>2, <2>1, <2>2, SomeReadKept
  <2> QED
    BY <1>2, <2>2, <2>3, <2>4 DEF ReadSoFar
<1>10. CASE UNCHANGED tracingVars \/ Ended
  <2>1. phase' = phase /\ SameReading
    BY <1>10 DEF Ended, tracingVars, build, totals, SameReading, SameLists
  <2>2. (Before' <=> Before) /\ (Running' <=> Running) /\ (After' <=> After)
    BY <2>1 DEF Before, Running, After
  <2>3. UNCHANGED <<data, mine, total_accum, tra_times>> /\ Nodes' = Nodes /\ Tasks' = Tasks
    BY <2>1, SameFacts DEF SameReading, totals
  <2>4. Running => SomeRead'
    BY <1>2, <2>1, SomeReadKept
  <2> QED
    BY <1>2, <2>2, <2>3, <2>4 DEF ReadSoFar, AllReturned
<1> QED
  BY <1>4, <1>5, <1>6, <1>7, <1>8, <1>9, <1>10 DEF TracingNext


------------------------------------------------------------------------------
\* nodes are the nodes of each ring, from the head on: every node is in one ring, at one
\* place.  While old_pointer_tracing makes its rings, allList is where they end.
Old == Program = "old_pointer_tracing"
RingLinks(nodes, i) ==
  /\ head[i] = IF Len(nodes[i]) = 0 THEN NULL ELSE nodes[i][1]
  /\ \A k \in 1 .. Len(nodes[i]) :
       next[nodes[i][k]] = nodes[i][IF k < Len(nodes[i]) THEN k + 1 ELSE 1]
InRing(nodes, n) == \E i \in Lists : \E k \in 1 .. Len(nodes[i]) : nodes[i][k] = n
RingPlaces(nodes) ==
  \A i, j \in Lists : \A k \in 1 .. Len(nodes[i]), l \in 1 .. Len(nodes[j]) :
    nodes[i][k] = nodes[j][l] => i = j /\ k = l
Ringed(nodes) ==
  /\ nodes \in [Lists -> Seq(Nodes)]
  /\ \A i \in Lists : RingLinks(nodes, i)
  /\ \A n \in Nodes : InRing(nodes, n)
  /\ RingPlaces(nodes)
RingEnds(nodes) ==
  \A i \in Lists : allList[i] = IF Len(nodes[i]) = 0 THEN NULL ELSE nodes[i][Len(nodes[i])]
NoneEmpty(nodes) == \A i \in Lists : Len(nodes[i]) > 0

RingsMade ==
  \E nodes : /\ Ringed(nodes)
             /\ Old /\ Before => RingEnds(nodes)
             /\ ~Old /\ Nodes # {} => NoneEmpty(nodes)

\* The rings are rings, of the nodes in the order of mBitmap or in that of insertion.
RingInv ==
  Program \in Rings =>
    /\ data \in [Nodes -> Int]
    /\ ~Old => \A i, j \in DOMAIN mBitmap : mBitmap[i] = mBitmap[j] => i = j
    /\ RingsMade
    /\ Before => /\ total_accum = 0 /\ tra_times = 0
                 /\ \A t \in Tasks : mine[t].at = "new" /\ mine[t].times = 0

LEMMA RingFacts ==
  ASSUME NEW nodes, Ringed(nodes), NEW i \in Lists
  PROVE  /\ nodes[i] \in Seq(Nodes) /\ Len(nodes[i]) \in Nat
         /\ \A k \in 1 .. Len(nodes[i]) : nodes[i][k] \in Nodes
         /\ RingLinks(nodes, i)
<1>1. nodes[i] \in Seq(Nodes) /\ RingLinks(nodes, i)
  BY DEF Ringed
<1> QED
  BY <1>1, ElementOfSeq

LEMMA RingPlaceOnly ==
  ASSUME NEW nodes, Ringed(nodes), NEW i \in Lists, NEW j \in Lists,
         NEW k \in 1 .. Len(nodes[i]), NEW l \in 1 .. Len(nodes[j]), nodes[i][k] = nodes[j][l]
  PROVE  i = j /\ k = l
<1>1. \A h, g \in Lists : \A x \in 1 .. Len(nodes[h]), y \in 1 .. Len(nodes[g]) :
        nodes[h][x] = nodes[g][y] => h = g /\ x = y
  BY Zenon DEF Ringed, RingPlaces
<1> QED
  BY <1>1, Zenon

LEMMA RingedKept ==
  ASSUME UNCHANGED <<args, head, next>>, NEW nodes
  PROVE  /\ Ringed(nodes)' <=> Ringed(nodes)
         /\ NoneEmpty(nodes)' <=> NoneEmpty(nodes)
         /\ Nodes' = Nodes /\ (Old' <=> Old)
BY DEF Ringed, RingLinks, InRing, RingPlaces, Lists, Nodes, NoneEmpty, Old, Program

\* Inserting a node makes the ring longer by it.
LEMMA RingGrows ==
  ASSUME TracingInv, Program \in Rings, NEW nodes, Ringed(nodes), RingEnds(nodes),
         NEW i \in Lists, NEW l, l = Allocated, insertToListI(i, l), args' = args
  PROVE  \E more : Ringed(more)' /\ RingEnds(more)'
<1>1. /\ l \in Nat /\ l \notin Nodes /\ Nodes' = Nodes \cup {l}
      /\ head' = [head EXCEPT ![i] = IF head[i] = NULL THEN l ELSE head[i]]
      /\ allList' = [allList EXCEPT ![i] = l]
      /\ \A n \in Nodes : next'[n] = IF head[i] # NULL /\ n = allList[i] THEN l ELSE next[n]
  BY Inserts
<1>2. head \in [Lists -> Nodes \cup {NULL}] /\ allList \in [Lists -> Nodes \cup {NULL}]
      /\ Lists' = Lists /\ \A n \in Nodes : n # NULL
  BY DEF TracingInv, Closed, Lists, NULL
<1>3. next'[l] = IF head[i] = NULL THEN l ELSE head[i]
  <2>1. PICK first, linked : /\ first = (IF head[i] = NULL THEN l ELSE head[i])
                             /\ linked = (IF head[i] = NULL THEN next
                                          ELSE [next EXCEPT ![allList[i]] = l])
    OBVIOUS
  <2>2. next' = Extend(linked, l, first)
    BY <2>1 DEF insertToListI
  <2> QED
    BY <2>1, <2>2 DEF Extend
<1>4. PICK more : more = [nodes EXCEPT ![i] = Append(nodes[i], l)]
  OBVIOUS
<1>5. PICK m : m = Len(nodes[i])
  OBVIOUS
<1>6. nodes \in [Lists -> Seq(Nodes)] /\ nodes[i] \in Seq(Nodes) /\ m \in Nat
  BY <1>5, RingFacts DEF Ringed
<1>7. /\ more \in [Lists -> Seq(Nodes \cup {l})]
      /\ \A j \in Lists : j # i => more[j] = nodes[j]
      /\ more[i] = Append(nodes[i], l)
  <2>1. Append(nodes[i], l) \in Seq(Nodes \cup {l})
    BY <1>6
  <2>2. \A j \in Lists : nodes[j] \in Seq(Nodes \cup {l})
    BY <1>6
  <2> QED
    BY <1>4, <1>6, <2>1, <2>2
<1>8. /\ Len(more[i]) = m + 1 /\ more[i][m + 1] = l
      /\ \A k \in 1 .. m : more[i][k] = nodes[i][k] /\ nodes[i][k] \in Nodes
  BY <1>5, <1>6, <1>7
<1>9. \A j \in Lists : /\ Len(nodes[j]) \in Nat
                       /\ \A k \in 1 .. Len(nodes[j]) : nodes[j][k] \in Nodes
                       /\ RingLinks(nodes, j)
  BY RingFacts
<1>10. /\ head[i] = IF m = 0 THEN NULL ELSE nodes[i][1]
       /\ allList[i] = IF m = 0 THEN NULL ELSE nodes[i][m]
       /\ \A k \in 1 .. m : next[nodes[i][k]] = nodes[i][IF k < m THEN k + 1 ELSE 1]
  BY <1>5, <1>9 DEF RingLinks, RingEnds
<1>11. /\ head[i] = NULL <=> m = 0
       /\ m # 0 => m \in 1 .. m /\ 1 \in 1 .. m
  BY <1>2, <1>6, <1>8, <1>10
<1>12. ASSUME NEW j \in Lists
       PROVE  RingLinks(more, j)'
  <2>1. CASE j # i
    <3>1. head'[j] = head[j] /\ more[j] = nodes[j]
      BY <1>1, <1>2, <1>7, <2>1
    <3>2. ASSUME NEW k \in 1 .. Len(nodes[j])
          PROVE  next'[nodes[j][k]] = next[nodes[j][k]]
      <4>1. nodes[j][k] \in Nodes
        BY <1>9
      <4>2. CASE m = 0
        BY <1>1, <1>11, <4>1, <4>2
      <4>3. CASE m # 0
        <5>1. nodes[j][k] # nodes[i][m]
          BY <1>5, <1>11, <2>1, <4>3, RingPlaceOnly
        <5> QED
          BY <1>1, <1>10, <4>1, <4>3, <5>1
      <4> QED
        BY <4>2, <4>3
    <3> QED
      BY <1>9, <3>1, <3>2 DEF RingLinks
  <2>2. CASE j = i
    <3>1. head'[i] = more[i][1]
      <4>1. CASE m = 0
        BY <1>1, <1>2, <1>8, <1>11, <4>1
      <4>2. CASE m # 0
        BY <1>1, <1>2, <1>8, <1>10, <1>11, <4>2
      <4> QED
        BY <4>1, <4>2
    <3>2. ASSUME NEW k \in 1 .. m, k < m
          PROVE  next'[more[i][k]] = more[i][k + 1]
      <4>1. nodes[i][k] # nodes[i][m]
        <5>1. k # m /\ m \in 1 .. m
          BY <1>6, <3>2
        <5> QED
          BY <1>5, <5>1, RingPlaceOnly
      <4>2. k + 1 \in 1 .. m
        BY <1>6, <3>2
      <4>3. next'[nodes[i][k]] = nodes[i][k + 1]
        BY <1>1, <1>8, <1>10, <1>11, <3>2, <4>1
      <4> QED
        BY <1>8, <4>2, <4>3
    <3>3. m # 0 => next'[more[i][m]] = more[i][m + 1]
      BY <1>1, <1>8, <1>10, <1>11
    <3>4. next'[more[i][m + 1]] = more[i][1]
      <4>1. CASE m = 0
        BY <1>3, <1>8, <1>11, <4>1
      <4>2. CASE m # 0
        BY <1>3, <1>8, <1>10, <1>11, <4>2
      <4> QED
        BY <4>1, <4>2
    <3>5. ASSUME NEW k \in 1 .. m + 1
          PROVE  next'[more[i][k]] = more[i][IF k < m + 1 THEN k + 1 ELSE 1]
      <4>1. CASE k = m + 1
        <5>1. ~(k < m + 1)
          BY <1>6, <4>1
        <5> QED
          BY <3>4, <4>1, <5>1
      <4>2. CASE k = m /\ m # 0
        <5>1. k < m + 1
          BY <1>6, <4>2
        <5> QED
          BY <3>3, <4>2, <5>1
      <4>3. CASE k < m
        <5>1. k \in 1 .. m /\ k < m + 1
          BY <1>6, <4>3
        <5> QED
          BY <3>2, <4>3, <5>1
      <4> QED
        BY <1>6, <4>1, <4>2, <4>3
    <3>6. Len(more[i]) # 0
      BY <1>6, <1>8
    <3> QED
      BY <1>8, <2>2, <3>1, <3>5, <3>6 DEF RingLinks
  <2> QED
    BY <2>1, <2>2
<1>13. ASSUME NEW n \in Nodes \cup {l}
       PROVE  InRing(more, n)'
  <2>1. CASE n = l
    <3>1. m + 1 \in 1 .. Len(more[i])
      BY <1>6, <1>8
    <3> QED
      BY <1>2, <1>8, <2>1, <3>1 DEF InRing
  <2>2. CASE n # l
    <3>1. PICK j \in Lists : \E k \in 1 .. Len(nodes[j]) : nodes[j][k] = n
      BY <2>2 DEF Ringed, InRing
    <3>2. PICK k \in 1 .. Len(nodes[j]) : nodes[j][k] = n
      BY <3>1
    <3>3. k \in 1 .. Len(more[j]) /\ more[j][k] = n
      <4>1. CASE j = i
        BY <1>5, <1>6, <1>8, <3>2, <4>1
      <4>2. CASE j # i
        BY <1>7, <3>2, <4>2
      <4> QED
        BY <4>1, <4>2
    <3> QED
      BY <1>2, <3>3 DEF InRing
  <2> QED
    BY <2>1, <2>2
<1>14. RingPlaces(more)
  <2> SUFFICES ASSUME NEW x \in Lists, NEW y \in Lists, NEW k \in 1 .. Len(more[x]),
                      NEW p \in 1 .. Len(more[y]), more[x][k] = more[y][p]
               PROVE  x = y /\ k = p
    BY DEF RingPlaces
  <2>1. ASSUME NEW z \in Lists, NEW q \in 1 .. Len(more[z])
        PROVE  \/ z = i /\ q = m + 1 /\ more[z][q] = l
               \/ q \in 1 .. Len(nodes[z]) /\ more[z][q] = nodes[z][q] /\ nodes[z][q] \in Nodes
    <3>1. CASE z = i /\ q = m + 1
      BY <1>8, <3>1
    <3>2. CASE z = i /\ q # m + 1
      <4>1. q \in 1 .. m
        BY <1>6, <1>8, <3>2
      <4> QED
        BY <1>5, <1>8, <3>2, <4>1
    <3>3. CASE z # i
      <4>1. more[z] = nodes[z]
        BY <1>7, <3>3
      <4> QED
        BY <1>9, <4>1
    <3> QED
      BY <3>1, <3>2, <3>3
  <2>2. CASE more[x][k] = l
    <3>1. l \notin Nodes /\ more[y][p] = l
      BY <1>1, <2>2
    <3>2. \/ x = i /\ k = m + 1
          \/ more[x][k] \in Nodes
      BY <2>1
    <3>3. \/ y = i /\ p = m + 1
          \/ more[y][p] \in Nodes
      BY <2>1
    <3> QED
      BY <2>2, <3>1, <3>2, <3>3
  <2>3. CASE more[x][k] # l
    <3>1. k \in 1 .. Len(nodes[x]) /\ p \in 1 .. Len(nodes[y]) /\ nodes[x][k] = nodes[y][p]
      BY <2>1, <2>3
    <3> QED
      BY <3>1, RingPlaceOnly
  <2> QED
    BY <2>2, <2>3
<1>15. Ringed(more)'
  <2>1. RingPlaces(more)'
    BY <1>2, <1>14 DEF RingPlaces
  <2> QED
    BY <1>1, <1>2, <1>7, <1>12, <1>13, <2>1 DEF Ringed
<1>16. RingEnds(more)'
  <2>1. ASSUME NEW j \in Lists
        PROVE  allList'[j] = IF Len(more[j]) = 0 THEN NULL ELSE more[j][Len(more[j])]
    <3>1. CASE j = i
      <4>1. allList'[i] = l /\ Len(more[i]) # 0
        BY <1>1, <1>2, <1>6, <1>8
      <4> QED
        BY <1>8, <3>1, <4>1
    <3>2. CASE j # i
      <4>1. allList'[j] = allList[j]
        BY <1>1, <1>2, <3>2
      <4> QED
        BY <1>7, <3>2, <4>1 DEF RingEnds
    <3> QED
      BY <3>1, <3>2
  <2> QED
    BY <1>2, <2>1 DEF RingEnds
<1> QED
  BY <1>15, <1>16

\* Where the k-th of the nodes dealt to ring i lies in mBitmap, and that no other does.
LEMMA RingAt ==
  ASSUME NEW c \in Nat \ {0}, NEW q \in Nat \ {0}, NEW i \in 0 .. c - 1, NEW k \in 1 .. q
  PROVE  /\ i * q \in Nat /\ i * q + (k - 1) \in 0 .. c * q - 1
         /\ (i * q + (k - 1)) % q = k - 1 /\ (i * q + (k - 1)) \div q = i
<1>1. i * q \in Nat /\ c * q \in Nat /\ i * q + q <= c * q /\ q * i = i * q
  <2>1. i \in Nat /\ i < c /\ q \in Nat /\ c \in Nat
    OBVIOUS
  <2>2. q * i = i * q
    BY <2>1
  <2> QED
    BY <2>1, <2>2, ProductGrows
<1>2. k - 1 \in 0 .. q - 1 /\ i \in Nat
  OBVIOUS
<1>3. (q * i + (k - 1)) % q = k - 1 /\ (q * i + (k - 1)) \div q = i
  BY <1>2, Remainder
<1> QED
  BY <1>1, <1>2, <1>3

\* pointer_tracing makes a ring of each listLen nodes of mBitmap.
LEMMA RingsLinked ==
  ASSUME TracingInv, RingInv, LinkRings
  PROVE  /\ data' \in [Nodes' -> Int]
         /\ \E nodes : Ringed(nodes)' /\ NoneEmpty(nodes)'
<1>1. phase = "build" /\ Program = "pointer_tracing" /\ args' = args
  BY DEF LinkRings
<1>2. PICK q : q = args.TOTAL_DATA \div args.TOTAL_LISTS
  OBVIOUS
<1>3. PICK place : place = [n \in DOMAIN mBitmap |-> CHOOSE i \in DOMAIN mBitmap : mBitmap[i] = n]
  OBVIOUS
<1>4. /\ head' = [i \in Lists |-> mBitmap[i * q]]
      /\ next' = [n \in DOMAIN mBitmap |-> RingNext(place[n], q)]
      /\ data' = place
  BY <1>2, <1>3 DEF LinkRings
<1>5. PICK m \in Nat, c \in Nat \ {0} : m = args.TOTAL_DATA /\ c = args.TOTAL_LISTS
                                       /\ m >= c /\ m % c = 0
  <2>1. /\ args.TOTAL_DATA \in Nat /\ args.TOTAL_LISTS \in Nat /\ args.TOTAL_LISTS > 0
        /\ args.TOTAL_DATA >= args.TOTAL_LISTS /\ args.TOTAL_DATA % args.TOTAL_LISTS = 0
    BY <1>1, ArgumentsGiven DEF TracingInv, Forked, Rings
  <2> QED
    BY <2>1
<1>6. /\ mBitmap \in [0 .. m - 1 -> 0 .. m - 1]
      /\ \A n \in 0 .. m - 1 : \E i \in 0 .. m - 1 : mBitmap[i] = n
      /\ \A i, j \in 0 .. m - 1 : mBitmap[i] = mBitmap[j] => i = j
  <2>1. /\ mBitmap \in [0 .. m - 1 -> 0 .. m - 1]
        /\ \A n \in 0 .. m - 1 : \E i \in 0 .. m - 1 : mBitmap[i] = n
    BY <1>1, <1>5 DEF TracingInv, Closed
  <2>2. \A i, j \in DOMAIN mBitmap : mBitmap[i] = mBitmap[j] => i = j
    BY <1>1 DEF RingInv, Rings, Old
  <2> QED
    BY <2>1, <2>2
<1>7. q \in Nat \ {0} /\ m = c * q
  <2>1. m \div c \in Nat /\ m = c * (m \div c) + (m % c)
    BY Division
  <2>2. q \in Nat /\ m = c * q + (m % c)
    BY <1>2, <1>5, <2>1
  <2>3. c * q \in Nat /\ c * 0 = 0
    BY <1>5, <2>2
  <2> QED
    BY <1>5, <2>2, <2>3
<1>8. Lists = 0 .. c - 1 /\ Lists' = Lists
  BY <1>1, <1>5 DEF Lists
<1>9. ASSUME NEW p \in 0 .. m - 1
      PROVE  place[mBitmap[p]] = p
  <2>1. mBitmap[p] \in 0 .. m - 1 /\ place[mBitmap[p]] \in 0 .. m - 1
        /\ mBitmap[place[mBitmap[p]]] = mBitmap[p]
    BY <1>3, <1>6
  <2> QED
    BY <1>6, <2>1
<1>10. place \in [0 .. m - 1 -> 0 .. m - 1]
  <2>1. \A n \in 0 .. m - 1 : (CHOOSE i \in 0 .. m - 1 : mBitmap[i] = n) \in 0 .. m - 1
    BY <1>6
  <2>2. DOMAIN mBitmap = 0 .. m - 1
    BY <1>6
  <2>3. place = [n \in 0 .. m - 1 |-> CHOOSE i \in 0 .. m - 1 : mBitmap[i] = n]
    BY <1>3, <2>2
  <2> QED
    BY <2>1, <2>3
<1>11. Nodes' = 0 .. m - 1 /\ data' \in [Nodes' -> Int]
  <2>1. Nodes' = 0 .. m - 1
    BY <1>4, <1>6 DEF Nodes
  <2> QED
    BY <1>4, <1>10, <2>1
<1>12. \A p \in 0 .. m - 1 : next'[mBitmap[p]] = RingNext(p, q)
  BY <1>4, <1>6, <1>9
<1>13. PICK nodes : nodes = [i \in Lists |-> [k \in 1 .. q |-> mBitmap[i * q + (k - 1)]]]
  OBVIOUS
<1>14. ASSUME NEW i \in Lists
       PROVE  /\ nodes[i] \in Seq(Nodes') /\ Len(nodes[i]) = q
              /\ \A k \in 1 .. q : /\ nodes[i][k] = mBitmap[i * q + (k - 1)]
                                   /\ i * q + (k - 1) \in 0 .. m - 1
  <2>1. \A k \in 1 .. q : i * q + (k - 1) \in 0 .. m - 1
    BY <1>7, <1>8, RingAt
  <2>2. nodes[i] = [k \in 1 .. q |-> mBitmap[i * q + (k - 1)]]
    BY <1>13
  <2>3. nodes[i] \in [1 .. q -> Nodes'] /\ DOMAIN nodes[i] = 1 .. q
    <3>1. \A k \in 1 .. q : mBitmap[i * q + (k - 1)] \in Nodes'
      BY <1>6, <1>11, <2>1
    <3> QED
      BY <2>2, <3>1
  <2>4. nodes[i] \in Seq(Nodes') /\ Len(nodes[i]) = q
    BY <1>7, <2>3
  <2> QED
    BY <2>1, <2>2, <2>4
<1>15. ASSUME NEW i \in Lists
       PROVE  RingLinks(nodes, i)'
  <2>1. head'[i] = nodes[i][1]
    <3>1. 1 \in 1 .. q /\ i * q \in Nat /\ i * q + (1 - 1) = i * q
      BY <1>7, <1>8, RingAt
    <3>2. nodes[i][1] = mBitmap[i * q]
      BY <1>14, <3>1
    <3> QED
      BY <1>4, <3>2
  <2>2. ASSUME NEW k \in 1 .. q
        PROVE  next'[nodes[i][k]] = nodes[i][IF k < q THEN k + 1 ELSE 1]
    <3>1. PICK p \in 0 .. m - 1 : p = i * q + (k - 1)
      BY <1>14
    <3>2. i * q \in Nat /\ p % q = k - 1
      BY <1>7, <1>8, <3>1, RingAt
    <3>3. next'[nodes[i][k]] = RingNext(p, q)
      BY <1>12, <1>14, <3>1
    <3>4. CASE k < q
      <4>1. k + 1 \in 1 .. q /\ i * q + ((k + 1) - 1) = p + 1
        BY <1>7, <3>1, <3>2, <3>4
      <4>2. p + 1 \in 0 .. m - 1 /\ nodes[i][k + 1] = mBitmap[p + 1]
        BY <1>14, <4>1
      <4>3. p # m - 1 /\ p % q # q - 1
        BY <1>7, <3>2, <3>4, <4>2
      <4> QED
        BY <1>5, <3>3, <3>4, <4>2, <4>3 DEF RingNext
    <3>5. CASE ~(k < q)
      <4>1. k = q /\ p % q = q - 1 /\ p - (p % q) = i * q + (1 - 1) /\ 1 \in 1 .. q
        BY <1>7, <3>1, <3>2, <3>5
      <4>2. nodes[i][1] = mBitmap[p - (p % q)]
        BY <1>14, <4>1
      <4> QED
        BY <1>5, <3>3, <3>5, <4>1, <4>2 DEF RingNext
    <3> QED
      BY <3>4, <3>5
  <2>3. Len(nodes[i]) # 0
    BY <1>7, <1>14
  <2> QED
    BY <1>14, <2>1, <2>2, <2>3 DEF RingLinks
<1>16. ASSUME NEW n \in 0 .. m - 1
       PROVE  InRing(nodes, n)'
  <2>1. PICK p \in 0 .. m - 1 : mBitmap[p] = n
    BY <1>6
  <2>2. PICK i, r : i = p \div q /\ r = p % q
    OBVIOUS
  <2>3. i \in Nat /\ r \in 0 .. q - 1 /\ p = q * i + r
    <3>1. p \in Nat /\ q \in Nat \ {0}
      BY <1>7
    <3> QED
      BY <2>2, <3>1, Division
  <2>4. i < c
    <3>1. ASSUME ~(i < c)
          PROVE  FALSE
      <4>1. c = i \/ c < i
        BY <1>5, <2>3, <3>1
      <4>2. c < i => c * q + q <= i * q
        BY <1>5, <1>7, <2>3, ProductGrows
      <4>3. q * i = i * q /\ c * q \in Nat
        BY <1>5, <1>7, <2>3
      <4>4. c * q <= q * i
        <5>1. CASE c = i
          BY <4>3, <5>1
        <5>2. CASE c < i
          <6>1. PICK u, v \in Nat : u = c * q /\ v = i * q
            BY <1>7, <2>3, <4>3
          <6>2. u + q <= v
            BY <4>2, <5>2, <6>1
          <6> QED
            BY <1>7, <4>3, <6>1, <6>2
        <5> QED
          BY <4>1, <5>1, <5>2
      <4> QED
        BY <1>7, <2>3, <4>3, <4>4
    <3> QED
      BY <3>1
  <2>5. i \in Lists /\ r + 1 \in 1 .. q /\ i * q + ((r + 1) - 1) = p
    <3>1. q * i = i * q /\ i * q \in Nat
      BY <1>7, <2>3
    <3> QED
      BY <1>5, <1>7, <1>8, <2>3, <2>4, <3>1
  <2>6. nodes[i][r + 1] = n
    BY <1>14, <2>1, <2>5
  <2> QED
    BY <1>8, <1>14, <2>5, <2>6 DEF InRing
<1>17. RingPlaces(nodes)
  <2> SUFFICES ASSUME NEW i \in Lists, NEW j \in Lists, NEW k \in 1 .. q, NEW l \in 1 .. q,
                      nodes[i][k] = nodes[j][l]
               PROVE  i = j /\ k = l
    BY <1>14 DEF RingPlaces
  <2>1. PICK x, y \in 0 .. m - 1 : x = i * q + (k - 1) /\ y = j * q + (l - 1)
    BY <1>14
  <2>2. x = y
    BY <1>6, <1>14, <2>1
  <2>3. x % q = k - 1 /\ x \div q = i /\ y % q = l - 1 /\ y \div q = j
    <3>1. (i * q + (k - 1)) % q = k - 1 /\ (i * q + (k - 1)) \div q = i
      BY <1>7, <1>8, RingAt
    <3>2. (j * q + (l - 1)) % q = l - 1 /\ (j * q + (l - 1)) \div q = j
      BY <1>7, <1>8, RingAt
    <3> QED
      BY <2>1, <3>1, <3>2
  <2> QED
    BY <2>2, <2>3
<1>18. RingPlaces(nodes)'
  BY <1>8, <1>17 DEF RingPlaces
<1>19. nodes \in [Lists -> Seq(Nodes')]
  BY <1>13, <1>14
<1>20. Ringed(nodes)'
  BY <1>8, <1>11, <1>15, <1>16, <1>18, <1>19 DEF Ringed
<1>21. NoneEmpty(nodes)'
  BY <1>7, <1>8, <1>14 DEF NoneEmpty
<1> QED
  BY <1>11, <1>20, <1>21

LEMMA RingInvInit == TracingInit => RingInv
<1> SUFFICES ASSUME TracingInit, Program \in Rings
             PROVE  RingInv
  BY DEF RingInv
<1>1. /\ phase = "processes" /\ data = Empty /\ next = Empty
      /\ head = [i \in Lists |-> NULL] /\ allList = head
      /\ mBitmap = (IF Program = "pointer_tracing"
                    THEN [i \in 0 .. args.TOTAL_DATA - 1 |-> i] ELSE Empty)
      /\ total_accum = 0 /\ tra_times = 0
      /\ \A t \in Tasks : mine[t].at = "new" /\ mine[t].times = 0
  BY DEF TracingInit
<1>2. Nodes = {} /\ data \in [Nodes -> Int]
  BY <1>1 DEF Nodes, Empty
<1>3. ~Old => \A i, j \in DOMAIN mBitmap : mBitmap[i] = mBitmap[j] => i = j
  BY <1>1 DEF Old, Rings
<1>4. PICK nodes : nodes = [i \in Lists |-> << >>]
  OBVIOUS
<1>5. nodes \in [Lists -> Seq(Nodes)] /\ \A i \in Lists : Len(nodes[i]) = 0
  BY <1>4
<1>6. Ringed(nodes) /\ RingEnds(nodes)
  BY <1>1, <1>2, <1>5 DEF Ringed, RingEnds, RingLinks, RingPlaces
<1>7. RingsMade
  BY <1>2, <1>6 DEF RingsMade
<1> QED
  BY <1>1, <1>2, <1>3, <1>7 DEF RingInv

\* A step that leaves the rings as they are, and the tasks before they have started.
RingsStay ==
  /\ UNCHANGED <<args, head, next, data, mBitmap>>
  /\ Before' => Before /\ UNCHANGED <<allList, mine, total_accum, tra_times>>

LEMMA RingInvStays == ASSUME RingInv, RingsStay PROVE RingInv'
<1>1. /\ Program' = Program /\ Nodes' = Nodes /\ Tasks' = Tasks /\ (Old' <=> Old)
      /\ Lists' = Lists
  BY DEF RingsStay, Program, Nodes, Tasks, Old, Lists
<1> SUFFICES ASSUME Program \in Rings
             PROVE  RingInv'
  BY <1>1 DEF RingInv
<1>2. RingsMade'
  <2>1. PICK nodes : /\ Ringed(nodes)
                     /\ Old /\ Before => RingEnds(nodes)
                     /\ ~Old /\ Nodes # {} => NoneEmpty(nodes)
    BY DEF RingInv, RingsMade
  <2>2. Ringed(nodes)' /\ (NoneEmpty(nodes)' <=> NoneEmpty(nodes))
    BY <2>1, RingedKept DEF RingsStay
  <2>3. Old /\ Before' => RingEnds(nodes)'
    BY <1>1, <2>1 DEF RingsStay, RingEnds
  <2> QED
    BY <1>1, <2>1, <2>2, <2>3 DEF RingsMade
<1> QED
  BY <1>1, <1>2 DEF RingInv, RingsStay

LEMMA ShuffleStays == ASSUME TracingInv, RingInv, Shuffle PROVE RingInv'
<1>1. /\ phase = "build" /\ Program = "pointer_tracing" /\ len > 1
      /\ UNCHANGED <<args, phase, head, allList, next, data, mine, total_accum, tra_times>>
  BY DEF Shuffle, totals
<1>2. PICK idx \in 0 .. len - 1 :
        mBitmap' = [mBitmap EXCEPT ![idx] = mBitmap[len - 1], ![len - 1] = mBitmap[idx]]
  BY DEF Shuffle
<1>3. PICK m \in Nat : m = args.TOTAL_DATA
  BY ArgumentsGiven DEF TracingInv, Forked
<1>4. /\ mBitmap \in [0 .. m - 1 -> 0 .. m - 1]
      /\ tofillLists \in Int /\ tofillLists <= args.TOTAL_LISTS /\ args.TOTAL_LISTS \in Nat
  BY <1>1, <1>3, ArgumentsGiven DEF TracingInv, Closed, Forked
<1>5. PICK last \in 0 .. m - 1 : last = len - 1 /\ idx \in 0 .. m - 1
  <2>1. len \in Int /\ len <= m /\ len > 1
    BY <1>1, <1>3, <1>4 DEF len
  <2>2. len - 1 \in 0 .. m - 1 /\ idx \in 0 .. m - 1
    BY <1>3, <2>1
  <2> QED
    BY <2>2
<1>6. /\ mBitmap' \in [0 .. m - 1 -> 0 .. m - 1]
      /\ mBitmap'[last] = mBitmap[idx]
      /\ mBitmap'[idx] = mBitmap[last]
      /\ \A i \in 0 .. m - 1 : i # idx /\ i # last => mBitmap'[i] = mBitmap[i]
  BY <1>2, <1>4, <1>5
<1>7. \A i, j \in 0 .. m - 1 : mBitmap[i] = mBitmap[j] => i = j
  BY <1>1, <1>4 DEF RingInv, Rings, Old
<1>8. \A i, j \in DOMAIN mBitmap' : mBitmap'[i] = mBitmap'[j] => i = j
  <2>1. PICK from : from = [i \in 0 .. m - 1 |->
                            IF i = idx THEN last ELSE IF i = last THEN idx ELSE i]
    OBVIOUS
  <2>2. \A i \in 0 .. m - 1 : /\ from[i] \in 0 .. m - 1 /\ mBitmap'[i] = mBitmap[from[i]]
    BY <1>5, <1>6, <2>1
  <2>3. \A i, j \in 0 .. m - 1 : from[i] = from[j] => i = j
    BY <1>5, <2>1
  <2>4. ASSUME NEW i \in 0 .. m - 1, NEW j \in 0 .. m - 1, mBitmap'[i] = mBitmap'[j]
        PROVE  i = j
    <3>1. from[i] = from[j]
      BY <1>7, <2>2, <2>4
    <3> QED
      BY <2>3, <3>1
  <2>5. DOMAIN mBitmap' = 0 .. m - 1
    BY <1>6
  <2> QED
    BY <2>4, <2>5
<1>9. Program' = Program /\ Nodes' = Nodes /\ Tasks' = Tasks /\ ~Old /\ (Old' <=> Old)
      /\ (Before' <=> Before) /\ Program \in Rings
  BY <1>1 DEF Program, Nodes, Tasks, Old, Before, Rings
<1>10. RingsMade'
  <2>1. PICK nodes : Ringed(nodes) /\ (Nodes # {} => NoneEmpty(nodes))
    BY <1>9 DEF RingInv, RingsMade
  <2>2. Ringed(nodes)' /\ (NoneEmpty(nodes)' <=> NoneEmpty(nodes))
    BY <1>1, <2>1, RingedKept
  <2> QED
    BY <1>9, <2>1, <2>2 DEF RingsMade
<1> QED
  BY <1>1, <1>8, <1>9, <1>10 DEF RingInv

LEMMA RingInvStep ==
  ASSUME TracingInv, RingInv, [TracingNext]_tracingVars
  PROVE  RingInv'
<1>1. CASE ForkStep \/ BecomeProcess
  <2>1. /\ phase = "processes" /\ args' = args
        /\ UNCHANGED <<head, allList, mBitmap, data, next, mine, total_accum, tra_times>>
    BY <1>1 DEF ForkStep, BecomeProcess, ForkNext, Fork, ForkFails, Bind, build, totals
  <2> QED
    BY <2>1, RingInvStays DEF RingsStay, Before
<1>2. CASE BuildList
  <2>1. Program \notin Rings /\ Program' = Program
    BY <1>2 DEF BuildList, Program
  <2> QED
    BY <2>1 DEF RingInv
<1>3. CASE BuildRings
  <2>1. /\ phase = "build" /\ Old /\ NewNode
        /\ UNCHANGED <<args, phase, mBitmap, mine, total_accum, tra_times>>
    BY <1>3 DEF BuildRings, totals, Old
  <2>2. PICK i \in Lists : insertToListI(i, Allocated)
    BY <1>3 DEF BuildRings
  <2>3. Program \in Rings /\ Before /\ Before' /\ Old' /\ Program' = Program /\ Tasks' = Tasks
    BY <2>1 DEF Rings, Old, Before, Program, Tasks
  <2>4. PICK nodes : Ringed(nodes) /\ RingEnds(nodes)
    BY <2>1, <2>3 DEF RingInv, RingsMade
  <2>5. RingsMade'
    <3>1. \E more : Ringed(more)' /\ RingEnds(more)'
      BY <2>1, <2>2, <2>3, <2>4, RingGrows
    <3> QED
      BY <2>3, <3>1 DEF RingsMade
  <2>6. data' \in [Nodes' -> Int]
    <3>1. Nodes' = Nodes \cup {Allocated} /\ Allocated \in Nat /\ Allocated \notin Nodes
      BY <2>1, <2>2, Inserts
    <3>2. data' = [z \in DOMAIN data \cup {Allocated} |-> IF z = Allocated THEN Allocated ELSE data[z]]
      BY <2>1 DEF NewNode, Extend
    <3>3. data \in [Nodes -> Int] /\ DOMAIN data = Nodes
      BY <2>3 DEF RingInv
    <3> QED
      BY <3>1, <3>2, <3>3
  <2> QED
    BY <2>1, <2>3, <2>5, <2>6 DEF RingInv
<1>4. CASE Shuffle
  BY <1>4, ShuffleStays
<1>5. CASE LinkRings
  <2>1. /\ phase = "build" /\ Program = "pointer_tracing"
        /\ UNCHANGED <<args, phase, mBitmap, mine, total_accum, tra_times>>
    BY <1>5 DEF LinkRings, totals
  <2>2. /\ Program \in Rings /\ Before /\ ~Old /\ ~Old' /\ Program' = Program /\ Tasks' = Tasks
        /\ Before'
    BY <2>1 DEF Rings, Old, Before, Program, Tasks
  <2>3. RingsMade' /\ data' \in [Nodes' -> Int]
    <3>1. /\ data' \in [Nodes' -> Int]
          /\ \E nodes : Ringed(nodes)' /\ NoneEmpty(nodes)'
      BY <1>5, RingsLinked
    <3> QED
      BY <2>2, <3>1 DEF RingsMade
  <2> QED
    BY <2>1, <2>2, <2>3 DEF RingInv
<1>6. CASE StartTasks
  <2>1. phase' = "run" /\ UNCHANGED <<args, head, next, data, mBitmap>>
    BY <1>6 DEF StartTasks
  <2> QED
    BY <2>1, RingInvStays DEF RingsStay, Before
<1>7. CASE \E t \in Tasks : StartTask(t) \/ ReadNode(t)
  <2>1. phase' = "run" /\ UNCHANGED <<args, head, next, data, mBitmap>>
    BY <1>7 DEF StartTask, ReadNode, GoesTo, build
  <2> QED
    BY <2>1, RingInvStays DEF RingsStay, Before
<1>8. CASE StartFreeing \/ FreeNode
  <2>1. phase' \in {"free", "end"} /\ UNCHANGED <<args, head, next, data, mBitmap>>
    BY <1>8 DEF StartFreeing, FreeNode, build
  <2> QED
    BY <2>1, RingInvStays DEF RingsStay, Before
<1>9. CASE UNCHANGED tracingVars \/ Ended
  <2>1. UNCHANGED <<args, phase, head, allList, next, data, mBitmap, mine, total_accum, tra_times>>
    BY <1>9 DEF Ended, tracingVars, build, totals
  <2> QED
    BY <2>1, RingInvStays DEF RingsStay, Before
<1> QED
  BY <1>1, <1>2, <1>3, <1>4, <1>5, <1>6, <1>7, <1>8, <1>9 DEF TracingNext

------------------------------------------------------------------------------
\* Task t goes round ring t, Count nodes from the head on; h[t] adds up what it reads.
Count(nodes, t) == IF Old THEN Len(nodes[t]) ELSE Steps
At(nodes, t, k) == nodes[t][(k % Len(nodes[t])) + 1]
Values(nodes, t) == [k \in 0 .. Count(nodes, t) - 1 |-> data[At(nodes, t, k)]]
Adding(nodes, h) ==
  \A t \in Lists : /\ h[t] \in [0 .. Count(nodes, t) -> Int]
                   /\ AddsUp(Count(nodes, t), Values(nodes, t), h[t])
                   /\ h[t][Count(nodes, t)] = SumFunction(Values(nodes, t))

\* The rings as the tasks find them.
RingsLaid(nodes) == Ringed(nodes) /\ (~Old => NoneEmpty(nodes)) /\ (Old => allList = head)

LEMMA RingCount ==
  ASSUME TracingInv, Program \in Rings
  PROVE  /\ Tasks = Lists /\ IsFiniteSet(Lists) /\ Steps \in Nat
         /\ Cardinality(Lists) = args.TOTAL_LISTS /\ args.TOTAL_LISTS \in Nat \ {0}
         /\ ~Old <=> Program = "pointer_tracing"
<1>1. PICK c \in Nat \ {0} : c = args.TOTAL_LISTS
  BY ArgumentsGiven DEF TracingInv, Forked
<1>2. Tasks = 0 .. c - 1 /\ Lists = 0 .. c - 1
  BY <1>1 DEF Tasks, Lists
<1>3. IsFiniteSet(0 .. c - 1) /\ Cardinality(0 .. c - 1) = c
  <2>1. PICK e \in Int : e = c - 1 /\ 0 <= e /\ e - 0 + 1 = c
    OBVIOUS
  <2> QED
    BY <2>1, FS_Interval
<1>4. Steps \in Nat
  <2>1. args.TOTAL_TRAVERSE_TIME \in Nat
    BY CommandGiven DEF Command, TracingInv, Forked
  <2>2. PICK u \in Nat : u = args.TOTAL_TRAVERSE_TIME
    BY <2>1
  <2>3. u \div c \in Nat
    BY Division
  <2> QED
    BY <1>1, <2>2, <2>3 DEF Steps
<1>5. ~Old <=> Program = "pointer_tracing"
  BY DEF Old, Rings
<1> QED
  BY <1>1, <1>2, <1>3, <1>4, <1>5

LEMMA AtPlace ==
  ASSUME NEW nodes, NEW t, Len(nodes[t]) \in Nat, NEW k \in Nat, k < Len(nodes[t])
  PROVE  At(nodes, t, k) = nodes[t][k + 1]
<1>1. PICK L \in Nat \ {0} : L = Len(nodes[t])
  OBVIOUS
<1>2. L * 0 = 0 /\ k \in 0 .. L - 1
  BY <1>1
<1>3. (L * 0 + k) % L = k
  BY <1>2, Remainder
<1>4. k % L = k
  BY <1>2, <1>3
<1> QED
  BY <1>1, <1>4 DEF At

\* From the k-th node the link leads to the next, round and round.
LEMMA AtNode ==
  ASSUME TracingInv, NEW nodes, Ringed(nodes), NEW t \in Lists, Len(nodes[t]) # 0, NEW k \in Nat
  PROVE  /\ At(nodes, t, k) \in Nodes
         /\ next[At(nodes, t, k)] = At(nodes, t, k + 1)
         /\ At(nodes, t, 0) = head[t]
<1>1. PICK L \in Nat \ {0} : L = Len(nodes[t])
  BY RingFacts
<1>2. PICK r \in 0 .. L - 1, q \in Nat : k = L * q + r /\ r = k % L
  <2>1. k \div L \in Nat /\ k % L \in 0 .. L - 1 /\ k = L * (k \div L) + (k % L)
    BY Division
  <2> QED
    BY <2>1
<1>3. (k + 1) % L = IF r + 1 < L THEN r + 1 ELSE 0
  <2>1. CASE r + 1 < L
    <3>1. r + 1 \in 0 .. L - 1 /\ L * q \in Nat
      BY <2>1
    <3>2. (L * q + (r + 1)) % L = r + 1
      BY <3>1, Remainder
    <3>3. k + 1 = L * q + (r + 1)
      <4>1. PICK u \in Nat : u = L * q
        BY <3>1
      <4>2. k = u + r
        BY <1>2, <4>1
      <4> QED
        BY <4>1, <4>2
    <3> QED
      BY <2>1, <3>2, <3>3
  <2>2. CASE ~(r + 1 < L)
    <3>1. r + 1 = L /\ q + 1 \in Nat /\ 0 \in 0 .. L - 1
      BY <2>2
    <3>2. (L * (q + 1) + 0) % L = 0
      BY <3>1, Remainder
    <3>3. L * (q + 1) = L * q + L /\ L * q \in Nat
      OBVIOUS
    <3>4. k + 1 = L * (q + 1) + 0
      BY <1>2, <3>1, <3>3
    <3> QED
      BY <2>2, <3>2, <3>4
  <2> QED
    BY <2>1, <2>2
<1>4. /\ \A x \in 1 .. L : nodes[t][x] \in Nodes
      /\ head[t] = nodes[t][1]
      /\ \A x \in 1 .. L : next[nodes[t][x]] = nodes[t][IF x < L THEN x + 1 ELSE 1]
  BY <1>1, RingFacts DEF RingLinks
<1>5. r + 1 \in 1 .. L /\ At(nodes, t, k) = nodes[t][r + 1]
  <2>1. At(nodes, t, k) = nodes[t][(k % L) + 1]
    BY <1>1 DEF At
  <2>2. k % L = r /\ r + 1 \in 1 .. L
    BY <1>2
  <2> QED
    BY <2>1, <2>2
<1>6. At(nodes, t, k + 1) = nodes[t][IF r + 1 < L THEN (r + 1) + 1 ELSE 1]
  <2>1. At(nodes, t, k + 1) = nodes[t][((k + 1) % L) + 1]
    BY <1>1 DEF At
  <2>2. (IF r + 1 < L THEN r + 1 ELSE 0) + 1 = IF r + 1 < L THEN (r + 1) + 1 ELSE 1
    OBVIOUS
  <2> QED
    BY <1>3, <2>1, <2>2
<1>7. At(nodes, t, 0) = nodes[t][1]
  BY <1>1, AtPlace
<1> QED
  BY <1>1, <1>2, <1>4, <1>5, <1>6, <1>7

LEMMA RingGoesOn ==
  ASSUME TracingInv, Program \in Rings, NEW nodes, RingsLaid(nodes), NEW t \in Tasks
  PROVE  /\ Count(nodes, t) \in Nat
         /\ Count(nodes, t) > 0 => Len(nodes[t]) # 0
         /\ FirstPlace(t).node = IF Count(nodes, t) > 0 THEN At(nodes, t, 0) ELSE NULL
         /\ FirstPlace(t).i = 0
         /\ \A k \in 0 .. Count(nodes, t) - 1 : \A j :
              LET place == NextPlace(t, k, j, At(nodes, t, k)) IN
              /\ place.node = IF k + 1 < Count(nodes, t) THEN At(nodes, t, k + 1) ELSE NULL
              /\ ~Old => place.i = k + 1
              /\ At(nodes, t, k) \in Nodes
<1>1. t \in Lists /\ Steps \in Nat /\ (~Old <=> Program = "pointer_tracing")
  BY RingCount
<1>2. /\ Ringed(nodes) /\ (~Old => NoneEmpty(nodes)) /\ (Old => allList = head)
  BY DEF RingsLaid
<1>3. PICK L \in Nat : L = Len(nodes[t])
  BY <1>1, <1>2, RingFacts
<1>4. PICK C \in Nat : C = Count(nodes, t) /\ C = IF Old THEN L ELSE Steps
  BY <1>1, <1>3 DEF Count
<1>5. C > 0 => L # 0
  BY <1>1, <1>2, <1>3, <1>4 DEF NoneEmpty
<1>6. head[t] = IF L = 0 THEN NULL ELSE At(nodes, t, 0)
  <2>1. CASE L = 0
    BY <1>1, <1>2, <1>3, <2>1, RingFacts DEF RingLinks
  <2>2. CASE L # 0
    BY <1>1, <1>2, <1>3, <2>2, AtNode
  <2> QED
    BY <2>1, <2>2
<1>7. /\ FirstPlace(t).node = IF C > 0 THEN At(nodes, t, 0) ELSE NULL
      /\ FirstPlace(t).i = 0
  <2>1. CASE Old
    <3>1. FirstPlace(t) = Place(0, t, allList[t])
      BY <2>1 DEF Old, FirstPlace, FirstInRing
    <3>2. FirstPlace(t).node = head[t] /\ FirstPlace(t).i = 0
      BY <1>2, <2>1, <3>1 DEF Place
    <3> QED
      BY <1>4, <1>6, <2>1, <3>2
  <2>2. CASE ~Old
    <3>1. FirstPlace(t) = Place(0, t, IF Steps > 0 THEN head[t] ELSE NULL)
      BY <1>1, <2>2 DEF FirstPlace, FirstStep
    <3>2. FirstPlace(t).node = (IF Steps > 0 THEN head[t] ELSE NULL) /\ FirstPlace(t).i = 0
      BY <3>1 DEF Place
    <3> QED
      BY <1>4, <1>5, <1>6, <2>2, <3>2
  <2> QED
    BY <2>1, <2>2
<1>8. ASSUME NEW k \in 0 .. C - 1, NEW j, NEW place, place = NextPlace(t, k, j, At(nodes, t, k))
      PROVE  /\ place.node = IF k + 1 < C THEN At(nodes, t, k + 1) ELSE NULL
             /\ ~Old => place.i = k + 1
             /\ At(nodes, t, k) \in Nodes
  <2>1. k \in Nat /\ L # 0
    BY <1>5
  <2>2. /\ At(nodes, t, k) \in Nodes
        /\ next[At(nodes, t, k)] = At(nodes, t, k + 1)
    BY <1>1, <1>2, <1>3, <2>1, AtNode
  <2>3. CASE Old
    <3>1. place = Place(k, j, IF At(nodes, t, k + 1) # head[t] THEN At(nodes, t, k + 1) ELSE NULL)
      BY <1>8, <2>2, <2>3 DEF Old, NextPlace, NextInRing
    <3>2. place.node = IF At(nodes, t, k + 1) # head[t] THEN At(nodes, t, k + 1) ELSE NULL
      BY <3>1 DEF Place
    <3>3. At(nodes, t, k + 1) # head[t] <=> k + 1 < C
      <4>1. CASE k + 1 < C
        <5>1. k + 1 \in Nat /\ k + 1 < Len(nodes[t]) /\ Len(nodes[t]) # 0 /\ (k + 1) + 1 \in 1 .. L 
              /\ 1 \in 1 .. L /\ (k + 1) + 1 # 1
          BY <1>3, <1>4, <2>1, <2>3, <4>1
        <5>2. At(nodes, t, k + 1) = nodes[t][(k + 1) + 1]
          BY <1>3, <5>1, AtPlace
        <5>3. head[t] = nodes[t][1]
          BY <1>1, <1>2, <1>3, <2>1, RingFacts DEF RingLinks
        <5>4. nodes[t][(k + 1) + 1] # nodes[t][1]
          BY <1>1, <1>2, <1>3, <5>1, RingPlaceOnly
        <5> QED
          BY <4>1, <5>2, <5>3, <5>4
      <4>2. CASE ~(k + 1 < C)
        <5>1. k + 1 = L /\ k < Len(nodes[t]) /\ Len(nodes[t]) # 0
          BY <1>3, <1>4, <2>1, <2>3, <4>2
        <5>2. At(nodes, t, k) = nodes[t][k + 1]
          BY <1>3, <2>1, <5>1, AtPlace
        <5>3. head[t] = nodes[t][1] /\ L \in 1 .. L /\ next[nodes[t][L]] = nodes[t][1]
          BY <1>1, <1>2, <1>3, <2>1, RingFacts DEF RingLinks
        <5> QED
          BY <2>2, <4>2, <5>1, <5>2, <5>3
      <4> QED
        BY <4>1, <4>2
    <3> QED
      BY <2>2, <2>3, <3>2, <3>3
  <2>4. CASE ~Old
    <3>1. place = Place(k + 1, j, IF k + 1 < Steps THEN At(nodes, t, k + 1) ELSE NULL)
      BY <1>1, <1>8, <2>2, <2>4 DEF NextPlace, NextStep
    <3> QED
      BY <1>4, <2>2, <2>4, <3>1 DEF Place
  <2> QED
    BY <2>3, <2>4
<1> QED
  BY <1>3, <1>4, <1>5, <1>7, <1>8

\* Where task t of a ring program is: it has read times of its nodes.
Stepped(nodes, h, t, my) ==
  /\ my.at \in {"new", "node", "returned"}
  /\ my.at = "new" => my.times = 0
  /\ my.at # "new" => my.times \in 0 .. Count(nodes, t) /\ my.accum = h[t][my.times]
  /\ my.at = "node" => /\ my.times < Count(nodes, t) /\ my.node = At(nodes, t, my.times)
                       /\ ~Old => my.i = my.times
  /\ my.at = "returned" => my.times = Count(nodes, t)

Given(my) == IF my.at = "returned" THEN my.accum ELSE 0
RingsRead == /\ total_accum = SumFunction([t \in Tasks |-> Given(mine[t])])
             /\ tra_times = SumFunction([t \in Tasks |-> mine[t].times])

Going(nodes, h) == (\A t \in Tasks : Stepped(nodes, h, t, mine[t])) /\ RingsRead

LEMMA SteppedInt ==
  ASSUME TracingInv, Program \in Rings, NEW nodes, RingsLaid(nodes), NEW h, Adding(nodes, h),
         NEW t \in Tasks, NEW my, Stepped(nodes, h, t, my)
  PROVE  my.times \in Int /\ Given(my) \in Int
<1>1. Count(nodes, t) \in Nat /\ t \in Lists
  BY RingGoesOn, RingCount
<1>2. h[t] \in [0 .. Count(nodes, t) -> Int]
  BY <1>1 DEF Adding
<1>3. my.times \in Int
  BY <1>1 DEF Stepped
<1>4. my.at # "new" => my.accum \in Int
  BY <1>2 DEF Stepped
<1> QED
  BY <1>3, <1>4 DEF Given

\* A task that goes on to its k-th node, or that returns.
LEMMA RingGoesTo ==
  ASSUME TracingInv, Program \in Rings, NEW nodes, RingsLaid(nodes), NEW h, Adding(nodes, h),
         Going(nodes, h), NEW t \in Tasks, mine[t].at # "returned", NEW place, NEW k,
         k \in 0 .. Count(nodes, t),
         place.node = IF k < Count(nodes, t) THEN At(nodes, t, k) ELSE NULL,
         At(nodes, t, k) # NULL \/ k = Count(nodes, t), ~Old => place.i = k,
         GoesTo(t, place, h[t][k], k)
  PROVE  Going(nodes, h)'
<1>1. PICK my : my = [at |-> IF place.node = NULL THEN "returned" ELSE "node",
                      i |-> place.i, j |-> place.j, node |-> place.node,
                      accum |-> h[t][k], times |-> k]
  OBVIOUS
<1>2. /\ my.at = (IF place.node = NULL THEN "returned" ELSE "node")
      /\ my.i = place.i /\ my.node = place.node /\ my.accum = h[t][k] /\ my.times = k
  BY <1>1
<1>3. Count(nodes, t) \in Nat
  BY RingGoesOn
<1>4. place.node = NULL <=> k = Count(nodes, t)
  BY <1>3
<1>5. Stepped(nodes, h, t, my)
  BY <1>2, <1>3, <1>4 DEF Stepped
<1>6. /\ mine' = [mine EXCEPT ![t] = my]
      /\ total_accum' = total_accum + Given(my)
      /\ tra_times' = tra_times + (k - mine[t].times)
      /\ UNCHANGED <<args, head, allList, next, data>>
  BY <1>1, <1>2 DEF GoesTo, Given, build
<1>7. /\ mine'[t] = my
      /\ \A u \in Tasks : u # t => mine'[u] = mine[u]
  <2>1. mine = [u \in Tasks |-> mine[u]]
    BY DEF TracingInv, Kept
  <2> QED
    BY <1>6, <2>1
<1>8. \A u \in Tasks : Stepped(nodes, h, u, mine[u])
  BY DEF Going
<1>9. \A u \in Tasks : Stepped(nodes, h, u, mine'[u])
  BY <1>5, <1>7, <1>8
<1>10. Tasks' = Tasks /\ (Old' <=> Old) /\ \A u : Count(nodes, u)' = Count(nodes, u)
  BY <1>6 DEF Tasks, Old, Program, Count, Steps
<1>11. (\A u \in Tasks : Stepped(nodes, h, u, mine[u]))'
  BY <1>9, <1>10 DEF Stepped, At
<1>12. PICK D : D = Tasks
  OBVIOUS
<1>13. IsFiniteSet(D) /\ t \in D
  BY <1>12, RingCount
<1>14. \A u \in D : /\ mine[u].times \in Int /\ Given(mine[u]) \in Int
                    /\ mine'[u].times \in Int /\ Given(mine'[u]) \in Int
  BY <1>8, <1>9, <1>12, SteppedInt
<1>15. RingsRead'
  <2>1. PICK f, g : f = [u \in D |-> Given(mine[u])] /\ g = [u \in D |-> Given(mine'[u])]
    OBVIOUS
  <2>2. f \in [D -> Int] /\ g \in [D -> Int] /\ \A u \in D : u # t => g[u] = f[u]
    BY <1>7, <1>12, <1>14, <2>1
  <2>3. SumFunction(f) \in Int /\ SumFunction(g) = SumFunction(f) + (g[t] - f[t])
    BY <1>13, <2>2, SumChanges
  <2>4. f[t] = 0 /\ g[t] = Given(my) /\ Given(my) \in Int
    BY <1>7, <1>13, <1>14, <2>1 DEF Given
  <2>5. SumFunction(g) = SumFunction(f) + Given(my)
    BY <2>3, <2>4
  <2>6. PICK p, q : p = [u \in D |-> mine[u].times] /\ q = [u \in D |-> mine'[u].times]
    OBVIOUS
  <2>7. p \in [D -> Int] /\ q \in [D -> Int] /\ \A u \in D : u # t => q[u] = p[u]
    BY <1>7, <1>12, <1>14, <2>6
  <2>8. SumFunction(q) = SumFunction(p) + (q[t] - p[t])
    BY <1>13, <2>7, SumChanges
  <2>9. p[t] = mine[t].times /\ q[t] = k
    BY <1>2, <1>7, <1>13, <2>6
  <2>10. total_accum = SumFunction(f) /\ tra_times = SumFunction(p)
    BY <1>12, <2>1, <2>6 DEF Going, RingsRead
  <2>11. total_accum' = SumFunction(g) /\ tra_times' = SumFunction(q)
    BY <1>6, <2>5, <2>8, <2>9, <2>10
  <2>12. /\ g = [u \in Tasks' |-> Given(mine'[u])]
         /\ q = [u \in Tasks' |-> mine'[u].times]
    BY <1>10, <1>12, <2>1, <2>6
  <2> QED
    BY <2>11, <2>12 DEF RingsRead, Given
<1> QED
  BY <1>11, <1>15 DEF Going

LEMMA RingTaskGoes ==
  ASSUME TracingInv, Program \in Rings, NEW nodes, RingsLaid(nodes), NEW h, Adding(nodes, h),
         data \in [Nodes -> Int], Going(nodes, h), NEW t \in Tasks, StartTask(t) \/ ReadNode(t)
  PROVE  Going(nodes, h)'
<1>1. /\ Count(nodes, t) \in Nat
      /\ FirstPlace(t).node = IF Count(nodes, t) > 0 THEN At(nodes, t, 0) ELSE NULL
      /\ FirstPlace(t).i = 0
      /\ Count(nodes, t) > 0 => Len(nodes[t]) # 0
  BY RingGoesOn
<1>2. t \in Lists /\ \A n \in Nodes : n # NULL
  <2>1. t \in Lists
    BY RingCount
  <2> QED
    BY <2>1 DEF TracingInv, Closed, NULL
<1>3. /\ h[t] \in [0 .. Count(nodes, t) -> Int]
      /\ AddsUp(Count(nodes, t), Values(nodes, t), h[t])
  BY <1>2 DEF Adding
<1>4. h[t][0] = 0 /\ \A k \in 1 .. Count(nodes, t) : h[t][k] = h[t][k - 1] + Values(nodes, t)[k - 1]
  BY <1>3 DEF AddsUp
<1>5. \A k \in Nat : Count(nodes, t) > 0 => At(nodes, t, k) # NULL
  BY <1>1, <1>2, AtNode DEF RingsLaid
<1>6. CASE StartTask(t)
  <2>1. mine[t].at = "new" /\ GoesTo(t, FirstPlace(t), 0, 0)
    BY <1>6 DEF StartTask
  <2>2. PICK place : place = FirstPlace(t)
    OBVIOUS
  <2>3. GoesTo(t, place, h[t][0], 0) /\ mine[t].at # "returned"
    BY <1>4, <2>1, <2>2
  <2>4. At(nodes, t, 0) # NULL \/ 0 = Count(nodes, t)
    BY <1>1, <1>5
  <2>5. 0 \in 0 .. Count(nodes, t) /\ (0 < Count(nodes, t) <=> Count(nodes, t) > 0)
    BY <1>1
  <2>6. /\ place.node = IF 0 < Count(nodes, t) THEN At(nodes, t, 0) ELSE NULL
        /\ place.i = 0
    BY <1>1, <2>2, <2>5
  <2> QED
    BY <2>3, <2>4, <2>5, <2>6, RingGoesTo
<1>7. CASE ReadNode(t)
  <2>1. mine[t].at = "node"
    BY <1>7 DEF ReadNode
  <2>2. PICK k : k = mine[t].times
    OBVIOUS
  <2>3. /\ k \in 0 .. Count(nodes, t) - 1 /\ mine[t].node = At(nodes, t, k)
        /\ mine[t].accum = h[t][k] /\ (~Old => mine[t].i = k)
    BY <1>1, <2>1, <2>2 DEF Going, Stepped
  <2>4. PICK n, j, place : n = At(nodes, t, k) /\ j = mine[t].j
                           /\ place = NextPlace(t, mine[t].i, j, n)
    OBVIOUS
  <2>5. Program \notin Rereads
    BY DEF Rereads, Rings
  <2>6. GoesTo(t, place, h[t][k] + data[n] * 1, k + 1)
    BY <1>7, <2>2, <2>3, <2>4, <2>5 DEF ReadNode
  <2>7. n \in Nodes /\ place.node = (IF k + 1 < Count(nodes, t) THEN At(nodes, t, k + 1) ELSE NULL)
        /\ (~Old => place.i = k + 1)
    <3>1. PICK x : x = NextPlace(t, k, j, n)
      OBVIOUS
    <3>2. /\ x.node = (IF k + 1 < Count(nodes, t) THEN At(nodes, t, k + 1) ELSE NULL)
          /\ (~Old => x.i = k + 1) /\ n \in Nodes
      BY <2>3, <2>4, <3>1, RingGoesOn
    <3>3. CASE Old
      <4>1. x.node = place.node
        BY <2>4, <3>1, <3>3 DEF Old, NextPlace, NextInRing, Place
      <4> QED
        BY <3>2, <3>3, <4>1
    <3>4. CASE ~Old
      <4>1. x = place
        BY <2>3, <2>4, <3>1, <3>4
      <4> QED
        BY <3>2, <4>1
    <3> QED
      BY <3>3, <3>4
  <2>8. h[t][k + 1] = h[t][k] + data[n] * 1
    <3>1. k + 1 \in 1 .. Count(nodes, t) /\ (k + 1) - 1 = k
      BY <1>1, <2>3
    <3>2. Values(nodes, t)[k] = data[n]
      BY <2>3, <2>4 DEF Values
    <3>3. h[t][k + 1] = h[t][k] + data[n]
      BY <1>4, <3>1, <3>2
    <3>4. data[n] \in Int
      BY <2>7
    <3> QED
      BY <3>3, <3>4
  <2>9. k + 1 \in 0 .. Count(nodes, t)
    BY <1>1, <2>3
  <2>10. At(nodes, t, k + 1) # NULL \/ k + 1 = Count(nodes, t)
    BY <1>1, <1>5, <2>3
  <2>11. GoesTo(t, place, h[t][k + 1], k + 1) /\ mine[t].at # "returned"
    BY <2>1, <2>6, <2>8
  <2> QED
    BY <2>7, <2>9, <2>10, <2>11, RingGoesTo
<1> QED
  BY <1>6, <1>7

\* What the tasks of a ring program have read, while they run and after.
SomeGoing == \E nodes, h : RingsLaid(nodes) /\ Adding(nodes, h) /\ Going(nodes, h)
RingsReadSoFar ==
  Program \in Rings => (Running => SomeGoing) /\ (After => AllReturned)

\* There are such sums when the tasks start ...
LEMMA NoneGoingYet ==
  ASSUME TracingInv, RingInv, Program \in Rings, StartTasks
  PROVE  SomeGoing'
<1>1. /\ phase = "build" /\ Built /\ allList' = head
      /\ UNCHANGED <<args, head, next, data, mine, total_accum, tra_times>>
  BY DEF StartTasks, totals
<1>2. Before
  BY <1>1 DEF Before
<1>3. /\ data \in [Nodes -> Int] /\ RingsMade /\ total_accum = 0 /\ tra_times = 0
      /\ \A t \in Tasks : mine[t].at = "new" /\ mine[t].times = 0
  BY <1>2 DEF RingInv
<1>4. ~Old => Nodes # {}
  <2> SUFFICES ASSUME ~Old
               PROVE  Nodes # {}
    OBVIOUS
  <2>1. Program = "pointer_tracing"
    BY RingCount
  <2>2. Allocated > 0
    BY <1>1, <2>1 DEF Built, Shuffled
  <2>3. Cardinality({}) = 0
    BY FS_EmptySet
  <2> QED
    BY <2>2, <2>3 DEF Allocated, Nodes
<1>5. PICK nodes : Ringed(nodes) /\ (~Old => NoneEmpty(nodes))
  BY <1>3, <1>4 DEF RingsMade
<1>6. RingsLaid(nodes)'
  <2>1. Ringed(nodes)' /\ (NoneEmpty(nodes)' <=> NoneEmpty(nodes)) /\ (Old' <=> Old)
    BY <1>1, <1>5, RingedKept
  <2> QED
    BY <1>1, <1>5, <2>1 DEF RingsLaid
<1>7. Tasks = Lists /\ IsFiniteSet(Lists) /\ Steps \in Nat
  BY RingCount
<1>8. ASSUME NEW t \in Lists
      PROVE  \E p \in [0 .. Count(nodes, t) -> Int] :
               /\ AddsUp(Count(nodes, t), Values(nodes, t), p)
               /\ p[Count(nodes, t)] = SumFunction(Values(nodes, t))
  <2>1. PICK n : n = Count(nodes, t)
    OBVIOUS
  <2>2. n \in Nat /\ (n > 0 => Len(nodes[t]) # 0)
    <3>1. Len(nodes[t]) \in Nat
      BY <1>5, RingFacts
    <3> QED
      BY <1>5, <1>7, <2>1, <3>1 DEF Count, NoneEmpty
  <2>3. \A k \in 0 .. n - 1 : data[At(nodes, t, k)] \in Int
    <3> SUFFICES ASSUME NEW k \in 0 .. n - 1
                 PROVE  data[At(nodes, t, k)] \in Int
      OBVIOUS
    <3>1. k \in Nat /\ n > 0
      BY <2>2
    <3>2. At(nodes, t, k) \in Nodes
      BY <1>5, <2>2, <3>1, AtNode
    <3> QED
      BY <1>3, <3>2
  <2>4. PICK f : f = Values(nodes, t)
    OBVIOUS
  <2>5. f \in [0 .. n - 1 -> Int]
    <3>1. f = [k \in 0 .. n - 1 |-> data[At(nodes, t, k)]]
      BY <2>1, <2>4 DEF Values
    <3> QED
      BY <2>3, <3>1
  <2>6. \E p \in [0 .. n -> Int] : AddsUp(n, f, p) /\ p[n] = SumFunction(f)
    BY <2>2, <2>5, SumInOrder
  <2> QED
    BY <2>1, <2>4, <2>6
<1>9. PICK h : h = [t \in Lists |-> CHOOSE p \in [0 .. Count(nodes, t) -> Int] :
                                      /\ AddsUp(Count(nodes, t), Values(nodes, t), p)
                                      /\ p[Count(nodes, t)] = SumFunction(Values(nodes, t))]
  OBVIOUS
<1>10. Adding(nodes, h)
  <2> SUFFICES ASSUME NEW t \in Lists
               PROVE  /\ h[t] \in [0 .. Count(nodes, t) -> Int]
                      /\ AddsUp(Count(nodes, t), Values(nodes, t), h[t])
                      /\ h[t][Count(nodes, t)] = SumFunction(Values(nodes, t))
    BY DEF Adding
  <2>1. h[t] = CHOOSE p \in [0 .. Count(nodes, t) -> Int] :
                                      /\ AddsUp(Count(nodes, t), Values(nodes, t), p)
                                      /\ p[Count(nodes, t)] = SumFunction(Values(nodes, t))
    BY <1>9
  <2>2. \E p \in [0 .. Count(nodes, t) -> Int] :
               /\ AddsUp(Count(nodes, t), Values(nodes, t), p)
               /\ p[Count(nodes, t)] = SumFunction(Values(nodes, t))
    BY <1>8
  <2> QED
    BY <2>1, <2>2, Zenon
<1>11. /\ Lists' = Lists /\ Tasks' = Tasks
       /\ \A t : /\ Count(nodes, t)' = Count(nodes, t) /\ Values(nodes, t)' = Values(nodes, t)
       /\ \A t, my : Stepped(nodes, h, t, my)' <=> Stepped(nodes, h, t, my)
  BY <1>1 DEF Lists, Tasks, Program, Count, Steps, Old, Values, At, Stepped
<1>12. Adding(nodes, h)'
  BY <1>10, <1>11 DEF Adding
<1>13. RingsRead
  <2>1. SumFunction([t \in Tasks |-> 0]) = 0
    BY <1>7, SumOfZeros
  <2>2. /\ [t \in Tasks |-> Given(mine[t])] = [t \in Tasks |-> 0]
        /\ [t \in Tasks |-> mine[t].times] = [t \in Tasks |-> 0]
    BY <1>3 DEF Given
  <2> QED
    BY <1>3, <2>1, <2>2 DEF RingsRead
<1>14. Going(nodes, h)'
  <2>1. RingsRead'
    BY <1>1, <1>11, <1>13 DEF RingsRead, Given
  <2>2. \A t \in Tasks : Stepped(nodes, h, t, mine[t])
    BY <1>3 DEF Stepped
  <2> QED
    BY <1>1, <1>11, <2>1, <2>2 DEF Going
<1> QED
  BY <1>6, <1>12, <1>14 DEF SomeGoing

\* ... and there still are after a step.
SameRings == UNCHANGED <<args, head, allList, next, data, mine, total_accum, tra_times>>

LEMMA SomeGoingKept ==
  ASSUME TracingInv, RingInv, Program \in Rings, SomeGoing,
         SameRings \/ \E t \in Tasks : StartTask(t) \/ ReadNode(t)
  PROVE  SomeGoing'
<1>1. PICK nodes, h : RingsLaid(nodes) /\ Adding(nodes, h) /\ Going(nodes, h)
  BY DEF SomeGoing
<1>2. UNCHANGED <<args, head, allList, next, data>>
  BY DEF SameRings, StartTask, ReadNode, GoesTo, build
<1>3. RingsLaid(nodes)'
  <2>1. /\ Ringed(nodes)' <=> Ringed(nodes)
        /\ NoneEmpty(nodes)' <=> NoneEmpty(nodes)
        /\ Old' <=> Old
    BY <1>2, RingedKept
  <2> QED
    BY <1>1, <1>2, <2>1 DEF RingsLaid
<1>4. /\ Lists' = Lists /\ Tasks' = Tasks
      /\ \A t : /\ Count(nodes, t)' = Count(nodes, t) /\ Values(nodes, t)' = Values(nodes, t)
      /\ \A t, my : Stepped(nodes, h, t, my)' <=> Stepped(nodes, h, t, my)
  BY <1>2 DEF Lists, Tasks, Program, Count, Steps, Old, Values, At, Stepped
<1>5. Adding(nodes, h)'
  BY <1>1, <1>4 DEF Adding
<1>6. Going(nodes, h)'
  <2>1. CASE SameRings
    <3>1. RingsRead'
      BY <1>1, <1>4, <2>1 DEF SameRings, RingsRead, Given, Going
    <3> QED
      BY <1>1, <1>4, <2>1, <3>1 DEF SameRings, Going
  <2>2. CASE \E t \in Tasks : StartTask(t) \/ ReadNode(t)
    <3>1. data \in [Nodes -> Int]
      BY DEF RingInv
    <3> QED
      BY <1>1, <2>2, <3>1, RingTaskGoes
  <2> QED
    BY <2>1, <2>2
<1> QED
  BY <1>3, <1>5, <1>6 DEF SomeGoing

LEMMA RingsReadSoFarInit == TracingInit => RingsReadSoFar
BY DEF TracingInit, RingsReadSoFar, Running, After

LEMMA RingsReadSoFarStep ==
  ASSUME TracingInv, RingInv, RingsReadSoFar, [TracingNext]_tracingVars
  PROVE  RingsReadSoFar'
<1>1. Program' = Program
  <2>1. args' = args
    BY DEF TracingNext, ForkStep, ForkNext, Fork, ForkFails, Bind, BecomeProcess, BuildList,
           BuildRings, Shuffle, LinkRings, StartTasks, StartTask, ReadNode, GoesTo,
           StartFreeing, FreeNode, Ended, tracingVars
  <2> QED
    BY <2>1 DEF Program
<1> SUFFICES ASSUME Program \in Rings
             PROVE  (Running' => SomeGoing') /\ (After' => AllReturned')
  BY <1>1 DEF RingsReadSoFar
<1>2. (Running => SomeGoing) /\ (After => AllReturned)
  BY DEF RingsReadSoFar
<1>3. CASE ForkStep \/ BecomeProcess \/ BuildList \/ BuildRings \/ Shuffle \/ LinkRings
  <2>1. phase' \in {"processes", "build", "elsewhere"}
    BY <1>3 DEF ForkStep, BecomeProcess, BuildList, BuildRings, Shuffle, LinkRings
  <2> QED
    BY <2>1 DEF Running, After
<1>4. CASE StartTasks
  <2>1. phase' = "run"
    BY <1>4 DEF StartTasks
  <2> QED
    BY <1>4, <2>1, NoneGoingYet DEF After
<1>5. CASE \E t \in Tasks : StartTask(t) \/ ReadNode(t)
  <2>1. phase = "run" /\ phase' = "run"
    BY <1>5 DEF StartTask, ReadNode, GoesTo
  <2> QED
    BY <1>2, <1>5, <2>1, SomeGoingKept DEF Running, After
<1>6. CASE StartFreeing \/ FreeNode
  <2>1. /\ phase \in {"run", "free"} /\ SameRings
        /\ phase = "run" => AllReturned
    BY <1>6 DEF StartFreeing, FreeNode, SameRings, build, totals
  <2>2. Running /\ AllReturned
    BY <1>2, <2>1 DEF Running, After
  <2>3. AllReturned'
    BY <2>1, <2>2 DEF SameRings, AllReturned, Tasks, Program
  <2> QED
    BY <1>2, <2>1, <2>2, <2>3, SomeGoingKept
<1>7. CASE UNCHANGED tracingVars \/ Ended
  <2>1. phase' = phase /\ SameRings
    BY <1>7 DEF Ended, tracingVars, build, totals, SameRings
  <2>2. AllReturned => AllReturned'
    BY <2>1 DEF SameRings, AllReturned, Tasks, Program
  <2> QED
    BY <1>2, <2>1, <2>2, SomeGoingKept DEF Running, After
<1> QED
  BY <1>3, <1>4, <1>5, <1>6, <1>7 DEF TracingNext

\* Chain(head[t]) are the nodes of ring t.
LEMMA ChainOfRing ==
  ASSUME TracingInv, NEW nodes, Ringed(nodes), NEW t \in Lists
  PROVE  NoneTwice(nodes[t]) /\ Chain(head[t]) = nodes[t]
<1>1. PICK s \in Seq(Nodes) : s = nodes[t]
  BY RingFacts
<1>2. NoneTwice(s)
  BY <1>1, RingPlaceOnly DEF NoneTwice
<1>3. LeadThrough(head[t], s)
  <2>1. /\ head[t] = IF Len(s) = 0 THEN NULL ELSE s[1]
        /\ \A k \in 1 .. Len(s) : next[s[k]] = s[IF k < Len(s) THEN k + 1 ELSE 1]
    BY <1>1, RingFacts DEF RingLinks
  <2>2. Len(s) # 0 => Len(s) \in 1 .. Len(s) /\ ~(Len(s) < Len(s))
    OBVIOUS
  <2> QED
    BY <2>1, <2>2 DEF LeadThrough
<1> QED
  BY <1>1, <1>2, <1>3, ChainIs DEF TracingInv

\* What the values of a ring come to, in the words of the specification.
LEMMA TotalOfRing ==
  ASSUME TracingInv, Program = "pointer_tracing", data \in [Nodes -> Int], NEW nodes,
         RingsLaid(nodes), NEW t \in Lists
  PROVE  RingTotals(t) = SumFunction(Values(nodes, t)) /\ RingTotals(t) \in Int
<1>1. Program \in Rings /\ ~Old
  BY DEF Rings, Old
<1>2. Steps \in Nat /\ Ringed(nodes) /\ NoneEmpty(nodes)
  BY <1>1, RingCount DEF RingsLaid
<1>3. PICK ring : ring = Chain(head[t])
  OBVIOUS
<1>4. ring = nodes[t]
  BY <1>2, <1>3, ChainOfRing
<1>5. PICK D : D = 0 .. Steps - 1
  OBVIOUS
<1>6. PICK f : f = [k \in D |-> data[ring[(k % Len(ring)) + 1]]]
  OBVIOUS
<1>7. f = Values(nodes, t)
  BY <1>1, <1>4, <1>5, <1>6 DEF Values, Count, At
<1>8. \A k \in D : data[At(nodes, t, k)] \in Int
  <2> SUFFICES ASSUME NEW k \in D
               PROVE  data[At(nodes, t, k)] \in Int
    OBVIOUS
  <2>1. k \in Nat /\ Len(nodes[t]) # 0
    BY <1>2, <1>5 DEF NoneEmpty
  <2>2. At(nodes, t, k) \in Nodes
    BY <1>2, <2>1, AtNode
  <2> QED
    BY <2>2
<1>9. f \in [D -> Int] /\ IsFiniteSet(D)
  <2>1. f = [k \in D |-> data[At(nodes, t, k)]]
    BY <1>4, <1>6 DEF At
  <2>2. PICK e \in Int : e = Steps - 1
    BY <1>2
  <2>3. IsFiniteSet(0 .. e)
    BY FS_Interval
  <2> QED
    BY <1>5, <1>8, <2>1, <2>2, <2>3
<1>10. PICK it : it = CHOOSE g : g = [s \in SUBSET D |->
            IF s = {} THEN 0 ELSE data[ring[(Chosen(s) % Len(ring)) + 1]] + g[s \ {Chosen(s)}]]
  OBVIOUS
<1>11. RingTotals(t) = it[D]
  BY <1>3, <1>5, <1>10 DEF RingTotals, MapThenSumSet, MapThenFoldSet, Chosen
<1>12. \A s \in SUBSET D : s # {} => f[Chosen(s)] = data[ring[(Chosen(s) % Len(ring)) + 1]]
  BY <1>6 DEF Chosen
<1>13. PICK g \in [SUBSET D -> Int] : SumsTo(D, f, g) /\ SumFunction(f) = g[D]
  BY <1>9, SumFunctionSums
<1>14. g = [s \in SUBSET D |->
            IF s = {} THEN 0 ELSE data[ring[(Chosen(s) % Len(ring)) + 1]] + g[s \ {Chosen(s)}]]
  BY <1>12, <1>13 DEF SumsTo
<1>15. it = [s \in SUBSET D |->
            IF s = {} THEN 0 ELSE data[ring[(Chosen(s) % Len(ring)) + 1]] + it[s \ {Chosen(s)}]]
  BY <1>10, <1>14, Zenon
<1>16. SumsTo(D, f, it)
  BY <1>12, <1>15 DEF SumsTo
<1>17. SumFunction(f) = it[D]
  BY <1>9, <1>16, SumsAgree
<1> QED
  BY <1>7, <1>11, <1>13, <1>17

LEMMA TotalOfRings ==
  ASSUME NEW D, D = Lists, IsFiniteSet(D), NEW f \in [D -> Int], \A t \in D : f[t] = RingTotals(t)
  PROVE  MapThenSumSet(RingTotals, Lists) = SumFunction(f)
<1>1. PICK it : it = CHOOSE g : g = [s \in SUBSET D |->
                     IF s = {} THEN 0 ELSE RingTotals(Chosen(s)) + g[s \ {Chosen(s)}]]
  OBVIOUS
<1>2. MapThenSumSet(RingTotals, D) = it[D]
  BY <1>1 DEF MapThenSumSet, MapThenFoldSet, Chosen
<1>3. \A s \in SUBSET D : s # {} => f[Chosen(s)] = RingTotals(Chosen(s))
  BY DEF Chosen
<1>4. PICK g \in [SUBSET D -> Int] : SumsTo(D, f, g)
  BY SumFunctionSums
<1>5. g = [s \in SUBSET D |-> IF s = {} THEN 0 ELSE RingTotals(Chosen(s)) + g[s \ {Chosen(s)}]]
  BY <1>3, <1>4 DEF SumsTo
<1>6. it = [s \in SUBSET D |-> IF s = {} THEN 0 ELSE RingTotals(Chosen(s)) + it[s \ {Chosen(s)}]]
  BY <1>1, <1>5, Zenon
<1>7. SumsTo(D, f, it)
  BY <1>3, <1>6 DEF SumsTo
<1>8. SumFunction(f) = it[D]
  BY <1>7, SumsAgree
<1> QED
  BY <1>2, <1>8

\* What the nodes of a ring come to.
RingOf(nodes, t) == {n \in Nodes : \E k \in 1 .. Len(nodes[t]) : n = nodes[t][k]}

LEMMA RingAddsUp ==
  ASSUME TracingInv, NEW nodes, Ringed(nodes), NEW t \in Lists, NEW f, NEW g, Gauge(f, g), NEW p,
         p[0] = 0, \A k \in 1 .. Len(nodes[t]) : p[k] = p[k - 1] + f[nodes[t][k]]
  PROVE  p[Len(nodes[t])] = g[RingOf(nodes, t)]
<1>1. PICK s \in Seq(Nodes) : s = nodes[t]
  BY RingFacts
<1>2. PICK L \in Nat : L = Len(s)
  OBVIOUS
<1>3. /\ \A k \in 1 .. L : s[k] \in Nodes
      /\ \A k, l \in 1 .. L : s[k] = s[l] => k = l
  BY <1>1, <1>2, ChainOfRing DEF NoneTwice
<1>4. /\ g[{}] = 0 /\ \A r \in SUBSET Nodes : \A x \in r : g[r] = f[x] + g[r \ {x}]
      /\ f \in [Nodes -> Int] /\ g \in [SUBSET Nodes -> Int]
  BY DEF Gauge, Splits
<1> DEFINE To(k) == {s[l] : l \in 1 .. k}
<1>5. PICK S : S = {k \in 0 .. L : p[k] = g[To(k)]}
  OBVIOUS
<1>6. 0 \in S
  <2>1. To(0) = {} /\ 0 \in 0 .. L
    OBVIOUS
  <2> HIDE DEF To
  <2> QED
    BY <1>4, <1>5, <2>1
<1>7. ASSUME NEW k \in 1 .. L, k - 1 \in S
      PROVE  k \in S
  <2>1. To(k) \in SUBSET Nodes /\ s[k] \in To(k) /\ k \in 0 .. L
    BY <1>2, <1>3
  <2>2. To(k) \ {s[k]} = To(k - 1)
    <3>1. 1 .. k = (1 .. k - 1) \cup {k} /\ k \notin 1 .. k - 1 /\ 1 .. k \subseteq 1 .. L
      OBVIOUS
    <3>2. \A l \in 1 .. k - 1 : s[l] # s[k]
      BY <1>3, <3>1
    <3> QED
      BY <3>1, <3>2
  <2>3. p[k] = p[k - 1] + f[s[k]]
    BY <1>1, <1>2
  <2>4. To(k - 1) \in SUBSET Nodes
    BY <2>1, <2>2
  <2> HIDE DEF To
  <2>5. g[To(k)] = f[s[k]] + g[To(k - 1)]
    BY <1>4, <2>1, <2>2
  <2>6. p[k - 1] = g[To(k - 1)]
    BY <1>5, <1>7
  <2>7. PICK x, y \in Int : x = f[s[k]] /\ y = g[To(k - 1)]
    BY <1>3, <1>4, <2>4
  <2>8. g[To(k)] = x + y /\ p[k] = y + x
    BY <2>3, <2>5, <2>6, <2>7
  <2> QED
    BY <1>5, <2>1, <2>7, <2>8
<1>8. 0 .. L \subseteq S
  BY <1>6, <1>7, UpTo
<1>9. L \in 0 .. L
  OBVIOUS
<1>10. To(L) = RingOf(nodes, t)
  BY <1>1, <1>2, <1>3 DEF RingOf
<1> HIDE DEF To
<1> QED
  BY <1>1, <1>2, <1>5, <1>8, <1>9, <1>10

LEMMA RingsApart ==
  ASSUME NEW nodes, Ringed(nodes)
  PROVE  Apart(Lists, Nodes, [t \in Lists |-> RingOf(nodes, t)])
<1>1. PICK own : own = [t \in Lists |-> RingOf(nodes, t)]
  OBVIOUS
<1>2. own \in [Lists -> SUBSET Nodes]
  BY <1>1 DEF RingOf
<1>3. ASSUME NEW x \in Lists, NEW y \in Lists, x # y, NEW n \in own[x], n \in own[y]
      PROVE  FALSE
  <2>1. PICK k \in 1 .. Len(nodes[x]) : n = nodes[x][k]
    BY <1>1 DEF RingOf
  <2>2. PICK l \in 1 .. Len(nodes[y]) : n = nodes[y][l]
    BY <1>1, <1>3 DEF RingOf
  <2>3. nodes[x][k] = nodes[y][l]
    BY <2>1, <2>2
  <2> QED
    BY <1>3, <2>3, RingPlaceOnly
<1>4. ASSUME NEW n \in Nodes
      PROVE  \E x \in Lists : n \in own[x]
  <2>1. PICK x \in Lists : \E k \in 1 .. Len(nodes[x]) : nodes[x][k] = n
    BY DEF Ringed, InRing
  <2> QED
    BY <1>1, <2>1 DEF RingOf
<1> QED
  BY <1>1, <1>2, <1>3, <1>4 DEF Apart

\* ... and the nodes of all rings.
LEMMA GaugeOfRings ==
  ASSUME TracingInv, Program \in Rings, NEW nodes, Ringed(nodes), NEW f, NEW g, Gauge(f, g), NEW v,
         v = [t \in Lists |-> g[RingOf(nodes, t)]]
  PROVE  SumFunction(v) = g[Nodes]
<1>1. PICK D, N, own : D = Lists /\ N = Nodes /\ own = [t \in Lists |-> RingOf(nodes, t)]
  OBVIOUS
<1>2. IsFiniteSet(D) /\ IsFiniteSet(N)
  BY <1>1, RingCount, FiniteNodes
<1>3. Apart(D, N, own)
  BY <1>1, RingsApart
<1>4. f \in [N -> Int] /\ Splits(N, f, g)
  BY <1>1 DEF Gauge
<1>5. g \in [SUBSET N -> Int]
  BY <1>1 DEF Gauge
<1>6. Adds(N, g)
  BY <1>2, <1>4, <1>5, SplitsAdd
<1>7. g[{}] = 0
  BY <1>4 DEF Splits
<1>8. Gathers(D, own, g, v)
  BY <1>1 DEF Gathers
<1>9. SumFunction(v) = g[N]
  BY <1>2, <1>3, <1>5, <1>6, <1>7, <1>8, SumOfApart, Zenon
<1> QED
  BY <1>1, <1>9

\* In the end every node of every list and ring has been read as often as asked.
AllReadAtEnd == phase = "end" => AllRead

LEMMA RingsEndRead ==
  ASSUME TracingInv, RingInv, RingsReadSoFar, phase = "end", Program \in Rings
  PROVE  AllRead
<1>1. data \in [Nodes -> Int] /\ SomeGoing /\ AllReturned
  BY DEF RingInv, RingsReadSoFar, Running, After
<1>2. PICK nodes, h : RingsLaid(nodes) /\ Adding(nodes, h) /\ Going(nodes, h)
  BY <1>1 DEF SomeGoing
<1>3. /\ Tasks = Lists /\ IsFiniteSet(Lists) /\ Steps \in Nat
      /\ Cardinality(Lists) = args.TOTAL_LISTS /\ args.TOTAL_LISTS \in Nat
      /\ ~Old <=> Program = "pointer_tracing"
  BY RingCount
<1>4. Ringed(nodes)
  BY <1>2 DEF RingsLaid
<1>5. \A t \in Lists : /\ mine[t].times = Count(nodes, t)
                       /\ Given(mine[t]) = h[t][Count(nodes, t)]
                       /\ h[t][Count(nodes, t)] = SumFunction(Values(nodes, t))
  BY <1>1, <1>2, <1>3 DEF Going, Stepped, AllReturned, Given, Adding
<1>6. /\ total_accum = SumFunction([t \in Lists |-> h[t][Count(nodes, t)]])
      /\ tra_times = SumFunction([t \in Lists |-> Count(nodes, t)])
  <2>1. /\ [t \in Tasks |-> Given(mine[t])] = [t \in Lists |-> h[t][Count(nodes, t)]]
        /\ [t \in Tasks |-> mine[t].times] = [t \in Lists |-> Count(nodes, t)]
    BY <1>3, <1>5
  <2> QED
    BY <1>2, <2>1 DEF Going, RingsRead
<1>7. CASE Program = "pointer_tracing"
  <2>1. ~Old /\ \A t \in Lists : Count(nodes, t) = Steps
    BY <1>3, <1>7 DEF Count
  <2>2. \A t \in Lists : RingTotals(t) = h[t][Count(nodes, t)] /\ RingTotals(t) \in Int
    BY <1>1, <1>2, <1>5, <1>7, TotalOfRing
  <2>3. PICK D, f : D = Lists /\ f = [t \in Lists |-> h[t][Count(nodes, t)]]
    OBVIOUS
  <2>4. f \in [D -> Int] /\ IsFiniteSet(D) /\ \A t \in D : f[t] = RingTotals(t)
    BY <1>3, <2>2, <2>3
  <2>5. MapThenSumSet(RingTotals, Lists) = SumFunction(f)
    BY <2>3, <2>4, TotalOfRings
  <2>6. tra_times = Steps * args.TOTAL_LISTS
    <3>1. PICK e : e = [t \in Lists |-> Count(nodes, t)]
      OBVIOUS
    <3>2. e = [t \in D |-> Steps]
      BY <2>1, <2>3, <3>1
    <3>3. SumFunction(e) = Steps * Cardinality(D)
      BY <1>3, <2>4, <3>2, SumOfEqual
    <3> QED
      BY <1>3, <1>6, <2>3, <3>1, <3>3
  <2> QED
    BY <1>6, <1>7, <2>3, <2>5, <2>6 DEF AllRead
<1>8. CASE Program # "pointer_tracing"
  <2>1. Old /\ \A t \in Lists : Count(nodes, t) = Len(nodes[t]) /\ Len(nodes[t]) \in Nat
    BY <1>3, <1>4, <1>8, RingFacts DEF Count
  <2>2. PICK N : N = Nodes
    OBVIOUS
  <2>3. IsFiniteSet(N) /\ data \in [N -> Int]
    BY <1>1, <2>2, FiniteNodes
  <2>4. PICK g \in [SUBSET N -> Int] : SumsTo(N, data, g) /\ SumFunction(data) = g[N]
    BY <2>3, SumFunctionSums
  <2>5. Gauge(data, g)
    <3>1. Splits(N, data, g)
      BY <2>3, <2>4, SumsSplit
    <3> QED
      BY <2>2, <2>3, <2>4, <3>1 DEF Gauge
  <2>6. PICK one, c : one = [n \in N |-> 1] /\ c = [s \in SUBSET N |-> Cardinality(s)]
    OBVIOUS
  <2>7. Gauge(one, c) /\ c[N] = Cardinality(N)
    <3>1. c \in [SUBSET N -> Int] /\ Splits(N, one, c)
      BY <2>3, <2>6, CardinalitySplits
    <3> QED
      BY <2>2, <2>6, <3>1 DEF Gauge
  <2>8. ASSUME NEW t \in Lists
        PROVE  /\ h[t][Count(nodes, t)] = g[RingOf(nodes, t)]
               /\ Count(nodes, t) = c[RingOf(nodes, t)]
    <3>1. PICK L \in Nat : L = Len(nodes[t]) /\ L = Count(nodes, t)
      BY <2>1
    <3>2. h[t][0] = 0 /\ \A k \in 1 .. L : h[t][k] = h[t][k - 1] + Values(nodes, t)[k - 1]
      BY <1>2, <3>1 DEF Adding, AddsUp
    <3>3. \A k \in 1 .. L : Values(nodes, t)[k - 1] = data[nodes[t][k]] /\ nodes[t][k] \in Nodes
      <4> SUFFICES ASSUME NEW k \in 1 .. L
                   PROVE  Values(nodes, t)[k - 1] = data[nodes[t][k]] /\ nodes[t][k] \in Nodes
        OBVIOUS
      <4>1. PICK m \in Nat : m = k - 1 /\ m \in 0 .. L - 1 /\ m < L /\ m + 1 = k /\ L # 0
        <5>1. k - 1 \in Nat /\ k - 1 \in 0 .. L - 1 /\ k - 1 < L /\ (k - 1) + 1 = k /\ L # 0
          OBVIOUS
        <5> QED
          BY <5>1
      <4>2. Values(nodes, t)[m] = data[At(nodes, t, m)]
        BY <3>1, <4>1 DEF Values
      <4>3. At(nodes, t, m) = nodes[t][m + 1] /\ At(nodes, t, m) \in Nodes
        <5>1. m < Len(nodes[t]) /\ Len(nodes[t]) # 0 /\ Len(nodes[t]) \in Nat
          BY <3>1, <4>1
        <5>2. At(nodes, t, m) \in Nodes
          BY <1>4, <4>1, <5>1, AtNode
        <5> QED
          BY <4>1, <5>1, <5>2, AtPlace
      <4> QED
        BY <4>1, <4>2, <4>3
    <3>4. h[t][L] = g[RingOf(nodes, t)]
      <4>1. PICK q : q = h[t]
        OBVIOUS
      <4>2. q[0] = 0 /\ \A k \in 1 .. Len(nodes[t]) : q[k] = q[k - 1] + data[nodes[t][k]]
        BY <3>1, <3>2, <3>3, <4>1
      <4>3. q[Len(nodes[t])] = g[RingOf(nodes, t)]
        BY <1>4, <2>5, <4>2, RingAddsUp
      <4> QED
        BY <3>1, <4>1, <4>3
    <3>5. PICK p : p = [k \in 0 .. L |-> k]
      OBVIOUS
    <3>6. p[0] = 0 /\ p[L] = L /\ \A k \in 1 .. L : p[k] = p[k - 1] + one[nodes[t][k]]
      <4>1. \A k \in 1 .. L : /\ one[nodes[t][k]] = 1 /\ (k - 1) + 1 = k
                              /\ k \in 0 .. L /\ k - 1 \in 0 .. L
        BY <2>2, <2>6, <3>3
      <4> QED
        BY <3>5, <4>1
    <3>7. p[L] = c[RingOf(nodes, t)]
      <4>1. p[0] = 0 /\ \A k \in 1 .. Len(nodes[t]) : p[k] = p[k - 1] + one[nodes[t][k]]
        BY <3>1, <3>6
      <4>2. p[Len(nodes[t])] = c[RingOf(nodes, t)]
        BY <1>4, <2>7, <4>1, RingAddsUp
      <4> QED
        BY <3>1, <4>2
    <3> QED
      BY <3>1, <3>4, <3>6, <3>7
  <2>9. total_accum = SumFunction(data) /\ tra_times = Cardinality(Nodes)
    <3>1. PICK v, w : /\ v = [t \in Lists |-> g[RingOf(nodes, t)]]
                      /\ w = [t \in Lists |-> c[RingOf(nodes, t)]]
      OBVIOUS
    <3>2. SumFunction(v) = g[Nodes] /\ SumFunction(w) = c[Nodes]
      BY <1>4, <2>5, <2>7, <3>1, GaugeOfRings
    <3>3. /\ [t \in Lists |-> h[t][Count(nodes, t)]] = v
          /\ [t \in Lists |-> Count(nodes, t)] = w
      BY <2>8, <3>1
    <3> QED
      BY <1>6, <2>2, <2>4, <2>7, <3>2, <3>3
  <2>10. Sum(DOMAIN next) = SumFunction(data)
    <3>1. DOMAIN data = DOMAIN next
      BY <1>1 DEF Nodes
    <3> QED
      BY <3>1 DEF Sum, SumFunction, SumFunctionOnSet, FoldFunctionOnSet, MapThenSumSet
  <2>11. Repeats = 1 /\ Program \notin Rewalks
    BY DEF Repeats, Rings, Rewalks
  <2>12. SumFunction(data) \in Int /\ Cardinality(Nodes) \in Int
    <3>1. SumFunction(data) \in Int
      BY <2>4
    <3>2. Cardinality(Nodes) \in Int
      BY DEF TracingInv, Closed, Allocated, Nodes
    <3> QED
      BY <3>1, <3>2
  <2>13. PICK x, y \in Int : x = SumFunction(data) /\ y = Cardinality(Nodes)
    BY <2>12
  <2>14. total_accum = 1 * x /\ tra_times = y * 1
    BY <2>9, <2>13
  <2> QED
    BY <1>8, <2>10, <2>11, <2>13, <2>14 DEF AllRead, Nodes
<1> QED
  BY <1>7, <1>8

\* When the program has come to its end, its tasks have read every node of every
\* list or ring as often as asked and the totals say so, whatever the shares and
\* however the tasks interleave: what main() prints is what was traversed.
THEOREM AlwaysAllRead == TracingSpec => []AllReadAtEnd
<1>1. TracingInit => RingInv /\ ReadSoFar /\ RingsReadSoFar
  BY RingInvInit, ReadSoFarInit, RingsReadSoFarInit
<1>2. /\ TracingInv /\ RingInv /\ ReadSoFar /\ RingsReadSoFar /\ [TracingNext]_tracingVars
      => RingInv' /\ ReadSoFar' /\ RingsReadSoFar'
  BY RingInvStep, ReadSoFarStep, RingsReadSoFarStep
<1>3. TracingInv /\ RingInv /\ ReadSoFar /\ RingsReadSoFar => AllReadAtEnd
  <2>1. TracingInv /\ ReadSoFar => ListsRead
    BY ReadSoFarEnds
  <2>2. TracingInv /\ RingInv /\ RingsReadSoFar /\ phase = "end" /\ Program \in Rings => AllRead
    BY RingsEndRead
  <2> QED
    BY <2>1, <2>2 DEF AllReadAtEnd, ListsRead
<1> QED
  BY <1>1, <1>2, <1>3, TracingInductive, PTL DEF TracingSpec
=============================================================================
