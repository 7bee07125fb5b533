-------------------------------- MODULE Shares --------------------------------
(***************************************************************************)
(* How the programs deal `total' consecutive things to n tasks or          *)
(* processes: total \div n to each, and one more to each of the first      *)
(* total % n.  Task i takes First .. Past - 1.                             *)
(***************************************************************************)
EXTENDS Integers

\* mIdx of a task
First(total, n, i) ==
  i * (total \div n) + (IF i >= total % n THEN total % n ELSE i)

\* A slip: the remainder is dealt to nobody.
PastNoRemainder(total, n, i) == First(total, n, i) + total \div n

\* nextIdx of a task
Past(total, n, i) ==
  First(total, n, i) + total \div n + (IF i >= total % n THEN 0 ELSE 1)

\* LIST_LEN of a process of mtpttest
ShareLen(total, n, i) == total \div n + (IF i < total % n THEN 1 ELSE 0)
==============================================================================
