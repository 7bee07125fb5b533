------------------------------ MODULE MCPrograms ------------------------------
\* Words and their hashes for checking Programs: two of them collide.
EXTENDS Programs, TLC

CONSTANTS apple, pear, plum
MCHash == (apple :> 0) @@ (pear :> 0) @@ (plum :> 1)
==============================================================================
