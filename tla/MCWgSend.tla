------------------------------ MODULE MCWgSend ------------------------------
(***************************************************************************)
(* TLC instances of WgSend: two peers, keep-alives of one block and data   *)
(* of two, and three packets, so that two wait while a third goes out.     *)
(***************************************************************************)
EXTENDS WgSend, TLC

CONSTANTS p1, p2

Peers == {p1, p2}

\* The code treats all peers alike.
Symmetry == Permutations(Peers)

=============================================================================
