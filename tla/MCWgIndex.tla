----------------------------- MODULE MCWgIndex -----------------------------
(***************************************************************************)
(* TLC instances of WgIndex. Four holders and a draw need five indexes for *)
(* a peer never to run out; indexes are interchangeable.                   *)
(***************************************************************************)
EXTENDS WgIndex, TLC

CONSTANTS i1, i2, i3, i4, i5

Symmetry == Permutations(Index)

=============================================================================
