----------------------------- MODULE MCWgCookie -----------------------------
(***************************************************************************)
(* TLC instance of WgCookie: runs that begin at the wrap of the clock, or  *)
(* two ticks before it, so that it reads zero in the middle of an exchange.*)
(***************************************************************************)
EXTENDS WgCookie, TLC

CONSTANTS bob, home, away

Symmetry == Permutations(Source)

=============================================================================
