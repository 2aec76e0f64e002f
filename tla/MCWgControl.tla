---------------------------- MODULE MCWgControl ----------------------------
(***************************************************************************)
(* TLC instances of WgControl: two tasks can be alive at once if ever one  *)
(* too many is created, and the commands may go up and down forever.       *)
(***************************************************************************)
EXTENDS WgControl

CONSTANTS nsh

=============================================================================
