--------------------------- MODULE MCReplayWindow ---------------------------
(***************************************************************************)
(* TLC instance of ReplayWindow: words of three bits, so that a shift by   *)
(* less than a word, by exactly a word and by more than a word all occur,  *)
(* and counters that reach past the window and up to the wrap.             *)
(***************************************************************************)
EXTENDS ReplayWindow

=============================================================================
