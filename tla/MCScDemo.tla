------------------------------ MODULE MCScDemo ------------------------------
(***************************************************************************)
(* TLC instance of ScDemo: the console starts and stops the demo, a telnet *)
(* session changes its face meanwhile.                                     *)
(***************************************************************************)
EXTENDS ScDemo, TLC

CONSTANTS console, telnet

MCCommands ==
  (console :> {"start", "stop", "face"}) @@ (telnet :> {"say", "blink"})

=============================================================================
