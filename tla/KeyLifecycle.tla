---------------------------- MODULE KeyLifecycle ----------------------------
(***************************************************************************)
(* What the keypair slots of a peer promise about a session: it is         *)
(* installed once, moves forward through the stages below and never back,  *)
(* and at any time a device has at most one session in each stage.         *)
(*                                                                         *)
(* The code keeps the promise with the three slots of struct               *)
(* wireguard_peer; module WgSession is shown to implement this one.        *)
(***************************************************************************)
EXTENDS Naturals

\* The stages are named after the slots. A responder's session starts in
\* "next", until its initiator uses it; an initiator's starts in "curr".
Rank == [next |-> 1, curr |-> 2, prev |-> 3, gone |-> 4]

VARIABLE
  stage       \* session -> its stage, for every session ever installed

Installed == DOMAIN stage

Init == Installed = {}

\* Only forward.
Advances ==
  \A r \in Installed : r \in Installed' /\ Rank[stage[r]] <= Rank[stage'[r]]

\* At most one session is installed in a step, and it starts where its role
\* says.
InstallsOne ==
  \A r \in Installed' \ Installed :
    /\ stage'[r] = IF r.initiator THEN "curr" ELSE "next"
    /\ Installed' \ Installed = {r}

OnePerStage ==
  \A r, q \in Installed' :
    r.dev = q.dev /\ stage'[r] = stage'[q] /\ stage'[r] # "gone" => r = q

Next == Advances /\ InstallsOne /\ OnePerStage

Spec == Init /\ [][Next]_stage

=============================================================================
