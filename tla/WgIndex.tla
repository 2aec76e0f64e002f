------------------------------ MODULE WgIndex ------------------------------
(***************************************************************************)
(* The 32-bit indexes by which a device tells its peers' messages apart.   *)
(* wireguard_generate_unique_index() draws one for every handshake;        *)
(* peer_lookup_by_handshake() and peer_lookup_by_receiver() search all     *)
(* peers for the index in a message and take the first match.              *)
(*                                                                         *)
(* The module keeps, of each peer, the local_index of its handshake and of *)
(* its three keypair slots, and every operation that moves or clears one.  *)
(* keypair_destroy() and wireguard_start_session() zero the structure they *)
(* leave, so a holder is in use if and only if its index is not zero.      *)
(***************************************************************************)
EXTENDS Naturals

CONSTANTS
  MaxPeers,        \* WIREGUARD_MAX_PEERS
  Index            \* the 32-bit numbers that may be drawn

NoIndex == 0

ASSUME MaxPeersAssumption == MaxPeers \in Nat \ {0}
ASSUME IndexAssumption == NoIndex \notin Index

Peer == 1 .. MaxPeers
Holder == {"handshake", "curr", "prev", "next"}

VARIABLES
  local_index,     \* Peer -> Holder -> the index it holds, or NoIndex
  initiator        \* Peer -> handshake.initiator

vars == <<local_index, initiator>>

-----------------------------------------------------------------------------

\* Mutant: the previous keypair, on which packets may still arrive, is forgotten.
InUse_SkipsPrev(i) ==
  \E x \in Peer :
    x = MaxPeers /\ \E h \in Holder \ {"prev"} : local_index[x][h] = i

\* Every pass of the loop over the peers assigns "existing" anew, so what is
\* left of it is the answer for the last peer.
InUse(i) == \E x \in Peer : x = MaxPeers /\ \E h \in Holder : local_index[x][h] = i

wireguard_generate_unique_index == {i \in Index : ~InUse(i)}

Hold(p, held) == local_index' = [local_index EXCEPT ![p] = held]

-----------------------------------------------------------------------------

\* wireguard_create_handshake_initiation(): replaces any handshake in progress.
StartHandshake(p) ==
  /\ \E i \in wireguard_generate_unique_index :
       Hold(p, [local_index[p] EXCEPT !["handshake"] = i])
  /\ initiator' = [initiator EXCEPT ![p] = TRUE]

\* An initiation is accepted: wireguard_create_handshake_response() draws the
\* index and wireguard_start_session() hands it to the next slot.
AnswerInitiation(p) ==
  /\ \E i \in wireguard_generate_unique_index :
       Hold(p, [local_index[p] EXCEPT !["handshake"] = NoIndex, !["next"] = i,
                                      !["prev"] = NoIndex])
  /\ initiator' = [initiator EXCEPT ![p] = FALSE]

\* A response completes the handshake: wireguard_start_session(peer, true).
CompleteHandshake(p) ==
  LET held == local_index[p]
  IN  /\ held["handshake"] # NoIndex /\ initiator[p]
      /\ Hold(p, [held EXCEPT !["handshake"] = NoIndex, !["next"] = NoIndex,
                              !["curr"] = held["handshake"],
                              !["prev"] = IF held["next"] # NoIndex
                                          THEN held["next"] ELSE held["curr"]])
      /\ UNCHANGED initiator

\* keypair_update(): the initiator's first packet on the next slot.
ConfirmNext(p) ==
  LET held == local_index[p]
  IN  /\ held["next"] # NoIndex
      /\ Hold(p, [held EXCEPT !["next"] = NoIndex, !["curr"] = held["next"],
                              !["prev"] = held["curr"]])
      /\ UNCHANGED initiator

\* keypair_destroy() of one slot.
DestroyKeypair(p, slot) ==
  /\ local_index[p][slot] # NoIndex
  /\ Hold(p, [local_index[p] EXCEPT ![slot] = NoIndex])
  /\ UNCHANGED initiator

\* wg_ifdown(): every holder of every peer.
wg_ifdown ==
  /\ local_index' = [p \in Peer |-> [h \in Holder |-> NoIndex]]
  /\ initiator' = [p \in Peer |-> FALSE]

Init ==
  /\ local_index = [p \in Peer |-> [h \in Holder |-> NoIndex]]
  /\ initiator = [p \in Peer |-> FALSE]

Next ==
  \/ \E p \in Peer :
       \/ StartHandshake(p)
       \/ AnswerInitiation(p)
       \/ CompleteHandshake(p)
       \/ ConfirmNext(p)
       \/ \E slot \in {"curr", "prev", "next"} : DestroyKeypair(p, slot)
  \/ wg_ifdown

Spec == Init /\ [][Next]_vars

-----------------------------------------------------------------------------

TypeOK ==
  /\ local_index \in [Peer -> [Holder -> Index \cup {NoIndex}]]
  /\ initiator \in [Peer -> BOOLEAN]

Distinct(p) ==
  \A h, g \in Holder :
    local_index[p][h] = local_index[p][g] /\ local_index[p][h] # NoIndex => h = g

\* The last peer never holds one index twice, through every rotation of its
\* slots: what the search of wireguard_generate_unique_index() does achieve. In
\* the default build, with one peer, it is all that is needed.
LastPeerDistinct == Distinct(MaxPeers)

\* An index in use anywhere in the device is held once, so that a message is
\* looked up at the peer it is for: "make sure it's not already been used in
\* the context of this device" (wireguard_generate_unique_index).
DeviceDistinct ==
  \A p, q \in Peer : \A h, g \in Holder :
    local_index[p][h] = local_index[q][g] /\ local_index[p][h] # NoIndex
      => p = q /\ h = g

=============================================================================
