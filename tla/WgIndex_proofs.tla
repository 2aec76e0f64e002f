--------------------------- MODULE WgIndex_proofs ---------------------------
(***************************************************************************)
(* What wireguard_generate_unique_index() achieves, for every number of    *)
(* peers and every set of indexes: the last peer never holds an index      *)
(* twice, and with a single peer no index of the device is held twice.     *)
(***************************************************************************)
EXTENDS WgIndex, TLAPS

USE DEF Holder, NoIndex

LEMMA LastPeer == MaxPeers \in Peer
BY MaxPeersAssumption DEF Peer

\* Every index drawn is new to the last peer.
LEMMA DrawnIsNew ==
  ASSUME TypeOK, NEW i \in wireguard_generate_unique_index
  PROVE  /\ i \in Index
         /\ i # NoIndex
         /\ \A h \in Holder : local_index[MaxPeers][h] # i
BY LastPeer, IndexAssumption DEF wireguard_generate_unique_index, InUse, TypeOK

LEMMA InitInv == Init => TypeOK /\ LastPeerDistinct
BY LastPeer DEF Init, TypeOK, LastPeerDistinct, Distinct

\* A step replaces the indexes of one peer; if it is the last one, the new ones
\* are again distinct.
LEMMA HoldInv ==
  ASSUME TypeOK, LastPeerDistinct, NEW p \in Peer,
         NEW held \in [Holder -> Index \cup {NoIndex}], Hold(p, held),
         initiator' \in [Peer -> BOOLEAN],
         p = MaxPeers => \A h, g \in Holder : held[h] = held[g] /\ held[h] # NoIndex => h = g
  PROVE  TypeOK' /\ LastPeerDistinct'
<1>1. local_index' = [local_index EXCEPT ![p] = held]
  BY DEF Hold
<1>2. TypeOK'
  BY <1>1 DEF TypeOK
<1>3. CASE p = MaxPeers
  <2>1. local_index'[MaxPeers] = held
    BY <1>1, <1>3 DEF TypeOK
  <2> QED BY <1>2, <1>3, <2>1 DEF LastPeerDistinct, Distinct
<1>4. CASE p # MaxPeers
  <2>1. local_index'[MaxPeers] = local_index[MaxPeers]
    BY <1>1, <1>4, LastPeer DEF TypeOK
  <2> QED BY <1>2, <2>1 DEF LastPeerDistinct, Distinct
<1> QED BY <1>3, <1>4

LEMMA StepInv == TypeOK /\ LastPeerDistinct /\ [Next]_vars => TypeOK' /\ LastPeerDistinct'
<1> SUFFICES ASSUME TypeOK, LastPeerDistinct, [Next]_vars
             PROVE  TypeOK' /\ LastPeerDistinct'
  OBVIOUS
<1>1. ASSUME NEW p \in Peer, StartHandshake(p)
      PROVE  TypeOK' /\ LastPeerDistinct'
  <2>1. PICK i \in wireguard_generate_unique_index :
          Hold(p, [local_index[p] EXCEPT !["handshake"] = i])
    BY <1>1 DEF StartHandshake
  <2> DEFINE held == [local_index[p] EXCEPT !["handshake"] = i]
  <2>2. held \in [Holder -> Index \cup {NoIndex}]
    BY DrawnIsNew DEF TypeOK
  <2>3. p = MaxPeers => \A h, g \in Holder : held[h] = held[g] /\ held[h] # NoIndex => h = g
    BY DrawnIsNew DEF TypeOK, LastPeerDistinct, Distinct
  <2>4. initiator' \in [Peer -> BOOLEAN]
    BY <1>1 DEF StartHandshake, TypeOK
  <2> QED BY <2>1, <2>2, <2>3, <2>4, HoldInv
<1>2. ASSUME NEW p \in Peer, AnswerInitiation(p)
      PROVE  TypeOK' /\ LastPeerDistinct'
  <2>1. PICK i \in wireguard_generate_unique_index :
          Hold(p, [local_index[p] EXCEPT !["handshake"] = NoIndex, !["next"] = i,
                                         !["prev"] = NoIndex])
    BY <1>2 DEF AnswerInitiation
  <2> DEFINE held == [local_index[p] EXCEPT !["handshake"] = NoIndex, !["next"] = i,
                                            !["prev"] = NoIndex]
  <2>2. held \in [Holder -> Index \cup {NoIndex}]
    BY DrawnIsNew DEF TypeOK
  <2>3. p = MaxPeers => \A h, g \in Holder : held[h] = held[g] /\ held[h] # NoIndex => h = g
    BY DrawnIsNew DEF TypeOK, LastPeerDistinct, Distinct
  <2>4. initiator' \in [Peer -> BOOLEAN]
    BY <1>2 DEF AnswerInitiation, TypeOK
  <2> QED BY <2>1, <2>2, <2>3, <2>4, HoldInv
<1>3. ASSUME NEW p \in Peer, CompleteHandshake(p)
      PROVE  TypeOK' /\ LastPeerDistinct'
  <2> DEFINE was == local_index[p]
             held == [was EXCEPT !["handshake"] = NoIndex, !["next"] = NoIndex,
                                 !["curr"] = was["handshake"],
                                 !["prev"] = IF was["next"] # NoIndex
                                             THEN was["next"] ELSE was["curr"]]
  <2>1. Hold(p, held)
    BY <1>3 DEF CompleteHandshake
  <2>2. held \in [Holder -> Index \cup {NoIndex}]
    BY DEF TypeOK
  <2>3. p = MaxPeers => \A h, g \in Holder : held[h] = held[g] /\ held[h] # NoIndex => h = g
    BY DEF TypeOK, LastPeerDistinct, Distinct
  <2>4. initiator' \in [Peer -> BOOLEAN]
    BY <1>3 DEF CompleteHandshake, TypeOK
  <2> QED BY <2>1, <2>2, <2>3, <2>4, HoldInv
<1>4. ASSUME NEW p \in Peer, ConfirmNext(p)
      PROVE  TypeOK' /\ LastPeerDistinct'
  <2> DEFINE was == local_index[p]
             held == [was EXCEPT !["next"] = NoIndex, !["curr"] = was["next"],
                                 !["prev"] = was["curr"]]
  <2>1. Hold(p, held)
    BY <1>4 DEF ConfirmNext
  <2>2. held \in [Holder -> Index \cup {NoIndex}]
    BY DEF TypeOK
  <2>3. p = MaxPeers => \A h, g \in Holder : held[h] = held[g] /\ held[h] # NoIndex => h = g
    BY DEF TypeOK, LastPeerDistinct, Distinct
  <2>4. initiator' \in [Peer -> BOOLEAN]
    BY <1>4 DEF ConfirmNext, TypeOK
  <2> QED BY <2>1, <2>2, <2>3, <2>4, HoldInv
<1>5. ASSUME NEW p \in Peer, NEW slot \in {"curr", "prev", "next"}, DestroyKeypair(p, slot)
      PROVE  TypeOK' /\ LastPeerDistinct'
  <2> DEFINE held == [local_index[p] EXCEPT ![slot] = NoIndex]
  <2>1. Hold(p, held)
    BY <1>5 DEF DestroyKeypair
  <2>2. held \in [Holder -> Index \cup {NoIndex}]
    BY DEF TypeOK
  <2>3. p = MaxPeers => \A h, g \in Holder : held[h] = held[g] /\ held[h] # NoIndex => h = g
    BY DEF TypeOK, LastPeerDistinct, Distinct
  <2>4. initiator' \in [Peer -> BOOLEAN]
    BY <1>5 DEF DestroyKeypair, TypeOK
  <2> QED BY <2>1, <2>2, <2>3, <2>4, HoldInv
<1>6. CASE wg_ifdown
  BY <1>6, LastPeer DEF wg_ifdown, TypeOK, LastPeerDistinct, Distinct
<1>7. CASE UNCHANGED vars
  BY <1>7 DEF vars, TypeOK, LastPeerDistinct, Distinct
<1> QED BY <1>1, <1>2, <1>3, <1>4, <1>5, <1>6, <1>7 DEF Next

\* The last peer of the device never holds one index in two places, for any
\* number of peers (wireguard_generate_unique_index and the slot rotation).
THEOREM LastPeerIsDistinct == Spec => []LastPeerDistinct
<1>1. Spec => [](TypeOK /\ LastPeerDistinct)
  BY InitInv, StepInv, PTL DEF Spec
<1> QED BY <1>1, PTL

\* With one peer, the default CONFIG_NET_WIREGUARD_MAX_PEERS, the comment on
\* wireguard_generate_unique_index() is true.
THEOREM OnePeerIsEnough ==
  ASSUME MaxPeers = 1
  PROVE  Spec => []DeviceDistinct
<1>1. LastPeerDistinct => DeviceDistinct
  BY MaxPeers = 1 DEF LastPeerDistinct, DeviceDistinct, Distinct, Peer
<1> QED BY <1>1, LastPeerIsDistinct, PTL

=============================================================================
