-------------------------- MODULE WgSession_proofs --------------------------
(***************************************************************************)
(* The safety of two peers, for every number of handshakes, packets, ticks *)
(* and restarts, and every value of the limits.                            *)
(*                                                                         *)
(* Three invariants build on each other. IInv is about one device at a     *)
(* time: World(d, p, N, f) says that the peer record p of device d is      *)
(* sound when the network holds the datagrams N and f is the next          *)
(* ephemeral. HInv adds what the devices owe to the sessions started and   *)
(* the packets accepted so far, and CInv what the last initiation was.     *)
(* Each function of module WgPeer has a lemma by which it leads from one   *)
(* such state to another, and a handler is a chain of them; Deed(d) sums   *)
(* up what one handler does, for the action properties and for the         *)
(* refinement of KeyLifecycle.                                             *)
(***************************************************************************)
EXTENDS WgSession, FiniteSetTheorems, TLAPS

\* SlotDiscipline and SlotsDistinct, of one peer.
InOrder(kps) ==
  /\ ~(kps["prev"].valid /\ kps["next"].valid)
  /\ kps["next"].valid => ~kps["next"].initiator /\ ~kps["next"].heard
  /\ kps["curr"].valid => Confirmed(kps["curr"])

AllDistinct(kps) ==
  \A s, t \in Slots :
    kps[s].valid /\ kps[t].valid /\ s # t => kps[s].key # kps[t].key

\* Ephemerals are drawn in order: none in use reaches the next one, f.
Below(f) == 0 .. f - 1

KeysBelow(kps, f) == \A s \in Slots : kps[s].key \in Below(f) \X Below(f)

MessagesBelow(N, f) ==
  \A m \in N :
    /\ m.type \in {"initiation", "response"} => m.ephemeral \in Below(f)
    /\ m.type = "initiation" => m.timestamp \in Nat
    /\ m.type = "data" => m.key \in Below(f) \X Below(f) /\ m.counter \in Nat

\* The ephemeral of an initiation that waits for its response is in no key of
\* this device, is in nobody else's initiation, and no packet was sent with it.
HandshakeUnused(d, p, N) ==
  p.handshake.valid /\ p.handshake.initiator =>
    /\ \A s \in Slots : p.keypairs[s].valid => p.keypairs[s].key[1] # p.handshake.local
    /\ \A m \in N : m.type = "initiation" /\ m.from # d
                      => m.ephemeral # p.handshake.local
    /\ \A m \in N : m.type = "data" /\ m.from = d => m.key[1] # p.handshake.local

\* The counter of an installed key is above all that were sent with it.
CounterAhead(d, kps, N) ==
  \A s \in Slots : kps[s].valid =>
    \A m \in N : m.type = "data" /\ m.from = d /\ m.key = kps[s].key
                   => m.counter < kps[s].sending_counter

Sound(d, p, N, f) ==
  /\ p \in Peers
  /\ InOrder(p.keypairs)
  /\ AllDistinct(p.keypairs)
  /\ KeysBelow(p.keypairs, f)
  /\ p.handshake.local \in Below(f)
  /\ HandshakeUnused(d, p, N)
  /\ CounterAhead(d, p.keypairs, N)

NoncesUnique(N) ==
  \A m, n \in N :
    /\ m.type = "data" /\ n.type = "data"
    /\ m.from = n.from /\ m.key = n.key /\ m.counter = n.counter
    => m = n

World(d, p, N, f) == Sound(d, p, N, f) /\ MessagesBelow(N, f) /\ NoncesUnique(N)

Types ==
  /\ bifup \in [Device -> BOOLEAN]
  /\ clock \in [Device -> Nat]
  /\ now \in Nat \ {Never}
  /\ fresh \in Ephemerals
  /\ restarts \in [Device -> Nat]

OnlySentIsDelivered ==
  /\ DOMAIN delivered = Device
  /\ \A d \in Device : BagToSet(delivered[d]) \subseteq network

IInv ==
  /\ Types
  /\ OnlySentIsDelivered
  /\ peer \in [Device -> Peers]
  /\ \A d \in Device : World(d, peer[d], network, fresh)

-----------------------------------------------------------------------------
(* The peer record. The fields beside keypairs and handshake matter only   *)
(* for their types.                                                        *)

\* What add_new_keypair(), keypair_update() and keypair_destroy() keep of a
\* record is spared from the provers: two records with the same slots and
\* handshake are equally sound.
LEMMA SameSlots ==
  ASSUME NEW d, NEW p, NEW q \in Peers, NEW N, NEW f,
         Sound(d, p, N, f), q.keypairs = p.keypairs, q.handshake = p.handshake
  PROVE  Sound(d, q, N, f)
BY DEF Sound, HandshakeUnused

LEMMA NoKeypairType == NoKeypair \in Keypairs /\ ~NoKeypair.valid /\ NoKeypair.key = NoKey
BY DEF NoKeypair, Keypairs, NoKey, NoEphemeral, Never

\* keypair_destroy() on some slots, and a handshake that may be given up.
LEMMA Forget ==
  ASSUME NEW d, NEW p, NEW q \in Peers, NEW N, NEW f \in Ephemerals,
         World(d, p, N, f),
         \A s \in Slots : q.keypairs[s] \in {p.keypairs[s], NoKeypair},
         q.handshake = p.handshake \/ q.handshake = NoHandshake
  PROVE  World(d, q, N, f)
<1> USE NoKeypairType DEF World, Sound
<1>1. InOrder(q.keypairs)
  BY DEF InOrder, Slots, Confirmed
<1>2. AllDistinct(q.keypairs)
  BY DEF AllDistinct
<1>3. KeysBelow(q.keypairs, f)
  BY DEF KeysBelow, Ephemerals, NoKey, NoEphemeral, Below
<1>4. q.handshake.local \in Below(f)
  BY DEF NoHandshake, Ephemerals, NoEphemeral, Below
<1>5. HandshakeUnused(d, q, N)
  BY DEF HandshakeUnused, NoHandshake
<1>6. CounterAhead(d, q.keypairs, N)
  BY DEF CounterAhead
<1> QED BY <1>1, <1>2, <1>3, <1>4, <1>5, <1>6

LEMMA BelowGrows ==
  ASSUME NEW f \in Ephemerals, NEW g \in Ephemerals, f <= g
  PROVE  Below(f) \subseteq Below(g)
BY DEF Below, Ephemerals, NoEphemeral

\* One packet leaves on an installed key, or is lost on the way out; either way
\* the key's counter moves on.
LEMMA SendOne ==
  ASSUME NEW d, NEW p, NEW q \in Peers, NEW N, NEW f \in Ephemerals,
         World(d, p, N, f), NEW slot \in Slots, p.keypairs[slot].valid,
         q.keypairs = [p.keypairs EXCEPT ![slot].sending_counter = @ + 1],
         q.handshake = p.handshake,
         NEW payload, NEW out \in SUBSET {TransportData(d, p.keypairs[slot], payload)}
  PROVE  World(d, q, N \cup out, f)
<1> DEFINE kps == p.keypairs
           kp == kps[slot]
           data == TransportData(d, kp, payload)
<1> USE DEF World, Sound
<1>1. kps \in [Slots -> Keypairs] /\ kp \in Keypairs
  BY DEF Peers
<1>2. /\ data.type = "data" /\ data.from = d /\ data.key = kp.key
      /\ data.counter = kp.sending_counter /\ data.counter \in Nat
  BY <1>1 DEF TransportData, Keypairs
<1>3. \A s \in Slots :
        /\ q.keypairs[s].valid = kps[s].valid /\ q.keypairs[s].key = kps[s].key
        /\ q.keypairs[s].initiator = kps[s].initiator
        /\ q.keypairs[s].heard = kps[s].heard
        /\ q.keypairs[s].sending_counter = IF s = slot THEN kp.sending_counter + 1
                                           ELSE kps[s].sending_counter
  <2>1. \A s \in Slots :
          q.keypairs[s] = IF s = slot THEN [kp EXCEPT !.sending_counter = @ + 1] ELSE kps[s]
    BY <1>1
  <2> DEFINE used == [kp EXCEPT !.sending_counter = @ + 1]
  <2>3. /\ used.valid = kp.valid /\ used.key = kp.key /\ used.initiator = kp.initiator
        /\ used.heard = kp.heard /\ used.sending_counter = kp.sending_counter + 1
    BY <1>1 DEF Keypairs
  <2> QED BY <2>1, <2>3
<1>4. InOrder(q.keypairs) /\ AllDistinct(q.keypairs) /\ KeysBelow(q.keypairs, f)
  <2>1. InOrder(kps) /\ AllDistinct(kps) /\ KeysBelow(kps, f)
    OBVIOUS
  <2>2. InOrder(q.keypairs)
    BY ONLY <1>3, <2>1 DEF InOrder, Confirmed, Slots
  <2>3. AllDistinct(q.keypairs)
    BY ONLY <1>3, <2>1 DEF AllDistinct
  <2>4. KeysBelow(q.keypairs, f)
    BY ONLY <1>3, <2>1 DEF KeysBelow
  <2> QED BY <2>2, <2>3, <2>4
<1>5. MessagesBelow(N \cup out, f)
  BY <1>2 DEF MessagesBelow, KeysBelow
<1>6. HandshakeUnused(d, q, N \cup out)
  <2>1. \A m \in out : m = data
    OBVIOUS
  <2> QED BY <2>1, <1>2, <1>3 DEF HandshakeUnused
<1>7. CounterAhead(d, q.keypairs, N \cup out)
  <2> SUFFICES ASSUME NEW s \in Slots, q.keypairs[s].valid, NEW m \in N \cup out,
                      m.type = "data", m.from = d, m.key = q.keypairs[s].key
               PROVE  m.counter < q.keypairs[s].sending_counter
    BY DEF CounterAhead
  <2>1. CASE m \in N
    <3>1. m.counter < kps[s].sending_counter
      BY <2>1, <1>3 DEF CounterAhead
    <3>2. m.counter \in Nat /\ kps[s].sending_counter \in Nat
      BY <2>1, <1>1 DEF MessagesBelow, Keypairs
    <3> QED BY <3>1, <3>2, <1>3
  <2>2. CASE m \in out
    <3>1. m = data
      BY <2>2
    <3>2. s = slot
      BY <3>1, <1>2, <1>3 DEF AllDistinct
    <3> QED BY <3>1, <3>2, <1>2, <1>3
  <2> QED BY <2>1, <2>2
<1>8. NoncesUnique(N \cup out)
  <2>1. \A m \in N : m.type = "data" /\ m.from = d /\ m.key = kp.key
                       => m.counter \in Nat /\ m.counter < data.counter
    BY <1>2 DEF CounterAhead, MessagesBelow
  <2>2. \A m \in N : m.type = "data" /\ m.from = d /\ m.key = kp.key
                       => m.counter # data.counter
    BY <2>1, <1>2
  <2>3. \A m \in out : m = data
    OBVIOUS
  <2> QED BY <2>2, <2>3, <1>2 DEF NoncesUnique
<1> QED BY <1>4, <1>5, <1>6, <1>7, <1>8

\* wireguard_start_session() installs a key that is in no slot and was never
\* sent on, and gives up the handshake it came from.
LEMMA AddKey ==
  ASSUME NEW d, NEW p, NEW q \in Peers, NEW N,
         NEW f \in Ephemerals, NEW g \in Ephemerals, f <= g,
         World(d, p, N, f),
         NEW new \in Keypairs, new.valid, ~new.heard, new.sending_counter = 0,
         new.key \in Below(g) \X Below(g),
         \A s \in Slots : p.keypairs[s].valid => p.keypairs[s].key # new.key,
         \A m \in N : m.type = "data" /\ m.from = d => m.key # new.key,
         q.keypairs = add_new_keypair(p.keypairs, new), q.handshake = NoHandshake
  PROVE  World(d, q, N, g)
<1> USE NoKeypairType DEF World, Sound
<1>1. p.keypairs \in [Slots -> Keypairs]
  BY DEF Peers
<1>2. \A s \in Slots :
        \/ q.keypairs[s] = NoKeypair
        \/ q.keypairs[s] = new
        \/ \E r \in Slots : q.keypairs[s] = p.keypairs[r]
  BY <1>1 DEF add_new_keypair, Slots
<1>3. InOrder(q.keypairs)
  BY <1>1 DEF InOrder, add_new_keypair, Slots, Confirmed
<1>4. AllDistinct(q.keypairs)
  BY <1>1 DEF AllDistinct, add_new_keypair, Slots
<1>5. KeysBelow(q.keypairs, g)
  <2>1. NoKey \in Below(g) \X Below(g)
    BY DEF NoKey, NoEphemeral, Below, Ephemerals
  <2> QED BY <1>2, <2>1, BelowGrows DEF KeysBelow
<1>6. q.handshake.local \in Below(g) /\ HandshakeUnused(d, q, N)
  BY DEF NoHandshake, NoEphemeral, Below, Ephemerals, HandshakeUnused
<1>7. CounterAhead(d, q.keypairs, N)
  BY <1>2 DEF CounterAhead
<1>8. MessagesBelow(N, g)
  BY BelowGrows DEF MessagesBelow
<1> QED BY <1>3, <1>4, <1>5, <1>6, <1>7, <1>8

\* What device d sends leaves its world sound, and that of the other.
Departed(d, out, f) ==
  \A m \in out : m.from = d /\ (m.type = "initiation" => m.ephemeral = f)

LEMMA OtherWorld ==
  ASSUME NEW e, NEW d, e # d, NEW p, NEW q, NEW N, NEW out,
         NEW f \in Ephemerals, NEW g \in Ephemerals, f <= g,
         World(e, p, N, f), World(d, q, N \cup out, g), Departed(d, out, f)
  PROVE  World(e, p, N \cup out, g)
<1> USE DEF World, Sound
<1>1. KeysBelow(p.keypairs, g) /\ p.handshake.local \in Below(g)
  BY BelowGrows DEF KeysBelow
<1>2. p.handshake.local # f
  BY DEF Below, Ephemerals
<1>3. HandshakeUnused(e, p, N \cup out)
  BY <1>2 DEF HandshakeUnused, Departed
<1>4. CounterAhead(e, p.keypairs, N \cup out)
  BY DEF CounterAhead, Departed
<1> QED BY <1>1, <1>3, <1>4

-----------------------------------------------------------------------------
(* The functions of the peer, one lemma each.                              *)

LEMMA ExpiredIsBoolean ==
  ASSUME NEW since \in Int, NEW span \in Int, NEW t \in Int
  PROVE  Expired(since, span, t) \in BOOLEAN
BY DEF Expired

LEMMA TransmitAtMost ==
  ASSUME NEW p, NEW ok, NEW m
  PROVE  Transmit(p, ok, m) \in SUBSET {m}
BY DEF Transmit

LEMMA SendingSlotType == \A kps : SendingSlot(kps) \in Slots
BY DEF SendingSlot, Slots

LEMMA EncryptAndSend ==
  ASSUME NEW d, NEW p, NEW N, NEW f \in Ephemerals, World(d, p, N, f),
         NEW payload \in BOOLEAN, NEW ok, NEW t \in Nat, NEW r,
         r = wg_encrypt_and_send(d, p, payload, ok, t)
  PROVE  /\ World(d, r.peer, N \cup r.out, f)
         /\ Departed(d, r.out, f)
         /\ r.peer.handshake = p.handshake
<1> DEFINE slot == SendingSlot(p.keypairs)
           kp == p.keypairs[slot]
           used == [kp EXCEPT !.sending_counter = @ + 1]
           sent == Transmit(p, ok, TransportData(d, kp, payload))
           rekey == \/ used.sending_counter >= REKEY_AFTER_MESSAGES
                    \/ kp.initiator /\ Expired(kp.keypair_millis, REKEY_AFTER_TIME, t)
           dropped == [p EXCEPT !.keypairs[slot] = NoKeypair]
           sender == [p EXCEPT !.keypairs[slot] = used,
                               !.last_tx = IF ok THEN t ELSE @,
                               !.send_handshake = @ \/ rekey]
<1> HIDE DEF slot, used, sent, rekey, dropped, sender
<1>1. p \in Peers /\ slot \in Slots /\ kp \in Keypairs
  BY SendingSlotType DEF World, Sound, Peers, slot
<1>2. CASE ~kp.valid \/ ~Confirmed(kp)
  <2>1. r = [peer |-> p, out |-> {}]
    BY <1>2 DEF wg_encrypt_and_send, slot
  <2> QED BY <2>1 DEF Departed
<1>3. CASE /\ kp.valid
           /\ Expired(kp.keypair_millis, REJECT_AFTER_TIME, t)
              \/ kp.sending_counter >= REJECT_AFTER_MESSAGES
           /\ Confirmed(kp)
  <2>1. r = [peer |-> dropped, out |-> {}]
    BY <1>3 DEF wg_encrypt_and_send, slot, dropped
  <2>2. /\ dropped \in Peers /\ dropped.handshake = p.handshake
        /\ dropped.keypairs = [p.keypairs EXCEPT ![slot] = NoKeypair]
    BY <1>1, NoKeypairType DEF Peers, dropped
  <2>3. \A s \in Slots : dropped.keypairs[s] \in {p.keypairs[s], NoKeypair}
    BY <1>1, <2>2 DEF Peers
  <2>4. World(d, dropped, N, f)
    BY <2>2, <2>3, Forget
  <2>5. r.peer = dropped /\ r.out = {} /\ N \cup r.out = N
    BY <2>1
  <2> QED BY <2>2, <2>4, <2>5 DEF Departed
<1>4. CASE /\ kp.valid /\ Confirmed(kp)
           /\ ~(Expired(kp.keypair_millis, REJECT_AFTER_TIME, t)
                \/ kp.sending_counter >= REJECT_AFTER_MESSAGES)
  <2>1. r = [peer |-> sender, out |-> sent]
    BY <1>4 DEF wg_encrypt_and_send, slot, used, sent, rekey, sender
  <2>2. used \in Keypairs /\ used.sending_counter = kp.sending_counter + 1
    BY <1>1 DEF Keypairs, used
  <2>3. rekey \in BOOLEAN
    BY DEF rekey
  <2>4. /\ sender \in Peers /\ sender.handshake = p.handshake
        /\ sender.keypairs = [p.keypairs EXCEPT ![slot] = used]
    BY <1>1, <2>2, <2>3 DEF Peers, sender
  <2>5. sent \in SUBSET {TransportData(d, kp, payload)}
    BY TransmitAtMost DEF sent
  <2>6. sender.keypairs = [p.keypairs EXCEPT ![slot].sending_counter = @ + 1]
    BY <2>4 DEF used
  <2>7. World(d, sender, N \cup sent, f)
    BY <1>1, <1>4, <2>4, <2>5, <2>6, SendOne
  <2>8. Departed(d, sent, f)
    BY <2>5 DEF Departed, TransportData
  <2>9. r.peer = sender /\ r.out = sent
    BY <2>1
  <2> QED BY <2>4, <2>7, <2>8, <2>9
<1> QED BY <1>2, <1>3, <1>4

\* A datagram that is not data: an initiation, a response or a cookie reply.
LEMMA SendControl ==
  ASSUME NEW d, NEW p, NEW N, NEW f \in Ephemerals, World(d, p, N, f),
         NEW out, MessagesBelow(out, f),
         \A m \in out : m.from = d /\ m.type # "data"
  PROVE  World(d, p, N \cup out, f)
<1> USE DEF World, Sound
<1>1. MessagesBelow(N \cup out, f)
  BY DEF MessagesBelow
<1>2. HandshakeUnused(d, p, N \cup out)
  BY DEF HandshakeUnused
<1>3. CounterAhead(d, p.keypairs, N \cup out)
  BY DEF CounterAhead
<1>4. NoncesUnique(N \cup out)
  BY DEF NoncesUnique
<1> QED BY <1>1, <1>2, <1>3, <1>4

LEMMA NextEphemeral ==
  ASSUME NEW f \in Ephemerals
  PROVE  /\ f + 1 \in Ephemerals /\ f <= f + 1
         /\ f \in Below(f + 1) /\ Below(f) \subseteq Below(f + 1)
         /\ f \notin Below(f) /\ NoEphemeral \in Below(f)
BY DEF Ephemerals, NoEphemeral, Below

\* wg_start_handshake(): the ephemeral of the new initiation is in no key and
\* in no other initiation, for it has just been drawn.
LEMMA StartHandshake ==
  ASSUME NEW d, NEW p, NEW N, NEW f \in Ephemerals, World(d, p, N, f),
         NEW ts \in Nat, NEW ok, NEW t \in Nat, NEW r,
         r = wg_start_handshake(d, p, f, ts, ok, t)
  PROVE  World(d, r.peer, N \cup r.out, f + 1) /\ Departed(d, r.out, f)
<1> DEFINE mac2 == p.cookie_millis # Never
                     /\ ~Expired(p.cookie_millis, COOKIE_SECRET_MAX_AGE, t)
           q == [p EXCEPT !.handshake.valid = TRUE, !.handshake.initiator = TRUE,
                          !.handshake.local = f, !.send_handshake = FALSE,
                          !.last_initiation_tx = t, !.mac1 = f]
           out == Transmit(p, ok, Initiation(d, f, ts, mac2))
<1> HIDE DEF mac2, q, out
<1>1. r.peer = q /\ r.out = out
  BY DEF wg_start_handshake, mac2, q, out
<1>2. p \in Peers
  BY DEF World, Sound
<1>3. q \in Peers /\ q.keypairs = p.keypairs
  BY <1>2 DEF q, Peers, Handshakes, Ephemerals
<1>4. q.handshake.local = f
  BY <1>2 DEF q, Peers, Handshakes
<1>5. HandshakeUnused(d, q, N)
  <2>1. \A s \in Slots : p.keypairs[s].key[1] # f
    BY NextEphemeral DEF World, Sound, KeysBelow
  <2>2. \A m \in N : m.type = "initiation" => m.ephemeral # f
    BY NextEphemeral DEF World, MessagesBelow
  <2>3. \A m \in N : m.type = "data" => m.key[1] # f
    BY NextEphemeral DEF World, MessagesBelow
  <2> QED BY <1>3, <1>4, <2>1, <2>2, <2>3 DEF HandshakeUnused
<1>6. World(d, q, N, f + 1)
  <2>1. KeysBelow(q.keypairs, f + 1)
    BY <1>3, NextEphemeral DEF KeysBelow, World, Sound
  <2>2. MessagesBelow(N, f + 1)
    BY NextEphemeral DEF MessagesBelow, World
  <2> QED BY <1>3, <1>4, <1>5, <2>1, <2>2, NextEphemeral DEF World, Sound
<1>7. \A m \in out : /\ m.type = "initiation" /\ m.from = d /\ m.ephemeral = f
                     /\ m.timestamp = ts
  BY TransmitAtMost DEF out, Initiation
<1>8. MessagesBelow(out, f + 1)
  BY <1>7, NextEphemeral DEF MessagesBelow
<1>9. World(d, q, N \cup out, f + 1)
  BY <1>6, <1>7, <1>8, NextEphemeral, SendControl
<1> QED BY <1>1, <1>7, <1>9 DEF Departed

\* The keypair wireguard_start_session() derives from a handshake.
NewKeypair(hs, initiator, t) ==
  [NoKeypair EXCEPT !.valid = TRUE, !.initiator = initiator,
     !.key = IF initiator THEN <<hs.local, hs.remote>> ELSE <<hs.remote, hs.local>>,
     !.keypair_millis = t]

LEMMA NewKeypairType ==
  ASSUME NEW hs, hs.local \in Nat, hs.remote \in Nat, NEW initiator \in BOOLEAN,
         NEW t \in Nat
  PROVE  LET new == NewKeypair(hs, initiator, t)
         IN  /\ new \in Keypairs /\ new.valid /\ ~new.heard
             /\ new.initiator = initiator /\ new.sending_counter = 0
             /\ new.key = IF initiator THEN <<hs.local, hs.remote>>
                          ELSE <<hs.remote, hs.local>>
BY DEF NewKeypair, NoKeypair, Keypairs

LEMMA AddNewKeypairType ==
  ASSUME NEW kps \in [Slots -> Keypairs], NEW new \in Keypairs
  PROVE  add_new_keypair(kps, new) \in [Slots -> Keypairs]
BY NoKeypairType DEF add_new_keypair, Slots

LEMMA StartSession ==
  ASSUME NEW p \in Peers, NEW initiator \in BOOLEAN, NEW t \in Nat, NEW q,
         q = wireguard_start_session(p, initiator, t)
  PROVE  /\ q \in Peers /\ q.handshake = NoHandshake
         /\ q.keypairs = add_new_keypair(p.keypairs, NewKeypair(p.handshake, initiator, t))
<1> DEFINE new == NewKeypair(p.handshake, initiator, t)
           kps == add_new_keypair(p.keypairs, new)
<1>1. q = [p EXCEPT !.handshake = NoHandshake, !.keypairs = kps]
  BY DEF wireguard_start_session, NewKeypair
<1>2. p.handshake.local \in Nat /\ p.handshake.remote \in Nat
  BY DEF Peers, Handshakes
<1>3. new \in Keypairs
  BY <1>2, NewKeypairType
<1> HIDE DEF new
<1>4. kps \in [Slots -> Keypairs]
  BY <1>3, AddNewKeypairType DEF Peers
<1>5. NoHandshake \in Handshakes
  BY DEF NoHandshake, Handshakes, NoEphemeral
<1> HIDE DEF kps
<1>6. q \in Peers /\ q.handshake = NoHandshake /\ q.keypairs = kps
  BY <1>1, <1>4, <1>5 DEF Peers
<1> QED BY <1>6 DEF kps, new

\* An initiation accepted: the new key has the responder's fresh ephemeral.
LEMMA AnswerStep ==
  ASSUME NEW d, NEW p, NEW N, NEW f \in Ephemerals, World(d, p, N, f),
         NEW m \in N, m.type = "initiation", NEW addr \in Address, NEW ok,
         NEW t \in Nat, NEW r, r = AnswerInitiation(d, p, m, addr, f, ok, t)
  PROVE  World(d, r.peer, N \cup r.out, f + 1) /\ Departed(d, r.out, f)
<1> DEFINE hs == [valid |-> TRUE, initiator |-> FALSE, local |-> f, remote |-> m.ephemeral]
           taken == [p EXCEPT !.last_initiation_rx = t,
                              !.greatest_timestamp = m.timestamp,
                              !.handshake = hs, !.ip = addr]
           q == wireguard_start_session(taken, FALSE, t)
           out == Transmit(taken, ok, Response(d, m.ephemeral, f))
           new == NewKeypair(hs, FALSE, t)
<1>1. m.ephemeral \in Below(f) /\ m.timestamp \in Nat /\ p \in Peers
  BY DEF World, Sound, MessagesBelow
<1>2. hs \in Handshakes
  BY <1>1 DEF Handshakes, Below, Ephemerals
<1> HIDE DEF hs
<1>3. taken \in Peers /\ taken.handshake = hs /\ taken.keypairs = p.keypairs
  BY <1>1, <1>2 DEF Peers
<1>4. r.peer = q /\ r.out = out
  BY DEF AnswerInitiation, hs
<1> HIDE DEF taken, q, out
<1>5. q \in Peers /\ q.handshake = NoHandshake /\ q.keypairs = add_new_keypair(p.keypairs, new)
  BY <1>3, StartSession DEF q
<1>6. hs.local = f /\ hs.remote = m.ephemeral /\ f \in Nat /\ m.ephemeral \in Nat
  BY <1>1 DEF hs, Below, Ephemerals
<1>7. /\ new \in Keypairs /\ new.valid /\ ~new.heard /\ new.sending_counter = 0
      /\ new.key = <<m.ephemeral, f>>
  BY <1>6, NewKeypairType
<1> HIDE DEF new
<1>8. new.key \in Below(f + 1) \X Below(f + 1)
  BY <1>1, <1>7, NextEphemeral
<1>9. \A s \in Slots : p.keypairs[s].key # new.key
  BY <1>7, NextEphemeral DEF World, Sound, KeysBelow
<1>10. \A n \in N : n.type = "data" => n.key # new.key
  BY <1>7, NextEphemeral DEF World, MessagesBelow
<1>11. World(d, q, N, f + 1)
  BY <1>5, <1>7, <1>8, <1>9, <1>10, NextEphemeral, AddKey
<1>12. \A n \in out : n.type = "response" /\ n.from = d /\ n.ephemeral = f
  BY TransmitAtMost DEF out, Response
<1>13. MessagesBelow(out, f + 1)
  BY <1>12, NextEphemeral DEF MessagesBelow
<1>14. World(d, q, N \cup out, f + 1)
  BY <1>11, <1>12, <1>13, NextEphemeral, SendControl
<1> QED BY <1>4, <1>12, <1>14 DEF Departed

\* A response taken: the new key has the ephemeral of the handshake, which is in
\* no other.
LEMMA CompleteStep ==
  ASSUME NEW d, NEW p, NEW N, NEW f \in Ephemerals, World(d, p, N, f),
         NEW m \in N, m.type = "response", HandshakeFor(p, m.receiver),
         NEW addr \in Address, NEW ok, NEW t \in Nat, NEW r,
         r = CompleteHandshake(d, p, m, addr, ok, t)
  PROVE  World(d, r.peer, N \cup r.out, f) /\ Departed(d, r.out, f)
<1> DEFINE joined == [p EXCEPT !.handshake.remote = m.ephemeral, !.ip = addr]
           hs == joined.handshake
           q == wireguard_start_session(joined, TRUE, t)
           new == NewKeypair(hs, TRUE, t)
<1>1. m.ephemeral \in Below(f) /\ p \in Peers /\ p.handshake.local \in Below(f)
  BY DEF World, Sound, MessagesBelow
<1>2. m.ephemeral \in Nat /\ p.handshake.local \in Nat
  BY <1>1 DEF Below, Ephemerals
<1>3. /\ joined \in Peers /\ joined.keypairs = p.keypairs
      /\ hs.local = p.handshake.local /\ hs.remote = m.ephemeral
  BY <1>1, <1>2 DEF Peers, Handshakes
<1>4. r = wg_encrypt_and_send(d, q, FALSE, ok, t)
  BY DEF CompleteHandshake
<1> HIDE DEF joined, q, hs
<1>5. q \in Peers /\ q.handshake = NoHandshake /\ q.keypairs = add_new_keypair(p.keypairs, new)
  BY <1>3, StartSession DEF q, hs
<1>6. /\ new \in Keypairs /\ new.valid /\ ~new.heard /\ new.sending_counter = 0
      /\ new.key = <<p.handshake.local, m.ephemeral>>
  <2>1. hs.local \in Nat /\ hs.remote \in Nat
    BY <1>2, <1>3
  <2>2. new.key = IF TRUE THEN <<hs.local, hs.remote>> ELSE <<hs.remote, hs.local>>
    BY <2>1, NewKeypairType
  <2>3. new \in Keypairs /\ new.valid /\ ~new.heard /\ new.sending_counter = 0
    BY <2>1, NewKeypairType
  <2> QED BY <1>3, <2>2, <2>3
<1> HIDE DEF new
<1>7. new.key \in Below(f) \X Below(f) /\ new.key[1] = p.handshake.local
  BY <1>1, <1>6
<1>8. /\ \A s \in Slots : p.keypairs[s].valid => p.keypairs[s].key # new.key
      /\ \A n \in N : n.type = "data" /\ n.from = d => n.key # new.key
  BY <1>7 DEF World, Sound, HandshakeUnused, HandshakeFor
<1>9. f <= f
  BY DEF Ephemerals
<1>10. World(d, q, N, f)
  BY <1>5, <1>6, <1>7, <1>8, <1>9, AddKey
<1>11. PICK payload \in BOOLEAN : r = wg_encrypt_and_send(d, q, payload, ok, t)
  BY <1>4
<1> QED BY <1>10, <1>11, EncryptAndSend

\* A key on which the packet c has been heard,
HeardOn(k, c) == [k EXCEPT !.heard = TRUE, !.seen = @ \cup {c}]

IsHeard(k, c, h) ==
  /\ h \in Keypairs /\ h.valid = k.valid /\ h.key = k.key
  /\ h.initiator = k.initiator /\ h.sending_counter = k.sending_counter
  /\ h.heard = TRUE /\ h.seen = k.seen \cup {c}

\* and the slots after it was heard on one of them.
Hear(kps, slot, c) == [kps EXCEPT ![slot].heard = TRUE, ![slot].seen = @ \cup {c}]

IsHeardOn(kps, slot, c, heard) ==
  /\ heard \in [Slots -> Keypairs]
  /\ \A s \in Slots :
       /\ heard[s].valid = kps[s].valid /\ heard[s].key = kps[s].key
       /\ heard[s].initiator = kps[s].initiator
       /\ heard[s].sending_counter = kps[s].sending_counter
       /\ heard[s].heard = IF s = slot THEN TRUE ELSE kps[s].heard
       /\ heard[s].seen = IF s = slot THEN kps[s].seen \cup {c} ELSE kps[s].seen

\* Hearing on a key changes nothing of it but what it has heard.
LEMMA KeypairHeard ==
  ASSUME NEW k \in Keypairs, NEW c \in Nat
  PROVE  IsHeard(k, c, HeardOn(k, c))
<1>1. PICK j : j = [k EXCEPT !.heard = TRUE]
  OBVIOUS
<1>2. /\ j \in Keypairs /\ j.valid = k.valid /\ j.key = k.key /\ j.initiator = k.initiator
      /\ j.sending_counter = k.sending_counter /\ j.heard = TRUE /\ j.seen = k.seen
  BY <1>1 DEF Keypairs
<1>3. PICK seen \in SUBSET Nat : seen = k.seen \cup {c}
  BY DEF Keypairs
<1>4. PICK h : h = HeardOn(k, c)
  OBVIOUS
<1>5. h = [j EXCEPT !.seen = seen]
  BY <1>1, <1>2, <1>3, <1>4 DEF Keypairs, HeardOn
<1>6. /\ h \in Keypairs /\ h.valid = j.valid /\ h.key = j.key /\ h.initiator = j.initiator
      /\ h.sending_counter = j.sending_counter /\ h.heard = j.heard /\ h.seen = seen
  BY ONLY <1>2, <1>5, seen \in SUBSET Nat DEF Keypairs
<1>7. IsHeard(k, c, h)
  BY ONLY <1>2, <1>3, <1>6 DEF IsHeard
<1> QED BY ONLY <1>4, <1>7

\* Hearing on a slot leaves the other slots as they were.
LEMMA SlotHeard ==
  ASSUME NEW kps \in [Slots -> Keypairs], NEW slot \in Slots, NEW c \in Nat
  PROVE  IsHeardOn(kps, slot, c, Hear(kps, slot, c))
<1>1. PICK k \in Keypairs : k = kps[slot]
  OBVIOUS
<1>2. PICK h, heard : h = HeardOn(k, c) /\ heard = Hear(kps, slot, c)
  OBVIOUS
<1>3. IsHeard(k, c, h)
  BY ONLY <1>2, k \in Keypairs, c \in Nat, KeypairHeard
<1>4. heard = [kps EXCEPT ![slot] = h]
  BY <1>1, <1>2 DEF Hear, HeardOn
<1>5. /\ h \in Keypairs /\ heard \in [Slots -> Keypairs] /\ heard[slot] = h
      /\ \A s \in Slots : s # slot => heard[s] = kps[s]
  BY <1>3, <1>4 DEF IsHeard
<1>6. IsHeardOn(kps, slot, c, heard)
  BY ONLY <1>1, <1>3, <1>5 DEF IsHeard, IsHeardOn
<1> QED BY ONLY <1>2, <1>6

\* Data taken on a slot: keypair_update() moves the key and leaves no copy, and
\* a key that becomes current has been heard.
LEMMA AcceptStep ==
  ASSUME NEW d, NEW p, NEW N, NEW f \in Ephemerals, World(d, p, N, f),
         NEW m \in N, m.type = "data", NEW slot \in Slots, p.keypairs[slot].valid,
         NEW addr \in Address, NEW interval \in Nat, NEW t \in Nat
  PROVE  World(d, AcceptData(p, slot, m, addr, interval, t), N, f)
<1> DEFINE old == p.keypairs
           heard == Hear(old, slot, m.counter)
           kps == keypair_update(heard, slot)
           due == kps[slot].initiator
                  /\ Expired(kps[slot].keypair_millis,
                             REJECT_AFTER_TIME - interval - REKEY_TIMEOUT, t)
           q == AcceptData(p, slot, m, addr, interval, t)
<1>1. p \in Peers /\ old \in [Slots -> Keypairs] /\ m.counter \in Nat
  BY DEF World, Sound, MessagesBelow, Peers
<1>2. IsHeardOn(old, slot, m.counter, heard)
  BY ONLY <1>1, slot \in Slots, SlotHeard
<1>3. heard \in [Slots -> Keypairs]
  BY ONLY <1>2 DEF IsHeardOn
<1>4. \A s \in Slots :
        /\ heard[s].valid = old[s].valid /\ heard[s].key = old[s].key
        /\ heard[s].initiator = old[s].initiator
        /\ heard[s].sending_counter = old[s].sending_counter
        /\ heard[s].heard = IF s = slot THEN TRUE ELSE old[s].heard
  BY ONLY <1>2 DEF IsHeardOn
<1>5. q = [p EXCEPT !.ip = addr, !.keypairs = kps, !.send_handshake = @ \/ due]
  BY DEF AcceptData, Hear
<1> HIDE DEF heard, q
<1>6. kps \in [Slots -> Keypairs]
  BY <1>3, NoKeypairType DEF keypair_update, Slots
<1>7. due \in BOOLEAN
  OBVIOUS
<1>8. \A s \in Slots : kps[s] = NoKeypair \/ \E o \in Slots : kps[s] = heard[o]
  BY <1>3 DEF keypair_update, Slots
<1>9. InOrder(kps)
  BY <1>3, <1>4, NoKeypairType DEF InOrder, keypair_update, Slots, Confirmed, World, Sound
<1>10. AllDistinct(kps)
  BY <1>3, <1>4, NoKeypairType DEF AllDistinct, keypair_update, Slots, World, Sound
<1> HIDE DEF kps, due
<1>11. q \in Peers /\ q.keypairs = kps /\ q.handshake = p.handshake
  BY <1>1, <1>5, <1>6, <1>7 DEF Peers
<1> HIDE DEF old
<1>12. ASSUME NEW s \in Slots
       PROVE  \/ kps[s].key = NoKey /\ ~kps[s].valid
              \/ \E o \in Slots : /\ kps[s].valid = old[o].valid
                                 /\ kps[s].key = old[o].key
                                 /\ kps[s].sending_counter = old[o].sending_counter
  <2>1. CASE kps[s] = NoKeypair
    BY <2>1, NoKeypairType
  <2>2. ASSUME NEW o \in Slots, kps[s] = heard[o]
        PROVE  /\ kps[s].valid = old[o].valid /\ kps[s].key = old[o].key
               /\ kps[s].sending_counter = old[o].sending_counter
    BY <2>2, <1>4
  <2> QED BY <2>1, <2>2, <1>8
<1>14. KeysBelow(kps, f)
  <2>1. NoKey \in Below(f) \X Below(f)
    BY NextEphemeral DEF NoKey
  <2>2. \A o \in Slots : old[o].key \in Below(f) \X Below(f)
    BY DEF old, KeysBelow, World, Sound
  <2> QED BY <2>1, <2>2, <1>12 DEF KeysBelow
<1>15. HandshakeUnused(d, q, N)
  <2>1. HandshakeUnused(d, p, N)
    BY DEF World, Sound
  <2> QED BY <2>1, <1>11, <1>12 DEF HandshakeUnused, old
<1>16. CounterAhead(d, kps, N)
  <2>1. CounterAhead(d, old, N)
    BY DEF old, World, Sound
  <2> QED BY <2>1, <1>12 DEF CounterAhead
<1> QED BY <1>9, <1>10, <1>11, <1>14, <1>15, <1>16 DEF World, Sound, q

LEMMA EmptySlotsType ==
  EmptySlots \in [Slots -> Keypairs] /\ \A s \in Slots : EmptySlots[s] = NoKeypair
BY NoKeypairType DEF EmptySlots

LEMMA Configured == \A d \in Device : connect_ip[d] \in Address \cup {NoAddress}
BY DeviceAssumption

\* What wg_run_timers() does before it may initiate.
LEMMA TimersStep ==
  ASSUME NEW d, NEW p, NEW N, NEW f \in Ephemerals, World(d, p, N, f),
         NEW ip \in Address \cup {NoAddress}, NEW interval, NEW ok, NEW t \in Nat,
         NEW r, r = TimersUpkeep(d, p, ip, interval, ok, t)
  PROVE  World(d, r.peer, N \cup r.out, f) /\ Departed(d, r.out, f)
<1> DEFINE wiped == WipeIfAbandoned(p, ip, t)
           dropped == DropIfExpired(wiped, t)
<1>1. World(d, wiped, N, f)
  <2> DEFINE q == [p EXCEPT !.keypairs = EmptySlots, !.ip = ip]
  <2>1. wiped = p \/ wiped = q
    BY DEF WipeIfAbandoned
  <2>2. q \in Peers /\ q.keypairs = EmptySlots /\ q.handshake = p.handshake
    BY EmptySlotsType DEF Peers, World, Sound
  <2> HIDE DEF q
  <2>3. World(d, q, N, f)
    BY <2>2, EmptySlotsType, Forget
  <2> QED BY <2>1, <2>3
<1> HIDE DEF wiped
<1>2. World(d, dropped, N, f)
  <2> DEFINE q == [wiped EXCEPT !.keypairs["curr"] = NoKeypair]
  <2>1. dropped = wiped \/ dropped = q
    BY DEF DropIfExpired
  <2>2. wiped \in Peers /\ "curr" \in Slots
    BY <1>1 DEF World, Sound, Slots
  <2>3. /\ q \in Peers /\ q.handshake = wiped.handshake
        /\ q.keypairs = [wiped.keypairs EXCEPT !["curr"] = NoKeypair]
    BY <2>2, NoKeypairType DEF Peers
  <2>4. \A s \in Slots : q.keypairs[s] \in {wiped.keypairs[s], NoKeypair}
    BY <2>2, <2>3 DEF Peers
  <2> HIDE DEF q, dropped
  <2>5. World(d, q, N, f)
    BY <1>1, <2>3, <2>4, Forget
  <2>6. CASE dropped = wiped
    BY <1>1, <2>6
  <2>7. CASE dropped = q
    BY <2>5, <2>7
  <2> QED BY <2>1, <2>6, <2>7
<1>3. r = KeepaliveIfIdle(d, dropped, interval, ok, t)
  BY DEF TimersUpkeep, wiped
<1> HIDE DEF dropped
<1>4. CASE r = [peer |-> dropped, out |-> {}]
  <2>1. r.peer = dropped /\ r.out = {} /\ N \cup r.out = N
    BY <1>4
  <2> QED BY <1>2, <2>1 DEF Departed
<1>5. CASE r = wg_encrypt_and_send(d, dropped, FALSE, ok, t)
  <2>1. PICK payload \in BOOLEAN : r = wg_encrypt_and_send(d, dropped, payload, ok, t)
    BY <1>5
  <2> QED BY <1>2, <2>1, EncryptAndSend
<1> QED BY <1>3, <1>4, <1>5 DEF KeepaliveIfIdle

\* A peer as wireguard_peer_init() leaves it is sound in any network.
LEMMA FreshPeer ==
  ASSUME NEW d, NEW ip \in Address \cup {NoAddress}, NEW N, NEW f \in Ephemerals,
         MessagesBelow(N, f), NoncesUnique(N)
  PROVE  World(d, wireguard_peer_init(ip), N, f)
<1> DEFINE q == wireguard_peer_init(ip)
<1>1. q.keypairs = EmptySlots /\ q.handshake = NoHandshake
  BY DEF wireguard_peer_init
<1>2. q \in Peers
  BY EmptySlotsType
     DEF wireguard_peer_init, Peers, NoHandshake, Handshakes, Never, NoEphemeral
<1> HIDE DEF q
<1>3. \A s \in Slots : ~q.keypairs[s].valid /\ q.keypairs[s].key = NoKey
  BY <1>1, EmptySlotsType, NoKeypairType
<1>4. InOrder(q.keypairs) /\ AllDistinct(q.keypairs) /\ CounterAhead(d, q.keypairs, N)
  BY <1>3 DEF InOrder, AllDistinct, CounterAhead, Slots
<1>5. KeysBelow(q.keypairs, f)
  <2>1. NoKey \in Below(f) \X Below(f)
    BY NextEphemeral DEF NoKey
  <2> QED BY <1>3, <2>1 DEF KeysBelow
<1>6. q.handshake.local \in Below(f) /\ HandshakeUnused(d, q, N)
  BY <1>1, NextEphemeral DEF NoHandshake, HandshakeUnused
<1> QED BY <1>2, <1>4, <1>5, <1>6 DEF World, Sound, q

LEMMA IfupStep ==
  ASSUME NEW d, NEW p, NEW N, NEW f, World(d, p, N, f),
         NEW ip \in Address \cup {NoAddress}
  PROVE  World(d, IfupPeer(p, ip), N, f)
<1> DEFINE q == [p EXCEPT !.active = TRUE, !.ip = ip, !.send_handshake = TRUE]
<1>1. q \in Peers /\ q.keypairs = p.keypairs /\ q.handshake = p.handshake
  BY DEF Peers, World, Sound
<1>2. IfupPeer(p, ip) \in {p, q}
  BY DEF IfupPeer
<1> HIDE DEF q
<1>3. World(d, q, N, f)
  BY <1>1, SameSlots DEF World
<1> QED BY <1>2, <1>3

LEMMA IfdownStep ==
  ASSUME NEW d, NEW p, NEW N, NEW f \in Ephemerals, World(d, p, N, f),
         NEW ip \in Address \cup {NoAddress}
  PROVE  World(d, IfdownPeer(p, ip), N, f)
<1> DEFINE q == IfdownPeer(p, ip)
<1>1. q \in Peers /\ q.keypairs = EmptySlots /\ q.handshake = NoHandshake
  BY EmptySlotsType
     DEF IfdownPeer, Peers, World, Sound, NoHandshake, Handshakes, NoEphemeral
<1> HIDE DEF q
<1>2. World(d, q, N, f)
  BY <1>1, EmptySlotsType, Forget
<1> QED BY <1>2 DEF q

-----------------------------------------------------------------------------
(* The handlers.                                                           *)

\* A step of device d is sound for both ends if it is for d.
LEMMA CommitInv ==
  ASSUME IInv, NEW d \in Device, NEW r, Commit(d, r),
         Types', fresh <= fresh',
         World(d, r.peer, network \cup r.out, fresh'), Departed(d, r.out, fresh),
         DOMAIN delivered' = Device,
         \A e \in Device : BagToSet(delivered'[e]) \subseteq network'
  PROVE  IInv'
<1>1. /\ peer' = [peer EXCEPT ![d] = r.peer] /\ network' = network \cup r.out
      /\ fresh \in Ephemerals /\ fresh' \in Ephemerals
  BY DEF Commit, IInv, Types
<1>2. r.peer \in Peers
  BY DEF World, Sound
<1>3. peer' \in [Device -> Peers]
  BY <1>1, <1>2 DEF IInv
<1>4. ASSUME NEW e \in Device PROVE World(e, peer'[e], network', fresh')
  <2>1. CASE e = d
    BY <2>1, <1>1 DEF IInv
  <2>2. CASE e # d
    <3>1. peer'[e] = peer[e] /\ World(e, peer[e], network, fresh)
      BY <2>2, <1>1 DEF IInv
    <3> QED BY <3>1, <2>2, <1>1, OtherWorld
  <2> QED BY <2>1, <2>2
<1> QED BY <1>3, <1>4 DEF IInv, OnlySentIsDelivered

\* The same for a step that draws no ephemeral.
LEMMA QuietInv ==
  ASSUME IInv, NEW d \in Device, NEW r, Commit(d, r),
         World(d, r.peer, network \cup r.out, fresh), Departed(d, r.out, fresh),
         UNCHANGED <<clock, now, fresh, restarts, delivered>>,
         bifup' \in [Device -> BOOLEAN]
  PROVE  IInv'
<1>1. Types'
  BY DEF IInv, Types
<1>2. fresh <= fresh'
  BY DEF IInv, Types, Ephemerals
<1>3. network \subseteq network'
  BY DEF Commit
<1>4. /\ DOMAIN delivered' = Device
      /\ \A e \in Device : BagToSet(delivered'[e]) \subseteq network'
  BY <1>3 DEF IInv, OnlySentIsDelivered
<1> QED BY <1>1, <1>2, <1>4, CommitInv

\* A handler of d that changes only its peer record.
LEMMA PeerInv ==
  ASSUME IInv, NEW d \in Device, NEW q, World(d, q, network, fresh),
         peer' = [peer EXCEPT ![d] = q],
         UNCHANGED <<clock, now, network, fresh, restarts, delivered>>,
         bifup' \in [Device -> BOOLEAN]
  PROVE  IInv'
<1> DEFINE r == [peer |-> q, out |-> {}]
<1>1. r.peer = q /\ r.out = {} /\ network \cup r.out = network
  OBVIOUS
<1>2. Commit(d, r) /\ Departed(d, r.out, fresh)
  BY DEF Commit, Departed
<1> HIDE DEF r
<1> QED BY <1>1, <1>2, QuietInv

LEMMA InitiateInv ==
  ASSUME IInv, NEW d \in Device, NEW p, NEW out, NEW ok,
         World(d, p, network \cup out, fresh), Departed(d, out, fresh),
         Initiate(d, p, out, ok), UNCHANGED <<bifup, now, restarts, delivered>>
  PROVE  IInv'
<1> DEFINE r == wg_start_handshake(d, p, fresh, clock[d] + 1, ok, now)
           c == [peer |-> r.peer, out |-> out \cup r.out]
<1>1. /\ fresh \in Ephemerals /\ fresh' = fresh + 1 /\ now \in Nat
      /\ clock[d] + 1 \in Nat /\ clock' = [clock EXCEPT ![d] = @ + 1]
      /\ Commit(d, c)
  BY DEF Initiate, TakeEphemeral, IInv, Types
<1>2. clock' \in [Device -> Nat]
  BY <1>1 DEF IInv, Types
<1>3. Types' /\ fresh <= fresh'
  BY <1>1, <1>2, NextEphemeral DEF IInv, Types
<1> HIDE DEF r
<1>4. World(d, r.peer, (network \cup out) \cup r.out, fresh + 1) /\ Departed(d, r.out, fresh)
  BY <1>1, StartHandshake DEF r
<1>5. c.peer = r.peer /\ c.out = out \cup r.out
      /\ network \cup c.out = (network \cup out) \cup r.out
  OBVIOUS
<1> HIDE DEF c
<1>6. World(d, c.peer, network \cup c.out, fresh')
  BY <1>1, <1>4, <1>5
<1>7. Departed(d, c.out, fresh)
  BY <1>4, <1>5 DEF Departed
<1>8. network \subseteq network'
  BY <1>1 DEF Commit
<1>9. /\ DOMAIN delivered' = Device
      /\ \A e \in Device : BagToSet(delivered'[e]) \subseteq network'
  BY <1>8 DEF IInv, OnlySentIsDelivered
<1> QED BY <1>1, <1>3, <1>6, <1>7, <1>9, CommitInv

LEMMA DatagramInv ==
  ASSUME IInv, NEW d \in Device, wg_process_udp_packet(d)
  PROVE  IInv'
<1> DEFINE p == peer[d]
<1>0. /\ World(d, p, network, fresh) /\ fresh \in Ephemerals /\ now \in Nat
      /\ keepalive[d] \in Nat /\ p \in Peers
  BY DeviceAssumption DEF IInv, Types
<1> SUFFICES ASSUME NEW m \in network, NEW addr \in Address, NEW ok \in SendResults,
                    \/ ReceiveInitiationUnderLoad(d, m, ok)
                    \/ ReceiveInitiation(d, m, addr, ok)
                    \/ ReceiveResponse(d, m, addr, ok)
                    \/ ReceiveCookieReply(d, m, ok)
                    \/ ReceiveDataOnDeadKeypair(d, m)
                    \/ \E answered \in BOOLEAN : ReceiveData(d, m, addr, answered, ok)
             PROVE  IInv'
  BY DEF wg_process_udp_packet
<1>1. CASE ReceiveInitiationUnderLoad(d, m, ok)
  <2> DEFINE out == IF ok THEN {CookieReply(d, m.ephemeral)} ELSE {}
             r == [peer |-> p, out |-> out]
  <2>1. Commit(d, r) /\ UNCHANGED <<bifup, clock, now, fresh, restarts, delivered>>
    BY <1>1 DEF ReceiveInitiationUnderLoad
  <2>2. \A n \in out : n.from = d /\ n.type = "cookie"
    BY DEF CookieReply
  <2> HIDE DEF out, p
  <2>3. r.peer = p /\ r.out = out
    OBVIOUS
  <2> HIDE DEF r
  <2>4. World(d, p, network \cup out, fresh) /\ Departed(d, out, fresh)
    BY <1>0, <2>2, SendControl DEF MessagesBelow, Departed
  <2>5. bifup' \in [Device -> BOOLEAN]
    BY <2>1 DEF IInv, Types
  <2> QED BY <2>1, <2>3, <2>4, <2>5, QuietInv
<1>2. CASE ReceiveInitiation(d, m, addr, ok)
  <2> DEFINE r == AnswerInitiation(d, p, m, addr, fresh, ok, now)
  <2>1. /\ m.type = "initiation" /\ fresh' = fresh + 1 /\ Commit(d, r)
        /\ UNCHANGED <<bifup, clock, now, restarts, delivered>>
    BY <1>2 DEF ReceiveInitiation, TakeEphemeral
  <2> HIDE DEF p
  <2>2. World(d, r.peer, network \cup r.out, fresh + 1) /\ Departed(d, r.out, fresh)
    BY <1>0, <2>1, AnswerStep
  <2> HIDE DEF r
  <2>3. Types' /\ fresh <= fresh'
    BY <2>1, NextEphemeral DEF IInv, Types
  <2>4. network \subseteq network'
    BY <2>1 DEF Commit
  <2>5. /\ DOMAIN delivered' = Device
        /\ \A e \in Device : BagToSet(delivered'[e]) \subseteq network'
    BY <2>1, <2>4 DEF IInv, OnlySentIsDelivered
  <2> QED BY <2>1, <2>2, <2>3, <2>5, CommitInv
<1>3. CASE ReceiveResponse(d, m, addr, ok)
  <2> DEFINE r == CompleteHandshake(d, p, m, addr, ok, now)
  <2>1. /\ m.type = "response" /\ HandshakeFor(p, m.receiver) /\ Commit(d, r)
        /\ UNCHANGED <<bifup, clock, now, fresh, restarts, delivered>>
    BY <1>3 DEF ReceiveResponse
  <2> HIDE DEF p
  <2>2. World(d, r.peer, network \cup r.out, fresh) /\ Departed(d, r.out, fresh)
    BY <1>0, <2>1, CompleteStep
  <2> HIDE DEF r
  <2>3. bifup' \in [Device -> BOOLEAN]
    BY <2>1 DEF IInv, Types
  <2> QED BY <2>1, <2>2, <2>3, QuietInv
<1>4. CASE ReceiveCookieReply(d, m, ok)
  <2> DEFINE q == [p EXCEPT !.cookie_millis = now, !.mac1 = NoEphemeral]
  <2>1. Initiate(d, q, {}, ok) /\ UNCHANGED <<bifup, now, restarts, delivered>>
    BY <1>4 DEF ReceiveCookieReply
  <2>2. q \in Peers /\ q.keypairs = p.keypairs /\ q.handshake = p.handshake
    BY <1>0 DEF Peers, NoEphemeral
  <2> HIDE DEF p, q
  <2>3. World(d, q, network, fresh)
    BY <1>0, <2>2, SameSlots DEF World
  <2>4. network \cup {} = network /\ Departed(d, {}, fresh)
    BY DEF Departed
  <2> QED BY <2>1, <2>3, <2>4, InitiateInv
<1>5. CASE ReceiveDataOnDeadKeypair(d, m)
  <2>1. PICK slot \in SlotsForIndex(p.keypairs, m.receiver) :
          peer' = [peer EXCEPT ![d].keypairs[slot] = NoKeypair]
    BY <1>5 DEF ReceiveDataOnDeadKeypair
  <2> DEFINE q == [p EXCEPT !.keypairs[slot] = NoKeypair]
  <2>2. peer' = [peer EXCEPT ![d] = q]
    BY <2>1
  <2>3. slot \in Slots
    BY DEF SlotsForIndex, Slots
  <2>4. /\ q \in Peers /\ q.handshake = p.handshake
        /\ q.keypairs = [p.keypairs EXCEPT ![slot] = NoKeypair]
    BY <1>0, <2>3, NoKeypairType DEF Peers
  <2>5. \A s \in Slots : q.keypairs[s] \in {p.keypairs[s], NoKeypair}
    BY <1>0, <2>3, <2>4 DEF Peers
  <2> HIDE DEF p, q
  <2>6. World(d, q, network, fresh)
    BY <1>0, <2>4, <2>5, Forget
  <2>7. /\ UNCHANGED <<clock, now, network, fresh, restarts, delivered>>
        /\ bifup' \in [Device -> BOOLEAN]
    BY <1>5 DEF ReceiveDataOnDeadKeypair, IInv, Types
  <2> QED BY <2>2, <2>6, <2>7, PeerInv
<1>6. ASSUME NEW answered \in BOOLEAN, ReceiveData(d, m, addr, answered, ok)
      PROVE  IInv'
  <2>1. PICK slot \in SlotsForIndex(p.keypairs, m.receiver) :
          LET q == AcceptData(p, slot, m, addr, keepalive[d], now)
          IN  Commit(d, IF answered THEN wg_encrypt_and_send(d, q, TRUE, ok, now)
                        ELSE [peer |-> q, out |-> {}])
    BY <1>6 DEF ReceiveData
  <2> DEFINE q == AcceptData(p, slot, m, addr, keepalive[d], now)
             r == IF answered THEN wg_encrypt_and_send(d, q, TRUE, ok, now)
                  ELSE [peer |-> q, out |-> {}]
  <2>2. slot \in Slots /\ p.keypairs[slot].valid /\ m.type = "data"
    BY <1>6 DEF SlotsForIndex, Slots, HasIndex, ReceiveData
  <2>3. Commit(d, r)
    BY <2>1
  <2> HIDE DEF p
  <2>4. World(d, q, network, fresh)
    BY <1>0, <2>2, AcceptStep
  <2> HIDE DEF q
  <2>5. World(d, r.peer, network \cup r.out, fresh) /\ Departed(d, r.out, fresh)
    <3>1. CASE answered
      <4>1. PICK payload \in BOOLEAN : r = wg_encrypt_and_send(d, q, payload, ok, now)
        BY <3>1
      <4> HIDE DEF r
      <4> QED BY <1>0, <2>4, <4>1, EncryptAndSend
    <3>2. CASE ~answered
      <4>1. r.peer = q /\ r.out = {} /\ network \cup r.out = network
        BY <3>2
      <4> HIDE DEF r
      <4> QED BY <2>4, <4>1 DEF Departed
    <3> QED BY <3>1, <3>2
  <2> HIDE DEF r
  <2>6. /\ UNCHANGED <<bifup, clock, now, fresh, restarts>>
        /\ delivered' = [delivered EXCEPT ![d] = @ (+) SetToBag({m})]
    BY <1>6 DEF ReceiveData
  <2>7. Types' /\ fresh <= fresh'
    BY <2>6 DEF IInv, Types, Ephemerals
  <2>8. network \subseteq network'
    BY <2>3 DEF Commit
  <2>9. BagToSet(delivered[d] (+) SetToBag({m})) = BagToSet(delivered[d]) \cup {m}
    BY DEF BagToSet, SetToBag, (+)
  <2>10. /\ DOMAIN delivered' = Device
         /\ \A e \in Device : BagToSet(delivered'[e]) \subseteq network'
    <3>1. DOMAIN delivered = Device
      BY DEF IInv, OnlySentIsDelivered
    <3>2. ASSUME NEW e \in Device PROVE BagToSet(delivered'[e]) \subseteq network'
      <4>1. CASE e = d
        BY <4>1, <3>1, <2>6, <2>8, <2>9 DEF IInv, OnlySentIsDelivered
      <4>2. CASE e # d
        BY <4>2, <3>1, <2>6, <2>8 DEF IInv, OnlySentIsDelivered
      <4> QED BY <4>1, <4>2
    <3> QED BY <3>1, <3>2, <2>6
  <2>11. World(d, r.peer, network \cup r.out, fresh')
    BY <2>5, <2>6
  <2> QED BY <2>3, <2>5, <2>7, <2>10, <2>11, CommitInv
<1> QED BY <1>1, <1>2, <1>3, <1>4, <1>5, <1>6

LEMMA TimersInv ==
  ASSUME IInv, NEW d \in Device, wg_run_timers(d)
  PROVE  IInv'
<1> DEFINE p == peer[d]
<1>1. PICK kept \in SendResults, ok \in SendResults :
        LET r == TimersUpkeep(d, p, connect_ip[d], keepalive[d], kept, now)
        IN  /\ IF ShouldInitiate(r.peer, keepalive[d], now)
               THEN Initiate(d, r.peer, r.out, ok)
               ELSE Commit(d, r) /\ UNCHANGED <<clock, fresh>>
            /\ UNCHANGED <<bifup, now, restarts, delivered>>
  BY DEF wg_run_timers
<1> DEFINE r == TimersUpkeep(d, p, connect_ip[d], keepalive[d], kept, now)
<1>2. /\ \/ Initiate(d, r.peer, r.out, ok)
         \/ Commit(d, r) /\ UNCHANGED <<clock, fresh>>
      /\ UNCHANGED <<bifup, now, restarts, delivered>>
  <2>1. CASE ShouldInitiate(r.peer, keepalive[d], now)
    BY <1>1, <2>1
  <2>2. CASE ~ShouldInitiate(r.peer, keepalive[d], now)
    BY <1>1, <2>2
  <2> QED BY <2>1, <2>2
<1>3. /\ World(d, p, network, fresh) /\ fresh \in Ephemerals /\ now \in Nat
      /\ bifup \in [Device -> BOOLEAN]
  BY DEF IInv, Types
<1> HIDE DEF p
<1>4. World(d, r.peer, network \cup r.out, fresh) /\ Departed(d, r.out, fresh)
  BY <1>3, Configured, TimersStep
<1> HIDE DEF r
<1>5. CASE Initiate(d, r.peer, r.out, ok)
  BY <1>2, <1>4, <1>5, InitiateInv
<1>6. CASE Commit(d, r) /\ UNCHANGED <<clock, fresh>>
  BY <1>2, <1>3, <1>4, <1>6, QuietInv
<1> QED BY <1>2, <1>5, <1>6

LEMMA TxpollInv ==
  ASSUME IInv, NEW d \in Device, wg_txpoll(d)
  PROVE  IInv'
<1>1. PICK ok \in SendResults :
        /\ Commit(d, wg_encrypt_and_send(d, peer[d], TRUE, ok, now))
        /\ UNCHANGED <<bifup, clock, now, fresh, restarts, delivered>>
  BY DEF wg_txpoll
<1>2. PICK payload \in BOOLEAN :
        Commit(d, wg_encrypt_and_send(d, peer[d], payload, ok, now))
  BY <1>1
<1> DEFINE r == wg_encrypt_and_send(d, peer[d], payload, ok, now)
<1>3. /\ World(d, peer[d], network, fresh) /\ fresh \in Ephemerals /\ now \in Nat
      /\ bifup \in [Device -> BOOLEAN]
  BY DEF IInv, Types
<1>4. World(d, r.peer, network \cup r.out, fresh) /\ Departed(d, r.out, fresh)
  BY <1>3, EncryptAndSend
<1>5. Commit(d, r)
  BY <1>2
<1> HIDE DEF r
<1> QED BY <1>1, <1>3, <1>4, <1>5, QuietInv

LEMMA InterfaceInv ==
  ASSUME IInv, NEW d \in Device, wg_ifup(d) \/ wg_ifdown(d)
  PROVE  IInv'
<1>1. /\ World(d, peer[d], network, fresh) /\ fresh \in Ephemerals
      /\ bifup \in [Device -> BOOLEAN]
  BY DEF IInv, Types
<1>2. CASE wg_ifup(d)
  <2> DEFINE q == IfupPeer(peer[d], connect_ip[d])
  <2>1. /\ peer' = [peer EXCEPT ![d] = q]
        /\ UNCHANGED <<clock, now, network, fresh, restarts, delivered>>
    BY <1>2 DEF wg_ifup
  <2>2. bifup' \in [Device -> BOOLEAN]
    BY <1>1, <1>2 DEF wg_ifup
  <2>3. World(d, q, network, fresh)
    BY <1>1, Configured, IfupStep
  <2> HIDE DEF q
  <2> QED BY <2>1, <2>2, <2>3, PeerInv
<1>3. CASE wg_ifdown(d)
  <2> DEFINE q == IfdownPeer(peer[d], connect_ip[d])
  <2>1. /\ peer' = [peer EXCEPT ![d] = q]
        /\ UNCHANGED <<clock, now, network, fresh, restarts, delivered>>
    BY <1>3 DEF wg_ifdown
  <2>2. bifup' \in [Device -> BOOLEAN]
    BY <1>1, <1>3 DEF wg_ifdown
  <2>3. World(d, q, network, fresh)
    BY <1>1, Configured, IfdownStep
  <2> HIDE DEF q
  <2> QED BY <2>1, <2>2, <2>3, PeerInv
<1> QED BY <1>2, <1>3

\* The peer starts over, and no ephemeral it may have used is drawn again.
LEMMA RestartInv ==
  ASSUME IInv, NEW d \in Device, Restart(d)
  PROVE  IInv'
<1> DEFINE r == [peer |-> wireguard_peer_init(connect_ip[d]), out |-> {}]
<1>1. /\ fresh' = fresh /\ now' = now /\ network' = network /\ delivered' = delivered
      /\ bifup' = [bifup EXCEPT ![d] = FALSE]
      /\ restarts' = [restarts EXCEPT ![d] = @ + 1]
      /\ \E c \in {0, clock[d]} : clock' = [clock EXCEPT ![d] = c]
      /\ peer' = [peer EXCEPT ![d] = r.peer]
  BY DEF Restart
<1>2. Types'
  BY <1>1 DEF IInv, Types
<1>3. fresh \in Ephemerals /\ MessagesBelow(network, fresh) /\ NoncesUnique(network)
  BY DEF IInv, Types, World
<1>4. World(d, r.peer, network, fresh)
  BY <1>3, Configured, FreshPeer
<1>5. r.out = {} /\ network \cup r.out = network
  OBVIOUS
<1> HIDE DEF r
<1>6. Commit(d, r) /\ Departed(d, r.out, fresh) /\ fresh <= fresh'
  BY <1>1, <1>3, <1>5 DEF Commit, Departed, Ephemerals
<1>7. /\ DOMAIN delivered' = Device
      /\ \A e \in Device : BagToSet(delivered'[e]) \subseteq network'
  BY <1>1 DEF IInv, OnlySentIsDelivered
<1> QED BY <1>1, <1>2, <1>4, <1>5, <1>6, <1>7, CommitInv

LEMMA InitInv == Init => IInv
<1> SUFFICES ASSUME Init PROVE IInv
  OBVIOUS
<1>1. Types
  BY DEF Init, Types, Never, Ephemerals, NoEphemeral
<1>2. OnlySentIsDelivered
  BY DEF Init, OnlySentIsDelivered, EmptyBag, SetToBag, BagToSet
<1>3. MessagesBelow(network, fresh) /\ NoncesUnique(network)
  BY DEF Init, MessagesBelow, NoncesUnique
<1>4. ASSUME NEW d \in Device PROVE World(d, peer[d], network, fresh)
  <2>1. peer[d] = wireguard_peer_init(connect_ip[d])
    BY DEF Init
  <2> QED BY <2>1, <1>1, <1>3, Configured, FreshPeer DEF Types
<1>5. peer \in [Device -> Peers]
  <2>1. \A d \in Device : peer[d] \in Peers
    BY <1>4 DEF World, Sound
  <2> QED BY <2>1 DEF Init
<1> QED BY <1>1, <1>2, <1>4, <1>5 DEF IInv

LEMMA StepInv == IInv /\ [Next]_vars => IInv'
<1> SUFFICES ASSUME IInv, [Next]_vars PROVE IInv'
  OBVIOUS
<1>1. ASSUME NEW d \in Device,
             \/ wg_process_udp_packet(d) \/ wg_run_timers(d) \/ wg_txpoll(d)
             \/ wg_ifup(d) \/ wg_ifdown(d) \/ Restart(d)
      PROVE  IInv'
  BY <1>1, DatagramInv, TimersInv, TxpollInv, InterfaceInv, RestartInv
<1>2. CASE Tick
  BY <1>2 DEF Tick, IInv, Types, OnlySentIsDelivered, Never
<1>3. CASE UNCHANGED vars
  BY <1>3 DEF vars, IInv, Types, OnlySentIsDelivered
<1> QED BY <1>1, <1>2, <1>3 DEF Next

LEMMA Invariant == Spec => []IInv
BY InitInv, StepInv, PTL DEF Spec

-----------------------------------------------------------------------------

\* Every part of the state has its type, and only what was sent is delivered.
THEOREM SessionTypes == Spec => []TypeOK
<1>1. IInv => TypeOK
  BY DEF IInv, Types, OnlySentIsDelivered, TypeOK
<1> QED BY <1>1, Invariant, PTL

\* The rotation keeps the slots of every device in order: next and prev are
\* never used together, and a current key is always confirmed.
THEOREM SlotsStayInOrder == Spec => []SlotDiscipline
<1>1. IInv => SlotDiscipline
  BY DEF IInv, World, Sound, InOrder, SlotDiscipline
<1> QED BY <1>1, Invariant, PTL

\* No session is in two slots of a device.
THEOREM SlotsStayDistinct == Spec => []SlotsDistinct
<1>1. IInv => SlotsDistinct
  BY DEF IInv, World, Sound, AllDistinct, SlotsDistinct
<1> QED BY <1>1, Invariant, PTL

\* No device uses a counter twice with one key, whatever the network delivers,
\* however often, and whenever the timers, the stack or a restart intervene.
THEOREM NoncesAreUnique == Spec => []NonceNeverReused
<1>1. IInv => NonceNeverReused
  <2> SUFFICES ASSUME IInv PROVE NonceNeverReused
    OBVIOUS
  <2>1. ASSUME NEW d \in Device, NEW kp \in LiveKeypairs(d), NEW m \in Data,
               m.from = d, m.key = kp.key
        PROVE  m.counter < kp.sending_counter
    <3>1. PICK s \in Slots : peer[d].keypairs[s].valid /\ kp = peer[d].keypairs[s]
      BY DEF LiveKeypairs
    <3>2. CounterAhead(d, peer[d].keypairs, network)
      BY DEF IInv, World, Sound
    <3>3. m \in network /\ m.type = "data"
      BY DEF Data
    <3> QED BY <2>1, <3>1, <3>2, <3>3 DEF CounterAhead
  <2>2. NoncesUnique(network)
    <3>1. Device # {}
      BY DeviceAssumption, FS_EmptySet
    <3> QED BY <3>1 DEF IInv, World
  <2> QED BY <2>1, <2>2 DEF NonceNeverReused, NoncesUnique, Data
<1> QED BY <1>1, Invariant, PTL

-----------------------------------------------------------------------------
(* What the two ends know of each other. The invariant is again about one  *)
(* device at a time: Past(d, p, N, S, life, D) says what the record p of   *)
(* device d owes to the datagrams N, to the sessions S and to the packets  *)
(* D that d has accepted; Chronicle(N, S) relates the datagrams and the    *)
(* sessions themselves.                                                    *)

\* The keys of sessions are of ephemerals that have been drawn.
SessionsBelow(S, f) ==
  \A r \in S :
    /\ r \in [dev : Device, life : Nat, initiator : BOOLEAN, key : Below(f) \X Below(f)]
    /\ r.life <= restarts[r.dev]

\* A response was sent by the responder of the session it offers, and data by
\* an end of the session it belongs to.
ResponsesStarted(N, S) ==
  \A m \in N : m.type = "response" =>
    \E r \in S : r.dev = m.from /\ ~r.initiator /\ r.key = <<m.receiver, m.ephemeral>>

DataStarted(N, S) ==
  \A m \in N : m.type = "data" => \E r \in S : r.dev = m.from /\ r.key = m.key

\* A session has one responder, and no device starts it twice.
OneResponder(S) ==
  \A r, q \in S : ~r.initiator /\ ~q.initiator /\ r.key[2] = q.key[2] => r = q

OneStart(S) ==
  \A r, q \in S : r.dev = q.dev /\ r.key = q.key => r = q

OneInitiation(N) ==
  \A m, n \in N :
    m.type = "initiation" /\ n.type = "initiation" /\ m.ephemeral = n.ephemeral => m = n

Waits(N, S) ==
  \A m \in N : \A r \in S :
    m.type = "data" /\ r.key = m.key /\ r.dev = m.from /\ ~r.initiator
      => \E n \in N : n.type = "data" /\ n.from # m.from /\ n.key = m.key

UsedOnce(S) ==
  \A r, q \in S :
    /\ ~r.initiator /\ ~q.initiator /\ r.dev = q.dev /\ r.life = q.life
    /\ r.key[1] = q.key[1]
    => r.key = q.key

Chronicle(N, S) ==
  /\ ResponsesStarted(N, S) /\ DataStarted(N, S)
  /\ OneResponder(S) /\ OneStart(S) /\ OneInitiation(N)
  /\ Waits(N, S) /\ UsedOnce(S)

\* Every installed key was started by this device in this life and role; the
\* responder of one that this device initiated has started it too; and a key
\* that was heard on was used by the other end.
SlotsStarted(d, kps, S, life) ==
  \A s \in Slots : kps[s].valid =>
    \E r \in S : /\ r.dev = d /\ r.life = life
                 /\ r.initiator = kps[s].initiator /\ r.key = kps[s].key

ResponderStarted(d, kps, S) ==
  \A s \in Slots : kps[s].valid /\ kps[s].initiator =>
    \E q \in S : q.dev # d /\ ~q.initiator /\ q.key = kps[s].key

HeardFromOther(d, kps, N) ==
  \A s \in Slots : kps[s].valid /\ kps[s].heard =>
    \E n \in N : n.type = "data" /\ n.from # d /\ n.key = kps[s].key

\* The handshake in progress has led to no session yet.
HandshakeOpen(d, p, S) ==
  p.handshake.valid /\ p.handshake.initiator =>
    \A r \in S : r.dev = d => r.key[1] # p.handshake.local

\* The initiations that led to the sessions of this life have a timestamp that
\* has been passed.
TimestampsPassed(d, p, N, S, life) ==
  \A r \in S : r.dev = d /\ ~r.initiator /\ r.life = life =>
    \A m \in N : m.type = "initiation" /\ m.ephemeral = r.key[1]
                   => m.timestamp <= p.greatest_timestamp

\* What was accepted was accepted once, on a session of this device, and a key
\* that is still installed remembers the counter.
AcceptedOnce(d, kps, S, D) ==
  \A m \in DOMAIN D :
    /\ D[m] = 1
    /\ \E r \in S : r.dev = d /\ r.key = m.key
    /\ \A s \in Slots : kps[s].valid /\ kps[s].key = m.key => m.counter \in kps[s].seen

Past(d, p, N, S, life, D) ==
  /\ SlotsStarted(d, p.keypairs, S, life)
  /\ ResponderStarted(d, p.keypairs, S)
  /\ HeardFromOther(d, p.keypairs, N)
  /\ HandshakeOpen(d, p, S)
  /\ TimestampsPassed(d, p, N, S, life)
  /\ AcceptedOnce(d, p.keypairs, S, D)

HInv ==
  /\ IInv
  /\ SessionsBelow(sessions, fresh)
  /\ Chronicle(network, sessions)
  /\ \A d \in Device :
       Past(d, peer[d], network, sessions, restarts[d], delivered[d])

\* Where a slot is in the life of a session.
Position == [next |-> 1, curr |-> 2, prev |-> 3]

\* Every key that is installed afterwards was there before, as it is, in this
\* slot or one before it.
Descends(kps, after) ==
  \A s \in Slots : after[s].valid =>
    \E o \in Slots :
      /\ kps[o].valid /\ Position[o] <= Position[s]
      /\ after[s].key = kps[o].key /\ after[s].initiator = kps[o].initiator
      /\ after[s].heard = kps[o].heard /\ after[s].seen = kps[o].seen

\* Only data leaves, on keys that are installed and confirmed.
SentOn(d, kps, out) ==
  \A m \in out :
    /\ m.type = "data" /\ m.from = d
    /\ \E o \in Slots : kps[o].valid /\ Confirmed(kps[o]) /\ m.key = kps[o].key

\* A function that starts no session and accepts nothing.
Quiet(d, p, q, out) ==
  /\ Descends(p.keypairs, q.keypairs)
  /\ SentOn(d, p.keypairs, out)
  /\ q.handshake \in {p.handshake, NoHandshake}
  /\ q.greatest_timestamp = p.greatest_timestamp

LEMMA DescendsPast ==
  ASSUME NEW d, NEW p, NEW q, NEW N, NEW S, NEW life, NEW D,
         Past(d, p, N, S, life, D),
         Descends(p.keypairs, q.keypairs),
         q.handshake \in {p.handshake, NoHandshake},
         q.greatest_timestamp = p.greatest_timestamp
  PROVE  Past(d, q, N, S, life, D)
<1>1. SlotsStarted(d, q.keypairs, S, life)
  BY DEF Past, Descends, SlotsStarted
<1>2. ResponderStarted(d, q.keypairs, S)
  BY DEF Past, Descends, ResponderStarted
<1>3. HeardFromOther(d, q.keypairs, N)
  BY DEF Past, Descends, HeardFromOther
<1>4. HandshakeOpen(d, q, S)
  BY DEF Past, HandshakeOpen, NoHandshake
<1>5. TimestampsPassed(d, q, N, S, life)
  BY DEF Past, TimestampsPassed
<1>6. AcceptedOnce(d, q.keypairs, S, D)
  BY DEF Past, Descends, AcceptedOnce
<1> QED BY <1>1, <1>2, <1>3, <1>4, <1>5, <1>6 DEF Past

\* Datagrams that leave, and sessions that other devices start.
LEMMA PastGrows ==
  ASSUME NEW d, NEW p, NEW N, NEW S, NEW life, NEW D, Past(d, p, N, S, life, D),
         NEW out, \A m \in out : m.type = "initiation" =>
                    \A r \in S : r.key[1] # m.ephemeral,
         NEW T, S \subseteq T, \A r \in T : r.dev = d => r \in S
  PROVE  Past(d, p, N \cup out, T, life, D)
<1>1. SlotsStarted(d, p.keypairs, T, life)
  BY DEF Past, SlotsStarted
<1>2. ResponderStarted(d, p.keypairs, T)
  BY DEF Past, ResponderStarted
<1>3. HeardFromOther(d, p.keypairs, N \cup out)
  BY DEF Past, HeardFromOther
<1>4. HandshakeOpen(d, p, T)
  BY DEF Past, HandshakeOpen
<1>5. TimestampsPassed(d, p, N \cup out, T, life)
  BY DEF Past, TimestampsPassed
<1>6. AcceptedOnce(d, p.keypairs, T, D)
  BY DEF Past, AcceptedOnce
<1> QED BY <1>1, <1>2, <1>3, <1>4, <1>5, <1>6 DEF Past

LEMMA SentOnChronicle ==
  ASSUME NEW d, NEW p, NEW N, NEW S, NEW life, NEW D, NEW out,
         p.keypairs \in [Slots -> Keypairs],
         Chronicle(N, S), Past(d, p, N, S, life, D), SentOn(d, p.keypairs, out)
  PROVE  Chronicle(N \cup out, S)
<1>1. ResponsesStarted(N \cup out, S) /\ OneInitiation(N \cup out)
  BY DEF Chronicle, ResponsesStarted, OneInitiation, SentOn
<1>2. ASSUME NEW m \in out
      PROVE  /\ m.type = "data" /\ m.from = d
             /\ \E r \in S : r.dev = d /\ r.key = m.key
             /\ \A r \in S : r.dev = d /\ r.key = m.key /\ ~r.initiator =>
                  \E n \in N : n.type = "data" /\ n.from # d /\ n.key = m.key
  <2>1. PICK o \in Slots : /\ p.keypairs[o].valid /\ Confirmed(p.keypairs[o])
                           /\ m.key = p.keypairs[o].key
    BY DEF SentOn
  <2>2. PICK r \in S : /\ r.dev = d /\ r.initiator = p.keypairs[o].initiator
                       /\ r.key = p.keypairs[o].key
    BY <2>1 DEF Past, SlotsStarted
  <2>3. \A q \in S : q.dev = d /\ q.key = m.key => q = r
    BY <2>1, <2>2 DEF Chronicle, OneStart
  <2>4. ~r.initiator => p.keypairs[o].heard
    BY <2>1, <2>2 DEF Confirmed
  <2>5. ~r.initiator => \E n \in N : n.type = "data" /\ n.from # d /\ n.key = m.key
    BY <2>1, <2>4 DEF Past, HeardFromOther
  <2>6. m.type = "data" /\ m.from = d
    BY DEF SentOn
  <2> QED BY <2>1, <2>2, <2>3, <2>5, <2>6
<1>3. DataStarted(N \cup out, S)
  BY <1>2 DEF Chronicle, DataStarted
<1>4. Waits(N \cup out, S)
  BY <1>2 DEF Chronicle, Waits
<1> QED BY <1>1, <1>3, <1>4 DEF Chronicle

\* Initiations with the ephemeral that has just been drawn, and cookie replies.
LEMMA ControlChronicle ==
  ASSUME NEW N, NEW S, NEW out, NEW f, Chronicle(N, S),
         \A m \in N : m.type = "initiation" => m.ephemeral # f,
         \A m \in out : m.type = "cookie" \/ (m.type = "initiation" /\ m.ephemeral = f),
         \A m, n \in out : m.type = "initiation" /\ n.type = "initiation" => m = n
  PROVE  Chronicle(N \cup out, S)
<1>2. OneInitiation(N \cup out)
  BY DEF Chronicle, OneInitiation
<1>3. /\ ResponsesStarted(N \cup out, S) /\ DataStarted(N \cup out, S)
      /\ Waits(N \cup out, S)
  BY DEF Chronicle, ResponsesStarted, DataStarted, Waits
<1> QED BY <1>2, <1>3 DEF Chronicle

-----------------------------------------------------------------------------
(* The functions of the peer, once more: where their keys come from, and   *)
(* what they send.                                                         *)

LEMMA DescendsRefl ==
  ASSUME NEW kps
  PROVE  Descends(kps, kps)
BY DEF Descends, Position, Slots

LEMMA DescendsTrans ==
  ASSUME NEW j, NEW k, NEW l, Descends(j, k), Descends(k, l)
  PROVE  Descends(j, l)
<1>1. \A s \in Slots : Position[s] \in Nat
  BY DEF Position, Slots
<1> QED BY <1>1 DEF Descends

\* keypair_destroy() on some slots.
LEMMA DestroyDescends ==
  ASSUME NEW kps, NEW after, \A s \in Slots : after[s] \in {kps[s], NoKeypair}
  PROVE  Descends(kps, after)
BY NoKeypairType DEF Descends, Position, Slots

LEMMA EncryptQuiet ==
  ASSUME NEW d, NEW p \in Peers, NEW payload, NEW ok, NEW t, NEW r,
         r = wg_encrypt_and_send(d, p, payload, ok, t)
  PROVE  Quiet(d, p, r.peer, r.out)
<1> DEFINE slot == SendingSlot(p.keypairs)
           kp == p.keypairs[slot]
           used == [kp EXCEPT !.sending_counter = @ + 1]
           sent == Transmit(p, ok, TransportData(d, kp, payload))
           rekey == \/ used.sending_counter >= REKEY_AFTER_MESSAGES
                    \/ kp.initiator /\ Expired(kp.keypair_millis, REKEY_AFTER_TIME, t)
           dropped == [p EXCEPT !.keypairs[slot] = NoKeypair]
           sender == [p EXCEPT !.keypairs[slot] = used,
                               !.last_tx = IF ok THEN t ELSE @,
                               !.send_handshake = @ \/ rekey]
<1> HIDE DEF slot, used, sent, rekey, dropped, sender
<1>1. slot \in Slots /\ kp \in Keypairs /\ p.keypairs \in [Slots -> Keypairs]
  BY SendingSlotType DEF Peers, slot
<1>2. \/ r = [peer |-> p, out |-> {}]
      \/ r = [peer |-> dropped, out |-> {}]
      \/ r = [peer |-> sender, out |-> sent] /\ kp.valid /\ Confirmed(kp)
  BY DEF wg_encrypt_and_send, slot, used, sent, rekey, sender, dropped
<1>3. CASE r = [peer |-> p, out |-> {}]
  BY <1>3, DescendsRefl DEF Quiet, SentOn
<1>4. CASE r = [peer |-> dropped, out |-> {}]
  <2>1. /\ dropped.keypairs = [p.keypairs EXCEPT ![slot] = NoKeypair]
        /\ dropped.handshake = p.handshake
        /\ dropped.greatest_timestamp = p.greatest_timestamp
    BY DEF Peers, dropped
  <2>2. Descends(p.keypairs, dropped.keypairs)
    BY <1>1, <2>1, DestroyDescends
  <2>3. r.peer = dropped /\ r.out = {}
    BY <1>4
  <2> QED BY <2>1, <2>2, <2>3 DEF Quiet, SentOn
<1>5. CASE r = [peer |-> sender, out |-> sent] /\ kp.valid /\ Confirmed(kp)
  <2>1. /\ sender.keypairs = [p.keypairs EXCEPT ![slot] = used]
        /\ sender.handshake = p.handshake
        /\ sender.greatest_timestamp = p.greatest_timestamp
    BY DEF Peers, sender
  <2>2. /\ used.valid = kp.valid /\ used.key = kp.key /\ used.initiator = kp.initiator
        /\ used.heard = kp.heard /\ used.seen = kp.seen
    BY <1>1 DEF Keypairs, used
  <2>3. Descends(p.keypairs, sender.keypairs)
    BY <1>1, <2>1, <2>2 DEF Descends, Position, Slots
  <2>4. \A m \in sent : m.type = "data" /\ m.from = d /\ m.key = kp.key
    BY TransmitAtMost DEF sent, TransportData
  <2>5. r.peer = sender /\ r.out = sent
    BY <1>5
  <2>6. SentOn(d, p.keypairs, sent)
    BY <1>1, <1>5, <2>4 DEF SentOn
  <2> QED BY <2>1, <2>3, <2>5, <2>6 DEF Quiet
<1> QED BY <1>2, <1>3, <1>4, <1>5

LEMMA TimersQuiet ==
  ASSUME NEW d, NEW p \in Peers, NEW ip \in Address \cup {NoAddress}, NEW interval,
         NEW ok, NEW t \in Nat, NEW r, r = TimersUpkeep(d, p, ip, interval, ok, t)
  PROVE  Quiet(d, p, r.peer, r.out)
<1> DEFINE wiped == WipeIfAbandoned(p, ip, t)
           dropped == DropIfExpired(wiped, t)
<1>1. /\ wiped \in Peers /\ wiped.handshake = p.handshake
      /\ wiped.greatest_timestamp = p.greatest_timestamp
      /\ Descends(p.keypairs, wiped.keypairs)
  <2> DEFINE q == [p EXCEPT !.keypairs = EmptySlots, !.ip = ip]
  <2>1. wiped = p \/ wiped = q
    BY DEF WipeIfAbandoned
  <2>2. /\ q \in Peers /\ q.keypairs = EmptySlots /\ q.handshake = p.handshake
        /\ q.greatest_timestamp = p.greatest_timestamp
    BY EmptySlotsType DEF Peers
  <2> HIDE DEF q
  <2>3. Descends(p.keypairs, q.keypairs)
    BY <2>2, EmptySlotsType, DestroyDescends
  <2> QED BY <2>1, <2>2, <2>3, DescendsRefl
<1> HIDE DEF wiped
<1>2. /\ dropped \in Peers /\ dropped.handshake = p.handshake
      /\ dropped.greatest_timestamp = p.greatest_timestamp
      /\ Descends(p.keypairs, dropped.keypairs)
  <2> DEFINE q == [wiped EXCEPT !.keypairs["curr"] = NoKeypair]
  <2>1. dropped = wiped \/ dropped = q
    BY DEF DropIfExpired
  <2>2. /\ q \in Peers /\ q.handshake = wiped.handshake
        /\ q.greatest_timestamp = wiped.greatest_timestamp
        /\ q.keypairs = [wiped.keypairs EXCEPT !["curr"] = NoKeypair]
    BY <1>1, NoKeypairType DEF Peers, Slots
  <2>3. \A s \in Slots : q.keypairs[s] \in {wiped.keypairs[s], NoKeypair}
    BY <1>1, <2>2 DEF Peers, Slots
  <2> HIDE DEF q, dropped
  <2>4. Descends(p.keypairs, q.keypairs)
    BY <1>1, <2>3, DestroyDescends, DescendsTrans
  <2>5. CASE dropped = wiped
    BY <1>1, <2>5
  <2>6. CASE dropped = q
    BY <1>1, <2>2, <2>4, <2>6
  <2> QED BY <2>1, <2>5, <2>6
<1>3. r = KeepaliveIfIdle(d, dropped, interval, ok, t)
  BY DEF TimersUpkeep, wiped
<1> HIDE DEF dropped
<1>4. \/ r = [peer |-> dropped, out |-> {}]
      \/ \E payload : r = wg_encrypt_and_send(d, dropped, payload, ok, t)
  BY <1>3 DEF KeepaliveIfIdle
<1>5. Quiet(d, dropped, r.peer, r.out)
  BY <1>2, <1>4, EncryptQuiet, DescendsRefl DEF Quiet, SentOn
<1>6. SentOn(d, p.keypairs, r.out)
  BY <1>2, <1>5 DEF Quiet, SentOn, Descends, Confirmed
<1> QED BY <1>2, <1>5, <1>6, DescendsTrans DEF Quiet

\* The peer and the datagrams of wg_start_handshake().
Started(d, p, e, r) ==
  /\ r.peer.keypairs = p.keypairs
  /\ r.peer.handshake.local = e
  /\ r.peer.greatest_timestamp = p.greatest_timestamp
  /\ \A m, n \in r.out : m = n
  /\ \A m \in r.out : m.type = "initiation" /\ m.ephemeral = e /\ m.from = d

LEMMA StartParts ==
  ASSUME NEW d, NEW p \in Peers, NEW e \in Nat, NEW ts, NEW ok, NEW t, NEW r,
         r = wg_start_handshake(d, p, e, ts, ok, t)
  PROVE  Started(d, p, e, r)
<1> DEFINE mac2 == p.cookie_millis # Never
                     /\ ~Expired(p.cookie_millis, COOKIE_SECRET_MAX_AGE, t)
           q == [p EXCEPT !.handshake.valid = TRUE, !.handshake.initiator = TRUE,
                          !.handshake.local = e, !.send_handshake = FALSE,
                          !.last_initiation_tx = t, !.mac1 = e]
           out == Transmit(p, ok, Initiation(d, e, ts, mac2))
<1> HIDE DEF mac2, q, out
<1>1. r.peer = q /\ r.out = out
  BY DEF wg_start_handshake, mac2, q, out
<1>2. /\ q.keypairs = p.keypairs /\ q.greatest_timestamp = p.greatest_timestamp
      /\ q.handshake.local = e
  BY DEF q, Peers, Handshakes
<1>3. out \in SUBSET {Initiation(d, e, ts, mac2)}
  BY TransmitAtMost DEF out
<1>4. /\ \A m, n \in out : m = n
      /\ \A m \in out : m.type = "initiation" /\ m.ephemeral = e /\ m.from = d
  BY <1>3 DEF Initiation
<1> QED BY <1>1, <1>2, <1>4 DEF Started

\* add_new_keypair() puts the new key into next or curr; the others stay or
\* move on.
LEMMA AddNewKeypair ==
  ASSUME NEW kps \in [Slots -> Keypairs], NEW new \in Keypairs, new.valid, NEW after,
         after = add_new_keypair(kps, new)
  PROVE  /\ after \in [Slots -> Keypairs]
         /\ LET slot == IF new.initiator THEN "curr" ELSE "next"
            IN  /\ after[slot] = new
                /\ \A s \in Slots \ {slot} : after[s].valid =>
                     \E o \in Slots : after[s] = kps[o] /\ Position[o] <= Position[s]
BY NoKeypairType, AddNewKeypairType DEF add_new_keypair, Slots, Position

\* keypair_update() moves next to curr and curr to prev.
LEMMA UpdateMoves ==
  ASSUME NEW kps \in [Slots -> Keypairs], NEW slot \in Slots, NEW after,
         after = keypair_update(kps, slot)
  PROVE  /\ after \in [Slots -> Keypairs]
         /\ \A s \in Slots : after[s].valid =>
              \E o \in Slots : after[s] = kps[o] /\ Position[o] <= Position[s]
BY NoKeypairType DEF keypair_update, Slots, Position

-----------------------------------------------------------------------------
(* Starting a session, and accepting a packet.                             *)

\* wireguard_start_session() installs a key this device has not started before.
LEMMA AddPast ==
  ASSUME NEW d, NEW p \in Peers, NEW q, NEW N, NEW S, NEW life, NEW D,
         Past(d, p, N, S, life, D),
         NEW new \in Keypairs, new.valid, ~new.heard,
         q.keypairs = add_new_keypair(p.keypairs, new), q.handshake = NoHandshake,
         NEW r, r.dev = d, r.life = life, r.initiator = new.initiator, r.key = new.key,
         \A x \in S : x.dev = d => x.key # new.key,
         new.initiator => \E x \in S : x.dev # d /\ ~x.initiator /\ x.key = new.key,
         TimestampsPassed(d, q, N, S \cup {r}, life)
  PROVE  Past(d, q, N, S \cup {r}, life, D)
<1> DEFINE kps == q.keypairs
           slot == IF new.initiator THEN "curr" ELSE "next"
<1>1. p.keypairs \in [Slots -> Keypairs]
  BY DEF Peers
<1>2. /\ kps[slot] = new
      /\ \A s \in Slots \ {slot} : kps[s].valid => \E o \in Slots : kps[s] = p.keypairs[o]
  BY <1>1, AddNewKeypair
<1> HIDE DEF kps, slot
<1>3. \A s \in Slots : kps[s].valid => kps[s] = new \/ \E o \in Slots : kps[s] = p.keypairs[o]
  BY <1>2
<1>4. SlotsStarted(d, kps, S \cup {r}, life)
  BY <1>3 DEF SlotsStarted, Past
<1>5. ResponderStarted(d, kps, S \cup {r})
  BY <1>3 DEF ResponderStarted, Past
<1>6. HeardFromOther(d, kps, N)
  BY <1>3 DEF HeardFromOther, Past
<1>7. HandshakeOpen(d, q, S \cup {r})
  BY DEF HandshakeOpen, NoHandshake
<1>8. AcceptedOnce(d, kps, S \cup {r}, D)
  BY <1>3 DEF AcceptedOnce, Past
<1> QED BY <1>4, <1>5, <1>6, <1>7, <1>8 DEF Past, kps

LEMMA AddChronicle ==
  ASSUME NEW N, NEW S, Chronicle(N, S), NEW r,
         \A x \in S : x.dev = r.dev => x.key # r.key,
         ~r.initiator => /\ \A x \in S : x.key[2] # r.key[2]
                         /\ \A m \in N : m.type = "data" => m.key # r.key
                         /\ \A x \in S : ~x.initiator /\ x.dev = r.dev /\ x.life = r.life
                                           => x.key[1] # r.key[1]
  PROVE  Chronicle(N, S \cup {r})
<1>1. /\ ResponsesStarted(N, S \cup {r}) /\ DataStarted(N, S \cup {r}) /\ OneInitiation(N)
  BY DEF Chronicle, ResponsesStarted, DataStarted
<1>2. OneResponder(S \cup {r}) /\ OneStart(S \cup {r})
  BY DEF Chronicle, OneResponder, OneStart
<1>3. Waits(N, S \cup {r})
  BY DEF Chronicle, Waits
<1>4. UsedOnce(S \cup {r})
  BY DEF Chronicle, UsedOnce
<1> QED BY <1>1, <1>2, <1>3, <1>4 DEF Chronicle

LEMMA ResponseChronicle ==
  ASSUME NEW N, NEW S, Chronicle(N, S), NEW out,
         \A m \in out : /\ m.type = "response"
                        /\ \E r \in S : /\ r.dev = m.from /\ ~r.initiator
                                        /\ r.key = <<m.receiver, m.ephemeral>>
  PROVE  Chronicle(N \cup out, S)
<1>1. ResponsesStarted(N \cup out, S)
  BY DEF Chronicle, ResponsesStarted
<1>2. DataStarted(N \cup out, S) /\ OneInitiation(N \cup out)
  BY DEF Chronicle, DataStarted, OneInitiation
<1>3. Waits(N \cup out, S)
  BY DEF Chronicle, Waits
<1> QED BY <1>1, <1>2, <1>3 DEF Chronicle

LEMMA NewKeypairSeen ==
  ASSUME NEW hs, NEW initiator, NEW t
  PROVE  NewKeypair(hs, initiator, t).seen = {}
BY DEF NewKeypair, NoKeypair

\* An initiation is answered: its timestamp has not been passed, so that it has
\* made no session in this life.
LEMMA AnswerHistory ==
  ASSUME HInv, NEW d \in Device, NEW m \in network, m.type = "initiation",
         m.timestamp > peer[d].greatest_timestamp, NEW addr \in Address, NEW ok,
         NEW r, r = AnswerInitiation(d, peer[d], m, addr, fresh, ok, now),
         NEW x, x.dev = d, x.life = restarts[d], x.initiator \in BOOLEAN, ~x.initiator,
         x.key = <<m.ephemeral, fresh>>
  PROVE  /\ Past(d, r.peer, network \cup r.out, sessions \cup {x}, restarts[d], delivered[d])
         /\ Chronicle(network \cup r.out, sessions \cup {x})
         /\ x \notin sessions
<1>0. /\ World(d, peer[d], network, fresh) /\ SessionsBelow(sessions, fresh)
      /\ Chronicle(network, sessions) /\ fresh \in Ephemerals /\ now \in Nat
      /\ Past(d, peer[d], network, sessions, restarts[d], delivered[d])
  BY DEF HInv, IInv, Types
<1> USE <1>0
<1> DEFINE hs == [valid |-> TRUE, initiator |-> FALSE, local |-> fresh, remote |-> m.ephemeral]
           taken == [peer[d] EXCEPT !.last_initiation_rx = now,
                              !.greatest_timestamp = m.timestamp,
                              !.handshake = hs, !.ip = addr]
           q == wireguard_start_session(taken, FALSE, now)
           out == Transmit(taken, ok, Response(d, m.ephemeral, fresh))
           new == NewKeypair(hs, FALSE, now)
<1>1. /\ m.ephemeral \in Below(fresh) /\ m.timestamp \in Nat /\ peer[d] \in Peers
      /\ peer[d].greatest_timestamp \in Nat
  BY DEF World, Sound, MessagesBelow, Peers
<1>2. hs \in Handshakes
  BY <1>1 DEF Handshakes, Below, Ephemerals
<1> HIDE DEF hs
<1>3. /\ taken \in Peers /\ taken.handshake = hs /\ taken.keypairs = peer[d].keypairs
      /\ taken.greatest_timestamp = m.timestamp
  BY <1>1, <1>2 DEF Peers
<1>4. r.peer = q /\ r.out = out
  BY DEF AnswerInitiation, hs
<1>5. q.greatest_timestamp = m.timestamp
  BY <1>3 DEF wireguard_start_session, Peers
<1> HIDE DEF taken, q, out
<1>6. /\ q \in Peers /\ q.handshake = NoHandshake
      /\ q.keypairs = add_new_keypair(peer[d].keypairs, new)
  <2>1. q = wireguard_start_session(taken, FALSE, now) /\ FALSE \in BOOLEAN
    BY DEF q
  <2>2. /\ q \in Peers /\ q.handshake = NoHandshake
        /\ q.keypairs = add_new_keypair(taken.keypairs, NewKeypair(taken.handshake, FALSE, now))
    BY ONLY <1>0, <1>3, <2>1, StartSession
  <2> QED BY ONLY <1>3, <2>2 DEF new
<1>7. hs.local = fresh /\ hs.remote = m.ephemeral /\ fresh \in Nat /\ m.ephemeral \in Nat
  BY <1>1 DEF hs, Below, Ephemerals
<1>8. /\ new \in Keypairs /\ new.valid /\ ~new.heard /\ new.initiator = FALSE
      /\ new.key = <<m.ephemeral, fresh>>
  <2>1. FALSE \in BOOLEAN /\ hs.local \in Nat /\ hs.remote \in Nat
    BY ONLY <1>7
  <2>2. /\ new \in Keypairs /\ new.valid /\ ~new.heard /\ new.initiator = FALSE
        /\ new.key = IF FALSE THEN <<hs.local, hs.remote>> ELSE <<hs.remote, hs.local>>
    BY ONLY <1>0, <2>1, NewKeypairType DEF new
  <2> QED BY ONLY <1>7, <2>2
<1> HIDE DEF new
<1>9. /\ x.dev = d /\ x.life = restarts[d] /\ x.initiator \in BOOLEAN /\ ~x.initiator
      /\ x.key = <<m.ephemeral, fresh>>
  OBVIOUS
<1>10. \A y \in sessions : y.key[2] # fresh /\ y.key # <<m.ephemeral, fresh>>
  BY NextEphemeral DEF SessionsBelow
<1>11. \A n \in network : n.type = "data" => n.key # <<m.ephemeral, fresh>>
  BY NextEphemeral DEF World, MessagesBelow
<1>12. \A y \in sessions :
         ~y.initiator /\ y.dev = d /\ y.life = restarts[d] => y.key[1] # m.ephemeral
  <2> SUFFICES ASSUME NEW y \in sessions, ~y.initiator, y.dev = d, y.life = restarts[d],
                      y.key[1] = m.ephemeral
               PROVE  FALSE
    OBVIOUS
  <2>1. m.timestamp <= peer[d].greatest_timestamp
    BY DEF Past, TimestampsPassed
  <2> QED BY <2>1, <1>1
<1>13. TimestampsPassed(d, q, network, sessions \cup {x}, restarts[d])
  <2> SUFFICES ASSUME NEW y \in sessions \cup {x}, y.dev = d, ~y.initiator, y.life = restarts[d],
                      NEW n \in network, n.type = "initiation", n.ephemeral = y.key[1]
               PROVE  n.timestamp <= m.timestamp
    BY <1>5 DEF TimestampsPassed
  <2>1. n.timestamp \in Nat
    BY DEF World, MessagesBelow
  <2>2. CASE y \in sessions
    <3>1. n.timestamp <= peer[d].greatest_timestamp
      BY <2>2 DEF Past, TimestampsPassed
    <3> QED BY <3>1, <2>1, <1>1
  <2>3. CASE y = x
    <3>1. n.ephemeral = m.ephemeral
      BY <2>3, <1>9
    <3>2. n = m
      BY <3>1 DEF Chronicle, OneInitiation
    <3> QED BY <3>2, <1>1
  <2> QED BY <2>2, <2>3
<1>14. Past(d, q, network, sessions \cup {x}, restarts[d], delivered[d])
  <2>1. x.initiator = new.initiator /\ x.key = new.key /\ ~new.initiator
    <3>1. new.initiator \in BOOLEAN /\ ~new.initiator
      BY <1>8
    <3>2. x.initiator = new.initiator
      BY <3>1, <1>9, Zenon
    <3> QED BY <3>1, <3>2, <1>8, <1>9
  <2>2. \A y \in sessions : y.dev = d => y.key # new.key
    BY <1>8, <1>10
  <2> QED BY <1>1, <1>6, <1>8, <1>9, <1>13, <2>1, <2>2, AddPast
<1>15. Chronicle(network, sessions \cup {x})
  BY <1>9, <1>10, <1>11, <1>12, AddChronicle
<1>16. \A n \in out : n.type = "response" /\ n.from = d /\ n.receiver = m.ephemeral
                      /\ n.ephemeral = fresh
  BY TransmitAtMost DEF out, Response
<1>17. Chronicle(network \cup out, sessions \cup {x})
  <2>1. \A n \in out :
          /\ n.type = "response"
          /\ \E y \in sessions \cup {x} : /\ y.dev = n.from /\ ~y.initiator
                                  /\ y.key = <<n.receiver, n.ephemeral>>
    <3>1. x \in sessions \cup {x}
      OBVIOUS
    <3> QED BY <1>9, <1>16, <3>1
  <2> QED BY ONLY <1>15, <2>1, ResponseChronicle
<1>18. Past(d, q, network \cup out, sessions \cup {x}, restarts[d], delivered[d])
  BY <1>14, <1>16, PastGrows
<1> QED BY <1>4, <1>9, <1>10, <1>17, <1>18

\* A response is taken: the handshake has led to no session yet, and the one
\* that sent the response has started this one.
LEMMA CompleteHistory ==
  ASSUME HInv, NEW d \in Device, NEW m \in network, m.type = "response", m.from # d,
         HandshakeFor(peer[d], m.receiver), NEW addr \in Address, NEW ok,
         NEW r, r = CompleteHandshake(d, peer[d], m, addr, ok, now),
         NEW x, x.dev = d, x.life = restarts[d], x.initiator \in BOOLEAN, x.initiator,
         x.key = <<m.receiver, m.ephemeral>>
  PROVE  /\ Past(d, r.peer, network \cup r.out, sessions \cup {x}, restarts[d], delivered[d])
         /\ Chronicle(network \cup r.out, sessions \cup {x})
         /\ x \notin sessions
<1>0. /\ World(d, peer[d], network, fresh) /\ SessionsBelow(sessions, fresh)
      /\ Chronicle(network, sessions) /\ fresh \in Ephemerals /\ now \in Nat
      /\ Past(d, peer[d], network, sessions, restarts[d], delivered[d])
  BY DEF HInv, IInv, Types
<1> USE <1>0
<1> DEFINE joined == [peer[d] EXCEPT !.handshake.remote = m.ephemeral, !.ip = addr]
           hs == joined.handshake
           q == wireguard_start_session(joined, TRUE, now)
           new == NewKeypair(hs, TRUE, now)
<1>1. m.ephemeral \in Below(fresh) /\ peer[d] \in Peers /\ peer[d].handshake.local \in Below(fresh)
  BY DEF World, Sound, MessagesBelow
<1>2. m.ephemeral \in Nat /\ peer[d].handshake.local \in Nat
  BY <1>1 DEF Below, Ephemerals
<1>3. /\ joined \in Peers /\ joined.keypairs = peer[d].keypairs
      /\ hs.local = peer[d].handshake.local /\ hs.remote = m.ephemeral
      /\ joined.greatest_timestamp = peer[d].greatest_timestamp
  BY <1>1, <1>2 DEF Peers, Handshakes
<1>4. r = wg_encrypt_and_send(d, q, FALSE, ok, now)
  BY DEF CompleteHandshake
<1>5. q.greatest_timestamp = peer[d].greatest_timestamp
  BY <1>3 DEF wireguard_start_session, Peers
<1> HIDE DEF joined, q, hs
<1>6. /\ q \in Peers /\ q.handshake = NoHandshake
      /\ q.keypairs = add_new_keypair(peer[d].keypairs, new)
  <2>1. joined \in Peers /\ joined.keypairs = peer[d].keypairs /\ now \in Nat
    BY <1>3
  <2>2. q = wireguard_start_session(joined, TRUE, now)
    BY DEF q
  <2>3. /\ q \in Peers /\ q.handshake = NoHandshake
        /\ q.keypairs = add_new_keypair(joined.keypairs, NewKeypair(joined.handshake, TRUE, now))
    BY ONLY <2>1, <2>2, StartSession, Zenon
  <2> QED BY ONLY <2>1, <2>3 DEF hs, new
<1>7. peer[d].handshake.local = m.receiver /\ peer[d].handshake.valid /\ peer[d].handshake.initiator
  BY DEF HandshakeFor
<1>8. /\ new \in Keypairs /\ new.valid /\ ~new.heard /\ new.initiator = TRUE
      /\ new.key = <<m.receiver, m.ephemeral>>
  <2>1. hs.local \in Nat /\ hs.remote \in Nat
    BY <1>2, <1>3
  <2>2. new.key = IF TRUE THEN <<hs.local, hs.remote>> ELSE <<hs.remote, hs.local>>
    BY <2>1, NewKeypairType
  <2>3. new \in Keypairs /\ new.valid /\ ~new.heard /\ new.initiator = TRUE
    BY <2>1, NewKeypairType
  <2> QED BY <1>3, <1>7, <2>2, <2>3
<1> HIDE DEF new
<1>9. /\ x.dev = d /\ x.life = restarts[d] /\ x.initiator \in BOOLEAN /\ x.initiator
      /\ x.key = <<m.receiver, m.ephemeral>>
  OBVIOUS
<1>10. \A y \in sessions : y.dev = d => y.key # <<m.receiver, m.ephemeral>>
  BY <1>7 DEF Past, HandshakeOpen
<1>11. \E y \in sessions : y.dev # d /\ ~y.initiator /\ y.key = <<m.receiver, m.ephemeral>>
  BY DEF Chronicle, ResponsesStarted
<1>12. TimestampsPassed(d, q, network, sessions \cup {x}, restarts[d])
  BY <1>5, <1>9 DEF Past, TimestampsPassed
<1>13. Past(d, q, network, sessions \cup {x}, restarts[d], delivered[d])
  <2>1. x.initiator = new.initiator /\ x.key = new.key
    <3>1. new.initiator \in BOOLEAN /\ new.initiator
      BY <1>8
    <3>2. x.initiator = new.initiator
      BY <3>1, <1>9, Zenon
    <3> QED BY <3>2, <1>8, <1>9
  <2>2. \A y \in sessions : y.dev = d => y.key # new.key
    BY <1>8, <1>10
  <2>3. \E y \in sessions : y.dev # d /\ ~y.initiator /\ y.key = new.key
    BY <1>8, <1>11
  <2> QED BY <1>1, <1>6, <1>8, <1>9, <1>12, <2>1, <2>2, <2>3, AddPast
<1>14. Chronicle(network, sessions \cup {x})
  BY <1>9, <1>10, AddChronicle
<1>15. Quiet(d, q, r.peer, r.out)
  BY <1>4, <1>6, EncryptQuiet
<1>16. Past(d, r.peer, network, sessions \cup {x}, restarts[d], delivered[d])
  BY <1>13, <1>15, DescendsPast DEF Quiet
<1>17. Chronicle(network \cup r.out, sessions \cup {x})
  BY <1>6, <1>13, <1>14, <1>15, SentOnChronicle DEF Quiet, Peers
<1>18. Past(d, r.peer, network \cup r.out, sessions \cup {x}, restarts[d], delivered[d])
  BY <1>15, <1>16, PastGrows DEF Quiet, SentOn
<1> QED BY <1>9, <1>10, <1>17, <1>18

\* Data that passes the check has a counter that the key does not remember, so
\* it had not been accepted before.
LEMMA AcceptedIsNew ==
  ASSUME NEW d, NEW p, NEW N, NEW S, NEW life, NEW D, Past(d, p, N, S, life, D),
         NEW m \in N, m.type = "data", m.from # d,
         NEW slot \in Slots, p.keypairs[slot].valid, Authentic(p.keypairs[slot], m)
  PROVE  m \notin DOMAIN D
<1>1. m.key = p.keypairs[slot].key /\ m.counter \notin p.keypairs[slot].seen
  BY DEF Authentic, Replay!Fresh
<1> QED BY <1>1 DEF Past, AcceptedOnce

\* Data is accepted: the key remembers the counter from here on, so what was
\* delivered stays delivered once.
LEMMA AcceptHistory ==
  ASSUME NEW d, NEW p, NEW N, NEW S, NEW life, NEW D, NEW f \in Ephemerals,
         World(d, p, N, f), Past(d, p, N, S, life, D),
         NEW m \in N, m.type = "data", m.from # d,
         NEW slot \in Slots, p.keypairs[slot].valid, Authentic(p.keypairs[slot], m),
         NEW addr, NEW interval, NEW t, NEW q,
         q = AcceptData(p, slot, m, addr, interval, t)
  PROVE  /\ Past(d, q, N, S, life, D (+) SetToBag({m}))
         /\ m \notin DOMAIN D
<1> DEFINE old == p.keypairs
           heard == Hear(old, slot, m.counter)
           kps == keypair_update(heard, slot)
<1>1. p \in Peers /\ old \in [Slots -> Keypairs] /\ m.counter \in Nat
  BY DEF World, Sound, MessagesBelow, Peers
<1>2. IsHeardOn(old, slot, m.counter, heard)
  BY ONLY <1>1, slot \in Slots, SlotHeard
<1>3. heard \in [Slots -> Keypairs]
  BY ONLY <1>2 DEF IsHeardOn
<1>4. \A s \in Slots :
        /\ heard[s].valid = old[s].valid /\ heard[s].key = old[s].key
        /\ heard[s].initiator = old[s].initiator
        /\ heard[s].heard = IF s = slot THEN TRUE ELSE old[s].heard
        /\ heard[s].seen = IF s = slot THEN old[s].seen \cup {m.counter} ELSE old[s].seen
  BY ONLY <1>2 DEF IsHeardOn
<1>5. /\ q.keypairs = kps /\ q.handshake = p.handshake
      /\ q.greatest_timestamp = p.greatest_timestamp
  BY <1>1 DEF AcceptData, Hear, Peers
<1> HIDE DEF heard
<1>6. \A s \in Slots : kps[s].valid => \E o \in Slots : kps[s] = heard[o]
  BY <1>3, UpdateMoves
<1>7. m.key = old[slot].key /\ m.counter \notin old[slot].seen
  BY DEF Authentic, Replay!Fresh
<1> HIDE DEF kps
<1> HIDE DEF old
<1>8. ASSUME NEW s \in Slots, kps[s].valid
      PROVE  \E o \in Slots :
               /\ old[o].valid /\ kps[s].key = old[o].key
               /\ kps[s].initiator = old[o].initiator
               /\ kps[s].heard = IF o = slot THEN TRUE ELSE old[o].heard
               /\ kps[s].seen = IF o = slot THEN old[o].seen \cup {m.counter}
                                ELSE old[o].seen
  <2>1. PICK o \in Slots : kps[s] = heard[o]
    BY ONLY <1>6, <1>8, s \in Slots
  <2>2. /\ heard[o].valid = old[o].valid /\ heard[o].key = old[o].key
        /\ heard[o].initiator = old[o].initiator
        /\ heard[o].heard = IF o = slot THEN TRUE ELSE old[o].heard
        /\ heard[o].seen = IF o = slot THEN old[o].seen \cup {m.counter} ELSE old[o].seen
    BY ONLY <1>4, o \in Slots
  <2>3. /\ old[o].valid /\ kps[s].key = old[o].key
        /\ kps[s].initiator = old[o].initiator
        /\ kps[s].heard = IF o = slot THEN TRUE ELSE old[o].heard
        /\ kps[s].seen = IF o = slot THEN old[o].seen \cup {m.counter} ELSE old[o].seen
    BY ONLY <1>8, <2>1, <2>2
  <2> QED BY ONLY <2>3, o \in Slots
<1>9. SlotsStarted(d, kps, S, life) /\ ResponderStarted(d, kps, S)
  <2>1. SlotsStarted(d, old, S, life) /\ ResponderStarted(d, old, S)
    BY DEF Past, old
  <2>2. \A s \in Slots : kps[s].valid =>
          \E o \in Slots : /\ old[o].valid /\ kps[s].key = old[o].key
                           /\ kps[s].initiator = old[o].initiator
    BY <1>8
  <2> QED BY <2>1, <2>2 DEF SlotsStarted, ResponderStarted
<1>10. HeardFromOther(d, kps, N)
  <2>1. HeardFromOther(d, old, N)
    BY DEF Past, old
  <2> SUFFICES ASSUME NEW s \in Slots, kps[s].valid, kps[s].heard
               PROVE  \E n \in N : n.type = "data" /\ n.from # d /\ n.key = kps[s].key
    BY DEF HeardFromOther
  <2>2. PICK o \in Slots :
          /\ old[o].valid /\ kps[s].key = old[o].key
          /\ kps[s].heard = IF o = slot THEN TRUE ELSE old[o].heard
    BY <1>8
  <2>3. CASE o = slot
    BY <1>7, <2>2, <2>3
  <2>4. CASE o # slot
    BY <2>1, <2>2, <2>4 DEF HeardFromOther
  <2> QED BY <2>3, <2>4
<1>11. HandshakeOpen(d, q, S) /\ TimestampsPassed(d, q, N, S, life)
  BY <1>5 DEF Past, HandshakeOpen, TimestampsPassed
<1>12. m \notin DOMAIN D
  BY AcceptedIsNew
<1>13. PICK E : E = D (+) SetToBag({m})
  OBVIOUS
<1>14. DOMAIN E = DOMAIN D \cup {m} /\ E[m] = 1 /\ \A n \in DOMAIN D : E[n] = 1
  <2>1. DOMAIN E = DOMAIN D \cup {m}
    BY <1>13 DEF SetToBag, (+)
  <2>2. \A n \in DOMAIN E :
          E[n] = (IF n \in DOMAIN D THEN D[n] ELSE 0) + (IF n = m THEN 1 ELSE 0)
    BY <1>13 DEF SetToBag, (+)
  <2>3. \A n \in DOMAIN D : D[n] = 1
    BY DEF Past, AcceptedOnce
  <2> QED BY <1>12, <2>1, <2>2, <2>3
<1>15. AcceptedOnce(d, kps, S, E)
  <2>1. \E r \in S : r.dev = d /\ r.key = m.key
    BY <1>7 DEF Past, SlotsStarted, old
  <2>2. \A n \in DOMAIN E : E[n] = 1 /\ \E r \in S : r.dev = d /\ r.key = n.key
    BY <1>14, <2>1 DEF Past, AcceptedOnce
  <2>3. ASSUME NEW n \in DOMAIN E, NEW s \in Slots, kps[s].valid, kps[s].key = n.key
        PROVE  n.counter \in kps[s].seen
    <3>1. PICK o \in Slots :
            /\ old[o].valid /\ kps[s].key = old[o].key
            /\ kps[s].seen = IF o = slot THEN old[o].seen \cup {m.counter} ELSE old[o].seen
      BY <2>3, <1>8
    <3>2. CASE n = m
      <4>1. o = slot
        BY <1>7, <2>3, <3>1, <3>2 DEF World, Sound, AllDistinct, old
      <4> QED BY <3>1, <3>2, <4>1
    <3>3. CASE n \in DOMAIN D
      <4>1. n.counter \in old[o].seen
        BY <2>3, <3>1, <3>3 DEF Past, AcceptedOnce, old
      <4> QED BY <3>1, <4>1
    <3> QED BY <3>2, <3>3, <1>14
  <2> QED BY <2>2, <2>3 DEF AcceptedOnce
<1> QED BY <1>5, <1>9, <1>10, <1>11, <1>12, <1>13, <1>15 DEF Past

-----------------------------------------------------------------------------
(* The handlers.                                                           *)

\* A step of device d keeps what is known, for both ends, if it does for d.
LEMMA CommitHInv ==
  ASSUME HInv, IInv', NEW d \in Device, NEW r, Commit(d, r),
         Departed(d, r.out, fresh), fresh <= fresh', restarts' = restarts,
         sessions \subseteq sessions',
         \A x \in sessions' \ sessions :
           x \in [dev : {d}, life : {restarts[d]}, initiator : BOOLEAN,
                  key : Below(fresh') \X Below(fresh')],
         Chronicle(network', sessions'),
         Past(d, r.peer, network', sessions', restarts[d], delivered'[d]),
         \A e \in Device : e # d => delivered'[e] = delivered[e]
  PROVE  HInv'
<1>1. /\ peer' = [peer EXCEPT ![d] = r.peer] /\ network' = network \cup r.out
      /\ fresh \in Ephemerals /\ fresh' \in Ephemerals
      /\ restarts \in [Device -> Nat] /\ peer \in [Device -> Peers]
  BY DEF Commit, HInv, IInv, Types
<1>2. SessionsBelow(sessions, fresh)'
  <2> SUFFICES ASSUME NEW x \in sessions'
               PROVE  /\ x \in [dev : Device, life : Nat, initiator : BOOLEAN,
                                 key : Below(fresh') \X Below(fresh')]
                      /\ x.life <= restarts'[x.dev]
    BY DEF SessionsBelow
  <2>1. CASE x \in sessions
    <3>1. /\ x \in [dev : Device, life : Nat, initiator : BOOLEAN,
                     key : Below(fresh) \X Below(fresh)]
          /\ x.life <= restarts[x.dev]
      BY <2>1 DEF HInv, SessionsBelow
    <3> QED BY <3>1, <1>1, BelowGrows
  <2>2. CASE x \notin sessions
    BY <2>2, <1>1
  <2> QED BY <2>1, <2>2
<1>3. ASSUME NEW e \in Device
      PROVE  Past(e, peer'[e], network', sessions', restarts'[e], delivered'[e])
  <2>1. CASE e = d
    BY <2>1, <1>1
  <2>2. CASE e # d
    <3>1. /\ peer'[e] = peer[e] /\ restarts'[e] = restarts[e]
          /\ delivered'[e] = delivered[e]
          /\ Past(e, peer[e], network, sessions, restarts[e], delivered[e])
      BY <2>2, <1>1 DEF HInv
    <3>2. \A m \in r.out : m.type = "initiation" =>
            \A x \in sessions : x.key[1] # m.ephemeral
      BY <1>1, NextEphemeral DEF Departed, HInv, SessionsBelow
    <3>3. \A x \in sessions' : x.dev = e => x \in sessions
      BY <2>2
    <3> QED BY <1>1, <3>1, <3>2, <3>3, PastGrows
  <2> QED BY <2>1, <2>2
<1>4. Chronicle(network, sessions)'
  BY DEF Chronicle, ResponsesStarted, DataStarted, OneResponder, OneStart,
         OneInitiation, Waits, UsedOnce
<1>5. (\A e \in Device :
         Past(e, peer[e], network, sessions, restarts[e], delivered[e]))'
  BY <1>3 DEF Past, SlotsStarted, ResponderStarted, HeardFromOther, HandshakeOpen,
              TimestampsPassed, AcceptedOnce
<1> QED BY <1>2, <1>4, <1>5 DEF HInv

\* A handler of d that starts no session, accepts nothing and sends only data.
LEMMA QuietHInv ==
  ASSUME HInv, IInv', NEW d \in Device, NEW r, Commit(d, r),
         Quiet(d, peer[d], r.peer, r.out),
         UNCHANGED <<fresh, restarts, delivered, sessions>>
  PROVE  HInv'
<1>1. /\ Past(d, peer[d], network, sessions, restarts[d], delivered[d])
      /\ Chronicle(network, sessions) /\ peer[d] \in Peers /\ fresh \in Ephemerals
      /\ network' = network \cup r.out
  BY DEF HInv, IInv, Types, Commit
<1>2. Departed(d, r.out, fresh) /\ fresh <= fresh'
  BY <1>1 DEF Quiet, SentOn, Departed, Ephemerals
<1>3. Past(d, r.peer, network, sessions, restarts[d], delivered[d])
  BY <1>1, DescendsPast DEF Quiet
<1>4. \A m \in r.out : m.type # "initiation"
  BY DEF Quiet, SentOn
<1>5. Past(d, r.peer, network \cup r.out, sessions, restarts[d], delivered[d])
  BY <1>3, <1>4, PastGrows
<1>6. Chronicle(network \cup r.out, sessions)
  BY <1>1, SentOnChronicle DEF Quiet, Peers
<1> QED BY <1>1, <1>2, <1>5, <1>6, CommitHInv

\* wg_start_handshake() after a function that is quiet.
LEMMA InitiateHInv ==
  ASSUME HInv, IInv', NEW d \in Device, NEW p \in Peers, NEW out, NEW ok,
         Quiet(d, peer[d], p, out), Initiate(d, p, out, ok),
         UNCHANGED <<restarts, delivered, sessions>>
  PROVE  HInv'
<1>t. PICK ts : ts = clock[d] + 1
  OBVIOUS
<1>r. PICK r : r = wg_start_handshake(d, p, fresh, ts, ok, now)
  OBVIOUS
<1>p. p \in Peers
  OBVIOUS
<1> DEFINE c == [peer |-> r.peer, out |-> out \cup r.out]
<1>1. fresh' = fresh + 1 /\ Commit(d, c)
  BY <1>t, <1>r DEF Initiate, TakeEphemeral
<1>2. /\ Past(d, peer[d], network, sessions, restarts[d], delivered[d])
      /\ Chronicle(network, sessions) /\ SessionsBelow(sessions, fresh)
      /\ peer[d] \in Peers /\ fresh \in Ephemerals
      /\ World(d, peer[d], network, fresh)
  BY DEF HInv, IInv, Types
<1>3. fresh \in Nat
  BY <1>2 DEF Ephemerals
<1>s. Started(d, p, fresh, r)
  BY ONLY <1>p, <1>3, <1>r, StartParts
<1>4. /\ r.peer.keypairs = p.keypairs /\ r.peer.handshake.local = fresh
      /\ r.peer.greatest_timestamp = p.greatest_timestamp
      /\ \A m, n \in r.out : m = n
      /\ \A m \in r.out : m.type = "initiation" /\ m.ephemeral = fresh /\ m.from = d
  BY <1>s DEF Started
<1>5. c.peer = r.peer /\ c.out = out \cup r.out
  OBVIOUS
<1> HIDE DEF c
<1>6. Past(d, p, network, sessions, restarts[d], delivered[d])
  BY <1>2, DescendsPast DEF Quiet
<1>7. \A x \in sessions : x.key[1] # fresh
  BY <1>2, NextEphemeral DEF SessionsBelow
<1>8. Past(d, r.peer, network, sessions, restarts[d], delivered[d])
  BY <1>4, <1>6, <1>7
     DEF Past, SlotsStarted, ResponderStarted, HeardFromOther, HandshakeOpen,
         TimestampsPassed, AcceptedOnce
<1>9. \A m \in c.out : m.type = "initiation" => \A x \in sessions : x.key[1] # m.ephemeral
  BY <1>4, <1>5, <1>7 DEF Quiet, SentOn
<1>10. Past(d, c.peer, network \cup c.out, sessions, restarts[d], delivered[d])
  BY <1>5, <1>8, <1>9, PastGrows
<1>11. Chronicle(network \cup out, sessions)
  BY <1>2, SentOnChronicle DEF Quiet, Peers
<1>12. Chronicle(network \cup c.out, sessions)
  <2>1. \A m \in network \cup out : m.type = "initiation" => m.ephemeral # fresh
    BY <1>2, NextEphemeral DEF World, MessagesBelow, Quiet, SentOn
  <2>2. Chronicle((network \cup out) \cup r.out, sessions)
    <3>1. \A m \in r.out : m.type = "cookie" \/ (m.type = "initiation" /\ m.ephemeral = fresh)
      BY <1>4
    <3>2. \A m, n \in r.out : m.type = "initiation" /\ n.type = "initiation" => m = n
      BY <1>4
    <3> QED BY <1>11, <2>1, <3>1, <3>2, ControlChronicle
  <2>3. (network \cup out) \cup r.out = network \cup c.out
    BY <1>5
  <2> QED BY <2>2, <2>3
<1>13. Departed(d, c.out, fresh)
  BY <1>4, <1>5 DEF Departed, Quiet, SentOn
<1>14. network' = network \cup c.out /\ fresh <= fresh'
  BY <1>1, <1>2, NextEphemeral DEF Commit
<1> QED BY <1>1, <1>10, <1>12, <1>13, <1>14, CommitHInv

LEMMA PeerHInv ==
  ASSUME HInv, IInv', NEW d \in Device, NEW q,
         peer' = [peer EXCEPT ![d] = q],
         Descends(peer[d].keypairs, q.keypairs),
         q.handshake \in {peer[d].handshake, NoHandshake},
         q.greatest_timestamp = peer[d].greatest_timestamp,
         UNCHANGED <<network, fresh, restarts, delivered, sessions>>
  PROVE  HInv'
<1> DEFINE r == [peer |-> q, out |-> {}]
<1>1. r.peer = q /\ r.out = {} /\ network \cup r.out = network
  OBVIOUS
<1> HIDE DEF r
<1>2. Commit(d, r) /\ Quiet(d, peer[d], r.peer, r.out)
  BY <1>1 DEF Commit, Quiet, SentOn
<1> QED BY <1>2, QuietHInv

\* A cookie reply leaves, under load.
LEMMA UnderLoadHInv ==
  ASSUME HInv, IInv', NEW d \in Device, NEW m \in network, NEW ok,
         ReceiveInitiationUnderLoad(d, m, ok)
  PROVE  HInv'
<1> DEFINE out == IF ok THEN {CookieReply(d, m.ephemeral)} ELSE {}
           r == [peer |-> peer[d], out |-> out]
<1>1. Commit(d, r) /\ UNCHANGED <<fresh, restarts, delivered, sessions>>
  BY DEF ReceiveInitiationUnderLoad
<1>2. \A n \in out : n.from = d /\ n.type = "cookie"
  BY DEF CookieReply
<1> HIDE DEF out
<1>3. r.peer = peer[d] /\ r.out = out
  OBVIOUS
<1> HIDE DEF r
<1>4. /\ Past(d, peer[d], network, sessions, restarts[d], delivered[d])
      /\ Chronicle(network, sessions) /\ fresh \in Ephemerals
      /\ World(d, peer[d], network, fresh)
      /\ network' = network \cup out
  BY <1>1, <1>3 DEF HInv, IInv, Types, Commit
<1>5. Departed(d, r.out, fresh) /\ fresh <= fresh'
  BY <1>1, <1>2, <1>3, <1>4 DEF Departed, Ephemerals
<1>6. Past(d, peer[d], network \cup out, sessions, restarts[d], delivered[d])
  BY <1>2, <1>4, PastGrows
<1>7. Chronicle(network \cup out, sessions)
  <2>1. \A n \in network : n.type = "initiation" => n.ephemeral # fresh
    BY <1>4, NextEphemeral DEF World, MessagesBelow
  <2>2. \A n \in out : n.type = "cookie" \/ (n.type = "initiation" /\ n.ephemeral = fresh)
    BY <1>2
  <2>3. \A n, k \in out : n.type = "initiation" /\ k.type = "initiation" => n = k
    BY <1>2
  <2> QED BY <1>4, <2>1, <2>2, <2>3, ControlChronicle
<1> QED BY <1>1, <1>3, <1>4, <1>5, <1>6, <1>7, CommitHInv

LEMMA AnswerHInv ==
  ASSUME HInv, IInv', NEW d \in Device, NEW m \in network, NEW addr \in Address, NEW ok,
         ReceiveInitiation(d, m, addr, ok)
  PROVE  HInv'
<1>r. PICK r : r = AnswerInitiation(d, peer[d], m, addr, fresh, ok, now)
  OBVIOUS
<1>x. PICK x : x = Session(d, FALSE, <<m.ephemeral, fresh>>)
  OBVIOUS
<1>1. /\ m.type = "initiation" /\ m.timestamp > peer[d].greatest_timestamp
      /\ fresh' = fresh + 1 /\ Commit(d, r) /\ sessions' = sessions \cup {x}
      /\ UNCHANGED <<restarts, delivered>>
  BY <1>r, <1>x DEF ReceiveInitiation, InitiationAcceptable, TakeEphemeral
<1>2. /\ World(d, peer[d], network, fresh) /\ SessionsBelow(sessions, fresh)
      /\ Chronicle(network, sessions) /\ fresh \in Ephemerals /\ now \in Nat
      /\ Past(d, peer[d], network, sessions, restarts[d], delivered[d])
      /\ fresh' \in Ephemerals
  BY DEF HInv, IInv, Types
<1>3. /\ x.dev = d /\ x.life = restarts[d] /\ x.initiator \in BOOLEAN /\ ~x.initiator
      /\ x.key = <<m.ephemeral, fresh>>
      /\ x \in [dev : {d}, life : {restarts[d]}, initiator : BOOLEAN,
                key : {<<m.ephemeral, fresh>>}]
  BY <1>x DEF Session
<1>4. /\ Past(d, r.peer, network \cup r.out, sessions \cup {x}, restarts[d], delivered[d])
      /\ Chronicle(network \cup r.out, sessions \cup {x})
  BY <1>r, <1>1, <1>3, AnswerHistory
<1>5. Departed(d, r.out, fresh)
  BY <1>r, <1>1, <1>2, AnswerStep
<1>6. <<m.ephemeral, fresh>> \in Below(fresh') \X Below(fresh')
  BY <1>1, <1>2 DEF World, MessagesBelow, Below, Ephemerals
<1>7. \A y \in sessions' \ sessions :
        y \in [dev : {d}, life : {restarts[d]}, initiator : BOOLEAN,
               key : Below(fresh') \X Below(fresh')]
  <2>1. x \in [dev : {d}, life : {restarts[d]}, initiator : BOOLEAN,
               key : Below(fresh') \X Below(fresh')]
    BY <1>3, <1>6
  <2> QED BY <1>1, <2>1
<1>8. network' = network \cup r.out /\ fresh <= fresh' /\ sessions \subseteq sessions'
  BY <1>1, <1>2, NextEphemeral DEF Commit
<1> QED BY <1>1, <1>4, <1>5, <1>7, <1>8, CommitHInv

LEMMA CompleteHInv ==
  ASSUME HInv, IInv', NEW d \in Device, NEW m \in network, m.from # d,
         NEW addr \in Address, NEW ok, ReceiveResponse(d, m, addr, ok)
  PROVE  HInv'
<1>r. PICK r : r = CompleteHandshake(d, peer[d], m, addr, ok, now)
  OBVIOUS
<1>x. PICK x : x = Session(d, TRUE, <<m.receiver, m.ephemeral>>)
  OBVIOUS
<1>1. /\ m.type = "response" /\ HandshakeFor(peer[d], m.receiver)
      /\ Commit(d, r) /\ sessions' = sessions \cup {x}
      /\ UNCHANGED <<fresh, restarts, delivered>>
  BY <1>r, <1>x DEF ReceiveResponse
<1>2. /\ World(d, peer[d], network, fresh) /\ SessionsBelow(sessions, fresh)
      /\ Chronicle(network, sessions) /\ fresh \in Ephemerals /\ now \in Nat
      /\ Past(d, peer[d], network, sessions, restarts[d], delivered[d])
  BY DEF HInv, IInv, Types
<1>3. /\ x.dev = d /\ x.life = restarts[d] /\ x.initiator \in BOOLEAN /\ x.initiator
      /\ x.key = <<m.receiver, m.ephemeral>>
      /\ x \in [dev : {d}, life : {restarts[d]}, initiator : BOOLEAN,
                key : {<<m.receiver, m.ephemeral>>}]
  BY <1>x DEF Session
<1>4. /\ Past(d, r.peer, network \cup r.out, sessions \cup {x}, restarts[d], delivered[d])
      /\ Chronicle(network \cup r.out, sessions \cup {x})
  BY <1>r, <1>1, <1>3, CompleteHistory
<1>5. Departed(d, r.out, fresh)
  BY <1>r, <1>1, <1>2, CompleteStep
<1>6. <<m.receiver, m.ephemeral>> \in Below(fresh') \X Below(fresh')
  BY <1>1, <1>2 DEF World, Sound, MessagesBelow, HandshakeFor
<1>7. \A y \in sessions' \ sessions :
        y \in [dev : {d}, life : {restarts[d]}, initiator : BOOLEAN,
               key : Below(fresh') \X Below(fresh')]
  <2>1. x \in [dev : {d}, life : {restarts[d]}, initiator : BOOLEAN,
               key : Below(fresh') \X Below(fresh')]
    BY <1>3, <1>6
  <2> QED BY <1>1, <2>1
<1>8. network' = network \cup r.out /\ fresh <= fresh' /\ sessions \subseteq sessions'
  BY <1>1, <1>2 DEF Commit, Ephemerals
<1> QED BY <1>1, <1>4, <1>5, <1>7, <1>8, CommitHInv

\* A function that changes nothing that is remembered here.
LEMMA SameQuiet ==
  ASSUME NEW d, NEW p, NEW q, q.keypairs = p.keypairs, q.handshake = p.handshake,
         q.greatest_timestamp = p.greatest_timestamp
  PROVE  Quiet(d, p, q, {})
BY DescendsRefl DEF Quiet, SentOn

LEMMA CookieHInv ==
  ASSUME HInv, IInv', NEW d \in Device, NEW m, NEW ok, ReceiveCookieReply(d, m, ok)
  PROVE  HInv'
<1> DEFINE q == [peer[d] EXCEPT !.cookie_millis = now, !.mac1 = NoEphemeral]
<1>1. Initiate(d, q, {}, ok) /\ UNCHANGED <<restarts, delivered, sessions>>
  BY DEF ReceiveCookieReply
<1>2. peer[d] \in Peers /\ now \in Nat
  BY DEF HInv, IInv, Types
<1>3. /\ q \in Peers /\ q.keypairs = peer[d].keypairs /\ q.handshake = peer[d].handshake
      /\ q.greatest_timestamp = peer[d].greatest_timestamp
  BY <1>2 DEF Peers, NoEphemeral
<1> HIDE DEF q
<1>4. Quiet(d, peer[d], q, {})
  BY <1>3, SameQuiet
<1> QED BY <1>1, <1>3, <1>4, InitiateHInv

LEMMA DeadKeypairHInv ==
  ASSUME HInv, IInv', NEW d \in Device, NEW m, ReceiveDataOnDeadKeypair(d, m)
  PROVE  HInv'
<1>1. PICK slot \in SlotsForIndex(peer[d].keypairs, m.receiver) :
        peer' = [peer EXCEPT ![d].keypairs[slot] = NoKeypair]
  BY DEF ReceiveDataOnDeadKeypair
<1> DEFINE q == [peer[d] EXCEPT !.keypairs[slot] = NoKeypair]
<1>2. peer' = [peer EXCEPT ![d] = q]
  BY <1>1
<1>3. slot \in Slots /\ peer[d] \in Peers
  BY DEF SlotsForIndex, Slots, HInv, IInv
<1>4. /\ q.handshake = peer[d].handshake
      /\ q.greatest_timestamp = peer[d].greatest_timestamp
      /\ q.keypairs = [peer[d].keypairs EXCEPT ![slot] = NoKeypair]
  BY <1>3 DEF Peers
<1>5. \A s \in Slots : q.keypairs[s] \in {peer[d].keypairs[s], NoKeypair}
  BY <1>3, <1>4 DEF Peers
<1> HIDE DEF q
<1>6. Descends(peer[d].keypairs, q.keypairs)
  BY <1>5, DestroyDescends
<1>7. UNCHANGED <<network, fresh, restarts, delivered, sessions>>
  BY DEF ReceiveDataOnDeadKeypair
<1> QED BY <1>2, <1>4, <1>6, <1>7, PeerHInv

LEMMA AcceptHInv ==
  ASSUME HInv, IInv', NEW d \in Device, NEW m \in network, m.from # d,
         NEW addr \in Address, NEW answered \in BOOLEAN, NEW ok,
         ReceiveData(d, m, addr, answered, ok)
  PROVE  HInv'
<1>1. PICK slot \in SlotsForIndex(peer[d].keypairs, m.receiver) :
        LET q == AcceptData(peer[d], slot, m, addr, keepalive[d], now)
        IN  /\ Authentic(peer[d].keypairs[slot], m)
            /\ Commit(d, IF answered THEN wg_encrypt_and_send(d, q, TRUE, ok, now)
                         ELSE [peer |-> q, out |-> {}])
  BY DEF ReceiveData
<1> DEFINE q == AcceptData(peer[d], slot, m, addr, keepalive[d], now)
           r == IF answered THEN wg_encrypt_and_send(d, q, TRUE, ok, now)
                ELSE [peer |-> q, out |-> {}]
<1>2. slot \in Slots /\ peer[d].keypairs[slot].valid /\ m.type = "data"
  BY DEF SlotsForIndex, Slots, HasIndex, ReceiveData
<1>3. Commit(d, r) /\ Authentic(peer[d].keypairs[slot], m)
  BY <1>1
<1>4. /\ World(d, peer[d], network, fresh) /\ Chronicle(network, sessions)
      /\ fresh \in Ephemerals /\ now \in Nat /\ keepalive[d] \in Nat
      /\ Past(d, peer[d], network, sessions, restarts[d], delivered[d])
  BY DeviceAssumption DEF HInv, IInv, Types
<1>5. PICK E : E = delivered[d] (+) SetToBag({m})
  OBVIOUS
<1>6. Past(d, q, network, sessions, restarts[d], E)
  BY <1>2, <1>3, <1>4, <1>5, AcceptHistory
<1>7. World(d, q, network, fresh)
  BY <1>2, <1>4, AcceptStep
<1> HIDE DEF q
<1>8. q \in Peers
  BY <1>7 DEF World, Sound
<1>9. Quiet(d, q, r.peer, r.out)
  <2>1. CASE answered
    <3>1. PICK payload : r = wg_encrypt_and_send(d, q, payload, ok, now)
      BY <2>1
    <3> HIDE DEF r
    <3> QED BY <1>8, <3>1, EncryptQuiet
  <2>2. CASE ~answered
    <3>1. r.peer = q /\ r.out = {}
      BY <2>2
    <3> HIDE DEF r
    <3> QED BY <3>1, SameQuiet
  <2> QED BY <2>1, <2>2
<1> HIDE DEF r
<1>10. /\ UNCHANGED <<fresh, restarts, sessions>>
       /\ delivered' = [delivered EXCEPT ![d] = E]
  BY <1>5 DEF ReceiveData
<1>11. DOMAIN delivered = Device
  BY DEF HInv, IInv, OnlySentIsDelivered
<1>12. delivered'[d] = E /\ \A e \in Device : e # d => delivered'[e] = delivered[e]
  BY <1>10, <1>11
<1>13. Chronicle(network \cup r.out, sessions)
  BY <1>4, <1>6, <1>8, <1>9, SentOnChronicle DEF Quiet, Peers
<1>14. Past(d, r.peer, network, sessions, restarts[d], E)
  BY <1>6, <1>9, DescendsPast DEF Quiet
<1>15. \A n \in r.out : n.type = "data" /\ n.from = d
  BY <1>9 DEF Quiet, SentOn
<1>16. Past(d, r.peer, network \cup r.out, sessions, restarts[d], E)
  BY <1>14, <1>15, PastGrows
<1>17. /\ Departed(d, r.out, fresh) /\ fresh <= fresh' /\ network' = network \cup r.out
       /\ sessions \subseteq sessions' /\ restarts' = restarts
  BY <1>3, <1>4, <1>10, <1>15 DEF Departed, Ephemerals, Commit
<1>18. Chronicle(network', sessions')
       /\ Past(d, r.peer, network', sessions', restarts[d], delivered'[d])
  BY <1>10, <1>12, <1>13, <1>16, <1>17
<1>19. \A y \in sessions' \ sessions :
        y \in [dev : {d}, life : {restarts[d]}, initiator : BOOLEAN,
               key : Below(fresh') \X Below(fresh')]
  BY <1>10
<1> QED BY <1>3, <1>12, <1>17, <1>18, <1>19, CommitHInv

LEMMA DatagramHInv ==
  ASSUME HInv, IInv', NEW d \in Device, wg_process_udp_packet(d)
  PROVE  HInv'
<1> PICK m \in network, addr \in Address, ok \in SendResults :
      /\ m.from # d
      /\ \/ ReceiveInitiationUnderLoad(d, m, ok)
         \/ ReceiveInitiation(d, m, addr, ok)
         \/ ReceiveResponse(d, m, addr, ok)
         \/ ReceiveCookieReply(d, m, ok)
         \/ ReceiveDataOnDeadKeypair(d, m)
         \/ \E answered \in BOOLEAN : ReceiveData(d, m, addr, answered, ok)
  BY DEF wg_process_udp_packet
<1>1. CASE ReceiveInitiationUnderLoad(d, m, ok)
  BY <1>1, UnderLoadHInv
<1>2. CASE ReceiveInitiation(d, m, addr, ok)
  BY <1>2, AnswerHInv
<1>3. CASE ReceiveResponse(d, m, addr, ok)
  BY <1>3, CompleteHInv
<1>4. CASE ReceiveCookieReply(d, m, ok)
  BY <1>4, CookieHInv
<1>5. CASE ReceiveDataOnDeadKeypair(d, m)
  BY <1>5, DeadKeypairHInv
<1>6. CASE \E answered \in BOOLEAN : ReceiveData(d, m, addr, answered, ok)
  BY <1>6, AcceptHInv
<1> QED BY <1>1, <1>2, <1>3, <1>4, <1>5, <1>6

LEMMA TimersHInv ==
  ASSUME HInv, IInv', NEW d \in Device, wg_run_timers(d)
  PROVE  HInv'
<1>1. PICK kept \in SendResults, ok \in SendResults :
        LET r == TimersUpkeep(d, peer[d], connect_ip[d], keepalive[d], kept, now)
        IN  /\ IF ShouldInitiate(r.peer, keepalive[d], now)
               THEN Initiate(d, r.peer, r.out, ok)
               ELSE Commit(d, r) /\ UNCHANGED <<clock, fresh>>
            /\ UNCHANGED <<restarts, delivered, sessions>>
  BY DEF wg_run_timers
<1>2. PICK r : r = TimersUpkeep(d, peer[d], connect_ip[d], keepalive[d], kept, now)
  OBVIOUS
<1>3. /\ \/ Initiate(d, r.peer, r.out, ok)
         \/ Commit(d, r) /\ fresh' = fresh
      /\ UNCHANGED <<restarts, delivered, sessions>>
  <2>1. CASE ShouldInitiate(r.peer, keepalive[d], now)
    BY <1>1, <1>2, <2>1
  <2>2. CASE ~ShouldInitiate(r.peer, keepalive[d], now)
    BY <1>1, <1>2, <2>2
  <2> QED BY <2>1, <2>2
<1>4. /\ peer[d] \in Peers /\ now \in Nat /\ fresh \in Ephemerals
      /\ World(d, peer[d], network, fresh)
  BY DEF HInv, IInv, Types
<1>5. Quiet(d, peer[d], r.peer, r.out)
  BY <1>2, <1>4, Configured, TimersQuiet
<1>6. r.peer \in Peers
  <2>1. World(d, r.peer, network \cup r.out, fresh)
    BY <1>2, <1>4, Configured, TimersStep
  <2> QED BY <2>1 DEF World, Sound
<1>7. CASE Initiate(d, r.peer, r.out, ok)
  BY <1>3, <1>5, <1>6, <1>7, InitiateHInv
<1>8. CASE Commit(d, r) /\ fresh' = fresh
  BY <1>3, <1>5, <1>8, QuietHInv
<1> QED BY <1>3, <1>7, <1>8

LEMMA TxpollHInv ==
  ASSUME HInv, IInv', NEW d \in Device, wg_txpoll(d)
  PROVE  HInv'
<1>1. PICK ok \in SendResults :
        /\ Commit(d, wg_encrypt_and_send(d, peer[d], TRUE, ok, now))
        /\ UNCHANGED <<fresh, restarts, delivered, sessions>>
  BY DEF wg_txpoll
<1>2. PICK r : r = wg_encrypt_and_send(d, peer[d], TRUE, ok, now)
  OBVIOUS
<1>3. peer[d] \in Peers
  BY DEF HInv, IInv
<1>4. Quiet(d, peer[d], r.peer, r.out)
  BY <1>2, <1>3, EncryptQuiet
<1>5. Commit(d, r)
  BY <1>1, <1>2
<1> QED BY <1>1, <1>4, <1>5, QuietHInv

LEMMA InterfaceHInv ==
  ASSUME HInv, IInv', NEW d \in Device, wg_ifup(d) \/ wg_ifdown(d)
  PROVE  HInv'
<1>1. peer[d] \in Peers
  BY DEF HInv, IInv
<1>2. CASE wg_ifup(d)
  <2> DEFINE q == IfupPeer(peer[d], connect_ip[d])
  <2>1. /\ peer' = [peer EXCEPT ![d] = q]
        /\ UNCHANGED <<network, fresh, restarts, delivered, sessions>>
    BY <1>2 DEF wg_ifup
  <2>2. /\ q.keypairs = peer[d].keypairs /\ q.handshake = peer[d].handshake
        /\ q.greatest_timestamp = peer[d].greatest_timestamp
    BY <1>1 DEF IfupPeer, Peers
  <2> HIDE DEF q
  <2>3. Descends(peer[d].keypairs, q.keypairs)
    BY <2>2, DescendsRefl
  <2> QED BY <2>1, <2>2, <2>3, PeerHInv
<1>3. CASE wg_ifdown(d)
  <2> DEFINE q == IfdownPeer(peer[d], connect_ip[d])
  <2>1. /\ peer' = [peer EXCEPT ![d] = q]
        /\ UNCHANGED <<network, fresh, restarts, delivered, sessions>>
    BY <1>3 DEF wg_ifdown
  <2>2. /\ q.keypairs = EmptySlots /\ q.handshake = NoHandshake
        /\ q.greatest_timestamp = peer[d].greatest_timestamp
    BY <1>1 DEF IfdownPeer, Peers
  <2> HIDE DEF q
  <2>3. Descends(peer[d].keypairs, q.keypairs)
    BY <2>2, DestroyDescends DEF EmptySlots
  <2> QED BY <2>1, <2>2, <2>3, PeerHInv
<1> QED BY <1>2, <1>3

\* The new life of the device has started no session, and its slots are empty.
LEMMA RestartHInv ==
  ASSUME HInv, IInv', NEW d \in Device, Restart(d)
  PROVE  HInv'
<1>1. /\ UNCHANGED <<network, fresh, delivered, sessions>>
      /\ restarts' = [restarts EXCEPT ![d] = @ + 1]
      /\ peer' = [peer EXCEPT ![d] = wireguard_peer_init(connect_ip[d])]
      /\ restarts \in [Device -> Nat] /\ peer \in [Device -> Peers]
  BY DEF Restart, HInv, IInv, Types
<1>2. SessionsBelow(sessions, fresh)'
  BY <1>1 DEF HInv, SessionsBelow
<1>3. Chronicle(network, sessions)'
  BY <1>1 DEF HInv, Chronicle, ResponsesStarted, DataStarted, OneResponder, OneStart,
              OneInitiation, Waits, UsedOnce
<1>4. ASSUME NEW e \in Device
      PROVE  Past(e, peer'[e], network, sessions, restarts'[e], delivered[e])
  <2>1. CASE e = d
    <3>1. PICK q : q = wireguard_peer_init(connect_ip[d])
      OBVIOUS
    <3>2. /\ \A s \in Slots : ~q.keypairs[s].valid
          /\ ~q.handshake.valid
      BY <3>1, NoKeypairType DEF wireguard_peer_init, EmptySlots, NoHandshake
    <3>3. \A r \in sessions : r.dev = d => r.life # restarts[d] + 1
      BY <1>1 DEF HInv, SessionsBelow
    <3>4. TimestampsPassed(d, q, network, sessions, restarts[d] + 1)
      BY <3>3 DEF TimestampsPassed
    <3>5. AcceptedOnce(d, q.keypairs, sessions, delivered[d])
      BY <3>2 DEF HInv, Past, AcceptedOnce
    <3>6. Past(d, q, network, sessions, restarts[d] + 1, delivered[d])
      BY <3>2, <3>4, <3>5
         DEF Past, SlotsStarted, ResponderStarted, HeardFromOther, HandshakeOpen
    <3> QED BY <1>1, <2>1, <3>1, <3>6
  <2>2. CASE e # d
    BY <1>1, <2>2 DEF HInv
  <2> QED BY <2>1, <2>2
<1>5. \A e \in Device : Past(e, peer'[e], network', sessions', restarts'[e], delivered'[e])
  BY <1>1, <1>4
<1>6. (\A e \in Device :
         Past(e, peer[e], network, sessions, restarts[e], delivered[e]))'
  BY ONLY <1>5 DEF Past, SlotsStarted, ResponderStarted, HeardFromOther, HandshakeOpen,
                   TimestampsPassed, AcceptedOnce
<1> QED BY <1>2, <1>3, <1>6 DEF HInv

LEMMA InitHInv == Init => HInv
<1> SUFFICES ASSUME Init PROVE HInv
  OBVIOUS
<1>1. network = {} /\ sessions = {}
  BY DEF Init
<1>2. SessionsBelow(sessions, fresh) /\ Chronicle(network, sessions)
  BY <1>1 DEF SessionsBelow, Chronicle, ResponsesStarted, DataStarted, OneResponder,
              OneStart, OneInitiation, Waits, UsedOnce
<1>3. ASSUME NEW d \in Device
      PROVE  Past(d, peer[d], network, sessions, restarts[d], delivered[d])
  <2>1. /\ peer[d] = wireguard_peer_init(connect_ip[d])
        /\ delivered[d] = EmptyBag
    BY DEF Init
  <2>2. /\ \A s \in Slots : ~peer[d].keypairs[s].valid
        /\ ~peer[d].handshake.valid
    BY <2>1, NoKeypairType DEF wireguard_peer_init, EmptySlots, NoHandshake
  <2>3. DOMAIN delivered[d] = {}
    BY <2>1 DEF EmptyBag, SetToBag
  <2> QED BY <1>1, <2>2, <2>3
      DEF Past, SlotsStarted, ResponderStarted, HeardFromOther, HandshakeOpen,
          TimestampsPassed, AcceptedOnce
<1> QED BY <1>2, <1>3, InitInv DEF HInv

LEMMA SameHInv ==
  ASSUME HInv, IInv', UNCHANGED <<peer, network, fresh, restarts, delivered, sessions>>
  PROVE  HInv'
<1>1. SessionsBelow(sessions, fresh)' /\ Chronicle(network, sessions)'
  BY DEF HInv, SessionsBelow, Chronicle, ResponsesStarted, DataStarted, OneResponder,
         OneStart, OneInitiation, Waits, UsedOnce
<1>2. (\A e \in Device :
         Past(e, peer[e], network, sessions, restarts[e], delivered[e]))'
  BY DEF HInv, Past, SlotsStarted, ResponderStarted, HeardFromOther, HandshakeOpen,
         TimestampsPassed, AcceptedOnce
<1> QED BY <1>1, <1>2 DEF HInv

LEMMA StepHInv == HInv /\ [Next]_vars => HInv'
<1> SUFFICES ASSUME HInv, [Next]_vars PROVE HInv'
  OBVIOUS
<1>1. IInv'
  BY StepInv DEF HInv
<1>2. ASSUME NEW d \in Device,
             \/ wg_process_udp_packet(d) \/ wg_run_timers(d) \/ wg_txpoll(d)
             \/ wg_ifup(d) \/ wg_ifdown(d) \/ Restart(d)
      PROVE  HInv'
  BY <1>1, <1>2, DatagramHInv, TimersHInv, TxpollHInv, InterfaceHInv, RestartHInv
<1>3. CASE Tick
  BY <1>1, <1>3, SameHInv DEF Tick
<1>4. CASE UNCHANGED vars
  BY <1>1, <1>4, SameHInv DEF vars
<1> QED BY <1>2, <1>3, <1>4 DEF Next

LEMMA History == Spec => []HInv
BY InitHInv, StepHInv, PTL DEF Spec

-----------------------------------------------------------------------------

\* A keypair is installed only in the role in which this device started it, and
\* both ends have started every key that is confirmed.
THEOREM BothEndsAgree == Spec => []SessionsAgree
<1>1. HInv => SessionsAgree
  <2> SUFFICES ASSUME HInv, NEW d \in Device, NEW kp \in LiveKeypairs(d)
               PROVE  /\ Session(d, kp.initiator, kp.key) \in sessions
                      /\ Confirmed(kp) =>
                           \E q \in sessions :
                             q.dev # d /\ q.key = kp.key /\ q.initiator = ~kp.initiator
    BY DEF SessionsAgree
  <2>1. PICK s \in Slots : peer[d].keypairs[s].valid /\ kp = peer[d].keypairs[s]
    BY DEF LiveKeypairs
  <2>2. PICK r \in sessions : /\ r.dev = d /\ r.life = restarts[d]
                              /\ r.initiator = kp.initiator /\ r.key = kp.key
    BY <2>1 DEF HInv, Past, SlotsStarted
  <2>3. kp.initiator \in BOOLEAN
    BY <2>1 DEF HInv, IInv, Peers, Keypairs
  <2>6. Session(d, kp.initiator, kp.key) \in sessions
    <3>1. r \in [dev : Device, life : Nat, initiator : BOOLEAN,
                 key : Below(fresh) \X Below(fresh)]
      BY DEF HInv, SessionsBelow
    <3>2. r = [dev |-> r.dev, life |-> r.life, initiator |-> r.initiator, key |-> r.key]
      BY <3>1
    <3> QED BY <2>2, <3>2 DEF Session
  <2>4. CASE kp.initiator
    <3>1. PICK q \in sessions : q.dev # d /\ ~q.initiator /\ q.key = kp.key
      BY <2>1, <2>4 DEF HInv, Past, ResponderStarted
    <3>2. q.initiator \in BOOLEAN
      BY DEF HInv, SessionsBelow
    <3>3. q.initiator = ~kp.initiator
      BY <2>3, <2>4, <3>1, <3>2, Zenon
    <3>4. \E x \in sessions : x.dev # d /\ x.key = kp.key /\ x.initiator = ~kp.initiator
      BY <3>1, <3>3
    <3> QED BY <2>6, <3>4
  <2>5. CASE ~kp.initiator /\ kp.heard
    <3>1. PICK n \in network : n.type = "data" /\ n.from # d /\ n.key = kp.key
      BY <2>1, <2>5 DEF HInv, Past, HeardFromOther
    <3>2. PICK q \in sessions : q.dev = n.from /\ q.key = kp.key
      BY <3>1 DEF HInv, Chronicle, DataStarted
    <3>3. q.initiator
      BY <2>2, <2>5, <3>1, <3>2 DEF HInv, Chronicle, OneResponder
    <3>4. q.initiator \in BOOLEAN
      BY DEF HInv, SessionsBelow
    <3>5. q.initiator = ~kp.initiator
      BY <2>3, <2>5, <3>3, <3>4, Zenon
    <3>6. \E x \in sessions : x.dev # d /\ x.key = kp.key /\ x.initiator = ~kp.initiator
      BY <3>1, <3>2, <3>5
    <3> QED BY <2>6, <3>6
  <2>7. CASE ~kp.initiator /\ ~kp.heard
    BY <2>6, <2>7 DEF Confirmed
  <2> QED BY <2>4, <2>5, <2>7
<1> QED BY <1>1, History, PTL

\* A transport packet is accepted at most once, through every rotation,
\* however often the network delivers it.
THEOREM PacketsDeliveredOnce == Spec => []DeliveredOnce
<1>1. HInv => DeliveredOnce
  BY DEF HInv, Past, AcceptedOnce, DeliveredOnce, BagToSet
<1> QED BY <1>1, History, PTL

\* A responder sends data on a session only after the initiator has.
THEOREM ResponderWaits == Spec => []ResponderWaitsForInitiator
<1>1. HInv => ResponderWaitsForInitiator
  BY DEF HInv, Chronicle, Waits, ResponderWaitsForInitiator, Data
<1> QED BY <1>1, History, PTL

\* An initiation makes at most one session in one life of the responder.
THEOREM InitiationsUsedOnce == Spec => []InitiationUsedOnce
<1>1. HInv => InitiationUsedOnce
  BY DEF HInv, Chronicle, UsedOnce, InitiationUsedOnce
<1> QED BY <1>1, History, PTL

-----------------------------------------------------------------------------
(* What one step may do. Deed(d) sums up a handler of device d: the slots  *)
(* only move on, at most one session starts and from a message not seen    *)
(* before, what leaves and what is accepted uses a living key, and the     *)
(* endpoint and the mac1 of the last initiation change only for a reason.  *)

InLifetime(kps, m, t) ==
  /\ \E s \in Slots : /\ kps[s].valid /\ kps[s].key = m.key
                      /\ t - kps[s].keypair_millis < REJECT_AFTER_TIME
  /\ m.counter < REJECT_AFTER_MESSAGES

\* What a quiet function does to the fields that Quiet leaves out.
Kept(d, p, q, out, t) ==
  /\ q.ip \in {p.ip, connect_ip[d]}
  /\ q.mac1 \in {p.mac1, NoEphemeral}
  /\ \A m \in out : InLifetime(q.keypairs, m, t)

MovesOn(kps, after, new) ==
  \A s \in Slots : after[s].valid =>
    \/ \E o \in Slots : /\ kps[o].valid /\ Position[o] <= Position[s]
                        /\ after[s].key = kps[o].key
    \/ \E x \in new : x.key = after[s].key

StartsOne(d, kps, new, life) ==
  \A x \in new :
    /\ new = {x} /\ x.dev = d /\ x.life = life
    /\ LET slot == IF x.initiator THEN "curr" ELSE "next"
       IN  kps[slot].valid /\ kps[slot].key = x.key

StartOnFresh(new) == \A x \in new : StartedOnFresh(x)

Takes(d, kps) ==
  delivered'[d] # delivered[d] =>
    \E s \in Slots, m \in network :
      /\ kps[s].valid /\ now - kps[s].keypair_millis < REJECT_AFTER_TIME
      /\ m.type = "data" /\ m.key = kps[s].key /\ m \notin DOMAIN delivered[d]
      /\ delivered'[d] = delivered[d] (+) SetToBag({m})

\* The last initiation, and the handshake it belongs to.
LastInitiation(p, q, sent, f) ==
  \/ /\ q.mac1 \in {p.mac1, NoEphemeral}
     /\ q.handshake \in {p.handshake, NoHandshake}
     /\ \A m \in sent : m.type # "initiation"
  \/ q.mac1 = f /\ q.handshake.local = f

Deed(d) ==
  /\ restarts' = restarts /\ sessions \subseteq sessions' /\ network \subseteq network'
  /\ \A e \in Device : e # d => peer'[e] = peer[e] /\ delivered'[e] = delivered[e]
  /\ MovesOn(peer[d].keypairs, peer'[d].keypairs, sessions' \ sessions)
  /\ StartsOne(d, peer'[d].keypairs, sessions' \ sessions, restarts[d])
  /\ StartOnFresh(sessions' \ sessions)
  /\ \A m \in network' \ network :
       /\ m.from = d
       /\ m.type = "initiation" => m.ephemeral = fresh
       /\ m.type = "data" => InLifetime(peer'[d].keypairs, m, now)
  /\ Takes(d, peer[d].keypairs)
  /\ \/ peer'[d].ip \in {peer[d].ip, connect_ip[d]}
     \/ delivered'[d] # delivered[d] \/ sessions' # sessions
  /\ LastInitiation(peer[d], peer'[d], network' \ network, fresh)

LEMMA EncryptKept ==
  ASSUME NEW d, NEW p \in Peers, NEW payload, NEW ok, NEW t \in Nat, NEW r,
         r = wg_encrypt_and_send(d, p, payload, ok, t)
  PROVE  /\ r.peer.ip = p.ip /\ r.peer.mac1 = p.mac1
         /\ \A m \in r.out : InLifetime(r.peer.keypairs, m, t)
<1> DEFINE slot == SendingSlot(p.keypairs)
           kp == p.keypairs[slot]
           used == [kp EXCEPT !.sending_counter = @ + 1]
           sent == Transmit(p, ok, TransportData(d, kp, payload))
           rekey == \/ used.sending_counter >= REKEY_AFTER_MESSAGES
                    \/ kp.initiator /\ Expired(kp.keypair_millis, REKEY_AFTER_TIME, t)
           dropped == [p EXCEPT !.keypairs[slot] = NoKeypair]
           sender == [p EXCEPT !.keypairs[slot] = used,
                               !.last_tx = IF ok THEN t ELSE @,
                               !.send_handshake = @ \/ rekey]
           dead == \/ Expired(kp.keypair_millis, REJECT_AFTER_TIME, t)
                   \/ kp.sending_counter >= REJECT_AFTER_MESSAGES
<1> HIDE DEF slot, used, sent, rekey, dropped, sender, dead
<1>1. slot \in Slots /\ kp \in Keypairs /\ p.keypairs \in [Slots -> Keypairs]
  BY SendingSlotType DEF Peers, slot
<1>2. \/ r = [peer |-> p, out |-> {}]
      \/ r = [peer |-> dropped, out |-> {}]
      \/ r = [peer |-> sender, out |-> sent] /\ kp.valid /\ ~dead
  BY DEF wg_encrypt_and_send, slot, used, sent, rekey, sender, dropped, dead
<1>3. CASE r = [peer |-> p, out |-> {}]
  BY <1>3
<1>4. CASE r = [peer |-> dropped, out |-> {}]
  <2>1. dropped.ip = p.ip /\ dropped.mac1 = p.mac1
    BY DEF Peers, dropped
  <2> QED BY <1>4, <2>1
<1>5. CASE r = [peer |-> sender, out |-> sent] /\ kp.valid /\ ~dead
  <2>1. /\ sender.keypairs = [p.keypairs EXCEPT ![slot] = used]
        /\ sender.ip = p.ip /\ sender.mac1 = p.mac1
    BY DEF Peers, sender
  <2>2. /\ used.valid = kp.valid /\ used.key = kp.key
        /\ used.keypair_millis = kp.keypair_millis
    BY <1>1 DEF Keypairs, used
  <2>3. \A m \in sent : m.key = kp.key /\ m.counter = kp.sending_counter
    BY TransmitAtMost DEF sent, TransportData
  <2>4. /\ t - kp.keypair_millis < REJECT_AFTER_TIME
        /\ kp.sending_counter < REJECT_AFTER_MESSAGES
    BY <1>1, <1>5, LimitsAssumption DEF dead, Expired, Keypairs
  <2>5. sender.keypairs[slot] = used
    BY <1>1, <2>1
  <2>6. \A m \in sent : InLifetime(sender.keypairs, m, t)
    BY <1>1, <1>5, <2>2, <2>3, <2>4, <2>5 DEF InLifetime
  <2> QED BY <1>5, <2>1, <2>6
<1> QED BY <1>2, <1>3, <1>4, <1>5

\* A session that has just started survives its first packet.
LEMMA EncryptSpares ==
  ASSUME NEW d, NEW p \in Peers, NEW payload, NEW ok, NEW t \in Nat, NEW r,
         r = wg_encrypt_and_send(d, p, payload, ok, t),
         NEW new, p.keypairs["curr"] = new, new.valid, new.initiator,
         new.keypair_millis = t, new.sending_counter = 0
  PROVE  r.peer.keypairs["curr"].valid /\ r.peer.keypairs["curr"].key = new.key
<1>1. SendingSlot(p.keypairs) = "curr"
  BY DEF SendingSlot, Confirmed
<1>2. new \in Keypairs /\ p.keypairs \in [Slots -> Keypairs] /\ "curr" \in Slots
  BY DEF Peers, Slots
<1> DEFINE used == [new EXCEPT !.sending_counter = @ + 1]
           sent == Transmit(p, ok, TransportData(d, new, payload))
           rekey == \/ used.sending_counter >= REKEY_AFTER_MESSAGES
                    \/ new.initiator /\ Expired(new.keypair_millis, REKEY_AFTER_TIME, t)
           sender == [p EXCEPT !.keypairs["curr"] = used,
                               !.last_tx = IF ok THEN t ELSE @,
                               !.send_handshake = @ \/ rekey]
<1> HIDE DEF used, sent, rekey, sender
<1>3. ~Expired(new.keypair_millis, REJECT_AFTER_TIME, t)
  BY LimitsAssumption DEF Expired
<1>4. ~(new.sending_counter >= REJECT_AFTER_MESSAGES)
  BY LimitsAssumption
<1>5. r = [peer |-> sender, out |-> sent]
  BY <1>1, <1>3, <1>4 DEF wg_encrypt_and_send, Confirmed, used, sent, rekey, sender
<1>6. sender.keypairs = [p.keypairs EXCEPT !["curr"] = used]
  BY DEF Peers, sender
<1>7. used.valid /\ used.key = new.key
  BY <1>2 DEF Keypairs, used
<1> QED BY <1>2, <1>5, <1>6, <1>7

LEMMA TimersKept ==
  ASSUME NEW d \in Device, NEW p \in Peers, NEW interval, NEW ok, NEW t \in Nat, NEW r,
         r = TimersUpkeep(d, p, connect_ip[d], interval, ok, t)
  PROVE  Kept(d, p, r.peer, r.out, t)
<1> DEFINE wiped == WipeIfAbandoned(p, connect_ip[d], t)
           dropped == DropIfExpired(wiped, t)
<1>1. /\ wiped \in Peers /\ wiped.ip \in {p.ip, connect_ip[d]} /\ wiped.mac1 = p.mac1
  <2> DEFINE q == [p EXCEPT !.keypairs = EmptySlots, !.ip = connect_ip[d]]
  <2>1. wiped = p \/ wiped = q
    BY DEF WipeIfAbandoned
  <2>2. q \in Peers /\ q.ip = connect_ip[d] /\ q.mac1 = p.mac1
    BY EmptySlotsType, Configured DEF Peers
  <2> HIDE DEF q
  <2> QED BY <2>1, <2>2
<1> HIDE DEF wiped
<1>2. dropped \in Peers /\ dropped.ip = wiped.ip /\ dropped.mac1 = wiped.mac1
  <2> DEFINE q == [wiped EXCEPT !.keypairs["curr"] = NoKeypair]
  <2>1. dropped = wiped \/ dropped = q
    BY DEF DropIfExpired
  <2>2. q \in Peers /\ q.ip = wiped.ip /\ q.mac1 = wiped.mac1
    BY <1>1, NoKeypairType DEF Peers, Slots
  <2> HIDE DEF q, dropped
  <2> QED BY <1>1, <2>1, <2>2
<1>3. r = KeepaliveIfIdle(d, dropped, interval, ok, t)
  BY DEF TimersUpkeep, wiped
<1> HIDE DEF dropped
<1>4. \/ r = [peer |-> dropped, out |-> {}]
      \/ \E payload : r = wg_encrypt_and_send(d, dropped, payload, ok, t)
  BY <1>3 DEF KeepaliveIfIdle
<1>5. CASE r = [peer |-> dropped, out |-> {}]
  BY <1>1, <1>2, <1>5 DEF Kept
<1>6. CASE \E payload : r = wg_encrypt_and_send(d, dropped, payload, ok, t)
  BY <1>1, <1>2, <1>6, EncryptKept DEF Kept
<1> QED BY <1>4, <1>5, <1>6

LEMMA StartKept ==
  ASSUME NEW d, NEW p \in Peers, NEW e \in Nat, NEW ts, NEW ok, NEW t, NEW r,
         r = wg_start_handshake(d, p, e, ts, ok, t)
  PROVE  r.peer.ip = p.ip /\ r.peer.mac1 = e
<1> DEFINE q == [p EXCEPT !.handshake.valid = TRUE, !.handshake.initiator = TRUE,
                          !.handshake.local = e, !.send_handshake = FALSE,
                          !.last_initiation_tx = t, !.mac1 = e]
<1>1. r.peer = q
  BY DEF wg_start_handshake
<1>2. q.ip = p.ip /\ q.mac1 = e
  BY DEF Peers
<1> QED BY <1>1, <1>2

\* A handler that starts no session and accepts nothing.
LEMMA QuietDeed ==
  ASSUME IInv, NEW d \in Device, NEW r, Commit(d, r),
         Quiet(d, peer[d], r.peer, r.out), Kept(d, peer[d], r.peer, r.out, now),
         UNCHANGED <<restarts, delivered, sessions>>
  PROVE  Deed(d)
<1>1. /\ peer' = [peer EXCEPT ![d] = r.peer] /\ network' = network \cup r.out
      /\ peer \in [Device -> Peers]
  BY DEF Commit, IInv
<1>2. peer'[d] = r.peer /\ \A e \in Device : e # d => peer'[e] = peer[e]
  BY <1>1
<1>3. MovesOn(peer[d].keypairs, peer'[d].keypairs, sessions' \ sessions)
  BY <1>2 DEF Quiet, Descends, MovesOn
<1>4. StartsOne(d, peer'[d].keypairs, sessions' \ sessions, restarts[d])
  BY DEF StartsOne
<1>5. \A m \in network' \ network :
        /\ m.from = d /\ m.type = "data" /\ InLifetime(peer'[d].keypairs, m, now)
  BY <1>1, <1>2 DEF Quiet, SentOn, Kept
<1>6. Takes(d, peer[d].keypairs)
  BY DEF Takes
<1>7. LastInitiation(peer[d], peer'[d], network' \ network, fresh)
  BY <1>2, <1>5 DEF LastInitiation, Quiet, Kept
<1>8. peer'[d].ip \in {peer[d].ip, connect_ip[d]}
  BY <1>2 DEF Kept
<1>9. /\ restarts' = restarts /\ sessions \subseteq sessions' /\ network \subseteq network'
      /\ \A e \in Device : e # d => peer'[e] = peer[e] /\ delivered'[e] = delivered[e]
  BY <1>1, <1>2
<1>10. \A m \in network' \ network :
         /\ m.from = d
         /\ m.type = "initiation" => m.ephemeral = fresh
         /\ m.type = "data" => InLifetime(peer'[d].keypairs, m, now)
  BY <1>5
<1>11. StartOnFresh(sessions' \ sessions)
  BY DEF StartOnFresh
<1> QED BY <1>3, <1>4, <1>6, <1>7, <1>8, <1>9, <1>10, <1>11 DEF Deed

LEMMA PeerDeed ==
  ASSUME IInv, NEW d \in Device, NEW q, peer' = [peer EXCEPT ![d] = q],
         Quiet(d, peer[d], q, {}), Kept(d, peer[d], q, {}, now),
         UNCHANGED <<network, restarts, delivered, sessions>>
  PROVE  Deed(d)
<1> DEFINE r == [peer |-> q, out |-> {}]
<1>1. r.peer = q /\ r.out = {} /\ network \cup r.out = network
  OBVIOUS
<1> HIDE DEF r
<1>2. Commit(d, r)
  BY <1>1 DEF Commit
<1> QED BY <1>1, <1>2, QuietDeed

\* wg_start_handshake() after a quiet function.
LEMMA InitiateDeed ==
  ASSUME IInv, NEW d \in Device, NEW p \in Peers, NEW out, NEW ok,
         Quiet(d, peer[d], p, out), Kept(d, peer[d], p, out, now),
         Initiate(d, p, out, ok), UNCHANGED <<restarts, delivered, sessions>>
  PROVE  Deed(d)
<1>t. PICK ts : ts = clock[d] + 1
  OBVIOUS
<1>r. PICK r : r = wg_start_handshake(d, p, fresh, ts, ok, now)
  OBVIOUS
<1>2. Commit(d, [peer |-> r.peer, out |-> out \cup r.out])
  BY <1>t, <1>r DEF Initiate
<1>3. /\ peer' = [peer EXCEPT ![d] = r.peer] /\ network' = network \cup (out \cup r.out)
      /\ peer \in [Device -> Peers]
  BY <1>2 DEF Commit, IInv
<1>0. fresh \in Nat
  BY DEF IInv, Types, Ephemerals
<1>p. p \in Peers
  OBVIOUS
<1>s. Started(d, p, fresh, r)
  BY ONLY <1>p, <1>0, <1>r, StartParts
<1>4. /\ r.peer.keypairs = p.keypairs /\ r.peer.handshake.local = fresh
      /\ r.peer.greatest_timestamp = p.greatest_timestamp
      /\ \A m, n \in r.out : m = n
      /\ \A m \in r.out : m.type = "initiation" /\ m.ephemeral = fresh /\ m.from = d
  BY <1>s DEF Started
<1>5. r.peer.ip = p.ip /\ r.peer.mac1 = fresh
  BY ONLY <1>p, <1>0, <1>r, StartKept
<1>6. peer'[d] = r.peer /\ \A e \in Device : e # d => peer'[e] = peer[e]
  BY <1>3
<1>7. MovesOn(peer[d].keypairs, peer'[d].keypairs, sessions' \ sessions)
  BY <1>4, <1>6 DEF Quiet, Descends, MovesOn
<1>8. StartsOne(d, peer'[d].keypairs, sessions' \ sessions, restarts[d])
  BY DEF StartsOne
<1>9. \A m \in network' \ network :
        \/ m.from = d /\ m.type = "data" /\ InLifetime(peer'[d].keypairs, m, now)
        \/ m.from = d /\ m.type = "initiation" /\ m.ephemeral = fresh
  BY <1>3, <1>4, <1>6 DEF Quiet, SentOn, Kept, InLifetime
<1>10. Takes(d, peer[d].keypairs)
  BY DEF Takes
<1>11. LastInitiation(peer[d], peer'[d], network' \ network, fresh)
  BY <1>4, <1>5, <1>6 DEF LastInitiation
<1>12. peer'[d].ip \in {peer[d].ip, connect_ip[d]}
  BY <1>5, <1>6 DEF Kept
<1>13. /\ restarts' = restarts /\ sessions \subseteq sessions' /\ network \subseteq network'
       /\ \A e \in Device : e # d => peer'[e] = peer[e] /\ delivered'[e] = delivered[e]
  BY <1>3, <1>6
<1>14. \A m \in network' \ network :
         /\ m.from = d
         /\ m.type = "initiation" => m.ephemeral = fresh
         /\ m.type = "data" => InLifetime(peer'[d].keypairs, m, now)
  BY <1>9
<1>15. StartOnFresh(sessions' \ sessions)
  BY DEF StartOnFresh
<1> QED BY <1>7, <1>8, <1>10, <1>11, <1>12, <1>13, <1>14, <1>15 DEF Deed

LEMMA UnderLoadDeed ==
  ASSUME IInv, NEW d \in Device, NEW m, NEW ok, ReceiveInitiationUnderLoad(d, m, ok)
  PROVE  Deed(d)
<1> DEFINE out == IF ok THEN {CookieReply(d, m.ephemeral)} ELSE {}
<1>1. /\ Commit(d, [peer |-> peer[d], out |-> out])
      /\ UNCHANGED <<restarts, delivered, sessions>>
  BY DEF ReceiveInitiationUnderLoad
<1>2. \A n \in out : n.from = d /\ n.type = "cookie"
  BY DEF CookieReply
<1> HIDE DEF out
<1>3. /\ peer' = [peer EXCEPT ![d] = peer[d]] /\ network' = network \cup out
      /\ peer \in [Device -> Peers]
  BY <1>1 DEF Commit, IInv
<1>4. \A e \in Device : peer'[e] = peer[e]
  BY <1>3
<1>5. /\ MovesOn(peer[d].keypairs, peer'[d].keypairs, sessions' \ sessions)
      /\ StartsOne(d, peer'[d].keypairs, sessions' \ sessions, restarts[d])
  BY <1>1, <1>4 DEF MovesOn, StartsOne, Position, Slots
<1>6. /\ Takes(d, peer[d].keypairs)
      /\ LastInitiation(peer[d], peer'[d], network' \ network, fresh)
  BY <1>1, <1>2, <1>3, <1>4 DEF Takes, LastInitiation
<1>7. StartOnFresh(sessions' \ sessions)
  BY <1>1 DEF StartOnFresh
<1> QED BY <1>1, <1>2, <1>3, <1>4, <1>5, <1>6, <1>7 DEF Deed

\* The slots after add_new_keypair().
LEMMA AddMoves ==
  ASSUME NEW kps \in [Slots -> Keypairs], NEW new \in Keypairs, new.valid, NEW after,
         after = add_new_keypair(kps, new), NEW x, x.key = new.key
  PROVE  MovesOn(kps, after, {x})
<1>1. \A s \in Slots : after[s].valid =>
        \/ after[s] = new
        \/ \E o \in Slots : after[s] = kps[o] /\ Position[o] <= Position[s]
  BY AddNewKeypair
<1> QED BY <1>1 DEF MovesOn

LEMMA AnswerDeed ==
  ASSUME HInv, NEW d \in Device, NEW m \in network, NEW addr \in Address, NEW ok,
         ReceiveInitiation(d, m, addr, ok)
  PROVE  Deed(d)
<1>r. PICK r : r = AnswerInitiation(d, peer[d], m, addr, fresh, ok, now)
  OBVIOUS
<1>x. PICK x : x = Session(d, FALSE, <<m.ephemeral, fresh>>)
  OBVIOUS
<1>1. /\ m.type = "initiation" /\ m.timestamp > peer[d].greatest_timestamp
      /\ Commit(d, r) /\ sessions' = sessions \cup {x}
      /\ UNCHANGED <<restarts, delivered>>
  BY <1>r, <1>x DEF ReceiveInitiation, InitiationAcceptable
<1>2. /\ x.dev = d /\ x.life = restarts[d] /\ x.initiator \in BOOLEAN /\ ~x.initiator
      /\ x.key = <<m.ephemeral, fresh>>
  BY <1>x DEF Session
<1>3. x \notin sessions
  BY <1>r, <1>1, <1>2, AnswerHistory
<1>f. StartOnFresh({x})
  <2> SUFFICES ASSUME NEW q \in sessions, q.dev = d, ~q.initiator,
                      q.key[1] = m.ephemeral, q.life = restarts[d]
               PROVE  FALSE
    BY <1>2 DEF StartOnFresh, StartedOnFresh
  <2>1. m.timestamp <= peer[d].greatest_timestamp
    BY <1>1 DEF HInv, Past, TimestampsPassed
  <2>2. m.timestamp \in Nat /\ peer[d].greatest_timestamp \in Nat
    BY <1>1 DEF HInv, IInv, Types, World, MessagesBelow, Below, Peers
  <2> QED BY <1>1, <2>1, <2>2
<1> DEFINE p == peer[d]
           hs == [valid |-> TRUE, initiator |-> FALSE, local |-> fresh, remote |-> m.ephemeral]
           taken == [p EXCEPT !.last_initiation_rx = now,
                              !.greatest_timestamp = m.timestamp,
                              !.handshake = hs, !.ip = addr]
           q == wireguard_start_session(taken, FALSE, now)
           out == Transmit(taken, ok, Response(d, m.ephemeral, fresh))
           new == NewKeypair(hs, FALSE, now)
<1>4. /\ p \in Peers /\ m.timestamp \in Nat /\ m.ephemeral \in Nat /\ fresh \in Nat
      /\ now \in Nat /\ peer \in [Device -> Peers]
  BY <1>1 DEF HInv, IInv, Types, World, MessagesBelow, Below, Ephemerals
<1>5. /\ taken \in Peers /\ taken.keypairs = p.keypairs /\ taken.mac1 = p.mac1
      /\ taken.handshake = hs
  BY <1>4 DEF Peers, Handshakes
<1>6. r.peer = q /\ r.out = out
  BY <1>r DEF AnswerInitiation
<1>7. new \in Keypairs /\ new.valid /\ ~new.initiator /\ new.key = <<m.ephemeral, fresh>>
  <2>1. hs.local = fresh /\ hs.remote = m.ephemeral
    OBVIOUS
  <2> QED BY <2>1, <1>4, NewKeypairType
<1>8. \A n \in out : n.from = d /\ n.type = "response"
  BY TransmitAtMost DEF Response
<1> HIDE DEF p, hs, taken, out, new
<1>9. q.mac1 = p.mac1
  BY <1>5 DEF wireguard_start_session, Peers
<1> HIDE DEF q
<1>10. q.handshake = NoHandshake /\ q.keypairs = add_new_keypair(p.keypairs, new)
  <2>1. q = wireguard_start_session(taken, FALSE, now)
    BY DEF q
  <2>2. /\ q.handshake = NoHandshake
        /\ q.keypairs = add_new_keypair(taken.keypairs, NewKeypair(taken.handshake, FALSE, now))
    BY ONLY <1>4, <1>5, <2>1, StartSession, Zenon
  <2> QED BY ONLY <1>5, <2>2 DEF new
<1>11. p.keypairs \in [Slots -> Keypairs]
  BY <1>4 DEF Peers
<1>12. MovesOn(p.keypairs, q.keypairs, {x})
  BY <1>2, <1>7, <1>10, <1>11, AddMoves
<1>13. q.keypairs["next"] = new
  BY <1>7, <1>10, <1>11, AddNewKeypair
<1>14. /\ peer'[d] = q /\ network' = network \cup out
       /\ \A e \in Device : e # d => peer'[e] = peer[e]
  BY <1>1, <1>4, <1>6 DEF Commit
<1>15. sessions' \ sessions = {x}
  BY <1>1, <1>3
<1>16. StartsOne(d, q.keypairs, {x}, restarts[d])
  BY <1>2, <1>7, <1>13 DEF StartsOne
<1>17. Takes(d, p.keypairs)
  BY <1>1 DEF Takes
<1>18. LastInitiation(p, q, network' \ network, fresh)
  BY <1>8, <1>9, <1>10, <1>14 DEF LastInitiation
<1>19. \A n \in network' \ network : n.from = d /\ n.type = "response"
  BY <1>8, <1>14
<1> QED BY <1>1, <1>12, <1>14, <1>15, <1>16, <1>17, <1>18, <1>19, <1>f DEF Deed, p

LEMMA CompleteDeed ==
  ASSUME HInv, NEW d \in Device, NEW m \in network, m.from # d, NEW addr \in Address,
         NEW ok, ReceiveResponse(d, m, addr, ok)
  PROVE  Deed(d)
<1>r. PICK r : r = CompleteHandshake(d, peer[d], m, addr, ok, now)
  OBVIOUS
<1>x. PICK x : x = Session(d, TRUE, <<m.receiver, m.ephemeral>>)
  OBVIOUS
<1>1. /\ m.type = "response" /\ HandshakeFor(peer[d], m.receiver)
      /\ Commit(d, r) /\ sessions' = sessions \cup {x}
      /\ UNCHANGED <<restarts, delivered>>
  BY <1>r, <1>x DEF ReceiveResponse
<1>2. /\ x.dev = d /\ x.life = restarts[d] /\ x.initiator \in BOOLEAN /\ x.initiator
      /\ x.key = <<m.receiver, m.ephemeral>>
  BY <1>x DEF Session
<1>3. x \notin sessions
  BY <1>r, <1>1, <1>2, CompleteHistory
<1>f. StartOnFresh({x})
  <2>1. \A q \in sessions : q.dev = d => q.key[1] # m.receiver
    BY <1>1 DEF HInv, Past, HandshakeOpen, HandshakeFor
  <2> QED BY <1>2, <2>1 DEF StartOnFresh, StartedOnFresh
<1> DEFINE p == peer[d]
           joined == [p EXCEPT !.handshake.remote = m.ephemeral, !.ip = addr]
           hs == joined.handshake
           q == wireguard_start_session(joined, TRUE, now)
           new == NewKeypair(hs, TRUE, now)
<1>4. /\ p \in Peers /\ m.ephemeral \in Nat /\ p.handshake.local \in Nat
      /\ p.handshake.local = m.receiver /\ now \in Nat /\ peer \in [Device -> Peers]
  BY <1>1 DEF HInv, IInv, Types, World, Sound, MessagesBelow, Below, Ephemerals, HandshakeFor
<1>5. /\ joined \in Peers /\ joined.keypairs = p.keypairs /\ joined.mac1 = p.mac1
      /\ hs.local = m.receiver /\ hs.remote = m.ephemeral
  BY <1>4 DEF Peers, Handshakes
<1>6. \E payload : r = wg_encrypt_and_send(d, q, payload, ok, now)
  BY <1>r DEF CompleteHandshake
<1> HIDE DEF p, joined, q, hs
<1>7. q.mac1 = p.mac1
  BY <1>5 DEF wireguard_start_session, Peers, q
<1>8. /\ q \in Peers /\ q.handshake = NoHandshake
      /\ q.keypairs = add_new_keypair(p.keypairs, new)
  <2>1. q = wireguard_start_session(joined, TRUE, now)
    BY DEF q
  <2>2. /\ q \in Peers /\ q.handshake = NoHandshake
        /\ q.keypairs = add_new_keypair(joined.keypairs, NewKeypair(joined.handshake, TRUE, now))
    BY ONLY <1>4, <1>5, <2>1, StartSession, Zenon
  <2> QED BY ONLY <1>5, <2>2 DEF hs, new
<1>9. /\ new \in Keypairs /\ new.valid /\ new.initiator /\ new.sending_counter = 0
      /\ new.key = <<m.receiver, m.ephemeral>>
  <2>1. hs.local \in Nat /\ hs.remote \in Nat
    BY <1>4, <1>5
  <2>2. new.key = IF TRUE THEN <<hs.local, hs.remote>> ELSE <<hs.remote, hs.local>>
    BY <1>4, <2>1, NewKeypairType
  <2>3. new \in Keypairs /\ new.valid /\ new.initiator = TRUE /\ new.sending_counter = 0
    BY <1>4, <2>1, NewKeypairType
  <2> QED BY <1>5, <2>2, <2>3
<1>10. new.keypair_millis = now
  BY DEF NewKeypair, NoKeypair
<1> HIDE DEF new
<1>11. p.keypairs \in [Slots -> Keypairs]
  BY <1>4 DEF Peers
<1>12. MovesOn(p.keypairs, q.keypairs, {x})
  BY <1>2, <1>8, <1>9, <1>11, AddMoves
<1>13. q.keypairs["curr"] = new
  BY <1>8, <1>9, <1>11, AddNewKeypair
<1>14. Quiet(d, q, r.peer, r.out)
  BY <1>6, <1>8, EncryptQuiet
<1>15. r.peer.mac1 = p.mac1 /\ \A n \in r.out : InLifetime(r.peer.keypairs, n, now)
  <2>1. PICK payload : r = wg_encrypt_and_send(d, q, payload, ok, now)
    BY <1>6
  <2>a. q \in Peers /\ now \in Nat
    BY <1>4, <1>8
  <2>2. r.peer.mac1 = q.mac1 /\ \A n \in r.out : InLifetime(r.peer.keypairs, n, now)
    BY ONLY <2>a, <2>1, EncryptKept
  <2> QED BY <1>7, <2>2
<1>16. r.peer.keypairs["curr"].valid /\ r.peer.keypairs["curr"].key = new.key
  BY <1>4, <1>6, <1>8, <1>9, <1>10, <1>13, EncryptSpares
<1>17. MovesOn(p.keypairs, r.peer.keypairs, {x})
  <2>1. \A s \in Slots : Position[s] \in Nat
    BY DEF Position, Slots
  <2>2. Descends(q.keypairs, r.peer.keypairs)
    BY <1>14 DEF Quiet
  <2> QED BY <1>12, <2>1, <2>2 DEF MovesOn, Descends
<1>18. /\ peer'[d] = r.peer /\ network' = network \cup r.out
       /\ \A e \in Device : e # d => peer'[e] = peer[e]
  BY <1>1, <1>4 DEF Commit
<1>19. sessions' \ sessions = {x}
  BY <1>1, <1>3
<1>20. StartsOne(d, r.peer.keypairs, {x}, restarts[d])
  BY <1>2, <1>9, <1>16 DEF StartsOne
<1>21. Takes(d, p.keypairs)
  BY <1>1 DEF Takes
<1>22. \A n \in network' \ network :
         n.from = d /\ n.type = "data" /\ InLifetime(r.peer.keypairs, n, now)
  BY <1>14, <1>15, <1>18 DEF Quiet, SentOn
<1>23. LastInitiation(p, r.peer, network' \ network, fresh)
  BY <1>8, <1>14, <1>15, <1>22 DEF LastInitiation, Quiet
<1> QED BY <1>1, <1>17, <1>18, <1>19, <1>20, <1>21, <1>22, <1>23, <1>f DEF Deed, p

LEMMA BagGrows ==
  ASSUME NEW D, NEW m, m \notin DOMAIN D
  PROVE  /\ m \in BagToSet(D (+) SetToBag({m})) /\ m \notin BagToSet(D)
         /\ BagToSet(D (+) SetToBag({m})) # BagToSet(D)
<1>1. DOMAIN (D (+) SetToBag({m})) = DOMAIN D \cup {m}
  BY DEF SetToBag, (+)
<1> QED BY <1>1 DEF BagToSet

\* The slots after data has been accepted on one of them.
LEMMA AcceptParts ==
  ASSUME NEW p \in Peers, NEW slot \in Slots, NEW m, m.counter \in Nat, NEW addr,
         NEW interval, NEW t, NEW q, q = AcceptData(p, slot, m, addr, interval, t)
  PROVE  /\ q.mac1 = p.mac1 /\ q.handshake = p.handshake
         /\ MovesOn(p.keypairs, q.keypairs, {})
<1> DEFINE old == p.keypairs
           heard == Hear(old, slot, m.counter)
           kps == keypair_update(heard, slot)
<1>1. old \in [Slots -> Keypairs]
  BY DEF Peers
<1>2. IsHeardOn(old, slot, m.counter, heard)
  BY ONLY <1>1, slot \in Slots, m.counter \in Nat, SlotHeard
<1>3. /\ heard \in [Slots -> Keypairs]
      /\ \A s \in Slots : heard[s].valid = old[s].valid /\ heard[s].key = old[s].key
  BY ONLY <1>2 DEF IsHeardOn
<1>4. q.keypairs = kps /\ q.mac1 = p.mac1 /\ q.handshake = p.handshake
  BY DEF AcceptData, Hear, Peers
<1> HIDE DEF heard
<1>5. \A s \in Slots : kps[s].valid =>
        \E o \in Slots : kps[s] = heard[o] /\ Position[o] <= Position[s]
  BY <1>3, UpdateMoves
<1> HIDE DEF kps, old
<1>6. MovesOn(old, kps, {})
  BY <1>3, <1>5 DEF MovesOn
<1> QED BY <1>4, <1>6 DEF old

LEMMA AcceptDeed ==
  ASSUME HInv, NEW d \in Device, NEW m \in network, m.from # d,
         NEW addr \in Address, NEW answered \in BOOLEAN, NEW ok,
         ReceiveData(d, m, addr, answered, ok)
  PROVE  Deed(d)
<1>1. PICK slot \in SlotsForIndex(peer[d].keypairs, m.receiver) :
        LET q == AcceptData(peer[d], slot, m, addr, keepalive[d], now)
        IN  /\ Authentic(peer[d].keypairs[slot], m)
            /\ ~KeypairDead(peer[d].keypairs[slot], now)
            /\ Commit(d, IF answered THEN wg_encrypt_and_send(d, q, TRUE, ok, now)
                         ELSE [peer |-> q, out |-> {}])
  BY DEF ReceiveData
<1> DEFINE p == peer[d]
           q == AcceptData(p, slot, m, addr, keepalive[d], now)
           r == IF answered THEN wg_encrypt_and_send(d, q, TRUE, ok, now)
                ELSE [peer |-> q, out |-> {}]
<1>2. slot \in Slots /\ p.keypairs[slot].valid /\ m.type = "data"
  BY DEF SlotsForIndex, Slots, HasIndex, ReceiveData
<1>3. Commit(d, r) /\ Authentic(p.keypairs[slot], m) /\ ~KeypairDead(p.keypairs[slot], now)
  BY <1>1
<1>4. /\ World(d, p, network, fresh) /\ fresh \in Ephemerals /\ now \in Nat
      /\ keepalive[d] \in Nat /\ p \in Peers /\ peer \in [Device -> Peers]
      /\ Past(d, p, network, sessions, restarts[d], delivered[d])
  BY DeviceAssumption DEF HInv, IInv, Types
<1> HIDE DEF p
<1>5. m \notin DOMAIN delivered[d]
  BY ONLY <1>2, <1>3, <1>4, m \in network, m.from # d, AcceptedIsNew
<1>6. m.counter \in Nat
  BY <1>2, <1>4 DEF World, MessagesBelow
<1>7. /\ q.mac1 = p.mac1 /\ q.handshake = p.handshake
      /\ MovesOn(p.keypairs, q.keypairs, {})
  BY <1>2, <1>4, <1>6, AcceptParts
<1>8. World(d, q, network, fresh)
  BY <1>2, <1>4, AcceptStep
<1> HIDE DEF q
<1>9. q \in Peers
  BY <1>8 DEF World, Sound
<1>10. /\ Descends(q.keypairs, r.peer.keypairs) /\ r.peer.mac1 = q.mac1
       /\ r.peer.handshake \in {q.handshake, NoHandshake}
       /\ \A n \in r.out : /\ n.type = "data" /\ n.from = d
                           /\ InLifetime(r.peer.keypairs, n, now)
  <2>1. CASE answered
    <3>1. PICK payload : r = wg_encrypt_and_send(d, q, payload, ok, now)
      BY <2>1
    <3> HIDE DEF r
    <3>2. Quiet(d, q, r.peer, r.out)
      BY <1>9, <3>1, EncryptQuiet
    <3>3. r.peer.mac1 = q.mac1 /\ \A n \in r.out : InLifetime(r.peer.keypairs, n, now)
      BY ONLY <1>4, <1>9, <3>1, EncryptKept
    <3> QED BY <3>2, <3>3 DEF Quiet, SentOn
  <2>2. CASE ~answered
    <3>1. r.peer = q /\ r.out = {}
      BY <2>2
    <3> HIDE DEF r
    <3> QED BY <3>1, DescendsRefl
  <2> QED BY <2>1, <2>2
<1> HIDE DEF r
<1>11. /\ peer'[d] = r.peer /\ network' = network \cup r.out
       /\ \A e \in Device : e # d => peer'[e] = peer[e]
  BY <1>3, <1>4 DEF Commit
<1>12. /\ UNCHANGED <<restarts, sessions>>
       /\ delivered' = [delivered EXCEPT ![d] = @ (+) SetToBag({m})]
  BY DEF ReceiveData
<1>13. DOMAIN delivered = Device
  BY DEF HInv, IInv, OnlySentIsDelivered
<1>14. /\ delivered'[d] = delivered[d] (+) SetToBag({m})
       /\ \A e \in Device : e # d => delivered'[e] = delivered[e]
  BY <1>12, <1>13
<1>15. delivered'[d] # delivered[d]
  BY <1>5, <1>14, BagGrows
<1>16. MovesOn(p.keypairs, r.peer.keypairs, {})
  <2>1. \A s \in Slots : Position[s] \in Nat
    BY DEF Position, Slots
  <2> QED BY <1>7, <1>10, <2>1 DEF MovesOn, Descends
<1>17. sessions' \ sessions = {}
  BY <1>12
<1>18. StartsOne(d, r.peer.keypairs, {}, restarts[d])
  BY DEF StartsOne
<1>19. Takes(d, p.keypairs)
  <2>1. now - p.keypairs[slot].keypair_millis < REJECT_AFTER_TIME
    <3>1. p.keypairs[slot] \in Keypairs
      BY <1>2, <1>4 DEF Peers
    <3> QED BY <1>3, <1>4, <3>1, LimitsAssumption DEF KeypairDead, Expired, Keypairs
  <2>2. m.key = p.keypairs[slot].key
    BY <1>3 DEF Authentic
  <2> QED BY <1>2, <1>5, <1>14, <2>1, <2>2 DEF Takes
<1>f. StartOnFresh({})
  BY DEF StartOnFresh
<1>20. LastInitiation(p, r.peer, network' \ network, fresh)
  BY <1>7, <1>10, <1>11 DEF LastInitiation
<1>21. \A n \in network' \ network :
         n.from = d /\ n.type = "data" /\ InLifetime(r.peer.keypairs, n, now)
  BY <1>10, <1>11
<1> QED BY <1>11, <1>12, <1>14, <1>15, <1>16, <1>17, <1>18, <1>19, <1>20, <1>21, <1>f DEF Deed, p

LEMMA DatagramDeed ==
  ASSUME HInv, NEW d \in Device, wg_process_udp_packet(d)
  PROVE  Deed(d)
<1> PICK m \in network, addr \in Address, ok \in SendResults :
      /\ m.from # d
      /\ \/ ReceiveInitiationUnderLoad(d, m, ok)
         \/ ReceiveInitiation(d, m, addr, ok)
         \/ ReceiveResponse(d, m, addr, ok)
         \/ ReceiveCookieReply(d, m, ok)
         \/ ReceiveDataOnDeadKeypair(d, m)
         \/ \E answered \in BOOLEAN : ReceiveData(d, m, addr, answered, ok)
  BY DEF wg_process_udp_packet
<1>0. IInv /\ peer[d] \in Peers /\ now \in Nat
  BY DEF HInv, IInv, Types
<1>1. CASE ReceiveInitiationUnderLoad(d, m, ok)
  BY <1>0, <1>1, UnderLoadDeed
<1>2. CASE ReceiveInitiation(d, m, addr, ok)
  BY <1>2, AnswerDeed
<1>3. CASE ReceiveResponse(d, m, addr, ok)
  BY <1>3, CompleteDeed
<1>4. CASE ReceiveCookieReply(d, m, ok)
  <2> DEFINE q == [peer[d] EXCEPT !.cookie_millis = now, !.mac1 = NoEphemeral]
  <2>1. Initiate(d, q, {}, ok) /\ UNCHANGED <<restarts, delivered, sessions>>
    BY <1>4 DEF ReceiveCookieReply
  <2>2. /\ q \in Peers /\ q.keypairs = peer[d].keypairs /\ q.handshake = peer[d].handshake
        /\ q.greatest_timestamp = peer[d].greatest_timestamp
        /\ q.ip = peer[d].ip /\ q.mac1 = NoEphemeral
    BY <1>0 DEF Peers, NoEphemeral
  <2> HIDE DEF q
  <2>3. Quiet(d, peer[d], q, {}) /\ Kept(d, peer[d], q, {}, now)
    BY <2>2, SameQuiet DEF Kept
  <2> QED BY <1>0, <2>1, <2>2, <2>3, InitiateDeed
<1>5. CASE ReceiveDataOnDeadKeypair(d, m)
  <2>1. PICK slot \in SlotsForIndex(peer[d].keypairs, m.receiver) :
          peer' = [peer EXCEPT ![d].keypairs[slot] = NoKeypair]
    BY <1>5 DEF ReceiveDataOnDeadKeypair
  <2> DEFINE q == [peer[d] EXCEPT !.keypairs[slot] = NoKeypair]
  <2>2. peer' = [peer EXCEPT ![d] = q]
    BY <2>1
  <2>3. slot \in Slots
    BY DEF SlotsForIndex, Slots
  <2>4. /\ q.handshake = peer[d].handshake /\ q.ip = peer[d].ip /\ q.mac1 = peer[d].mac1
        /\ q.greatest_timestamp = peer[d].greatest_timestamp
        /\ q.keypairs = [peer[d].keypairs EXCEPT ![slot] = NoKeypair]
    BY <1>0, <2>3 DEF Peers
  <2>5. \A s \in Slots : q.keypairs[s] \in {peer[d].keypairs[s], NoKeypair}
    BY <1>0, <2>3, <2>4 DEF Peers
  <2> HIDE DEF q
  <2>6. Quiet(d, peer[d], q, {}) /\ Kept(d, peer[d], q, {}, now)
    BY <2>4, <2>5, DestroyDescends DEF Quiet, SentOn, Kept
  <2>7. UNCHANGED <<network, restarts, delivered, sessions>>
    BY <1>5 DEF ReceiveDataOnDeadKeypair
  <2> QED BY <1>0, <2>2, <2>6, <2>7, PeerDeed
<1>6. CASE \E answered \in BOOLEAN : ReceiveData(d, m, addr, answered, ok)
  BY <1>6, AcceptDeed
<1> QED BY <1>1, <1>2, <1>3, <1>4, <1>5, <1>6

LEMMA TimersDeed ==
  ASSUME IInv, NEW d \in Device, wg_run_timers(d)
  PROVE  Deed(d)
<1>1. PICK kept \in SendResults, ok \in SendResults :
        LET r == TimersUpkeep(d, peer[d], connect_ip[d], keepalive[d], kept, now)
        IN  /\ IF ShouldInitiate(r.peer, keepalive[d], now)
               THEN Initiate(d, r.peer, r.out, ok)
               ELSE Commit(d, r) /\ UNCHANGED <<clock, fresh>>
            /\ UNCHANGED <<restarts, delivered, sessions>>
  BY DEF wg_run_timers
<1>2. PICK r : r = TimersUpkeep(d, peer[d], connect_ip[d], keepalive[d], kept, now)
  OBVIOUS
<1>3. /\ Initiate(d, r.peer, r.out, ok) \/ Commit(d, r)
      /\ UNCHANGED <<restarts, delivered, sessions>>
  <2>1. CASE ShouldInitiate(r.peer, keepalive[d], now)
    BY <1>1, <1>2, <2>1
  <2>2. CASE ~ShouldInitiate(r.peer, keepalive[d], now)
    BY <1>1, <1>2, <2>2
  <2> QED BY <2>1, <2>2
<1>4. /\ peer[d] \in Peers /\ now \in Nat /\ fresh \in Ephemerals
      /\ World(d, peer[d], network, fresh)
  BY DEF IInv, Types
<1>5. Quiet(d, peer[d], r.peer, r.out) /\ Kept(d, peer[d], r.peer, r.out, now)
  BY <1>2, <1>4, Configured, TimersQuiet, TimersKept
<1>6. r.peer \in Peers
  <2>1. World(d, r.peer, network \cup r.out, fresh)
    BY <1>2, <1>4, Configured, TimersStep
  <2> QED BY <2>1 DEF World, Sound
<1>7. CASE Initiate(d, r.peer, r.out, ok)
  BY <1>3, <1>5, <1>6, <1>7, InitiateDeed
<1>8. CASE Commit(d, r)
  BY <1>3, <1>5, <1>8, QuietDeed
<1> QED BY <1>3, <1>7, <1>8

LEMMA TxpollDeed ==
  ASSUME IInv, NEW d \in Device, wg_txpoll(d)
  PROVE  Deed(d)
<1>1. PICK ok \in SendResults, payload \in BOOLEAN :
        /\ Commit(d, wg_encrypt_and_send(d, peer[d], payload, ok, now))
        /\ UNCHANGED <<restarts, delivered, sessions>>
  BY DEF wg_txpoll
<1>2. PICK r : r = wg_encrypt_and_send(d, peer[d], payload, ok, now)
  OBVIOUS
<1>3. peer[d] \in Peers /\ now \in Nat
  BY DEF IInv, Types
<1>4. Quiet(d, peer[d], r.peer, r.out)
  BY <1>2, <1>3, EncryptQuiet
<1>5. r.peer.ip = peer[d].ip /\ r.peer.mac1 = peer[d].mac1
      /\ \A m \in r.out : InLifetime(r.peer.keypairs, m, now)
  BY ONLY <1>2, <1>3, EncryptKept
<1>6. Kept(d, peer[d], r.peer, r.out, now)
  BY <1>5 DEF Kept
<1>7. Commit(d, r)
  BY <1>1, <1>2
<1> QED BY <1>1, <1>4, <1>6, <1>7, QuietDeed

LEMMA InterfaceDeed ==
  ASSUME IInv, NEW d \in Device, wg_ifup(d) \/ wg_ifdown(d)
  PROVE  Deed(d)
<1>1. peer[d] \in Peers
  BY DEF IInv
<1>2. CASE wg_ifup(d)
  <2> DEFINE q == IfupPeer(peer[d], connect_ip[d])
  <2>1. /\ peer' = [peer EXCEPT ![d] = q]
        /\ UNCHANGED <<network, restarts, delivered, sessions>>
    BY <1>2 DEF wg_ifup
  <2>2. /\ q.keypairs = peer[d].keypairs /\ q.handshake = peer[d].handshake
        /\ q.greatest_timestamp = peer[d].greatest_timestamp
        /\ q.ip \in {peer[d].ip, connect_ip[d]} /\ q.mac1 = peer[d].mac1
    BY <1>1 DEF IfupPeer, Peers
  <2> HIDE DEF q
  <2>3. Quiet(d, peer[d], q, {}) /\ Kept(d, peer[d], q, {}, now)
    BY <2>2, SameQuiet DEF Kept
  <2> QED BY <2>1, <2>3, PeerDeed
<1>3. CASE wg_ifdown(d)
  <2> DEFINE q == IfdownPeer(peer[d], connect_ip[d])
  <2>1. /\ peer' = [peer EXCEPT ![d] = q]
        /\ UNCHANGED <<network, restarts, delivered, sessions>>
    BY <1>3 DEF wg_ifdown
  <2>2. /\ q.keypairs = EmptySlots /\ q.handshake = NoHandshake
        /\ q.greatest_timestamp = peer[d].greatest_timestamp
        /\ q.ip = connect_ip[d] /\ q.mac1 = NoEphemeral
    BY <1>1 DEF IfdownPeer, Peers
  <2> HIDE DEF q
  <2>3. Descends(peer[d].keypairs, q.keypairs)
    BY <2>2, DestroyDescends DEF EmptySlots
  <2>4. Quiet(d, peer[d], q, {}) /\ Kept(d, peer[d], q, {}, now)
    BY <2>2, <2>3 DEF Quiet, SentOn, Kept
  <2> QED BY <2>1, <2>4, PeerDeed
<1> QED BY <1>2, <1>3

\* Beside the handlers there are only the loss of a device's state and time.
LEMMA StepDeed ==
  ASSUME HInv, [Next]_vars
  PROVE  \/ \E d \in Device : Deed(d) \/ Restart(d)
         \/ UNCHANGED <<peer, network, restarts, delivered, sessions>>
<1>1. IInv
  BY DEF HInv
<1>2. CASE Tick
  BY <1>2 DEF Tick
<1>3. CASE UNCHANGED vars
  BY <1>3 DEF vars
<1> QED BY <1>1, <1>2, <1>3, DatagramDeed, TimersDeed, TxpollDeed, InterfaceDeed DEF Next

-----------------------------------------------------------------------------
(* Action properties.                                                      *)

\* Whoever makes the step, a packet leaves and a packet is accepted only on a
\* key younger than REJECT_AFTER_TIME, with a counter below the limit.
THEOREM KeysUsedAlive == Spec => KeysUsedInTheirLifetime
<1>1. HInv /\ [Next]_vars =>
        [/\ \A m \in network' \ network : m.type = "data" =>
              \E s \in Slots :
                LET kp == peer'[m.from].keypairs[s]
                IN  /\ kp.valid /\ kp.key = m.key
                    /\ now - kp.keypair_millis < REJECT_AFTER_TIME
                    /\ m.counter < REJECT_AFTER_MESSAGES
         /\ \A d \in Device : delivered'[d] # delivered[d] =>
              \E s \in Slots :
                LET kp == peer[d].keypairs[s]
                IN  /\ kp.valid /\ now - kp.keypair_millis < REJECT_AFTER_TIME
                    /\ \E m \in Data :
                         m.key = kp.key /\ delivered'[d] = delivered[d] (+) SetToBag({m})]_vars
  <2> SUFFICES ASSUME HInv, [Next]_vars
               PROVE  /\ \A m \in network' \ network : m.type = "data" =>
                           \E s \in Slots :
                             LET kp == peer'[m.from].keypairs[s]
                             IN  /\ kp.valid /\ kp.key = m.key
                                 /\ now - kp.keypair_millis < REJECT_AFTER_TIME
                                 /\ m.counter < REJECT_AFTER_MESSAGES
                      /\ \A d \in Device : delivered'[d] # delivered[d] =>
                           \E s \in Slots :
                             LET kp == peer[d].keypairs[s]
                             IN  /\ kp.valid
                                 /\ now - kp.keypair_millis < REJECT_AFTER_TIME
                                 /\ \E m \in Data :
                                      /\ m.key = kp.key
                                      /\ delivered'[d] = delivered[d] (+) SetToBag({m})
    OBVIOUS
  <2>1. CASE \E d \in Device : Deed(d)
    <3>1. PICK d \in Device : Deed(d)
      BY <2>1
    <3>2. \A m \in network' \ network :
            m.type = "data" => m.from = d /\ InLifetime(peer'[d].keypairs, m, now)
      BY <3>1 DEF Deed
    <3>3. \A e \in Device : delivered'[e] # delivered[e] => e = d /\ Takes(d, peer[d].keypairs)
      BY <3>1 DEF Deed
    <3>4. ASSUME NEW m \in network' \ network, m.type = "data"
          PROVE  \E s \in Slots :
                   LET kp == peer'[m.from].keypairs[s]
                   IN  /\ kp.valid /\ kp.key = m.key
                       /\ now - kp.keypair_millis < REJECT_AFTER_TIME
                       /\ m.counter < REJECT_AFTER_MESSAGES
      BY <3>2, <3>4 DEF InLifetime
    <3>5. ASSUME NEW e \in Device, delivered'[e] # delivered[e]
          PROVE  \E s \in Slots :
                   LET kp == peer[e].keypairs[s]
                   IN  /\ kp.valid
                       /\ now - kp.keypair_millis < REJECT_AFTER_TIME
                       /\ \E m \in Data :
                            /\ m.key = kp.key
                            /\ delivered'[e] = delivered[e] (+) SetToBag({m})
      <4>1. PICK s \in Slots, m \in network :
              /\ peer[d].keypairs[s].valid
              /\ now - peer[d].keypairs[s].keypair_millis < REJECT_AFTER_TIME
              /\ m.type = "data" /\ m.key = peer[d].keypairs[s].key
              /\ delivered'[d] = delivered[d] (+) SetToBag({m})
        BY <3>3, <3>5 DEF Takes
      <4>2. e = d /\ m \in Data
        BY <3>3, <3>5, <4>1 DEF Data
      <4> QED BY <4>1, <4>2
    <3> QED BY <3>4, <3>5
  <2>2. CASE network' = network /\ delivered' = delivered
    BY <2>2
  <2>3. ASSUME NEW d \in Device, Restart(d)
        PROVE  network' = network /\ delivered' = delivered
    BY <2>3 DEF Restart
  <2> QED BY <2>1, <2>2, <2>3, StepDeed
<1> QED BY <1>1, History, PTL DEF Spec, KeysUsedInTheirLifetime

\* The endpoint moves only to the configured address, or with a message the
\* device has not accepted before (an initiation: not in this life).
THEOREM EndpointMovesForAReason == Spec => EndpointMovesOnFresh
<1>1. HInv /\ [Next]_vars =>
        [\A d \in Device :
           peer'[d].ip # peer[d].ip =>
             \/ peer'[d].ip = connect_ip[d]
             \/ \E m \in BagToSet(delivered'[d]) : m \notin BagToSet(delivered[d])
             \/ \E r \in sessions' \ sessions : r.dev = d /\ StartedOnFresh(r)]_vars
  <2> SUFFICES ASSUME HInv, [Next]_vars, NEW d \in Device, peer'[d].ip # peer[d].ip
               PROVE  \/ peer'[d].ip = connect_ip[d]
                      \/ \E m \in BagToSet(delivered'[d]) : m \notin BagToSet(delivered[d])
                      \/ \E r \in sessions' \ sessions : r.dev = d /\ StartedOnFresh(r)
    OBVIOUS
  <2>1. CASE \E e \in Device : Deed(e)
    <3>1. PICK e \in Device : Deed(e)
      BY <2>1
    <3>2. e = d
      BY <3>1 DEF Deed
    <3>3. /\ Takes(d, peer[d].keypairs) /\ sessions \subseteq sessions'
          /\ \/ peer'[d].ip \in {peer[d].ip, connect_ip[d]}
             \/ delivered'[d] # delivered[d] \/ sessions' # sessions
      BY ONLY <3>1, <3>2 DEF Deed
    <3>4. ASSUME delivered'[d] # delivered[d]
          PROVE  \E m \in BagToSet(delivered'[d]) : m \notin BagToSet(delivered[d])
      <4>1. PICK m : /\ m \notin DOMAIN delivered[d]
                     /\ delivered'[d] = delivered[d] (+) SetToBag({m})
        BY ONLY <3>3, <3>4 DEF Takes
      <4>2. m \in BagToSet(delivered'[d]) /\ m \notin BagToSet(delivered[d])
        BY ONLY <4>1, BagGrows
      <4> QED BY <4>2
    <3>5. ASSUME sessions' # sessions
          PROVE  \E r \in sessions' \ sessions : r.dev = d /\ StartedOnFresh(r)
      <4>1. PICK r : r \in sessions' \ sessions
        BY <3>3, <3>5
      <4>2. /\ StartsOne(d, peer'[d].keypairs, sessions' \ sessions, restarts[d])
            /\ StartOnFresh(sessions' \ sessions)
        BY ONLY <3>1, <3>2 DEF Deed
      <4>3. r.dev = d /\ StartedOnFresh(r)
        BY ONLY <4>1, <4>2 DEF StartsOne, StartOnFresh
      <4> QED BY <4>1, <4>3
    <3> QED BY <3>3, <3>4, <3>5
  <2>2. ASSUME NEW e \in Device, Restart(e)
        PROVE  peer'[d].ip = connect_ip[d]
    <3>1. peer' = [peer EXCEPT ![e] = wireguard_peer_init(connect_ip[e])]
          /\ peer \in [Device -> Peers]
      BY <2>2 DEF Restart, HInv, IInv
    <3>2. wireguard_peer_init(connect_ip[e]).ip = connect_ip[e]
      BY DEF wireguard_peer_init
    <3> QED BY <3>1, <3>2
  <2> QED BY <2>1, <2>2, StepDeed
<1> QED BY <1>1, History, PTL DEF Spec, EndpointMovesOnFresh

\* mac1 belongs to the last initiation, and a handshake has an ephemeral.
LastSent(d, p, N) ==
  /\ p.mac1 # NoEphemeral =>
       \A i \in N : i.type = "initiation" /\ i.from = d => i.ephemeral <= p.mac1
  /\ p.handshake.valid /\ p.handshake.initiator => p.handshake.local # NoEphemeral

CInv == HInv /\ \A d \in Device : LastSent(d, peer[d], network)

LEMMA InitCInv == Init => CInv
<1> SUFFICES ASSUME Init, NEW d \in Device PROVE LastSent(d, peer[d], network)
  BY InitHInv DEF CInv
<1>1. peer[d] = wireguard_peer_init(connect_ip[d])
  BY DEF Init
<1> QED BY <1>1 DEF LastSent, wireguard_peer_init, NoHandshake

LEMMA StepCInv == CInv /\ [Next]_vars => CInv'
<1> SUFFICES ASSUME CInv, [Next]_vars PROVE CInv'
  OBVIOUS
<1>1. HInv /\ HInv'
  BY StepHInv DEF CInv
<1>2. \A e \in Device : LastSent(e, peer[e], network)
  BY DEF CInv
<1>3. ASSUME NEW d \in Device, NEW e \in Device, Deed(d)
      PROVE  LastSent(e, peer'[e], network')
  <2>1. fresh \in Ephemerals /\ MessagesBelow(network, fresh)
    BY <1>1 DEF HInv, IInv, Types, World
  <2>2. \A i \in network' \ network : i.from = d /\ (i.type = "initiation" => i.ephemeral = fresh)
    BY <1>3 DEF Deed
  <2>3. CASE e # d
    <3>1. peer'[e] = peer[e]
      BY <1>3, <2>3 DEF Deed
    <3> QED BY <1>2, <2>2, <2>3, <3>1 DEF LastSent
  <2>4. CASE e = d
    <3>1. LastInitiation(peer[d], peer'[d], network' \ network, fresh)
      BY <1>3 DEF Deed
    <3>2. CASE /\ peer'[d].mac1 \in {peer[d].mac1, NoEphemeral}
               /\ peer'[d].handshake \in {peer[d].handshake, NoHandshake}
               /\ \A m \in network' \ network : m.type # "initiation"
      BY <1>2, <2>4, <3>2 DEF LastSent, NoHandshake
    <3>3. CASE peer'[d].mac1 = fresh /\ peer'[d].handshake.local = fresh
      <4>1. \A i \in network' : i.type = "initiation" => i.ephemeral <= fresh
        BY <2>1, <2>2 DEF MessagesBelow, Below, Ephemerals
      <4>2. fresh # NoEphemeral
        BY <2>1 DEF Ephemerals
      <4> QED BY <2>4, <3>3, <4>1, <4>2 DEF LastSent
    <3> QED BY <3>1, <3>2, <3>3 DEF LastInitiation
  <2> QED BY <2>3, <2>4
<1>4. ASSUME NEW d \in Device, NEW e \in Device, Restart(d)
      PROVE  LastSent(e, peer'[e], network')
  <2>1. /\ network' = network /\ peer \in [Device -> Peers]
        /\ peer' = [peer EXCEPT ![d] = wireguard_peer_init(connect_ip[d])]
    BY <1>1, <1>4 DEF Restart, HInv, IInv
  <2>2. LastSent(d, wireguard_peer_init(connect_ip[d]), network)
    BY DEF LastSent, wireguard_peer_init, NoHandshake
  <2> QED BY <1>2, <2>1, <2>2
<1>5. CASE UNCHANGED <<peer, network>>
  BY <1>1, <1>2, <1>5 DEF CInv
<1>6. CASE \A e \in Device : LastSent(e, peer'[e], network')
  BY <1>1, <1>6 DEF CInv, LastSent
<1> QED BY <1>1, <1>3, <1>4, <1>5, <1>6, StepDeed

\* Only a reply to the last initiation gives the device a cookie.
THEOREM CookieIsForLastInitiation == Spec => CookieAnswersLastInitiation
<1>1. Spec => []CInv
  BY InitCInv, StepCInv, PTL DEF Spec
<1>2. CInv =>
        \A m \in network, d \in Device :
          ReceiveCookieReply(d, m, TRUE) =>
            \A i \in network : i.type = "initiation" /\ i.from = d => i.ephemeral <= m.receiver
  <2> SUFFICES ASSUME CInv, NEW m \in network, NEW d \in Device,
                      ReceiveCookieReply(d, m, TRUE),
                      NEW i \in network, i.type = "initiation", i.from = d
               PROVE  i.ephemeral <= m.receiver
    OBVIOUS
  <2>1. HandshakeFor(peer[d], m.receiver) /\ peer[d].mac1 = m.receiver
    BY DEF ReceiveCookieReply
  <2> QED BY <2>1 DEF CInv, LastSent, HandshakeFor
<1>3. CInv /\ [Next]_vars =>
        [\A m \in network, d \in Device :
           ReceiveCookieReply(d, m, TRUE) =>
             \A i \in network : i.type = "initiation" /\ i.from = d
                                  => i.ephemeral <= m.receiver]_vars
  BY <1>2
<1> QED BY <1>1, <1>3, PTL DEF Spec, CookieAnswersLastInitiation

-----------------------------------------------------------------------------
(* The slots implement the life of a session.                              *)

\* StageOf(r), of a peer record's slots.
StageIn(kps, life, r) ==
  LET In(slot) == kps[slot].valid /\ kps[slot].key = r.key
  IN  IF r.life # life THEN "gone"
      ELSE IF In("next") THEN "next"
      ELSE IF In("curr") THEN "curr"
      ELSE IF In("prev") THEN "prev"
      ELSE "gone"

Holds(kps, life, r, s) == r.life = life /\ kps[s].valid /\ kps[s].key = r.key

LEMMA StageFound ==
  ASSUME NEW kps, NEW life, NEW r
  PROVE  LET stage == StageIn(kps, life, r)
         IN  /\ stage \in {"next", "curr", "prev", "gone"}
             /\ Lifecycle!Rank[stage] \in 1 .. 4
             /\ stage # "gone" => stage \in Slots /\ Holds(kps, life, r, stage)
             /\ stage # "gone" => Lifecycle!Rank[stage] = Position[stage]
             /\ \A s \in Slots : Holds(kps, life, r, s) => Lifecycle!Rank[stage] <= Position[s]
<1>1. PICK stage : stage = StageIn(kps, life, r)
  OBVIOUS
<1>2. /\ stage \in {"next", "curr", "prev", "gone"}
      /\ stage # "gone" => stage \in Slots /\ Holds(kps, life, r, stage)
  BY ONLY <1>1 DEF StageIn, Holds, Slots
<1>3. \A s \in Slots : Holds(kps, life, r, s) =>
        \/ stage = "next"
        \/ stage = "curr" /\ s # "next"
        \/ stage = "prev" /\ s = "prev"
  BY ONLY <1>1 DEF StageIn, Holds, Slots
<1>4. /\ Lifecycle!Rank["next"] = 1 /\ Lifecycle!Rank["curr"] = 2
      /\ Lifecycle!Rank["prev"] = 3 /\ Lifecycle!Rank["gone"] = 4
      /\ Position["next"] = 1 /\ Position["curr"] = 2 /\ Position["prev"] = 3
  BY DEF Lifecycle!Rank, Position
<1>5. \A s \in Slots : Holds(kps, life, r, s) => Lifecycle!Rank[stage] <= Position[s]
  BY ONLY <1>3, <1>4 DEF Slots
<1>6. /\ Lifecycle!Rank[stage] \in 1 .. 4
      /\ stage # "gone" => Lifecycle!Rank[stage] = Position[stage]
  BY ONLY <1>2, <1>4
<1> QED BY ONLY <1>1, <1>2, <1>5, <1>6

\* A stage that is a slot holds the session.
LEMMA StageHolds ==
  ASSUME NEW kps, NEW life, NEW r, NEW s, s = StageIn(kps, life, r), s # "gone"
  PROVE  Holds(kps, life, r, s)
BY StageFound

\* With distinct slots the stage is the one slot that holds the session.
LEMMA StageHeld ==
  ASSUME NEW kps, NEW life, NEW r, NEW s \in Slots, AllDistinct(kps), Holds(kps, life, r, s)
  PROVE  StageIn(kps, life, r) = s
BY DEF StageIn, Holds, AllDistinct, Slots

\* The stages before and after a step.
LEMMA StagesStep ==
  ASSUME HInv, HInv', [Next]_vars
  PROVE  /\ sessions \subseteq sessions'
         /\ \A r \in sessions :
              LET before == StageIn(peer[r.dev].keypairs, restarts[r.dev], r)
                  after == StageIn(peer'[r.dev].keypairs, restarts'[r.dev], r)
              IN  Lifecycle!Rank[before] <= Lifecycle!Rank[after]
         /\ \A r \in sessions' \ sessions :
              /\ StageIn(peer'[r.dev].keypairs, restarts'[r.dev], r)
                   = IF r.initiator THEN "curr" ELSE "next"
              /\ sessions' \ sessions = {r}
<1>1. /\ \A r \in sessions : r.dev \in Device /\ r.life \in Nat /\ r.life <= restarts[r.dev]
      /\ OneStart(sessions') /\ restarts \in [Device -> Nat] /\ peer \in [Device -> Peers]
      /\ \A d \in Device : AllDistinct(peer'[d].keypairs)
  BY DEF HInv, IInv, Types, SessionsBelow, Chronicle, World, Sound
<1>2. ASSUME NEW r \in sessions, restarts'[r.dev] >= restarts[r.dev],
             restarts'[r.dev] \in Nat,
             \A s \in Slots :
               Holds(peer'[r.dev].keypairs, restarts'[r.dev], r, s)
                 /\ restarts'[r.dev] = restarts[r.dev]
               => \E o \in Slots : /\ Position[o] <= Position[s]
                                   /\ Holds(peer[r.dev].keypairs, restarts[r.dev], r, o)
      PROVE  Lifecycle!Rank[StageIn(peer[r.dev].keypairs, restarts[r.dev], r)]
               <= Lifecycle!Rank[StageIn(peer'[r.dev].keypairs, restarts'[r.dev], r)]
  <2>1. PICK before : before = StageIn(peer[r.dev].keypairs, restarts[r.dev], r)
    OBVIOUS
  <2>2. PICK after : after = StageIn(peer'[r.dev].keypairs, restarts'[r.dev], r)
    OBVIOUS
  <2>3. /\ Lifecycle!Rank[before] \in 1 .. 4
        /\ \A s \in Slots : Holds(peer[r.dev].keypairs, restarts[r.dev], r, s)
                              => Lifecycle!Rank[before] <= Position[s]
    BY <2>1, StageFound
  <2>4. /\ after # "gone" =>
             /\ after \in Slots /\ Lifecycle!Rank[after] = Position[after]
             /\ Holds(peer'[r.dev].keypairs, restarts'[r.dev], r, after)
    BY <2>2, StageFound
  <2>5. Lifecycle!Rank["gone"] = 4 /\ \A s \in Slots : Position[s] \in Nat
    BY DEF Lifecycle!Rank, Position, Slots
  <2>6. CASE after = "gone"
    BY <2>1, <2>2, <2>3, <2>5, <2>6
  <2>7. CASE after # "gone"
    <3>1. restarts'[r.dev] = restarts[r.dev]
      BY <1>1, <1>2, <2>4, <2>7 DEF Holds
    <3>2. PICK o \in Slots : /\ Position[o] <= Position[after]
                             /\ Holds(peer[r.dev].keypairs, restarts[r.dev], r, o)
      BY <1>2, <2>4, <2>7, <3>1
    <3> QED BY <2>1, <2>2, <2>3, <2>4, <2>5, <2>7, <3>2
  <2> QED BY <2>6, <2>7
<1>3. ASSUME NEW d \in Device, Deed(d)
      PROVE  /\ sessions \subseteq sessions'
             /\ \A r \in sessions :
                  LET before == StageIn(peer[r.dev].keypairs, restarts[r.dev], r)
                      after == StageIn(peer'[r.dev].keypairs, restarts'[r.dev], r)
                  IN  Lifecycle!Rank[before] <= Lifecycle!Rank[after]
             /\ \A r \in sessions' \ sessions :
                  /\ StageIn(peer'[r.dev].keypairs, restarts'[r.dev], r)
                       = IF r.initiator THEN "curr" ELSE "next"
                  /\ sessions' \ sessions = {r}
  <2>1. /\ restarts' = restarts /\ sessions \subseteq sessions'
        /\ \A e \in Device : e # d => peer'[e] = peer[e]
        /\ MovesOn(peer[d].keypairs, peer'[d].keypairs, sessions' \ sessions)
        /\ StartsOne(d, peer'[d].keypairs, sessions' \ sessions, restarts[d])
    BY <1>3 DEF Deed
  <2>2. \A s \in Slots : Position[s] <= Position[s]
    BY DEF Position, Slots
  <2>3. ASSUME NEW r \in sessions, NEW s \in Slots,
               Holds(peer'[r.dev].keypairs, restarts'[r.dev], r, s)
        PROVE  \E o \in Slots : /\ Position[o] <= Position[s]
                                /\ Holds(peer[r.dev].keypairs, restarts[r.dev], r, o)
    <3>1. CASE r.dev # d
      BY <1>1, <2>1, <2>2, <2>3, <3>1
    <3>2. CASE r.dev = d
      <4>1. ~ \E x \in sessions' \ sessions : x.key = peer'[d].keypairs[s].key
        BY <1>1, <2>1, <2>3, <3>2 DEF Holds, OneStart, StartsOne
      <4> QED BY <2>1, <2>3, <3>2, <4>1 DEF MovesOn, Holds
    <3> QED BY <3>1, <3>2
  <2>4. ASSUME NEW r \in sessions
        PROVE  Lifecycle!Rank[StageIn(peer[r.dev].keypairs, restarts[r.dev], r)]
                 <= Lifecycle!Rank[StageIn(peer'[r.dev].keypairs, restarts'[r.dev], r)]
    <3>1. restarts'[r.dev] >= restarts[r.dev] /\ restarts'[r.dev] \in Nat
      BY <1>1, <2>1
    <3> QED BY <1>2, <2>3, <3>1
  <2>5. ASSUME NEW r \in sessions' \ sessions
        PROVE  /\ StageIn(peer'[r.dev].keypairs, restarts'[r.dev], r)
                    = IF r.initiator THEN "curr" ELSE "next"
               /\ sessions' \ sessions = {r}
    <3>1. PICK slot \in Slots : slot = IF r.initiator THEN "curr" ELSE "next"
      BY DEF Slots
    <3>2. /\ sessions' \ sessions = {r} /\ r.dev = d /\ r.life = restarts'[d]
          /\ peer'[d].keypairs[slot].valid /\ peer'[d].keypairs[slot].key = r.key
      BY <2>1, <3>1 DEF StartsOne
    <3>3. Holds(peer'[r.dev].keypairs, restarts'[r.dev], r, slot)
      BY <3>2 DEF Holds
    <3>4. StageIn(peer'[r.dev].keypairs, restarts'[r.dev], r) = slot
      BY <1>1, <3>2, <3>3, StageHeld
    <3> QED BY <3>1, <3>2, <3>4
  <2> QED BY <2>1, <2>4, <2>5
<1>4. ASSUME NEW d \in Device, Restart(d)
      PROVE  /\ sessions' = sessions
             /\ \A r \in sessions :
                  Lifecycle!Rank[StageIn(peer[r.dev].keypairs, restarts[r.dev], r)]
                    <= Lifecycle!Rank[StageIn(peer'[r.dev].keypairs, restarts'[r.dev], r)]
  <2>1. /\ sessions' = sessions
        /\ restarts' = [restarts EXCEPT ![d] = @ + 1]
        /\ peer' = [peer EXCEPT ![d] = wireguard_peer_init(connect_ip[d])]
    BY <1>4 DEF Restart
  <2>2. ASSUME NEW r \in sessions
        PROVE  Lifecycle!Rank[StageIn(peer[r.dev].keypairs, restarts[r.dev], r)]
                 <= Lifecycle!Rank[StageIn(peer'[r.dev].keypairs, restarts'[r.dev], r)]
    <3>1. restarts'[r.dev] >= restarts[r.dev] /\ restarts'[r.dev] \in Nat
      BY <1>1, <2>1
    <3>2. restarts'[r.dev] = restarts[r.dev] => peer'[r.dev] = peer[r.dev]
      BY <1>1, <2>1
    <3>3. \A s \in Slots : Position[s] <= Position[s]
      BY DEF Position, Slots
    <3> QED BY <1>2, <3>1, <3>2, <3>3
  <2> QED BY <2>1, <2>2
<1>5. CASE UNCHANGED <<peer, restarts, sessions>>
  <2>1. ASSUME NEW r \in sessions
        PROVE  Lifecycle!Rank[StageIn(peer[r.dev].keypairs, restarts[r.dev], r)]
                 <= Lifecycle!Rank[StageIn(peer'[r.dev].keypairs, restarts'[r.dev], r)]
    <3>1. PICK n \in 1 .. 4 :
            n = Lifecycle!Rank[StageIn(peer[r.dev].keypairs, restarts[r.dev], r)]
      BY StageFound
    <3>2. n = Lifecycle!Rank[StageIn(peer'[r.dev].keypairs, restarts'[r.dev], r)]
      BY <1>5, <3>1
    <3> QED BY <3>1, <3>2
  <2> QED BY <1>5, <2>1
<1> QED BY <1>3, <1>4, <1>5, StepDeed

\* The three slots of both peers implement KeyLifecycle: every session goes
\* forward through its stages, never back, and never is in two.
THEOREM SlotsImplementLifecycle == Spec => ImplementsKeyLifecycle
<1>1. Init => Lifecycle!Init
  BY DEF Init, Lifecycle!Init, Lifecycle!Installed
<1>2. HInv /\ HInv' /\ [Next]_vars => [Lifecycle!Next]_([r \in sessions |-> StageOf(r)])
  <2> SUFFICES ASSUME HInv, HInv', [Next]_vars PROVE Lifecycle!Next
    OBVIOUS
  <2>1. \A r : StageOf(r) = StageIn(peer[r.dev].keypairs, restarts[r.dev], r)
    BY DEF StageOf, StageIn
  <2>2. \A r : StageOf(r)' = StageIn(peer'[r.dev].keypairs, restarts'[r.dev], r)
    BY DEF StageOf, StageIn
  <2>3. Lifecycle!Advances
    BY <2>1, <2>2, StagesStep DEF Lifecycle!Advances, Lifecycle!Installed
  <2>4. Lifecycle!InstallsOne
    BY <2>1, <2>2, StagesStep DEF Lifecycle!InstallsOne, Lifecycle!Installed
  <2>5. Lifecycle!OnePerStage
    <3> SUFFICES ASSUME NEW r \in sessions', NEW q \in sessions', r.dev = q.dev,
                        StageOf(r)' = StageOf(q)', StageOf(r)' # "gone"
                 PROVE  r = q
      BY DEF Lifecycle!OnePerStage, Lifecycle!Installed
    <3>1. PICK s : s = StageIn(peer'[r.dev].keypairs, restarts'[r.dev], r)
      OBVIOUS
    <3>2. s # "gone" /\ s = StageIn(peer'[r.dev].keypairs, restarts'[r.dev], q)
      BY <2>2, <3>1
    <3>3. /\ Holds(peer'[r.dev].keypairs, restarts'[r.dev], r, s)
          /\ Holds(peer'[r.dev].keypairs, restarts'[r.dev], q, s)
      BY ONLY <3>1, <3>2, StageHolds
    <3>4. OneStart(sessions')
      BY DEF HInv, Chronicle
    <3> QED BY <3>3, <3>4 DEF Holds, OneStart
  <2> QED BY <2>3, <2>4, <2>5 DEF Lifecycle!Next
<1> QED BY <1>1, <1>2, History, PTL DEF Spec, ImplementsKeyLifecycle, Lifecycle!Spec

=============================================================================
