----------------------------- MODULE WgSession -----------------------------
(***************************************************************************)
(* Two devices running the port, each the other's only peer, and the       *)
(* network between them.                                                   *)
(*                                                                         *)
(* The handlers run under net_lock(), so each is one step: a datagram      *)
(* taken by wg_rx_task() and given to wg_process_udp_packet(), one call of *)
(* wg_run_timers(), one packet of the stack encrypted by wg_txpoll(), the  *)
(* interface going up or down, and the device losing its state.            *)
(*                                                                         *)
(* The network keeps every datagram ever sent: a datagram may be delivered *)
(* late, out of order, again, from another address, or never.              *)
(***************************************************************************)
EXTENDS WgPeer, Bags

CONSTANTS
  Device,          \* the two ends
  connect_ip,      \* Device -> Address \cup {NoAddress}: the configured endpoint
  keepalive,       \* Device -> Nat: keepalive_interval, in ticks
  MaxEphemeral,    \* bound: ephemeral keys generated by both devices together
  MaxTime,         \* bound: the last tick
  MaxRestart,      \* bound: restarts of both devices together
  SendResults,     \* which results of psock_sendto() occur: a set of BOOLEANs
  UnderLoad        \* whether init_count may exceed the load threshold

ASSUME DeviceAssumption ==
  /\ Cardinality(Device) = 2
  /\ connect_ip \in [Device -> Address \cup {NoAddress}]
  /\ keepalive \in [Device -> Nat]
  /\ SendResults \in SUBSET BOOLEAN /\ UnderLoad \in BOOLEAN

VARIABLES
  peer,          \* Device -> its struct wireguard_peer
  bifup,         \* Device -> BOOLEAN: priv->bifup
  clock,         \* Device -> Nat: CLOCK_REALTIME, as wireguard_tai64n_now() reads it
  now,           \* wireguard_sys_now()
  network,       \* the datagrams sent so far
  fresh,         \* the next ephemeral key
  restarts,      \* Device -> Nat: how often it lost its state
  delivered,     \* history: Device -> bag of transport packets accepted
  sessions       \* history: the sessions started

vars == <<peer, bifup, clock, now, network, fresh, restarts, delivered, sessions>>

Other(d) == CHOOSE o \in Device : o # d

Session(d, initiator, key) ==
  [dev |-> d, life |-> restarts[d], initiator |-> initiator, key |-> key]

-----------------------------------------------------------------------------

Init ==
  /\ peer = [d \in Device |-> wireguard_peer_init(connect_ip[d])]
  /\ bifup = [d \in Device |-> FALSE]
  /\ clock = [d \in Device |-> 0]
  /\ now = 1
  /\ network = {}
  /\ fresh = 1
  /\ restarts = [d \in Device |-> 0]
  /\ delivered = [d \in Device |-> EmptyBag]
  /\ sessions = {}

\* The device's peer becomes r.peer and the datagrams r.out leave.
Commit(d, r) ==
  /\ peer' = [peer EXCEPT ![d] = r.peer]
  /\ network' = network \cup r.out

\* A handler used the ephemeral key "fresh".
TakeEphemeral == fresh <= MaxEphemeral /\ fresh' = fresh + 1

\* wg_start_handshake() on the peer record p, with out already transmitted.
Initiate(d, p, out, ok) ==
  LET r == wg_start_handshake(d, p, fresh, clock[d] + 1, ok, now)
  IN  /\ TakeEphemeral
      /\ clock' = [clock EXCEPT ![d] = @ + 1]
      /\ Commit(d, [peer |-> r.peer, out |-> out \cup r.out])

-----------------------------------------------------------------------------
(* wg_process_udp_packet(), one action for each outcome of a datagram.     *)

\* Under load, and mac2 does not prove a cookie of ours: the cookie may have
\* come from an older secret or have been issued to another address.
ReceiveInitiationUnderLoad(d, m, ok) ==
  /\ m.type = "initiation"
  /\ UnderLoad
  /\ Commit(d, [peer |-> peer[d],
                out |-> IF ok THEN {CookieReply(d, m.ephemeral)} ELSE {}])
  /\ UNCHANGED <<bifup, clock, now, fresh, restarts, delivered, sessions>>

ReceiveInitiation(d, m, addr, ok) ==
  /\ m.type = "initiation"
  /\ InitiationAcceptable(peer[d], m, now)
  /\ TakeEphemeral
  /\ Commit(d, AnswerInitiation(d, peer[d], m, addr, fresh, ok, now))
  /\ sessions' = sessions \cup {Session(d, FALSE, <<m.ephemeral, fresh>>)}
  /\ UNCHANGED <<bifup, clock, now, restarts, delivered>>

ReceiveResponse(d, m, addr, ok) ==
  /\ m.type = "response"
  /\ HandshakeFor(peer[d], m.receiver)
  /\ Commit(d, CompleteHandshake(d, peer[d], m, addr, ok, now))
  /\ sessions' = sessions \cup {Session(d, TRUE, <<m.receiver, m.ephemeral>>)}
  /\ UNCHANGED <<bifup, clock, now, fresh, restarts, delivered>>

\* Mutant: any cookie reply is taken while an initiation is unanswered.
ReceiveCookieReply_AnyInitiation(d, m, ok) ==
  /\ m.type = "cookie"
  /\ peer[d].handshake.valid /\ peer[d].handshake.initiator
  /\ Initiate(d, [peer[d] EXCEPT !.cookie_millis = now, !.mac1 = NoEphemeral], {}, ok)
  /\ UNCHANGED <<bifup, now, restarts, delivered, sessions>>

ReceiveCookieReply(d, m, ok) ==
  /\ m.type = "cookie"
  /\ HandshakeFor(peer[d], m.receiver)
  /\ peer[d].mac1 = m.receiver
  /\ Initiate(d, [peer[d] EXCEPT !.cookie_millis = now, !.mac1 = NoEphemeral], {}, ok)
  /\ UNCHANGED <<bifup, now, restarts, delivered, sessions>>

ReceiveDataOnDeadKeypair(d, m) ==
  /\ m.type = "data"
  /\ \E slot \in SlotsForIndex(peer[d].keypairs, m.receiver) :
       /\ KeypairDead(peer[d].keypairs[slot], now)
       /\ peer' = [peer EXCEPT ![d].keypairs[slot] = NoKeypair]
  /\ UNCHANGED <<bifup, clock, now, network, fresh, restarts, delivered, sessions>>

\* Mutant: the endpoint moves as soon as the packet authenticates.
ReceiveData_EndpointFirst(d, m, addr, answered, ok) ==
  /\ m.type = "data"
  /\ \E slot \in SlotsForIndex(peer[d].keypairs, m.receiver) :
       LET kp == peer[d].keypairs[slot]
       IN  /\ ~KeypairDead(kp, now)
           /\ m.key = kp.key
           /\ IF Authentic(kp, m)
              THEN /\ Commit(d, [peer |-> AcceptData(peer[d], slot, m, addr, keepalive[d], now),
                                 out |-> {}])
                   /\ delivered' = [delivered EXCEPT ![d] = @ (+) SetToBag({m})]
              ELSE /\ Commit(d, [peer |-> [peer[d] EXCEPT !.ip = addr], out |-> {}])
                   /\ UNCHANGED delivered
  /\ UNCHANGED <<bifup, clock, now, fresh, restarts, sessions>>

\* The inner packet may draw an immediate answer from the stack
\* (wg_inject_plaintext), if the interface is up.
ReceiveData(d, m, addr, answered, ok) ==
  /\ m.type = "data"
  /\ \E slot \in SlotsForIndex(peer[d].keypairs, m.receiver) :
       LET kp == peer[d].keypairs[slot]
           p == AcceptData(peer[d], slot, m, addr, keepalive[d], now)
       IN  /\ ~KeypairDead(kp, now)
           /\ Authentic(kp, m)
           /\ answered => m.payload /\ bifup[d]
           /\ Commit(d, IF answered
                        THEN wg_encrypt_and_send(d, p, TRUE, ok, now)
                        ELSE [peer |-> p, out |-> {}])
  /\ delivered' = [delivered EXCEPT ![d] = @ (+) SetToBag({m})]
  /\ UNCHANGED <<bifup, clock, now, fresh, restarts, sessions>>

wg_process_udp_packet(d) ==
  \E m \in {n \in network : n.from # d}, addr \in Address, ok \in SendResults :
    \/ ReceiveInitiationUnderLoad(d, m, ok)
    \/ ReceiveInitiation(d, m, addr, ok)
    \/ ReceiveResponse(d, m, addr, ok)
    \/ ReceiveCookieReply(d, m, ok)
    \/ ReceiveDataOnDeadKeypair(d, m)
    \/ \E answered \in BOOLEAN : ReceiveData(d, m, addr, answered, ok)

-----------------------------------------------------------------------------
(* Timers, traffic and the interface.                                      *)

\* The keep-alive and the initiation are two sends, each with its own result.
wg_run_timers(d) ==
  \E kept, ok \in SendResults :
    LET r == TimersUpkeep(d, peer[d], connect_ip[d], keepalive[d], kept, now)
    IN  /\ IF ShouldInitiate(r.peer, keepalive[d], now)
           THEN Initiate(d, r.peer, r.out, ok)
           ELSE Commit(d, r) /\ UNCHANGED <<clock, fresh>>
        /\ UNCHANGED <<bifup, now, restarts, delivered, sessions>>

\* wg_txpoll(): the stack has a packet for the peer.
wg_txpoll(d) ==
  \E ok \in SendResults :
    /\ bifup[d]
    /\ Commit(d, wg_encrypt_and_send(d, peer[d], TRUE, ok, now))
    /\ UNCHANGED <<bifup, clock, now, fresh, restarts, delivered, sessions>>

wg_ifup(d) ==
  /\ ~bifup[d]
  /\ bifup' = [bifup EXCEPT ![d] = TRUE]
  /\ peer' = [peer EXCEPT ![d] = IfupPeer(@, connect_ip[d])]
  /\ UNCHANGED <<clock, now, network, fresh, restarts, delivered, sessions>>

wg_ifdown(d) ==
  /\ bifup[d]
  /\ bifup' = [bifup EXCEPT ![d] = FALSE]
  /\ peer' = [peer EXCEPT ![d] = IfdownPeer(@, connect_ip[d])]
  /\ UNCHANGED <<clock, now, network, fresh, restarts, delivered, sessions>>

\* "wg down" and "wg up", or a reboot: wg_initialize() starts from a zeroed
\* structure, and after a reboot without a battery-backed clock CLOCK_REALTIME
\* starts over.
Restart(d) ==
  /\ restarts[d] < MaxRestart
  /\ restarts' = [restarts EXCEPT ![d] = @ + 1]
  /\ peer' = [peer EXCEPT ![d] = wireguard_peer_init(connect_ip[d])]
  /\ bifup' = [bifup EXCEPT ![d] = FALSE]
  /\ \E c \in {0, clock[d]} : clock' = [clock EXCEPT ![d] = c]
  /\ UNCHANGED <<now, network, fresh, delivered, sessions>>

Tick ==
  /\ now < MaxTime
  /\ now' = now + 1
  /\ UNCHANGED <<peer, bifup, clock, network, fresh, restarts, delivered, sessions>>

Next ==
  \/ \E d \in Device :
       \/ wg_process_udp_packet(d)
       \/ wg_run_timers(d)
       \/ wg_txpoll(d)
       \/ wg_ifup(d)
       \/ wg_ifdown(d)
       \/ Restart(d)
  \/ Tick

Spec == Init /\ [][Next]_vars

-----------------------------------------------------------------------------

TypeOK ==
  /\ peer \in [Device -> Peers]
  /\ bifup \in [Device -> BOOLEAN]
  /\ clock \in [Device -> Nat]
  /\ now \in Nat \ {Never}
  /\ fresh \in Ephemerals
  /\ restarts \in [Device -> Nat]
  /\ \A d \in Device : \A m \in BagToSet(delivered[d]) : m \in network

Data == {m \in network : m.type = "data"}

LiveKeypairs(d) ==
  {peer[d].keypairs[s] : s \in {t \in Slots : peer[d].keypairs[t].valid}}

\* The rotation of add_new_keypair() and keypair_update() keeps the slots in
\* order: the key to be confirmed and the retired one never coexist, and the
\* current key is always confirmed - so the fallback of wg_encrypt_and_send()
\* to the previous key never finds the case it is there for.
SlotDiscipline ==
  \A d \in Device :
    LET kps == peer[d].keypairs
    IN  /\ ~(kps["prev"].valid /\ kps["next"].valid)
        /\ kps["next"].valid => ~kps["next"].initiator /\ ~kps["next"].heard
        /\ kps["curr"].valid => Confirmed(kps["curr"])

\* No two slots of a device hold the same session: a copy left behind by the
\* rotation would carry its own sending_counter.
SlotsDistinct ==
  \A d \in Device : \A s, t \in Slots :
    LET k == peer[d].keypairs
    IN  k[s].valid /\ k[t].valid /\ s # t => k[s].key # k[t].key

\* No nonce is used twice with one key: every packet sent with a key that is
\* still installed has a counter below the one to be used next, and no two
\* packets of a device carry the same key and counter. It fails if any slot is
\* copied, any session started twice, or a counter lost on the way.
NonceNeverReused ==
  /\ \A d \in Device : \A kp \in LiveKeypairs(d), m \in Data :
       m.from = d /\ m.key = kp.key => m.counter < kp.sending_counter
  /\ \A m, n \in Data :
       m.from = n.from /\ m.key = n.key /\ m.counter = n.counter => m = n

\* A transport packet is accepted at most once, however often the network
\* delivers it and whichever slots its keypair has passed through.
DeliveredOnce ==
  \A d \in Device : \A m \in BagToSet(delivered[d]) : delivered[d][m] = 1

\* A responder says nothing on a session before its initiator has used it
\* (wg_encrypt_and_send, last_rx).
ResponderWaitsForInitiator ==
  \A m \in Data : \A r \in sessions :
    r.key = m.key /\ r.dev = m.from /\ ~r.initiator
      => \E n \in Data : n.from # m.from /\ n.key = m.key

\* Whatever handshakes crossed, were repeated or were answered late: a keypair
\* is installed only in the role in which this device started it, and once it
\* is confirmed both ends have started it, from the same two ephemerals. So no
\* device is left sending on a key the other one never had
\* (wireguard_start_session, add_new_keypair, keypair_update).
SessionsAgree ==
  \A d \in Device : \A kp \in LiveKeypairs(d) :
    /\ Session(d, kp.initiator, kp.key) \in sessions
    /\ Confirmed(kp) =>
         \E q \in sessions :
           q.dev # d /\ q.key = kp.key /\ q.initiator = ~kp.initiator

\* An initiation makes at most one session in one life of the responder: the
\* greatest timestamp keeps a replayed initiation out until the state is lost.
InitiationUsedOnce ==
  \A r, q \in sessions :
    /\ ~r.initiator /\ ~q.initiator /\ r.dev = q.dev /\ r.life = q.life
    /\ r.key[1] = q.key[1]
    => r.key = q.key

\* Every packet sent or accepted uses a key younger than REJECT_AFTER_TIME and
\* a counter below REJECT_AFTER_MESSAGES, whichever of the two ends, the
\* timers, the stack or an answer to a packet makes the step
\* (wg_encrypt_and_send, wg_process_data_message, wg_run_timers).
KeysUsedInTheirLifetime ==
  [][/\ \A m \in network' \ network : m.type = "data" =>
          \E s \in Slots :
            LET kp == peer'[m.from].keypairs[s]
            IN  /\ kp.valid /\ kp.key = m.key
                /\ now - kp.keypair_millis < REJECT_AFTER_TIME
                /\ m.counter < REJECT_AFTER_MESSAGES
     /\ \A d \in Device : delivered'[d] # delivered[d] =>
          \E s \in Slots :
            LET kp == peer[d].keypairs[s]
            IN  /\ kp.valid /\ now - kp.keypair_millis < REJECT_AFTER_TIME
                /\ \E m \in Data :
                     m.key = kp.key /\ delivered'[d] = delivered[d] (+) SetToBag({m})]_vars

\* A cookie is taken only for the last initiation the device sent: a reply to
\* an older one, or a second copy of a reply, changes nothing and triggers no
\* new initiation (wireguard_process_cookie_message, handshake_mac1_valid).
CookieAnswersLastInitiation ==
  [][\A m \in network, d \in Device :
       ReceiveCookieReply(d, m, TRUE) =>
         \A i \in network : i.type = "initiation" /\ i.from = d => i.ephemeral <= m.receiver]_vars

\* What started session r had not started one on this device before: a response
\* not in any life of it, an initiation not in this one.
StartedOnFresh(r) ==
  \A q \in sessions :
    q.dev = r.dev /\ q.initiator = r.initiator /\ q.key[1] = r.key[1]
      => ~r.initiator /\ q.life # r.life

\* The endpoint of a peer moves only back to the configured one, or on a message
\* the device had not accepted before: a transport packet or a response it never
\* accepted, an initiation it has not accepted since it started. (After a restart
\* greatest_timestamp is zero, and a recorded initiation moves the endpoint again.)
\* wg_process_data_message() checks the replay window before it touches peer->ip,
\* and the handshake messages are checked before a session starts.
EndpointMovesOnFresh ==
  [][\A d \in Device :
       peer'[d].ip # peer[d].ip =>
         \/ peer'[d].ip = connect_ip[d]
         \/ \E m \in BagToSet(delivered'[d]) : m \notin BagToSet(delivered[d])
         \/ \E r \in sessions' \ sessions : r.dev = d /\ StartedOnFresh(r)]_vars

\* Where the slots of its device have a session that was started once.
StageOf(r) ==
  LET k == peer[r.dev].keypairs
      In(slot) == k[slot].valid /\ k[slot].key = r.key
  IN  IF r.life # restarts[r.dev] THEN "gone"
      ELSE IF In("next") THEN "next"
      ELSE IF In("curr") THEN "curr"
      ELSE IF In("prev") THEN "prev"
      ELSE "gone"

Lifecycle == INSTANCE KeyLifecycle WITH stage <- [r \in sessions |-> StageOf(r)]

\* A key never returns to an earlier slot and never comes back once it has left
\* them, and no slot operation leaves a second copy of it (add_new_keypair,
\* keypair_update, keypair_destroy and the handlers that call them).
ImplementsKeyLifecycle == Lifecycle!Spec


=============================================================================
