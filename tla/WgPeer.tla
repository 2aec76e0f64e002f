------------------------------- MODULE WgPeer -------------------------------
(***************************************************************************)
(* struct wireguard_peer and the functions that change it: the three       *)
(* keypair slots and how sessions rotate through them, the handshake in    *)
(* progress, and the rules for sending on and receiving from a session     *)
(* (wireguard.c, and the handlers of nuttx-wireguardif.c built on it).     *)
(*                                                                         *)
(* Every operator maps a peer record to the record after the C function.   *)
(* The ones that transmit return [peer, out] with the set of datagrams     *)
(* that left.                                                              *)
(*                                                                         *)
(* Cryptography is symbolic. An ephemeral key pair and the 32-bit index    *)
(* drawn with it are one number, fresh each time; the transport keys of a  *)
(* session are the pair <<initiator ephemeral, responder ephemeral>>.      *)
(***************************************************************************)
EXTENDS Integers, FiniteSets

CONSTANTS
  REKEY_AFTER_TIME, REJECT_AFTER_TIME, REKEY_TIMEOUT,  \* in ticks of the model
  COOKIE_SECRET_MAX_AGE,
  INITIATION_INTERVAL,      \* 1000 / MAX_INITIATIONS_PER_SECOND milliseconds
  REKEY_AFTER_MESSAGES, REJECT_AFTER_MESSAGES,
  ReplayWindowSize,         \* WIREGUARD_REPLAY_WORDS * 64
  Address,                  \* outer UDP addresses a datagram can come from
  NoAddress                 \* the zero in_addr_t: no endpoint known

ASSUME LimitsAssumption ==
  /\ REKEY_AFTER_TIME \in Nat /\ REKEY_TIMEOUT \in Nat
  /\ REJECT_AFTER_TIME \in Nat \ {0} /\ REJECT_AFTER_MESSAGES \in Nat \ {0}
  /\ COOKIE_SECRET_MAX_AGE \in Nat /\ INITIATION_INTERVAL \in Nat
  /\ REKEY_AFTER_MESSAGES \in Nat
  /\ ReplayWindowSize \in Nat \ {0}

ASSUME AddressAssumption == NoAddress \notin Address

Replay == INSTANCE ReplaySpec WITH
  CounterLimit <- REJECT_AFTER_MESSAGES + 2, WindowSize <- ReplayWindowSize,
  accepted <- {}, verdict <- {}

\* Zero in a time field means "never"; wireguard_sys_now() never returns it.
Never == 0

\* wireguard_expired(since, span) at time t. The span is a uint32_t: one that
\* the caller's subtraction made negative has wrapped to weeks, which no run
\* of the model reaches.
Expired(since, span, t) == span >= 0 /\ t - since >= span

-----------------------------------------------------------------------------
(* Keypairs and their slots.                                               *)

Slots == {"curr", "prev", "next"}

NoEphemeral == 0
Ephemerals == Nat \ {NoEphemeral}
NoKey == <<NoEphemeral, NoEphemeral>>

\* keypair_destroy() zeroes the structure. sending_valid and receiving_valid
\* always equal valid; heard stands for last_rx # 0, and seen for the replay
\* window, as the set of counters it has accepted.
NoKeypair ==
  [valid |-> FALSE, initiator |-> FALSE, key |-> NoKey, keypair_millis |-> Never,
   sending_counter |-> 0, heard |-> FALSE, seen |-> {}]

Keypairs ==
  [valid : BOOLEAN, initiator : BOOLEAN, key : Nat \X Nat, keypair_millis : Nat,
   sending_counter : Nat, heard : BOOLEAN, seen : SUBSET Nat]

EmptySlots == [s \in Slots |-> NoKeypair]

LocalIndex(kp) == IF kp.initiator THEN kp.key[1] ELSE kp.key[2]
RemoteIndex(kp) == IF kp.initiator THEN kp.key[2] ELSE kp.key[1]

\* replay_counter: the number, counting from one, of the newest packet.
replay_counter(kp) ==
  IF kp.seen = {} THEN 0 ELSE (CHOOSE n \in kp.seen : \A m \in kp.seen : m <= n) + 1

\* Mutant: the retired key survives next to the one waiting to be confirmed.
add_new_keypair_KeepsPrev(kps, new) ==
  IF new.initiator
  THEN IF kps["next"].valid
       THEN [kps EXCEPT !["prev"] = kps["next"], !["next"] = NoKeypair, !["curr"] = new]
       ELSE [kps EXCEPT !["prev"] = kps["curr"], !["curr"] = new]
  ELSE [kps EXCEPT !["next"] = new]

add_new_keypair(kps, new) ==
  IF new.initiator
  THEN IF kps["next"].valid
       THEN [kps EXCEPT !["prev"] = kps["next"], !["next"] = NoKeypair, !["curr"] = new]
       ELSE [kps EXCEPT !["prev"] = kps["curr"], !["curr"] = new]
  ELSE [kps EXCEPT !["next"] = new, !["prev"] = NoKeypair]

\* Mutant: the promoted key is left behind in its old slot.
keypair_update_KeepsNext(kps, slot) ==
  IF slot = "next"
  THEN [kps EXCEPT !["prev"] = kps["curr"], !["curr"] = kps["next"]]
  ELSE kps

\* Mutant: data on the previous key makes it the current one again.
keypair_update_RevivesPrev(kps, slot) ==
  IF slot # "curr"
  THEN [kps EXCEPT !["prev"] = kps["curr"], !["curr"] = kps[slot],
                   !["next"] = NoKeypair]
  ELSE kps

\* Data arrived on a slot: if it was next, the initiator has confirmed it.
keypair_update(kps, slot) ==
  IF slot = "next"
  THEN [kps EXCEPT !["prev"] = kps["curr"], !["curr"] = kps["next"],
                   !["next"] = NoKeypair]
  ELSE kps

\* get_peer_keypair_for_idx(), and peer_lookup_by_receiver() before it.
HasIndex(kps, slot, idx) == kps[slot].valid /\ LocalIndex(kps[slot]) = idx

SlotsForIndex(kps, idx) ==
  IF HasIndex(kps, "curr", idx) THEN {"curr"}
  ELSE IF HasIndex(kps, "next", idx) THEN {"next"}
  ELSE IF HasIndex(kps, "prev", idx) THEN {"prev"}
  ELSE {}

-----------------------------------------------------------------------------
(* The peer, and the datagrams it exchanges.                               *)

NoHandshake == [valid |-> FALSE, initiator |-> FALSE, local |-> NoEphemeral,
                remote |-> NoEphemeral]

Handshakes == [valid : BOOLEAN, initiator : BOOLEAN, local : Nat, remote : Nat]

\* mac1 is the ephemeral of the last initiation sent, whose mac1 a cookie reply
\* must answer; NoEphemeral stands for handshake_mac1_valid = false.
Peers ==
  [keypairs : [Slots -> Keypairs], handshake : Handshakes,
   greatest_timestamp : Nat, last_initiation_rx : Nat, last_initiation_tx : Nat,
   last_tx : Nat, cookie_millis : Nat, mac1 : Nat,
   send_handshake : BOOLEAN, active : BOOLEAN, ip : Address \cup {NoAddress}]

\* Mutant: a first initiation is made due at once by backdating the last one.
wireguard_peer_init_Backdated(connect_ip) ==
  [keypairs |-> EmptySlots, handshake |-> NoHandshake,
   greatest_timestamp |-> 0, last_initiation_rx |-> Never,
   last_initiation_tx |-> Never - REKEY_TIMEOUT, last_tx |-> Never,
   cookie_millis |-> Never, mac1 |-> NoEphemeral, send_handshake |-> FALSE,
   active |-> FALSE, ip |-> connect_ip]

\* wireguard_peer_init() and wg_add_peer(): a zeroed structure and, if one is
\* configured, the endpoint.
wireguard_peer_init(connect_ip) ==
  [keypairs |-> EmptySlots, handshake |-> NoHandshake,
   greatest_timestamp |-> 0, last_initiation_rx |-> Never,
   last_initiation_tx |-> Never, last_tx |-> Never, cookie_millis |-> Never,
   mac1 |-> NoEphemeral, send_handshake |-> FALSE, active |-> FALSE,
   ip |-> connect_ip]

Initiation(d, e, ts, mac2) ==
  [type |-> "initiation", from |-> d, ephemeral |-> e, timestamp |-> ts, mac2 |-> mac2]
Response(d, ei, er) ==
  [type |-> "response", from |-> d, receiver |-> ei, ephemeral |-> er]
CookieReply(d, ei) == [type |-> "cookie", from |-> d, receiver |-> ei]
TransportData(d, kp, payload) ==
  [type |-> "data", from |-> d, key |-> kp.key, receiver |-> RemoteIndex(kp),
   counter |-> kp.sending_counter, payload |-> payload]

\* psock_sendto() with the result ok: nothing leaves when the stack fails. Without
\* an endpoint the code sends to address zero; what the stack answers is ok, and
\* the other device gets nothing either way.
Transmit(p, ok, m) == IF ok /\ p.ip # NoAddress THEN {m} ELSE {}

-----------------------------------------------------------------------------
(* Handshake.                                                              *)

\* Mutant: the handshake stays usable, so its response can be taken again.
wireguard_start_session_KeepsHandshake(p, initiator, t) ==
  LET hs == p.handshake
      key == IF initiator THEN <<hs.local, hs.remote>> ELSE <<hs.remote, hs.local>>
      new == [NoKeypair EXCEPT !.valid = TRUE, !.initiator = initiator, !.key = key,
                               !.keypair_millis = t]
  IN  [p EXCEPT !.keypairs = add_new_keypair(p.keypairs, new)]

\* Mutant: both ends derive the keys in the same order.
wireguard_start_session_OneOrder(p, initiator, t) ==
  LET hs == p.handshake
      new == [NoKeypair EXCEPT !.valid = TRUE, !.initiator = initiator,
                               !.key = <<hs.local, hs.remote>>, !.keypair_millis = t]
  IN  [p EXCEPT !.handshake = NoHandshake,
                !.keypairs = add_new_keypair(p.keypairs, new)]

wireguard_start_session(p, initiator, t) ==
  LET hs == p.handshake
      key == IF initiator THEN <<hs.local, hs.remote>> ELSE <<hs.remote, hs.local>>
      new == [NoKeypair EXCEPT !.valid = TRUE, !.initiator = initiator, !.key = key,
                               !.keypair_millis = t]
  IN  [p EXCEPT !.handshake = NoHandshake,
                !.keypairs = add_new_keypair(p.keypairs, new)]

\* wg_start_handshake() of device d with the fresh ephemeral e.
wg_start_handshake(d, p, e, ts, ok, t) ==
  LET mac2 == p.cookie_millis # Never
                /\ ~Expired(p.cookie_millis, COOKIE_SECRET_MAX_AGE, t)
  IN  [peer |-> [p EXCEPT !.handshake.valid = TRUE, !.handshake.initiator = TRUE,
                          !.handshake.local = e, !.send_handshake = FALSE,
                          !.last_initiation_tx = t, !.mac1 = e],
       out |-> Transmit(p, ok, Initiation(d, e, ts, mac2))]

\* Mutant: only the rate limit is left.
InitiationAcceptable_NoTimestamp(p, m, t) ==
  p.last_initiation_rx = Never \/ t - p.last_initiation_rx >= INITIATION_INTERVAL

\* The two tests of wireguard_process_initiation_message() that a genuine
\* initiation can fail: the timestamp must grow, and not too soon.
InitiationAcceptable(p, m, t) ==
  /\ m.timestamp > p.greatest_timestamp
  /\ p.last_initiation_rx = Never \/ t - p.last_initiation_rx >= INITIATION_INTERVAL

\* An accepted initiation from addr, answered with the fresh ephemeral e:
\* wireguard_process_initiation_message(), then wg_send_handshake_response().
\* It replaces whatever handshake was in progress.
AnswerInitiation(d, p, m, addr, e, ok, t) ==
  LET taken == [p EXCEPT !.last_initiation_rx = t,
                         !.greatest_timestamp = m.timestamp,
                         !.handshake = [valid |-> TRUE, initiator |-> FALSE,
                                        local |-> e, remote |-> m.ephemeral],
                         !.ip = addr]
  IN  [peer |-> wireguard_start_session(taken, FALSE, t),
       out |-> Transmit(taken, ok, Response(d, m.ephemeral, e))]

\* peer_lookup_by_handshake()
HandshakeFor(p, idx) ==
  p.handshake.valid /\ p.handshake.initiator /\ p.handshake.local = idx

-----------------------------------------------------------------------------
(* Transport.                                                              *)

\* A session this end may send on: an initiator always, a responder once the
\* initiator has been heard on it.
Confirmed(kp) == kp.initiator \/ kp.heard

\* wg_encrypt_and_send() falls back to the previous keypair while the current
\* one waits for its first packet.
SendingSlot(kps) ==
  IF kps["curr"].valid /\ ~Confirmed(kps["curr"]) THEN "prev" ELSE "curr"

\* Mutant: without a current key the next one is used, confirmed or not.
wg_encrypt_and_send_UsesNext(d, p, payload, ok, t) ==
  LET slot == IF p.keypairs["curr"].valid THEN "curr" ELSE "next"
      kp == p.keypairs[slot]
  IN  IF ~kp.valid \/ kp.sending_counter >= REJECT_AFTER_MESSAGES
      THEN [peer |-> p, out |-> {}]
      ELSE [peer |-> [p EXCEPT !.keypairs[slot].sending_counter = @ + 1],
            out |-> Transmit(p, ok, TransportData(d, kp, payload))]

\* Mutant: the age of the key is left to wg_run_timers(), which looks at the
\* current key only.
wg_encrypt_and_send_NoAgeLimit(d, p, payload, ok, t) ==
  LET slot == SendingSlot(p.keypairs)
      kp == p.keypairs[slot]
      sent == Transmit(p, ok, TransportData(d, kp, payload))
  IN  IF ~kp.valid \/ ~Confirmed(kp) \/ kp.sending_counter >= REJECT_AFTER_MESSAGES
      THEN [peer |-> p, out |-> {}]
      ELSE [peer |-> [p EXCEPT !.keypairs[slot].sending_counter = @ + 1,
                               !.last_tx = IF ok THEN t ELSE @],
            out |-> sent]

wg_encrypt_and_send(d, p, payload, ok, t) ==
  LET slot == SendingSlot(p.keypairs)
      kp == p.keypairs[slot]
      used == [kp EXCEPT !.sending_counter = @ + 1]
      sent == Transmit(p, ok, TransportData(d, kp, payload))
      rekey == \/ used.sending_counter >= REKEY_AFTER_MESSAGES
               \/ kp.initiator /\ Expired(kp.keypair_millis, REKEY_AFTER_TIME, t)
  IN  IF ~kp.valid \/ ~Confirmed(kp)
      THEN [peer |-> p, out |-> {}]
      ELSE IF Expired(kp.keypair_millis, REJECT_AFTER_TIME, t)
              \/ kp.sending_counter >= REJECT_AFTER_MESSAGES
      THEN [peer |-> [p EXCEPT !.keypairs[slot] = NoKeypair], out |-> {}]
      ELSE [peer |-> [p EXCEPT !.keypairs[slot] = used,
                               !.last_tx = IF ok THEN t ELSE @,
                               !.send_handshake = @ \/ rekey],
            out |-> sent]

\* An accepted response to the handshake in progress:
\* wireguard_process_handshake_response(), wireguard_start_session() and the
\* keep-alive that confirms the session to the responder.
CompleteHandshake(d, p, m, addr, ok, t) ==
  LET joined == [p EXCEPT !.handshake.remote = m.ephemeral, !.ip = addr]
  IN  wg_encrypt_and_send(d, wireguard_start_session(joined, TRUE, t), FALSE, ok, t)

\* wg_process_data_message(), first half: a dead keypair is destroyed before
\* anything else is looked at.
KeypairDead(kp, t) ==
  \/ Expired(kp.keypair_millis, REJECT_AFTER_TIME, t)
  \/ replay_counter(kp) >= REJECT_AFTER_MESSAGES

\* Mutant: authenticated is taken for fresh.
Authentic_NoReplayCheck(kp, m) == m.key = kp.key

\* Second half: the packet authenticates under this keypair and is new.
Authentic(kp, m) == m.key = kp.key /\ Replay!Fresh(m.counter, kp.seen)

\* The code looks at the slot, not at the key, after keypair_update() may have
\* emptied it.
AcceptData(p, slot, m, addr, keepalive, t) ==
  LET heard == [p.keypairs EXCEPT ![slot].heard = TRUE,
                                  ![slot].seen = @ \cup {m.counter}]
      kps == keypair_update(heard, slot)
      kp == kps[slot]
  IN  [p EXCEPT !.ip = addr,
                !.keypairs = kps,
                !.send_handshake =
                   @ \/ (kp.initiator
                         /\ Expired(kp.keypair_millis,
                              REJECT_AFTER_TIME - keepalive - REKEY_TIMEOUT, t))]

-----------------------------------------------------------------------------
(* wg_run_timers(), in the order of its blocks.                            *)

WipeIfAbandoned(p, connect_ip, t) ==
  IF p.keypairs["curr"].valid
     /\ Expired(p.keypairs["curr"].keypair_millis, 3 * REJECT_AFTER_TIME, t)
  THEN [p EXCEPT !.keypairs = EmptySlots, !.ip = connect_ip]
  ELSE p

DropIfExpired(p, t) ==
  LET kp == p.keypairs["curr"]
  IN  IF kp.valid /\ (Expired(kp.keypair_millis, REJECT_AFTER_TIME, t)
                      \/ kp.sending_counter >= REJECT_AFTER_MESSAGES)
      THEN [p EXCEPT !.keypairs["curr"] = NoKeypair]
      ELSE p

KeepaliveIfIdle(d, p, keepalive, ok, t) ==
  IF /\ keepalive > 0
     /\ p.keypairs["curr"].valid \/ p.keypairs["prev"].valid
     /\ Expired(p.last_tx, keepalive, t)
  THEN wg_encrypt_and_send(d, p, FALSE, ok, t)
  ELSE [peer |-> p, out |-> {}]

ShouldInitiate(p, keepalive, t) ==
  LET kp == p.keypairs["curr"]
  IN  /\ p.last_initiation_tx = Never \/ Expired(p.last_initiation_tx, REKEY_TIMEOUT, t)
      /\ \/ p.send_handshake
         \/ kp.valid /\ ~kp.initiator
              /\ Expired(kp.keypair_millis, REJECT_AFTER_TIME - keepalive, t)
         \/ ~kp.valid /\ p.active

\* The blocks before the decision to initiate.
TimersUpkeep(d, p, connect_ip, keepalive, ok, t) ==
  KeepaliveIfIdle(d, DropIfExpired(WipeIfAbandoned(p, connect_ip, t), t),
                  keepalive, ok, t)

-----------------------------------------------------------------------------
(* The interface.                                                          *)

IfupPeer(p, connect_ip) ==
  IF connect_ip = NoAddress THEN p
  ELSE [p EXCEPT !.active = TRUE, !.ip = connect_ip, !.send_handshake = TRUE]

IfdownPeer(p, connect_ip) ==
  [p EXCEPT !.keypairs = EmptySlots, !.handshake = NoHandshake,
            !.mac1 = NoEphemeral, !.active = FALSE, !.send_handshake = FALSE,
            !.ip = connect_ip]

=============================================================================
