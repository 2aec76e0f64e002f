------------------------------- MODULE WgSend -------------------------------
(***************************************************************************)
(* Sending, with what psock_sendto() may do in the middle of it: let go of *)
(* net_lock() while it waits for a buffer. The receive task then shares    *)
(* cryptbuf, the slots and the flags of a peer with the work queue, at     *)
(* that one point and no other; a step goes from one such point to the     *)
(* next. WgSession has the same handlers under a lock that is kept.        *)
(*                                                                         *)
(* A packet is known by the order in which it was encrypted, its seal, and *)
(* cryptbuf by the seal that wrote each block of it last. What the socket  *)
(* transmits is what it finds there when it goes on, in the length that    *)
(* its caller gave.                                                        *)
(***************************************************************************)
EXTENDS Naturals, Sequences

CONSTANTS
  Peer,
  SendMayRelease,          \* whether psock_sendto() may let go of net_lock()
  REKEY_AFTER_MESSAGES,
  REJECT_AFTER_MESSAGES,
  MaxBlocks,               \* blocks in cryptbuf; a keep-alive fills one
  MaxSeals,                \* bound: packets encrypted
  MaxKeys                  \* bound: sessions

ASSUME SendAssumption ==
  /\ SendMayRelease \in BOOLEAN
  /\ REKEY_AFTER_MESSAGES \in Nat \ {0}
  /\ REJECT_AFTER_MESSAGES \in Nat
  /\ MaxBlocks \in Nat \ {0}

VARIABLES
  curr,             \* peer -> its current keypair
  send_handshake,   \* peer -> peer->send_handshake
  bifup,            \* priv->bifup
  cryptbuf,         \* block -> the packet that wrote it last
  call,             \* context -> the psock_sendto() it waits in
  fresh,            \* the key of the next session
  sealed,           \* history: the packets encrypted, in order
  wire,             \* history: the datagrams that carry packets
  initiated         \* history: peer -> an initiation was made since curr came

vars == <<curr, send_handshake, bifup, cryptbuf, call, fresh, sealed, wire, initiated>>

Context == {"rx", "work"}
Block == 1 .. MaxBlocks

\* key 0 is a keypair that is not valid; old is an initiator's after
\* REKEY_AFTER_TIME.
Keypair(k) == [key |-> k, counter |-> 0, old |-> FALSE]
NoKeypair == Keypair(0)
Idle == [op |-> "idle"]

-----------------------------------------------------------------------------
(* psock_sendto() and what its callers do when it has returned.            *)

\* The socket copies the datagram when it has a buffer for it; or fails.
Transmit(s) ==
  \/ wire' = wire \cup {[seal |-> s, blocks |-> [i \in 1 .. sealed'[s].len |-> cryptbuf'[i]]]}
  \/ UNCHANGED wire

\* Mutant: only what has gone out asks for a new session.
RequestRekey_WhenSent(p) ==
  send_handshake' = [send_handshake EXCEPT ![p] =
    @ \/ (wire' # wire /\ (curr'[p].old \/ curr'[p].counter >= REKEY_AFTER_MESSAGES))]

\* The end of wg_encrypt_and_send(): keypair points at the slot, whatever that
\* holds by now.
RequestRekey(p) ==
  send_handshake' = [send_handshake EXCEPT ![p] =
    @ \/ curr'[p].old \/ curr'[p].counter >= REKEY_AFTER_MESSAGES]

\* The end of wg_start_handshake(), whether or not the initiation was sent.
Initiated(p) ==
  /\ send_handshake' = [send_handshake EXCEPT ![p] = FALSE]
  /\ initiated' = [initiated EXCEPT ![p] = TRUE]

Waits(c, w) ==
  /\ SendMayRelease
  /\ call' = [call EXCEPT ![c] = w]

-----------------------------------------------------------------------------
(* Encryption into cryptbuf.                                               *)

\* memset(), the header and wireguard_encrypt_packet(), over total_len.
Seal(n) ==
  cryptbuf' = [i \in Block |-> IF i <= n THEN Len(sealed) + 1 ELSE cryptbuf[i]]

NextCounter(p) == curr' = [curr EXCEPT ![p].counter = @ + 1]

CounterSpent(p) == curr[p].counter >= REJECT_AFTER_MESSAGES

\* c encrypts a packet of n blocks for p and sends it: the timers, the answer to
\* a packet of p, or a packet of the stack. Keep-alives go out also when wg0 is
\* down. (That the fallback to prev_keypair is never taken is SlotDiscipline of
\* WgSession.)
wg_encrypt_and_send(c, p, n) ==
  /\ call[c] = Idle
  /\ curr[p].key # 0
  /\ (c = "work" \/ n > 1) => bifup
  /\ \/ /\ CounterSpent(p)
        /\ curr' = [curr EXCEPT ![p] = NoKeypair]
        /\ UNCHANGED <<send_handshake, cryptbuf, call, sealed, wire>>
     \/ /\ ~CounterSpent(p)
        /\ Len(sealed) < MaxSeals
        /\ sealed' = Append(sealed, [key |-> curr[p].key, counter |-> curr[p].counter,
                                     len |-> n])
        /\ Seal(n)
        /\ NextCounter(p)
        /\ \/ Transmit(Len(sealed) + 1) /\ RequestRekey(p) /\ UNCHANGED call
           \/ /\ Waits(c, [op |-> "packet", peer |-> p, seal |-> Len(sealed) + 1])
              /\ UNCHANGED <<send_handshake, wire>>
  /\ UNCHANGED <<bifup, fresh, initiated>>

\* wg_start_handshake(), called by the timers for a request, a missing key or a
\* responder's key that is to be renewed, and for a cookie reply; WgSession has
\* these reasons, here the task may have one at any time. The initiation is built
\* on the stack of the task, and only the task starts handshakes.
wg_start_handshake(p) ==
  /\ call["rx"] = Idle
  /\ \/ Initiated(p) /\ UNCHANGED call
     \/ /\ Waits("rx", [op |-> "initiation", peer |-> p])
        /\ UNCHANGED <<send_handshake, initiated>>
  /\ UNCHANGED <<curr, bifup, cryptbuf, fresh, sealed, wire>>

\* Mutant: the scratch buffer is wiped when its packet has been sent.
ResumePacket_Wipes(c) ==
  /\ call[c].op = "packet"
  /\ UNCHANGED <<curr, sealed>>
  /\ wire' = wire \cup {[seal |-> call[c].seal,
                          blocks |-> [i \in 1 .. sealed[call[c].seal].len |-> cryptbuf[i]]]}
  /\ cryptbuf' = [i \in Block |-> 0]
  /\ RequestRekey(call[c].peer)
  /\ UNCHANGED initiated

\* Mutant: a send that fails takes its counter back.
ResumePacket_CounterBack(c) ==
  /\ call[c].op = "packet"
  /\ curr' = [curr EXCEPT ![call[c].peer].counter = IF @ > 0 THEN @ - 1 ELSE 0]
  /\ UNCHANGED <<cryptbuf, sealed, wire, initiated>>
  /\ RequestRekey(call[c].peer)

\* psock_sendto() has a buffer, or gives up, and wg_encrypt_and_send() goes on.
ResumePacket(c) ==
  /\ call[c].op = "packet"
  /\ UNCHANGED <<curr, cryptbuf, sealed>>
  /\ Transmit(call[c].seal)
  /\ RequestRekey(call[c].peer)
  /\ UNCHANGED initiated

ResumeInitiation(c) ==
  /\ call[c].op = "initiation"
  /\ Initiated(call[c].peer)
  /\ UNCHANGED <<curr, cryptbuf, sealed, wire>>

Resume(c) ==
  /\ ResumePacket(c) \/ ResumeInitiation(c)
  /\ call' = [call EXCEPT ![c] = Idle]
  /\ UNCHANGED <<bifup, fresh>>

-----------------------------------------------------------------------------
(* What happens to a peer meanwhile.                                       *)

\* The task installs a session: wireguard_start_session() as the initiator, or
\* keypair_update() on the first packet as the responder.
NewSession(p) ==
  /\ call["rx"] = Idle
  /\ fresh <= MaxKeys
  /\ curr' = [curr EXCEPT ![p] = Keypair(fresh)]
  /\ initiated' = [initiated EXCEPT ![p] = FALSE]
  /\ fresh' = fresh + 1
  /\ UNCHANGED <<send_handshake, bifup, cryptbuf, call, sealed, wire>>

\* REKEY_AFTER_TIME passes.
KeyAges(p) ==
  /\ curr[p].key # 0
  /\ curr' = [curr EXCEPT ![p].old = TRUE]
  /\ UNCHANGED <<send_handshake, bifup, cryptbuf, call, fresh, sealed, wire, initiated>>

\* A command takes wg0 down, or up, under net_lock(). Peers with a configured
\* endpoint are to be called.
wg_ifdown ==
  /\ bifup' = FALSE
  /\ curr' = [p \in Peer |-> NoKeypair]
  /\ send_handshake' = [p \in Peer |-> FALSE]
  /\ UNCHANGED <<cryptbuf, call, fresh, sealed, wire, initiated>>

wg_ifup ==
  /\ bifup' = TRUE
  /\ \E configured \in SUBSET Peer :
       send_handshake' = [p \in Peer |-> send_handshake[p] \/ p \in configured]
  /\ UNCHANGED <<curr, cryptbuf, call, fresh, sealed, wire, initiated>>

Init ==
  /\ curr = [p \in Peer |-> NoKeypair]
  /\ send_handshake \in [Peer -> BOOLEAN]
  /\ bifup = TRUE
  /\ cryptbuf = [i \in Block |-> 0]
  /\ call = [c \in Context |-> Idle]
  /\ fresh = 1
  /\ sealed = <<>>
  /\ wire = {}
  /\ initiated = [p \in Peer |-> FALSE]

Next ==
  \/ \E c \in Context, p \in Peer, n \in Block : wg_encrypt_and_send(c, p, n)
  \/ \E p \in Peer : wg_start_handshake(p)
  \/ \E c \in Context : Resume(c)
  \/ \E p \in Peer : NewSession(p)
  \/ \E p \in Peer : KeyAges(p)
  \/ wg_ifdown
  \/ wg_ifup

Spec == Init /\ [][Next]_vars

-----------------------------------------------------------------------------

Waiting(c) == call[c].op = "packet"

Packet == [key : Nat \ {0}, counter : 0 .. REJECT_AFTER_MESSAGES - 1, len : Block]

\* Types, with the limit of messages of a key, and that a context waits at most
\* for a packet that it encrypted.
TypeOK ==
  /\ curr \in [Peer -> [key : Nat, counter : 0 .. REJECT_AFTER_MESSAGES, old : BOOLEAN]]
  /\ send_handshake \in [Peer -> BOOLEAN]
  /\ bifup \in BOOLEAN
  /\ cryptbuf \in [Block -> 0 .. Len(sealed)]
  /\ call \in [Context -> {Idle} \cup [op : {"initiation"}, peer : Peer]
                          \cup [op : {"packet"}, peer : Peer, seal : 1 .. Len(sealed)]]
  /\ fresh \in Nat \ {0}
  /\ sealed \in Seq(Packet)
  /\ \A d \in wire :
       /\ d.seal \in 1 .. Len(sealed)
       /\ d.blocks \in [1 .. sealed[d.seal].len -> 0 .. Len(sealed)]
  /\ initiated \in [Peer -> BOOLEAN]

\* A key and a counter encrypt one packet, although another context may take the
\* slot, or fill it with another key, while a packet waits to be sent:
\* wireguard_encrypt_packet() moves the counter before the lock can be lost.
NonceNeverReused ==
  \A i, j \in 1 .. Len(sealed) :
    sealed[i].key = sealed[j].key /\ sealed[i].counter = sealed[j].counter => i = j

\* What was encrypted for this datagram, from its first block to its last.
Whole(d) == \A i \in 1 .. sealed[d.seal].len : d.blocks[i] = d.seal

\* A datagram is damaged only by a packet that was encrypted later, while it
\* waited, and then it begins with that one: the newest of the packets that
\* meet in cryptbuf always goes out as it is, and the others are lost or are
\* copies of it, which the window of the receiver drops.
DamageMeansOverlap == \A d \in wire : Whole(d) \/ d.blocks[1] > d.seal

OnItsWay(p) == \E c \in Context : call[c] # Idle /\ call[c].peer = p

\* A key past REKEY_AFTER_MESSAGES has its replacement asked for, unless an
\* initiation was made in its time or a send is still on its way: although
\* wg_start_handshake() drops the request after its wait, one that was raised
\* meanwhile too, and the check after a wait may look at another key.
RekeyIsAsked ==
  \A p \in Peer :
    curr[p].counter >= REKEY_AFTER_MESSAGES =>
      send_handshake[p] \/ initiated[p] \/ OnItsWay(p)

\* "All uses are serialised by the (recursive) network lock ... so the two never
\* race": a datagram holds the packet that was encrypted for it. True if the lock
\* is kept; otherwise a packet that waits may go out as a copy of a newer one.
PacketsGoOutWhole == \A d \in wire : Whole(d)

=============================================================================
