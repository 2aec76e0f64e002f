---------------------------- MODULE WgSend_proofs ----------------------------
(***************************************************************************)
(* What survives when psock_sendto() lets go of net_lock(), for any number *)
(* of peers, sessions and packets: nonces stay unique, a datagram is only  *)
(* damaged by a newer one, and a used-up key has its replacement asked     *)
(* for. And what the comment at cryptbuf says, for a lock that is kept.    *)
(***************************************************************************)
EXTENDS WgSend, TLAPS

\* Two peers have no key in common, and a key that is to come has encrypted
\* nothing.
KeysBelow ==
  /\ \A p \in Peer : curr[p].key < fresh
  /\ \A p, q \in Peer : curr[p].key = curr[q].key => p = q \/ curr[p].key = 0
  /\ \A i \in 1 .. Len(sealed) : sealed[i].key < fresh

\* The counter of a keypair is past all that it encrypted.
CounterAhead ==
  \A p \in Peer, i \in 1 .. Len(sealed) :
    sealed[i].key = curr[p].key => sealed[i].counter < curr[p].counter

\* While a packet waits, it is in cryptbuf from end to end or a newer one is at
\* the beginning.
WaitingIntact ==
  \A c \in Context :
    Waiting(c) =>
      \/ \A i \in 1 .. sealed[call[c].seal].len : cryptbuf[i] = call[c].seal
      \/ cryptbuf[1] > call[c].seal

NonceInv == KeysBelow /\ CounterAhead /\ NonceNeverReused
BufferInv == WaitingIntact /\ DamageMeansOverlap
IInv == TypeOK /\ NonceInv /\ BufferInv /\ RekeyIsAsked

Call == {Idle} \cup [op : {"initiation"}, peer : Peer]
               \cup [op : {"packet"}, peer : Peer, seal : 1 .. Len(sealed)]

-----------------------------------------------------------------------------

LEMMA SealedTypes ==
  ASSUME TypeOK
  PROVE  /\ Len(sealed) \in Nat
         /\ \A i \in 1 .. Len(sealed) :
              sealed[i].key \in Nat \ {0} /\ sealed[i].counter \in Nat /\ sealed[i].len \in Block
<1>1. sealed \in Seq(Packet)
  BY DEF TypeOK
<1>2. Len(sealed) \in Nat /\ \A i \in 1 .. Len(sealed) : sealed[i] \in Packet
  BY <1>1
<1> QED BY <1>2, SendAssumption DEF Packet

LEMMA WaitingTypes ==
  ASSUME TypeOK, NEW c \in Context, Waiting(c)
  PROVE  call[c].seal \in 1 .. Len(sealed)
<1>1. call[c] \in Call
  BY DEF TypeOK, Call
<1> QED BY <1>1 DEF Call, Waiting, Idle

LEMMA InitInv == Init => IInv
<1> SUFFICES ASSUME Init PROVE IInv
  OBVIOUS
<1> USE SendAssumption DEF Init
<1>1. TypeOK
  BY DEF TypeOK, NoKeypair, Keypair, Packet, Idle
<1>2. NonceInv
  BY DEF NonceInv, KeysBelow, CounterAhead, NonceNeverReused, NoKeypair, Keypair
<1>3. WaitingIntact /\ DamageMeansOverlap
  BY DEF WaitingIntact, Waiting, Idle, DamageMeansOverlap
<1>4. RekeyIsAsked
  BY DEF RekeyIsAsked, NoKeypair, Keypair
<1> QED BY <1>1, <1>2, <1>3, <1>4 DEF IInv, BufferInv

-----------------------------------------------------------------------------
(* Nonces.                                                                 *)

\* Encrypting with the current keypair of p, which moves its counter.
LEMMA EncryptNonce ==
  ASSUME TypeOK, NonceInv, NEW p \in Peer, NEW n \in Block, curr[p].key # 0,
         sealed' = Append(sealed, [key |-> curr[p].key, counter |-> curr[p].counter,
                                   len |-> n]),
         NextCounter(p), UNCHANGED fresh
  PROVE  NonceInv'
<1> DEFINE new == [key |-> curr[p].key, counter |-> curr[p].counter, len |-> n]
<1>1. curr[p].counter \in Nat /\ \A q \in Peer : curr[q].counter \in Nat /\ curr[q].key \in Nat
  BY SendAssumption DEF TypeOK
<1>2. /\ \A q \in Peer : curr'[q].key = curr[q].key
      /\ \A q \in Peer : q # p => curr'[q] = curr[q]
      /\ curr'[p].counter = curr[p].counter + 1
  BY DEF NextCounter, TypeOK
<1>3. Len(sealed) \in Nat /\ \A i \in 1 .. Len(sealed) : sealed[i].counter \in Nat
  BY SealedTypes
<1>4. /\ Len(sealed') = Len(sealed) + 1
      /\ \A i \in 1 .. Len(sealed) : sealed'[i] = sealed[i]
      /\ sealed'[Len(sealed) + 1] = new
  BY DEF TypeOK
<1>5. \A i \in 1 .. Len(sealed') : i \in 1 .. Len(sealed) \/ i = Len(sealed) + 1
  BY <1>3, <1>4
<1>6. KeysBelow'
  BY <1>2, <1>4, <1>5 DEF NonceInv, KeysBelow
<1>7. CounterAhead'
  <2> SUFFICES ASSUME NEW q \in Peer, NEW i \in 1 .. Len(sealed'), sealed'[i].key = curr'[q].key
               PROVE  sealed'[i].counter < curr'[q].counter
    BY DEF CounterAhead
  <2>1. CASE i \in 1 .. Len(sealed)
    <3>1. sealed'[i] = sealed[i] /\ sealed[i].key = curr[q].key
      BY <1>2, <1>4, <2>1
    <3>2. sealed[i].counter < curr[q].counter
      BY <2>1, <3>1 DEF NonceInv, CounterAhead
    <3>3. curr'[q].counter = curr[q].counter \/ curr'[q].counter = curr[q].counter + 1
      BY <1>2
    <3> QED BY ONLY <1>1, <1>3, <2>1, <3>1, <3>2, <3>3, q \in Peer
  <2>2. CASE i = Len(sealed) + 1
    <3>1. q = p
      BY <1>2, <1>4, <2>2 DEF NonceInv, KeysBelow
    <3> QED BY <1>1, <1>2, <1>4, <2>2, <3>1
  <2> QED BY <1>5, <2>1, <2>2
<1>8. NonceNeverReused'
  <2>1. \A i \in 1 .. Len(sealed) :
          ~(sealed[i].key = curr[p].key /\ sealed[i].counter = curr[p].counter)
    BY <1>1, <1>3 DEF NonceInv, CounterAhead
  <2> SUFFICES ASSUME NEW i \in 1 .. Len(sealed'), NEW j \in 1 .. Len(sealed'),
                      sealed'[i].key = sealed'[j].key, sealed'[i].counter = sealed'[j].counter
               PROVE  i = j
    BY DEF NonceNeverReused
  <2>2. CASE i \in 1 .. Len(sealed) /\ j \in 1 .. Len(sealed)
    BY <1>4, <2>2 DEF NonceInv, NonceNeverReused
  <2>3. CASE i = Len(sealed) + 1 /\ j \in 1 .. Len(sealed)
    BY <1>4, <2>1, <2>3
  <2>4. CASE j = Len(sealed) + 1 /\ i \in 1 .. Len(sealed)
    BY <1>4, <2>1, <2>4
  <2> QED BY <1>5, <2>2, <2>3, <2>4
<1> QED BY <1>6, <1>7, <1>8 DEF NonceInv

\* A keypair that is wiped, installed or grows old.
LEMMA SlotNonce ==
  ASSUME TypeOK, NonceInv, UNCHANGED sealed, fresh' \in Nat, fresh' >= fresh,
         \A p \in Peer :
           \/ curr'[p].key = curr[p].key /\ curr'[p].counter = curr[p].counter
           \/ curr'[p].key = 0
           \/ curr'[p].key = fresh /\ fresh' > fresh /\ \A q \in Peer \ {p} : curr'[q] = curr[q]
  PROVE  NonceInv'
<1>1. fresh \in Nat \ {0} /\ \A p \in Peer : curr[p].key \in Nat
  BY DEF TypeOK
<1>2. \A i \in 1 .. Len(sealed) : sealed[i].key \in Nat \ {0}
  BY SealedTypes
<1>3. KeysBelow'
  BY <1>1, <1>2 DEF NonceInv, KeysBelow
<1>4. CounterAhead'
  BY <1>1, <1>2 DEF NonceInv, KeysBelow, CounterAhead
<1> QED BY <1>3, <1>4 DEF NonceInv, NonceNeverReused

LEMMA NonceStep == IInv /\ [Next]_vars => NonceInv'
<1> SUFFICES ASSUME IInv, [Next]_vars PROVE NonceInv'
  OBVIOUS
<1>1. TypeOK /\ NonceInv
  BY DEF IInv
<1>2. fresh \in Nat \ {0} /\ curr \in [Peer -> [key : Nat, counter : 0 .. REJECT_AFTER_MESSAGES, old : BOOLEAN]]
  BY <1>1 DEF TypeOK
<1>3. CASE UNCHANGED <<curr, sealed, fresh>>
  BY <1>1, <1>2, <1>3, SlotNonce
<1>4. ASSUME NEW c \in Context, NEW p \in Peer, NEW n \in Block, wg_encrypt_and_send(c, p, n)
      PROVE  NonceInv'
  <2>1. CASE CounterSpent(p)
    <3>1. curr' = [curr EXCEPT ![p] = NoKeypair] /\ UNCHANGED <<sealed, fresh>>
      BY <1>4, <2>1 DEF wg_encrypt_and_send
    <3> QED BY <1>1, <1>2, <3>1, SlotNonce DEF NoKeypair, Keypair
  <2>2. CASE ~CounterSpent(p)
    BY <1>1, <1>4, <2>2, EncryptNonce DEF wg_encrypt_and_send
  <2> QED BY <2>1, <2>2
<1>5. ASSUME NEW p \in Peer, NewSession(p)
      PROVE  NonceInv'
  <2>1. /\ curr'[p].key = fresh /\ \A q \in Peer \ {p} : curr'[q] = curr[q]
        /\ fresh' = fresh + 1 /\ UNCHANGED sealed
    BY <1>2, <1>5 DEF NewSession, Keypair
  <2> QED BY <1>1, <1>2, <2>1, SlotNonce
<1>6. ASSUME NEW p \in Peer, KeyAges(p)
      PROVE  NonceInv'
  <2>1. /\ \A q \in Peer : curr'[q].key = curr[q].key /\ curr'[q].counter = curr[q].counter
        /\ UNCHANGED <<sealed, fresh>>
    BY <1>2, <1>6 DEF KeyAges
  <2> QED BY <1>1, <1>2, <2>1, SlotNonce
<1>7. CASE wg_ifdown
  <2>1. (\A q \in Peer : curr'[q].key = 0) /\ UNCHANGED <<sealed, fresh>>
    BY <1>7 DEF wg_ifdown, NoKeypair, Keypair
  <2> QED BY <1>1, <1>2, <2>1, SlotNonce
<1>8. ASSUME NEW p \in Peer, wg_start_handshake(p)
      PROVE  NonceInv'
  BY <1>3, <1>8 DEF wg_start_handshake
<1>9. ASSUME NEW c \in Context, Resume(c)
      PROVE  NonceInv'
  BY <1>3, <1>9 DEF Resume, ResumePacket, ResumeInitiation
<1>10. CASE wg_ifup \/ UNCHANGED vars
  BY <1>3, <1>10 DEF wg_ifup, vars
<1> QED BY <1>4, <1>5, <1>6, <1>7, <1>8, <1>9, <1>10 DEF Next

-----------------------------------------------------------------------------
(* Types.                                                                  *)

\* Encrypting for p, whether c waits then or not.
LEMMA EncryptTypes ==
  ASSUME TypeOK, NEW c \in Context, NEW p \in Peer, NEW n \in Block,
         wg_encrypt_and_send(c, p, n), ~CounterSpent(p)
  PROVE  TypeOK'
<1>1. /\ curr[p].key \in Nat \ {0} /\ curr[p].counter \in 0 .. REJECT_AFTER_MESSAGES - 1
      /\ curr \in [Peer -> [key : Nat, counter : 0 .. REJECT_AFTER_MESSAGES, old : BOOLEAN]]
  BY SendAssumption DEF TypeOK, wg_encrypt_and_send, CounterSpent
<1>2. Len(sealed) \in Nat /\ sealed \in Seq(Packet)
  BY SealedTypes DEF TypeOK
<1>3. PICK s : s = [key |-> curr[p].key, counter |-> curr[p].counter, len |-> n]
  OBVIOUS
<1>4. s \in Packet /\ s.len = n
  BY <1>1, <1>3 DEF Packet
<1>5. sealed' = Append(sealed, s) /\ Seal(n) /\ NextCounter(p)
  BY <1>3 DEF wg_encrypt_and_send
<1>6. /\ sealed' \in Seq(Packet) /\ Len(sealed') = Len(sealed) + 1
      /\ \A i \in 1 .. Len(sealed) : sealed'[i] = sealed[i]
      /\ sealed'[Len(sealed) + 1] = s
  BY <1>2, <1>4, <1>5
<1>7. cryptbuf' \in [Block -> 0 .. Len(sealed')]
  BY <1>2, <1>5, <1>6 DEF Seal, TypeOK, Block
<1>8. curr' \in [Peer -> [key : Nat, counter : 0 .. REJECT_AFTER_MESSAGES, old : BOOLEAN]]
  BY <1>1, <1>5, SendAssumption DEF NextCounter
<1>9. call' \in [Context -> Call']
  <2>1. Call \subseteq Call'
    BY <1>2, <1>6 DEF Call
  <2>2. call \in [Context -> Call]
    BY DEF TypeOK, Call
  <2>3. [op |-> "packet", peer |-> p, seal |-> Len(sealed) + 1] \in Call'
    BY <1>2, <1>6 DEF Call
  <2>4. call' = call \/ Waits(c, [op |-> "packet", peer |-> p, seal |-> Len(sealed) + 1])
    BY DEF wg_encrypt_and_send, CounterSpent
  <2> QED BY <2>1, <2>2, <2>3, <2>4 DEF Waits
<1>10. send_handshake' \in [Peer -> BOOLEAN]
  <2>1. UNCHANGED send_handshake \/ RequestRekey(p)
    BY DEF wg_encrypt_and_send
  <2> QED BY <1>8, <2>1 DEF RequestRekey, TypeOK
<1>11. ASSUME NEW d \in wire'
       PROVE  /\ d.seal \in 1 .. Len(sealed')
              /\ d.blocks \in [1 .. sealed'[d.seal].len -> 0 .. Len(sealed')]
  <2>1. CASE d \in wire
    <3>1. d.seal \in 1 .. Len(sealed) /\ d.blocks \in [1 .. sealed[d.seal].len -> 0 .. Len(sealed)]
      BY <2>1 DEF TypeOK
    <3> QED BY <1>2, <1>6, <3>1
  <2>2. CASE d \notin wire
    <3>1. d = [seal |-> Len(sealed) + 1,
               blocks |-> [i \in 1 .. sealed'[Len(sealed) + 1].len |-> cryptbuf'[i]]]
      BY <1>11, <2>2 DEF wg_encrypt_and_send, CounterSpent, Transmit
    <3> QED BY <1>2, <1>4, <1>6, <1>7, <3>1, SendAssumption DEF Block
  <2> QED BY <2>1, <2>2
<1>12. UNCHANGED <<bifup, fresh, initiated>>
  BY DEF wg_encrypt_and_send
<1> QED
  BY <1>6, <1>7, <1>8, <1>9, <1>10, <1>11, <1>12 DEF TypeOK, Call

\* Going on after a wait.
LEMMA ResumeTypes ==
  ASSUME TypeOK, NEW c \in Context, Resume(c)
  PROVE  TypeOK'
<1>1. call \in [Context -> Call]
  BY DEF TypeOK, Call
<1>2. call[c].peer \in Peer
  BY <1>1 DEF Resume, ResumePacket, ResumeInitiation, Call, Idle
<1>3. call' \in [Context -> Call]
  BY <1>1 DEF Resume, Call
<1>4. /\ UNCHANGED <<curr, cryptbuf, sealed, bifup, fresh>>
      /\ send_handshake' \in [Peer -> BOOLEAN] /\ initiated' \in [Peer -> BOOLEAN]
  BY <1>2 DEF Resume, ResumePacket, ResumeInitiation, RequestRekey, Initiated, TypeOK
<1>5. ASSUME NEW d \in wire'
      PROVE  /\ d.seal \in 1 .. Len(sealed)
             /\ d.blocks \in [1 .. sealed[d.seal].len -> 0 .. Len(sealed)]
  <2>1. CASE d \in wire
    BY <2>1 DEF TypeOK
  <2>2. CASE d \notin wire
    <3>1. call[c].op = "packet"
      BY <1>5, <2>2 DEF Resume, ResumePacket, ResumeInitiation
    <3>2. call[c].seal \in 1 .. Len(sealed)
      BY <1>1, <3>1 DEF Call, Idle
    <3>3. PICK s : s = call[c].seal
      OBVIOUS
    <3>4. Transmit(s)
      BY <3>1, <3>3 DEF Resume, ResumePacket, ResumeInitiation
    <3>5. d = [seal |-> s, blocks |-> [i \in 1 .. sealed[s].len |-> cryptbuf[i]]]
      BY <1>4, <1>5, <2>2, <3>4 DEF Transmit
    <3>6. sealed[s].len \in Block /\ cryptbuf \in [Block -> 0 .. Len(sealed)]
      BY <3>2, <3>3, SealedTypes DEF TypeOK
    <3> QED BY <3>2, <3>3, <3>5, <3>6, SendAssumption DEF Block
  <2> QED BY <2>1, <2>2
<1> QED
  BY <1>3, <1>4, <1>5 DEF TypeOK, Call

LEMMA TypeStep == TypeOK /\ [Next]_vars => TypeOK'
<1> SUFFICES ASSUME TypeOK, [Next]_vars PROVE TypeOK'
  OBVIOUS
<1>1. ASSUME NEW c \in Context, NEW p \in Peer, NEW n \in Block, wg_encrypt_and_send(c, p, n)
      PROVE  TypeOK'
  <2>1. CASE CounterSpent(p)
    <3>1. /\ curr' = [curr EXCEPT ![p] = NoKeypair]
          /\ UNCHANGED <<send_handshake, bifup, cryptbuf, call, fresh, sealed, wire, initiated>>
      BY <1>1, <2>1 DEF wg_encrypt_and_send
    <3>2. curr' \in [Peer -> [key : Nat, counter : 0 .. REJECT_AFTER_MESSAGES, old : BOOLEAN]]
      BY <3>1, SendAssumption DEF TypeOK, NoKeypair, Keypair
    <3> QED BY <3>1, <3>2 DEF TypeOK
  <2> QED BY <1>1, <2>1, EncryptTypes
<1>2. ASSUME NEW p \in Peer, wg_start_handshake(p)
      PROVE  TypeOK'
  <2>1. /\ send_handshake' \in [Peer -> BOOLEAN] /\ initiated' \in [Peer -> BOOLEAN]
        /\ UNCHANGED <<curr, bifup, cryptbuf, fresh, sealed, wire>>
    BY <1>2 DEF wg_start_handshake, Initiated, TypeOK
  <2>2. call' \in [Context -> Call]
    <3>1. call \in [Context -> Call] /\ [op |-> "initiation", peer |-> p] \in Call
      BY DEF TypeOK, Call
    <3>2. call' = call \/ Waits("rx", [op |-> "initiation", peer |-> p])
      BY <1>2 DEF wg_start_handshake
    <3> QED BY <3>1, <3>2 DEF Waits
  <2> QED BY <2>1, <2>2 DEF TypeOK, Call
<1>3. ASSUME NEW c \in Context, Resume(c)
      PROVE  TypeOK'
  BY <1>3, ResumeTypes
<1>4. ASSUME NEW p \in Peer, NewSession(p)
      PROVE  TypeOK'
  <2>1. /\ curr' = [curr EXCEPT ![p] = [key |-> fresh, counter |-> 0, old |-> FALSE]]
        /\ initiated' = [initiated EXCEPT ![p] = FALSE] /\ fresh' = fresh + 1
        /\ UNCHANGED <<send_handshake, bifup, cryptbuf, call, sealed, wire>>
    BY <1>4 DEF NewSession, Keypair
  <2>2. curr' \in [Peer -> [key : Nat, counter : 0 .. REJECT_AFTER_MESSAGES, old : BOOLEAN]]
    <3>1. [key |-> fresh, counter |-> 0, old |-> FALSE]
            \in [key : Nat, counter : 0 .. REJECT_AFTER_MESSAGES, old : BOOLEAN]
      <4>1. fresh \in Nat /\ 0 \in 0 .. REJECT_AFTER_MESSAGES
        BY SendAssumption DEF TypeOK
      <4> QED BY <4>1
    <3> QED BY <2>1, <3>1 DEF TypeOK
  <2>3. initiated' \in [Peer -> BOOLEAN] /\ fresh' \in Nat \ {0}
    BY <2>1 DEF TypeOK
  <2> QED BY <2>1, <2>2, <2>3 DEF TypeOK
<1>5. ASSUME NEW p \in Peer, KeyAges(p)
      PROVE  TypeOK'
  <2>1. curr' \in [Peer -> [key : Nat, counter : 0 .. REJECT_AFTER_MESSAGES, old : BOOLEAN]]
    <3>1. PICK k : k = curr[p]
      OBVIOUS
    <3>2. k \in [key : Nat, counter : 0 .. REJECT_AFTER_MESSAGES, old : BOOLEAN]
      BY ONLY <3>1, TypeOK, p \in Peer DEF TypeOK
    <3>3. PICK a : a = [k EXCEPT !.old = TRUE]
      OBVIOUS
    <3>4. a \in [key : Nat, counter : 0 .. REJECT_AFTER_MESSAGES, old : BOOLEAN]
      BY ONLY <3>2, <3>3
    <3>5. curr' = [curr EXCEPT ![p] = a]
      BY <1>5, <3>1, <3>3 DEF KeyAges
    <3> QED BY ONLY <3>4, <3>5, TypeOK DEF TypeOK
  <2>2. UNCHANGED <<send_handshake, bifup, cryptbuf, call, fresh, sealed, wire, initiated>>
    BY <1>5 DEF KeyAges
  <2> QED BY <2>1, <2>2 DEF TypeOK
<1>6. CASE wg_ifdown
  <2>1. curr' \in [Peer -> [key : Nat, counter : 0 .. REJECT_AFTER_MESSAGES, old : BOOLEAN]]
    BY <1>6, SendAssumption DEF wg_ifdown, NoKeypair, Keypair
  <2>2. /\ send_handshake' \in [Peer -> BOOLEAN] /\ bifup' \in BOOLEAN
        /\ UNCHANGED <<cryptbuf, call, fresh, sealed, wire, initiated>>
    BY <1>6 DEF wg_ifdown
  <2> QED BY <2>1, <2>2 DEF TypeOK
<1>7. CASE wg_ifup
  BY <1>7 DEF wg_ifup, TypeOK
<1>8. CASE UNCHANGED vars
  BY <1>8 DEF vars, TypeOK
<1> QED BY <1>1, <1>2, <1>3, <1>4, <1>5, <1>6, <1>7, <1>8 DEF Next

-----------------------------------------------------------------------------
(* cryptbuf and the wire.                                                  *)

\* Nothing in cryptbuf and nobody who waits for it changes.
LEMMA SameBuffer ==
  ASSUME BufferInv, UNCHANGED <<cryptbuf, sealed, wire>>,
         \A c \in Context : Waiting(c)' => call'[c] = call[c]
  PROVE  BufferInv'
<1>1. WaitingIntact'
  <2> SUFFICES ASSUME NEW c \in Context, Waiting(c)'
               PROVE  \/ \A i \in 1 .. sealed[call[c].seal].len : cryptbuf[i] = call[c].seal
                      \/ cryptbuf[1] > call[c].seal
    BY DEF WaitingIntact
  <2>1. Waiting(c)
    BY DEF Waiting
  <2> QED BY <2>1 DEF BufferInv, WaitingIntact
<1>2. DamageMeansOverlap'
  BY DEF BufferInv, DamageMeansOverlap, Whole
<1> QED BY <1>1, <1>2 DEF BufferInv

\* The packet that is encrypted fills cryptbuf up to its length, and those before
\* it stay what they were.
LEMMA EncryptSeal ==
  ASSUME TypeOK, NEW c \in Context, NEW p \in Peer, NEW n \in Block,
         wg_encrypt_and_send(c, p, n), ~CounterSpent(p), NEW m, m = Len(sealed) + 1
  PROVE  /\ \A i \in 1 .. Len(sealed) : sealed'[i] = sealed[i]
         /\ sealed'[m].len = n /\ m \in Nat /\ \A i \in 1 .. Len(sealed) : m > i
         /\ \A i \in 1 .. n : cryptbuf'[i] = m
<1>1. PICK s : s = [key |-> curr[p].key, counter |-> curr[p].counter, len |-> n]
  OBVIOUS
<1>2. sealed' = Append(sealed, s) /\ Seal(n) /\ s.len = n
  BY <1>1 DEF wg_encrypt_and_send
<1>3. Len(sealed) \in Nat /\ sealed \in Seq(Packet)
  BY SealedTypes DEF TypeOK
<1>4. /\ \A i \in 1 .. Len(sealed) : sealed'[i] = sealed[i]
      /\ sealed'[m].len = n /\ m \in Nat /\ \A i \in 1 .. Len(sealed) : m > i
  BY <1>2, <1>3
<1>5. 1 .. n \subseteq Block
  BY SendAssumption DEF Block
<1> QED BY <1>2, <1>4, <1>5 DEF Seal

LEMMA EncryptWhole ==
  ASSUME TypeOK, NEW c \in Context, NEW p \in Peer, NEW n \in Block,
         wg_encrypt_and_send(c, p, n), ~CounterSpent(p), NEW d \in wire'
  PROVE  Whole(d)' \/ (d \in wire /\ ~Whole(d))
<1>1. PICK m : m = Len(sealed) + 1
  OBVIOUS
<1>2. /\ \A i \in 1 .. Len(sealed) : sealed'[i] = sealed[i]
      /\ sealed'[m].len = n /\ \A i \in 1 .. n : cryptbuf'[i] = m
  BY <1>1, EncryptSeal
<1>3. CASE d \in wire
  <2>1. d.seal \in 1 .. Len(sealed)
    BY <1>3 DEF TypeOK
  <2>2. sealed'[d.seal] = sealed[d.seal]
    BY <1>2, <2>1
  <2>3. Whole(d) => Whole(d)'
    BY <2>2 DEF Whole
  <2> QED BY <1>3, <2>3
<1>4. CASE d \notin wire
  <2>1. d = [seal |-> m, blocks |-> [i \in 1 .. sealed'[m].len |-> cryptbuf'[i]]]
    BY <1>1, <1>4 DEF wg_encrypt_and_send, CounterSpent, Transmit
  <2>2. d.seal = m /\ \A i \in 1 .. n : d.blocks[i] = m
    BY <1>2, <2>1
  <2>3. \A i \in 1 .. sealed'[d.seal].len : d.blocks[i] = d.seal
    BY <1>2, <2>2
  <2> QED BY <2>3 DEF Whole
<1> QED BY <1>3, <1>4

LEMMA EncryptBuffer ==
  ASSUME TypeOK, BufferInv, NEW c \in Context, NEW p \in Peer, NEW n \in Block,
         wg_encrypt_and_send(c, p, n), ~CounterSpent(p)
  PROVE  BufferInv'
<1>1. PICK m : m = Len(sealed) + 1
  OBVIOUS
<1>2. /\ \A i \in 1 .. Len(sealed) : sealed'[i] = sealed[i]
      /\ sealed'[m].len = n /\ m \in Nat /\ \A i \in 1 .. Len(sealed) : m > i
      /\ \A i \in 1 .. n : cryptbuf'[i] = m
  BY <1>1, EncryptSeal
<1>3. 1 \in 1 .. n
  BY SendAssumption DEF Block
<1>4. WaitingIntact'
  <2> SUFFICES ASSUME NEW e \in Context, Waiting(e)'
               PROVE  \/ \A i \in 1 .. sealed'[call'[e].seal].len : cryptbuf'[i] = call'[e].seal
                      \/ cryptbuf'[1] > call'[e].seal
    BY DEF WaitingIntact
  <2>1. CASE call'[e] = call[e]
    <3>1. Waiting(e)
      BY <2>1 DEF Waiting
    <3>2. call[e].seal \in 1 .. Len(sealed)
      BY <3>1, WaitingTypes
    <3> QED BY <1>2, <1>3, <2>1, <3>2
  <2>2. CASE call'[e] = [op |-> "packet", peer |-> p, seal |-> m]
    BY <1>2, <2>2
  <2>3. call'[e] = call[e] \/ call'[e] = [op |-> "packet", peer |-> p, seal |-> m]
    BY <1>1 DEF wg_encrypt_and_send, CounterSpent, Waits, TypeOK
  <2> QED BY <2>1, <2>2, <2>3
<1>5. DamageMeansOverlap'
  BY EncryptWhole DEF BufferInv, DamageMeansOverlap
<1> QED BY <1>4, <1>5 DEF BufferInv

LEMMA ResumeBuffer ==
  ASSUME TypeOK, BufferInv, NEW c \in Context, Resume(c)
  PROVE  BufferInv'
<1>1. UNCHANGED <<cryptbuf, sealed>> /\ call' = [call EXCEPT ![c] = Idle]
  BY DEF Resume, ResumePacket, ResumeInitiation
<1>2. \A e \in Context : Waiting(e)' => call'[e] = call[e]
  BY <1>1 DEF Waiting, Idle, TypeOK
<1>3. CASE UNCHANGED wire
  BY <1>1, <1>2, <1>3, SameBuffer
<1>4. CASE ~UNCHANGED wire
  <2>1. call[c].op = "packet"
    BY <1>4 DEF Resume, ResumePacket, ResumeInitiation
  <2>2. PICK s : s = call[c].seal
    OBVIOUS
  <2>3. wire' = wire \cup {[seal |-> s, blocks |-> [i \in 1 .. sealed[s].len |-> cryptbuf[i]]]}
    BY <1>1, <1>4, <2>1, <2>2 DEF Resume, ResumePacket, ResumeInitiation, Transmit
  <2>4. (\A i \in 1 .. sealed[s].len : cryptbuf[i] = s) \/ cryptbuf[1] > s
    BY <2>1, <2>2 DEF BufferInv, WaitingIntact, Waiting
  <2>5. sealed[s].len \in Block
    BY <2>1, <2>2, SealedTypes, WaitingTypes DEF Waiting
  <2>6. 1 \in 1 .. sealed[s].len
    BY <2>5, SendAssumption DEF Block
  <2>7. DamageMeansOverlap'
    <3> SUFFICES ASSUME NEW d \in wire'
                 PROVE  Whole(d)' \/ d.blocks[1] > d.seal
      BY DEF DamageMeansOverlap
    <3>1. CASE d \in wire
      BY <1>1, <3>1 DEF BufferInv, DamageMeansOverlap, Whole
    <3>2. CASE d = [seal |-> s, blocks |-> [i \in 1 .. sealed[s].len |-> cryptbuf[i]]]
      BY <1>1, <2>4, <2>6, <3>2 DEF Whole
    <3> QED BY <2>3, <3>1, <3>2
  <2>8. WaitingIntact'
    <3> SUFFICES ASSUME NEW e \in Context, Waiting(e)'
                 PROVE  \/ \A i \in 1 .. sealed[call[e].seal].len : cryptbuf[i] = call[e].seal
                        \/ cryptbuf[1] > call[e].seal
      BY <1>1, <1>2 DEF WaitingIntact
    <3>1. Waiting(e)
      BY <1>2 DEF Waiting
    <3> QED BY <3>1 DEF BufferInv, WaitingIntact
  <2> QED BY <2>7, <2>8 DEF BufferInv
<1> QED BY <1>3, <1>4

LEMMA BufferStep == IInv /\ [Next]_vars => BufferInv'
<1> SUFFICES ASSUME IInv, [Next]_vars PROVE BufferInv'
  OBVIOUS
<1>1. TypeOK /\ BufferInv
  BY DEF IInv
<1>2. ASSUME NEW c \in Context, NEW p \in Peer, NEW n \in Block, wg_encrypt_and_send(c, p, n)
      PROVE  BufferInv'
  <2>1. CASE CounterSpent(p)
    BY <1>1, <1>2, <2>1, SameBuffer DEF wg_encrypt_and_send
  <2> QED BY <1>1, <1>2, <2>1, EncryptBuffer
<1>3. ASSUME NEW c \in Context, Resume(c)
      PROVE  BufferInv'
  BY <1>1, <1>3, ResumeBuffer
<1>4. ASSUME NEW p \in Peer, wg_start_handshake(p)
      PROVE  BufferInv'
  <2>1. \A c \in Context : Waiting(c)' => call'[c] = call[c]
    BY <1>1, <1>4 DEF wg_start_handshake, Waits, Waiting, TypeOK
  <2> QED BY <1>1, <1>4, <2>1, SameBuffer DEF wg_start_handshake
<1>5. CASE UNCHANGED <<cryptbuf, sealed, wire, call>>
  BY <1>1, <1>5, SameBuffer
<1>6. ASSUME NEW p \in Peer, NewSession(p) \/ KeyAges(p)
      PROVE  BufferInv'
  BY <1>5, <1>6 DEF NewSession, KeyAges
<1>7. CASE wg_ifdown \/ wg_ifup \/ UNCHANGED vars
  BY <1>5, <1>7 DEF wg_ifdown, wg_ifup, vars
<1> QED BY <1>2, <1>3, <1>4, <1>6, <1>7 DEF Next

-----------------------------------------------------------------------------
(* The request for a new session.                                          *)

\* p is as it was, or has too few messages to need anything.
LEMMA RekeyKept ==
  ASSUME RekeyIsAsked,
         \A p \in Peer :
           curr'[p].counter >= REKEY_AFTER_MESSAGES =>
             \/ send_handshake'[p] \/ initiated'[p] \/ OnItsWay(p)'
             \/ /\ curr[p].counter >= REKEY_AFTER_MESSAGES
                /\ send_handshake[p] => send_handshake'[p]
                /\ initiated[p] => initiated'[p]
                /\ OnItsWay(p) => OnItsWay(p)'
  PROVE  RekeyIsAsked'
BY DEF RekeyIsAsked, OnItsWay

LEMMA RekeyStep == IInv /\ [Next]_vars => RekeyIsAsked'
<1> SUFFICES ASSUME IInv, [Next]_vars PROVE RekeyIsAsked'
  OBVIOUS
<1>1. TypeOK /\ RekeyIsAsked
  BY DEF IInv
<1>2. /\ curr \in [Peer -> [key : Nat, counter : 0 .. REJECT_AFTER_MESSAGES, old : BOOLEAN]]
      /\ send_handshake \in [Peer -> BOOLEAN] /\ initiated \in [Peer -> BOOLEAN]
      /\ call \in [Context -> Call]
  BY <1>1 DEF TypeOK, Call
<1>3. ~(0 >= REKEY_AFTER_MESSAGES)
  BY SendAssumption
<1>4. ASSUME NEW c \in Context, NEW p \in Peer, NEW n \in Block, wg_encrypt_and_send(c, p, n)
      PROVE  RekeyIsAsked'
  <2>1. CASE CounterSpent(p)
    <3>1. /\ curr' = [curr EXCEPT ![p] = NoKeypair]
          /\ UNCHANGED <<send_handshake, initiated, call>>
      BY <1>4, <2>1 DEF wg_encrypt_and_send
    <3>2. \A q \in Peer : curr'[q].counter = 0 \/ curr'[q] = curr[q]
      BY <1>2, <3>1 DEF NoKeypair, Keypair
    <3>3. \A q \in Peer : OnItsWay(q) => OnItsWay(q)'
      BY <3>1 DEF OnItsWay
    <3> QED BY <1>1, <1>3, <3>1, <3>2, <3>3, RekeyKept
  <2>2. CASE ~CounterSpent(p)
    <3>1. /\ call[c] = Idle /\ NextCounter(p) /\ UNCHANGED initiated
          /\ \/ RequestRekey(p) /\ UNCHANGED call
             \/ /\ Waits(c, [op |-> "packet", peer |-> p, seal |-> Len(sealed) + 1])
                /\ UNCHANGED send_handshake
      BY <1>4, <2>2 DEF wg_encrypt_and_send
    <3>2. \A q \in Peer : q # p => curr'[q] = curr[q]
      BY <1>2, <3>1 DEF NextCounter
    <3>3. \A q \in Peer : OnItsWay(q) => OnItsWay(q)'
      BY <1>2, <3>1 DEF OnItsWay, Waits
    <3>4. CASE RequestRekey(p)
      <4>1. /\ \A q \in Peer : send_handshake[q] => send_handshake'[q]
            /\ curr'[p].counter >= REKEY_AFTER_MESSAGES => send_handshake'[p]
        BY <1>2, <3>4 DEF RequestRekey
      <4> QED BY <1>1, <3>1, <3>2, <3>3, <4>1, RekeyKept
    <3>5. CASE Waits(c, [op |-> "packet", peer |-> p, seal |-> Len(sealed) + 1])
                 /\ UNCHANGED send_handshake
      <4>1. OnItsWay(p)'
        BY <1>2, <3>5 DEF OnItsWay, Waits, Idle
      <4> QED BY <1>1, <3>1, <3>2, <3>3, <3>5, <4>1, RekeyKept
    <3> QED BY <3>1, <3>4, <3>5
  <2> QED BY <2>1, <2>2
<1>5. ASSUME NEW p \in Peer, wg_start_handshake(p)
      PROVE  RekeyIsAsked'
  <2>1. UNCHANGED curr /\ call["rx"] = Idle
    BY <1>5 DEF wg_start_handshake
  <2>2. \A q \in Peer : OnItsWay(q) => OnItsWay(q)'
    BY <1>2, <1>5 DEF wg_start_handshake, OnItsWay, Waits
  <2>3. \A q \in Peer : initiated[q] => initiated'[q]
    BY <1>2, <1>5 DEF wg_start_handshake, Initiated
  <2>4. \A q \in Peer : send_handshake[q] => send_handshake'[q] \/ initiated'[q]
    BY <1>2, <1>5 DEF wg_start_handshake, Initiated
  <2> QED BY <1>1, <2>1, <2>2, <2>3, <2>4, RekeyKept
<1>6. ASSUME NEW c \in Context, Resume(c)
      PROVE  RekeyIsAsked'
  <2>1. PICK p \in Peer : p = call[c].peer
    BY <1>2, <1>6 DEF Resume, ResumePacket, ResumeInitiation, Call, Idle
  <2>2. UNCHANGED curr /\ call' = [call EXCEPT ![c] = Idle]
    BY <1>6 DEF Resume, ResumePacket, ResumeInitiation
  <2>3. \A q \in Peer : q # p /\ OnItsWay(q) => OnItsWay(q)'
    BY <1>2, <2>1, <2>2 DEF OnItsWay
  <2>4. (RequestRekey(p) /\ UNCHANGED initiated) \/ Initiated(p)
    BY <1>6, <2>1 DEF Resume, ResumePacket, ResumeInitiation
  <2>5. /\ \A q \in Peer : initiated[q] => initiated'[q]
        /\ \A q \in Peer : q # p => send_handshake'[q] = send_handshake[q]
        /\ curr'[p].counter >= REKEY_AFTER_MESSAGES => send_handshake'[p] \/ initiated'[p]
    BY <1>2, <2>4 DEF RequestRekey, Initiated
  <2> QED BY <1>1, <2>2, <2>3, <2>5, RekeyKept
<1>7. ASSUME NEW p \in Peer, NewSession(p)
      PROVE  RekeyIsAsked'
  <2>1. /\ curr'[p].counter = 0 /\ \A q \in Peer : q # p => curr'[q] = curr[q]
        /\ \A q \in Peer : q # p => initiated'[q] = initiated[q]
        /\ UNCHANGED <<send_handshake, call>>
    BY <1>2, <1>7 DEF NewSession, Keypair
  <2>2. \A q \in Peer : OnItsWay(q) => OnItsWay(q)'
    BY <2>1 DEF OnItsWay
  <2> QED BY <1>1, <1>3, <2>1, <2>2, RekeyKept
<1>8. ASSUME NEW p \in Peer, KeyAges(p)
      PROVE  RekeyIsAsked'
  <2>1. /\ \A q \in Peer : curr'[q].counter = curr[q].counter
        /\ UNCHANGED <<send_handshake, initiated, call>>
    BY <1>2, <1>8 DEF KeyAges
  <2> QED BY <1>1, <2>1 DEF RekeyIsAsked, OnItsWay
<1>9. CASE wg_ifdown
  <2>1. \A q \in Peer : curr'[q].counter = 0
    BY <1>9 DEF wg_ifdown, NoKeypair, Keypair
  <2> QED BY <1>3, <2>1 DEF RekeyIsAsked
<1>10. CASE wg_ifup
  <2>1. UNCHANGED <<curr, initiated, call>>
    BY <1>10 DEF wg_ifup
  <2>2. \A q \in Peer : send_handshake[q] => send_handshake'[q]
    BY <1>10 DEF wg_ifup
  <2>3. \A q \in Peer : OnItsWay(q) => OnItsWay(q)'
    BY <2>1 DEF OnItsWay
  <2> QED BY <1>1, <2>1, <2>2, <2>3, RekeyKept
<1>11. CASE UNCHANGED vars
  BY <1>1, <1>11 DEF vars, RekeyIsAsked, OnItsWay
<1> QED BY <1>4, <1>5, <1>6, <1>7, <1>8, <1>9, <1>10, <1>11 DEF Next

-----------------------------------------------------------------------------
(* The theorems.                                                           *)

LEMMA Invariance == Spec => []IInv
<1>1. IInv /\ [Next]_vars => IInv'
  BY TypeStep, NonceStep, BufferStep, RekeyStep DEF IInv
<1> QED BY <1>1, InitInv, PTL DEF Spec

\* The types, and with them the limit of messages of a key.
THEOREM SendTypes == Spec => []TypeOK
<1>1. IInv => TypeOK
  BY DEF IInv
<1> QED BY <1>1, Invariance, PTL

\* Waiting for a buffer costs no nonce: a key and a counter encrypt one packet,
\* whoever takes the lock meanwhile and whatever it does to the slots.
THEOREM NoncesSurviveTheWait == Spec => []NonceNeverReused
<1>1. IInv => NonceNeverReused
  BY DEF IInv, NonceInv
<1> QED BY <1>1, Invariance, PTL

\* Of the packets that meet in cryptbuf the newest goes out undamaged.
THEOREM NewestGoesOutWhole == Spec => []DamageMeansOverlap
<1>1. IInv => DamageMeansOverlap
  BY DEF IInv, BufferInv
<1> QED BY <1>1, Invariance, PTL

\* A used-up key is replaced, although requests are dropped after a wait.
THEOREM RekeySurvivesTheWait == Spec => []RekeyIsAsked
<1>1. IInv => RekeyIsAsked
  BY DEF IInv
<1> QED BY <1>1, Invariance, PTL

\* What the comment at cryptbuf says is true if, and as far as, psock_sendto()
\* keeps the lock.
THEOREM LockKeepsPacketsWhole == ~SendMayRelease => (Spec => []PacketsGoOutWhole)
<1> SUFFICES ASSUME ~SendMayRelease PROVE Spec => []PacketsGoOutWhole
  OBVIOUS
<1> DEFINE Inv == PacketsGoOutWhole /\ \A c \in Context : call[c] = Idle
<1>1. Init => Inv
  BY DEF Init, PacketsGoOutWhole
<1>2. IInv /\ IInv' /\ Inv /\ [Next]_vars => Inv'
  <2> SUFFICES ASSUME IInv, IInv', Inv, [Next]_vars PROVE Inv'
    OBVIOUS
  <2>1. \A c \in Context : call'[c] = Idle
    <3>1. ASSUME NEW c \in Context, NEW p \in Peer, NEW n \in Block, wg_encrypt_and_send(c, p, n)
          PROVE  UNCHANGED call
      BY <3>1 DEF wg_encrypt_and_send, Waits
    <3>2. ASSUME NEW p \in Peer, wg_start_handshake(p)
          PROVE  UNCHANGED call
      BY <3>2 DEF wg_start_handshake, Waits
    <3>3. ASSUME NEW c \in Context, Resume(c)
          PROVE  FALSE
      BY <3>3 DEF Resume, ResumePacket, ResumeInitiation, Idle
    <3> QED BY <3>1, <3>2, <3>3 DEF Next, NewSession, KeyAges, wg_ifdown, wg_ifup, vars
  <2>2. PacketsGoOutWhole'
    <3>1. ASSUME NEW c \in Context, NEW p \in Peer, NEW n \in Block, wg_encrypt_and_send(c, p, n)
          PROVE  PacketsGoOutWhole'
      <4>1. CASE CounterSpent(p)
        BY <3>1, <4>1 DEF wg_encrypt_and_send, PacketsGoOutWhole, Whole
      <4>2. CASE ~CounterSpent(p)
        BY <3>1, <4>2, EncryptWhole DEF IInv, PacketsGoOutWhole
      <4> QED BY <4>1, <4>2
    <3>2. CASE UNCHANGED <<sealed, wire>>
      BY <3>2 DEF PacketsGoOutWhole, Whole
    <3>3. ASSUME NEW c \in Context, Resume(c)
          PROVE  FALSE
      BY <3>3 DEF Resume, ResumePacket, ResumeInitiation, Idle
    <3> QED
      BY <3>1, <3>2, <3>3
      DEF Next, wg_start_handshake, NewSession, KeyAges, wg_ifdown, wg_ifup, vars
  <2> QED BY <2>1, <2>2
<1>3. Inv => PacketsGoOutWhole
  OBVIOUS
<1> QED BY <1>1, <1>2, <1>3, Invariance, PTL DEF Spec

=============================================================================
