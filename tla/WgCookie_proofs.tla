--------------------------- MODULE WgCookie_proofs ---------------------------
(***************************************************************************)
(* The cookie exchange, for any number of peers and addresses, thresholds  *)
(* and time limits, and wherever the clock wraps.                          *)
(*                                                                         *)
(* An initiation is known by its ephemeral: the network holds one initi-   *)
(* ation of each, and no answer to one that has not been sent. The time    *)
(* fields are related to true time by what the clock read at a tick, and   *)
(* the work of the last second to the buckets it was counted in.           *)
(***************************************************************************)
EXTENDS WgCookie, WellFoundedInduction, TLAPS

MessageTypes(m) ==
  /\ m.type \in {"initiation", "cookie", "response"}
  /\ m.type = "initiation" =>
       m.from \in Peer /\ m.ephemeral \in 1 .. fresh /\ m.source \in Source
         /\ m.mac2 \in Cookies \cup {NoCookie}
  /\ m.type = "cookie" =>
       m.to \in Peer /\ m.receiver \in 1 .. fresh /\ m.cookie \in Cookies
  /\ m.type = "response" => m.to \in Peer /\ m.receiver \in 1 .. fresh

NetworkTypes == \A m \in network : MessageTypes(m)

OneOfEach ==
  \A m, n \in network :
    m.type = "initiation" /\ n.type = "initiation" /\ m.ephemeral = n.ephemeral => m = n

IInv == TypeOK /\ NetworkTypes /\ OneOfEach /\ NoCookieEcho

-----------------------------------------------------------------------------
(* The clock.                                                              *)

\* The clock stays in its width and never reads zero.
LEMMA NowTypes ==
  ASSUME boot \in BootTimes, elapsed \in Nat
  PROVE  now \in Clock /\ now # 0
<1>1. boot \in 0 .. ClockMod - 1 /\ ClockMod \in Nat /\ ClockMod >= 2
  BY CookieAssumption
<1>2. (boot + elapsed) % ClockMod \in 0 .. ClockMod - 1
  BY <1>1
<1>3. 1 \in 0 .. ClockMod - 1
  BY <1>1
<1> QED BY <1>2, <1>3 DEF now, wireguard_sys_now, Clock

\* What happens now has not expired.
LEMMA NotYetExpired ==
  ASSUME boot \in BootTimes, elapsed \in Nat
  PROVE  ~wireguard_expired(now, COOKIE_SECRET_MAX_AGE)
<1>1. now \in Int
  BY NowTypes DEF Clock
<1>2. (now - now) % ClockMod = 0
  BY <1>1, CookieAssumption
<1> QED BY <1>2, CookieAssumption DEF wireguard_expired

-----------------------------------------------------------------------------
(* What a step adds to the network.                                        *)

\* A message that answers an initiation which was sent.
LEMMA NetworkGrows ==
  ASSUME NetworkTypes, fresh \in Nat, fresh' \in Nat, fresh' >= fresh,
         NEW n, network' \subseteq network \cup {n}, MessageTypes(n)'
  PROVE  NetworkTypes'
<1> SUFFICES ASSUME NEW m \in network' PROVE MessageTypes(m)'
  BY DEF NetworkTypes
<1>1. CASE m \in network
  BY <1>1 DEF NetworkTypes, MessageTypes
<1> QED BY <1>1

Device ==
  [cookie_secret : Nat \ {0}, cookie_secret_millis : Clock, init_window_start : Clock,
   init_count : Nat]

\* Counting keeps the types of the device.
LEMMA CountedTypes ==
  ASSUME now \in Clock, NEW d \in Device
  PROVE  Counted(d) \in Device /\ Counted(d).cookie_secret = d.cookie_secret
<1>1. d.init_count + 1 \in Nat /\ 1 \in Nat
  BY DEF Device
<1>2. [d EXCEPT !.init_window_start = now, !.init_count = 1] \in Device
  BY <1>1 DEF Device
<1>3. [d EXCEPT !.init_count = @ + 1] \in Device
  BY <1>1 DEF Device
<1>4. /\ [d EXCEPT !.init_window_start = now, !.init_count = 1].cookie_secret = d.cookie_secret
      /\ [d EXCEPT !.init_count = @ + 1].cookie_secret = d.cookie_secret
  BY DEF Device
<1> QED BY <1>2, <1>3, <1>4 DEF Counted

\* So does drawing a secret.
LEMMA SecretTypes ==
  ASSUME now \in Clock, device \in Device
  PROVE  SecretInUse \in Device
<1>1. device.cookie_secret + 1 \in Nat \ {0}
  BY DEF Device
<1>2. [device EXCEPT !.cookie_secret = @ + 1, !.cookie_secret_millis = now] \in Device
  BY <1>1 DEF Device
<1> QED BY <1>2 DEF SecretInUse

\* A reply that is not a cookie changes nothing about initiations and cookies.
LEMMA ResponseSent ==
  ASSUME OneOfEach, NoCookieEcho,
         NEW n, n.type = "response", network' \subseteq network \cup {n}
  PROVE  OneOfEach' /\ NoCookieEcho'
<1>1. \A m \in network' : m.type # "response" => m \in network
  OBVIOUS
<1>2. OneOfEach'
  BY <1>1 DEF OneOfEach
<1>3. NoCookieEcho'
  BY <1>1 DEF NoCookieEcho
<1> QED BY <1>2, <1>3

\* A cookie answers the one initiation with that ephemeral.
LEMMA CookieSent ==
  ASSUME OneOfEach, NoCookieEcho,
         NEW m \in network, m.type = "initiation",
         NEW n, n.type = "cookie", n.receiver = m.ephemeral, n.cookie # m.mac2,
         network' \subseteq network \cup {n}
  PROVE  OneOfEach' /\ NoCookieEcho'
<1>1. \A x \in network' : x.type = "initiation" => x \in network
  OBVIOUS
<1>2. OneOfEach'
  BY <1>1 DEF OneOfEach
<1>3. SUFFICES ASSUME NEW r \in network', NEW x \in network',
                      r.type = "cookie", x.type = "initiation", r.receiver = x.ephemeral
               PROVE  r.cookie # x.mac2
  BY <1>2 DEF NoCookieEcho
<1>4. CASE r \in network
  BY <1>1, <1>3, <1>4 DEF NoCookieEcho
<1>5. CASE r = n
  <2>1. x = m
    BY <1>1, <1>3, <1>5 DEF OneOfEach
  <2> QED BY <2>1, <1>5
<1> QED BY <1>4, <1>5

\* An initiation with a fresh ephemeral has no double and no answer yet.
LEMMA InitiationSent ==
  ASSUME NetworkTypes, OneOfEach, NoCookieEcho, fresh \in Nat,
         NEW n, n.type = "initiation", n.ephemeral = fresh + 1,
         network' \subseteq network \cup {n}
  PROVE  OneOfEach' /\ NoCookieEcho'
<1>1. \A x \in network : x.type = "initiation" => x.ephemeral # fresh + 1
  BY DEF NetworkTypes, MessageTypes
<1>2. \A x \in network : x.type = "cookie" => x.receiver # fresh + 1
  BY DEF NetworkTypes, MessageTypes
<1>3. OneOfEach'
  BY <1>1 DEF OneOfEach
<1>4. NoCookieEcho'
  BY <1>2 DEF NoCookieEcho
<1> QED BY <1>3, <1>4

-----------------------------------------------------------------------------
(* The initial state.                                                      *)

LEMMA InitInv == Init => IInv
<1> SUFFICES ASSUME Init PROVE IInv
  OBVIOUS
<1> USE DEF Init
<1>1. 0 \in 0 .. MaxElapsed /\ 0 \in 0 .. MaxInitiations /\ 0 \in Clock
  BY CookieAssumption DEF Clock
<1>2. now \in Clock
  BY NowTypes
<1>3. device \in [cookie_secret : Nat \ {0}, cookie_secret_millis : Clock,
                  init_window_start : Clock, init_count : Nat]
  BY <1>1, <1>2 DEF NewDevice
<1>4. greatest \in [Peer -> 0 .. fresh]
  BY DEF NoInitiation
<1>5. ASSUME NEW s \in Source
      PROVE  NewPeer(s) \in [handshake : 0 .. fresh, mac1 : 0 .. fresh,
                        cookie : Cookies \cup {NoCookie}, cookie_millis : Clock,
                        last_initiation_tx : Clock, source : Source, sent : Int]
  <2>1. -REKEY_TIMEOUT \in Int
    BY CookieAssumption
  <2> QED BY <2>1, <1>1 DEF NewPeer, Never, NoInitiation
<1>6. TypeOK
  <2> HIDE DEF Init
  <2>1. peer \in [Peer -> [handshake : 0 .. fresh, mac1 : 0 .. fresh,
                        cookie : Cookies \cup {NoCookie}, cookie_millis : Clock,
                        last_initiation_tx : Clock, source : Source, sent : Int]]
    BY <1>5 DEF Init
  <2> QED BY <1>1, <1>3, <1>4, <2>1 DEF TypeOK, Init
<1> QED BY <1>6 DEF IInv, NetworkTypes, OneOfEach, NoCookieEcho

-----------------------------------------------------------------------------
(* The responder's steps.                                                  *)

\* What a step of the responder leaves alone keeps its type.
LEMMA ProcessInv ==
  ASSUME IInv, NEW m \in network, m.type = "initiation", Process(m), UNCHANGED fresh
  PROVE  /\ greatest' \in [Peer -> 0 .. fresh']
         /\ NetworkTypes' /\ OneOfEach' /\ NoCookieEcho'
<1>1. m.from \in Peer /\ m.ephemeral \in 1 .. fresh /\ fresh \in Nat /\ fresh' = fresh
  BY DEF IInv, TypeOK, NetworkTypes, MessageTypes
<1>2. CASE /\ greatest' = [greatest EXCEPT ![m.from] = m.ephemeral]
           /\ network' = network \cup {Response(m.from, m.ephemeral)}
  <2>1. /\ greatest' = [greatest EXCEPT ![m.from] = m.ephemeral]
        /\ network' = network \cup {Response(m.from, m.ephemeral)}
    BY <1>2
  <2>2. greatest' \in [Peer -> 0 .. fresh']
    BY <1>1, <2>1 DEF IInv, TypeOK
  <2>3. MessageTypes(Response(m.from, m.ephemeral))'
    BY <1>1 DEF MessageTypes, Response
  <2>4. NetworkTypes'
    BY <1>1, <2>1, <2>3, NetworkGrows DEF IInv
  <2>5. Response(m.from, m.ephemeral).type = "response"
    BY DEF Response
  <2> QED BY <2>1, <2>2, <2>4, <2>5, ResponseSent DEF IInv
<1>3. CASE UNCHANGED <<greatest, network>>
  <2>1. greatest' = greatest /\ network' = network
    BY <1>3
  <2>2. NetworkTypes'
    BY <1>1, <2>1 DEF IInv, NetworkTypes, MessageTypes
  <2> QED BY <1>1, <2>1, <2>2 DEF IInv, TypeOK, OneOfEach, NoCookieEcho
<1> QED BY <1>2, <1>3 DEF Process

LEMMA NowOfInv ==
  ASSUME IInv
  PROVE  now \in Clock /\ device \in Device
BY NowTypes DEF IInv, TypeOK, Device

LEMMA ReceiveInitiationInv ==
  ASSUME IInv, NEW m \in network, ReceiveInitiation(m)
  PROVE  IInv'
<1>1. Counted(device) \in Device
  BY NowOfInv, CountedTypes
<1>2. /\ greatest' \in [Peer -> 0 .. fresh']
      /\ NetworkTypes' /\ OneOfEach' /\ NoCookieEcho'
  BY ProcessInv DEF ReceiveInitiation
<1>3. TypeOK'
  BY <1>1, <1>2 DEF ReceiveInitiation, IInv, TypeOK, Device, Clock
<1> QED BY <1>2, <1>3 DEF IInv

LEMMA ReceiveInitiationUnderLoadInv ==
  ASSUME IInv, NEW m \in network, ReceiveInitiationUnderLoad(m)
  PROVE  IInv'
<1> DEFINE d == SecretInUse
<1> PICK n : n = CookieReply(m.from, m.ephemeral, Cookie(d.cookie_secret, m.source))
  OBVIOUS
<1>1. d \in Device /\ Counted(d) \in Device
  BY NowOfInv, SecretTypes, CountedTypes
<1>2. device' = Counted(d) /\ m.type = "initiation"
      /\ UNCHANGED <<boot, elapsed, peer, fresh>>
  BY DEF ReceiveInitiationUnderLoad
<1>3. /\ greatest' \in [Peer -> 0 .. fresh']
      /\ NetworkTypes' /\ OneOfEach' /\ NoCookieEcho'
  <2>1. CASE mac2_Valid(m, d)
    <3>1. Process(m)
      BY <2>1 DEF ReceiveInitiationUnderLoad
    <3> QED BY <1>2, <3>1, ProcessInv
  <2>2. CASE ~mac2_Valid(m, d)
    <3>1. network' = network \cup {n} /\ UNCHANGED greatest
      BY <2>2 DEF ReceiveInitiationUnderLoad
    <3>2. /\ m.from \in Peer /\ m.ephemeral \in 1 .. fresh /\ m.source \in Source
          /\ fresh \in Nat
      BY <1>2 DEF IInv, TypeOK, NetworkTypes, MessageTypes
    <3>3. Cookie(d.cookie_secret, m.source) \in Cookies
      BY <1>1, <3>2 DEF Cookie, Cookies, Device
    <3>4. Cookie(d.cookie_secret, m.source) # m.mac2
      BY <2>2 DEF mac2_Valid
    <3>5. /\ n.type = "cookie" /\ n.to = m.from /\ n.receiver = m.ephemeral
          /\ n.cookie = Cookie(d.cookie_secret, m.source)
      BY DEF CookieReply
    <3> HIDE DEF d
    <3>6. MessageTypes(n)'
      BY <1>2, <3>2, <3>3, <3>5 DEF MessageTypes, Cookies
    <3>7. NetworkTypes'
      BY <1>2, <3>1, <3>2, <3>6, NetworkGrows DEF IInv
    <3>8. OneOfEach' /\ NoCookieEcho'
      BY <1>2, <3>1, <3>4, <3>5, CookieSent DEF IInv
    <3> QED BY <1>2, <3>1, <3>7, <3>8 DEF IInv, TypeOK
  <2> QED BY <2>1, <2>2
<1> HIDE DEF d
<1>4. TypeOK'
  BY <1>1, <1>2, <1>3 DEF IInv, TypeOK, Device, Clock
<1> QED BY <1>3, <1>4 DEF IInv

LEMMA DeviceInitInv ==
  ASSUME IInv, wireguard_device_init
  PROVE  IInv'
<1>1. 0 \in Clock /\ now \in Clock
  BY NowOfInv, CookieAssumption DEF Clock
<1>2. NewDevice(device.cookie_secret + 1) \in Device
  BY <1>1 DEF NewDevice, Device, IInv, TypeOK
<1>3. greatest' \in [Peer -> 0 .. fresh']
  BY DEF wireguard_device_init, IInv, TypeOK, NoInitiation
<1>4. TypeOK'
  BY <1>2, <1>3 DEF wireguard_device_init, IInv, TypeOK, Device, Clock
<1> QED BY <1>4 DEF wireguard_device_init, IInv, NetworkTypes, MessageTypes, OneOfEach, NoCookieEcho

-----------------------------------------------------------------------------
(* The initiator's steps.                                                  *)

PeerRecord ==
  [handshake : 0 .. fresh, mac1 : 0 .. fresh, cookie : Cookies \cup {NoCookie},
   cookie_millis : Clock, last_initiation_tx : Clock, source : Source, sent : Int]

\* An initiation leaves with the cookie of the record it is made from.
LEMMA StartHandshakeInv ==
  ASSUME IInv, NEW i \in Peer, NEW p \in PeerRecord, wg_start_handshake(i, p),
         UNCHANGED <<boot, elapsed, device, greatest>>
  PROVE  IInv'
<1> PICK n : n = Initiation(i, fresh + 1, p.source, CookieToUse(p))
  OBVIOUS
<1>1. /\ fresh \in Nat /\ fresh < MaxInitiations /\ MaxInitiations \in Nat
      /\ fresh' = fresh + 1 /\ network' = network \cup {n}
      /\ peer' = [peer EXCEPT ![i] = [p EXCEPT !.handshake = fresh', !.mac1 = fresh',
                                           !.last_initiation_tx = now, !.sent = elapsed]]
  BY CookieAssumption DEF IInv, TypeOK, wg_start_handshake
<1>2. fresh' \in 0 .. MaxInitiations /\ 0 .. fresh \subseteq 0 .. fresh' /\ fresh' \in 0 .. fresh'
  BY <1>1
<1>3. now \in Clock /\ elapsed \in Int
  BY NowOfInv, CookieAssumption DEF IInv, TypeOK
<1>4. [p EXCEPT !.handshake = fresh', !.mac1 = fresh',
                !.last_initiation_tx = now, !.sent = elapsed] \in PeerRecord'
  BY <1>2, <1>3 DEF PeerRecord, Clock, Cookies
<1>5. ASSUME NEW j \in Peer PROVE peer[j] \in PeerRecord'
  <2>1. peer[j] \in PeerRecord
    BY DEF IInv, TypeOK, PeerRecord
  <2> QED BY <1>2, <2>1 DEF PeerRecord, Clock, Cookies
<1>6. peer' \in [Peer -> PeerRecord']
  BY <1>1, <1>4, <1>5 DEF IInv, TypeOK
<1>7. greatest' \in [Peer -> 0 .. fresh']
  BY <1>2 DEF IInv, TypeOK
<1>8. TypeOK'
  BY <1>2, <1>6, <1>7 DEF IInv, TypeOK, PeerRecord, Clock
<1>9. p.source \in Source /\ CookieToUse(p) \in Cookies \cup {NoCookie}
  BY DEF PeerRecord, CookieToUse
<1>10. /\ n.type = "initiation" /\ n.from = i /\ n.ephemeral = fresh + 1
       /\ n.source = p.source /\ n.mac2 = CookieToUse(p)
  BY DEF Initiation
<1>11. MessageTypes(n)'
  BY <1>1, <1>9, <1>10 DEF MessageTypes, Cookies, NoCookie
<1>12. NetworkTypes'
  BY <1>1, <1>11, NetworkGrows DEF IInv
<1>13. OneOfEach' /\ NoCookieEcho'
  BY <1>1, <1>10, InitiationSent DEF IInv
<1> QED BY <1>8, <1>12, <1>13 DEF IInv

LEMMA TimersInv ==
  ASSUME IInv, NEW i \in Peer, wg_run_timers(i)
  PROVE  IInv'
<1>1. peer[i] \in PeerRecord
  BY DEF IInv, TypeOK, PeerRecord
<1>2. wg_start_handshake(i, peer[i]) /\ UNCHANGED <<boot, elapsed, device, greatest>>
  BY DEF wg_run_timers
<1> QED BY <1>1, <1>2, StartHandshakeInv

LEMMA ReceiveCookieReplyInv ==
  ASSUME IInv, NEW m \in network, ReceiveCookieReply(m)
  PROVE  IInv'
<1> DEFINE p == [peer[m.to] EXCEPT !.cookie = m.cookie, !.cookie_millis = now,
                                   !.mac1 = NoInitiation]
<1>1. m.to \in Peer /\ m.cookie \in Cookies
  BY DEF IInv, NetworkTypes, MessageTypes, ReceiveCookieReply
<1>2. peer[m.to] \in PeerRecord
  BY <1>1 DEF IInv, TypeOK, PeerRecord
<1>3. now \in Clock /\ NoInitiation \in 0 .. fresh
  BY NowOfInv DEF IInv, TypeOK, NoInitiation
<1>4. p \in PeerRecord
  BY <1>1, <1>2, <1>3 DEF PeerRecord
<1>5. wg_start_handshake(m.to, p) /\ UNCHANGED <<boot, elapsed, device, greatest>>
  BY DEF ReceiveCookieReply
<1> HIDE DEF p
<1> QED BY <1>1, <1>4, <1>5, StartHandshakeInv

LEMMA ReceiveResponseInv ==
  ASSUME IInv, NEW m \in network, ReceiveResponse(m)
  PROVE  IInv'
<1>1. m.to \in Peer /\ NoInitiation \in 0 .. fresh
  BY DEF IInv, TypeOK, NetworkTypes, MessageTypes, ReceiveResponse, NoInitiation
<1>2. peer' = [peer EXCEPT ![m.to] = [peer[m.to] EXCEPT !.handshake = NoInitiation]]
  BY DEF ReceiveResponse
<1>3. [peer[m.to] EXCEPT !.handshake = NoInitiation] \in PeerRecord
  <2>1. peer[m.to] \in PeerRecord
    BY <1>1 DEF IInv, TypeOK, PeerRecord
  <2> QED BY <1>1, <2>1 DEF PeerRecord
<1>4. peer' \in [Peer -> PeerRecord]
  BY <1>2, <1>3 DEF IInv, TypeOK, PeerRecord
<1>5. TypeOK'
  BY <1>4 DEF ReceiveResponse, IInv, TypeOK, PeerRecord, Clock
<1> QED BY <1>5 DEF ReceiveResponse, IInv, NetworkTypes, MessageTypes, OneOfEach, NoCookieEcho

LEMMA MoveInv ==
  ASSUME IInv, NEW i \in Peer, Move(i)
  PROVE  IInv'
<1>1. PICK s \in Source : peer' = [peer EXCEPT ![i] = [peer[i] EXCEPT !.source = s]]
  BY DEF Move
<1>2. [peer[i] EXCEPT !.source = s] \in PeerRecord
  <2>1. peer[i] \in PeerRecord
    BY DEF IInv, TypeOK, PeerRecord
  <2> QED BY <2>1 DEF PeerRecord
<1>3. peer' \in [Peer -> PeerRecord]
  BY <1>1, <1>2 DEF IInv, TypeOK, PeerRecord
<1>4. TypeOK'
  BY <1>3 DEF Move, IInv, TypeOK, PeerRecord, Clock
<1> QED BY <1>4 DEF Move, IInv, NetworkTypes, MessageTypes, OneOfEach, NoCookieEcho

LEMMA TickInv ==
  ASSUME IInv, Tick
  PROVE  IInv'
<1>1. elapsed' \in 0 .. MaxElapsed
  BY CookieAssumption DEF Tick, IInv, TypeOK
<1>2. TypeOK'
  BY <1>1 DEF Tick, IInv, TypeOK, Clock
<1> QED BY <1>2 DEF Tick, IInv, NetworkTypes, MessageTypes, OneOfEach, NoCookieEcho

-----------------------------------------------------------------------------
(* The theorems.                                                           *)

LEMMA StepInv == IInv /\ [Next]_vars => IInv'
<1> SUFFICES ASSUME IInv, [Next]_vars PROVE IInv'
  OBVIOUS
<1>1. CASE \E m \in network : ReceiveInitiation(m)
  BY <1>1, ReceiveInitiationInv
<1>2. CASE \E m \in network : ReceiveInitiationUnderLoad(m)
  BY <1>2, ReceiveInitiationUnderLoadInv
<1>3. CASE \E m \in network : ReceiveCookieReply(m)
  BY <1>3, ReceiveCookieReplyInv
<1>4. CASE \E m \in network : ReceiveResponse(m)
  BY <1>4, ReceiveResponseInv
<1>5. CASE \E i \in Peer : wg_run_timers(i)
  BY <1>5, TimersInv
<1>6. CASE \E i \in Peer : Move(i)
  BY <1>6, MoveInv
<1>7. CASE wireguard_device_init
  BY <1>7, DeviceInitInv
<1>8. CASE Tick
  BY <1>8, TickInv
<1>9. CASE UNCHANGED vars
  BY <1>9 DEF vars, IInv, TypeOK, NetworkTypes, MessageTypes, OneOfEach, NoCookieEcho, Clock
<1> QED BY <1>1, <1>2, <1>3, <1>4, <1>5, <1>6, <1>7, <1>8, <1>9 DEF Next

LEMMA CookieInv == Spec => []IInv
BY InitInv, StepInv, PTL DEF Spec

\* Every time field stays in its 32 bits, and no handshake, pending mac1 or
\* accepted initiation is one that was never sent.
THEOREM CookieTypes == Spec => []TypeOK
<1>1. IInv => TypeOK
  BY DEF IInv
<1> QED BY <1>1, CookieInv, PTL

\* No answer to an initiation is the cookie it was made with, so the exchange
\* ends (wireguard_check_mac2, wireguard_create_cookie_reply).
THEOREM NoEcho == Spec => []NoCookieEcho
<1>1. IInv => NoCookieEcho
  BY DEF IInv
<1> QED BY <1>1, CookieInv, PTL

LEMMA RetryStep ==
  ASSUME IInv, NEW m \in network, ReceiveCookieReply(m)
  PROVE  \E n \in network' : n.type = "initiation" /\ n.ephemeral = fresh' /\ n.mac2 = m.cookie
<1> DEFINE p == [peer[m.to] EXCEPT !.cookie = m.cookie, !.cookie_millis = now,
                                   !.mac1 = NoInitiation]
           n == Initiation(m.to, fresh', p.source, CookieToUse(p))
<1>1. m.to \in Peer
  BY DEF IInv, NetworkTypes, MessageTypes, ReceiveCookieReply
<1>2. peer[m.to] \in PeerRecord
  BY <1>1 DEF IInv, TypeOK, PeerRecord
<1>3. p.cookie = m.cookie /\ p.cookie_millis = now
  BY <1>2 DEF PeerRecord
<1>4. n \in network'
  BY DEF ReceiveCookieReply, wg_start_handshake
<1>5. n.type = "initiation" /\ n.ephemeral = fresh' /\ n.mac2 = CookieToUse(p)
  BY DEF Initiation
<1>6. now # Never /\ ~wireguard_expired(now, COOKIE_SECRET_MAX_AGE)
  BY NowTypes, NotYetExpired DEF IInv, TypeOK, Never
<1> HIDE DEF p, n
<1>7. CookieToUse(p) = m.cookie
  BY <1>3, <1>6 DEF CookieToUse
<1> QED BY <1>4, <1>5, <1>7

\* The retry carries the cookie whatever the clock reads
\* (wireguard_process_cookie_message, wireguard_sys_now).
THEOREM RetryHasCookie == Spec => RetryCarriesCookie
<1>1. IInv /\ [Next]_vars =>
        [\A m \in network : ReceiveCookieReply(m) =>
           \E n \in network' : n.type = "initiation" /\ n.ephemeral = fresh'
                                /\ n.mac2 = m.cookie]_vars
  BY RetryStep
<1> QED BY <1>1, CookieInv, PTL DEF Spec, RetryCarriesCookie

-----------------------------------------------------------------------------
(* Differences on a clock that wraps.                                      *)

\* What % gives, and what gives it.
LEMMA Remainder ==
  ASSUME NEW M \in Nat \ {0}, NEW a \in Int
  PROVE  a % M \in 0 .. M - 1 /\ a \div M \in Int /\ a = M * (a \div M) + (a % M)
<1>1. a % M \in 0 .. M - 1
  OBVIOUS
<1>2. a \div M \in Int
  OBVIOUS
<1>3. a = M * (a \div M) + (a % M)
  OBVIOUS
<1> QED BY <1>1, <1>2, <1>3

\* The remainder is the one number in range that is the right distance away.
LEMMA RemainderIs ==
  ASSUME NEW M \in Nat \ {0}, NEW q \in Int, NEW r \in 0 .. M - 1
  PROVE  (M * q + r) % M = r
<1> PICK a \in Int : a = M * q + r
  OBVIOUS
<1> PICK p \in Int : p = a \div M
  OBVIOUS
<1> PICK s \in 0 .. M - 1 : s = a % M
  BY Remainder
<1>1. a = M * p + s
  BY Remainder
<1>2. M * (p - q) = r - s
  BY <1>1
<1>3. CASE p - q >= 1
  <2>1. M * (p - q) >= M
    BY <1>3
  <2> QED BY <1>2, <2>1
<1>4. CASE p - q <= -1
  <2>1. M * (q - p) >= M
    BY <1>4
  <2> QED BY <1>2, <2>1
<1>5. CASE p - q = 0
  <2>1. M * (p - q) = 0
    BY <1>5
  <2> QED BY <1>2, <2>1
<1> QED BY <1>3, <1>4, <1>5

\* The clock d ticks later, before the tick it is wrong by.
LEMMA RemainderLater ==
  ASSUME NEW M \in Nat \ {0}, NEW a \in Nat, NEW d \in 0 .. M - 1
  PROVE  \/ (a + d) % M = (a % M) + d
         \/ (a + d) % M = (a % M) + d - M
<1> PICK q \in Int : q = a \div M
  OBVIOUS
<1> PICK r \in 0 .. M - 1 : r = a % M
  BY Remainder
<1>1. a = M * q + r
  BY Remainder
<1>2. CASE r + d < M
  <2>1. a + d = M * q + (r + d)
    BY <1>1
  <2>2. r + d \in 0 .. M - 1
    BY <1>2
  <2> QED BY <2>1, <2>2, RemainderIs
<1>3. CASE r + d >= M
  <2>1. a + d = M * (q + 1) + (r + d - M)
    BY <1>1
  <2>2. r + d - M \in 0 .. M - 1 /\ q + 1 \in Int
    BY <1>3
  <2> QED BY <2>1, <2>2, RemainderIs
<1> QED BY <1>2, <1>3

\* A difference of two readings, taken modulo M.
LEMMA RemainderOfDifference ==
  ASSUME NEW M \in Nat \ {0}, NEW x \in -(M - 1) .. M
  PROVE  /\ x \in 0 .. M - 1 => x % M = x
         /\ x < 0 => x % M = x + M
         /\ x = M => x % M = 0
<1>1. ASSUME x \in 0 .. M - 1 PROVE x % M = x
  <2>1. x = M * 0 + x
    BY <1>1
  <2> QED BY <1>1, <2>1, RemainderIs
<1>2. ASSUME x < 0 PROVE x % M = x + M
  <2>1. x = M * (-1) + (x + M) /\ x + M \in 0 .. M - 1
    BY <1>2
  <2> QED BY <2>1, RemainderIs
<1>3. ASSUME x = M PROVE x % M = 0
  <2>1. x = M * 1 + 0 /\ 0 \in 0 .. M - 1
    BY <1>3
  <2> QED BY <2>1, RemainderIs
<1> QED BY <1>1, <1>2, <1>3

\* What the clock reads t ticks into the run.
ClockAt(t) ==
  LET ms == (boot + t) % ClockMod IN IF ms = 0 THEN 1 ELSE ms

LEMMA ClockAtTypes ==
  ASSUME boot \in BootTimes, NEW t \in Nat
  PROVE  ClockAt(t) \in Clock /\ ClockAt(t) # 0
<1>1. boot \in 0 .. ClockMod - 1 /\ ClockMod \in Nat /\ ClockMod >= 2
  BY CookieAssumption
<1>2. (boot + t) % ClockMod \in 0 .. ClockMod - 1 /\ 1 \in 0 .. ClockMod - 1
  BY <1>1
<1> QED BY <1>2 DEF ClockAt, Clock

\* What wireguard_expired() compares.
SpanOf(s, t) == (ClockAt(t) - ClockAt(s)) % ClockMod

\* The unsigned difference of two readings is at most a tick more than the time
\* between them, and, less than a whole turn of the clock apart, at most a tick
\* less.

LEMMA SpanIsRight ==
  ASSUME boot \in BootTimes, NEW s \in Nat, NEW t \in Nat, s <= t
  PROVE  /\ SpanOf(s, t) \in Nat
         /\ SpanOf(s, t) <= t - s + 1
         /\ t - s + 1 < ClockMod => t - s <= SpanOf(s, t) + 1
         /\ s = t => SpanOf(s, t) = 0
<1> PICK M \in Nat \ {0, 1} : M = ClockMod
  BY CookieAssumption
<1>1. boot \in Nat
  BY CookieAssumption
<1> PICK x \in Nat, y \in Nat, d \in Nat : x = boot + s /\ y = boot + t /\ d = t - s
  BY <1>1
<1>2. ClockAt(s) \in 1 .. M - 1 /\ ClockAt(t) \in 1 .. M - 1
  BY ClockAtTypes DEF Clock
<1>3. SpanOf(s, t) \in 0 .. M - 1
  BY <1>2 DEF SpanOf
<1>4. CASE d >= M - 1
  BY <1>3, <1>4
<1>5. CASE d < M - 1
  <2>1. y = x + d
    BY <1>1
  <2> PICK u \in 0 .. M - 1 : u = x % M
    BY Remainder
  <2> PICK v \in 0 .. M - 1 : v = y % M
    BY Remainder
  <2>2. v = u + d \/ v = u + d - M
    BY <1>5, <2>1, RemainderLater
  <2>3. ClockAt(s) = (IF u = 0 THEN 1 ELSE u) /\ ClockAt(t) = (IF v = 0 THEN 1 ELSE v)
    BY DEF ClockAt
  <2> PICK z \in -(M - 1) .. M : z = ClockAt(t) - ClockAt(s)
    BY <1>2
  <2>4. SpanOf(s, t) = z % M
    BY DEF SpanOf
  <2>5. SpanOf(s, t) = (IF z < 0 THEN z + M ELSE z)
    BY <1>2, <2>4, RemainderOfDifference
  <2> QED BY <1>5, <2>2, <2>3, <2>5
<1> QED BY <1>4, <1>5

LEMMA NowIsClock == now = ClockAt(elapsed)
BY DEF now, wireguard_sys_now, ClockAt


-----------------------------------------------------------------------------
(* When the initiations left.                                              *)

\* The time field of a record is the reading of the clock when its last initiation
\* left, and "never" before the first.
LastInitiation(p) ==
  \/ p.last_initiation_tx = Never /\ p.sent = -REKEY_TIMEOUT
  \/ p.sent \in 0 .. elapsed /\ p.last_initiation_tx = ClockAt(p.sent)

SentWhenTimed == \A i \in Peer : LastInitiation(peer[i])

\* A record that keeps both fields still agrees, this step or a later tick.
LEMMA LastInitiationKept ==
  ASSUME elapsed \in Nat, elapsed' \in Nat, elapsed <= elapsed', boot' = boot,
         NEW p, NEW q, LastInitiation(p),
         q.last_initiation_tx = p.last_initiation_tx, q.sent = p.sent
  PROVE  LastInitiation(q)'
BY DEF LastInitiation, ClockAt

\* An initiation records the tick it leaves in, and that reading of the clock.
LEMMA SentStartHandshake ==
  ASSUME IInv, SentWhenTimed, NEW i \in Peer, NEW p \in PeerRecord,
         wg_start_handshake(i, p), UNCHANGED <<boot, elapsed>>
  PROVE  SentWhenTimed'
<1>1. peer' = [peer EXCEPT ![i] = [p EXCEPT !.handshake = fresh', !.mac1 = fresh',
                                           !.last_initiation_tx = now, !.sent = elapsed]]
  BY DEF wg_start_handshake
<1>2. elapsed \in Nat /\ peer \in [Peer -> PeerRecord]
  BY CookieAssumption DEF IInv, TypeOK, PeerRecord
<1>3. PICK q : q = [p EXCEPT !.handshake = fresh', !.mac1 = fresh',
                             !.last_initiation_tx = now, !.sent = elapsed]
  OBVIOUS
<1>4. q.last_initiation_tx = now /\ q.sent = elapsed
  BY <1>3 DEF PeerRecord
<1>5. LastInitiation(q)'
  BY <1>2, <1>4, NowIsClock DEF LastInitiation, ClockAt
<1>6. SUFFICES ASSUME NEW j \in Peer PROVE LastInitiation(peer[j])'
  BY DEF SentWhenTimed
<1>7. peer' = [peer EXCEPT ![i] = q]
  BY <1>1, <1>3
<1>8. CASE j = i
  <2>1. peer'[j] = q
    BY <1>2, <1>7, <1>8
  <2> QED BY <1>5, <2>1 DEF LastInitiation
<1>9. CASE j # i
  <2>1. peer'[j] = peer[j]
    BY <1>2, <1>7, <1>9
  <2>2. LastInitiation(peer[j])
    BY DEF SentWhenTimed
  <2> QED BY <1>2, <2>1, <2>2, LastInitiationKept
<1> QED BY <1>8, <1>9

LEMMA InitSent == Init => SentWhenTimed
<1> SUFFICES ASSUME Init, NEW i \in Peer PROVE LastInitiation(peer[i])
  BY DEF SentWhenTimed
<1>1. PICK s \in Source : peer[i] = NewPeer(s)
  BY DEF Init
<1> QED BY <1>1 DEF NewPeer, LastInitiation

LEMMA SentStep ==
  ASSUME IInv, SentWhenTimed, [Next]_vars
  PROVE  SentWhenTimed'
<1>0. elapsed \in Nat /\ peer \in [Peer -> PeerRecord]
  BY CookieAssumption DEF IInv, TypeOK, PeerRecord
<1>1. ASSUME UNCHANGED <<boot, peer>>, elapsed' \in Nat, elapsed <= elapsed'
      PROVE  SentWhenTimed'
  BY <1>0, <1>1, LastInitiationKept DEF SentWhenTimed
<1>2. ASSUME NEW i \in Peer, wg_run_timers(i) PROVE SentWhenTimed'
  BY <1>0, <1>2, SentStartHandshake DEF wg_run_timers
<1>3. ASSUME NEW m \in network, ReceiveCookieReply(m) PROVE SentWhenTimed'
  <2>1. m.to \in Peer /\ m.cookie \in Cookies
    BY <1>3 DEF IInv, NetworkTypes, MessageTypes, ReceiveCookieReply
  <2>2. PICK p : p = [peer[m.to] EXCEPT !.cookie = m.cookie, !.cookie_millis = now,
                                        !.mac1 = NoInitiation]
    OBVIOUS
  <2>3. now \in Clock /\ NoInitiation \in 0 .. fresh
    BY NowOfInv DEF IInv, TypeOK, NoInitiation
  <2>4. p \in PeerRecord
    BY <1>0, <2>1, <2>2, <2>3 DEF PeerRecord
  <2>5. wg_start_handshake(m.to, p) /\ UNCHANGED <<boot, elapsed>>
    BY <1>3, <2>2 DEF ReceiveCookieReply
  <2> QED BY <2>1, <2>4, <2>5, SentStartHandshake
<1>4. ASSUME NEW i \in Peer, NEW q \in PeerRecord, peer' = [peer EXCEPT ![i] = q],
             UNCHANGED <<boot, elapsed>>,
             q.last_initiation_tx = peer[i].last_initiation_tx, q.sent = peer[i].sent
      PROVE  SentWhenTimed'
  <2> SUFFICES ASSUME NEW j \in Peer PROVE LastInitiation(peer[j])'
    BY DEF SentWhenTimed
  <2>1. /\ peer'[j].last_initiation_tx = peer[j].last_initiation_tx
        /\ peer'[j].sent = peer[j].sent
    BY <1>0, <1>4
  <2> QED BY <1>0, <1>4, <2>1, LastInitiationKept DEF SentWhenTimed
<1>5. ASSUME NEW m \in network, ReceiveResponse(m) PROVE SentWhenTimed'
  <2>1. m.to \in Peer
    BY <1>5 DEF IInv, NetworkTypes, MessageTypes, ReceiveResponse
  <2>2. PICK q : q = [peer[m.to] EXCEPT !.handshake = NoInitiation]
    OBVIOUS
  <2>3. peer' = [peer EXCEPT ![m.to] = q] /\ UNCHANGED <<boot, elapsed>>
    BY <1>5, <2>2 DEF ReceiveResponse
  <2>4. NoInitiation \in 0 .. fresh /\ peer[m.to] \in PeerRecord
    BY <1>0, <2>1 DEF IInv, TypeOK, NoInitiation
  <2>5. /\ q \in PeerRecord
        /\ q.last_initiation_tx = peer[m.to].last_initiation_tx /\ q.sent = peer[m.to].sent
    BY <2>2, <2>4 DEF PeerRecord
  <2> QED BY <1>4, <2>1, <2>3, <2>5
<1>6. ASSUME NEW i \in Peer, Move(i) PROVE SentWhenTimed'
  <2>1. PICK s \in Source : peer' = [peer EXCEPT ![i] = [peer[i] EXCEPT !.source = s]]
    BY <1>6 DEF Move
  <2>2. PICK q : q = [peer[i] EXCEPT !.source = s]
    OBVIOUS
  <2>3. peer' = [peer EXCEPT ![i] = q] /\ UNCHANGED <<boot, elapsed>>
    BY <1>6, <2>1, <2>2 DEF Move
  <2>4. peer[i] \in PeerRecord
    BY <1>0
  <2>5. /\ q \in PeerRecord
        /\ q.last_initiation_tx = peer[i].last_initiation_tx /\ q.sent = peer[i].sent
    BY <2>2, <2>4 DEF PeerRecord
  <2> QED BY <1>4, <2>3, <2>5
<1>7. CASE \E m \in network : ReceiveInitiation(m)
  BY <1>0, <1>1, <1>7 DEF ReceiveInitiation
<1>8. CASE \E m \in network : ReceiveInitiationUnderLoad(m)
  BY <1>0, <1>1, <1>8 DEF ReceiveInitiationUnderLoad
<1>9. CASE wireguard_device_init
  BY <1>0, <1>1, <1>9 DEF wireguard_device_init
<1>10. CASE Tick
  BY <1>0, <1>1, <1>10 DEF Tick
<1>11. CASE UNCHANGED vars
  BY <1>0, <1>1, <1>11 DEF vars
<1> QED BY <1>2, <1>3, <1>5, <1>6, <1>7, <1>8, <1>9, <1>10, <1>11 DEF Next

LEMMA PacedStep ==
  ASSUME IInv, SentWhenTimed, NEW i \in Peer, wg_run_timers(i)
  PROVE  elapsed - peer[i].sent >= REKEY_TIMEOUT - 1
<1>1. elapsed \in Nat /\ boot \in BootTimes /\ REKEY_TIMEOUT \in Nat
  BY CookieAssumption DEF IInv, TypeOK
<1>2. LastInitiation(peer[i])
  BY DEF SentWhenTimed
<1>3. CASE peer[i].sent = -REKEY_TIMEOUT
  BY <1>1, <1>3
<1>4. CASE peer[i].sent \in 0 .. elapsed /\ peer[i].last_initiation_tx = ClockAt(peer[i].sent)
  <2>1. PICK s \in 0 .. elapsed : s = peer[i].sent
    BY <1>4
  <2>2. ClockAt(s) # 0
    BY <1>1, ClockAtTypes
  <2>3. wireguard_expired(peer[i].last_initiation_tx, REKEY_TIMEOUT)
    BY <1>4, <2>1, <2>2 DEF wg_run_timers, Never
  <2>4. SpanOf(s, elapsed) >= REKEY_TIMEOUT
    BY <1>4, <2>1, <2>3, NowIsClock DEF wireguard_expired, SpanOf
  <2>5. SpanOf(s, elapsed) \in Nat /\ SpanOf(s, elapsed) <= elapsed - s + 1
    BY <1>1, SpanIsRight
  <2> QED BY <1>1, <2>1, <2>4, <2>5
<1> QED BY <1>2, <1>3, <1>4 DEF LastInitiation

LEMMA SentInv == Spec => []SentWhenTimed
<1>1. IInv /\ SentWhenTimed /\ [Next]_vars => SentWhenTimed'
  BY SentStep
<1> QED BY <1>1, InitSent, CookieInv, PTL DEF Spec

\* The timers never initiate within REKEY_TIMEOUT of the last initiation, wherever
\* the clock wraps and however long the run, up to the tick the clock is wrong by
\* (wg_run_timers, wireguard_expired).
THEOREM InitiationsWait == Spec => InitiationsPaced
<1>1. IInv /\ SentWhenTimed /\ [Next]_vars =>
        [\A i \in Peer : wg_run_timers(i) => elapsed - peer[i].sent >= REKEY_TIMEOUT - 1]_vars
  BY PacedStep
<1> QED BY <1>1, CookieInv, SentInv, PTL DEF Spec, InitiationsPaced

-----------------------------------------------------------------------------
(* Induction on numbers, on the set of those for which a formula holds.    *)

LEMMA LeastNat ==
  ASSUME NEW T \in SUBSET Nat, T # {}
  PROVE  \E n \in T : \A m \in T : n <= m
<1>1. \E n \in T : \A m \in T : <<m, n>> \notin OpToRel(<, Nat)
  BY WFMin, NatLessThanWellFounded, Zenon
<1>2. \E n \in T : \A m \in T : ~(m < n)
  BY <1>1, Zenon DEF OpToRel
<1> QED BY <1>2

LEMMA Induction ==
  ASSUME NEW N \in Nat, NEW T, 0 \in T, \A n \in 0 .. N - 1 : n \in T => n + 1 \in T
  PROVE  \A n \in 0 .. N : n \in T
<1> DEFINE Bad == {n \in 0 .. N : n \notin T}
<1>1. SUFFICES ASSUME Bad # {} PROVE FALSE
  OBVIOUS
<1>2. PICK n \in Bad : \A m \in Bad : n <= m
  <2>1. Bad \in SUBSET Nat
    OBVIOUS
  <2> HIDE DEF Bad
  <2> QED BY <1>1, <2>1, LeastNat
<1>3. n # 0 /\ n - 1 \in 0 .. N - 1 /\ n - 1 \notin Bad
  BY <1>2
<1>4. n - 1 \in T /\ n \notin T
  BY <1>2, <1>3
<1>5. n - 1 + 1 = n
  BY <1>2
<1> QED BY <1>3, <1>4, <1>5

-----------------------------------------------------------------------------
(* The work of the last ticks, as a sum.                                   *)

Counts == [0 .. LoadWindow - 1 -> Nat]

\* W holds, at t, the sum of the first t counts.
Sums(c, W) ==
  /\ W \in [0 .. LoadWindow -> Nat]
  /\ W[0] = 0
  /\ \A t \in 1 .. LoadWindow : W[t] = W[t - 1] + c[t - 1]

SumFn(c, n, W) == W = [t \in 0 .. n |-> IF t = 0 THEN 0 ELSE W[t - 1] + c[t - 1]]

\* Such a function exists: it is built one place at a time.
LEMMA SumFnExists ==
  ASSUME NEW c \in Counts, NEW n \in 0 .. LoadWindow
  PROVE  \E W : SumFn(c, n, W) /\ W \in [0 .. n -> Nat]
<1> DEFINE T == {k \in 0 .. LoadWindow : \E W : SumFn(c, k, W) /\ W \in [0 .. k -> Nat]}
<1>0. LoadWindow \in Nat
  BY CookieAssumption
<1>1. 0 \in T
  <2>1. PICK W : W = [t \in 0 .. 0 |-> 0]
    OBVIOUS
  <2>2. SumFn(c, 0, W)
    BY <2>1 DEF SumFn
  <2>3. W \in [0 .. 0 -> Nat]
    BY <2>1
  <2> QED BY <1>0, <2>2, <2>3
<1>2. ASSUME NEW k \in 0 .. LoadWindow - 1, k \in T PROVE k + 1 \in T
  <2>1. PICK W : SumFn(c, k, W) /\ W \in [0 .. k -> Nat]
    BY <1>2
  <2>2. W = [t \in 0 .. k |-> IF t = 0 THEN 0 ELSE W[t - 1] + c[t - 1]]
    BY <2>1 DEF SumFn
  <2>3. PICK V : V = [t \in 0 .. k + 1 |-> IF t = k + 1 THEN W[k] + c[k] ELSE W[t]]
    OBVIOUS
  <2>4. W[k] + c[k] \in Nat
    BY <1>0, <2>1 DEF Counts
  <2>5. V \in [0 .. k + 1 -> Nat]
    BY <1>0, <2>1, <2>3, <2>4
  <2>6. ASSUME NEW t \in 0 .. k + 1
        PROVE  V[t] = IF t = 0 THEN 0 ELSE V[t - 1] + c[t - 1]
    <3>1. CASE t = k + 1
      <4>1. V[t] = W[k] + c[k] /\ V[t - 1] = W[k] /\ t # 0 /\ t - 1 = k
        BY <1>0, <2>3, <3>1
      <4> QED BY <4>1
    <3>2. CASE t = 0
      <4>1. V[t] = W[0] /\ W[0] = 0
        BY <1>0, <2>2, <2>3, <3>2
      <4> QED BY <3>2, <4>1
    <3>3. CASE t \in 1 .. k
      <4>1. V[t] = W[t] /\ V[t - 1] = W[t - 1] /\ W[t] = W[t - 1] + c[t - 1]
        BY <1>0, <2>2, <2>3, <3>3
      <4> QED BY <3>3, <4>1
    <3> QED BY <1>0, <3>1, <3>2, <3>3
  <2>7. SumFn(c, k + 1, V)
    BY <2>5, <2>6 DEF SumFn
  <2> QED BY <1>0, <2>5, <2>7
<1> HIDE DEF T
<1>3. n \in T
  BY <1>0, <1>1, <1>2, Induction
<1> QED BY <1>3 DEF T

SumOf(c) == CHOOSE W : SumFn(c, LoadWindow, W)

LEMMA SumOfSums ==
  ASSUME NEW c \in Counts
  PROVE  Sums(c, SumOf(c))
<1>0. LoadWindow \in Nat /\ LoadWindow \in 0 .. LoadWindow
  BY CookieAssumption
<1>1. \E W : SumFn(c, LoadWindow, W) /\ W \in [0 .. LoadWindow -> Nat]
  BY <1>0, SumFnExists
<1>2. PICK W : W = SumOf(c)
  OBVIOUS
<1>3. SumFn(c, LoadWindow, W)
  BY <1>1, <1>2 DEF SumOf
<1>4. W = [t \in 0 .. LoadWindow |-> IF t = 0 THEN 0 ELSE W[t - 1] + c[t - 1]]
  BY <1>3 DEF SumFn
<1>5. W[0] = 0
  BY <1>0, <1>4
<1>6. \A t \in 1 .. LoadWindow : W[t] = W[t - 1] + c[t - 1]
  BY <1>0, <1>4
<1>7. W \in [0 .. LoadWindow -> Nat]
  <2> DEFINE T == {k \in 0 .. LoadWindow : W[k] \in Nat}
  <2>2. 0 \in T
    BY <1>0, <1>5
  <2>3. ASSUME NEW k \in 0 .. LoadWindow - 1, k \in T PROVE k + 1 \in T
    <3>1. W[k + 1] = W[k] + c[k]
      <4>1. k + 1 \in 1 .. LoadWindow /\ k + 1 - 1 = k
        BY <1>0
      <4> QED BY <1>6, <4>1
    <3>2. c[k] \in Nat
      BY DEF Counts
    <3> QED BY <1>0, <2>3, <3>1, <3>2
  <2> HIDE DEF T
  <2>4. \A k \in 0 .. LoadWindow : k \in T
    BY <1>0, <2>2, <2>3, Induction
  <2>5. \A k \in 0 .. LoadWindow : W[k] \in Nat
    BY <2>4 DEF T
  <2> QED BY <1>4, <2>5
<1> QED BY <1>2, <1>5, <1>6, <1>7 DEF Sums

\* The model's sum, in this state and in the next.
LEMMA WorkInIs ==
  WorkIn = SumOf(cheap) /\ WorkIn' = SumOf(cheap')
BY DEF WorkIn, SumOf, SumFn

LEMMA WorkInSums ==
  /\ cheap \in Counts => Sums(cheap, WorkIn)
  /\ cheap' \in Counts => Sums(cheap', WorkIn')
BY SumOfSums, WorkInIs

\* Sums do not decrease.
LEMMA SumsGrow ==
  ASSUME NEW c \in Counts, NEW W, Sums(c, W), NEW t \in 0 .. LoadWindow
  PROVE  W[t] <= W[LoadWindow]
<1>0. LoadWindow \in Nat
  BY CookieAssumption
<1> DEFINE T == {k \in 0 .. LoadWindow - t : W[t] <= W[t + k]}
<1>1. 0 \in T
  BY <1>0 DEF Sums
<1>2. ASSUME NEW k \in 0 .. (LoadWindow - t) - 1, k \in T PROVE k + 1 \in T
  <2>1. /\ t + k + 1 \in 1 .. LoadWindow /\ t + k + 1 - 1 = t + k
        /\ t + k \in 0 .. LoadWindow - 1
    BY <1>0
  <2>2. W[t + k + 1] = W[t + k] + c[t + k] /\ c[t + k] \in Nat
    BY <2>1 DEF Sums, Counts
  <2>3. W[t] \in Nat /\ W[t + k] \in Nat /\ W[t] <= W[t + k]
    BY <1>0, <1>2, <2>1 DEF Sums
  <2>4. W[t] <= W[t + (k + 1)]
    BY <2>1, <2>2, <2>3
  <2> QED BY <1>0, <2>4
<1> HIDE DEF T
<1>3. \A k \in 0 .. LoadWindow - t : k \in T
  BY <1>0, <1>1, <1>2, Induction
<1>4. LoadWindow - t \in T /\ t + (LoadWindow - t) = LoadWindow
  BY <1>0, <1>3
<1> QED BY <1>4 DEF T

\* One more on this tick is one more in every sum.
LEMMA SumsCount ==
  ASSUME NEW c \in Counts, NEW W, Sums(c, W), NEW V, Sums([c EXCEPT ![0] = @ + 1], V),
         NEW t \in 1 .. LoadWindow
  PROVE  V[t] = W[t] + 1
<1>0. LoadWindow \in Nat
  BY CookieAssumption
<1>1. PICK d : d = [c EXCEPT ![0] = @ + 1]
  OBVIOUS
<1>2. d[0] = c[0] + 1 /\ \A k \in 1 .. LoadWindow - 1 : d[k] = c[k]
  BY <1>0, <1>1 DEF Counts
<1> DEFINE T == {k \in 0 .. LoadWindow : k = 0 \/ V[k] = W[k] + 1}
<1>3. 0 \in T
  BY <1>0
<1>4. ASSUME NEW k \in 0 .. LoadWindow - 1, k \in T PROVE k + 1 \in T
  <2>1. k + 1 \in 1 .. LoadWindow /\ k + 1 - 1 = k
    BY <1>0
  <2>2. V[k + 1] = V[k] + d[k] /\ W[k + 1] = W[k] + c[k]
    BY <1>1, <2>1 DEF Sums
  <2>3. V[k] \in Nat /\ W[k] \in Nat /\ c[k] \in Nat /\ W[0] = 0 /\ V[0] = 0
    BY <1>0 DEF Sums, Counts
  <2>4. CASE k = 0
    BY <1>0, <1>2, <2>1, <2>2, <2>3, <2>4
  <2>5. CASE k # 0
    <3>1. d[k] = c[k] /\ V[k] = W[k] + 1
      BY <1>0, <1>2, <1>4, <2>5
    <3> QED BY <1>0, <2>1, <2>2, <2>3, <3>1
  <2> QED BY <2>4, <2>5
<1> HIDE DEF T
<1>5. t \in T
  BY <1>0, <1>3, <1>4, Induction
<1> QED BY <1>0, <1>5 DEF T

\* A tick moves every sum one place on.
LEMMA SumsShift ==
  ASSUME NEW c \in Counts, NEW W, Sums(c, W),
         NEW V, Sums([k \in DOMAIN c |-> IF k = 0 THEN 0 ELSE c[k - 1]], V),
         NEW t \in 0 .. LoadWindow - 1
  PROVE  V[t + 1] = W[t]
<1>0. LoadWindow \in Nat \ {0}
  BY CookieAssumption
<1>1. PICK d : d = [k \in DOMAIN c |-> IF k = 0 THEN 0 ELSE c[k - 1]]
  OBVIOUS
<1>2. d[0] = 0 /\ \A k \in 1 .. LoadWindow - 1 : d[k] = c[k - 1]
  BY <1>0, <1>1 DEF Counts
<1>3. Sums(d, V)
  BY <1>1
<1> DEFINE T == {k \in 0 .. LoadWindow - 1 : V[k + 1] = W[k]}
<1>4. 0 \in T
  <2>1. 1 \in 1 .. LoadWindow /\ 1 - 1 = 0
    BY <1>0
  <2>2. V[1] = V[0] + d[0] /\ V[0] = 0 /\ W[0] = 0
    BY <1>3, <2>1 DEF Sums
  <2> QED BY <1>0, <1>2, <2>2
<1>5. ASSUME NEW k \in 0 .. (LoadWindow - 1) - 1, k \in T PROVE k + 1 \in T
  <2>1. /\ k + 2 \in 1 .. LoadWindow /\ k + 2 - 1 = k + 1
        /\ k + 1 \in 1 .. LoadWindow - 1 /\ k + 1 - 1 = k
    BY <1>0
  <2>2. k + 1 \in 1 .. LoadWindow
    BY <1>0
  <2>3. V[k + 2] = V[k + 1] + d[k + 1] /\ W[k + 1] = W[k] + c[k]
    BY <1>3, <2>1, <2>2 DEF Sums
  <2>4. d[k + 1] = c[k] /\ V[k + 1] = W[k]
    BY <1>2, <1>5, <2>1
  <2>5. V[(k + 1) + 1] = W[k + 1]
    BY <2>1, <2>3, <2>4
  <2> QED BY <2>1, <2>5
<1> HIDE DEF T
<1>6. t \in T
  <2>1. \A k \in 0 .. LoadWindow - 1 : k \in T
    BY <1>0, <1>4, <1>5, Induction
  <2> QED BY <2>1
<1> QED BY <1>6 DEF T

LEMMA SumsOfNone ==
  ASSUME NEW c \in Counts, \A k \in 0 .. LoadWindow - 1 : c[k] = 0, NEW W, Sums(c, W),
         NEW t \in 0 .. LoadWindow
  PROVE  W[t] = 0
<1>0. LoadWindow \in Nat
  BY CookieAssumption
<1> DEFINE T == {k \in 0 .. LoadWindow : W[k] = 0}
<1>1. 0 \in T
  BY <1>0 DEF Sums
<1>2. ASSUME NEW k \in 0 .. LoadWindow - 1, k \in T PROVE k + 1 \in T
  <2>1. k + 1 \in 1 .. LoadWindow /\ k + 1 - 1 = k
    BY <1>0
  <2>2. W[k + 1] = W[k] + c[k] /\ W[k] = 0 /\ c[k] = 0
    BY <1>2, <2>1 DEF Sums
  <2> QED BY <1>0, <2>1, <2>2
<1> HIDE DEF T
<1>3. t \in T
  BY <1>0, <1>1, <1>2, Induction
<1> QED BY <1>3 DEF T

-----------------------------------------------------------------------------
(* The buckets.                                                            *)

Expired == (now - device.init_window_start) % ClockMod >= LoadWindow

\* The current bucket began in tick b, or later, and none begins before it has
\* lasted a window, up to the tick by which the clock is wrong.
BeganIn(b) ==
  /\ b <= elapsed
  /\ \A e \in Nat :
       elapsed <= e /\ (ClockAt(e) - device.init_window_start) % ClockMod >= LoadWindow
         => e - b >= LoadWindow - 1

\* How many of the last ticks are the bucket's.
Lasted(b) == IF elapsed - b + 1 <= LoadWindow THEN elapsed - b + 1 ELSE LoadWindow

\* The work of the current bucket, and of what came before it in the window.
BucketWork(b) ==
  /\ WorkIn[Lasted(b)] <= device.init_count
  /\ WorkIn[Lasted(b)] <= LOAD_THRESHOLD
  /\ WorkIn[LoadWindow] - WorkIn[Lasted(b)] <= LOAD_THRESHOLD

Buckets ==
  /\ cheap \in Counts
  /\ cheap[0] > 0 => ~Expired
  /\ \E b \in Int : BeganIn(b) /\ BucketWork(b)

LEMMA LastedTypes ==
  ASSUME elapsed \in Nat, NEW b \in Int, b <= elapsed
  PROVE  Lasted(b) \in 1 .. LoadWindow /\ LoadWindow \in Nat \ {0}
BY CookieAssumption DEF Lasted

\* Counting in the current bucket, under load or not working on the initiation.
LEMMA BucketKept ==
  ASSUME Buckets, elapsed \in Nat, UNCHANGED <<boot, elapsed, cheap>>,
         device.init_count \in Nat, device'.init_count \in Nat,
         device'.init_window_start = device.init_window_start,
         device.init_count <= device'.init_count
  PROVE  Buckets'
<1>1. PICK b \in Int : BeganIn(b) /\ BucketWork(b)
  BY DEF Buckets
<1>2. WorkIn' = WorkIn /\ Lasted(b)' = Lasted(b)
  BY DEF WorkIn, Lasted
<1>3. BeganIn(b)'
  BY <1>1 DEF BeganIn, ClockAt
<1>4. WorkIn[Lasted(b)] \in Nat
  BY <1>1, LastedTypes, WorkInSums DEF Sums, Buckets, BeganIn
<1>5. BucketWork(b)'
  BY <1>1, <1>2, <1>4 DEF BucketWork
<1>6. (cheap \in Counts)' /\ (cheap[0] > 0 => ~Expired)'
  BY DEF Buckets, Expired, Counts, now, wireguard_sys_now
<1> QED BY <1>3, <1>5, <1>6 DEF Buckets

LEMMA CountsOneMore ==
  ASSUME NEW c \in Counts
  PROVE  [c EXCEPT ![0] = @ + 1] \in Counts /\ [c EXCEPT ![0] = @ + 1][0] = c[0] + 1
<1>1. 0 \in 0 .. LoadWindow - 1
  BY CookieAssumption
<1> QED BY <1>1 DEF Counts

\* Working on an initiation in the current bucket.
LEMMA BucketCounted ==
  ASSUME Buckets, elapsed \in Nat, UNCHANGED <<boot, elapsed>>, ~Expired,
         cheap' = [cheap EXCEPT ![0] = @ + 1],
         device.init_count \in Nat, device'.init_count = device.init_count + 1,
         device'.init_window_start = device.init_window_start,
         device'.init_count <= LOAD_THRESHOLD
  PROVE  Buckets'
<1>1. PICK b \in Int : BeganIn(b) /\ BucketWork(b)
  BY DEF Buckets
<1>2. Lasted(b)' = Lasted(b) /\ Lasted(b) \in 1 .. LoadWindow /\ LoadWindow \in 1 .. LoadWindow
  BY <1>1, LastedTypes DEF Lasted, BeganIn
<1>3. PICK k \in 1 .. LoadWindow : k = Lasted(b)
  BY <1>2
<1>4. BeganIn(b)'
  BY <1>1 DEF BeganIn, ClockAt
<1>5. cheap \in Counts /\ cheap' \in Counts
  BY CountsOneMore DEF Buckets
<1>6. Sums(cheap, WorkIn)
  BY <1>5, WorkInSums
<1>7. Sums([cheap EXCEPT ![0] = @ + 1], WorkIn')
  BY <1>5, WorkInSums
<1>8. \A t \in 1 .. LoadWindow : WorkIn'[t] = WorkIn[t] + 1
  BY ONLY <1>5, <1>6, <1>7, SumsCount
<1>9. WorkIn'[k] = WorkIn[k] + 1 /\ WorkIn'[LoadWindow] = WorkIn[LoadWindow] + 1
  BY <1>2, <1>8
<1>10. WorkIn[k] \in Nat /\ WorkIn[LoadWindow] \in Nat
  <2>1. WorkIn \in [0 .. LoadWindow -> Nat]
    BY <1>6 DEF Sums
  <2>2. k \in 0 .. LoadWindow /\ LoadWindow \in 0 .. LoadWindow
    BY <1>2
  <2> QED BY ONLY <2>1, <2>2
<1>11. /\ WorkIn[k] <= device.init_count /\ WorkIn[k] <= LOAD_THRESHOLD
       /\ WorkIn[LoadWindow] - WorkIn[k] <= LOAD_THRESHOLD /\ LOAD_THRESHOLD \in Nat
  BY <1>1, <1>3, CookieAssumption DEF BucketWork
<1>12. /\ WorkIn'[k] <= device'.init_count /\ WorkIn'[k] <= LOAD_THRESHOLD
       /\ WorkIn'[LoadWindow] - WorkIn'[k] <= LOAD_THRESHOLD
  BY <1>9, <1>10, <1>11
<1>13. BucketWork(b)'
  BY <1>2, <1>3, <1>12 DEF BucketWork
<1>14. ~Expired'
  BY DEF Expired, now, wireguard_sys_now
<1> QED BY <1>4, <1>5, <1>13, <1>14 DEF Buckets, Counts

\* The first initiation of a bucket, worked on or not: whatever the window held
\* was work of the bucket before.
LEMMA BucketStarted ==
  ASSUME Buckets, elapsed \in Nat, boot \in BootTimes, UNCHANGED <<boot, elapsed>>, Expired,
         \/ cheap' = cheap
         \/ cheap' = [cheap EXCEPT ![0] = @ + 1] /\ device'.init_count <= LOAD_THRESHOLD,
         device'.init_window_start = now, device'.init_count = 1
  PROVE  Buckets'
<1>1. PICK b \in Int : BeganIn(b) /\ BucketWork(b)
  BY DEF Buckets
<1>2. LoadWindow \in Nat \ {0} /\ LOAD_THRESHOLD \in Nat /\ ClockMod \in Nat
  BY CookieAssumption
<1>3. elapsed - b >= LoadWindow - 1
  BY <1>1, NowIsClock DEF BeganIn, Expired
<1>4. Lasted(b) = LoadWindow
  BY <1>2, <1>3 DEF Lasted
<1>5. WorkIn[LoadWindow] <= LOAD_THRESHOLD
  BY <1>1, <1>4 DEF BucketWork
<1>6. cheap \in Counts /\ cheap[0] = 0
  BY <1>2 DEF Buckets, Counts
<1>7. cheap' \in Counts
  BY <1>6, CountsOneMore
<1>8. Sums(cheap, WorkIn)
  BY <1>6, WorkInSums
<1>9. Sums(cheap', WorkIn')
  BY <1>7, WorkInSums
<1>10. 1 \in 1 .. LoadWindow /\ LoadWindow \in 1 .. LoadWindow /\ 1 - 1 = 0
  BY <1>2
<1>11. WorkIn[1] = 0 /\ WorkIn[LoadWindow] \in Nat
  BY <1>2, <1>6, <1>8, <1>10 DEF Sums
<1>12. /\ WorkIn'[1] <= 1 /\ WorkIn'[1] <= LOAD_THRESHOLD
       /\ WorkIn'[LoadWindow] - WorkIn'[1] <= LOAD_THRESHOLD
  <2>1. CASE cheap' = cheap
    <3>1. WorkIn' = WorkIn
      BY <2>1 DEF WorkIn
    <3> QED BY <1>2, <1>5, <1>11, <3>1
  <2>2. CASE cheap' = [cheap EXCEPT ![0] = @ + 1] /\ device'.init_count <= LOAD_THRESHOLD
    <3>1. Sums([cheap EXCEPT ![0] = @ + 1], WorkIn')
      BY <1>9, <2>2
    <3>2. \A t \in 1 .. LoadWindow : WorkIn'[t] = WorkIn[t] + 1
      BY <1>6, <1>8, <3>1, SumsCount
    <3>3. WorkIn'[1] = WorkIn[1] + 1 /\ WorkIn'[LoadWindow] = WorkIn[LoadWindow] + 1
      BY <1>10, <3>2
    <3> QED BY <1>2, <1>5, <1>11, <2>2, <3>3
  <2> QED BY <2>1, <2>2
<1>13. PICK t \in Int : t = elapsed
  OBVIOUS
<1>14. Lasted(t)' = 1
  BY <1>2, <1>13 DEF Lasted
<1>15. BucketWork(t)'
  BY <1>12, <1>14 DEF BucketWork
<1>16. BeganIn(t)'
  <2>1. SUFFICES ASSUME NEW e \in Nat, elapsed <= e,
                        (ClockAt(e) - ClockAt(elapsed)) % ClockMod >= LoadWindow
                 PROVE  e - elapsed >= LoadWindow - 1
    BY <1>13, NowIsClock DEF BeganIn, ClockAt
  <2>2. SpanOf(elapsed, e) \in Nat /\ SpanOf(elapsed, e) <= e - elapsed + 1
    BY <2>1, SpanIsRight
  <2> QED BY <1>2, <2>1, <2>2 DEF SpanOf
<1>17. ~Expired'
  <2>1. now' = now /\ now \in Int
    BY NowTypes DEF now, wireguard_sys_now, Clock
  <2>2. (now - now) % ClockMod = 0
    BY <2>1, CookieAssumption
  <2> QED BY <1>2, <2>1, <2>2 DEF Expired
<1> QED BY <1>7, <1>13, <1>15, <1>16, <1>17 DEF Buckets, Counts

\* A tick later the bucket and what came before it are a tick older.
LEMMA BucketTick ==
  ASSUME Buckets, elapsed \in Nat, elapsed' = elapsed + 1, UNCHANGED <<boot, device>>,
         device.init_count \in Nat,
         cheap' = [t \in DOMAIN cheap |-> IF t = 0 THEN 0 ELSE cheap[t - 1]]
  PROVE  Buckets'
<1>1. PICK b \in Int : BeganIn(b) /\ BucketWork(b)
  BY DEF Buckets
<1>2. LoadWindow \in Nat \ {0} /\ LOAD_THRESHOLD \in Nat /\ device' = device
  BY CookieAssumption
<1>3. cheap \in Counts
  BY DEF Buckets
<1>4. cheap' \in Counts /\ cheap'[0] = 0
  BY <1>2, <1>3 DEF Counts
<1>5. Sums(cheap, WorkIn)
  BY <1>3, WorkInSums
<1>6. Sums(cheap', WorkIn')
  BY <1>4, WorkInSums
<1>7. \A t \in 0 .. LoadWindow - 1 : WorkIn'[t + 1] = WorkIn[t]
  BY <1>3, <1>5, <1>6, SumsShift
<1>8. Lasted(b) \in 1 .. LoadWindow /\ b <= elapsed
  BY <1>1, LastedTypes DEF BeganIn
<1>9. PICK k \in 1 .. LoadWindow : k = Lasted(b)
  BY <1>8
<1>10. Lasted(b)' = IF k < LoadWindow THEN k + 1 ELSE LoadWindow
  BY <1>2, <1>8, <1>9 DEF Lasted
<1>11. /\ WorkIn[k] <= device.init_count /\ WorkIn[k] <= LOAD_THRESHOLD
       /\ WorkIn[LoadWindow] - WorkIn[k] <= LOAD_THRESHOLD
  BY <1>1, <1>9 DEF BucketWork
<1>12. WorkIn'[LoadWindow] = WorkIn[LoadWindow - 1] /\ WorkIn[LoadWindow - 1] <= WorkIn[LoadWindow]
  <2>1. /\ LoadWindow - 1 \in 0 .. LoadWindow - 1 /\ LoadWindow - 1 \in 0 .. LoadWindow
        /\ LoadWindow - 1 + 1 = LoadWindow
    BY <1>2
  <2> QED BY <1>3, <1>5, <1>7, <2>1, SumsGrow
<1>13. WorkIn[k] \in Nat /\ WorkIn[LoadWindow] \in Nat /\ WorkIn[LoadWindow - 1] \in Nat
  BY <1>2, <1>5 DEF Sums
<1>14. BucketWork(b)'
  <2>1. CASE k < LoadWindow
    <3>1. k \in 0 .. LoadWindow - 1
      BY <1>2, <2>1
    <3>2. WorkIn'[k + 1] = WorkIn[k]
      BY <1>7, <3>1
    <3>3. Lasted(b)' = k + 1
      BY <1>10, <2>1
    <3>4. WorkIn'[LoadWindow] - WorkIn'[k + 1] <= LOAD_THRESHOLD
      BY <1>2, <1>11, <1>12, <1>13, <3>2
    <3> QED BY <1>2, <1>11, <3>2, <3>3, <3>4 DEF BucketWork
  <2>2. CASE k = LoadWindow
    <3>1. Lasted(b)' = LoadWindow
      BY <1>10, <2>2
    <3>2. /\ WorkIn'[LoadWindow] <= WorkIn[k] /\ WorkIn'[LoadWindow] \in Nat
          /\ WorkIn'[LoadWindow] - WorkIn'[LoadWindow] = 0
      BY <1>12, <1>13, <2>2
    <3>3. WorkIn'[LoadWindow] <= device.init_count
      BY <1>11, <1>13, <3>2
    <3>4. WorkIn'[LoadWindow] <= LOAD_THRESHOLD /\ 0 <= LOAD_THRESHOLD
      BY <1>2, <1>11, <1>13, <3>2
    <3> QED BY <1>2, <3>1, <3>2, <3>3, <3>4 DEF BucketWork
  <2> QED BY <1>2, <2>1, <2>2
<1>15. BeganIn(b)'
  <2>1. b <= elapsed'
    BY <1>8
  <2>2. ASSUME NEW e \in Nat, elapsed' <= e,
               (ClockAt(e) - device.init_window_start) % ClockMod >= LoadWindow
        PROVE  e - b >= LoadWindow - 1
    <3>1. elapsed <= e
      BY <2>2
    <3> QED BY <1>1, <2>2, <3>1 DEF BeganIn
  <2> QED BY <1>2, <2>1, <2>2 DEF BeganIn, ClockAt
<1> QED BY <1>4, <1>14, <1>15 DEF Buckets, Counts

\* A new device has counted nothing, and no bucket began in the window.
NoWork ==
  /\ device.init_count = 0
  /\ cheap \in Counts /\ \A t \in 0 .. LoadWindow - 1 : cheap[t] = 0

LEMMA BucketNew == NoWork /\ elapsed \in Nat => Buckets
<1> SUFFICES ASSUME NoWork, elapsed \in Nat PROVE Buckets
  OBVIOUS
<1>1. LoadWindow \in Nat \ {0} /\ LOAD_THRESHOLD \in Nat
  BY CookieAssumption
<1>2. PICK b \in Int : b = elapsed - LoadWindow
  BY <1>1
<1>3. BeganIn(b)
  BY <1>1, <1>2 DEF BeganIn
<1>4. \A t \in 0 .. LoadWindow : WorkIn[t] = 0
  BY WorkInSums, SumsOfNone DEF NoWork
<1>5. Lasted(b) \in 0 .. LoadWindow /\ LoadWindow \in 0 .. LoadWindow
  BY <1>1, <1>2, <1>3, LastedTypes DEF BeganIn
<1>6. BucketWork(b)
  BY <1>1, <1>4, <1>5 DEF BucketWork, NoWork
<1>7. cheap[0] = 0
  BY <1>1 DEF NoWork
<1> QED BY <1>3, <1>6, <1>7 DEF Buckets, NoWork

\* What counting does to a device, with the secret it had or a new one.
LEMMA CountedIs ==
  ASSUME device \in Device, NEW d \in Device,
         d.init_window_start = device.init_window_start, d.init_count = device.init_count
  PROVE  /\ Expired => Counted(d).init_window_start = now /\ Counted(d).init_count = 1
         /\ ~Expired => /\ Counted(d).init_window_start = device.init_window_start
                        /\ Counted(d).init_count = device.init_count + 1
<1>1. /\ [d EXCEPT !.init_window_start = now, !.init_count = 1].init_window_start = now
      /\ [d EXCEPT !.init_window_start = now, !.init_count = 1].init_count = 1
  BY DEF Device
<1>2. /\ [d EXCEPT !.init_count = @ + 1].init_window_start = d.init_window_start
      /\ [d EXCEPT !.init_count = @ + 1].init_count = d.init_count + 1
  BY DEF Device
<1> QED BY <1>1, <1>2 DEF Counted, Expired

LEMMA SecretInUseCounts ==
  ASSUME device \in Device
  PROVE  /\ SecretInUse.init_window_start = device.init_window_start
         /\ SecretInUse.init_count = device.init_count
<1>1. PICK d : d = [device EXCEPT !.cookie_secret = @ + 1, !.cookie_secret_millis = now]
  OBVIOUS
<1>2. d.init_window_start = device.init_window_start /\ d.init_count = device.init_count
  BY <1>1 DEF Device
<1> QED BY <1>1, <1>2 DEF SecretInUse

LEMMA InitBuckets == Init => Buckets
<1> SUFFICES ASSUME Init PROVE Buckets
  OBVIOUS
<1>1. device.init_count = 0 /\ elapsed \in Nat
  BY DEF Init, NewDevice
<1>2. cheap \in Counts /\ \A t \in 0 .. LoadWindow - 1 : cheap[t] = 0
  BY DEF Init, Counts
<1> QED BY <1>1, <1>2, BucketNew DEF NoWork

LEMMA BucketsStep ==
  ASSUME IInv, Buckets, [Next]_vars
  PROVE  Buckets'
<1>0. /\ elapsed \in Nat /\ boot \in BootTimes /\ device \in Device /\ now \in Clock
      /\ device.init_count \in Nat /\ LOAD_THRESHOLD \in Nat
  BY NowOfInv, CookieAssumption DEF IInv, TypeOK, Device
<1>1. ASSUME UNCHANGED <<boot, elapsed, device, cheap>> PROVE Buckets'
  BY <1>0, <1>1, BucketKept
<1>2. CASE \E m \in network : ReceiveInitiation(m)
  <2>1. /\ device' = Counted(device) /\ Counted(device).init_count <= LOAD_THRESHOLD
        /\ cheap' = [cheap EXCEPT ![0] = @ + 1] /\ UNCHANGED <<boot, elapsed>>
    <3>1. Counted(device).init_count \in Nat
      BY <1>0, CountedTypes DEF Device
    <3> QED BY <1>0, <1>2, <3>1 DEF ReceiveInitiation, UnderLoad
  <2>2. CASE Expired
    <3>1. device'.init_window_start = now /\ device'.init_count = 1
      BY <1>0, <2>1, <2>2, CountedIs
    <3> QED BY <1>0, <2>1, <2>2, <3>1, BucketStarted
  <2>3. CASE ~Expired
    <3>1. /\ device'.init_window_start = device.init_window_start
          /\ device'.init_count = device.init_count + 1
      BY <1>0, <2>1, <2>3, CountedIs
    <3> QED BY <1>0, <2>1, <2>3, <3>1, BucketCounted
  <2> QED BY <2>2, <2>3
<1>3. CASE \E m \in network : ReceiveInitiationUnderLoad(m)
  <2>1. PICK d : d = SecretInUse
    OBVIOUS
  <2>2. device' = Counted(d) /\ UNCHANGED <<boot, elapsed, cheap>>
    BY <1>3, <2>1 DEF ReceiveInitiationUnderLoad
  <2>3. /\ d \in Device
        /\ d.init_window_start = device.init_window_start /\ d.init_count = device.init_count
    BY <1>0, <2>1, SecretTypes, SecretInUseCounts
  <2>4. CASE Expired
    <3>1. device'.init_window_start = now /\ device'.init_count = 1
      BY <1>0, <2>2, <2>3, <2>4, CountedIs
    <3> QED BY <1>0, <2>2, <2>4, <3>1, BucketStarted
  <2>5. CASE ~Expired
    <3>1. /\ device'.init_window_start = device.init_window_start
          /\ device'.init_count = device.init_count + 1
      BY <1>0, <2>2, <2>3, <2>5, CountedIs
    <3> QED BY <1>0, <2>2, <3>1, BucketKept
  <2> QED BY <2>4, <2>5
<1>4. CASE wireguard_device_init
  <2>1. /\ device' = NewDevice(device.cookie_secret + 1) /\ elapsed' = elapsed
        /\ cheap' = [t \in DOMAIN cheap |-> 0]
    BY <1>4 DEF wireguard_device_init
  <2>2. device'.init_count = 0
    BY <2>1 DEF NewDevice
  <2>3. cheap' \in Counts /\ \A t \in 0 .. LoadWindow - 1 : cheap'[t] = 0
    BY <2>1 DEF Buckets, Counts
  <2>4. NoWork'
    BY <2>2, <2>3 DEF NoWork, Counts
  <2>5. (NoWork /\ elapsed \in Nat => Buckets)'
    BY BucketNew, PTL
  <2> QED BY <1>0, <2>1, <2>4, <2>5
<1>5. CASE \E m \in network : ReceiveCookieReply(m) \/ ReceiveResponse(m)
  BY <1>1, <1>5 DEF ReceiveCookieReply, ReceiveResponse
<1>6. CASE \E i \in Peer : wg_run_timers(i) \/ Move(i)
  BY <1>1, <1>6 DEF wg_run_timers, Move
<1>7. CASE Tick
  BY <1>0, <1>7, BucketTick DEF Tick
<1>8. CASE UNCHANGED vars
  BY <1>1, <1>8 DEF vars
<1> QED BY <1>2, <1>3, <1>4, <1>5, <1>6, <1>7, <1>8 DEF Next

LEMMA BucketsInv == Spec => []Buckets
<1>1. IInv /\ Buckets /\ [Next]_vars => Buckets'
  BY BucketsStep
<1> QED BY <1>1, InitBuckets, CookieInv, PTL DEF Spec

\* In no second are more initiations without a cookie worked on than twice the
\* threshold, whatever the two are, wherever the clock wraps and however long the
\* run (wg_under_load).
THEOREM WorkIsBounded == Spec => []WorkBounded
<1>1. IInv /\ Buckets => WorkBounded
  <2> SUFFICES ASSUME IInv, Buckets PROVE WorkBounded
    OBVIOUS
  <2>1. PICK b \in Int : BeganIn(b) /\ BucketWork(b)
    BY DEF Buckets
  <2>2. elapsed \in Nat /\ LOAD_THRESHOLD \in Nat
    BY CookieAssumption DEF IInv, TypeOK
  <2>3. Lasted(b) \in 1 .. LoadWindow /\ LoadWindow \in 1 .. LoadWindow
    BY <2>1, <2>2, LastedTypes DEF BeganIn
  <2>4. WorkIn[Lasted(b)] \in Nat /\ WorkIn[LoadWindow] \in Nat
    BY <2>3, WorkInSums DEF Sums, Buckets
  <2> QED BY <2>1, <2>2, <2>4 DEF BucketWork, WorkBounded
<1> QED BY <1>1, CookieInv, BucketsInv, PTL

-----------------------------------------------------------------------------
(* The secrets and the cookies made with them.                             *)

\* What is kept of a secret: when it was drawn, for each that ever was, and
\* that reading of the clock, for the current one.
SecretAges ==
  /\ DOMAIN born = 1 .. device.cookie_secret
  /\ \A s \in DOMAIN born : born[s] \in 0 .. elapsed
  /\ device.cookie_secret_millis = ClockAt(born[device.cookie_secret])

Answered(c) == \E r \in network : r.type = "cookie" /\ r.cookie = c

\* A cookie that anyone holds or uses was sent, made with a secret that was drawn.
CookiesAreSent ==
  /\ \A r \in network : r.type = "cookie" => r.cookie.secret \in 1 .. device.cookie_secret
  /\ \A i \in Peer : peer[i].cookie = NoCookie \/ Answered(peer[i].cookie)
  /\ \A m \in network : m.type = "initiation" => m.mac2 = NoCookie \/ Answered(m.mac2)

SecretInv == SecretAges /\ CookiesAreSent

\* A device that keeps its secret keeps the invariant.
LEMMA SecretKept ==
  ASSUME SecretAges, elapsed \in Nat, elapsed' \in Nat, elapsed <= elapsed', boot' = boot,
         born' = born, device'.cookie_secret = device.cookie_secret,
         device'.cookie_secret_millis = device.cookie_secret_millis
  PROVE  SecretAges'
<1>1. \A s \in DOMAIN born' : born'[s] \in 0 .. elapsed'
  BY DEF SecretAges
<1>2. DOMAIN born' = 1 .. device'.cookie_secret
  BY DEF SecretAges
<1>3. device'.cookie_secret_millis = ClockAt(born[device.cookie_secret])
  BY DEF SecretAges
<1>4. (device.cookie_secret_millis = ClockAt(born[device.cookie_secret]))'
  BY <1>3 DEF ClockAt
<1> QED BY <1>1, <1>2, <1>4 DEF SecretAges

\* The next secret is as old as the step that draws it.
LEMMA SecretDrawn ==
  ASSUME SecretAges, device.cookie_secret \in Nat, elapsed \in Nat, UNCHANGED <<boot, elapsed>>,
         NEW d, d.cookie_secret = device.cookie_secret + 1, Drawn(d),
         device'.cookie_secret = d.cookie_secret, device'.cookie_secret_millis = now
  PROVE  SecretAges'
<1>1. PICK n \in Nat : n = device.cookie_secret
  OBVIOUS
<1>2. DOMAIN born = 1 .. n /\ d.cookie_secret = n + 1 /\ n + 1 \notin DOMAIN born
  BY <1>1 DEF SecretAges
<1>3. born' = [s \in 1 .. n + 1 |-> IF s = n + 1 THEN elapsed ELSE born[s]]
  <2>1. DOMAIN born \cup {n + 1} = 1 .. n + 1
    BY <1>2
  <2> QED BY <1>2, <2>1 DEF Drawn
<1>4. \A s \in 1 .. n + 1 : born'[s] \in 0 .. elapsed
  BY <1>2, <1>3 DEF SecretAges
<1>5. born'[n + 1] = elapsed
  BY <1>3
<1>6. DOMAIN born' = 1 .. n + 1
  BY <1>3
<1>7. (device.cookie_secret_millis = ClockAt(born[device.cookie_secret]))'
  <2>1. device'.cookie_secret_millis = ClockAt(elapsed)
    BY NowIsClock
  <2>2. born'[device'.cookie_secret] = elapsed
    BY <1>2, <1>5
  <2> QED BY <2>1, <2>2 DEF ClockAt
<1> QED BY <1>2, <1>4, <1>6, <1>7 DEF SecretAges

\* Counting an initiation leaves the secret alone.
LEMMA CountedSecret ==
  ASSUME NEW d \in Device
  PROVE  /\ Counted(d).cookie_secret = d.cookie_secret
         /\ Counted(d).cookie_secret_millis = d.cookie_secret_millis
<1>1. /\ [d EXCEPT !.init_window_start = now, !.init_count = 1].cookie_secret = d.cookie_secret
      /\ [d EXCEPT !.init_window_start = now, !.init_count = 1].cookie_secret_millis
           = d.cookie_secret_millis
  BY DEF Device
<1>2. /\ [d EXCEPT !.init_count = @ + 1].cookie_secret = d.cookie_secret
      /\ [d EXCEPT !.init_count = @ + 1].cookie_secret_millis = d.cookie_secret_millis
  BY DEF Device
<1> QED BY <1>1, <1>2 DEF Counted

LEMMA SecretInUseIs ==
  ASSUME device \in Device
  PROVE  \/ /\ wireguard_expired(device.cookie_secret_millis, COOKIE_SECRET_MAX_AGE)
            /\ SecretInUse.cookie_secret = device.cookie_secret + 1
            /\ SecretInUse.cookie_secret_millis = now
         \/ /\ ~wireguard_expired(device.cookie_secret_millis, COOKIE_SECRET_MAX_AGE)
            /\ SecretInUse = device
<1>1. PICK d : d = [device EXCEPT !.cookie_secret = @ + 1, !.cookie_secret_millis = now]
  OBVIOUS
<1>2. d.cookie_secret = device.cookie_secret + 1 /\ d.cookie_secret_millis = now
  BY <1>1 DEF Device
<1> QED BY <1>1, <1>2 DEF SecretInUse

\* Secrets only grow in number.
LEMMA SecretAgesStep ==
  ASSUME IInv, SecretAges, [Next]_vars
  PROVE  /\ SecretAges' /\ device'.cookie_secret \in Nat
         /\ device.cookie_secret <= device'.cookie_secret
<1>0. /\ elapsed \in Nat /\ device \in Device /\ now \in Clock /\ device.cookie_secret \in Nat
      /\ device.cookie_secret \in DOMAIN born
  BY NowOfInv, CookieAssumption DEF IInv, TypeOK, SecretAges, Device
<1>1. ASSUME UNCHANGED <<boot, born, device>>, elapsed' \in Nat, elapsed <= elapsed'
      PROVE  /\ SecretAges' /\ device'.cookie_secret \in Nat
             /\ device.cookie_secret <= device'.cookie_secret
  BY <1>0, <1>1, SecretKept
<1>2. CASE \E m \in network : ReceiveInitiation(m)
  <2>1. device' = Counted(device) /\ UNCHANGED <<boot, elapsed, born>>
    BY <1>2 DEF ReceiveInitiation
  <2>2. /\ device'.cookie_secret = device.cookie_secret
        /\ device'.cookie_secret_millis = device.cookie_secret_millis
    BY <1>0, <2>1, CountedSecret
  <2> QED BY <1>0, <2>1, <2>2, SecretKept
<1>3. CASE \E m \in network : ReceiveInitiationUnderLoad(m)
  <2>1. PICK d : d = SecretInUse
    OBVIOUS
  <2>2. device' = Counted(d) /\ Drawn(d) /\ UNCHANGED <<boot, elapsed>>
    BY <1>3, <2>1 DEF ReceiveInitiationUnderLoad
  <2>3. d \in Device
    BY <1>0, <2>1, SecretTypes
  <2>4. /\ device'.cookie_secret = d.cookie_secret
        /\ device'.cookie_secret_millis = d.cookie_secret_millis
    BY <2>2, <2>3, CountedSecret
  <2>5. CASE d.cookie_secret = device.cookie_secret + 1 /\ d.cookie_secret_millis = now
    BY <1>0, <2>2, <2>4, <2>5, SecretDrawn
  <2>6. CASE d = device
    <3>1. born' = born
      BY <1>0, <2>2, <2>6 DEF Drawn
    <3> QED BY <1>0, <2>2, <2>4, <2>6, <3>1, SecretKept
  <2> QED BY <1>0, <2>1, <2>5, <2>6, SecretInUseIs
<1>4. CASE wireguard_device_init
  <2>1. PICK d : d = NewDevice(device.cookie_secret + 1)
    OBVIOUS
  <2>2. device' = d /\ Drawn(d) /\ UNCHANGED <<boot, elapsed>>
    BY <1>4, <2>1 DEF wireguard_device_init, Drawn
  <2>3. d.cookie_secret = device.cookie_secret + 1 /\ d.cookie_secret_millis = now
    BY <2>1 DEF NewDevice
  <2> QED BY <1>0, <2>2, <2>3, SecretDrawn
<1>5. CASE \E m \in network : ReceiveCookieReply(m) \/ ReceiveResponse(m)
  BY <1>0, <1>1, <1>5 DEF ReceiveCookieReply, ReceiveResponse
<1>6. CASE \E i \in Peer : wg_run_timers(i) \/ Move(i)
  BY <1>0, <1>1, <1>6 DEF wg_run_timers, Move
<1>7. CASE Tick
  BY <1>0, <1>1, <1>7 DEF Tick
<1>8. CASE UNCHANGED vars
  BY <1>0, <1>1, <1>8 DEF vars
<1> QED BY <1>2, <1>3, <1>4, <1>5, <1>6, <1>7, <1>8 DEF Next

\* One more message: a reply with a secret that was drawn, or an initiation
\* with a cookie that was sent.
LEMMA CookiesGrow ==
  ASSUME CookiesAreSent, device.cookie_secret \in Nat, device'.cookie_secret \in Nat,
         device.cookie_secret <= device'.cookie_secret,
         network \subseteq network',
         \A n \in network' \ network :
            /\ n.type = "cookie" => n.cookie.secret \in 1 .. device'.cookie_secret
            /\ n.type = "initiation" => n.mac2 = NoCookie \/ Answered(n.mac2),
         \A i \in Peer : peer'[i].cookie = NoCookie \/ Answered(peer'[i].cookie)
  PROVE  CookiesAreSent'
<1>1. ASSUME NEW c, Answered(c) PROVE \E r \in network' : r.type = "cookie" /\ r.cookie = c
  BY <1>1 DEF Answered
<1>2. \A r \in network' : r.type = "cookie" => r.cookie.secret \in 1 .. device'.cookie_secret
  <2> SUFFICES ASSUME NEW r \in network', r.type = "cookie"
               PROVE  r.cookie.secret \in 1 .. device'.cookie_secret
    OBVIOUS
  <2>1. CASE r \in network
    BY <2>1 DEF CookiesAreSent
  <2> QED BY <2>1
<1>3. \A i \in Peer : (peer[i].cookie = NoCookie \/ Answered(peer[i].cookie))'
  BY <1>1 DEF Answered
<1>4. ASSUME NEW m \in network', m.type = "initiation"
      PROVE  m.mac2 = NoCookie \/ \E r \in network' : r.type = "cookie" /\ r.cookie = m.mac2
  <2>1. m.mac2 = NoCookie \/ Answered(m.mac2)
    BY <1>4 DEF CookiesAreSent
  <2> QED BY <1>1, <2>1
<1> QED BY <1>2, <1>3, <1>4 DEF CookiesAreSent, Answered

\* The mac2 of an initiation is made with the cookie the initiator holds.
LEMMA CookiesStartHandshake ==
  ASSUME IInv, CookiesAreSent, NEW i \in Peer, NEW p \in PeerRecord,
         p.cookie = NoCookie \/ Answered(p.cookie),
         wg_start_handshake(i, p), device' = device
  PROVE  CookiesAreSent'
<1>1. PICK n : n = Initiation(i, fresh', p.source, CookieToUse(p))
  OBVIOUS
<1>2. n.type = "initiation" /\ n.mac2 = CookieToUse(p)
  BY <1>1 DEF Initiation
<1>3. network' = network \cup {n}
  BY <1>1 DEF wg_start_handshake
<1>4. n.mac2 = NoCookie \/ Answered(n.mac2)
  BY <1>2 DEF CookieToUse
<1>5. PICK q : q = [p EXCEPT !.handshake = fresh', !.mac1 = fresh',
                             !.last_initiation_tx = now, !.sent = elapsed]
  OBVIOUS
<1>6. q.cookie = p.cookie
  BY <1>5 DEF PeerRecord
<1>7. peer' = [peer EXCEPT ![i] = q] /\ peer \in [Peer -> PeerRecord]
  BY <1>5 DEF wg_start_handshake, IInv, TypeOK, PeerRecord
<1>8. ASSUME NEW j \in Peer PROVE peer'[j].cookie = NoCookie \/ Answered(peer'[j].cookie)
  <2>1. CASE j = i
    BY <1>6, <1>7, <2>1
  <2>2. CASE j # i
    BY <1>7, <2>2 DEF CookiesAreSent
  <2> QED BY <2>1, <2>2
<1>9. device.cookie_secret \in Nat
  BY DEF IInv, TypeOK
<1> QED BY <1>2, <1>3, <1>4, <1>8, <1>9, CookiesGrow

\* Nothing the initiators hold, and no cookie sent.
LEMMA CookiesKept ==
  ASSUME CookiesAreSent, device.cookie_secret \in Nat, device'.cookie_secret \in Nat,
         device.cookie_secret <= device'.cookie_secret,
         network \subseteq network', \A n \in network' \ network : n.type = "response",
         \A i \in Peer : peer'[i].cookie = peer[i].cookie
  PROVE  CookiesAreSent'
<1>1. \A i \in Peer : peer'[i].cookie = NoCookie \/ Answered(peer'[i].cookie)
  BY DEF CookiesAreSent
<1> QED BY <1>1, CookiesGrow

LEMMA ProcessSends ==
  ASSUME NEW m, Process(m)
  PROVE  network \subseteq network' /\ \A n \in network' \ network : n.type = "response"
BY DEF Process, Response

LEMMA CookiesStep ==
  ASSUME IInv, SecretAges, CookiesAreSent, [Next]_vars
  PROVE  CookiesAreSent'
<1>0. /\ device.cookie_secret \in Nat /\ device'.cookie_secret \in Nat
      /\ device.cookie_secret <= device'.cookie_secret
      /\ peer \in [Peer -> PeerRecord]
  BY SecretAgesStep DEF IInv, TypeOK, PeerRecord
<1>1. ASSUME network' = network, \A i \in Peer : peer'[i].cookie = peer[i].cookie
      PROVE  CookiesAreSent'
  BY <1>0, <1>1, CookiesKept
<1>2. ASSUME NEW m \in network, ReceiveInitiation(m) PROVE CookiesAreSent'
  <2>1. Process(m) /\ peer' = peer
    BY <1>2 DEF ReceiveInitiation
  <2> QED BY <1>0, <2>1, ProcessSends, CookiesKept
<1>3. ASSUME NEW m \in network, ReceiveInitiationUnderLoad(m) PROVE CookiesAreSent'
  <2>1. PICK d : d = SecretInUse
    OBVIOUS
  <2>2. /\ device' = Counted(d) /\ peer' = peer
        /\ \/ Process(m)
           \/ network' = network \cup
                {CookieReply(m.from, m.ephemeral, Cookie(d.cookie_secret, m.source))}
    BY <1>3, <2>1 DEF ReceiveInitiationUnderLoad
  <2>3. CASE Process(m)
    BY <1>0, <2>2, <2>3, ProcessSends, CookiesKept
  <2>4. CASE network' = network \cup
               {CookieReply(m.from, m.ephemeral, Cookie(d.cookie_secret, m.source))}
    <3>1. PICK n : n = CookieReply(m.from, m.ephemeral, Cookie(d.cookie_secret, m.source))
      OBVIOUS
    <3>2. n.type = "cookie" /\ n.cookie.secret = d.cookie_secret
      BY <3>1 DEF CookieReply, Cookie
    <3>3. d \in Device
      BY <2>1, NowOfInv, SecretTypes
    <3>4. d.cookie_secret \in 1 .. device'.cookie_secret
      <4>1. d.cookie_secret \in Nat \ {0} /\ device'.cookie_secret = d.cookie_secret
        BY <2>2, <3>3, CountedSecret DEF Device
      <4> QED BY <4>1
    <3>5. \A i \in Peer : peer'[i].cookie = NoCookie \/ Answered(peer'[i].cookie)
      BY <2>2 DEF CookiesAreSent
    <3>6. network' = network \cup {n}
      BY <2>4, <3>1
    <3> QED BY <1>0, <3>2, <3>4, <3>5, <3>6, CookiesGrow
  <2> QED BY <2>2, <2>3, <2>4
<1>4. CASE wireguard_device_init
  BY <1>0, <1>1, <1>4 DEF wireguard_device_init
<1>5. ASSUME NEW m \in network, ReceiveCookieReply(m) PROVE CookiesAreSent'
  <2>1. m.to \in Peer /\ m.cookie \in Cookies /\ m.type = "cookie"
    BY <1>5 DEF IInv, NetworkTypes, MessageTypes, ReceiveCookieReply
  <2>2. PICK p : p = [peer[m.to] EXCEPT !.cookie = m.cookie, !.cookie_millis = now,
                                        !.mac1 = NoInitiation]
    OBVIOUS
  <2>3. now \in Clock /\ NoInitiation \in 0 .. fresh
    BY NowOfInv DEF IInv, TypeOK, NoInitiation
  <2>4. p \in PeerRecord /\ p.cookie = m.cookie
    BY <1>0, <2>1, <2>2, <2>3 DEF PeerRecord
  <2>5. wg_start_handshake(m.to, p) /\ device' = device
    BY <1>5, <2>2 DEF ReceiveCookieReply
  <2>6. Answered(p.cookie)
    BY <2>1, <2>4 DEF Answered
  <2> QED BY <2>1, <2>4, <2>5, <2>6, CookiesStartHandshake
<1>6. ASSUME NEW m \in network, ReceiveResponse(m) PROVE CookiesAreSent'
  <2>1. /\ m.to \in Peer
        /\ peer' = [peer EXCEPT ![m.to] = [peer[m.to] EXCEPT !.handshake = NoInitiation]]
        /\ network' = network
    BY <1>6 DEF IInv, NetworkTypes, MessageTypes, ReceiveResponse
  <2>2. \A i \in Peer : peer'[i].cookie = peer[i].cookie
    BY <1>0, <2>1 DEF PeerRecord
  <2> QED BY <1>1, <2>1, <2>2
<1>7. ASSUME NEW i \in Peer, wg_run_timers(i) PROVE CookiesAreSent'
  <2>1. /\ wg_start_handshake(i, peer[i]) /\ device' = device /\ peer[i] \in PeerRecord
        /\ (peer[i].cookie = NoCookie \/ Answered(peer[i].cookie))
    BY <1>0, <1>7 DEF wg_run_timers, CookiesAreSent
  <2> QED BY <2>1, CookiesStartHandshake
<1>8. ASSUME NEW i \in Peer, Move(i) PROVE CookiesAreSent'
  <2>1. PICK s \in Source : peer' = [peer EXCEPT ![i] = [peer[i] EXCEPT !.source = s]]
    BY <1>8 DEF Move
  <2>2. \A j \in Peer : peer'[j].cookie = peer[j].cookie
    BY <1>0, <2>1 DEF PeerRecord
  <2> QED BY <1>1, <1>8, <2>2 DEF Move
<1>9. CASE Tick
  BY <1>0, <1>1, <1>9 DEF Tick
<1>10. CASE UNCHANGED vars
  BY <1>0, <1>1, <1>10 DEF vars
<1> QED BY <1>2, <1>3, <1>4, <1>5, <1>6, <1>7, <1>8, <1>9, <1>10 DEF Next

LEMMA InitSecret == Init => SecretInv
<1> SUFFICES ASSUME Init PROVE SecretInv
  OBVIOUS
<1>1. /\ device.cookie_secret = 1 /\ device.cookie_secret_millis = now
      /\ born = [s \in {1} |-> 0] /\ elapsed = 0 /\ network = {}
  BY DEF Init, NewDevice
<1>2. SecretAges
  <2>1. DOMAIN born = 1 .. 1 /\ born[1] = 0
    BY <1>1
  <2> QED BY <1>1, <2>1, NowIsClock DEF SecretAges
<1>3. \A i \in Peer : peer[i].cookie = NoCookie
  BY DEF Init, NewPeer
<1>4. CookiesAreSent
  BY <1>1, <1>3 DEF CookiesAreSent
<1> QED BY <1>2, <1>4 DEF SecretInv

LEMMA SecretsInv == Spec => []SecretInv
<1>1. IInv /\ SecretInv /\ [Next]_vars => SecretInv'
  BY SecretAgesStep, CookiesStep DEF SecretInv
<1> QED BY <1>1, InitSecret, CookieInv, PTL DEF Spec

Worked(i, m) ==
  /\ m.type = "initiation" /\ m.from = i /\ m.ephemeral = greatest'[i]
  /\ \E r \in network : r.type = "cookie" /\ r.cookie = m.mac2
  /\ m.mac2.source = m.source
  /\ elapsed - born[m.mac2.secret] <= COOKIE_SECRET_MAX_AGE

\* A mac2 that is right under load: the cookie was sent, so its secret is not
\* one drawn only now, and has not expired.
LEMMA WorkStep ==
  ASSUME MaxElapsed + 1 < ClockMod, IInv, SecretInv, [Next]_vars,
         NEW i \in Peer, UnderLoad(device), greatest'[i] > greatest[i]
  PROVE  \E m \in network : Worked(i, m)
<1>0. /\ greatest \in [Peer -> 0 .. fresh] /\ fresh \in Nat /\ elapsed \in 0 .. MaxElapsed
      /\ MaxElapsed \in Nat /\ boot \in BootTimes /\ device \in Device
      /\ COOKIE_SECRET_MAX_AGE \in Nat /\ ClockMod \in Nat
  BY CookieAssumption, NowOfInv DEF IInv, TypeOK
<1>1. greatest' # greatest
  BY <1>0
<1>2. ~wireguard_device_init
  BY <1>0 DEF wireguard_device_init, NoInitiation
<1>3. PICK m \in network : ReceiveInitiationUnderLoad(m)
  BY <1>1, <1>2 DEF Next, vars, ReceiveInitiation, ReceiveCookieReply, ReceiveResponse,
                    wg_run_timers, Move, Tick
<1>4. PICK d : d = SecretInUse
  OBVIOUS
<1>5. m.type = "initiation" /\ mac2_Valid(m, d) /\ Process(m)
  BY <1>1, <1>3, <1>4 DEF ReceiveInitiationUnderLoad
<1>6. m.from = i /\ m.ephemeral = greatest'[i]
  BY <1>0, <1>1, <1>5 DEF Process, IInv, NetworkTypes, MessageTypes
<1>7. m.mac2 = Cookie(d.cookie_secret, m.source) /\ m.source \in Source
  BY <1>5 DEF mac2_Valid, IInv, NetworkTypes, MessageTypes
<1>8. m.mac2.source = m.source /\ m.mac2.secret = d.cookie_secret /\ m.mac2 # NoCookie
  BY <1>7, CookieAssumption DEF Cookie, NoCookie
<1>9. PICK r \in network : r.type = "cookie" /\ r.cookie = m.mac2
  BY <1>5, <1>8 DEF SecretInv, CookiesAreSent, Answered
<1>10. d.cookie_secret \in 1 .. device.cookie_secret
  BY <1>8, <1>9 DEF SecretInv, CookiesAreSent
<1>11. /\ ~wireguard_expired(device.cookie_secret_millis, COOKIE_SECRET_MAX_AGE)
       /\ d = device
  <2>1. device.cookie_secret \in Nat
    BY <1>0 DEF Device
  <2>2. d.cookie_secret # device.cookie_secret + 1
    BY <1>10, <2>1
  <2> QED BY <1>0, <1>4, <2>2, SecretInUseIs
<1>12. PICK s \in 0 .. elapsed : s = born[device.cookie_secret]
  BY <1>10, <1>11 DEF SecretInv, SecretAges
<1>13. device.cookie_secret_millis = ClockAt(s)
  BY <1>12 DEF SecretInv, SecretAges
<1>14. SpanOf(s, elapsed) \in Nat /\ elapsed - s <= SpanOf(s, elapsed) + 1
  <2>1. PICK t \in Nat : t = elapsed
    BY <1>0
  <2>2. s \in Nat /\ s <= t /\ t - s + 1 < ClockMod
    BY <1>0, <2>1
  <2>3. SpanOf(s, t) \in Nat /\ t - s <= SpanOf(s, t) + 1
    BY <1>0, <2>2, SpanIsRight
  <2> QED BY <2>1, <2>3
<1>15. ~(SpanOf(s, elapsed) >= COOKIE_SECRET_MAX_AGE)
  BY <1>11, <1>13, NowIsClock DEF wireguard_expired, SpanOf
<1>16. elapsed - born[m.mac2.secret] <= COOKIE_SECRET_MAX_AGE
  BY <1>0, <1>8, <1>11, <1>12, <1>14, <1>15
<1> QED BY <1>5, <1>6, <1>8, <1>9, <1>16 DEF Worked

\* Under load a handshake is had for a cookie sent to where it comes from, made
\* with a secret that is not too old. A secret nobody has asked for in a whole turn
\* of the clock looks new again, so this is about runs shorter than a turn, 49 days
\* (generate_peer_cookie, wireguard_check_mac2).
THEOREM WorkIsPaidFor ==
  ASSUME MaxElapsed + 1 < ClockMod
  PROVE  Spec => WorkNeedsCookie
<1>1. IInv /\ SecretInv /\ [Next]_vars =>
        [\A i \in Peer : UnderLoad(device) /\ greatest'[i] > greatest[i] =>
           \E m \in network :
             /\ m.type = "initiation" /\ m.from = i /\ m.ephemeral = greatest'[i]
             /\ \E r \in network : r.type = "cookie" /\ r.cookie = m.mac2
             /\ m.mac2.source = m.source
             /\ elapsed - born[m.mac2.secret] <= COOKIE_SECRET_MAX_AGE]_vars
  BY WorkStep DEF Worked
<1> QED BY <1>1, CookieInv, SecretsInv, PTL DEF Spec, WorkNeedsCookie

=============================================================================
