------------------------------ MODULE WgCookie ------------------------------
(***************************************************************************)
(* Load and cookies: a device that counts the initiations it receives and, *)
(* under load, answers those without a valid mac2 with a cookie, and the   *)
(* peers that retry with it (wireguard.c, nuttx-wireguardif.c).            *)
(*                                                                         *)
(* The millisecond clock is a uint32_t that wraps; "elapsed" is true time. *)
(* A message authentication code is modelled by what it is computed from:  *)
(* a cookie is the secret and the source it is bound to, and the mac2 of   *)
(* an initiation is the cookie it was made with.                           *)
(***************************************************************************)
EXTENDS Integers, FiniteSets

CONSTANTS
  Peer,                    \* the devices that initiate, each with its own peer here
  Source,                  \* outer source addresses and ports
  NoSource,                \* none of them
  LOAD_THRESHOLD,          \* CONFIG_NET_WIREGUARD_LOAD_THRESHOLD
  LoadWindow,              \* the one-second bucket, in ticks, like all that follow
  COOKIE_SECRET_MAX_AGE,
  REKEY_TIMEOUT,
  ClockMod,                \* 2^32: the clock wraps to zero
  BootTimes,               \* what the clock may read when a run begins
  MaxElapsed,              \* bound: ticks of a run
  MaxBurst,                \* bound: initiations received in a bucket
  MaxInitiations,          \* bound: initiations sent
  MaxSecrets               \* bound: secrets drawn when a device is set up again

ASSUME CookieAssumption ==
  /\ LOAD_THRESHOLD \in Nat /\ LoadWindow \in Nat \ {0} /\ REKEY_TIMEOUT \in Nat
  /\ COOKIE_SECRET_MAX_AGE \in Nat \ {0}
  /\ ClockMod \in Nat \ {0, 1} /\ BootTimes \subseteq 0 .. ClockMod - 1
  /\ NoSource \notin Source
  /\ {MaxElapsed, MaxBurst, MaxInitiations, MaxSecrets} \subseteq Nat

VARIABLES
  boot,            \* the clock when the run began
  elapsed,         \* ticks since then
  device,          \* what the responder keeps: its secret and its count
  greatest,        \* Peer -> the newest initiation the responder has accepted
  peer,            \* Peer -> what the initiator keeps
  network,         \* the datagrams sent so far
  fresh,           \* number of initiations sent: the next is fresh + 1
  born,            \* history: secret -> the tick it was drawn in
  cheap            \* history: how many initiations without a cookie were worked
                   \* on this tick, one tick ago, ... LoadWindow - 1 ticks ago

vars == <<boot, elapsed, device, greatest, peer, network, fresh, born, cheap>>

\* Zero in a time field means "never".
Never == 0
NoInitiation == 0
NoCookie == [secret |-> 0, source |-> NoSource]

-----------------------------------------------------------------------------
(* Time.                                                                   *)

\* Mutant: the clock as it is, zero when it wraps.
wireguard_sys_now_MayBeZero == (boot + elapsed) % ClockMod

\* Mutant: the reading is kept in more than 32 bits.
wireguard_sys_now_NotTruncated == boot + elapsed

wireguard_sys_now ==
  LET ms == (boot + elapsed) % ClockMod IN IF ms = 0 THEN 1 ELSE ms

now == wireguard_sys_now

\* Mutant: the deadline is computed, and compared, instead of the difference.
wireguard_expired_Deadline(since, span) == now >= (since + span) % ClockMod

\* The subtraction is unsigned: it is right across the wrap.
wireguard_expired(since, span) == (now - since) % ClockMod >= span

-----------------------------------------------------------------------------
(* The responder.                                                          *)

\* wireguard_device_init(): a zeroed structure and a secret.
NewDevice(secret) ==
  [cookie_secret |-> secret, cookie_secret_millis |-> now,
   init_window_start |-> 0, init_count |-> 0]

\* generate_peer_cookie(), first half: an expired secret is replaced. Secrets
\* are numbered in the order they are drawn.
SecretInUse ==
  IF wireguard_expired(device.cookie_secret_millis, COOKIE_SECRET_MAX_AGE)
  THEN [device EXCEPT !.cookie_secret = @ + 1, !.cookie_secret_millis = now]
  ELSE device

Cookie(secret, source) == [secret |-> secret, source |-> source]

\* Mutant: the bucket is emptied without starting the next one.
Counted_StaleWindow(d) ==
  IF (now - d.init_window_start) % ClockMod >= LoadWindow
  THEN [d EXCEPT !.init_count = 1]
  ELSE [d EXCEPT !.init_count = @ + 1]

\* wg_under_load(): the device with one more initiation counted.
Counted(d) ==
  IF (now - d.init_window_start) % ClockMod >= LoadWindow
  THEN [d EXCEPT !.init_window_start = now, !.init_count = 1]
  ELSE [d EXCEPT !.init_count = @ + 1]

UnderLoad(d) == Counted(d).init_count > LOAD_THRESHOLD

Initiation(i, e, source, mac2) ==
  [type |-> "initiation", from |-> i, ephemeral |-> e, source |-> source, mac2 |-> mac2]
CookieReply(i, e, cookie) ==
  [type |-> "cookie", to |-> i, receiver |-> e, cookie |-> cookie]
Response(i, e) == [type |-> "response", to |-> i, receiver |-> e]

\* The secret d has become current; history keeps when.
Drawn(d) ==
  born' = IF d.cookie_secret \in DOMAIN born THEN born
          ELSE [s \in DOMAIN born \cup {d.cookie_secret} |->
                  IF s = d.cookie_secret THEN elapsed ELSE born[s]]

\* wireguard_process_initiation_message() and wg_send_handshake_response():
\* only an initiation newer than the last accepted one is answered, and not
\* even that if it follows it within half a second, but the work is done to
\* find out.
Process(m) ==
  \/ /\ m.ephemeral > greatest[m.from]
     /\ greatest' = [greatest EXCEPT ![m.from] = m.ephemeral]
     /\ network' = network \cup {Response(m.from, m.ephemeral)}
  \/ UNCHANGED <<greatest, network>>

ReceiveInitiation(m) ==
  /\ m.type = "initiation"
  /\ ~UnderLoad(device)
  /\ device' = Counted(device)
  /\ cheap' = [cheap EXCEPT ![0] = @ + 1]
  /\ Process(m)
  /\ UNCHANGED <<boot, elapsed, peer, fresh, born>>

\* Mutant: any mac2 will do.
mac2_Valid_AnySource(m, d) == m.mac2.secret = d.cookie_secret

\* Mutant: the two ends of the check encode the source differently.
mac2_Valid_OtherEncoding(m, d) == m.mac2 = [Cookie(d.cookie_secret, m.source) EXCEPT !.source = NoSource]

\* wireguard_check_mac2(), with the secret in use.
mac2_Valid(m, d) == m.mac2 = Cookie(d.cookie_secret, m.source)

ReceiveInitiationUnderLoad(m) ==
  /\ m.type = "initiation"
  /\ UnderLoad(device) /\ Counted(device).init_count <= MaxBurst
  /\ LET d == SecretInUse
     IN  /\ device' = Counted(d)
         /\ Drawn(d)
         /\ IF mac2_Valid(m, d)
            THEN Process(m)
            ELSE /\ network' = network \cup
                      {CookieReply(m.from, m.ephemeral, Cookie(d.cookie_secret, m.source))}
                 /\ UNCHANGED greatest
  /\ UNCHANGED <<boot, elapsed, peer, fresh, cheap>>

\* "wg down" and "wg up" of the responder.
wireguard_device_init ==
  /\ device.cookie_secret < MaxSecrets
  /\ device' = NewDevice(device.cookie_secret + 1)
  /\ Drawn(device')
  /\ greatest' = [i \in Peer |-> NoInitiation]
  /\ cheap' = [t \in DOMAIN cheap |-> 0]
  /\ UNCHANGED <<boot, elapsed, peer, network, fresh>>

-----------------------------------------------------------------------------
(* An initiator.                                                           *)

\* handshake is the initiation in progress, mac1 the one whose mac1 a cookie
\* reply must answer; sent is history, the tick of the last initiation.
NewPeer(source) ==
  [handshake |-> NoInitiation, mac1 |-> NoInitiation, cookie |-> NoCookie,
   cookie_millis |-> Never, last_initiation_tx |-> Never, source |-> source,
   sent |-> -REKEY_TIMEOUT]

\* The cookie that goes into mac2, or none.
CookieToUse(p) ==
  IF p.cookie_millis = Never \/ wireguard_expired(p.cookie_millis, COOKIE_SECRET_MAX_AGE)
  THEN NoCookie ELSE p.cookie

\* wg_start_handshake() on the peer record p; the datagram may be lost.
wg_start_handshake(i, p) ==
  /\ fresh < MaxInitiations
  /\ fresh' = fresh + 1
  /\ peer' = [peer EXCEPT ![i] = [p EXCEPT !.handshake = fresh', !.mac1 = fresh',
                                           !.last_initiation_tx = now, !.sent = elapsed]]
  /\ network' = network \cup {Initiation(i, fresh', p.source, CookieToUse(p))}

\* wg_run_timers(): whatever there is to initiate for waits for REKEY_TIMEOUT.
wg_run_timers(i) ==
  /\ \/ peer[i].last_initiation_tx = Never
     \/ wireguard_expired(peer[i].last_initiation_tx, REKEY_TIMEOUT)
  /\ wg_start_handshake(i, peer[i])
  /\ UNCHANGED <<boot, elapsed, device, greatest, born, cheap>>

\* wireguard_process_cookie_message(): the reply to the last initiation sent,
\* once; the retry follows at once.
ReceiveCookieReply(m) ==
  /\ m.type = "cookie"
  /\ LET p == peer[m.to]
     IN  /\ p.handshake = m.receiver /\ p.mac1 = m.receiver
         /\ wg_start_handshake(m.to, [p EXCEPT !.cookie = m.cookie, !.cookie_millis = now,
                                               !.mac1 = NoInitiation])
  /\ UNCHANGED <<boot, elapsed, device, greatest, born, cheap>>

\* wireguard_start_session() clears the handshake.
ReceiveResponse(m) ==
  /\ m.type = "response"
  /\ peer[m.to].handshake = m.receiver
  /\ peer' = [peer EXCEPT ![m.to].handshake = NoInitiation]
  /\ UNCHANGED <<boot, elapsed, device, greatest, network, fresh, born, cheap>>

\* The initiator's outer address or port changes.
Move(i) ==
  /\ \E s \in Source \ {peer[i].source} : peer' = [peer EXCEPT ![i].source = s]
  /\ UNCHANGED <<boot, elapsed, device, greatest, network, fresh, born, cheap>>

Tick ==
  /\ elapsed < MaxElapsed
  /\ elapsed' = elapsed + 1
  /\ cheap' = [t \in DOMAIN cheap |-> IF t = 0 THEN 0 ELSE cheap[t - 1]]
  /\ UNCHANGED <<boot, device, greatest, peer, network, fresh, born>>

-----------------------------------------------------------------------------

Init ==
  /\ boot \in BootTimes
  /\ elapsed = 0
  /\ device = NewDevice(1)
  /\ greatest = [i \in Peer |-> NoInitiation]
  /\ peer \in [Peer -> {NewPeer(s) : s \in Source}]
  /\ network = {}
  /\ fresh = 0
  /\ born = [s \in {1} |-> 0]
  /\ cheap = [t \in 0 .. LoadWindow - 1 |-> 0]

Next ==
  \/ \E m \in network :
       \/ ReceiveInitiation(m)
       \/ ReceiveInitiationUnderLoad(m)
       \/ ReceiveCookieReply(m)
       \/ ReceiveResponse(m)
  \/ \E i \in Peer : wg_run_timers(i) \/ Move(i)
  \/ wireguard_device_init
  \/ Tick

Spec == Init /\ [][Next]_vars

-----------------------------------------------------------------------------

Clock == 0 .. ClockMod - 1
Cookies == [secret : Nat, source : Source]

TypeOK ==
  /\ boot \in BootTimes /\ elapsed \in 0 .. MaxElapsed
  /\ device \in [cookie_secret : Nat \ {0}, cookie_secret_millis : Clock,
                  init_window_start : Clock, init_count : Nat]
  /\ greatest \in [Peer -> 0 .. fresh]
  /\ peer \in [Peer -> [handshake : 0 .. fresh, mac1 : 0 .. fresh,
                        cookie : Cookies \cup {NoCookie}, cookie_millis : Clock,
                        last_initiation_tx : Clock, source : Source, sent : Int]]
  /\ fresh \in 0 .. MaxInitiations

\* Under load a peer gets a handshake only after it has shown that it receives
\* what is sent to the address it writes from: with a cookie that was sent to
\* that address, made with a secret no older than COOKIE_SECRET_MAX_AGE, up to
\* the tick by which the clock is wrong when it would read zero
\* (wg_process_udp_packet, "Order of checks on an initiation").
WorkNeedsCookie ==
  [][\A i \in Peer : UnderLoad(device) /\ greatest'[i] > greatest[i] =>
       \E m \in network :
         /\ m.type = "initiation" /\ m.from = i /\ m.ephemeral = greatest'[i]
         /\ \E r \in network : r.type = "cookie" /\ r.cookie = m.mac2
         /\ m.mac2.source = m.source
         /\ elapsed - born[m.mac2.secret] <= COOKIE_SECRET_MAX_AGE]_vars

\* The initiations without a cookie worked on in the last t ticks.
WorkIn[t \in 0 .. LoadWindow] ==
  IF t = 0 THEN 0 ELSE WorkIn[t - 1] + cheap[t - 1]

\* The buckets of wg_under_load() bound the work that initiations without a
\* cookie cause: twice the threshold in any second, wherever the buckets start
\* and the clock wraps ("that is enough to bound the DH work a flood can
\* cause", struct wg_netdev_s).
WorkBounded ==
  WorkIn[LoadWindow] <= 2 * LOAD_THRESHOLD

\* The answer to an initiation with a mac2 is never the cookie that mac2 was
\* made with: so a reply, its retry, and the reply to the retry end, unless
\* each time the secret or the initiator's address has changed
\* (wireguard_check_mac2, wireguard_create_cookie_reply).
NoCookieEcho ==
  \A r, m \in network :
    r.type = "cookie" /\ m.type = "initiation" /\ r.receiver = m.ephemeral
      => r.cookie # m.mac2

\* The initiation sent on receiving a cookie carries it, whatever the clock
\* reads at that moment: zero would mean that there is no cookie
\* (wireguard_process_cookie_message, wireguard_sys_now).
RetryCarriesCookie ==
  [][\A m \in network : ReceiveCookieReply(m) =>
       \E n \in network' : n.type = "initiation" /\ n.ephemeral = fresh'
                            /\ n.mac2 = m.cookie]_vars

\* The timers never initiate within REKEY_TIMEOUT of the last initiation,
\* across the wrap of the clock, up to the tick it is wrong by
\* (wg_run_timers, wireguard_expired).
InitiationsPaced ==
  [][\A i \in Peer : wg_run_timers(i) => elapsed - peer[i].sent >= REKEY_TIMEOUT - 1]_vars

=============================================================================
