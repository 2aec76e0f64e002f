# Verification of the NuttX WireGuard port

TLA+ models of the WireGuard implementation in
`src/nuttx_port/apps/netutils/wireguard/`, the TLC runs that check them and the
theorems TLAPS proves about them, and models of the Stack-chan demo that is
driven over the tunnel (`src/demo/stackchan/`). File names below are relative
to the first directory unless they say otherwise.

## 1. The system

The port is a userspace WireGuard endpoint for NuttX: lwIP's `wireguard.c`
(protocol core), a glue layer that plugs it into the NuttX network stack
(`nuttx-wireguardif.c`), a platform layer (`nuttx-platform.c`) and an NSH
command, `wg` (`wg_main.c`).

| Component | State it keeps | Operations | Module |
|---|---|---|---|
| Anti-replay window (`wireguard.c`) | per keypair: `replay_counter`, `replay_bitmap[]` | `wireguard_check_replay()` | `ReplaySpec`, `ReplayWindow` |
| Handshake, sessions, timers (`wireguard.c`, `nuttx-wireguardif.c`) | per peer: three keypair slots, the handshake in progress, time stamps, endpoint, flags | handlers of the four datagram types, `wg_run_timers()`, `wg_txpoll()`, `wg_ifup()`, `wg_ifdown()` | `WgPeer`, `WgSession`, `KeyLifecycle`, `WgSend` |
| Index allocation and lookup (`wireguard.c`) | the `local_index` of each handshake and keypair of each peer | `wireguard_generate_unique_index()`, `peer_lookup_by_receiver()`, `peer_lookup_by_handshake()` | `WgIndex` |
| Configuration (`nuttx-wireguardif.c`, `wg_main.c`) | `g_staged`, the file of `wg saveconf`, the peers of the device | `wg set`, `wg setconf`, `wg showconf`, `wg saveconf`, what `wg up` reads | `WgConfig` |
| Interface lifecycle (`nuttx-wireguardif.c`) | `g_wg`: socket, netdev, receive task, transmit work, `running`, `registered`, `rxtask_done` | `wg_initialize()`, `wg_down()`, `wg_rx_task()`, `wg_txavail()` | `WgControl` |
| Cookies and load (`wireguard.c`, `nuttx-wireguardif.c`) | cookie secret and its age, `init_window_start`, `init_count`, the cookie of each peer | `wg_under_load()`, `wireguard_check_mac2()`, `wg_send_cookie_reply()`, `wireguard_process_cookie_message()` | `WgCookie` |
| Routing (`nuttx-wireguardif.c`) | `allowed_source_ips` of each peer | `wg_peer_for_dest()`, the source check of received packets | `WgConfig` |
| Platform layer (`nuttx-platform.c`) | the TAI64N high-water mark, the entropy file | `wireguard_sys_now()`, `wireguard_tai64n_now()`, `wireguard_random_bytes()` | the clocks, in `WgCookie` and `WgSession` |
| Stack-chan demo (`src/demo/stackchan/stackchan_main.c`) | `g_running`, `g_demo_pid`, `g_expr`, `g_redraw`, `g_talking`, the panel | the demo task; `start`, `stop`, `face`, `say`, `blink` | `ScFace`, `ScDemo` |
| Cryptography (`crypto/`) | none | X25519, ChaCha20-Poly1305, BLAKE2s | symbolic in `WgPeer` |
| Status output, board and container files, in-kernel plan | | | not modelled |

How they interact. Two contexts run WireGuard code while wg0 is up: the task
`wg_rx_task()`, which polls the UDP socket, feeds datagrams to
`wg_process_udp_packet()` and calls `wg_run_timers()`; and the work queue, which
runs `wg_txavail_work()`, which lets the stack hand packets to `wg_txpoll()` and
so to `wg_encrypt_and_send()`. Both take `net_lock()` around a handler, and
share `priv->wg`, the socket and `cryptbuf`. The commands run in the task of a
shell, with no lock around `wg_initialize()` and `wg_down()`; they meet the
other two contexts through `running`, `rxtask_done`, `bifup`, the netdev list
and `work_cancel()`. A received packet is injected into the stack by
`wg_inject_plaintext()`, which may call back into the encryption of an answer
before the handler returns. The demo is an application of its own: a background
task and the commands of other shells, a telnet session over the tunnel among
them, which share its globals and the panel without a lock.

What is hard about it:

- handshakes in both directions cross, and the network loses, repeats, delays
  and reorders datagrams, so the three slots rotate in orders no test lists;
- the responder may not speak first, a rule kept by three functions together;
- `wg_initialize()` and `wg_down()` against the two other contexts, with
  failures on the way up and a timeout on the way down;
- restarts that forget the greatest timestamp and set CLOCK_REALTIME back;
- a replay window widened from one word to several, with carries;
- `psock_sendto()`, which may let go of the lock that keeps the receive task and
  the work queue apart, in the middle of a handler;
- an index search whose result is overwritten for every peer but the last;
- a staged configuration in which "empty" has two meanings, and a file that may
  be cut short when it is saved;
- a 32-bit clock that wraps, in which zero means "never", under the cookie
  exchange and every timer;
- a demo task and commands that hand over expressions, the mouth and the right to
  draw through plain globals.

`PROJECT.json` lists these under `hazards`, each at its line.

## 2. Modules and their correspondence to the code

`PROJECT.json` maps every definition to its lines. The outline:

**ReplaySpec** is the promise of the anti-replay check: a set of accepted
counters and the verdict it determines. **ReplayWindow** is
`wireguard_check_replay()` bit by bit: words are sets of bit positions, shifts
lose what leaves the word, the carry between words and the wrap of `seq++` are
as in the code. Refinement: `accepted` and `verdict` are history variables of
`ReplayWindow`, and `ReplaySpec` is instantiated on them.

**WgPeer** has `struct wireguard_peer` as a record and one operator for each C
function on it. An ephemeral key and the index drawn with it are one fresh
number; a transport key is the pair of the two ephemerals. So a message that was
not sent by the other end never authenticates, which is what the cryptography is
trusted for and nothing more. The window of a keypair is the set of accepted
counters: `ReplayWindow` justifies it.

**WgSession** composes two such peers with a network. A step is a handler under
`net_lock()`: a datagram taken by `wg_process_udp_packet()` (one action for each
outcome), a call of `wg_run_timers()`, a packet of the stack, the interface
going up or down, a restart, a tick. The network is the set of all datagrams
ever sent, from which any may be delivered at any time, from any address, or
never. `ok` is the result of `psock_sendto()`, and the two sends of
`wg_run_timers()` have one each; a send to an endpoint of zero is up to the stack
too. `answered` is the callback of the
stack during `wg_inject_plaintext()`. A restart keeps or loses CLOCK_REALTIME.
`delivered` and `sessions` are history variables.

**KeyLifecycle** is the abstract specification of the slots: a session goes
next, curr, prev, gone (an initiator's starts at curr), never back, and there is
at most one in each stage. `WgSession` implements it under the mapping
`StageOf`.

**WgSend** drops one assumption of `WgSession`, that a handler keeps the lock. It
has two contexts, the receive task and the work queue, and splits
`wg_encrypt_and_send()` and `wg_start_handshake()` where they wait in
`psock_sendto()`; at that point the other context, or an `ifdown`, may do
anything it does. A packet is the number of its encryption, `cryptbuf` the packet
that wrote each block last, and the network gets what is in `cryptbuf` when the
send goes on. What the receiver makes of it, time and the other two slots are left
to `WgSession`, and so is why a handshake starts: here it may at any time.
`SendMayRelease` decides whether the lock is ever lost. NuttX is
outside `src/`: that it may be is what the notes on the successor driver say
(`src/docs/upstream/verification-matrix.md:145`).

**WgIndex** abstracts a peer to the indexes it holds: one in its handshake and
one in each slot. `InUse` is the loop of `wireguard_generate_unique_index()`
with the assignment that makes the last peer decide.

**WgConfig** has the staged key and peers, the file, and the peers of the
interface. A file is a sequence of (key, value) lines. `ReadLine`,
`wg_conf_flush_peer` and `wg_set_peer` are the parser; `PeersOrKconfig` is the
rule that an empty list means the Kconfig peer, which `wg_configure_peer()` and
`wg_writeconf()` both follow, and `wg_add_peer` passes over a peer when the array is
full or `wireguard_peer_init()` has no shared secret with its key (`Refused`).
`wg_saveconf` writes what `wg_writeconf()` prints,
or any part of it from the start: the file is truncated first and the volume may
be full or the board reset. An entry of allowed-ips is an address and the number
of bits its mask leaves free; `wg_peer_for_dest` is the loop over the peers of
the interface, and `SourceOk` the check of a received packet.

**WgCookie** is the responder under load and the peers that initiate. The true
time of a run is `elapsed`; the code sees `wireguard_sys_now`, which is that time
modulo `ClockMod`, and one where it would be zero. The device is the secret, its
age and the bucket of initiations (`Counted`, `SecretInUse`); a cookie is the
secret and the source it is bound to, and a mac2 the cookie it was made with. An
initiator keeps the handshake in progress, the initiation whose mac1 a reply must
answer, and the cookie with the time it came. The network keeps every datagram,
as in `WgSession`. `born` and `cheap` are history: when each secret was drawn,
and how much work the last second cost without a cookie.

**WgControl** splits `wg_initialize()` and `wg_down()` at each point where
another context can see the difference, against the loop of `wg_rx_task()` and
the transmit work. Each acquisition in `wg_initialize()` may fail; the wait of
`wg_down()` may time out at any moment, since nothing bounds how long the task is
kept from running. `SendMayRelease` says whether `psock_sendto()` may let go of
`net_lock()` to wait. The transmit work may be queued again while it runs: `txwork` is
the set of where it is. One thread serves its queue, so it does not run twice at once.

**ScFace** is what `face_eye()`, `face_mouth()` and `lcd_fill()` do to the panel:
for each part of the face and each expression the rectangles that turn white and
black, pixel for pixel, and what the panel shows when one look is drawn over
another (`Draw`). **ScDemo** is `demo_task()` and the commands. A step is one
access to a global, or two that follow each other at once (`Start`, `FaceDraw`, `Say`,
`TaskTalk`, `TaskRedraw`), so that they interleave as they do on the board. A
drawing routine puts what it draws into the queue of its actor and `lcd_fill`
takes it to the panel one part at a time; two actors that draw at once may leave
anything behind, and the history variable `spoiled` says so until the next whole
drawing. What fails only outside (the amplifier, the player, opening the panel,
`lcd_init()`, `task_create()`, memory) is a choice; an error of a single
`lcd_fill()` on an open bus, which the code ignores, is not modelled.

Operators with a suffix (`keypair_update_KeepsNext`) are mutants: what the
operator of the name before the underscore would be with a plausible bug in it.
Each property is shown to fail under one of them.

## 3. What is checked

| Run | Question | Properties |
|---|---|---|
| `replay_window` | is the multi-word bitmap exact, and the verdict the one the accepted set determines? | TypeOK, WindowExact, ImplementsReplaySpec |
| `session_rotation` | do the slots rotate correctly when both ends initiate and handshakes cross? | TypeOK, SlotDiscipline, SlotsDistinct, SessionsAgree, ImplementsKeyLifecycle |
| `session_timers` | are keys used only in their lifetime, whatever the timers, keep-alives and failing sends do? | KeysUsedInTheirLifetime |
| `session_environment` | are nonces, deliveries and the responder's silence right under any delivery order, and what do restarts, replays from elsewhere and load do? | InitiationUsedOnce, NonceNeverReused, DeliveredOnce, ResponderWaitsForInitiator, EndpointMovesOnFresh, CookieAnswersLastInitiation |
| `send` | what survives when `psock_sendto()` lets go of the lock? | NonceNeverReused, DamageMeansOverlap, RekeyIsAsked |
| `index` | does the search protect the last peer? | LastPeerDistinct |
| `config` | do file, staged state and running interface agree, also if the file was cut short, and where do packets go? | TypeOK, ActiveIsStaged, RoundTrip, CutFileLoads, LoadFaithful, RoutesByLongestPrefix |
| `control` | one task with its socket, nothing left behind, and commands that return? | OneTaskWithItsSocket, NothingLeftBehind, CommandsReturn |
| `cookie` | does load bound the work, is a cookie only good for its address and age, and does the exchange end, across the wrap of the clock? | TypeOK, WorkBounded, NoCookieEcho, WorkNeedsCookie, RetryCarriesCookie, InitiationsPaced |
| `demo` | one task, a true pid, the face last asked for, and a stop and a face that are taken up? | AtMostOneTask, NamedTaskLives, ShownIsCurrent, DrawsFitThePanel, StopIsHeeded, FaceIsTakenUp |
| `config_failed_load` | violated: after a failed load `wg up` "should get no tunnel" | FailedLoadMeansNoTunnel |
| `control_wipe` | violated: "Nothing references the device any more" | NothingReferencesTheDevice |

### Bounds, and why they are enough

- `replay_window`: 3 words of 3 bits and counters to 13. Shifts of less than,
  exactly and more than a word, with and without carry, a jump past the window
  and the wrap all occur. The theorems remove the bounds.
- `session_rotation`: six ephemerals make three complete handshakes, in either
  direction and crossed, so a session passes through every slot while others are
  installed behind it; one packet for each key and end suffices to confirm, and
  `REJECT_AFTER_MESSAGES` = 1 makes keys die by use. Devices are symmetric, and
  the ticks are two: age is left to `session_timers`.
- `session_timers`: three ephemerals, seven ticks with `REJECT_AFTER_TIME` = 2,
  so that three times it is passed and the wipe happens; keep-alives at both
  ends; both results of every send. A key here sends one packet.
- `session_environment`: three ephemerals, two addresses, one restart of each
  device with the clock kept or lost, and a responder that may answer any
  initiation with a cookie reply; a third ephemeral is enough to replay an initiation
  to a device that has restarted; two packets for each key and end, the least that
  can be reordered and be replayed. Only one end is configured, so there is no
  symmetry to use. Here sends succeed; they fail in `session_timers`.
- `send`: two peers, treated alike (symmetry), a `cryptbuf` of two
  blocks with keep-alives of one and data of one or two, three sessions and three
  packets: two contexts wait while a third packet is encrypted, shorter than, as
  long as and longer than the one that waits, for the same peer or the other.
  Which peers have a configured endpoint is chosen anew at each `wg_ifup()`.
- `index`: two peers, five indexes: a peer holds four at most. Indexes are
  symmetric.
- `config`: two staged peers at most; four addresses with the prefixes 0/0, one
  half and one host, in either order; every file of up to three lines out of
  six, and every file of two sections with at most one setting each, and files
  with a peer too many and with an error after the first peer. Of the two keys that
  are not Kconfig's the device refuses one, so there is no symmetry. After a load nothing else is
  explored (`LoadOnce`), since what a file stages could have been staged by
  commands; `RoundTrip` checks the file a state would save in that state.
- `control`: one shell, so commands do not overlap, as documented; two task
  slots, so that a task too many would be seen. The state is finite and nothing
  else is bounded: wg0 goes up and down for ever. With two shells
  `OneTaskWithItsSocket` fails: both may pass the test of `registered`; that is
  listed as a hazard.
- `cookie`: one initiator with two addresses, three initiations, four ticks with
  a bucket, an age of secrets and a `REKEY_TIMEOUT` of two each, a threshold of
  one. The run begins two ticks before the wrap of the clock, so
  zero falls into the middle of the exchange; the responder is set up again once.
- `demo`: a console that starts, stops and draws, a telnet session that
  speaks and blinks, four commands in all, two tasks and two expressions (one
  with round eyes, one with the largest). Four commands are enough for a start, a
  stop, a second start and something that interferes.

`CHECK_DEADLOCK FALSE` is set where bounds stop the model: when the ephemerals
and ticks, or the commands, are used up, or a file has been loaded.

### Fairness

The safety properties hold under any schedule, so they also cover timers that do
not run and datagrams that never arrive. Three properties are about progress, and
assume what the code relies on, weak fairness of the scheduler and no more:

- `CommandsReturn` (`control`): a command that is past the prompt goes on, and so
  does a receive task between two passes of its loop. A pass itself need not end
  (`RxBody` has no fairness): the inner loop drains the socket for as long as
  datagrams keep coming. The wait of `wg_down()` is bounded by
  `WG_DOWN_WAIT_MSECS`, which is why the property holds all the same.
- `StopIsHeeded`, `FaceIsTakenUp` (`demo`): the task and the commands that have
  something to do go on, and a drawing is finished. Nobody has to enter a command
  (`Enter`), and a recording need not end (`SayEnds`, `SayMoves`). Bus
  transactions return: `sc_i2c_transfer()` and `servo_xfer()` bound their tries
  and time.

Weak fairness is enough because nothing disables a step of these contexts once it
is their turn. Handshakes have no liveness property: whether one ever completes
depends on the network and on the phase of two clocks, which the code does not
control, and two ends that initiate in step retry in step, without jitter.

### Disagreements between the code and what it says

The two `violation` runs each quote the line. Met while modelling and not given
a run of their own:

- "wg up still refuses without a peer" (`nuttx-wireguardif.c:2311`): it does
  not. `wg_configure_peer()` returns and `wg_initialize()` succeeds (line 1429).
- "reloading an edited file drops peers it no longer names" (line 2232): a file
  that names none brings the Kconfig peer back (line 1418).
- "mixing the two cannot produce a half-Kconfig, half-runtime peer" (line 1746):
  a peer set at run time starts from the Kconfig allowed-ips (line 1779) and
  keep-alive.
- "make sure it's not already been used in the context of this device"
  (`wireguard.c:399`): the loop assigns its answer anew for each peer, so only the
  last one counts (line 414). With one peer uniqueness is proved
  (`OnePeerIsEnough`); with more `DeviceDistinct` of `WgIndex` fails.
- "Taking the interface down ends every session" (`nuttx-wireguardif.c:1296`): it
  does, and the receive task, which does not look at `bifup`, answers the next
  initiation and has one again. "wg down" stops the task first.
- A `wg down` that times out returns -ETIMEDOUT, sets `running` again and "leaves
  nothing half broken" (in Japanese, `src/docs/development/code-review-2026-08.md:186`;
  the code prints "leaving wg0 up", `nuttx-wireguardif.c:1658`). But the task may
  have read `running` as false just before it is set again, and leave its loop:
  wg0 is up with nobody to receive for it until the next `wg down`. `UpIsServed` of
  `WgControl` states the promise and fails, with one shell and a lock that is kept.
- "All uses are serialised by the (recursive) network lock ... so the two never
  race", of `cryptbuf` (`nuttx-wireguardif.c:140`): `psock_sendto()` is given the
  buffer itself and may let go of the lock until it can copy it. With
  `SendMayRelease`, `PacketsGoOutWhole` of `WgSend` fails in four steps: a keep-alive
  waits, the work queue encrypts a packet over it, and a copy of that goes out to
  the peer of the keep-alive. If the lock is kept it is proved
  (`LockKeepsPacketsWhole`).
- `wg_is_up()` is documented as "True while wg0 is registered and its background
  task is running" (`nuttx-wireguardif.h:90`); the item on `wg down` above describes a
  wg0 that is registered without a task. A second `wg_down()` succeeds.
- "so two tasks never draw at once" (`stackchan_main.c:174`): `blink` always draws
  for itself, and a `face` or `say` that found no demo may draw while one is
  started. `ShownIsCurrent` excepts what was drawn at once.
- wg_inject_plaintext() answers "the same peer" only if that peer has the longest
  prefix for the address: the source check takes any prefix of the sender
  (line 813), the answer is routed by `wg_peer_for_dest()`.
- A restart forgets `greatest_timestamp` (`nuttx-wireguardif.c:1546`), so one initiation
  recorded before it is accepted once more, and moves the endpoint to wherever it
  was sent from. `EndpointMovesOnFresh` and `InitiationUsedOnce` are therefore about one
  life of the responder, for initiations; packets and responses of an earlier life
  move nothing. The code promises no more.
- The fallback of `wg_encrypt_and_send()` to the previous keypair is dead code:
  `SlotDiscipline`, proved, says the current one is always confirmed.
- `wireguard_generate_unique_index()` compares the handshake's index although the
  handshake is about to be replaced: leaving it out changes nothing.
- The wipe after three times `REJECT_AFTER_TIME` (line 1001) needs a valid
  current keypair, which the next block destroys after one. It happens only if
  the timers are delayed.

## 4. What is proved

TLAPS checks the theorems below, for every value of the constants. They rest on
the named assumptions of the modules (`WordsAssumption`, `DeviceAssumption`,
`IndexAssumption` and so on, which TLC evaluates in the runs) and on nothing else.

| Module | Theorem | Statement |
|---|---|---|
| `ReplayWindow_proofs` | WindowTypes | `Spec => []TypeOK` |
| | WindowIsExact | `Spec => [](TypeOK /\ WindowExact)` |
| | WindowImplementsReplaySpec | `Spec => ImplementsReplaySpec` |
| `WgSession_proofs` | SessionTypes | `Spec => []TypeOK` |
| | SlotsStayInOrder | `Spec => []SlotDiscipline` |
| | SlotsStayDistinct | `Spec => []SlotsDistinct` |
| | NoncesAreUnique | `Spec => []NonceNeverReused` |
| | BothEndsAgree | `Spec => []SessionsAgree` |
| | PacketsDeliveredOnce | `Spec => []DeliveredOnce` |
| | ResponderWaits | `Spec => []ResponderWaitsForInitiator` |
| | InitiationsUsedOnce | `Spec => []InitiationUsedOnce` |
| | KeysUsedAlive | `Spec => KeysUsedInTheirLifetime` |
| | EndpointMovesForAReason | `Spec => EndpointMovesOnFresh` |
| | CookieIsForLastInitiation | `Spec => CookieAnswersLastInitiation` |
| | SlotsImplementLifecycle | `Spec => ImplementsKeyLifecycle` |
| `WgSend_proofs` | SendTypes | `Spec => []TypeOK` |
| | NoncesSurviveTheWait | `Spec => []NonceNeverReused` |
| | NewestGoesOutWhole | `Spec => []DamageMeansOverlap` |
| | RekeySurvivesTheWait | `Spec => []RekeyIsAsked` |
| | LockKeepsPacketsWhole | `~SendMayRelease => (Spec => []PacketsGoOutWhole)` |
| `WgIndex_proofs` | LastPeerIsDistinct | `Spec => []LastPeerDistinct` |
| | OnePeerIsEnough | with one peer, `Spec => []DeviceDistinct` |
| `WgControl_proofs` | OneTaskAtATime | with one shell, `Spec => []OneTaskWithItsSocket` |
| | DownIsClean | with one shell, `Spec => []NothingLeftBehind` |
| `WgConfig_proofs` | ConfigTypes | `Spec => []TypeOK` |
| | ActiveAgrees | `Spec => []ActiveIsStaged` |
| | LoadsAreFaithful | `Spec => []LoadFaithful` |
| | SavedIsReloaded | `Spec => []RoundTrip` |
| | CutFilesLoad | `Spec => []CutFileLoads` |
| | LongestPrefixWins | `Spec => []RoutesByLongestPrefix` |
| `WgCookie_proofs` | CookieTypes | `Spec => []TypeOK` |
| | NoEcho | `Spec => []NoCookieEcho` |
| | RetryHasCookie | `Spec => RetryCarriesCookie` |
| | InitiationsWait | `Spec => InitiationsPaced` |
| | WorkIsBounded | `Spec => []WorkBounded` |
| | WorkIsPaidFor | in runs shorter than a turn of the clock, `Spec => WorkNeedsCookie` |
| `ScDemo_proofs` | OneTask | with one shell that starts the demo, `Spec => []AtMostOneTask` |
| | StatusIsTrue | with one shell that starts the demo, `Spec => []NamedTaskLives` |
| | FaceIsCurrent | with one shell that starts the demo, `Spec => []ShownIsCurrent` |
| | DrawsFit | `Spec => []DrawsFitThePanel` |

**Replay window.** `WindowExact` is inductive once the verdict of the last call
and the range of the counter are added. The work is in the lemmas about the
shift: a bit of the shifted bitmap comes from the word `shift / width` words
below, or from the carry of the word below that one.

**Sessions.** No two packets of a device carry one key and counter. That is not
inductive: nothing in it keeps a *future* session from starting at counter zero
with a key that was used before. The invariant `IInv` adds, for each device,
`World`:

- `CounterAhead`: a key's counter is above every packet sent with it, so the
  next packet is new;
- `HandshakeUnused`: the ephemeral of an unanswered initiation is in no key of
  this device, in no packet it sent, and in no initiation of the other end, so
  the session its response starts has a new key;
- `KeysBelow` and `MessagesBelow`: whatever is in a slot or on the network was
  drawn before `fresh`, so the session a responder starts has a new key too;
- the order and distinctness of the slots, without which a copy of a key would
  have a counter of its own.

One device's steps disturb the other's `World` only by adding messages from the
first and drawing ephemerals (`OtherWorld`). Each function of `WgPeer` has a lemma
by which it leads from one world to another, and a handler is a chain of those
lemmas, which is how the C functions are composed. A restart loses the peer but
not `fresh`: that ephemeral keys do not repeat after a reboot is the trust put in
`wireguard_random_bytes()`.

**What the two ends owe each other.** `SessionsAgree`, `DeliveredOnce`,
`ResponderWaitsForInitiator` and `InitiationUsedOnce` compare the two devices, or
a device with its own past, and the present slots do not say enough: a key that
has left its slot still has packets in the network, and a copy of an old response
may arrive at any time. `HInv` adds to `IInv`, for each device, `Past`: every
installed key is a session this device started in this life and role, the responder
of a key it initiated has started it too (`ResponderStarted`), a key that was heard
on was used by the other end (`HeardFromOther`), the handshake in progress has led
to no session yet (`HandshakeOpen`), every initiation that made a session of this
life has a timestamp that has been passed (`TimestampsPassed`), and what was
accepted was accepted once and is remembered by the window of its key while that is
installed (`AcceptedOnce`). `Chronicle` says the same of datagrams and sessions
alone: a response was sent by the responder of the session it offers, data by an
end of its session, and a session has one responder. The four properties follow.
`DeliveredOnce` needs all of it: the window is forgotten with its key, so what keeps
an old packet out is that no session ever has that key again.
Accepting a packet is split in two for the proofs, as the handler does it: `SlotHeard`
says that hearing on a slot changes nothing of the slots but what that one has heard,
which `IInv`, `HInv` and the `Deed` of the receiver all rest on; `UpdateMoves` says
that `keypair_update()` makes no key afterwards, for `HInv` and the `Deed`. `AcceptedIsNew` gives the other half
of `DeliveredOnce`: a packet that passes the check was never accepted before.

The action properties and the refinement are about one step. `Deed(d)` sums up
what a handler of device `d` may do, in terms of those properties: the slots only
move on, at most one session starts and it starts in its slot, what leaves and what
is accepted uses a living key, the endpoint moves for a reason. For the last a session
counts only if what started it is fresh (`StartOnFresh`): from `HandshakeOpen`, the
initiation a response answers has led to no session in any life, and from
`TimestampsPassed`, an accepted initiation to none in this one. One lemma for each
handler shows its `Deed` from `IInv` or `HInv`; `KeysUsedAlive`,
`EndpointMovesForAReason` and `SlotsImplementLifecycle` are read off it.
`CookieIsForLastInitiation` needs one more invariant, `CInv`: the `mac1` a device
keeps is that of its last initiation. `KeysUsedAlive` rests on
`REJECT_AFTER_TIME` and `REJECT_AFTER_MESSAGES` being positive (180 seconds and
nearly 2^64 in the code): the packet that confirms a session is sent in the step
that starts it.

**Sending.** `IInv` adds two facts to the properties. `CounterAhead`: a keypair's
counter is past all that it encrypted, which a wait cannot undo because
`wireguard_encrypt_packet()` moves the counter before the lock can be lost; and no
two peers have a key in common. `WaitingIntact`: while a packet waits, it is in
`cryptbuf` from end to end, or a newer packet is at its beginning; that is what
the datagram inherits when it goes out. `RekeyIsAsked` is inductive as it stands
once "a send is on its way" is part of it: a request that is dropped after a wait
is dropped for an initiation of the same key, since only the task that waits
installs sessions.

**Indexes.** The search compares the last peer, so each of its draws differs from
all it holds; the moves between slots copy none.

**Control.** The invariant says, for each step of `wg_initialize()` and `wg_down()`,
which resources exist and whether a task may still be running: the socket is
open from `psock_socket()` to `psock_close()`, and the latter comes only after
`rxtask_done`.

**Configuration.** `ActiveIsStaged` is inductive: no command stages anything while
`wg0` is up, and `wg up` sets `active` from the operator that `showconf` follows.
The others are about the loops of the code, which are recursive functions on the
lines of a file or the peers of a list. `Induction` is the principle they share: a
set that holds 0, and with each number the next, holds all; it follows from
`WFMin` of the library, and each use names its set. That a recursive function has a
value for every number of passes is proved the same way (`ReadsExists`,
`AddsExists`, `WritesExists`, `RoutesExists`).

- `LongestPrefixWins`: after n passes the search holds the longest match of the
  first n peers (`RouteIsLongest`).
- `IInv` adds to the types that staged keys are `Distinct`, for two peers of one key
  would be loaded as one, and that what is in the file are lines that
  `wg_writeconf()` prints, which `wg setconf` may load.
- `LoadsAreFaithful`: after n lines without an error (`Parsed`) the accumulator holds
  what the open section has set so far, and the staged peers are those of the closed
  sections (`Staged`), each with what the last of them says. A header closes a
  section; `wg_set_peer()` adds it (`StagedNext`), as a new peer or over an old one.
  `LoadFaithful` reads the file without the parser, so the two are independent.
- `SavedIsReloaded` and `CutFilesLoad`: by induction over the peers that
  `wg_writeconf()` printed (`WrittenUpTo`), the parser is at the last of them, and
  each beginning of the text loads as the peers before it and, of the next, the
  settings that were read (`SectionRead` goes through a section line by line).

They rest on three assumptions: `KconfigAssumption` (the Kconfig values have their
types and the array holds a peer), `TextAssumption` (text is well formed, malformed
or empty, and only one of them) and `FilesAssumption` (what follows a key in a file
is text of its kind).

**Cookies.** `NoCookieEcho` (an answer never comes to an initiation that carried
the cookie in the answer) needs to know what an answer answers: `IInv` adds that
the network holds one initiation of each ephemeral (`OneOfEach`) and that what it
holds was drawn before `fresh` (`NetworkTypes`). The other half is a lemma about the
clock: in the code's arithmetic, nothing that happens now has expired.

The three properties about time compare true time with what the clock read, which
may have wrapped and is one tick late where it would have read zero:

- `InitiationsPaced`: `last_initiation_tx` is the reading at the tick `sent`
  (`SentWhenTimed`); the unsigned difference of two readings is at most the true
  time between them and that one tick, so a wrap can only make the timers wait longer.
- `WorkBounded`: the bucket in use began at some tick b, which the code does not
  keep, and none begins before a window has passed since b, up to one tick
  (`BeganIn`). The work of this window since b is at most `init_count` and at most
  the threshold, and so is what came before b (`BucketWork`). That another bucket
  begins just a tick early does no harm because nothing is worked on in a tick in
  which the bucket has run out and no new one has begun (`Buckets`).
- `WorkNeedsCookie`: the reading kept with the secret is that of the tick it was drawn
  in (`SecretAges`); what is put into mac2 is a cookie that was sent (`CookiesAreSent`). This one needs the hypothesis
  `MaxElapsed + 1 < ClockMod`: a secret is renewed only when a cookie is asked for, and
  one that nobody asked for during 2^32 ms, 49.7 days, looks new. With a clock of four
  readings and eight ticks TLC finds that violation.

**Demo.** All but `DrawsFit` assume that one shell `o` starts the demo. `IInv`
says that a task is known to `g_demo_pid` or, between `task_create()` and the
assignment, to that shell alone; and that the shell gets past the test of
`g_demo_pid` only when no task is named, which stays so until it names its own.

`DrawsFit` places every fill: a row of a circle lies in the square around it
(`CircleWithin`), each look of an eye in the box of that eye, the white of a mouth
in its box, the black of a mouth apart from the eyes. With `FaceTypes`, that nothing
but looks of expressions is ever queued, each fill is within the panel, its boxes
clear all that was white (`Cleared`) and it spares the other part (`Kept`). So a look
drawn over a whole face gives a whole face (`DrawIs`), on which `FaceIsCurrent`
rests. Its invariant `ShowInv` is about the panel as it will be once what is queued
has been drawn (`WillShow`): as long as no two actors draw at once, it will show the
eyes and the mouth of `g_expr`, unless an order to draw them is on its way to the
task (`Pending`: `g_redraw`, a command that is about to set it, or a task that has
taken it and not drawn yet) or someone who has the mouth open will close it
(`MouthMoves`). `face_draw()` restores it from anything, for it clears the panel.
That the task is alone (`OneTask`) is needed: another would take the order away.

Left to TLC:

- liveness under fairness, which needs ENABLED and which the provers do not have:
  `CommandsReturn`, `StopIsHeeded` and `FaceIsTakenUp`;
- the two properties of the runs that expect a violation. Every other property of a
  run is a theorem.

## 5. What is not modelled

- The cryptographic primitives (third-party code, trusted symbolically), the
  formatting of `wg_show()`, base64 and address parsing, which appear as "well
  formed or not".
- A released lock in `WgSession`: its handlers are atomic, and what `WgSend` shows
  to survive is proved there on its own. What the stack itself does with
  `dev->d_iob` while it waits is NuttX's.
- Unsigned spans: a keep-alive above 180 s makes `REJECT_AFTER_TIME -
  keepalive_interval` wrap (`nuttx-wireguardif.c:1032`). The code promises nothing
  about it.
- The entropy checks of `nuttx-platform.c`; random numbers are new by assumption.
- Kconfig values that are malformed text, which are taken to be well formed or empty
  (`KconfigAssumption`); the settings of a command or a file may be malformed.
- Another actor between the two accesses that a step of `ScDemo` combines.
- A save cut in the middle of a line: `CutFileLoads` cuts between lines.
- Whether a handshake ever completes: see Fairness.
- Of the demo, the `led`, `servo` and `py32` commands and the I2C and servo protocols,
  which touch devices and no state another step reads.
- The status output, the scripts, the container files, the `denyinet` app and the
  in-kernel driver, which exists here as patches and a plan.

## 6. Plan

Done, in this order, the most important behaviour first: the replay window and
its refinement; `WgPeer` and `WgSession` with `KeyLifecycle`; `WgIndex`;
`WgConfig`, then its routing and the file that is cut short; `WgControl`, then its
liveness; `WgCookie`; the demo; `WgSend`. What is left:

1. `WgSession` with the lock lost in a send, to join what `WgSend` and `WgSession` show.
2. A handshake that completes, under strong fairness of delivery and a phase
   between the two clocks, stated as the assumption it is.
3. The publication of the configuration file in one step, once the in-kernel
   version is source and not a patch.
