------------------------------ MODULE WgConfig ------------------------------
(***************************************************************************)
(* The configuration: what "wg set" and "wg setconf" stage in g_staged,    *)
(* what "wg saveconf" writes, and what "wg up" makes of it together with   *)
(* the Kconfig settings (nuttx-wireguardif.c).                             *)
(*                                                                         *)
(* Commands run one after the other; module WgControl is about what else   *)
(* runs meanwhile. A key, an address or a prefix is a value; Malformed     *)
(* stands for text that wg_decode_key(), inet_pton() or the port and       *)
(* prefix checks refuse. A file is the sequence of its lines, each a       *)
(* record of the key before the "=" and the value after it; a section      *)
(* header is a line with the key "[".                                      *)
(***************************************************************************)
EXTENDS Integers, Sequences, FiniteSets, SequencesExt

CONSTANTS
  MaxPeers,              \* WIREGUARD_MAX_PEERS
  Hosts,                 \* addresses, as numbers
  PrivateKeys, PublicKeys, Endpoints, AllowedIPs, Keepalives,
                         \* well-formed values a command or a file may give
  Malformed,             \* text that does not parse
  Unset,                 \* the empty string, NULL, or keepalive = -1
  Refused,               \* public keys with which there is no shared secret
  KconfigPrivateKey, KconfigPublicKey, KconfigEndpoint, KconfigAllowed,
  KconfigKeepalive,      \* CONFIG_NET_WIREGUARD_*; the first three may be Unset
  Files                  \* files an operator may load

ASSUME KconfigAssumption ==
  /\ MaxPeers \in Nat \ {0}
  /\ KconfigPrivateKey \in PrivateKeys \cup {Unset}
  /\ KconfigPublicKey \in PublicKeys \cup {Unset}
  /\ Refused \subseteq PublicKeys
  /\ KconfigEndpoint \in Endpoints \cup {Unset}
  /\ \A a \in AllowedIPs \cup {KconfigAllowed} :
       a.ip \in Hosts /\ a.host_bits \in Nat
  /\ KconfigKeepalive \in Nat

\* Text is well formed, or it is not, or it is empty.
ASSUME TextAssumption ==
  /\ Malformed # Unset
  /\ {Malformed, Unset} \cap PrivateKeys = {} /\ {Malformed, Unset} \cap PublicKeys = {}
  /\ {Malformed, Unset} \cap Endpoints = {}
  /\ {Malformed, Unset} \cap (AllowedIPs \cup {KconfigAllowed}) = {}
  /\ Unset \notin Keepalives \cup {KconfigKeepalive}

\* What the text after a key is: for a keep-alive atoi() always finds a number.
TextOf ==
  [PrivateKey |-> PrivateKeys \cup {Malformed},
   PublicKey |-> PublicKeys \cup {Malformed},
   Endpoint |-> Endpoints \cup {Unset, Malformed},
   AllowedIPs |-> AllowedIPs \cup {KconfigAllowed, Unset, Malformed},
   PersistentKeepalive |-> Keepalives \cup {KconfigKeepalive, Unset}]

IsLine(line) == line.k \in DOMAIN TextOf => line.v \in TextOf[line.k]

IsFile(lines) ==
  /\ Len(lines) \in Nat /\ DOMAIN lines = 1 .. Len(lines)
  /\ \A i \in DOMAIN lines : IsLine(lines[i])

ASSUME FilesAssumption == \A lines \in Files : IsFile(lines)

VARIABLES
  private_key,     \* g_staged.private_key
  peers,           \* g_staged.peers[0 .. npeers - 1]
  registered,      \* wg0 exists
  active,          \* the peers of the device while it does
  file,            \* what the last "wg saveconf" wrote
  loaded           \* history: the last "wg setconf", until something is staged
                   \* after it: the file and the result

vars == <<private_key, peers, registered, active, file, loaded>>

NotLoaded == [ret |-> "none", lines |-> <<>>]

Line(k, v) == [k |-> k, v |-> v]
Header == Line("[", Unset)

OrElse(value, default) == IF value = Unset THEN default ELSE value

-----------------------------------------------------------------------------
(* wg_set_peer() and wg_setconf(), on a list of staged peers.              *)

\* The staged peer of that key, or 0.
IndexOf(ps, key) ==
  IF \E i \in DOMAIN ps : ps[i].public_key = key
  THEN CHOOSE i \in DOMAIN ps : ps[i].public_key = key
  ELSE 0

\* A key not staged yet inherits the Kconfig allowed-ips.
NewPeer(key) ==
  [public_key |-> key, endpoint |-> Unset, allowed |-> KconfigAllowed,
   keepalive |-> Unset]

Overlay(p, endpoint, allowed, keepalive) ==
  [p EXCEPT !.endpoint = OrElse(endpoint, @), !.allowed = OrElse(allowed, @),
            !.keepalive = OrElse(keepalive, @)]

\* Mutant: the array is taken to be large enough.
wg_set_peer_NoLimit(ps, key, endpoint, allowed, keepalive) ==
  LET i == IndexOf(ps, key)
      p == IF i # 0 THEN ps[i] ELSE NewPeer(key)
      tmp == Overlay(p, endpoint, allowed, keepalive)
  IN  IF Malformed \in {key, endpoint, allowed} THEN [ret |-> "EINVAL", peers |-> ps]
      ELSE [ret |-> "OK",
            peers |-> IF i # 0 THEN [ps EXCEPT ![i] = tmp] ELSE Append(ps, tmp)]

\* The checks in their order, then the commit of a copy.
wg_set_peer(ps, key, endpoint, allowed, keepalive) ==
  LET i == IndexOf(ps, key)
      p == IF i # 0 THEN ps[i] ELSE NewPeer(key)
      tmp == Overlay(p, endpoint, allowed, keepalive)
  IN  IF key = Malformed THEN [ret |-> "EINVAL", peers |-> ps]
      ELSE IF i = 0 /\ Len(ps) >= MaxPeers THEN [ret |-> "ENOSPC", peers |-> ps]
      ELSE IF Malformed \in {endpoint, allowed} THEN [ret |-> "EINVAL", peers |-> ps]
      ELSE [ret |-> "OK",
            peers |-> IF i # 0 THEN [ps EXCEPT ![i] = tmp] ELSE Append(ps, tmp)]

\* struct wg_conf_peer_s; acc->valid is pubkey # Unset.
EmptySection ==
  [PublicKey |-> Unset, Endpoint |-> Unset, AllowedIPs |-> Unset,
   PersistentKeepalive |-> Unset]

\* Mutant: the accumulator is not reset for a section without a public key.
wg_conf_flush_peer_KeepsAccumulator(st) ==
  LET r == wg_set_peer(st.peers, st.acc.PublicKey, st.acc.Endpoint,
                       st.acc.AllowedIPs, st.acc.PersistentKeepalive)
  IN  IF st.acc.PublicKey = Unset THEN st
      ELSE [st EXCEPT !.acc = EmptySection, !.ret = r.ret, !.peers = r.peers]

wg_conf_flush_peer(st) ==
  LET r == wg_set_peer(st.peers, st.acc.PublicKey, st.acc.Endpoint,
                       st.acc.AllowedIPs, st.acc.PersistentKeepalive)
  IN  IF st.acc.PublicKey = Unset THEN [st EXCEPT !.acc = EmptySection]
      ELSE [st EXCEPT !.acc = EmptySection, !.ret = r.ret, !.peers = r.peers]

\* One pass of the loop of wg_setconf(). After an error nothing is done.
ReadLine(st, line) ==
  IF st.ret # "OK" THEN st
  ELSE IF line.k = "[" THEN wg_conf_flush_peer(st)
  ELSE IF line.k = "PrivateKey"
  THEN IF line.v = Malformed THEN [st EXCEPT !.ret = "EINVAL"]
       ELSE [st EXCEPT !.private_key = line.v]
  ELSE IF line.k \in DOMAIN EmptySection THEN [st EXCEPT !.acc[line.k] = line.v]
  ELSE st

\* The parser after the last line.
ReadAll(start, lines) ==
  LET read[n \in 0 .. Len(lines)] ==
        IF n = 0 THEN start ELSE ReadLine(read[n - 1], lines[n])
  IN  read[Len(lines)]

\* The staged state after wg_setconf(): the peer list starts empty, and is
\* emptied again when anything fails.
Setconf(key, lines) ==
  LET start == [private_key |-> key, peers |-> <<>>, acc |-> EmptySection, ret |-> "OK"]
      read == ReadAll(start, lines)
      end == IF read.ret = "OK" THEN wg_conf_flush_peer(read) ELSE read
  IN  [ret |-> end.ret, private_key |-> end.private_key,
       peers |-> IF end.ret = "OK" THEN end.peers ELSE <<>>]

-----------------------------------------------------------------------------
(* What "wg up" and "wg saveconf" make of the staged state.                *)

KconfigPeer ==
  [public_key |-> KconfigPublicKey, endpoint |-> KconfigEndpoint,
   allowed |-> KconfigAllowed, keepalive |-> KconfigKeepalive]

\* The settings a peer runs with.
RunsWith(p) == [p EXCEPT !.keepalive = OrElse(@, KconfigKeepalive)]

\* wg_add_peer(): the next slot of the device takes the peer, if one is free and
\* wireguard_peer_init() finds a shared secret with its key.
wg_add_peer(added, p) ==
  IF Len(added) >= MaxPeers \/ p.public_key \in Refused THEN added
  ELSE Append(added, RunsWith(p))

\* The list wg_configure_peer() and wg_writeconf() both walk.
PeersOrKconfig(ps) ==
  IF ps # <<>> THEN ps
  ELSE IF KconfigPublicKey = Unset THEN <<>>
  ELSE <<KconfigPeer>>

wg_configure_peer(ps) ==
  LET qs == PeersOrKconfig(ps)
      added[n \in 0 .. Len(qs)] ==
        IF n = 0 THEN <<>> ELSE wg_add_peer(added[n - 1], qs[n])
  IN  added[Len(qs)]

\* Mutant: a peer is written without a header of its own.
wg_showconf_peer_NoHeader(p) ==
  <<Line("PublicKey", p.public_key), Line("AllowedIPs", p.allowed)>>
  \o (IF p.endpoint = Unset THEN <<>> ELSE <<Line("Endpoint", p.endpoint)>>)
  \o <<Line("PersistentKeepalive", OrElse(p.keepalive, KconfigKeepalive))>>

\* Mutant: a keep-alive of zero is left out, like an unset one.
wg_showconf_peer_SkipsZero(p) ==
  <<Header, Line("PublicKey", p.public_key), Line("AllowedIPs", p.allowed)>>
  \o (IF p.endpoint = Unset THEN <<>> ELSE <<Line("Endpoint", p.endpoint)>>)
  \o (IF RunsWith(p).keepalive = 0 THEN <<>>
      ELSE <<Line("PersistentKeepalive", RunsWith(p).keepalive)>>)

wg_showconf_peer(p) ==
  <<Header, Line("PublicKey", p.public_key), Line("AllowedIPs", p.allowed)>>
  \o (IF p.endpoint = Unset THEN <<>> ELSE <<Line("Endpoint", p.endpoint)>>)
  \o <<Line("PersistentKeepalive", OrElse(p.keepalive, KconfigKeepalive))>>

wg_writeconf(key, ps) ==
  LET qs == PeersOrKconfig(ps)
      interface == <<Header, Line("PrivateKey", OrElse(key, KconfigPrivateKey)),
                     Line("ListenPort", Unset)>>
      written[n \in 0 .. Len(qs)] ==
        IF n = 0 THEN interface ELSE written[n - 1] \o wg_showconf_peer(qs[n])
  IN  IF OrElse(key, KconfigPrivateKey) = Unset THEN <<>> ELSE written[Len(qs)]

-----------------------------------------------------------------------------
(* Which peer a packet goes to, and from which one it is taken. An entry of *)
(* allowed-ips is an address and the number of bits its mask leaves free.   *)

\* (dest & mask) == (allowed->ip & mask)
Match(allowed, dest) ==
  dest \div 2 ^ allowed.host_bits = allowed.ip \div 2 ^ allowed.host_bits

LongerMask(a, b) == a.host_bits < b.host_bits

\* Mutant: the first peer that matches is taken.
wg_peer_for_dest_FirstMatch(ps, dest) ==
  LET best[n \in 0 .. Len(ps)] ==
        IF n = 0 THEN 0
        ELSE IF Match(ps[n].allowed, dest) /\ best[n - 1] = 0 THEN n ELSE best[n - 1]
  IN  best[Len(ps)]

\* The peer, by its index, or 0: the best of the first n, for each n.
wg_peer_for_dest(ps, dest) ==
  LET best[n \in 0 .. Len(ps)] ==
        IF n = 0 THEN 0
        ELSE IF /\ Match(ps[n].allowed, dest)
                /\ \/ best[n - 1] = 0
                   \/ LongerMask(ps[n].allowed, ps[best[n - 1]].allowed)
        THEN n ELSE best[n - 1]
  IN  best[Len(ps)]

\* src_ok of wg_process_data_message()
SourceOk(p, src) == Match(p.allowed, src)

-----------------------------------------------------------------------------

Init ==
  /\ private_key = Unset
  /\ peers = <<>>
  /\ registered = FALSE
  /\ active = <<>>
  /\ file = <<>>
  /\ loaded = NotLoaded

\* "wg set private-key" with a key that decodes; another changes nothing.
wg_set_private_key ==
  /\ ~registered
  /\ private_key' \in PrivateKeys
  /\ loaded' = NotLoaded
  /\ UNCHANGED <<peers, registered, active, file>>

\* "wg set peer"
SetPeer ==
  /\ ~registered
  /\ \E key \in PublicKeys \cup {Malformed},
        endpoint \in Endpoints \cup {Unset, Malformed},
        allowed \in AllowedIPs \cup {Unset, Malformed},
        keepalive \in Keepalives \cup {Unset} :
       LET r == wg_set_peer(peers, key, endpoint, allowed, keepalive)
       IN  /\ peers' = r.peers
           /\ loaded' = IF r.ret = "OK" THEN NotLoaded ELSE loaded
  /\ UNCHANGED <<private_key, registered, active, file>>

wg_remove_peer ==
  /\ ~registered
  /\ \E i \in DOMAIN peers : peers' = RemoveAt(peers, i)
  /\ loaded' = NotLoaded
  /\ UNCHANGED <<private_key, registered, active, file>>

Load(lines) ==
  LET r == Setconf(private_key, lines)
  IN  /\ private_key' = r.private_key
      /\ peers' = r.peers
      /\ loaded' = [ret |-> r.ret, lines |-> lines]
      /\ UNCHANGED <<registered, active, file>>

\* Mutant: only wg_set_peer() and wg_set_private_key() look whether wg0 is up.
wg_setconf_WhileUp == \E lines \in Files \cup {file} : Load(lines)

wg_setconf ==
  /\ ~registered
  /\ \E lines \in Files \cup {file} : Load(lines)

\* The file is truncated when it is opened, before wg_writeconf() finds out
\* whether there is a key to write; and what is written may end anywhere, if
\* the volume is full or the board is reset.
wg_saveconf ==
  /\ LET lines == wg_writeconf(private_key, peers)
     IN  \E n \in 0 .. Len(lines) : file' = SubSeq(lines, 1, n)
  /\ UNCHANGED <<private_key, peers, registered, active, loaded>>

\* "wg up": wg_initialize() with everything it needs from the system.
wg_initialize ==
  /\ ~registered
  /\ OrElse(private_key, KconfigPrivateKey) # Unset
  /\ registered' = TRUE
  /\ active' = wg_configure_peer(peers)
  /\ UNCHANGED <<private_key, peers, file, loaded>>

wg_down ==
  /\ registered
  /\ registered' = FALSE
  /\ active' = <<>>
  /\ UNCHANGED <<private_key, peers, file, loaded>>

\* What was staged is lost; the file stays.
Reboot ==
  /\ private_key' = Unset
  /\ peers' = <<>>
  /\ registered' = FALSE
  /\ active' = <<>>
  /\ loaded' = NotLoaded
  /\ UNCHANGED file

Next ==
  \/ wg_set_private_key
  \/ SetPeer
  \/ wg_remove_peer
  \/ wg_setconf
  \/ wg_saveconf
  \/ wg_initialize
  \/ wg_down
  \/ Reboot

Spec == Init /\ [][Next]_vars

-----------------------------------------------------------------------------

StagedPeers ==
  [public_key : PublicKeys, endpoint : Endpoints \cup {Unset},
   allowed : AllowedIPs \cup {KconfigAllowed}, keepalive : Keepalives \cup {Unset, KconfigKeepalive}]

TypeOK ==
  /\ private_key \in PrivateKeys \cup {Unset}
  /\ peers \in Seq(StagedPeers) /\ Len(peers) <= MaxPeers
  /\ registered \in BOOLEAN
  /\ active \in Seq(StagedPeers) /\ Len(active) <= MaxPeers

\* The interface runs exactly the configuration that "wg showconf" prints and
\* "wg saveconf" writes, but for peers whose key the device refuses, through every
\* sequence of commands: nothing stages anything while wg0 is up, and
\* wg_configure_peer() and wg_writeconf() agree on what is staged and what comes
\* from Kconfig.
ActiveIsStaged ==
  registered => active = wg_configure_peer(peers)

\* Saving, rebooting and loading reproduces the configuration: the peers the
\* interface would run, in their order, and its key, whatever was staged or
\* left to Kconfig (wg_writeconf: "saving and reloading a never-configured
\* board reproduces its built-in settings").
RoundTrip ==
  OrElse(private_key, KconfigPrivateKey) # Unset =>
    LET r == Setconf(Unset, wg_writeconf(private_key, peers))
    IN  /\ r.ret = "OK"
        /\ r.private_key = OrElse(private_key, KconfigPrivateKey)
        /\ wg_configure_peer(r.peers) = wg_configure_peer(peers)

\* A saved file that was cut short between two lines loads without an error,
\* which is why it matters what it loads as: the peers that had been written,
\* in their order, all as they were but the last, whose settings are its own
\* or the ones of a peer without any; never one peer with the settings of
\* another (wg_saveconf, wg_showconf_peer, wg_conf_flush_peer).
CutFileLoads ==
  LET lines == wg_writeconf(private_key, peers)
      whole == PeersOrKconfig(peers)
  IN  \A n \in 0 .. Len(lines) :
        LET r == Setconf(Unset, SubSeq(lines, 1, n))
            k == Len(r.peers)
        IN  /\ r.ret = "OK" /\ k <= Len(whole)
            /\ \A i \in 1 .. k - 1 : RunsWith(r.peers[i]) = RunsWith(whole[i])
            /\ k > 0 =>
                 LET p == r.peers[k]
                     none == NewPeer(whole[k].public_key)
                 IN  /\ p.public_key = whole[k].public_key
                     /\ p.endpoint \in {whole[k].endpoint, none.endpoint}
                     /\ p.allowed \in {whole[k].allowed, none.allowed}
                     /\ p.keepalive \in {RunsWith(whole[k]).keepalive, none.keepalive}

\* Whatever the order in which peers were staged, a packet goes to a peer whose
\* allowed-ips cover its destination, none covers it with a longer prefix, and
\* is dropped only if no peer covers it; an answer from that peer passes its
\* source check (wg_peer_for_dest, wg_process_data_message: "a peer carrying
\* 0.0.0.0/0 must not capture traffic for a host that another peer lists as
\* /32, whichever of the two was configured first").
RoutesByLongestPrefix ==
  \A dest \in Hosts :
    LET r == wg_peer_for_dest(active, dest)
        covering == {i \in DOMAIN active : Match(active[i].allowed, dest)}
    IN  /\ r = 0 <=> covering = {}
        /\ r # 0 => /\ r \in covering /\ SourceOk(active[r], dest)
                    /\ \A i \in covering : ~LongerMask(active[i].allowed, active[r].allowed)

(* What a file says, without the parser: its sections are the spans between
   two headers, the last line of a key counts in a section, and every section
   with a public key describes that peer, a later one adding to an earlier. *)

SectionOf(lines, i) == Cardinality({j \in 1 .. i : lines[j].k = "["})

Sections(lines) == 0 .. SectionOf(lines, Len(lines))

Setting(lines, s, k) ==
  LET at == {i \in DOMAIN lines : SectionOf(lines, i) = s /\ lines[i].k = k}
  IN  IF at = {} THEN Unset ELSE lines[CHOOSE i \in at : \A j \in at : j <= i].v

\* The sections that describe the peer of that key.
SectionsFor(lines, key) == {s \in Sections(lines) : Setting(lines, s, "PublicKey") = key}

LastSetting(lines, key, k) ==
  LET at == {s \in SectionsFor(lines, key) : Setting(lines, s, k) # Unset}
  IN  IF at = {} THEN Unset
      ELSE Setting(lines, CHOOSE s \in at : \A r \in at : r <= s, k)

KeysNamed(lines) == {key \in PublicKeys : SectionsFor(lines, key) # {}}

\* A load stages what the file says and nothing else, or, when it fails, no
\* peer at all (wg_setconf, wg_conf_flush_peer, wg_set_peer).
LoadFaithful ==
  LET ls == loaded.lines
  IN  /\ loaded.ret = "OK" =>
           /\ Len(peers) = Cardinality(KeysNamed(ls))
           /\ \A key \in KeysNamed(ls) : \E i \in DOMAIN peers :
                peers[i] = [public_key |-> key,
                            endpoint |-> LastSetting(ls, key, "Endpoint"),
                            allowed |-> OrElse(LastSetting(ls, key, "AllowedIPs"),
                                               KconfigAllowed),
                            keepalive |-> LastSetting(ls, key, "PersistentKeepalive")]
      /\ loaded.ret \notin {"OK", "none"} => peers = <<>>

\* wg_setconf(), after an error: "an operator who ignores the message and runs
\* "wg up" should get no tunnel".
FailedLoadMeansNoTunnel ==
  registered /\ loaded.ret \notin {"OK", "none"} => active = <<>>

=============================================================================
