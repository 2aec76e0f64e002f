--------------------------- MODULE WgConfig_proofs ---------------------------
(***************************************************************************)
(* What holds of the configuration for all keys, endpoints, prefixes,      *)
(* files, Kconfig settings and numbers of peers: the running interface and *)
(* the staged state agree, a packet goes to the longest prefix, what       *)
(* "wg setconf" stages is what its file says, and what "wg saveconf" writes*)
(* is what "wg setconf" loads, whole or cut short.                         *)
(*                                                                         *)
(* The loops of the code are recursive functions on the lines of a file or *)
(* the peers of a list. A fact about all of them is proved by induction on *)
(* the set of the numbers it holds for.                                    *)
(***************************************************************************)
EXTENDS WgConfig, WellFoundedInduction, SequenceTheorems, FiniteSetTheorems,
  FunctionTheorems, TLAPS

\* No sequence of commands, and no reset, makes the interface run anything but
\* what is staged: what "wg showconf" prints while it is up is what it runs.
THEOREM ActiveAgrees == Spec => []ActiveIsStaged
<1>1. Init => ActiveIsStaged
  BY DEF Init, ActiveIsStaged
<1>2. ActiveIsStaged /\ [Next]_vars => ActiveIsStaged'
  <2> SUFFICES ASSUME ActiveIsStaged, [Next]_vars PROVE ActiveIsStaged'
    OBVIOUS
  <2> USE DEF ActiveIsStaged
  <2>1. CASE wg_set_private_key
    BY <2>1 DEF wg_set_private_key
  <2>2. CASE SetPeer
    BY <2>2 DEF SetPeer
  <2>3. CASE wg_remove_peer
    BY <2>3 DEF wg_remove_peer
  <2>4. CASE wg_setconf
    BY <2>4 DEF wg_setconf, Load
  <2>5. CASE wg_saveconf
    <3>1. UNCHANGED <<peers, registered, active>>
      BY <2>5 DEF wg_saveconf
    <3>2. wg_configure_peer(peers)' = wg_configure_peer(peers)
      BY <3>1
    <3> QED BY <3>1, <3>2
  <2>6. CASE wg_initialize
    BY <2>6 DEF wg_initialize
  <2>7. CASE wg_down
    BY <2>7 DEF wg_down
  <2>8. CASE Reboot
    BY <2>8 DEF Reboot
  <2>9. CASE UNCHANGED vars
    BY <2>9 DEF vars
  <2> QED BY <2>1, <2>2, <2>3, <2>4, <2>5, <2>6, <2>7, <2>8, <2>9 DEF Next
<1> QED BY <1>1, <1>2, PTL DEF Spec

-----------------------------------------------------------------------------
(* Induction, and the loops of the code as functions: each has a value for *)
(* every number of passes.                                                 *)

\* A set of numbers has a least one.
LEMMA LeastNat ==
  ASSUME NEW T \in SUBSET Nat, T # {}
  PROVE  \E n \in T : \A m \in T : n <= m
<1>1. \E n \in T : \A m \in T : <<m, n>> \notin OpToRel(<, Nat)
  BY WFMin, NatLessThanWellFounded, Zenon
<1>2. \E n \in T : \A m \in T : ~(m < n)
  BY <1>1, Zenon DEF OpToRel
<1> QED BY <1>2

\* Induction from 0 to N, on the set of the numbers for which it holds.
LEMMA Induction ==
  ASSUME NEW N \in Nat, NEW T, 0 \in T, \A n \in 0 .. N - 1 : n \in T => n + 1 \in T
  PROVE  \A n \in 0 .. N : n \in T
<1> DEFINE Bad == {n \in 0 .. N : n \notin T}
<1>1. SUFFICES ASSUME Bad # {} PROVE FALSE
  OBVIOUS
<1>2. PICK n \in Bad : \A m \in Bad : n <= m
  <2>1. Bad \in SUBSET Nat
    OBVIOUS
  <2> HIDE DEF Bad
  <2> QED BY <1>1, <2>1, LeastNat
<1>3. n # 0 /\ n - 1 \in 0 .. N - 1 /\ n - 1 \notin Bad
  BY <1>2
<1>4. n - 1 \in T /\ n \notin T
  BY <1>2, <1>3
<1> QED BY <1>3, <1>4

\* f holds the parser after each of the first k lines.
Reads(start, lines, k, f) ==
  f = [n \in 0 .. k |-> IF n = 0 THEN start ELSE ReadLine(f[n - 1], lines[n])]

LEMMA ReadsExists ==
  ASSUME NEW start, NEW lines, NEW k \in Nat
  PROVE  \E f : Reads(start, lines, k, f)
<1> DEFINE T == {n \in 0 .. k : \E f : Reads(start, lines, n, f)}
<1>1. 0 \in T
  <2>1. Reads(start, lines, 0, [i \in 0 .. 0 |-> start])
    BY DEF Reads
  <2> QED BY <2>1
<1>2. ASSUME NEW n \in 0 .. k - 1, n \in T PROVE n + 1 \in T
  <2>1. PICK f : Reads(start, lines, n, f)
    BY <1>2
  <2> DEFINE g == [i \in 0 .. n + 1 |-> IF i = n + 1 THEN ReadLine(f[n], lines[n + 1]) ELSE f[i]]
  <2>2. Reads(start, lines, n + 1, g)
    BY <2>1 DEF Reads
  <2> QED BY <2>2
<1> HIDE DEF T
<1>3. \A n \in 0 .. k : n \in T
  BY <1>1, <1>2, Induction
<1>4. k \in T
  BY <1>3
<1> QED BY <1>4 DEF T

LEMMA ReadAllReads ==
  ASSUME NEW start, NEW lines, Len(lines) \in Nat
  PROVE  \E f : Reads(start, lines, Len(lines), f) /\ ReadAll(start, lines) = f[Len(lines)]
<1> DEFINE F == CHOOSE f : f = [n \in 0 .. Len(lines) |->
                  IF n = 0 THEN start ELSE ReadLine(f[n - 1], lines[n])]
<1>1. Reads(start, lines, Len(lines), F)
  BY ReadsExists DEF Reads
<1>2. ReadAll(start, lines) = F[Len(lines)]
  BY DEF ReadAll
<1> QED BY <1>1, <1>2

\* f holds the peers of the device after each of the first k passes of
\* wg_configure_peer().
Adds(qs, k, f) ==
  f = [n \in 0 .. k |-> IF n = 0 THEN <<>> ELSE wg_add_peer(f[n - 1], qs[n])]

LEMMA AddsExists ==
  ASSUME NEW qs, NEW k \in Nat
  PROVE  \E f : Adds(qs, k, f)
<1> DEFINE T == {n \in 0 .. k : \E f : Adds(qs, n, f)}
<1>1. 0 \in T
  <2>1. Adds(qs, 0, [i \in 0 .. 0 |-> <<>>])
    BY DEF Adds
  <2> QED BY <2>1
<1>2. ASSUME NEW n \in 0 .. k - 1, n \in T PROVE n + 1 \in T
  <2>1. PICK f : Adds(qs, n, f)
    BY <1>2
  <2> DEFINE g == [i \in 0 .. n + 1 |-> IF i = n + 1 THEN wg_add_peer(f[n], qs[n + 1]) ELSE f[i]]
  <2>2. Adds(qs, n + 1, g)
    BY <2>1 DEF Adds
  <2> QED BY <2>2
<1> HIDE DEF T
<1>3. \A n \in 0 .. k : n \in T
  BY <1>1, <1>2, Induction
<1>4. k \in T
  BY <1>3
<1> QED BY <1>4 DEF T

LEMMA ConfigureAdds ==
  ASSUME NEW ps, Len(PeersOrKconfig(ps)) \in Nat
  PROVE  \E f : /\ Adds(PeersOrKconfig(ps), Len(PeersOrKconfig(ps)), f)
                /\ wg_configure_peer(ps) = f[Len(PeersOrKconfig(ps))]
<1> DEFINE qs == PeersOrKconfig(ps)
           F == CHOOSE f : f = [n \in 0 .. Len(qs) |->
                  IF n = 0 THEN <<>> ELSE wg_add_peer(f[n - 1], qs[n])]
<1>1. Adds(qs, Len(qs), F)
  BY AddsExists DEF Adds
<1>2. wg_configure_peer(ps) = F[Len(qs)]
  BY DEF wg_configure_peer
<1> QED BY <1>1, <1>2

\* One pass of the loop of wg_peer_for_dest().
RouteStep(ps, dest, n, b) ==
  IF /\ Match(ps[n].allowed, dest)
     /\ \/ b = 0
        \/ LongerMask(ps[n].allowed, ps[b].allowed)
  THEN n ELSE b

Routes(ps, dest, k, f) ==
  f = [n \in 0 .. k |-> IF n = 0 THEN 0 ELSE RouteStep(ps, dest, n, f[n - 1])]

LEMMA RoutesExists ==
  ASSUME NEW ps, NEW dest, NEW k \in Nat
  PROVE  \E f : Routes(ps, dest, k, f)
<1> DEFINE T == {n \in 0 .. k : \E f : Routes(ps, dest, n, f)}
<1>1. 0 \in T
  <2>1. Routes(ps, dest, 0, [i \in 0 .. 0 |-> 0])
    BY DEF Routes
  <2> QED BY <2>1
<1>2. ASSUME NEW n \in 0 .. k - 1, n \in T PROVE n + 1 \in T
  <2>1. PICK f : Routes(ps, dest, n, f)
    BY <1>2
  <2> DEFINE g == [i \in 0 .. n + 1 |->
                     IF i = n + 1 THEN RouteStep(ps, dest, n + 1, f[n]) ELSE f[i]]
  <2>2. Routes(ps, dest, n + 1, g)
    BY <2>1 DEF Routes
  <2> QED BY <2>2
<1> HIDE DEF T
<1>3. \A n \in 0 .. k : n \in T
  BY <1>1, <1>2, Induction
<1>4. k \in T
  BY <1>3
<1> QED BY <1>4 DEF T

\* The best entry of the first n is the longest that matches among them.
LEMMA RouteIsLongest ==
  ASSUME NEW ps, NEW dest, Len(ps) \in Nat, DOMAIN ps = 1 .. Len(ps),
         \A i \in DOMAIN ps : ps[i].allowed.host_bits \in Nat,
         NEW r, r = wg_peer_for_dest(ps, dest)
  PROVE  /\ r = 0 <=> {i \in DOMAIN ps : Match(ps[i].allowed, dest)} = {}
         /\ r # 0 => /\ r \in {i \in DOMAIN ps : Match(ps[i].allowed, dest)}
                     /\ \A i \in DOMAIN ps : Match(ps[i].allowed, dest)
                          => ~LongerMask(ps[i].allowed, ps[r].allowed)
<1>0. PICK N \in Nat : N = Len(ps)
  OBVIOUS
<1>1. \E F : Routes(ps, dest, N, F) /\ r = F[N]
  <2> DEFINE F == CHOOSE f : f = [n \in 0 .. N |->
                      IF n = 0 THEN 0
                      ELSE IF /\ Match(ps[n].allowed, dest)
                              /\ \/ f[n - 1] = 0
                                 \/ LongerMask(ps[n].allowed, ps[f[n - 1]].allowed)
                      THEN n ELSE f[n - 1]]
  <2>1. \E f : Routes(ps, dest, N, f)
    BY RoutesExists
  <2>2. Routes(ps, dest, N, F)
    BY <2>1, Zenon DEF Routes, RouteStep
  <2>3. r = F[N]
    BY <1>0, Zenon DEF wg_peer_for_dest
  <2> QED BY <2>2, <2>3
<1>2. PICK F : Routes(ps, dest, N, F) /\ r = F[N]
  BY <1>1
<1> DEFINE Best(n, b) ==
             /\ b \in 0 .. n
             /\ b = 0 => \A i \in 1 .. n : ~Match(ps[i].allowed, dest)
             /\ b # 0 => /\ Match(ps[b].allowed, dest)
                         /\ \A i \in 1 .. n : Match(ps[i].allowed, dest)
                              => ~LongerMask(ps[i].allowed, ps[b].allowed)
           T == {n \in 0 .. N : Best(n, F[n])}
<1>3. 0 \in T
  BY <1>2 DEF Routes
<1>4. ASSUME NEW n \in 0 .. N - 1, n \in T PROVE n + 1 \in T
  <2>1. F[n + 1] = RouteStep(ps, dest, n + 1, F[n])
    BY <1>2 DEF Routes
  <2>2. Best(n, F[n])
    BY <1>4
  <2>3. \A i \in 1 .. n + 1 : ps[i].allowed.host_bits \in Nat
    BY <1>0
  <2> HIDE DEF T
  <2>4. Best(n + 1, F[n + 1])
    <3>1. PICK b \in 0 .. n : b = F[n]
      BY <2>2
    <3>2. CASE ~(Match(ps[n + 1].allowed, dest)
                 /\ (b = 0 \/ LongerMask(ps[n + 1].allowed, ps[b].allowed)))
      <4>1. F[n + 1] = b
        BY <2>1, <3>1, <3>2 DEF RouteStep
      <4>2. \A i \in 1 .. n + 1 : i \in 1 .. n \/ i = n + 1
        OBVIOUS
      <4> QED BY <2>2, <3>1, <3>2, <4>1, <4>2
    <3>3. CASE /\ Match(ps[n + 1].allowed, dest)
               /\ b = 0 \/ LongerMask(ps[n + 1].allowed, ps[b].allowed)
      <4>1. F[n + 1] = n + 1
        BY <2>1, <3>1, <3>3 DEF RouteStep
      <4>2. ASSUME NEW i \in 1 .. n + 1, Match(ps[i].allowed, dest)
            PROVE  ~LongerMask(ps[i].allowed, ps[n + 1].allowed)
        <5>1. CASE i = n + 1
          BY <2>3, <5>1 DEF LongerMask
        <5>2. CASE i # n + 1
          <6>1. i \in 1 .. n /\ b # 0 /\ ~LongerMask(ps[i].allowed, ps[b].allowed)
            BY <2>2, <3>1, <4>2, <5>2
          <6>2. b \in 1 .. n + 1 /\ n + 1 \in 1 .. n + 1
            BY <6>1
          <6> QED BY <2>3, <3>3, <6>1, <6>2 DEF LongerMask
        <5> QED BY <5>1, <5>2
      <4> QED BY <3>3, <4>1, <4>2
    <3> QED BY <3>2, <3>3
  <2> QED BY <2>4 DEF T
<1> HIDE DEF T
<1>5. \A n \in 0 .. N : n \in T
  BY <1>3, <1>4, Induction
<1>6. N \in T
  BY <1>5
<1> QED BY <1>0, <1>2, <1>6 DEF T

-----------------------------------------------------------------------------
(* The types of wg_set_peer() and of the parser: no two staged peers have  *)
(* the same key, and a load keeps it so.                                   *)

\* No key is staged twice.
Distinct(ps) ==
  \A i, j \in DOMAIN ps : ps[i].public_key = ps[j].public_key => i = j

PeerLists == {ps \in Seq(StagedPeers) : Len(ps) <= MaxPeers /\ Distinct(ps)}

Results == {"OK", "EINVAL", "ENOSPC"}

Accumulators ==
  [PublicKey : PublicKeys \cup {Malformed, Unset},
   Endpoint : Endpoints \cup {Unset, Malformed},
   AllowedIPs : AllowedIPs \cup {KconfigAllowed, Unset, Malformed},
   PersistentKeepalive : Keepalives \cup {KconfigKeepalive, Unset}]

ParserStates ==
  [private_key : PrivateKeys \cup {Unset}, peers : PeerLists, acc : Accumulators,
   ret : Results]

LEMMA IndexOfKey ==
  ASSUME NEW ps \in PeerLists, NEW key, NEW n, n = IndexOf(ps, key)
  PROVE  \/ n = 0 /\ \A i \in DOMAIN ps : ps[i].public_key # key
         \/ n \in DOMAIN ps /\ ps[n].public_key = key
BY DEF IndexOf

LEMMA AppendPeer ==
  ASSUME NEW ps \in PeerLists, NEW p \in StagedPeers, Len(ps) < MaxPeers,
         \A i \in DOMAIN ps : ps[i].public_key # p.public_key
  PROVE  /\ Append(ps, p) \in PeerLists /\ Len(Append(ps, p)) = Len(ps) + 1
         /\ \A i \in DOMAIN ps : Append(ps, p)[i] = ps[i]
         /\ Append(ps, p)[Len(ps) + 1] = p
         /\ DOMAIN Append(ps, p) = 1 .. Len(ps) + 1
<1>1. /\ ps \in Seq(StagedPeers) /\ Len(ps) \in Nat /\ DOMAIN ps = 1 .. Len(ps)
      /\ Len(ps) <= MaxPeers /\ Distinct(ps)
  BY DEF PeerLists
<1>2. PICK qs : qs = Append(ps, p)
  OBVIOUS
<1>3. /\ qs \in Seq(StagedPeers) /\ Len(qs) = Len(ps) + 1 /\ DOMAIN qs = 1 .. Len(ps) + 1
      /\ \A i \in DOMAIN ps : qs[i] = ps[i]
      /\ qs[Len(ps) + 1] = p
  BY <1>1, <1>2
<1>4. Distinct(qs)
  BY <1>1, <1>3 DEF Distinct
<1>5. Len(qs) <= MaxPeers
  BY <1>1, <1>3, KconfigAssumption
<1> QED BY <1>2, <1>3, <1>4, <1>5 DEF PeerLists

LEMMA ReplacePeer ==
  ASSUME NEW ps \in PeerLists, NEW p \in StagedPeers, NEW i \in DOMAIN ps,
         p.public_key = ps[i].public_key
  PROVE  [ps EXCEPT ![i] = p] \in PeerLists
<1>1. /\ ps \in Seq(StagedPeers) /\ Len(ps) \in Nat /\ DOMAIN ps = 1 .. Len(ps)
      /\ Len(ps) <= MaxPeers /\ Distinct(ps)
  BY DEF PeerLists
<1>2. PICK qs : qs = [ps EXCEPT ![i] = p]
  OBVIOUS
<1>3. qs \in Seq(StagedPeers) /\ Len(qs) = Len(ps)
  BY <1>1, <1>2, ExceptSeq
<1>4. Distinct(qs)
  BY <1>1, <1>2 DEF Distinct
<1> QED BY <1>1, <1>2, <1>3, <1>4 DEF PeerLists

LEMMA OverlayType ==
  ASSUME NEW p \in StagedPeers, NEW endpoint \in Endpoints \cup {Unset},
         NEW allowed \in AllowedIPs \cup {KconfigAllowed, Unset},
         NEW keepalive \in Keepalives \cup {KconfigKeepalive, Unset}
  PROVE  /\ Overlay(p, endpoint, allowed, keepalive) \in StagedPeers
         /\ Overlay(p, endpoint, allowed, keepalive).public_key = p.public_key
BY DEF Overlay, OrElse, StagedPeers

LEMMA NewPeerType ==
  ASSUME NEW key \in PublicKeys
  PROVE  NewPeer(key) \in StagedPeers /\ NewPeer(key).public_key = key
BY DEF NewPeer, StagedPeers

\* The outcomes of wg_set_peer().
LEMMA SetPeerParts ==
  ASSUME NEW ps \in PeerLists, NEW key \in PublicKeys \cup {Malformed},
         NEW endpoint \in Endpoints \cup {Unset, Malformed},
         NEW allowed \in AllowedIPs \cup {KconfigAllowed, Unset, Malformed},
         NEW keepalive \in Keepalives \cup {KconfigKeepalive, Unset},
         NEW r, r = wg_set_peer(ps, key, endpoint, allowed, keepalive)
  PROVE  /\ r.ret \in Results /\ r.peers \in PeerLists
         /\ r.ret # "OK" => r.peers = ps
         /\ r.ret = "OK" => key # Malformed
<1> DEFINE i == IndexOf(ps, key)
           p == IF i # 0 THEN ps[i] ELSE NewPeer(key)
           tmp == Overlay(p, endpoint, allowed, keepalive)
<1>1. \/ i = 0 /\ \A j \in DOMAIN ps : ps[j].public_key # key
      \/ i \in DOMAIN ps /\ ps[i].public_key = key
  BY IndexOfKey
<1>2. /\ ps \in Seq(StagedPeers) /\ Len(ps) \in Nat /\ DOMAIN ps = 1 .. Len(ps)
      /\ Len(ps) <= MaxPeers
  BY DEF PeerLists
<1>3. ASSUME key # Malformed PROVE p \in StagedPeers /\ p.public_key = key
  <2>1. CASE i = 0
    BY <1>3, <2>1, NewPeerType
  <2>2. CASE i # 0
    BY <1>1, <1>2, <2>2, ElementOfSeq
  <2> QED BY <2>1, <2>2
<1> HIDE DEF p
<1>4. ASSUME key # Malformed, Malformed \notin {endpoint, allowed}
      PROVE  tmp \in StagedPeers /\ tmp.public_key = key
  BY <1>3, <1>4, OverlayType
<1> HIDE DEF i, tmp
<1>5. r = IF key = Malformed THEN [ret |-> "EINVAL", peers |-> ps]
      ELSE IF i = 0 /\ Len(ps) >= MaxPeers THEN [ret |-> "ENOSPC", peers |-> ps]
      ELSE IF Malformed \in {endpoint, allowed} THEN [ret |-> "EINVAL", peers |-> ps]
      ELSE [ret |-> "OK",
            peers |-> IF i # 0 THEN [ps EXCEPT ![i] = tmp] ELSE Append(ps, tmp)]
  BY Zenon DEF wg_set_peer, i, p, tmp
<1>6. ASSUME key # Malformed, ~(i = 0 /\ Len(ps) >= MaxPeers),
             Malformed \notin {endpoint, allowed}
      PROVE  (IF i # 0 THEN [ps EXCEPT ![i] = tmp] ELSE Append(ps, tmp)) \in PeerLists
  <2>1. CASE i = 0
    <3>1. Len(ps) < MaxPeers
      BY <1>2, <1>6, <2>1, KconfigAssumption
    <3> QED BY <1>1, <1>4, <1>6, <2>1, <1>2, <3>1, AppendPeer
  <2>2. CASE i # 0
    BY <1>1, <1>4, <1>6, <2>2, ReplacePeer
  <2> QED BY <2>1, <2>2
<1> QED BY <1>5, <1>6 DEF Results

LEMMA FlushType ==
  ASSUME NEW st \in ParserStates
  PROVE  wg_conf_flush_peer(st) \in ParserStates
<1> DEFINE r == wg_set_peer(st.peers, st.acc.PublicKey, st.acc.Endpoint,
                            st.acc.AllowedIPs, st.acc.PersistentKeepalive)
<1>1. EmptySection \in Accumulators
  BY DEF EmptySection, Accumulators
<1>2. CASE st.acc.PublicKey = Unset
  BY <1>1, <1>2 DEF wg_conf_flush_peer, ParserStates
<1>3. CASE st.acc.PublicKey # Unset
  <2>1. r.ret \in Results /\ r.peers \in PeerLists
    <3>1. /\ st.peers \in PeerLists /\ st.acc.PublicKey \in PublicKeys \cup {Malformed}
          /\ st.acc.Endpoint \in Endpoints \cup {Unset, Malformed}
          /\ st.acc.AllowedIPs \in AllowedIPs \cup {KconfigAllowed, Unset, Malformed}
          /\ st.acc.PersistentKeepalive \in Keepalives \cup {KconfigKeepalive, Unset}
      BY <1>3 DEF ParserStates, Accumulators
    <3>2. PICK x : x = r
      OBVIOUS
    <3>3. PICK k, e, a, t, ps :
            /\ k = st.acc.PublicKey /\ e = st.acc.Endpoint /\ a = st.acc.AllowedIPs
            /\ t = st.acc.PersistentKeepalive /\ ps = st.peers
      OBVIOUS
    <3>4. x = wg_set_peer(ps, k, e, a, t)
      BY ONLY <3>2, <3>3 DEF r
    <3>5. x.ret \in Results /\ x.peers \in PeerLists
      BY ONLY <3>1, <3>3, <3>4, SetPeerParts
    <3> QED BY <3>2, <3>5
  <2>2. wg_conf_flush_peer(st) = [st EXCEPT !.acc = EmptySection, !.ret = r.ret, !.peers = r.peers]
    BY <1>3 DEF wg_conf_flush_peer
  <2> HIDE DEF r
  <2> QED BY <1>1, <2>1, <2>2 DEF ParserStates
<1> QED BY <1>2, <1>3

LEMMA ReadLineType ==
  ASSUME NEW st \in ParserStates, NEW line, IsLine(line)
  PROVE  ReadLine(st, line) \in ParserStates
<1>1. CASE st.ret # "OK" \/ line.k = "["
  BY <1>1, FlushType DEF ReadLine
<1>2. CASE st.ret = "OK" /\ line.k = "PrivateKey"
  <2>1. line.v \in PrivateKeys \cup {Malformed}
    BY <1>2 DEF IsLine, TextOf
  <2> QED BY <1>2, <2>1 DEF ReadLine, ParserStates, Results
<1>3. CASE st.ret = "OK" /\ line.k = "PublicKey"
  <2>1. line.v \in PublicKeys \cup {Malformed}
    BY <1>3 DEF IsLine, TextOf
  <2>2. ReadLine(st, line) = [st EXCEPT !.acc.PublicKey = line.v]
    BY <1>3 DEF ReadLine, EmptySection
  <2> QED BY <2>1, <2>2 DEF ParserStates, Accumulators
<1>4. CASE st.ret = "OK" /\ line.k = "Endpoint"
  <2>1. line.v \in Endpoints \cup {Unset, Malformed}
    BY <1>4 DEF IsLine, TextOf
  <2>2. ReadLine(st, line) = [st EXCEPT !.acc.Endpoint = line.v]
    BY <1>4 DEF ReadLine, EmptySection
  <2> QED BY <2>1, <2>2 DEF ParserStates, Accumulators
<1>5. CASE st.ret = "OK" /\ line.k = "AllowedIPs"
  <2>1. line.v \in AllowedIPs \cup {KconfigAllowed, Unset, Malformed}
    BY <1>5 DEF IsLine, TextOf
  <2>2. ReadLine(st, line) = [st EXCEPT !.acc.AllowedIPs = line.v]
    BY <1>5 DEF ReadLine, EmptySection
  <2> QED BY <2>1, <2>2 DEF ParserStates, Accumulators
<1>6. CASE st.ret = "OK" /\ line.k = "PersistentKeepalive"
  <2>1. line.v \in Keepalives \cup {KconfigKeepalive, Unset}
    BY <1>6 DEF IsLine, TextOf
  <2>2. ReadLine(st, line) = [st EXCEPT !.acc.PersistentKeepalive = line.v]
    BY <1>6 DEF ReadLine, EmptySection
  <2> QED BY <2>1, <2>2 DEF ParserStates, Accumulators
<1>7. CASE line.k \notin {"[", "PrivateKey", "PublicKey", "Endpoint", "AllowedIPs",
                          "PersistentKeepalive"}
  <2>1. ReadLine(st, line) = st
    BY <1>7 DEF ReadLine, EmptySection
  <2> QED BY <2>1
<1> QED BY <1>1, <1>2, <1>3, <1>4, <1>5, <1>6, <1>7

LEMMA ReadAllType ==
  ASSUME NEW start \in ParserStates, NEW lines, IsFile(lines)
  PROVE  ReadAll(start, lines) \in ParserStates
<1>1. PICK N \in Nat : N = Len(lines)
  BY DEF IsFile
<1>2. PICK f : Reads(start, lines, N, f) /\ ReadAll(start, lines) = f[N]
  BY <1>1, ReadAllReads
<1> DEFINE T == {n \in 0 .. N : f[n] \in ParserStates}
<1>3. 0 \in T
  BY <1>2 DEF Reads
<1>4. ASSUME NEW n \in 0 .. N - 1, n \in T PROVE n + 1 \in T
  <2>1. f[n + 1] = ReadLine(f[n], lines[n + 1])
    BY <1>2 DEF Reads
  <2>2. IsLine(lines[n + 1])
    BY <1>1 DEF IsFile
  <2> QED BY <1>4, <2>1, <2>2, ReadLineType
<1> HIDE DEF T
<1>5. \A n \in 0 .. N : n \in T
  BY <1>3, <1>4, Induction
<1> QED BY <1>2, <1>5 DEF T

LEMMA SetconfType ==
  ASSUME NEW key \in PrivateKeys \cup {Unset}, NEW lines, IsFile(lines),
         NEW r, r = Setconf(key, lines)
  PROVE  /\ r.private_key \in PrivateKeys \cup {Unset}
         /\ r.peers \in PeerLists /\ r.ret \in Results
         /\ r.ret # "OK" => r.peers = <<>>
<1> DEFINE start == [private_key |-> key, peers |-> <<>>, acc |-> EmptySection, ret |-> "OK"]
           read == ReadAll(start, lines)
           end == IF read.ret = "OK" THEN wg_conf_flush_peer(read) ELSE read
<1>1. <<>> \in PeerLists
  BY KconfigAssumption DEF PeerLists, Distinct
<1>2. start \in ParserStates
  BY <1>1 DEF ParserStates, EmptySection, Accumulators, Results
<1> HIDE DEF start
<1>3. read \in ParserStates
  BY <1>2, ReadAllType
<1> HIDE DEF read
<1>4. end \in ParserStates
  BY <1>3, FlushType
<1>5. r = [ret |-> end.ret, private_key |-> end.private_key,
           peers |-> IF end.ret = "OK" THEN end.peers ELSE <<>>]
  BY DEF Setconf, start, read
<1> HIDE DEF end
<1> QED BY <1>1, <1>4, <1>5 DEF ParserStates

-----------------------------------------------------------------------------
(* The lines that wg_writeconf() prints, and the inductive invariant: what *)
(* "wg saveconf" leaves is a file that "wg setconf" may load.              *)

\* The lines wg_writeconf() prints.
Pre(p) == <<Header, Line("PublicKey", p.public_key), Line("AllowedIPs", p.allowed)>>
Mid(p) == IF p.endpoint = Unset THEN <<>> ELSE <<Line("Endpoint", p.endpoint)>>
Post(p) == <<Line("PersistentKeepalive", OrElse(p.keepalive, KconfigKeepalive))>>

Texts ==
  PrivateKeys \cup PublicKeys \cup Endpoints \cup AllowedIPs \cup Keepalives
  \cup {KconfigAllowed, KconfigKeepalive, Unset, Malformed}

Keywords == {"[", "ListenPort"} \cup DOMAIN TextOf

TextLines == {line \in [k : Keywords, v : Texts] : IsLine(line)}

\* The text v may follow the keyword k.
Follows(k, v) == k \in DOMAIN TextOf => v \in TextOf[k]

LEMMA TextLine ==
  ASSUME NEW k \in Keywords, NEW v \in Texts, Follows(k, v)
  PROVE  Line(k, v) \in TextLines
<1>1. Line(k, v) = [k |-> k, v |-> v]
  BY DEF Line
<1>2. IsLine([k |-> k, v |-> v])
  BY DEF IsLine, Follows
<1> QED BY <1>1, <1>2 DEF TextLines

LEMMA FollowsKey ==
  /\ {"[", "ListenPort", "PrivateKey", "PublicKey", "Endpoint", "AllowedIPs",
      "PersistentKeepalive"} \subseteq Keywords
  /\ \A v : Follows("[", v) /\ Follows("ListenPort", v)
  /\ \A v \in PrivateKeys : Follows("PrivateKey", v)
  /\ \A v \in PublicKeys : Follows("PublicKey", v)
  /\ \A v \in Endpoints : Follows("Endpoint", v)
  /\ \A v \in AllowedIPs \cup {KconfigAllowed} : Follows("AllowedIPs", v)
  /\ \A v \in Keepalives \cup {KconfigKeepalive} : Follows("PersistentKeepalive", v)
<1>1. DOMAIN TextOf = {"PrivateKey", "PublicKey", "Endpoint", "AllowedIPs", "PersistentKeepalive"}
  BY DEF TextOf
<1>2. /\ TextOf["PrivateKey"] = PrivateKeys \cup {Malformed}
      /\ TextOf["PublicKey"] = PublicKeys \cup {Malformed}
      /\ TextOf["Endpoint"] = Endpoints \cup {Unset, Malformed}
      /\ TextOf["AllowedIPs"] = AllowedIPs \cup {KconfigAllowed, Unset, Malformed}
      /\ TextOf["PersistentKeepalive"] = Keepalives \cup {KconfigKeepalive, Unset}
  BY DEF TextOf
<1> QED BY <1>1, <1>2 DEF Follows, Keywords

LEMMA HeaderLine == Header \in TextLines /\ Line("ListenPort", Unset) \in TextLines
<1>1. Unset \in Texts
  BY DEF Texts
<1>2. Line("[", Unset) \in TextLines
  BY <1>1, FollowsKey, TextLine
<1>3. Line("ListenPort", Unset) \in TextLines
  BY <1>1, FollowsKey, TextLine
<1> QED BY <1>2, <1>3 DEF Header

LEMMA SectionLines ==
  ASSUME NEW p \in StagedPeers
  PROVE  /\ Pre(p) \in Seq(TextLines) /\ Mid(p) \in Seq(TextLines) /\ Post(p) \in Seq(TextLines)
         /\ wg_showconf_peer(p) = Pre(p) \o Mid(p) \o Post(p)
         /\ wg_showconf_peer(p) \in Seq(TextLines)
<1>1. Header \in TextLines
  BY HeaderLine
<1>2. Line("PublicKey", p.public_key) \in TextLines
  <2>1. p.public_key \in PublicKeys
    BY DEF StagedPeers
  <2>2. p.public_key \in Texts
    BY <2>1 DEF Texts
  <2> QED BY <2>1, <2>2, FollowsKey, TextLine
<1>3. Line("AllowedIPs", p.allowed) \in TextLines
  <2>1. p.allowed \in AllowedIPs \cup {KconfigAllowed}
    BY DEF StagedPeers
  <2>2. p.allowed \in Texts
    BY <2>1 DEF Texts
  <2> QED BY <2>1, <2>2, FollowsKey, TextLine
<1>4. p.endpoint # Unset => Line("Endpoint", p.endpoint) \in TextLines
  <2> HAVE p.endpoint # Unset
  <2>1. p.endpoint \in Endpoints
    BY DEF StagedPeers
  <2>2. p.endpoint \in Texts
    BY <2>1 DEF Texts
  <2> QED BY <2>1, <2>2, FollowsKey, TextLine
<1>5. Line("PersistentKeepalive", OrElse(p.keepalive, KconfigKeepalive)) \in TextLines
  <2>1. OrElse(p.keepalive, KconfigKeepalive) \in Keepalives \cup {KconfigKeepalive}
    BY DEF StagedPeers, OrElse
  <2>2. OrElse(p.keepalive, KconfigKeepalive) \in Texts
    BY <2>1 DEF Texts
  <2> QED BY <2>1, <2>2, FollowsKey, TextLine
<1>6. Pre(p) \in Seq(TextLines)
  BY <1>1, <1>2, <1>3 DEF Pre
<1>7. Mid(p) \in Seq(TextLines)
  BY <1>4 DEF Mid
<1>8. Post(p) \in Seq(TextLines)
  BY <1>5 DEF Post
<1>9. wg_showconf_peer(p) = Pre(p) \o Mid(p) \o Post(p)
  BY Zenon DEF wg_showconf_peer, Pre, Mid, Post
<1>10. Pre(p) \o Mid(p) \o Post(p) \in Seq(TextLines)
  BY <1>6, <1>7, <1>8
<1> QED BY <1>6, <1>7, <1>8, <1>9, <1>10

\* The first section.
Interface(key) ==
  <<Header, Line("PrivateKey", OrElse(key, KconfigPrivateKey)), Line("ListenPort", Unset)>>

LEMMA InterfaceLines ==
  ASSUME NEW key \in PrivateKeys \cup {Unset}, OrElse(key, KconfigPrivateKey) # Unset
  PROVE  Interface(key) \in Seq(TextLines)
<1>1. Header \in TextLines /\ Line("ListenPort", Unset) \in TextLines
  BY HeaderLine
<1>2. Line("PrivateKey", OrElse(key, KconfigPrivateKey)) \in TextLines
  <2>1. OrElse(key, KconfigPrivateKey) \in PrivateKeys
    BY KconfigAssumption DEF OrElse
  <2>2. OrElse(key, KconfigPrivateKey) \in Texts
    BY <2>1 DEF Texts
  <2> QED BY <2>1, <2>2, FollowsKey, TextLine
<1> QED BY <1>1, <1>2 DEF Interface

\* f holds the file after each of the first k peers.
Writes(key, qs, k, f) ==
  f = [n \in 0 .. k |-> IF n = 0 THEN Interface(key) ELSE f[n - 1] \o wg_showconf_peer(qs[n])]

LEMMA WritesExists ==
  ASSUME NEW key, NEW qs, NEW k \in Nat
  PROVE  \E f : Writes(key, qs, k, f)
<1> DEFINE T == {n \in 0 .. k : \E f : Writes(key, qs, n, f)}
<1>1. 0 \in T
  <2>1. Writes(key, qs, 0, [i \in 0 .. 0 |-> Interface(key)])
    BY DEF Writes
  <2> QED BY <2>1
<1>2. ASSUME NEW n \in 0 .. k - 1, n \in T PROVE n + 1 \in T
  <2>1. PICK f : Writes(key, qs, n, f)
    BY <1>2
  <2>2. PICK new : new = f[n] \o wg_showconf_peer(qs[n + 1])
    OBVIOUS
  <2> DEFINE g == [i \in 0 .. n + 1 |-> IF i = n + 1 THEN new ELSE f[i]]
  <2>3. \A i \in 0 .. n : f[i] = IF i = 0 THEN Interface(key) ELSE f[i - 1] \o wg_showconf_peer(qs[i])
    BY <2>1 DEF Writes
  <2>4. \A i \in 0 .. n + 1 :
          g[i] = IF i = 0 THEN Interface(key) ELSE g[i - 1] \o wg_showconf_peer(qs[i])
    BY <2>2, <2>3
  <2>5. Writes(key, qs, n + 1, g)
    BY <2>4 DEF Writes
  <2> QED BY <2>5
<1> HIDE DEF T
<1>3. \A n \in 0 .. k : n \in T
  BY <1>1, <1>2, Induction
<1>4. k \in T
  BY <1>3
<1> QED BY <1>4 DEF T

LEMMA WriteconfWrites ==
  ASSUME NEW key, NEW ps, NEW N \in Nat, N = Len(PeersOrKconfig(ps)),
         OrElse(key, KconfigPrivateKey) # Unset
  PROVE  \E f : Writes(key, PeersOrKconfig(ps), N, f) /\ wg_writeconf(key, ps) = f[N]
<1> DEFINE qs == PeersOrKconfig(ps)
           F == CHOOSE f : f = [n \in 0 .. N |->
                  IF n = 0
                  THEN <<Header, Line("PrivateKey", OrElse(key, KconfigPrivateKey)),
                         Line("ListenPort", Unset)>>
                  ELSE f[n - 1] \o wg_showconf_peer(qs[n])]
<1>1. \E f : Writes(key, qs, N, f)
  BY WritesExists
<1>2. Writes(key, qs, N, F)
  BY <1>1, Zenon DEF Writes, Interface
<1>3. wg_writeconf(key, ps) = F[N]
  BY Zenon DEF wg_writeconf
<1> QED BY <1>2, <1>3

LEMMA KconfigPeerType ==
  ASSUME KconfigPublicKey # Unset
  PROVE  KconfigPeer \in StagedPeers
BY KconfigAssumption DEF KconfigPeer, StagedPeers

LEMMA PeersOrKconfigType ==
  ASSUME NEW ps \in PeerLists
  PROVE  PeersOrKconfig(ps) \in PeerLists
<1>1. CASE ps # <<>>
  BY <1>1 DEF PeersOrKconfig
<1>2. CASE ps = <<>> /\ KconfigPublicKey = Unset
  BY <1>2 DEF PeersOrKconfig
<1>3. CASE ps = <<>> /\ KconfigPublicKey # Unset
  <2>1. PeersOrKconfig(ps) = <<KconfigPeer>>
    BY <1>3 DEF PeersOrKconfig
  <2>2. <<KconfigPeer>> \in Seq(StagedPeers) /\ Len(<<KconfigPeer>>) = 1
    BY <1>3, KconfigPeerType
  <2>3. Distinct(<<KconfigPeer>>)
    BY DEF Distinct
  <2> QED BY <2>1, <2>2, <2>3, KconfigAssumption DEF PeerLists
<1> QED BY <1>1, <1>2, <1>3

LEMMA WriteconfType ==
  ASSUME NEW key \in PrivateKeys \cup {Unset}, NEW ps \in PeerLists
  PROVE  wg_writeconf(key, ps) \in Seq(TextLines)
<1>1. CASE OrElse(key, KconfigPrivateKey) = Unset
  BY <1>1 DEF wg_writeconf
<1>2. CASE OrElse(key, KconfigPrivateKey) # Unset
  <2>1. PICK qs : qs = PeersOrKconfig(ps) /\ qs \in PeerLists
    BY PeersOrKconfigType
  <2>2. PICK N \in Nat : N = Len(qs) /\ DOMAIN qs = 1 .. N /\ qs \in Seq(StagedPeers)
    BY <2>1 DEF PeerLists
  <2>3. PICK f : Writes(key, qs, N, f) /\ wg_writeconf(key, ps) = f[N]
    BY <1>2, <2>1, <2>2, WriteconfWrites
  <2> DEFINE T == {n \in 0 .. N : f[n] \in Seq(TextLines)}
  <2>4. 0 \in T
    BY <1>2, <2>3, InterfaceLines DEF Writes
  <2>5. ASSUME NEW n \in 0 .. N - 1, n \in T PROVE n + 1 \in T
    <3>1. f[n + 1] = f[n] \o wg_showconf_peer(qs[n + 1])
      BY <2>3 DEF Writes
    <3>2. qs[n + 1] \in StagedPeers
      BY <2>2
    <3>3. wg_showconf_peer(qs[n + 1]) \in Seq(TextLines)
      BY <3>2, SectionLines
    <3>4. f[n] \in Seq(TextLines)
      BY <2>5
    <3>5. f[n + 1] \in Seq(TextLines)
      BY <3>1, <3>3, <3>4, ConcatProperties
    <3> QED BY <3>5
  <2> HIDE DEF T
  <2>6. \A n \in 0 .. N : n \in T
    BY <2>4, <2>5, Induction
  <2> QED BY <2>3, <2>6 DEF T
<1> QED BY <1>1, <1>2

LEMMA TextIsFile ==
  ASSUME NEW lines \in Seq(TextLines)
  PROVE  IsFile(lines)
BY DEF IsFile, TextLines

LEMMA ConfigureType ==
  ASSUME NEW ps \in PeerLists
  PROVE  wg_configure_peer(ps) \in Seq(StagedPeers) /\ Len(wg_configure_peer(ps)) <= MaxPeers
<1>1. PICK qs : qs = PeersOrKconfig(ps) /\ qs \in PeerLists
  BY PeersOrKconfigType
<1>2. PICK N \in Nat : N = Len(qs) /\ DOMAIN qs = 1 .. N /\ qs \in Seq(StagedPeers) /\ N <= MaxPeers
  BY <1>1 DEF PeerLists
<1>3. PICK f : Adds(qs, N, f) /\ wg_configure_peer(ps) = f[N]
  BY <1>1, <1>2, ConfigureAdds
<1> DEFINE T == {n \in 0 .. N : f[n] \in Seq(StagedPeers) /\ Len(f[n]) <= MaxPeers}
<1>4. 0 \in T
  <2>1. f[0] = <<>>
    BY <1>2, <1>3 DEF Adds
  <2>2. <<>> \in Seq(StagedPeers) /\ Len(<<>>) = 0
    BY EmptySeq
  <2>3. f[0] \in Seq(StagedPeers) /\ Len(f[0]) <= MaxPeers
    BY <2>1, <2>2, KconfigAssumption
  <2> QED BY <1>2, <2>3
<1>5. ASSUME NEW n \in 0 .. N - 1, n \in T PROVE n + 1 \in T
  <2>1. f[n + 1] = wg_add_peer(f[n], qs[n + 1])
    BY <1>2, <1>3, <1>5 DEF Adds
  <2>2. qs[n + 1] \in StagedPeers
    BY <1>2, <1>5
  <2>3. RunsWith(qs[n + 1]) \in StagedPeers
    BY <2>2 DEF RunsWith, StagedPeers, OrElse
  <2>4. f[n] \in Seq(StagedPeers) /\ Len(f[n]) \in Nat /\ Len(f[n]) <= MaxPeers
    BY <1>5
  <2>5. CASE f[n + 1] = f[n]
    BY <1>5, <2>4, <2>5
  <2>6. CASE Len(f[n]) < MaxPeers /\ f[n + 1] = Append(f[n], RunsWith(qs[n + 1]))
    <3>1. f[n + 1] \in Seq(StagedPeers) /\ Len(f[n + 1]) = Len(f[n]) + 1
      BY <2>3, <2>4, <2>6, AppendProperties
    <3>2. Len(f[n]) + 1 <= MaxPeers
      BY <2>4, <2>6, KconfigAssumption
    <3>3. Len(f[n + 1]) <= MaxPeers
      BY ONLY <3>1, <3>2
    <3> QED BY <1>2, <1>5, <3>1, <3>3
  <2> QED BY <2>1, <2>4, <2>5, <2>6, KconfigAssumption DEF wg_add_peer
<1> HIDE DEF T
<1>6. \A n \in 0 .. N : n \in T
  BY <1>4, <1>5, Induction
<1>7. N \in T
  BY <1>2, <1>6
<1> QED BY <1>3, <1>7 DEF T

-----------------------------------------------------------------------------

\* Two peers with one key would be loaded as one: the keys must be distinct for
\* a saved file to describe them all.
IInv ==
  /\ TypeOK
  /\ Distinct(peers)
  /\ file \in Seq(TextLines)

LEMMA NoPeers ==
  /\ <<>> \in Seq(StagedPeers) /\ Len(<<>>) <= MaxPeers
  /\ <<>> \in PeerLists /\ <<>> \in Seq(TextLines)
<1>1. Len(<<>>) = 0 /\ DOMAIN <<>> = {} /\ <<>> \in Seq(StagedPeers) /\ <<>> \in Seq(TextLines)
  OBVIOUS
<1>2. Len(<<>>) <= MaxPeers
  BY <1>1, KconfigAssumption
<1>3. Distinct(<<>>)
  BY <1>1 DEF Distinct
<1> QED BY <1>1, <1>2, <1>3 DEF PeerLists

LEMMA RemovePeer ==
  ASSUME NEW ps \in PeerLists, NEW i \in DOMAIN ps
  PROVE  RemoveAt(ps, i) \in PeerLists
<1>1. PICK N \in Nat : N = Len(ps) /\ DOMAIN ps = 1 .. N /\ ps \in Seq(StagedPeers)
                       /\ N <= MaxPeers /\ Distinct(ps)
  BY DEF PeerLists
<1>2. PICK a : a = SubSeq(ps, 1, i - 1)
  OBVIOUS
<1>3. PICK b : b = SubSeq(ps, i + 1, N)
  OBVIOUS
<1>4. /\ a \in Seq(StagedPeers) /\ Len(a) = i - 1
      /\ \A j \in 1 .. i - 1 : a[j] = ps[j]
  BY <1>1, <1>2
<1>5. /\ b \in Seq(StagedPeers) /\ Len(b) = N - i
      /\ \A j \in 1 .. N - i : b[j] = ps[i + j]
  BY <1>1, <1>3
<1>6. PICK c : c = a \o b
  OBVIOUS
<1>7. /\ c \in Seq(StagedPeers) /\ Len(c) = N - 1 /\ DOMAIN c = 1 .. N - 1
      /\ \A j \in 1 .. N - 1 : c[j] = IF j <= i - 1 THEN ps[j] ELSE ps[j + 1]
  <2>1. i \in 1 .. N
    BY <1>1
  <2>2. /\ c \in Seq(StagedPeers) /\ Len(c) = N - 1
        /\ \A j \in 1 .. N - 1 : c[j] = IF j <= i - 1 THEN a[j] ELSE b[j - (i - 1)]
    <3>1. /\ a \o b \in Seq(StagedPeers) /\ Len(a \o b) = Len(a) + Len(b)
          /\ \A j \in 1 .. Len(a) + Len(b) :
               (a \o b)[j] = IF j <= Len(a) THEN a[j] ELSE b[j - Len(a)]
      BY <1>4, <1>5, ConcatProperties
    <3>2. Len(a) + Len(b) = N - 1
      <4>1. \A x, y \in Int : (x - 1) + (y - x) = y - 1
        OBVIOUS
      <4>2. i \in Int /\ N \in Int
        BY <2>1
      <4> QED BY ONLY <4>1, <4>2, <1>4, <1>5
    <3> QED BY <1>4, <1>6, <3>1, <3>2
  <2>3. ASSUME NEW j \in 1 .. N - 1 PROVE c[j] = IF j <= i - 1 THEN ps[j] ELSE ps[j + 1]
    <3>1. CASE j <= i - 1
      BY <1>4, <2>1, <2>2, <3>1
    <3>2. CASE j > i - 1
      <4>1. j - (i - 1) \in 1 .. N - i /\ i + (j - (i - 1)) = j + 1
        BY <1>1, <2>1, <3>2
      <4>2. b[j - (i - 1)] = ps[i + (j - (i - 1))]
        BY <1>5, <4>1
      <4>3. c[j] = b[j - (i - 1)]
        BY <1>1, <2>1, <2>2, <3>2
      <4> QED BY <1>1, <2>1, <3>2, <4>1, <4>2, <4>3
    <3> QED BY <1>1, <2>1, <3>1, <3>2
  <2>4. DOMAIN c = 1 .. N - 1
    BY <2>2
  <2> QED BY <2>2, <2>3, <2>4
<1>8. Distinct(c)
  <2>1. ASSUME NEW j \in 1 .. N - 1, NEW k \in 1 .. N - 1, c[j].public_key = c[k].public_key
        PROVE  j = k
    <3>1. i \in 1 .. N
      BY <1>1
    <3>2. PICK x \in 1 .. N : c[j] = ps[x] /\ x = (IF j <= i - 1 THEN j ELSE j + 1)
      BY <1>1, <1>7, <3>1
    <3>3. PICK y \in 1 .. N : c[k] = ps[y] /\ y = (IF k <= i - 1 THEN k ELSE k + 1)
      BY <1>1, <1>7, <3>1
    <3>4. x = y
      BY <1>1, <2>1, <3>2, <3>3 DEF Distinct
    <3> QED BY <1>1, <3>1, <3>2, <3>3, <3>4
  <2> QED BY <1>7, <2>1 DEF Distinct
<1>9. RemoveAt(ps, i) = c
  BY <1>1, <1>2, <1>3, <1>6 DEF RemoveAt
<1>10. Len(c) <= MaxPeers
  BY <1>1, <1>7, KconfigAssumption
<1> QED BY <1>7, <1>8, <1>9, <1>10 DEF PeerLists

LEMMA StepIInv == IInv /\ [Next]_vars => IInv'
<1> SUFFICES ASSUME IInv, [Next]_vars PROVE IInv'
  OBVIOUS
<1>0. /\ peers \in PeerLists /\ private_key \in PrivateKeys \cup {Unset}
      /\ file \in Seq(TextLines)
      /\ registered \in BOOLEAN /\ active \in Seq(StagedPeers) /\ Len(active) <= MaxPeers
  BY DEF IInv, TypeOK, PeerLists
<1>q. SUFFICES /\ peers' \in PeerLists /\ private_key' \in PrivateKeys \cup {Unset}
               /\ file' \in Seq(TextLines)
               /\ registered' \in BOOLEAN /\ active' \in Seq(StagedPeers)
               /\ Len(active') <= MaxPeers
  BY DEF IInv, TypeOK, PeerLists, Distinct
<1>1. CASE wg_set_private_key
  BY <1>0, <1>1 DEF wg_set_private_key
<1>2. CASE SetPeer
  <2>1. peers' \in PeerLists
    <3>1. PICK key \in PublicKeys \cup {Malformed}, endpoint \in Endpoints \cup {Unset, Malformed},
               allowed \in AllowedIPs \cup {Unset, Malformed}, keepalive \in Keepalives \cup {Unset} :
            peers' = wg_set_peer(peers, key, endpoint, allowed, keepalive).peers
      BY <1>2 DEF SetPeer
    <3>2. /\ allowed \in AllowedIPs \cup {KconfigAllowed, Unset, Malformed}
          /\ keepalive \in Keepalives \cup {KconfigKeepalive, Unset}
      OBVIOUS
    <3>3. PICK r : r = wg_set_peer(peers, key, endpoint, allowed, keepalive)
      OBVIOUS
    <3>4. r.peers \in PeerLists
      BY <1>0, <3>2, <3>3, SetPeerParts
    <3> QED BY <3>1, <3>3, <3>4
  <2> QED BY <1>0, <1>2, <2>1 DEF SetPeer
<1>3. CASE wg_remove_peer
  BY <1>0, <1>3, RemovePeer DEF wg_remove_peer
<1>4. CASE wg_setconf
  <2>1. PICK lines \in Files \cup {file} : Load(lines)
    BY <1>4 DEF wg_setconf
  <2>2. IsFile(lines)
    BY <1>0, FilesAssumption, TextIsFile
  <2>3. PICK r : r = Setconf(private_key, lines)
    OBVIOUS
  <2>4. r.private_key \in PrivateKeys \cup {Unset} /\ r.peers \in PeerLists
    BY <1>0, <2>2, <2>3, SetconfType
  <2> QED BY <1>0, <2>1, <2>3, <2>4 DEF Load
<1>5. CASE wg_saveconf
  <2>1. PICK lines : lines = wg_writeconf(private_key, peers)
    OBVIOUS
  <2>2. lines \in Seq(TextLines)
    BY <1>0, <2>1, WriteconfType
  <2>3. \E n \in 0 .. Len(lines) : file' = SubSeq(lines, 1, n)
    BY <1>5, <2>1 DEF wg_saveconf
  <2>4. file' \in Seq(TextLines)
    BY <2>2, <2>3
  <2> QED BY <1>0, <1>5, <2>4 DEF wg_saveconf
<1>6. CASE wg_initialize
  BY <1>0, <1>6, ConfigureType DEF wg_initialize
<1>7. CASE wg_down
  BY <1>0, <1>7, NoPeers DEF wg_down
<1>8. CASE Reboot
  BY <1>0, <1>8, NoPeers DEF Reboot
<1>9. CASE UNCHANGED vars
  BY <1>0, <1>9 DEF vars
<1> QED BY <1>1, <1>2, <1>3, <1>4, <1>5, <1>6, <1>7, <1>8, <1>9 DEF Next

LEMMA InitIInv == Init => IInv
BY NoPeers DEF Init, IInv, TypeOK, PeerLists

LEMMA Invariant == Spec => []IInv
BY InitIInv, StepIInv, PTL DEF Spec

\* The staged and the running configuration keep their types: at most MaxPeers
\* peers, each with a key, whatever is set, loaded or left in a file.
THEOREM ConfigTypes == Spec => []TypeOK
<1>1. IInv => TypeOK
  BY DEF IInv
<1> QED BY <1>1, Invariant, PTL

\* The loop of wg_peer_for_dest() finds, for every destination and every list of
\* running peers, one whose prefix no other that matches is longer than.
THEOREM LongestPrefixWins == Spec => []RoutesByLongestPrefix
<1>1. IInv => RoutesByLongestPrefix
  <2> SUFFICES ASSUME IInv, NEW dest \in Hosts
               PROVE  LET r == wg_peer_for_dest(active, dest)
                          covering == {i \in DOMAIN active : Match(active[i].allowed, dest)}
                      IN  /\ r = 0 <=> covering = {}
                          /\ r # 0 => /\ r \in covering /\ SourceOk(active[r], dest)
                                      /\ \A i \in covering :
                                           ~LongerMask(active[i].allowed, active[r].allowed)
    BY DEF RoutesByLongestPrefix
  <2>1. /\ Len(active) \in Nat /\ DOMAIN active = 1 .. Len(active)
        /\ \A i \in DOMAIN active : active[i].allowed.host_bits \in Nat
    <3>1. PICK N \in Nat : N = Len(active) /\ DOMAIN active = 1 .. N /\ active \in Seq(StagedPeers)
      BY DEF IInv, TypeOK
    <3>2. \A p \in StagedPeers : p.allowed.host_bits \in Nat
      <4>1. ASSUME NEW p \in StagedPeers PROVE p.allowed \in AllowedIPs \cup {KconfigAllowed}
        BY DEF StagedPeers
      <4> QED BY <4>1, KconfigAssumption
    <3>3. \A i \in 1 .. N : active[i] \in StagedPeers
      BY <3>1
    <3> QED BY <3>1, <3>2, <3>3
  <2>2. PICK r : r = wg_peer_for_dest(active, dest)
    OBVIOUS
  <2>3. /\ r = 0 <=> {i \in DOMAIN active : Match(active[i].allowed, dest)} = {}
        /\ r # 0 => /\ r \in {i \in DOMAIN active : Match(active[i].allowed, dest)}
                    /\ \A i \in DOMAIN active : Match(active[i].allowed, dest)
                         => ~LongerMask(active[i].allowed, active[r].allowed)
    BY <2>1, <2>2, RouteIsLongest
  <2> QED BY <2>2, <2>3 DEF SourceOk
<1> QED BY <1>1, Invariant, PTL

-----------------------------------------------------------------------------
(* The parser of wg_setconf() on lines that follow one another, and on     *)
(* lines without errors.                                                   *)

\* What the parser has read when it gets to the end of some lines.
Start == [private_key |-> Unset, peers |-> <<>>, acc |-> EmptySection, ret |-> "OK"]
Read(lines) == ReadAll(Start, lines)

LEMMA ReadNil == Read(<<>>) = Start
<1>1. Len(<<>>) = 0
  OBVIOUS
<1>2. PICK f : Reads(Start, <<>>, 0, f) /\ ReadAll(Start, <<>>) = f[0]
  BY <1>1, ReadAllReads
<1> QED BY <1>2 DEF Reads, Read

LEMMA ReadAppend ==
  ASSUME NEW S, NEW lines \in Seq(S), NEW l \in S, NEW start
  PROVE  ReadAll(start, Append(lines, l)) = ReadLine(ReadAll(start, lines), l)
<1>1. PICK N \in Nat : N = Len(lines)
  OBVIOUS
<1>2. PICK more : more = Append(lines, l)
  OBVIOUS
<1>3. Len(more) = N + 1 /\ more[N + 1] = l /\ \A i \in 1 .. N : more[i] = lines[i]
  BY <1>1, <1>2, AppendProperties
<1>4. PICK f : Reads(start, lines, N, f) /\ ReadAll(start, lines) = f[N]
  BY <1>1, ReadAllReads
<1>5. PICK g : Reads(start, more, N + 1, g) /\ ReadAll(start, more) = g[N + 1]
  BY <1>3, ReadAllReads
<1> DEFINE T == {n \in 0 .. N : g[n] = f[n]}
<1>6. 0 \in T
  BY <1>4, <1>5 DEF Reads
<1>7. ASSUME NEW n \in 0 .. N - 1, n \in T PROVE n + 1 \in T
  <2>1. g[n + 1] = ReadLine(g[n], more[n + 1])
    BY <1>5 DEF Reads
  <2>2. f[n + 1] = ReadLine(f[n], lines[n + 1])
    BY <1>4 DEF Reads
  <2> QED BY <1>3, <1>7, <2>1, <2>2
<1> HIDE DEF T
<1>8. \A n \in 0 .. N : n \in T
  BY <1>6, <1>7, Induction
<1>9. g[N] = f[N]
  BY <1>8 DEF T
<1>10. g[N + 1] = ReadLine(g[N], more[N + 1])
  BY <1>5 DEF Reads
<1> QED BY <1>2, <1>3, <1>4, <1>5, <1>9, <1>10

\* One more line of t, after the lines s.
LEMMA ReadNext ==
  ASSUME NEW s \in Seq(TextLines), NEW t \in Seq(TextLines), NEW m \in 0 .. Len(t) - 1
  PROVE  /\ Read(s \o SubSeq(t, 1, m + 1)) = ReadLine(Read(s \o SubSeq(t, 1, m)), t[m + 1])
         /\ s \o SubSeq(t, 1, m) \in Seq(TextLines)
<1>1. PICK a : a = SubSeq(t, 1, m)
  OBVIOUS
<1>2. t[m + 1] \in TextLines /\ m + 1 \in 1 .. Len(t) /\ a \in Seq(TextLines)
  BY <1>1
<1>3. SubSeq(t, 1, m + 1) = SubSeq(t, 1, (m + 1) - 1) \o <<t[m + 1]>>
  BY <1>2, SubSeqRecursiveSecond
<1>4. (m + 1) - 1 = m
  OBVIOUS
<1>5. s \o (a \o <<t[m + 1]>>) = (s \o a) \o <<t[m + 1]>>
  BY <1>2, ConcatAssociative
<1>6. (s \o a) \o <<t[m + 1]>> = Append(s \o a, t[m + 1])
  BY <1>2, AppendIsConcat
<1>7. s \o a \in Seq(TextLines)
  BY <1>2
<1>8. ReadAll(Start, Append(s \o a, t[m + 1])) = ReadLine(ReadAll(Start, s \o a), t[m + 1])
  BY <1>2, <1>7, ReadAppend
<1> QED BY <1>1, <1>3, <1>4, <1>5, <1>6, <1>7, <1>8 DEF Read

LEMMA ReadNone ==
  ASSUME NEW s \in Seq(TextLines), NEW t \in Seq(TextLines)
  PROVE  Read(s \o SubSeq(t, 1, 0)) = Read(s)
<1>1. SubSeq(t, 1, 0) = <<>>
  BY SubSeqEmpty
<1>2. s \o <<>> = s
  BY ConcatEmptySeq
<1> QED BY <1>1, <1>2

-----------------------------------------------------------------------------
(* The parser without errors.                                              *)

At(k, ps, a) == [private_key |-> k, peers |-> ps, acc |-> a, ret |-> "OK"]

\* The section in the accumulator describes a peer that is not staged yet.
Fits(ps, a) ==
  /\ a \in Accumulators
  /\ a.PublicKey # Unset =>
       /\ a.PublicKey \in PublicKeys /\ a.Endpoint # Malformed /\ a.AllowedIPs # Malformed
       /\ Len(ps) < MaxPeers /\ \A i \in DOMAIN ps : ps[i].public_key # a.PublicKey

Described(a) == Overlay(NewPeer(a.PublicKey), a.Endpoint, a.AllowedIPs, a.PersistentKeepalive)

Flushed(ps, a) == IF a.PublicKey = Unset THEN ps ELSE Append(ps, Described(a))

LEMMA DescribedType ==
  ASSUME NEW ps, NEW a, Fits(ps, a), a.PublicKey # Unset
  PROVE  Described(a) \in StagedPeers /\ Described(a).public_key = a.PublicKey
<1>1. /\ a.PublicKey \in PublicKeys /\ a.Endpoint \in Endpoints \cup {Unset}
      /\ a.AllowedIPs \in AllowedIPs \cup {KconfigAllowed, Unset}
      /\ a.PersistentKeepalive \in Keepalives \cup {KconfigKeepalive, Unset}
  BY DEF Fits, Accumulators
<1>2. NewPeer(a.PublicKey) \in StagedPeers /\ NewPeer(a.PublicKey).public_key = a.PublicKey
  BY <1>1, NewPeerType
<1> QED BY <1>1, <1>2, OverlayType DEF Described

\* What wg_conf_flush_peer() leaves when it stages a peer.
FlushedTo(st, b, t, qs) == [st EXCEPT !.acc = b, !.ret = t, !.peers = qs]

LEMMA ThreeFields ==
  ASSUME NEW k, NEW ps, NEW a, NEW s, NEW b, NEW t, NEW qs, NEW st,
         st = [private_key |-> k, peers |-> ps, acc |-> a, ret |-> s]
  PROVE  FlushedTo(st, b, t, qs)
           = [private_key |-> k, peers |-> qs, acc |-> b, ret |-> t]
<1>1. PICK u : u = [st EXCEPT !.acc = b]
  OBVIOUS
<1>2. u = [private_key |-> k, peers |-> ps, acc |-> b, ret |-> s]
  BY <1>1
<1>3. PICK v : v = [u EXCEPT !.ret = t]
  OBVIOUS
<1>4. v = [private_key |-> k, peers |-> ps, acc |-> b, ret |-> t]
  BY ONLY <1>2, <1>3
<1>5. PICK w : w = [v EXCEPT !.peers = qs]
  OBVIOUS
<1>6. w = [private_key |-> k, peers |-> qs, acc |-> b, ret |-> t]
  BY ONLY <1>4, <1>5
<1>7. w = FlushedTo(st, b, t, qs)
  BY ONLY <1>1, <1>3, <1>5 DEF FlushedTo
<1> QED BY ONLY <1>6, <1>7

LEMMA FlushAt ==
  ASSUME NEW k, NEW ps \in PeerLists, NEW a, Fits(ps, a)
  PROVE  wg_conf_flush_peer(At(k, ps, a)) = At(k, Flushed(ps, a), EmptySection)
<1>1. CASE a.PublicKey = Unset
  BY <1>1 DEF wg_conf_flush_peer, At, Flushed
<1>2. CASE a.PublicKey # Unset
  <2>1. \A i \in DOMAIN ps : ps[i].public_key # a.PublicKey
    BY <1>2 DEF Fits
  <2>2. IndexOf(ps, a.PublicKey) = 0
    BY <2>1, Zenon DEF IndexOf
  <2>3. a.PublicKey # Malformed /\ ~(Len(ps) >= MaxPeers) /\ Malformed \notin {a.Endpoint, a.AllowedIPs}
    <3>1. Len(ps) \in Nat /\ Len(ps) < MaxPeers
      BY <1>2 DEF Fits, PeerLists
    <3> QED BY <1>2, <3>1, TextAssumption, KconfigAssumption DEF Fits
  <2>4. wg_set_peer(ps, a.PublicKey, a.Endpoint, a.AllowedIPs, a.PersistentKeepalive)
          = [ret |-> "OK", peers |-> Append(ps, Described(a))]
    BY <2>2, <2>3 DEF wg_set_peer, Described
  <2>5. PICK p : p = Described(a)
    OBVIOUS
  <2>6. PICK st : st = At(k, ps, a)
    OBVIOUS
  <2>7. st.peers = ps /\ st.acc = a
    BY <2>6 DEF At
  <2>8. PICK r : r = [ret |-> "OK", peers |-> Append(ps, p)]
    OBVIOUS
  <2>9. wg_conf_flush_peer(st) = FlushedTo(st, EmptySection, r.ret, r.peers)
    BY <1>2, <2>4, <2>5, <2>7, <2>8, Zenon DEF wg_conf_flush_peer, FlushedTo
  <2>10. FlushedTo(st, EmptySection, r.ret, r.peers) = At(k, Append(ps, p), EmptySection)
    <3>1. r.ret = "OK" /\ r.peers = Append(ps, p)
      BY <2>8
    <3>2. st = [private_key |-> k, peers |-> ps, acc |-> a, ret |-> "OK"]
      BY <2>6 DEF At
    <3>3. FlushedTo(st, EmptySection, r.ret, r.peers)
            = [private_key |-> k, peers |-> r.peers, acc |-> EmptySection, ret |-> r.ret]
      BY <3>2, ThreeFields
    <3> QED BY <3>1, <3>3 DEF At
  <2> QED BY <1>2, <2>5, <2>6, <2>9, <2>10 DEF Flushed
<1> QED BY <1>1, <1>2

LEMMA FlushedType ==
  ASSUME NEW ps \in PeerLists, NEW a, Fits(ps, a)
  PROVE  Flushed(ps, a) \in PeerLists
<1>1. CASE a.PublicKey = Unset
  BY <1>1 DEF Flushed
<1>2. CASE a.PublicKey # Unset
  BY <1>2, DescribedType, AppendPeer DEF Flushed, Fits
<1> QED BY <1>1, <1>2

LEMMA SetconfAt ==
  ASSUME NEW k, NEW ps \in PeerLists, NEW a, Fits(ps, a), NEW lines,
         Read(lines) = At(k, ps, a)
  PROVE  Setconf(Unset, lines) = [ret |-> "OK", private_key |-> k, peers |-> Flushed(ps, a)]
<1>1. wg_conf_flush_peer(At(k, ps, a)) = At(k, Flushed(ps, a), EmptySection)
  BY FlushAt
<1>2. ReadAll([private_key |-> Unset, peers |-> <<>>, acc |-> EmptySection, ret |-> "OK"], lines)
        = At(k, ps, a)
  BY DEF Read, Start
<1>3. At(k, ps, a).ret = "OK"
  BY DEF At
<1>4. PICK end : end = At(k, Flushed(ps, a), EmptySection)
  OBVIOUS
<1>5. Setconf(Unset, lines)
        = [ret |-> end.ret, private_key |-> end.private_key,
           peers |-> IF end.ret = "OK" THEN end.peers ELSE <<>>]
  BY <1>1, <1>2, <1>3, <1>4 DEF Setconf
<1>6. end.ret = "OK" /\ end.private_key = k /\ end.peers = Flushed(ps, a)
  BY <1>4 DEF At
<1> QED BY <1>5, <1>6

LEMMA ReadHeader ==
  ASSUME NEW k, NEW ps \in PeerLists, NEW a, Fits(ps, a)
  PROVE  ReadLine(At(k, ps, a), Header) = At(k, Flushed(ps, a), EmptySection)
<1>1. ReadLine(At(k, ps, a), Header) = wg_conf_flush_peer(At(k, ps, a))
  BY DEF ReadLine, Header, Line, At
<1> QED BY <1>1, FlushAt

LEMMA ReadPrivateKey ==
  ASSUME NEW k, NEW ps, NEW a, NEW v, v # Malformed
  PROVE  ReadLine(At(k, ps, a), Line("PrivateKey", v)) = At(v, ps, a)
BY DEF ReadLine, Line, At

LEMMA ReadListenPort ==
  ASSUME NEW k, NEW ps, NEW a, NEW v
  PROVE  ReadLine(At(k, ps, a), Line("ListenPort", v)) = At(k, ps, a)
BY DEF ReadLine, Line, At, EmptySection

LEMMA ReadPublicKey ==
  ASSUME NEW k, NEW ps, NEW a, NEW v
  PROVE  ReadLine(At(k, ps, a), Line("PublicKey", v)) = At(k, ps, [a EXCEPT !.PublicKey = v])
BY DEF ReadLine, Line, At, EmptySection

LEMMA ReadEndpoint ==
  ASSUME NEW k, NEW ps, NEW a, NEW v
  PROVE  ReadLine(At(k, ps, a), Line("Endpoint", v)) = At(k, ps, [a EXCEPT !.Endpoint = v])
BY DEF ReadLine, Line, At, EmptySection

LEMMA ReadAllowedIPs ==
  ASSUME NEW k, NEW ps, NEW a, NEW v
  PROVE  ReadLine(At(k, ps, a), Line("AllowedIPs", v)) = At(k, ps, [a EXCEPT !.AllowedIPs = v])
BY DEF ReadLine, Line, At, EmptySection

LEMMA ReadKeepalive ==
  ASSUME NEW k, NEW ps, NEW a, NEW v
  PROVE  ReadLine(At(k, ps, a), Line("PersistentKeepalive", v))
           = At(k, ps, [a EXCEPT !.PersistentKeepalive = v])
BY DEF ReadLine, Line, At, EmptySection

-----------------------------------------------------------------------------
(* Reading what wg_showconf_peer() printed, line by line.                  *)

\* The accumulator after the first m lines of the section of q; a section
\* without an endpoint goes from the third to the fifth.
Acc0 == EmptySection
Acc1(q) == [EmptySection EXCEPT !.PublicKey = q.public_key]
Acc2(q) == [Acc1(q) EXCEPT !.AllowedIPs = q.allowed]
Acc3(q) == [Acc2(q) EXCEPT !.Endpoint = q.endpoint]
Acc4(q) == [Acc3(q) EXCEPT !.PersistentKeepalive = OrElse(q.keepalive, KconfigKeepalive)]

Accs(q) == {Acc0, Acc1(q), Acc2(q), Acc3(q), Acc4(q)}

FitsNext(ps, q) == Len(ps) < MaxPeers /\ \A i \in DOMAIN ps : ps[i].public_key # q.public_key

LEMMA AccsFit ==
  ASSUME NEW ps \in PeerLists, NEW q \in StagedPeers, FitsNext(ps, q), NEW a \in Accs(q)
  PROVE  Fits(ps, a)
<1>1. /\ q.public_key \in PublicKeys /\ q.endpoint \in Endpoints \cup {Unset}
      /\ q.allowed \in AllowedIPs \cup {KconfigAllowed}
      /\ OrElse(q.keepalive, KconfigKeepalive) \in Keepalives \cup {KconfigKeepalive}
  BY DEF StagedPeers, OrElse
<1>2. q.endpoint # Malformed /\ q.allowed # Malformed
  BY <1>1, TextAssumption
<1>3. Fits(ps, Acc0)
  BY DEF Fits, Acc0, EmptySection, Accumulators
<1>4. Fits(ps, Acc1(q))
  BY <1>1, TextAssumption DEF Fits, Acc1, EmptySection, Accumulators, FitsNext
<1>5. Fits(ps, Acc2(q))
  BY <1>1, <1>2, TextAssumption DEF Fits, Acc1, Acc2, EmptySection, Accumulators, FitsNext
<1>6. Fits(ps, Acc3(q))
  BY <1>1, <1>2, TextAssumption DEF Fits, Acc1, Acc2, Acc3, EmptySection, Accumulators, FitsNext
<1>7. Fits(ps, Acc4(q))
  <2>1. PICK b : b = Acc3(q)
    OBVIOUS
  <2>2. PICK v \in Keepalives \cup {KconfigKeepalive} : v = OrElse(q.keepalive, KconfigKeepalive)
    BY <1>1
  <2>3. Acc4(q) = [b EXCEPT !.PersistentKeepalive = v]
    BY <2>1, <2>2 DEF Acc4
  <2>4. Fits(ps, b)
    BY <1>6, <2>1
  <2> QED BY <2>2, <2>3, <2>4 DEF Fits, Accumulators
<1> QED BY <1>3, <1>4, <1>5, <1>6, <1>7 DEF Accs

\* The lines of a section, one by one.
LEMMA SectionItems ==
  ASSUME NEW q \in StagedPeers, NEW t, t = wg_showconf_peer(q)
  PROVE  /\ t \in Seq(TextLines) /\ t[1] = Header
         /\ t[2] = Line("PublicKey", q.public_key)
         /\ t[3] = Line("AllowedIPs", q.allowed)
         /\ q.endpoint = Unset =>
              Len(t) = 4 /\ t[4] = Line("PersistentKeepalive", OrElse(q.keepalive, KconfigKeepalive))
         /\ q.endpoint # Unset =>
              /\ Len(t) = 5 /\ t[4] = Line("Endpoint", q.endpoint)
              /\ t[5] = Line("PersistentKeepalive", OrElse(q.keepalive, KconfigKeepalive))
<1>1. /\ Pre(q) \in Seq(TextLines) /\ Mid(q) \in Seq(TextLines) /\ Post(q) \in Seq(TextLines)
      /\ t = Pre(q) \o Mid(q) \o Post(q) /\ t \in Seq(TextLines)
  BY SectionLines
<1>2. /\ Len(Pre(q)) = 3 /\ Pre(q)[1] = Header /\ Pre(q)[2] = Line("PublicKey", q.public_key)
      /\ Pre(q)[3] = Line("AllowedIPs", q.allowed)
  BY DEF Pre
<1>3. Len(Post(q)) = 1 /\ Post(q)[1] = Line("PersistentKeepalive", OrElse(q.keepalive, KconfigKeepalive))
  BY DEF Post
<1>4. q.endpoint = Unset => Len(Mid(q)) = 0
  BY DEF Mid
<1>5. q.endpoint # Unset => Len(Mid(q)) = 1 /\ Mid(q)[1] = Line("Endpoint", q.endpoint)
  BY DEF Mid
<1>6. PICK x, y, z : x = Pre(q) /\ y = Mid(q) /\ z = Post(q)
  OBVIOUS
<1>7. /\ x \o y \in Seq(TextLines) /\ Len(x \o y) = Len(x) + Len(y)
      /\ \A i \in 1 .. Len(x) + Len(y) : (x \o y)[i] = IF i <= Len(x) THEN x[i] ELSE y[i - Len(x)]
  BY <1>1, <1>6, ConcatProperties
<1>8. /\ Len(t) = Len(x \o y) + Len(z)
      /\ \A i \in 1 .. Len(x \o y) + Len(z) :
           t[i] = IF i <= Len(x \o y) THEN (x \o y)[i] ELSE z[i - Len(x \o y)]
  BY <1>1, <1>6, <1>7, ConcatProperties
<1>9. CASE q.endpoint = Unset
  <2>1. /\ Len(x) = 3 /\ Len(y) = 0 /\ Len(z) = 1 /\ Len(x \o y) = 3
    BY <1>2, <1>3, <1>4, <1>6, <1>7, <1>9
  <2>2. t[1] = x[1] /\ t[2] = x[2] /\ t[3] = x[3] /\ t[4] = z[1] /\ Len(t) = 4
    BY <1>7, <1>8, <2>1
  <2> QED BY <1>1, <1>2, <1>3, <1>6, <1>9, <2>2
<1>10. CASE q.endpoint # Unset
  <2>1. Len(x) = 3 /\ Len(y) = 1 /\ Len(z) = 1
    BY ONLY <1>2, <1>3, <1>5, <1>6, <1>10
  <2>2. /\ t[1] = x[1] /\ t[2] = x[2] /\ t[3] = x[3] /\ t[4] = y[1] /\ t[5] = z[1]
        /\ Len(t) = 5
    <3>1. Len(x \o y) = 4
      BY ONLY <1>7, <2>1
    <3> QED BY ONLY <1>7, <1>8, <2>1, <3>1
  <2> QED BY <1>1, <1>2, <1>3, <1>5, <1>6, <1>10, <2>2
<1> QED BY <1>9, <1>10

\* The section t of q read after the lines s, and every beginning of it.
SectionIsRead(k, ps, s, q, t) ==
  /\ Read(s \o t) = At(k, ps, Acc4(q))
  /\ \A m \in 1 .. Len(t) : \E b \in Accs(q) : Read(s \o SubSeq(t, 1, m)) = At(k, ps, b)

\* Reading the section of q, or the beginning of it, after other lines.
LEMMA SectionRead ==
  ASSUME NEW k, NEW ps \in PeerLists, NEW a, Fits(ps, a), NEW s \in Seq(TextLines),
         Read(s) = At(k, ps, a), NEW q \in StagedPeers, FitsNext(Flushed(ps, a), q),
         NEW t, t = wg_showconf_peer(q)
  PROVE  SectionIsRead(k, Flushed(ps, a), s, q, t)
<1>1. PICK qs \in PeerLists : qs = Flushed(ps, a)
  BY FlushedType
<1>2. \A b \in Accs(q) : Fits(qs, b)
  BY <1>1, AccsFit
<1>3. Acc0 \in Accs(q) /\ Acc1(q) \in Accs(q) /\ Acc2(q) \in Accs(q) /\ Acc3(q) \in Accs(q)
      /\ Acc4(q) \in Accs(q)
  BY DEF Accs
<1>4. /\ t \in Seq(TextLines) /\ t[1] = Header
      /\ t[2] = Line("PublicKey", q.public_key)
      /\ t[3] = Line("AllowedIPs", q.allowed)
      /\ q.endpoint = Unset =>
           Len(t) = 4 /\ t[4] = Line("PersistentKeepalive", OrElse(q.keepalive, KconfigKeepalive))
      /\ q.endpoint # Unset =>
           /\ Len(t) = 5 /\ t[4] = Line("Endpoint", q.endpoint)
           /\ t[5] = Line("PersistentKeepalive", OrElse(q.keepalive, KconfigKeepalive))
  BY SectionItems
<1>5. \A m \in 0 .. Len(t) - 1 :
        Read(s \o SubSeq(t, 1, m + 1)) = ReadLine(Read(s \o SubSeq(t, 1, m)), t[m + 1])
  BY <1>4, ReadNext
<1>6. Len(t) \in {4, 5}
  BY <1>4
<1>7. Read(s \o SubSeq(t, 1, 0)) = At(k, ps, a)
  BY <1>4, ReadNone
<1>8. Read(s \o SubSeq(t, 1, 1)) = At(k, qs, Acc0)
  <2>1. Read(s \o SubSeq(t, 1, 0 + 1)) = ReadLine(Read(s \o SubSeq(t, 1, 0)), t[0 + 1])
    BY <1>5, <1>6
  <2>2. ReadLine(At(k, ps, a), Header) = At(k, qs, EmptySection)
    BY <1>1, ReadHeader
  <2> QED BY <1>4, <1>7, <2>1, <2>2 DEF Acc0
<1>9. Read(s \o SubSeq(t, 1, 2)) = At(k, qs, Acc1(q))
  <2>1. Read(s \o SubSeq(t, 1, 1 + 1)) = ReadLine(Read(s \o SubSeq(t, 1, 1)), t[1 + 1])
    BY <1>5, <1>6
  <2>2. ReadLine(At(k, qs, Acc0), Line("PublicKey", q.public_key))
          = At(k, qs, [Acc0 EXCEPT !.PublicKey = q.public_key])
    BY ReadPublicKey
  <2> QED BY <1>4, <1>8, <2>1, <2>2 DEF Acc0, Acc1
<1>10. Read(s \o SubSeq(t, 1, 3)) = At(k, qs, Acc2(q))
  <2>1. Read(s \o SubSeq(t, 1, 2 + 1)) = ReadLine(Read(s \o SubSeq(t, 1, 2)), t[2 + 1])
    BY <1>5, <1>6
  <2>2. ReadLine(At(k, qs, Acc1(q)), Line("AllowedIPs", q.allowed))
          = At(k, qs, [Acc1(q) EXCEPT !.AllowedIPs = q.allowed])
    BY ReadAllowedIPs
  <2> QED BY <1>4, <1>9, <2>1, <2>2 DEF Acc2
<1>11. CASE q.endpoint = Unset
  <2>1. Read(s \o SubSeq(t, 1, 3 + 1)) = ReadLine(Read(s \o SubSeq(t, 1, 3)), t[3 + 1])
    BY <1>5, <1>6
  <2>2. PICK v : v = OrElse(q.keepalive, KconfigKeepalive)
    OBVIOUS
  <2>3. ReadLine(At(k, qs, Acc2(q)), Line("PersistentKeepalive", v))
          = At(k, qs, [Acc2(q) EXCEPT !.PersistentKeepalive = v])
    BY ReadKeepalive
  <2>4. Acc3(q) = Acc2(q)
    <3>1. Acc2(q) = [PublicKey |-> q.public_key, Endpoint |-> Unset,
                     AllowedIPs |-> q.allowed, PersistentKeepalive |-> Unset]
      <4>1. Acc1(q) = [PublicKey |-> q.public_key, Endpoint |-> Unset,
                       AllowedIPs |-> Unset, PersistentKeepalive |-> Unset]
        BY DEF Acc1, EmptySection
      <4> QED BY <4>1 DEF Acc2
    <3>2. Acc3(q) = [Acc2(q) EXCEPT !.Endpoint = Unset]
      BY <1>11 DEF Acc3
    <3> QED BY <3>1, <3>2
  <2>5. Read(s \o SubSeq(t, 1, 4)) = At(k, qs, Acc4(q))
    BY <1>4, <1>10, <1>11, <2>1, <2>2, <2>3, <2>4 DEF Acc4
  <2>6. SubSeq(t, 1, 4) = t
    BY <1>4, <1>11, SubSeqFull
  <2>7. \A m \in 1 .. 4 : \E b \in Accs(q) : Read(s \o SubSeq(t, 1, m)) = At(k, qs, b)
    BY <1>3, <1>8, <1>9, <1>10, <2>5
  <2> QED BY <1>1, <1>4, <1>11, <2>5, <2>6, <2>7 DEF SectionIsRead
<1>12. CASE q.endpoint # Unset
  <2>1. Read(s \o SubSeq(t, 1, 3 + 1)) = ReadLine(Read(s \o SubSeq(t, 1, 3)), t[3 + 1])
    BY <1>5, <1>6
  <2>2. ReadLine(At(k, qs, Acc2(q)), Line("Endpoint", q.endpoint))
          = At(k, qs, [Acc2(q) EXCEPT !.Endpoint = q.endpoint])
    BY ReadEndpoint
  <2>3. Read(s \o SubSeq(t, 1, 4)) = At(k, qs, Acc3(q))
    BY <1>4, <1>10, <1>12, <2>1, <2>2 DEF Acc3
  <2>4. Read(s \o SubSeq(t, 1, 4 + 1)) = ReadLine(Read(s \o SubSeq(t, 1, 4)), t[4 + 1])
    <3>1. 4 \in 0 .. Len(t) - 1
      BY ONLY <1>4, <1>12
    <3> QED BY ONLY <1>5, <3>1
  <2>5. PICK v : v = OrElse(q.keepalive, KconfigKeepalive)
    OBVIOUS
  <2>6. ReadLine(At(k, qs, Acc3(q)), Line("PersistentKeepalive", v))
          = At(k, qs, [Acc3(q) EXCEPT !.PersistentKeepalive = v])
    BY ReadKeepalive
  <2>7. Read(s \o SubSeq(t, 1, 5)) = At(k, qs, Acc4(q))
    BY <1>4, <1>12, <2>3, <2>4, <2>5, <2>6 DEF Acc4
  <2>8. SubSeq(t, 1, 5) = t
    BY <1>4, <1>12, SubSeqFull
  <2>9. \A m \in 1 .. 5 : \E b \in Accs(q) : Read(s \o SubSeq(t, 1, m)) = At(k, qs, b)
    BY <1>3, <1>8, <1>9, <1>10, <2>3, <2>7
  <2> QED BY <1>1, <1>4, <1>12, <2>7, <2>8, <2>9 DEF SectionIsRead
<1> QED BY <1>11, <1>12

-----------------------------------------------------------------------------
(* What the section of a peer describes, whole or cut short.               *)

\* The peers a saved file describes, as they are loaded again.
First(qs, j) == [i \in 1 .. j |-> RunsWith(qs[i])]

LEMMA FirstType ==
  ASSUME NEW qs \in PeerLists, NEW j \in 0 .. Len(qs)
  PROVE  /\ First(qs, j) \in PeerLists /\ Len(First(qs, j)) = j /\ DOMAIN First(qs, j) = 1 .. j
         /\ \A i \in 1 .. j : First(qs, j)[i].public_key = qs[i].public_key
<1>1. PICK N \in Nat : N = Len(qs) /\ DOMAIN qs = 1 .. N /\ qs \in Seq(StagedPeers)
                       /\ N <= MaxPeers /\ Distinct(qs)
  BY DEF PeerLists
<1>2. ASSUME NEW p \in StagedPeers
      PROVE  RunsWith(p) \in StagedPeers /\ RunsWith(p).public_key = p.public_key
  BY DEF RunsWith, StagedPeers, OrElse
<1>3. \A i \in 1 .. j : qs[i] \in StagedPeers
  BY <1>1
<1>4. PICK ps : ps = First(qs, j)
  OBVIOUS
<1>5. /\ ps \in Seq(StagedPeers) /\ Len(ps) = j /\ DOMAIN ps = 1 .. j
      /\ \A i \in 1 .. j : ps[i].public_key = qs[i].public_key
  BY <1>2, <1>3, <1>4 DEF First
<1>6. Distinct(ps)
  BY <1>1, <1>5 DEF Distinct
<1>7. j <= MaxPeers
  BY <1>1, KconfigAssumption
<1> QED BY <1>4, <1>5, <1>6, <1>7 DEF PeerLists

LEMMA FirstFits ==
  ASSUME NEW qs \in PeerLists, NEW j \in 0 .. Len(qs) - 1
  PROVE  FitsNext(First(qs, j), qs[j + 1]) /\ qs[j + 1] \in StagedPeers
<1>1. PICK N \in Nat : N = Len(qs) /\ DOMAIN qs = 1 .. N /\ qs \in Seq(StagedPeers)
                       /\ N <= MaxPeers /\ Distinct(qs)
  BY DEF PeerLists
<1>2. /\ First(qs, j) \in PeerLists /\ Len(First(qs, j)) = j /\ DOMAIN First(qs, j) = 1 .. j
      /\ \A i \in 1 .. j : First(qs, j)[i].public_key = qs[i].public_key
  BY FirstType
<1>3. j < MaxPeers /\ j + 1 \in 1 .. N
  BY <1>1, KconfigAssumption
<1>4. \A i \in 1 .. j : qs[i].public_key # qs[j + 1].public_key
  BY <1>1, <1>3 DEF Distinct
<1> QED BY <1>1, <1>2, <1>3, <1>4 DEF FitsNext

\* A section that was read to its end describes the peer as it runs.
LEMMA WholeSection ==
  ASSUME NEW q \in StagedPeers
  PROVE  Acc4(q).PublicKey # Unset /\ Described(Acc4(q)) = RunsWith(q)
<1>1. PICK v : v = OrElse(q.keepalive, KconfigKeepalive)
  OBVIOUS
<1>2. /\ q.public_key \in PublicKeys /\ q.endpoint \in Endpoints \cup {Unset}
      /\ q.allowed \in AllowedIPs \cup {KconfigAllowed}
      /\ v \in Keepalives \cup {KconfigKeepalive}
      /\ q = [public_key |-> q.public_key, endpoint |-> q.endpoint, allowed |-> q.allowed,
              keepalive |-> q.keepalive]
  BY <1>1 DEF StagedPeers, OrElse
<1>3. q.public_key # Unset /\ q.allowed # Unset /\ v # Unset
  BY <1>2, TextAssumption
<1>4. /\ Acc4(q).PublicKey = q.public_key /\ Acc4(q).Endpoint = q.endpoint
      /\ Acc4(q).AllowedIPs = q.allowed /\ Acc4(q).PersistentKeepalive = v
  <2>1. PICK b : b = Acc3(q)
    OBVIOUS
  <2>2. /\ b.PublicKey = q.public_key /\ b.Endpoint = q.endpoint /\ b.AllowedIPs = q.allowed
        /\ b \in [{"PublicKey", "Endpoint", "AllowedIPs", "PersistentKeepalive"} -> {b[x] : x \in {"PublicKey", "Endpoint", "AllowedIPs", "PersistentKeepalive"}}]
    BY <2>1 DEF Acc3, Acc2, Acc1, EmptySection
  <2>3. Acc4(q) = [b EXCEPT !.PersistentKeepalive = v]
    BY <1>1, <2>1 DEF Acc4
  <2> QED BY <2>2, <2>3
<1>5. Described(Acc4(q)) = Overlay(NewPeer(q.public_key), q.endpoint, q.allowed, v)
  BY <1>4 DEF Described
<1>6. PICK p : p = NewPeer(q.public_key)
  OBVIOUS
<1>7. p = [public_key |-> q.public_key, endpoint |-> Unset, allowed |-> KconfigAllowed,
           keepalive |-> Unset]
  BY <1>6 DEF NewPeer
<1>8. Overlay(p, q.endpoint, q.allowed, v)
        = [p EXCEPT !.endpoint = q.endpoint, !.allowed = q.allowed, !.keepalive = v]
  BY <1>3, <1>7 DEF Overlay, OrElse
<1>9. [p EXCEPT !.endpoint = q.endpoint, !.allowed = q.allowed, !.keepalive = v]
        = [public_key |-> q.public_key, endpoint |-> q.endpoint, allowed |-> q.allowed,
           keepalive |-> v]
  <2>1. PICK x : x = [p EXCEPT !.endpoint = q.endpoint]
    OBVIOUS
  <2>2. x = [public_key |-> q.public_key, endpoint |-> q.endpoint, allowed |-> KconfigAllowed,
             keepalive |-> Unset]
    BY ONLY <1>7, <2>1
  <2>3. PICK y : y = [x EXCEPT !.allowed = q.allowed]
    OBVIOUS
  <2>4. y = [public_key |-> q.public_key, endpoint |-> q.endpoint, allowed |-> q.allowed,
             keepalive |-> Unset]
    BY ONLY <2>2, <2>3
  <2>5. [y EXCEPT !.keepalive = v]
          = [public_key |-> q.public_key, endpoint |-> q.endpoint, allowed |-> q.allowed,
             keepalive |-> v]
    BY ONLY <2>4
  <2> QED BY ONLY <2>1, <2>3, <2>5
<1>10. RunsWith(q) = [q EXCEPT !.keepalive = v]
  BY <1>1 DEF RunsWith
<1>11. [q EXCEPT !.keepalive = v]
         = [public_key |-> q.public_key, endpoint |-> q.endpoint, allowed |-> q.allowed,
            keepalive |-> v]
  BY ONLY <1>2
<1> QED BY <1>3, <1>4, <1>5, <1>6, <1>8, <1>9, <1>10, <1>11

\* One section that was cut short describes the peer, or one without settings.
CutPeer(p, q) ==
  /\ p.public_key = q.public_key
  /\ p.endpoint \in {q.endpoint, Unset}
  /\ p.allowed \in {q.allowed, KconfigAllowed}
  /\ p.keepalive \in {RunsWith(q).keepalive, Unset}

LEMMA CutSection ==
  ASSUME NEW q \in StagedPeers, NEW a \in Accs(q)
  PROVE  a.PublicKey = Unset \/ CutPeer(Described(a), q)
<1>1. PICK v : v = OrElse(q.keepalive, KconfigKeepalive)
  OBVIOUS
<1>2. RunsWith(q).keepalive = v
  BY <1>1 DEF RunsWith, StagedPeers
<1>3. /\ a.PublicKey \in {Unset, q.public_key} /\ a.Endpoint \in {Unset, q.endpoint}
      /\ a.AllowedIPs \in {Unset, q.allowed} /\ a.PersistentKeepalive \in {Unset, v}
  <2>1. CASE a = Acc0
    BY <2>1 DEF Acc0, EmptySection
  <2>2. CASE a = Acc1(q)
    BY <2>2 DEF Acc1, EmptySection
  <2>3. CASE a = Acc2(q)
    BY <2>3 DEF Acc2, Acc1, EmptySection
  <2>4. CASE a = Acc3(q)
    BY <2>4 DEF Acc3, Acc2, Acc1, EmptySection
  <2>5. CASE a = Acc4(q)
    BY <1>1, <2>5 DEF Acc4, Acc3, Acc2, Acc1, EmptySection
  <2> QED BY <2>1, <2>2, <2>3, <2>4, <2>5 DEF Accs
<1>4. ASSUME NEW key, NEW endpoint, NEW allowed, NEW keepalive,
             NEW p, p = Overlay(NewPeer(key), endpoint, allowed, keepalive)
      PROVE  /\ p.public_key = key /\ p.endpoint = OrElse(endpoint, Unset)
             /\ p.allowed = OrElse(allowed, KconfigAllowed)
             /\ p.keepalive = OrElse(keepalive, Unset)
  BY <1>4 DEF Overlay, NewPeer
<1>5. PICK p : p = Described(a)
  OBVIOUS
<1>6. /\ p.public_key = a.PublicKey /\ p.endpoint = OrElse(a.Endpoint, Unset)
      /\ p.allowed = OrElse(a.AllowedIPs, KconfigAllowed)
      /\ p.keepalive = OrElse(a.PersistentKeepalive, Unset)
  BY <1>4, <1>5 DEF Described
<1> QED BY <1>2, <1>3, <1>5, <1>6 DEF CutPeer, OrElse

LEMMA FlushedNext ==
  ASSUME NEW qs \in PeerLists, NEW j \in 0 .. Len(qs) - 1
  PROVE  Flushed(First(qs, j), Acc4(qs[j + 1])) = First(qs, j + 1)
<1>1. /\ First(qs, j) \in PeerLists /\ Len(First(qs, j)) = j /\ DOMAIN First(qs, j) = 1 .. j
  BY FirstType
<1>2. qs[j + 1] \in StagedPeers
  BY FirstFits
<1>3. Flushed(First(qs, j), Acc4(qs[j + 1])) = Append(First(qs, j), RunsWith(qs[j + 1]))
  BY <1>2, WholeSection DEF Flushed
<1>4. PICK s : s = First(qs, j)
  OBVIOUS
<1>5. PICK p : p = RunsWith(qs[j + 1])
  OBVIOUS
<1>6. s \in Seq(StagedPeers) /\ Len(s) = j /\ \A i \in 1 .. j : s[i] = RunsWith(qs[i])
  BY <1>1, <1>4 DEF PeerLists, First
<1>7. /\ Append(s, p) \in Seq(StagedPeers) /\ Len(Append(s, p)) = j + 1
      /\ \A i \in 1 .. j + 1 : Append(s, p)[i] = RunsWith(qs[i])
  <2>1. p \in StagedPeers
    BY <1>2, <1>5 DEF RunsWith, StagedPeers, OrElse
  <2>2. /\ Append(s, p) \in Seq(StagedPeers) /\ Len(Append(s, p)) = Len(s) + 1
        /\ \A i \in 1 .. Len(s) : Append(s, p)[i] = s[i]
        /\ Append(s, p)[Len(s) + 1] = p
    BY <1>6, <2>1, AppendProperties
  <2>3. \A i \in 1 .. j + 1 : i \in 1 .. j \/ i = j + 1
    OBVIOUS
  <2> QED BY <1>5, <1>6, <2>2, <2>3
<1>8. /\ First(qs, j + 1) \in Seq(StagedPeers) /\ Len(First(qs, j + 1)) = j + 1
      /\ \A i \in 1 .. j + 1 : First(qs, j + 1)[i] = RunsWith(qs[i])
  <2>1. j + 1 \in 0 .. Len(qs)
    BY DEF PeerLists
  <2>2. First(qs, j + 1) \in PeerLists /\ Len(First(qs, j + 1)) = j + 1
    BY <2>1, FirstType
  <2> QED BY <2>2 DEF PeerLists, First
<1>9. PICK x, y : x = Append(s, p) /\ y = First(qs, j + 1)
  OBVIOUS
<1>10. x = y
  BY <1>7, <1>8, <1>9, SeqEqual
<1> QED BY <1>3, <1>4, <1>5, <1>9, <1>10

-----------------------------------------------------------------------------
(* Reading what wg_writeconf() printed, peer by peer.                      *)

\* The first n of two sequences, one after the other.
CutsInto(s, t, n) ==
  \/ n \in 0 .. Len(s) /\ SubSeq(s \o t, 1, n) = SubSeq(s, 1, n)
  \/ \E m \in 1 .. Len(t) : SubSeq(s \o t, 1, n) = s \o SubSeq(t, 1, m)

LEMMA CutOfConcat ==
  ASSUME NEW S, NEW s \in Seq(S), NEW t \in Seq(S), NEW n \in 0 .. Len(s \o t)
  PROVE  CutsInto(s, t, n)
<1>1. PICK a \in Nat, b \in Nat : a = Len(s) /\ b = Len(t)
  OBVIOUS
<1>2. PICK c : c = s \o t
  OBVIOUS
<1>3. /\ c \in Seq(S) /\ Len(c) = a + b
      /\ \A i \in 1 .. a + b : c[i] = IF i <= a THEN s[i] ELSE t[i - a]
  BY <1>1, <1>2, ConcatProperties
<1>4. PICK u : u = SubSeq(c, 1, n)
  OBVIOUS
<1>5. n \in 0 .. a + b
  BY <1>2, <1>3
<1>6. u \in Seq(S) /\ Len(u) = n /\ \A i \in 1 .. n : u[i] = c[i]
  BY <1>3, <1>4, <1>5
<1>7. CASE n <= a
  <2>1. PICK v : v = SubSeq(s, 1, n)
    OBVIOUS
  <2>2. v \in Seq(S) /\ Len(v) = n /\ \A i \in 1 .. n : v[i] = s[i]
    BY <1>1, <1>5, <1>7, <2>1
  <2>3. \A i \in 1 .. n : u[i] = v[i]
    BY <1>1, <1>3, <1>5, <1>6, <1>7, <2>2
  <2>4. u = v
    BY <1>6, <2>2, <2>3, SeqEqual
  <2>5. n \in 0 .. Len(s)
    BY <1>1, <1>5, <1>7
  <2> QED BY <1>2, <1>4, <2>1, <2>4, <2>5 DEF CutsInto
<1>8. CASE n > a
  <2>1. PICK m \in 1 .. b : m = n - a
    <3>1. a \in Nat /\ b \in Nat /\ n \in Nat /\ n <= a + b
      BY <1>1, <1>5
    <3> QED BY ONLY <1>8, <3>1
  <2>2. PICK w : w = SubSeq(t, 1, m)
    OBVIOUS
  <2>3. w \in Seq(S) /\ Len(w) = m /\ \A i \in 1 .. m : w[i] = t[i]
    BY <1>1, <2>1, <2>2
  <2>4. PICK v : v = s \o w
    OBVIOUS
  <2>5. /\ v \in Seq(S) /\ Len(v) = a + m
        /\ \A i \in 1 .. a + m : v[i] = IF i <= a THEN s[i] ELSE w[i - a]
    BY <1>1, <2>3, <2>4, ConcatProperties
  <2>6. a + m = n
    BY <1>1, <1>5, <2>1
  <2>7. ASSUME NEW i \in 1 .. n PROVE u[i] = v[i]
    <3>1. i \in 1 .. a + b /\ i \in 1 .. a + m
      BY <1>1, <1>5, <2>6
    <3>2. i > a => i - a \in 1 .. m
      BY <1>1, <2>1, <2>6
    <3>3. u[i] = IF i <= a THEN s[i] ELSE t[i - a]
      BY <1>3, <1>6, <3>1
    <3>4. v[i] = IF i <= a THEN s[i] ELSE w[i - a]
      BY <2>5, <3>1
    <3>5. i > a => w[i - a] = t[i - a]
      BY <2>3, <3>2
    <3> QED BY <1>1, <3>3, <3>4, <3>5
  <2>8. u = v
    BY <1>6, <2>5, <2>6, <2>7, SeqEqual
  <2> QED BY <1>1, <1>2, <1>4, <2>1, <2>2, <2>4, <2>8 DEF CutsInto
<1>9. n <= a \/ n > a
  BY <1>1, <1>5
<1> QED BY <1>7, <1>8, <1>9

\* The lines describe the key K and the first j of the peers qs.
ReadUpTo(K, qs, j, lines) ==
  /\ lines \in Seq(TextLines)
  /\ \E ps \in PeerLists : \E a :
       Fits(ps, a) /\ Flushed(ps, a) = First(qs, j) /\ Read(lines) = At(K, ps, a)

\* A load that stages a beginning of qs, and of the next peer what was written.
GoodCut(qs, r) ==
  /\ r.ret = "OK"
  /\ \E j \in 0 .. Len(qs) :
       \/ r.peers = First(qs, j)
       \/ /\ j < Len(qs)
          /\ \E p : CutPeer(p, qs[j + 1]) /\ r.peers = Append(First(qs, j), p)

CutsGood(qs, lines) ==
  \A n \in 0 .. Len(lines) : GoodCut(qs, Setconf(Unset, SubSeq(lines, 1, n)))

LEMMA NoPeersYet ==
  ASSUME NEW qs
  PROVE  /\ <<>> \in PeerLists /\ Fits(<<>>, EmptySection)
         /\ Flushed(<<>>, EmptySection) = <<>> /\ First(qs, 0) = <<>>
<1>1. EmptySection \in Accumulators /\ EmptySection.PublicKey = Unset
  BY DEF EmptySection, Accumulators
<1>2. First(qs, 0) = <<>>
  <2>1. First(qs, 0) \in Seq({}) /\ Len(First(qs, 0)) = 0
    BY DEF First
  <2> QED BY <2>1, EmptySeq
<1> QED BY <1>1, <1>2, NoPeers DEF Fits, Flushed

LEMMA InterfaceItems ==
  ASSUME NEW key \in PrivateKeys \cup {Unset}, OrElse(key, KconfigPrivateKey) # Unset,
         NEW t, t = Interface(key), NEW K, K = OrElse(key, KconfigPrivateKey)
  PROVE  /\ t \in Seq(TextLines) /\ Len(t) = 3 /\ t[1] = Header
         /\ t[2] = Line("PrivateKey", K) /\ t[3] = Line("ListenPort", Unset)
         /\ K # Malformed
<1>1. t \in Seq(TextLines)
  BY InterfaceLines
<1>2. Len(t) = 3 /\ t[1] = Header /\ t[2] = Line("PrivateKey", K) /\ t[3] = Line("ListenPort", Unset)
  BY DEF Interface
<1>3. K # Malformed
  BY KconfigAssumption, TextAssumption DEF OrElse
<1> QED BY <1>1, <1>2, <1>3

\* The first section holds the key and no peer, wherever it ends.
LEMMA InterfaceRead ==
  ASSUME NEW key \in PrivateKeys \cup {Unset}, OrElse(key, KconfigPrivateKey) # Unset,
         NEW t, t = Interface(key), NEW K, K = OrElse(key, KconfigPrivateKey)
  PROVE  /\ t \in Seq(TextLines) /\ Read(t) = At(K, <<>>, EmptySection)
         /\ \A n \in 0 .. Len(t) : \E k : Read(SubSeq(t, 1, n)) = At(k, <<>>, EmptySection)
<1>1. /\ t \in Seq(TextLines) /\ Len(t) = 3 /\ t[1] = Header
      /\ t[2] = Line("PrivateKey", K) /\ t[3] = Line("ListenPort", Unset)
      /\ K # Malformed
  BY InterfaceItems
<1>2. <<>> \in Seq(TextLines)
  OBVIOUS
<1>3. \A m \in 0 .. Len(t) - 1 :
        Read(<<>> \o SubSeq(t, 1, m + 1)) = ReadLine(Read(<<>> \o SubSeq(t, 1, m)), t[m + 1])
  BY <1>1, <1>2, ReadNext
<1>4. \A m \in 0 .. 3 : <<>> \o SubSeq(t, 1, m) = SubSeq(t, 1, m)
  <2> TAKE m \in 0 .. 3
  <2>1. t \in Seq(TextLines) /\ Len(t) = 3
    BY ONLY <1>1
  <2>2. SubSeq(t, 1, m) \in Seq(TextLines)
    BY ONLY <2>1, m \in 0 .. 3
  <2> QED BY <2>2, ConcatEmptySeq
<1>5. \A m \in 0 .. 2 : Read(SubSeq(t, 1, m + 1)) = ReadLine(Read(SubSeq(t, 1, m)), t[m + 1])
  BY <1>1, <1>3, <1>4
<1>6. Read(SubSeq(t, 1, 0)) = At(Unset, <<>>, EmptySection)
  <2>1. SubSeq(t, 1, 0) = <<>>
    BY SubSeqEmpty
  <2> QED BY <2>1, ReadNil DEF Start, At
<1>7. Read(SubSeq(t, 1, 1)) = At(Unset, <<>>, EmptySection)
  <2>1. Read(SubSeq(t, 1, 0 + 1)) = ReadLine(Read(SubSeq(t, 1, 0)), t[0 + 1])
    BY <1>5
  <2>2. ReadLine(At(Unset, <<>>, EmptySection), Header) = At(Unset, <<>>, EmptySection)
    BY NoPeersYet, ReadHeader
  <2> QED BY <1>1, <1>6, <2>1, <2>2
<1>8. Read(SubSeq(t, 1, 2)) = At(K, <<>>, EmptySection)
  <2>1. Read(SubSeq(t, 1, 1 + 1)) = ReadLine(Read(SubSeq(t, 1, 1)), t[1 + 1])
    BY <1>5
  <2>2. ReadLine(At(Unset, <<>>, EmptySection), Line("PrivateKey", K)) = At(K, <<>>, EmptySection)
    BY <1>1, ReadPrivateKey
  <2> QED BY <1>1, <1>7, <2>1, <2>2
<1>9. Read(SubSeq(t, 1, 3)) = At(K, <<>>, EmptySection)
  <2>1. Read(SubSeq(t, 1, 2 + 1)) = ReadLine(Read(SubSeq(t, 1, 2)), t[2 + 1])
    BY <1>5
  <2>2. ReadLine(At(K, <<>>, EmptySection), Line("ListenPort", Unset)) = At(K, <<>>, EmptySection)
    BY ReadListenPort
  <2> QED BY <1>1, <1>8, <2>1, <2>2
<1>10. SubSeq(t, 1, 3) = t
  BY <1>1, SubSeqFull
<1>11. \A n \in 0 .. 3 : n = 0 \/ n = 1 \/ n = 2 \/ n = 3
  OBVIOUS
<1>12. \A n \in 0 .. 3 : \E k : Read(SubSeq(t, 1, n)) = At(k, <<>>, EmptySection)
  BY <1>6, <1>7, <1>8, <1>9, <1>11
<1> QED BY <1>1, <1>9, <1>10, <1>12

LEMMA InterfaceUpTo ==
  ASSUME NEW qs \in PeerLists, NEW key \in PrivateKeys \cup {Unset},
         OrElse(key, KconfigPrivateKey) # Unset,
         NEW t, t = Interface(key), NEW K, K = OrElse(key, KconfigPrivateKey)
  PROVE  ReadUpTo(K, qs, 0, t) /\ CutsGood(qs, t)
<1>1. /\ t \in Seq(TextLines) /\ Read(t) = At(K, <<>>, EmptySection)
      /\ \A n \in 0 .. Len(t) : \E k : Read(SubSeq(t, 1, n)) = At(k, <<>>, EmptySection)
  BY InterfaceRead
<1>2. /\ <<>> \in PeerLists /\ Fits(<<>>, EmptySection)
      /\ Flushed(<<>>, EmptySection) = <<>> /\ First(qs, 0) = <<>>
  BY NoPeersYet
<1>3. ReadUpTo(K, qs, 0, t)
  BY <1>1, <1>2 DEF ReadUpTo
<1>4. ASSUME NEW n \in 0 .. Len(t) PROVE GoodCut(qs, Setconf(Unset, SubSeq(t, 1, n)))
  <2>1. PICK k : Read(SubSeq(t, 1, n)) = At(k, <<>>, EmptySection)
    BY <1>1
  <2>2. Setconf(Unset, SubSeq(t, 1, n))
          = [ret |-> "OK", private_key |-> k, peers |-> Flushed(<<>>, EmptySection)]
    BY <1>2, <2>1, SetconfAt
  <2>3. 0 \in 0 .. Len(qs)
    BY DEF PeerLists
  <2> QED BY <1>2, <2>2, <2>3 DEF GoodCut
<1> QED BY <1>3, <1>4 DEF CutsGood

\* A file that ends inside section j + 1 gives the first j peers and part of the next one.
LEMMA CutInside ==
  ASSUME NEW qs, NEW j \in 0 .. Len(qs), j < Len(qs), NEW p, CutPeer(p, qs[j + 1]),
         NEW r, r.ret = "OK", r.peers = Append(First(qs, j), p)
  PROVE  GoodCut(qs, r)
<1>1. \E x : CutPeer(x, qs[j + 1]) /\ r.peers = Append(First(qs, j), x)
  OBVIOUS
<1> QED BY <1>1 DEF GoodCut

LEMMA SectionUpTo ==
  ASSUME NEW K, NEW qs \in PeerLists, NEW j \in 0 .. Len(qs) - 1, NEW s,
         ReadUpTo(K, qs, j, s), CutsGood(qs, s),
         NEW t, t = wg_showconf_peer(qs[j + 1])
  PROVE  ReadUpTo(K, qs, j + 1, s \o t) /\ CutsGood(qs, s \o t)
<1>1. s \in Seq(TextLines)
  BY DEF ReadUpTo
<1>2. PICK q \in StagedPeers : q = qs[j + 1] /\ FitsNext(First(qs, j), q)
  BY FirstFits
<1>3. t \in Seq(TextLines)
  BY <1>2, SectionLines
<1>4. PICK fs \in PeerLists : fs = First(qs, j)
  <2>1. j \in 0 .. Len(qs)
    BY DEF PeerLists
  <2> QED BY <2>1, FirstType
<1>5. /\ Read(s \o t) = At(K, fs, Acc4(q))
      /\ \A m \in 1 .. Len(t) :
           \E b \in Accs(q) : Read(s \o SubSeq(t, 1, m)) = At(K, fs, b)
  <2>1. PICK ps \in PeerLists : \E a :
          Fits(ps, a) /\ Flushed(ps, a) = First(qs, j) /\ Read(s) = At(K, ps, a)
    BY DEF ReadUpTo
  <2>2. PICK a : Fits(ps, a) /\ Flushed(ps, a) = First(qs, j) /\ Read(s) = At(K, ps, a)
    BY <2>1
  <2>3. Fits(ps, a) /\ Read(s) = At(K, ps, a) /\ FitsNext(Flushed(ps, a), q)
        /\ t = wg_showconf_peer(q)
    BY <1>2, <2>2
  <2>4. SectionIsRead(K, Flushed(ps, a), s, q, t)
    BY <1>1, <2>3, SectionRead
  <2> QED BY <1>4, <2>2, <2>4 DEF SectionIsRead
<1>6. \A b \in Accs(q) : Fits(fs, b)
  BY <1>2, <1>4, AccsFit
<1>7. Flushed(fs, Acc4(q)) = First(qs, j + 1) /\ Acc4(q) \in Accs(q)
  BY <1>2, <1>4, FlushedNext DEF Accs
<1>8. ReadUpTo(K, qs, j + 1, s \o t)
  <2>1. s \o t \in Seq(TextLines)
    BY <1>1, <1>3
  <2> QED BY <1>5, <1>6, <1>7, <2>1 DEF ReadUpTo
<1>9. ASSUME NEW m \in 1 .. Len(t)
      PROVE  GoodCut(qs, Setconf(Unset, s \o SubSeq(t, 1, m)))
  <2>1. PICK b \in Accs(q) : Read(s \o SubSeq(t, 1, m)) = At(K, fs, b)
    BY <1>5
  <2>2. Fits(fs, b)
    BY <1>6
  <2>3. Setconf(Unset, s \o SubSeq(t, 1, m))
          = [ret |-> "OK", private_key |-> K, peers |-> Flushed(fs, b)]
    BY <2>1, <2>2, SetconfAt
  <2>4. j \in 0 .. Len(qs) /\ j < Len(qs)
    BY DEF PeerLists
  <2>5. CASE b.PublicKey = Unset
    <3>1. Flushed(fs, b) = First(qs, j)
      BY <1>4, <2>5 DEF Flushed
    <3> QED BY <2>3, <2>4, <3>1 DEF GoodCut
  <2>6. CASE b.PublicKey # Unset
    <3>1. Flushed(fs, b) = Append(First(qs, j), Described(b))
      BY <1>4, <2>6 DEF Flushed
    <3>2. CutPeer(Described(b), qs[j + 1])
      BY <1>2, <2>6, CutSection
    <3>3. PICK r : r = Setconf(Unset, s \o SubSeq(t, 1, m))
      OBVIOUS
    <3>4. r.ret = "OK" /\ r.peers = Append(First(qs, j), Described(b))
      BY ONLY <2>3, <3>1, <3>3
    <3>5. GoodCut(qs, r)
      BY ONLY <2>4, <3>2, <3>4, CutInside
    <3> QED BY ONLY <3>3, <3>5
  <2> QED BY <2>5, <2>6
<1>10. ASSUME NEW n \in 0 .. Len(s \o t)
       PROVE  GoodCut(qs, Setconf(Unset, SubSeq(s \o t, 1, n)))
  <2>1. \/ n \in 0 .. Len(s) /\ SubSeq(s \o t, 1, n) = SubSeq(s, 1, n)
        \/ \E m \in 1 .. Len(t) : SubSeq(s \o t, 1, n) = s \o SubSeq(t, 1, m)
    <3>1. CutsInto(s, t, n)
      BY <1>1, <1>3, CutOfConcat
    <3> QED BY <3>1 DEF CutsInto
  <2> QED BY <1>9, <2>1 DEF CutsGood
<1> QED BY <1>8, <1>10 DEF CutsGood

\* By induction over the peers: what wg_writeconf() printed for the first j.
LEMMA WrittenUpTo ==
  ASSUME NEW key \in PrivateKeys \cup {Unset}, NEW ps \in PeerLists,
         OrElse(key, KconfigPrivateKey) # Unset,
         NEW K, K = OrElse(key, KconfigPrivateKey)
  PROVE  /\ ReadUpTo(K, PeersOrKconfig(ps), Len(PeersOrKconfig(ps)), wg_writeconf(key, ps))
         /\ CutsGood(PeersOrKconfig(ps), wg_writeconf(key, ps))
<1>1. PICK qs \in PeerLists : qs = PeersOrKconfig(ps)
  BY PeersOrKconfigType
<1>2. PICK N \in Nat : N = Len(qs)
  BY DEF PeerLists
<1>3. PICK f : Writes(key, qs, N, f) /\ wg_writeconf(key, ps) = f[N]
  BY <1>1, <1>2, WriteconfWrites
<1> DEFINE T == {j \in 0 .. N : ReadUpTo(K, qs, j, f[j]) /\ CutsGood(qs, f[j])}
<1>4. 0 \in T
  <2>1. f[0] = Interface(key)
    BY <1>3 DEF Writes
  <2>2. ReadUpTo(K, qs, 0, f[0]) /\ CutsGood(qs, f[0])
    BY <2>1, InterfaceUpTo
  <2> QED BY <2>2
<1>5. ASSUME NEW j \in 0 .. N - 1, j \in T PROVE j + 1 \in T
  <2>1. f[j + 1] = f[j] \o wg_showconf_peer(qs[j + 1])
    BY <1>3 DEF Writes
  <2>2. ReadUpTo(K, qs, j, f[j]) /\ CutsGood(qs, f[j]) /\ j \in 0 .. Len(qs) - 1
    BY <1>2, <1>5
  <2>3. PICK s, t : s = f[j] /\ t = wg_showconf_peer(qs[j + 1])
    OBVIOUS
  <2>4. ReadUpTo(K, qs, j, s) /\ CutsGood(qs, s)
    BY <2>2, <2>3
  <2>5. ReadUpTo(K, qs, j + 1, s \o t) /\ CutsGood(qs, s \o t)
    BY <2>2, <2>3, <2>4, SectionUpTo
  <2>6. j + 1 \in 0 .. N
    OBVIOUS
  <2> QED BY <2>1, <2>3, <2>5, <2>6
<1> HIDE DEF T
<1>6. \A j \in 0 .. N : j \in T
  BY <1>4, <1>5, Induction
<1>7. N \in T
  BY <1>6
<1> QED BY <1>1, <1>2, <1>3, <1>7 DEF T

\* A loaded keep-alive is not defaulted again.
LEMMA Twice ==
  ASSUME NEW q
  PROVE  RunsWith(RunsWith(q)) = RunsWith(q)
BY DEF RunsWith, OrElse

LEMMA ConfigureFirst ==
  ASSUME NEW ps \in PeerLists
  PROVE  wg_configure_peer(First(PeersOrKconfig(ps), Len(PeersOrKconfig(ps))))
           = wg_configure_peer(ps)
<1>1. PICK qs \in PeerLists : qs = PeersOrKconfig(ps)
  BY PeersOrKconfigType
<1>2. PICK N \in Nat : N = Len(qs) /\ DOMAIN qs = 1 .. N
  BY DEF PeerLists
<1>3. PICK fs : fs = First(qs, N)
  OBVIOUS
<1>4. Len(fs) = N /\ DOMAIN fs = 1 .. N /\ fs = [i \in 1 .. N |-> RunsWith(qs[i])]
  BY <1>2, <1>3, FirstType DEF First
<1>5. CASE N = 0
  <2>1. qs = <<>>
    BY <1>2, <1>5, EmptySeq DEF PeerLists
  <2>2. ps = <<>> /\ KconfigPublicKey = Unset
    BY <1>1, <2>1 DEF PeersOrKconfig
  <2>3. fs = <<>>
    BY <1>3, <1>5, NoPeersYet
  <2> QED BY <1>1, <1>2, <1>3, <2>2, <2>3
<1>6. CASE N # 0
  <2>1. fs # <<>>
    BY <1>2, <1>4, <1>6
  <2>2. PeersOrKconfig(fs) = fs
    BY <2>1 DEF PeersOrKconfig
  <2>3. PICK f : Adds(qs, N, f) /\ wg_configure_peer(ps) = f[N]
    BY <1>1, <1>2, ConfigureAdds
  <2>4. PICK g : Adds(fs, N, g) /\ wg_configure_peer(fs) = g[N]
    BY <1>2, <1>4, <2>2, ConfigureAdds
  <2> DEFINE T == {n \in 0 .. N : f[n] = g[n]}
  <2>5. 0 \in T
    BY <1>2, <2>3, <2>4 DEF Adds
  <2>6. ASSUME NEW n \in 0 .. N - 1, n \in T PROVE n + 1 \in T
    <3>1. /\ f[n + 1] = wg_add_peer(f[n], qs[n + 1])
          /\ g[n + 1] = wg_add_peer(g[n], fs[n + 1])
      BY <1>2, <2>3, <2>4, <2>6 DEF Adds
    <3>2. fs[n + 1] = RunsWith(qs[n + 1])
      BY <1>2, <1>4, <2>6
    <3>3. RunsWith(fs[n + 1]) = RunsWith(qs[n + 1])
      BY <3>2, Twice
    <3>4. fs[n + 1].public_key = qs[n + 1].public_key
      BY <1>2, <1>3, <2>6, FirstType
    <3> QED BY <1>2, <2>6, <3>1, <3>3, <3>4 DEF wg_add_peer
  <2> HIDE DEF T
  <2>7. \A n \in 0 .. N : n \in T
    BY <1>2, <2>5, <2>6, Induction
  <2>8. f[N] = g[N]
    BY <1>2, <2>7 DEF T
  <2> QED BY <1>1, <1>2, <1>3, <2>3, <2>4, <2>8
<1> QED BY <1>5, <1>6

\* What "wg saveconf" writes, "wg setconf" loads after a reboot as the same key
\* and the same peers, for every staged state.
THEOREM SavedIsReloaded == Spec => []RoundTrip
<1>1. IInv => RoundTrip
  <2> SUFFICES ASSUME IInv, OrElse(private_key, KconfigPrivateKey) # Unset
               PROVE  LET r == Setconf(Unset, wg_writeconf(private_key, peers))
                      IN  /\ r.ret = "OK"
                          /\ r.private_key = OrElse(private_key, KconfigPrivateKey)
                          /\ wg_configure_peer(r.peers) = wg_configure_peer(peers)
    BY DEF RoundTrip
  <2>1. peers \in PeerLists /\ private_key \in PrivateKeys \cup {Unset}
    BY DEF IInv, TypeOK, PeerLists
  <2>2. PICK K : K = OrElse(private_key, KconfigPrivateKey)
    OBVIOUS
  <2>3. PICK qs, N, lines : qs = PeersOrKconfig(peers) /\ N = Len(qs)
                            /\ lines = wg_writeconf(private_key, peers)
    OBVIOUS
  <2>4. ReadUpTo(K, qs, N, lines)
    BY <2>1, <2>2, <2>3, WrittenUpTo
  <2>5. PICK ps \in PeerLists : \E a :
          Fits(ps, a) /\ Flushed(ps, a) = First(qs, N) /\ Read(lines) = At(K, ps, a)
    BY <2>4 DEF ReadUpTo
  <2>6. PICK a : Fits(ps, a) /\ Flushed(ps, a) = First(qs, N) /\ Read(lines) = At(K, ps, a)
    BY <2>5
  <2>7. Setconf(Unset, lines) = [ret |-> "OK", private_key |-> K, peers |-> Flushed(ps, a)]
    BY <2>6, SetconfAt
  <2>8. wg_configure_peer(First(qs, N)) = wg_configure_peer(peers)
    BY <2>1, <2>3, ConfigureFirst
  <2> QED BY <2>2, <2>3, <2>6, <2>7, <2>8
<1> QED BY <1>1, Invariant, PTL

\* What CutFileLoads asks of the load r of the peers whole.
CutLoads(whole, r) ==
  LET k == Len(r.peers)
  IN  /\ r.ret = "OK" /\ k <= Len(whole)
      /\ \A i \in 1 .. k - 1 : RunsWith(r.peers[i]) = RunsWith(whole[i])
      /\ k > 0 =>
           LET p == r.peers[k]
               none == NewPeer(whole[k].public_key)
           IN  /\ p.public_key = whole[k].public_key
               /\ p.endpoint \in {whole[k].endpoint, none.endpoint}
               /\ p.allowed \in {whole[k].allowed, none.allowed}
               /\ p.keepalive \in {RunsWith(whole[k]).keepalive, none.keepalive}

LEMMA GoodCutLoads ==
  ASSUME NEW qs \in PeerLists, NEW r, GoodCut(qs, r)
  PROVE  CutLoads(qs, r)
<1>1. PICK N \in Nat : N = Len(qs) /\ DOMAIN qs = 1 .. N /\ qs \in Seq(StagedPeers)
  BY DEF PeerLists
<1>2. PICK j \in 0 .. N :
        \/ r.peers = First(qs, j)
        \/ /\ j < N
           /\ \E p : CutPeer(p, qs[j + 1]) /\ r.peers = Append(First(qs, j), p)
  BY <1>1 DEF GoodCut
<1>3. PICK fs : fs = First(qs, j)
  OBVIOUS
<1>4. fs \in Seq(StagedPeers) /\ Len(fs) = j /\ \A i \in 1 .. j : fs[i] = RunsWith(qs[i])
  BY <1>1, <1>3, FirstType DEF First, PeerLists
<1>5. \A i \in 1 .. j : RunsWith(fs[i]) = RunsWith(qs[i])
  BY <1>4, Twice
<1>6. ASSUME NEW key
      PROVE  /\ NewPeer(key).endpoint = Unset /\ NewPeer(key).allowed = KconfigAllowed
             /\ NewPeer(key).keepalive = Unset
  BY DEF NewPeer
<1>7. r.ret = "OK"
  BY DEF GoodCut
<1>8. CASE r.peers = fs
  <2>1. ASSUME NEW q \in StagedPeers
        PROVE  /\ RunsWith(q).public_key = q.public_key /\ RunsWith(q).endpoint = q.endpoint
               /\ RunsWith(q).allowed = q.allowed
    BY DEF RunsWith, StagedPeers
  <2>2. j > 0 => qs[j] \in StagedPeers /\ fs[j] = RunsWith(qs[j])
    BY <1>1, <1>4
  <2>3. Len(r.peers) = j /\ j <= Len(qs)
    BY <1>1, <1>4, <1>8
  <2>4. \A i \in 1 .. j - 1 : RunsWith(r.peers[i]) = RunsWith(qs[i])
    BY <1>5, <1>8
  <2>5. j > 0 =>
          /\ r.peers[j].public_key = qs[j].public_key
          /\ r.peers[j].endpoint = qs[j].endpoint /\ r.peers[j].allowed = qs[j].allowed
          /\ r.peers[j].keepalive = RunsWith(qs[j]).keepalive
    BY ONLY <1>8, <2>1, <2>2
  <2> QED BY ONLY <1>7, <2>3, <2>4, <2>5 DEF CutLoads
<1>9. CASE r.peers # fs
  <2>1. PICK p : j < N /\ CutPeer(p, qs[j + 1]) /\ r.peers = Append(fs, p)
    BY <1>2, <1>3, <1>9
  <2>2. PICK ms : ms = Append(fs, p)
    OBVIOUS
  <2>3. Len(ms) = j + 1 /\ ms[j + 1] = p /\ \A i \in 1 .. j : ms[i] = fs[i]
    <3>1. fs \in Seq(StagedPeers \cup {p}) /\ p \in StagedPeers \cup {p}
      BY <1>4
    <3> QED BY <1>4, <2>2, <3>1, AppendProperties
  <2>4. (j + 1) - 1 = j /\ j + 1 <= N
    BY <1>1, <2>1
  <2>5. PICK q : q = qs[j + 1]
    OBVIOUS
  <2>6. /\ p.public_key = q.public_key /\ p.endpoint \in {q.endpoint, Unset}
        /\ p.allowed \in {q.allowed, KconfigAllowed}
        /\ p.keepalive \in {RunsWith(q).keepalive, Unset}
    BY <2>1, <2>5 DEF CutPeer
  <2>7. \A i \in 1 .. (j + 1) - 1 : RunsWith(ms[i]) = RunsWith(qs[i])
    BY <1>5, <2>3, <2>4
  <2>8. ms = r.peers
    BY <2>1, <2>2
  <2> QED BY <1>1, <1>6, <1>7, <2>3, <2>4, <2>5, <2>6, <2>7, <2>8 DEF CutLoads
<1> QED BY <1>8, <1>9

\* Every beginning of a saved file loads, as the peers that had been written; the
\* last may lack settings, and none has those of another.
THEOREM CutFilesLoad == Spec => []CutFileLoads
<1>1. IInv => CutFileLoads
  <2> SUFFICES ASSUME IInv, NEW n \in 0 .. Len(wg_writeconf(private_key, peers))
               PROVE  CutLoads(PeersOrKconfig(peers),
                               Setconf(Unset, SubSeq(wg_writeconf(private_key, peers), 1, n)))
    BY Zenon DEF CutFileLoads, CutLoads
  <2>1. peers \in PeerLists /\ private_key \in PrivateKeys \cup {Unset}
    BY DEF IInv, TypeOK, PeerLists
  <2>2. PICK qs \in PeerLists : qs = PeersOrKconfig(peers)
    BY <2>1, PeersOrKconfigType
  <2>3. PICK lines : lines = wg_writeconf(private_key, peers)
    OBVIOUS
  <2>4. CASE OrElse(private_key, KconfigPrivateKey) # Unset
    <3>1. CutsGood(qs, lines)
      BY <2>1, <2>2, <2>3, <2>4, WrittenUpTo
    <3>2. GoodCut(qs, Setconf(Unset, SubSeq(lines, 1, n)))
      BY <2>3, <3>1 DEF CutsGood
    <3> QED BY <2>2, <2>3, <3>2, GoodCutLoads
  <2>5. CASE OrElse(private_key, KconfigPrivateKey) = Unset
    <3>1. lines = <<>>
      BY <2>3, <2>5 DEF wg_writeconf
    <3>2. n = 0 /\ SubSeq(lines, 1, n) = <<>>
      BY <2>3, <3>1, SubSeqEmpty
    <3>3. Read(<<>>) = At(Unset, <<>>, EmptySection)
      BY ReadNil DEF Start, At
    <3>4. Setconf(Unset, <<>>)
            = [ret |-> "OK", private_key |-> Unset, peers |-> Flushed(<<>>, EmptySection)]
      BY <3>3, NoPeersYet, SetconfAt
    <3>5. 0 \in 0 .. Len(qs)
      BY DEF PeerLists
    <3>6. GoodCut(qs, Setconf(Unset, <<>>))
      BY <3>4, <3>5, NoPeersYet DEF GoodCut
    <3> QED BY <2>2, <2>3, <3>2, <3>6, GoodCutLoads
  <2> QED BY <2>4, <2>5
<1> QED BY <1>1, Invariant, PTL

-----------------------------------------------------------------------------
(* What a file says, line by line: a line changes only the setting it is   *)
(* about, and a section that is closed stays as it is.                     *)

Settings == {"PublicKey", "Endpoint", "AllowedIPs", "PersistentKeepalive"}

LEMMA SectionSteps ==
  ASSUME NEW lines, IsFile(lines)
  PROVE  /\ SectionOf(lines, 0) = 0
         /\ \A n \in 0 .. Len(lines) - 1 :
              /\ SectionOf(lines, n) \in Nat
              /\ SectionOf(lines, n + 1)
                   = IF lines[n + 1].k = "[" THEN SectionOf(lines, n) + 1 ELSE SectionOf(lines, n)
         /\ SectionOf(lines, Len(lines)) \in Nat
<1> DEFINE H(n) == {j \in 1 .. n : lines[j].k = "["}
<1>1. PICK N \in Nat : N = Len(lines)
  BY DEF IsFile
<1>2. ASSUME NEW n \in 0 .. N PROVE IsFiniteSet(H(n))
  <2>1. IsFiniteSet(1 .. n)
    BY FS_Interval
  <2> QED BY <2>1, FS_Subset
<1>3. \A n \in 0 .. N : Cardinality(H(n)) \in Nat
  BY <1>2, FS_CardinalityType
<1>4. Cardinality(H(0)) = 0
  <2>1. H(0) = {}
    OBVIOUS
  <2> QED BY <2>1, FS_EmptySet
<1>5. ASSUME NEW n \in 0 .. N - 1
      PROVE  Cardinality(H(n + 1))
               = IF lines[n + 1].k = "[" THEN Cardinality(H(n)) + 1 ELSE Cardinality(H(n))
  <2>1. CASE lines[n + 1].k = "["
    <3>1. H(n + 1) = H(n) \cup {n + 1} /\ n + 1 \notin H(n)
      BY <2>1
    <3>2. IsFiniteSet(H(n))
      BY <1>2
    <3> HIDE DEF H
    <3> QED BY <2>1, <3>1, <3>2, FS_AddElement
  <2>2. CASE lines[n + 1].k # "["
    <3>1. H(n + 1) = H(n)
      BY <2>2
    <3> QED BY <2>2, <3>1
  <2> QED BY <2>1, <2>2
<1>6. \A n : SectionOf(lines, n) = Cardinality(H(n))
  BY DEF SectionOf
<1> HIDE DEF H
<1>7. 0 \in 0 .. N /\ N \in 0 .. N
  OBVIOUS
<1> QED BY <1>1, <1>3, <1>4, <1>5, <1>6, <1>7

\* Sections follow one another.
LEMMA SectionsGrow ==
  ASSUME NEW lines, IsFile(lines), NEW i \in 0 .. Len(lines), NEW n \in 0 .. Len(lines), i <= n
  PROVE  /\ SectionOf(lines, i) \in Nat /\ SectionOf(lines, n) \in Nat
         /\ SectionOf(lines, i) <= SectionOf(lines, n)
<1>1. PICK N \in Nat : N = Len(lines)
  BY DEF IsFile
<1>2. \A m \in 0 .. N : SectionOf(lines, m) \in Nat
  <2>1. \A m \in 0 .. N : m \in 0 .. N - 1 \/ m = N
    OBVIOUS
  <2> QED BY <1>1, <2>1, SectionSteps
<1> DEFINE T == {m \in 0 .. n : i <= m => SectionOf(lines, i) <= SectionOf(lines, m)}
<1>3. 0 \in T
  BY <1>1, <1>2
<1>4. ASSUME NEW m \in 0 .. n - 1, m \in T PROVE m + 1 \in T
  <2>1. \/ SectionOf(lines, m + 1) = SectionOf(lines, m) + 1
        \/ SectionOf(lines, m + 1) = SectionOf(lines, m)
    <3>1. m \in 0 .. Len(lines) - 1
      BY <1>1
    <3> QED BY <3>1, SectionSteps
  <2>2. SectionOf(lines, m) \in Nat /\ SectionOf(lines, i) \in Nat
    BY <1>1, <1>2
  <2>3. i <= m + 1 => i <= m \/ i = m + 1
    BY <1>1
  <2> QED BY <1>1, <1>4, <2>1, <2>2, <2>3
<1> HIDE DEF T
<1>5. \A m \in 0 .. n : m \in T
  BY <1>1, <1>3, <1>4, Induction
<1> QED BY <1>1, <1>2, <1>5 DEF T

\* Where the first n lines set k in section s.
PlacesOf(lines, n, s, k) == {i \in 1 .. n : SectionOf(lines, i) = s /\ lines[i].k = k}

\* The value at the last of some places, and so what k is set to.
LastAt(lines, at) ==
  IF at = {} THEN Unset ELSE lines[CHOOSE i \in at : \A j \in at : j <= i].v

SettingIn(lines, n, s, k) == LastAt(lines, PlacesOf(lines, n, s, k))

LEMMA WholeSetting ==
  ASSUME NEW lines, IsFile(lines), NEW s, NEW k
  PROVE  SettingIn(lines, Len(lines), s, k) = Setting(lines, s, k)
<1>1. DOMAIN lines = 1 .. Len(lines)
  BY DEF IsFile
<1>2. {i \in DOMAIN lines : SectionOf(lines, i) = s /\ lines[i].k = k}
        = PlacesOf(lines, Len(lines), s, k)
  BY <1>1, Zenon DEF PlacesOf
<1>3. Setting(lines, s, k)
        = LastAt(lines, {i \in DOMAIN lines : SectionOf(lines, i) = s /\ lines[i].k = k})
  BY Zenon DEF Setting, LastAt
<1> QED BY <1>2, <1>3 DEF SettingIn

\* Another line changes only the setting it is about.
LEMMA OtherSetting ==
  ASSUME NEW lines, IsFile(lines), NEW n \in 0 .. Len(lines) - 1, NEW s, NEW k,
         s # SectionOf(lines, n + 1) \/ k # lines[n + 1].k
  PROVE  SettingIn(lines, n + 1, s, k) = SettingIn(lines, n, s, k)
<1>1. n \in Nat
  BY DEF IsFile
<1>2. PlacesOf(lines, n + 1, s, k) = PlacesOf(lines, n, s, k)
  BY <1>1 DEF PlacesOf
<1> QED BY <1>2 DEF SettingIn

LEMMA ThisSetting ==
  ASSUME NEW lines, IsFile(lines), NEW n \in 0 .. Len(lines) - 1,
         NEW s, s = SectionOf(lines, n + 1), NEW k, k = lines[n + 1].k
  PROVE  SettingIn(lines, n + 1, s, k) = lines[n + 1].v
<1>1. n \in Nat
  BY DEF IsFile
<1> DEFINE at == PlacesOf(lines, n + 1, s, k)
<1>2. n + 1 \in at /\ at \subseteq 1 .. n + 1
  BY <1>1 DEF PlacesOf
<1>3. \A i \in at : (\A j \in at : j <= i) <=> i = n + 1
  BY <1>1, <1>2
<1> HIDE DEF at
<1>4. (CHOOSE i \in at : \A j \in at : j <= i) = n + 1
  BY <1>2, <1>3
<1> QED BY <1>2, <1>4, Zenon DEF SettingIn, LastAt, at

\* A section not begun sets nothing, and one that is closed stays as it is.
LEMMA FutureSetting ==
  ASSUME NEW lines, IsFile(lines), NEW n \in 0 .. Len(lines), NEW s \in Nat,
         s > SectionOf(lines, n), NEW k
  PROVE  SettingIn(lines, n, s, k) = Unset
<1>1. PlacesOf(lines, n, s, k) = {}
  <2>1. ASSUME NEW i \in 1 .. n PROVE SectionOf(lines, i) # s
    <3>1. i \in 0 .. Len(lines) /\ i <= n
      BY DEF IsFile
    <3> QED BY <3>1, SectionsGrow
  <2> QED BY <2>1 DEF PlacesOf
<1> QED BY <1>1 DEF SettingIn, LastAt

LEMMA ClosedSetting ==
  ASSUME NEW lines, IsFile(lines), NEW n \in 0 .. Len(lines) - 1, lines[n + 1].k = "[",
         NEW k
  PROVE  SettingIn(lines, n, SectionOf(lines, n), k) = Setting(lines, SectionOf(lines, n), k)
<1>1. PICK N \in Nat : N = Len(lines) /\ DOMAIN lines = 1 .. N /\ n \in 0 .. N - 1
  BY DEF IsFile
<1>2. PICK s : s = SectionOf(lines, n)
  OBVIOUS
<1>3. s \in Nat /\ SectionOf(lines, n + 1) = s + 1
  BY <1>2, SectionSteps
<1>4. ASSUME NEW i \in 1 .. N, SectionOf(lines, i) = s PROVE i \in 1 .. n
  <2>1. CASE i > n
    <3>1. n + 1 \in 0 .. Len(lines) /\ i \in 0 .. Len(lines) /\ n + 1 <= i
      BY <1>1, <2>1
    <3>2. SectionOf(lines, n + 1) <= SectionOf(lines, i)
      BY <3>1, SectionsGrow
    <3> QED BY <1>3, <1>4, <3>2
  <2> QED BY <1>1, <2>1
<1>5. PlacesOf(lines, n, s, k) = PlacesOf(lines, N, s, k)
  BY <1>1, <1>4 DEF PlacesOf
<1>6. SettingIn(lines, n, s, k) = SettingIn(lines, N, s, k)
  BY <1>5 DEF SettingIn
<1> QED BY <1>1, <1>2, <1>6, WholeSetting

-----------------------------------------------------------------------------
(* What it says section by section: the staged peers are those of the      *)
(* sections that are closed, and wg_set_peer() adds the next one.          *)

KeyOf(lines, s) == Setting(lines, s, "PublicKey")

\* The last of some sections decides.
LastIn(lines, at, k) ==
  IF at = {} THEN Unset ELSE Setting(lines, CHOOSE s \in at : \A r \in at : r <= s, k)

\* The sections among the first t that set k for a peer.
SectionsThatSet(lines, t, key, k) ==
  {s \in 0 .. t - 1 : KeyOf(lines, s) = key /\ Setting(lines, s, k) # Unset}

LastBefore(lines, t, key, k) == LastIn(lines, SectionsThatSet(lines, t, key, k), k)

LEMMA LastBeforeAll ==
  ASSUME NEW lines, IsFile(lines), NEW key, NEW k
  PROVE  LastSetting(lines, key, k) = LastBefore(lines, SectionOf(lines, Len(lines)) + 1, key, k)
<1>1. PICK t \in Nat : t = SectionOf(lines, Len(lines))
  BY SectionSteps
<1>2. {s \in SectionsFor(lines, key) : Setting(lines, s, k) # Unset}
        = SectionsThatSet(lines, t + 1, key, k)
  BY <1>1 DEF SectionsFor, Sections, SectionsThatSet, KeyOf
<1>3. LastSetting(lines, key, k)
        = LastIn(lines, {s \in SectionsFor(lines, key) : Setting(lines, s, k) # Unset}, k)
  BY Zenon DEF LastSetting, LastIn
<1> QED BY <1>1, <1>2, <1>3 DEF LastBefore

LEMMA LastNext ==
  ASSUME NEW lines, NEW t \in Nat, NEW key, NEW k
  PROVE  LastBefore(lines, t + 1, key, k)
           = IF KeyOf(lines, t) = key
             THEN OrElse(Setting(lines, t, k), LastBefore(lines, t, key, k))
             ELSE LastBefore(lines, t, key, k)
<1>1. CASE KeyOf(lines, t) = key /\ Setting(lines, t, k) # Unset
  <2> DEFINE at == SectionsThatSet(lines, t + 1, key, k)
  <2>1. t \in at /\ at \subseteq 0 .. t
    BY <1>1 DEF SectionsThatSet
  <2>2. \A s \in at : (\A r \in at : r <= s) <=> s = t
    BY <2>1
  <2> HIDE DEF at
  <2>3. (CHOOSE s \in at : \A r \in at : r <= s) = t
    BY <2>1, <2>2
  <2>4. LastIn(lines, at, k) = Setting(lines, t, k)
    BY <2>1, <2>3, Zenon DEF LastIn
  <2> QED BY <1>1, <2>4 DEF LastBefore, OrElse, at
<1>2. CASE ~(KeyOf(lines, t) = key /\ Setting(lines, t, k) # Unset)
  <2>1. SectionsThatSet(lines, t + 1, key, k) = SectionsThatSet(lines, t, key, k)
    BY <1>2 DEF SectionsThatSet
  <2> QED BY <1>2, <2>1 DEF LastBefore, OrElse
<1> QED BY <1>1, <1>2

\* The peer is what the first t sections say of its key.
Says(lines, t, p) ==
  /\ \E r \in 0 .. t - 1 : KeyOf(lines, r) = p.public_key
  /\ p.endpoint = LastBefore(lines, t, p.public_key, "Endpoint")
  /\ p.allowed = OrElse(LastBefore(lines, t, p.public_key, "AllowedIPs"), KconfigAllowed)
  /\ p.keepalive = LastBefore(lines, t, p.public_key, "PersistentKeepalive")

\* The staged peers are those of the first t sections.
Staged(lines, t, ps) ==
  /\ ps \in PeerLists
  /\ \A i \in DOMAIN ps : Says(lines, t, ps[i])
  /\ \A r \in 0 .. t - 1 : KeyOf(lines, r) # Unset =>
       \E i \in DOMAIN ps : ps[i].public_key = KeyOf(lines, r)

LEMMA SaysNext ==
  ASSUME NEW lines, NEW t \in Nat, NEW p, Says(lines, t, p), KeyOf(lines, t) # p.public_key
  PROVE  Says(lines, t + 1, p)
<1>1. \A k : LastBefore(lines, t + 1, p.public_key, k) = LastBefore(lines, t, p.public_key, k)
  BY LastNext
<1>2. \E r \in 0 .. (t + 1) - 1 : KeyOf(lines, r) = p.public_key
  BY DEF Says
<1> QED BY <1>1, <1>2 DEF Says

LEMMA OverlayFields ==
  ASSUME NEW p \in StagedPeers, NEW endpoint, NEW allowed, NEW keepalive,
         NEW q, q = Overlay(p, endpoint, allowed, keepalive)
  PROVE  /\ q.public_key = p.public_key /\ q.endpoint = OrElse(endpoint, p.endpoint)
         /\ q.allowed = OrElse(allowed, p.allowed)
         /\ q.keepalive = OrElse(keepalive, p.keepalive)
BY DEF Overlay, StagedPeers

LEMMA SaysOverlay ==
  ASSUME NEW lines, NEW t \in Nat, NEW p \in StagedPeers, KeyOf(lines, t) = p.public_key,
         p.endpoint = LastBefore(lines, t, p.public_key, "Endpoint"),
         p.allowed = OrElse(LastBefore(lines, t, p.public_key, "AllowedIPs"), KconfigAllowed),
         p.keepalive = LastBefore(lines, t, p.public_key, "PersistentKeepalive"),
         NEW q, q = Overlay(p, Setting(lines, t, "Endpoint"), Setting(lines, t, "AllowedIPs"),
                            Setting(lines, t, "PersistentKeepalive"))
  PROVE  Says(lines, t + 1, q)
<1>1. \A k : LastBefore(lines, t + 1, p.public_key, k)
               = OrElse(Setting(lines, t, k), LastBefore(lines, t, p.public_key, k))
  BY LastNext
<1>2. /\ q.public_key = p.public_key
      /\ q.endpoint = OrElse(Setting(lines, t, "Endpoint"), p.endpoint)
      /\ q.allowed = OrElse(Setting(lines, t, "AllowedIPs"), p.allowed)
      /\ q.keepalive = OrElse(Setting(lines, t, "PersistentKeepalive"), p.keepalive)
  BY OverlayFields
<1>3. \E r \in 0 .. (t + 1) - 1 : KeyOf(lines, r) = q.public_key
  BY <1>2
<1>4. \A x, y, z : OrElse(x, OrElse(y, z)) = OrElse(OrElse(x, y), z)
  BY DEF OrElse
<1> QED BY <1>1, <1>2, <1>3, <1>4 DEF Says

\* wg_set_peer() when it succeeds: the peer is new, or it is overlaid.
SetOk(ps, key, endpoint, allowed, keepalive, after) ==
  /\ key \in PublicKeys
  /\ \/ /\ \A j \in DOMAIN ps : ps[j].public_key # key
        /\ Len(ps) < MaxPeers
        /\ Overlay(NewPeer(key), endpoint, allowed, keepalive) \in StagedPeers
        /\ after = Append(ps, Overlay(NewPeer(key), endpoint, allowed, keepalive))
     \/ \E i \in DOMAIN ps :
          /\ ps[i].public_key = key
          /\ Overlay(ps[i], endpoint, allowed, keepalive) \in StagedPeers
          /\ after = [ps EXCEPT ![i] = Overlay(ps[i], endpoint, allowed, keepalive)]

LEMMA SetPeerOk ==
  ASSUME NEW ps \in PeerLists, NEW key \in PublicKeys \cup {Malformed},
         NEW endpoint \in Endpoints \cup {Unset, Malformed},
         NEW allowed \in AllowedIPs \cup {KconfigAllowed, Unset, Malformed},
         NEW keepalive \in Keepalives \cup {KconfigKeepalive, Unset},
         NEW r, r = wg_set_peer(ps, key, endpoint, allowed, keepalive), r.ret = "OK"
  PROVE  SetOk(ps, key, endpoint, allowed, keepalive, r.peers)
<1> DEFINE i == IndexOf(ps, key)
           p == IF i # 0 THEN ps[i] ELSE NewPeer(key)
           tmp == Overlay(p, endpoint, allowed, keepalive)
<1>1. \/ i = 0 /\ \A j \in DOMAIN ps : ps[j].public_key # key
      \/ i \in DOMAIN ps /\ ps[i].public_key = key
  BY IndexOfKey
<1>2. /\ ps \in Seq(StagedPeers) /\ Len(ps) \in Nat /\ DOMAIN ps = 1 .. Len(ps)
  BY DEF PeerLists
<1>3. ASSUME key # Malformed PROVE p \in StagedPeers /\ p.public_key = key
  <2>1. CASE i = 0
    BY <1>3, <2>1, NewPeerType
  <2>2. CASE i # 0
    BY <1>1, <1>2, <2>2, ElementOfSeq
  <2> QED BY <2>1, <2>2
<1>4. p = IF i # 0 THEN ps[i] ELSE NewPeer(key)
  OBVIOUS
<1> HIDE DEF p
<1>5. ASSUME key # Malformed, Malformed \notin {endpoint, allowed}
      PROVE  tmp \in StagedPeers
  BY <1>3, <1>5, OverlayType
<1>6. tmp = Overlay(p, endpoint, allowed, keepalive)
  OBVIOUS
<1> HIDE DEF i, tmp
<1>7. r = IF key = Malformed THEN [ret |-> "EINVAL", peers |-> ps]
      ELSE IF i = 0 /\ Len(ps) >= MaxPeers THEN [ret |-> "ENOSPC", peers |-> ps]
      ELSE IF Malformed \in {endpoint, allowed} THEN [ret |-> "EINVAL", peers |-> ps]
      ELSE [ret |-> "OK",
            peers |-> IF i # 0 THEN [ps EXCEPT ![i] = tmp] ELSE Append(ps, tmp)]
  BY Zenon DEF wg_set_peer, i, p, tmp
<1>8. /\ key # Malformed /\ ~(i = 0 /\ Len(ps) >= MaxPeers)
      /\ Malformed \notin {endpoint, allowed}
      /\ r.peers = IF i # 0 THEN [ps EXCEPT ![i] = tmp] ELSE Append(ps, tmp)
  BY <1>7
<1>9. tmp \in StagedPeers
  BY <1>5, <1>8
<1>10. CASE i = 0
  <2>1. Len(ps) < MaxPeers
    BY <1>2, <1>8, <1>10, KconfigAssumption
  <2>2. tmp = Overlay(NewPeer(key), endpoint, allowed, keepalive)
    BY <1>4, <1>6, <1>10
  <2>3. \A j \in DOMAIN ps : ps[j].public_key # key
    BY <1>1, <1>2, <1>10
  <2>4. r.peers = Append(ps, tmp)
    BY <1>8, <1>10
  <2> QED BY <1>8, <1>9, <2>1, <2>2, <2>3, <2>4 DEF SetOk
<1>11. CASE i # 0
  <2>1. i \in DOMAIN ps /\ ps[i].public_key = key
    BY <1>1, <1>11
  <2>2. tmp = Overlay(ps[i], endpoint, allowed, keepalive)
    BY <1>4, <1>6, <1>11
  <2>3. r.peers = [ps EXCEPT ![i] = tmp]
    BY <1>8, <1>11
  <2> QED BY <1>8, <1>9, <2>1, <2>2, <2>3 DEF SetOk
<1> QED BY <1>10, <1>11

LEMMA StagedNext ==
  ASSUME NEW lines, NEW t \in Nat, NEW ps, Staged(lines, t, ps),
         NEW key \in PublicKeys \cup {Malformed}, key = KeyOf(lines, t),
         NEW e \in Endpoints \cup {Unset, Malformed}, e = Setting(lines, t, "Endpoint"),
         NEW a \in AllowedIPs \cup {KconfigAllowed, Unset, Malformed},
         a = Setting(lines, t, "AllowedIPs"),
         NEW k \in Keepalives \cup {KconfigKeepalive, Unset},
         k = Setting(lines, t, "PersistentKeepalive"),
         NEW r, r = wg_set_peer(ps, key, e, a, k), r.ret = "OK"
  PROVE  Staged(lines, t + 1, r.peers)
<1>1. ps \in PeerLists /\ \A i \in DOMAIN ps : Says(lines, t, ps[i])
  BY DEF Staged
<1>2. PICK N \in Nat : N = Len(ps) /\ DOMAIN ps = 1 .. N /\ ps \in Seq(StagedPeers) /\ Distinct(ps)
  BY <1>1 DEF PeerLists
<1>3. \A x \in 0 .. (t + 1) - 1 : x \in 0 .. t - 1 \/ x = t
  OBVIOUS
<1>4. /\ key \in PublicKeys
      /\ \/ /\ \A j \in DOMAIN ps : ps[j].public_key # key
            /\ Len(ps) < MaxPeers
            /\ Overlay(NewPeer(key), e, a, k) \in StagedPeers
            /\ r.peers = Append(ps, Overlay(NewPeer(key), e, a, k))
         \/ \E i \in DOMAIN ps :
              /\ ps[i].public_key = key
              /\ Overlay(ps[i], e, a, k) \in StagedPeers
              /\ r.peers = [ps EXCEPT ![i] = Overlay(ps[i], e, a, k)]
  <2>1. SetOk(ps, key, e, a, k, r.peers)
    BY <1>1, SetPeerOk
  <2> QED BY <2>1 DEF SetOk
<1>5. key # Unset
  BY <1>4, TextAssumption
<1>6. CASE /\ \A j \in DOMAIN ps : ps[j].public_key # key
           /\ Len(ps) < MaxPeers
           /\ Overlay(NewPeer(key), e, a, k) \in StagedPeers
           /\ r.peers = Append(ps, Overlay(NewPeer(key), e, a, k))
  <2>1. PICK p : p = NewPeer(key)
    OBVIOUS
  <2>2. /\ p \in StagedPeers /\ p.public_key = key /\ p.endpoint = Unset
        /\ p.allowed = KconfigAllowed /\ p.keepalive = Unset
    BY <1>4, <2>1, NewPeerType DEF NewPeer
  <2>3. \A x : LastBefore(lines, t, key, x) = Unset
    <3>1. \A s \in 0 .. t - 1 : KeyOf(lines, s) # key
      BY <1>5, <1>6 DEF Staged
    <3>2. \A x : SectionsThatSet(lines, t, key, x) = {}
      BY <3>1 DEF SectionsThatSet
    <3> QED BY <3>2 DEF LastBefore, LastIn
  <2>4. PICK q : q = Overlay(p, e, a, k)
    OBVIOUS
  <2>5. OrElse(Unset, KconfigAllowed) = KconfigAllowed
    BY DEF OrElse
  <2>6. Says(lines, t + 1, q)
    BY <2>2, <2>3, <2>4, <2>5, SaysOverlay
  <2>7. q \in StagedPeers /\ q.public_key = key
    BY <1>6, <2>1, <2>2, <2>4, OverlayFields
  <2>8. PICK qs : qs = Append(ps, q)
    OBVIOUS
  <2>9. /\ qs \in PeerLists /\ DOMAIN qs = 1 .. N + 1
        /\ \A i \in 1 .. N : qs[i] = ps[i]
        /\ qs[N + 1] = q
    BY <1>1, <1>2, <1>6, <2>7, <2>8, AppendPeer
  <2>10. \A i \in 1 .. N : Says(lines, t + 1, ps[i])
    BY <1>1, <1>2, <1>6, SaysNext
  <2>11. \A i \in DOMAIN qs : Says(lines, t + 1, qs[i])
    <3>1. \A i \in DOMAIN qs : i \in 1 .. N \/ i = N + 1
      BY <2>9
    <3> QED BY <2>6, <2>9, <2>10, <3>1
  <2>12. ASSUME NEW x \in 0 .. (t + 1) - 1, KeyOf(lines, x) # Unset
         PROVE  \E i \in DOMAIN qs : qs[i].public_key = KeyOf(lines, x)
    <3>1. CASE x = t
      BY <2>7, <2>9, <3>1
    <3>2. CASE x \in 0 .. t - 1
      <4>1. PICK i \in DOMAIN ps : ps[i].public_key = KeyOf(lines, x)
        BY <2>12, <3>2 DEF Staged
      <4> QED BY <1>2, <2>9, <4>1
    <3> QED BY <1>3, <3>1, <3>2
  <2>13. r.peers = qs
    BY <1>6, <2>1, <2>4, <2>8
  <2> QED BY ONLY <2>9, <2>11, <2>12, <2>13 DEF Staged
<1>7. ASSUME NEW i \in DOMAIN ps, ps[i].public_key = key,
             Overlay(ps[i], e, a, k) \in StagedPeers,
             r.peers = [ps EXCEPT ![i] = Overlay(ps[i], e, a, k)]
      PROVE  Staged(lines, t + 1, r.peers)
  <2>1. PICK p : p = ps[i]
    OBVIOUS
  <2>2. p \in StagedPeers /\ p.public_key = key /\ Says(lines, t, p)
    BY <1>1, <1>2, <1>7, <2>1
  <2>3. PICK q : q = Overlay(p, e, a, k)
    OBVIOUS
  <2>4. Says(lines, t + 1, q)
    <3>1. /\ p.endpoint = LastBefore(lines, t, p.public_key, "Endpoint")
          /\ p.allowed = OrElse(LastBefore(lines, t, p.public_key, "AllowedIPs"), KconfigAllowed)
          /\ p.keepalive = LastBefore(lines, t, p.public_key, "PersistentKeepalive")
      BY <2>2 DEF Says
    <3> QED BY <2>2, <2>3, <3>1, SaysOverlay
  <2>5. q \in StagedPeers /\ q.public_key = key
    BY <1>7, <2>1, <2>2, <2>3, OverlayFields
  <2>6. PICK qs : qs = [ps EXCEPT ![i] = q]
    OBVIOUS
  <2>7. qs \in PeerLists
    BY <1>1, <1>7, <2>5, <2>6, ReplacePeer
  <2>8. DOMAIN qs = DOMAIN ps /\ \A j \in DOMAIN ps : qs[j] = IF j = i THEN q ELSE ps[j]
    BY <1>2, <1>7, <2>6
  <2>9. \A j \in DOMAIN qs : Says(lines, t + 1, qs[j])
    <3> TAKE j \in DOMAIN qs
    <3>1. CASE j = i
      BY <2>4, <2>8, <3>1
    <3>2. CASE j # i
      <4>1. ps[j].public_key # key
        BY <1>2, <1>7, <2>8, <3>2 DEF Distinct
      <4> QED BY <1>1, <2>8, <3>2, <4>1, SaysNext
    <3> QED BY <3>1, <3>2
  <2>10. \A j \in DOMAIN qs : qs[j].public_key = ps[j].public_key
    BY <1>7, <2>5, <2>8
  <2>11. ASSUME NEW x \in 0 .. (t + 1) - 1, KeyOf(lines, x) # Unset
         PROVE  \E j \in DOMAIN qs : qs[j].public_key = KeyOf(lines, x)
    <3>1. CASE x = t
      BY <1>7, <2>8, <2>10, <3>1
    <3>2. CASE x \in 0 .. t - 1
      <4>1. PICK j \in DOMAIN ps : ps[j].public_key = KeyOf(lines, x)
        BY <2>11, <3>2 DEF Staged
      <4> QED BY <2>8, <2>10, <4>1
    <3> QED BY <1>3, <3>1, <3>2
  <2>12. r.peers = qs
    BY <1>7, <2>1, <2>3, <2>6
  <2> QED BY ONLY <2>7, <2>9, <2>11, <2>12 DEF Staged
<1> QED BY <1>4, <1>6, <1>7

LEMMA StagedSame ==
  ASSUME NEW lines, NEW t \in Nat, NEW ps, Staged(lines, t, ps), KeyOf(lines, t) = Unset
  PROVE  Staged(lines, t + 1, ps)
<1>1. /\ ps \in PeerLists /\ \A i \in DOMAIN ps : Says(lines, t, ps[i])
      /\ \A r \in 0 .. t - 1 : KeyOf(lines, r) # Unset =>
           \E i \in DOMAIN ps : ps[i].public_key = KeyOf(lines, r)
  BY DEF Staged
<1>2. \A i \in DOMAIN ps : ps[i].public_key # Unset
  <2>1. \A i \in DOMAIN ps : ps[i] \in StagedPeers
    BY <1>1 DEF PeerLists
  <2>2. \A p \in StagedPeers : p.public_key # Unset
    BY TextAssumption DEF StagedPeers
  <2> QED BY <2>1, <2>2
<1>3. \A i \in DOMAIN ps : Says(lines, t + 1, ps[i])
  BY <1>1, <1>2, SaysNext
<1>4. \A x \in 0 .. (t + 1) - 1 : x \in 0 .. t - 1 \/ x = t
  OBVIOUS
<1> QED BY <1>1, <1>3, <1>4 DEF Staged

-----------------------------------------------------------------------------
(* The parser of wg_setconf() agrees: its accumulator is the open section, *)
(* and its peers are the closed ones.                                      *)

\* The accumulator holds what the open section has set so far,
AccIs(lines, n, acc) ==
  /\ acc.PublicKey = SettingIn(lines, n, SectionOf(lines, n), "PublicKey")
  /\ acc.Endpoint = SettingIn(lines, n, SectionOf(lines, n), "Endpoint")
  /\ acc.AllowedIPs = SettingIn(lines, n, SectionOf(lines, n), "AllowedIPs")
  /\ acc.PersistentKeepalive = SettingIn(lines, n, SectionOf(lines, n), "PersistentKeepalive")

\* and what the whole section sets, when that is closed.
AccIsAll(lines, t, acc) ==
  /\ acc.PublicKey = Setting(lines, t, "PublicKey")
  /\ acc.Endpoint = Setting(lines, t, "Endpoint")
  /\ acc.AllowedIPs = Setting(lines, t, "AllowedIPs")
  /\ acc.PersistentKeepalive = Setting(lines, t, "PersistentKeepalive")

\* The parser after n lines.
Parsed(lines, n, st) ==
  /\ st \in ParserStates
  /\ st.ret = "OK" => /\ AccIs(lines, n, st.acc)
                      /\ Staged(lines, SectionOf(lines, n), st.peers)

LEMMA SettingNext ==
  ASSUME NEW lines, IsFile(lines), NEW n \in 0 .. Len(lines) - 1, NEW k, k # "["
  PROVE  SettingIn(lines, n + 1, SectionOf(lines, n + 1), k)
           = IF lines[n + 1].k = "[" THEN Unset
             ELSE IF lines[n + 1].k = k THEN lines[n + 1].v
             ELSE SettingIn(lines, n, SectionOf(lines, n), k)
<1>1. PICK s \in Nat : s = SectionOf(lines, n)
  BY SectionSteps
<1>2. PICK u : u = SectionOf(lines, n + 1)
  OBVIOUS
<1>3. u = IF lines[n + 1].k = "[" THEN s + 1 ELSE s
  BY <1>1, <1>2, SectionSteps
<1>4. CASE lines[n + 1].k = "["
  <2>1. n \in 0 .. Len(lines) /\ u \in Nat /\ u > SectionOf(lines, n)
    BY <1>1, <1>3, <1>4 DEF IsFile
  <2>2. SettingIn(lines, n, u, k) = Unset
    BY <2>1, FutureSetting
  <2>3. SettingIn(lines, n + 1, u, k) = SettingIn(lines, n, u, k)
    BY <1>4, OtherSetting
  <2> QED BY <1>2, <1>4, <2>2, <2>3
<1>5. CASE lines[n + 1].k = k
  <2>1. SettingIn(lines, n + 1, u, k) = lines[n + 1].v
    BY <1>2, <1>5, ThisSetting
  <2> QED BY <1>2, <1>5, <2>1
<1>6. CASE lines[n + 1].k # k /\ lines[n + 1].k # "["
  <2>1. SettingIn(lines, n + 1, u, k) = SettingIn(lines, n, u, k)
    BY <1>6, OtherSetting
  <2> QED BY <1>1, <1>2, <1>3, <1>6, <2>1
<1> QED BY <1>4, <1>5, <1>6

LEMMA AccHeader ==
  ASSUME NEW lines, IsFile(lines), NEW n \in 0 .. Len(lines) - 1, lines[n + 1].k = "["
  PROVE  AccIs(lines, n + 1, EmptySection)
<1>1. \A k : k # "[" => SettingIn(lines, n + 1, SectionOf(lines, n + 1), k) = Unset
  BY SettingNext
<1> QED BY <1>1 DEF AccIs, EmptySection

LEMMA AccLine ==
  ASSUME NEW lines, IsFile(lines), NEW n \in 0 .. Len(lines) - 1, lines[n + 1].k # "[",
         NEW acc \in Accumulators, AccIs(lines, n, acc)
  PROVE  /\ lines[n + 1].k \notin Settings => AccIs(lines, n + 1, acc)
         /\ lines[n + 1].k = "PublicKey" =>
              AccIs(lines, n + 1, [acc EXCEPT !.PublicKey = lines[n + 1].v])
         /\ lines[n + 1].k = "Endpoint" =>
              AccIs(lines, n + 1, [acc EXCEPT !.Endpoint = lines[n + 1].v])
         /\ lines[n + 1].k = "AllowedIPs" =>
              AccIs(lines, n + 1, [acc EXCEPT !.AllowedIPs = lines[n + 1].v])
         /\ lines[n + 1].k = "PersistentKeepalive" =>
              AccIs(lines, n + 1, [acc EXCEPT !.PersistentKeepalive = lines[n + 1].v])
<1>1. \A k : k # "[" =>
        SettingIn(lines, n + 1, SectionOf(lines, n + 1), k)
          = IF lines[n + 1].k = k THEN lines[n + 1].v
            ELSE SettingIn(lines, n, SectionOf(lines, n), k)
  BY SettingNext
<1>2. CASE lines[n + 1].k \notin Settings
  BY <1>1, <1>2 DEF AccIs, Settings
<1>3. CASE lines[n + 1].k = "PublicKey"
  BY <1>1, <1>3 DEF AccIs, Settings, Accumulators
<1>4. CASE lines[n + 1].k = "Endpoint"
  BY <1>1, <1>4 DEF AccIs, Settings, Accumulators
<1>5. CASE lines[n + 1].k = "AllowedIPs"
  BY <1>1, <1>5 DEF AccIs, Settings, Accumulators
<1>6. CASE lines[n + 1].k = "PersistentKeepalive"
  BY <1>1, <1>6 DEF AccIs, Settings, Accumulators
<1> QED BY <1>2, <1>3, <1>4, <1>5, <1>6 DEF Settings

LEMMA FlushStages ==
  ASSUME NEW lines, NEW t \in Nat, NEW st \in ParserStates,
         AccIsAll(lines, t, st.acc), Staged(lines, t, st.peers),
         NEW s, s = wg_conf_flush_peer(st), s.ret = "OK"
  PROVE  s.acc = EmptySection /\ Staged(lines, t + 1, s.peers)
<1>1. PICK a \in Accumulators : a = st.acc
  BY DEF ParserStates
<1>2. /\ a.PublicKey = KeyOf(lines, t) /\ a.Endpoint = Setting(lines, t, "Endpoint")
      /\ a.AllowedIPs = Setting(lines, t, "AllowedIPs")
      /\ a.PersistentKeepalive = Setting(lines, t, "PersistentKeepalive")
  BY <1>1 DEF AccIsAll, KeyOf
<1>3. CASE a.PublicKey = Unset
  <2>1. s = [st EXCEPT !.acc = EmptySection]
    BY <1>1, <1>3 DEF wg_conf_flush_peer
  <2>2. s.acc = EmptySection /\ s.peers = st.peers
    BY <2>1 DEF ParserStates
  <2>3. Staged(lines, t + 1, st.peers)
    BY <1>2, <1>3, StagedSame
  <2> QED BY <2>2, <2>3
<1>4. CASE a.PublicKey # Unset
  <2>1. PICK r : r = wg_set_peer(st.peers, a.PublicKey, a.Endpoint, a.AllowedIPs,
                                 a.PersistentKeepalive)
    OBVIOUS
  <2>2. s = [st EXCEPT !.acc = EmptySection, !.ret = r.ret, !.peers = r.peers]
    BY <1>1, <1>4, <2>1 DEF wg_conf_flush_peer
  <2>3. s.acc = EmptySection /\ s.ret = r.ret /\ s.peers = r.peers
    BY <2>2 DEF ParserStates
  <2>4. /\ a.PublicKey \in PublicKeys \cup {Malformed}
        /\ a.Endpoint \in Endpoints \cup {Unset, Malformed}
        /\ a.AllowedIPs \in AllowedIPs \cup {KconfigAllowed, Unset, Malformed}
        /\ a.PersistentKeepalive \in Keepalives \cup {KconfigKeepalive, Unset}
    BY <1>4 DEF Accumulators
  <2>5. r.ret = "OK"
    BY <2>3
  <2>6. Staged(lines, t + 1, r.peers)
    BY <1>2, <2>1, <2>4, <2>5, StagedNext
  <2> QED BY <2>3, <2>6
<1> QED BY <1>3, <1>4

LEMMA ParsedNext ==
  ASSUME NEW lines, IsFile(lines), NEW n \in 0 .. Len(lines) - 1, NEW st, Parsed(lines, n, st)
  PROVE  Parsed(lines, n + 1, ReadLine(st, lines[n + 1]))
<1>1. PICK line : line = lines[n + 1]
  OBVIOUS
<1>2. IsLine(line)
  BY <1>1 DEF IsFile
<1>3. st \in ParserStates
  BY DEF Parsed
<1>4. PICK s \in ParserStates : s = ReadLine(st, line)
  BY <1>2, <1>3, ReadLineType
<1>5. PICK t \in Nat : t = SectionOf(lines, n)
  BY SectionSteps
<1>6. SectionOf(lines, n + 1) = IF line.k = "[" THEN t + 1 ELSE t
  BY <1>1, <1>5, SectionSteps
<1>7. SUFFICES ASSUME s.ret = "OK"
               PROVE  AccIs(lines, n + 1, s.acc) /\ Staged(lines, SectionOf(lines, n + 1), s.peers)
  BY <1>1, <1>4 DEF Parsed
<1>8. CASE st.ret # "OK"
  BY <1>4, <1>7, <1>8 DEF ReadLine
<1>9. CASE st.ret = "OK"
  <2>1. st.acc \in Accumulators /\ AccIs(lines, n, st.acc) /\ Staged(lines, t, st.peers)
    BY <1>5, <1>9 DEF Parsed, ParserStates
  <2>2. CASE line.k = "["
    <3>1. \A k : SettingIn(lines, n, t, k) = Setting(lines, t, k)
      BY <1>1, <1>5, <2>2, ClosedSetting
    <3>2. AccIsAll(lines, t, st.acc)
      BY <1>5, <2>1, <3>1 DEF AccIs, AccIsAll
    <3>3. s = wg_conf_flush_peer(st)
      BY <1>4, <1>9, <2>2 DEF ReadLine
    <3>4. s.acc = EmptySection /\ Staged(lines, t + 1, s.peers)
      BY <1>3, <1>7, <2>1, <3>2, <3>3, FlushStages
    <3> QED BY <1>1, <1>6, <2>2, <3>4, AccHeader
  <2>3. CASE line.k \notin Settings \cup {"["}
    <3>1. s.acc = st.acc /\ s.peers = st.peers
      BY <1>3, <1>4, <1>7, <1>9, <2>3 DEF ReadLine, EmptySection, Settings, ParserStates
    <3>2. AccIs(lines, n + 1, st.acc)
      BY <1>1, <2>1, <2>3, AccLine
    <3> QED BY <1>6, <2>1, <2>3, <3>1, <3>2
  <2>4. ASSUME line.k \in Settings
        PROVE  s = [st EXCEPT !.acc[line.k] = line.v]
    BY <1>4, <1>9, <2>4 DEF ReadLine, EmptySection, Settings
  <2>5. ASSUME line.k \in Settings
        PROVE  s.peers = st.peers /\ Staged(lines, SectionOf(lines, n + 1), s.peers)
    BY <1>3, <1>6, <2>1, <2>4, <2>5 DEF Settings, ParserStates
  <2>6. CASE line.k = "PublicKey"
    <3>1. s.acc = [st.acc EXCEPT !.PublicKey = line.v]
      BY <1>3, <2>4, <2>6 DEF Settings, ParserStates
    <3>2. AccIs(lines, n + 1, [st.acc EXCEPT !.PublicKey = line.v])
      BY <1>1, <2>1, <2>6, AccLine
    <3> QED BY <2>5, <2>6, <3>1, <3>2 DEF Settings
  <2>7. CASE line.k = "Endpoint"
    <3>1. s.acc = [st.acc EXCEPT !.Endpoint = line.v]
      BY <1>3, <2>4, <2>7 DEF Settings, ParserStates
    <3>2. AccIs(lines, n + 1, [st.acc EXCEPT !.Endpoint = line.v])
      BY <1>1, <2>1, <2>7, AccLine
    <3> QED BY <2>5, <2>7, <3>1, <3>2 DEF Settings
  <2>8. CASE line.k = "AllowedIPs"
    <3>1. s.acc = [st.acc EXCEPT !.AllowedIPs = line.v]
      BY <1>3, <2>4, <2>8 DEF Settings, ParserStates
    <3>2. AccIs(lines, n + 1, [st.acc EXCEPT !.AllowedIPs = line.v])
      BY <1>1, <2>1, <2>8, AccLine
    <3> QED BY <2>5, <2>8, <3>1, <3>2 DEF Settings
  <2>9. CASE line.k = "PersistentKeepalive"
    <3>1. s.acc = [st.acc EXCEPT !.PersistentKeepalive = line.v]
      BY <1>3, <2>4, <2>9 DEF Settings, ParserStates
    <3>2. AccIs(lines, n + 1, [st.acc EXCEPT !.PersistentKeepalive = line.v])
      BY <1>1, <2>1, <2>9, AccLine
    <3> QED BY <2>5, <2>9, <3>1, <3>2 DEF Settings
  <2> QED BY <2>2, <2>3, <2>6, <2>7, <2>8, <2>9 DEF Settings
<1> QED BY <1>8, <1>9

LEMMA SetconfStages ==
  ASSUME NEW lines, IsFile(lines), NEW key \in PrivateKeys \cup {Unset},
         NEW r, r = Setconf(key, lines), r.ret = "OK"
  PROVE  Staged(lines, SectionOf(lines, Len(lines)) + 1, r.peers)
<1>1. PICK N \in Nat : N = Len(lines)
  BY DEF IsFile
<1>2. PICK start : start = [private_key |-> key, peers |-> <<>>, acc |-> EmptySection, ret |-> "OK"]
  OBVIOUS
<1>3. Parsed(lines, 0, start)
  <2>1. start \in ParserStates
    BY <1>2, NoPeers DEF ParserStates, EmptySection, Accumulators, Results
  <2>2. SectionOf(lines, 0) = 0
    BY SectionSteps
  <2>3. \A k : SettingIn(lines, 0, 0, k) = Unset
    <3>1. \A k : PlacesOf(lines, 0, 0, k) = {}
      BY DEF PlacesOf
    <3> QED BY <3>1 DEF SettingIn, LastAt
  <2>4. AccIs(lines, 0, EmptySection)
    BY <2>2, <2>3 DEF AccIs, EmptySection
  <2>5. Staged(lines, 0, <<>>)
    <3>1. <<>> \in PeerLists /\ DOMAIN <<>> = {} /\ 0 .. 0 - 1 = {}
      BY NoPeers
    <3> QED BY <3>1 DEF Staged
  <2>6. start.acc = EmptySection /\ start.peers = <<>>
    BY <1>2
  <2> QED BY <2>1, <2>2, <2>4, <2>5, <2>6 DEF Parsed
<1>4. PICK f : Reads(start, lines, N, f) /\ ReadAll(start, lines) = f[N]
  BY <1>1, ReadAllReads
<1> DEFINE T == {n \in 0 .. N : Parsed(lines, n, f[n])}
<1>5. 0 \in T
  BY <1>3, <1>4 DEF Reads
<1>6. ASSUME NEW n \in 0 .. N - 1, n \in T PROVE n + 1 \in T
  <2>1. f[n + 1] = ReadLine(f[n], lines[n + 1])
    BY <1>4 DEF Reads
  <2> QED BY <1>1, <1>6, <2>1, ParsedNext
<1> HIDE DEF T
<1>7. \A n \in 0 .. N : n \in T
  BY <1>5, <1>6, Induction
<1>8. N \in T
  BY <1>7
<1>9. PICK st \in ParserStates : st = f[N] /\ Parsed(lines, N, st)
  BY <1>8 DEF T, Parsed
<1>10. ReadAll([private_key |-> key, peers |-> <<>>, acc |-> EmptySection, ret |-> "OK"], lines) = st
  BY <1>2, <1>4, <1>9
<1>11. PICK end : end = IF st.ret = "OK" THEN wg_conf_flush_peer(st) ELSE st
  OBVIOUS
<1>12. r = [ret |-> end.ret, private_key |-> end.private_key,
            peers |-> IF end.ret = "OK" THEN end.peers ELSE <<>>]
  BY <1>10, <1>11 DEF Setconf
<1>13. end.ret = "OK" /\ r.peers = end.peers
  BY <1>12
<1>14. st.ret = "OK" /\ end = wg_conf_flush_peer(st)
  BY <1>11, <1>13
<1>15. PICK t \in Nat : t = SectionOf(lines, N)
  BY <1>1, SectionSteps
<1>16. \A k : SettingIn(lines, N, t, k) = Setting(lines, t, k)
  BY <1>1, WholeSetting
<1>17. AccIsAll(lines, t, st.acc) /\ Staged(lines, t, st.peers)
  BY <1>9, <1>14, <1>15, <1>16 DEF Parsed, AccIs, AccIsAll
<1>18. Staged(lines, t + 1, end.peers)
  BY <1>13, <1>14, <1>17, FlushStages
<1> QED BY <1>1, <1>13, <1>15, <1>18

\* What LoadFaithful asks of the peers ps after a load of the lines ls.
LoadedAs(ls, ps) ==
  /\ Len(ps) = Cardinality(KeysNamed(ls))
  /\ \A key \in KeysNamed(ls) : \E i \in DOMAIN ps :
       ps[i] = [public_key |-> key,
                endpoint |-> LastSetting(ls, key, "Endpoint"),
                allowed |-> OrElse(LastSetting(ls, key, "AllowedIPs"), KconfigAllowed),
                keepalive |-> LastSetting(ls, key, "PersistentKeepalive")]

LEMMA StagedIsLoaded ==
  ASSUME NEW lines, IsFile(lines), NEW ps,
         Staged(lines, SectionOf(lines, Len(lines)) + 1, ps)
  PROVE  LoadedAs(lines, ps)
<1>1. PICK t \in Nat : t = SectionOf(lines, Len(lines))
  BY SectionSteps
<1>2. Staged(lines, t + 1, ps)
  BY <1>1
<1>3. PICK N \in Nat : N = Len(ps) /\ DOMAIN ps = 1 .. N /\ ps \in Seq(StagedPeers) /\ Distinct(ps)
  BY <1>2 DEF Staged, PeerLists
<1>4. (t + 1) - 1 = t
  OBVIOUS
<1>5. \A key : SectionsFor(lines, key) = {s \in 0 .. t : KeyOf(lines, s) = key}
  BY <1>1 DEF SectionsFor, Sections, KeyOf
<1>6. ASSUME NEW key \in KeysNamed(lines)
      PROVE  key \in PublicKeys /\ \E i \in DOMAIN ps : ps[i].public_key = key
  <2>1. key \in PublicKeys /\ SectionsFor(lines, key) # {}
    BY DEF KeysNamed
  <2>2. PICK s \in 0 .. t : KeyOf(lines, s) = key
    BY <1>5, <2>1
  <2>3. key # Unset
    BY <2>1, TextAssumption
  <2> QED BY <1>2, <1>4, <2>1, <2>2, <2>3 DEF Staged
<1>7. ASSUME NEW i \in DOMAIN ps
      PROVE  ps[i] \in StagedPeers /\ Says(lines, t + 1, ps[i]) /\ ps[i].public_key \in KeysNamed(lines)
  <2>1. ps[i] \in StagedPeers /\ Says(lines, t + 1, ps[i])
    BY <1>2, <1>3 DEF Staged
  <2>2. PICK s \in 0 .. t : KeyOf(lines, s) = ps[i].public_key
    BY <1>4, <2>1 DEF Says
  <2>3. ps[i].public_key \in PublicKeys
    BY <2>1 DEF StagedPeers
  <2>4. s \in SectionsFor(lines, ps[i].public_key)
    BY <1>5, <2>2
  <2> QED BY <2>1, <2>3, <2>4 DEF KeysNamed
<1>8. Cardinality(KeysNamed(lines)) = N
  <2> DEFINE g == [i \in 1 .. N |-> ps[i].public_key]
  <2>1. g \in Bijection(1 .. N, KeysNamed(lines))
    <3>1. g \in [1 .. N -> KeysNamed(lines)]
      BY <1>3, <1>7
    <3>2. \A i, j \in 1 .. N : g[i] = g[j] => i = j
      BY <1>3 DEF Distinct
    <3>3. \A key \in KeysNamed(lines) : \E i \in 1 .. N : g[i] = key
      BY <1>3, <1>6
    <3> HIDE DEF g
    <3> QED BY <3>1, <3>2, <3>3, Fun_IsBij
  <2>2. ExistsBijection(1 .. N, KeysNamed(lines))
    BY <2>1, Zenon DEF ExistsBijection
  <2> QED BY <2>2, FS_CountingElements
<1>9. ASSUME NEW key \in KeysNamed(lines)
      PROVE  \E i \in DOMAIN ps :
               ps[i] = [public_key |-> key,
                        endpoint |-> LastSetting(lines, key, "Endpoint"),
                        allowed |-> OrElse(LastSetting(lines, key, "AllowedIPs"), KconfigAllowed),
                        keepalive |-> LastSetting(lines, key, "PersistentKeepalive")]
  <2>1. PICK i \in DOMAIN ps : ps[i].public_key = key
    BY <1>6
  <2>2. PICK p : p = ps[i] /\ p \in StagedPeers /\ Says(lines, t + 1, p) /\ p.public_key = key
    BY <1>7, <2>1
  <2>3. \A k : LastSetting(lines, key, k) = LastBefore(lines, t + 1, key, k)
    BY <1>1, LastBeforeAll
  <2>4. /\ p.endpoint = LastSetting(lines, key, "Endpoint")
        /\ p.allowed = OrElse(LastSetting(lines, key, "AllowedIPs"), KconfigAllowed)
        /\ p.keepalive = LastSetting(lines, key, "PersistentKeepalive")
    BY <2>2, <2>3 DEF Says
  <2>5. p = [public_key |-> p.public_key, endpoint |-> p.endpoint, allowed |-> p.allowed,
             keepalive |-> p.keepalive]
    BY <2>2 DEF StagedPeers
  <2> QED BY <2>2, <2>4, <2>5
<1> QED BY <1>3, <1>8, <1>9 DEF LoadedAs

LInv ==
  /\ loaded.ret = "OK" => LoadedAs(loaded.lines, peers)
  /\ loaded.ret \notin {"OK", "none"} => peers = <<>>

LEMMA LInvIsLoadFaithful == LInv <=> LoadFaithful
BY Zenon DEF LInv, LoadedAs, LoadFaithful

LEMMA LInvNext == IInv /\ LInv /\ [Next]_vars => LInv'
<1> SUFFICES ASSUME IInv, LInv, [Next]_vars PROVE LInv'
  OBVIOUS
<1>0. /\ peers \in PeerLists /\ private_key \in PrivateKeys \cup {Unset}
      /\ file \in Seq(TextLines)
  BY DEF IInv, TypeOK, PeerLists
<1>1. ASSUME loaded' = NotLoaded PROVE LInv'
  BY <1>1 DEF LInv, NotLoaded
<1>2. ASSUME UNCHANGED <<peers, loaded>> PROVE LInv'
  <2>1. LoadedAs(loaded.lines, peers)' <=> LoadedAs(loaded.lines, peers)
    BY <1>2 DEF LoadedAs, KeysNamed, SectionsFor, Sections, Setting, LastSetting
  <2> QED BY <1>2, <2>1 DEF LInv
<1>3. CASE wg_set_private_key
  BY <1>1, <1>3 DEF wg_set_private_key
<1>4. CASE SetPeer
  <2>1. PICK key \in PublicKeys \cup {Malformed}, endpoint \in Endpoints \cup {Unset, Malformed},
             allowed \in AllowedIPs \cup {Unset, Malformed}, keepalive \in Keepalives \cup {Unset} :
          /\ peers' = wg_set_peer(peers, key, endpoint, allowed, keepalive).peers
          /\ loaded' = IF wg_set_peer(peers, key, endpoint, allowed, keepalive).ret = "OK"
                       THEN NotLoaded ELSE loaded
    BY <1>4 DEF SetPeer
  <2>2. /\ allowed \in AllowedIPs \cup {KconfigAllowed, Unset, Malformed}
        /\ keepalive \in Keepalives \cup {KconfigKeepalive, Unset}
    OBVIOUS
  <2>3. PICK r : r = wg_set_peer(peers, key, endpoint, allowed, keepalive)
    OBVIOUS
  <2>4. r.ret # "OK" => r.peers = peers
    <3>1. peers \in PeerLists
      BY <1>0
    <3>2. /\ r.ret \in Results /\ r.peers \in PeerLists
          /\ r.ret # "OK" => r.peers = peers
          /\ r.ret = "OK" => key # Malformed
      BY ONLY <3>1, <2>2, <2>3, SetPeerParts
    <3> QED BY <3>2
  <2>5. loaded' = NotLoaded \/ UNCHANGED <<peers, loaded>>
    BY <2>1, <2>3, <2>4
  <2> QED BY <1>1, <1>2, <2>5
<1>5. CASE wg_remove_peer
  BY <1>1, <1>5 DEF wg_remove_peer
<1>6. CASE wg_setconf
  <2>1. PICK lines \in Files \cup {file} : Load(lines)
    BY <1>6 DEF wg_setconf
  <2>2. IsFile(lines)
    BY <1>0, FilesAssumption, TextIsFile
  <2>3. PICK r : r = Setconf(private_key, lines)
    OBVIOUS
  <2>4. peers' = r.peers /\ loaded' = [ret |-> r.ret, lines |-> lines]
    BY <2>1, <2>3 DEF Load
  <2>5. r.ret # "OK" => r.peers = <<>>
    BY <1>0, <2>2, <2>3, SetconfType
  <2>6. r.ret = "OK" => LoadedAs(lines, r.peers)
    BY <1>0, <2>2, <2>3, SetconfStages, StagedIsLoaded
  <2>7. loaded'.ret = r.ret /\ loaded'.lines = lines
    BY <2>4
  <2>8. LoadedAs(loaded.lines, peers)' <=> LoadedAs(lines, r.peers)
    <3>1. LoadedAs(loaded.lines, peers)' <=> LoadedAs(loaded'.lines, peers')
      BY DEF LoadedAs, KeysNamed, SectionsFor, Sections, Setting, LastSetting, SectionOf
    <3> QED BY <2>4, <2>7, <3>1
  <2> QED BY <2>4, <2>5, <2>6, <2>7, <2>8 DEF LInv
<1>7. CASE wg_saveconf
  BY <1>2, <1>7 DEF wg_saveconf
<1>8. CASE wg_initialize
  BY <1>2, <1>8 DEF wg_initialize
<1>9. CASE wg_down
  BY <1>2, <1>9 DEF wg_down
<1>10. CASE Reboot
  BY <1>1, <1>10 DEF Reboot
<1>11. CASE UNCHANGED vars
  BY <1>2, <1>11 DEF vars
<1> QED BY <1>3, <1>4, <1>5, <1>6, <1>7, <1>8, <1>9, <1>10, <1>11 DEF Next

\* For every file, what "wg setconf" stages is what the file says, section by
\* section and the last line of a key deciding, or no peer when it fails.
THEOREM LoadsAreFaithful == Spec => []LoadFaithful
<1>1. Init => LInv
  BY DEF Init, LInv, NotLoaded
<1>2. IInv /\ LInv /\ [Next]_vars => LInv'
  BY LInvNext
<1>3. LInv => LoadFaithful
  BY LInvIsLoadFaithful
<1> QED BY <1>1, <1>2, <1>3, Invariant, PTL DEF Spec

=============================================================================
