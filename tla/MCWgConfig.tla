----------------------------- MODULE MCWgConfig -----------------------------
(***************************************************************************)
(* TLC instances of WgConfig: two public keys beside Kconfig's and two     *)
(* slots for peers; the device refuses one of the keys.                    *)
(***************************************************************************)
EXTENDS WgConfig

CONSTANTS staticKey, k1, k2, built_in, e1

\* 0.0.0.0/0, half of the addresses, and one of them.
a1 == [ip |-> 0, host_bits |-> 2]
a2 == [ip |-> 2, host_bits |-> 1]
a3 == [ip |-> 3, host_bits |-> 0]
TwoPrefixes == {a2, a3}

\* Every file of up to three lines, so in every order and with repetitions.
Lines ==
  {Header, Line("PrivateKey", staticKey), Line("PublicKey", k1),
   Line("PublicKey", k2), Line("Endpoint", e1), Line("Endpoint", Malformed)}

ShortFiles == UNION {[1 .. n -> Lines] : n \in 0 .. 3}

\* Every file of two sections with at most one setting each.
PeerSections ==
  {p \o q : p \in {<<>>, <<Line("PublicKey", k1)>>, <<Line("PublicKey", k2)>>},
            q \in {<<>>, <<Line("Endpoint", e1)>>, <<Line("AllowedIPs", a2)>>,
                   <<Line("PersistentKeepalive", 0)>>}}

TwoSections == {s \o <<Header>> \o t : s, t \in PeerSections}

TooManyPeers(j, k) ==
  <<Line("PublicKey", j), Header, Line("PublicKey", k), Header,
    Line("PublicKey", built_in)>>

FailsHalfWay(j, k) ==
  <<Line("PublicKey", j), Header, Line("PublicKey", k), Line("Endpoint", Malformed)>>

AllFiles ==
  ShortFiles \cup TwoSections
  \cup UNION {{TooManyPeers(j, k), FailsHalfWay(j, k)} : <<j, k>> \in {<<k1, k2>>, <<k2, k1>>}}

\* Nothing need follow a load: what it stages could also have been set. What a
\* saved file loads as is checked by RoundTrip in the state it is saved in.
LoadOnce == loaded = NotLoaded /\ file = <<>>

FewFiles == {<<Line("PrivateKey", staticKey)>>,
             <<Line("PrivateKey", staticKey), Line("PublicKey", Malformed)>>}

=============================================================================
