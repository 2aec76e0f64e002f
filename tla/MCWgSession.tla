---------------------------- MODULE MCWgSession ----------------------------
(***************************************************************************)
(* TLC instances of WgSession.                                             *)
(***************************************************************************)
EXTENDS WgSession, TLC

CONSTANTS alice, bob, home, away

Symmetry == Permutations(Device)

\* Both ends know where the other is.
BothConfigured == [d \in Device |-> home]

\* Only alice has an endpoint configured; bob learns it from her packets.
OnlyAliceConfigured == [d \in Device |-> IF d = alice THEN home ELSE NoAddress]

NoKeepalive == [d \in Device |-> 0]
BothKeepAlive == [d \in Device |-> 1]

=============================================================================
