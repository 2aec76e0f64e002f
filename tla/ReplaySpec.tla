----------------------------- MODULE ReplaySpec -----------------------------
(***************************************************************************)
(* What the anti-replay check of a WireGuard session promises, with no     *)
(* bitmap in it: the set of packet counters accepted so far, and for every *)
(* counter presented, the verdict that set alone determines.               *)
(*                                                                         *)
(* The code that has to keep this promise is wireguard_check_replay() in   *)
(* wireguard.c; module ReplayWindow models it and is shown to implement    *)
(* this one.                                                               *)
(***************************************************************************)
EXTENDS Naturals

CONSTANTS
  CounterLimit,   \* the counters are 0 .. CounterLimit - 1 (2^64 in the code)
  WindowSize      \* how far behind the newest packet one may arrive

VARIABLES
  accepted,       \* the counters accepted so far
  verdict         \* the last counter presented and the answer it got, with
                  \* a toggle that makes two equal calls in a row two steps

Counters == 0 .. CounterLimit - 1

\* A counter is good when it is new and less than WindowSize behind every
\* accepted one. The top counter is refused always: the code numbers packets
\* from one, and the increment of the last counter wraps to zero.
Fresh(n, seen) ==
  /\ n + 1 < CounterLimit
  /\ n \notin seen
  /\ \A a \in seen : a < n + WindowSize

Check(n) ==
  /\ verdict' = [seq |-> n, ok |-> Fresh(n, accepted), turn |-> ~verdict.turn]
  /\ accepted' = IF Fresh(n, accepted) THEN accepted \cup {n} ELSE accepted

Init ==
  /\ accepted = {}
  /\ verdict = [seq |-> 0, ok |-> FALSE, turn |-> FALSE]

Next == \E n \in Counters : Check(n)

Spec == Init /\ [][Next]_<<accepted, verdict>>

=============================================================================
