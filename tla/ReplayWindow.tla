---------------------------- MODULE ReplayWindow ----------------------------
(***************************************************************************)
(* wireguard_check_replay() (wireguard.c): the RFC 2401 sliding window     *)
(* over an array of machine words, which the port widened from a single    *)
(* 32-bit word to WIREGUARD_REPLAY_WORDS words of 64 bits.                 *)
(*                                                                         *)
(* A word is the set of the positions of its one bits. Bit i of the window *)
(* is bit (i % WordBits) of word (i \div WordBits), and stands for the     *)
(* packet numbered replay_counter - i, packets being numbered from one.    *)
(***************************************************************************)
EXTENDS Integers

CONSTANTS
  Words,          \* WIREGUARD_REPLAY_WORDS
  WordBits,       \* the width of a bitmap word, 64 in the code
  CounterLimit    \* 2^64 in the code: the counter type wraps there

ASSUME WordsAssumption == Words \in Nat \ {0}
ASSUME WordBitsAssumption == WordBits \in Nat \ {0}
ASSUME CounterLimitAssumption == CounterLimit \in Nat \ {0}

VARIABLES
  replay_counter, \* number of the newest packet accepted, 0 for none
  replay_bitmap,  \* word index -> the set of its one bits
  accepted,       \* history: the wire counters accepted
  verdict         \* history: the last call and what it returned, with a
                  \* toggle that makes two equal calls in a row two steps

vars == <<replay_counter, replay_bitmap, accepted, verdict>>

WordIndices == 0 .. Words - 1
BitIndices == 0 .. WordBits - 1
ReplayWindowSize == Words * WordBits
Counters == 0 .. CounterLimit - 1

-----------------------------------------------------------------------------

\* Mutant: the word is wider than its declared width.
ShiftLeft_KeepsOverflow(word, s) == {b + s : b \in word}

\* The C shifts of one word: a bit pushed past either end is lost.
ShiftLeft(word, s) == {b \in BitIndices : b - s \in word}
ShiftRight(word, s) == {b \in BitIndices : b + s \in word}

\* Mutant: the bits that cross a word boundary are lost.
ShiftedWord_NoCarry(bitmap, diff, i) ==
  IF i >= diff \div WordBits
  THEN ShiftLeft(bitmap[i - (diff \div WordBits)], diff % WordBits)
  ELSE {}

\* Word i after the whole bitmap moved left by diff bits. The C loop runs from
\* the top word down and so reads only words it has not yet written.
ShiftedWord(bitmap, diff, i) ==
  LET word_shift == diff \div WordBits
      bit_shift == diff % WordBits
  IN  IF i >= word_shift
      THEN ShiftLeft(bitmap[i - word_shift], bit_shift)
             \cup (IF bit_shift # 0 /\ i > word_shift
                   THEN ShiftRight(bitmap[i - word_shift - 1],
                                   WordBits - bit_shift)
                   ELSE {})
      ELSE {}

Shifted(bitmap, diff) == [i \in WordIndices |-> ShiftedWord(bitmap, diff, i)]

EmptyBitmap == [i \in WordIndices |-> {}]

SetBit(bitmap, i) ==
  [bitmap EXCEPT ![i \div WordBits] = @ \cup {i % WordBits}]

BitAt(bitmap, i) == i % WordBits \in bitmap[i \div WordBits]

-----------------------------------------------------------------------------

Answer(n, ok) ==
  /\ verdict' = [seq |-> n, ok |-> ok, turn |-> ~verdict.turn]
  /\ accepted' = IF ok THEN accepted \cup {n} ELSE accepted

\* Mutant: a jump past the window leaves the old bits in it.
AcceptNewer_KeepsOldBits(n, seq) ==
  LET diff == seq - replay_counter
  IN  /\ seq > replay_counter
      /\ replay_bitmap' = SetBit(IF diff < ReplayWindowSize
                                 THEN Shifted(replay_bitmap, diff)
                                 ELSE replay_bitmap, 0)
      /\ replay_counter' = seq
      /\ Answer(n, TRUE)

\* seq > replay_counter: slide the window, or clear it if seq is beyond it.
AcceptNewer(n, seq) ==
  LET diff == seq - replay_counter
      moved == IF diff < ReplayWindowSize
               THEN Shifted(replay_bitmap, diff)
               ELSE EmptyBitmap
  IN  /\ seq > replay_counter
      /\ replay_bitmap' = SetBit(moved, 0)
      /\ replay_counter' = seq
      /\ Answer(n, TRUE)

\* seq <= replay_counter, inside the window and not marked: mark it.
AcceptLate(n, seq) ==
  LET diff == replay_counter - seq
  IN  /\ seq <= replay_counter
      /\ diff < ReplayWindowSize
      /\ ~BitAt(replay_bitmap, diff)
      /\ replay_bitmap' = SetBit(replay_bitmap, diff)
      /\ UNCHANGED replay_counter
      /\ Answer(n, TRUE)

\* seq <= replay_counter, and already seen or too old.
RejectLate(n, seq) ==
  LET diff == replay_counter - seq
  IN  /\ seq <= replay_counter
      /\ diff < ReplayWindowSize => BitAt(replay_bitmap, diff)
      /\ UNCHANGED <<replay_counter, replay_bitmap>>
      /\ Answer(n, FALSE)

\* seq++ wrapped to zero.
RejectWrapped(n) ==
  /\ UNCHANGED <<replay_counter, replay_bitmap>>
  /\ Answer(n, FALSE)

wireguard_check_replay(n) ==
  LET seq == (n + 1) % CounterLimit
  IN  \/ seq # 0 /\ AcceptNewer(n, seq)
      \/ seq # 0 /\ AcceptLate(n, seq)
      \/ seq # 0 /\ RejectLate(n, seq)
      \/ seq = 0 /\ RejectWrapped(n)

\* wireguard_start_session() hands out a keypair with an empty window.
Init ==
  /\ replay_counter = 0
  /\ replay_bitmap = EmptyBitmap
  /\ accepted = {}
  /\ verdict = [seq |-> 0, ok |-> FALSE, turn |-> FALSE]

Next == \E n \in Counters : wireguard_check_replay(n)

Spec == Init /\ [][Next]_vars

-----------------------------------------------------------------------------

TypeOK ==
  /\ replay_counter \in Counters
  /\ replay_bitmap \in [WordIndices -> SUBSET BitIndices]
  /\ accepted \in SUBSET Counters
  /\ verdict \in [seq : Counters, ok : BOOLEAN, turn : BOOLEAN]

\* The newest accepted packet is the one replay_counter numbers.
CounterIsNewest ==
  /\ replay_counter = 0 => accepted = {}
  /\ replay_counter # 0 => replay_counter - 1 \in accepted
  /\ \A a \in accepted : a < replay_counter

\* The window is exact: replay_counter numbers the newest accepted packet, and
\* bit i is set if and only if the packet numbered replay_counter - i was
\* accepted, whatever shifts across word boundaries brought the bit there
\* (wireguard_check_replay). A bit too many drops a good packet, a bit too few
\* lets a replayed one in.
WindowExact ==
  /\ CounterIsNewest
  /\ \A i \in 0 .. ReplayWindowSize - 1 :
       BitAt(replay_bitmap, i) <=> replay_counter - i - 1 \in accepted

IInv == TypeOK /\ WindowExact

\* The function computes what the set of accepted counters determines: no
\* counter is ever accepted twice, and a new one less than the window behind
\* the newest is never refused (wireguard_check_replay, both directions).
Abstract == INSTANCE ReplaySpec WITH WindowSize <- ReplayWindowSize

ImplementsReplaySpec == Abstract!Spec

=============================================================================
