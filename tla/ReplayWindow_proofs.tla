------------------------ MODULE ReplayWindow_proofs ------------------------
(***************************************************************************)
(* The sliding window of wireguard_check_replay() is exact and implements  *)
(* ReplaySpec, for every number of words, word width and counter width.    *)
(***************************************************************************)
EXTENDS ReplayWindow, TLAPS

\* What the C operators / and % give on unsigned operands.
LEMMA DivMod ==
  ASSUME NEW x \in Nat
  PROVE  /\ x \div WordBits \in Nat
         /\ x % WordBits \in BitIndices
         /\ x = WordBits * (x \div WordBits) + (x % WordBits)
BY WordBitsAssumption, Z3 DEF BitIndices

\* A number has one quotient and one remainder.
LEMMA DivModUnique ==
  ASSUME NEW q \in Int, NEW r \in BitIndices,
         NEW p \in Int, NEW s \in BitIndices,
         WordBits * q + r = WordBits * p + s
  PROVE  q = p /\ r = s
<1> USE WordBitsAssumption DEF BitIndices
<1>1. q >= p
  <2>1. SUFFICES ASSUME q + 1 <= p PROVE FALSE
    OBVIOUS
  <2>2. PICK k \in Nat : p = q + 1 + k
    BY <2>1
  <2>3. WordBits * p = WordBits * q + WordBits + WordBits * k
    BY <2>2, Z3
  <2>4. WordBits * k \in Nat
    BY <2>2, Z3
  <2> QED BY <2>3, <2>4, Z3
<1>2. q <= p
  <2>1. SUFFICES ASSUME p + 1 <= q PROVE FALSE
    OBVIOUS
  <2>2. PICK k \in Nat : q = p + 1 + k
    BY <2>1
  <2>3. WordBits * q = WordBits * p + WordBits + WordBits * k
    BY <2>2, Z3
  <2>4. WordBits * k \in Nat
    BY <2>2, Z3
  <2> QED BY <2>3, <2>4, Z3
<1> QED BY <1>1, <1>2, Z3

\* The positions of the window are the pairs (word, bit).
LEMMA WindowPosition ==
  ASSUME NEW i \in 0 .. ReplayWindowSize - 1
  PROVE  /\ i \in Nat
         /\ i \div WordBits \in WordIndices
         /\ i % WordBits \in BitIndices
<1>1. i \in Nat /\ ReplayWindowSize \in Nat /\ i < WordBits * Words
  BY WordsAssumption, WordBitsAssumption, Z3 DEF ReplayWindowSize
<1> DEFINE q == i \div WordBits
<1>2. q \in Nat /\ i % WordBits \in BitIndices
      /\ i = WordBits * q + (i % WordBits)
  BY <1>1, DivMod
<1>3. q < Words
  <2>1. SUFFICES ASSUME Words <= q PROVE FALSE
    BY <1>2, WordsAssumption
  <2>2. PICK k \in Nat : q = Words + k
    BY <2>1, <1>2, WordsAssumption
  <2>3. WordBits * q = WordBits * Words + WordBits * k /\ WordBits * k \in Nat
    BY <2>2, WordsAssumption, WordBitsAssumption, Z3
  <2> QED
    BY <2>3, <1>1, <1>2, WordsAssumption, WordBitsAssumption, Z3 DEF BitIndices
<1> QED BY <1>1, <1>2, <1>3, WordsAssumption DEF WordIndices

\* Moving the bitmap left by diff moves every bit of the window by diff, also
\* across the word boundaries, and fills with zeros from below.
LEMMA ShiftMovesBits ==
  ASSUME NEW bitmap \in [WordIndices -> SUBSET BitIndices],
         NEW diff \in 0 .. ReplayWindowSize - 1,
         NEW i \in 0 .. ReplayWindowSize - 1
  PROVE  BitAt(Shifted(bitmap, diff), i) <=> i >= diff /\ BitAt(bitmap, i - diff)
<1> DEFINE ws == diff \div WordBits
           bs == diff % WordBits
           q == i \div WordBits
           r == i % WordBits
<1>1. /\ diff \in Nat /\ ws \in WordIndices /\ bs \in BitIndices
      /\ diff = WordBits * ws + bs
  BY WindowPosition, DivMod
<1>2. /\ i \in Nat /\ q \in WordIndices /\ r \in BitIndices
      /\ i = WordBits * q + r
  BY WindowPosition, DivMod
<1>3. Shifted(bitmap, diff)[q] = ShiftedWord(bitmap, diff, q)
  BY <1>2 DEF Shifted
<1>4. BitAt(Shifted(bitmap, diff), i) <=> r \in ShiftedWord(bitmap, diff, q)
  BY <1>3 DEF BitAt
<1>5. ASSUME i >= diff
      PROVE  /\ i - diff \in Nat
             /\ (i - diff) \div WordBits \in Nat
             /\ (i - diff) % WordBits \in BitIndices
             /\ i - diff = WordBits * ((i - diff) \div WordBits)
                           + ((i - diff) % WordBits)
  <2>1. i - diff \in Nat
    BY <1>1, <1>2, <1>5
  <2> QED BY <2>1, DivMod
<1>6. WordBits \in Nat \ {0} /\ ws \in Nat /\ q \in Nat /\ ws < Words /\ q < Words
      /\ bs \in Nat /\ r \in Nat /\ bs < WordBits /\ r < WordBits
  BY <1>1, <1>2, WordBitsAssumption, WordsAssumption DEF WordIndices, BitIndices
<1> HIDE DEF ws, bs, q, r
<1>7. CASE r >= bs
  \* The bit comes from word q - ws.
  <2>1. i - diff = WordBits * (q - ws) + (r - bs)
    BY <1>1, <1>2, <1>6, Z3
  <2>2. r - bs \in BitIndices
    BY <1>6, <1>7 DEF BitIndices
  <2>3. i >= diff <=> q >= ws
    <3>1. ASSUME q >= ws PROVE WordBits * (q - ws) \in Nat
      BY <3>1, <1>6, Z3
    <3>2. ASSUME q < ws PROVE WordBits * (q - ws) <= 0 - WordBits
      <4>1. PICK k \in Nat : ws = q + 1 + k
        BY <3>2, <1>6
      <4>2. q - ws = 0 - 1 - k
        BY <4>1, <1>6
      <4>3. WordBits * (q - ws) = 0 - WordBits - WordBits * k
            /\ WordBits * k \in Nat
        BY <4>2, <1>6, Z3
      <4> QED BY <4>3, <1>6, Z3
    <3>3. WordBits * (q - ws) \in Int
      BY <1>6, Z3
    <3> QED BY <3>1, <3>2, <3>3, <2>1, <1>1, <1>2, <1>6, <1>7, Z3
  <2>4. ASSUME q >= ws
        PROVE  (i - diff) \div WordBits = q - ws /\ (i - diff) % WordBits = r - bs
    <3>1. i >= diff /\ q - ws \in Int
      BY <2>4, <2>3, <1>6
    <3>2. WordBits * ((i - diff) \div WordBits) + ((i - diff) % WordBits)
            = WordBits * (q - ws) + (r - bs)
      BY <3>1, <1>5, <2>1
    <3>3. (i - diff) \div WordBits \in Int /\ (i - diff) % WordBits \in BitIndices
      BY <3>1, <1>5
    <3> QED BY <3>1, <3>2, <3>3, <2>2, DivModUnique
  <2>5. r \in ShiftedWord(bitmap, diff, q) <=> q >= ws /\ r - bs \in bitmap[q - ws]
    <3>1. ASSUME q > ws
          PROVE  r \notin ShiftRight(bitmap[q - ws - 1], WordBits - bs)
      <4>1. q - ws - 1 \in WordIndices
        BY <3>1, <1>6, WordsAssumption DEF WordIndices
      <4>2. r + (WordBits - bs) \notin BitIndices
        BY <1>6, <1>7 DEF BitIndices
      <4> QED BY <4>1, <4>2 DEF ShiftRight
    <3>2. r \in ShiftLeft(bitmap[q - ws], bs) <=> r - bs \in bitmap[q - ws]
      BY <1>2 DEF ShiftLeft
    <3> QED BY <3>1, <3>2, <1>6 DEF ShiftedWord, ws, bs
  <2> QED BY <2>3, <2>4, <2>5, <1>4 DEF BitAt
<1>8. CASE r < bs
  \* The bit comes from word q - ws - 1.
  <2>1. i - diff = WordBits * (q - ws - 1) + (r + WordBits - bs)
    BY <1>1, <1>2, <1>6, Z3
  <2>2. r + WordBits - bs \in BitIndices
    BY <1>6, <1>8 DEF BitIndices
  <2>3. i >= diff <=> q > ws
    <3>1. ASSUME q > ws PROVE WordBits * (q - ws - 1) \in Nat
      BY <3>1, <1>6, Z3
    <3>2. ASSUME q <= ws PROVE WordBits * (q - ws - 1) <= 0 - WordBits
      <4>1. PICK k \in Nat : ws = q + k
        BY <3>2, <1>6
      <4>2. q - ws - 1 = 0 - 1 - k
        BY <4>1, <1>6
      <4>3. WordBits * (q - ws - 1) = 0 - WordBits - WordBits * k
            /\ WordBits * k \in Nat
        BY <4>2, <1>6, Z3
      <4> QED BY <4>3, <1>6, Z3
    <3>3. WordBits * (q - ws - 1) \in Int
      BY <1>6, Z3
    <3> QED BY <3>1, <3>2, <3>3, <2>1, <1>1, <1>2, <1>6, <1>8, Z3
  <2>4. ASSUME q > ws
        PROVE  /\ (i - diff) \div WordBits = q - ws - 1
               /\ (i - diff) % WordBits = r + WordBits - bs
    <3>1. i >= diff /\ q - ws - 1 \in Int
      BY <2>4, <2>3, <1>6
    <3>2. WordBits * ((i - diff) \div WordBits) + ((i - diff) % WordBits)
            = WordBits * (q - ws - 1) + (r + WordBits - bs)
      BY <3>1, <1>5, <2>1
    <3>3. (i - diff) \div WordBits \in Int /\ (i - diff) % WordBits \in BitIndices
      BY <3>1, <1>5
    <3> QED BY <3>1, <3>2, <3>3, <2>2, DivModUnique
  <2>5. r \in ShiftedWord(bitmap, diff, q)
          <=> q > ws /\ r + WordBits - bs \in bitmap[q - ws - 1]
    <3>1. ASSUME q >= ws
          PROVE  r \notin ShiftLeft(bitmap[q - ws], bs)
      <4>1. q - ws \in WordIndices
        BY <3>1, <1>6, WordsAssumption DEF WordIndices
      <4>2. r - bs \notin BitIndices
        BY <1>6, <1>8 DEF BitIndices
      <4> QED BY <4>1, <4>2 DEF ShiftLeft
    <3>2. r \in ShiftRight(bitmap[q - ws - 1], WordBits - bs)
            <=> r + WordBits - bs \in bitmap[q - ws - 1]
      <4>1. r + (WordBits - bs) = r + WordBits - bs
        BY <1>6
      <4> QED BY <4>1, <1>2 DEF ShiftRight
    <3>3. bs # 0
      BY <1>6, <1>8
    <3> QED BY <3>1, <3>2, <3>3, <1>6 DEF ShiftedWord, ws, bs
  <2> QED BY <2>3, <2>4, <2>5, <1>4 DEF BitAt
<1> QED BY <1>6, <1>7, <1>8

-----------------------------------------------------------------------------

\* Marking a position of the window marks that position and no other.
LEMMA SetBitMarksOne ==
  ASSUME NEW bitmap \in [WordIndices -> SUBSET BitIndices],
         NEW i \in 0 .. ReplayWindowSize - 1,
         NEW j \in 0 .. ReplayWindowSize - 1
  PROVE  /\ SetBit(bitmap, i) \in [WordIndices -> SUBSET BitIndices]
         /\ BitAt(SetBit(bitmap, i), j) <=> j = i \/ BitAt(bitmap, j)
<1>1. /\ i \in Nat /\ i \div WordBits \in WordIndices /\ i % WordBits \in BitIndices
      /\ j \in Nat /\ j \div WordBits \in WordIndices /\ j % WordBits \in BitIndices
  BY WindowPosition
<1>2. /\ i = WordBits * (i \div WordBits) + (i % WordBits)
      /\ j = WordBits * (j \div WordBits) + (j % WordBits)
  BY <1>1, DivMod
<1>3. j \div WordBits = i \div WordBits /\ j % WordBits = i % WordBits => j = i
  BY <1>2
<1> QED BY <1>1, <1>3 DEF SetBit, BitAt

\* The bitmap of the window stays a bitmap when it is moved or cleared.
LEMMA BitmapTypes ==
  ASSUME NEW bitmap, NEW diff
  PROVE  /\ Shifted(bitmap, diff) \in [WordIndices -> SUBSET BitIndices]
         /\ EmptyBitmap \in [WordIndices -> SUBSET BitIndices]
<1>1. ASSUME NEW i \in WordIndices
      PROVE  ShiftedWord(bitmap, diff, i) \subseteq BitIndices
  BY DEF ShiftedWord, ShiftLeft, ShiftRight
<1> QED BY <1>1 DEF Shifted, EmptyBitmap

\* Position zero, the newest packet, is a position of the window.
LEMMA WindowNotEmpty ==
  ReplayWindowSize \in Nat \ {0} /\ 0 \in 0 .. ReplayWindowSize - 1
BY WordsAssumption, WordBitsAssumption, Z3 DEF ReplayWindowSize

\* The packet number of a wire counter: one more, but zero for the top one.
LEMMA PacketNumber ==
  ASSUME NEW n \in Counters
  PROVE  /\ n + 1 < CounterLimit => (n + 1) % CounterLimit = n + 1
         /\ n + 1 >= CounterLimit => (n + 1) % CounterLimit = 0
BY CounterLimitAssumption, Z3 DEF Counters

-----------------------------------------------------------------------------

\* The three kinds of call, each keeping the window exact and answering what
\* the accepted counters determine.

LEMMA NewerStep ==
  ASSUME IInv, NEW n \in Counters, NEW seq,
         seq = n + 1, n + 1 < CounterLimit, AcceptNewer(n, seq)
  PROVE  IInv' /\ Abstract!Check(n)
<1> USE DEF IInv, WindowExact, CounterIsNewest
<1>1. /\ replay_counter \in Nat /\ seq \in Nat /\ seq \in Counters /\ n \in Nat
      /\ seq > replay_counter /\ n >= replay_counter
      /\ replay_counter' = seq /\ accepted' = accepted \cup {n}
      /\ verdict' = [seq |-> n, ok |-> TRUE, turn |-> ~verdict.turn]
  BY CounterLimitAssumption DEF AcceptNewer, Answer, TypeOK, Counters
<1> DEFINE diff == seq - replay_counter
           moved == IF diff < ReplayWindowSize
                    THEN Shifted(replay_bitmap, diff) ELSE EmptyBitmap
<1>2. replay_bitmap' = SetBit(moved, 0)
  BY DEF AcceptNewer
<1>3. moved \in [WordIndices -> SUBSET BitIndices]
  BY BitmapTypes
<1>4. accepted \subseteq Nat /\ \A a \in accepted : a < replay_counter
  BY DEF TypeOK, Counters
<1>5. CounterIsNewest'
  BY <1>1, <1>4
<1>6. TypeOK'
  <2>1. replay_bitmap' \in [WordIndices -> SUBSET BitIndices]
    BY <1>2, <1>3, SetBitMarksOne, WindowNotEmpty
  <2>2. verdict' \in [seq : Counters, ok : BOOLEAN, turn : BOOLEAN]
    BY <1>1 DEF TypeOK
  <2> QED BY <1>1, <2>1, <2>2 DEF TypeOK
<1>7. ASSUME NEW j \in 0 .. ReplayWindowSize - 1
      PROVE  BitAt(replay_bitmap', j) <=> replay_counter' - j - 1 \in accepted'
  <2>1. BitAt(replay_bitmap', j) <=> j = 0 \/ BitAt(moved, j)
    BY <1>2, <1>3, SetBitMarksOne, WindowNotEmpty
  <2>2. replay_counter' - j - 1 \in accepted' <=> j = 0 \/ seq - j - 1 \in accepted
    BY <1>1, CounterLimitAssumption DEF Counters
  <2>3. diff \in Nat /\ ReplayWindowSize \in Nat /\ j \in Nat
    BY <1>1, WindowNotEmpty
  <2>4. CASE diff < ReplayWindowSize
    <3>1. BitAt(moved, j) <=> j >= diff /\ BitAt(replay_bitmap, j - diff)
      BY <2>3, <2>4, ShiftMovesBits DEF TypeOK
    <3>2. ASSUME j >= diff
          PROVE  BitAt(replay_bitmap, j - diff) <=> seq - j - 1 \in accepted
      <4>1. j - diff \in 0 .. ReplayWindowSize - 1
        BY <2>3, <3>2
      <4>2. replay_counter - (j - diff) - 1 = seq - j - 1
        BY <1>1, <2>3
      <4> QED BY <4>1, <4>2
    <3>3. ASSUME ~(j >= diff), j # 0 PROVE seq - j - 1 \notin accepted
      BY <3>3, <1>1, <1>4, <2>3
    <3> QED BY <2>1, <2>2, <3>1, <3>2, <3>3, <2>3
  <2>5. CASE ~(diff < ReplayWindowSize)
    <3>1. ~BitAt(moved, j)
      BY <2>5, WindowPosition DEF BitAt, EmptyBitmap
    <3>2. seq - j - 1 >= replay_counter
      BY <1>1, <2>3, <2>5
    <3>3. seq - j - 1 \notin accepted
      BY <3>2, <1>4, <1>1, <2>3
    <3> QED BY <2>1, <2>2, <3>1, <3>3
  <2> QED BY <2>4, <2>5
<1>8. Abstract!Fresh(n, accepted)
  BY <1>1, <1>4, WindowNotEmpty DEF Abstract!Fresh
<1>9. Abstract!Check(n)
  BY <1>1, <1>8 DEF Abstract!Check
<1> HIDE DEF moved, diff
<1>10. WindowExact'
  BY <1>5, <1>7 DEF BitAt
<1> QED BY <1>6, <1>9, <1>10

\* Behind the newest packet, but still in the window.
LEMMA LatePosition ==
  ASSUME IInv, NEW n \in Counters, NEW seq, seq = n + 1, seq <= replay_counter
  PROVE  /\ replay_counter - seq \in Nat
         /\ replay_counter - (replay_counter - seq) - 1 = n
         /\ replay_counter - 1 \in accepted
         /\ \A a \in accepted : a \in Nat /\ a < replay_counter
         /\ replay_counter - seq < ReplayWindowSize
              => (BitAt(replay_bitmap, replay_counter - seq) <=> n \in accepted)
<1> USE DEF IInv, WindowExact, CounterIsNewest
<1>1. n \in Nat /\ replay_counter \in Nat /\ seq \in Nat /\ replay_counter # 0
  BY DEF TypeOK, Counters
<1>2. /\ replay_counter - seq \in Nat
      /\ replay_counter - (replay_counter - seq) - 1 = n
  BY <1>1
<1>3. ASSUME replay_counter - seq < ReplayWindowSize
      PROVE  replay_counter - seq \in 0 .. ReplayWindowSize - 1
  BY <1>2, <1>3, WindowNotEmpty
<1> QED BY <1>1, <1>2, <1>3 DEF TypeOK, Counters

LEMMA LateStep ==
  ASSUME IInv, NEW n \in Counters, NEW seq,
         seq = n + 1, n + 1 < CounterLimit, AcceptLate(n, seq)
  PROVE  IInv' /\ Abstract!Check(n)
<1> USE DEF IInv, WindowExact, CounterIsNewest
<1> DEFINE diff == replay_counter - seq
<1>1. /\ seq <= replay_counter /\ diff < ReplayWindowSize
      /\ ~BitAt(replay_bitmap, diff)
      /\ replay_bitmap' = SetBit(replay_bitmap, diff)
      /\ replay_counter' = replay_counter
      /\ accepted' = accepted \cup {n}
      /\ verdict' = [seq |-> n, ok |-> TRUE, turn |-> ~verdict.turn]
  BY DEF AcceptLate, Answer
<1>2. /\ diff \in Nat /\ replay_counter - diff - 1 = n
      /\ replay_counter - 1 \in accepted
      /\ \A a \in accepted : a \in Nat /\ a < replay_counter
      /\ BitAt(replay_bitmap, diff) <=> n \in accepted
  BY <1>1, LatePosition
<1>3. diff \in 0 .. ReplayWindowSize - 1 /\ replay_counter \in Nat /\ n \in Nat
  BY <1>1, <1>2, WindowNotEmpty DEF TypeOK, Counters
<1> HIDE DEF diff
<1>4. TypeOK'
  <2>1. replay_bitmap' \in [WordIndices -> SUBSET BitIndices]
    BY <1>1, <1>3, SetBitMarksOne DEF TypeOK
  <2>2. verdict' \in [seq : Counters, ok : BOOLEAN, turn : BOOLEAN]
    BY <1>1 DEF TypeOK
  <2> QED BY <1>1, <2>1, <2>2 DEF TypeOK
<1>5. ASSUME NEW j \in 0 .. ReplayWindowSize - 1
      PROVE  BitAt(replay_bitmap', j) <=> replay_counter' - j - 1 \in accepted'
  <2>1. BitAt(replay_bitmap', j) <=> j = diff \/ BitAt(replay_bitmap, j)
    BY <1>1, <1>3, SetBitMarksOne DEF TypeOK
  <2>2. replay_counter - j - 1 = n <=> j = diff
    BY <1>2, <1>3
  <2> QED BY <1>1, <2>1, <2>2
<1>6. CounterIsNewest'
  BY <1>1, <1>2, <1>3
<1>7. Abstract!Fresh(n, accepted)
  <2>1. \A a \in accepted : a < n + ReplayWindowSize
    BY <1>1, <1>2, <1>3, WindowNotEmpty
  <2> QED BY <1>1, <1>2, <2>1 DEF Abstract!Fresh
<1>8. Abstract!Check(n)
  BY <1>1, <1>7 DEF Abstract!Check
<1>9. WindowExact'
  BY <1>5, <1>6 DEF BitAt
<1> QED BY <1>4, <1>8, <1>9

LEMMA RejectStep ==
  ASSUME IInv, NEW n \in Counters, NEW seq,
         \/ seq = n + 1 /\ RejectLate(n, seq)
         \/ n + 1 >= CounterLimit /\ RejectWrapped(n)
  PROVE  IInv' /\ Abstract!Check(n)
<1> USE DEF IInv, WindowExact, CounterIsNewest
<1>1. /\ UNCHANGED <<replay_counter, replay_bitmap, accepted>>
      /\ verdict' = [seq |-> n, ok |-> FALSE, turn |-> ~verdict.turn]
  BY DEF RejectLate, RejectWrapped, Answer
<1>2. IInv'
  BY <1>1 DEF TypeOK, BitAt
<1>3. ~Abstract!Fresh(n, accepted)
  <2>1. CASE seq = n + 1 /\ RejectLate(n, seq)
    <3>1. /\ seq <= replay_counter
          /\ replay_counter - seq < ReplayWindowSize
               => BitAt(replay_bitmap, replay_counter - seq)
      BY <2>1 DEF RejectLate
    <3>2. /\ replay_counter - 1 \in accepted
          /\ replay_counter - seq < ReplayWindowSize => n \in accepted
      BY <2>1, <3>1, LatePosition
    <3>3. ~(replay_counter - seq < ReplayWindowSize)
             => ~(replay_counter - 1 < n + ReplayWindowSize)
      BY <2>1, <3>1, WindowNotEmpty DEF TypeOK, Counters
    <3> QED BY <3>2, <3>3 DEF Abstract!Fresh
  <2>2. CASE n + 1 >= CounterLimit
    BY <2>2, CounterLimitAssumption DEF Abstract!Fresh, Counters
  <2> QED BY <2>1, <2>2
<1>4. Abstract!Check(n)
  <2>1. Abstract!Fresh(n, accepted) = FALSE
    BY <1>3 DEF Abstract!Fresh
  <2> HIDE DEF IInv, WindowExact, CounterIsNewest
  <2> QED BY <1>1, <2>1 DEF Abstract!Check
<1> QED BY <1>2, <1>4

LEMMA CallStep ==
  ASSUME IInv, NEW n \in Counters, wireguard_check_replay(n)
  PROVE  IInv' /\ Abstract!Check(n)
<1>1. n \in Nat /\ CounterLimit \in Nat
  BY CounterLimitAssumption DEF Counters
<1>2. CASE n + 1 < CounterLimit
  <2>1. (n + 1) % CounterLimit = n + 1 /\ n + 1 # 0
    BY <1>1, <1>2, PacketNumber
  <2>2. AcceptNewer(n, n + 1) \/ AcceptLate(n, n + 1) \/ RejectLate(n, n + 1)
    BY <2>1 DEF wireguard_check_replay
  <2> QED BY <1>2, <2>2, NewerStep, LateStep, RejectStep
<1>3. CASE n + 1 >= CounterLimit
  <2>1. (n + 1) % CounterLimit = 0
    BY <1>3, PacketNumber
  <2>2. RejectWrapped(n)
    BY <2>1 DEF wireguard_check_replay
  <2> QED BY <1>3, <2>2, RejectStep
<1> QED BY <1>1, <1>2, <1>3

-----------------------------------------------------------------------------

\* The window is always exact: the bitmap of wireguard_check_replay() marks
\* the accepted packets of the window and nothing else.
LEMMA WindowInvariant == Spec => []IInv
<1>1. Init => IInv
  <2> SUFFICES ASSUME Init PROVE IInv
    OBVIOUS
  <2>1. TypeOK
    BY BitmapTypes, CounterLimitAssumption DEF Init, TypeOK, Counters
  <2>2. WindowExact
    BY WindowPosition DEF Init, WindowExact, CounterIsNewest, BitAt, EmptyBitmap
  <2> QED BY <2>1, <2>2 DEF IInv
<1>2. IInv /\ [Next]_vars => IInv'
  <2>1. ASSUME IInv, UNCHANGED vars PROVE IInv'
    BY <2>1 DEF IInv, WindowExact, CounterIsNewest, TypeOK, BitAt, vars
  <2> QED BY <2>1, CallStep DEF Next
<1> QED BY <1>1, <1>2, PTL DEF Spec

\* The counter stays in its width and the bitmap in its words, whatever is
\* shifted in: the carry between words loses no bit outside them.
THEOREM WindowTypes == Spec => []TypeOK
BY WindowInvariant, PTL DEF IInv

\* In every reachable state replay_counter numbers the newest packet accepted
\* and a bit of the window is set if and only if its packet was accepted.
THEOREM WindowIsExact == Spec => [](TypeOK /\ WindowExact)
BY WindowInvariant, PTL DEF IInv

\* wireguard_check_replay() answers exactly what the set of accepted counters
\* determines: nothing is accepted twice, and nothing new inside the window is
\* refused.
THEOREM WindowImplementsReplaySpec == Spec => ImplementsReplaySpec
<1>1. Init => Abstract!Init
  BY DEF Init, Abstract!Init
<1>2. IInv /\ [Next]_vars => [Abstract!Next]_<<accepted, verdict>>
  <2>1. ASSUME UNCHANGED vars PROVE UNCHANGED <<accepted, verdict>>
    BY <2>1 DEF vars
  <2>2. ASSUME IInv, Next PROVE Abstract!Next
    BY <2>2, CallStep DEF Next, Abstract!Next, Counters, Abstract!Counters
  <2> QED BY <2>1, <2>2
<1> QED BY <1>1, <1>2, WindowInvariant, PTL
        DEF Spec, ImplementsReplaySpec, Abstract!Spec

=============================================================================
