-------------------------- MODULE CtapStreamProofs --------------------------
(***************************************************************************)
(* For frames of any lengths, any number of them on the way and keys found *)
(* or not in any order, ctap recognises a frame again after at most        *)
(* sixteen.                                                                *)
(***************************************************************************)
EXTENDS CtapStream, TLAPS

Frame == [length : 1..1500, known : BOOLEAN]

StreamType ==
    /\ program \in {"ctap", "ctapraw"}
    /\ pending \in Seq(Frame)
    /\ offset \in Nat
    /\ missed \in 0..16

WithinHead ==
    /\ pending = <<>> => offset = 0
    /\ pending # <<>> => offset < Bytes(Head(pending))

\* Of the frames begun every one but the last shifted the next by 2 bytes
\* against the shas that are read.
Shifted == offset # 0 => missed > 0 /\ (offset + (2 * (missed - 1))) % 32 = 0

StreamInv == StreamType /\ WithinHead /\ Shifted

-----------------------------------------------------------------------------
LEMMA PaddedInBlocks ==
  \A n \in Nat : \E q \in Nat : Padded(n) = 128 * q /\ (n > 0 => q > 0)
<1> SUFFICES ASSUME NEW n \in Nat
             PROVE  \E q \in Nat : Padded(n) = 128 * q /\ (n > 0 => q > 0)
  OBVIOUS
<1>1. n = (128 * (n \div 128)) + (n % 128) /\ n \div 128 \in Nat /\ n % 128 \in 0..127
  OBVIOUS
<1> DEFINE d == n \div 128
           r == n % 128
<1>2. Padded(n) = IF r # 0 THEN n + (128 - r) ELSE n
  BY DEF Padded, Block
<1>3. n = (128 * d) + r /\ d \in Nat /\ r \in 0..127
  BY <1>1
<1> HIDE DEF d, r
<1>4. CASE r # 0
  <2>1. Padded(n) = 128 * (d + 1)
    BY <1>2, <1>3, <1>4
  <2>2. d + 1 \in Nat /\ d + 1 > 0
    BY <1>3
  <2> QED BY <2>1, <2>2
<1>5. CASE r = 0
  <2>1. Padded(n) = 128 * d /\ (n > 0 => d > 0)
    BY <1>2, <1>3, <1>5
  <2> QED BY <1>3, <2>1
<1> QED BY <1>4, <1>5

\* A frame of ctap takes 2 bytes more than some shas, and more than one.
LEMMA FrameLength ==
  ASSUME program = "ctap", NEW f \in Frame
  PROVE  \E q \in Nat : q > 1 /\ Bytes(f) = (32 * q) + 2
<1>1. f.length \in Nat /\ f.length > 0
  BY SMTT(40) DEF Frame
<1>2. PICK q \in Nat : Padded(f.length) = 128 * q /\ q > 0
  BY <1>1, PaddedInBlocks
<1>3. Bytes(f) = 32 + 2 + Padded(f.length)
  BY DEF Bytes, HeaderLength, ShaLength, LengthLength
<1>4. Bytes(f) = (32 * ((4 * q) + 1)) + 2
  BY <1>2, <1>3
<1> QED BY <1>2, <1>4

LEMMA BytesNat == \A f \in Frame : Bytes(f) \in Nat /\ Bytes(f) > 0
<1> SUFFICES ASSUME NEW f \in Frame PROVE Bytes(f) \in Nat /\ Bytes(f) > 0
  OBVIOUS
<1>1. f.length \in Nat
  BY SMTT(40) DEF Frame
<1>2. Padded(f.length) \in Nat
  BY <1>1, PaddedInBlocks
<1>3. HeaderLength \in Nat
  BY DEF HeaderLength, ShaLength
<1> QED BY <1>2, <1>3 DEF Bytes, LengthLength

\* Reading one more sha, o bytes into the m-th frame begun, of (32 q) + 2 bytes.
LEMMA ShiftArithmetic ==
  ASSUME NEW o \in Nat, NEW m \in 1..16, NEW q \in Nat,
         (o + (2 * (m - 1))) % 32 = 0, o < (32 * q) + 2
  PROVE  /\ (o + 32 + (2 * (m - 1))) % 32 = 0
         /\ o + 32 >= (32 * q) + 2 =>
               LET p == (o + 32) - ((32 * q) + 2)
               IN p # 0 => m < 16 /\ (p + (2 * m)) % 32 = 0
<1> DEFINE t == (o + (2 * (m - 1))) \div 32
<1>1. t \in Nat /\ o + (2 * (m - 1)) = 32 * t
  OBVIOUS
<1> HIDE DEF t
<1>2. o + 32 + (2 * (m - 1)) = 32 * (t + 1)
  BY <1>1
<1>3. (32 * (t + 1)) % 32 = 0
  BY <1>1
<1>4. ASSUME o + 32 >= (32 * q) + 2
      PROVE  LET p == (o + 32) - ((32 * q) + 2)
             IN p # 0 => m < 16 /\ (p + (2 * m)) % 32 = 0
  <2> DEFINE p == (o + 32) - ((32 * q) + 2)
  <2>1. p \in 0..31
    BY <1>4
  <2>2. p + (2 * m) = 32 * ((t + 1) - q)
    BY <1>1
  <2>3. (t + 1) - q \in Int
    BY <1>1
  <2> HIDE DEF p
  <2>4. (p + (2 * m)) % 32 = 0
    BY <2>2, <2>3
  <2>5. p # 0 => m < 16
    BY <2>1, <2>2, <2>3
  <2> QED BY <2>4, <2>5 DEF p
<1> QED BY <1>2, <1>3, <1>4

-----------------------------------------------------------------------------
LEMMA SeqFacts ==
  ASSUME NEW s \in Seq(Frame), s # <<>>
  PROVE  Head(s) \in Frame /\ Tail(s) \in Seq(Frame) /\ Len(Tail(s)) = Len(s) - 1
OBVIOUS

\* The program does not change, nor the room a frame takes.
LEMMA HeadBytes ==
  ASSUME program' = program
  PROVE  \A g : Bytes(g)' = Bytes(g)
BY DEF Bytes, HeaderLength

LEMMA WriteKeeps == ASSUME StreamInv, WriteFrame PROVE StreamInv'
<1>1. PICK n \in FrameLengths, k \in BOOLEAN :
        pending' = Append(pending, [length |-> n, known |-> k])
  BY DEF WriteFrame
<1> DEFINE f == [length |-> n, known |-> k]
<1>2. f \in Frame
  BY StreamAssumption DEF Frame
<1>3. program' = program /\ offset' = offset /\ missed' = missed
  BY DEF WriteFrame
<1>4. pending' = Append(pending, f)
  BY <1>1
<1> HIDE DEF f
<1>5. pending' \in Seq(Frame) /\ pending' # <<>>
  BY <1>2, <1>4 DEF StreamInv, StreamType
<1>6. pending = <<>> => Head(pending') = f
  BY <1>2, <1>4
<1>7. pending # <<>> => Head(pending') = Head(pending)
  BY <1>2, <1>4 DEF StreamInv, StreamType
<1>8. \A g : Bytes(g)' = Bytes(g)
  BY <1>3 DEF Bytes, HeaderLength
<1>9. Bytes(f) > 0
  BY <1>2, BytesNat
<1>10. WithinHead'
  <2>1. CASE pending = <<>>
    BY <1>3, <1>5, <1>6, <1>9, <2>1, HeadBytes DEF WithinHead, StreamInv
  <2>2. CASE pending # <<>>
    BY <1>3, <1>5, <1>7, <2>2, HeadBytes DEF WithinHead, StreamInv
  <2> QED BY <2>1, <2>2
<1> QED BY <1>3, <1>5, <1>10 DEF StreamInv, StreamType, Shifted

LEMMA ReadUnknownKeeps == ASSUME StreamInv, ReadUnknown PROVE StreamInv'
<1> DEFINE f == Head(pending)
           p == (offset + 32) - Bytes(f)
<1>1. program = "ctap" /\ pending # <<>> /\ program' = program
      /\ (offset + 32 < Bytes(f) \/ Len(pending) > 1)
  BY DEF ReadUnknown, ShaLength
<1>2. f \in Frame /\ Tail(pending) \in Seq(Frame) /\ Len(Tail(pending)) = Len(pending) - 1
  BY <1>1, SeqFacts DEF StreamInv, StreamType
<1>3. offset \in Nat /\ offset < Bytes(f) /\ Bytes(f) \in Nat
  BY <1>1, <1>2, BytesNat DEF StreamInv, StreamType, WithinHead
<1>4. PICK q \in Nat : q > 1 /\ Bytes(f) = (32 * q) + 2
  BY <1>1, <1>2, FrameLength
<1>5. missed' = IF offset = 0 THEN 1
                ELSE IF After(32)[2] = 0 THEN missed
                ELSE missed + After(32)[3]
  BY DEF ReadUnknown, ShaLength
<1>6. pending' = After(32)[1] /\ offset' = After(32)[2]
  BY DEF ReadUnknown, ShaLength
<1>7. CASE offset + 32 < Bytes(f)
  <2>1. After(32) = <<pending, offset + 32, 0>>
    BY <1>7 DEF After
  <2>2. pending' = pending /\ offset' = offset + 32 /\ offset' # 0
    BY <1>3, <1>6, <2>1
  <2>3. missed' = IF offset = 0 THEN 1 ELSE missed
    BY <1>3, <1>5, <2>1 DEF StreamInv, StreamType
  <2>4. WithinHead'
    BY <1>1, <1>7, <2>2, HeadBytes DEF WithinHead
  <2>5. StreamType'
    BY <1>1, <1>3, <2>2, <2>3 DEF StreamInv, StreamType
  <2>6. CASE offset = 0
    BY <2>2, <2>3, <2>4, <2>5, <2>6 DEF StreamInv, Shifted
  <2>7. CASE offset # 0
    <3>1. missed \in 1..16 /\ (offset + (2 * (missed - 1))) % 32 = 0
      BY <2>7 DEF StreamInv, StreamType, Shifted
    <3>2. (offset + 32 + (2 * (missed - 1))) % 32 = 0
      BY <1>3, <1>4, <3>1, ShiftArithmetic
    <3>3. Shifted'
      BY <2>2, <2>3, <2>7, <3>1, <3>2 DEF Shifted
    <3> QED BY <2>4, <2>5, <3>3 DEF StreamInv
  <2> QED BY <2>6, <2>7
<1>8. CASE ~(offset + 32 < Bytes(f))
  <2>1. After(32) = <<Tail(pending), p, 1>>
    BY <1>3, <1>8 DEF After
  <2>2. pending' = Tail(pending) /\ offset' = p /\ pending' # <<>>
    BY <1>1, <1>2, <1>6, <1>8, <2>1
  <2>3. offset # 0
    BY <1>3, <1>4, <1>8
  <2>4. missed' = IF p = 0 THEN missed ELSE missed + 1
    BY <1>5, <2>1, <2>3
  <2>5. missed \in 1..16 /\ (offset + (2 * (missed - 1))) % 32 = 0
    BY <2>3 DEF StreamInv, StreamType, Shifted
  <2>6. p # 0 => missed < 16 /\ (p + (2 * missed)) % 32 = 0
    BY <1>3, <1>4, <1>8, <2>5, ShiftArithmetic
  <2>7. p \in 0..31
    BY <1>3, <1>8
  <2> HIDE DEF p
  <2>8. StreamType'
    BY <1>1, <1>2, <2>2, <2>4, <2>5, <2>6, <2>7 DEF StreamInv, StreamType
  <2>9. Shifted'
    <3>1. p # 0 => (missed + 1) - 1 = missed
      BY <2>5
    <3> QED BY <2>2, <2>4, <2>5, <2>6, <3>1 DEF Shifted
  <2>10. WithinHead'
    <3> DEFINE g == Head(Tail(pending))
    <3>1. g \in Frame
      BY <1>2, <2>2, SeqFacts
    <3>2. PICK s \in Nat : s > 1 /\ Bytes(g) = (32 * s) + 2
      BY <1>1, <3>1, FrameLength
    <3> HIDE DEF g
    <3>3. p < Bytes(g)
      BY <2>7, <3>2
    <3> QED BY <1>1, <2>2, <3>3, HeadBytes DEF WithinHead, g
  <2> QED BY <2>8, <2>9, <2>10 DEF StreamInv
<1> QED BY <1>7, <1>8

-----------------------------------------------------------------------------
\* The invariant: where the reader is in the frame at the head.
THEOREM StreamCorrect == StreamSpec => []StreamInv
<1>1. StreamInit => StreamInv
  BY DEF StreamInit, StreamInv, StreamType, WithinHead, Shifted
<1>2. StreamInv /\ [StreamNext]_streamVars => StreamInv'
  <2> SUFFICES ASSUME StreamInv, [StreamNext]_streamVars PROVE StreamInv'
    OBVIOUS
  <2>1. CASE program' = program /\ pending' = pending /\ offset' = offset /\ missed' = missed
    BY <2>1, HeadBytes DEF StreamInv, StreamType, WithinHead, Shifted
  <2>2. CASE ReadFrame
    <3>1. /\ program' = program /\ pending' = Tail(pending) /\ pending # <<>>
          /\ offset = 0 /\ offset' = 0 /\ missed' = 0
      BY <2>2 DEF ReadFrame
    <3>2. pending' \in Seq(Frame)
      BY <3>1, SeqFacts DEF StreamInv, StreamType
    <3>3. pending' # <<>> => Head(pending') \in Frame
      BY <3>2, SeqFacts
    <3>4. WithinHead'
      BY <3>1, <3>3, BytesNat, HeadBytes DEF WithinHead
    <3> QED BY <3>1, <3>2, <3>4 DEF StreamInv, StreamType, Shifted
  <2>3. CASE ReadEnd
    BY <2>3 DEF ReadEnd, StreamInv, StreamType, WithinHead, Shifted
  <2>4. CASE PeerCloses
    BY <2>1, <2>4 DEF PeerCloses
  <2>5. CASE UNCHANGED streamVars
    BY <2>1, <2>5 DEF streamVars
  <2> QED BY <2>2, <2>3, <2>4, <2>5, WriteKeeps, ReadUnknownKeeps DEF StreamNext
<1> QED BY <1>1, <1>2, PTL DEF StreamSpec

\* A frame that is not recognised never costs more than sixteen.
THEOREM LossBounded == StreamSpec => []LossIsBounded
<1>1. StreamInv => LossIsBounded
  BY DEF StreamInv, StreamType, LossIsBounded, ShaLength, LengthLength
<1> QED BY <1>1, StreamCorrect, PTL
=============================================================================
