------------------------------ MODULE Hamming ------------------------------
(***************************************************************************)
(* The correction of the sifted key (kks_console/HammingCode.cpp): Bob     *)
(* computes the control bits of his key and sends them to Alice, who       *)
(* computes those of hers and inverts the bit that the difference names.   *)
(* Bits are counted from 1.  The loops that count the ones also read the   *)
(* bit after the last one, whatever it is.                                 *)
(***************************************************************************)
EXTENDS Integers, Sequences, FiniteSets

CONSTANTS
    KeyLengths,   \* the lengths of sifted keys
    MaxWrong      \* bound: bits in which Alice's key differs from Bob's

Bits == {0, 1}

VARIABLES
    hamStep,      \* how far the two have come
    bobKey, aliceKey,
    bobBeyond, aliceBeyond,   \* the bit after the last one
    bobControls,  \* what Bob sends
    corrected     \* what Alice's HammingDecode returns

hamVars == <<hamStep, bobKey, aliceKey, bobBeyond, aliceBeyond, bobControls, corrected>>

HamInit ==
    /\ hamStep = "start"
    /\ bobKey = <<>> /\ aliceKey = <<>> /\ bobControls = <<>> /\ corrected = <<>>
    /\ bobBeyond = 0 /\ aliceBeyond = 0

-----------------------------------------------------------------------------
\* The control bits inserted into a key of length len, and its length with them.
Inserted(len) == CHOOSE r \in 0..len : 2 ^ r >= len + r /\ \A s \in 0..(r - 1) : 2 ^ s < len + s
CodedLength(len) == len + Inserted(len)
ControlPlaces(len) == {2 ^ i : i \in 0..(Inserted(len) - 1)}

\* A key with its control bits, all 0 as yet, and the bit beyond its end.
Coded(key, beyond) ==
    LET len == Len(key)
        places == ControlPlaces(len)
    IN [p \in 1..(CodedLength(len) + 1) |->
          IF p > CodedLength(len) THEN beyond
          ELSE IF p \in places THEN 0 ELSE key[p - Cardinality({q \in places : q < p})]]

\* The places counted for control bit st, in blocks of 2^st after every 2^st:
\* also the place after the last one, unless a block would start there.
Counted(st, size) ==
    {p \in 1..(size + 1) : /\ (p \div 2 ^ st) % 2 = 1
                           /\ p = size + 1 => p % 2 ^ st # 0}

OddOnes(code, st) == Cardinality({p \in Counted(st, Len(code) - 1) : code[p] = 1}) % 2 = 1

\* The key once its control bits are set.  Where 2^st is the length of the code
\* the place that is set is that of its last data bit.
WithControls(key, beyond) ==
    LET code == Coded(key, beyond)
    IN [p \in 1..CodedLength(Len(key)) |->
          IF \E st \in 0..Len(key) : p = 2 ^ st /\ OddOnes(code, st) THEN 1 ELSE code[p]]

\* Mutant of HammingCode: every control bit but the last is sent.
HammingCodeShort(key, beyond) ==
    [i \in 1..(Inserted(Len(key)) - 1) |-> WithControls(key, beyond)[2 ^ (i - 1)]]

\* The control bits that are sent.
HammingCode(key, beyond) ==
    [i \in 1..Inserted(Len(key)) |-> WithControls(key, beyond)[2 ^ (i - 1)]]

\* The place that the difference of the control bits names, 0 for none.
WrongPlace(key, beyond, controls) ==
    LET differ == {i \in DOMAIN controls : controls[i] # HammingCode(key, beyond)[i]}
        sum[S \in SUBSET differ] ==
            IF S = {} THEN 0 ELSE LET i == CHOOSE i \in S : TRUE IN 2 ^ (i - 1) + sum[S \ {i}]
    IN sum[differ]

\* The control bits that the last loop erases: it compares their places with a
\* length that shrinks meanwhile, and may leave the last one in the key.
Erased(len) == {2 ^ i : i \in {i \in 0..(Inserted(len) - 1) : 2 ^ i < CodedLength(len) - i}}

\* HammingDecode.  A place beyond the end is inverted outside the key.
HammingDecode(key, beyond, controls) ==
    LET place == WrongPlace(key, beyond, controls)
        set == WithControls(key, beyond)
        code == [p \in DOMAIN set |-> IF p = place THEN 1 - set[p] ELSE set[p]]
        rest == DOMAIN code \ Erased(Len(key))
    IN [j \in 1..Cardinality(rest) |->
          code[CHOOSE p \in rest : Cardinality({q \in rest : q <= p}) = j]]

-----------------------------------------------------------------------------
\* Environment: two sifted keys, Alice's with some bits wrong.
SiftedKeys ==
    /\ hamStep = "start" /\ hamStep' = "sifted"
    /\ \E len \in KeyLengths : bobKey' \in [1..len -> Bits]
    /\ \E wrong \in SUBSET (DOMAIN bobKey') :
          /\ Cardinality(wrong) <= MaxWrong
          /\ aliceKey' = [i \in DOMAIN bobKey' |-> IF i \in wrong THEN 1 - bobKey'[i] ELSE bobKey'[i]]
    /\ bobBeyond' \in Bits /\ aliceBeyond' \in Bits
    /\ UNCHANGED <<bobControls, corrected>>

\* Bob: HammingCode(key) is sent.
SendControls ==
    /\ hamStep = "sifted" /\ hamStep' = "sent"
    /\ bobControls' = HammingCode(bobKey, bobBeyond)
    /\ UNCHANGED <<bobKey, aliceKey, bobBeyond, aliceBeyond, corrected>>

\* Alice: key = HammingDecode(key, ham_code).
Correct ==
    /\ hamStep = "sent" /\ hamStep' = "corrected"
    /\ corrected' = HammingDecode(aliceKey, aliceBeyond, bobControls)
    /\ UNCHANGED <<bobKey, aliceKey, bobBeyond, aliceBeyond, bobControls>>

HamNext == SiftedKeys \/ SendControls \/ Correct

HamSpec == HamInit /\ [][HamNext]_hamVars

-----------------------------------------------------------------------------
Wrong == {i \in DOMAIN bobKey : aliceKey[i] # bobKey[i]}

\* The last loop erases every control bit for these lengths only (2, 4, 5, 8 to
\* 12 and so on), and the last bit of a code as long as a power of two has no
\* control bit that counts it.
AllErased(len) == Erased(len) = ControlPlaces(len)
LastUncounted(len) == \E i \in 0..len : CodedLength(len) = 2 ^ i

\* Where the two read the same bit beyond the end, keys of such lengths that
\* differ in at most one bit are made equal: the counting of the ones, the
\* naming of the place and the erasing all agree.  A code as long as a power of
\* two needs a 0 beyond its end, and its last bit to be right.
OneErrorIsCorrected ==
    LET len == Len(bobKey)
    IN (/\ hamStep = "corrected"
        /\ AllErased(len)
        /\ Cardinality(Wrong) <= 1
        /\ aliceBeyond = bobBeyond
        /\ LastUncounted(len) => bobBeyond = 0 /\ len \notin Wrong)
       => corrected = bobKey
=============================================================================
