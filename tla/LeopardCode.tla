---------------------------- MODULE LeopardCode -----------------------------
(***************************************************************************)
(* The interface of the erasure code of the tunnels (leopard.cpp):         *)
(* originals are encoded, some shards are lost on the way, and the missing *)
(* originals are computed from the others.  Small codes are computed over  *)
(* the field of FF8, larger ones over that of FF16.                        *)
(***************************************************************************)
EXTENDS Integers, FiniteSets, FiniteSetsExt

CONSTANTS
    Codes,                          \* pairs: numbers of originals and of recovery shards
    Losses(_, _),                   \* the sets of shards that may get lost, for each pair
    Bits8, Polynomial8, Basis8,     \* the fields: that of FF8 ...
    Bits16, Polynomial16, Basis16   \* ... and that of FF16

VARIABLES
    table8, table16,  \* the tables of the fields
    leoStep,          \* how far the calls have come
    originals,        \* the originals that were encoded
    shards,           \* what the receiver has: originals and recovery
    leoWork,          \* the work buffers
    locations         \* the error locations

codeVars == <<table8, table16, leoStep, originals, shards, leoWork, locations>>

FF8 == INSTANCE LeopardFF8
    WITH kBits <- Bits8, kPolynomial <- Polynomial8, kCantorBasis <- Basis8, table <- table8
FF16 == INSTANCE LeopardFF16
    WITH kBits <- Bits16, kPolynomial <- Polynomial16, kCantorBasis <- Basis16,
         table <- table16

-----------------------------------------------------------------------------
original_count == Cardinality(DOMAIN originals)
recovery_count == shards.recovery_count

NextPow2(k) == CHOOSE p \in {2 ^ b : b \in 0..16} : p >= k /\ p < 2 * k
rows(k, r) == NextPow2(NextPow2(r) + k)

Single(k, r) == k = 1 \/ r = 1
UsesFF8(k, r) == ~Single(k, r) /\ rows(k, r) <= FF8!kOrder
UsesFF16(k, r) == ~Single(k, r) /\ rows(k, r) > FF8!kOrder /\ rows(k, r) <= FF16!kOrder
TooMuchData(k, r) == ~Single(k, r) /\ rows(k, r) > FF16!kOrder

NoTables == [log |-> <<>>, exp |-> <<>>, mul |-> <<>>, skew |-> <<>>, walsh |-> <<>>]

CodeInit ==
    /\ table8 = NoTables /\ table16 = NoTables
    /\ leoStep = "start"
    /\ originals = <<>> /\ leoWork = <<>> /\ locations = <<>>
    /\ shards = [original |-> <<>>, recovery |-> <<>>, recovery_count |-> 0]

Stepped(from, to) == leoStep = from /\ leoStep' = to

\* leo_init: both fields, one table after the other.
LogarithmTables ==
    /\ Stepped("start", "logarithms")
    /\ FF8!InitializeLogarithmTables /\ FF16!InitializeLogarithmTables
    /\ UNCHANGED <<originals, shards, leoWork, locations>>
MultiplyTables ==
    /\ Stepped("logarithms", "products")
    /\ FF8!InitializeMultiplyTables /\ FF16!InitializeMultiplyTables
    /\ UNCHANGED <<originals, shards, leoWork, locations>>
SkewTables ==
    /\ Stepped("products", "initialized")
    /\ FF8!FFTInitialize /\ FF16!FFTInitialize
    /\ UNCHANGED <<originals, shards, leoWork, locations>>

-----------------------------------------------------------------------------
\* The originals: any symbols do, the code is linear in them.
Symbol(k, r, i) == IF UsesFF16(k, r) THEN FF16!BitsOf(((7 * i) + 3) % FF16!kOrder)
                   ELSE FF8!BitsOf(((5 * i) + 3) % FF8!kOrder)

EncodeM1(data) == [i \in {0} |-> FF8!XorAll(data)]

\* The recovery shards, or none where there is no such code.
leo_encode(data, k, r) ==
    CASE k = 1 -> data
      [] k # 1 /\ r = 1 -> EncodeM1(data)
      [] UsesFF8(k, r) -> FF8!ReedSolomonEncode(k, r, NextPow2(r), data)
      [] UsesFF16(k, r) -> FF16!ReedSolomonEncode(k, r, NextPow2(r), data)
      [] TooMuchData(k, r) -> <<>>

Encode(k, r) ==
    /\ ~TooMuchData(k, r)
    /\ Stepped("initialized", "encoded")
    /\ originals' = [i \in 0..(k - 1) |-> Symbol(k, r, i)]
    /\ \E recovery \in {leo_encode([i \in 0..(k - 1) |-> Symbol(k, r, i)], k, r)} :
          shards' = [original |-> originals', recovery |-> [i \in 0..(r - 1) |-> recovery[i]],
                     recovery_count |-> r]
    /\ UNCHANGED <<table8, table16, leoWork, locations>>

\* Shards get lost: the originals are numbered first, then the recovery shards.
Lose(lost) ==
    /\ Stepped("encoded", "arrived")
    /\ shards' = [shards EXCEPT
          !.original = [i \in {i \in DOMAIN @ : i \notin lost} |-> @[i]],
          !.recovery = [i \in {i \in DOMAIN @ : original_count + i \notin lost} |-> @[i]]]
    /\ UNCHANGED <<table8, table16, originals, leoWork, locations>>

-----------------------------------------------------------------------------
m == NextPow2(recovery_count)
n == rows(original_count, recovery_count)
MissingOriginals == DOMAIN originals \ DOMAIN shards.original
NeedMoreData == Cardinality(DOMAIN shards.recovery) < Cardinality(MissingOriginals)
\* Mutant of Errors: the places of the originals without the recovery shards.
ErrorsInOriginals == MissingOriginals

Errors == {m + i : i \in MissingOriginals}
OverFF8 == UsesFF8(original_count, recovery_count)

\* leo_decode refuses what cannot be decoded, and treats one original and one
\* recovery shard by themselves.
Refuse ==
    /\ NeedMoreData
    /\ Stepped("arrived", "refused")
    /\ UNCHANGED <<table8, table16, originals, shards, leoWork, locations>>

DecodeM1(data, recovery) == FF8!Xor(recovery, FF8!XorAll(data))

DecodeSingle ==
    /\ ~NeedMoreData /\ Single(original_count, recovery_count)
    /\ Stepped("arrived", "decoded")
    /\ leoWork' = IF original_count = 1
                  THEN [i \in MissingOriginals |-> shards.recovery[Min(DOMAIN shards.recovery)]]
                  ELSE [i \in MissingOriginals |-> DecodeM1(shards.original, shards.recovery[0])]
    /\ UNCHANGED <<table8, table16, originals, shards, locations>>

\* ReedSolomonDecode, a transform at a time.
Locate ==
    /\ ~NeedMoreData /\ ~Single(original_count, recovery_count)
    /\ Stepped("arrived", "located")
    /\ LET given == FF8!ErrorLocations(original_count, m, shards.original, shards.recovery)
           given16 == FF16!ErrorLocations(original_count, m, shards.original, shards.recovery)
       IN locations' = IF OverFF8 THEN FF8!LocateErrors(given, m + original_count)
                       ELSE FF16!LocateErrors(given16, m + original_count)
    /\ UNCHANGED <<table8, table16, originals, shards, leoWork>>

Transform ==
    /\ Stepped("located", "spread")
    /\ leoWork' =
          IF OverFF8
          THEN FF8!Spread(original_count, m, n, shards.original, shards.recovery, locations)
          ELSE FF16!Spread(original_count, m, n, shards.original, shards.recovery, locations)
    /\ UNCHANGED <<table8, table16, originals, shards, locations>>

Differentiate ==
    /\ Stepped("spread", "derived")
    /\ leoWork' = IF OverFF8 THEN FF8!Derive(leoWork) ELSE FF16!Derive(leoWork)
    /\ UNCHANGED <<table8, table16, originals, shards, locations>>

RevealErasures ==
    /\ Stepped("derived", "decoded")
    /\ leoWork' =
          IF OverFF8 THEN FF8!Reveal(leoWork, original_count, m, n, Errors, locations)
          ELSE FF16!Reveal(leoWork, original_count, m, n, Errors, locations)
    /\ UNCHANGED <<table8, table16, originals, shards, locations>>

CodeNext ==
    \/ LogarithmTables \/ MultiplyTables \/ SkewTables
    \/ \E c \in Codes : Encode(c[1], c[2])
    \/ \E lost \in Losses(original_count, recovery_count) : Lose(lost)
    \/ Refuse \/ DecodeSingle
    \/ Locate \/ Transform \/ Differentiate \/ RevealErasures

CodeSpec == CodeInit /\ [][CodeNext]_codeVars

-----------------------------------------------------------------------------
\* Whatever shards are lost, no more of them than there are recovery shards in
\* all, leo_decode computes exactly the originals that were encoded: the skew
\* factors, the locator polynomial, the truncated transforms and the blocks that
\* the error bits skip all have to agree for that.
LostIsRecovered ==
    leoStep = "decoded" => leoWork = [i \in MissingOriginals |-> originals[i]]
=============================================================================
