------------------------- MODULE LeopardTransforms --------------------------
(***************************************************************************)
(* What the two fields of the erasure code of the tunnels have in common:  *)
(* LeopardFF8.cpp and LeopardFF16.cpp repeat this code word for word over  *)
(* symbols of kBits bits.  A field element is the set of its bits, a       *)
(* logarithm is a number; a buffer is one symbol here, as the code treats  *)
(* every byte of the buffers alike.                                        *)
(***************************************************************************)
EXTENDS Integers, Sequences, SequencesExt, FiniteSetsExt, TLC

CONSTANTS
    kBits,          \* 8 for FF8, 16 for FF16
    kPolynomial,    \* the bits of the polynomial of the LFSR
    kCantorBasis    \* kBits elements

kOrder == 2 ^ kBits
kModulus == kOrder - 1
Bits == 0..(kBits - 1)
Element == SUBSET Bits
BitsOf(x) == {b \in Bits : (x \div 2 ^ b) % 2 = 1}

Xor(a, b) == (a \ b) \cup (b \ a)
XorAll(f) == FoldSet(LAMBDA i, x : Xor(x, f[i]), {}, DOMAIN f)
UpTo(k) == [i \in 1..k |-> i - 1]
LogTwo(k) == CHOOSE b \in 0..kBits : 2 ^ b = k

\* f itself, but computed at once: TLC would compute it anew at each use.
Computed(f) == f @@ <<>>

\* Sums and differences of logarithms in kBits bits: kModulus stands for 0 too.
AddMod(a, b) == (a + b + (a + b) \div kOrder) % kOrder
SubMod(a, b) == IF a >= b THEN a - b ELSE kModulus - (b - a)

-----------------------------------------------------------------------------
\* One pass over groups of size positions, dist apart, in the blocks that start
\* in rs: f takes a group and its block to the group's new contents.
InGroups(size, f(_, _), w, dist, rs) ==
    LET at(k) == k - (k % (size * dist))
        firsts == {k \in DOMAIN w : at(k) \in rs /\ k - at(k) < dist}
        done == Computed([k \in firsts |->
                    f([q \in 0..(size - 1) |-> w[k + (q * dist)]], at(k))])
    IN Computed([k \in DOMAIN w |->
            IF at(k) \in rs THEN done[at(k) + (k % dist)][((k - at(k)) \div dist) + 1]
            ELSE w[k]])

\* The fast Walsh-Hadamard transform, two layers at a time, of kOrder numbers of
\* which those from truncated on are 0.
FWHT_2(t, r) == <<AddMod(t[0], t[1]), SubMod(t[0], t[1])>>
FWHT_4(t, r) ==
    LET s01 == AddMod(t[0], t[1])  d01 == SubMod(t[0], t[1])
        s23 == AddMod(t[2], t[3])  d23 == SubMod(t[2], t[3])
    IN <<AddMod(s01, s23), AddMod(d01, d23), SubMod(s01, s23), SubMod(d01, d23)>>
FWHT(data, truncated) ==
    LET pass(w, p) == InGroups(4, FWHT_4, w, 4 ^ p, 0..(truncated - 1))
        even == FoldLeft(pass, Computed(data), UpTo(kBits \div 2))
    IN IF kBits % 2 = 0 THEN even
       ELSE InGroups(2, FWHT_2, even, kOrder \div 2, {0})

-----------------------------------------------------------------------------
\* The powers of x modulo the polynomial, and the change to the Cantor basis.
Doubled(x) ==
    LET y == {b + 1 : b \in x} IN IF kBits \in y THEN Xor(y, kPolynomial) ELSE y
\* In runs: TLC evaluates a fold by recursion, and its stack is not deep enough
\* for a fold over all the powers.
Powers ==
    LET length == 2 ^ (kBits \div 2)
        run(x) == FoldLeft(LAMBDA s, i : Append(s, Doubled(s[Len(s)])), <<x>>, UpTo(length - 1))
    IN FoldLeft(LAMBDA s, i : s \o run(Doubled(s[Len(s)])), run({0}),
                UpTo((kOrder \div length) - 1))
InCantorBasis(x) == XorAll([b \in x |-> kCantorBasis[b + 1]])

LogTable ==
    LET powers == Powers
    IN Computed([x \in Element |->
            IF x = {} THEN kModulus
            ELSE (CHOOSE i \in 1..kModulus : powers[i] = InCantorBasis(x)) - 1])
ExpTable(log) == Computed([i \in 0..kModulus |-> CHOOSE x \in Element : log[x] = i % kModulus])

\* The skew factors.  temp is changed in every round m of the loop; the factors
\* whose number ends in m ones are the sums of the temp[m + u] over the bits u
\* that are set in the rest of the number.
SkewTable(log, Multiply(_, _)) ==
    LET one(x) == log[Xor(x, {0})]
        next(temp, m) ==
            LET inverse == kModulus - log[Multiply(temp[m], one(temp[m]))]
            IN Computed([i \in DOMAIN temp |-> Multiply(temp[i], AddMod(one(temp[i]), inverse))])
        temps == FoldLeft(LAMBDA s, m : Append(s, next(s[Len(s)], m)),
                          <<[i \in 0..(kBits - 2) |-> {i + 1}]>>, UpTo(kBits - 2))
        ones(k) == CHOOSE m \in Bits : k % (2 ^ (m + 1)) = (2 ^ m) - 1
        used(k, m) == {i \in m..(kBits - 2) : (k \div 2 ^ (i + 1)) % 2 = 1}
    IN Computed([k \in 0..(kModulus - 1) |->
            LET m == ones(k) IN log[XorAll([i \in used(k, m) |-> temps[m + 1][i]])]])

WalshTable(log) == FWHT([i \in 0..kModulus |-> IF i = 0 THEN 0 ELSE log[BitsOf(i)]], kOrder)

-----------------------------------------------------------------------------
\* The passes of the transforms of m buffers, given their butterflies and the
\* skew factors; a butterfly of four takes the factors of 0-1, 2-3 and 0-2.

IFFT(dit4(_, _, _, _), dit2(_, _, _), skew(_), work, truncated, m) ==
    LET pass(w, p) ==
            InGroups(4, LAMBDA t, r : dit4(t, skew(r + 4 ^ p), skew(r + (3 * 4 ^ p)),
                                           skew(r + (2 * 4 ^ p))),
                     w, 4 ^ p, 0..(truncated - 1))
        even == FoldLeft(pass, Computed(work), UpTo(LogTwo(m) \div 2))
        half == m \div 2
    IN IF LogTwo(m) % 2 = 0 THEN even
       ELSE InGroups(2, LAMBDA t, r : dit2(t[0], t[1], skew(half)), even, half, {0})

\* needed(size): the blocks of this size that are worked on.
FFT(dit4(_, _, _, _), dit2(_, _, _), skew(_), work, m, needed(_)) ==
    LET pass(w, p) ==
            LET dist == m \div (4 ^ (p + 1))
            IN InGroups(4, LAMBDA t, r : dit4(t, skew(r + dist), skew(r + (3 * dist)),
                                              skew(r + (2 * dist))),
                        w, dist, needed(4 * dist))
        even == FoldLeft(pass, Computed(work), UpTo(LogTwo(m) \div 2))
    IN IF LogTwo(m) % 2 = 0 THEN even
       ELSE InGroups(2, LAMBDA t, r : dit2(t[0], t[1], skew(r + 1)), even, 1, needed(2))

\* The formal derivative, in place: each i adds the block of its lowest bit.
FormalDerivative(work) ==
    LET width(i) == CHOOSE v \in {2 ^ b : b \in 0..kBits} : i % v = 0 /\ (i \div v) % 2 = 1
        add(w, i) == Computed([k \in DOMAIN w |->
            IF k >= i - width(i) /\ k < i THEN Xor(w[k], w[k + width(i)]) ELSE w[k]])
    IN FoldLeft(add, work, [i \in 1..(Cardinality(DOMAIN work) - 1) |-> i])

\* Where symbols are missing: recovery first, then the originals from m on.
Missing(original_count, m, original) ==
    {m + i : i \in (0..(original_count - 1)) \ DOMAIN original}
ErrorLocations(original_count, m, original, recovery) ==
    [i \in 0..kModulus |->
        IF i \in ((0..(m - 1)) \ DOMAIN recovery) \cup Missing(original_count, m, original)
        THEN 1 ELSE 0]
=============================================================================
