------------------------------ MODULE LeopardFF16 ---------------------------
(***************************************************************************)
(* Reed-Solomon codes over symbols of 16 bits (LeopardFF16.cpp), for more  *)
(* shards than FF8 has room for.  Products are put together from tables    *)
(* for four bits each, and OpenMP runs the groups of a pass in parallel:   *)
(* they share no buffer, so the passes compute the same.                   *)
(***************************************************************************)
EXTENDS LeopardTransforms

VARIABLE table      \* the tables of the field: log, exp, mul, skew, walsh

LogLUT == table.log
ExpLUT == table.exp
FFTSkew == table.skew
LogWalsh == table.walsh

MultiplyLog(a, log_b) == IF a = {} THEN {} ELSE ExpLUT[AddMod(LogLUT[a], log_b)]

InitializeLogarithmTables ==
    table' = [table EXCEPT !.log = LogTable, !.exp = ExpTable(LogTable)]

\* Multiply16LUT: the products of every four bits of a symbol.
Nibbles == {s..(s + 3) : s \in {s \in Bits : s % 4 = 0}}
InitializeMultiplyTables ==
    table' = [table EXCEPT !.mul =
        Computed([x \in UNION {SUBSET s : s \in Nibbles}, log_m \in 0..kModulus |->
                      MultiplyLog(x, log_m)])]

FFTInitialize ==
    table' = [table EXCEPT !.skew = SkewTable(LogLUT, MultiplyLog),
                           !.walsh = WalshTable(LogLUT)]

-----------------------------------------------------------------------------
RefMul(y, log_m) ==
    FoldSet(LAMBDA s, product : Xor(product, table.mul[y \cap s, log_m]), {}, Nibbles)
RefMulAdd(x, y, log_m) ==
    FoldSet(LAMBDA s, sum : Xor(sum, table.mul[y \cap s, log_m]), x, Nibbles)

MulAdd(x, y, log_m) == IF log_m = kModulus THEN x ELSE RefMulAdd(x, y, log_m)

IFFT_DIT2(x, y, log_m) == LET y2 == Xor(y, x) IN <<MulAdd(x, y2, log_m), y2>>

IFFT_DIT4(w, log_m01, log_m23, log_m02) ==
    LET a == IFFT_DIT2(w[0], w[1], log_m01)  b == IFFT_DIT2(w[2], w[3], log_m23)
        c == IFFT_DIT2(a[1], b[1], log_m02)  d == IFFT_DIT2(a[2], b[2], log_m02)
    IN <<c[1], d[1], c[2], d[2]>>

FFT_DIT2(x, y, log_m) == LET x2 == MulAdd(x, y, log_m) IN <<x2, Xor(y, x2)>>

FFT_DIT4(w, log_m01, log_m23, log_m02) ==
    LET c == FFT_DIT2(w[0], w[2], log_m02)  d == FFT_DIT2(w[1], w[3], log_m02)
        a == FFT_DIT2(c[1], d[1], log_m01)  b == FFT_DIT2(c[2], d[2], log_m23)
    IN <<a[1], a[2], b[1], b[2]>>

-----------------------------------------------------------------------------
\* skew is the offset of skewLUT into FFTSkew.

IFFT_DIT_Decoder(truncated, work, m, skew) ==
    IFFT(IFFT_DIT4, IFFT_DIT2, LAMBDA i : FFTSkew[skew + i], work, truncated, m)

\* The result is added to xor_result, unless that is null, after the last layer.
IFFT_DIT_Encoder(data, truncated, xor_result, m, skew) ==
    LET work == [i \in 0..(m - 1) |-> IF i < truncated THEN data[i] ELSE {}]
        done == IFFT_DIT_Decoder(truncated, work, m, skew)
    IN IF xor_result = <<>> THEN done
       ELSE Computed([i \in 0..(m - 1) |-> Xor(xor_result[i], done[i])])

FFT_DIT(work, truncated, m, skew) ==
    FFT(FFT_DIT4, FFT_DIT2, LAMBDA i : FFTSkew[skew + i], work, m,
        LAMBDA size : 0..(truncated - 1))

\* The mips of the error bits, up to the level before the last.
IsNeeded(errors, size, r) == size >= kOrder \/ \E e \in errors : e \div size = r \div size

FFT_DIT_ErrorBits(work, truncated, n, skew, errors) ==
    FFT(FFT_DIT4, FFT_DIT2, LAMBDA i : FFTSkew[skew + i], work, n,
        LAMBDA size : {r \in 0..(truncated - 1) : IsNeeded(errors, size, r)})

-----------------------------------------------------------------------------
ReedSolomonEncode(original_count, recovery_count, m, data) ==
    LET chunk(c) == [i \in 0..(m - 1) |-> IF (c * m) + i < original_count
                                          THEN data[(c * m) + i] ELSE {}]
        add(work, c) == IFFT_DIT_Encoder(chunk(c), Min({m, original_count - (c * m)}), work,
                                         m, m - 1 + (c * m))
        work == FoldLeft(add, <<>>, UpTo((original_count + m - 1) \div m))
    IN FFT_DIT(work, recovery_count, m, -1)

\* ReedSolomonDecode in the same four parts as that of FF8.
LocateErrors(locations, truncated) ==
    LET walsh == FWHT(locations, truncated)
    IN FWHT([i \in 0..kModulus |-> (walsh[i] * LogWalsh[i]) % kModulus], kOrder)

Spread(original_count, m, n, original, recovery, locations) ==
    IFFT_DIT_Decoder(m + original_count,
        [i \in 0..(n - 1) |->
            CASE i \in DOMAIN recovery -> RefMul(recovery[i], locations[i])
              [] i - m \in DOMAIN original -> RefMul(original[i - m], locations[i])
              [] OTHER -> {}],
        n, -1)

Derive(work) == FormalDerivative(work)

Reveal(work, original_count, m, n, errors, locations) ==
    LET found == FFT_DIT_ErrorBits(work, m + original_count, n, -1, errors)
    IN Computed([i \in {e - m : e \in errors} |->
                    RefMul(found[m + i], kModulus - locations[m + i])])
=============================================================================
