------------------------------ MODULE SimdSse -------------------------------
(***************************************************************************)
(* simd_math.h on SSE registers (internal/simd_math_sse-inl.h), without    *)
(* and with the instructions of SSE 4.1.  FMA and AVX change the rounding  *)
(* and the encoding of instructions, and no lane.                          *)
(*                                                                         *)
(* Functions that share a place in the file share a definition: a record   *)
(* of what each returns of the same arguments.                             *)
(***************************************************************************)
EXTENDS LaneNumbers

CONSTANT Sse41      \* the build has SSE 4.1, and with it SSSE3

-----------------------------------------------------------------------------
(* The instructions, by the lanes they move.  Estimates are exact.         *)

Zeros == Splat(0)

SetSs(x) == <<x, 0, 0, 0>>

MoveSs(a, b) == <<b[1], a[2], a[3], a[4]>>

Unpacklo(a, b) == <<a[1], b[1], a[2], b[2]>>

Unpackhi(a, b) == <<a[3], b[3], a[4], b[4]>>

Movelh(a, b) == <<a[1], a[2], b[1], b[2]>>

Movehl(a, b) == <<b[3], b[4], a[3], a[4]>>

\* Lanes are named as _MM_SHUFFLE names them, the last one first.
Shuffle(a, b, w, z, y, x) == <<a[x + 1], a[y + 1], b[z + 1], b[w + 1]>>

SqrtPs(a) == [l \in Lanes |-> SquareRoot[a[l]]]

RcpPs(a) == [l \in Lanes |-> Reciprocal[a[l]]]

RsqrtPs(a) == [l \in Lanes |-> Reciprocal[SquareRoot[a[l]]]]

DpPs(a, b, n) == Splat(Dot(a, b, n))

\* The second operand is what comes of NaN, on either side.
MinPs(a, b) == [l \in Lanes |-> IF Less(a[l], b[l]) THEN a[l] ELSE b[l]]

MaxPs(a, b) == [l \in Lanes |-> IF Less(b[l], a[l]) THEN a[l] ELSE b[l]]

CmpltPs(a, b) == [l \in Lanes |-> Mask(Less(a[l], b[l]))]

CmplePs(a, b) == [l \in Lanes |-> Mask(Less(a[l], b[l]) \/ Equal(a[l], b[l]))]

CmpeqPs(a, b) == [l \in Lanes |-> Mask(Equal(a[l], b[l]))]

-----------------------------------------------------------------------------
(* Bits.                                                                   *)

ZeroBits == Splat({})

AndBits(a, b) == [l \in Lanes |-> a[l] \cap b[l]]

AndnotBits(a, b) == [l \in Lanes |-> b[l] \ a[l]]

OrBits(a, b) == [l \in Lanes |-> a[l] \cup b[l]]

XorBits(a, b) == [l \in Lanes |-> Xor(a[l], b[l])]

Slli(a, n) == [l \in Lanes |-> ShiftLeft(a[l], n)]

Srli(a, n) == [l \in Lanes |-> ShiftRight(a[l], n)]

Srai(a, n) == [l \in Lanes |-> ShiftArithmetic(a[l], n)]

\* Of a whole register, by lanes.
SlliSi128(a, n) == [l \in Lanes |-> IF l > n THEN a[l - n] ELSE {}]

SrliSi128(a, n) == [l \in Lanes |-> IF l + n <= 4 THEN a[l + n] ELSE {}]

CmpeqBits(a, b) == [l \in Lanes |-> Mask(a[l] = b[l])]

CmpltBits(a, b) == [l \in Lanes |-> Mask(IntLess(a[l], b[l]))]

AddBits(a, b) == [l \in Lanes |-> Sum(a[l], b[l])]

SubBits(a, b) == [l \in Lanes |-> Sum(a[l], Sum(Not(b[l]), {0}))]

\* The sign bits of the lanes.
Movemask(a) == {l - 1 : l \in {k \in Lanes : 31 \in a[k]}}

\* A lane is chosen by a sign bit for floats, and byte by byte for integers.
Blendv(f, t, b) == [l \in Lanes |-> IF 31 \in b[l] THEN t[l] ELSE f[l]]

\* The nearest integer, of two the even one; numbers are in halves.
CvtpsEpi32(h) ==
    [l \in Lanes |->
        IntBits(IF h[l] % 2 = 0 \/ (h[l] \div 2) % 2 = 0 THEN h[l] \div 2
                ELSE h[l] \div 2 + 1)]

Toward0(h) == IF h < 0 THEN -(-h \div 2) ELSE h \div 2

CvttpsEpi32(h) == [l \in Lanes |-> IntBits(Toward0(h[l]))]

AbsEpi32(a) == [l \in Lanes |-> IF 31 \in a[l] THEN Sum(Not(a[l]), {0}) ELSE a[l]]

MinEpi32(a, b) == [l \in Lanes |-> IF IntLess(a[l], b[l]) THEN a[l] ELSE b[l]]

MaxEpi32(a, b) == [l \in Lanes |-> IF IntLess(a[l], b[l]) THEN b[l] ELSE a[l]]

BlendvEpi8(f, t, b) ==
    [l \in Lanes |->
        {p \in Bits : p \in IF 8 * (p \div 8) + 7 \in b[l] THEN t[l] ELSE f[l]}]

-----------------------------------------------------------------------------
(* The macros.                                                             *)

SplatF(v, n) == Shuffle(v, v, n, n, n, n)

AddSs(a, b) == MoveSs(a, Plus(a, b))

MulSs(a, b) == MoveSs(a, Times(a, b))

HAdd2(v) == AddSs(v, SplatF(v, 1))

HAdd3(v) == AddSs(AddSs(v, SplatF(v, 2)), SplatF(v, 1))

HAdd4(v) == LET xyzw == Plus(v, Movehl(v, v)) IN AddSs(xyzw, SplatF(xyzw, 1))

Dot2(a, b) == LET ab == Times(a, b) IN AddSs(ab, SplatF(ab, 1))

Dot3(a, b) == IF Sse41 THEN DpPs(a, b, 3) ELSE HAdd3(Times(a, b))

Dot4(a, b) == IF Sse41 THEN DpPs(a, b, 4) ELSE HAdd4(Times(a, b))

MAdd(a, b, c) == Plus(Times(a, b), c)

MSub(a, b, c) == Minus(Times(a, b), c)

NMAdd(a, b, c) == Minus(c, Times(a, b))

NMSub(a, b, c) == Negative(Plus(Times(a, b), c))

NMAddX(a, b, c) == MoveSs(c, Minus(c, MulSs(a, b)))

\* Of bits.  Numbers are selected as their bits are, by masks of all ones or none.
Select(b, t, f) ==
    IF Sse41 THEN Blendv(f, t, b) ELSE OrBits(AndBits(t, b), AndnotBits(b, f))

SelectI(b, t, f) ==
    IF Sse41 THEN BlendvEpi8(f, t, b) ELSE OrBits(AndBits(t, b), AndnotBits(b, f))

SelectNumbers(b, t, f) == [l \in Lanes |-> IF b[l] = True THEN t[l] ELSE f[l]]

-----------------------------------------------------------------------------
(* Vectors of floats.                                                      *)

\* zero to w_axis: the bits of 1.0f are made of those of all ones.
Constants ==
    LET one == Srli(Slli(CmpeqBits(ZeroBits, ZeroBits), 25), 2)
    IN  [zero |-> ZeroBits, one |-> one, x_axis |-> SrliSi128(one, 3),
         y_axis |-> SlliSi128(SrliSi128(one, 3), 1),
         z_axis |-> SlliSi128(SrliSi128(one, 3), 2), w_axis |-> SlliSi128(one, 3)]

\* Load to FromInt, of four floats in memory and of integers.
Loads(f, i) ==
    [Load |-> f, LoadX |-> SetSs(f[1]), Load1 |-> Splat(f[1]),
     LoadPtr |-> f, LoadPtrU |-> f, LoadXPtrU |-> SetSs(f[1]), Load1PtrU |-> Splat(f[1]),
     Load2PtrU |-> Unpacklo(SetSs(f[1]), SetSs(f[2])),
     Load3PtrU |-> Movelh(Unpacklo(SetSs(f[1]), SetSs(f[2])), SetSs(f[3])),
     FromInt |-> [l \in Lanes |-> Wrap(IntOf(i[l]))]]

\* GetX to Swizzle; ith is the lane SetI sets, and memory what is stored over.
Access(v, f, ith, memory) ==
    LET low(m)  == <<v[1], v[2], m[3], m[4]>>
        last(m) == [m EXCEPT ![3] = Movehl(v, v)[1]]
        ffww    == Shuffle(f, v, 3, 3, 0, 0)
        ffzz    == Shuffle(f, v, 2, 2, 0, 0)
    IN  [GetX |-> <<v[1]>>, GetY |-> <<SplatF(v, 1)[1]>>,
         GetZ |-> <<Movehl(v, v)[1]>>, GetW |-> <<SplatF(v, 3)[1]>>,
         SetX |-> MoveSs(v, f),
         SetY |-> Shuffle(Unpacklo(v, f), v, 3, 2, 1, 0),
         SetZ |-> Shuffle(v, ffww, 2, 0, 1, 0),
         SetW |-> Shuffle(v, ffzz, 0, 2, 1, 0),
         SetI |-> [v EXCEPT ![ith + 1] = f[1]],
         StorePtr |-> v, Store1Ptr |-> MoveSs(memory, v), Store2Ptr |-> low(memory),
         Store3Ptr |-> last(low(memory)),
         StorePtrU |-> v, Store1PtrU |-> MoveSs(memory, v),
         Store2PtrU |-> [memory EXCEPT ![1] = v[1], ![2] = SplatF(v, 1)[1]],
         Store3PtrU |-> last([memory EXCEPT ![1] = v[1], ![2] = SplatF(v, 1)[1]]),
         SplatX |-> SplatF(v, 0), SplatY |-> SplatF(v, 1),
         SplatZ |-> SplatF(v, 2), SplatW |-> SplatF(v, 3),
         Swizzle3120 |-> Shuffle(v, v, 0, 2, 1, 3), Swizzle0123 |-> v,
         Swizzle0101 |-> Movelh(v, v), Swizzle2323 |-> Movehl(v, v),
         Swizzle0011 |-> Unpacklo(v, v), Swizzle2233 |-> Unpackhi(v, v)]

\* Four vectors, of which the first and the third, then the second and the fourth
\* are interleaved, and the two that gives again.
Interleave(a, b, c, d) ==
    <<Unpacklo(Unpacklo(a, c), Unpacklo(b, d)), Unpackhi(Unpacklo(a, c), Unpacklo(b, d)),
      Unpacklo(Unpackhi(a, c), Unpackhi(b, d)), Unpackhi(Unpackhi(a, c), Unpackhi(b, d))>>

\* Transpose4x1 to Transpose16x16, of as many of the sixteen vectors as each takes.
Transposes(m) ==
    LET four  == Interleave(m[1], m[2], m[3], m[4])
        lo    == Unpacklo(m[1], m[2])
        hi    == Unpackhi(m[1], m[2])
        lo3   == Unpacklo(m[3], Zeros)
        hi3   == Unpackhi(m[3], Zeros)
        first(v) == MoveSs(Zeros, v)
    IN  [Transpose4x1 |-> <<Unpacklo(Unpacklo(m[1], m[3]), Unpacklo(m[2], m[4]))>>,
         Transpose1x4 |-> <<first(m[1]), first(SplatF(m[1], 1)),
                            first(Movehl(m[1], m[1])), first(SplatF(m[1], 3))>>,
         Transpose4x2 |-> SubSeq(four, 1, 2),
         Transpose2x4 |-> <<Movelh(lo, Zeros), Movehl(Zeros, lo),
                            Movelh(hi, Zeros), Movehl(Zeros, hi)>>,
         Transpose4x3 |-> SubSeq(four, 1, 3),
         Transpose3x4 |-> <<Movelh(lo, lo3), Movehl(lo3, lo), Movelh(hi, hi3), Movehl(hi3, hi)>>,
         Transpose4x4 |-> four,
         Transpose16x16 |->
            [n \in 1 .. 16 |->
                LET from == 4 * ((n - 1) % 4)
                IN  Interleave(m[from + 1], m[from + 2], m[from + 3], m[from + 4])
                        [(n - 1) \div 4 + 1]]]

\* MAdd to Cross3.
Arithmetic(a, b, c) ==
    LET yzx == Shuffle(a, a, 3, 0, 2, 1)
        zxy == Shuffle(b, b, 3, 1, 0, 2)
        ab  == Times(yzx, b)
    IN  [MAdd |-> MAdd(a, b, c), MSub |-> MSub(a, b, c),
         NMAdd |-> NMAdd(a, b, c), NMSub |-> NMSub(a, b, c),
         DivX |-> MoveSs(a, Over(a, b)),
         HAdd2 |-> HAdd2(a), HAdd3 |-> HAdd3(a), HAdd4 |-> HAdd4(a),
         Dot2 |-> Dot2(a, b), Dot3 |-> Dot3(a, b), Dot4 |-> Dot4(a, b),
         Cross3 |-> Minus(Times(yzx, zxy), Shuffle(ab, ab, 3, 0, 2, 1))]

\* RcpEst to RSqrtEstXNR: the estimate, and the step of Newton's that refines it.
Estimates(v) ==
    LET rcp   == RcpPs(v)
        rcpX  == MoveSs(v, rcp)
        rs    == RsqrtPs(v)
        rsX   == MoveSs(v, rs)
        half  == Splat(Reciprocal[2])
    IN  [RcpEst |-> rcp, RcpEstNR |-> NMAdd(Times(rcp, rcp), v, Plus(rcp, rcp)),
         RcpEstX |-> rcpX, RcpEstXNR |-> NMAddX(MulSs(rcpX, rcpX), v, AddSs(rcpX, rcpX)),
         Sqrt |-> SqrtPs(v), SqrtX |-> MoveSs(v, SqrtPs(v)),
         RSqrtEst |-> rs,
         RSqrtEstNR |-> Times(Times(half, rs), NMAdd(Times(v, rs), rs, Splat(3))),
         RSqrtEstX |-> rsX,
         RSqrtEstXNR |-> MulSs(MulSs(half, rsX), NMAddX(MulSs(v, rsX), rsX, Splat(3)))]

\* Abs and Sign, of bits.
SignBits(v) ==
    [Abs |-> AndBits(Srli(CmpeqBits(ZeroBits, ZeroBits), 1), v),
     Sign |-> Slli(Srli(v, 31), 31)]

\* Length2 to NormalizeEst4.
InvLen(square) == Divide(1, SquareRoot[square[1]])

Reversed(v) == Shuffle(v, v, 0, 1, 2, 3)

Normalized2(v, inv) == Movelh(Times(v, Splat(inv)), Movehl(v, v))

Normalized3(v, inv) ==
    LET vwxyz == Reversed(v) IN Reversed(MoveSs(Times(vwxyz, Splat(inv)), vwxyz))

Lengths(v) ==
    LET d2 == Dot2(v, v)  d3 == Dot3(v, v)  d4 == Dot4(v, v)
        root(d) == MoveSs(d, SqrtPs(d))
        est(d)  == RsqrtPs(d)[1]
    IN  [Length2 |-> root(d2), Length3 |-> root(d3), Length4 |-> root(d4),
         Length2Sqr |-> d2, Length3Sqr |-> d3, Length4Sqr |-> d4,
         Normalize2 |-> Normalized2(v, InvLen(d2)), Normalize3 |-> Normalized3(v, InvLen(d3)),
         Normalize4 |-> Times(v, Splat(InvLen(d4))),
         NormalizeEst2 |-> Normalized2(v, est(d2)), NormalizeEst3 |-> Normalized3(v, est(d3)),
         NormalizeEst4 |-> Times(v, Splat(est(d4)))]

\* IsNormalized2 to NormalizeSafeEst4; a square is within a tolerance of 1 that is less
\* than any number's distance from it, and half of 1 here.
Safely(normal, square, safe) ==
    SelectNumbers(CmplePs(SplatF(square, 0), Zeros), safe, normal)

SafeNormals(v, safe) ==
    LET d2 == Dot2(v, v)  d3 == Dot3(v, v)  d4 == Dot4(v, v)
        est(d) == RsqrtPs(d)[1]
        within(d) ==
            LET doubled == MoveSs(Zeros, Plus(d, d))
            IN  MoveSs(ZeroBits,
                       AndBits(CmpltPs(doubled, SetSs(3)), CmpltPs(SetSs(1), doubled)))
    IN  [IsNormalized2 |-> within(d2), IsNormalized3 |-> within(d3),
         IsNormalized4 |-> within(d4), IsNormalizedEst2 |-> within(d2),
         IsNormalizedEst3 |-> within(d3), IsNormalizedEst4 |-> within(d4),
         NormalizeSafe2 |-> Safely(Normalized2(v, InvLen(d2)), d2, safe),
         NormalizeSafe3 |-> Safely(Normalized3(v, InvLen(d3)), d3, safe),
         NormalizeSafe4 |-> Safely(Times(v, Splat(InvLen(d4))), d4, safe),
         NormalizeSafeEst2 |-> Safely(Normalized2(v, est(d2)), d2, safe),
         NormalizeSafeEst3 |-> Safely(Normalized3(v, est(d3)), d3, safe),
         NormalizeSafeEst4 |-> Safely(Times(v, Splat(est(d4))), d4, safe)]

\* Lerp, of its own among these.
Lerp(a, b, alpha) == MAdd(alpha, Minus(b, a), a)

\* Min to Clamp.
Extremes(a, v, b) ==
    [Min |-> MinPs(a, b), Max |-> MaxPs(a, b),
     Min0 |-> MinPs(Zeros, v), Max0 |-> MaxPs(Zeros, v),
     Clamp |-> MaxPs(a, MinPs(v, b))]

\* CmpEq to CmpGe.
Comparisons(a, b) ==
    [CmpEq |-> CmpeqPs(a, b), CmpNe |-> [l \in Lanes |-> Mask(~Equal(a[l], b[l]))],
     CmpLt |-> CmpltPs(a, b), CmpLe |-> CmplePs(a, b),
     CmpGt |-> CmpltPs(b, a), CmpGe |-> CmplePs(b, a)]

\* Select by a mask, and And to Xor with bits b of a float or of an integer.
Bitwise(mask, a, b) ==
    [Select |-> Select(mask, a, b),
     And |-> AndBits(a, b), Or |-> OrBits(a, b), Xor |-> XorBits(a, b),
     AndInt |-> AndBits(a, b), AndNot |-> AndnotBits(b, a),
     OrInt |-> OrBits(a, b), XorInt |-> XorBits(a, b)]

\* Cos to ATanX: of every lane, and of the first.
Trigonometry(v) ==
    LET each(n)  == <<Opaque(n, v[1]), Opaque(n, v[2]), Opaque(n, v[3]), Opaque(n, v[4])>>
        first(n) == MoveSs(v, Splat(Opaque(n, v[1])))
    IN  [Cos |-> each(1), CosX |-> first(1), ACos |-> each(2), ACosX |-> first(2),
         Sin |-> each(3), SinX |-> first(3), ASin |-> each(4), ASinX |-> first(4),
         Tan |-> each(5), TanX |-> first(5), ATan |-> each(6), ATanX |-> first(6)]

-----------------------------------------------------------------------------
(* Vectors of integers.                                                    *)

\* zero to mask_000f.
IntConstants ==
    LET ones == CmpeqBits(ZeroBits, ZeroBits)
        one  == SubBits(ZeroBits, ones)
        sign == Slli(ones, 31)
    IN  [zero |-> ZeroBits, one |-> one, x_axis |-> SrliSi128(one, 3),
         y_axis |-> SlliSi128(SrliSi128(one, 3), 1),
         z_axis |-> SlliSi128(SrliSi128(one, 3), 2), w_axis |-> SlliSi128(one, 3),
         all_true |-> ones, all_false |-> ZeroBits, mask_sign |-> sign,
         mask_sign_xyz |-> SrliSi128(sign, 1), mask_sign_w |-> SlliSi128(sign, 3),
         mask_not_sign |-> Srli(ones, 1), mask_ffff |-> ones, mask_0000 |-> ZeroBits,
         mask_fff0 |-> SrliSi128(ones, 1), mask_f000 |-> SrliSi128(ones, 3),
         mask_0f00 |-> SrliSi128(SlliSi128(ones, 3), 2),
         mask_00f0 |-> SrliSi128(SlliSi128(ones, 3), 1), mask_000f |-> SlliSi128(ones, 3)]

\* Load to FromFloatTrunc, of integers, of Booleans and of halves.
IntLoads(i, test, halves) ==
    LET bool(b) == IF b THEN {0} ELSE {}
        set(n)  == [l \in Lanes |-> IF l <= n THEN i[l] ELSE {}]
        minus(b) == SubBits(ZeroBits, b)
        low64   == SubSeq(i, 1, 2) \o <<{}, {}>>
    IN  [Load |-> i, LoadX |-> set(1), Load1 |-> Splat(i[1]),
         LoadBool |-> minus([l \in Lanes |-> bool(test[l])]),
         LoadXBool |-> minus(<<bool(test[1]), {}, {}, {}>>),
         Load1Bool |-> minus(Splat(bool(test[1]))),
         LoadPtr |-> i, LoadXPtr |-> set(1), Load1Ptr |-> SplatF(low64, 0),
         Load2Ptr |-> low64, Load3Ptr |-> set(3), LoadPtrU |-> i, LoadXPtrU |-> set(1),
         Load1PtrU |-> Splat(i[1]), Load2PtrU |-> set(2), Load3PtrU |-> set(3),
         FromFloatRound |-> CvtpsEpi32(halves), FromFloatTrunc |-> CvttpsEpi32(halves)]

\* GetX to Swizzle.
IntAccess(v, i, ith, memory) ==
    LET third  == Unpackhi(v, v)[1]
        iiww   == Shuffle(i, v, 3, 3, 0, 0)
        iizz   == Shuffle(i, v, 2, 2, 0, 0)
        one    == [memory EXCEPT ![1] = v[1]]
        two    == [one EXCEPT ![2] = SplatF(v, 1)[1]]
        three  == [two EXCEPT ![3] = third]
    IN  [GetX |-> <<v[1]>>, GetY |-> <<SplatF(v, 1)[1]>>, GetZ |-> <<third>>,
         GetW |-> <<SplatF(v, 3)[1]>>, SetX |-> MoveSs(v, i),
         SetY |-> Shuffle(Unpacklo(v, i), v, 3, 2, 1, 0),
         SetZ |-> Shuffle(v, iiww, 2, 0, 1, 0), SetW |-> Shuffle(v, iizz, 0, 2, 1, 0),
         SetI |-> [v EXCEPT ![ith + 1] = i[1]],
         StorePtr |-> v, Store1Ptr |-> one, Store2Ptr |-> two, Store3Ptr |-> three,
         StorePtrU |-> v, Store1PtrU |-> one, Store2PtrU |-> two, Store3PtrU |-> three,
         SplatX |-> SplatF(v, 0), SplatY |-> SplatF(v, 1),
         SplatZ |-> SplatF(v, 2), SplatW |-> SplatF(v, 3),
         Swizzle3120 |-> Shuffle(v, v, 0, 2, 1, 3), Swizzle0123 |-> v]

\* MoveMask to HAdd4: the tests look at sign bits.
IntReductions(v) ==
    LET mask == Movemask(v)
        true(n)  == <<mask \cap (0 .. n - 1) = 0 .. n - 1>>
        false(n) == <<mask \cap (0 .. n - 1) = {}>>
        xyzw == AddBits(v, Movehl(v, v))
    IN  [MoveMask |-> <<mask>>,
         AreAllTrue |-> true(4), AreAllTrue3 |-> true(3), AreAllTrue2 |-> true(2),
         AreAllTrue1 |-> true(1), AreAllFalse |-> false(4), AreAllFalse3 |-> false(3),
         AreAllFalse2 |-> false(2), AreAllFalse1 |-> false(1),
         HAdd2 |-> MoveSs(v, AddBits(v, SplatF(v, 1))),
         HAdd3 |-> MoveSs(v, AddBits(AddBits(v, SplatF(v, 1)), Unpackhi(v, v))),
         HAdd4 |-> MoveSs(v, AddBits(xyzw, SplatF(xyzw, 1)))]

\* Abs to CmpGe; without SSE 4.1 the lesser and the greater are selected.
IntMin(a, b) == IF Sse41 THEN MinEpi32(a, b) ELSE SelectI(CmpltBits(a, b), a, b)

IntMax(a, b) == IF Sse41 THEN MaxEpi32(a, b) ELSE SelectI(CmpltBits(b, a), a, b)

IntOperations(a, v, b, mask, bits) ==
    LET not(t) == XorBits(t, CmpeqBits(v, v))
    IN  [Abs |-> IF Sse41 THEN AbsEpi32(v)
                 ELSE SelectI(CmpltBits(v, ZeroBits), SubBits(ZeroBits, v), v),
         Sign |-> Slli(Srli(v, 31), 31),
         Min |-> IntMin(a, b), Max |-> IntMax(a, b),
         Min0 |-> IntMin(ZeroBits, v), Max0 |-> IntMax(ZeroBits, v),
         Clamp |-> IF Sse41 THEN MinEpi32(MaxEpi32(a, v), b) ELSE IntMax(a, IntMin(v, b)),
         Select |-> SelectI(mask, a, b),
         And |-> AndBits(a, b), AndNot |-> AndnotBits(b, a), Or |-> OrBits(a, b),
         Xor |-> XorBits(a, b), Not |-> not(v),
         ShiftL |-> Slli(v, bits), ShiftR |-> Srai(v, bits), ShiftRu |-> Srli(v, bits),
         CmpEq |-> CmpeqBits(a, b), CmpNe |-> not(CmpeqBits(a, b)),
         CmpLt |-> CmpltBits(a, b), CmpLe |-> not(CmpltBits(b, a)),
         CmpGt |-> CmpltBits(b, a), CmpGe |-> not(CmpltBits(a, b))]

-----------------------------------------------------------------------------
(* Matrices, operators and halves.  A matrix is the sequence of its        *)
(* columns.                                                                *)

Permute(v, d, c, b, a) == Shuffle(v, v, d, c, b, a)

\* Some of the lanes of one vector, the others of another: masks of 32 bits.
Blend(lanes, t, f) == [l \in Lanes |-> IF l \in lanes THEN t[l] ELSE f[l]]

ShiftLanes(v, n) == [l \in Lanes |-> IF l - n \in Lanes THEN v[l - n] ELSE 0]

Ones == Splat(1)
Axes == [k \in Lanes |-> ShiftLanes(ShiftLanes(Ones, -3), k - 1)]

TransposeMatrix(m) == Interleave(m[1], m[2], m[3], m[4])

\* Invert: cofactors of pairs of rows at a time, four columns at once.
Invert(m) ==
    LET swap(v)   == Permute(v, 2, 3, 0, 1)
        halves(v) == Permute(v, 1, 0, 3, 2)
        t0 == Shuffle(m[1], m[2], 1, 0, 1, 0)
        t1 == Shuffle(m[3], m[4], 1, 0, 1, 0)
        t2 == Shuffle(m[1], m[2], 3, 2, 3, 2)
        t3 == Shuffle(m[3], m[4], 3, 2, 3, 2)
        c0 == Shuffle(t0, t1, 2, 0, 2, 0)
        c1 == Shuffle(t1, t0, 3, 1, 3, 1)
        c2 == Shuffle(t2, t3, 2, 0, 2, 0)
        c3 == Shuffle(t3, t2, 3, 1, 3, 1)
        d2 == halves(c2)
        u1 == swap(Times(c2, c3))          v1 == halves(u1)
        u2 == swap(Times(c1, c2))          v2 == halves(u2)
        u3 == swap(Times(halves(c1), c3))  v3 == halves(u3)
        u4 == swap(Times(c0, c1))          v4 == halves(u4)
        u5 == swap(Times(c0, c3))          v5 == halves(u5)
        u6 == swap(Times(c0, d2))          v6 == halves(u6)
        first(u, v) == halves(MSub(c0, v, Times(c0, u)))
        minor0 == NMAdd(d2, v3, MAdd(d2, u3,
                      NMAdd(c3, v2, MAdd(c3, u2, MSub(c1, v1, Times(c1, u1))))))
        minor1 == NMAdd(c3, v6, MAdd(c3, u6, MAdd(d2, v5, NMAdd(d2, u5, first(u1, v1)))))
        minor2 == NMAdd(c1, v5, MAdd(c1, u5, MSub(c3, v4, MAdd(c3, u4, first(u3, v3)))))
        minor3 == MAdd(c1, v6, NMAdd(c1, u6, NMAdd(d2, v4, MSub(d2, u4, first(u2, v2)))))
        sum    == LET p == Times(c0, minor0) IN Plus(halves(p), p)
        det    == AddSs(swap(sum), sum)
        able   == [l \in Lanes |-> Mask(~Equal(det[l], 0))]
        rcp    == RcpPs(det)
        inv    == SelectNumbers(able, NMAdd(Times(rcp, rcp), det, Plus(rcp, rcp)), Zeros)
        factor == SplatF(NMAddX(det, MulSs(inv, inv), AddSs(inv, inv)), 0)
    IN  [columns |-> <<Times(factor, minor0), Times(factor, minor1),
                       Times(factor, minor2), Times(factor, minor3)>>,
         invertible |-> able]

Translation(v) == [Axes EXCEPT ![4] = Blend({4}, Ones, v)]

Scaling(v) == [k \in Lanes |-> IF k = 4 THEN Axes[4] ELSE Blend({k}, v, Zeros)]

\* Translate, Scale and ColumnMultiply.
Translate(m, v) ==
    LET a01 == MAdd(m[1], SplatF(v, 0), Times(m[2], SplatF(v, 1)))
        m3  == MAdd(m[3], SplatF(v, 2), m[4])
    IN  [m EXCEPT ![4] = Plus(a01, m3)]

Scale(m, v) == [k \in Lanes |-> IF k = 4 THEN m[4] ELSE Times(m[k], SplatF(v, k - 1))]

ColumnMultiply(m, v) == [k \in Lanes |-> Times(m[k], v)]

\* IsNormalized and IsNormalizedEst of the columns, all three at once.
Within(n) == Less(Wrap(n + n), 3) /\ Less(1, Wrap(n + n))

IsNormalizedMatrix(m) ==
    LET rows == TransposeMatrix(m)
        dot  == MAdd(rows[1], rows[1], MAdd(rows[2], rows[2], Times(rows[3], rows[3])))
    IN  Blend({1, 2, 3}, [l \in Lanes |-> Mask(Within(dot[l]))], ZeroBits)

Cross3(a, b) == Arithmetic(a, b, b).Cross3

IsOrthogonal(m) ==
    LET cross == SafeNormals(Cross3(m[1], m[2]), Zeros).NormalizeSafe3
        at    == SafeNormals(m[3], Zeros).NormalizeSafe3
        dot   == MoveSs(Zeros, Dot3(cross, at))
    IN  [l \in Lanes |-> Mask(l = 1 /\ Within(dot[l]))]
\* ToQuaternion: the four candidates, each from the lane of the diagonal it pivots on.
ToQuaternion(m) ==
    LET diag3 == Permute(Blend({2}, m[2], m[1]), 0, 0, 1, 0)
        xyzx  == Blend({3}, m[3], diag3)
        yzxy  == Permute(xyzx, 1, 0, 2, 1)
        zxyz  == Permute(xyzx, 2, 1, 0, 2)
        diag_sum  == Plus(Plus(xyzx, yzxy), zxyz)
        diag_diff == Minus(Minus(xyzx, yzxy), zxyz)
        radicand  == Plus(Blend({4}, diag_sum, diag_diff), Ones)
        scale     == Times(Over(Ones, SqrtPs(radicand)), Splat(Reciprocal[2]))
        zy_xz_yx == Blend({2}, SplatF(m[3], 0), Permute(Blend({3}, m[2], m[1]), 0, 1, 2, 2))
        yz_zx_xy == Blend({1}, SplatF(m[3], 1), Permute(Blend({1}, m[2], m[1]), 0, 0, 2, 0))
        sum  == Plus(zy_xz_yx, yz_zx_xy)
        diff == Minus(zy_xz_yx, yz_zx_xy)
        pivot(k, v) == Times(Blend({k + 1}, radicand, v), SplatF(scale, k))
        res0 == pivot(0, Blend({4}, SplatF(diff, 0), Permute(sum, 0, 1, 2, 0)))
        res1 == pivot(1, Blend({4}, SplatF(diff, 1), Permute(sum, 0, 0, 0, 2)))
        res2 == pivot(2, Blend({4}, SplatF(diff, 2), Permute(sum, 0, 0, 0, 1)))
        res3 == pivot(3, diff)
    IN  CASE Less(0, diag_sum[1]) -> res3
          [] ~Less(0, diag_sum[1]) /\ Less(m[1][1], m[3][3]) /\ Less(m[2][2], m[3][3]) -> res2
          [] ~Less(0, diag_sum[1]) /\ ~(Less(m[1][1], m[3][3]) /\ Less(m[2][2], m[3][3])) ->
                IF Less(m[1][1], m[2][2]) THEN res1 ELSE res0

Normalize3(v) == Lengths(v).Normalize3

\* ToAffine: a column of length 0 is made of the two others, and two are not.
ToAffine(m) ==
    LET rows      == TransposeMatrix(m)
        dot       == MAdd(rows[1], rows[1], MAdd(rows[2], rows[2], Times(rows[3], rows[3])))
        abs_scale == SqrtPs(dot)
        zero_axis == {l \in Lanes : dot[l] = 0}
        unit(k)   == Over(m[k], SplatF(abs_scale, k - 1))
        xFromY == LET x == Normalize3(Cross3(unit(2), m[3]))
                  IN  <<x, unit(2), Normalize3(Cross3(x, unit(2)))>>
        zFromX == LET z == Normalize3(Cross3(unit(1), m[2]))
                  IN  <<unit(1), Normalize3(Cross3(z, unit(1))), z>>
        yFromZ == LET y == Normalize3(Cross3(unit(3), m[1]))
                  IN  <<Normalize3(Cross3(y, unit(3))), y, unit(3)>>
        ortho == Append(CASE 1 \in zero_axis -> xFromY
                          [] 1 \notin zero_axis /\ 3 \in zero_axis -> zFromX
                          [] 1 \notin zero_axis /\ 3 \notin zero_axis -> yFromZ, Axes[4])
        o_rows    == TransposeMatrix(ortho)
        scale_dot == MAdd(o_rows[1], rows[1], MAdd(o_rows[2], rows[2], Times(o_rows[3], rows[3])))
        scale     == SelectNumbers(CmpltPs(Zeros, scale_dot), abs_scale, Minus(Zeros, abs_scale))
    IN  [able |-> CASE 1 \in zero_axis -> zero_axis \cap {2, 3} = {}
                    [] 1 \notin zero_axis /\ 3 \in zero_axis -> zero_axis \cap {1, 2} = {}
                    [] 1 \notin zero_axis /\ 3 \notin zero_axis -> TRUE,
         translation |-> Blend({1, 2, 3}, m[4], Ones),
         quaternion |-> ToQuaternion(ortho), scale |-> Blend({1, 2, 3}, scale, Ones)]

\* The columns of a rotation, from the sums and the differences it is made of.
Columns(r0, r1, r2, v, u) ==
    LET t0 == Shuffle(r0, v, 1, 0, 3, 0)
        t1 == Shuffle(r0, v, 3, 2, 3, 1)
    IN  [low |-> t0, high |-> t1, third |-> Shuffle(u, r0, 3, 2, 1, 0)]

\* FromAxisAngle
FromAxisAngle(axis, angle) ==
    LET sin == Splat(Trigonometry(angle).SinX[1])
        cos == Splat(Trigonometry(angle).CosX[1])
        less == Minus(Ones, cos)
        v0  == Times(Times(less, Permute(axis, 3, 0, 2, 1)), Permute(axis, 3, 1, 0, 2))
        r0  == Blend({1, 2, 3}, Plus(Times(Times(less, axis), axis), cos), Zeros)
        r1  == Plus(Times(sin, axis), v0)
        r2  == Minus(v0, Times(sin, axis))
        v1  == Permute(Shuffle(r1, r2, 2, 1, 2, 0), 0, 3, 2, 1)
        v2  == Permute(Shuffle(r1, r2, 0, 0, 1, 1), 2, 0, 2, 0)
        of  == Columns(r0, r1, r2, v1, v2)
    IN  <<Permute(of.low, 1, 3, 2, 0), Permute(of.high, 1, 3, 0, 2), of.third, Axes[4]>>

\* FromQuaternion, and FromAffine as it begins.
FromQuaternion(q) ==
    LET vsum == Plus(q, q)
        vms  == Times(q, vsum)
        fff0(v) == Blend({1, 2, 3}, v, Zeros)
        r0 == Minus(Minus(fff0(Ones), fff0(Permute(vms, 3, 0, 0, 1))),
                    fff0(Permute(vms, 3, 1, 2, 2)))
        v0 == Times(Permute(q, 3, 1, 0, 0), Permute(vsum, 3, 2, 1, 2))
        v1 == Times(Permute(q, 3, 3, 3, 3), Permute(vsum, 3, 0, 2, 1))
        r1 == Plus(v0, v1)
        r2 == Minus(v0, v1)
        v2 == Permute(Shuffle(r1, r2, 1, 0, 2, 1), 1, 3, 2, 0)
        v3 == Permute(Shuffle(r1, r2, 2, 2, 0, 0), 2, 0, 2, 0)
        of == Columns(r0, r1, r2, v2, v3)
    IN  <<Permute(of.low, 1, 3, 2, 0), Permute(of.high, 1, 3, 0, 2), of.third, Axes[4]>>

\* Mutant: the translation's w left in the matrix.
FromAffineKeepingW(t, q, s) ==
    LET r == FromQuaternion(q)
    IN  <<Times(r[1], SplatF(s, 0)), Times(r[2], SplatF(s, 1)), Times(r[3], SplatF(s, 2)), t>>

FromAffine(t, q, s) ==
    LET r == FromQuaternion(q)
    IN  <<Times(r[1], SplatF(s, 0)), Times(r[2], SplatF(s, 1)), Times(r[3], SplatF(s, 2)),
          Movelh(t, Unpackhi(t, Blend({1, 2, 3}, Ones, Zeros)))>>

\* TransformPoint, TransformVector, and the products.
TransformPoint(m, v) ==
    LET xxxx == Times(SplatF(v, 0), m[1])
        a23  == MAdd(SplatF(v, 2), m[3], m[4])
    IN  Plus(MAdd(SplatF(v, 1), m[2], xxxx), a23)

TransformVector(m, v) ==
    LET xxxx == Times(m[1], SplatF(v, 0))
    IN  Plus(Times(m[2], SplatF(v, 1)), MAdd(m[3], SplatF(v, 2), xxxx))

ByVector(m, v) ==
    LET xxxx == Times(SplatF(v, 0), m[1])
        zzzz == Times(SplatF(v, 2), m[3])
    IN  Plus(MAdd(SplatF(v, 1), m[2], xxxx), MAdd(SplatF(v, 3), m[4], zzzz))

ByMatrix(m, n) == [k \in Lanes |-> ByVector(m, n[k])]

FromEuler(v) ==
    ByMatrix(ByMatrix(FromAxisAngle(Axes[2], SplatF(v, 0)), FromAxisAngle(Axes[1], SplatF(v, 1))),
             FromAxisAngle(Axes[3], SplatF(v, 2)))

\* The operators of two matrices, and those of two vectors.
SumAndDifference(m, n) ==
    [Add |-> [k \in Lanes |-> Plus(m[k], n[k])], Subtract |-> [k \in Lanes |-> Minus(m[k], n[k])]]

Operators(a, b) ==
    [plus |-> Plus(a, b), minus |-> Minus(a, b), negate |-> Minus(Zeros, a),
     times |-> Times(a, b), over |-> Over(a, b)]

-----------------------------------------------------------------------------
(* Halves.                                                                 *)

\* Infinities and NaN are made aside, and what overflows is clamped before it is rounded.
FloatToHalf(f) ==
    LET scaled     == ScaledDown(f[2] - (f[2] % 2 ^ 12))
        clamp      == HalfInfinity - 2 ^ 12
        biased     == (IF scaled < clamp THEN scaled ELSE clamp) + 2 ^ 12
        inf_or_nan == 124 * 2 ^ 8 + (IF f[2] > FloatInfinity THEN 2 ^ 9 ELSE 0)
    IN  <<f[1], IF FloatInfinity > f[2] THEN biased \div 2 ^ 13 ELSE inf_or_nan>>

HalfToFloat(h) ==
    LET scaled == ScaledUp(h[2] * 2 ^ 13)
    IN  <<h[1], IF h[2] > 123 * 2 ^ 8 + 255 THEN FloatInfinity + (scaled % 2 ^ 23) ELSE scaled>>

-----------------------------------------------------------------------------

\* What the functions of a group return: a call is the group and its arguments.
Returned(c) ==
    CASE c[1] = "Constants" -> Constants
      [] c[1] = "Loads" -> Loads(c[2], c[3])
      [] c[1] = "Access" -> Access(c[2], c[3], c[4], c[5])
      [] c[1] = "Transposes" -> Transposes(c[2])
      [] c[1] = "Arithmetic" -> Arithmetic(c[2], c[3], c[4])
      [] c[1] = "Estimates" -> Estimates(c[2])
      [] c[1] = "SignBits" -> SignBits(c[2])
      [] c[1] = "Lengths" -> Lengths(c[2])
      [] c[1] = "SafeNormals" -> SafeNormals(c[2], c[3])
      [] c[1] = "Lerp" -> [Lerp |-> Lerp(c[2], c[3], c[4])]
      [] c[1] = "Extremes" -> Extremes(c[2], c[3], c[4])
      [] c[1] = "Comparisons" -> Comparisons(c[2], c[3])
      [] c[1] = "Bitwise" -> Bitwise(c[2], c[3], c[4])
      [] c[1] = "Trigonometry" -> Trigonometry(c[2])
      [] c[1] = "IntConstants" -> IntConstants
      [] c[1] = "IntLoads" -> IntLoads(c[2], c[3], c[4])
      [] c[1] = "IntAccess" -> IntAccess(c[2], c[3], c[4], c[5])
      [] c[1] = "IntReductions" -> IntReductions(c[2])
      [] c[1] = "IntOperations" -> IntOperations(c[2], c[3], c[4], c[5], c[6])
      [] c[1] = "Inverses" -> Invert(c[2])
      [] c[1] = "Makers" ->
            [Translation |-> Translation(c[2]), Scaling |-> Scaling(c[2]), identity |-> Axes]
      [] c[1] = "FromAxisAngle" -> [FromAxisAngle |-> FromAxisAngle(c[2], c[3])]
      [] c[1] = "FromEuler" -> [FromEuler |-> FromEuler(c[2])]
      [] c[1] = "FromQuaternion" -> [FromQuaternion |-> FromQuaternion(c[2])]
      [] c[1] = "FromAffine" -> [FromAffine |-> FromAffine(c[2], c[3], c[4])]
      [] c[1] = "Rotations" ->
            LET q == ToQuaternion(c[2])
            IN  [square |-> <<Dot(q, q, 4)>>, rotation |-> FromQuaternion(q)]
      [] c[1] = "Affines" ->
            LET parts == ToAffine(c[2])
            IN  [able |-> <<parts.able>>,
                 matrix |-> FromAffine(parts.translation, parts.quaternion, parts.scale)]
      [] c[1] = "Tests" ->
            [IsNormalized |-> IsNormalizedMatrix(c[2]), IsOrthogonal |-> IsOrthogonal(c[2])]
      [] c[1] = "Transforms" ->
            [Transpose |-> TransposeMatrix(c[2]), Translate |-> Translate(c[2], c[3]),
             Scale |-> Scale(c[2], c[3]), ColumnMultiply |-> ColumnMultiply(c[2], c[3]),
             TransformPoint |-> TransformPoint(c[2], c[3]),
             TransformVector |-> TransformVector(c[2], c[3]), product |-> ByVector(c[2], c[3])]
      [] c[1] = "Products" ->
            [product |-> ByMatrix(c[2], c[3]), sum |-> SumAndDifference(c[2], c[3]).Add,
             difference |-> SumAndDifference(c[2], c[3]).Subtract]
      [] c[1] = "Operators" -> Operators(c[2], c[3])
      [] c[1] = "HalfFloats" ->
            [FloatToHalf |-> <<FloatToHalf(c[2])>>, HalfToFloat |-> <<HalfToFloat(c[3])>>]
=============================================================================
