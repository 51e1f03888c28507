---------------------------- MODULE LaneNumbers -----------------------------
(***************************************************************************)
(* The numbers the maths of src/libs/ozz/include/ozz/base/maths computes   *)
(* with.  What the kernels compute by +, -, *, / and square roots is       *)
(* computed here modulo a prime, where all of them are exact: two kernels  *)
(* that are the same function of the reals are the same function here, and *)
(* rounding is left out.  An order holds of numbers less than Half apart.  *)
(*                                                                         *)
(* A vector of SIMD lanes is <<x, y, z, w>>.  The bits of a lane, where    *)
(* code looks at them, are the set of the positions of its ones.           *)
(***************************************************************************)
EXTENDS Integers, Sequences, FiniteSetsExt, TLC

CONSTANTS
    Prime,      \* with square roots of half of its residues that are easily told
    Undefined,        \* what a lane holds that nothing is promised of
    NaN

Half == (Prime - 1) \div 2

Field == -Half .. Half

Wrap(n) == ((n + Half) % Prime) - Half

Reciprocal ==
    [n \in Field |->
        IF n = 0 THEN 0 ELSE CHOOSE m \in Field : Wrap(n * m) = 1]

\* Of the two roots, the one that is not negative.
SquareRoot ==
    [n \in Field |->
        IF \E m \in 0 .. Half : Wrap(m * m) = n THEN CHOOSE m \in 0 .. Half : Wrap(m * m) = n
        ELSE 0]

Divide(n, m) == Wrap(n * Reciprocal[m])

\* Of functions nothing is said but that they are functions: what the n-th gives.
Opaque(n, x) == Wrap((n + 2) * x * x + 7 * n * x + n)

-----------------------------------------------------------------------------
(* Vectors.                                                                *)

Splat(n) == <<n, n, n, n>>

Lanes == 1 .. 4

Plus(a, b) == [l \in DOMAIN a |-> Wrap(a[l] + b[l])]

Minus(a, b) == [l \in DOMAIN a |-> Wrap(a[l] - b[l])]

Times(a, b) == [l \in DOMAIN a |-> Wrap(a[l] * b[l])]

Over(a, b) == [l \in DOMAIN a |-> Divide(a[l], b[l])]

Negative(a) == [l \in DOMAIN a |-> Wrap(-a[l])]

\* The sum of the first n lanes of a product.
Dot(a, b, n) == Wrap(FoldSet(LAMBDA l, sum : sum + a[l] * b[l], 0, 1 .. n))

\* Floats compare as numbers do, and NaN with nothing.
Less(x, y) == x # NaN /\ y # NaN /\ x < y

Equal(x, y) == x # NaN /\ x = y

-----------------------------------------------------------------------------
(* Bits.                                                                   *)

Bits == 0 .. 31

Not(b) == Bits \ b

Xor(b, c) == (b \ c) \cup (c \ b)

ShiftLeft(b, n) == {p + n : p \in {q \in b : q + n \in Bits}}

ShiftRight(b, n) == {p - n : p \in {q \in b : q - n \in Bits}}

ShiftArithmetic(b, n) ==
    ShiftRight(b, n) \cup IF 31 \in b THEN (32 - n .. 31) \cap Bits ELSE {}

True == Bits

Mask(test) == IF test THEN True ELSE {}

\* Integers in two's complement.
IntBits(n) ==
    IF n >= 0 THEN {p \in 0 .. 30 : (n \div 2 ^ p) % 2 = 1}
              ELSE Not({p \in 0 .. 30 : ((-n - 1) \div 2 ^ p) % 2 = 1})

IntOf(b) ==
    IF 31 \notin b THEN FoldSet(LAMBDA p, sum : sum + 2 ^ p, 0, b)
    ELSE -FoldSet(LAMBDA p, sum : sum + 2 ^ p, 0, Not(b)) - 1

IntLess(b, c) == IntOf(b) < IntOf(c)

\* The carries of an addition, by position.
Sum(b, c) ==
    LET carry[p \in 0 .. 32] ==
            p > 0 /\ \/ p - 1 \in b /\ p - 1 \in c
                     \/ carry[p - 1] /\ (p - 1 \in b \/ p - 1 \in c)
    IN  {p \in Bits : (p \in Xor(b, c)) # carry[p]}

\* The pattern of 1.0f.
OnePattern == 23 .. 29

-----------------------------------------------------------------------------
(* Floats by their bits, as <<sign, magnitude>> of integers, for the code  *)
(* that converts them by their bits; halves are written alike.             *)

\* The patterns of an infinity, and of the infinity of halves once scaled.
FloatInfinity == 255 * 2 ^ 23
HalfInfinity == 31 * 2 ^ 23

\* A division by a power of 2, to the nearest, of two to the even one.
ToEven(n, power) ==
    LET q == n \div power
        r == 2 * (n % power)
    IN  IF r > power \/ (r = power /\ q % 2 = 1) THEN q + 1 ELSE q

\* What the product of a finite float and of 2 ^ -112 makes of its magnitude.
ScaledDown(u) ==
    LET e == u \div 2 ^ 23
        m == 2 ^ 23 + (u % 2 ^ 23)
    IN  CASE e > 112 -> u - 112 * 2 ^ 23
          [] e \in 88 .. 112 -> ToEven(m, 2 ^ (113 - e))
          [] e < 88 -> 0

\* What the product of a float below 2 ^ 15 and of 2 ^ 112 makes of its magnitude.
ScaledUp(u) ==
    CASE u = 0 -> 0
      [] u \in 1 .. 2 ^ 23 - 1 ->
            LET top == CHOOSE k \in 0 .. 22 : u \div 2 ^ k = 1
            IN  (top + 89) * 2 ^ 23 + u * 2 ^ (23 - top)
      [] u >= 2 ^ 23 -> u + 112 * 2 ^ 23
=============================================================================
