---------------------------- MODULE Quaternions ----------------------------
(***************************************************************************)
(* Quaternions (quaternion.h) as integer vectors <<x, y, z, w>>: one stands *)
(* for all its positive multiples, of which the code keeps the one of      *)
(* length 1.  Rotations by quarter turns about the axes, and what they are *)
(* composed of, are exact in this form.                                    *)
(***************************************************************************)
EXTENDS Integers, Sequences

Identity == <<0, 0, 0, 1>>

Negated(q) == [c \in 1 .. 4 |-> -q[c]]

Conjugate(q) == <<-q[1], -q[2], -q[3], q[4]>>

Dot(a, b) == a[1] * b[1] + a[2] * b[2] + a[3] * b[3] + a[4] * b[4]

Times(a, b) ==
    <<a[4] * b[1] + a[1] * b[4] + a[2] * b[3] - a[3] * b[2],
      a[4] * b[2] + a[2] * b[4] + a[3] * b[1] - a[1] * b[3],
      a[4] * b[3] + a[3] * b[4] + a[1] * b[2] - a[2] * b[1],
      a[4] * b[4] - a[1] * b[1] - a[2] * b[2] - a[3] * b[3]>>

Cross(v, w) ==
    <<v[2] * w[3] - v[3] * w[2], v[3] * w[1] - v[1] * w[3], v[1] * w[2] - v[2] * w[1]>>

\* TransformVector, where the result is a vector of integers.
TransformVector(q, v) ==
    LET once  == [c \in 1 .. 3 |-> Cross(q, v)[c] + v[c] * q[4]]
        twice == Cross(q, once)
    IN  [c \in 1 .. 3 |-> v[c] + (2 * twice[c]) \div Dot(q, q)]

\* q and -q rotate alike.
SameRotation(a, b) == Dot(a, b) # 0 /\ \A c, d \in 1 .. 4 : a[c] * b[d] = a[d] * b[c]

-----------------------------------------------------------------------------
(* Angles, in quarter turns: <<yaw, pitch, roll>>.                         *)

\* Cosine and sine of n eighths of a turn, up to a factor.
Direction(n) ==
    CASE n % 8 = 0 -> <<1, 0>>  [] n % 8 = 1 -> <<1, 1>>   [] n % 8 = 2 -> <<0, 1>>
      [] n % 8 = 3 -> <<-1, 1>> [] n % 8 = 4 -> <<-1, 0>>  [] n % 8 = 5 -> <<-1, -1>>
      [] n % 8 = 6 -> <<0, -1>> [] n % 8 = 7 -> <<1, -1>>

\* FromEuler
FromEuler(ypr) ==
    LET c == [a \in 1 .. 3 |-> Direction(ypr[a])[1]]
        s == [a \in 1 .. 3 |-> Direction(ypr[a])[2]]
    IN  <<c[1] * c[2] * s[3] + s[1] * s[2] * c[3], s[1] * c[2] * c[3] + c[1] * s[2] * s[3],
          c[1] * s[2] * c[3] - s[1] * c[2] * s[3], c[1] * c[2] * c[3] - s[1] * s[2] * s[3]>>

\* atan2, in eighths of a turn.
Atan2(y, x) ==
    CHOOSE n \in -3 .. 4 :
        LET d == Direction(n) IN d[1] * y = d[2] * x /\ d[1] * x + d[2] * y > 0

\* ToEuler: with a pitch of a quarter turn either way the yaw is all there is,
\* twice the half-angle the quaternion gives.
ToEuler(q) ==
    LET unit == Dot(q, q)
        test == q[1] * q[2] + q[3] * q[4]
    IN  CASE 2 * test = unit -> <<Atan2(q[1], q[4]), 1, 0>>
          [] 2 * test = -unit -> <<-Atan2(q[1], q[4]), -1, 0>>
          [] OTHER ->
                <<Atan2(2 * q[2] * q[4] - 2 * q[1] * q[3],
                        q[1] * q[1] - q[2] * q[2] - q[3] * q[3] + q[4] * q[4]) \div 2,
                  0,
                  Atan2(2 * q[1] * q[4] - 2 * q[2] * q[3],
                        -q[1] * q[1] + q[2] * q[2] - q[3] * q[3] + q[4] * q[4]) \div 2>>
=============================================================================
