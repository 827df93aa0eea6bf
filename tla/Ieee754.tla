------------------------------ MODULE Ieee754 ------------------------------
(***************************************************************************)
(* What IEEE 754 and the RISC-V F and D extensions ask of an operation,    *)
(* with no algorithm in it: the exact result as a ratio of integers, and   *)
(* the neighbour of it that the rounding mode selects.  Module Fpu checks  *)
(* the translation of softfloat.c against it.                              *)
(* A magnitude is written in units of the format's smallest subnormal.     *)
(* Magnitudes are ordered as their bit patterns are, so the neighbour of   *)
(* pattern k is k + 1, and infinity stands for the power of two that       *)
(* follows the largest finite number.                                      *)
(***************************************************************************)
EXTENDS Integers

Sgn(f, a) == a \div 2^(f.width - 1)

Pat(f, a) == a % 2^(f.width - 1)

InfPat(f) == (2^f.expbits - 1) * 2^f.mantbits

IsNan(f, a) == Pat(f, a) > InfPat(f)

IsSNan(f, a) == IsNan(f, a) /\ Pat(f, a) < InfPat(f) + 2^(f.mantbits - 1)

IsInf(f, a) == Pat(f, a) = InfPat(f)

IsZero(f, a) == Pat(f, a) = 0

IsFinite(f, a) == Pat(f, a) < InfPat(f)

CanonNan(f) == InfPat(f) + 2^(f.mantbits - 1)

\* Pattern k is Digits(f, k) * 2^Scale(f, k) units.
Digits(f, k) ==
    IF k < 2^f.mantbits THEN k ELSE 2^f.mantbits + (k % 2^f.mantbits)

Scale(f, k) ==
    IF k < 2^f.mantbits THEN 0 ELSE (k \div 2^f.mantbits) - 1

Units(f, k) == Digits(f, k) * 2^Scale(f, k)

\* One is 2^Quantum units.
Quantum(f) == f.bias - 1 + f.mantbits

\* The exact magnitude (num / den)^(1/p), in units, with its sign.
Exact(sign, num, den, p) == [sign |-> sign, num |-> num, den |-> den, p |-> p]

\* n * 2^e / d
Scaled(sign, n, d, e) ==
    IF e >= 0 THEN Exact(sign, n * 2^e, d, 1) ELSE Exact(sign, n, d * 2^(-e), 1)

\* Is h half-units below (<=) the exact magnitude?  Is it that magnitude?
AtMost(h, v) == h^v.p * v.den <= v.num * 2^v.p

Equals(h, v) == h^v.p * v.den = v.num * 2^v.p

\* Does a magnitude strictly between lo and hi half-units, adjacent numbers
\* of the format, round to hi?  loEven: the significand of lo is even.
RoundsUp(lo, hi, loEven, v, rm) ==
    LET mid == lo + hi  \* twice the midpoint
        above == mid^v.p * v.den < v.num * 4^v.p
        tie   == mid^v.p * v.den = v.num * 4^v.p
    IN CASE rm = "RTZ" -> FALSE
         [] rm = "RDN" -> v.sign = 1
         [] rm = "RUP" -> v.sign = 0
         [] rm = "RNE" -> above \/ (tie /\ ~loEven)
         [] rm = "RMM" -> above \/ tie

\* The rounded result: bits and exceptions.  Tininess is detected after
\* rounding, as RISC-V requires: the result would lie below the smallest
\* normal number even if the exponent were unbounded.
Rounded(f, v, rm) ==
    LET S == v.sign * 2^(f.width - 1)
        k == CHOOSE i \in 0..InfPat(f) :
                /\ AtMost(2 * Units(f, i), v)
                /\ i = InfPat(f) \/ ~AtMost(2 * Units(f, i + 1), v)
        exact == Equals(2 * Units(f, k), v)
        up == RoundsUp(2 * Units(f, k), 2 * Units(f, k + 1), k % 2 = 0, v, rm)
        beyond == rm \in {"RNE", "RMM"} \/ rm = (IF v.sign = 1 THEN "RDN" ELSE "RUP")
        N == 2 * 2^f.mantbits
        tiny == /\ ~AtMost(N, v)
                /\ AtMost(N - 1, v) /\ ~Equals(N - 1, v)
                        => ~RoundsUp(N - 1, N, FALSE, v, rm)
    IN CASE k = InfPat(f) ->
                [bits |-> S + (IF beyond THEN k ELSE k - 1), fl |-> {"OF", "NX"}]
         [] k < InfPat(f) /\ exact -> [bits |-> S + k, fl |-> {}]
         [] k < InfPat(f) /\ ~exact ->
                [bits |-> S + (IF up THEN k + 1 ELSE k),
                 fl |-> {"NX"} \cup (IF tiny THEN {"UF"} ELSE {})
                               \cup (IF up /\ k + 1 = InfPat(f) THEN {"OF"} ELSE {})]

NanResult(f, invalid) ==
    [bits |-> CanonNan(f), fl |-> IF invalid THEN {"NV"} ELSE {}]

Plain(sign, f, k) == [bits |-> sign * 2^(f.width - 1) + k, fl |-> {}]

\* An exact zero sum: the common sign, else + (or - when rounding down).
ZeroSum(f, s, t, rm) ==
    Plain(IF s = t THEN s ELSE IF rm = "RDN" THEN 1 ELSE 0, f, 0)

SameSign(s, t) == IF s = t THEN 0 ELSE 1

\* n1 * 2^e1 (sign s1) + n2 * 2^e2 (sign s2), not both zero, in 2^-q units.
SumOf(f, s1, n1, e1, s2, n2, e2, q, rm) ==
    LET e  == IF e1 < e2 THEN e1 ELSE e2
        x  == n1 * 2^(e1 - e) * (IF s1 = 1 THEN -1 ELSE 1)
        y  == n2 * 2^(e2 - e) * (IF s2 = 1 THEN -1 ELSE 1)
        z  == x + y
    IN IF z = 0 THEN ZeroSum(f, s1, s2, rm)
       ELSE Rounded(f, Scaled(IF z < 0 THEN 1 ELSE 0, IF z < 0 THEN -z ELSE z, 1, e - q), rm)

FusedResult(f, a, b, c, rm) ==
    LET ps == SameSign(Sgn(f, a), Sgn(f, b))
        D(x) == Digits(f, Pat(f, x))
        E(x) == Scale(f, Pat(f, x))
        infZero == (IsInf(f, a) /\ IsZero(f, b)) \/ (IsZero(f, a) /\ IsInf(f, b))
        infProd == IsInf(f, a) \/ IsInf(f, b)
    IN IF infZero THEN NanResult(f, TRUE)
       ELSE IF \E x \in {a, b, c} : IsNan(f, x)
       THEN NanResult(f, \E x \in {a, b, c} : IsSNan(f, x))
       ELSE IF infProd /\ IsInf(f, c) /\ Sgn(f, c) # ps THEN NanResult(f, TRUE)
       ELSE IF infProd THEN Plain(ps, f, InfPat(f))
       ELSE IF IsInf(f, c) THEN Plain(Sgn(f, c), f, InfPat(f))
       ELSE SumOf(f, ps, D(a) * D(b), E(a) + E(b) - Quantum(f),
                  Sgn(f, c), D(c), E(c), 0, rm)

\* a + b is 1 * a + b, and a - b is a + (-b).
One(f) == f.bias * 2^f.mantbits

Negated(f, a) == (a + 2^(f.width - 1)) % 2^f.width

SumResult(f, a, b, rm) == FusedResult(f, a, One(f), b, rm)

ProductResult(f, a, b, rm) ==
    LET s == SameSign(Sgn(f, a), Sgn(f, b))
    IN IF IsFinite(f, a) /\ IsFinite(f, b) /\ (IsZero(f, a) \/ IsZero(f, b))
       THEN Plain(s, f, 0)
       ELSE FusedResult(f, a, b, s * 2^(f.width - 1), rm)

QuotientResult(f, a, b, rm) ==
    LET s == SameSign(Sgn(f, a), Sgn(f, b))
        k == Pat(f, a)
        l == Pat(f, b)
    IN IF IsNan(f, a) \/ IsNan(f, b) THEN NanResult(f, IsSNan(f, a) \/ IsSNan(f, b))
       ELSE IF (IsInf(f, a) /\ IsInf(f, b)) \/ (IsZero(f, a) /\ IsZero(f, b))
       THEN NanResult(f, TRUE)
       ELSE IF IsInf(f, a) THEN Plain(s, f, InfPat(f))
       ELSE IF IsZero(f, b) THEN [Plain(s, f, InfPat(f)) EXCEPT !.fl = {"DZ"}]
       ELSE IF IsInf(f, b) \/ IsZero(f, a) THEN Plain(s, f, 0)
       ELSE Rounded(f, Scaled(s, Digits(f, k), Digits(f, l),
                              Scale(f, k) - Scale(f, l) + Quantum(f)), rm)

RootResult(f, a, rm) ==
    LET k == Pat(f, a)
    IN IF IsNan(f, a) THEN NanResult(f, IsSNan(f, a))
       ELSE IF IsZero(f, a) THEN Plain(Sgn(f, a), f, 0)
       ELSE IF Sgn(f, a) = 1 THEN NanResult(f, TRUE)
       ELSE IF IsInf(f, a) THEN Plain(0, f, k)
       ELSE Rounded(f, Exact(0, Digits(f, k) * 2^(Scale(f, k) + Quantum(f)), 1, 2), rm)

-----------------------------------------------------------------------------
\* The value of a in units, signed; infinities lie beyond every number.
Signed(f, a) == Units(f, Pat(f, a)) * (IF Sgn(f, a) = 1 THEN -1 ELSE 1)

\* The class of a number, from -infinity (0) through the zeros to +infinity
\* (7); signalling and quiet NaNs are 8 and 9.
ClassOf(f, a) ==
    LET k == Pat(f, a)
        m == IF k = 0 THEN 0 ELSE IF k < 2^f.mantbits THEN 1
             ELSE IF k < InfPat(f) THEN 2 ELSE 3
    IN CASE IsNan(f, a) -> IF IsSNan(f, a) THEN 8 ELSE 9
         [] ~IsNan(f, a) /\ Sgn(f, a) = 1 -> 3 - m
         [] OTHER -> 4 + m

\* minimumNumber and maximumNumber: -0 is below +0, a NaN loses.
Extremum(f, a, b, wantMax) ==
    LET Key(x) == 2 * Signed(f, x) - Sgn(f, x)
        numbers == {x \in {a, b} : ~IsNan(f, x)}
    IN [bits |-> IF numbers = {} THEN CanonNan(f)
                 ELSE CHOOSE x \in numbers : \A y \in numbers :
                        IF wantMax THEN Key(x) >= Key(y) ELSE Key(x) <= Key(y),
        fl |-> IF IsSNan(f, a) \/ IsSNan(f, b) THEN {"NV"} ELSE {}]

\* Conversion to an integer of n bits: round, saturate, never wrap.
IntResult(f, a, signed, n, rm) ==
    LET k    == Pat(f, a)
        max  == IF signed THEN 2^(n - 1) - 1 ELSE 2^n - 1
        min  == IF signed THEN -(2^(n - 1)) ELSE 0
        one  == 2^Quantum(f)
        u    == Units(f, k)
        low  == u \div one
        v    == Exact(Sgn(f, a), u, one, 1)
        exact == u % one = 0
        up   == ~exact /\ RoundsUp(2 * low, 2 * low + 2, low % 2 = 0, v, rm)
        mag  == IF up THEN low + 1 ELSE low
        z    == IF Sgn(f, a) = 1 THEN -mag ELSE mag
    IN CASE IsNan(f, a) -> [bits |-> max, fl |-> {"NV"}]
         [] ~IsNan(f, a) /\ (z > max \/ (IsInf(f, a) /\ Sgn(f, a) = 0)) ->
                [bits |-> max, fl |-> {"NV"}]
         [] ~IsNan(f, a) /\ (z < min \/ (IsInf(f, a) /\ Sgn(f, a) = 1)) ->
                [bits |-> min % 2^n, fl |-> {"NV"}]
         [] OTHER -> [bits |-> z % 2^n, fl |-> IF exact THEN {} ELSE {"NX"}]

\* Conversion of an integer, and between formats.
FromInt(f, z, rm) ==
    IF z = 0 THEN Plain(0, f, 0)
    ELSE Rounded(f, Scaled(IF z < 0 THEN 1 ELSE 0, IF z < 0 THEN -z ELSE z, 1,
                           Quantum(f)), rm)

Converted(f, g, a, rm) ==
    LET k == Pat(f, a)
    IN IF IsNan(f, a) THEN NanResult(g, IsSNan(f, a))
       ELSE IF IsInf(f, a) THEN Plain(Sgn(f, a), g, InfPat(g))
       ELSE IF IsZero(f, a) THEN Plain(Sgn(f, a), g, 0)
       ELSE Rounded(g, Scaled(Sgn(f, a), Digits(f, k), 1,
                              Scale(f, k) + Quantum(g) - Quantum(f)), rm)

=============================================================================
