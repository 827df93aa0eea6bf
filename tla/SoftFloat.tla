----------------------------- MODULE SoftFloat -----------------------------
(***************************************************************************)
(* softfloat.c: IEEE-754 arithmetic on raw bit patterns, generic over a    *)
(* format descriptor.  The source has two formats (binary32, binary64) and *)
(* every width in it follows from the format: the leading one of an        *)
(* unrounded significand stands at width-2, so R = width-2-mantbits bits   *)
(* are rounded away.  The operators below keep the pipeline of the source  *)
(* (unpack, wide intermediate plus sticky bit, round_mag, roundpack) and   *)
(* take the format as their first argument, as the source does; the two-   *)
(* and four-word integers it computes with are integers here, and the      *)
(* word-level helpers are modelled in module Wide.                         *)
(* An operation yields its bits and the set of exceptions it raises.       *)
(***************************************************************************)
EXTENDS Integers, SequencesExt

CONSTANTS
    Window,   \* bits kept below the leading one of a sum (253 in the source)
    WordTop,  \* highest bit of the two-word significand (127 in the source)
    RootDigits \* digits of a square root (64 in the source)

Flip(s) == 1 - s

Xor(s, t) == IF s = t THEN 0 ELSE 1

Truth(b) == IF b THEN 1 ELSE 0

\* A format: what Fmt and the width-dependent constants of the source give.
Fmt(mantbits, expbits, pdiv, psqrt) ==
    [mantbits |-> mantbits, expbits |-> expbits,
     bias |-> 2^(expbits - 1) - 1, width |-> 1 + expbits + mantbits,
     P |-> pdiv, Psqrt |-> psqrt]

\* Index of the top set bit of n > 0.
Msb(n) == CHOOSE k \in 0..30 : 2^k <= n /\ n < 2^(k + 1)

\* Right shift to the floor, and whether a one fell off.
Shr(a, n) == IF n > 30 THEN 0 ELSE a \div 2^n

Lost(a, n) == IF n > 30 THEN a # 0 ELSE a % 2^n # 0

\* Or a sticky bit into bit 0.
Jam(a, sticky) == IF sticky /\ a % 2 = 0 THEN a + 1 ELSE a

SrJam(a, dist) == Jam(Shr(a, dist), Lost(a, dist))

AllOnes(f) == 2^f.expbits - 1

SignBit(f) == 2^(f.width - 1)

PackRaw(f, sign, expfield, frac) ==
    sign * SignBit(f) + expfield * 2^f.mantbits + frac

MakeInf(f, sign) == PackRaw(f, sign, AllOnes(f), 0)

MakeZero(f, sign) == sign * SignBit(f)

QNan(f) == PackRaw(f, 0, AllOnes(f), 2^(f.mantbits - 1))

\* A value taken apart: magnitude sig * 2^exp2.  The source leaves sig and
\* exp2 unset for infinities and NaNs and never reads them; they are 0 here.
Unpack(f, bits) ==
    LET exp  == (bits \div 2^f.mantbits) % 2^f.expbits
        frac == bits % 2^f.mantbits
        Up(cls, snan, sig, exp2) ==
            [sign |-> bits \div SignBit(f), cls |-> cls, snan |-> snan,
             sig |-> sig, exp2 |-> exp2]
    IN CASE exp = 0 /\ frac = 0 -> Up("zero", FALSE, 0, 0)
         [] exp = 0 /\ frac # 0 -> Up("normal", FALSE, frac, 1 - f.bias - f.mantbits)
         [] exp = AllOnes(f) /\ frac = 0 -> Up("inf", FALSE, 0, 0)
         [] exp = AllOnes(f) /\ frac # 0 ->
                Up("nan", frac \div 2^(f.mantbits - 1) = 0, 0, 0)
         [] OTHER -> Up("normal", FALSE, 2^f.mantbits + frac,
                        exp - f.bias - f.mantbits)

Out(bits, fl) == [bits |-> bits, fl |-> fl]

\* Both ways out of an operation on a NaN operand: the canonical quiet NaN,
\* with the invalid flag when the operation or a signalling operand asks.
NanOut(f, invalid) == Out(QNan(f), IF invalid THEN {"NV"} ELSE {})

-----------------------------------------------------------------------------
(* Rounding. *)

RoundBits(f) == f.width - 2 - f.mantbits

RoundInc(f, sign, rm) ==
    CASE rm \in {"RNE", "RMM"} -> 2^(RoundBits(f) - 1)
      [] rm = (IF sign = 1 THEN "RDN" ELSE "RUP") -> 2^RoundBits(f) - 1
      [] OTHER -> 0

\* exp is the biased exponent minus one: the packing addition puts back the
\* implicit one of sigp, and any carry out of the rounding with it.
RoundPack(f, sign, exp, sigp, rm) ==
    LET R        == RoundBits(f)
        inc      == RoundInc(f, sign, rm)
        overflow == 2^(f.width - 1)
        top      == AllOnes(f) - 2
        sub      == exp < 0
        tiny     == sub /\ (exp < -1 \/ sigp + inc < overflow)
        s        == IF sub THEN SrJam(sigp, -exp) ELSE sigp
        bits     == s % 2^R
        shifted  == (s + inc) \div 2^R
        even     == rm = "RNE" /\ bits = 2^(R - 1) /\ shifted % 2 = 1
        sig      == IF even THEN shifted - 1 ELSE shifted
        e        == IF sub \/ sig = 0 THEN 0 ELSE exp
    IN IF exp > top \/ (exp = top /\ sigp + inc >= overflow)
       THEN Out(IF inc # 0 THEN MakeInf(f, sign) ELSE MakeInf(f, sign) - 1,
                {"OF", "NX"})
       ELSE Out(sign * SignBit(f) + e * 2^f.mantbits + sig,
                (IF bits # 0 THEN {"NX"} ELSE {})
                  \cup (IF tiny /\ bits # 0 THEN {"UF"} ELSE {}))

RoundMag(f, sign, mant, exp2, sticky, rm) ==
    LET mb    == Msb(mant)
        shift == f.width - 2 - mb
        sigp  == IF shift >= 0 THEN Jam(mant * 2^shift, sticky)
                 ELSE Jam(Shr(mant, -shift), sticky \/ Lost(mant, -shift))
    IN IF mant = 0 THEN Out(MakeZero(f, sign), {})
       ELSE RoundPack(f, sign, exp2 + mb + f.bias - 1, sigp, rm)

-----------------------------------------------------------------------------
(* Arithmetic. *)

Term(s, sig, e) == [s |-> s, sig |-> sig, e |-> e]

\* X + Y for two non-zero magnitudes with signs.  X, the operand whose lead
\* is higher, sits at the top of a fixed window; what falls below it of the
\* other one is floored away and remembered in a sticky bit.
AddCore(f, X0, Y0, rm) ==
    LET Lead(t)  == t.e + Msb(t.sig)
        X        == IF Lead(Y0) > Lead(X0) THEN Y0 ELSE X0
        Y        == IF Lead(Y0) > Lead(X0) THEN X0 ELSE Y0
        wbot     == Lead(X) - Window
        A        == X.sig * 2^(X.e - wbot)
        shY      == Y.e - wbot
        B        == IF shY >= 0 THEN Y.sig * 2^shY ELSE Shr(Y.sig, -shY)
        stickyY  == shY < 0 /\ Lost(Y.sig, -shY)
        M        == CASE X.s = Y.s -> A + B
                      [] X.s # Y.s /\ A > B -> A - B - Truth(stickyY)
                      [] OTHER -> B - A
        sign     == IF X.s = Y.s \/ A > B THEN X.s ELSE Y.s
        over     == Msb(M) - WordTop
    IN IF (X.s # Y.s /\ A = B) \/ (M = 0 /\ ~stickyY)
       THEN Out(MakeZero(f, Truth(rm = "RDN")), {})
       ELSE IF over <= 0 THEN RoundMag(f, sign, M, wbot, stickyY, rm)
       ELSE RoundMag(f, sign, Shr(M, over), wbot + over,
                     stickyY \/ Lost(M, over), rm)

FpAdd(f, a, b, sub, rm) ==
    LET ua == Unpack(f, a)
        ub == [Unpack(f, b) EXCEPT !.sign = IF sub THEN Flip(@) ELSE @]
    IN CASE ua.cls = "nan" \/ ub.cls = "nan" -> NanOut(f, ua.snan \/ ub.snan)
         [] ua.cls = "inf" /\ ub.cls = "inf" /\ ua.sign # ub.sign -> NanOut(f, TRUE)
         [] ua.cls = "inf" /\ ub.cls # "nan" /\ (ub.cls = "inf" => ua.sign = ub.sign) ->
                Out(MakeInf(f, ua.sign), {})
         [] ub.cls = "inf" /\ ua.cls \notin {"inf", "nan"} -> Out(MakeInf(f, ub.sign), {})
         [] ua.cls = "zero" /\ ub.cls = "zero" ->
                Out(MakeZero(f, IF ua.sign = ub.sign THEN ua.sign ELSE Truth(rm = "RDN")), {})
         [] ua.cls = "zero" /\ ub.cls = "normal" ->
                Out(IF sub THEN (b + SignBit(f)) % 2^f.width ELSE b, {})
         [] ua.cls = "normal" /\ ub.cls = "zero" -> Out(a, {})
         [] OTHER -> AddCore(f, Term(ua.sign, ua.sig, ua.exp2),
                             Term(ub.sign, ub.sig, ub.exp2), rm)

FpMul(f, a, b, rm) ==
    LET ua   == Unpack(f, a)
        ub   == Unpack(f, b)
        sign == Xor(ua.sign, ub.sign)
        cls  == {ua.cls, ub.cls}
    IN CASE "nan" \in cls -> NanOut(f, ua.snan \/ ub.snan)
         [] cls = {"inf", "zero"} -> NanOut(f, TRUE)
         [] "inf" \in cls /\ cls \cap {"nan", "zero"} = {} -> Out(MakeInf(f, sign), {})
         [] "zero" \in cls /\ cls \cap {"nan", "inf"} = {} -> Out(MakeZero(f, sign), {})
         [] OTHER -> RoundMag(f, sign, ua.sig * ub.sig, ua.exp2 + ub.exp2, FALSE, rm)

\* Mutant: a subnormal keeps its short significand.
NormOperandNone(f, u) == u

\* Left-align a subnormal significand; quotient and root take their precision
\* from its width.
NormOperand(f, u) ==
    LET shift == f.mantbits - Msb(u.sig)
    IN IF u.cls # "normal" \/ shift <= 0 THEN u
       ELSE [u EXCEPT !.sig = @ * 2^shift, !.exp2 = @ - shift]

FpDiv(f, a, b, rm) ==
    LET ua   == Unpack(f, a)
        ub   == Unpack(f, b)
        sign == Xor(ua.sign, ub.sign)
        na   == NormOperand(f, ua)
        nb   == NormOperand(f, ub)
        num  == na.sig * 2^f.P
    IN IF "nan" \in {ua.cls, ub.cls} THEN NanOut(f, ua.snan \/ ub.snan)
       ELSE CASE ua.cls = ub.cls /\ ua.cls # "normal" -> NanOut(f, TRUE)
              [] ua.cls = "inf" /\ ub.cls # "inf" -> Out(MakeInf(f, sign), {})
              [] ub.cls = "inf" /\ ua.cls # "inf" -> Out(MakeZero(f, sign), {})
              [] ua.cls = "normal" /\ ub.cls = "zero" -> Out(MakeInf(f, sign), {"DZ"})
              [] ua.cls = "zero" /\ ub.cls = "normal" -> Out(MakeZero(f, sign), {})
              [] OTHER -> RoundMag(f, sign, num \div nb.sig,
                                   na.exp2 - nb.exp2 - f.P, num % nb.sig # 0, rm)

\* The digit-by-digit square root of isqrt128: the root, and what remains.
Isqrt(x) ==
    LET Digit(s, i) ==
            LET rem   == 4 * s.rem + ((x \div 2^(2 * i)) % 4)
                trial == 4 * s.root + 1
            IN IF rem >= trial THEN [rem |-> rem - trial, root |-> 2 * s.root + 1]
               ELSE [rem |-> rem, root |-> 2 * s.root]
    IN FoldLeft(Digit, [rem |-> 0, root |-> 0], [k \in 1..RootDigits |-> RootDigits - k])

FpSqrt(f, a, rm) ==
    LET ua   == Unpack(f, a)
        na   == NormOperand(f, ua)
        odd  == na.exp2 % 2
        root == Isqrt(na.sig * 2^(odd + 2 * f.Psqrt))
    IN CASE ua.cls = "nan" -> NanOut(f, ua.snan)
         [] ua.cls = "zero" -> Out(a, {})
         [] ua.cls \in {"normal", "inf"} /\ ua.sign = 1 -> NanOut(f, TRUE)
         [] ua.cls = "inf" /\ ua.sign = 0 -> Out(MakeInf(f, 0), {})
         [] OTHER -> RoundMag(f, 0, root.root, (na.exp2 - odd) \div 2 - f.Psqrt,
                              root.rem # 0, rm)

FpMulAdd(f, a, b, c, rm) ==
    LET ua    == Unpack(f, a)
        ub    == Unpack(f, b)
        uc    == Unpack(f, c)
        psign == Xor(ua.sign, ub.sign)
        cls   == {ua.cls, ub.cls}
        bad   == cls = {"inf", "zero"}
        prod  == Term(psign, ua.sig * ub.sig, ua.exp2 + ub.exp2)
    IN IF "nan" \in cls \cup {uc.cls} \/ bad
       THEN NanOut(f, ua.snan \/ ub.snan \/ uc.snan \/ bad)
       ELSE IF "inf" \in cls
       THEN IF uc.cls = "inf" /\ uc.sign # psign THEN NanOut(f, TRUE)
            ELSE Out(MakeInf(f, psign), {})
       ELSE CASE uc.cls = "inf" -> Out(MakeInf(f, uc.sign), {})
              [] uc.cls # "inf" /\ "zero" \in cls ->
                    Out(IF uc.cls # "zero" THEN c
                        ELSE MakeZero(f, IF psign = uc.sign THEN psign
                                         ELSE Truth(rm = "RDN")), {})
              [] uc.cls = "zero" /\ "zero" \notin cls ->
                    RoundMag(f, psign, prod.sig, prod.e, FALSE, rm)
              [] OTHER -> AddCore(f, prod, Term(uc.sign, uc.sig, uc.exp2), rm)

-----------------------------------------------------------------------------
(* Comparison, minimum and maximum, classification. *)

\* Order of two operands that are no NaNs: negative, zero or positive.
Fcmp(f, a, b) ==
    LET ua == Unpack(f, a)
        ub == Unpack(f, b)
        Lead(u) == u.exp2 + (IF u.cls = "zero" THEN -100000 ELSE Msb(u.sig))
        Aligned(u) == u.sig * 2^(WordTop - Msb(u.sig))
        mag == CASE "inf" \in {ua.cls, ub.cls} -> Truth(ua.cls = "inf") - Truth(ub.cls = "inf")
                 [] "inf" \notin {ua.cls, ub.cls} /\ Lead(ua) # Lead(ub) ->
                        IF Lead(ua) < Lead(ub) THEN -1 ELSE 1
                 [] OTHER -> Aligned(ua) - Aligned(ub)
    IN CASE ua.cls = "zero" /\ ub.cls = "zero" -> 0
         [] ua.sign # ub.sign /\ {ua.cls, ub.cls} # {"zero"} -> IF ua.sign = 1 THEN -1 ELSE 1
         [] OTHER -> IF ua.sign = 1 THEN -mag ELSE mag

\* eq is quiet: only a signalling NaN is invalid.  lt and le are not.
FpEq(f, a, b) ==
    LET ua == Unpack(f, a)
        ub == Unpack(f, b)
    IN IF "nan" \in {ua.cls, ub.cls}
       THEN Out(0, IF ua.snan \/ ub.snan THEN {"NV"} ELSE {})
       ELSE Out(Truth(Fcmp(f, a, b) = 0), {})

FpLess(f, a, b, orEqual) ==
    IF "nan" \in {Unpack(f, a).cls, Unpack(f, b).cls} THEN Out(0, {"NV"})
    ELSE Out(Truth(Fcmp(f, a, b) < 0 \/ (orEqual /\ Fcmp(f, a, b) = 0)), {})

FpMinMax(f, a, b, wantMax) ==
    LET ua == Unpack(f, a)
        ub == Unpack(f, b)
        c  == Fcmp(f, a, b)
        first == CASE c = 0 -> ua.sign = Truth(~wantMax)
                   [] c > 0 -> wantMax
                   [] c < 0 -> ~wantMax
    IN IF "nan" \in {ua.cls, ub.cls}
       THEN Out(CASE ua.cls = "nan" /\ ub.cls = "nan" -> QNan(f)
                  [] ua.cls = "nan" /\ ub.cls # "nan" -> b
                  [] OTHER -> a,
                IF ua.snan \/ ub.snan THEN {"NV"} ELSE {})
       ELSE Out(IF first THEN a ELSE b, {})

\* The bit of the FCLASS mask.
FpClassify(f, a) ==
    LET u == Unpack(f, a)
        subnormal == (a \div 2^f.mantbits) % 2^f.expbits = 0
    IN CASE u.cls = "nan"  -> IF u.snan THEN 8 ELSE 9
         [] u.cls = "inf"  -> IF u.sign = 1 THEN 0 ELSE 7
         [] u.cls = "zero" -> IF u.sign = 1 THEN 3 ELSE 4
         [] u.cls = "normal" /\ subnormal  -> IF u.sign = 1 THEN 2 ELSE 5
         [] u.cls = "normal" /\ ~subnormal -> IF u.sign = 1 THEN 1 ELSE 6

-----------------------------------------------------------------------------
(* Conversions. *)

\* f32_to_f64 (with rm = RNE) and f64_to_f32.
FpToFp(f, g, a, rm) ==
    LET u == Unpack(f, a)
    IN CASE u.cls = "nan"  -> NanOut(g, u.snan)
         [] u.cls = "inf"  -> Out(MakeInf(g, u.sign), {})
         [] u.cls = "zero" -> Out(MakeZero(g, u.sign), {})
         [] OTHER -> RoundMag(g, u.sign, u.sig, u.exp2, FALSE, rm)

\* sig * 2^exp2 rounded to an integer magnitude; bits is the word width (64
\* in the source), beyond which a left shift would overflow.
ToIntMag(bits, sig, exp2, sign, rm) ==
    LET rsh      == -exp2
        floorv   == Shr(sig, rsh)
        roundbit == Shr(sig, rsh - 1) % 2 = 1
        sticky   == Lost(sig, rsh - 1)
        inexact  == roundbit \/ sticky
        inc      == CASE rm = "RNE" -> roundbit /\ (sticky \/ floorv % 2 = 1)
                      [] rm = "RTZ" -> FALSE
                      [] rm = "RDN" -> sign = 1 /\ inexact
                      [] rm = "RUP" -> sign = 0 /\ inexact
                      [] rm = "RMM" -> roundbit
    IN IF exp2 >= 0
       THEN IF Msb(sig) + exp2 > bits - 1
            THEN [mag |-> 0, overflow |-> TRUE, inexact |-> FALSE]
            ELSE [mag |-> sig * 2^exp2, overflow |-> FALSE, inexact |-> FALSE]
       ELSE [mag |-> floorv + Truth(inc), overflow |-> FALSE, inexact |-> inexact]

FpToInt(f, bits, a, signed, intbits, rm) ==
    LET u      == Unpack(f, a)
        maxpos == IF signed THEN 2^(intbits - 1) - 1 ELSE 2^intbits - 1
        minneg == IF signed THEN 2^(intbits - 1) ELSE 0
        m      == ToIntMag(bits, u.sig, u.exp2, u.sign, rm)
        inexact == IF m.inexact THEN {"NX"} ELSE {}
    IN CASE u.cls = "nan"  -> Out(maxpos, {"NV"})
         [] u.cls = "zero" -> Out(0, {})
         [] u.cls = "inf"  -> Out(IF u.sign = 1 THEN minneg ELSE maxpos, {"NV"})
         [] u.cls = "normal" /\ u.sign = 1 ->
                IF m.overflow \/ m.mag > minneg THEN Out(minneg, {"NV"})
                ELSE Out((2^intbits - m.mag) % 2^intbits, inexact)
         [] u.cls = "normal" /\ u.sign = 0 ->
                IF m.overflow \/ m.mag > maxpos THEN Out(maxpos, {"NV"})
                ELSE Out(m.mag, inexact)

\* x holds intbits bits, read as signed or not.
IntToFp(f, x, signed, intbits, rm) ==
    LET neg == signed /\ x >= 2^(intbits - 1)
        mag == IF neg THEN 2^intbits - x ELSE x
    IN IF mag = 0 THEN Out(0, {})
       ELSE RoundMag(f, Truth(neg), mag, 0, FALSE, rm)

=============================================================================
