-------------------------------- MODULE Wide --------------------------------
(***************************************************************************)
(* The two- and four-word unsigned integers of softfloat.c, word by word:  *)
(* carries, borrows, cross-word shifts and the bits a right shift loses.   *)
(* A number is a sequence of words, the least significant first, W bits    *)
(* each (64 in the source); a is a two-word number or a word, A a          *)
(* four-word one.  A behaviour computes one helper on one pair of inputs.  *)
(***************************************************************************)
EXTENDS Integers, SequencesExt

CONSTANTS
    W,           \* bits per word, a power of two
    WideInputs   \* the helpers and the operands they are called on

VARIABLES call, answer

wideVars == <<call, answer>>

Base == 2^W

One64(b) == IF b THEN 1 ELSE 0

\* x << n and x >> n on a word.
WShl(x, n) == (x * 2^n) % Base

WShr(x, n) == x \div 2^n

Lo(a) == a[1]

Hi(a) == a[2]

Mk128(hi, lo) == <<lo, hi>>

Is0(a) == \A i \in DOMAIN a : a[i] = 0

\* Binary search: half the word, a quarter, ... one bit.
Clz64(x) ==
    LET Probe(s, k) == IF s.x <= 2^(W - k) - 1
                       THEN [n |-> s.n + k, x |-> WShl(s.x, k)] ELSE s
        halves == SelectSeq([i \in 1..W |-> 2^(W - i)], LAMBDA k : k < W)
    IN IF x = 0 THEN W ELSE FoldLeft(Probe, [n |-> 0, x |-> x], halves).n

Msb128(a) ==
    2 * W - 1 - (IF Hi(a) # 0 THEN Clz64(Hi(a)) ELSE W + Clz64(Lo(a)))

GetBit128(a, i) ==
    IF i < 0 \/ i > 2 * W - 1 THEN 0
    ELSE (IF i >= W THEN WShr(Hi(a), i - W) ELSE WShr(Lo(a), i)) % 2

\* The order of two numbers is that of the highest word they differ in.
CmpWords(a, b) ==
    LET diff == {i \in DOMAIN a : a[i] # b[i]}
        top  == CHOOSE i \in diff : \A j \in diff : j <= i
    IN IF diff = {} THEN 0 ELSE IF a[top] < b[top] THEN -1 ELSE 1

Add128(a, b) ==
    LET lo == (Lo(a) + Lo(b)) % Base
    IN Mk128((Hi(a) + Hi(b) + One64(lo < Lo(a))) % Base, lo)

Sub128(a, b) ==
    Mk128((Hi(a) - Hi(b) - One64(Lo(a) < Lo(b))) % Base, (Lo(a) - Lo(b)) % Base)

Shl128(a, n) ==
    CASE n <= 0 -> a
      [] n >= W -> Mk128(WShl(Lo(a), n - W), 0)
      [] OTHER  -> Mk128(WShl(Hi(a), n) + WShr(Lo(a), W - n), WShl(Lo(a), n))

\* A right shift: the floor, and whether a one fell off.
Shr128Jam(a, n) ==
    LET m == n - W
    IN CASE n <= 0 -> [r |-> a, lost |-> FALSE]
         [] n >= 2 * W -> [r |-> Mk128(0, 0), lost |-> ~Is0(a)]
         [] n >= W /\ n < 2 * W ->
                [r |-> Mk128(0, WShr(Hi(a), m)),
                 lost |-> Lo(a) # 0 \/ Hi(a) % 2^m # 0]
         [] OTHER ->
                [r |-> Mk128(WShr(Hi(a), n), WShr(Lo(a), n) + WShl(Hi(a), W - n)),
                 lost |-> Lo(a) % 2^n # 0]

\* A product from half-word partials.
Mul64(x, y) ==
    LET H  == 2^(W \div 2)
        ll == (x % H) * (y % H)
        lh == (x % H) * (y \div H)
        hl == (x \div H) * (y % H)
        hh == (x \div H) * (y \div H)
        cross == (ll \div H) + (lh % H) + (hl % H)
    IN Mk128((hh + (lh \div H) + (hl \div H) + (cross \div H)) % Base,
             (ll % H) + WShl(cross, W \div 2))

Descending == [k \in 1..W |-> W - k]

\* Long division of a two-word number by a word above its high word.
Udiv128by64(a, den) ==
    LET Bit(s, i) ==
            LET carry == s.r >= 2^(W - 1)
                r == WShl(s.r, 1) + (WShr(Lo(a), i) % 2)
            IN IF carry \/ r >= den
               THEN [q |-> s.q + 2^i, r |-> (r - den) % Base] ELSE [s EXCEPT !.r = r]
    IN FoldLeft(Bit, [q |-> 0, r |-> Hi(a)], Descending)

\* floor(sqrt(a)) for a below a quarter of the two-word range.
Isqrt128(a) ==
    LET Digit(s, i) ==
            LET two   == 2 * GetBit128(a, 2 * i + 1) + GetBit128(a, 2 * i)
                rem   == Add128(Shl128(s.rem, 2), Mk128(0, two))
                trial == Add128(Shl128(Mk128(0, s.root), 2), Mk128(0, 1))
            IN IF CmpWords(rem, trial) >= 0
               THEN [rem |-> Sub128(rem, trial), root |-> WShl(s.root, 1) + 1]
               ELSE [rem |-> rem, root |-> WShl(s.root, 1)]
        end == FoldLeft(Digit, [rem |-> Mk128(0, 0), root |-> 0], Descending)
    IN [root |-> end.root, remNz |-> ~Is0(end.rem)]

Srjam64(x, dist) ==
    IF dist >= W THEN One64(x # 0)
    ELSE LET r == WShr(x, dist)
         IN IF x % 2^dist # 0 /\ r % 2 = 0 THEN r + 1 ELSE r

-----------------------------------------------------------------------------
(* Four words. *)

From128(a) == <<Lo(a), Hi(a), 0, 0>>

Msb256(A) ==
    LET top == CHOOSE i \in 1..4 : A[i] # 0 /\ \A j \in (i + 1)..4 : A[j] = 0
    IN IF Is0(A) THEN -1 ELSE (top - 1) * W + (W - 1 - Clz64(A[top]))

Add256(A, B) ==
    LET Step(st, i) ==
            LET s1 == (A[i] + st.carry) % Base
                s2 == (s1 + B[i]) % Base
            IN [r |-> Append(st.r, s2),
                carry |-> One64(s1 < st.carry) + One64(s2 < B[i])]
    IN FoldLeft(Step, [r |-> <<>>, carry |-> 0], <<1, 2, 3, 4>>).r

\* Mutant: a borrow out of b + borrow is forgotten.
Sub256ShortBorrow(A, B) ==
    LET Step(st, i) ==
            LET bi == (B[i] + st.borrow) % Base
            IN [r |-> Append(st.r, (A[i] - bi) % Base), borrow |-> One64(A[i] < bi)]
    IN FoldLeft(Step, [r |-> <<>>, borrow |-> 0], <<1, 2, 3, 4>>).r

Sub256(A, B) ==
    LET Step(st, i) ==
            LET bi == (B[i] + st.borrow) % Base
            IN [r |-> Append(st.r, (A[i] - bi) % Base),
                borrow |-> One64(bi < st.borrow) + One64(A[i] < bi)]
    IN FoldLeft(Step, [r |-> <<>>, borrow |-> 0], <<1, 2, 3, 4>>).r

Shl128To256(a, n) ==
    LET s == From128(a)
        word == n \div W
        bit == n % W
    IN [i \in 1..4 |->
            IF i <= word THEN 0
            ELSE WShl(s[i - word], bit)
                 + (IF bit # 0 /\ i - word - 1 >= 1 THEN WShr(s[i - word - 1], W - bit)
                    ELSE 0)]

Shr256Jam(A, n) ==
    LET word == n \div W
        bit == n % W
        At(i) == IF i + word > 4 THEN 0
                 ELSE WShr(A[i + word], bit)
                      + (IF bit # 0 /\ i + word + 1 <= 4
                         THEN WShl(A[i + word + 1], W - bit) ELSE 0)
    IN CASE n <= 0 -> [r |-> A, lost |-> FALSE]
         [] n >= 4 * W -> [r |-> <<0, 0, 0, 0>>, lost |-> ~Is0(A)]
         [] OTHER -> [r |-> [i \in 1..4 |-> At(i)],
                      lost |-> (\E i \in 1..word : A[i] # 0)
                               \/ (bit # 0 /\ A[word + 1] % 2^bit # 0)]

-----------------------------------------------------------------------------
(* A call of a helper, under the precondition its comment states. *)

Num(a) == FoldRight(LAMBDA w, acc : w + Base * acc, a, 0)

Answer(c) ==
    CASE c.op = "add128" -> Add128(c.a, c.b)
      [] c.op = "sub128" -> Sub128(c.a, c.b)
      [] c.op = "cmp128" -> CmpWords(c.a, c.b)
      [] c.op = "mul64"  -> Mul64(Lo(c.a), Lo(c.b))
      [] c.op = "udiv128by64" -> Udiv128by64(c.a, Lo(c.b))
      [] c.op = "isqrt128" -> Isqrt128(c.a)
      [] c.op = "msb128" -> Msb128(c.a)
      [] c.op = "shl128" -> Shl128(c.a, c.n)
      [] c.op = "shr128_jam" -> Shr128Jam(c.a, c.n)
      [] c.op = "srjam64" -> Srjam64(Lo(c.a), c.n)
      [] c.op = "add256" -> Add256(c.a, c.b)
      [] c.op = "sub256" -> Sub256(c.a, c.b)
      [] c.op = "cmp256" -> CmpWords(c.a, c.b)
      [] c.op = "msb256" -> Msb256(c.a)
      [] c.op = "shl128_256" -> Shl128To256(c.a, c.n)
      [] c.op = "shr256_jam" -> Shr256Jam(c.a, c.n)

Requires(c) ==
    CASE c.op \in {"sub128", "sub256"} -> Num(c.a) >= Num(c.b)
      [] c.op = "udiv128by64" -> Hi(c.a) < Lo(c.b)
      [] c.op = "isqrt128" -> Num(c.a) < 2^(2 * W - 2)
      [] c.op \in {"msb128", "msb256"} -> ~Is0(c.a)
      [] c.op = "add256" -> Num(c.a) + Num(c.b) < 2^(4 * W)
      [] OTHER -> TRUE

WideInit ==
    /\ \E i \in DOMAIN WideInputs : call \in WideInputs[i]
    /\ answer = <<>>

Compute ==
    /\ answer = <<>>
    /\ Requires(call)
    /\ answer' = <<Answer(call)>>
    /\ UNCHANGED call

-----------------------------------------------------------------------------
Sign(n) == IF n < 0 THEN -1 ELSE IF n > 0 THEN 1 ELSE 0

(* Every helper computes the integer function it stands for: no carry or   *)
(* borrow between words is lost, a shift moves bits across words and       *)
(* reports the ones it drops, and division and square root leave the right *)
(* remainder (softfloat.c add128 .. srjam64, msb256 .. shr256_jam).        *)
WordsAgree ==
    answer # <<>> =>
        LET res == answer[1]
            a == Num(call.a)
            b == Num(call.b)
            n == call.n
            op == call.op
        IN CASE op \in {"add128"} -> Num(res) = (a + b) % Base^2
             [] op = "add256" -> Num(res) = a + b
             [] op \in {"sub128", "sub256"} -> Num(res) = a - b
             [] op \in {"cmp128", "cmp256"} -> res = Sign(a - b)
             [] op = "mul64" -> Num(res) = Lo(call.a) * Lo(call.b)
             [] op = "udiv128by64" ->
                    res.q = a \div Lo(call.b) /\ res.r = a % Lo(call.b)
             [] op = "isqrt128" ->
                    /\ res.root^2 <= a /\ a < (res.root + 1)^2
                    /\ res.remNz = (res.root^2 # a)
             [] op \in {"msb128", "msb256"} -> 2^res <= a /\ a < 2^(res + 1)
             [] op = "shl128" -> Num(res) = (a * 2^n) % Base^2
             [] op = "shl128_256" -> Num(res) = (a * 2^n) % Base^4
             [] op \in {"shr128_jam", "shr256_jam"} ->
                    Num(res.r) = a \div 2^n /\ res.lost = (a % 2^n # 0)
             [] op = "srjam64" ->
                    res = LET w == Lo(call.a)
                             IN IF w % 2^n # 0 /\ (w \div 2^n) % 2 = 0
                                THEN (w \div 2^n) + 1 ELSE w \div 2^n

=============================================================================
