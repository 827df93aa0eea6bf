-------------------------------- MODULE Alu --------------------------------
(***************************************************************************)
(* The integer instructions of cpu.c: OP, OP-IMM, their word forms, M, the *)
(* Zba/Zbb/Zbs/Zbc groups, branches, the extension of loads and the        *)
(* arithmetic of atomics.  One code path serves RV32 and RV64: a register  *)
(* is a Container-bit unsigned (uint64_t), kept sign-extended from XLEN by *)
(* reg_write, and most results are computed at Container width.  Decoding  *)
(* is abstracted to a group (the opcode) and a mnemonic; a word form has   *)
(* the name of its full-width one.  A behaviour executes one instruction.  *)
(***************************************************************************)
EXTENDS Integers, FiniteSetsExt

LOCAL INSTANCE Bitwise

CONSTANTS
    Container,   \* bits of a register, a power of two (64)
    WordBits,    \* bits of a word and of an RV32 register (32)
    HalfBits,    \* bits of a halfword (16)
    ByteBits,    \* bits of a byte (8)
    AluInputs    \* the instructions executed, with their operands

VARIABLES insn, outcome

aluVars == <<insn, outcome>>

\* The low n bits: bm_mask and the uintN_t casts.
Cut(v, n) == v % 2^n

\* The intN_t casts, and the sign extension back into a register.
AsInt(v, n) == LET u == Cut(v, n) IN IF u < 2^(n - 1) THEN u ELSE u - 2^n

Ext(v, n) == Cut(AsInt(v, n), Container)

Inv(v) == 2^Container - 1 - v

BitAt(v, i) == (v \div 2^i) % 2

Flag(b) == IF b THEN 1 ELSE 0

SextXlen(xlen, v) == IF xlen = WordBits THEN Ext(v, WordBits) ELSE Cut(v, Container)

\* Mutant: the result is stored as computed.
XRegWriteRaw(rd, xlen, v) == IF rd # 0 THEN Cut(v, Container) ELSE 0

\* The value of register rd afterwards; x0 stays zero.
XRegWrite(rd, xlen, v) == IF rd # 0 THEN SextXlen(xlen, v) ELSE 0

-----------------------------------------------------------------------------
BmClz(v, bits) ==
    CHOOSE n \in 0..bits : /\ \A i \in (bits - n)..(bits - 1) : BitAt(v, i) = 0
                           /\ n = bits \/ BitAt(v, bits - 1 - n) = 1

BmCtz(v, bits) ==
    CHOOSE n \in 0..bits : /\ \A i \in 0..(n - 1) : BitAt(v, i) = 0
                           /\ n = bits \/ BitAt(v, n) = 1

BmCpop(v, bits) == MapThenSumSet(LAMBDA i : BitAt(v, i), 0..(bits - 1))

BmRor(v, n, bits) ==
    LET w == Cut(v, bits)
        sh == n % bits
    IN IF sh = 0 THEN w ELSE Cut((w \div 2^sh) | Cut(w * 2^(bits - sh), Container), bits)

BmRol(v, n, bits) ==
    LET w == Cut(v, bits)
        sh == n % bits
    IN IF sh = 0 THEN w ELSE Cut(Cut(w * 2^sh, Container) | (w \div 2^(bits - sh)), bits)

ByteOf(v, i) == Cut(v \div 2^(i * ByteBits), ByteBits)

BmOrcb(v, bits) ==
    MapThenSumSet(LAMBDA i : IF ByteOf(v, i) = 0 THEN 0
                             ELSE (2^ByteBits - 1) * 2^(i * ByteBits),
                  0..(bits \div ByteBits - 1))

BmRev8(v, bits) ==
    LET nbytes == bits \div ByteBits
    IN MapThenSumSet(LAMBDA i : ByteOf(v, i) * 2^((nbytes - 1 - i) * ByteBits), 0..(nbytes - 1))

\* The carry-less product, in two registers.
BmClmul128(a, b, bits) ==
    LET w == Cut(a, bits)
        Add(i, acc) == [lo |-> acc.lo ^^ Cut(w * 2^i, Container),
                        hi |-> IF i > 0 THEN acc.hi ^^ (w \div 2^(Container - i)) ELSE acc.hi]
    IN FoldSet(Add, [lo |-> 0, hi |-> 0], {i \in 0..(bits - 1) : BitAt(b, i) = 1})

BmBits128(p, pos, width) ==
    Cut(IF pos = 0 THEN p.lo
        ELSE IF pos < Container
             THEN (p.lo \div 2^pos) | Cut(p.hi * 2^(Container - pos), Container)
             ELSE p.hi \div 2^(pos - Container), width)

SignedLess(a, b) == AsInt(a, Container) < AsInt(b, Container)

BitmanipOp(op, a, b, bits) ==
    LET bit == 2^(b % bits)
        p == BmClmul128(a, b, bits)
    IN CASE op = "sh1add" -> 2 * a + b
         [] op = "sh2add" -> 4 * a + b
         [] op = "sh3add" -> 8 * a + b
         [] op = "andn" -> a & Inv(b)
         [] op = "orn" -> a | Inv(b)
         [] op = "xnor" -> Inv(a ^^ b)
         [] op = "rol" -> BmRol(a, b, bits)
         [] op = "ror" -> BmRor(a, b, bits)
         [] op = "clmul" -> BmBits128(p, 0, bits)
         [] op = "clmulr" -> BmBits128(p, bits - 1, bits)
         [] op = "clmulh" -> BmBits128(p, bits, bits)
         [] op = "min" -> IF SignedLess(a, b) THEN a ELSE b
         [] op = "minu" -> IF a < b THEN a ELSE b
         [] op = "max" -> IF SignedLess(a, b) THEN b ELSE a
         [] op = "maxu" -> IF a < b THEN b ELSE a
         [] op = "bclr" -> a & Inv(bit)
         [] op = "bext" -> (a \div bit) % 2
         [] op = "bset" -> a | bit
         [] op = "binv" -> a ^^ bit
         [] op = "zext.h" -> Cut(a, HalfBits)

BitmanipImm(op, a, imm, bits) ==
    LET bit == 2^(imm % bits)
    IN CASE op = "clz" -> BmClz(a, bits)
         [] op = "ctz" -> BmCtz(a, bits)
         [] op = "cpop" -> BmCpop(a, bits)
         [] op = "sext.b" -> Ext(a, ByteBits)
         [] op = "sext.h" -> Ext(a, HalfBits)
         [] op = "bclr" -> a & Inv(bit)
         [] op = "binv" -> a ^^ bit
         [] op = "bset" -> a | bit
         [] op = "ror" -> BmRor(a, imm, bits)
         [] op = "bext" -> (a \div bit) % 2
         [] op = "orc.b" -> BmOrcb(a, bits)
         [] op = "rev8" -> BmRev8(a, bits)

BitmanipOp32(op, a, b) ==
    LET auw == Cut(a, WordBits)
    IN CASE op = "add.uw" -> auw + b
         [] op = "sh1add.uw" -> 2 * auw + b
         [] op = "sh2add.uw" -> 4 * auw + b
         [] op = "sh3add.uw" -> 8 * auw + b
         [] op = "zext.h" -> Cut(a, HalfBits)
         [] op = "rol" -> Ext(BmRol(a, b, WordBits), WordBits)
         [] op = "ror" -> Ext(BmRor(a, b, WordBits), WordBits)

BitmanipImm32(op, a, imm) ==
    LET w == Cut(a, WordBits)
    IN CASE op = "slli.uw" -> w * 2^(imm % Container)
         [] op = "clz" -> BmClz(w, WordBits)
         [] op = "ctz" -> BmCtz(w, WordBits)
         [] op = "cpop" -> BmCpop(w, WordBits)
         [] op = "ror" -> Ext(BmRor(a, imm, WordBits), WordBits)

-----------------------------------------------------------------------------
\* High half of a product from word-sized partial products.
MulhuContainer(a, b) ==
    LET lo(v) == Cut(v, WordBits)
        hi(v) == v \div 2^WordBits
        lohi == lo(a) * hi(b)
        hilo == hi(a) * lo(b)
        cross == hi(lo(a) * lo(b)) + lo(lohi) + lo(hilo)
    IN hi(a) * hi(b) + hi(lohi) + hi(hilo) + hi(cross)

\* C division truncates toward zero.
TruncDiv(x, y) ==
    LET Mag(v) == IF v < 0 THEN -v ELSE v
        q == Mag(x) \div Mag(y)
    IN IF (x < 0) = (y < 0) THEN q ELSE -q

\* Division and remainder of n-bit a and b.
Divide(op, a, b, n) ==
    LET sa == AsInt(a, n)
        sb == AsInt(b, n)
        overflow == sa = -(2^(n - 1)) /\ sb = -1
    IN CASE op = "div" -> IF b = 0 THEN -1 ELSE IF overflow THEN sa ELSE TruncDiv(sa, sb)
         [] op = "divu" -> IF b = 0 THEN -1 ELSE a \div b
         [] op = "rem" -> IF b = 0 THEN a ELSE IF overflow THEN 0 ELSE sa - sb * TruncDiv(sa, sb)
         [] op = "remu" -> IF b = 0 THEN a ELSE a % b

ExecMuldiv64(op, a, b) ==
    LET less(s, v) == IF AsInt(s, Container) < 0 THEN v ELSE 0
    IN CASE op = "mul" -> a * b
         [] op = "mulh" -> MulhuContainer(a, b) - less(a, b) - less(b, a)
         [] op = "mulhsu" -> MulhuContainer(a, b) - less(a, b)
         [] op = "mulhu" -> MulhuContainer(a, b)
         [] OTHER -> Divide(op, a, b, Container)

ExecMuldiv(op, ra, rb, xlen) ==
    LET a == Cut(ra, WordBits)
        b == Cut(rb, WordBits)
        sa == AsInt(ra, WordBits)
        sb == AsInt(rb, WordBits)
    IN IF xlen = Container THEN ExecMuldiv64(op, ra, rb)
       ELSE CASE op = "mul" -> a * b
              [] op = "mulh" -> (sa * sb) \div 2^WordBits
              [] op = "mulhsu" -> (sa * b) \div 2^WordBits
              [] op = "mulhu" -> (a * b) \div 2^WordBits
              [] OTHER -> Divide(op, a, b, WordBits)

MulDivs == {"mul", "mulh", "mulhsu", "mulhu", "div", "divu", "rem", "remu"}
BaseOps == {"add", "sub", "sll", "slt", "sltu", "xor", "srl", "sra", "or", "and"}

\* The base operations: only the right shifts look at the architectural width.
BaseOp(op, a, b, xlen) ==
    LET n == b % xlen
    IN CASE op = "add" -> a + b
         [] op = "sub" -> a - b
         [] op = "sll" -> Cut(a * 2^n, Container)
         [] op = "slt" -> Flag(SignedLess(a, b))
         [] op = "sltu" -> Flag(a < b)
         [] op = "xor" -> a ^^ b
         [] op = "or" -> a | b
         [] op = "and" -> a & b
         [] op = "srl" -> Cut(a, xlen) \div 2^n
         [] op = "sra" -> AsInt(a, xlen) \div 2^n

ExecOp(op, a, b, xlen) ==
    IF op \in MulDivs THEN ExecMuldiv(op, a, b, xlen)
    ELSE IF op \in BaseOps THEN BaseOp(op, a, b, xlen) ELSE BitmanipOp(op, a, b, xlen)

ExecOpImm(op, a, imm, xlen) ==
    IF op \in BaseOps THEN BaseOp(op, a, imm, xlen) ELSE BitmanipImm(op, a, imm, xlen)

\* Word forms: the low words, the result sign-extended.
WordOp(op, a, b) ==
    LET n == b % WordBits
    IN Ext(CASE op = "add" -> a + b
             [] op = "sub" -> a - b
             [] op = "sll" -> Cut(a, WordBits) * 2^n
             [] op = "srl" -> Cut(a, WordBits) \div 2^n
             [] op = "sra" -> AsInt(a, WordBits) \div 2^n, WordBits)

WordOps == {"add", "sub", "sll", "srl", "sra"}

\* What a word opcode does not decode.
NoWordForm == {"mulh", "mulhsu", "mulhu"} \cup (BaseOps \ WordOps)

ExecMuldivw(op, ra, rb) ==
    LET a == Cut(ra, WordBits)
        b == Cut(rb, WordBits)
    IN Ext(IF op = "mul" THEN a * b ELSE Divide(op, a, b, WordBits), WordBits)

ExecOp32(op, a, b) ==
    IF op \in MulDivs THEN ExecMuldivw(op, a, b)
    ELSE IF op \in WordOps THEN WordOp(op, a, b) ELSE BitmanipOp32(op, a, b)

ExecOpImm32(op, a, imm) ==
    IF op \in WordOps THEN WordOp(op, a, imm) ELSE BitmanipImm32(op, a, imm)

\* Whether the branch is taken.
ExecBranch(op, a, b) ==
    CASE op = "beq" -> a = b
      [] op = "bne" -> a # b
      [] op = "blt" -> SignedLess(a, b)
      [] op = "bge" -> ~SignedLess(a, b)
      [] op = "bltu" -> a < b
      [] op = "bgeu" -> a >= b

\* What a load makes of the memory it reads; m is what lies at the address.
ExecLoad(op, m, xlen) ==
    CASE op = "lb" -> Ext(m, ByteBits)
      [] op = "lh" -> Ext(m, HalfBits)
      [] op = "lw" -> Ext(m, WordBits)
      [] op = "ld" -> IF xlen = Container THEN m ELSE 0
      [] op = "lbu" -> Cut(m, ByteBits)
      [] op = "lhu" -> Cut(m, HalfBits)
      [] op = "lwu" -> IF xlen = Container THEN Cut(m, WordBits) ELSE 0

\* What an atomic of n bits leaves in memory.
AmoResult(op, old, b, n) ==
    CASE op = "swap" -> b
      [] op = "add" -> Cut(old + b, n)
      [] op = "xor" -> old ^^ b
      [] op = "and" -> old & b
      [] op = "or" -> old | b
      [] op = "min" -> IF AsInt(old, n) < AsInt(b, n) THEN old ELSE b
      [] op = "max" -> IF AsInt(old, n) > AsInt(b, n) THEN old ELSE b
      [] op = "minu" -> IF old < b THEN old ELSE b
      [] op = "maxu" -> IF old > b THEN old ELSE b

-----------------------------------------------------------------------------
AluInit == \E k \in DOMAIN AluInputs : insn \in AluInputs[k] /\ outcome = <<>>

Writes(v) == outcome' = <<[trap |-> FALSE, rd |-> XRegWrite(insn.rd, insn.xlen, v), aux |-> 0]>>

Traps == outcome' = <<[trap |-> TRUE, rd |-> 0, aux |-> 0]>>

RegisterOp == insn.group = "op" /\ Writes(ExecOp(insn.op, insn.a, insn.b, insn.xlen))

ImmediateOp == insn.group = "imm" /\ Writes(ExecOpImm(insn.op, insn.a, insn.b, insn.xlen))

RegisterOp32 ==
    /\ insn.group = "op32"
    /\ IF insn.xlen # Container \/ insn.op \in NoWordForm THEN Traps
       ELSE Writes(ExecOp32(insn.op, insn.a, insn.b))

ImmediateOp32 ==
    /\ insn.group = "imm32"
    /\ IF insn.xlen # Container \/ insn.op \in NoWordForm THEN Traps
       ELSE Writes(ExecOpImm32(insn.op, insn.a, insn.b))

BranchOp ==
    /\ insn.group = "branch"
    /\ outcome' = <<[trap |-> FALSE, rd |-> 0, aux |-> Flag(ExecBranch(insn.op, insn.a, insn.b))]>>

LoadOp == insn.group = "load" /\ Writes(ExecLoad(insn.op, insn.a, insn.xlen))

\* rd receives the old value, memory the combination.
AtomicOp ==
    /\ insn.group \in {"amo.w", "amo.d"}
    /\ LET n == IF insn.group = "amo.d" THEN Container ELSE WordBits
           old == Cut(insn.a, n)
       IN IF insn.op = "reserved" THEN Traps
          ELSE outcome' = <<[trap |-> FALSE,
                             rd |-> XRegWrite(insn.rd, insn.xlen, Ext(old, n)),
                             aux |-> AmoResult(insn.op, old, Cut(insn.b, n), n)]>>

ExecuteInteger ==
    /\ outcome = <<>>
    /\ \/ RegisterOp \/ ImmediateOp \/ RegisterOp32 \/ ImmediateOp32
       \/ BranchOp \/ LoadOp \/ AtomicOp
    /\ UNCHANGED insn

-----------------------------------------------------------------------------
\* The instruction set manual's meaning of an operation on n-bit operands: the
\* patterns as sets of bit positions, arithmetic on unbounded integers.
Manual(op, n, x, y) ==
    LET positions == 0..(n - 1)
        X == Cut(x, n)
        Y == Cut(y, n)
        SX == AsInt(x, n)
        SY == AsInt(y, n)
        PX == {i \in positions : BitAt(x, i) = 1}
        PY == {i \in positions : BitAt(y, i) = 1}
        V(set) == MapThenSumSet(LAMBDA i : 2^i, set)
        s == Y % n
        Mag(v) == IF v < 0 THEN -v ELSE v
        quotient == CHOOSE q \in -(2^n)..(2^n) :
                        /\ Mag(q * SY) <= Mag(SX) /\ Mag(SX) - Mag(q * SY) < Mag(SY)
                        /\ q = 0 \/ ((q < 0) = ((SX < 0) # (SY < 0)))
        odd(k) == Cardinality({j \in PX : k - j \in PY}) % 2 = 1
        product(from) == V({k \in positions : odd(from + k)})
        bytes == n \div ByteBits
        inByte(i) == {j \in PX : j \div ByteBits = i \div ByteBits}
        uw == Cut(x, WordBits)
    IN CASE op = "add" -> X + Y
         [] op = "sub" -> X - Y
         [] op = "slt" -> Flag(SX < SY)
         [] op = "sltu" -> Flag(X < Y)
         [] op = "xor" -> V((PX \ PY) \cup (PY \ PX))
         [] op = "or" -> V(PX \cup PY)
         [] op = "and" -> V(PX \cap PY)
         [] op = "andn" -> V(PX \ PY)
         [] op = "orn" -> V(PX \cup (positions \ PY))
         [] op = "xnor" -> V({i \in positions : i \in PX <=> i \in PY})
         [] op = "sll" -> V({i \in positions : i - s \in PX})
         [] op = "srl" -> V({i \in positions : i + s \in PX})
         [] op = "sra" -> V({i \in positions : Min({i + s, n - 1}) \in PX})
         [] op = "rol" -> V({(i + s) % n : i \in PX})
         [] op = "ror" -> V({(i - s) % n : i \in PX})
         [] op = "mul" -> X * Y
         [] op = "mulh" -> (SX * SY) \div 2^n
         [] op = "mulhsu" -> (SX * Y) \div 2^n
         [] op = "mulhu" -> (X * Y) \div 2^n
         [] op = "div" -> IF SY = 0 THEN -1 ELSE quotient
         [] op = "rem" -> IF SY = 0 THEN SX ELSE SX - quotient * SY
         [] op = "divu" -> IF Y = 0 THEN -1 ELSE X \div Y
         [] op = "remu" -> IF Y = 0 THEN X ELSE X % Y
         [] op = "sh1add" -> 2 * X + Y
         [] op = "sh2add" -> 4 * X + Y
         [] op = "sh3add" -> 8 * X + Y
         [] op = "add.uw" -> uw + Y
         [] op = "sh1add.uw" -> 2 * uw + Y
         [] op = "sh2add.uw" -> 4 * uw + Y
         [] op = "sh3add.uw" -> 8 * uw + Y
         [] op = "slli.uw" -> V({i \in positions : i - s \in PX /\ i - s < WordBits})
         [] op = "clmul" -> product(0)
         [] op = "clmulr" -> product(n - 1)
         [] op = "clmulh" -> product(n)
         [] op = "min" -> Min({SX, SY})
         [] op = "max" -> Max({SX, SY})
         [] op = "minu" -> Min({X, Y})
         [] op = "maxu" -> Max({X, Y})
         [] op = "swap" -> Y
         [] op = "bclr" -> V(PX \ {s})
         [] op = "bset" -> V(PX \cup {s})
         [] op = "binv" -> V({i \in positions : (i \in PX) # (i = s)})
         [] op = "bext" -> Flag(s \in PX)
         [] op = "clz" -> n - Min({k \in 0..n : X < 2^k})
         [] op = "ctz" -> Max({k \in 0..n : X % 2^k = 0})
         [] op = "cpop" -> Cardinality(PX)
         [] op = "orc.b" -> V({i \in positions : inByte(i) # {}})
         [] op = "rev8" -> V({(bytes - 1 - (i \div ByteBits)) * ByteBits + (i % ByteBits) : i \in PX})
         [] op \in {"sext.b", "lb"} -> AsInt(x, ByteBits)
         [] op \in {"sext.h", "lh"} -> AsInt(x, HalfBits)
         [] op \in {"zext.h", "lhu"} -> V({i \in PX : i < HalfBits})
         [] op = "lbu" -> V({i \in PX : i < ByteBits})
         [] op = "lw" -> AsInt(x, WordBits)
         [] op = "lwu" -> V({i \in PX : i < WordBits})
         [] op = "ld" -> X
         [] op = "beq" -> Flag(X = Y)
         [] op = "bne" -> Flag(X # Y)
         [] op = "blt" -> Flag(SX < SY)
         [] op = "bge" -> Flag(SX >= SY)
         [] op = "bltu" -> Flag(X < Y)
         [] op = "bgeu" -> Flag(X >= Y)

\* The forms whose result is wider than a word although the opcode is a word one.
FullWidth == {"add.uw", "sh1add.uw", "sh2add.uw", "sh3add.uw", "slli.uw", "zext.h"}

\* The operand width the manual gives an instruction.
Width(i) ==
    IF i.group = "amo.w" \/ (i.group \in {"op32", "imm32"} /\ i.op \notin FullWidth)
    THEN WordBits ELSE IF i.group = "amo.d" THEN Container ELSE i.xlen

(* RV32 and RV64 share one code path on 64-bit registers, and both compute *)
(* the manual's result: read at the width the instruction names, extended  *)
(* from that width, in a register that keeps its sign extension, x0 zero;  *)
(* division by zero and overflow have their defined values, a word opcode  *)
(* traps on RV32 and where it has no such form, a branch goes the manual's *)
(* way, and an atomic stores the combination and returns the old value     *)
(* (cpu.c exec_op .. exec_branch, exec_load, exec_amo, reg_write).         *)
AluAgrees ==
    outcome # <<>> =>
        LET o == outcome[1]
            n == Width(insn)
            m == Manual(insn.op, n, insn.a, insn.b)
            word == insn.group \in {"op32", "imm32"}
        IN IF \/ word /\ (insn.xlen = WordBits \/ insn.op \in NoWordForm)
              \/ insn.op = "reserved"
           THEN o.trap
           ELSE /\ ~o.trap
                /\ CASE insn.group = "branch" -> o.rd = 0 /\ o.aux = m
                     [] insn.group \in {"amo.w", "amo.d"} ->
                            /\ o.aux = Cut(m, n)
                            /\ o.rd = IF insn.rd = 0 THEN 0 ELSE Ext(insn.a, n)
                     [] OTHER -> o.rd = IF insn.rd = 0 THEN 0 ELSE Ext(m, n)

=============================================================================
