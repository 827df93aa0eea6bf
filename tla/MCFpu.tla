------------------------------- MODULE MCFpu -------------------------------
(***************************************************************************)
(* Module Fpu on two small formats: a single of 5 bits (1 fraction bit, 3  *)
(* exponent bits) and a double of 7 (2 and 4).  Every pair of singles, and *)
(* the doubles around zero, the subnormal boundary, one, and overflow.     *)
(* Beside them, the word-level helpers of softfloat.c (module Wide) on     *)
(* 4-bit words, and the integer instructions of cpu.c (module Alu) on      *)
(* 8-bit registers with 4-bit words: every pair of RV32 values, and pairs  *)
(* of RV64 values around zero, the word boundary and the sign.  A          *)
(* behaviour issues one instruction or calls one helper.                   *)
(***************************************************************************)
EXTENDS Fpu, Wide, Alu

MCF32 == Fmt(1, 3, 3, 2)
MCF64 == Fmt(2, 4, 4, 2)

Boxed(v) == 2^MCF64.width - 2^MCF32.width + v

Cpu(f1, f2, f3, xs, frm, fl, xlen) ==
    [f |-> (0 :> 5) @@ (1 :> f1) @@ (2 :> f2) @@ (3 :> f3),
     xs |-> xs, xd |-> 0, frm |-> frm, fflags |-> fl, fs |-> "clean",
     mem |-> 89, trap |-> "none", xlen |-> xlen]

Inst(op, fmt, rm, sel) ==
    [op |-> op, fmt |-> fmt, rm |-> rm, sel |-> sel, fl |-> {"UF", "NX"}]

Signs(mags, top) == mags \cup {m + top : m \in mags}

Singles == {Boxed(v) : v \in 0..31}
Doubles == Signs({0, 1, 3, 4, 5, 7, 11, 16, 27, 28, 29, 36, 47, 51, 58, 59, 60, 61, 62}, 64)

\* Operands of a fused multiply-add.
FusedS == {Boxed(v) : v \in Signs({0, 1, 2, 3, 6, 7, 10, 13, 14, 15}, 16)}
FusedD == Signs({1, 3, 5, 27, 30, 45, 59}, 64)

Ops(ops, fmt, frms, F1, F2, F3) ==
    {[inst |-> Inst(op, fmt, 7, "-"), cpu |-> Cpu(a, b, c, 0, m, {"DZ"}, 64)] :
        op \in ops, m \in frms, a \in F1, b \in F2, c \in F3}

ArithCases == <<
    Ops({"add", "sub", "mul", "div"}, 0, 0..4, Singles, Singles, {0}),
    Ops({"sqrt"}, 0, 0..4, Singles, {0}, {0}),
    Ops({"add", "sub", "mul", "div"}, 1, 0..4, Doubles, Doubles, {0}),
    Ops({"sqrt"}, 1, 0..4, 0..127, {0}, {0}),
    Ops({"madd"}, 0, 0..4, FusedS, FusedS, FusedS),
    Ops({"msub", "nmsub", "nmadd"}, 0, {2}, FusedS, {Boxed(7), Boxed(22)}, FusedS),
    Ops({"madd"}, 1, {0, 1, 3}, FusedD, FusedD, FusedD) >>

OrderCases == <<
    Ops({"eq", "lt", "le", "min", "max"}, 0, {0}, Singles, Singles, {0}),
    Ops({"eq", "lt", "le", "min", "max"}, 1, {0}, Doubles, Doubles, {0}) >>

ConvertCases == <<
    {[inst |-> Inst("toint", fmt, 7, sel), cpu |-> Cpu(a, 0, 0, 0, m, {}, 64)] :
        fmt \in 0..1, sel \in {"W", "WU", "L", "LU"}, a \in 0..127, m \in 0..4},
    {[inst |-> Inst("fromint", fmt, 7, sel), cpu |-> Cpu(0, 0, 0, x, m, {}, 64)] :
        fmt \in 0..1, sel \in {"W", "WU", "L", "LU"}, x \in 0..127, m \in 0..4},
    {[inst |-> Inst("cvt", fmt, 7, "-"), cpu |-> Cpu(a, 0, 0, 0, m, {}, 64)] :
        fmt \in 0..1, a \in 0..127, m \in 0..4} >>

\* Unboxed singles, moves, loads and stores on both harts.
MoveCases ==
    {[inst |-> Inst(op, fmt, 0, sel), cpu |-> Cpu(a, 77, 0, x, 0, {}, xlen)] :
        op \in {"sgnj", "sgnjn", "sgnjx", "mvx", "mvf", "class", "load", "store"},
        fmt \in 0..1, sel \in {"ram", "unmapped", "outside"},
        a \in {3, 40, 77, 101, 126}, x \in {0, 29, 109}, xlen \in {32, 64}}

ReservedAccesses ==
    {[inst |-> Inst(op, 2, 0, sel), cpu |-> Cpu(77, 0, 0, 0, 0, {}, 64)] :
        op \in {"load", "store"}, sel \in {"ram", "unmapped", "outside"}}

\* Rounding modes: static, dynamic and reserved; reserved operations; fcsr.
ModeCases ==
    {[inst |-> Inst(op, fmt, rm, "L"), cpu |-> Cpu(a, Boxed(9), Boxed(1), 9, frm, {}, xlen)] :
        op \in {"add", "sqrt", "madd", "cvt", "toint", "fromint", "reserved",
                "fcsr", "fflags", "frm"},
        fmt \in 0..1, rm \in 0..7, a \in {5, Boxed(3)}, frm \in {0, 3, 5, 7}, xlen \in {32, 64}}

MCCases == ArithCases \o OrderCases \o ConvertCases \o <<MoveCases, ReservedAccesses, ModeCases>>

-----------------------------------------------------------------------------
Call(op, a, b, n) == [op |-> op, a |-> a, b |-> b, n |-> n]

Words == 0..15
Edges == {0, 1, 7, 8, 15}
Two == Edges \X Edges
Four == {0, 8, 15} \X {0, 1, 15} \X {0, 8, 15} \X {0, 7, 15}
Z2 == <<0, 0>>
Z4 == <<0, 0, 0, 0>>

MCWideInputs == <<
    {Call(op, a, b, 0) : op \in {"add128", "sub128", "cmp128"}, a \in Two, b \in Two},
    {Call("mul64", <<x, 0>>, <<y, 0>>, 0) : x \in Words, y \in Words},
    {Call("udiv128by64", <<x, y>>, <<d, 0>>, 0) : x \in Words, y \in Words, d \in 1..15},
    {Call(op, <<x, y>>, Z2, 0) : op \in {"isqrt128", "msb128"}, x \in Words, y \in Words},
    {Call(op, a, Z2, n) : op \in {"shl128", "shr128_jam"}, a \in Two, n \in 0..9},
    {Call("srjam64", <<x, 0>>, Z2, n) : x \in Words, n \in 0..5},
    {Call(op, a, b, 0) : op \in {"add256", "sub256", "cmp256"}, a \in Four, b \in Four},
    {Call("msb256", a, Z4, 0) : a \in Four},
    {Call("shl128_256", a, Z2, n) : a \in Two, n \in 0..15},
    {Call("shr256_jam", a, Z4, n) : a \in Four, n \in 0..17} >>

NoCall == Call("none", Z2, Z2, 0)

Idle == [inst |-> Inst("none", 0, 0, "-"), cpu |-> Cpu(0, 0, 0, 0, 0, {}, 64)]

AluInsn(group, op, xlen, a, b, rd) == [group |-> group, op |-> op, xlen |-> xlen, a |-> a, b |-> b, rd |-> rd]

Narrow == 0..7 \cup 248..255
Broad == {0, 1, 2, 3, 7, 8, 9, 15, 16, 23, 85, 112, 126, 127, 128, 129, 136, 170, 240, 247, 248, 249, 254, 255}
AluRegs(xlen) == IF xlen = 4 THEN Narrow ELSE Broad

LogicOps == {"sh1add", "sh2add", "sh3add", "andn", "orn", "xnor", "rol", "ror",
             "clmul", "clmulr", "clmulh", "min", "minu", "max", "maxu",
             "bclr", "bext", "bset", "binv"}
ScanOps == {"clz", "ctz", "cpop", "sext.b", "sext.h", "orc.b", "rev8"}
UwOps == {"add.uw", "sh1add.uw", "sh2add.uw", "sh3add.uw"}

AmoOps == {"swap", "add", "xor", "and", "or", "min", "max", "minu", "maxu"}
Branches == {"beq", "bne", "blt", "bge", "bltu", "bgeu"}
ImmOps == (BaseOps \ {"sub"}) \cup {"bclr", "binv", "bset", "ror", "bext"}

RegPairs(group, ops, xlen) ==
    {AluInsn(group, op, xlen, a, b, 1) : op \in ops, a \in AluRegs(xlen), b \in AluRegs(xlen)}

MCAluInputs == <<
    RegPairs("op", BaseOps \cup MulDivs \cup LogicOps, 8),
    RegPairs("op", BaseOps \cup MulDivs \cup LogicOps \cup {"zext.h"}, 4),
    RegPairs("imm", ImmOps, 4),
    {AluInsn("imm", op, 8, a, b, 1) : op \in ImmOps, a \in Broad, b \in Narrow},
    {AluInsn("imm", op, 8, a, 0, 1) : op \in ScanOps, a \in 0..255},
    {AluInsn("imm", op, 4, a, 0, 1) : op \in ScanOps, a \in Narrow},
    RegPairs("op32", WordOps \cup {"mul", "div", "divu", "rem", "remu", "rol", "ror", "zext.h"} \cup UwOps, 8),
    {AluInsn("imm32", op, 8, a, b, 1) :
        op \in (WordOps \ {"sub"}) \cup {"slli.uw", "clz", "ctz", "cpop", "ror"}, a \in Broad, b \in Narrow},
    {AluInsn(group, "add", 4, a, 1, 1) : group \in {"op32", "imm32"}, a \in Narrow},
    {AluInsn(group, op, 8, a, 1, 1) : group \in {"op32", "imm32"}, op \in NoWordForm, a \in Narrow},
    {AluInsn(group, "reserved", 8, 3, 1, 1) : group \in {"amo.w", "amo.d"}},
    RegPairs("branch", Branches, 8),
    RegPairs("branch", Branches, 4),
    {AluInsn("load", op, 8, m, 0, 1) : op \in {"lb", "lh", "lw", "ld", "lbu", "lhu", "lwu"}, m \in 0..255},
    {AluInsn("load", op, 4, m, 0, 1) : op \in {"lb", "lh", "lw", "lbu", "lhu"}, m \in 0..255},
    RegPairs("amo.d", AmoOps, 8),
    RegPairs("amo.w", AmoOps, 8),
    RegPairs("amo.w", AmoOps, 4),
    {AluInsn(group, "add", xlen, 3, 249, 0) : group \in {"op", "imm", "amo.w"}, xlen \in {4, 8}} >>

NoInsn == AluInsn("none", "none", 8, 0, 0, 0)

-----------------------------------------------------------------------------
FpuIdle == inst = Idle.inst /\ cpu = Idle.cpu /\ before = Idle.cpu /\ done = FALSE
WideIdle == call = NoCall /\ answer = <<>>
AluIdle == insn = NoInsn /\ outcome = <<>>

MCInit ==
    \/ Init /\ WideIdle /\ AluIdle
    \/ WideInit /\ FpuIdle /\ AluIdle
    \/ AluInit /\ FpuIdle /\ WideIdle

MCNext ==
    \/ Next /\ UNCHANGED <<wideVars, aluVars>>
    \/ call # NoCall /\ Compute /\ UNCHANGED <<vars, aluVars>>
    \/ ExecuteInteger /\ UNCHANGED <<vars, wideVars>>

MCSpec == MCInit /\ [][MCNext]_<<vars, wideVars, aluVars>>

=============================================================================
