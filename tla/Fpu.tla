-------------------------------- MODULE Fpu --------------------------------
(***************************************************************************)
(* The F and D instructions of cpu.c: how an OP-FP, fused, load, store or  *)
(* fcsr instruction reads the float registers, calls softfloat.c, and      *)
(* commits its result, its exception flags and the FS field of mstatus.    *)
(*                                                                         *)
(* A behaviour issues one instruction on one machine state; Cases lists    *)
(* both.  Registers hold F64.width bits, as the 64-bit registers of the    *)
(* source do: a single is boxed by ones above F32.width.  Register 0 is    *)
(* rd; the sources are registers 1, 2 and 3.                               *)
(***************************************************************************)
EXTENDS Integers, SoftFloat

CONSTANTS
    F32, F64,  \* the single and double formats
    Cases      \* families of instructions and the states they are issued in

VARIABLES
    inst,      \* the instruction
    before,    \* the machine when it is issued
    cpu,       \* the machine
    done

vars == <<inst, before, cpu, done>>

\* An integer word is as wide as a single, a register as wide as a double.
IntBits == F32.width

XBits == F64.width

Sext(x, n) == (IF x >= 2^(n - 1) THEN x + 2^XBits - 2^n ELSE x) % 2^XBits

\* reg_write keeps a 32-bit hart's registers sign-extended.
RegWrite(c, x) ==
    [c EXCEPT !.xd = IF c.xlen = 32 THEN Sext(x % 2^IntBits, IntBits) ELSE x]

MarkFsDirty(c) == [c EXCEPT !.fs = "dirty"]

FreadS(c, i) ==
    IF c.f[i] \div 2^F32.width = 2^(F64.width - F32.width) - 1
    THEN c.f[i] % 2^F32.width ELSE QNan(F32)

FwriteS(c, v) ==
    MarkFsDirty([c EXCEPT !.f[0] = 2^F64.width - 2^F32.width + v])

FreadD(c, i) == c.f[i]

\* Mutant: a double is written without marking FS.
FwriteDClean(c, v) == [c EXCEPT !.f[0] = v]

FwriteD(c, v) == MarkFsDirty([c EXCEPT !.f[0] = v])

Faccrue(c, fl) == [c EXCEPT !.fflags = @ \cup fl]

\* The instruction's rm field, or frm when it is 7; above 4 is reserved.
ResolveRm(c) == IF inst.rm = 7 THEN c.frm ELSE inst.rm

BadRm(c) == ResolveRm(c) > 4

Mode(c) == <<"RNE", "RTZ", "RDN", "RUP", "RMM">>[ResolveRm(c) + 1]

Illegal(c) == [c EXCEPT !.trap = "illegal"]

\* The format the instruction names, and access through it.
Format == IF inst.fmt = 0 THEN F32 ELSE F64

Fread(c, i) == IF inst.fmt = 0 THEN FreadS(c, i) ELSE FreadD(c, i)

Fwrite(c, v) == IF inst.fmt = 0 THEN FwriteS(c, v) ELSE FwriteD(c, v)

FwriteAccrue(c, r) == Faccrue(Fwrite(c, r.bits), r.fl)

Commit(c) ==
    /\ cpu' = c
    /\ done' = TRUE
    /\ UNCHANGED <<inst, before>>

-----------------------------------------------------------------------------
Init ==
    \E i \in DOMAIN Cases : \E case \in Cases[i] :
        /\ inst = case.inst
        /\ cpu = case.cpu
        /\ before = case.cpu
        /\ done = FALSE

Issue(ops) == ~done /\ inst.op \in ops

Arith(f, op, a, b, rm) ==
    CASE op = "add" -> FpAdd(f, a, b, FALSE, rm)
      [] op = "sub" -> FpAdd(f, a, b, TRUE, rm)
      [] op = "mul" -> FpMul(f, a, b, rm)
      [] op = "div" -> FpDiv(f, a, b, rm)
      [] op = "sqrt" -> FpSqrt(f, a, rm)

ExecArith ==
    /\ Issue({"add", "sub", "mul", "div", "sqrt"})
    /\ Commit(IF BadRm(cpu) THEN Illegal(cpu)
              ELSE FwriteAccrue(cpu, Arith(Format, inst.op, Fread(cpu, 1),
                                           Fread(cpu, 2), Mode(cpu))))

ExecSgnj ==
    /\ Issue({"sgnj", "sgnjn", "sgnjx"})
    /\ LET a  == Fread(cpu, 1)
           sa == a \div SignBit(Format)
           sb == Fread(cpu, 2) \div SignBit(Format)
           s  == CASE inst.op = "sgnj" -> sb
                   [] inst.op = "sgnjn" -> Flip(sb)
                   [] inst.op = "sgnjx" -> Xor(sa, sb)
       IN Commit(Fwrite(cpu, (a % SignBit(Format)) + s * SignBit(Format)))

ExecMinMax ==
    /\ Issue({"min", "max"})
    /\ Commit(FwriteAccrue(cpu, FpMinMax(Format, Fread(cpu, 1), Fread(cpu, 2),
                                         inst.op = "max")))

\* FCVT.S.D rounds and needs a mode; FCVT.D.S is exact and ignores rm.
ExecConvert ==
    /\ Issue({"cvt"})
    /\ Commit(IF inst.fmt = 1
              THEN FwriteAccrue(cpu, FpToFp(F32, F64, FreadS(cpu, 1), "RNE"))
              ELSE IF BadRm(cpu) THEN Illegal(cpu)
              ELSE FwriteAccrue(cpu, FpToFp(F64, F32, FreadD(cpu, 1), Mode(cpu))))

Compare(f, op, a, b) ==
    CASE op = "eq" -> FpEq(f, a, b)
      [] op = "lt" -> FpLess(f, a, b, FALSE)
      [] op = "le" -> FpLess(f, a, b, TRUE)

ExecCompare ==
    /\ Issue({"eq", "lt", "le"})
    /\ LET r == Compare(Format, inst.op, Fread(cpu, 1), Fread(cpu, 2))
       IN Commit(Faccrue(RegWrite(cpu, r.bits), r.fl))

\* FMV.X reads the raw register, boxed or not; FCLASS reads through the box.
ExecMoveToInt ==
    /\ Issue({"mvx", "class"})
    /\ Commit(CASE inst.op = "class" -> RegWrite(cpu, FpClassify(Format, Fread(cpu, 1)))
                [] inst.op = "mvx" /\ inst.fmt = 0 ->
                        RegWrite(cpu, Sext(cpu.f[1] % 2^F32.width, F32.width))
                [] inst.op = "mvx" /\ inst.fmt = 1 ->
                        IF cpu.xlen # 64 THEN Illegal(cpu) ELSE RegWrite(cpu, cpu.f[1]))

ExecMoveFromInt ==
    /\ Issue({"mvf"})
    /\ Commit(CASE inst.fmt = 0 -> FwriteS(cpu, cpu.xs % 2^F32.width)
                [] inst.fmt = 1 -> IF cpu.xlen # 64 THEN Illegal(cpu)
                                   ELSE FwriteD(cpu, cpu.xs))

\* W and WU are words; L and LU need a 64-bit hart.
IsSigned(sel) == sel \in {"W", "L"}

SelBits(sel) == IF sel \in {"W", "WU"} THEN IntBits ELSE XBits

NoLong(c) == inst.sel \in {"L", "LU"} /\ c.xlen # 64

ExecToInt ==
    /\ Issue({"toint"})
    /\ LET r == FpToInt(Format, XBits, Fread(cpu, 1), IsSigned(inst.sel),
                        SelBits(inst.sel), Mode(cpu))
       IN Commit(IF BadRm(cpu) \/ NoLong(cpu) THEN Illegal(cpu)
                 ELSE Faccrue(RegWrite(cpu, Sext(r.bits, SelBits(inst.sel))), r.fl))

ExecFromInt ==
    /\ Issue({"fromint"})
    /\ Commit(IF BadRm(cpu) \/ NoLong(cpu) THEN Illegal(cpu)
              ELSE FwriteAccrue(cpu, IntToFp(Format, cpu.xs % 2^SelBits(inst.sel),
                                             IsSigned(inst.sel), SelBits(inst.sel),
                                             Mode(cpu))))

FlipSign(f, flip, a) == IF flip THEN (a + SignBit(f)) % 2^f.width ELSE a

ExecFmadd ==
    /\ Issue({"madd", "msub", "nmsub", "nmadd"})
    /\ LET f == Format
           a == FlipSign(f, inst.op \in {"nmsub", "nmadd"}, Fread(cpu, 1))
           c == FlipSign(f, inst.op \in {"msub", "nmadd"}, Fread(cpu, 3))
       IN Commit(IF BadRm(cpu) THEN Illegal(cpu)
                 ELSE FwriteAccrue(cpu, FpMulAdd(f, a, Fread(cpu, 2), c, Mode(cpu))))

\* A reserved operation, or a format other than single and double.
ExecReserved ==
    /\ Issue({"reserved"})
    /\ Commit(Illegal(cpu))

\* sel says where the address points: RAM, a page that does not translate, or
\* outside every mapped region.  The last reads as 0 and latches mem->fault,
\* which cpu_step turns into a trap after the register has been written.  A
\* format of 2 stands for a reserved funct3, looked at after the translation.
\* The cache model is a counter and is left out.
ExecLoadFp ==
    /\ Issue({"load"})
    /\ LET v == IF inst.sel = "ram"
                THEN IF inst.fmt = 0 THEN cpu.mem % 2^F32.width ELSE cpu.mem
                ELSE 0
       IN Commit(CASE inst.sel = "unmapped" -> [cpu EXCEPT !.trap = "page"]
                   [] inst.sel # "unmapped" /\ inst.fmt = 2 -> Illegal(cpu)
                   [] inst.sel = "ram" /\ inst.fmt # 2 -> Fwrite(cpu, v)
                   [] inst.sel = "outside" /\ inst.fmt # 2 -> [Fwrite(cpu, v) EXCEPT !.trap = "access"])

\* FSW stores the raw low word, boxed or not.  The store's break_reservation is
\* that of every store (module Reservation).
ExecStoreFp ==
    /\ Issue({"store"})
    /\ LET low == (cpu.mem \div 2^F32.width) * 2^F32.width + (cpu.f[1] % 2^F32.width)
       IN Commit(CASE inst.sel = "unmapped" -> [cpu EXCEPT !.trap = "page"]
                   [] inst.sel # "unmapped" /\ inst.fmt = 2 -> Illegal(cpu)
                   [] inst.sel = "ram" /\ inst.fmt # 2 ->
                          [cpu EXCEPT !.mem = IF inst.fmt = 0 THEN low ELSE cpu.f[1]]
                   [] inst.sel = "outside" /\ inst.fmt # 2 -> [cpu EXCEPT !.trap = "access"])

\* csr_write of fcsr, fflags and frm (inst.rm is the value of frm written,
\* inst.fl that of fflags).
ExecCsr ==
    /\ Issue({"fcsr", "fflags", "frm"})
    /\ Commit([cpu EXCEPT !.frm = IF inst.op = "fflags" THEN @ ELSE inst.rm,
                          !.fflags = IF inst.op = "frm" THEN @ ELSE inst.fl])

Next ==
    \/ ExecArith \/ ExecSgnj \/ ExecMinMax \/ ExecConvert \/ ExecCompare
    \/ ExecMoveToInt \/ ExecMoveFromInt \/ ExecToInt \/ ExecFromInt
    \/ ExecFmadd \/ ExecReserved \/ ExecLoadFp \/ ExecStoreFp \/ ExecCsr

Spec == Init /\ [][Next]_vars

-----------------------------------------------------------------------------
(* Properties.  Operands are read through the box, as the ISA says. *)

I == INSTANCE Ieee754

SingleIn(v) ==
    IF v >= 2^F64.width - 2^F32.width THEN v % 2^F32.width ELSE I!CanonNan(F32)

Operand(i) == IF inst.fmt = 0 THEN SingleIn(before.f[i]) ELSE before.f[i]

ModeOf == Mode(before)

\* What the ISA promises of the rounding instructions.
Promised ==
    LET f == Format
        a == Operand(1)
        b == Operand(2)
        c == Operand(3)
        N(x) == I!Negated(f, x)
    IN CASE inst.op = "add" -> I!SumResult(f, a, b, ModeOf)
         [] inst.op = "sub" -> I!SumResult(f, a, N(b), ModeOf)
         [] inst.op = "mul" -> I!ProductResult(f, a, b, ModeOf)
         [] inst.op = "div" -> I!QuotientResult(f, a, b, ModeOf)
         [] inst.op = "sqrt" -> I!RootResult(f, a, ModeOf)
         [] inst.op = "madd" -> I!FusedResult(f, a, b, c, ModeOf)
         [] inst.op = "msub" -> I!FusedResult(f, a, b, N(c), ModeOf)
         [] inst.op = "nmsub" -> I!FusedResult(f, N(a), b, c, ModeOf)
         [] inst.op = "nmadd" -> I!FusedResult(f, N(a), b, N(c), ModeOf)

Retired(ops) == done /\ inst.op \in ops /\ cpu.trap = "none"

\* The float result of a retired instruction is r, boxed when single, its
\* exceptions are added to the ones already raised, and FS is dirty.
FloatResult(r) ==
    /\ cpu.f[0] = IF inst.fmt = 0 THEN 2^F64.width - 2^F32.width + r.bits ELSE r.bits
    /\ cpu.fflags = before.fflags \cup r.fl
    /\ cpu.fs = "dirty"

IntValue(x, n, signed) ==
    LET y == x % 2^n IN IF signed /\ y >= 2^(n - 1) THEN y - 2^n ELSE y

TypeOK ==
    /\ cpu.f \in [0..3 -> 0..(2^XBits - 1)]
    /\ cpu.xd \in 0..(2^XBits - 1)
    /\ cpu.mem \in 0..(2^XBits - 1)
    /\ cpu.fflags \subseteq {"NV", "DZ", "OF", "UF", "NX"}
    /\ cpu.frm \in 0..7
    /\ cpu.trap \in {"none", "illegal", "page", "access"}

(* Every arithmetic instruction delivers the number nearest to the exact   *)
(* result in the direction the rounding mode asks for, and raises exactly  *)
(* the exceptions of IEEE 754: the sticky bits, the window of add_core and *)
(* the one packing addition of roundpack lose nothing, at the subnormal    *)
(* and the overflow boundary too (softfloat.c roundpack, add_core and      *)
(* their callers).                                                         *)
CorrectlyRounded ==
    Retired({"add", "sub", "mul", "div", "sqrt", "madd", "msub", "nmsub", "nmadd"})
        => FloatResult(Promised)

(* A conversion to an integer rounds once and saturates, never wraps; one  *)
(* from an integer or from the other format is correctly rounded, and      *)
(* widening is exact (softfloat.c fp_to_int, int_to_fp, f64_to_f32).       *)
ConversionsExact ==
    /\ Retired({"toint"}) =>
        LET n == SelBits(inst.sel)
            r == I!IntResult(Format, Operand(1), IsSigned(inst.sel), n, ModeOf)
        IN cpu.xd = Sext(r.bits, n) /\ cpu.fflags = before.fflags \cup r.fl
    /\ Retired({"fromint"}) =>
        FloatResult(I!FromInt(Format, IntValue(before.xs, SelBits(inst.sel),
                                               IsSigned(inst.sel)), ModeOf))
    /\ Retired({"cvt"}) =>
        IF inst.fmt = 1
        THEN /\ FloatResult(I!Converted(F32, F64, SingleIn(before.f[1]), "RTZ"))
             /\ cpu.fflags \ before.fflags \subseteq {"NV"}
        ELSE FloatResult(I!Converted(F64, F32, before.f[1], ModeOf))

(* Comparisons agree with the order of the values (with -0 = +0, and NaNs  *)
(* unordered), min and max return an operand at the end of that order      *)
(* (with -0 < +0), and the class is that of the value (softfloat.c fcmp,   *)
(* fp_minmax, fp_classify, cpu.c exec_fp).                                 *)
OrderAgrees ==
    LET f == Format
        a == Operand(1)
        b == Operand(2)
        nan == I!IsNan(f, a) \/ I!IsNan(f, b)
        x == I!Signed(f, a)
        y == I!Signed(f, b)
        quiet == inst.op = "eq" /\ ~I!IsSNan(f, a) /\ ~I!IsSNan(f, b)
        holds == CASE inst.op = "eq" -> x = y
                   [] inst.op = "lt" -> x < y
                   [] inst.op = "le" -> x <= y
    IN /\ Retired({"eq", "lt", "le"}) =>
            /\ cpu.xd = IF ~nan /\ holds THEN 1 ELSE 0
            /\ cpu.fflags = before.fflags \cup (IF nan /\ ~quiet THEN {"NV"} ELSE {})
       /\ Retired({"min", "max"}) =>
            FloatResult(I!Extremum(f, a, b, inst.op = "max"))
       /\ Retired({"class"}) => cpu.xd = I!ClassOf(f, a)

(* What is moved between the register files and memory comes back: a       *)
(* single written by FMV.W.X, FLW or a sign injection is boxed and reads   *)
(* back as itself, and FSW and FMV.X.W take the low word of a register     *)
(* whatever its box says (cpu.c fread_s, fwrite_s, exec_store_fp).         *)
BoxRoundTrip ==
    /\ Retired({"mvf", "load"}) =>
        LET v == IF inst.op = "mvf" THEN before.xs ELSE before.mem
        IN IF inst.fmt = 0
           THEN cpu.f[0] >= 2^F64.width - 2^F32.width /\ SingleIn(cpu.f[0]) = v % 2^F32.width
           ELSE cpu.f[0] = v
    /\ Retired({"sgnj", "sgnjn", "sgnjx"}) =>
        I!Pat(Format, IF inst.fmt = 0 THEN SingleIn(cpu.f[0]) ELSE cpu.f[0])
            = I!Pat(Format, Operand(1))
    /\ Retired({"mvx"}) => cpu.xd % 2^Format.width = before.f[1] % 2^Format.width
    /\ Retired({"store"}) =>
        /\ cpu.mem % 2^Format.width = before.f[1] % 2^Format.width
        /\ cpu.mem \div 2^Format.width = before.mem \div 2^Format.width

(* What every instruction delivers is what the ISA, and through it IEEE    *)
(* 754, promises of it: numbers, flags, order, class and boxing (cpu.c     *)
(* exec_fp, exec_fmadd, exec_load_fp, exec_store_fp and softfloat.c).      *)
ResultsAgree == CorrectlyRounded /\ ConversionsExact /\ OrderAgrees /\ BoxRoundTrip

(* An instruction that traps changes no register, flag or memory; the one  *)
(* exception is a float load outside the mapped regions, which has written *)
(* 0 to rd and dirtied FS when cpu_step raises the access fault (cpu.c     *)
(* exec_load_fp, cpu_step).                                                *)
TrapLeavesState ==
    done /\ cpu.trap # "none" =>
        IF inst.op = "load" /\ cpu.trap = "access"
        THEN cpu = [FwriteD(before, cpu.f[0]) EXCEPT !.trap = "access"]
        ELSE cpu = [before EXCEPT !.trap = cpu.trap]

(* FS turns dirty exactly when a float register is written, so a guest     *)
(* that saves the registers only when FS is dirty saves every change to    *)
(* them.  It does not cover fcsr: an instruction that only accrues flags,  *)
(* or a CSR write to fcsr, leaves FS as it was (cpu.c mark_fs_dirty,       *)
(* fwrite_s, fwrite_d, faccrue, csr_write).                                *)
DirtyOnFloatWrite ==
    LET intResult == {"eq", "lt", "le", "class", "mvx", "toint"}
        noResult  == {"store", "fcsr", "fflags", "frm"}
    IN done => (cpu.fs = "dirty" <=>
                    \/ Retired({inst.op}) /\ inst.op \notin intResult \cup noResult
                    \/ inst.op = "load" /\ cpu.trap = "access")

(* A trap handler, and a kernel that switches contexts by FS, find the     *)
(* float state they need: nothing is half done and nothing dirty looks     *)
(* clean (cpu.c fwrite_s, fwrite_d, resolve_rm, exec_load_fp, raise_trap). *)
CommitsPrecisely == TypeOK /\ TrapLeavesState /\ DirtyOnFloatWrite

=============================================================================
