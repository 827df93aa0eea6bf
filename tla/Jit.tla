-------------------------------- MODULE Jit --------------------------------
(***************************************************************************)
(* The run loop of quanta.c with its three ways to execute an instruction: *)
(* the plain interpreter, the decoded-instruction cache of cpu.c and the   *)
(* basic-block translator of jit.c, together with the clocks they have to  *)
(* keep: mtime, instret and the three routes to a timer interrupt.         *)
(*                                                                         *)
(* Two machines run side by side.  vm is the one quanta_run drives; ref    *)
(* executes the same number of steps with neither cache nor translator.    *)
(* The guest's code is a sequence of instruction kinds in memory, one per  *)
(* cell, mapped at two virtual addresses (alias 0 and 1); what the         *)
(* properties tell apart is whether a kind can be translated, ends a       *)
(* block, traps, reads a clock, touches a device or changes code.          *)
(***************************************************************************)
EXTENDS Integers, Sequences, FiniteSets

CONSTANTS
    Boots,       \* records of a machine and of the calls made on it
    PageEnd,     \* last cell of the first page
    MaxInsns,    \* instructions in a block (128)
    Ways,        \* entries of the block table (4 per set)
    Arena,       \* instructions the code arena holds
    DcSlots,     \* decode-cache slots
    Caps         \* step limits quanta_run is called with

VARIABLES
    vm,      \* the machine quanta_run drives
    ref,     \* the reference machine
    dc,      \* decode cache: on, gen, slots
    jit,     \* translator: on, gen, used, arena, table, victim
    left,    \* steps left in the current call of quanta_run
    calls,   \* calls still to come: of quanta_run, and of the two switches
    since,   \* since[c]: what cell c has held since the last FENCE.I or flush
    ran,     \* what the last turn executed: <<cell, instruction>> pairs
    odd      \* an instruction ran that memory no longer held

vars == <<vm, ref, dc, jit, left, calls, since, ran, odd>>

\* Kinds of instructions.
Alu    == {"inc", "bad"}
Ram    == {"load", "store", "wild", "patch", "unpatch"}
Device == {"rtime", "wcmp", "off"}
System == {"rinstret", "sbi", "stimer", "gates", "ret"}
Jumps  == {"loop", "link", "far", "branch"}
Insns  == Alu \cup Ram \cup Device \cup System \cup Jumps \cup {"fencei"}

Fields == {"code", "pc", "alias", "x", "ram", "instret", "mtime", "mtimecmp", "stimecmp",
           "stip", "armed", "stce", "enabled", "mideleg", "priv", "mie", "sie", "tvec",
           "line", "poweroff", "halted", "stopped", "cause", "saved"}

\* A machine whose program ends in a handler that returns, in the second page.
IsMachine(m) ==
    /\ m = [f \in Fields |-> m[f]]
    /\ m.code \in Seq(Insns) /\ Len(m.code) > 2 /\ Len(m.code) > PageEnd
    /\ m.code[Len(m.code)] = "ret"
    /\ m.pc \in DOMAIN m.code /\ m.alias \in {0, 1}
    /\ {m.mtime, m.mtimecmp, m.instret, m.stimecmp} \subseteq Nat
    /\ {m.stip, m.armed, m.stce, m.mie, m.sie} \subseteq BOOLEAN
    /\ {m.poweroff, m.halted, m.stopped} \subseteq BOOLEAN
    /\ m.saved[1] \in DOMAIN m.code /\ m.saved[2] \in {0, 1}
    /\ {m.saved[4], m.saved[5]} \subseteq BOOLEAN

ASSUME SizeAssumption ==
    /\ {PageEnd, MaxInsns, Ways, DcSlots} \subseteq Nat \ {0}
    /\ Arena \in Nat /\ Arena >= MaxInsns
    /\ Caps \subseteq Nat
ASSUME BootAssumption == \A b \in Boots : IsMachine(b.machine) /\ ~b.machine.halted

Handler(m) == Len(m.code) - 1

\* The element of a singleton.
The(S) == CHOOSE x \in S : TRUE

-----------------------------------------------------------------------------
(* Traps, clocks and interrupts. *)

Enter(m, cause, toS) ==
    [m EXCEPT !.saved = <<m.pc, m.alias, m.priv, m.mie, m.sie>>, !.cause = cause,
              !.pc = Handler(m), !.alias = 0,
              !.priv = IF toS THEN "S" ELSE "M",
              !.mie = IF toS THEN @ ELSE FALSE,
              !.sie = IF toS THEN FALSE ELSE @]

\* Without a handler the built-in environment stops the machine.
RaiseTrap(m, cause) ==
    IF m.tvec THEN Enter(m, cause, FALSE) ELSE [m EXCEPT !.halted = TRUE]

PlatTick(m) == [m EXCEPT !.mtime = @ + 1]

FirmwareTimerTick(m) ==
    IF m.armed /\ m.mtime >= m.mtimecmp
    THEN [m EXCEPT !.stip = TRUE, !.armed = FALSE] ELSE m

SstcTick(m) == IF m.stce THEN [m EXCEPT !.stip = m.instret >= m.stimecmp] ELSE m

\* mip as take_interrupt sees it.
Pending(m) ==
    {i \in m.enabled : \/ i = "mti" /\ m.mtime >= m.mtimecmp
                       \/ i = "sti" /\ m.stip
                       \/ i = "mei" /\ m.line}

ToS(m, i) == i \in m.mideleg

GateOpen(m, i) ==
    IF ToS(m, i) THEN m.priv = "S" /\ m.sie ELSE m.priv = "S" \/ m.mie

\* The first in priority order whose gate is open; mei before mti before sti.
TakeInterrupt(m) ==
    LET open == {i \in Pending(m) : GateOpen(m, i)}
        first == IF "mei" \in open THEN "mei" ELSE IF "mti" \in open THEN "mti" ELSE "sti"
    IN IF open = {} THEN [taken |-> FALSE, m |-> m]
       ELSE [taken |-> TRUE, m |-> Enter(m, first, ToS(m, first))]

CpuPreStep(m) ==
    IF m.poweroff THEN [taken |-> TRUE, m |-> [m EXCEPT !.halted = TRUE]]
    ELSE TakeInterrupt(SstcTick(FirmwareTimerTick(m)))

-----------------------------------------------------------------------------
(* One instruction.  An execution returns the machine and whether the        *)
(* instruction retires; the caller commits the next PC.                      *)

Done(m) == [m |-> m, ok |-> TRUE]
Trapped(m, cause) == [m |-> RaiseTrap(m, cause), ok |-> FALSE]

CpuExecAlu(m, i) ==
    IF i = "inc" THEN Done([m EXCEPT !.x = (@ + 1) % 4]) ELSE Trapped(m, "illegal")

\* The cell stores to code change, and what they leave there.
Patched == 2
Overwrites == [patch |-> "inc", unpatch |-> "store"]

CpuExecMem(m, i) ==
    CASE i = "load"    -> Done([m EXCEPT !.x = m.ram])
      [] i = "store"   -> Done([m EXCEPT !.ram = m.x])
      [] i \in DOMAIN Overwrites -> Done([m EXCEPT !.code[Patched] = Overwrites[i]])
      [] i = "wild"    -> Trapped(m, "access")
      [] i = "rtime"   -> Done([m EXCEPT !.x = m.mtime])
      [] i = "wcmp"    -> Done([m EXCEPT !.mtimecmp = m.mtime + 2])
      [] i = "off"     -> Done([m EXCEPT !.poweroff = TRUE])

\* The SBI set_timer call.
CpuArmSupervisorTimer(m, deadline) ==
    [m EXCEPT !.mtimecmp = deadline, !.stip = FALSE, !.armed = TRUE]

ExecSystem(m, i) ==
    CASE i = "rinstret" -> Done([m EXCEPT !.x = m.instret])
      [] i = "sbi"      -> Done(CpuArmSupervisorTimer(m, m.mtime + 2))
      [] i = "stimer"   -> Done([m EXCEPT !.stimecmp = m.instret + 3])
      [] i = "gates"    -> Done([m EXCEPT !.mie = ~@, !.sie = ~@])
      [] i = "ret"      -> Done([m EXCEPT !.priv = m.saved[3], !.mie = m.saved[4],
                                          !.sie = m.saved[5]])

\* Where control goes from cell pc, and what a link register gets; both are
\* functions of the virtual address <<alias, pc>>.
JumpTarget(m, i, va) ==
    CASE i \in {"loop", "link"} -> <<va[1], 1>>
      [] i = "far"              -> <<1 - va[1], va[2] + 1>>
      [] i = "branch"           -> <<va[1], IF m.x % 2 = 1 THEN 1 ELSE va[2] + 1>>

ExecJump(m, i, va) ==
    LET to == JumpTarget(m, i, va)
    IN [m EXCEPT !.x = IF i = "link" THEN va[1] * Len(m.code) + va[2] + 1 ELSE @,
                 !.alias = to[1], !.pc = to[2]]

\* The tail of cpu_step: a retired instruction counts and commits the PC.
Retire(m, i) ==
    LET n == [m EXCEPT !.instret = @ + 1]
    IN CASE i \in Jumps -> ExecJump(n, i, <<m.alias, m.pc>>)
         [] i = "ret"   -> [n EXCEPT !.pc = m.saved[1], !.alias = m.saved[2]]
         [] OTHER       -> [n EXCEPT !.pc = @ + 1]

Execute(m, i) ==
    CASE i \in Alu          -> CpuExecAlu(m, i)
      [] i \in Ram \cup Device -> CpuExecMem(m, i)
      [] i \in System       -> ExecSystem(m, i)
      [] OTHER              -> Done(m)

-----------------------------------------------------------------------------
(* The decode cache and cpu_step. *)

DcacheFlush(c) == [c EXCEPT !.gen = @ + 1]

DcIndex(pa) == pa % DcSlots

DcHit(c, pa) ==
    LET s == c.slots[DcIndex(pa)] IN c.on /\ s.gen = c.gen /\ s.pa = pa

DcFetch(c, m) == IF DcHit(c, m.pc) THEN c.slots[DcIndex(m.pc)].insn ELSE m.code[m.pc]

DcFill(c, m) ==
    IF c.on /\ ~DcHit(c, m.pc)
    THEN [c EXCEPT !.slots[DcIndex(m.pc)] =
            [gen |-> c.gen, pa |-> m.pc, insn |-> m.code[m.pc]]]
    ELSE c

\* The rest of a step that no interrupt took.
CpuFetchExecute(m, c) ==
    LET insn == DcFetch(c, m)
        res  == Execute(m, insn)
        fill == DcFill(c, m)
    IN [m   |-> IF res.ok THEN Retire(res.m, insn) ELSE res.m,
        dc  |-> IF insn = "fencei" /\ c.on THEN DcacheFlush(fill) ELSE fill,
        ran |-> <<<<m.pc, insn>>>>]

\* One step with cache c: the machine, the cache and what was executed
\* (<<cell, instruction>>, or nothing when an interrupt took the step).
CpuStep(m, c) ==
    LET pre == CpuPreStep(m)
    IN IF pre.taken THEN [m |-> pre.m, dc |-> c, ran |-> <<>>] ELSE CpuFetchExecute(pre.m, c)

-----------------------------------------------------------------------------
(* The translator. *)

\* Mutant: the arena is recycled but the entries stay live.
JitFlushArenaOnly(j) == [j EXCEPT !.used = 0]

JitFlush(j) == [j EXCEPT !.gen = @ + 1, !.used = 0]

Translatable(i) == i \in Alu \cup Ram \cup Device \cup Jumps

\* The instructions of the block at pc: to the first that ends a block, before
\* the first that cannot be translated, within the page and the size limit.
BlockLen(m) ==
    LET end == IF m.pc <= PageEnd THEN PageEnd ELSE Len(m.code)
        Good(n) == /\ n <= MaxInsns /\ m.pc + n - 1 <= end
                   /\ \A k \in 0..n - 1 : Translatable(m.code[m.pc + k])
                   /\ \A k \in 0..n - 2 : m.code[m.pc + k] \notin Jumps
        fits == {n \in 0..Len(m.code) : Good(n)}
    IN CHOOSE n \in fits : \A o \in fits : o <= n

\* Fill entry w for the current PC; fn = 0 remembers an untranslatable one.
Translate(j, m, w) ==
    LET n     == BlockLen(m)
        room  == IF j.used + n > Arena THEN JitFlush(j) ELSE j
        block == [va |-> <<m.alias, m.pc>>, insns |-> SubSeq(m.code, m.pc, m.pc + n - 1)]
        entry(fn, gen) == [gen |-> gen, pa |-> m.pc, va |-> <<m.alias, m.pc>>,
                           fn |-> fn, ninsn |-> n]
    IN IF n = 0 THEN [j EXCEPT !.table[w] = entry(0, j.gen)]
       ELSE [room EXCEPT !.table[w] = entry(room.used + 1, room.gen),
                         !.arena = [@ EXCEPT ![room.used + 1] = block],
                         !.used = @ + n]

\* Mutant: the time until the deadline counts the instruction that sees it.
CpuInterruptHorizonLate(m) ==
    LET dMtip == IF m.mtime >= m.mtimecmp THEN 0 ELSE m.mtimecmp - m.mtime + 1
        dSstc == IF m.instret >= m.stimecmp THEN 0 ELSE m.stimecmp - m.instret + 1
        ds == (IF "mti" \in m.enabled /\ GateOpen(m, "mti") THEN {dMtip} ELSE {})
              \cup (IF "sti" \in m.enabled /\ GateOpen(m, "sti")
                    THEN (IF m.armed THEN {dMtip} ELSE {})
                         \cup (IF m.stce THEN {dSstc} ELSE {}) ELSE {})
    IN IF ds = {} THEN MaxInsns ELSE CHOOSE d \in ds : \A e \in ds : d <= e

\* How many instructions may run before a clock alone raises an interrupt
\* that would be taken; MaxInsns stands for the far future.
CpuInterruptHorizon(m) ==
    LET dMtip == IF m.mtime >= m.mtimecmp THEN 0 ELSE m.mtimecmp - m.mtime
        dSstc == IF m.instret >= m.stimecmp THEN 0 ELSE m.stimecmp - m.instret
        ds == (IF "mti" \in m.enabled /\ GateOpen(m, "mti") THEN {dMtip} ELSE {})
              \cup (IF "sti" \in m.enabled /\ GateOpen(m, "sti")
                    THEN (IF m.armed THEN {dMtip} ELSE {})
                         \cup (IF m.stce THEN {dSstc} ELSE {}) ELSE {})
    IN IF ds = {} THEN MaxInsns ELSE CHOOSE d \in ds : \A e \in ds : d <= e

\* In block b with machine m, before its k-th instruction.
AtInsn(m, b, k) == [m EXCEPT !.alias = b.va[1], !.pc = b.va[2] + k - 1]

\* Control goes on from the k-th instruction to the next.
Straight(m, b, k) ==
    /\ k <= Len(b.insns) /\ b.insns[k] \notin Jumps \cup Device
    /\ Execute(AtInsn(m, b, k), b.insns[k]).ok

Onward(s, b) ==
    IF Straight(s.m, b, s.k)
    THEN [m |-> Execute(AtInsn(s.m, b, s.k), b.insns[s.k]).m, k |-> s.k + 1] ELSE s

\* Leave block b at its k-th instruction.  Retired instructions are counted
\* here: k - 1 on a trap (the step is consumed) and before a device access
\* (nothing is), all of them at the end.
Leave(m, b, k) ==
    LET at == AtInsn(m, b, k)
        Out(n, retired, steps) == [m |-> [n EXCEPT !.instret = @ + retired], steps |-> steps]
    IN IF k > Len(b.insns) \/ b.insns[k] \in Device THEN Out(at, k - 1, k - 1)
       ELSE IF b.insns[k] \in Jumps THEN Out(ExecJump(at, b.insns[k], <<at.alias, at.pc>>), k, k)
       ELSE Out(Execute(at, b.insns[k]).m, k - 1, k)

\* Run block b: straight on to the instruction it is left at.
RunBlock(m, b) ==
    LET walk[n \in 0..Len(b.insns)] ==
            IF n = 0 THEN [m |-> m, k |-> 1] ELSE Onward(walk[n - 1], b)
        end == walk[Len(b.insns)]
    IN Leave(end.m, b, end.k)

Lookup(j, m) == {w \in 1..Ways : /\ j.table[w].gen = j.gen /\ j.table[w].pa = m.pc
                                 /\ j.table[w].va = <<m.alias, m.pc>>}

\* The entry to fill on a miss: a dead one, else the rotating victim.
Victim(j) ==
    LET dead == {w \in 1..Ways : j.table[w].gen # j.gen}
    IN IF dead # {} THEN [w |-> CHOOSE w \in dead : \A v \in dead : w <= v, j |-> j]
       ELSE [w |-> (j.victim % Ways) + 1, j |-> [j EXCEPT !.victim = (@ + 1) % Ways]]

Runnable(e, m, cap) ==
    e.fn # 0 /\ e.ninsn <= cap /\ e.ninsn <= CpuInterruptHorizon(m)

\* Entry w of translator j is the current PC's: run its block if it may run;
\* steps = 0 sends the dispatcher to the interpreter.
EnterBlock(j, w, m, cap) ==
    LET e == j.table[w]
        Ran(b, run) == [m |-> run.m, j |-> j, steps |-> run.steps,
                        ran |-> [k \in 1..run.steps |-> <<m.pc + k - 1, b.insns[k]>>]]
    IN IF ~Runnable(e, m, cap) THEN [m |-> m, j |-> j, steps |-> 0, ran |-> <<>>]
       ELSE Ran(j.arena[e.fn], RunBlock(m, j.arena[e.fn]))

\* Find or make the entry of the current PC.
Dispatch(j, m, cap) ==
    LET hit == Lookup(j, m)
        vic == Victim(j)
    IN IF hit # {} THEN EnterBlock(j, The(hit), m, cap)
       ELSE EnterBlock(Translate(vic.j, m, vic.w), vic.w, m, cap)

JitRun(j, m, cap) ==
    LET pre == CpuPreStep(m)
    IN IF pre.taken THEN [m |-> pre.m, j |-> j, steps |-> 1, ran |-> <<>>]
       ELSE Dispatch(j, pre.m, cap)

-----------------------------------------------------------------------------
(* quanta.c: attaching the caches, and the run loop. *)

\* Mutant: an existing cache is attached again as it is.
AttachDcachesStale(c, on) == [c EXCEPT !.on = on]

AttachDcaches(c, on) == IF on THEN [DcacheFlush(c) EXCEPT !.on = TRUE] ELSE [c EXCEPT !.on = FALSE]

AttachJit(j, on) == [JitFlush(j) EXCEPT !.on = on]

MachinePollHalt(m) == [m EXCEPT !.stopped = m.poweroff \/ m.halted]

\* quanta_step with neither cache nor translator.
QuantaStep(m) ==
    IF m.stopped THEN m
    ELSE MachinePollHalt(CpuStep(PlatTick(m), [dc EXCEPT !.on = FALSE]).m)

\* The reference machine, n steps on.
RefSteps(m, n) ==
    LET after[i \in 0..n] == IF i = 0 THEN m ELSE QuantaStep(after[i - 1])
    IN after[n]

\* What each cell has held since the last FENCE.I, after the machine became m.
Since(m, fence) ==
    IF fence THEN [c \in DOMAIN m.code |-> {m.code[c]}]
    ELSE [c \in DOMAIN m.code |-> since[c] \cup {m.code[c]}]

\* An instruction ran that its cell did not hold at that moment: it was
\* overwritten before the turn, or by an earlier instruction of the block.
RanOverwritten(insns) ==
    \E k \in DOMAIN insns :
        \/ insns[k][2] # vm.code[insns[k][1]]
        \/ \E i \in 1..k - 1 : /\ insns[k][1] = Patched
                              /\ insns[i][2] \in DOMAIN Overwrites
                              /\ insns[k][2] # Overwrites[insns[i][2]]

\* What a turn of the loop does: a block, or else an interpreter step.
Turn(run) ==
    LET one == CpuStep(run.m, dc)
    IN IF run.steps = 0 THEN [m |-> one.m, dc |-> one.dc, j |-> run.j, used |-> 1, ran |-> one.ran]
       ELSE [m |-> run.m, dc |-> dc, j |-> run.j, used |-> run.steps, ran |-> run.ran]

LoopTurn ==
    /\ left > 0 /\ ~vm.stopped
    /\ \E run \in {IF jit.on THEN JitRun(jit, PlatTick(vm), left)
                   ELSE [m |-> PlatTick(vm), j |-> jit, steps |-> 0, ran |-> <<>>]} :
       \E t \in {Turn(run)} :
          LET fence == \E k \in DOMAIN t.ran : t.ran[k][2] = "fencei"
          IN /\ vm' = MachinePollHalt([t.m EXCEPT !.mtime = @ + t.used - 1])
             /\ ref' = RefSteps(ref, t.used)
             /\ dc' = t.dc
             /\ jit' = IF fence /\ jit.on THEN JitFlush(t.j) ELSE t.j
             /\ left' = left - t.used
             /\ since' = Since(vm', fence)
             /\ ran' = t.ran
             /\ odd' = (odd \/ RanOverwritten(t.ran))
    /\ UNCHANGED calls

\* A call of quanta_run; host input arrives between calls only.
QuantaRun ==
    /\ left = 0 /\ calls.run > 0 /\ ~vm.stopped
    /\ left' \in Caps
    /\ calls' = [calls EXCEPT !.run = @ - 1]
    /\ \E line \in {vm.line, "mei" \in vm.enabled} : /\ vm' = [vm EXCEPT !.line = line]
                                    /\ ref' = [ref EXCEPT !.line = line]
    /\ UNCHANGED <<dc, jit, since, ran, odd>>

\* Between calls the caches can be switched; an attached cache starts empty.
QuantaSetDcache ==
    /\ left = 0 /\ calls.switch > 0
    /\ calls' = [calls EXCEPT !.switch = @ - 1]
    /\ dc' = AttachDcaches(dc, ~dc.on)
    /\ UNCHANGED <<vm, ref, jit, left, since, ran, odd>>

QuantaSetJit ==
    /\ left = 0 /\ calls.switch > 0
    /\ calls' = [calls EXCEPT !.switch = @ - 1]
    /\ jit' = AttachJit(jit, ~jit.on)
    /\ UNCHANGED <<vm, ref, dc, left, since, ran, odd>>

Init ==
    /\ \E b \in Boots : vm = b.machine /\ calls = b.calls
    /\ ref = vm
    /\ dc \in [on : {TRUE}, gen : {1},
              slots : {[s \in 0..DcSlots - 1 |-> [gen |-> 0, pa |-> 0, insn |-> "inc"]]}]
    /\ jit \in [on : BOOLEAN, gen : {1}, used : {0}, victim : {0},
               arena : {[o \in 1..Arena |-> [va |-> <<0, 0>>, insns |-> <<>>]]},
               table : {[w \in 1..Ways |-> [gen |-> 0, pa |-> 0, va |-> <<0, 0>>,
                                           fn |-> 0, ninsn |-> 0]]}]
    /\ left = 0
    /\ since = [c \in DOMAIN vm.code |-> {vm.code[c]}]
    /\ ran = <<>>
    /\ odd = FALSE

Next == LoopTurn \/ QuantaRun \/ QuantaSetDcache \/ QuantaSetJit

Spec == Init /\ [][Next]_vars

-----------------------------------------------------------------------------
\* The fetch address stays inside the program and the arena cursor inside
\* the arena; generations never go back past a live entry.
TypeOK ==
    /\ vm.pc \in DOMAIN vm.code /\ vm.alias \in {0, 1}
    /\ jit.used \in 0..Arena
    /\ \A w \in 1..Ways : jit.table[w].gen <= jit.gen

\* The pending timer bit is brought up to date only at a step's beginning.
Settled(m) == SstcTick(FirmwareTimerTick(m))

\* Blocks, cached decodes and single steps leave the machine exactly where the
\* plain interpreter would be after the same number of steps: registers,
\* memory, both clocks, every trap and every interrupt at the same
\* instruction (quanta_run, jit_run, cpu_interrupt_horizon), as long as no
\* overwritten instruction was run without a FENCE.I; and no block size takes
\* a call past its limit (max_steps).
SameMachine == left >= 0 /\ (~odd => Settled(vm) = Settled(ref))

\* An instruction that runs is one its cell has held since the last FENCE.I
\* or attach: neither a decode slot nor a block survives the flush (cpu.c
\* OP_FENCE, dcache_flush, jit_flush, attach_dcaches).
FenceContract ==
    [][left' < left => \A k \in DOMAIN ran' : ran'[k][2] \in since[ran'[k][1]]]_vars

\* Live blocks occupy disjoint parts of the arena, all of them below the
\* cursor, so recycling never leaves an entry pointing into another block's
\* code (translate, jit_flush).
CodeIntact ==
    LET live == {w \in 1..Ways : jit.table[w].gen = jit.gen /\ jit.table[w].fn # 0}
        Span(w) == jit.table[w].fn..(jit.table[w].fn + jit.table[w].ninsn - 1)
    IN /\ TypeOK
       /\ \A w \in live : Span(w) \subseteq 1..jit.used
       /\ \A v, w \in live : v # w => Span(v) \cap Span(w) = {}
=============================================================================
