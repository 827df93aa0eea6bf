-------------------------------- MODULE Trap --------------------------------
(***************************************************************************)
(* One hart's privilege machinery (cpu.c): the trap state stacked in        *)
(* mstatus, exception delegation and the built-in environment a trap falls  *)
(* back to when no handler is installed, interrupt selection by enable,     *)
(* delegation, gate and priority, mret / sret, and the CSR writes that      *)
(* reconfigure it all.  Devices and the other harts appear as an            *)
(* environment that drives interrupt lines and restarts a parked hart.      *)
(*                                                                          *)
(* Program addresses are abstract: "code" is any ordinary address, "mvec"   *)
(* and "svec" the two handler entries, "null" the reset value of mtvec and  *)
(* stvec.  The stored mip keeps only its software bits: the device-owned    *)
(* ones are recomputed from the lines before every use.                     *)
(***************************************************************************)
EXTENDS Integers

CONSTANTS
    Faults,          \* exception causes, other than ecalls, that guest code raises
    Irqs,            \* interrupt numbers in play, of the six the hart knows
    MieValues,       \* what the guest may write to mie
    MidelegValues,   \* ... to mideleg
    MedelegValues,   \* ... to medeleg
    MppValues        \* ... to mstatus.MPP

PRIV_U == 0
PRIV_S == 1
PRIV_M == 3

IRQ_SSOFT  == 1
IRQ_MSOFT  == 3
IRQ_STIMER == 5
IRQ_MTIMER == 7
IRQ_SEXT   == 9
IRQ_MEXT   == 11
AllIrqs == {IRQ_SSOFT, IRQ_MSOFT, IRQ_STIMER, IRQ_MTIMER, IRQ_SEXT, IRQ_MEXT}

CAUSE_ECALL_U == 8
CAUSE_ECALL_S == 9
CAUSE_ECALL_M == 11

ASSUME FaultsAssumption == Faults \subseteq {0, 1, 2, 3, 4, 5, 6, 7, 12, 13, 15}
ASSUME IrqsAssumption   == Irqs \subseteq AllIrqs
ASSUME MieAssumption    == MieValues \subseteq SUBSET Irqs
ASSUME DelegAssumption  == MidelegValues \subseteq SUBSET Irqs /\ MedelegValues \subseteq SUBSET Nat
ASSUME MppAssumption    == MppValues \subseteq 0 .. 3

\* S_INT_MASK, and the bits effective_mip recomputes from the platform.
SIrqs      == Irqs \cap {IRQ_SSOFT, IRQ_STIMER, IRQ_SEXT}
DeviceIrqs == Irqs \cap {IRQ_MSOFT, IRQ_MTIMER, IRQ_MEXT, IRQ_SEXT}
SoftIrqs   == Irqs \cap {IRQ_SSOFT, IRQ_STIMER}

Pcs == {"code", "mvec", "svec", "null"}

VARIABLES
    priv, pc,
    mstatus,             \* the trap-stack fields of mstatus, and MPRV
    mie, mip, lines,     \* enables, stored software bits, device lines
    mideleg, medeleg,
    mtvec, stvec, mepc, sepc,
    hart,                \* "running", "parked" (HSM stop) or "halted"
    mframe, sframe       \* history: what the last trap to M (to S) interrupted,
                         \* as <<priv, pc, enable>>, while no return or CSR write
                         \* has given it up; <<>> otherwise

csrVars == <<mie, mip, mideleg, medeleg, mtvec, stvec>>
vars == <<priv, pc, mstatus, csrVars, lines, mepc, sepc, hart, mframe, sframe>>

Status == [SIE : BOOLEAN, MIE : BOOLEAN, SPIE : BOOLEAN, MPIE : BOOLEAN,
           SPP : {PRIV_U, PRIV_S}, MPP : 0 .. 3, MPRV : BOOLEAN]

\* cpu_init: reset into M-mode with every CSR zero.
Init ==
    /\ priv = PRIV_M /\ pc = "code"
    /\ mstatus = [SIE |-> FALSE, MIE |-> FALSE, SPIE |-> FALSE, MPIE |-> FALSE,
                  SPP |-> PRIV_U, MPP |-> PRIV_U, MPRV |-> FALSE]
    /\ mie = {} /\ mip = {} /\ lines = {} /\ mideleg = {} /\ medeleg = {}
    /\ mtvec = "null" /\ stvec = "null" /\ mepc = "null" /\ sepc = "null"
    /\ hart = "running"
    /\ mframe = <<>> /\ sframe = <<>>

-----------------------------------------------------------------------------
(* Traps.                                                                   *)

\* Mutant: a trap to S stacks its previous privilege over M's.
EnterTrapSharedStack(to_s) ==
    /\ IF to_s
       THEN /\ sepc' = pc
            /\ mstatus' = [mstatus EXCEPT !.SPIE = mstatus.SIE, !.SIE = FALSE,
                               !.SPP = (IF priv = PRIV_U THEN PRIV_U ELSE PRIV_S),
                               !.MPP = priv]
            /\ priv' = PRIV_S /\ pc' = stvec
            /\ sframe' = <<priv, pc, mstatus.SIE>>
            /\ UNCHANGED <<mepc, mframe>>
       ELSE /\ mepc' = pc
            /\ mstatus' = [mstatus EXCEPT !.MPIE = mstatus.MIE, !.MIE = FALSE, !.MPP = priv]
            /\ priv' = PRIV_M /\ pc' = mtvec
            /\ mframe' = <<priv, pc, mstatus.MIE>>
            /\ UNCHANGED <<sepc, sframe>>
    /\ UNCHANGED <<csrVars, lines, hart>>

\* Mutant: every trap vectors through mtvec.
EnterTrapMachineVector(to_s) ==
    /\ IF to_s
       THEN /\ sepc' = pc
            /\ mstatus' = [mstatus EXCEPT !.SPIE = mstatus.SIE, !.SIE = FALSE,
                               !.SPP = IF priv = PRIV_U THEN PRIV_U ELSE PRIV_S]
            /\ priv' = PRIV_S /\ pc' = mtvec
            /\ sframe' = <<priv, pc, mstatus.SIE>>
            /\ UNCHANGED <<mepc, mframe>>
       ELSE /\ mepc' = pc
            /\ mstatus' = [mstatus EXCEPT !.MPIE = mstatus.MIE, !.MIE = FALSE, !.MPP = priv]
            /\ priv' = PRIV_M /\ pc' = mtvec
            /\ mframe' = <<priv, pc, mstatus.MIE>>
            /\ UNCHANGED <<sepc, sframe>>
    /\ UNCHANGED <<csrVars, lines, hart>>

\* enter_trap: stack, mask, raise the privilege, vector.
EnterTrap(to_s) ==
    /\ IF to_s
       THEN /\ sepc' = pc
            /\ mstatus' = [mstatus EXCEPT !.SPIE = mstatus.SIE, !.SIE = FALSE,
                               !.SPP = IF priv = PRIV_U THEN PRIV_U ELSE PRIV_S]
            /\ priv' = PRIV_S /\ pc' = stvec
            /\ sframe' = <<priv, pc, mstatus.SIE>>
            /\ UNCHANGED <<mepc, mframe>>
       ELSE /\ mepc' = pc
            /\ mstatus' = [mstatus EXCEPT !.MPIE = mstatus.MIE, !.MIE = FALSE, !.MPP = priv]
            /\ priv' = PRIV_M /\ pc' = mtvec
            /\ mframe' = <<priv, pc, mstatus.MIE>>
            /\ UNCHANGED <<sepc, sframe>>
    /\ UNCHANGED <<csrVars, lines, hart>>

Halt(how) ==
    /\ hart' = how
    /\ UNCHANGED <<priv, pc, mstatus, csrVars, lines, mepc, sepc, mframe, sframe>>

Proceed == pc' = "code" /\ UNCHANGED <<priv, mstatus, lines, mepc, sepc, mframe, sframe>>

\* hsm_enter, on a parked hart or on the caller of a non-retentive suspend.
HsmEnter ==
    /\ pc' = "code" /\ priv' = PRIV_S
    /\ mstatus' = [mstatus EXCEPT !.SIE = FALSE]
    /\ hart' = "running"
    /\ UNCHANGED <<csrVars, lines, mepc, sepc, mframe, sframe>>

\* sbi_call as the privilege state sees it: an answered call (set_timer also
\* drops STIP), a stop of the hart, a shutdown, or a non-retentive suspend.
SbiCall ==
    \/ Proceed /\ mip' \in {mip, mip \ {IRQ_STIMER}}
       /\ UNCHANGED <<mie, mideleg, medeleg, mtvec, stvec, hart>>
    \/ Halt("parked")
    \/ Halt("halted")
    \/ HsmEnter

\* legacy_trap: the built-in environment.
LegacyTrap(cause) ==
    \/ cause = CAUSE_ECALL_S /\ SbiCall
    \/ cause \in {CAUSE_ECALL_U, CAUSE_ECALL_M}
       /\ (Halt("halted") \/ (Proceed /\ UNCHANGED <<csrVars, hart>>))
    \/ cause \notin {CAUSE_ECALL_U, CAUSE_ECALL_S, CAUSE_ECALL_M} /\ Halt("halted")

\* raise_trap's delegation test.
Delegated(cause) == priv <= PRIV_S /\ cause \in medeleg

RaiseTrap(cause) ==
    LET tvec == IF Delegated(cause) THEN stvec ELSE mtvec
    IN  IF tvec = "null" THEN LegacyTrap(cause) ELSE EnterTrap(Delegated(cause))

-----------------------------------------------------------------------------
(* Interrupts.                                                              *)

\* effective_mip
EffectiveMip == (mip \ DeviceIrqs) \cup lines

MOn == priv < PRIV_M \/ (priv = PRIV_M /\ mstatus.MIE)
SOn == priv < PRIV_S \/ (priv = PRIV_S /\ mstatus.SIE)

Eligible == {i \in EffectiveMip \cap mie : IF i \in mideleg THEN SOn ELSE MOn}

\* Position in take_interrupt's scan order.
Rank(i) == CASE i = IRQ_MEXT -> 1 [] i = IRQ_MSOFT -> 2 [] i = IRQ_MTIMER -> 3
             [] i = IRQ_SEXT -> 4 [] i = IRQ_SSOFT -> 5 [] i = IRQ_STIMER -> 6

\* Mutant: the scan runs on after its first match, so the last one is reported.
TopiLastMatch(to_s) ==
    LET level == {i \in EffectiveMip \cap mie : (i \in mideleg) = to_s}
    IN  {i \in level : \A j \in level : Rank(j) <= Rank(i)}

\* What mtopi (stopi) may read: the first interrupt of the level in the scan
\* order, pending and enabled, whatever the global gates say.
Topi(to_s) ==
    LET level == {i \in EffectiveMip \cap mie : (i \in mideleg) = to_s}
    IN  {i \in level : \A j \in level : Rank(i) <= Rank(j)}

\* take_interrupt, at an instruction boundary.
Taken(i) ==
    /\ hart = "running"
    /\ i \in Eligible /\ \A j \in Eligible : Rank(i) <= Rank(j)
    /\ EnterTrap(i \in mideleg)

TakeInterrupt == \E i \in Irqs : Taken(i)

-----------------------------------------------------------------------------
(* Instructions: executed only when no interrupt was taken first.           *)

Boundary == hart = "running" /\ Eligible = {}

\* Anything that retires without touching the privilege state.
Execute == Boundary /\ Proceed /\ UNCHANGED <<csrVars, hart>>

\* An instruction that faults (an mret, sret or CSR access the mode does not
\* permit included, as cause 2), and the environment call.
Fault == Boundary /\ \E cause \in Faults : RaiseTrap(cause)
ECall == Boundary /\ RaiseTrap(CAUSE_ECALL_U + priv)

\* exec_mret
MRet ==
    /\ Boundary /\ priv = PRIV_M
    /\ mstatus' = [mstatus EXCEPT !.MIE = mstatus.MPIE, !.MPIE = TRUE, !.MPP = PRIV_U,
                       !.MPRV = mstatus.MPRV /\ mstatus.MPP = PRIV_M]
    /\ priv' = mstatus.MPP /\ pc' = mepc
    /\ mframe' = <<>>
    /\ UNCHANGED <<csrVars, lines, mepc, sepc, hart, sframe>>

\* Mutant: sret restores SIE but forgets the stacked privilege.
SRetToUser ==
    /\ Boundary /\ priv >= PRIV_S
    /\ mstatus' = [mstatus EXCEPT !.SIE = mstatus.SPIE, !.SPIE = TRUE, !.SPP = PRIV_U,
                       !.MPRV = FALSE]
    /\ priv' = PRIV_U /\ pc' = sepc
    /\ sframe' = <<>>
    /\ UNCHANGED <<csrVars, lines, mepc, sepc, hart, mframe>>

\* exec_sret
SRet ==
    /\ Boundary /\ priv >= PRIV_S
    /\ mstatus' = [mstatus EXCEPT !.SIE = mstatus.SPIE, !.SPIE = TRUE, !.SPP = PRIV_U,
                       !.MPRV = FALSE]
    /\ priv' = mstatus.SPP /\ pc' = sepc
    /\ sframe' = <<>>
    /\ UNCHANGED <<csrVars, lines, mepc, sepc, hart, mframe>>

\* csr_write of mstatus, one field at a time: no field is masked.
WriteMstatus ==
    /\ Boundary /\ priv = PRIV_M
    /\ \/ \E f \in {"SIE", "MIE", "SPIE", "MPIE", "MPRV"} :
             mstatus' = [mstatus EXCEPT ![f] = ~@]
       \/ \E v \in {PRIV_U, PRIV_S} : mstatus' = [mstatus EXCEPT !.SPP = v]
       \/ \E v \in MppValues : mstatus' = [mstatus EXCEPT !.MPP = v]
    /\ pc' = "code" /\ mframe' = <<>> /\ sframe' = <<>>
    /\ UNCHANGED <<priv, csrVars, lines, mepc, sepc, hart>>

\* csr_write of sstatus: the window SSTATUS_MASK leaves onto mstatus.
WriteSstatus ==
    /\ Boundary /\ priv >= PRIV_S
    /\ \/ \E f \in {"SIE", "SPIE"} : mstatus' = [mstatus EXCEPT ![f] = ~@]
       \/ \E v \in {PRIV_U, PRIV_S} : mstatus' = [mstatus EXCEPT !.SPP = v]
    /\ pc' = "code" /\ sframe' = <<>>
    /\ UNCHANGED <<priv, csrVars, lines, mepc, sepc, hart, mframe>>

\* csr_write of the M-mode interrupt, delegation and vector CSRs.
WriteMachineCsr ==
    /\ Boundary /\ priv = PRIV_M
    /\ \/ mie' \in MieValues /\ UNCHANGED <<mip, mideleg, medeleg, mtvec, stvec>>
       \/ mip' \in SUBSET SoftIrqs /\ UNCHANGED <<mie, mideleg, medeleg, mtvec, stvec>>
       \/ mideleg' \in MidelegValues /\ UNCHANGED <<mie, mip, medeleg, mtvec, stvec>>
       \/ medeleg' \in MedelegValues /\ UNCHANGED <<mie, mip, mideleg, mtvec, stvec>>
       \/ mtvec' = "mvec" /\ UNCHANGED <<mie, mip, mideleg, medeleg, stvec>>
    /\ Proceed /\ UNCHANGED hart

\* csr_write of the S-mode ones: sie and sip are windows onto mie and mip.
WriteSupervisorCsr ==
    /\ Boundary /\ priv >= PRIV_S
    /\ \/ \E v \in MieValues : mie' = (mie \ SIrqs) \cup (v \cap SIrqs)
          /\ UNCHANGED <<mip, stvec>>
       \/ mip' \in SUBSET SoftIrqs /\ UNCHANGED <<mie, stvec>>
       \/ stvec' = "svec" /\ UNCHANGED <<mie, mip>>
    /\ Proceed /\ UNCHANGED <<mideleg, medeleg, mtvec, hart>>

\* csr_write of mepc or sepc, as a handler does to skip or redirect.
WriteEpc ==
    /\ Boundary
    /\ \/ priv = PRIV_M /\ mepc' = "code" /\ mframe' = <<>> /\ UNCHANGED <<sepc, sframe>>
       \/ priv >= PRIV_S /\ sepc' = "code" /\ sframe' = <<>> /\ UNCHANGED <<mepc, mframe>>
    /\ pc' = "code"
    /\ UNCHANGED <<priv, mstatus, csrVars, lines, hart>>

-----------------------------------------------------------------------------
(* Environment.                                                             *)

\* plat_mip_bits changes with the clock, the devices and the other harts.
DeviceLines ==
    /\ lines' \in SUBSET DeviceIrqs
    /\ UNCHANGED <<priv, pc, mstatus, csrVars, mepc, sepc, hart, mframe, sframe>>

\* firmware_timer_tick and sstc_tick raise STIP between instructions.
TimerRelay ==
    /\ IRQ_STIMER \in Irqs /\ hart = "running"
    /\ mip' = mip \cup {IRQ_STIMER}
    /\ UNCHANGED <<priv, pc, mstatus, mie, mideleg, medeleg, mtvec, stvec, lines,
                   mepc, sepc, hart, mframe, sframe>>

\* hart_start by another hart.
Restarted == hart = "parked" /\ HsmEnter

Step == \/ TakeInterrupt \/ Execute \/ Fault \/ ECall \/ MRet \/ SRet \/ WriteMstatus
        \/ WriteSstatus \/ WriteMachineCsr \/ WriteSupervisorCsr \/ WriteEpc

Next == Step \/ DeviceLines \/ TimerRelay \/ Restarted

Spec == Init /\ [][Next]_vars

-----------------------------------------------------------------------------
(* Properties.                                                              *)

\* Every variable has its type; MPP and priv may hold the reserved level 2.
TypeOK ==
    /\ priv \in 0 .. 3 /\ pc \in Pcs
    /\ mstatus \in Status
    /\ mie \in SUBSET Irqs /\ mip \in SUBSET SoftIrqs /\ lines \in SUBSET DeviceIrqs
    /\ mideleg \in SUBSET Irqs /\ medeleg \in SUBSET Nat
    /\ mtvec \in {"null", "mvec"} /\ stvec \in {"null", "svec"}
    /\ mepc \in Pcs /\ sepc \in Pcs
    /\ hart \in {"running", "parked", "halted"}
    /\ mframe \in {<<>>} \cup ((0 .. 3) \X Pcs \X BOOLEAN)
    /\ sframe \in {<<>>} \cup ((0 .. 3) \X Pcs \X BOOLEAN)

\* enter_trap against everything else: what a trap to one level stacked (privilege,
\* pc and enable) is still there until its own return or a CSR write gives it up,
\* whatever traps, returns and interrupts the other level takes in between.
FramesIntact ==
    /\ mframe # <<>> => mframe = <<mstatus.MPP, mepc, mstatus.MPIE>>
    /\ sframe # <<>> => sframe = <<mstatus.SPP, sepc, mstatus.SPIE>>

\* A handler runs with its own level's interrupts masked until it re-enables them,
\* so no interrupt can overwrite the state it has yet to return to.
HandlerMasked ==
    /\ mframe # <<>> => ~mstatus.MIE
    /\ sframe # <<>> => ~mstatus.SIE

\* mret and sret undo the trap: the privilege, pc and enable that were interrupted
\* come back, and returning is the only way privilege ever drops.
ReturnsRestore ==
    [][/\ MRet /\ mframe # <<>> => <<priv', pc', mstatus'.MIE>> = mframe
       /\ SRet /\ sframe # <<>> => <<priv', pc', mstatus'.SIE>> = sframe
       /\ priv' < priv => MRet \/ SRet]_vars

\* Privilege rises only by entering the handler of the level it rises to, at the
\* vector that level installed; a trap from M is never delegated below it.
RisesThroughVector ==
    [][priv' > priv => \/ priv' = PRIV_M /\ pc' = mtvec
                       \/ priv' = PRIV_S /\ pc' = stvec]_vars

\* take_interrupt against topi_value: the interrupt delivered to a level is the
\* one that level's top-interrupt register names, so a handler that dispatches
\* on mtopi or stopi services what it was entered for.
TopiNamesDelivered ==
    [][\A i \in Irqs : Taken(i) => Topi(i \in mideleg) = {i}]_vars

\* Returning below M always clears MPRV, so loads and stores never use another
\* level's translation outside M-mode (eff_priv reads MPRV without checking priv).
MprvOnlyInMachine == mstatus.MPRV => priv = PRIV_M

\* What every trap, return and CSR write keeps: frames intact, handlers masked,
\* MPRV confined to M-mode, and every register within its type.
TrapInv == TypeOK /\ FramesIntact /\ HandlerMasked /\ MprvOnlyInMachine

\* What cpu.h says of priv: it is 0, 1 or 3, and there is no level 2.
PrivIsLevel == priv \in {PRIV_U, PRIV_S, PRIV_M}
=============================================================================
