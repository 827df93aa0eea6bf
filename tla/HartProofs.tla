----------------------------- MODULE HartProofs -----------------------------
(***************************************************************************)
(* Proofs about the harts (cpu.c): one hart's trap machinery (Trap), for   *)
(* any set of interrupts and faults in play and any values the guest may   *)
(* write to the enable, delegation and status registers; and the           *)
(* reservations of several harts (Reservation), for any number of harts    *)
(* and words and any word width, for guests whose accesses each stay       *)
(* inside one word (Spans = {1}: every RV32 program that keeps its stores  *)
(* aligned).                                                               *)
(***************************************************************************)
EXTENDS Trap, Reservation, TLAPS

-----------------------------------------------------------------------------
(* Trap. *)


\* A parked hart was stopped by an SBI call of its own, from S-mode.
ParkedInS == hart = "parked" => priv = PRIV_S

\* TrapInv alone is not inductive: a restart enters S-mode without touching
\* MPRV, which is safe because the hart was parked in S-mode.
IInv == TrapInv /\ ParkedInS

\* Out of reset no frame is live and MPRV is clear (cpu_init).
LEMMA InitInv == Init => IInv
BY DEF Init, IInv, TrapInv, ParkedInS, TypeOK, Status, Pcs, SoftIrqs, DeviceIrqs,
       FramesIntact, HandlerMasked, MprvOnlyInMachine, PRIV_U, PRIV_S, PRIV_M

\* A trap stacks what it interrupts and masks its level (enter_trap); only code
\* at S or below traps to S.
LEMMA EnterTrapInv ==
    ASSUME IInv, NEW to_s \in BOOLEAN, to_s => priv <= PRIV_S,
           hart = "running", EnterTrap(to_s)
    PROVE  IInv'
<1> USE DEF IInv, TrapInv, TypeOK, PRIV_U, PRIV_S, PRIV_M
<1>1. CASE to_s
  <2>0. priv \in {0, 1} /\ (IF priv = 0 THEN 0 ELSE 1) = priv
    BY <1>1
  <2>1. /\ mstatus' = [mstatus EXCEPT !.SPIE = mstatus.SIE, !.SIE = FALSE, !.SPP = priv]
        /\ priv' = 1 /\ pc' = stvec /\ sepc' = pc
        /\ sframe' = <<priv, pc, mstatus.SIE>>
        /\ UNCHANGED <<csrVars, lines, hart, mepc, mframe>>
    BY <1>1, <2>0 DEF EnterTrap
  <2>2. mstatus' \in Status
    BY <2>0, <2>1 DEF Status
  <2>3. TypeOK'
    BY <2>1, <2>2 DEF csrVars, Status, Pcs
  <2>4. FramesIntact' /\ HandlerMasked'
    BY <2>1 DEF FramesIntact, HandlerMasked, Status
  <2>5. MprvOnlyInMachine' /\ ParkedInS'
    BY <2>0, <2>1 DEF MprvOnlyInMachine, ParkedInS, Status
  <2> QED BY <2>3, <2>4, <2>5
<1>2. CASE ~to_s
  <2>1. /\ mstatus' = [mstatus EXCEPT !.MPIE = mstatus.MIE, !.MIE = FALSE, !.MPP = priv]
        /\ priv' = 3 /\ pc' = mtvec /\ mepc' = pc
        /\ mframe' = <<priv, pc, mstatus.MIE>>
        /\ UNCHANGED <<csrVars, lines, hart, sepc, sframe>>
    BY <1>2 DEF EnterTrap
  <2>2. mstatus' \in Status
    BY <2>1 DEF Status
  <2>3. TypeOK'
    BY <2>1, <2>2 DEF csrVars, Status, Pcs
  <2>4. FramesIntact' /\ HandlerMasked'
    BY <2>1 DEF FramesIntact, HandlerMasked, Status
  <2>5. MprvOnlyInMachine' /\ ParkedInS'
    BY <2>1 DEF MprvOnlyInMachine, ParkedInS
  <2> QED BY <2>3, <2>4, <2>5
<1> QED BY <1>1, <1>2

\* A hart that enters at S-mode from S-mode keeps every frame (hsm_enter).
LEMMA HsmEnterInv ==
    ASSUME IInv, priv = PRIV_S, HsmEnter
    PROVE  IInv'
<1> USE DEF IInv, TrapInv, TypeOK, HsmEnter, PRIV_U, PRIV_S, PRIV_M
<1>1. mstatus' \in Status
  BY DEF Status
<1>2. TypeOK'
  BY <1>1 DEF csrVars, Pcs
<1>3. FramesIntact' /\ HandlerMasked'
  BY DEF FramesIntact, HandlerMasked, Status
<1>4. MprvOnlyInMachine' /\ ParkedInS'
  BY DEF MprvOnlyInMachine, ParkedInS, Status
<1> QED BY <1>2, <1>3, <1>4

\* A step that changes neither trap state nor privilege keeps the invariant;
\* it may park the hart only from S-mode.
LEMMA QuietInv ==
    ASSUME IInv, UNCHANGED <<priv, mstatus, mepc, sepc, mframe, sframe>>,
           TypeOK', hart' = "parked" => priv = PRIV_S
    PROVE  IInv'
BY DEF IInv, TrapInv, FramesIntact, HandlerMasked, MprvOnlyInMachine, ParkedInS

\* Whatever the built-in environment does with a trap (legacy_trap, sbi_call).
LEMMA LegacyTrapInv ==
    ASSUME IInv, NEW cause, cause = CAUSE_ECALL_S => priv = PRIV_S,
           hart = "running", LegacyTrap(cause)
    PROVE  IInv'
<1> USE DEF CAUSE_ECALL_U, CAUSE_ECALL_S, CAUSE_ECALL_M
<1>1. CASE cause = CAUSE_ECALL_S /\ HsmEnter
  BY <1>1, HsmEnterInv
<1>2. ASSUME NEW how \in {"parked", "halted"}, Halt(how), how = "parked" => priv = PRIV_S
      PROVE  IInv'
  <2>1. TypeOK'
    BY <1>2 DEF IInv, TrapInv, TypeOK, Halt, csrVars
  <2> QED BY <1>2, <2>1, QuietInv DEF Halt
<1>3. CASE Proceed /\ UNCHANGED <<mie, mideleg, medeleg, mtvec, stvec, hart>>
           /\ mip' \in {mip, mip \ {IRQ_STIMER}}
  <2>1. TypeOK'
    BY <1>3 DEF IInv, TrapInv, TypeOK, Proceed, Pcs
  <2> QED BY <1>3, <2>1, QuietInv DEF Proceed
<1>4. CASE Proceed /\ UNCHANGED <<csrVars, hart>>
  BY <1>4, <1>3 DEF csrVars
<1> QED BY <1>1, <1>2, <1>3, <1>4 DEF LegacyTrap, SbiCall

\* raise_trap: to a handler, or to the built-in environment.
LEMMA RaiseTrapInv ==
    ASSUME IInv, NEW cause, cause = CAUSE_ECALL_S => priv = PRIV_S,
           hart = "running", RaiseTrap(cause)
    PROVE  IInv'
<1>1. CASE LegacyTrap(cause)
  BY <1>1, LegacyTrapInv
<1>2. CASE EnterTrap(Delegated(cause))
  <2>1. Delegated(cause) \in BOOLEAN /\ (Delegated(cause) => priv <= PRIV_S)
    BY DEF Delegated
  <2> QED BY <1>2, <2>1, EnterTrapInv
<1> QED BY <1>1, <1>2 DEF RaiseTrap

\* One step of the hart or of its environment.
LEMMA NextInv == IInv /\ [Next]_vars => IInv'
<1> SUFFICES ASSUME IInv, [Next]_vars PROVE IInv'
  OBVIOUS
<1> USE DEF PRIV_U, PRIV_S, PRIV_M
<1>0. TypeOK /\ FramesIntact /\ HandlerMasked /\ MprvOnlyInMachine /\ ParkedInS
  BY DEF IInv, TrapInv
<1>1. CASE TakeInterrupt
  <2>1. PICK i \in Irqs : Taken(i)
    BY <1>1 DEF TakeInterrupt
  <2>2. i \in mideleg => priv <= PRIV_S
    BY <2>1, <1>0 DEF Taken, Eligible, SOn, TypeOK
  <2>3. CASE i \in mideleg
    <3>1. hart = "running" /\ EnterTrap(TRUE)
      BY <2>1, <2>3 DEF Taken, EnterTrap
    <3> QED BY <2>2, <2>3, <3>1, EnterTrapInv
  <2>4. CASE i \notin mideleg
    <3>1. hart = "running" /\ EnterTrap(FALSE)
      BY <2>1, <2>4 DEF Taken, EnterTrap
    <3> QED BY <3>1, EnterTrapInv
  <2> QED BY <2>3, <2>4
<1>2. CASE Execute
  <2>1. TypeOK'
    BY <1>0, <1>2 DEF TypeOK, Execute, Proceed, csrVars, Pcs
  <2> QED BY <1>2, <2>1, QuietInv DEF Execute, Proceed, Boundary
<1>3. CASE Fault
  <2>1. PICK cause \in Faults : RaiseTrap(cause)
    BY <1>3 DEF Fault
  <2>2. cause # CAUSE_ECALL_S
    BY FaultsAssumption DEF CAUSE_ECALL_S
  <2> QED BY <1>3, <2>1, <2>2, RaiseTrapInv DEF Fault, Boundary
<1>4. CASE ECall
  <2>1. CAUSE_ECALL_U + priv = CAUSE_ECALL_S => priv = PRIV_S
    BY <1>0 DEF TypeOK, CAUSE_ECALL_U, CAUSE_ECALL_S
  <2> QED BY <1>4, <2>1, RaiseTrapInv DEF ECall, Boundary
<1>5. CASE MRet
  <2>1. mstatus' \in Status
    <3>1. ASSUME NEW u \in 0..3, NEW keep \in BOOLEAN
          PROVE  [mstatus EXCEPT !.MIE = mstatus.MPIE, !.MPIE = TRUE, !.MPP = u,
                                 !.MPRV = keep] \in Status
      BY <1>0 DEF TypeOK, Status
    <3>2. PRIV_U \in 0..3 /\ (mstatus.MPRV /\ mstatus.MPP = PRIV_M) \in BOOLEAN
      OBVIOUS
    <3> QED BY <1>5, <3>1, <3>2, Zenon DEF MRet
  <2>2. TypeOK'
    BY <1>0, <1>5, <2>1 DEF TypeOK, MRet, csrVars, Status
  <2>3. FramesIntact' /\ HandlerMasked'
    BY <1>0, <1>5 DEF TypeOK, MRet, FramesIntact, HandlerMasked, Status
  <2>4. MprvOnlyInMachine' /\ ParkedInS'
    BY <1>0, <1>5 DEF TypeOK, MRet, MprvOnlyInMachine, ParkedInS, Boundary, Status
  <2> QED BY <2>2, <2>3, <2>4 DEF IInv, TrapInv
<1>6. CASE SRet
  <2>1. mstatus' \in Status
    BY <1>0, <1>6 DEF TypeOK, Status, SRet
  <2>2. TypeOK'
    BY <1>0, <1>6, <2>1 DEF TypeOK, SRet, csrVars, Status
  <2>3. FramesIntact' /\ HandlerMasked'
    BY <1>0, <1>6 DEF TypeOK, SRet, FramesIntact, HandlerMasked, Status
  <2>4. MprvOnlyInMachine' /\ ParkedInS'
    BY <1>0, <1>6 DEF TypeOK, SRet, MprvOnlyInMachine, ParkedInS, Boundary, Status
  <2> QED BY <2>2, <2>3, <2>4 DEF IInv, TrapInv
<1>7. CASE WriteMstatus
  <2>1. mstatus' \in Status
    BY <1>0, <1>7, MppAssumption DEF TypeOK, Status, WriteMstatus
  <2>2. TypeOK'
    BY <1>0, <1>7, <2>1 DEF TypeOK, WriteMstatus, csrVars, Pcs
  <2>3. /\ FramesIntact' /\ HandlerMasked'
        /\ MprvOnlyInMachine' /\ ParkedInS'
    BY <1>0, <1>7 DEF WriteMstatus, FramesIntact, HandlerMasked, MprvOnlyInMachine,
                      ParkedInS, Boundary
  <2> QED BY <2>2, <2>3 DEF IInv, TrapInv
<1>8. CASE WriteSstatus
  <2>1. /\ mstatus' \in Status
        /\ mstatus'.MPP = mstatus.MPP /\ mstatus'.MPIE = mstatus.MPIE
        /\ mstatus'.MIE = mstatus.MIE /\ mstatus'.MPRV = mstatus.MPRV
    BY <1>0, <1>8 DEF TypeOK, Status, WriteSstatus
  <2>2. TypeOK'
    BY <1>0, <1>8, <2>1 DEF TypeOK, WriteSstatus, csrVars, Pcs
  <2>3. /\ FramesIntact' /\ HandlerMasked'
        /\ MprvOnlyInMachine' /\ ParkedInS'
    BY <1>0, <1>8, <2>1 DEF WriteSstatus, FramesIntact, HandlerMasked, MprvOnlyInMachine,
                            ParkedInS, Boundary
  <2> QED BY <2>2, <2>3 DEF IInv, TrapInv
<1>9. CASE WriteMachineCsr
  <2>1. mie' \in SUBSET Irqs /\ mip' \in SUBSET SoftIrqs
    BY <1>0, <1>9, MieAssumption DEF TypeOK, WriteMachineCsr
  <2>2. mideleg' \in SUBSET Irqs /\ medeleg' \in SUBSET Nat
    BY <1>0, <1>9, DelegAssumption DEF TypeOK, WriteMachineCsr
  <2>3. mtvec' \in {"null", "mvec"} /\ stvec' \in {"null", "svec"}
    BY <1>0, <1>9 DEF TypeOK, WriteMachineCsr
  <2>4. TypeOK'
    BY <1>0, <1>9, <2>1, <2>2, <2>3 DEF TypeOK, WriteMachineCsr, Proceed, Pcs
  <2> QED BY <1>9, <2>4, QuietInv DEF WriteMachineCsr, Proceed, Boundary
<1>10. CASE WriteSupervisorCsr
  <2>1. mie' \in SUBSET Irqs /\ mip' \in SUBSET SoftIrqs /\ stvec' \in {"null", "svec"}
    BY <1>0, <1>10, MieAssumption DEF TypeOK, WriteSupervisorCsr
  <2>2. TypeOK'
    BY <1>0, <1>10, <2>1 DEF TypeOK, WriteSupervisorCsr, Proceed, Pcs
  <2> QED BY <1>10, <2>2, QuietInv DEF WriteSupervisorCsr, Proceed, Boundary
<1>11. CASE WriteEpc
  <2>1. TypeOK'
    BY <1>0, <1>11 DEF TypeOK, WriteEpc, csrVars, Pcs
  <2>2. /\ FramesIntact' /\ HandlerMasked'
        /\ MprvOnlyInMachine' /\ ParkedInS'
    BY <1>0, <1>11 DEF WriteEpc, FramesIntact, HandlerMasked, MprvOnlyInMachine,
                       ParkedInS, Boundary
  <2> QED BY <2>1, <2>2 DEF IInv, TrapInv
<1>12. CASE DeviceLines
  <2>1. TypeOK'
    BY <1>0, <1>12 DEF TypeOK, DeviceLines, csrVars
  <2> QED BY <1>0, <1>12, <2>1, QuietInv DEF DeviceLines, ParkedInS
<1>13. CASE TimerRelay
  <2>1. TypeOK'
    BY <1>0, <1>13 DEF TypeOK, TimerRelay, SoftIrqs, IRQ_STIMER
  <2> QED BY <1>0, <1>13, <2>1, QuietInv DEF TimerRelay, ParkedInS
<1>14. CASE Restarted
  BY <1>0, <1>14, HsmEnterInv DEF Restarted, ParkedInS
<1>15. CASE UNCHANGED vars
  <2>1. TypeOK'
    BY <1>0, <1>15 DEF TypeOK, vars, csrVars
  <2> QED BY <1>0, <1>15, <2>1, QuietInv DEF vars, ParkedInS
<1> QED BY <1>1, <1>2, <1>3, <1>4, <1>5, <1>6, <1>7, <1>8, <1>9, <1>10, <1>11, <1>12,
           <1>13, <1>14, <1>15 DEF Next, Step

\* The inductive invariant holds in every reachable state.
THEOREM Invariance == Spec => []IInv
BY InitInv, NextInv, PTL DEF Spec

\* Stacked trap state survives whatever the other level does, handlers run
\* masked and MPRV stays in M-mode (enter_trap, exec_mret, exec_sret, csr_write,
\* hsm_enter), whichever interrupts, delegations and status values are used.
THEOREM TrapCorrect == Spec => []TrapInv
<1>1. IInv => TrapInv
  BY DEF IInv
<1> QED BY <1>1, Invariance, PTL

-----------------------------------------------------------------------------
\* What a step can do to the privilege: a trap, a return, or nothing; a restart
\* or a suspend enters S-mode from S-mode.
LEMMA PrivCases ==
    ASSUME IInv, Next
    PROVE  \/ MRet \/ SRet \/ priv' = priv
           \/ EnterTrap(FALSE)
           \/ EnterTrap(TRUE) /\ priv <= PRIV_S
<1> USE DEF PRIV_U, PRIV_S, PRIV_M
<1>0. TypeOK /\ ParkedInS
  BY DEF IInv, TrapInv
<1>1. CASE TakeInterrupt
  <2>1. PICK i \in Irqs : Taken(i)
    BY <1>1 DEF TakeInterrupt
  <2>2. i \in mideleg => priv <= PRIV_S
    BY <2>1, <1>0 DEF Taken, Eligible, SOn, TypeOK
  <2> QED BY <2>1, <2>2 DEF Taken, EnterTrap
<1>2. ASSUME NEW cause, cause = CAUSE_ECALL_S => priv = PRIV_S, RaiseTrap(cause)
      PROVE  \/ priv' = priv
             \/ EnterTrap(FALSE)
             \/ EnterTrap(TRUE) /\ priv <= PRIV_S
  <2>1. CASE LegacyTrap(cause)
    BY <1>2, <2>1 DEF LegacyTrap, SbiCall, Halt, Proceed, HsmEnter
  <2>2. CASE EnterTrap(Delegated(cause))
    BY <2>2 DEF EnterTrap, Delegated
  <2> QED BY <1>2, <2>1, <2>2 DEF RaiseTrap
<1>3. CASE Fault
  <2>1. PICK cause \in Faults : RaiseTrap(cause)
    BY <1>3 DEF Fault
  <2>2. cause # CAUSE_ECALL_S
    BY FaultsAssumption DEF CAUSE_ECALL_S
  <2> QED BY <1>2, <2>1, <2>2
<1>4. CASE ECall
  <2>1. CAUSE_ECALL_U + priv = CAUSE_ECALL_S => priv = PRIV_S
    BY <1>0 DEF TypeOK, CAUSE_ECALL_U, CAUSE_ECALL_S
  <2> QED BY <1>2, <1>4, <2>1 DEF ECall
<1>5. CASE Restarted
  BY <1>0, <1>5 DEF Restarted, HsmEnter, ParkedInS
<1>6. CASE \/ Execute \/ WriteMstatus \/ WriteSstatus \/ WriteMachineCsr
           \/ WriteSupervisorCsr \/ WriteEpc \/ DeviceLines \/ TimerRelay
  BY <1>6 DEF Execute, Proceed, WriteMstatus, WriteSstatus, WriteMachineCsr,
              WriteSupervisorCsr, WriteEpc, DeviceLines, TimerRelay
<1> QED BY <1>1, <1>3, <1>4, <1>5, <1>6 DEF Next, Step

\* Privilege rises only into the handler of the level it rises to (enter_trap,
\* raise_trap, take_interrupt, hsm_enter).
THEOREM RisesCorrect == Spec => RisesThroughVector
<1> DEFINE Rises ==
        priv' > priv => \/ priv' = PRIV_M /\ pc' = mtvec
                        \/ priv' = PRIV_S /\ pc' = stvec
<1>1. IInv /\ [Next]_vars => [Rises]_vars
  <2> SUFFICES ASSUME IInv, Next PROVE Rises
    OBVIOUS
  <2>1. priv \in 0..3 /\ mstatus \in Status
    BY DEF IInv, TrapInv, TypeOK
  <2>2. CASE MRet
    BY <2>1, <2>2 DEF MRet, Status, PRIV_M
  <2>3. CASE SRet
    BY <2>1, <2>3 DEF SRet, Status, PRIV_U, PRIV_S
  <2>4. CASE EnterTrap(FALSE)
    BY <2>4 DEF EnterTrap, PRIV_M
  <2>5. CASE EnterTrap(TRUE)
    BY <2>5 DEF EnterTrap, PRIV_S
  <2>6. CASE priv' = priv
    BY <2>1, <2>6
  <2> QED BY <2>2, <2>3, <2>4, <2>5, <2>6, PrivCases
<1> QED BY <1>1, Invariance, PTL DEF Spec, RisesThroughVector

\* A return gives back exactly what its trap interrupted, and privilege drops
\* in no other way (exec_mret, exec_sret).
THEOREM ReturnsCorrect == Spec => ReturnsRestore
<1> DEFINE Restores ==
        /\ MRet /\ mframe # <<>> => <<priv', pc', mstatus'.MIE>> = mframe
        /\ SRet /\ sframe # <<>> => <<priv', pc', mstatus'.SIE>> = sframe
        /\ priv' < priv => MRet \/ SRet
<1>1. IInv /\ [Next]_vars => [Restores]_vars
  <2> SUFFICES ASSUME IInv, Next PROVE Restores
    OBVIOUS
  <2>1. priv \in 0..3 /\ mstatus \in Status /\ FramesIntact
    BY DEF IInv, TrapInv, TypeOK
  <2>2. MRet /\ mframe # <<>> => <<priv', pc', mstatus'.MIE>> = mframe
    BY <2>1 DEF MRet, FramesIntact, Status
  <2>3. SRet /\ sframe # <<>> => <<priv', pc', mstatus'.SIE>> = sframe
    BY <2>1 DEF SRet, FramesIntact, Status
  <2>4. priv' < priv => MRet \/ SRet
    BY <2>1, PrivCases DEF EnterTrap, PRIV_S, PRIV_M
  <2> QED BY <2>2, <2>3, <2>4
<1> QED BY <1>1, Invariance, PTL DEF Spec, ReturnsRestore

\* The scan order ranks no two interrupts alike.
LEMMA RankInjective ==
    ASSUME NEW i \in AllIrqs, NEW j \in AllIrqs
    PROVE  /\ Rank(i) \in 1..6
           /\ Rank(i) = Rank(j) => i = j
BY DEF Rank, AllIrqs, IRQ_SSOFT, IRQ_MSOFT, IRQ_STIMER, IRQ_MTIMER, IRQ_SEXT, IRQ_MEXT

\* The interrupt delivered is the one its level's top-interrupt register names
\* (take_interrupt, topi_value): interrupts of one level share a gate, so the
\* first of the level is eligible whenever any of them is.
THEOREM TopiCorrect == Spec => TopiNamesDelivered
<1> DEFINE Names == \A i \in Irqs : Taken(i) => Topi(i \in mideleg) = {i}
<1>1. IInv => Names
  <2> SUFFICES ASSUME IInv, NEW i \in Irqs, Taken(i)
               PROVE  Topi(i \in mideleg) = {i}
    OBVIOUS
  <2> DEFINE level == {k \in EffectiveMip \cap mie : (k \in mideleg) = (i \in mideleg)}
  <2>1. i \in Eligible /\ \A j \in Eligible : Rank(i) <= Rank(j)
    BY DEF Taken
  <2>2. i \in level /\ level \subseteq Eligible
    BY <2>1 DEF Eligible
  <2>3. level \subseteq AllIrqs
    BY IrqsAssumption DEF IInv, TrapInv, TypeOK
  <2>4. \A j \in level : Rank(i) <= Rank(j)
    BY <2>1, <2>2
  <2>5. ASSUME NEW k \in level, \A j \in level : Rank(k) <= Rank(j)
        PROVE  k = i
    BY <2>2, <2>3, <2>4, <2>5, RankInjective
  <2>6. Topi(i \in mideleg) = {k \in level : \A j \in level : Rank(k) <= Rank(j)}
    BY DEF Topi
  <2> HIDE DEF level
  <2> QED BY <2>2, <2>4, <2>5, <2>6
<1>2. IInv /\ [Next]_vars => [Names]_vars
  BY <1>1
<1> QED BY <1>2, Invariance, PTL DEF Spec, TopiNamesDelivered

-----------------------------------------------------------------------------
(* Reservation. *)

\* The inductive invariant.  A valid reservation watches exactly its word, and
\* the value LR read from that word is still the value in memory: this is what
\* makes the successful SC's blind write an atomic increment.
Fresh ==
    \A h \in Harts :
        /\ watch[h] = IF reserve_valid[h] THEN {reserve_addr[h]} ELSE {}
        /\ reserve_valid[h] => loaded[h][reserve_addr[h]] = memory[reserve_addr[h]]

ResInv == ResTypeOK /\ Fresh

\* With a span of one, an access covers its own word only.
LEMMA CoverOne == \A addr \in Words : Cover(addr, 1) = {addr}
BY NWordsAssumption DEF Cover, Words

\* Sums stay within the word width, and zero is a value.
LEMMA ValuesClosed ==
    /\ \A v \in Values : (v + 1) % Modulus \in Values
    /\ 0 \in Values /\ 0 \in Words
BY ModulusAssumption, NWordsAssumption DEF Values, Words

\* The two writes are functions on the words with values of the right width.
LEMMA WritesTyped ==
    ASSUME ResTypeOK, NEW words
    PROVE  /\ WriteZero(words) \in [Words -> Values]
           /\ \A from \in [Words -> Values] : WritePlusOne(words, from) \in [Words -> Values]
BY ValuesClosed DEF ResTypeOK, WriteZero, WritePlusOne

\* What voiding the reservations on one word does, and that the history agrees.
LEMMA BreakEffect ==
    ASSUME ResInv, NEW h, NEW addr \in Words
    PROVE  /\ Broken(h, addr) \in [Harts -> BOOLEAN]
           /\ Unwatch({addr}) \in [Harts -> SUBSET Words]
           /\ \A g \in Harts :
                 /\ Broken(h, addr)[g] <=> reserve_valid[g] /\ reserve_addr[g] # addr
                 /\ Unwatch({addr})[g] = IF reserve_valid[g] /\ reserve_addr[g] # addr
                                         THEN {reserve_addr[g]} ELSE {}
<1>1. Broken(h, addr) \in [Harts -> BOOLEAN]
  BY Zenon DEF Broken, ResInv, ResTypeOK
<1>2. \A g \in Harts : Broken(h, addr)[g] <=> reserve_valid[g] /\ reserve_addr[g] # addr
  BY Zenon DEF Broken
<1>3. ASSUME NEW g \in Harts
      PROVE  /\ Unwatch({addr})[g] = IF reserve_valid[g] /\ reserve_addr[g] # addr
                                     THEN {reserve_addr[g]} ELSE {}
             /\ Unwatch({addr})[g] \in SUBSET Words
  <2>1. /\ Unwatch({addr})[g] = IF watch[g] \cap {addr} = {} THEN watch[g] ELSE {}
        /\ watch[g] = IF reserve_valid[g] THEN {reserve_addr[g]} ELSE {}
        /\ reserve_addr[g] \in Words
    BY DEF Unwatch, ResInv, Fresh, ResTypeOK
  <2>2. CASE reserve_valid[g] /\ reserve_addr[g] # addr
    <3>1. watch[g] \cap {addr} = {}
      BY <2>1, <2>2
    <3> QED BY <2>1, <2>2, <3>1
  <2>3. CASE reserve_valid[g] /\ reserve_addr[g] = addr
    <3>1. addr \in watch[g] \cap {addr}
      BY <2>1, <2>3
    <3> QED BY <2>1, <2>3, <3>1
  <2>4. CASE ~reserve_valid[g]
    BY <2>1, <2>4
  <2> QED BY <2>2, <2>3, <2>4
<1>4. Unwatch({addr}) \in [Harts -> SUBSET Words]
  BY <1>3 DEF Unwatch
<1> QED BY <1>1, <1>2, <1>3, <1>4

\* A write to one word that voids the reservations on it keeps the invariant.
LEMMA WriteInv ==
    ASSUME ResInv, NEW h, NEW addr \in Words,
           memory' \in [Words -> Values],
           \A w \in Words : w # addr => memory'[w] = memory[w],
           reserve_valid' = Broken(h, addr), watch' = Unwatch({addr}),
           UNCHANGED <<reserve_addr, loaded>>
    PROVE  ResInv'
<1>1. ResTypeOK'
  BY BreakEffect DEF ResInv, ResTypeOK
<1>2. ASSUME NEW g \in Harts
      PROVE  /\ watch'[g] = IF reserve_valid'[g] THEN {reserve_addr'[g]} ELSE {}
             /\ reserve_valid'[g] => loaded'[g][reserve_addr'[g]] = memory'[reserve_addr'[g]]
  <2>1. /\ reserve_valid'[g] <=> reserve_valid[g] /\ reserve_addr[g] # addr
        /\ watch'[g] = IF reserve_valid[g] /\ reserve_addr[g] # addr
                       THEN {reserve_addr[g]} ELSE {}
    BY BreakEffect
  <2>2. reserve_addr[g] \in Words
    BY DEF ResInv, ResTypeOK
  <2>3. reserve_valid[g] => loaded[g][reserve_addr[g]] = memory[reserve_addr[g]]
    BY DEF ResInv, Fresh
  <2> QED BY <2>1, <2>2, <2>3
<1> QED BY <1>1, <1>2 DEF ResInv, Fresh

\* One step of each kind preserves the inductive invariant.
LEMMA StepInv ==
    ASSUME Spans = {1}, ResInv, ResNext
    PROVE  ResInv'
<1>1. PICK h \in Harts :
         \/ \E addr \in Words : \/ LoadReserved(h, addr, 1)
                                \/ StoreConditional(h, addr, 1)
                                \/ Amo(h, addr, 1)
                                \/ Store(h, addr, 1)
         \/ HsmEnterHart(h)
  BY DEF ResNext
<1>2. ASSUME NEW addr \in Words, LoadReserved(h, addr, 1)
      PROVE  ResInv'
  <2>1. Cover(addr, 1) = {addr}
    BY CoverOne
  <2>2. ResTypeOK'
    BY <1>2, <2>1 DEF LoadReserved, ResInv, ResTypeOK, Fresh
  <2>3. Fresh'
    BY <1>2, <2>1 DEF LoadReserved, ResInv, ResTypeOK, Fresh
  <2> QED BY <2>2, <2>3 DEF ResInv
<1>3. ASSUME NEW addr \in Words, StoreConditional(h, addr, 1)
      PROVE  ResInv'
  <2>1. Cover(addr, 1) = {addr}
    BY CoverOne
  <2>2. CASE reserve_valid[h] /\ reserve_addr[h] = addr
    <3>1. /\ memory' = WritePlusOne({addr}, loaded[h])
          /\ reserve_valid' = [Broken(h, addr) EXCEPT ![h] = FALSE]
          /\ watch' = [Unwatch({addr}) EXCEPT ![h] = {}]
      BY <1>3, <2>1, <2>2 DEF StoreConditional
    <3>2. reserve_valid' = Broken(h, addr) /\ watch' = Unwatch({addr})
      <4>1. /\ Broken(h, addr) \in [Harts -> BOOLEAN]
            /\ Unwatch({addr}) \in [Harts -> SUBSET Words]
        BY BreakEffect
      <4>2. Broken(h, addr)[h] = FALSE
        BY <2>2, <4>1, BreakEffect
      <4>3. Unwatch({addr})[h] = {}
        BY <2>2, BreakEffect
      <4> QED BY <3>1, <4>1, <4>2, <4>3
    <3>3. memory' \in [Words -> Values]
      BY <3>1, WritesTyped DEF ResInv, ResTypeOK
    <3>4. \A w \in Words : w # addr => memory'[w] = memory[w]
      BY <3>1 DEF WritePlusOne
    <3> QED BY <1>3, <3>2, <3>3, <3>4, WriteInv DEF StoreConditional
  <2>3. CASE ~(reserve_valid[h] /\ reserve_addr[h] = addr)
    BY <1>3, <2>3 DEF StoreConditional, ResInv, ResTypeOK, Fresh
  <2> QED BY <2>2, <2>3
<1>4. ASSUME NEW addr \in Words, Amo(h, addr, 1)
      PROVE  ResInv'
  <2>1. Cover(addr, 1) = {addr}
    BY CoverOne
  <2>2. memory' \in [Words -> Values]
    <3>1. ResTypeOK /\ memory \in [Words -> Values]
      BY DEF ResInv, ResTypeOK
    <3>2. /\ WriteZero({addr}) \in [Words -> Values]
          /\ WritePlusOne({addr}, memory) \in [Words -> Values]
      BY <3>1, WritesTyped
    <3> QED BY <1>4, <2>1, <3>2 DEF Amo
  <2>3. \A w \in Words : w # addr => memory'[w] = memory[w]
    BY <1>4, <2>1 DEF Amo, WritePlusOne, WriteZero
  <2> QED BY <1>4, <2>1, <2>2, <2>3, WriteInv DEF Amo
<1>5. ASSUME NEW addr \in Words, Store(h, addr, 1)
      PROVE  ResInv'
  <2>1. Cover(addr, 1) = {addr} /\ memory' = WriteZero({addr})
    BY <1>5, CoverOne DEF Store
  <2>2. memory' \in [Words -> Values]
    BY <2>1, WritesTyped DEF ResInv
  <2>3. \A w \in Words : w # addr => memory'[w] = memory[w]
    BY <2>1 DEF WriteZero
  <2>4. watch' = Unwatch({addr})
    BY <1>5, <2>1 DEF Store
  <2> QED BY <1>5, <2>2, <2>3, <2>4, WriteInv DEF Store
<1>6. CASE HsmEnterHart(h)
  BY <1>6 DEF HsmEnterHart, ResInv, ResTypeOK, Fresh
<1> QED BY <1>1, <1>2, <1>3, <1>4, <1>5, <1>6

\* The inductive invariant holds throughout.
THEOREM ResInvariance ==
    ASSUME Spans = {1}
    PROVE  ResSpec => []ResInv
<1>1. ResInit => ResInv
  BY ValuesClosed DEF ResInit, ResInv, ResTypeOK, Fresh
<1>2. ResInv /\ [ResNext]_resVars => ResInv'
  <2>1. CASE ResNext
    BY <2>1, StepInv
  <2>2. CASE UNCHANGED resVars
    BY <2>2 DEF resVars, ResInv, ResTypeOK, Fresh
  <2> QED BY <2>1, <2>2
<1> QED BY <1>1, <1>2, PTL DEF ResSpec

\* break_reservation is exact: a reservation holds precisely while nothing LR
\* read has been written since, on any number of harts.
THEOREM ExactCorrect ==
    ASSUME Spans = {1}
    PROVE  ResSpec => []ReservationExact
<1>1. ResInv => ReservationExact
  BY DEF ResInv, Fresh, ReservationExact
<1> QED BY <1>1, ResInvariance, PTL

\* Increments made with LR/SC or an AMO are atomic and none is lost: the shared
\* memory implements AtomicMemory, on any number of harts and words.
THEOREM Refinement ==
    ASSUME Spans = {1}
    PROVE  ResSpec => RefinesAtomicMemory
<1>1. ResInit => Atomic!Init
  BY DEF ResInit, Atomic!Init
<1>2. ResInv /\ [ResNext]_resVars => [Atomic!Next]_memory
  <2> SUFFICES ASSUME ResInv, ResNext PROVE Atomic!Next \/ UNCHANGED memory
    BY DEF resVars
  <2>1. PICK h \in Harts :
           \/ \E addr \in Words : \/ LoadReserved(h, addr, 1)
                                  \/ StoreConditional(h, addr, 1)
                                  \/ Amo(h, addr, 1)
                                  \/ Store(h, addr, 1)
           \/ HsmEnterHart(h)
    BY DEF ResNext
  <2>2. \A addr \in Words : Cover(addr, 1) \in Units
    BY DEF Units
  <2>3. ASSUME NEW addr \in Words, StoreConditional(h, addr, 1)
        PROVE  Atomic!Next \/ UNCHANGED memory
    <3>1. CASE reserve_valid[h] /\ reserve_addr[h] = addr
      <4>1. loaded[h][addr] = memory[addr]
        BY <3>1 DEF ResInv, Fresh
      <4>2. memory' = WritePlusOne({addr}, loaded[h])
        BY <2>3, <3>1, CoverOne DEF StoreConditional
      <4>3. Atomic!Increment({addr})
        BY <4>1, <4>2 DEF WritePlusOne, Atomic!Increment
      <4> QED BY <2>2, <4>3, CoverOne DEF Atomic!Next
    <3>2. CASE ~(reserve_valid[h] /\ reserve_addr[h] = addr)
      BY <2>3, <3>2 DEF StoreConditional
    <3> QED BY <3>1, <3>2
  <2>4. ASSUME NEW addr \in Words, Amo(h, addr, 1)
        PROVE  Atomic!Next
    <3>1. Atomic!Increment(Cover(addr, 1)) \/ Atomic!Clear(Cover(addr, 1))
      BY <2>4 DEF Amo, WritePlusOne, WriteZero, Atomic!Increment, Atomic!Clear
    <3> QED BY <2>2, <3>1 DEF Atomic!Next
  <2>5. ASSUME NEW addr \in Words, Store(h, addr, 1)
        PROVE  Atomic!Next \/ UNCHANGED memory
    <3>1. Atomic!Clear(Cover(addr, 1)) \/ UNCHANGED memory
      BY <2>5 DEF Store, WriteZero, Atomic!Clear
    <3> QED BY <2>2, <3>1 DEF Atomic!Next
  <2>6. ASSUME NEW addr \in Words, LoadReserved(h, addr, 1)
        PROVE  UNCHANGED memory
    BY <2>6 DEF LoadReserved
  <2>7. ASSUME HsmEnterHart(h) PROVE UNCHANGED memory
    BY <2>7 DEF HsmEnterHart
  <2> QED BY <2>1, <2>3, <2>4, <2>5, <2>6, <2>7
<1> QED BY <1>1, <1>2, ResInvariance, PTL DEF ResSpec, RefinesAtomicMemory, Atomic!Spec
=============================================================================
