--------------------------- MODULE MachineProofs ---------------------------
(***************************************************************************)
(* Proofs about Machine for every number of harts, address-space size,      *)
(* clock width, exit code, unhandled cause and instruction cap.             *)
(***************************************************************************)
EXTENDS Machine, WellFoundedInduction, TLAPS

\* A non-empty set of hart ids has a least element: machine_poll_halt's scan
\* for the first abnormal hart finds one.
LEMMA LeastHart ==
    ASSUME NEW S, S \subseteq Harts, S # {}
    PROVE  \E h \in S : \A g \in S : h <= g
<1>1. S \subseteq Nat
  BY NHartsAssumption DEF Harts
<1>2. PICK h \in S : \A g \in S : ~(<<g, h>> \in OpToRel(<, Nat))
  BY <1>1, WFMin, NatLessThanWellFounded, Zenon
<1>3. ASSUME NEW g \in S PROVE h <= g
  <2>1. ~(<<g, h>> \in OpToRel(<, Nat)) BY <1>2
  <2> QED BY <1>1, <2>1 DEF OpToRel
<1> QED BY <1>3

\* The hart that machine_poll_halt lets speak for the machine is a hart, and
\* an abnormal one when there is one.
LEMMA SpokesmanProps ==
    ASSUME NEW reason
    PROVE  /\ Spokesman(reason) \in Harts
           /\ \A h \in Harts : reason[h] # "EXIT" => reason[Spokesman(reason)] # "EXIT"
<1> DEFINE abnormal == {h \in Harts : reason[h] # "EXIT"}
<1>1. CASE abnormal = {}
  BY <1>1, NHartsAssumption DEF Spokesman, Harts
<1>2. CASE abnormal # {}
  <2>1. \E h \in abnormal : \A g \in abnormal : h <= g
    BY <1>2, LeastHart
  <2>2. Spokesman(reason) \in abnormal
    BY <1>2, <2>1 DEF Spokesman
  <2> QED BY <2>2
<1> QED BY <1>1, <1>2

\* legacy_trap records a real halt reason for every cause.
LEMMA LegacyReasonType ==
    ASSUME NEW cause
    PROVE  LegacyReason(cause) \in Reasons \ {"NONE"}
BY DEF LegacyReason, Reasons

-----------------------------------------------------------------------------
(* Type correctness.                                                        *)

\* The part of the type invariant cpu_step can disturb.
HartTypeOK ==
    /\ pc \in [Harts -> Addr]
    /\ a0 \in [Harts -> A0Values]
    /\ halted \in [Harts -> BOOLEAN]
    /\ halt_reason \in [Harts -> Reasons]
    /\ exit_code \in [Harts -> ExitCodes]
    /\ hsm_state \in [Harts -> {"STARTED", "STOPPED"}]
    /\ poweroff \in BOOLEAN /\ poweroff_code \in ExitCodes

\* The values cpu_step writes are of their types.
LEMMA StepValues ==
    /\ SBI_SUCCESS \in A0Values /\ SBI_ERR_FAILED \in A0Values
    /\ SBI_ERR_NOT_SUPPORTED \in A0Values /\ SBI_ERR_INVALID_PARAM \in A0Values
    /\ SBI_ERR_ALREADY_AVAILABLE \in A0Values
    /\ \A h \in Harts : h \in A0Values
    /\ \A a \in Addr : (a + 1) % AddrSpace \in Addr
    /\ \A t \in 0 .. TimeWrap - 1 : (t + 1) % TimeWrap \in 0 .. TimeWrap - 1
    /\ 0 \in Addr /\ 0 \in Harts /\ 0 \in ExitCodes /\ 0 \in 0 .. TimeWrap - 1
<1>1. SBI_SUCCESS \in A0Values /\ 0 \in Harts
  BY NHartsAssumption DEF SBI_SUCCESS, A0Values, Harts
<1>2. ASSUME NEW a \in Addr PROVE (a + 1) % AddrSpace \in Addr
  BY AddrSpaceAssumption DEF Addr
<1>3. ASSUME NEW t \in 0 .. TimeWrap - 1 PROVE (t + 1) % TimeWrap \in 0 .. TimeWrap - 1
  BY TimeWrapAssumption
<1>4. 0 \in Addr /\ 0 \in 0 .. TimeWrap - 1 /\ 0 \in ExitCodes
  BY AddrSpaceAssumption, TimeWrapAssumption, ExitCodesAssumption DEF Addr
<1> QED BY <1>1, <1>2, <1>3, <1>4 DEF A0Values

\* hart_start answers SUCCESS only for a STOPPED hart of the machine.
LEMMA StartSucceeds ==
    ASSUME HartTypeOK, NEW t, StartError(t) = SBI_SUCCESS
    PROVE  t \in Harts /\ hsm_state[t] = "STOPPED"
BY DEF HartTypeOK, StartError, ValidHart, SBI_SUCCESS, SBI_ERR_FAILED,
       SBI_ERR_INVALID_PARAM, SBI_ERR_ALREADY_AVAILABLE

\* Every cpu_step keeps the hart and power-off state well typed.
LEMMA CpuStepType ==
    ASSUME HartTypeOK, NEW h \in Harts, CpuStep(h)
    PROVE  HartTypeOK'
<1> USE StepValues DEF HartTypeOK, platVars
<1>1. FallThrough(h) \in Addr
  BY DEF FallThrough
<1>2. CASE Execute(h)
  BY <1>2 DEF Execute
<1>3. CASE SysExit(h)
  BY <1>3 DEF SysExit, Stop, Reasons
<1>4. CASE LegacyTrap(h)
  BY <1>4, LegacyReasonType DEF LegacyTrap, Stop
<1>5. CASE SystemReset(h)
  BY <1>5 DEF SystemReset, Stop, Reasons
<1>6. CASE SbiAnswer(h)
  BY <1>1, <1>6 DEF SbiAnswer, Advance
<1>7. ASSUME NEW t \in HartIds, NEW start \in Addr, HartStart(h, t, start)
      PROVE  HartTypeOK'
  <2>1. CASE StartError(t) = SBI_SUCCESS
    <3>1. t \in Harts
      BY <2>1, StartSucceeds
    <3>2. pc' \in [Harts -> Addr] /\ a0' \in [Harts -> A0Values]
      BY <1>1, <1>7, <2>1, <3>1 DEF HartStart
    <3>3. /\ halted' \in [Harts -> BOOLEAN]
          /\ halt_reason' \in [Harts -> Reasons]
          /\ hsm_state' \in [Harts -> {"STARTED", "STOPPED"}]
      BY <1>7, <2>1, <3>1 DEF HartStart, Reasons
    <3> QED BY <1>7, <3>2, <3>3 DEF HartStart
  <2>2. CASE StartError(t) # SBI_SUCCESS
    <3>1. StartError(t) \in A0Values
      BY DEF StartError
    <3> QED BY <1>1, <1>7, <2>2, <3>1 DEF HartStart, Advance
  <2> QED BY <2>1, <2>2
<1>8. CASE HartStop(h)
  BY <1>8 DEF HartStop, Reasons
<1>9. ASSUME NEW t \in HartIds, HartGetStatus(h, t)
      PROVE  HartTypeOK'
  BY <1>1, <1>9 DEF HartGetStatus, Advance
<1>10. ASSUME NEW resume \in Addr, HartSuspend(h, resume)
       PROVE  HartTypeOK'
  BY <1>10 DEF HartSuspend, Reasons
<1>11. CASE FinisherWrite(h)
  BY <1>1, <1>11 DEF FinisherWrite, Advance
<1> QED BY <1>2, <1>3, <1>4, <1>5, <1>6, <1>7, <1>8, <1>9, <1>10, <1>11 DEF CpuStep

\* One scheduler slot steps the hart at the cursor or leaves every hart alone.
LEMMA SlotHarts ==
    ASSUME TypeOK, Slot
    PROVE  HartTypeOK'
<1>1. HartTypeOK /\ sched \in Harts
  BY DEF TypeOK, HartTypeOK
<1>2. CASE UNCHANGED <<hartVars, platVars>>
  BY <1>1, <1>2 DEF HartTypeOK, hartVars, platVars
<1>3. CASE CpuStep(sched)
  BY <1>1, <1>3, CpuStepType
<1> QED BY <1>2, <1>3 DEF Slot

\* One scheduler slot preserves the types of everything but the call state.
LEMMA SlotType ==
    ASSUME TypeOK, Slot, call' \in {"idle", "run"}, cap' \in Caps \cup {0},
           steps' \in 0 .. cap'
    PROVE  TypeOK'
<1>1. HartTypeOK'
  BY SlotHarts
<1>2. m_halted' \in BOOLEAN /\ m_reason' \in Reasons /\ m_exit' \in ExitCodes
  <2>1. Spokesman(halt_reason') \in Harts
    BY SpokesmanProps
  <2>2. PollHalt
    BY DEF Slot
  <2>3. /\ halt_reason'[Spokesman(halt_reason')] \in Reasons
        /\ exit_code'[Spokesman(halt_reason')] \in ExitCodes
        /\ poweroff_code' \in ExitCodes
    BY <1>1, <2>1 DEF HartTypeOK
  <2>4. m_halted \in BOOLEAN /\ m_reason \in Reasons /\ m_exit \in ExitCodes
    BY DEF TypeOK
  <2>5. CASE poweroff'
    BY <2>2, <2>3, <2>5 DEF PollHalt, Reasons
  <2>6. CASE ~poweroff' /\ \A h \in Harts : halted'[h]
    BY <2>2, <2>3, <2>6 DEF PollHalt
  <2>7. CASE ~poweroff' /\ ~\A h \in Harts : halted'[h]
    BY <2>2, <2>4, <2>7 DEF PollHalt, haltVars
  <2> QED BY <2>5, <2>6, <2>7
<1>3. sched' \in Harts
  BY NHartsAssumption DEF Slot, TypeOK, Harts
<1>4. mtime' \in 0 .. TimeWrap - 1 /\ served' \in [Harts -> 0 .. TimeWrap - 1]
  BY StepValues DEF Slot, PlatTick, TypeOK
<1> QED BY <1>1, <1>2, <1>3, <1>4 DEF TypeOK, HartTypeOK

\* Type correctness of the machine: every variable of the engine keeps its type
\* and HSM only ever reports STARTED or STOPPED, on any number of harts.
THEOREM TypeCorrect == Spec => []TypeOK
<1>1. Init => TypeOK
  <2> SUFFICES ASSUME Init PROVE TypeOK
    OBVIOUS
  <2>1. /\ pc \in [Harts -> Addr] /\ a0 \in [Harts -> A0Values]
        /\ halted \in [Harts -> BOOLEAN] /\ halt_reason \in [Harts -> Reasons]
        /\ exit_code \in [Harts -> ExitCodes]
        /\ hsm_state \in [Harts -> {"STARTED", "STOPPED"}]
        /\ served \in [Harts -> 0 .. TimeWrap - 1]
    BY StepValues DEF Init, Reasons
  <2>2. /\ sched \in Harts /\ mtime \in 0 .. TimeWrap - 1
        /\ poweroff_code \in ExitCodes /\ m_exit \in ExitCodes
        /\ cap \in Caps \cup {0} /\ steps \in 0 .. cap
    BY StepValues DEF Init
  <2>3. /\ poweroff \in BOOLEAN /\ m_halted \in BOOLEAN
        /\ m_reason \in Reasons /\ call \in {"idle", "run"}
    BY Zenon DEF Init, Reasons
  <2> QED BY <2>1, <2>2, <2>3 DEF TypeOK
<1>2. TypeOK /\ [Next]_vars => TypeOK'
  <2> SUFFICES ASSUME TypeOK, [Next]_vars PROVE TypeOK'
    OBVIOUS
  <2>1. CASE QuantaStep
    BY <2>1, SlotType DEF QuantaStep, callVars, TypeOK
  <2>2. CASE RunEnter
    BY <2>2, CapsAssumption
    DEF RunEnter, TypeOK, hartVars, platVars, haltVars, slotVars
  <2>3. CASE RunIterate
    <3>1. cap \in Nat /\ steps' \in 0 .. cap
      BY <2>3, CapsAssumption DEF RunIterate, TypeOK
    <3> QED BY <2>3, <3>1, SlotType DEF RunIterate, TypeOK
  <2>4. CASE RunReturn
    BY <2>4 DEF RunReturn, TypeOK, hartVars, platVars, haltVars, slotVars
  <2>5. CASE UNCHANGED vars
    BY <2>5 DEF TypeOK, vars, hartVars, platVars, haltVars, callVars, slotVars
  <2> QED BY <2>1, <2>2, <2>3, <2>4, <2>5 DEF Next
<1> QED BY <1>1, <1>2, PTL DEF Spec

-----------------------------------------------------------------------------
(* Safety.                                                                  *)

\* Steps of Next that are not a scheduler slot change no hart, device or halt
\* state and no clock.
LEMMA NextCases ==
    ASSUME [Next]_vars
    PROVE  Slot \/ UNCHANGED <<hartVars, platVars, haltVars, slotVars>>
BY DEF Next, QuantaStep, RunEnter, RunIterate, RunReturn, vars

\* A cpu_step of a running hart keeps HSM state, halt flag and reason coherent.
LEMMA CpuStepHsm ==
    ASSUME HartTypeOK, HsmCoherent, NEW h \in Harts, ~halted[h], CpuStep(h)
    PROVE  HsmCoherent'
<1> USE DEF HartTypeOK, HsmCoherent
<1>2. CASE Execute(h)
  BY <1>2 DEF Execute
<1>3. CASE SysExit(h)
  BY <1>3 DEF SysExit, Stop
<1>4. CASE LegacyTrap(h)
  <2>1. hsm_state[h] # "STOPPED"
    OBVIOUS
  <2>2. PICK cause \in Causes : Stop(h, LegacyReason(cause), exit_code[h])
    BY <1>4 DEF LegacyTrap
  <2>3. LegacyReason(cause) # "NONE"
    BY LegacyReasonType
  <2> QED BY <1>4, <2>1, <2>2, <2>3 DEF LegacyTrap, Stop
<1>5. CASE SystemReset(h)
  BY <1>5 DEF SystemReset, Stop
<1>6. CASE SbiAnswer(h)
  BY <1>6 DEF SbiAnswer
<1>7. ASSUME NEW t \in HartIds, NEW start \in Addr, HartStart(h, t, start)
      PROVE  HsmCoherent'
  <2>1. CASE StartError(t) = SBI_SUCCESS
    BY <1>7, <2>1, StartSucceeds DEF HartStart
  <2>2. CASE StartError(t) # SBI_SUCCESS
    BY <1>7, <2>2 DEF HartStart
  <2> QED BY <2>1, <2>2
<1>8. CASE HartStop(h)
  BY <1>8 DEF HartStop
<1>9. ASSUME NEW t \in HartIds, HartGetStatus(h, t)
      PROVE  HsmCoherent'
  BY <1>9 DEF HartGetStatus
<1>10. ASSUME NEW resume \in Addr, HartSuspend(h, resume)
       PROVE  HsmCoherent'
  BY <1>10 DEF HartSuspend
<1>11. CASE FinisherWrite(h)
  BY <1>11 DEF FinisherWrite
<1> QED BY <1>2, <1>3, <1>4, <1>5, <1>6, <1>7, <1>8, <1>9, <1>10, <1>11 DEF CpuStep

\* A hart HSM reports STOPPED is parked with a clean reason, and a hart has a
\* halt reason exactly while it is halted, on any number of harts.
THEOREM HsmCorrect == Spec => []HsmCoherent
<1>1. Init => HsmCoherent
  BY DEF Init, HsmCoherent
<1>2. TypeOK /\ HsmCoherent /\ [Next]_vars => HsmCoherent'
  <2> SUFFICES ASSUME TypeOK, HsmCoherent, [Next]_vars PROVE HsmCoherent'
    OBVIOUS
  <2>1. CASE Slot
    <3>1. HartTypeOK /\ sched \in Harts
      BY DEF TypeOK, HartTypeOK
    <3>2. CASE ~halted[sched] /\ CpuStep(sched)
      BY <3>1, <3>2, CpuStepHsm
    <3>3. CASE UNCHANGED <<hartVars, platVars>>
      BY <3>3 DEF HsmCoherent, hartVars
    <3> QED BY <2>1, <3>2, <3>3 DEF Slot
  <2>2. CASE UNCHANGED <<hartVars, platVars, haltVars, slotVars>>
    BY <2>2 DEF HsmCoherent, hartVars
  <2> QED BY <2>1, <2>2, NextCases
<1> QED BY <1>1, <1>2, TypeCorrect, PTL DEF Spec

\* The machine is stopped exactly when it is powered off or every hart is halted,
\* on any number of harts.
THEOREM HaltCorrect == Spec => []HaltConsistent
<1>1. Init => HaltConsistent
  <2> SUFFICES ASSUME Init PROVE HaltConsistent
    OBVIOUS
  <2>1. ~m_halted /\ ~poweroff /\ ~halted[0]
    BY StepValues DEF Init
  <2> QED BY <2>1, StepValues DEF HaltConsistent
<1>2. TypeOK /\ HaltConsistent /\ [Next]_vars => HaltConsistent'
  <2> SUFFICES ASSUME TypeOK, HaltConsistent, [Next]_vars PROVE HaltConsistent'
    OBVIOUS
  <2>1. CASE Slot
    BY <2>1 DEF Slot, PollHalt, haltVars, HaltConsistent
  <2>2. CASE UNCHANGED <<hartVars, platVars, haltVars, slotVars>>
    BY <2>2 DEF HaltConsistent, hartVars, platVars, haltVars
  <2> QED BY <2>1, <2>2, NextCases
<1> QED BY <1>1, <1>2, TypeCorrect, PTL DEF Spec

\* A fault of any hart is what the machine reports when it stops without a
\* power-off, on any number of harts and in whatever order they stopped.
THEOREM CrashCorrect == Spec => []CrashSurfaced
<1>1. Init => CrashSurfaced
  BY DEF Init, CrashSurfaced
<1>2. TypeOK /\ CrashSurfaced /\ [Next]_vars => CrashSurfaced'
  <2> SUFFICES ASSUME TypeOK, CrashSurfaced, [Next]_vars PROVE CrashSurfaced'
    OBVIOUS
  <2>1. CASE Slot
    <3> SUFFICES ASSUME m_halted', ~poweroff',
                        NEW g \in Harts, halt_reason'[g] # "EXIT"
                 PROVE  \E h \in Harts : /\ halt_reason'[h] # "EXIT"
                                         /\ m_reason' = halt_reason'[h]
      BY DEF CrashSurfaced
    <3>1. m_reason' = halt_reason'[Spokesman(halt_reason')]
      BY <2>1 DEF Slot, PollHalt, haltVars
    <3>2. /\ Spokesman(halt_reason') \in Harts
          /\ halt_reason'[Spokesman(halt_reason')] # "EXIT"
      BY SpokesmanProps
    <3> QED BY <3>1, <3>2
  <2>2. CASE UNCHANGED <<hartVars, platVars, haltVars, slotVars>>
    BY <2>2 DEF CrashSurfaced, hartVars, platVars, haltVars
  <2> QED BY <2>1, <2>2, NextCases
<1> QED BY <1>1, <1>2, TypeCorrect, PTL DEF Spec

\* Every hart has had as many slots as mtime has had ticks, up to the round in
\* progress, on any number of harts and for any width of the clock.
THEOREM FairCorrect == Spec => []FairShare
<1>1. Init => FairShare
  BY DEF Init, FairShare
<1>2. TypeOK /\ FairShare /\ [Next]_vars => FairShare'
  <2> SUFFICES ASSUME TypeOK, FairShare, [Next]_vars PROVE FairShare'
    OBVIOUS
  <2>1. CASE Slot
    <3> SUFFICES ASSUME NEW h \in Harts
                 PROVE  IF sched' = 0 \/ h < sched' THEN served'[h] = mtime'
                        ELSE (served'[h] + 1) % TimeWrap = mtime'
      BY DEF FairShare
    <3>1. /\ sched \in Harts /\ served \in [Harts -> 0 .. TimeWrap - 1]
          /\ mtime' = IF sched = 0 THEN (mtime + 1) % TimeWrap ELSE mtime
          /\ sched' = IF sched + 1 >= NHarts THEN 0 ELSE sched + 1
          /\ served' = [served EXCEPT ![sched] = (served[sched] + 1) % TimeWrap]
      BY <2>1 DEF TypeOK, Slot, PlatTick
    <3>2. IF sched = 0 \/ h < sched THEN served[h] = mtime
          ELSE (served[h] + 1) % TimeWrap = mtime
      BY DEF FairShare
    <3>3. CASE h = sched
      BY <3>1, <3>2, <3>3, NHartsAssumption DEF Harts
    <3>4. CASE h # sched
      <4>1. served'[h] = served[h]
        BY <3>1, <3>4
      <4> QED BY <3>1, <3>2, <3>4, <4>1, NHartsAssumption DEF Harts
    <3> QED BY <3>3, <3>4
  <2>2. CASE UNCHANGED <<hartVars, platVars, haltVars, slotVars>>
    BY <2>2 DEF FairShare, slotVars
  <2> QED BY <2>1, <2>2, NextCases
<1> QED BY <1>1, <1>2, TypeCorrect, PTL DEF Spec

\* What one slot may do to a hart that is not at the cursor.
WokenByStart(t) ==
    /\ hsm_state[t] = "STOPPED" /\ hsm_state'[t] = "STARTED"
    /\ ~halted'[t] /\ a0'[t] = t /\ a0'[sched] = SBI_SUCCESS

\* A cpu_step of hart sched leaves each other hart as it was, or wakes it.
LEMMA CpuStepSiblings ==
    ASSUME HartTypeOK, sched \in Harts, CpuStep(sched), NEW t \in Harts, t # sched
    PROVE  \/ WokenByStart(t)
           \/ /\ pc'[t] = pc[t] /\ a0'[t] = a0[t] /\ halted'[t] = halted[t]
              /\ halt_reason'[t] = halt_reason[t] /\ exit_code'[t] = exit_code[t]
              /\ hsm_state'[t] = hsm_state[t]
<1> DEFINE Same == /\ pc'[t] = pc[t] /\ a0'[t] = a0[t] /\ halted'[t] = halted[t]
                   /\ halt_reason'[t] = halt_reason[t] /\ exit_code'[t] = exit_code[t]
                   /\ hsm_state'[t] = hsm_state[t]
<1> USE DEF HartTypeOK, Advance
<1>2. CASE Execute(sched)
  BY <1>2 DEF Execute
<1>3. CASE SysExit(sched)
  BY <1>3 DEF SysExit, Stop
<1>4. CASE LegacyTrap(sched)
  BY <1>4 DEF LegacyTrap, Stop
<1>5. CASE SystemReset(sched)
  BY <1>5 DEF SystemReset, Stop
<1>6. CASE SbiAnswer(sched)
  BY <1>6 DEF SbiAnswer
<1>7. ASSUME NEW u \in HartIds, NEW start \in Addr, HartStart(sched, u, start)
      PROVE  WokenByStart(t) \/ Same
  <2>1. CASE StartError(u) = SBI_SUCCESS
    <3>1. u \in Harts /\ hsm_state[u] = "STOPPED"
      BY <2>1, StartSucceeds
    <3>2. CASE u = t
      BY <1>7, <2>1, <3>1, <3>2 DEF HartStart, WokenByStart
    <3>3. CASE u # t
      BY <1>7, <2>1, <3>1, <3>3 DEF HartStart
    <3> QED BY <3>2, <3>3
  <2>2. CASE StartError(u) # SBI_SUCCESS
    BY <1>7, <2>2 DEF HartStart
  <2> QED BY <2>1, <2>2
<1>8. CASE HartStop(sched)
  BY <1>8 DEF HartStop
<1>9. ASSUME NEW u \in HartIds, HartGetStatus(sched, u)
      PROVE  Same
  BY <1>9 DEF HartGetStatus
<1>10. ASSUME NEW resume \in Addr, HartSuspend(sched, resume)
       PROVE  Same
  BY <1>10 DEF HartSuspend
<1>11. CASE FinisherWrite(sched)
  BY <1>11 DEF FinisherWrite
<1> QED BY <1>2, <1>3, <1>4, <1>5, <1>6, <1>7, <1>8, <1>9, <1>10, <1>11 DEF CpuStep

\* No step of one hart disturbs another, except hart_start waking a STOPPED one:
\* a hart that exited or faulted stays down for good, on any number of harts.
THEOREM SiblingsCorrect == Spec => SiblingsOnlyWoken
<1> DEFINE
      Step == \A t \in Harts \ {sched} :
          <<pc[t], a0[t], halted[t], halt_reason[t], exit_code[t], hsm_state[t]>>'
            # <<pc[t], a0[t], halted[t], halt_reason[t], exit_code[t], hsm_state[t]>>
          => /\ hsm_state[t] = "STOPPED" /\ hsm_state'[t] = "STARTED"
             /\ ~halted'[t] /\ a0'[t] = t /\ a0'[sched] = SBI_SUCCESS
<1>1. TypeOK /\ [Next]_vars => [Step]_vars
  <2> SUFFICES ASSUME TypeOK, [Next]_vars PROVE Step
    OBVIOUS
  <2>1. CASE Slot
    <3>1. HartTypeOK /\ sched \in Harts
      BY DEF TypeOK, HartTypeOK
    <3>2. CASE CpuStep(sched)
      BY <3>1, <3>2, CpuStepSiblings DEF WokenByStart
    <3>3. CASE UNCHANGED <<hartVars, platVars>>
      BY <3>3 DEF hartVars
    <3> QED BY <2>1, <3>2, <3>3 DEF Slot
  <2>2. CASE UNCHANGED <<hartVars, platVars, haltVars, slotVars>>
    BY <2>2 DEF hartVars
  <2> QED BY <2>1, <2>2, NextCases
<1> QED BY <1>1, TypeCorrect, PTL DEF Spec, SiblingsOnlyWoken
=============================================================================
