------------------------------ MODULE Machine ------------------------------
(***************************************************************************)
(* The Quanta machine as its host sees it: NHarts harts that share one      *)
(* platform, interleaved one instruction at a time by a round-robin cursor, *)
(* the built-in firmware (SBI system reset and hart state management, HSM)  *)
(* and system-call layer a hart reaches when no guest handler is installed, *)
(* the power-off device, and the machine-level halt poll after every slot.  *)
(* The host drives it with quanta_step (one slot) or quanta_run (slots      *)
(* until the machine halts or a cap of instructions is reached).            *)
(*                                                                          *)
(* Addresses count instructions: pc + 1 stands for pc + 4, modulo the       *)
(* width AddrSpace.  mtime and the history variable served are modulo       *)
(* TimeWrap.  Register a0 is kept only as the SBI writes it.                *)
(***************************************************************************)
EXTENDS Integers, FiniteSets

CONSTANTS
    NHarts,     \* q->nharts, 1 .. QUANTA_MAX_HARTS
    AddrSpace,  \* number of distinct instruction addresses
    TimeWrap,   \* the width of mtime: 2^64 in the code
    ExitCodes,  \* statuses a guest may exit or power off with
    Causes,     \* exception causes a guest may raise with no handler installed
    Caps        \* instruction caps the host may pass to quanta_run

ASSUME NHartsAssumption    == NHarts \in Nat \ {0}
ASSUME AddrSpaceAssumption == AddrSpace \in Nat \ {0}
ASSUME TimeWrapAssumption  == TimeWrap \in Nat \ {0}
ASSUME ExitCodesAssumption == ExitCodes \subseteq Nat /\ 0 \in ExitCodes
ASSUME CapsAssumption      == Caps \subseteq Nat \ {0}

VARIABLES
    pc,            \* harts[h].pc
    a0,            \* harts[h].regs[REG_A0], as written by the SBI
    halted,        \* harts[h].halted
    halt_reason,   \* harts[h].halt_reason
    exit_code,     \* harts[h].exit_code
    hsm_state,     \* harts[h].hsm_state
    sched,         \* the round-robin cursor
    mtime,         \* plat.clint.mtime
    poweroff,      \* plat.poweroff
    poweroff_code, \* plat.poweroff_code
    m_halted,      \* the whole machine has stopped
    m_reason,
    m_exit,
    call,          \* which engine call the host is in: "idle" or "run"
    cap,           \* quanta_run's cap
    steps,         \* quanta_run's instruction count
    served         \* history: slots each hart has had, modulo TimeWrap

hartVars == <<pc, a0, halted, halt_reason, exit_code, hsm_state>>
platVars == <<poweroff, poweroff_code>>
haltVars == <<m_halted, m_reason, m_exit>>
callVars == <<call, cap, steps>>
slotVars == <<sched, mtime, served>>
vars     == <<hartVars, platVars, haltVars, callVars, slotVars>>

Harts   == 0 .. NHarts - 1
HartIds == 0 .. NHarts      \* what a guest may name: one id is out of range
Addr    == 0 .. AddrSpace - 1

Reasons == {"NONE", "EXIT", "EBREAK", "ILLEGAL_INSN", "UNKNOWN_SYSCALL", "MEM_FAULT"}

SBI_SUCCESS               == 0
SBI_ERR_FAILED            == -1
SBI_ERR_NOT_SUPPORTED     == -2
SBI_ERR_INVALID_PARAM     == -3
SBI_ERR_ALREADY_AVAILABLE == -6
A0Values == {SBI_ERR_FAILED, SBI_ERR_NOT_SUPPORTED, SBI_ERR_INVALID_PARAM,
             SBI_ERR_ALREADY_AVAILABLE} \cup Harts

FallThrough(h) == (pc[h] + 1) % AddrSpace

Advance(h) == pc' = [pc EXCEPT ![h] = FallThrough(h)]

\* start_at: every hart at the entry point, STARTED and running; devices reset.
Init ==
    /\ pc = [h \in Harts |-> 0]
    /\ a0 = [h \in Harts |-> 0]
    /\ halted = [h \in Harts |-> FALSE]
    /\ halt_reason = [h \in Harts |-> "NONE"]
    /\ exit_code = [h \in Harts |-> 0]
    /\ hsm_state = [h \in Harts |-> "STARTED"]
    /\ sched = 0 /\ mtime = 0
    /\ poweroff = FALSE /\ poweroff_code = 0
    /\ m_halted = FALSE /\ m_reason = "NONE" /\ m_exit = 0
    /\ call = "idle" /\ cap = 0 /\ steps = 0
    /\ served = [h \in Harts |-> 0]

-----------------------------------------------------------------------------
(* What one cpu_step of a running hart h does.                              *)

\* An instruction that retires or traps to a guest handler (an interrupt or an
\* exception the guest handles): it only moves the hart's pc.
Execute(h) ==
    /\ \E target \in Addr : pc' = [pc EXCEPT ![h] = target]
    /\ UNCHANGED <<a0, halted, halt_reason, exit_code, hsm_state, platVars>>

Stop(h, reason, code) ==
    /\ halted' = [halted EXCEPT ![h] = TRUE]
    /\ halt_reason' = [halt_reason EXCEPT ![h] = reason]
    /\ exit_code' = [exit_code EXCEPT ![h] = code]

\* exit / exit_group from a bare U- or M-mode program.
SysExit(h) ==
    /\ \E code \in ExitCodes : Stop(h, "EXIT", code)
    /\ UNCHANGED <<pc, a0, hsm_state, platVars>>

\* The halt reason legacy_trap and syscall_dispatch record for a cause.
LegacyReason(cause) ==
    CASE cause = "UNKNOWN_SYSCALL" -> "UNKNOWN_SYSCALL"
      [] cause = "BREAKPOINT"      -> "EBREAK"
      [] cause \in {"INSN_MISALIGNED", "INSN_ACCESS", "LOAD_MISALIGNED",
                    "LOAD_ACCESS", "STORE_MISALIGNED", "STORE_ACCESS"} -> "MEM_FAULT"
      [] OTHER                     -> "ILLEGAL_INSN"

\* A trap with no handler installed, other than a serviced environment call.
LegacyTrap(h) ==
    /\ \E cause \in Causes : Stop(h, LegacyReason(cause), exit_code[h])
    /\ UNCHANGED <<pc, a0, hsm_state, platVars>>

\* SBI legacy shutdown, and SRST system_reset of any valid type.
SystemReset(h) ==
    /\ Stop(h, "EXIT", 0)
    /\ UNCHANGED <<pc, a0, hsm_state, platVars>>

\* An SBI call answered with an error or value only (base, an unknown
\* extension or function, an invalid reset or suspend type).
SbiAnswer(h) ==
    /\ \E error \in {SBI_SUCCESS, SBI_ERR_NOT_SUPPORTED, SBI_ERR_INVALID_PARAM} :
           a0' = [a0 EXCEPT ![h] = error]
    /\ Advance(h)
    /\ UNCHANGED <<halted, halt_reason, exit_code, hsm_state, platVars>>

\* hsm_hart: the id names a hart of the machine.
ValidHart(t) == t \in Harts

\* Mutant: hart_start wakes any hart of the machine.
StartErrorUnchecked(t) == IF ValidHart(t) THEN SBI_SUCCESS ELSE SBI_ERR_INVALID_PARAM

\* hart_start's answer for a target.
StartError(t) ==
    IF ~ValidHart(t) THEN SBI_ERR_INVALID_PARAM
    ELSE IF hsm_state[t] = "STARTED" THEN SBI_ERR_ALREADY_AVAILABLE
    ELSE IF hsm_state[t] # "STOPPED" THEN SBI_ERR_FAILED
    ELSE SBI_SUCCESS

\* hart_start of t by h: hsm_enter on t, then h falls through with the verdict.
HartStart(h, t, start) ==
    /\ IF StartError(t) = SBI_SUCCESS
       THEN /\ pc' = [pc EXCEPT ![t] = start, ![h] = FallThrough(h)]
            /\ a0' = [a0 EXCEPT ![t] = t, ![h] = SBI_SUCCESS]
            /\ hsm_state' = [hsm_state EXCEPT ![t] = "STARTED"]
            /\ halt_reason' = [halt_reason EXCEPT ![t] = "NONE"]
            /\ halted' = [halted EXCEPT ![t] = FALSE]
       ELSE /\ a0' = [a0 EXCEPT ![h] = StartError(t)]
            /\ Advance(h)
            /\ UNCHANGED <<halted, halt_reason, hsm_state>>
    /\ UNCHANGED <<exit_code, platVars>>

\* Mutant: hart_stop records the state but leaves the hart scheduled.
HartStopKeepsRunning(h) ==
    /\ hsm_state' = [hsm_state EXCEPT ![h] = "STOPPED"]
    /\ Advance(h)
    /\ UNCHANGED <<a0, halted, halt_reason, exit_code, platVars>>

\* hart_stop: the calling hart parks.
HartStop(h) ==
    /\ hsm_state' = [hsm_state EXCEPT ![h] = "STOPPED"]
    /\ halt_reason' = [halt_reason EXCEPT ![h] = "EXIT"]
    /\ halted' = [halted EXCEPT ![h] = TRUE]
    /\ UNCHANGED <<pc, a0, exit_code, platVars>>

\* hart_get_status: only the verdict is kept (the state goes to a1).
HartGetStatus(h, t) ==
    /\ a0' = [a0 EXCEPT ![h] = IF ValidHart(t) THEN SBI_SUCCESS
                                               ELSE SBI_ERR_INVALID_PARAM]
    /\ Advance(h)
    /\ UNCHANGED <<halted, halt_reason, exit_code, hsm_state, platVars>>

\* Non-retentive hart_suspend: hsm_enter on the caller writes resume into its
\* own pc, and exec_system then returns pc + 4 as the next pc, which commits.
HartSuspend(h, resume) ==
    /\ pc' = [pc EXCEPT ![h] = (resume + 1) % AddrSpace]
    /\ a0' = [a0 EXCEPT ![h] = h]
    /\ hsm_state' = [hsm_state EXCEPT ![h] = "STARTED"]
    /\ halt_reason' = [halt_reason EXCEPT ![h] = "NONE"]
    /\ halted' = [halted EXCEPT ![h] = FALSE]
    /\ UNCHANGED <<exit_code, platVars>>

\* A store of PASS, RESET or FAIL to the test finisher.
FinisherWrite(h) ==
    /\ poweroff' = TRUE
    /\ poweroff_code' \in ExitCodes
    /\ Advance(h)
    /\ UNCHANGED <<a0, halted, halt_reason, exit_code, hsm_state>>

CpuStep(h) ==
    \/ Execute(h)
    \/ SysExit(h)
    \/ LegacyTrap(h)
    \/ SystemReset(h)
    \/ SbiAnswer(h)
    \/ \E t \in HartIds, start \in Addr : HartStart(h, t, start)
    \/ HartStop(h)
    \/ \E t \in HartIds : HartGetStatus(h, t)
    \/ \E resume \in Addr : HartSuspend(h, resume)
    \/ FinisherWrite(h)

-----------------------------------------------------------------------------
(* The engine.                                                              *)

\* Mutant: the boot hart always speaks for the machine.
SpokesmanBootHart(reason) == 0

\* machine_poll_halt's choice among halted harts: the first abnormal one, else
\* the boot hart.
Spokesman(reason) ==
    LET abnormal == {h \in Harts : reason[h] # "EXIT"}
    IN  IF abnormal = {} THEN 0
        ELSE CHOOSE h \in abnormal : \A g \in abnormal : h <= g

\* Mutant: only a power-off stops the machine.
PollHaltPoweroffOnly ==
    IF poweroff'
    THEN m_halted' = TRUE /\ m_reason' = "EXIT" /\ m_exit' = poweroff_code'
    ELSE UNCHANGED haltVars

\* Mutant: the machine stops with the boot hart.
PollHaltBootHart ==
    IF poweroff'
    THEN m_halted' = TRUE /\ m_reason' = "EXIT" /\ m_exit' = poweroff_code'
    ELSE IF halted'[0]
    THEN m_halted' = TRUE /\ m_reason' = halt_reason'[0] /\ m_exit' = exit_code'[0]
    ELSE UNCHANGED haltVars

\* machine_poll_halt, on the state the step has just produced.
PollHalt ==
    IF poweroff'
    THEN m_halted' = TRUE /\ m_reason' = "EXIT" /\ m_exit' = poweroff_code'
    ELSE IF \A h \in Harts : halted'[h]
    THEN /\ m_halted' = TRUE
         /\ m_reason' = halt_reason'[Spokesman(halt_reason')]
         /\ m_exit' = exit_code'[Spokesman(halt_reason')]
    ELSE UNCHANGED haltVars

\* Mutant: the clock advances on every slot.
PlatTickEverySlot == mtime' = (mtime + 1) % TimeWrap

\* plat_tick at the start of a round.
PlatTick == mtime' = IF sched = 0 THEN (mtime + 1) % TimeWrap ELSE mtime

\* One scheduler slot: tick, step the hart at the cursor unless it is halted,
\* advance the cursor, poll.
Slot ==
    /\ ~m_halted
    /\ PlatTick
    /\ \/ halted[sched] /\ UNCHANGED <<hartVars, platVars>>
       \/ ~halted[sched] /\ CpuStep(sched)
    /\ sched' = IF sched + 1 >= NHarts THEN 0 ELSE sched + 1
    /\ served' = [served EXCEPT ![sched] = (@ + 1) % TimeWrap]
    /\ PollHalt

\* quanta_step, called by the trace loop and the debugger.
QuantaStep ==
    /\ call = "idle"
    /\ Slot
    /\ UNCHANGED callVars

\* quanta_run: entry, one iteration of its loop, and return.
RunEnter ==
    /\ call = "idle"
    /\ call' = "run" /\ cap' \in Caps /\ steps' = 0
    /\ UNCHANGED <<hartVars, platVars, haltVars, slotVars>>

RunIterate ==
    /\ call = "run" /\ steps < cap
    /\ Slot
    /\ steps' = IF halted[sched] THEN steps ELSE steps + 1
    /\ UNCHANGED <<call, cap>>

RunReturn ==
    /\ call = "run"
    /\ m_halted \/ steps >= cap
    /\ call' = "idle" /\ cap' = 0 /\ steps' = 0
    /\ UNCHANGED <<hartVars, platVars, haltVars, slotVars>>

Next == QuantaStep \/ RunEnter \/ RunIterate \/ RunReturn

Spec == Init /\ [][Next]_vars

\* The loop of quanta_run is straight-line host code: once entered, its next
\* iteration or its return is taken.  The host need not call the engine.
FairSpec == Spec /\ WF_vars(RunIterate \/ RunReturn)

-----------------------------------------------------------------------------
(* Properties.                                                              *)

\* Every variable has its C type's values, and HSM never leaves STARTED/STOPPED:
\* sbi_hsm assigns no other state of the HsmState enum.
TypeOK ==
    /\ pc \in [Harts -> Addr]
    /\ a0 \in [Harts -> A0Values]
    /\ halted \in [Harts -> BOOLEAN]
    /\ halt_reason \in [Harts -> Reasons]
    /\ exit_code \in [Harts -> ExitCodes]
    /\ hsm_state \in [Harts -> {"STARTED", "STOPPED"}]
    /\ sched \in Harts
    /\ mtime \in 0 .. TimeWrap - 1
    /\ poweroff \in BOOLEAN /\ poweroff_code \in ExitCodes
    /\ m_halted \in BOOLEAN /\ m_reason \in Reasons /\ m_exit \in ExitCodes
    /\ call \in {"idle", "run"} /\ cap \in Caps \cup {0} /\ steps \in 0 .. cap
    /\ served \in [Harts -> 0 .. TimeWrap - 1]

\* machine_poll_halt: between slots the machine counts as stopped exactly when
\* it was powered off or no hart can run, whichever hart, firmware call or
\* device write made it so, and whatever hart_start woke in the meantime.
HaltConsistent == m_halted <=> (poweroff \/ \A h \in Harts : halted[h])

\* quanta_step's round-robin: every hart has had the same number of slots as
\* mtime has had ticks, up to the round in progress, so the clock runs at one
\* rate whatever the hart count and no hart, halted or not, loses or gains a turn.
FairShare ==
    \A h \in Harts :
        IF sched = 0 \/ h < sched THEN served[h] = mtime
        ELSE (served[h] + 1) % TimeWrap = mtime

\* machine_poll_halt: a machine that stopped without a power-off after some hart
\* faulted reports a fault some hart really had, never a sibling's clean stop.
CrashSurfaced ==
    m_halted /\ ~poweroff =>
        LET abnormal == {h \in Harts : halt_reason[h] # "EXIT"}
        IN  abnormal # {} => \E h \in abnormal : m_reason = halt_reason[h]

\* HSM against the halt flags: a hart the firmware reports STOPPED is parked
\* cleanly, and a hart has a halt reason exactly while it is halted, through
\* every sequence of stop, start and suspend.
HsmCoherent ==
    \A h \in Harts :
        /\ hsm_state[h] = "STOPPED" => halted[h] /\ halt_reason[h] = "EXIT"
        /\ halted[h] <=> halt_reason[h] # "NONE"

\* A slot touches a hart other than the one at the cursor only by waking it from
\* STOPPED with hart_start, which the caller sees as SUCCESS and the woken hart
\* as its own id in a0: a hart that exited or faulted never runs again.
SiblingsOnlyWoken ==
    [][\A t \in Harts \ {sched} :
          <<pc[t], a0[t], halted[t], halt_reason[t], exit_code[t], hsm_state[t]>>'
            # <<pc[t], a0[t], halted[t], halt_reason[t], exit_code[t], hsm_state[t]>>
          => /\ hsm_state[t] = "STOPPED" /\ hsm_state'[t] = "STARTED"
             /\ ~halted'[t] /\ a0'[t] = t /\ a0'[sched] = SBI_SUCCESS]_vars

\* quanta_run returns whatever the harts do: halted slots do not count towards
\* the cap, so this needs the poll to notice that no hart is left running.
RunReturns == call = "run" ~> call = "idle"

\* What sbi_halt and machine_poll_halt say of SBI shutdown and system_reset: the
\* machine stops (on every hart count).
ResetStopsMachine == [][Slot /\ ~halted[sched] /\ SystemReset(sched) => m_halted']_vars

\* What sbi_hsm and hsm_enter say of a non-retentive hart_suspend: the hart
\* continues at resume_addr.
SuspendResumesAtAddr ==
    [][\A resume \in Addr :
          Slot /\ ~halted[sched] /\ HartSuspend(sched, resume)
            => pc'[sched] = resume]_vars
=============================================================================
