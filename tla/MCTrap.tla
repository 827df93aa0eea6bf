------------------------------- MODULE MCTrap -------------------------------
(* Small instances of Trap for TLC.                                          *)
EXTENDS Trap

\* A device line and a relayed timer, both M-level until the timer is delegated.
MCIrqs    == {IRQ_SEXT, IRQ_STIMER}
MCMideleg == {{IRQ_STIMER}}
MCMedeleg == {{2, CAUSE_ECALL_U}}
=============================================================================
