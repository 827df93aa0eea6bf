------------------------------ MODULE MCMachine ------------------------------
(* Small instances of Machine for TLC.                                        *)
EXTENDS Machine

\* Two causes, with different halt reasons.
MCFewCauses == {"BREAKPOINT", "LOAD_ACCESS"}
=============================================================================
