------------------------------- MODULE MCJit -------------------------------
(***************************************************************************)
(* Every program of three instructions from two families, one about the    *)
(* clocks and one about changing code, closed by a jump back and a handler *)
(* that moves the comparator and returns, under several interrupt set-ups. *)
(***************************************************************************)
EXTENDS Jit

Clocks == {"inc", "rtime", "wcmp", "rinstret", "sbi", "stimer", "gates"}
Coding == {"store", "patch", "unpatch", "fencei", "far", "link", "branch"}
Ends   == {"bad", "wild", "load", "off", "loop", "inc"}

Machine(code, set) ==
    [code |-> code \o <<"loop", "wcmp", "ret">>, pc |-> 1, alias |-> 0, x |-> 0, ram |-> 0,
     instret |-> 0, mtime |-> 0, mtimecmp |-> 4, stimecmp |-> 4, stip |-> FALSE,
     armed |-> FALSE, stce |-> set.stce, enabled |-> set.enabled, mideleg |-> set.mideleg,
     priv |-> set.priv, mie |-> TRUE, sie |-> TRUE, tvec |-> set.tvec, line |-> FALSE,
     poweroff |-> FALSE, halted |-> FALSE, stopped |-> FALSE, cause |-> "none",
     saved |-> <<1, 0, "M", TRUE, TRUE>>]

Setup(enabled, mideleg, priv, stce, tvec) ==
    [enabled |-> enabled, mideleg |-> mideleg, priv |-> priv, stce |-> stce, tvec |-> tvec]

Setups == {Setup({"mti"}, {}, "M", FALSE, TRUE),
           Setup({"sti", "mei"}, {"sti"}, "S", FALSE, TRUE),
           Setup({"sti", "mti"}, {"sti"}, "S", TRUE, TRUE)}

Bare == Setup({}, {}, "M", FALSE, FALSE)

Boot(codes, sets, run, switch) ==
    {[machine |-> Machine(code, set), calls |-> [run |-> run, switch |-> switch]] :
        code \in codes, set \in sets}

MCBoots ==
    Boot([1..3 -> Clocks], Setups, 2, 0)
    \cup Boot([1..3 -> Coding], {Bare}, 2, 0)
    \cup Boot([1..3 -> Ends], Setups \cup {Bare}, 2, 0)
    \cup Boot([1..3 -> {"store", "patch", "fencei"}], {Bare}, 3, 2)
=============================================================================
