------------------------------- MODULE MCGdb -------------------------------
(***************************************************************************)
(* Small programs, and what their host or their debugger may do to them.   *)
(***************************************************************************)
EXTENDS Gdb

\* A loop that counts in memory, and two harts that share it.
Count == <<"inc", "store", "back", "exit">>
Race  == <<"load", "inc", "store", "exit">>
\* Overwrites cell 2 (Patched) after running it, with and without the fence that
\* makes the change visible.
Smc   == <<"inc", "store", "patch", "fence", "back", "ebreak">>
Unfenced == <<"inc", "store", "patch", "back", "exit">>
Disk  == <<"inc", "write", "read", "time", "exit">>

Base == [code |-> Count, nharts |-> 1, image |-> <<0>>, calls |-> 0, cmds |-> 0,
         menu |-> {}, faults |-> 0, ints |-> 0, closes |-> FALSE, oom |-> {}]

One(names) == {<<n, 0>> : n \in names}
Moves == One({"s", "c", "bs", "bc"})

MCBoots ==
    {\* the host's own calls
     [Base EXCEPT !.code = Disk, !.calls = 6],
     [Base EXCEPT !.code = Race, !.nharts = 2, !.calls = 6],
     \* forward and back, with breakpoints
     [Base EXCEPT !.cmds = 7, !.menu = Moves \cup {<<"Z", 2>>, <<"z", 2>>}],
     [Base EXCEPT !.cmds = 6, !.menu = Moves \cup {<<"Z", 2>>, <<"Z", 3>>}, !.oom = {2}],
     [Base EXCEPT !.cmds = 5, !.menu = Moves \cup {<<"Z", 2>>}, !.oom = {1}],
     [Base EXCEPT !.code = Race, !.nharts = 2, !.cmds = 7, !.menu = Moves \cup {<<"Z", 3>>}],
     [Base EXCEPT !.code = Smc, !.cmds = 7, !.menu = Moves \cup {<<"Z", 4>>}],
     [Base EXCEPT !.code = Unfenced, !.cmds = 6, !.menu = Moves],
     [Base EXCEPT !.code = Disk, !.calls = 1, !.cmds = 6, !.menu = Moves],
     \* edits
     [Base EXCEPT !.cmds = 5, !.menu = Moves \cup One({"P", "M", "Gbad"}) \cup {<<"G", 1>>}],
     [Base EXCEPT !.code = Smc, !.cmds = 5,
                  !.menu = Moves \cup One({"Mcode"}) \cup {<<"c@", 1>>, <<"s@", 1>>}],
     \* the connection
     [Base EXCEPT !.cmds = 3, !.faults = 2, !.menu = One({"s", "c", "bs", "D", "k", "Pbad"})],
     [Base EXCEPT !.cmds = 3, !.ints = 2, !.closes = TRUE, !.menu = One({"c", "?", "g"})],
     [Base EXCEPT !.cmds = 2, !.ints = 1, !.faults = 5, !.menu = One({"c", "bs"})],
     [Base EXCEPT !.cmds = 3, !.ints = 2, !.faults = 2, !.menu = One({"c", "bs"})]}
=============================================================================
