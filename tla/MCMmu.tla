------------------------------- MODULE MCMmu -------------------------------
(* Small page tables for Mmu: two tables of two entries, four pages.       *)
EXTENDS Mmu, TLC

P(ppn, flags) == [ppn |-> ppn, flags |-> flags]

(* A root with a table and a superpage below it.  The table maps a user    *)
(* page and an execute-only supervisor page.                               *)
Mapped ==
    (0 :> (0 :> P(1, {"V"}) @@ 1 :> P(2, {"V", "R", "W", "U"}))) @@
    (1 :> (0 :> P(4, {"V", "R", "W", "U"}) @@ 1 :> P(5, {"V", "X"})))

(* A root with a misaligned superpage, and a pointer out of RAM.           *)
Broken ==
    (0 :> (0 :> P(1, {"V"}) @@ 1 :> P(3, {"V", "R", "X"}))) @@
    (1 :> (0 :> P(4, {"V", "W"}) @@ 1 :> P(5, {"V"})))

MCTables == {Mapped, Broken}

MCPtes == {P(4, {}), P(4, {"V", "R", "U"}), P(6, {"V"})}

Paging(root) == [mode |-> "paged", asid |-> 1, root |-> root]
MCRoots == {Paging(0), Paging(1), [mode |-> "unsupported", asid |-> 1, root |-> 0]}

Ctx(priv, mprv, mpp, sum, mxr) ==
    [priv |-> priv, mprv |-> mprv, mpp |-> mpp, sum |-> sum, mxr |-> mxr]

(* User; supervisor with and without SUM and MXR; machine reaching through *)
(* a lower mode's mappings.                                                *)
MCContexts ==
    {Ctx(U, FALSE, U, FALSE, FALSE), Ctx(S, FALSE, U, FALSE, TRUE),
     Ctx(S, FALSE, U, TRUE, FALSE), Ctx(M, TRUE, U, FALSE, FALSE)}

HartSymmetry == Permutations(Harts)
=============================================================================
