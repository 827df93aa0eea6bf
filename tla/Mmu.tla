-------------------------------- MODULE Mmu --------------------------------
(***************************************************************************)
(* Address translation (mmu.c): the page-table walk that Sv32 and Sv39     *)
(* share, its accessed and dirty bits, and the direct-mapped TLB of every  *)
(* hart in front of it.  The harts walk the same tables in memory, which   *)
(* the guest edits with ordinary stores.                                   *)
(*                                                                         *)
(* A virtual address is its page number, the page offset passes through.   *)
(* Page numbers have Levels fields in base FieldSize; a number with more   *)
(* fields is a non-canonical address.  Physical memory is the frames that  *)
(* hold page tables; a walk that leaves them is a read outside of RAM.     *)
(***************************************************************************)
EXTENDS Integers, FiniteSets

CONSTANTS
    Harts,
    Levels,        \* depth of the walk: 2 in Sv32, 3 in Sv39
    FieldSize,     \* entries of a page table
    Frames,        \* physical page numbers a PTE can hold
    Tables,        \* the frames that hold page tables
    TlbEntries,    \* TLB_ENTRIES
    Vpns,          \* virtual page numbers the guest accesses
    Contexts,      \* privilege and mstatus bits an access may run under
    Roots,         \* values of satp the guest writes
    InitTables,    \* page tables the guest starts from
    Ptes,          \* PTEs the guest stores later
    MaxEdits       \* bound on those stores

ASSUME MmuAssumption ==
    /\ Levels \in {2, 3}
    /\ FieldSize \in Nat \ {0} /\ TlbEntries \in Nat \ {0}
    /\ Frames \subseteq Nat /\ Tables \subseteq Frames
    /\ Vpns \subseteq Nat /\ MaxEdits \in Nat

U == 0
S == 1
M == 3

Accesses == {"fetch", "load", "store"}
Flags == {"V", "R", "W", "X", "U", "A", "D"}
Pte == [ppn : Frames, flags : SUBSET Flags]

ASSUME TablesAssumption ==
    /\ InitTables \subseteq [Tables -> [0..FieldSize - 1 -> Pte]]
    /\ Ptes \subseteq Pte

Bare == [mode |-> "bare", asid |-> 0, root |-> 0]
NoEntry == [vpn |-> -1, asid |-> 0, ppn |-> 0, flags |-> {}]
Empty == [i \in 0..TlbEntries - 1 |-> NoEntry]

VARIABLES
    mem,       \* table -> index -> PTE
    satp,      \* hart -> satp
    tlb,       \* hart -> slot -> entry
    fresh,     \* the harts that flushed their TLB since the last store to a PTE
    edits      \* stores so far

vars == <<mem, satp, tlb, fresh, edits>>

Init ==
    /\ mem \in InitTables
    /\ satp = [h \in Harts |-> Bare]
    /\ tlb = [h \in Harts |-> Empty]
    /\ fresh = Harts
    /\ edits = 0

-----------------------------------------------------------------------------
(* The privilege a translation runs at.                                    *)
EffPriv(c, acc) == IF acc # "fetch" /\ c.mprv THEN c.mpp ELSE c.priv

(* Does a leaf PTE permit the access?                                      *)
PermOk(c, flags, acc, priv) ==
    /\ priv = U => "U" \in flags
    /\ (priv # U /\ "U" \in flags) => (acc # "fetch" /\ c.sum)
    /\ CASE acc = "fetch" -> "X" \in flags
         [] acc = "load"  -> "R" \in flags \/ (c.mxr /\ "X" \in flags)
         [] acc = "store" -> "W" \in flags

(* The pages below one entry of a table, by level.                         *)
Span(level) == CASE level = 0 -> 1
                 [] level = 1 -> FieldSize
                 [] level = 2 -> FieldSize * FieldSize
                 [] level = 3 -> FieldSize * FieldSize * FieldSize

(* The field of a page number that indexes the table at a level.           *)
Field(vpn, level) == (vpn \div Span(level)) % FieldSize
Canonical(vpn) == vpn < Span(Levels)

NoLeaf == [level |-> -1]

(* One turn of the walk, in table t: a missing or malformed PTE ends it,    *)
(* a leaf is returned with the place it is stored at, and a pointer leads   *)
(* to below, the rest of the walk.                                          *)
Look(m, vpn, level, t, below) ==
    LET i == Field(vpn, level)
        pte == m[t][i]
    IN  IF \/ t \notin Tables
           \/ "V" \notin pte.flags
           \/ "R" \notin pte.flags /\ "W" \in pte.flags
        THEN NoLeaf
        ELSE IF pte.flags \cap {"R", "X"} # {}
             THEN [level |-> level, table |-> t, index |-> i, pte |-> pte]
             ELSE below

(* The walk from table t at each level, and from the root.                  *)
Leaf0(m, t, vpn) == Look(m, vpn, 0, t, NoLeaf)
Leaf1(m, t, vpn) == Look(m, vpn, 1, t, Leaf0(m, m[t][Field(vpn, 1)].ppn, vpn))
Leaf2(m, t, vpn) == Look(m, vpn, 2, t, Leaf1(m, m[t][Field(vpn, 2)].ppn, vpn))
Leaf(m, root, vpn) == IF Levels = 2 THEN Leaf1(m, root, vpn) ELSE Leaf2(m, root, vpn)

(* The page a leaf maps vpn to: below a superpage the low fields of the    *)
(* page number come from the address.                                      *)
Aligned(leaf) == leaf.pte.ppn % Span(leaf.level) = 0
PageOf(leaf, vpn) == leaf.pte.ppn + (vpn % Span(leaf.level))

Marked(flags, acc) == flags \cup {"A"} \cup (IF acc = "store" THEN {"D"} ELSE {})

Fault == -1

(* What a translation returns, and the memory and the TLB it leaves.       *)
Result(pa, m, t) == [pa |-> pa, mem |-> m, tlb |-> t]

Slot(vpn) == vpn % TlbEntries

(* Mutant of Hit: a store is served from a clean entry.                    *)
HitClean(sat, t, vpn, acc) == t[Slot(vpn)].vpn = vpn /\ t[Slot(vpn)].asid = sat.asid

(* A store is served from the TLB only when the cached PTE is dirty.       *)
Hit(sat, t, vpn, acc) ==
    LET e == t[Slot(vpn)]
    IN  /\ e.vpn = vpn /\ e.asid = sat.asid
        /\ acc = "store" => "D" \in e.flags

(* Mutant of Walk: the fill caches the flags read, not the ones written.   *)
WalkCachesOld(sat, c, m, t, vpn, acc) ==
    LET leaf == Leaf(m, sat.root, vpn)
        ppn == PageOf(leaf, vpn)
    IN  IF \/ leaf = NoLeaf
           \/ ~PermOk(c, leaf.pte.flags, acc, EffPriv(c, acc))
           \/ ~Aligned(leaf)
        THEN Result(Fault, m, t)
        ELSE Result(ppn,
                    [m EXCEPT ![leaf.table][leaf.index].flags = Marked(@, acc)],
                    [t EXCEPT ![Slot(vpn)] =
                        [vpn |-> vpn, asid |-> sat.asid, ppn |-> ppn, flags |-> leaf.pte.flags]])

(* The walk, the accessed and dirty bits, and the TLB fill.                *)
Walk(sat, c, m, t, vpn, acc) ==
    LET leaf == Leaf(m, sat.root, vpn)
        flags == Marked(leaf.pte.flags, acc)
        ppn == PageOf(leaf, vpn)
    IN  IF \/ leaf = NoLeaf
           \/ ~PermOk(c, leaf.pte.flags, acc, EffPriv(c, acc))
           \/ ~Aligned(leaf)
        THEN Result(Fault, m, t)
        ELSE Result(ppn,
                    [m EXCEPT ![leaf.table][leaf.index].flags = flags],
                    [t EXCEPT ![Slot(vpn)] =
                        [vpn |-> vpn, asid |-> sat.asid, ppn |-> ppn, flags |-> flags]])

(* mmu_translate of one access under satp sat.                             *)
Translate(sat, c, m, t, vpn, acc) ==
    LET e == t[Slot(vpn)]
    IN  IF EffPriv(c, acc) = M \/ sat.mode = "bare" THEN Result(vpn, m, t)
        ELSE IF ~Canonical(vpn) THEN Result(Fault, m, t)
        ELSE IF Hit(sat, t, vpn, acc)
        THEN Result(IF PermOk(c, e.flags, acc, EffPriv(c, acc)) THEN e.ppn ELSE Fault, m, t)
        ELSE Walk(sat, c, m, t, vpn, acc)

-----------------------------------------------------------------------------
(* A fetch, a load or a store of one hart.                                 *)
Access(h, c, vpn, acc) ==
    LET r == Translate(satp[h], c, mem, tlb[h], vpn, acc)
    IN  /\ mem' = r.mem
        /\ tlb' = [tlb EXCEPT ![h] = r.tlb]
        /\ UNCHANGED <<satp, fresh, edits>>

MmuFlush(h) ==
    /\ tlb' = [tlb EXCEPT ![h] = Empty]
    /\ fresh' = fresh \cup {h}

(* SFENCE.VMA, at S or above.                                              *)
SfenceVma(h) == MmuFlush(h) /\ UNCHANGED <<mem, satp, edits>>

(* A write to satp; one that selects a scheme not modelled is dropped.     *)
WriteSatp(h, v) ==
    /\ v.mode # "unsupported"
    /\ satp' = [satp EXCEPT ![h] = v]
    /\ MmuFlush(h)
    /\ UNCHANGED <<mem, edits>>

(* Mutant of HsmEnter: the flush is forgotten.                             *)
HsmEnterKeepsTlb(h) ==
    /\ satp' = [satp EXCEPT ![h] = Bare]
    /\ UNCHANGED <<mem, tlb, fresh, edits>>

(* hart_start, or a non-retentive hart_suspend: the hart begins in Bare.   *)
HsmEnter(h) ==
    /\ satp' = [satp EXCEPT ![h] = Bare]
    /\ MmuFlush(h)
    /\ UNCHANGED <<mem, edits>>

(* A guest store to a page table, by any hart.                             *)
StorePte(t, i, pte) ==
    /\ edits < MaxEdits
    /\ mem' = [mem EXCEPT ![t][i] = pte]
    /\ fresh' = {}
    /\ edits' = edits + 1
    /\ UNCHANGED <<satp, tlb>>

Next ==
    \/ \E h \in Harts, c \in Contexts, vpn \in Vpns, acc \in Accesses : Access(h, c, vpn, acc)
    \/ \E h \in Harts : SfenceVma(h)
    \/ \E h \in Harts, v \in Roots : WriteSatp(h, v)
    \/ \E h \in Harts : HsmEnter(h)
    \/ \E t \in Tables, i \in 0..FieldSize - 1, pte \in Ptes : StorePte(t, i, pte)

Spec == Init /\ [][Next]_vars
-----------------------------------------------------------------------------
(* Every variable has its type; a cached entry sits in the slot mmu_translate *)
(* probes for it and carries a leaf's flags with the accessed bit set.     *)
TypeOK ==
    /\ mem \in [Tables -> [0..FieldSize - 1 -> Pte]]
    /\ \A h \in Harts : satp[h] = Bare \/ satp[h] \in Roots
    /\ \A h \in Harts, i \in 0..TlbEntries - 1 :
          LET e == tlb[h][i]
          IN  e # NoEntry => /\ e.vpn \in Vpns /\ Slot(e.vpn) = i
                             /\ e.ppn \in Nat
                             /\ {"V", "A"} \subseteq e.flags /\ e.flags \subseteq Flags
    /\ fresh \subseteq Harts
    /\ edits \in 0..MaxEdits

(* A hart that has flushed its TLB since the guest last stored to a page   *)
(* table cannot tell that it has a TLB: every access, at every privilege   *)
(* and under every setting of SUM, MXR and MPRV, returns the address or    *)
(* the fault that the walk (mmu.c:152-195) would, and where the TLB hits   *)
(* (mmu.c:138-150) the walk would have left every accessed and dirty bit   *)
(* as it is.  The walks of the other hart mark the same PTEs meanwhile.    *)
TlbTransparent ==
    \A h \in fresh, c \in Contexts, vpn \in Vpns, acc \in Accesses :
        LET cached == Translate(satp[h], c, mem, tlb[h], vpn, acc)
            walked == Translate(satp[h], c, mem, Empty, vpn, acc)
        IN  cached.pa = walked.pa /\ cached.mem = walked.mem

(* Translating the same access twice is translating it once, stale entries *)
(* or not: the JIT probes the address of a load or store before it executes *)
(* it (jit.c:151-161).                                                     *)
ProbeIdempotent ==
    \A h \in Harts, c \in Contexts, vpn \in Vpns, acc \in Accesses :
        LET once == Translate(satp[h], c, mem, tlb[h], vpn, acc)
        IN  Translate(satp[h], c, once.mem, once.tlb, vpn, acc) = once

(* What a hart cached belongs to the address space its satp names: a hart  *)
(* in Bare mode has an empty TLB, so the translations of a hart that was   *)
(* stopped or switched away never outlive it (csr_write of satp and        *)
(* hsm_enter both flush).                                                  *)
NoForeignEntry ==
    \A h \in Harts, i \in 0..TlbEntries - 1 :
        tlb[h][i] # NoEntry => satp[h] # Bare /\ tlb[h][i].asid = satp[h].asid
=============================================================================
