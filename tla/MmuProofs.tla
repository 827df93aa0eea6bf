----------------------------- MODULE MmuProofs -----------------------------
(***************************************************************************)
(* Proofs about Mmu, for any number of harts, page tables, TLB entries and *)
(* pages, both depths of the walk and any values of satp.                  *)
(***************************************************************************)
EXTENDS Mmu, TLAPS

Memory == [Tables -> [0..FieldSize - 1 -> Pte]]

\* A field of a page number indexes a page table.
LEMMA FieldInRange ==
    ASSUME NEW vpn \in Nat, NEW level \in 0..2
    PROVE  Field(vpn, level) \in 0..FieldSize - 1
<1>1. FieldSize \in Nat \ {0}
  BY MmuAssumption
<1>2. FieldSize * FieldSize \in Nat \ {0}
  BY <1>1
<1>3. Span(level) \in Nat \ {0}
  BY <1>1, <1>2 DEF Span
<1>4. vpn \div Span(level) \in Int
  BY <1>3
<1> QED BY <1>1, <1>4 DEF Field

\* A page number is cached in a slot of the TLB.
LEMMA SlotInRange ==
    ASSUME NEW vpn \in Vpns
    PROVE  Slot(vpn) \in 0..TlbEntries - 1
BY MmuAssumption DEF Slot

\* A leaf and the place in memory m it was read from.
IsLeaf(m, leaf) ==
    /\ leaf.level \in 0..2 /\ leaf.table \in Tables /\ leaf.index \in 0..FieldSize - 1
    /\ leaf.pte = m[leaf.table][leaf.index]

\* Memory m2 is m with some accessed and dirty bits set.
MarksOnly(m, m2) ==
    \A t \in Tables, i \in 0..FieldSize - 1 :
        /\ m2[t][i].ppn = m[t][i].ppn
        /\ m[t][i].flags \subseteq m2[t][i].flags
        /\ m2[t][i].flags \subseteq m[t][i].flags \cup {"A", "D"}

\* Two walks that end alike: nowhere, or at the same PTE.
SameEnd(m, m2, leaf, leaf2) ==
    \/ leaf = NoLeaf /\ leaf2 = NoLeaf
    \/ /\ IsLeaf(m, leaf) /\ IsLeaf(m2, leaf2)
       /\ leaf.level = leaf2.level /\ leaf.table = leaf2.table /\ leaf.index = leaf2.index

\* Accessed and dirty bits do not steer one turn of the walk.
LEMMA LookStable ==
    ASSUME NEW m \in Memory, NEW m2 \in Memory, MarksOnly(m, m2),
           NEW vpn \in Nat, NEW level \in 0..2, NEW t, NEW below, NEW below2,
           t \in Tables => SameEnd(m, m2, below, below2)
    PROVE  SameEnd(m, m2, Look(m, vpn, level, t, below), Look(m2, vpn, level, t, below2))
<1> DEFINE i == Field(vpn, level)
<1>1. i \in 0..FieldSize - 1
  BY FieldInRange
<1>2. CASE t \notin Tables
  BY <1>2 DEF Look, SameEnd
<1>3. CASE t \in Tables
  <2> DEFINE a == m[t][i].flags
             b == m2[t][i].flags
  <2>1. a \subseteq b /\ b \subseteq a \cup {"A", "D"}
    BY <1>1, <1>3 DEF MarksOnly
  <2>2. \A f \in {"V", "R", "W", "X"} : f \in a <=> f \in b
    BY <2>1
  <2>3. (a \cap {"R", "X"} # {}) <=> (b \cap {"R", "X"} # {})
    BY <2>2
  <2>4. CASE "V" \notin a \/ ("R" \notin a /\ "W" \in a)
    BY <2>2, <2>4 DEF Look, SameEnd
  <2>5. CASE ~("V" \notin a \/ ("R" \notin a /\ "W" \in a)) /\ a \cap {"R", "X"} # {}
    <3>1. Look(m, vpn, level, t, below) = [level |-> level, table |-> t, index |-> i, pte |-> m[t][i]]
      BY <1>3, <2>5 DEF Look
    <3>2. Look(m2, vpn, level, t, below2) = [level |-> level, table |-> t, index |-> i, pte |-> m2[t][i]]
      BY <1>3, <2>2, <2>3, <2>5 DEF Look
    <3> QED BY <1>1, <1>3, <3>1, <3>2 DEF SameEnd, IsLeaf
  <2>6. CASE ~("V" \notin a \/ ("R" \notin a /\ "W" \in a)) /\ ~(a \cap {"R", "X"} # {})
    BY <1>3, <2>2, <2>3, <2>6 DEF Look
  <2> QED BY <2>4, <2>5, <2>6
<1> QED BY <1>2, <1>3

\* Nor do they steer the walk.
LEMMA LeafStable ==
    ASSUME NEW m \in Memory, NEW m2 \in Memory, MarksOnly(m, m2), NEW vpn \in Nat, NEW root
    PROVE  SameEnd(m, m2, Leaf(m, root, vpn), Leaf(m2, root, vpn))
<1>1. \A t : SameEnd(m, m2, Leaf0(m, t, vpn), Leaf0(m2, t, vpn))
  <2> TAKE t
  <2>1. SameEnd(m, m2, NoLeaf, NoLeaf)
    BY DEF SameEnd
  <2> QED BY <2>1, LookStable DEF Leaf0
<1>2. \A t : SameEnd(m, m2, Leaf1(m, t, vpn), Leaf1(m2, t, vpn))
  <2> TAKE t
  <2> DEFINE p == m[t][Field(vpn, 1)].ppn
             p2 == m2[t][Field(vpn, 1)].ppn
  <2>1. t \in Tables => p = p2
    BY FieldInRange DEF MarksOnly
  <2>2. t \in Tables => SameEnd(m, m2, Leaf0(m, p, vpn), Leaf0(m2, p2, vpn))
    BY <1>1, <2>1
  <2> HIDE DEF p, p2
  <2>3. SameEnd(m, m2, Look(m, vpn, 1, t, Leaf0(m, p, vpn)), Look(m2, vpn, 1, t, Leaf0(m2, p2, vpn)))
    BY <2>2, LookStable
  <2> QED BY <2>3 DEF Leaf1, p, p2
<1>3. \A t : SameEnd(m, m2, Leaf2(m, t, vpn), Leaf2(m2, t, vpn))
  <2> TAKE t
  <2> DEFINE p == m[t][Field(vpn, 2)].ppn
             p2 == m2[t][Field(vpn, 2)].ppn
  <2>1. t \in Tables => p = p2
    BY FieldInRange DEF MarksOnly
  <2>2. t \in Tables => SameEnd(m, m2, Leaf1(m, p, vpn), Leaf1(m2, p2, vpn))
    BY <1>2, <2>1
  <2> HIDE DEF p, p2
  <2>3. SameEnd(m, m2, Look(m, vpn, 2, t, Leaf1(m, p, vpn)), Look(m2, vpn, 2, t, Leaf1(m2, p2, vpn)))
    BY <2>2, LookStable
  <2> QED BY <2>3 DEF Leaf2, p, p2
<1> QED BY <1>2, <1>3 DEF Leaf

\* A walk that ends at a leaf ends at a PTE in memory.
LEMMA LeafInMemory ==
    ASSUME NEW m \in Memory, NEW vpn \in Nat, NEW root, Leaf(m, root, vpn) # NoLeaf
    PROVE  IsLeaf(m, Leaf(m, root, vpn))
<1>1. MarksOnly(m, m)
  BY DEF MarksOnly
<1>2. SameEnd(m, m, Leaf(m, root, vpn), Leaf(m, root, vpn))
  BY <1>1, LeafStable
<1> QED BY <1>2 DEF SameEnd

\* Storing one PTE.
LEMMA EditProps ==
    ASSUME NEW m \in Memory, NEW t \in Tables, NEW i \in 0..FieldSize - 1, NEW pte \in Pte
    PROVE  /\ [m EXCEPT ![t] = [m[t] EXCEPT ![i] = pte]] \in Memory
           /\ [m EXCEPT ![t] = [m[t] EXCEPT ![i] = pte]][t][i] = pte
           /\ \A u \in Tables, j \in 0..FieldSize - 1 : (u # t \/ j # i) =>
                 [m EXCEPT ![t] = [m[t] EXCEPT ![i] = pte]][u][j] = m[u][j]
<1> DEFINE row == [m[t] EXCEPT ![i] = pte]
<1>1. m[t] \in [0..FieldSize - 1 -> Pte]
  BY DEF Memory
<1>2. /\ row \in [0..FieldSize - 1 -> Pte] /\ row[i] = pte
      /\ \A j \in 0..FieldSize - 1 : j # i => row[j] = m[t][j]
  BY <1>1, Zenon
<1> HIDE DEF row
<1>3. /\ [m EXCEPT ![t] = row] \in Memory /\ [m EXCEPT ![t] = row][t] = row
      /\ \A u \in Tables : u # t => [m EXCEPT ![t] = row][u] = m[u]
  BY <1>2 DEF Memory
<1>4. \A u \in Tables, j \in 0..FieldSize - 1 :
          (u # t \/ j # i) => [m EXCEPT ![t] = row][u][j] = m[u][j]
  BY <1>2, <1>3
<1> QED BY <1>2, <1>3, <1>4 DEF row

\* What the walk writes back sets accessed and dirty bits and nothing else.
LEMMA MarkProps ==
    ASSUME NEW m \in Memory, NEW leaf, IsLeaf(m, leaf), NEW acc \in Accesses
    PROVE  \A m2 : m2 = [m EXCEPT ![leaf.table][leaf.index].flags = Marked(leaf.pte.flags, acc)] =>
               /\ m2 \in Memory /\ MarksOnly(m, m2)
               /\ m2[leaf.table][leaf.index].flags = Marked(leaf.pte.flags, acc)
<1> DEFINE t == leaf.table
           i == leaf.index
           pte == [m[t][i] EXCEPT !.flags = Marked(leaf.pte.flags, acc)]
           edited == [m EXCEPT ![t] = [m[t] EXCEPT ![i] = pte]]
<1>1. t \in Tables /\ i \in 0..FieldSize - 1 /\ leaf.pte = m[t][i] /\ m[t][i] \in Pte
  BY Zenon DEF IsLeaf, Memory
<1>2. Marked(leaf.pte.flags, acc) \subseteq Flags
  BY <1>1 DEF Marked, Pte, Flags
<1>3. pte \in Pte /\ pte.ppn = m[t][i].ppn /\ pte.flags = Marked(leaf.pte.flags, acc)
  BY <1>1, <1>2 DEF Pte
<1>4. edited = [m EXCEPT ![leaf.table][leaf.index].flags = Marked(leaf.pte.flags, acc)]
  BY <1>1 DEF Memory
<1> HIDE DEF t, i, pte
<1>5. /\ edited \in Memory /\ edited[t][i] = pte
      /\ \A u \in Tables, j \in 0..FieldSize - 1 : (u # t \/ j # i) => edited[u][j] = m[u][j]
  BY <1>1, <1>3, EditProps
<1> HIDE DEF edited
<1>6. m[t][i].flags \subseteq pte.flags /\ pte.flags \subseteq m[t][i].flags \cup {"A", "D"}
  BY <1>1, <1>3 DEF Marked
<1>7. MarksOnly(m, edited)
  BY <1>3, <1>5, <1>6 DEF MarksOnly
<1>8. edited[leaf.table][leaf.index].flags = Marked(leaf.pte.flags, acc)
  BY <1>3, <1>5 DEF t, i
<1> QED BY <1>4, <1>5, <1>7, <1>8

\* Permission does not look at the accessed and dirty bits (perm_ok).
LEMMA PermStable ==
    ASSUME NEW c, NEW acc \in Accesses, NEW priv, NEW f, NEW g,
           f \subseteq g, g \subseteq f \cup {"A", "D"}
    PROVE  PermOk(c, f, acc, priv) <=> PermOk(c, g, acc, priv)
<1>1. \A x \in {"U", "X", "R", "W"} : x \in f <=> x \in g
  OBVIOUS
<1> QED BY <1>1, Zenon DEF PermOk, Accesses

-----------------------------------------------------------------------------
(* What a TLB entry stands for.                                            *)

\* Entry e is what the walk finds in memory m, but for bits set since.
Backed(m, sat, e) ==
    /\ e.vpn \in Nat
    /\ IsLeaf(m, Leaf(m, sat.root, e.vpn))
    /\ Aligned(Leaf(m, sat.root, e.vpn))
    /\ e.ppn = PageOf(Leaf(m, sat.root, e.vpn), e.vpn)
    /\ "A" \in e.flags
    /\ e.flags \subseteq Leaf(m, sat.root, e.vpn).pte.flags
    /\ Leaf(m, sat.root, e.vpn).pte.flags \subseteq e.flags \cup {"A", "D"}

\* The marks other walks leave do not make an entry stale.
LEMMA BackedStable ==
    ASSUME NEW m \in Memory, NEW m2 \in Memory, MarksOnly(m, m2), NEW sat, NEW e,
           Backed(m, sat, e)
    PROVE  Backed(m2, sat, e)
<1> DEFINE a == Leaf(m, sat.root, e.vpn)
           b == Leaf(m2, sat.root, e.vpn)
<1>1. e.vpn \in Nat /\ IsLeaf(m, a)
  BY DEF Backed
<1>2. a # NoLeaf
  BY <1>1 DEF IsLeaf, NoLeaf
<1>3. SameEnd(m, m2, a, b)
  BY <1>1, LeafStable
<1> HIDE DEF a, b
<1>4. IsLeaf(m2, b) /\ a.level = b.level /\ a.table = b.table /\ a.index = b.index
  BY <1>2, <1>3 DEF SameEnd
<1>5. /\ a.pte.ppn = b.pte.ppn /\ a.pte.flags \subseteq b.pte.flags
      /\ b.pte.flags \subseteq a.pte.flags \cup {"A", "D"}
  BY <1>1, <1>4 DEF IsLeaf, MarksOnly
<1>6. (Aligned(a) <=> Aligned(b)) /\ PageOf(a, e.vpn) = PageOf(b, e.vpn)
  BY <1>4, <1>5 DEF Aligned, PageOf
<1>7. /\ Aligned(a) /\ e.ppn = PageOf(a, e.vpn) /\ "A" \in e.flags
      /\ e.flags \subseteq a.pte.flags /\ a.pte.flags \subseteq e.flags \cup {"A", "D"}
  BY DEF Backed, a
<1>8. /\ Aligned(b) /\ e.ppn = PageOf(b, e.vpn) /\ e.flags \subseteq b.pte.flags
      /\ b.pte.flags \subseteq e.flags \cup {"A", "D"}
  BY <1>5, <1>6, <1>7
<1> QED BY <1>1, <1>4, <1>7, <1>8 DEF Backed, b

\* Result r is a walk's that found a leaf, marked it in m and filled a slot of t.
Fills(r, sat, c, m, t, vpn, acc) ==
    \E e, m2 :
        /\ r = Result(e.ppn, m2, [t EXCEPT ![Slot(vpn)] = e])
        /\ e.vpn = vpn /\ e.asid = sat.asid /\ (acc = "store" => "D" \in e.flags)
        /\ PermOk(c, e.flags, acc, EffPriv(c, acc))
        /\ m2 \in Memory /\ MarksOnly(m, m2) /\ Backed(m2, sat, e)

\* A walk faults and changes nothing, or fills one slot with what it found.
LEMMA WalkCases ==
    ASSUME NEW sat, NEW c, NEW m \in Memory, NEW t, NEW vpn \in Vpns, NEW acc \in Accesses
    PROVE  \/ Walk(sat, c, m, t, vpn, acc) = Result(Fault, m, t)
           \/ Fills(Walk(sat, c, m, t, vpn, acc), sat, c, m, t, vpn, acc)
<1> DEFINE leaf == Leaf(m, sat.root, vpn)
           flags == Marked(leaf.pte.flags, acc)
           ppn == PageOf(leaf, vpn)
           m2 == [m EXCEPT ![leaf.table][leaf.index].flags = flags]
           e == [vpn |-> vpn, asid |-> sat.asid, ppn |-> ppn, flags |-> flags]
           ok == leaf # NoLeaf /\ PermOk(c, leaf.pte.flags, acc, EffPriv(c, acc)) /\ Aligned(leaf)
<1>1. CASE ~ok
  BY <1>1 DEF Walk
<1>2. CASE ok
  <2>1. Walk(sat, c, m, t, vpn, acc) = Result(e.ppn, m2, [t EXCEPT ![Slot(vpn)] = e])
    BY <1>2 DEF Walk
  <2>2. vpn \in Nat
    BY MmuAssumption
  <2>3. IsLeaf(m, leaf)
    BY <1>2, <2>2, LeafInMemory
  <2>4. m2 \in Memory /\ MarksOnly(m, m2) /\ m2[leaf.table][leaf.index].flags = flags
    BY <2>3, MarkProps, ZenonT(30)
  <2>5. /\ leaf.pte.flags \subseteq flags /\ flags \subseteq leaf.pte.flags \cup {"A", "D"}
        /\ "A" \in flags /\ (acc = "store" => "D" \in flags)
    BY DEF Marked
  <2>6. PermOk(c, flags, acc, EffPriv(c, acc))
    BY <1>2, <2>5, PermStable
  <2> DEFINE b == Leaf(m2, sat.root, vpn)
  <2>7. SameEnd(m, m2, leaf, b)
    BY <2>2, <2>4, LeafStable
  <2> HIDE DEF b, m2, leaf, flags
  <2>8. IsLeaf(m2, b) /\ leaf.level = b.level /\ leaf.table = b.table /\ leaf.index = b.index
    BY <1>2, <2>7 DEF SameEnd
  <2>9. b.pte.ppn = leaf.pte.ppn /\ b.pte.flags = flags
    BY <2>3, <2>4, <2>8 DEF IsLeaf, MarksOnly
  <2>10. Aligned(b) /\ PageOf(b, vpn) = ppn
    BY <1>2, <2>8, <2>9 DEF Aligned, PageOf
  <2>11. Backed(m2, sat, e)
    BY <2>2, <2>5, <2>8, <2>9, <2>10 DEF Backed, b
  <2> HIDE DEF e
  <2>12. e.vpn = vpn /\ e.asid = sat.asid /\ e.flags = flags
    BY DEF e
  <2> QED BY <2>1, <2>4, <2>5, <2>6, <2>11, <2>12, Zenon DEF Fills
<1> QED BY <1>1, <1>2

\* A translation changes nothing, or is such a fill, outside of Bare mode.
LEMMA TranslateCases ==
    ASSUME NEW sat, NEW c, NEW m \in Memory, NEW t, NEW vpn \in Vpns, NEW acc \in Accesses
    PROVE  \/ \E pa : Translate(sat, c, m, t, vpn, acc) = Result(pa, m, t)
           \/ /\ Fills(Translate(sat, c, m, t, vpn, acc), sat, c, m, t, vpn, acc)
              /\ ~(EffPriv(c, acc) = M \/ sat.mode = "bare") /\ Canonical(vpn)
<1> DEFINE direct == EffPriv(c, acc) = M \/ sat.mode = "bare"
<1>1. CASE direct
  BY <1>1 DEF Translate
<1>2. CASE ~direct /\ ~Canonical(vpn)
  BY <1>2 DEF Translate
<1>3. CASE ~direct /\ Canonical(vpn) /\ Hit(sat, t, vpn, acc)
  BY <1>3 DEF Translate
<1>4. CASE ~direct /\ Canonical(vpn) /\ ~Hit(sat, t, vpn, acc)
  <2>1. Translate(sat, c, m, t, vpn, acc) = Walk(sat, c, m, t, vpn, acc)
    BY <1>4 DEF Translate
  <2> QED BY <1>4, <2>1, WalkCases
<1> QED BY <1>1, <1>2, <1>3, <1>4

-----------------------------------------------------------------------------
(* The inductive invariant.                                                *)

Slots == 0..TlbEntries - 1

\* One TLB, the TLBs of the harts, and the satps of the harts.
IsTlb(t) == t = [i \in Slots |-> t[i]]
AreTlbs(ts) == ts = [h \in Harts |-> [i \in Slots |-> ts[h][i]]]
AreSatps(sats) == sats = [h \in Harts |-> sats[h]]

Shape == mem \in Memory /\ fresh \subseteq Harts /\ AreSatps(satp) /\ AreTlbs(tlb)

\* The entries of a hart that has flushed since the last store to a PTE.
FreshBacked ==
    \A h \in fresh, i \in Slots :
        tlb[h][i] # NoEntry => Backed(mem, satp[h], tlb[h][i])

IInv == Shape /\ NoForeignEntry /\ FreshBacked

LEMMA InitInv == Init => IInv
BY TablesAssumption DEF Init, IInv, Shape, AreSatps, AreTlbs, NoForeignEntry, FreshBacked,
       Empty, Slots, Memory

\* An access leaves the entries of every hart backed.
LEMMA AccessInv ==
    ASSUME IInv, NEW g \in Harts, NEW c, NEW vpn \in Vpns, NEW acc \in Accesses,
           Access(g, c, vpn, acc)
    PROVE  IInv'
<1> DEFINE r == Translate(satp[g], c, mem, tlb[g], vpn, acc)
<1>0. /\ mem' = r.mem /\ tlb' = [tlb EXCEPT ![g] = r.tlb]
      /\ satp' = satp /\ fresh' = fresh
  BY DEF Access
<1>1. mem \in Memory /\ fresh \subseteq Harts /\ AreSatps(satp) /\ AreTlbs(tlb)
  BY DEF IInv, Shape
<1>2. CASE \E pa : r = Result(pa, mem, tlb[g])
  <2>1. r.mem = mem /\ r.tlb = tlb[g]
    BY <1>2 DEF Result
  <2> HIDE DEF r
  <2>2. mem' = mem /\ tlb' = tlb
    BY <1>0, <1>1, <2>1 DEF AreTlbs
  <2>3. Shape'
    BY <1>0, <1>1, <2>2, Zenon DEF Shape
  <2>4. NoForeignEntry'
    BY <1>0, <2>2, Zenon DEF IInv, NoForeignEntry
  <2>5. FreshBacked'
    BY <1>0, <2>2, Zenon DEF IInv, FreshBacked, Slots
  <2> QED BY <2>3, <2>4, <2>5 DEF IInv
<1>3. CASE ~(\E pa : r = Result(pa, mem, tlb[g]))
  <2>0. Fills(r, satp[g], c, mem, tlb[g], vpn, acc) /\ satp[g].mode # "bare"
    <3>1. mem \in Memory
      BY <1>1
    <3>2. \/ \E pa : r = Result(pa, mem, tlb[g])
          \/ /\ Fills(r, satp[g], c, mem, tlb[g], vpn, acc)
             /\ ~(EffPriv(c, acc) = M \/ satp[g].mode = "bare") /\ Canonical(vpn)
      BY <3>1, TranslateCases, SMT
    <3> QED BY <1>3, <3>2, Zenon
  <2>1. PICK e, m2 : /\ r = Result(e.ppn, m2, [tlb[g] EXCEPT ![Slot(vpn)] = e])
                     /\ satp[g].mode # "bare" /\ e.asid = satp[g].asid
                     /\ m2 \in Memory /\ MarksOnly(mem, m2) /\ Backed(m2, satp[g], e)
    BY <2>0 DEF Fills
  <2>2. r.mem = m2 /\ r.tlb = [tlb[g] EXCEPT ![Slot(vpn)] = e]
    BY <2>1 DEF Result
  <2> HIDE DEF r
  <2>3. mem' = m2 /\ tlb' = [tlb EXCEPT ![g] = [tlb[g] EXCEPT ![Slot(vpn)] = e]]
    BY <1>0, <2>2
  <2>4. Slot(vpn) \in Slots
    BY SlotInRange DEF Slots
  <2>5. /\ AreTlbs(tlb')
        /\ \A h \in Harts, i \in Slots :
              tlb'[h][i] = IF h = g /\ i = Slot(vpn) THEN e ELSE tlb[h][i]
    BY <1>1, <2>3, <2>4, Zenon DEF AreTlbs
  <2>6. Shape'
    BY <1>0, <1>1, <2>1, <2>3, <2>5 DEF Shape
  <2>7. NoForeignEntry'
    BY <1>0, <2>1, <2>5 DEF IInv, NoForeignEntry, Bare, Slots
  <2>8. FreshBacked'
    <3> SUFFICES ASSUME NEW h \in fresh, NEW i \in Slots, tlb'[h][i] # NoEntry
                 PROVE  Backed(m2, satp[h], tlb'[h][i])
      BY <1>0, <2>3 DEF FreshBacked
    <3>1. CASE h = g /\ i = Slot(vpn)
      BY <1>1, <2>1, <2>5, <3>1
    <3>2. CASE ~(h = g /\ i = Slot(vpn))
      <4>1. tlb'[h][i] = tlb[h][i]
        BY <1>1, <2>5, <3>2
      <4>2. Backed(mem, satp[h], tlb[h][i])
        BY <4>1 DEF IInv, FreshBacked
      <4> QED BY <1>1, <2>1, <4>1, <4>2, BackedStable
    <3> QED BY <3>1, <3>2
  <2> QED BY <2>6, <2>7, <2>8 DEF IInv
<1> QED BY <1>2, <1>3

\* A flush leaves a hart with no entry at all.
LEMMA FlushInv ==
    ASSUME IInv, NEW g \in Harts, MmuFlush(g), mem' = mem,
           AreSatps(satp'), \A h \in Harts \ {g} : satp'[h] = satp[h]
    PROVE  IInv'
<1>1. /\ AreTlbs(tlb')
      /\ \A h \in Harts, i \in Slots : tlb'[h][i] = IF h = g THEN NoEntry ELSE tlb[h][i]
  BY Zenon DEF IInv, Shape, AreTlbs, MmuFlush, Empty, Slots
<1>2. fresh' = fresh \cup {g} /\ fresh \subseteq Harts
  BY DEF MmuFlush, IInv, Shape
<1>3. Shape'
  BY <1>1, <1>2 DEF IInv, Shape
<1>4. NoForeignEntry' /\ FreshBacked'
  BY <1>1, <1>2 DEF IInv, NoForeignEntry, FreshBacked, Slots
<1> QED BY <1>3, <1>4 DEF IInv

\* Every step keeps the invariant.
LEMMA NextInv == IInv /\ [Next]_vars => IInv'
<1> SUFFICES ASSUME IInv, [Next]_vars PROVE IInv'
  OBVIOUS
<1>0. AreSatps(satp)
  BY DEF IInv, Shape
<1>1. CASE \E h \in Harts, c \in Contexts, vpn \in Vpns, acc \in Accesses : Access(h, c, vpn, acc)
  BY <1>1, AccessInv
<1>2. CASE \E h \in Harts : SfenceVma(h)
  BY <1>0, <1>2, FlushInv DEF SfenceVma, AreSatps
<1>3. CASE \E h \in Harts, v \in Roots : WriteSatp(h, v)
  BY <1>0, <1>3, FlushInv DEF WriteSatp, AreSatps
<1>4. CASE \E h \in Harts : HsmEnter(h)
  BY <1>0, <1>4, FlushInv DEF HsmEnter, AreSatps
<1>5. CASE \E t \in Tables, i \in 0..FieldSize - 1, pte \in Ptes : StorePte(t, i, pte)
  <2>1. PICK t \in Tables, i \in 0..FieldSize - 1, pte \in Ptes : StorePte(t, i, pte)
    BY <1>5
  <2>2. mem \in Memory /\ mem' = [mem EXCEPT ![t] = [mem[t] EXCEPT ![i] = pte]]
    BY <2>1 DEF StorePte, IInv, Shape, Memory
  <2>3. mem' \in Memory
    BY <2>2, EditProps, TablesAssumption, Zenon
  <2>4. fresh' = {} /\ satp' = satp /\ tlb' = tlb
    BY <2>1 DEF StorePte
  <2> QED BY <2>3, <2>4 DEF IInv, Shape, NoForeignEntry, FreshBacked
<1>6. CASE UNCHANGED vars
  BY <1>6 DEF IInv, Shape, NoForeignEntry, FreshBacked, vars
<1> QED BY <1>1, <1>2, <1>3, <1>4, <1>5, <1>6 DEF Next

\* The invariant holds in every reachable state.
THEOREM Invariance == Spec => []IInv
BY InitInv, NextInv, PTL DEF Spec

\* What a hart cached belongs to the address space its satp names: csr_write of
\* satp and hsm_enter flush, and a walk fills only under the satp it walked.
THEOREM ForeignCorrect == Spec => []NoForeignEntry
<1>1. IInv => NoForeignEntry
  BY DEF IInv
<1> QED BY <1>1, Invariance, PTL

-----------------------------------------------------------------------------
(* The TLB cannot be seen.                                                 *)

\* An empty TLB hits nothing.
LEMMA EmptyMisses ==
    ASSUME NEW sat, NEW vpn \in Vpns, NEW acc
    PROVE  ~Hit(sat, Empty, vpn, acc)
<1>1. Empty[Slot(vpn)] = NoEntry
  BY SlotInRange DEF Empty
<1>2. vpn \in Nat /\ NoEntry.vpn = -1
  BY MmuAssumption DEF NoEntry
<1> QED BY <1>1, <1>2 DEF Hit

\* Where a backed entry hits, the walk gives the same address or fault and
\* leaves memory as it is.
LEMMA HitIsWalk ==
    ASSUME NEW sat, NEW c, NEW m \in Memory, NEW t, NEW vpn \in Vpns, NEW acc \in Accesses,
           NEW e, Backed(m, sat, e), e.vpn = vpn, acc = "store" => "D" \in e.flags
    PROVE  /\ Walk(sat, c, m, t, vpn, acc).mem = m
           /\ Walk(sat, c, m, t, vpn, acc).pa =
                  IF PermOk(c, e.flags, acc, EffPriv(c, acc)) THEN e.ppn ELSE Fault
<1> DEFINE leaf == Leaf(m, sat.root, vpn)
           flags == leaf.pte.flags
           perm == PermOk(c, flags, acc, EffPriv(c, acc))
           edited == [m EXCEPT ![leaf.table][leaf.index].flags = Marked(flags, acc)]
<1>1. /\ IsLeaf(m, leaf) /\ Aligned(leaf) /\ e.ppn = PageOf(leaf, vpn) /\ "A" \in e.flags
      /\ e.flags \subseteq flags /\ flags \subseteq e.flags \cup {"A", "D"}
  BY SMTT(20) DEF Backed
<1>2. leaf # NoLeaf
  BY <1>1 DEF IsLeaf, NoLeaf
<1>3. PermOk(c, e.flags, acc, EffPriv(c, acc)) <=> perm
  BY <1>1, PermStable
<1>4. Marked(flags, acc) = flags
  BY <1>1, SMTT(20) DEF Marked
<1>5. edited = m
  <2> DEFINE u == leaf.table
             i == leaf.index
  <2>1. u \in Tables /\ i \in 0..FieldSize - 1 /\ flags = m[u][i].flags
    BY <1>1 DEF IsLeaf
  <2>2. m[u][i] \in Pte
    BY <2>1, ZenonT(30) DEF Memory
  <2>3. [m[u][i] EXCEPT !.flags = Marked(flags, acc)] = m[u][i]
    BY <1>4, <2>1, <2>2 DEF Pte
  <2>4. edited = [m EXCEPT ![u] = [m[u] EXCEPT ![i] = [m[u][i] EXCEPT !.flags = Marked(flags, acc)]]]
    BY <2>1 DEF Memory
  <2>5. [m EXCEPT ![u] = [m[u] EXCEPT ![i] = m[u][i]]] = m
    BY <2>1 DEF Memory
  <2> QED BY <2>3, <2>4, <2>5
<1>6. Walk(sat, c, m, t, vpn, acc) =
          IF perm THEN Result(PageOf(leaf, vpn), edited,
                              [t EXCEPT ![Slot(vpn)] = [vpn |-> vpn, asid |-> sat.asid,
                                 ppn |-> PageOf(leaf, vpn), flags |-> Marked(flags, acc)]])
          ELSE Result(Fault, m, t)
  BY <1>1, <1>2 DEF Walk
<1> HIDE DEF perm, edited, leaf, flags
<1> QED BY <1>1, <1>3, <1>5, <1>6 DEF Result

\* What a walk returns and writes to memory does not depend on the TLB.
LEMMA WalkIgnoresTlb ==
    ASSUME NEW sat, NEW c, NEW m, NEW t, NEW t2, NEW vpn, NEW acc
    PROVE  /\ Walk(sat, c, m, t, vpn, acc).pa = Walk(sat, c, m, t2, vpn, acc).pa
           /\ Walk(sat, c, m, t, vpn, acc).mem = Walk(sat, c, m, t2, vpn, acc).mem
BY DEF Walk, Result

\* With backed entries, the TLB makes no difference to a translation.
LEMMA BackedTransparent ==
    ASSUME NEW sat, NEW c, NEW m \in Memory, NEW t, NEW vpn \in Vpns, NEW acc \in Accesses,
           t[Slot(vpn)] # NoEntry => Backed(m, sat, t[Slot(vpn)])
    PROVE  /\ Translate(sat, c, m, t, vpn, acc).pa = Translate(sat, c, m, Empty, vpn, acc).pa
           /\ Translate(sat, c, m, t, vpn, acc).mem = Translate(sat, c, m, Empty, vpn, acc).mem
<1> DEFINE direct == EffPriv(c, acc) = M \/ sat.mode = "bare"
           e == t[Slot(vpn)]
<1>0. ~Hit(sat, Empty, vpn, acc)
  BY EmptyMisses, SMTT(20)
<1>1. CASE direct
  BY <1>1, SMTT(20) DEF Translate, Result
<1>2. CASE ~direct /\ ~Canonical(vpn)
  BY <1>2, SMTT(20) DEF Translate, Result
<1>3. CASE ~direct /\ Canonical(vpn) /\ Hit(sat, t, vpn, acc)
  <2>1. Translate(sat, c, m, Empty, vpn, acc) = Walk(sat, c, m, Empty, vpn, acc)
    BY <1>0, <1>3 DEF Translate
  <2>2. Translate(sat, c, m, t, vpn, acc) =
            Result(IF PermOk(c, e.flags, acc, EffPriv(c, acc)) THEN e.ppn ELSE Fault, m, t)
    BY <1>3 DEF Translate
  <2>3. e.vpn = vpn /\ (acc = "store" => "D" \in e.flags)
    BY <1>3 DEF Hit
  <2>4. e # NoEntry
    BY <2>3, MmuAssumption DEF NoEntry
  <2>5. /\ Walk(sat, c, m, Empty, vpn, acc).mem = m
        /\ Walk(sat, c, m, Empty, vpn, acc).pa =
               IF PermOk(c, e.flags, acc, EffPriv(c, acc)) THEN e.ppn ELSE Fault
    BY <2>3, <2>4, HitIsWalk
  <2> QED BY <2>1, <2>2, <2>5 DEF Result
<1>4. CASE ~direct /\ Canonical(vpn) /\ ~Hit(sat, t, vpn, acc)
  <2>1. /\ Translate(sat, c, m, Empty, vpn, acc) = Walk(sat, c, m, Empty, vpn, acc)
        /\ Translate(sat, c, m, t, vpn, acc) = Walk(sat, c, m, t, vpn, acc)
    BY <1>0, <1>4 DEF Translate
  <2> QED BY <2>1, WalkIgnoresTlb
<1> QED BY <1>1, <1>2, <1>3, <1>4

\* A hart that has flushed since the last store to a page table cannot tell that
\* it has a TLB, whatever the other harts' walks mark meanwhile (mmu_translate).
THEOREM TransparentCorrect == Spec => []TlbTransparent
<1>1. IInv => TlbTransparent
  <2> SUFFICES ASSUME IInv, NEW h \in fresh, NEW c \in Contexts, NEW vpn \in Vpns,
                      NEW acc \in Accesses
               PROVE  /\ Translate(satp[h], c, mem, tlb[h], vpn, acc).pa
                             = Translate(satp[h], c, mem, Empty, vpn, acc).pa
                      /\ Translate(satp[h], c, mem, tlb[h], vpn, acc).mem
                             = Translate(satp[h], c, mem, Empty, vpn, acc).mem
    BY DEF TlbTransparent
  <2>1. mem \in Memory
    BY DEF IInv, Shape
  <2>2. tlb[h][Slot(vpn)] # NoEntry => Backed(mem, satp[h], tlb[h][Slot(vpn)])
    BY SlotInRange DEF IInv, FreshBacked, Slots
  <2> QED BY <2>1, <2>2, BackedTransparent, SMT
<1> QED BY <1>1, Invariance, PTL

-----------------------------------------------------------------------------
(* Translating twice is translating once.                                  *)

\* A translation that changes nothing gives the same again; a fill hits.
LEMMA TwiceIsOnce ==
    ASSUME NEW sat, NEW c, NEW m \in Memory, NEW t, IsTlb(t),
           NEW vpn \in Vpns, NEW acc \in Accesses, NEW once,
           once = Translate(sat, c, m, t, vpn, acc)
    PROVE  Translate(sat, c, once.mem, once.tlb, vpn, acc) = once
<1>1. CASE \E pa : once = Result(pa, m, t)
  <2>1. once.mem = m /\ once.tlb = t
    BY <1>1 DEF Result
  <2> QED BY <2>1, Zenon
<1>2. CASE ~(\E pa : once = Result(pa, m, t))
  <2>1. Fills(once, sat, c, m, t, vpn, acc) /\ ~(EffPriv(c, acc) = M \/ sat.mode = "bare")
        /\ Canonical(vpn)
    BY <1>2, TranslateCases, SMT
  <2>2. PICK e, m2 : /\ once = Result(e.ppn, m2, [t EXCEPT ![Slot(vpn)] = e])
                     /\ e.vpn = vpn /\ e.asid = sat.asid /\ (acc = "store" => "D" \in e.flags)
                     /\ PermOk(c, e.flags, acc, EffPriv(c, acc))
    BY <2>1, Zenon DEF Fills
  <2> DEFINE t2 == [t EXCEPT ![Slot(vpn)] = e]
  <2>3. t2[Slot(vpn)] = e
    BY SlotInRange DEF Slots, IsTlb
  <2> HIDE DEF t2
  <2>4. Hit(sat, t2, vpn, acc)
    BY <2>2, <2>3 DEF Hit
  <2>5. Translate(sat, c, m2, t2, vpn, acc) = Result(e.ppn, m2, t2)
    BY <2>1, <2>2, <2>3, <2>4 DEF Translate
  <2>6. once.mem = m2 /\ once.tlb = t2 /\ once = Result(e.ppn, m2, t2)
    BY <2>2 DEF Result, t2
  <2> QED BY <2>5, <2>6
<1> QED BY <1>1, <1>2

\* The JIT's probe of an address (jit.c) leaves the access it precedes nothing
\* to change, stale entries or not.
THEOREM ProbeCorrect == Spec => []ProbeIdempotent
<1>1. IInv => ProbeIdempotent
  <2> SUFFICES ASSUME IInv, NEW h \in Harts, NEW c \in Contexts, NEW vpn \in Vpns,
                      NEW acc \in Accesses
               PROVE  LET once == Translate(satp[h], c, mem, tlb[h], vpn, acc)
                      IN  Translate(satp[h], c, once.mem, once.tlb, vpn, acc) = once
    BY DEF ProbeIdempotent
  <2>1. mem \in Memory /\ IsTlb(tlb[h])
    BY DEF IInv, Shape, AreTlbs, IsTlb
  <2> DEFINE sat == satp[h]
             t == tlb[h]
  <2> HIDE DEF sat, t
  <2> QED BY <2>1, TwiceIsOnce DEF sat, t
<1> QED BY <1>1, Invariance, PTL
=============================================================================
