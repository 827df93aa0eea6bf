---------------------------- MODULE Reservation ----------------------------
(***************************************************************************)
(* RV-A on several harts: load-reserved / store-conditional, the AMOs, and  *)
(* plain stores that void reservations (cpu.c).  The guest program modelled *)
(* keeps counters: LR then SC of the value read plus one, amoadd of one,    *)
(* and stores or amoswaps of zero, on units of one or two words.  Harts     *)
(* interleave instruction by instruction in any order, which includes the   *)
(* engine's round robin.                                                    *)
(*                                                                          *)
(* Words are numbered; a span of 1 is an access inside one word, a span of  *)
(* 2 a doubleword access (RV64) or a misaligned plain store that crosses    *)
(* into the next word.                                                      *)
(***************************************************************************)
EXTENDS Integers

CONSTANTS
    NHarts,   \* plat->nharts
    NWords,   \* words of RAM, an even number
    Modulus,  \* word width: 2^32 in the code
    Spans     \* the access spans the guest uses: {1}, or {1, 2}

ASSUME NHartsAssumption  == NHarts \in Nat \ {0}
ASSUME NWordsAssumption  == NWords \in Nat \ {0} /\ NWords % 2 = 0
ASSUME ModulusAssumption == Modulus \in Nat \ {0}
ASSUME SpansAssumption   == Spans \subseteq {1, 2}

VARIABLES
    memory,         \* RAM, one value per word
    reserve_valid,  \* harts[h].reserve_valid
    reserve_addr,   \* harts[h].reserve_addr
    loaded,         \* what each hart's last LR read, in its registers
    watch           \* history: the words a hart's last LR read, until one of
                    \* them is written or the LR/SC sequence ends

resVars == <<memory, reserve_valid, reserve_addr, loaded, watch>>

Harts  == 0 .. NHarts - 1
Words  == 0 .. NWords - 1
Values == 0 .. Modulus - 1

Cover(addr, span) == addr .. addr + span - 1

\* Atomics are naturally aligned, or they trap and change nothing.
AmoAligned(addr, span) == addr % span = 0

ResInit ==
    /\ memory = [w \in Words |-> 0]
    /\ reserve_valid = [h \in Harts |-> FALSE]
    /\ reserve_addr = [h \in Harts |-> 0]
    /\ loaded = [h \in Harts |-> [w \in Words |-> 0]]
    /\ watch = [h \in Harts |-> {}]

\* Mutant: only the storing hart's own reservation is voided.
BrokenOwn(h, addr) == [g \in Harts |-> reserve_valid[g] /\ (g = h => reserve_addr[g] # addr)]

\* break_reservation: every hart's reservation on the word at addr goes.
Broken(h, addr) == [g \in Harts |-> reserve_valid[g] /\ reserve_addr[g] # addr]

\* History of a write to some words.
Unwatch(words) == [g \in Harts |-> IF watch[g] \cap words = {} THEN watch[g] ELSE {}]

WriteZero(words) == [w \in Words |-> IF w \in words THEN 0 ELSE memory[w]]
WritePlusOne(words, from) ==
    [w \in Words |-> IF w \in words THEN (from[w] + 1) % Modulus ELSE memory[w]]

\* LR.W / LR.D.
LoadReserved(h, addr, span) ==
    /\ AmoAligned(addr, span)
    /\ reserve_valid' = [reserve_valid EXCEPT ![h] = TRUE]
    /\ reserve_addr' = [reserve_addr EXCEPT ![h] = addr]
    /\ loaded' = [loaded EXCEPT
           ![h] = [w \in Words |-> IF w \in Cover(addr, span) THEN memory[w] ELSE @[w]]]
    /\ watch' = [watch EXCEPT ![h] = Cover(addr, span)]
    /\ UNCHANGED memory

\* Mutant: a successful SC voids only its own reservation.
StoreConditionalOwn(h, addr, span) ==
    /\ AmoAligned(addr, span)
    /\ IF reserve_valid[h] /\ reserve_addr[h] = addr
       THEN /\ memory' = WritePlusOne(Cover(addr, span), loaded[h])
            /\ watch' = [Unwatch(Cover(addr, span)) EXCEPT ![h] = {}]
       ELSE /\ watch' = [watch EXCEPT ![h] = {}]
            /\ UNCHANGED memory
    /\ reserve_valid' = [reserve_valid EXCEPT ![h] = FALSE]
    /\ UNCHANGED <<reserve_addr, loaded>>

\* SC.W / SC.D of the value read plus one: it stores only while the reservation
\* holds, then voids every hart's; it always gives up its own.
StoreConditional(h, addr, span) ==
    /\ AmoAligned(addr, span)
    /\ IF reserve_valid[h] /\ reserve_addr[h] = addr
       THEN /\ memory' = WritePlusOne(Cover(addr, span), loaded[h])
            /\ reserve_valid' = [Broken(h, addr) EXCEPT ![h] = FALSE]
            /\ watch' = [Unwatch(Cover(addr, span)) EXCEPT ![h] = {}]
       ELSE /\ reserve_valid' = [reserve_valid EXCEPT ![h] = FALSE]
            /\ watch' = [watch EXCEPT ![h] = {}]
            /\ UNCHANGED memory
    /\ UNCHANGED <<reserve_addr, loaded>>

\* amoadd of one, or amoswap of zero.
Amo(h, addr, span) ==
    /\ AmoAligned(addr, span)
    /\ memory' \in {WritePlusOne(Cover(addr, span), memory), WriteZero(Cover(addr, span))}
    /\ reserve_valid' = Broken(h, addr)
    /\ watch' = Unwatch(Cover(addr, span))
    /\ UNCHANGED <<reserve_addr, loaded>>

\* A plain store of zero: the reservation is broken first, and the write is
\* dropped when it runs past the end of RAM.
Store(h, addr, span) ==
    /\ reserve_valid' = Broken(h, addr)
    /\ IF Cover(addr, span) \subseteq Words
       THEN memory' = WriteZero(Cover(addr, span)) /\ watch' = Unwatch(Cover(addr, span))
       ELSE UNCHANGED <<memory, watch>>
    /\ UNCHANGED <<reserve_addr, loaded>>

\* hsm_enter, when HSM starts or resumes the hart.
HsmEnterHart(h) ==
    /\ reserve_valid' = [reserve_valid EXCEPT ![h] = FALSE]
    /\ watch' = [watch EXCEPT ![h] = {}]
    /\ UNCHANGED <<memory, reserve_addr, loaded>>

ResNext ==
    \E h \in Harts :
        \/ \E addr \in Words, span \in Spans :
              \/ LoadReserved(h, addr, span)
              \/ StoreConditional(h, addr, span)
              \/ Amo(h, addr, span)
              \/ Store(h, addr, span)
        \/ HsmEnterHart(h)

ResSpec == ResInit /\ [][ResNext]_resVars

-----------------------------------------------------------------------------
(* Properties.                                                              *)

\* Every variable has its type; reserve_addr is a word of RAM.
ResTypeOK ==
    /\ memory \in [Words -> Values]
    /\ reserve_valid \in [Harts -> BOOLEAN]
    /\ reserve_addr \in [Harts -> Words]
    /\ loaded \in [Harts -> [Words -> Values]]
    /\ watch \in [Harts -> SUBSET Words]

\* break_reservation, exact in both directions: a hart's SC can succeed exactly
\* while nothing it read with LR has been written by any hart since.  It neither
\* survives a sibling's store, AMO or successful SC nor is lost without one.
ReservationExact ==
    \A h \in Harts : reserve_valid[h] <=> watch[h] # {}

\* break_reservation's own claim: "a store to the reserved word breaks any
\* outstanding LR reservation, so a later SC to it fails", at every access width.
ReservationSound ==
    \A h \in Harts : reserve_valid[h] => watch[h] # {}

\* Units of the abstract memory: the words one aligned access covers.
Units == {Cover(addr, span) : addr \in Words, span \in Spans}

Atomic == INSTANCE AtomicMemory WITH cells <- memory

\* LR/SC and AMO increments are atomic: the memory the harts share behaves as one
\* whose increments happen at an instant, so no update is ever lost.
RefinesAtomicMemory == Atomic!Spec
=============================================================================
