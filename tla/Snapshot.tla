------------------------------ MODULE Snapshot ------------------------------
(***************************************************************************)
(* The libquanta handle as a value: stepping it, copying it, putting it    *)
(* back and keeping it in a file (quanta.c).                               *)
(*                                                                         *)
(* v is what the guest can observe: its harts, the scheduler's cursor, the *)
(* clock, memory and the cached disk image.  A handle adds what belongs to *)
(* the host: the decode caches, the transmit callback and the backing file.*)
(* Pointers carry the process they are valid in.                           *)
(***************************************************************************)
EXTENDS Integers, Sequences

CONSTANTS
    Boots,       \* records: code, nharts, what may be called and what goes wrong
    Vals,        \* values of a register, of the data word and of a sector: 0..Vals-1
    Patched      \* the code cell a "patch" store overwrites

None == "none"
NullTx == <<0, None>>

-----------------------------------------------------------------------------
(* The scheduler and the instructions the properties tell apart. *)

PlatTick(v) == IF v.sched = 0 THEN [v EXCEPT !.mtime = @ + 1] ELSE v

\* Loops of the small programs branch back until this time.
LoopUntil == 6

Exec(v, i, op) ==
    LET x == v.harts[i].x
        n == [v EXCEPT !.harts[i].pc = @ + 1]
    IN CASE op = "inc"   -> [n EXCEPT !.harts[i].x = (x + 1) % Vals]
         [] op = "store" -> [n EXCEPT !.data = x]
         [] op = "load"  -> [n EXCEPT !.harts[i].x = v.data]
         [] op = "time"  -> [n EXCEPT !.harts[i].x = v.mtime % Vals]
         [] op = "write" -> IF v.disk = <<>> THEN n ELSE [n EXCEPT !.disk[1] = x]
         [] op = "read"  -> [n EXCEPT !.harts[i].x = IF v.disk = <<>> THEN 0 ELSE v.disk[1]]
         [] op = "patch" -> [n EXCEPT !.code[Patched] = "inc"]
         [] op = "back"  -> IF v.mtime < LoopUntil THEN [n EXCEPT !.harts[i].pc = 1] ELSE n
         [] op = "fence" -> n
         [] OTHER        -> [v EXCEPT !.harts[i].halt = op]    \* exit, ebreak

\* Every hart has stopped: a fault is reported ahead of a clean exit.
MachinePollHalt(v) ==
    LET all == {v.harts[i].halt : i \in DOMAIN v.harts}
    IN [v EXCEPT !.halt = IF "run" \in all THEN @
                          ELSE IF "ebreak" \in all THEN "ebreak" ELSE "exit"]

Turn(v, op) ==
    LET i == v.sched + 1
        w == IF v.harts[i].halt = "run" THEN Exec(v, i, op) ELSE v
    IN MachinePollHalt([w EXCEPT !.sched = (@ + 1) % Len(v.harts)])

\* The machine the caches must not be told from: it fetches from memory.
RefStep(v) ==
    IF v.halt # "run" THEN v
    ELSE LET t == PlatTick(v) IN Turn(t, t.code[t.harts[t.sched + 1].pc])

-----------------------------------------------------------------------------
(* A handle. *)

NoCache(v) == [i \in DOMAIN v.harts |-> [c \in DOMAIN v.code |-> None]]

StartAt(boot) ==
    LET v == [harts |-> [i \in 1..boot.nharts |-> [pc |-> 1, x |-> i - 1, halt |-> "run"]],
              sched |-> 0, mtime |-> 0, halt |-> "run",
              code |-> boot.code, data |-> 0, disk |-> <<>>]
    IN [loaded |-> TRUE, v |-> v, dc |-> NoCache(v), tx |-> NullTx, writable |-> FALSE]

\* A handle before anything is loaded: its machine is arbitrary, so it is
\* given the caller's boot and marked.
Fresh(boot) == [StartAt(boot) EXCEPT !.loaded = FALSE]

\* What the hart at the cursor fetches: the cached decoding when there is one.
Fetch(q) ==
    LET i == q.v.sched + 1
        pc == q.v.harts[i].pc
    IN IF q.dc[i][pc] # None THEN q.dc[i][pc] ELSE q.v.code[pc]

Stale(q) ==
    LET i == q.v.sched + 1
    IN q.v.halt = "run" /\ q.v.harts[i].halt = "run" /\ Fetch(q) # q.v.code[q.v.harts[i].pc]

\* Sectors written while a backing file is open reach the file in the same step.
WritesThrough(q) ==
    LET i == q.v.sched + 1
    IN /\ q.v.halt = "run" /\ q.v.harts[i].halt = "run"
       /\ Fetch(q) = "write" /\ q.writable /\ q.v.disk # <<>>

QuantaStep(q) ==
    LET i == q.v.sched + 1
        pc == q.v.harts[i].pc
        op == Fetch(q)
        cached == IF q.v.harts[i].halt # "run" THEN q.dc
                  ELSE IF op = "fence" THEN [q.dc EXCEPT ![i] = [c \in DOMAIN @ |-> None]]
                  ELSE [q.dc EXCEPT ![i][pc] = op]
    IN IF ~q.loaded \/ q.v.halt # "run" THEN q
       ELSE [q EXCEPT !.v = Turn(PlatTick(@), op), !.dc = cached]

AttachDcaches(q) == [q EXCEPT !.dc = NoCache(q.v)]

\* Mutant: a previous file stays open behind a read-only image.
QuantaAttachDiskKeepsFile(q, image, writable) ==
    [q EXCEPT !.v.disk = image, !.writable = @ \/ writable]

\* A previous image and its file are let go.
QuantaAttachDisk(q, image, writable) ==
    [q EXCEPT !.v.disk = image, !.writable = writable]

-----------------------------------------------------------------------------
(* Snapshots.  was is what the machine should be, for the properties only. *)

QuantaSnapshot(q, was) ==
    [harts |-> q.v.harts, sched |-> q.v.sched, halt |-> q.v.halt,
     code |-> q.v.code, data |-> q.v.data,
     mtime |-> q.v.mtime, tx |-> q.tx, disk |-> q.v.disk, was |-> was]

Restorable(q, s) == q.loaded /\ Len(s.disk) = Len(q.v.disk)

\* Mutant: the scheduler's cursor stays where it is.
QuantaRestoreKeepsCursor(q, s) ==
    IF ~Restorable(q, s) THEN q
    ELSE AttachDcaches(
           [q EXCEPT !.v = [harts |-> s.harts, sched |-> q.v.sched, halt |-> s.halt,
                            code |-> s.code, data |-> s.data,
                            mtime |-> s.mtime, disk |-> s.disk],
                     !.tx = s.tx])

\* Mutant: memory is put back before the sizes are compared.
QuantaRestoreChecksLate(q, s) ==
    IF q.loaded /\ ~Restorable(q, s) THEN [q EXCEPT !.v.code = s.code, !.v.data = s.data]
    ELSE IF ~Restorable(q, s) THEN q
    ELSE AttachDcaches(
           [q EXCEPT !.v = [harts |-> s.harts, sched |-> s.sched, halt |-> s.halt,
                            code |-> s.code, data |-> s.data,
                            mtime |-> s.mtime, disk |-> s.disk],
                     !.tx = s.tx])

\* Into the live buffers, which must have the sizes of the snapshot's; the
\* backing file and its mode stay, the caches are flushed.  The device
\* registers come back with the transmit callback they were copied with.
QuantaRestore(q, s) ==
    IF ~Restorable(q, s) THEN q
    ELSE AttachDcaches(
           [q EXCEPT !.v = [harts |-> s.harts, sched |-> s.sched, halt |-> s.halt,
                            code |-> s.code, data |-> s.data,
                            mtime |-> s.mtime, disk |-> s.disk],
                     !.tx = s.tx])

\* A file holds the snapshot, the layout of the build that wrote it, and
\* whether all of it was written.
SnapshotWrite(s, build, whole) == [snap |-> s, build |-> build, whole |-> whole]

NoFile == [build |-> None]

\* snapshot_read returns a snapshot.
Readable(f, build) == f.build # None /\ f.build = build /\ f.whole

\* A live machine of the snapshot's sizes is made, without a backing file,
\* and restored into.
QuantaLoadSnapshot(q, s) ==
    QuantaRestore([q EXCEPT !.loaded = TRUE, !.writable = FALSE,
                            !.v = [@ EXCEPT !.disk = s.disk, !.harts = s.harts]], s)
=============================================================================
