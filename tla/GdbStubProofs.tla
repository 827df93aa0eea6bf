---------------------------- MODULE GdbStubProofs ----------------------------
(***************************************************************************)
(* What one command of the debugger does to the machine, for any program,  *)
(* number of harts and table sizes: a snapshot gives its machine back, a   *)
(* replay arrives where the run did, and every packet handler keeps the    *)
(* session on the line it recorded.  GdbProofs builds on it.               *)
(***************************************************************************)
EXTENDS Gdb, FiniteSetTheorems, WellFoundedInduction, TLAPS

\* Induction, on a set of naturals.
LEMMA SetInduction ==
    ASSUME NEW S, 0 \in S, \A n \in Nat : n \in S => n + 1 \in S
    PROVE  \A n \in Nat : n \in S
<1> DEFINE T == Nat \ S
<1>1. SUFFICES ASSUME T # {} PROVE FALSE
  OBVIOUS
<1>2. PICK x \in T : \A y \in T : ~(<<y, x>> \in OpToRel(<, Nat))
  <2>1. T \subseteq Nat OBVIOUS
  <2> QED BY <1>1, <2>1, WFMin, NatLessThanWellFounded, Zenon
<1>3. x # 0 /\ x - 1 \in Nat
  OBVIOUS
<1>4. x - 1 \notin T
  <2>1. SUFFICES ASSUME x - 1 \in T PROVE FALSE OBVIOUS
  <2>2. ~(<<x - 1, x>> \in OpToRel(<, Nat)) BY <1>2, <2>1, Zenon
  <2> QED BY <2>2, <1>3 DEF OpToRel
<1> QED BY <1>3, <1>4

-----------------------------------------------------------------------------
(* The machine. *)

\* s is a sequence of n elements.
Tuple(s, n) == s = [i \in 1..n |-> s[i]]

LEMMA TupleLen == ASSUME NEW s, NEW n \in Nat, Tuple(s, n) PROVE Len(s) = n
BY DEF Tuple

IsSeq(s) == \E S : s \in Seq(S)

LEMMA SeqLen == ASSUME NEW s, IsSeq(s) PROVE Len(s) \in Nat /\ DOMAIN s = 1..Len(s)
BY DEF IsSeq

LEMMA SeqExcept ==
    ASSUME NEW s, IsSeq(s), NEW i, NEW x
    PROVE  IsSeq([s EXCEPT ![i] = x]) /\ Len([s EXCEPT ![i] = x]) = Len(s)
<1>1. PICK S : s \in Seq(S)
  BY DEF IsSeq
<1> DEFINE U == S \cup {x}
<1>2. s \in Seq(U)
  BY <1>1
<1>3. \A j \in DOMAIN s : s[j] \in U
  BY <1>1
<1>4. x \in U
  OBVIOUS
<1> HIDE DEF U
<1> DEFINE t == [s EXCEPT ![i] = x]
<1>5. DOMAIN s = 1..Len(s) /\ Len(s) \in Nat
  BY <1>2
<1>6. t \in [1..Len(s) -> U]
  BY <1>3, <1>4, <1>5, Zenon
<1> HIDE DEF t
<1>7. t \in Seq(U) /\ Len(t) = Len(s)
  BY <1>5, <1>6
<1> QED BY <1>7, Zenon DEF IsSeq, t

\* The fields of struct quanta the model keeps.
IsMachine(v) ==
    v = [harts |-> v.harts, sched |-> v.sched, mtime |-> v.mtime, halt |-> v.halt,
         code |-> v.code, data |-> v.data, disk |-> v.disk]

\* A machine of n harts.
Sized(v, n) == IsMachine(v) /\ Tuple(v.harts, n) /\ v.sched \in 0..n - 1 /\ IsSeq(v.disk)

\* The disk after hart i has executed op.
DiskAfter(v, i, op) == IF op = "write" /\ v.disk # <<>>
                       THEN [v.disk EXCEPT ![1] = v.harts[i].x] ELSE v.disk

\* An instruction leaves the number of harts and the cursor, and the disk unless
\* it writes it.
LEMMA ExecSized ==
    ASSUME NEW n \in Nat, NEW v, Sized(v, n), NEW i, NEW op
    PROVE  /\ Sized(Exec(v, i, op), n)
           /\ Exec(v, i, op).disk = DiskAfter(v, i, op)
           /\ Len(DiskAfter(v, i, op)) = Len(v.disk)
<1>1. IsMachine(Exec(v, i, op))
  BY Zenon DEF Exec, IsMachine, Sized
<1>2. Tuple(Exec(v, i, op).harts, n)
  BY Zenon DEF Exec, IsMachine, Sized, Tuple
<1>3. Exec(v, i, op).sched = v.sched
  BY DEF Exec, IsMachine, Sized
<1>4. Exec(v, i, op).disk = DiskAfter(v, i, op)
  BY DEF Exec, IsMachine, Sized, DiskAfter
<1>5. IsSeq(DiskAfter(v, i, op)) /\ Len(DiskAfter(v, i, op)) = Len(v.disk)
  BY SeqExcept, Zenon DEF DiskAfter, Sized
<1> QED BY <1>1, <1>2, <1>3, <1>4, <1>5 DEF Sized

\* The hart at the cursor takes its turn with op, and the cursor moves on.
LEMMA TurnSized ==
    ASSUME NEW n \in Nat \ {0}, NEW v, Sized(v, n), NEW op
    PROVE  /\ Sized(Turn(v, op), n)
           /\ Turn(v, op).disk = IF v.harts[v.sched + 1].halt = "run"
                                 THEN DiskAfter(v, v.sched + 1, op) ELSE v.disk
           /\ Len(Turn(v, op).disk) = Len(v.disk)
<1> DEFINE i == v.sched + 1
           w == IF v.harts[i].halt = "run" THEN Exec(v, i, op) ELSE v
           u == [w EXCEPT !.sched = (@ + 1) % Len(v.harts)]
<1>1. /\ Sized(w, n)
      /\ w.disk = IF v.harts[i].halt = "run" THEN DiskAfter(v, i, op) ELSE v.disk
      /\ Len(w.disk) = Len(v.disk)
  <2>1. CASE v.harts[i].halt = "run"
    <3>1. w = Exec(v, i, op)
      BY <2>1
    <3>2. /\ Sized(Exec(v, i, op), n)
          /\ Exec(v, i, op).disk = DiskAfter(v, i, op)
          /\ Len(DiskAfter(v, i, op)) = Len(v.disk)
      <4>1. n \in Nat
        OBVIOUS
      <4> HIDE DEF i
      <4> QED BY <4>1, ExecSized, Zenon
    <3> QED BY <2>1, <3>1, <3>2, Zenon
  <2>2. CASE v.harts[i].halt # "run"
    BY <2>2
  <2> QED BY <2>1, <2>2
<1>2. Len(v.harts) = n
  BY TupleLen DEF Sized
<1>3. Turn(v, op) = MachinePollHalt(u)
  BY DEF Turn
<1> HIDE DEF w, i
<1>4. Sized(u, n) /\ u.disk = w.disk
  <2>1. (w.sched + 1) % n \in 0..n - 1
    BY <1>1 DEF Sized
  <2> QED BY <1>1, <1>2, <2>1 DEF Sized, IsMachine
<1> HIDE DEF u
<1>5. Sized(MachinePollHalt(u), n) /\ MachinePollHalt(u).disk = u.disk
  <2> DEFINE h == IF "run" \in {u.harts[j].halt : j \in DOMAIN u.harts} THEN u.halt
                  ELSE IF "ebreak" \in {u.harts[j].halt : j \in DOMAIN u.harts} THEN "ebreak" ELSE "exit"
  <2>1. MachinePollHalt(u) = [u EXCEPT !.halt = h]
    BY DEF MachinePollHalt
  <2> HIDE DEF h
  <2> QED BY <1>4, <2>1 DEF Sized, IsMachine
<1> QED BY <1>1, <1>3, <1>4, <1>5 DEF i

LEMMA TickSized ==
    ASSUME NEW n \in Nat, NEW v, Sized(v, n)
    PROVE  /\ Sized(PlatTick(v), n) /\ PlatTick(v).harts = v.harts
           /\ PlatTick(v).sched = v.sched /\ PlatTick(v).code = v.code /\ PlatTick(v).disk = v.disk
BY DEF PlatTick, Sized, IsMachine

-----------------------------------------------------------------------------
(* The handle. *)

HandleFields == {"loaded", "v", "dc", "tx", "writable"}

IsHandle(h, n) == DOMAIN h = HandleFields /\ Sized(h.v, n)

\* quanta_step: a step on a fresh decoding is the reference step, and what it
\* does to the disk is what WritesThrough passes on to the file.
LEMMA StepExact ==
    ASSUME NEW n \in Nat \ {0}, NEW h, IsHandle(h, n), h.loaded, h.v.halt = "run"
    PROVE  /\ IsHandle(QuantaStep(h), n)
           /\ QuantaStep(h).loaded = h.loaded /\ QuantaStep(h).writable = h.writable
           /\ Len(QuantaStep(h).v.disk) = Len(h.v.disk)
           /\ ~Stale(h) => QuantaStep(h).v = RefStep(h.v)
           /\ h.writable => QuantaStep(h).v.disk = IF WritesThrough(h)
                                THEN [h.v.disk EXCEPT ![1] = QuantaStep(h).v.disk[1]] ELSE h.v.disk
<1> DEFINE v == h.v
           t == PlatTick(v)
           i == v.sched + 1
           op == Fetch(h)
<1>0. Sized(v, n) /\ v.halt = "run"
  BY DEF IsHandle
<1>1. Sized(t, n) /\ t.harts = v.harts /\ t.sched = v.sched /\ t.code = v.code /\ t.disk = v.disk
  BY <1>0, TickSized
<1> HIDE DEF t
<1>2. PICK c : QuantaStep(h) = [h EXCEPT !.v = Turn(t, op), !.dc = c]
  BY Zenon DEF QuantaStep, t
<1> HIDE DEF v, op
<1>3. Sized(Turn(t, op), n) /\ Len(Turn(t, op).disk) = Len(v.disk)
  BY <1>1, TurnSized
<1>4. /\ DOMAIN QuantaStep(h) = HandleFields /\ QuantaStep(h).v = Turn(t, op)
      /\ QuantaStep(h).loaded = h.loaded /\ QuantaStep(h).writable = h.writable
  BY <1>2, Zenon DEF IsHandle, HandleFields
<1>5. IsHandle(QuantaStep(h), n)
  BY <1>3, <1>4 DEF IsHandle
<1>6. ASSUME ~Stale(h) PROVE QuantaStep(h).v = RefStep(v)
  <2>1. RefStep(v) = Turn(t, v.code[v.harts[i].pc])
    BY <1>0, <1>1, Zenon DEF RefStep, t
  <2>2. CASE v.harts[i].halt = "run"
    <3>1. op = v.code[v.harts[i].pc]
      BY <1>0, <1>6, <2>2 DEF Stale, v, op
    <3> QED BY <1>4, <2>1, <3>1
  <2>3. CASE v.harts[i].halt # "run"
    <3>1. \A o, p : Turn(t, o) = Turn(t, p)
      BY <1>1, <2>3 DEF Turn
    <3>2. QuantaStep(h).v = Turn(t, op)
      BY <1>4
    <3> QED BY <2>1, <3>1, <3>2, Zenon
  <2> QED BY <2>2, <2>3
<1>7. ASSUME h.writable
      PROVE  QuantaStep(h).v.disk = IF WritesThrough(h)
                 THEN [v.disk EXCEPT ![1] = QuantaStep(h).v.disk[1]] ELSE v.disk
  <2>1. QuantaStep(h).v.disk = IF v.harts[i].halt = "run" THEN DiskAfter(t, i, op) ELSE v.disk
    <3>1. Turn(t, op).disk = IF t.harts[t.sched + 1].halt = "run"
                             THEN DiskAfter(t, t.sched + 1, op) ELSE t.disk
      BY <1>1, TurnSized
    <3> QED BY <1>1, <1>4, <3>1, Zenon
  <2>2. WritesThrough(h) <=> v.harts[i].halt = "run" /\ op = "write" /\ v.disk # <<>>
    BY <1>0, <1>7 DEF WritesThrough, v, op
  <2> QED BY <1>1, <2>1, <2>2 DEF DiskAfter
<1> QED BY <1>3, <1>4, <1>5, <1>6, <1>7 DEF v

\* What a snapshot holds of the machine.
Saved(s) == [harts |-> s.harts, sched |-> s.sched, halt |-> s.halt, code |-> s.code,
             data |-> s.data, mtime |-> s.mtime, disk |-> s.disk]

\* A snapshot holds the whole machine.
LEMMA SnapshotSaves ==
    ASSUME NEW n, NEW h, IsHandle(h, n), NEW was
    PROVE  Saved(QuantaSnapshot(h, was)) = h.v /\ QuantaSnapshot(h, was).was = was
<1>1. QuantaSnapshot(h, was).was = was
  BY DEF QuantaSnapshot
<1>2. Saved(QuantaSnapshot(h, was)) = h.v
  BY DEF QuantaSnapshot, Saved, IsHandle, Sized, IsMachine
<1> QED BY <1>1, <1>2

\* quanta_restore puts all of it back.
LEMMA RestoreExact ==
    ASSUME NEW n, NEW h, IsHandle(h, n), NEW s, Sized(Saved(s), n), Restorable(h, s)
    PROVE  /\ IsHandle(QuantaRestore(h, s), n) /\ QuantaRestore(h, s).v = Saved(s)
           /\ QuantaRestore(h, s).loaded = h.loaded
           /\ QuantaRestore(h, s).writable = h.writable
<1> DEFINE r == [h EXCEPT !.v = Saved(s), !.tx = s.tx]
<1>1. QuantaRestore(h, s) = [r EXCEPT !.dc = NoCache(r.v)]
  BY Zenon DEF QuantaRestore, AttachDcaches, Saved
<1>2. PICK c : QuantaRestore(h, s) = [r EXCEPT !.dc = c]
  BY <1>1, Zenon
<1>3. /\ DOMAIN QuantaRestore(h, s) = HandleFields /\ QuantaRestore(h, s).v = Saved(s)
      /\ QuantaRestore(h, s).loaded = h.loaded /\ QuantaRestore(h, s).writable = h.writable
  BY <1>2 DEF IsHandle, HandleFields
<1> QED BY <1>3 DEF IsHandle

\* quanta_load_snapshot, into a handle with nothing in it.
LoadedFrom(g, s, n) ==
    IsHandle(g, n) /\ g.v = Saved(s) /\ g.loaded = TRUE /\ g.writable = FALSE

LEMMA LoadExact ==
    ASSUME NEW n, NEW h, IsHandle(h, n), NEW s, Sized(Saved(s), n)
    PROVE  LoadedFrom(QuantaLoadSnapshot(h, s), s, n)
<1> DEFINE g == [h EXCEPT !.loaded = TRUE, !.writable = FALSE,
                          !.v = [@ EXCEPT !.disk = s.disk, !.harts = s.harts]]
           w == [h.v EXCEPT !.disk = s.disk, !.harts = s.harts]
<1>1. DOMAIN g = HandleFields /\ g.loaded = TRUE /\ g.v = w /\ g.writable = FALSE
  BY DEF IsHandle, HandleFields
<1>2. Sized(w, n) /\ w.disk = s.disk
  <2>1. w = [harts |-> s.harts, sched |-> h.v.sched, mtime |-> h.v.mtime, halt |-> h.v.halt,
             code |-> h.v.code, data |-> h.v.data, disk |-> s.disk]
    <3>1. \A v, x, y : IsMachine(v) => [v EXCEPT !.disk = x, !.harts = y] =
              [harts |-> y, sched |-> v.sched, mtime |-> v.mtime, halt |-> v.halt,
               code |-> v.code, data |-> v.data, disk |-> x]
      <4> SUFFICES ASSUME NEW v, NEW x, NEW y, IsMachine(v)
                   PROVE  [v EXCEPT !.disk = x, !.harts = y] =
              [harts |-> y, sched |-> v.sched, mtime |-> v.mtime, halt |-> v.halt,
               code |-> v.code, data |-> v.data, disk |-> x]
        OBVIOUS
      <4>1. PICK u : u = [v EXCEPT !.disk = x]
        BY Zenon
      <4>2. [v EXCEPT !.disk = x, !.harts = y] = [u EXCEPT !.harts = y]
        BY <4>1 DEF IsMachine
      <4>3. u = [harts |-> v.harts, sched |-> v.sched, mtime |-> v.mtime, halt |-> v.halt,
                 code |-> v.code, data |-> v.data, disk |-> x]
        BY <4>1 DEF IsMachine
      <4> QED BY <4>2, <4>3
    <3>2. IsMachine(h.v)
      BY DEF IsHandle, Sized
    <3> QED BY <3>1, <3>2, Zenon
  <2>2. Tuple(s.harts, n) /\ h.v.sched \in 0..n - 1 /\ IsSeq(s.disk)
    BY DEF Sized, Saved, IsHandle
  <2> QED BY <2>1, <2>2 DEF Sized, IsMachine
<1> HIDE DEF w
<1>3. QuantaLoadSnapshot(h, s) = QuantaRestore(g, s)
  BY DEF QuantaLoadSnapshot
<1>4. IsHandle(g, n) /\ g.loaded = TRUE /\ g.writable = FALSE /\ g.v.disk = s.disk
  BY <1>1, <1>2 DEF IsHandle
<1> HIDE DEF g
<1>5. Restorable(g, s)
  BY <1>4 DEF Restorable
<1> QED BY <1>3, <1>4, <1>5, RestoreExact DEF LoadedFrom

-----------------------------------------------------------------------------
(* Where the reference machine gets to. *)

\* n steps of the reference machine lead from v to w.
Path(v, n, w) ==
    \E f : f[0] = v /\ f[n] = w /\ \A k \in 0..n - 1 : f[k + 1] = RefStep(f[k])

LEMMA PathStart == ASSUME NEW v PROVE Path(v, 0, v)
<1> DEFINE f == [k \in {0} |-> v]
<1>1. f[0] = v /\ \A k \in 0..0 - 1 : f[k + 1] = RefStep(f[k])
  OBVIOUS
<1> HIDE DEF f
<1> QED BY <1>1, Zenon DEF Path

LEMMA PathStep ==
    ASSUME NEW n \in Nat, NEW v, NEW w, Path(v, n, w)
    PROVE  Path(v, n + 1, RefStep(w))
<1>1. PICK f : f[0] = v /\ f[n] = w /\ \A k \in 0..n - 1 : f[k + 1] = RefStep(f[k])
  BY Zenon DEF Path
<1> DEFINE g == [k \in 0..n + 1 |-> IF k = n + 1 THEN RefStep(w) ELSE f[k]]
<1>2. g[0] = v /\ g[n + 1] = RefStep(w)
  BY <1>1
<1>3. ASSUME NEW k \in 0..(n + 1) - 1 PROVE g[k + 1] = RefStep(g[k])
  <2>1. CASE k = n
    <3>1. g[k + 1] = RefStep(w) /\ g[k] = w
      BY <1>1, <2>1
    <3> QED BY <3>1
  <2>2. CASE k # n
    <3>1. g[k + 1] = f[k + 1] /\ g[k] = f[k] /\ k \in 0..n - 1
      BY <2>2
    <3> QED BY <1>1, <3>1
  <2> QED BY <2>1, <2>2
<1> HIDE DEF g
<1> QED BY <1>2, <1>3, Zenon DEF Path

\* The reference machine is deterministic.
LEMMA PathUnique ==
    ASSUME NEW n \in Nat, NEW v, NEW a, NEW b, Path(v, n, a), Path(v, n, b)
    PROVE  a = b
<1>1. PICK f : f[0] = v /\ f[n] = a /\ \A k \in 0..n - 1 : f[k + 1] = RefStep(f[k])
  BY Zenon DEF Path
<1>2. PICK g : g[0] = v /\ g[n] = b /\ \A k \in 0..n - 1 : g[k + 1] = RefStep(g[k])
  BY Zenon DEF Path
<1> DEFINE S == {k \in Nat : k <= n => f[k] = g[k]}
<1>3. 0 \in S
  BY <1>1, <1>2
<1>4. ASSUME NEW k \in Nat, k \in S PROVE k + 1 \in S
  <2>1. SUFFICES ASSUME k + 1 <= n PROVE f[k + 1] = g[k + 1]
    OBVIOUS
  <2>2. f[k] = g[k] /\ k \in 0..n - 1
    BY <1>4, <2>1
  <2> QED BY <1>1, <1>2, <2>2
<1>5. \A k \in Nat : k \in S
  <2> HIDE DEF S
  <2> QED BY <1>3, <1>4, SetInduction
<1> QED BY <1>1, <1>2, <1>5

-----------------------------------------------------------------------------
(* What the stub's code works on, and raw steps. *)

MachFields == {"q", "image", "hist", "edit", "odd", "stub"}
StubFields == {"at", "bp", "nsteps", "reverse", "lastcp", "cp", "adds", "guard", "tries",
               "reply", "quit", "execs", "cmd", "from"}

IsMach(m, n) ==
    /\ DOMAIN m = MachFields /\ DOMAIN m.stub = StubFields
    /\ IsHandle(m.q, n) /\ m.q.loaded = TRUE
    /\ m.odd \in BOOLEAN /\ m.stub.nsteps \in Nat

\* All of the stub but the step count.
SameStub(s, t) == \A f \in StubFields \ {"nsteps"} : t[f] = s[f]

\* r is further along than m: only the machine, the file and the step count have
\* changed, and on fresh code the machine is where the reference machine is.
Rolled(m, r) ==
    /\ r.hist = m.hist /\ r.edit = m.edit /\ SameStub(m.stub, r.stub)
    /\ r.stub.nsteps >= m.stub.nsteps
    /\ m.odd => r.odd
    /\ r.q.writable = m.q.writable /\ Len(r.q.v.disk) = Len(m.q.v.disk)
    /\ m.q.writable /\ m.image = m.q.v.disk => r.image = r.q.v.disk
    /\ \A h : Path(h, m.stub.nsteps, m.q.v) /\ ~r.odd => Path(h, r.stub.nsteps, r.q.v)

LEMMA RolledRefl == ASSUME NEW n, NEW m, IsMach(m, n) PROVE Rolled(m, m)
BY DEF Rolled, SameStub, IsMach

LEMMA RolledTrans ==
    ASSUME NEW n, NEW m, NEW r, NEW t, IsMach(m, n), IsMach(r, n), IsMach(t, n),
           Rolled(m, r), Rolled(r, t)
    PROVE  Rolled(m, t)
<1>1. /\ t.hist = m.hist /\ t.edit = m.edit /\ (m.odd => t.odd)
      /\ t.q.writable = m.q.writable /\ Len(t.q.v.disk) = Len(m.q.v.disk)
      /\ m.q.writable /\ m.image = m.q.v.disk => t.image = t.q.v.disk
  BY DEF Rolled
<1>2. SameStub(m.stub, t.stub)
  BY DEF Rolled, SameStub
<1>3. t.stub.nsteps >= m.stub.nsteps
  BY DEF Rolled, IsMach
<1>4. \A h : Path(h, m.stub.nsteps, m.q.v) /\ ~t.odd => Path(h, t.stub.nsteps, t.q.v)
  BY DEF Rolled
<1> QED BY <1>1, <1>2, <1>3, <1>4 DEF Rolled

\* raw_step.
LEMMA RawStepRolls ==
    ASSUME NEW n \in Nat \ {0}, NEW m, IsMach(m, n)
    PROVE  /\ IsMach(RawStep(m), n) /\ Rolled(m, RawStep(m))
           /\ RawStep(m).stub.nsteps = IF m.q.v.halt = "run" THEN m.stub.nsteps + 1 ELSE m.stub.nsteps
<1>1. CASE m.q.v.halt # "run"
  <2>1. RawStep(m) = m
    BY <1>1 DEF RawStep
  <2> QED BY <1>1, <2>1, RolledRefl
<1>2. CASE m.q.v.halt = "run"
  <2> DEFINE r == QuantaStep(m.q)
             im == IF WritesThrough(m.q) THEN [m.image EXCEPT ![1] = r.v.disk[1]] ELSE m.image
             od == m.odd \/ Stale(m.q)
             t == RawStep(m)
  <2>1. /\ IsHandle(r, n) /\ r.loaded = TRUE /\ r.writable = m.q.writable
        /\ Len(r.v.disk) = Len(m.q.v.disk)
        /\ ~Stale(m.q) => r.v = RefStep(m.q.v)
        /\ m.q.writable => r.v.disk = IF WritesThrough(m.q)
                               THEN [m.q.v.disk EXCEPT ![1] = r.v.disk[1]] ELSE m.q.v.disk
    BY <1>2, StepExact DEF IsMach
  <2>2. t = [m EXCEPT !.q = r, !.odd = od, !.stub.nsteps = @ + 1, !.image = im]
    BY <1>2 DEF RawStep
  <2>3. m.q.writable /\ m.image = m.q.v.disk => im = r.v.disk
    BY <2>1
  <2>4. od \in BOOLEAN /\ (m.odd => od) /\ (~od => ~m.odd /\ ~Stale(m.q))
    BY DEF IsMach
  <2> HIDE DEF r, im, od, t
  <2>5. /\ DOMAIN t = MachFields /\ t.q = r /\ t.odd = od /\ t.image = im
        /\ t.hist = m.hist /\ t.edit = m.edit /\ t.stub = [m.stub EXCEPT !.nsteps = @ + 1]
    BY <2>2 DEF IsMach, MachFields
  <2>6. /\ DOMAIN t.stub = StubFields /\ t.stub.nsteps = m.stub.nsteps + 1
        /\ SameStub(m.stub, t.stub)
    BY <2>5 DEF IsMach, StubFields, SameStub
  <2>7. IsMach(t, n)
    BY <2>1, <2>4, <2>5, <2>6 DEF IsMach
  <2>8. ASSUME NEW h, Path(h, m.stub.nsteps, m.q.v), ~t.odd
        PROVE  Path(h, t.stub.nsteps, t.q.v)
    <3>1. t.q.v = RefStep(m.q.v)
      BY <2>1, <2>4, <2>5, <2>8
    <3>2. m.stub.nsteps \in Nat
      BY DEF IsMach
    <3> QED BY <2>6, <2>8, <3>1, <3>2, PathStep, Zenon
  <2>9. Rolled(m, t)
    BY <2>1, <2>3, <2>4, <2>5, <2>6, <2>8 DEF Rolled, IsMach
  <2> QED BY <1>2, <2>6, <2>7, <2>9 DEF t
<1> QED BY <1>1, <1>2

-----------------------------------------------------------------------------
(* Replay: the loop of goto_step. *)

\* f is the function Replay is defined with, up to k.
Replays(m, f, k) == f = [i \in 0..k |-> IF i = 0 THEN m ELSE RawStep(f[i - 1])]

\* There is such a function, by induction on its domain.
LEMMA ReplaysExist ==
    ASSUME NEW m
    PROVE  \A k \in Nat : \E f : Replays(m, f, k)
<1> DEFINE S == {k \in Nat : \E f : Replays(m, f, k)}
<1>1. 0 \in S
  <2> DEFINE f == [i \in 0..0 |-> m]
  <2>1. Replays(m, f, 0)
    BY DEF Replays
  <2> QED BY <2>1, Zenon
<1>2. ASSUME NEW k \in Nat, k \in S PROVE k + 1 \in S
  <2>1. PICK f : Replays(m, f, k)
    BY <1>2
  <2> DEFINE h == [i \in 0..k + 1 |-> IF i = k + 1 THEN RawStep(f[k]) ELSE f[i]]
             w == [i \in 0..k + 1 |-> IF i = 0 THEN m ELSE RawStep(h[i - 1])]
  <2>2. ASSUME NEW i \in 0..k + 1 PROVE h[i] = w[i]
    <3>1. CASE i = k + 1
      BY <3>1
    <3>2. CASE i # k + 1 /\ i # 0
      <4>1. h[i] = f[i] /\ h[i - 1] = f[i - 1]
        BY <3>2
      <4>2. f[i] = RawStep(f[i - 1])
        BY <2>1, <3>2 DEF Replays
      <4> QED BY <4>1, <4>2, <3>2
    <3>3. CASE i = 0
      BY <2>1, <3>3 DEF Replays
    <3> QED BY <3>1, <3>2, <3>3
  <2>3. Replays(m, h, k + 1)
    <3>1. h = w
      BY <2>2
    <3> QED BY <3>1 DEF Replays
  <2> HIDE DEF h
  <2> QED BY <2>3
<1> HIDE DEF S
<1>3. \A k \in Nat : k \in S
  BY <1>1, <1>2, SetInduction
<1> QED BY <1>3 DEF S

\* The reference machine from h does not halt before step k.
Runs(h, k) == \A j \in 0..k - 1 : \A w : Path(h, j, w) => w.halt = "run"

\* r is k raw steps past m, or halted on the way.
Along(m, r, k, n) ==
    /\ IsMach(r, n) /\ Rolled(m, r) /\ r.stub.nsteps <= m.stub.nsteps + k
    /\ \A h : Path(h, m.stub.nsteps, m.q.v) /\ ~r.odd /\ Runs(h, m.stub.nsteps + k)
                 => r.stub.nsteps = m.stub.nsteps + k

LEMMA AlongStart == ASSUME NEW n, NEW m, IsMach(m, n) PROVE Along(m, m, 0, n)
<1>1. Rolled(m, m)
  BY RolledRefl
<1> QED BY <1>1 DEF Along, IsMach

LEMMA AlongStep ==
    ASSUME NEW n \in Nat \ {0}, NEW k \in Nat, NEW m, IsMach(m, n), NEW r, Along(m, r, k, n)
    PROVE  Along(m, RawStep(r), k + 1, n)
<1> DEFINE t == RawStep(r)
<1>1. /\ IsMach(t, n) /\ Rolled(r, t)
      /\ t.stub.nsteps = IF r.q.v.halt = "run" THEN r.stub.nsteps + 1 ELSE r.stub.nsteps
  BY RawStepRolls DEF Along
<1>0. IsMach(r, n) /\ Rolled(m, r) /\ r.stub.nsteps <= m.stub.nsteps + k
  BY DEF Along
<1> HIDE DEF t
<1>2. Rolled(m, t)
  BY <1>0, <1>1, RolledTrans
<1>3. {r.stub.nsteps, t.stub.nsteps, m.stub.nsteps} \subseteq Nat
  BY <1>0, <1>1 DEF IsMach
<1>4. t.stub.nsteps <= m.stub.nsteps + (k + 1)
  BY <1>0, <1>1, <1>3
<1>5. ASSUME NEW h, Path(h, m.stub.nsteps, m.q.v), ~t.odd, Runs(h, m.stub.nsteps + (k + 1))
      PROVE  t.stub.nsteps = m.stub.nsteps + (k + 1)
  <2>1. ~r.odd
    BY <1>1, <1>5 DEF Rolled
  <2>2. Runs(h, m.stub.nsteps + k)
    BY <1>3, <1>5 DEF Runs
  <2>3. r.stub.nsteps = m.stub.nsteps + k
    BY <1>5, <2>1, <2>2 DEF Along
  <2>4. Path(h, r.stub.nsteps, r.q.v)
    BY <1>0, <1>5, <2>1 DEF Rolled
  <2>5. r.stub.nsteps \in 0..(m.stub.nsteps + (k + 1)) - 1
    BY <1>3, <2>3
  <2>6. r.q.v.halt = "run"
    BY <1>5, <2>4, <2>5 DEF Runs
  <2> QED BY <1>1, <1>3, <2>3, <2>6
<1> QED BY <1>1, <1>2, <1>4, <1>5 DEF Along, t

LEMMA ReplayAlong ==
    ASSUME NEW n \in Nat \ {0}, NEW k \in Nat, NEW m, IsMach(m, n)
    PROVE  Along(m, Replay(m, k), k, n)
<1>1. PICK f : Replays(m, f, k) /\ Replay(m, k) = f[k]
  <2> DEFINE f == CHOOSE g : Replays(m, g, k)
  <2>1. Replay(m, k) = f[k]
    BY Zenon DEF Replay, Replays
  <2>2. \E g : Replays(m, g, k)
    BY ReplaysExist, Zenon
  <2>3. Replays(m, f, k)
    BY <2>2, Zenon
  <2> QED BY <2>1, <2>3, Zenon
<1>2. f[0] = m /\ \A i \in 1..k : f[i] = RawStep(f[i - 1])
  BY <1>1 DEF Replays
<1> DEFINE S == {i \in Nat : i <= k => Along(m, f[i], i, n)}
<1>3. 0 \in S
  BY <1>2, AlongStart
<1>4. ASSUME NEW i \in Nat, i \in S PROVE i + 1 \in S
  <2>1. SUFFICES ASSUME i + 1 <= k PROVE Along(m, f[i + 1], i + 1, n)
    OBVIOUS
  <2>2. Along(m, f[i], i, n)
    BY <1>4, <2>1
  <2>3. f[i + 1] = RawStep(f[i])
    BY <1>2, <2>1
  <2> QED BY <2>2, <2>3, AlongStep
<1>5. \A i \in Nat : i \in S
  <2> HIDE DEF S
  <2> QED BY <1>3, <1>4, SetInduction
<1> QED BY <1>1, <1>5

-----------------------------------------------------------------------------
(* The invariant of a session, and goto_step. *)

\* A history cut at k that goes on with x.
CutAt(s, k, x) == Append(SubSeq(s, 1, k), x)
IsCut(t, s, k, x) == IsSeq(t) /\ Len(t) = k + 1 /\ t[k + 1] = x /\ \A i \in 1..k : t[i] = s[i]

LEMMA CutAppend ==
    ASSUME NEW s, IsSeq(s), NEW k \in 0..Len(s), NEW x
    PROVE  IsCut(CutAt(s, k, x), s, k, x)
<1>1. PICK S : s \in Seq(S)
  BY DEF IsSeq
<1> DEFINE U == S \cup {x}
           c == SubSeq(s, 1, k)
<1>2. c \in Seq(U) /\ Len(c) = k /\ \A i \in 1..k : c[i] = s[i]
  BY <1>1
<1> HIDE DEF c
<1>3. Append(c, x) \in Seq(U)
  BY <1>2
<1>4. Len(Append(c, x)) = k + 1 /\ Append(c, x)[k + 1] = x /\ \A i \in 1..k : Append(c, x)[i] = c[i]
  BY <1>2
<1> QED BY <1>2, <1>3, <1>4, Zenon DEF IsSeq, c, CutAt, IsCut

\* The checkpoints are whole snapshots, and no more than the ring holds.
Ring(m, n) ==
    /\ IsSeq(m.stub.cp) /\ Len(m.stub.cp) <= MaxCp
    /\ \A i \in 1..Len(m.stub.cp) : /\ m.stub.cp[i].step \in Nat
                                    /\ Sized(Saved(m.stub.cp[i].snap), n)
                                    /\ Len(m.stub.cp[i].snap.disk) = Len(m.q.v.disk)

\* The first checkpoint stays, unless the copy for it could not be allocated.
First(m) == 1 \notin boot.oom => Len(m.stub.cp) >= 1 /\ m.stub.cp[1].step = 0

\* Up to the first edit the history is the reference machine's, the machine is
\* where the history says, and every checkpoint, those ahead of the step count
\* included, lies on the reference machine's path.
Line(m) ==
    /\ IsSeq(m.hist) /\ m.stub.nsteps < Len(m.hist)
    /\ m.edit = NoEdit \/ m.edit \in Nat
    /\ \A k \in 0..Len(m.hist) - 1 : Unedited(k, m.edit) => Path(m.hist[1], k, m.hist[k + 1])
    /\ ~m.odd /\ Unedited(m.stub.nsteps, m.edit) => m.q.v = m.hist[m.stub.nsteps + 1]
    /\ ~m.odd => \A i \in 1..Len(m.stub.cp) : Unedited(m.stub.cp[i].step, m.edit)
                    => Path(m.hist[1], m.stub.cp[i].step, Saved(m.stub.cp[i].snap))
    /\ ~m.odd => \A k \in 0..Len(m.hist) - 2 : Unedited(k, m.edit) => m.hist[k + 1].halt = "run"

\* A nonempty set of numbers has a least, and a bounded one a greatest.
LEMMA LeastOf ==
    ASSUME NEW V \in SUBSET Nat, V # {}
    PROVE  \E x \in V : \A y \in V : x <= y
<1>1. PICK x \in V : \A y \in V : ~(<<y, x>> \in OpToRel(<, Nat))
  BY WFMin, NatLessThanWellFounded, Zenon
<1>2. ASSUME NEW y \in V PROVE x <= y
  <2>1. x \in Nat /\ y \in Nat
    OBVIOUS
  <2>2. ~(<<y, x>> \in OpToRel(<, Nat))
    BY <1>1, Zenon
  <2> QED BY <2>1, <2>2 DEF OpToRel
<1> QED BY <1>2

LEMMA GreatestOf ==
    ASSUME NEW b \in Nat, NEW V \in SUBSET (0..b), V # {}
    PROVE  \E x \in V : \A y \in V : y <= x
<1> DEFINE W == {b - x : x \in V}
<1>1. W \in SUBSET Nat /\ W # {}
  <2>1. \A x \in 0..b : b - x \in Nat
    OBVIOUS
  <2>2. PICK x : x \in V
    OBVIOUS
  <2>3. b - x \in W
    BY <2>2
  <2> QED BY <2>1, <2>3
<1>2. PICK w \in W : \A y \in W : w <= y
  <2> HIDE DEF W
  <2> QED BY <1>1, LeastOf
<1>3. PICK x \in V : w = b - x
  BY <1>2
<1>4. ASSUME NEW y \in V PROVE y <= x
  <2>1. b - y \in W /\ y \in Int /\ x \in Int
    OBVIOUS
  <2>2. w <= b - y
    BY <1>2, <2>1
  <2> QED BY <1>3, <2>1, <2>2
<1> QED BY <1>4

\* The checkpoint goto_step chooses is one at or before the target.
LEMMA LatestFits ==
    ASSUME NEW cp, NEW L \in Nat, NEW b \in Nat, NEW fit \in SUBSET (1..L), fit # {},
           \A i \in fit : cp[i].step \in 0..b
    PROVE  Latest(cp, fit) \in fit
<1> DEFINE V == {cp[i].step : i \in fit}
<1>1. PICK x \in V : \A y \in V : y <= x
  <2>1. V \in SUBSET (0..b) /\ V # {}
    BY Zenon
  <2> HIDE DEF V
  <2> QED BY <2>1, GreatestOf, Zenon
<1> DEFINE J == {i \in fit : cp[i].step = x}
<1>2. J \in SUBSET Nat /\ J # {}
  <2>1. PICK k \in fit : x = cp[k].step
    BY <1>1
  <2>2. k \in J
    BY <2>1
  <2>3. J \subseteq fit /\ fit \subseteq Nat
    OBVIOUS
  <2> HIDE DEF J
  <2> QED BY <2>2, <2>3
<1>3. PICK i \in J : \A j \in J : i <= j
  <2> HIDE DEF J
  <2> QED BY <1>2, LeastOf
<1>4. \A j \in fit : cp[i].step >= cp[j].step /\ (cp[i].step = cp[j].step => i <= j)
  BY <1>1, <1>3
<1>5. \E k \in fit : \A j \in fit : /\ cp[k].step >= cp[j].step
                                    /\ cp[k].step = cp[j].step => k <= j
  BY <1>4
<1> QED BY <1>5, Zenon DEF Latest

LEMMA FitLatest ==
    ASSUME NEW cp, IsSeq(cp), \A i \in 1..Len(cp) : cp[i].step \in Nat, NEW b \in Nat,
           {i \in DOMAIN cp : cp[i].step <= b} # {}
    PROVE  /\ Latest(cp, {i \in DOMAIN cp : cp[i].step <= b}) \in {i \in DOMAIN cp : cp[i].step <= b}
           /\ Latest(cp, {i \in DOMAIN cp : cp[i].step <= b}) \in DOMAIN cp
<1> DEFINE fit == {i \in DOMAIN cp : cp[i].step <= b}
<1>1. Len(cp) \in Nat /\ DOMAIN cp = 1..Len(cp)
  BY SeqLen
<1>2. fit \in SUBSET (1..Len(cp)) /\ fit # {} /\ fit \subseteq DOMAIN cp
  BY <1>1
<1>3. \A i \in fit : cp[i].step \in 0..b
  BY <1>1
<1> HIDE DEF fit
<1>4. Latest(cp, fit) \in fit
  BY <1>1, <1>2, <1>3, LatestFits, Zenon
<1> QED BY <1>2, <1>4, Zenon DEF fit

\* The one the ring gives up is not the first.
LEMMA EarliestFits ==
    ASSUME NEW cp, NEW L \in Nat, NEW fit \in SUBSET (1..L), fit # {},
           \A i \in fit : cp[i].step \in Nat
    PROVE  Earliest(cp, fit) \in fit
<1> DEFINE V == {cp[i].step : i \in fit}
<1>1. PICK x \in V : \A y \in V : x <= y
  <2>1. V \in SUBSET Nat /\ V # {}
    BY Zenon
  <2> HIDE DEF V
  <2> QED BY <2>1, LeastOf
<1> DEFINE J == {i \in fit : cp[i].step = x}
<1>2. J \in SUBSET Nat /\ J # {}
  <2>1. PICK k \in fit : x = cp[k].step
    BY <1>1
  <2>2. k \in J
    BY <2>1
  <2>3. J \subseteq fit /\ fit \subseteq Nat
    OBVIOUS
  <2> HIDE DEF J
  <2> QED BY <2>2, <2>3
<1>3. PICK i \in J : \A j \in J : i <= j
  <2> HIDE DEF J
  <2> QED BY <1>2, LeastOf
<1>4. \A j \in fit : cp[i].step <= cp[j].step /\ (cp[i].step = cp[j].step => i <= j)
  BY <1>1, <1>3
<1>5. \E k \in fit : \A j \in fit : /\ cp[k].step <= cp[j].step
                                    /\ cp[k].step = cp[j].step => k <= j
  BY <1>4
<1> QED BY <1>5, Zenon DEF Earliest

\* The steps of an unedited history do not halt.
LEMMA LineRuns ==
    ASSUME NEW m, Line(m), ~m.odd, \A j : Unedited(j, m.edit), NEW k \in Nat, k < Len(m.hist)
    PROVE  Runs(m.hist[1], k)
<1>0. Len(m.hist) \in Nat
  BY SeqLen DEF Line
<1> SUFFICES ASSUME NEW j \in 0..k - 1, NEW w, Path(m.hist[1], j, w) PROVE w.halt = "run"
  BY DEF Runs
<1>1. j \in 0..Len(m.hist) - 1 /\ j \in 0..Len(m.hist) - 2 /\ j \in Nat
  BY <1>0
<1>2. Path(m.hist[1], j, m.hist[j + 1]) /\ m.hist[j + 1].halt = "run"
  BY <1>1 DEF Line
<1> QED BY <1>1, <1>2, PathUnique

\* Moving along the path keeps the invariant.
LEMMA LineRolled ==
    ASSUME NEW n, NEW m, NEW r, IsMach(m, n), IsMach(r, n), Ring(m, n), Line(m), Rolled(m, r),
           r.stub.nsteps < Len(m.hist)
    PROVE  Ring(r, n) /\ Line(r)
<1>0. {m.stub.nsteps, r.stub.nsteps, Len(m.hist)} \subseteq Nat
  BY SeqLen DEF IsMach, Line
<1>1. /\ r.hist = m.hist /\ r.edit = m.edit /\ (m.odd => r.odd)
      /\ r.stub.nsteps >= m.stub.nsteps
  BY DEF Rolled
<1>2. r.stub.cp = m.stub.cp
  BY DEF Rolled, SameStub, StubFields
<1>3. Ring(r, n)
  BY <1>2 DEF Ring, Rolled
<1>4. ASSUME ~r.odd, Unedited(r.stub.nsteps, r.edit)
      PROVE  r.q.v = r.hist[r.stub.nsteps + 1]
  <2>1. Unedited(m.stub.nsteps, m.edit)
    BY <1>0, <1>1, <1>4 DEF Unedited, Line
  <2>2. m.q.v = m.hist[m.stub.nsteps + 1]
    BY <1>1, <1>4, <2>1 DEF Line
  <2>3. m.stub.nsteps \in 0..Len(m.hist) - 1 /\ r.stub.nsteps \in 0..Len(m.hist) - 1
    BY <1>0 DEF Line
  <2>4. Path(m.hist[1], m.stub.nsteps, m.q.v)
    BY <2>1, <2>2, <2>3 DEF Line
  <2>5. Path(m.hist[1], r.stub.nsteps, r.q.v)
    BY <1>4, <2>4 DEF Rolled
  <2>6. Path(m.hist[1], r.stub.nsteps, m.hist[r.stub.nsteps + 1])
    BY <1>1, <1>4, <2>3 DEF Line
  <2> QED BY <1>0, <1>1, <2>5, <2>6, PathUnique
<1>5. ASSUME ~r.odd, NEW i \in 1..Len(r.stub.cp), Unedited(r.stub.cp[i].step, r.edit)
      PROVE  Path(r.hist[1], r.stub.cp[i].step, Saved(r.stub.cp[i].snap))
  BY <1>1, <1>2, <1>5 DEF Line
<1>6. /\ IsSeq(r.hist) /\ r.stub.nsteps < Len(r.hist)
      /\ r.edit = NoEdit \/ r.edit \in Nat
      /\ \A k \in 0..Len(r.hist) - 1 : Unedited(k, r.edit) => Path(r.hist[1], k, r.hist[k + 1])
  BY <1>1 DEF Line
<1>7. ~r.odd => \A k \in 0..Len(r.hist) - 2 : Unedited(k, r.edit) => r.hist[k + 1].halt = "run"
  BY <1>1 DEF Line
<1> QED BY <1>3, <1>4, <1>5, <1>6, <1>7 DEF Line

\* What a move of the machine leaves alone.
Moved(m, r) ==
    /\ r.hist = m.hist /\ r.edit = m.edit /\ SameStub(m.stub, r.stub)
    /\ m.odd => r.odd
    /\ Len(r.q.v.disk) = Len(m.q.v.disk)

\* goto_step: back to a checkpoint and forward from there.
LEMMA GotoLine ==
    ASSUME NEW n \in Nat \ {0}, NEW m, IsMach(m, n), Ring(m, n), Line(m),
           First(m), NEW target \in 0..Len(m.hist) - 1
    PROVE  LET r == GotoStep(m, target)
           IN  /\ IsMach(r, n) /\ Ring(r, n) /\ Line(r) /\ Moved(m, r)
               /\ r = m \/ r.stub.nsteps <= target
               /\ 1 \notin boot.oom /\ ~r.odd /\ r.edit = NoEdit => r.stub.nsteps = target
<1> DEFINE cp == m.stub.cp
           fit == {i \in DOMAIN cp : cp[i].step <= target}
           best == Latest(cp, fit)
           r == GotoStep(m, target)
<1>0. target \in Nat /\ Len(m.hist) \in Nat /\ target < Len(m.hist)
  BY SeqLen DEF Line
<1>1. CASE fit = {} \/ ~Restorable(m.q, cp[best].snap)
  <2>1. r = m
    BY <1>1, Zenon DEF GotoStep
  <2>2. 1 \in boot.oom
    <3>1. SUFFICES ASSUME 1 \notin boot.oom PROVE FALSE
      OBVIOUS
    <3>2. 1 \in fit
      BY <1>0, <3>1, SeqLen DEF First, Ring
    <3>3. best \in DOMAIN cp
      BY <1>0, <3>2, FitLatest, Zenon DEF Ring
    <3>4. Len(cp[best].snap.disk) = Len(m.q.v.disk)
      BY <3>3, SeqLen, Zenon DEF Ring
    <3> QED BY <1>1, <3>2, <3>4 DEF Restorable, IsMach
  <2> QED BY <2>1, <2>2 DEF Moved, SameStub
<1>2. CASE ~(fit = {} \/ ~Restorable(m.q, cp[best].snap))
  <2> DEFINE b == [m EXCEPT !.q = QuantaRestore(@, cp[best].snap), !.stub.nsteps = cp[best].step]
             k == target - cp[best].step
  <2>1. r = Replay(b, k)
    BY <1>2 DEF GotoStep
  <2>2. DOMAIN cp = 1..Len(cp) /\ Len(cp) \in Nat
    BY SeqLen DEF Ring
  <2>3. best \in fit
    BY <1>0, <1>2, FitLatest, Zenon DEF Ring
  <2>4. best \in 1..Len(cp) /\ cp[best].step <= target
    BY <2>2, <2>3
  <2> HIDE DEF best, fit
  <2>5. /\ cp[best].step \in Nat /\ Sized(Saved(cp[best].snap), n)
        /\ Len(cp[best].snap.disk) = Len(m.q.v.disk)
    BY <2>4 DEF Ring
  <2> DEFINE g == QuantaRestore(m.q, cp[best].snap)
  <2>6. IsHandle(g, n) /\ g.v = Saved(cp[best].snap) /\ g.loaded = TRUE
    BY <1>2, <2>5, RestoreExact DEF IsMach
  <2> HIDE DEF g
  <2>7. /\ DOMAIN b = MachFields /\ b.q = g /\ b.odd = m.odd /\ b.image = m.image
        /\ b.hist = m.hist /\ b.edit = m.edit /\ b.stub = [m.stub EXCEPT !.nsteps = cp[best].step]
    BY DEF IsMach, MachFields, g
  <2> HIDE DEF b
  <2>8. /\ DOMAIN b.stub = StubFields /\ b.stub.nsteps = cp[best].step
        /\ SameStub(m.stub, b.stub)
    BY <2>7 DEF IsMach, StubFields, SameStub
  <2>9. IsMach(b, n)
    BY <2>5, <2>6, <2>7, <2>8 DEF IsMach
  <2>10. b.stub.cp = cp
    BY <2>8 DEF SameStub, StubFields
  <2>21. Len(b.q.v.disk) = Len(m.q.v.disk)
    <3>1. \A s : Saved(s).disk = s.disk
      BY DEF Saved
    <3>2. b.q.v = Saved(cp[best].snap)
      BY <2>6, <2>7
    <3> QED BY <2>5, <3>1, <3>2
  <2>11. Ring(b, n)
    BY <2>10, <2>21 DEF Ring
  <2>12. b.stub.nsteps \in 0..target /\ b.stub.nsteps \in 0..Len(m.hist) - 1
    BY <1>0, <2>4, <2>5, <2>8
  <2>13. ASSUME ~b.odd, Unedited(b.stub.nsteps, b.edit)
         PROVE  b.q.v = b.hist[b.stub.nsteps + 1]
    <3>1. Path(m.hist[1], b.stub.nsteps, b.q.v)
      BY <2>4, <2>6, <2>7, <2>8, <2>13 DEF Line
    <3>2. Path(m.hist[1], b.stub.nsteps, m.hist[b.stub.nsteps + 1])
      BY <2>7, <2>12, <2>13 DEF Line
    <3>3. b.stub.nsteps \in Nat
      BY <2>5, <2>8
    <3> QED BY <2>7, <3>1, <3>2, <3>3, PathUnique
  <2>14. Line(b)
    <3>1. \A i \in 1..Len(b.stub.cp) : ~b.odd /\ Unedited(b.stub.cp[i].step, b.edit)
                    => Path(b.hist[1], b.stub.cp[i].step, Saved(b.stub.cp[i].snap))
      BY <2>7, <2>10 DEF Line
    <3>2. b.stub.nsteps < Len(b.hist)
      BY <1>0, <2>7, <2>12
    <3>3. ~b.odd => \A j \in 0..Len(b.hist) - 2 : Unedited(j, b.edit) => b.hist[j + 1].halt = "run"
      BY <2>7 DEF Line
    <3> QED BY <2>7, <2>13, <3>1, <3>2, <3>3 DEF Line
  <2>15. k \in Nat /\ b.stub.nsteps + k = target
    <3>1. \A x, y \in Nat : x <= y => y - x \in Nat /\ x + (y - x) = y
      OBVIOUS
    <3>2. target \in Nat
      BY <1>0
    <3> QED BY <2>4, <2>5, <2>8, <3>1, <3>2
  <2>16. Along(b, r, k, n)
    <3> HIDE DEF k
    <3> QED BY <2>1, <2>9, <2>15, ReplayAlong, Zenon
  <2> HIDE DEF r, k
  <2>17. IsMach(r, n) /\ Rolled(b, r) /\ r.stub.nsteps <= target
    BY <2>15, <2>16 DEF Along
  <2>18. r.stub.nsteps < Len(b.hist)
    BY <1>0, <2>7, <2>17 DEF IsMach
  <2>19. Ring(r, n) /\ Line(r)
    BY <2>9, <2>11, <2>14, <2>17, <2>18, LineRolled
  <2>20. Moved(m, r)
    BY <2>7, <2>8, <2>17, <2>21 DEF Moved, Rolled, SameStub
  <2>22. ASSUME ~r.odd, r.edit = NoEdit PROVE r.stub.nsteps = target
    <3>1. ~b.odd /\ \A j : Unedited(j, b.edit)
      BY <2>17, <2>22 DEF Rolled, Unedited
    <3>2. Path(b.hist[1], b.stub.nsteps, b.q.v)
      BY <2>7, <2>12, <2>14, <3>1 DEF Line
    <3>3. Runs(b.hist[1], target)
      BY <1>0, <2>7, <2>14, <3>1, LineRuns
    <3> QED BY <2>15, <2>16, <2>22, <3>2, <3>3 DEF Along
  <2> QED BY <2>17, <2>19, <2>20, <2>22 DEF r
<1> QED BY <1>1, <1>2

-----------------------------------------------------------------------------
(* cp_add and stub_step. *)

\* The fields F of the stub are the same.
Keeps(m, r, F) == \A f \in StubFields \ F : r.stub[f] = m.stub[f]

\* Everything of the machine and its history is the same.
Still(m, r) ==
    r.q = m.q /\ r.image = m.image /\ r.hist = m.hist /\ r.edit = m.edit /\ r.odd = m.odd

\* A sequence with one more entry, or with one replaced.
Put(s, i, x) == IF i = Len(s) + 1 THEN Append(s, x) ELSE [s EXCEPT ![i] = x]

LEMMA RingPut ==
    ASSUME NEW s, IsSeq(s), NEW x, NEW i \in 1..Len(s) + 1
    PROVE  /\ IsSeq(Put(s, i, x)) /\ Len(Put(s, i, x)) = IF i = Len(s) + 1 THEN i ELSE Len(s)
           /\ \A j \in 1..Len(Put(s, i, x)) : Put(s, i, x)[j] = IF j = i THEN x ELSE s[j]
<1>1. PICK S : s \in Seq(S)
  BY DEF IsSeq
<1> DEFINE U == S \cup {x}
<1>2. s \in Seq(U) /\ x \in U /\ Len(s) \in Nat /\ DOMAIN s = 1..Len(s)
  BY <1>1
<1>3. CASE i = Len(s) + 1
  <2>1. Append(s, x) \in Seq(U) /\ Len(Append(s, x)) = i
    BY <1>2, <1>3
  <2>2. \A j \in 1..i : Append(s, x)[j] = IF j = i THEN x ELSE s[j]
    BY <1>2, <1>3
  <2> QED BY <1>3, <2>1, <2>2 DEF IsSeq, Put
<1>4. CASE i # Len(s) + 1
  <2>1. IsSeq([s EXCEPT ![i] = x]) /\ Len([s EXCEPT ![i] = x]) = Len(s)
    BY SeqExcept, Zenon
  <2>2. \A j \in 1..Len(s) : [s EXCEPT ![i] = x][j] = IF j = i THEN x ELSE s[j]
    BY <1>2
  <2> QED BY <1>4, <2>1, <2>2 DEF Put
<1> QED BY <1>3, <1>4

\* cp_add: the new checkpoint is the machine as it is; the first one stays.
LEMMA CpAddLine ==
    ASSUME NEW n \in Nat \ {0}, NEW m, IsMach(m, n), Ring(m, n), Line(m)
    PROVE  LET r == CpAdd(m)
           IN  /\ IsMach(r, n) /\ Ring(r, n) /\ Line(r) /\ Still(m, r)
               /\ Keeps(m, r, {"cp", "lastcp", "adds"})
               /\ First(m) \/ (m.stub.nsteps = 0 /\ m.stub.cp = <<>> /\ m.stub.adds = 0) => First(r)
<1> DEFINE st == m.stub
           new == [step |-> st.nsteps, snap |-> QuantaSnapshot(m.q, m.hist[st.nsteps + 1])]
           oldest == Earliest(st.cp, 2..Len(st.cp))
           put == IF Len(st.cp) < MaxCp THEN Append(st.cp, new) ELSE [st.cp EXCEPT ![oldest] = new]
           r == CpAdd(m)
<1>0. Len(st.cp) \in Nat /\ MaxCp \in Nat /\ MaxCp >= 2 /\ Len(st.cp) <= MaxCp /\ IsSeq(st.cp)
  BY SeqLen, TableAssumption DEF Ring
<1>1. CASE st.adds + 1 \in boot.oom
  <2>1. r = [m EXCEPT !.stub.adds = @ + 1]
    BY <1>1 DEF CpAdd
  <2>2. /\ DOMAIN r = MachFields /\ r.stub = [m.stub EXCEPT !.adds = @ + 1] /\ Still(m, r)
    BY <2>1 DEF IsMach, MachFields, Still
  <2>3. DOMAIN r.stub = StubFields /\ Keeps(m, r, {"adds"})
    BY <2>2 DEF IsMach, StubFields, Keeps
  <2> HIDE DEF r
  <2>4. Keeps(m, r, {"cp", "lastcp", "adds"})
    BY <2>3 DEF Keeps
  <2>5. r.stub.cp = m.stub.cp /\ r.stub.nsteps = m.stub.nsteps
    BY <2>3 DEF Keeps, StubFields
  <2>6. IsMach(r, n) /\ Ring(r, n)
    BY <2>2, <2>3, <2>5 DEF IsMach, Ring, Still
  <2>7. Line(r)
    BY <2>2, <2>5 DEF Line, Still
  <2>8. First(m) \/ (m.stub.nsteps = 0 /\ m.stub.cp = <<>> /\ m.stub.adds = 0) => First(r)
    BY <1>1, <2>5 DEF First
  <2> QED BY <2>2, <2>4, <2>6, <2>7, <2>8 DEF r
<1>2. CASE st.adds + 1 \notin boot.oom
  <2> DEFINE i == IF Len(st.cp) < MaxCp THEN Len(st.cp) + 1 ELSE oldest
  <2>1. i \in 1..Len(st.cp) + 1 /\ (i = Len(st.cp) + 1 <=> Len(st.cp) < MaxCp)
        /\ (Len(st.cp) >= 1 => i # 1)
    <3>1. CASE Len(st.cp) < MaxCp
      BY <1>0, <3>1
    <3>2. CASE ~(Len(st.cp) < MaxCp)
      <4> DEFINE L == Len(st.cp)
                 fit == 2..L
      <4>1. L \in Nat /\ fit \in SUBSET (1..L) /\ fit # {}
        BY <1>0, <3>2
      <4>2. \A j \in fit : st.cp[j].step \in Nat
        BY DEF Ring
      <4>3. oldest \in 2..L
        <5> HIDE DEF fit, L
        <5>1. Earliest(st.cp, fit) \in fit
          BY <4>1, <4>2, EarliestFits, Zenon
        <5> QED BY <5>1 DEF fit, L
      <4> QED BY <1>0, <3>2, <4>3
    <3> QED BY <3>1, <3>2
  <2>2. put = Put(st.cp, i, new)
    BY <2>1 DEF Put
  <2> HIDE DEF i
  <2>3. /\ IsSeq(put) /\ Len(put) = IF i = Len(st.cp) + 1 THEN i ELSE Len(st.cp)
        /\ \A j \in 1..Len(put) : put[j] = IF j = i THEN new ELSE st.cp[j]
    <3> HIDE DEF put, new
    <3> QED BY <1>0, <2>1, <2>2, RingPut
  <2>4. new.step = st.nsteps /\ Saved(new.snap) = m.q.v /\ new.snap.disk = m.q.v.disk
    <3>1. Saved(new.snap) = m.q.v
      BY SnapshotSaves DEF IsMach
    <3>2. new.snap.disk = m.q.v.disk
      BY DEF QuantaSnapshot
    <3> QED BY <3>1, <3>2
  <2>5. r = [m EXCEPT !.stub = [st EXCEPT !.cp = put, !.lastcp = st.nsteps,
                                          !.adds = IF boot.oom = {} THEN 0 ELSE @ + 1]]
    BY <1>2 DEF CpAdd
  <2> HIDE DEF put, new
  <2>6. /\ DOMAIN r = MachFields /\ Still(m, r)
        /\ r.stub = [st EXCEPT !.cp = put, !.lastcp = st.nsteps,
                               !.adds = IF boot.oom = {} THEN 0 ELSE @ + 1]
    BY <2>5 DEF IsMach, MachFields, Still
  <2>7. DOMAIN r.stub = StubFields /\ Keeps(m, r, {"cp", "lastcp", "adds"}) /\ r.stub.cp = put
    BY <2>6, Zenon DEF IsMach, StubFields, Keeps
  <2> HIDE DEF r
  <2>8. r.stub.nsteps = m.stub.nsteps /\ m.stub.nsteps \in Nat
    BY <2>7 DEF Keeps, StubFields, IsMach
  <2>9. IsMach(r, n)
    BY <2>6, <2>7, <2>8 DEF IsMach, Still
  <2>10. Ring(r, n)
    <3>1. Len(put) <= MaxCp
      BY <1>0, <2>1, <2>3
    <3>2. ASSUME NEW j \in 1..Len(put)
          PROVE  /\ put[j].step \in Nat /\ Sized(Saved(put[j].snap), n)
                 /\ Len(put[j].snap.disk) = Len(m.q.v.disk)
      <4>1. CASE j = i
        BY <2>3, <2>4, <2>8, <3>2, <4>1 DEF IsMach, IsHandle
      <4>2. CASE j # i
        <5>1. j \in 1..Len(st.cp) /\ put[j] = st.cp[j]
          BY <1>0, <2>1, <2>3, <4>2
        <5> QED BY <5>1 DEF Ring
      <4> QED BY <4>1, <4>2
    <3> QED BY <2>3, <2>6, <2>7, <3>1, <3>2 DEF Ring, Still
  <2>11. Line(r)
    <3>1. ASSUME ~m.odd, NEW j \in 1..Len(put), Unedited(put[j].step, m.edit)
          PROVE  Path(m.hist[1], put[j].step, Saved(put[j].snap))
      <4>1. CASE j = i
        <5>1. put[j].step = st.nsteps /\ Saved(put[j].snap) = m.q.v
          BY <2>3, <2>4, <3>1, <4>1
        <5>2. st.nsteps \in 0..Len(m.hist) - 1
          BY <2>8, SeqLen DEF Line
        <5> QED BY <3>1, <5>1, <5>2 DEF Line
      <4>2. CASE j # i
        <5>1. j \in 1..Len(st.cp) /\ put[j] = st.cp[j]
          BY <1>0, <2>1, <2>3, <4>2
        <5> QED BY <3>1, <5>1 DEF Line
      <4> QED BY <4>1, <4>2
    <3> QED BY <2>6, <2>7, <2>8, <3>1 DEF Line, Still
  <2>12. First(m) \/ (m.stub.nsteps = 0 /\ m.stub.cp = <<>> /\ m.stub.adds = 0) => First(r)
    <3>1. SUFFICES ASSUME 1 \notin boot.oom,
                          First(m) \/ (m.stub.nsteps = 0 /\ m.stub.cp = <<>>)
                   PROVE  Len(put) >= 1 /\ put[1].step = 0
      BY <2>7 DEF First
    <3>2. CASE Len(st.cp) >= 1
      <4>1. put[1] = st.cp[1] /\ Len(put) >= 1
        BY <1>0, <2>1, <2>3, <3>2
      <4>2. st.cp # <<>>
        BY <3>2
      <4> QED BY <3>1, <4>1, <4>2 DEF First
    <3>3. CASE ~(Len(st.cp) >= 1)
      <4>1. m.stub.nsteps = 0 /\ Len(st.cp) = 0
        BY <1>0, <3>1, <3>3 DEF First
      <4>2. i = 1 /\ Len(put) = 1
        BY <1>0, <2>1, <2>3, <4>1
      <4> QED BY <2>3, <2>4, <4>1, <4>2
    <3> QED BY <3>2, <3>3
  <2> QED BY <2>6, <2>7, <2>9, <2>10, <2>11, <2>12 DEF r
<1> QED BY <1>1, <1>2

\* What a step forward leaves alone, besides the fields F of the stub.
Advanced(m, r, F) ==
    /\ Keeps(m, r, F) /\ r.edit = m.edit /\ (m.odd => r.odd)
    /\ r.q.writable = m.q.writable
    /\ m.q.writable /\ m.image = m.q.v.disk => r.image = r.q.v.disk
    /\ r.stub.nsteps = IF m.q.v.halt = "run" THEN m.stub.nsteps + 1 ELSE m.stub.nsteps
    /\ \A j \in 1..m.stub.nsteps + 1 : r.hist[j] = m.hist[j]

\* One step with the history written, before a checkpoint is due.
Logged(m) ==
    LET k == m.stub.nsteps
        known == SubSeq(m.hist, 1, k + 1)
    IN [RawStep(m) EXCEPT !.hist = IF m.q.v.halt # "run" THEN @
                                   ELSE Append(known, RefStep(known[k + 1]))]

LEMMA LoggedLine ==
    ASSUME NEW n \in Nat \ {0}, NEW m, IsMach(m, n), Ring(m, n), Line(m)
    PROVE  /\ IsMach(Logged(m), n) /\ Ring(Logged(m), n) /\ Line(Logged(m))
           /\ Advanced(m, Logged(m), {"nsteps"})
<1> DEFINE k == m.stub.nsteps
           raw == RawStep(m)
           known == SubSeq(m.hist, 1, k + 1)
           next == IF m.q.v.halt # "run" THEN m.hist ELSE Append(known, RefStep(known[k + 1]))
           r == Logged(m)
<1>0. k \in Nat /\ k < Len(m.hist) /\ Len(m.hist) \in Nat /\ IsSeq(m.hist)
  BY SeqLen DEF IsMach, Line
<1>1. /\ IsMach(raw, n) /\ Rolled(m, raw)
      /\ raw.stub.nsteps = IF m.q.v.halt = "run" THEN k + 1 ELSE k
  BY RawStepRolls
<1>2. r = [raw EXCEPT !.hist = next]
  BY <1>1 DEF Logged, Rolled
<1>3. known[k + 1] = m.hist[k + 1]
  <2>1. PICK S : m.hist \in Seq(S)
    BY <1>0 DEF IsSeq
  <2> QED BY <1>0, <2>1
<1>4. m.q.v.halt = "run" => /\ IsSeq(next) /\ Len(next) = k + 2 /\ next[k + 2] = RefStep(m.hist[k + 1])
                            /\ \A i \in 1..k + 1 : next[i] = m.hist[i]
  <2>1. k + 1 \in 0..Len(m.hist) /\ (k + 1) + 1 = k + 2
    BY <1>0
  <2>2. m.q.v.halt = "run" => next = CutAt(m.hist, k + 1, RefStep(m.hist[k + 1]))
    BY <1>3, Zenon DEF CutAt
  <2>3. IsCut(CutAt(m.hist, k + 1, RefStep(m.hist[k + 1])), m.hist, k + 1, RefStep(m.hist[k + 1]))
    BY <1>0, <2>1, CutAppend, Zenon
  <2> HIDE DEF next
  <2> QED BY <2>1, <2>2, <2>3 DEF IsCut
<1>5. m.q.v.halt # "run" => next = m.hist /\ raw = m
  BY DEF RawStep
<1> HIDE DEF raw, known, next, r
<1>6. /\ DOMAIN r = MachFields /\ r.hist = next /\ r.q = raw.q /\ r.image = raw.image
      /\ r.edit = raw.edit /\ r.odd = raw.odd /\ r.stub = raw.stub
  BY <1>1, <1>2 DEF IsMach, MachFields
<1>7. IsMach(r, n)
  BY <1>1, <1>6 DEF IsMach
<1>8. r.stub.cp = m.stub.cp
  BY <1>1, <1>6 DEF Rolled, SameStub, StubFields
<1>9. Ring(r, n)
  BY <1>1, <1>6, <1>8 DEF Ring, Rolled
<1>10. Advanced(m, r, {"nsteps"})
  <2>1. Keeps(m, r, {"nsteps"})
    BY <1>1, <1>6 DEF Rolled, SameStub, Keeps
  <2>2. \A j \in 1..k + 1 : next[j] = m.hist[j]
    BY <1>4, <1>5
  <2> QED BY <1>1, <1>6, <2>1, <2>2 DEF Advanced, Rolled
<1>11. Line(r)
  <2>1. CASE m.q.v.halt # "run"
    BY <1>5, <1>6, <2>1 DEF Line
  <2>2. CASE m.q.v.halt = "run"
    <3>1. /\ IsSeq(next) /\ Len(next) = k + 2 /\ next[k + 2] = RefStep(m.hist[k + 1])
          /\ \A i \in 1..k + 1 : next[i] = m.hist[i]
      BY <1>4, <2>2
    <3>2. next[1] = m.hist[1] /\ next[k + 1] = m.hist[k + 1]
      BY <1>0, <3>1
    <3>3. r.stub.nsteps = k + 1 /\ r.edit = m.edit /\ (m.odd => r.odd)
      BY <1>1, <1>6, <2>2 DEF Rolled
    <3>4. \A j \in Nat : Unedited(j + 1, m.edit) => Unedited(j, m.edit)
      BY DEF Unedited, Line
    <3>5. ASSUME NEW j \in 0..k, Unedited(j, m.edit) PROVE Path(next[1], j, next[j + 1])
      <4>1. j \in 0..Len(m.hist) - 1 /\ j + 1 \in 1..k + 1
        BY <1>0
      <4> QED BY <3>1, <3>2, <3>5, <4>1 DEF Line
    <3>6. Unedited(k + 1, m.edit) => Path(next[1], k + 1, next[k + 2])
      <4>1. SUFFICES ASSUME Unedited(k + 1, m.edit) PROVE Path(next[1], k + 1, next[k + 2])
        OBVIOUS
      <4>2. Path(next[1], k, m.hist[k + 1])
        <5>1. Unedited(k, m.edit) /\ k \in 0..k
          BY <1>0, <3>4, <4>1
        <5> QED BY <3>2, <3>5, <5>1
      <4> QED BY <1>0, <3>1, <4>2, PathStep
    <3>7. ASSUME NEW j \in 0..Len(next) - 1, Unedited(j, m.edit) PROVE Path(next[1], j, next[j + 1])
      <4>1. CASE j = k + 1
        <5>1. j + 1 = k + 2
          BY <1>0, <4>1
        <5> QED BY <3>6, <3>7, <4>1, <5>1
      <4>2. CASE j # k + 1
        <5>1. j \in 0..k
          BY <1>0, <3>1, <4>2
        <5> QED BY <3>5, <3>7, <5>1
      <4> QED BY <4>1, <4>2
    <3>8. ASSUME ~r.odd, Unedited(k + 1, m.edit) PROVE r.q.v = next[k + 2]
      <4>1. Unedited(k, m.edit)
        BY <1>0, <3>4, <3>8
      <4>2. Path(next[1], k, m.q.v)
        <5>1. m.q.v = m.hist[k + 1]
          BY <3>3, <3>8, <4>1 DEF Line
        <5> QED BY <1>0, <3>2, <3>5, <4>1, <5>1
      <4>3. Path(next[1], k + 1, r.q.v)
        BY <1>1, <1>6, <2>2, <3>8, <4>2 DEF Rolled
      <4> QED BY <1>0, <3>6, <3>8, <4>3, PathUnique
    <3>9. ASSUME ~r.odd, NEW i \in 1..Len(r.stub.cp), Unedited(r.stub.cp[i].step, r.edit)
          PROVE  Path(next[1], r.stub.cp[i].step, Saved(r.stub.cp[i].snap))
      BY <1>8, <3>2, <3>3, <3>9 DEF Line
    <3>10. ASSUME ~r.odd, NEW j \in 0..Len(next) - 2, Unedited(j, m.edit)
           PROVE  next[j + 1].halt = "run"
      <4>0. j + 1 \in 1..k + 1 /\ j \in 0..k
        BY <1>0, <3>1
      <4>1. CASE j = k
        BY <2>2, <3>2, <3>3, <3>10, <4>1 DEF Line
      <4>2. CASE j # k
        <5>1. j \in 0..Len(m.hist) - 2
          BY <1>0, <4>0, <4>2
        <5> QED BY <3>1, <3>3, <3>10, <4>0, <5>1 DEF Line
      <4> QED BY <4>1, <4>2
    <3>11. r.stub.nsteps < Len(next) /\ (r.stub.nsteps + 1 = k + 2)
      BY <1>0, <3>1, <3>3
    <3>12. m.edit = NoEdit \/ m.edit \in Nat
      BY DEF Line
    <3> QED BY <1>6, <3>1, <3>3, <3>7, <3>8, <3>9, <3>10, <3>11, <3>12, Zenon DEF Line
  <2> QED BY <2>1, <2>2
<1> QED BY <1>7, <1>9, <1>10, <1>11 DEF r

\* stub_step.
LEMMA StubStepLine ==
    ASSUME NEW n \in Nat \ {0}, NEW m, IsMach(m, n), Ring(m, n), Line(m), First(m)
    PROVE  LET r == StubStep(m)
           IN  /\ IsMach(r, n) /\ Ring(r, n) /\ Line(r) /\ First(r)
               /\ Advanced(m, r, {"nsteps", "cp", "lastcp", "adds"})
<1> DEFINE g == Logged(m)
<1>1. IsMach(g, n) /\ Ring(g, n) /\ Line(g) /\ Advanced(m, g, {"nsteps"})
  BY LoggedLine
<1>2. StubStep(m) = g \/ StubStep(m) = CpAdd(g)
  BY Zenon DEF StubStep, Logged
<1> HIDE DEF g
<1>3. First(g)
  BY <1>1 DEF First, Advanced, Keeps, StubFields
<1>4. Advanced(m, g, {"nsteps", "cp", "lastcp", "adds"})
  BY <1>1 DEF Advanced, Keeps
<1>5. CASE StubStep(m) = g
  BY <1>1, <1>3, <1>4, <1>5
<1>6. CASE StubStep(m) = CpAdd(g)
  <2> DEFINE r == CpAdd(g)
  <2>1. /\ IsMach(r, n) /\ Ring(r, n) /\ Line(r) /\ Still(g, r) /\ First(r)
        /\ Keeps(g, r, {"cp", "lastcp", "adds"})
    BY <1>1, <1>3, CpAddLine
  <2> HIDE DEF r
  <2>2. Keeps(m, r, {"nsteps", "cp", "lastcp", "adds"})
    BY <1>4, <2>1 DEF Advanced, Keeps
  <2>3. r.stub.nsteps = g.stub.nsteps
    BY <2>1 DEF Keeps, StubFields
  <2>4. Advanced(m, r, {"nsteps", "cp", "lastcp", "adds"})
    BY <1>4, <2>1, <2>2, <2>3 DEF Advanced, Still
  <2> QED BY <1>6, <2>1, <2>4 DEF r
<1> QED BY <1>2, <1>5, <1>6

-----------------------------------------------------------------------------
(* Writes by the debugger. *)

Writes == {"P", "Gbad", "G", "M", "Mcode", "c@", "s@"}

LEMMA PokedSized ==
    ASSUME NEW n \in Nat \ {0}, NEW v, Sized(v, n), NEW cmd, cmd[1] \in Writes
    PROVE  Sized(Poked(v, cmd), n) /\ Poked(v, cmd).disk = v.disk
<1>0. IsMachine(v) /\ Tuple(v.harts, n) /\ v.sched \in 0..n - 1 /\ IsSeq(v.disk)
  BY DEF Sized
<1>1. \A u, h : /\ IsMachine(u) => /\ IsMachine([u EXCEPT !.harts = h])
                                   /\ [u EXCEPT !.harts = h].harts = h
                                   /\ [u EXCEPT !.harts = h].sched = u.sched
                                   /\ [u EXCEPT !.harts = h].disk = u.disk
  BY DEF IsMachine
<1>2. \A h, x, y : Tuple(h, n) => /\ Tuple([h EXCEPT ![1].x = x], n)
                                  /\ Tuple([h EXCEPT ![1].pc = y], n)
                                  /\ Tuple([h EXCEPT ![1].x = x, ![1].pc = y], n)
  <2>1. \A h, f : Tuple(h, n) => Tuple([h EXCEPT ![1] = f], n)
    BY DEF Tuple
  <2> QED BY <2>1, Zenon
<1>3. CASE cmd[1] \in {"P", "Gbad"}
  <2> DEFINE h == [v.harts EXCEPT ![1].x = Vals - 1]
  <2>1. Poked(v, cmd) = [v EXCEPT !.harts = h]
    BY <1>3 DEF Poked
  <2>2. Tuple(h, n)
    BY <1>0, <1>2, Zenon
  <2> HIDE DEF h
  <2> QED BY <1>0, <1>1, <2>1, <2>2 DEF Sized
<1>4. CASE cmd[1] = "G"
  <2> DEFINE h == [v.harts EXCEPT ![1].x = Vals - 1, ![1].pc = cmd[2]]
  <2>1. Poked(v, cmd) = [v EXCEPT !.harts = h]
    <3>1. Poked(v, cmd) = [v EXCEPT !.harts[1].x = Vals - 1, !.harts[1].pc = cmd[2]]
      BY <1>4 DEF Poked
    <3> QED BY <1>0, <3>1, Zenon DEF IsMachine
  <2>2. Tuple(h, n)
    BY <1>0, <1>2, Zenon
  <2> HIDE DEF h
  <2> QED BY <1>0, <1>1, <2>1, <2>2 DEF Sized
<1>5. CASE cmd[1] \in {"c@", "s@"}
  <2> DEFINE h == [v.harts EXCEPT ![1].pc = cmd[2]]
  <2>1. Poked(v, cmd) = [v EXCEPT !.harts = h]
    BY <1>5 DEF Poked
  <2>2. Tuple(h, n)
    BY <1>0, <1>2, Zenon
  <2> HIDE DEF h
  <2> QED BY <1>0, <1>1, <2>1, <2>2 DEF Sized
<1>6. CASE cmd[1] = "M"
  <2>1. Poked(v, cmd) = [v EXCEPT !.data = Vals - 1]
    BY <1>6 DEF Poked
  <2> QED BY <1>0, <2>1 DEF Sized, IsMachine
<1>7. CASE cmd[1] = "Mcode"
  <2>1. Poked(v, cmd) = [v EXCEPT !.code = [v.code EXCEPT ![Patched] = "inc"]]
    BY <1>7 DEF Poked
  <2> QED BY <1>0, <2>1 DEF Sized, IsMachine
<1> QED BY <1>3, <1>4, <1>5, <1>6, <1>7 DEF Writes

\* A write changes the machine and the history from here on; what was known of
\* earlier steps stays.
LEMMA PokeLine ==
    ASSUME NEW n \in Nat \ {0}, NEW m, IsMach(m, n), Ring(m, n), Line(m), First(m),
           NEW cmd, cmd[1] \in Writes
    PROVE  LET r == Poke(m, cmd)
           IN  /\ IsMach(r, n) /\ Ring(r, n) /\ Line(r) /\ First(r)
               /\ r.stub = m.stub /\ r.image = m.image /\ r.odd = m.odd /\ r.edit \in Nat
               /\ r.q.writable = m.q.writable /\ r.q.v.disk = m.q.v.disk
<1> DEFINE k == m.stub.nsteps
           w == Poked(m.q.v, cmd)
           x == Poked(m.hist[k + 1], cmd)
           e == IF Unedited(k, m.edit) THEN k ELSE m.edit
           cut == CutAt(m.hist, k, x)
           r == Poke(m, cmd)
<1>0. k \in Nat /\ k < Len(m.hist) /\ Len(m.hist) \in Nat /\ IsSeq(m.hist) /\ k \in 0..Len(m.hist)
  BY SeqLen DEF IsMach, Line
<1>1. Sized(w, n) /\ w.disk = m.q.v.disk
  BY PokedSized DEF IsMach, IsHandle
<1>2. IsSeq(cut) /\ Len(cut) = k + 1 /\ \A i \in 1..k : cut[i] = m.hist[i]
  <2>1. IsCut(cut, m.hist, k, x)
    BY <1>0, CutAppend, Zenon
  <2> QED BY <2>1, Zenon DEF IsCut
<1>3. e \in Nat /\ e <= k /\ \A j \in Nat : Unedited(j, e) => j < k /\ Unedited(j, m.edit)
  BY <1>0 DEF Unedited, Line, NoEdit
<1>4. r = [m EXCEPT !.q.v = w, !.hist = cut, !.edit = e]
  BY DEF Poke, CutAt
<1> HIDE DEF w, x, e, cut, r
<1>5. /\ DOMAIN r = MachFields /\ r.q = [m.q EXCEPT !.v = w] /\ r.hist = cut /\ r.edit = e
      /\ r.odd = m.odd /\ r.image = m.image /\ r.stub = m.stub
  BY <1>4 DEF IsMach, MachFields
<1>6. /\ DOMAIN r.q = HandleFields /\ r.q.v = w /\ r.q.loaded = m.q.loaded
      /\ r.q.writable = m.q.writable
  BY <1>5 DEF IsMach, IsHandle, HandleFields
<1>7. IsMach(r, n)
  BY <1>1, <1>5, <1>6 DEF IsMach, IsHandle
<1>8. Ring(r, n) /\ First(r)
  BY <1>1, <1>5, <1>6 DEF Ring, First
<1>9. \A j \in Nat : Unedited(j, e) => cut[1] = m.hist[1] /\ cut[j + 1] = m.hist[j + 1]
  <2> SUFFICES ASSUME NEW j \in Nat, Unedited(j, e)
               PROVE  cut[1] = m.hist[1] /\ cut[j + 1] = m.hist[j + 1]
    OBVIOUS
  <2>1. 1 \in 1..k /\ j + 1 \in 1..k
    BY <1>0, <1>3
  <2> QED BY <1>2, <2>1
<1>10. Line(r)
  <2>1. ASSUME NEW j \in 0..k, Unedited(j, e) PROVE Path(cut[1], j, cut[j + 1])
    <3>1. j \in 0..Len(m.hist) - 1 /\ j \in Nat
      BY <1>0
    <3>2. Path(m.hist[1], j, m.hist[j + 1])
      BY <1>3, <2>1, <3>1 DEF Line
    <3> QED BY <1>9, <2>1, <3>1, <3>2
  <2>2. ~Unedited(k, e)
    BY <1>0, <1>3
  <2>3. ASSUME ~m.odd, NEW i \in 1..Len(m.stub.cp), Unedited(m.stub.cp[i].step, e)
        PROVE  Path(cut[1], m.stub.cp[i].step, Saved(m.stub.cp[i].snap))
    <3>1. m.stub.cp[i].step \in Nat
      BY DEF Ring
    <3>2. Path(m.hist[1], m.stub.cp[i].step, Saved(m.stub.cp[i].snap))
      BY <1>3, <2>3, <3>1 DEF Line
    <3> QED BY <1>9, <2>3, <3>1, <3>2
  <2>4. ASSUME ~m.odd, NEW j \in 0..k - 1, Unedited(j, e) PROVE cut[j + 1].halt = "run"
    <3>1. j \in 0..Len(m.hist) - 2 /\ j \in Nat
      BY <1>0
    <3>2. m.hist[j + 1].halt = "run"
      BY <1>3, <2>4, <3>1 DEF Line
    <3> QED BY <1>9, <2>4, <3>1, <3>2
  <2>5. Len(cut) - 1 = k /\ Len(cut) - 2 = k - 1 /\ k < Len(cut)
    <3>1. \A L, K \in Int : L = K + 1 => L - 1 = K /\ L - 2 = K - 1 /\ K < L
      OBVIOUS
    <3>2. Len(cut) = k + 1 /\ k \in Nat
      BY <1>0, <1>2
    <3> QED BY <3>1, <3>2
  <2> QED BY <1>2, <1>3, <1>5, <2>1, <2>2, <2>3, <2>4, <2>5 DEF Line
<1> QED BY <1>1, <1>3, <1>5, <1>6, <1>7, <1>8, <1>10 DEF r

-----------------------------------------------------------------------------
(* Execution in reverse. *)

Session(m, n) == IsMach(m, n) /\ Ring(m, n) /\ Line(m) /\ First(m)

BpOf(m, k) == m.hist[k + 1].harts[1].pc \in m.stub.bp

\* a is the scan k steps past s: where it got to, and the last breakpoint seen.
Seen(s, a, k, n) ==
    /\ Along(s, a.m, k, n)
    /\ a.hit \in Nat /\ a.hit <= s.stub.nsteps + k
    /\ ~a.m.odd /\ s.edit = NoEdit /\ s.stub.nsteps = 0 =>
          /\ \A j \in 0..k - 1 : BpOf(s, j) => j <= a.hit
          /\ a.hit = 0 \/ (BpOf(s, a.hit) /\ a.hit < k)

Scans(a) == [m |-> RawStep(a.m), hit |-> IF BpMatch(a.m) THEN a.m.stub.nsteps ELSE a.hit]

LEMMA SeenStep ==
    ASSUME NEW n \in Nat \ {0}, NEW s, Session(s, n), NEW k \in Nat,
           (s.stub.nsteps + k) + 1 < Len(s.hist), NEW a, Seen(s, a, k, n)
    PROVE  Seen(s, Scans(a), k + 1, n)
<1> DEFINE t == RawStep(a.m)
           h == IF BpMatch(a.m) THEN a.m.stub.nsteps ELSE a.hit
<1>0. IsMach(s, n) /\ Ring(s, n) /\ Line(s) /\ First(s) /\ Along(s, a.m, k, n)
  BY DEF Session, Seen
<1>1. Along(s, t, k + 1, n)
  BY <1>0, AlongStep, Zenon
<1>2. IsMach(a.m, n) /\ IsMach(t, n) /\ Rolled(a.m, t) /\ Rolled(s, a.m)
  BY <1>0, RawStepRolls DEF Along
<1> HIDE DEF t
<1>3. /\ {s.stub.nsteps, a.m.stub.nsteps, Len(s.hist), a.hit} \subseteq Nat
      /\ a.m.stub.nsteps <= s.stub.nsteps + k /\ a.hit <= s.stub.nsteps + k
  BY <1>0, <1>2, SeqLen, Zenon DEF IsMach, Line, Along, Seen
<1>4. h \in Nat /\ h <= s.stub.nsteps + (k + 1)
  BY <1>3
<1>5. ASSUME ~t.odd, s.edit = NoEdit, s.stub.nsteps = 0
      PROVE  /\ \A j \in 0..(k + 1) - 1 : BpOf(s, j) => j <= h
             /\ h = 0 \/ (BpOf(s, h) /\ h < k + 1)
  <2>1. ~a.m.odd /\ ~s.odd /\ \A j : Unedited(j, s.edit)
    BY <1>2, <1>5 DEF Rolled, Unedited
  <2>2. /\ \A j \in 0..k - 1 : BpOf(s, j) => j <= a.hit
        /\ a.hit = 0 \/ (BpOf(s, a.hit) /\ a.hit < k)
    BY <1>5, <2>1 DEF Seen
  <2>3. a.m.stub.nsteps = k
    <3>1. Path(s.hist[1], s.stub.nsteps, s.q.v)
      <4>1. s.stub.nsteps \in 0..Len(s.hist) - 1
        <5>1. s.stub.nsteps < Len(s.hist) /\ IsSeq(s.hist)
          BY <1>0, Zenon DEF Line
        <5>2. Len(s.hist) \in Nat
          BY <5>1, SeqLen
        <5> QED BY <1>5, <5>1, <5>2
      <4>2. s.q.v = s.hist[s.stub.nsteps + 1]
        BY <1>0, <2>1 DEF Line
      <4> QED BY <1>0, <2>1, <4>1, <4>2, Zenon DEF Line
    <3>2. Runs(s.hist[1], s.stub.nsteps + k)
      <4>1. s.stub.nsteps + k \in Nat /\ s.stub.nsteps + k < Len(s.hist)
        BY <1>3
      <4> QED BY <1>0, <2>1, <4>1, LineRuns
    <3>3. a.m.stub.nsteps = s.stub.nsteps + k
      BY <1>0, <2>1, <3>1, <3>2 DEF Along
    <3> QED BY <1>5, <3>3
  <2>4. BpMatch(a.m) <=> BpOf(s, k)
    <3>1. Line(a.m)
      BY <1>0, <1>2, <1>3, <1>5, <2>3, LineRolled
    <3>2. a.m.hist = s.hist /\ a.m.edit = s.edit /\ a.m.stub.bp = s.stub.bp
      BY <1>2 DEF Rolled, SameStub, StubFields
    <3>3. a.m.q.v = s.hist[k + 1]
      BY <2>1, <2>3, <3>1, <3>2 DEF Line
    <3> QED BY <3>2, <3>3 DEF BpMatch, BpOf, QuantaPc
  <2>5. CASE BpOf(s, k)
    <3>1. h = k
      BY <2>3, <2>4, <2>5
    <3> QED BY <2>5, <3>1
  <2>6. CASE ~BpOf(s, k)
    <3>1. h = a.hit
      BY <2>4, <2>6
    <3>2. ASSUME NEW j \in 0..(k + 1) - 1, BpOf(s, j) PROVE j <= a.hit
      <4>1. j # k /\ j \in 0..k
        BY <2>6, <3>2
      <4>2. j \in 0..k - 1
        BY <4>1
      <4> QED BY <2>2, <3>2, <4>2
    <3> QED BY <1>3, <2>2, <3>1, <3>2
  <2> QED BY <2>5, <2>6
<1> HIDE DEF h
<1>6. Scans(a).m = t /\ Scans(a).hit = h
  BY DEF Scans, t, h
<1> QED BY <1>1, <1>4, <1>5, <1>6 DEF Seen

\* f is the function the scan is defined with, up to c.
ScanLoop(s, f, c) == f = [i \in 0..c |-> IF i = 0 THEN [m |-> s, hit |-> 0] ELSE Scans(f[i - 1])]

LEMMA ScanLoopsExist ==
    ASSUME NEW s
    PROVE  \A c \in Nat : \E f : ScanLoop(s, f, c)
<1> DEFINE S == {c \in Nat : \E f : ScanLoop(s, f, c)}
           a == [m |-> s, hit |-> 0]
<1> HIDE DEF a
<1>1. 0 \in S
  <2> DEFINE f == [i \in 0..0 |-> a]
  <2>1. ScanLoop(s, f, 0)
    BY DEF ScanLoop, a
  <2> QED BY <2>1, Zenon
<1>2. ASSUME NEW k \in Nat, k \in S PROVE k + 1 \in S
  <2>1. PICK f : ScanLoop(s, f, k)
    BY <1>2
  <2> DEFINE h == [i \in 0..k + 1 |-> IF i = k + 1 THEN Scans(f[k]) ELSE f[i]]
             w == [i \in 0..k + 1 |-> IF i = 0 THEN a ELSE Scans(h[i - 1])]
  <2>2. ASSUME NEW i \in 0..k + 1 PROVE h[i] = w[i]
    <3>1. CASE i = k + 1
      BY <3>1
    <3>2. CASE i # k + 1 /\ i # 0
      <4>1. h[i] = f[i] /\ h[i - 1] = f[i - 1]
        BY <3>2
      <4>2. f[i] = Scans(f[i - 1])
        BY <2>1, <3>2 DEF ScanLoop
      <4> QED BY <4>1, <4>2, <3>2
    <3>3. CASE i = 0
      BY <2>1, <3>3 DEF ScanLoop, a
    <3> QED BY <3>1, <3>2, <3>3
  <2>3. ScanLoop(s, h, k + 1)
    <3>1. h = w
      BY <2>2
    <3> QED BY <3>1 DEF ScanLoop, a
  <2> HIDE DEF h
  <2> QED BY <2>3
<1> HIDE DEF S
<1>3. \A k \in Nat : k \in S
  BY <1>1, <1>2, SetInduction
<1> QED BY <1>3 DEF S

\* The scan k steps on, for as far as the history goes.
LEMMA ScanSeen ==
    ASSUME NEW n \in Nat \ {0}, NEW s, Session(s, n), NEW c \in Nat, NEW k \in 0..c,
           s.stub.nsteps + k < Len(s.hist), NEW f, ScanLoop(s, f, c)
    PROVE  Seen(s, f[k], k, n)
<1>0. {s.stub.nsteps, Len(s.hist)} \subseteq Nat /\ IsMach(s, n)
  BY SeqLen DEF Session, Line, IsMach
<1>1. f[0] = [m |-> s, hit |-> 0] /\ \A i \in 1..c : f[i] = Scans(f[i - 1])
  BY DEF ScanLoop
<1> DEFINE S == {i \in Nat : i <= k => Seen(s, f[i], i, n)}
<1>2. 0 \in S
  <2>1. f[0].m = s /\ f[0].hit = 0
    BY <1>1
  <2>2. Along(s, s, 0, n)
    BY <1>0, AlongStart
  <2> QED BY <1>0, <2>1, <2>2 DEF Seen
<1>3. ASSUME NEW i \in Nat, i \in S PROVE i + 1 \in S
  <2>1. SUFFICES ASSUME i + 1 <= k PROVE Seen(s, f[i + 1], i + 1, n)
    OBVIOUS
  <2>2. Seen(s, f[i], i, n)
    BY <1>3, <2>1
  <2>3. f[i + 1] = Scans(f[i])
    BY <1>1, <2>1
  <2>4. (s.stub.nsteps + i) + 1 < Len(s.hist)
    BY <1>0, <2>1
  <2> QED BY <2>2, <2>3, <2>4, SeenStep
<1>4. \A i \in Nat : i \in S
  <2> HIDE DEF S
  <2> QED BY <1>2, <1>3, SetInduction, Zenon
<1> QED BY <1>4

\* What a reverse operation leaves alone.
Reversed(m, r) ==
    /\ Keeps(m, r, {"nsteps", "reverse"}) /\ r.stub.reverse = TRUE
    /\ r.hist = m.hist /\ r.edit = m.edit /\ (m.odd => r.odd)

LEMMA ReverseSet ==
    ASSUME NEW n, NEW m, Session(m, n)
    PROVE  LET r == [m EXCEPT !.stub.reverse = TRUE]
           IN  Session(r, n) /\ Reversed(m, r) /\ r.stub.nsteps = m.stub.nsteps
<1> DEFINE r == [m EXCEPT !.stub.reverse = TRUE]
<1>1. /\ DOMAIN r = MachFields /\ r.stub = [m.stub EXCEPT !.reverse = TRUE] /\ Still(m, r)
  BY DEF Session, IsMach, MachFields, Still
<1> HIDE DEF r
<1>2. /\ DOMAIN r.stub = StubFields /\ Keeps(m, r, {"nsteps", "reverse"})
      /\ r.stub.reverse = TRUE /\ r.stub.nsteps = m.stub.nsteps /\ r.stub.cp = m.stub.cp
  BY <1>1 DEF Session, IsMach, StubFields, Keeps
<1>3. IsMach(r, n) /\ Ring(r, n) /\ Line(r) /\ First(r)
  BY <1>1, <1>2 DEF Session, IsMach, Ring, Line, First, Still
<1> QED BY <1>1, <1>2, <1>3 DEF Session, Reversed, Still, r

LEMMA MovedReversed ==
    ASSUME NEW m, NEW r, NEW t, Reversed(m, r), Moved(r, t)
    PROVE  Reversed(m, t)
<1>1. Keeps(m, t, {"nsteps", "reverse"})
  BY DEF Reversed, Moved, SameStub, Keeps
<1>2. t.stub.reverse = TRUE
  BY DEF Reversed, Moved, SameStub, StubFields
<1> QED BY <1>1, <1>2 DEF Reversed, Moved

\* bs
LEMMA ReverseStepLine ==
    ASSUME NEW n \in Nat \ {0}, NEW m, Session(m, n)
    PROVE  Session(HandleReverseStep(m), n) /\ Reversed(m, HandleReverseStep(m))
<1> DEFINE r == [m EXCEPT !.stub.reverse = TRUE]
           t == GotoStep(r, r.stub.nsteps - 1)
<1>1. Session(r, n) /\ Reversed(m, r)
  BY ReverseSet, Zenon
<1>2. HandleReverseStep(m) = IF r.stub.nsteps = 0 THEN r ELSE t
  BY DEF HandleReverseStep
<1> HIDE DEF r
<1>3. ASSUME r.stub.nsteps # 0 PROVE Session(t, n) /\ Reversed(m, t)
  <2>1. r.stub.nsteps - 1 \in 0..Len(r.hist) - 1
    <3>1. r.stub.nsteps \in Nat /\ IsSeq(r.hist) /\ r.stub.nsteps < Len(r.hist)
      BY <1>1, Zenon DEF Session, Line, IsMach
    <3>2. Len(r.hist) \in Nat
      BY <3>1, SeqLen
    <3>3. \A x, y \in Nat : x # 0 /\ x < y => x - 1 \in 0..y - 1
      OBVIOUS
    <3> QED BY <1>3, <3>1, <3>2, <3>3
  <2>2. IsMach(t, n) /\ Ring(t, n) /\ Line(t) /\ Moved(r, t)
    BY <1>1, <2>1, GotoLine, Zenon DEF Session
  <2>3. First(t)
    BY <1>1, <2>2 DEF First, Session, Moved, SameStub, StubFields
  <2> QED BY <1>1, <2>2, <2>3, MovedReversed DEF Session
<1> QED BY <1>1, <1>2, <1>3

\* Step k is the last before c with a breakpoint, or the first.
IsLast(m, k, c) == /\ \A j \in 0..c - 1 : BpOf(m, j) => j <= k
                   /\ k = 0 \/ (BpOf(m, k) /\ k < c)

\* bc
LEMMA ReverseContinueLine ==
    ASSUME NEW n \in Nat \ {0}, NEW m, Session(m, n)
    PROVE  LET r == HandleReverseContinue(m)
           IN  /\ Session(r, n) /\ Reversed(m, r)
               /\ 1 \notin boot.oom /\ ~r.odd /\ r.edit = NoEdit
                     => IsLast(m, r.stub.nsteps, m.stub.nsteps)
<1> DEFINE r == [m EXCEPT !.stub.reverse = TRUE]
           cur == r.stub.nsteps
           start == GotoStep(r, 0)
           f == CHOOSE g : ScanLoop(start, g, cur)
           seen == f[cur - start.stub.nsteps]
           t == GotoStep(seen.m, seen.hit)
<1>1. Session(r, n) /\ Reversed(m, r) /\ cur = m.stub.nsteps
  BY ReverseSet
<1>2. HandleReverseContinue(m) = IF cur = 0 THEN r ELSE t
  BY Zenon DEF HandleReverseContinue, ScanLoop, Scans
<1> HIDE DEF r
<1>3. cur \in Nat /\ Len(r.hist) \in Nat /\ cur < Len(r.hist)
  BY <1>1, SeqLen, Zenon DEF Session, Line, IsMach
<1>4. /\ IsMach(start, n) /\ Ring(start, n) /\ Line(start) /\ Moved(r, start)
      /\ start = r \/ start.stub.nsteps <= 0
      /\ 1 \notin boot.oom /\ ~start.odd /\ start.edit = NoEdit => start.stub.nsteps = 0
  <2>1. 0 \in 0..Len(r.hist) - 1
    BY <1>3
  <2> QED BY <1>1, <2>1, GotoLine, Zenon DEF Session
<1>5. ScanLoop(start, f, cur)
  <2> HIDE DEF start
  <2>1. \E g : ScanLoop(start, g, cur)
    BY <1>3, ScanLoopsExist, Zenon
  <2> QED BY <2>1, Zenon
<1> HIDE DEF f, start
<1>6. Session(start, n)
  BY <1>1, <1>4 DEF First, Session, Moved, SameStub, StubFields
<1> DEFINE k == cur - start.stub.nsteps
<1>7. start.stub.nsteps \in Nat /\ k \in 0..cur /\ start.stub.nsteps + k = cur
  <2>1. start.stub.nsteps \in Nat
    BY <1>4 DEF IsMach
  <2>2. start.stub.nsteps <= cur
    BY <1>3, <1>4, <2>1
  <2>3. \A x, y \in Nat : x <= y => y - x \in 0..y /\ x + (y - x) = y
    OBVIOUS
  <2> QED BY <1>3, <2>1, <2>2, <2>3
<1>8. start.hist = r.hist /\ start.edit = r.edit /\ start.stub.bp = r.stub.bp
  BY <1>4 DEF Moved, SameStub, StubFields
<1>9. Seen(start, seen, k, n)
  <2> HIDE DEF k
  <2>1. start.stub.nsteps + k < Len(start.hist)
    BY <1>3, <1>7, <1>8
  <2> QED BY <1>3, <1>5, <1>6, <1>7, <2>1, ScanSeen, Zenon DEF k
<1> HIDE DEF seen
<1>10. /\ IsMach(seen.m, n) /\ Rolled(start, seen.m) /\ seen.m.stub.nsteps <= cur
       /\ seen.hit \in 0..Len(r.hist) - 1
  BY <1>3, <1>7, <1>9 DEF Seen, Along
<1>11. Session(seen.m, n) /\ seen.m.hist = r.hist /\ seen.m.edit = r.edit
  <2>1. seen.m.stub.nsteps < Len(start.hist) /\ seen.m.stub.nsteps \in Nat
    BY <1>3, <1>8, <1>10 DEF IsMach
  <2>2. Ring(seen.m, n) /\ Line(seen.m)
    BY <1>6, <1>10, <2>1, LineRolled DEF Session
  <2>3. First(seen.m)
    BY <1>6, <1>10 DEF First, Session, Rolled, SameStub, StubFields
  <2> QED BY <1>8, <1>10, <2>2, <2>3 DEF Session, Rolled
<1>12. /\ IsMach(t, n) /\ Ring(t, n) /\ Line(t) /\ Moved(seen.m, t)
       /\ 1 \notin boot.oom /\ ~t.odd /\ t.edit = NoEdit => t.stub.nsteps = seen.hit
  BY <1>10, <1>11, GotoLine, Zenon DEF Session
<1> HIDE DEF t
<1>13. Session(t, n)
  BY <1>11, <1>12 DEF First, Session, Moved, SameStub, StubFields
<1>14. Reversed(m, t)
  <2>1. Reversed(m, start)
    BY <1>1, <1>4, MovedReversed
  <2>2. Moved(start, seen.m)
    BY <1>10 DEF Moved, Rolled
  <2> QED BY <1>12, <2>1, <2>2, MovedReversed
<1>15. ASSUME 1 \notin boot.oom, ~t.odd, t.edit = NoEdit
       PROVE  IsLast(m, t.stub.nsteps, m.stub.nsteps)
  <2>1. ~seen.m.odd /\ ~start.odd /\ start.edit = NoEdit
    BY <1>8, <1>10, <1>11, <1>12, <1>15, Zenon DEF Moved, Rolled
  <2>2. start.stub.nsteps = 0 /\ k = cur
    BY <1>3, <1>4, <1>15, <2>1
  <2>3. /\ \A j \in 0..cur - 1 : BpOf(start, j) => j <= seen.hit
        /\ seen.hit = 0 \/ (BpOf(start, seen.hit) /\ seen.hit < cur)
    BY <1>9, <2>1, <2>2 DEF Seen
  <2>4. \A j : BpOf(start, j) <=> BpOf(m, j)
    BY <1>1, <1>8 DEF BpOf, Reversed, Keeps, StubFields
  <2> QED BY <1>1, <1>12, <1>15, <2>3, <2>4 DEF IsLast
<1>16. cur = 0 => IsLast(m, r.stub.nsteps, m.stub.nsteps)
  BY <1>1 DEF IsLast
<1> QED BY <1>1, <1>2, <1>13, <1>14, <1>15, <1>16

-----------------------------------------------------------------------------
(* The packet handlers. *)

Tables(m) == IsFiniteSet(m.stub.bp) /\ Cardinality(m.stub.bp) <= MaxBp

\* The stub's fields a handler works on, and the ones that steer its loop.
Working == {"nsteps", "cp", "lastcp", "adds", "reverse", "bp"}
Steering == {"at", "guard", "quit"}

\* Unless an operation went in reverse, a file that held the image still does.
FileKept(m, r) ==
    r.stub.reverse = FALSE =>
        /\ m.stub.reverse = FALSE /\ r.q.writable = m.q.writable
        /\ m.q.writable /\ m.image = m.q.v.disk => r.image = r.q.v.disk

\* What is known of the machine does not come back once lost.
Loses(m, r) == (m.odd => r.odd) /\ (r.edit = NoEdit => m.edit = NoEdit)

\* What a handler does to the machine, whatever the packet.
Works(m, r, n) ==
    /\ Session(r, n) /\ Tables(r)
    /\ Keeps(m, r, Working \cup Steering) /\ FileKept(m, r) /\ Loses(m, r)

\* What a handler does, packet by packet.
Handled(m, cmd, a, n) ==
    /\ Works(m, a.m, n)
    /\ a.m.stub.at = IF cmd[1] \in {"c", "c@"} THEN "run" ELSE m.stub.at
    /\ a.m.stub.guard \in {0, m.stub.guard}
    /\ a.m.stub.quit = IF cmd[1] \in {"D", "k"} THEN TRUE ELSE m.stub.quit
    /\ a.reply = None <=> cmd[1] \in {"c", "c@", "k"}
    /\ a.reply = "E" /\ cmd[1] # "Gbad" => a.m.q = m.q /\ a.m.stub.bp = m.stub.bp
    /\ cmd[1] = "c" => a.m.stub.nsteps \in {m.stub.nsteps, m.stub.nsteps + 1}
    /\ cmd[1] = "bc" =>
          /\ a.m.hist = m.hist /\ a.m.stub.bp = m.stub.bp
          /\ 1 \notin boot.oom /\ ~a.m.odd /\ a.m.edit = NoEdit
                => IsLast(m, a.m.stub.nsteps, m.stub.nsteps)

\* A change to other fields of the stub is no matter to the session.
LEMMA Restub ==
    ASSUME NEW n, NEW m, Session(m, n), NEW r, DOMAIN r = MachFields, Still(m, r),
           DOMAIN r.stub = StubFields, r.stub.nsteps = m.stub.nsteps, r.stub.cp = m.stub.cp
    PROVE  Session(r, n)
BY Zenon DEF Session, IsMach, Ring, Line, First, Still

LEMMA StillWorks ==
    ASSUME NEW n, NEW m, Session(m, n), NEW r, DOMAIN r = MachFields, Still(m, r),
           DOMAIN r.stub = StubFields, Keeps(m, r, {"bp"} \cup Steering), Tables(r)
    PROVE  Works(m, r, n)
<1>1. r.stub.nsteps = m.stub.nsteps /\ r.stub.cp = m.stub.cp /\ r.stub.reverse = m.stub.reverse
  BY DEF Keeps, StubFields, Steering
<1>2. Session(r, n)
  BY <1>1, Restub
<1>3. Keeps(m, r, Working \cup Steering)
  BY DEF Keeps, Working
<1>4. FileKept(m, r) /\ Loses(m, r)
  BY <1>1 DEF FileKept, Loses, Still
<1> QED BY <1>2, <1>3, <1>4 DEF Works

LEMMA SameWorks ==
    ASSUME NEW n, NEW m, Session(m, n), Tables(m)
    PROVE  Works(m, m, n)
<1>1. DOMAIN m = MachFields /\ DOMAIN m.stub = StubFields /\ Still(m, m)
  BY DEF Session, IsMach, Still
<1>2. Keeps(m, m, {"bp"} \cup Steering)
  BY DEF Keeps
<1> QED BY <1>1, <1>2, StillWorks

\* Z0, z0: a breakpoint table with room takes one more.
LEMMA HandleBpHandled ==
    ASSUME NEW n, NEW m, Session(m, n), Tables(m), NEW cmd, cmd[1] \in {"Z", "z"}
    PROVE  Handled(m, cmd, HandleBp(m, cmd), n)
<1> DEFINE a == HandleBp(m, cmd)
<1>1. ASSUME NEW S, IsFiniteSet(S), Cardinality(S) <= MaxBp,
             a = Answer([m EXCEPT !.stub.bp = S], "OK")
      PROVE  Handled(m, cmd, a, n)
  <2> DEFINE r == [m EXCEPT !.stub.bp = S]
  <2>1. a.m = r /\ a.reply = "OK"
    BY <1>1 DEF Answer
  <2>2. DOMAIN r = MachFields /\ Still(m, r) /\ r.stub = [m.stub EXCEPT !.bp = S]
    BY DEF Session, IsMach, MachFields, Still
  <2> HIDE DEF r
  <2>3. DOMAIN r.stub = StubFields /\ r.stub.bp = S /\ Keeps(m, r, {"bp"})
    BY <2>2 DEF Session, IsMach, StubFields, Keeps
  <2>4. Keeps(m, r, {"bp"} \cup Steering)
    BY <2>3 DEF Keeps
  <2>5. r.stub.at = m.stub.at /\ r.stub.guard = m.stub.guard /\ r.stub.quit = m.stub.quit
    BY <2>3 DEF Keeps, StubFields
  <2>6. Works(m, r, n)
    BY <1>1, <2>2, <2>3, <2>4, StillWorks, Zenon DEF Tables
  <2> QED BY <2>1, <2>5, <2>6, Zenon DEF Handled, None
<1>2. CASE cmd[1] = "z"
  <2> DEFINE S == m.stub.bp \ {cmd[2]}
  <2>1. IsFiniteSet(S) /\ Cardinality(S) <= MaxBp
    <3>1. IsFiniteSet(m.stub.bp) /\ Cardinality(m.stub.bp) \in Nat /\ Cardinality(m.stub.bp) <= MaxBp
      BY FS_CardinalityType DEF Tables
    <3>2. /\ IsFiniteSet(S)
          /\ Cardinality(S) = IF cmd[2] \in m.stub.bp THEN Cardinality(m.stub.bp) - 1
                              ELSE Cardinality(m.stub.bp)
      BY <3>1, FS_RemoveElement, Zenon
    <3> HIDE DEF S
    <3> QED BY <3>1, <3>2, TableAssumption
  <2>2. a = Answer([m EXCEPT !.stub.bp = S], "OK")
    BY <1>2 DEF HandleBp
  <2> HIDE DEF S
  <2> QED BY <1>1, <2>1, <2>2
<1>3. CASE cmd[1] # "z" /\ (cmd[2] \in m.stub.bp \/ Cardinality(m.stub.bp) < MaxBp)
  <2> DEFINE S == m.stub.bp \cup {cmd[2]}
  <2>1. IsFiniteSet(S) /\ Cardinality(S) <= MaxBp
    <3>1. IsFiniteSet(m.stub.bp) /\ Cardinality(m.stub.bp) \in Nat /\ Cardinality(m.stub.bp) <= MaxBp
      BY FS_CardinalityType DEF Tables
    <3>2. /\ IsFiniteSet(S)
          /\ Cardinality(S) = IF cmd[2] \in m.stub.bp THEN Cardinality(m.stub.bp)
                              ELSE Cardinality(m.stub.bp) + 1
      BY <3>1, FS_AddElement, Zenon
    <3> HIDE DEF S
    <3> QED BY <1>3, <3>1, <3>2, TableAssumption
  <2>2. a = Answer([m EXCEPT !.stub.bp = S], "OK")
    BY <1>3 DEF HandleBp
  <2> HIDE DEF S
  <2> QED BY <1>1, <2>1, <2>2
<1>4. CASE cmd[1] # "z" /\ ~(cmd[2] \in m.stub.bp \/ Cardinality(m.stub.bp) < MaxBp)
  <2>1. a.m = m /\ a.reply = "E"
    BY <1>4 DEF HandleBp, Answer
  <2>2. Works(m, m, n)
    BY SameWorks
  <2> QED BY <2>1, <2>2, Zenon DEF Handled, None
<1> QED BY <1>2, <1>3, <1>4

LEMMA StopReplyIs ==
    ASSUME NEW m, NEW sig, sig \in {"trap", "swbreak", "sigint"}
    PROVE  StopReply(m, sig) \in {"W", "S05", sig} /\ StopReply(m, sig) # None
BY DEF StopReply, None

\* A write leaves the stub, the file and the disk alone.
LEMMA PokeWorks ==
    ASSUME NEW n \in Nat \ {0}, NEW m, Session(m, n), Tables(m), NEW cmd, cmd[1] \in Writes
    PROVE  Works(m, Poke(m, cmd), n) /\ Poke(m, cmd).stub = m.stub
<1> DEFINE r == Poke(m, cmd)
<1>1. /\ Session(r, n) /\ r.stub = m.stub /\ r.image = m.image /\ r.odd = m.odd /\ r.edit \in Nat
      /\ r.q.writable = m.q.writable /\ r.q.v.disk = m.q.v.disk
  BY PokeLine DEF Session
<1> HIDE DEF r
<1>2. Keeps(m, r, Working \cup Steering) /\ Tables(r)
  BY <1>1 DEF Keeps, Tables
<1>3. FileKept(m, r)
  BY <1>1 DEF FileKept
<1>4. Loses(m, r)
  BY <1>1 DEF Loses, NoEdit
<1> QED BY <1>1, <1>2, <1>3, <1>4 DEF Works, r

\* A step forward, after a write or without one.
LEMMA StepWorks ==
    ASSUME NEW n \in Nat \ {0}, NEW m, Session(m, n), Tables(m), NEW p,
           Works(m, p, n), p.stub = m.stub
    PROVE  LET r == StubStep(p)
           IN  /\ Works(m, r, n) /\ Keeps(m, r, Working)
               /\ r.stub.nsteps \in {m.stub.nsteps, m.stub.nsteps + 1}
<1> DEFINE r == StubStep(p)
<1>1. /\ IsMach(r, n) /\ Ring(r, n) /\ Line(r) /\ First(r)
      /\ Advanced(p, r, {"nsteps", "cp", "lastcp", "adds"})
  BY StubStepLine DEF Works, Session
<1> HIDE DEF r
<1>2. Keeps(m, r, Working) /\ Keeps(m, r, Working \cup Steering)
  BY <1>1 DEF Advanced, Keeps, Working
<1>3. r.stub.bp = m.stub.bp /\ r.stub.reverse = m.stub.reverse
  BY <1>1 DEF Advanced, Keeps, StubFields
<1>4. Tables(r)
  BY <1>3 DEF Tables
<1>5. FileKept(m, r)
  BY <1>1, <1>3, Zenon DEF FileKept, Advanced, Works
<1>6. Loses(m, r)
  BY <1>1, Zenon DEF Loses, Advanced, Works
<1>7. r.stub.nsteps \in {m.stub.nsteps, m.stub.nsteps + 1}
  BY <1>1 DEF Advanced
<1> QED BY <1>1, <1>2, <1>4, <1>5, <1>6, <1>7, Zenon DEF Works, Session, r

\* s
LEMMA HandleStepHandled ==
    ASSUME NEW n \in Nat \ {0}, NEW m, Session(m, n), Tables(m), NEW cmd, cmd[1] \in {"s", "s@"}
    PROVE  Handled(m, cmd, HandleStep(m, cmd), n)
<1> DEFINE p == IF cmd[1] = "s@" THEN Poke(m, cmd) ELSE m
           r == StubStep(p)
           a == HandleStep(m, cmd)
<1>1. Works(m, p, n) /\ p.stub = m.stub
  BY SameWorks, PokeWorks DEF Writes
<1>2. a.m = r /\ a.reply = StopReply(r, "trap")
  BY DEF HandleStep, Answer
<1> HIDE DEF p
<1>3. Works(m, r, n) /\ Keeps(m, r, Working)
  BY <1>1, StepWorks
<1>4. a.reply # None /\ a.reply # "E"
  BY <1>2, StopReplyIs
<1>5. r.stub.at = m.stub.at /\ r.stub.guard = m.stub.guard /\ r.stub.quit = m.stub.quit
  BY <1>3 DEF Keeps, StubFields, Working
<1> HIDE DEF r
<1> QED BY <1>2, <1>3, <1>4, <1>5, Zenon DEF Handled

\* c
LEMMA HandleContinueHandled ==
    ASSUME NEW n \in Nat \ {0}, NEW m, Session(m, n), Tables(m), NEW cmd, cmd[1] \in {"c", "c@"}
    PROVE  Handled(m, cmd, HandleContinue(m, cmd), n)
<1> DEFINE p == IF cmd[1] = "c@" THEN Poke(m, cmd) ELSE m
           r == StubStep(p)
           t == [r EXCEPT !.stub.at = "run", !.stub.guard = 0]
           a == HandleContinue(m, cmd)
<1>1. Works(m, p, n) /\ p.stub = m.stub
  BY SameWorks, PokeWorks DEF Writes
<1>2. a.m = t /\ a.reply = None
  BY DEF HandleContinue, Answer
<1> HIDE DEF p
<1>3. /\ Works(m, r, n) /\ Keeps(m, r, Working)
      /\ r.stub.nsteps \in {m.stub.nsteps, m.stub.nsteps + 1}
  BY <1>1, StepWorks
<1> HIDE DEF r
<1>4. /\ DOMAIN t = MachFields /\ Still(r, t)
      /\ t.stub = [r.stub EXCEPT !.at = "run", !.guard = 0]
  BY <1>3 DEF Works, Session, IsMach, MachFields, Still
<1> HIDE DEF t
<1>5. /\ DOMAIN t.stub = StubFields /\ Keeps(r, t, {"at", "guard"})
      /\ t.stub.at = "run" /\ t.stub.guard = 0
  BY <1>3, <1>4, Zenon DEF Works, Session, IsMach, StubFields, Keeps
<1>6. /\ t.stub.nsteps = r.stub.nsteps /\ t.stub.cp = r.stub.cp /\ t.stub.quit = m.stub.quit
      /\ t.stub.bp = r.stub.bp /\ t.stub.reverse = r.stub.reverse
  BY <1>3, <1>5 DEF Keeps, StubFields, Working
<1>7. Works(m, t, n)
  <2>1. Session(t, n)
    BY <1>3, <1>4, <1>5, <1>6, Restub, Zenon DEF Works
  <2>2. Keeps(m, t, Working \cup Steering)
    BY <1>3, <1>5 DEF Keeps, Steering
  <2>3. FileKept(m, t) /\ Loses(m, t) /\ Tables(t)
    BY <1>3, <1>4, <1>6 DEF Works, FileKept, Loses, Tables, Still
  <2> QED BY <2>1, <2>2, <2>3 DEF Works
<1> QED BY <1>2, <1>3, <1>5, <1>6, <1>7, Zenon DEF Handled, None

\* P, G, M
LEMMA HandleWriteHandled ==
    ASSUME NEW n \in Nat \ {0}, NEW m, Session(m, n), Tables(m),
           NEW cmd, cmd[1] \in {"P", "G", "M", "Mcode", "Gbad"}
    PROVE  Handled(m, cmd, HandleWrite(m, cmd), n)
<1> DEFINE a == HandleWrite(m, cmd)
<1>1. a.m = Poke(m, cmd) /\ a.reply = IF cmd[1] = "Gbad" THEN "E" ELSE "OK"
  BY DEF HandleWrite, Answer
<1>2. Works(m, Poke(m, cmd), n) /\ Poke(m, cmd).stub = m.stub
  BY PokeWorks DEF Writes
<1> QED BY <1>1, <1>2, Zenon DEF Handled, None

\* bs, bc
LEMMA HandleReverseHandled ==
    ASSUME NEW n \in Nat \ {0}, NEW m, Session(m, n), Tables(m), NEW cmd, cmd[1] \in {"bs", "bc"}
    PROVE  Handled(m, cmd, HandleReverse(m, cmd), n)
<1> DEFINE r == IF cmd[1] = "bs" THEN HandleReverseStep(m) ELSE HandleReverseContinue(m)
           a == HandleReverse(m, cmd)
<1>1. a.m = r /\ a.reply = StopReply(r, "trap")
  BY DEF HandleReverse, Answer
<1>2. /\ Session(r, n) /\ Reversed(m, r)
      /\ cmd[1] = "bc" /\ 1 \notin boot.oom /\ ~r.odd /\ r.edit = NoEdit
             => IsLast(m, r.stub.nsteps, m.stub.nsteps)
  BY ReverseStepLine, ReverseContinueLine, Zenon
<1> HIDE DEF r
<1>3. a.reply # None /\ a.reply # "E"
  BY <1>1, StopReplyIs
<1>4. /\ r.stub.at = m.stub.at /\ r.stub.guard = m.stub.guard /\ r.stub.quit = m.stub.quit
      /\ r.stub.bp = m.stub.bp /\ r.stub.reverse = TRUE /\ r.hist = m.hist
  BY <1>2 DEF Reversed, Keeps, StubFields
<1>5. Works(m, r, n)
  <2>1. Keeps(m, r, Working \cup Steering)
    BY <1>2 DEF Reversed, Keeps, Working
  <2>2. FileKept(m, r) /\ Tables(r)
    BY <1>4 DEF FileKept, Tables
  <2>3. Loses(m, r)
    BY <1>2 DEF Reversed, Loses
  <2> QED BY <1>2, <2>1, <2>2, <2>3 DEF Works
<1> QED BY <1>1, <1>2, <1>3, <1>4, <1>5, Zenon DEF Handled

\* D, k
LEMMA LeaveHandled ==
    ASSUME NEW n, NEW m, Session(m, n), Tables(m), NEW cmd, cmd[1] \in {"D", "k"}
    PROVE  Handled(m, cmd, Leave(m, cmd), n)
<1> DEFINE r == [m EXCEPT !.stub.quit = TRUE]
           a == Leave(m, cmd)
<1>1. a.m = r /\ a.reply = IF cmd[1] = "k" THEN None ELSE "OK"
  BY DEF Leave, Answer
<1>2. DOMAIN r = MachFields /\ Still(m, r) /\ r.stub = [m.stub EXCEPT !.quit = TRUE]
  BY DEF Session, IsMach, MachFields, Still
<1> HIDE DEF r
<1>3. DOMAIN r.stub = StubFields /\ r.stub.quit = TRUE /\ Keeps(m, r, {"quit"})
  BY <1>2 DEF Session, IsMach, StubFields, Keeps
<1>4. Keeps(m, r, {"bp"} \cup Steering)
  BY <1>3 DEF Keeps, Steering
<1>5. r.stub.at = m.stub.at /\ r.stub.guard = m.stub.guard /\ r.stub.bp = m.stub.bp
  BY <1>3 DEF Keeps, StubFields
<1>6. Works(m, r, n)
  BY <1>2, <1>3, <1>4, <1>5, StillWorks, Zenon DEF Tables
<1> QED BY <1>1, <1>3, <1>5, <1>6, Zenon DEF Handled, None

\* handle_packet.
LEMMA HandleHandled ==
    ASSUME NEW n \in Nat \ {0}, NEW m, Session(m, n), Tables(m), NEW cmd
    PROVE  Handled(m, cmd, Handle(m, cmd), n)
<1> DEFINE a == Handle(m, cmd)
<1>1. CASE cmd[1] \in {"Z", "z"}
  BY <1>1, HandleBpHandled DEF Handle
<1>2. CASE cmd[1] \in {"s", "s@"}
  BY <1>2, HandleStepHandled DEF Handle
<1>3. CASE cmd[1] \in {"c", "c@"}
  BY <1>3, HandleContinueHandled DEF Handle
<1>4. CASE cmd[1] \in {"P", "G", "M", "Mcode", "Gbad"}
  BY <1>4, HandleWriteHandled DEF Handle
<1>5. CASE cmd[1] \in {"bs", "bc"}
  BY <1>5, HandleReverseHandled DEF Handle
<1>6. CASE cmd[1] \in {"D", "k"}
  BY <1>6, LeaveHandled DEF Handle
<1>7. CASE cmd[1] \notin {"Z", "z", "s", "s@", "c", "c@", "P", "G", "M", "Mcode", "Gbad",
                          "bs", "bc", "D", "k"}
  <2>1. a.m = m /\ a.reply \in {StopReply(m, "trap"), "OK", "E"}
    BY <1>7 DEF Handle, Answer
  <2>2. a.reply # None
    BY <2>1, StopReplyIs DEF None
  <2>3. Works(m, m, n)
    BY SameWorks
  <2> QED BY <1>7, <2>1, <2>2, <2>3, Zenon DEF Handled
<1> QED BY <1>1, <1>2, <1>3, <1>4, <1>5, <1>6, <1>7

=============================================================================
