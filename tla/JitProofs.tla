------------------------------ MODULE JitProofs ------------------------------
(***************************************************************************)
(* Proofs about Jit, for any program, interrupt set-up, page, block, table *)
(* and arena sizes, step limits and calls.                                 *)
(***************************************************************************)
EXTENDS Jit, WellFoundedInduction, TLAPS

-----------------------------------------------------------------------------
(* The two timer bits, and what bringing them up to date does. *)

\* m and r are machines that differ at most in the fields F.
SameBut(m, r, F) ==
    DOMAIN m = Fields /\ DOMAIN r = Fields /\ \A f \in Fields \ F : m[f] = r[f]

Clocked(m) ==
    /\ m = [f \in Fields |-> m[f]]
    /\ m.mtime \in Nat /\ m.mtimecmp \in Nat /\ m.instret \in Nat /\ m.stimecmp \in Nat
    /\ m.stip \in BOOLEAN /\ m.armed \in BOOLEAN

\* The bits after the update.
Armed(m) == m.armed /\ m.mtime < m.mtimecmp
Stip(m) == IF m.stce THEN m.instret >= m.stimecmp
           ELSE m.stip \/ (m.armed /\ m.mtime >= m.mtimecmp)

LEMMA SettledIs ==
    ASSUME NEW m, Clocked(m)
    PROVE  /\ SameBut(m, Settled(m), {"stip", "armed"}) /\ Clocked(Settled(m))
           /\ Settled(m).armed = Armed(m) /\ Settled(m).stip = Stip(m)
<1> DEFINE t == FirmwareTimerTick(m)
<1>1. /\ SameBut(m, t, {"stip", "armed"}) /\ t = [f \in Fields |-> t[f]]
      /\ t.armed = Armed(m) /\ t.stip = (m.stip \/ (m.armed /\ m.mtime >= m.mtimecmp))
  <2>1. CASE m.armed /\ m.mtime >= m.mtimecmp
    <3>1. t = [m EXCEPT !.stip = TRUE, !.armed = FALSE]
      BY <2>1 DEF FirmwareTimerTick
    <3>2. SameBut(m, t, {"stip", "armed"}) /\ t = [f \in Fields |-> t[f]] /\ ~t.armed /\ t.stip
      BY <3>1, Zenon DEF SameBut, Clocked, Fields
    <3>3. t.armed = FALSE /\ t.stip = TRUE
      BY <3>1, Zenon DEF Clocked, Fields
    <3>4. ~(m.mtime < m.mtimecmp)
      BY <2>1 DEF Clocked
    <3>5. Armed(m) = FALSE /\ (m.stip \/ (m.armed /\ m.mtime >= m.mtimecmp)) = TRUE
      BY <2>1, <3>4, Zenon DEF Armed
    <3> QED BY <3>2, <3>3, <3>5, Zenon
  <2>2. CASE ~(m.armed /\ m.mtime >= m.mtimecmp)
    <3>1. t = m
      BY <2>2 DEF FirmwareTimerTick
    <3>2. m.armed => m.mtime < m.mtimecmp
      BY <2>2 DEF Clocked
    <3>3. m.armed = Armed(m) /\ m.stip = (m.stip \/ (m.armed /\ m.mtime >= m.mtimecmp))
      BY <2>2, <3>2, Zenon DEF Clocked, Armed
    <3> QED BY <3>1, <3>3, Zenon DEF SameBut, Clocked
  <2> QED BY <2>1, <2>2
<1> HIDE DEF t
<1>2. /\ t.stce = m.stce /\ t.instret = m.instret /\ t.stimecmp = m.stimecmp
      /\ t.mtime = m.mtime /\ t.mtimecmp = m.mtimecmp
  BY <1>1 DEF SameBut, Fields
<1>3. Settled(m) = IF t.stce THEN [t EXCEPT !.stip = t.instret >= t.stimecmp] ELSE t
  BY DEF Settled, SstcTick, t
<1>4. CASE m.stce
  <2>1. Settled(m) = [t EXCEPT !.stip = m.instret >= m.stimecmp]
    BY <1>2, <1>3, <1>4
  <2>2. SameBut(m, Settled(m), {"stip", "armed"}) /\ Settled(m) = [f \in Fields |-> Settled(m)[f]]
    BY <1>1, <2>1 DEF SameBut
  <2>3. Settled(m).armed = Armed(m) /\ Settled(m).stip = (m.instret >= m.stimecmp)
    BY <1>1, <2>1 DEF SameBut, Fields
  <2>4. Settled(m).stip = Stip(m) /\ Settled(m).armed \in BOOLEAN
    BY <1>4, <2>3, Zenon DEF Stip, Armed
  <2>6. Settled(m).stip \in BOOLEAN
    BY <2>3
  <2>5. Clocked(Settled(m))
    BY <2>2, <2>4, <2>6 DEF SameBut, Clocked, Fields
  <2> QED BY <2>2, <2>3, <2>4, <2>5
<1>5. CASE ~m.stce
  <2>1. Settled(m) = t
    BY <1>2, <1>3, <1>5
  <2> QED BY <1>1, <1>2, <1>5, <2>1, Zenon DEF SameBut, Clocked, Armed, Stip, Fields
<1> QED BY <1>4, <1>5

\* m and r are the same machine but for when the bits were last brought up to date.
Agree(m, r) ==
    SameBut(m, r, {"stip", "armed"}) /\ (Armed(m) <=> Armed(r)) /\ (Stip(m) <=> Stip(r))

LEMMA AgreeSettled ==
    ASSUME NEW m, NEW r, Clocked(m), Clocked(r), Agree(m, r)
    PROVE  Settled(m) = Settled(r)
<1> DEFINE a == Settled(m)
           b == Settled(r)
<1>1. a = [f \in Fields |-> a[f]] /\ b = [f \in Fields |-> b[f]]
  BY SettledIs, Zenon DEF Clocked
<1>2. a.stip = b.stip /\ a.armed = b.armed
  <2>1. a.armed = Armed(m) /\ b.armed = Armed(r) /\ a.stip = Stip(m) /\ b.stip = Stip(r)
    BY SettledIs, Zenon
  <2>2. {a.armed, b.armed, a.stip, b.stip} \subseteq BOOLEAN
    BY SettledIs, Zenon DEF Clocked
  <2> HIDE DEF a, b
  <2> QED BY <2>1, <2>2, Zenon DEF Agree
<1>3. ASSUME NEW f \in Fields \ {"stip", "armed"} PROVE a[f] = b[f]
  BY SettledIs, Zenon DEF SameBut, Agree
<1> HIDE DEF a, b
<1>4. \A f \in Fields : a[f] = b[f]
  BY <1>2, <1>3
<1> QED BY <1>1, <1>4 DEF a, b

\* From m to n nothing but time can have changed the bits.
Later(m, n) ==
    /\ n.stip = m.stip /\ n.armed = m.armed /\ n.stce = m.stce
    /\ n.mtimecmp = m.mtimecmp /\ n.mtime >= m.mtime

LEMMA AgreeLater ==
    ASSUME NEW m, NEW r, Clocked(m), Clocked(r), Agree(m, r),
           NEW n, NEW s, Clocked(n), Clocked(s), SameBut(n, s, {"stip", "armed"}),
           Later(m, n), Later(r, s)
    PROVE  Agree(n, s)
<1>1. /\ r.mtime = m.mtime /\ r.mtimecmp = m.mtimecmp /\ r.stce = m.stce
      /\ s.mtime = n.mtime /\ s.mtimecmp = n.mtimecmp /\ s.stce = n.stce
      /\ s.instret = n.instret /\ s.stimecmp = n.stimecmp
  BY DEF Agree, SameBut, Fields
<1>2. /\ n.mtime >= n.mtimecmp <=> ~(n.mtime < n.mtimecmp)
      /\ m.mtime >= m.mtimecmp <=> ~(m.mtime < m.mtimecmp)
      /\ m.mtime >= m.mtimecmp => n.mtime >= n.mtimecmp
  BY DEF Clocked, Later
<1>3. Armed(n) <=> Armed(s)
  BY <1>1, <1>2, Zenon DEF Agree, Armed, Later
<1>4. Stip(n) <=> Stip(s)
  <2>1. CASE n.stce
    BY <1>1, <2>1, Zenon DEF Stip
  <2>2. CASE ~n.stce
    <3>1. /\ Stip(n) <=> n.stip \/ (n.armed /\ n.mtime >= n.mtimecmp)
          /\ Stip(s) <=> s.stip \/ (s.armed /\ n.mtime >= n.mtimecmp)
      BY <1>1, <2>2, Zenon DEF Stip
    <3>2. /\ Stip(m) <=> n.stip \/ (n.armed /\ m.mtime >= m.mtimecmp)
          /\ Stip(r) <=> s.stip \/ (s.armed /\ m.mtime >= m.mtimecmp)
      BY <1>1, <2>2, Zenon DEF Stip, Later
    <3>3. /\ Armed(m) <=> n.armed /\ m.mtime < m.mtimecmp
          /\ Armed(r) <=> s.armed /\ m.mtime < m.mtimecmp
      BY <1>1, Zenon DEF Armed, Later
    <3> QED BY <1>2, <3>1, <3>2, <3>3, Zenon DEF Agree
  <2> QED BY <2>1, <2>2
<1> QED BY <1>3, <1>4 DEF Agree

\* A machine agrees with itself brought up to date.
LEMMA SettledAgrees ==
    ASSUME NEW m, Clocked(m)
    PROVE  Agree(m, Settled(m)) /\ Agree(m, m)
<1>1. m.mtime >= m.mtimecmp <=> ~(m.mtime < m.mtimecmp)
  BY DEF Clocked
<1> DEFINE s == Settled(m)
<1>2. /\ SameBut(m, s, {"stip", "armed"}) /\ s.armed = Armed(m) /\ s.stip = Stip(m)
  BY SettledIs, Zenon
<1> HIDE DEF s
<1>3. /\ s.mtime = m.mtime /\ s.mtimecmp = m.mtimecmp /\ s.stce = m.stce
      /\ s.instret = m.instret /\ s.stimecmp = m.stimecmp
  BY <1>2 DEF SameBut, Fields
<1>4. Armed(s) <=> Armed(m)
  BY <1>2, <1>3, Zenon DEF Armed
<1>5. Stip(s) <=> Stip(m)
  BY <1>1, <1>2, <1>3, Zenon DEF Stip, Armed
<1>6. SameBut(m, m, {"stip", "armed"})
  BY <1>2, Zenon DEF SameBut
<1> QED BY <1>2, <1>4, <1>5, <1>6, Zenon DEF Agree, s

LEMMA AgreeTrans ==
    ASSUME NEW m, NEW n, NEW r, Agree(m, n), Agree(n, r)
    PROVE  Agree(m, r) /\ Agree(n, m)
BY Zenon DEF Agree, SameBut

LEMMA AgreeSym == ASSUME NEW m, NEW r, Agree(m, r) PROVE Agree(r, m)
BY Zenon DEF Agree, SameBut

-----------------------------------------------------------------------------
(* Instructions. *)

LEMMA MachineClocked == ASSUME NEW m, IsMachine(m) PROVE Clocked(m) /\ DOMAIN m = Fields
BY DEF IsMachine, Clocked

LEMMA MachineCode ==
    ASSUME NEW m, IsMachine(m)
    PROVE  /\ Len(m.code) \in Nat /\ DOMAIN m.code = 1..Len(m.code) /\ Len(m.code) > 2
           /\ m.pc \in 1..Len(m.code) /\ m.alias \in {0, 1}
           /\ m.saved[1] \in 1..Len(m.code) /\ m.saved[2] \in {0, 1}
           /\ \A c \in 1..Len(m.code) : m.code[c] \in Insns
           /\ m.code[Len(m.code)] = "ret"
<1>1. m.code \in Seq(Insns) /\ Len(m.code) > 2 /\ m.pc \in DOMAIN m.code /\ m.alias \in {0, 1}
  BY Zenon DEF IsMachine
<1>2. m.saved[1] \in DOMAIN m.code /\ m.saved[2] \in {0, 1} /\ m.code[Len(m.code)] = "ret"
  BY Zenon DEF IsMachine
<1> QED BY <1>1, <1>2

LEMMA EnterType ==
    ASSUME NEW m, IsMachine(m), NEW cause, NEW toS
    PROVE  IsMachine(Enter(m, cause, toS)) /\ Enter(m, cause, toS).code = m.code
<1> DEFINE e == Enter(m, cause, toS)
<1>1. /\ e = [f \in Fields |-> e[f]] /\ e.code = m.code /\ e.alias = 0 /\ e.pc = Len(m.code) - 1
      /\ e.saved = <<m.pc, m.alias, m.priv, m.mie, m.sie>>
      /\ \A f \in {"mtime", "mtimecmp", "instret", "stimecmp", "stip", "armed", "stce",
                 "poweroff", "halted", "stopped"} : e[f] = m[f]
      /\ e.mie \in BOOLEAN /\ e.sie \in BOOLEAN
  BY Zenon DEF IsMachine, Enter, Handler, Fields
<1>2. Len(m.code) - 1 \in DOMAIN m.code /\ m.pc \in DOMAIN m.code /\ m.alias \in {0, 1}
  BY DEF IsMachine
<1> HIDE DEF e
<1>3. e.saved[1] = m.pc /\ e.saved[2] = m.alias /\ e.saved[4] = m.mie /\ e.saved[5] = m.sie
  <2>1. e.saved = <<m.pc, m.alias, m.priv, m.mie, m.sie>>
    BY <1>1, Zenon
  <2> QED BY <2>1
<1> QED BY <1>1, <1>2, <1>3, Zenon DEF IsMachine, e

\* What an instruction leaves to the commit of the next PC.
Kept(m, n) ==
    n.pc = m.pc /\ n.alias = m.alias /\ n.saved = m.saved /\ n.instret = m.instret

LEMMA ExecuteType ==
    ASSUME NEW m, IsMachine(m), NEW i
    PROVE  LET res == Execute(m, i)
           IN  IsMachine(res.m) /\ (res.ok => Kept(m, res.m)) /\ Len(res.m.code) = Len(m.code)
<1> DEFINE res == Execute(m, i)
           Good(n) == IsMachine(n) /\ Kept(m, n) /\ Len(n.code) = Len(m.code)
<1> SUFFICES IsMachine(res.m) /\ (res.ok => Kept(m, res.m)) /\ Len(res.m.code) = Len(m.code)
  OBVIOUS
<1> HIDE DEF res
<1>1. ASSUME NEW cause, res = Trapped(m, cause)
      PROVE  IsMachine(res.m) /\ ~res.ok /\ Len(res.m.code) = Len(m.code)
  <2>1. IsMachine([m EXCEPT !.halted = TRUE])
    BY Zenon DEF IsMachine, Fields
  <2>2. res.m = Enter(m, cause, FALSE) \/ res.m = [m EXCEPT !.halted = TRUE]
    BY <1>1, Zenon DEF Trapped, RaiseTrap
  <2>3. ~res.ok
    BY <1>1 DEF Trapped
  <2>4. [m EXCEPT !.halted = TRUE].code = m.code
    BY DEF IsMachine, Fields
  <2>5. IsMachine(Enter(m, cause, FALSE)) /\ Enter(m, cause, FALSE).code = m.code
    BY EnterType, Zenon
  <2> QED BY <2>1, <2>2, <2>3, <2>4, <2>5, Zenon
<1>2. ASSUME NEW n, res = Done(n), Good(n)
      PROVE  IsMachine(res.m) /\ Kept(m, res.m) /\ Len(res.m.code) = Len(m.code)
  BY <1>2 DEF Done
<1>3. ASSUME NEW v PROVE Good([m EXCEPT !.x = v]) /\ Good([m EXCEPT !.ram = v])
  BY Zenon DEF IsMachine, Kept, Fields
<1>4. Good(m) /\ Good([m EXCEPT !.poweroff = TRUE])
  BY Zenon DEF IsMachine, Kept, Fields
<1>5. ASSUME NEW v \in Insns PROVE Good([m EXCEPT !.code[Patched] = v])
  <2> DEFINE c == [m.code EXCEPT ![Patched] = v]
             n == [m EXCEPT !.code = c]
  <2>1. c \in Seq(Insns) /\ Len(c) = Len(m.code) /\ c[Len(c)] = "ret" /\ DOMAIN c = DOMAIN m.code
    BY DEF IsMachine, Patched
  <2>2. /\ n = [f \in Fields |-> n[f]] /\ n.code = c /\ \A f \in Fields \ {"code"} : n[f] = m[f]
    BY Zenon DEF IsMachine, Fields
  <2>3. [m EXCEPT !.code[Patched] = v] = n
    OBVIOUS
  <2> HIDE DEF n, c
  <2> QED BY <2>1, <2>2, <2>3, Zenon DEF IsMachine, Kept, Fields
<1>6. ASSUME NEW v \in Nat PROVE Good([m EXCEPT !.mtimecmp = v]) /\ Good([m EXCEPT !.stimecmp = v])
  BY <1>6, Zenon DEF IsMachine, Kept, Fields
<1>7. ASSUME NEW v \in Nat PROVE Good(CpuArmSupervisorTimer(m, v))
  BY <1>7, Zenon DEF CpuArmSupervisorTimer, IsMachine, Kept, Fields
<1>8. Good([m EXCEPT !.mie = ~@, !.sie = ~@])
  BY Zenon DEF IsMachine, Kept, Fields
<1>9. Good([m EXCEPT !.priv = m.saved[3], !.mie = m.saved[4], !.sie = m.saved[5]])
  BY Zenon DEF IsMachine, Kept, Fields
<1>10. m.mtime + 2 \in Nat /\ m.instret + 3 \in Nat
  <2>1. m.mtime \in Nat /\ m.instret \in Nat
    BY MachineClocked, Zenon DEF Clocked
  <2> QED BY <2>1
<1> HIDE DEF Good
<1>11. CASE i \in Alu
  <2>1. res = Done([m EXCEPT !.x = (@ + 1) % 4]) \/ res = Trapped(m, "illegal")
    BY <1>11 DEF res, Execute, CpuExecAlu, Alu, Ram, Device, System
  <2> QED BY <1>1, <1>2, <1>3, <2>1, Zenon
<1>12. CASE i \in Ram \cup Device
  <2>1. \/ \E v : res \in {Done([m EXCEPT !.x = v]), Done([m EXCEPT !.ram = v])}
        \/ res = Done([m EXCEPT !.poweroff = TRUE])
        \/ \E v \in Insns : res = Done([m EXCEPT !.code[Patched] = v])
        \/ res = Done([m EXCEPT !.mtimecmp = m.mtime + 2])
        \/ res = Trapped(m, "access")
    <3>1. res = CpuExecMem(m, i) /\ DOMAIN Overwrites = {"patch", "unpatch"}
      BY <1>12 DEF res, Execute, Alu, Ram, Device, System, Overwrites
    <3>2. CASE i \in {"load", "store", "rtime", "off"}
      BY <3>1, <3>2, Zenon DEF CpuExecMem
    <3>3. CASE i \in {"patch", "unpatch"}
      <4>1. Overwrites["patch"] \in Insns /\ Overwrites["unpatch"] \in Insns
        <5>1. Overwrites.patch = "inc" /\ Overwrites.unpatch = "store"
          BY DEF Overwrites
        <5>2. "inc" \in Insns /\ "store" \in Insns
          BY DEF Insns, Alu, Ram
        <5> QED BY <5>1, <5>2, Zenon
      <4>2. res = Done([m EXCEPT !.code[Patched] = Overwrites[i]])
        BY <3>1, <3>3 DEF CpuExecMem
      <4> QED BY <3>3, <4>1, <4>2, Zenon
    <3>4. CASE i \in {"wcmp", "wild"}
      BY <3>1, <3>4 DEF CpuExecMem
    <3> QED BY <1>12, <3>2, <3>3, <3>4, Zenon DEF Ram, Device
  <2> QED BY <1>1, <1>2, <1>3, <1>4, <1>5, <1>6, <1>10, <2>1, Zenon
<1>13. CASE i \in System
  <2>1. \/ \E v : res = Done([m EXCEPT !.x = v])
        \/ res = Done(CpuArmSupervisorTimer(m, m.mtime + 2))
        \/ res = Done([m EXCEPT !.stimecmp = m.instret + 3])
        \/ res = Done([m EXCEPT !.mie = ~@, !.sie = ~@])
        \/ res = Done([m EXCEPT !.priv = m.saved[3], !.mie = m.saved[4], !.sie = m.saved[5]])
    BY <1>13, Zenon DEF res, Execute, ExecSystem, Alu, Ram, Device, System
  <2> QED BY <1>2, <1>3, <1>6, <1>7, <1>8, <1>9, <1>10, <2>1, Zenon
<1>14. CASE i \notin Alu \cup Ram \cup Device \cup System
  <2>1. res = Done(m)
    BY <1>14, Zenon DEF res, Execute
  <2> QED BY <1>2, <1>4, <2>1, Zenon
<1> QED BY <1>11, <1>12, <1>13, <1>14

\* Instruction i of machine m, executed and committed.
Finish(m, i) ==
    LET res == Execute(m, i) IN IF res.ok THEN Retire(res.m, i) ELSE res.m

LEMMA FinishType ==
    ASSUME NEW m, IsMachine(m), NEW i, m.pc = Len(m.code) => i = "ret"
    PROVE  IsMachine(Finish(m, i)) /\ Len(Finish(m, i).code) = Len(m.code)
<1> DEFINE n == Execute(m, i).m
           s == [n EXCEPT !.instret = @ + 1]
           t == Retire(n, i)
<1>1. IsMachine(n) /\ (Execute(m, i).ok => Kept(m, n)) /\ Len(n.code) = Len(m.code)
  BY ExecuteType, Zenon
<1>2. Finish(m, i) = IF Execute(m, i).ok THEN t ELSE n
  BY DEF Finish
<1> HIDE DEF n
<1>3. SUFFICES ASSUME Kept(m, n) PROVE IsMachine(t) /\ Len(t.code) = Len(m.code)
  BY <1>1, <1>2, Zenon
<1>4. /\ n.instret + 1 \in Nat /\ n.pc \in 1..Len(n.code) /\ Len(n.code) \in Nat
      /\ n.alias \in {0, 1} /\ n.saved[1] \in 1..Len(n.code) /\ n.saved[2] \in {0, 1}
      /\ DOMAIN n.code = 1..Len(n.code)
  <2>1. n.instret \in Nat
    BY <1>1, MachineClocked, Zenon DEF Clocked
  <2>2. n.instret + 1 \in Nat
    BY <2>1
  <2> QED BY <1>1, <2>2, MachineCode, Zenon
<1>5. IsMachine(s) /\ s.code = n.code /\ s.pc = n.pc /\ s.saved = n.saved /\ s.alias = n.alias
  BY <1>1, <1>4, Zenon DEF IsMachine, Fields
<1> HIDE DEF s
<1> DEFINE A(x, a, p) == [s EXCEPT !.x = x, !.alias = a, !.pc = p]
           B(a, p) == [s EXCEPT !.pc = p, !.alias = a]
           C(p) == [s EXCEPT !.pc = p]
<1>6. ASSUME NEW a \in {0, 1}, NEW p \in 1..Len(s.code), NEW x
      PROVE  IsMachine(A(x, a, p)) /\ A(x, a, p).code = s.code
  BY <1>4, <1>5, <1>6, Zenon DEF IsMachine, Fields
<1>7. ASSUME NEW a \in {0, 1}, NEW p \in 1..Len(s.code)
      PROVE  IsMachine(B(a, p)) /\ B(a, p).code = s.code
  BY <1>4, <1>5, <1>7, Zenon DEF IsMachine, Fields
<1>8. ASSUME NEW p \in 1..Len(s.code)
      PROVE  IsMachine(C(p)) /\ C(p).code = s.code
  BY <1>4, <1>5, <1>8, Zenon DEF IsMachine, Fields
<1>9. i # "ret" => n.pc + 1 \in 1..Len(s.code)
  BY <1>1, <1>3, <1>4, <1>5 DEF Kept
<1>10. CASE i \in Jumps
  <2> DEFINE to == JumpTarget(s, i, <<n.alias, n.pc>>)
             x == IF i = "link" THEN n.alias * Len(s.code) + n.pc + 1 ELSE s.x
  <2>1. t = A(x, to[1], to[2])
    BY <1>10 DEF Retire, ExecJump, Jumps, s
  <2>2. to[1] \in {0, 1} /\ to[2] \in {1, n.pc + 1}
    BY <1>4, <1>10 DEF JumpTarget, Jumps
  <2>3. to[2] \in 1..Len(s.code)
    BY <1>4, <1>5, <1>9, <1>10, <2>2 DEF Jumps
  <2> HIDE DEF to, x, A, t
  <2> QED BY <1>1, <1>5, <1>6, <2>1, <2>2, <2>3, Zenon
<1>11. CASE i = "ret"
  <2>1. t = B(n.saved[2], n.saved[1])
    BY <1>11 DEF Retire, Jumps, s
  <2> HIDE DEF B, t
  <2> QED BY <1>1, <1>4, <1>5, <1>7, <2>1, Zenon
<1>12. CASE i \notin Jumps /\ i # "ret"
  <2>1. t = C(n.pc + 1)
    BY <1>5, <1>12 DEF Retire, s
  <2> HIDE DEF C, t
  <2> QED BY <1>1, <1>5, <1>8, <1>9, <1>12, <2>1, Zenon
<1> QED BY <1>10, <1>11, <1>12

-----------------------------------------------------------------------------
(* The beginning of a step, and a step of the plain interpreter. *)

LEMMA SettledType ==
    ASSUME NEW m, IsMachine(m)
    PROVE  IsMachine(Settled(m)) /\ SameBut(m, Settled(m), {"stip", "armed"})
<1> DEFINE s == Settled(m)
<1>1. SameBut(m, s, {"stip", "armed"}) /\ Clocked(s)
  BY MachineClocked, SettledIs, Zenon
<1> HIDE DEF s
<1>2. \A f \in Fields \ {"stip", "armed"} : s[f] = m[f]
  BY <1>1, Zenon DEF SameBut
<1>3. /\ s.code = m.code /\ s.pc = m.pc /\ s.alias = m.alias /\ s.saved = m.saved
      /\ s.stce = m.stce /\ s.mie = m.mie /\ s.sie = m.sie
      /\ s.poweroff = m.poweroff /\ s.halted = m.halted /\ s.stopped = m.stopped
  BY <1>2 DEF Fields
<1>4. IsMachine(s)
  BY <1>1, <1>3, Zenon DEF IsMachine, Clocked
<1> QED BY <1>1, <1>4 DEF s

\* The interrupts that are pending with their gate open.
Open(m) == {i \in Pending(m) : GateOpen(m, i)}

LEMMA PreStepIs ==
    ASSUME NEW m, IsMachine(m)
    PROVE  LET pre == CpuPreStep(m)
           IN  /\ IsMachine(pre.m) /\ pre.m.code = m.code
               /\ pre.taken <=> m.poweroff \/ Open(Settled(m)) # {}
               /\ ~pre.taken => pre.m = Settled(m)
<1> DEFINE pre == CpuPreStep(m)
           s == Settled(m)
           first == IF "mei" \in Open(s) THEN "mei" ELSE IF "mti" \in Open(s) THEN "mti" ELSE "sti"
<1>1. IsMachine(s) /\ s.code = m.code
  BY SettledType DEF SameBut, Fields
<1>2. CASE m.poweroff
  <2>1. pre = [taken |-> TRUE, m |-> [m EXCEPT !.halted = TRUE]]
    BY <1>2 DEF CpuPreStep
  <2>2. IsMachine([m EXCEPT !.halted = TRUE]) /\ [m EXCEPT !.halted = TRUE].code = m.code
    BY Zenon DEF IsMachine, Fields
  <2>3. pre.taken = TRUE /\ pre.m = [m EXCEPT !.halted = TRUE]
    BY <2>1
  <2> QED BY <1>2, <2>2, <2>3, Zenon
<1>3. CASE ~m.poweroff /\ Open(s) = {}
  <2>1. pre = [taken |-> FALSE, m |-> s]
    BY <1>3 DEF CpuPreStep, TakeInterrupt, Open, Settled
  <2> QED BY <1>1, <1>3, <2>1
<1>4. CASE ~m.poweroff /\ Open(s) # {}
  <2>1. pre = [taken |-> TRUE, m |-> Enter(s, first, ToS(s, first))]
    BY <1>4 DEF CpuPreStep, TakeInterrupt, Open, Settled
  <2>2. IsMachine(Enter(s, first, ToS(s, first))) /\ Enter(s, first, ToS(s, first)).code = s.code
    BY <1>1, EnterType, Zenon
  <2> QED BY <1>1, <1>4, <2>1, <2>2
<1> QED BY <1>2, <1>3, <1>4

\* Machines that agree begin the step alike.
LEMMA PreStepSame ==
    ASSUME NEW m, IsMachine(m), NEW r, IsMachine(r), Agree(m, r)
    PROVE  /\ CpuPreStep(m).taken <=> CpuPreStep(r).taken
           /\ Agree(CpuPreStep(m).m, CpuPreStep(r).m)
           /\ ~m.poweroff => CpuPreStep(m) = CpuPreStep(r)
<1>1. Settled(m) = Settled(r) /\ m.poweroff = r.poweroff
  <2>1. Settled(m) = Settled(r)
    BY AgreeSettled, MachineClocked, Zenon
  <2> QED BY <2>1 DEF Agree, SameBut, Fields
<1>2. CpuPreStep(m).taken <=> CpuPreStep(r).taken
  BY <1>1, PreStepIs, Zenon
<1>3. CASE m.poweroff
  <2> DEFINE n == [m EXCEPT !.halted = TRUE]
             s == [r EXCEPT !.halted = TRUE]
  <2>1. CpuPreStep(m).m = n /\ CpuPreStep(r).m = s
    BY <1>1, <1>3 DEF CpuPreStep
  <2>2. Clocked(n) /\ Clocked(s)
    BY <2>1, PreStepIs, MachineClocked, Zenon
  <2>3. SameBut(n, s, {"stip", "armed"})
    BY Zenon DEF SameBut, Agree
  <2>4. DOMAIN m = Fields /\ DOMAIN r = Fields /\ m.mtime \in Nat /\ r.mtime \in Nat
    BY MachineClocked, Zenon DEF Clocked
  <2>5. Later(m, n) /\ Later(r, s)
    BY <2>4 DEF Later, Fields
  <2>6. Agree(n, s)
    BY <2>2, <2>3, <2>5, AgreeLater, MachineClocked, Zenon
  <2> QED BY <1>2, <1>3, <2>1, <2>6, Zenon
<1>4. CASE ~m.poweroff
  <2>1. CpuPreStep(m) = CpuPreStep(r)
    BY <1>1, <1>4 DEF CpuPreStep, Settled
  <2>2. Agree(CpuPreStep(m).m, CpuPreStep(m).m)
    BY PreStepIs, MachineClocked, SettledAgrees, Zenon
  <2> QED BY <2>1, <2>2, Zenon
<1> QED BY <1>3, <1>4

\* A step of the plain interpreter, the clock already ticked.
PlainStep(m) ==
    LET pre == CpuPreStep(m)
    IN  IF pre.taken THEN pre.m ELSE Finish(pre.m, pre.m.code[pre.m.pc])

LEMMA PlainStepSame ==
    ASSUME NEW m, IsMachine(m), NEW r, IsMachine(r), Agree(m, r)
    PROVE  /\ IsMachine(PlainStep(m)) /\ IsMachine(PlainStep(r))
           /\ Agree(PlainStep(m), PlainStep(r))
<1>1. ASSUME NEW n, IsMachine(n) PROVE IsMachine(PlainStep(n))
  <2> DEFINE p == CpuPreStep(n).m
  <2>1. IsMachine(p)
    BY <1>1, PreStepIs, Zenon
  <2> HIDE DEF p
  <2>2. p.pc = Len(p.code) => p.code[p.pc] = "ret"
    BY <2>1, MachineCode, Zenon
  <2>3. IsMachine(Finish(p, p.code[p.pc]))
    BY <2>1, <2>2, FinishType, Zenon
  <2> QED BY <2>1, <2>3, Zenon DEF PlainStep, p
<1>2. IsMachine(PlainStep(m)) /\ IsMachine(PlainStep(r))
  BY <1>1
<1>3. CASE m.poweroff
  <2>1. CpuPreStep(m).taken /\ CpuPreStep(r).taken
    BY <1>3, PreStepIs, PreStepSame, Zenon
  <2> QED BY <1>2, <2>1, PreStepSame, Zenon DEF PlainStep
<1>4. CASE ~m.poweroff
  <2>1. PlainStep(m) = PlainStep(r)
    BY <1>4, PreStepSame, Zenon DEF PlainStep
  <2>2. Agree(PlainStep(m), PlainStep(m))
    BY <1>2, MachineClocked, SettledAgrees, Zenon
  <2> QED BY <1>2, <2>1, <2>2, Zenon
<1> QED BY <1>3, <1>4

-----------------------------------------------------------------------------
(* What translated instructions do does not depend on the clocks. *)

Clocks == {"instret", "mtime", "stip", "armed"}

\* From m to n the instruction left what interrupts depend on alone.
Timeless(m, n) ==
    \A f \in Clocks \cup {"mtimecmp", "stimecmp", "stce", "enabled", "mideleg", "line",
                          "poweroff", "stopped"} : n[f] = m[f]

LEMMA ExecuteClockless ==
    ASSUME NEW m, IsMachine(m), NEW r, IsMachine(r), SameBut(m, r, Clocks),
           NEW i \in Alu \cup Ram \cup Jumps
    PROVE  LET a == Execute(m, i)
               b == Execute(r, i)
           IN  /\ a.ok = b.ok /\ SameBut(a.m, b.m, Clocks)
               /\ Timeless(m, a.m) /\ Timeless(r, b.m)
               /\ a.ok => /\ a.m.priv = m.priv /\ a.m.mie = m.mie /\ a.m.sie = m.sie
                          /\ a.m.halted = m.halted
<1> DEFINE a == Execute(m, i)
           b == Execute(r, i)
           K(n, w) == /\ SameBut(n, w, Clocks) /\ Timeless(m, n) /\ Timeless(r, w)
           P(n) == n.priv = m.priv /\ n.mie = m.mie /\ n.sie = m.sie /\ n.halted = m.halted
<1>1. /\ DOMAIN m = Fields /\ DOMAIN r = Fields
      /\ \A f \in Fields \ Clocks : m[f] = r[f]
  BY Zenon DEF SameBut
<1>2. /\ m.x = r.x /\ m.ram = r.ram /\ m.code = r.code /\ m.tvec = r.tvec /\ m.pc = r.pc
      /\ m.alias = r.alias /\ m.priv = r.priv /\ m.mie = r.mie /\ m.sie = r.sie
  BY <1>1 DEF Fields, Clocks
<1>3. ASSUME NEW v PROVE K([m EXCEPT !.x = v], [r EXCEPT !.x = v]) /\ P([m EXCEPT !.x = v])
  BY <1>1 DEF SameBut, Timeless, Fields, Clocks
<1>4. ASSUME NEW v PROVE K([m EXCEPT !.ram = v], [r EXCEPT !.ram = v]) /\ P([m EXCEPT !.ram = v])
  BY <1>1 DEF SameBut, Timeless, Fields, Clocks
<1>5. ASSUME NEW v PROVE K([m EXCEPT !.code = v], [r EXCEPT !.code = v]) /\ P([m EXCEPT !.code = v])
  BY <1>1 DEF SameBut, Timeless, Fields, Clocks
<1>6. K(m, r) /\ P(m)
  BY DEF Timeless
<1>7. K([m EXCEPT !.halted = TRUE], [r EXCEPT !.halted = TRUE])
  BY <1>1, Zenon DEF SameBut, Timeless, Fields, Clocks
<1>8. ASSUME NEW cause PROVE K(Enter(m, cause, FALSE), Enter(r, cause, FALSE))
  <2>1. Handler(m) = Handler(r)
    BY <1>2 DEF Handler
  <2> QED BY <1>1, <1>2, <2>1, Zenon DEF SameBut, Timeless, Fields, Clocks, Enter
<1>9. ASSUME NEW cause
      PROVE  /\ Trapped(m, cause).ok = FALSE /\ Trapped(r, cause).ok = FALSE
             /\ K(Trapped(m, cause).m, Trapped(r, cause).m)
  <2>1. /\ Trapped(m, cause) = [m |-> RaiseTrap(m, cause), ok |-> FALSE]
        /\ Trapped(r, cause) = [m |-> RaiseTrap(r, cause), ok |-> FALSE]
    BY DEF Trapped
  <2>2. K(RaiseTrap(m, cause), RaiseTrap(r, cause))
    BY <1>2, <1>7, <1>8, Zenon DEF RaiseTrap
  <2> HIDE DEF K
  <2> QED BY <2>1, <2>2
<1> DEFINE Both(n, w) == a = Done(n) /\ b = Done(w) /\ K(n, w) /\ P(n)
<1> HIDE DEF K, P, a, b
<1>10. ASSUME NEW n, NEW w, Both(n, w)
      PROVE a.ok = b.ok /\ K(a.m, b.m) /\ P(a.m)
  BY <1>10 DEF Done
<1>11. \/ \E n, w : Both(n, w)
       \/ \E cause : a = Trapped(m, cause) /\ b = Trapped(r, cause)
  <2>1. CASE i \in Alu
    <3>1. a = CpuExecAlu(m, i) /\ b = CpuExecAlu(r, i)
      BY <2>1 DEF a, b, Execute, Alu, Ram, Device, System
    <3>2. CASE i = "inc"
      <4>1. /\ a = Done([m EXCEPT !.x = (m.x + 1) % 4])
            /\ b = Done([r EXCEPT !.x = (m.x + 1) % 4])
        BY <1>2, <3>1, <3>2 DEF CpuExecAlu
      <4> QED BY <1>3, <4>1, Zenon
    <3> QED BY <3>1, <3>2, Zenon DEF CpuExecAlu
  <2>2. CASE i \in Ram
    <3>1. a = CpuExecMem(m, i) /\ b = CpuExecMem(r, i) /\ DOMAIN Overwrites = {"patch", "unpatch"}
      BY <2>2 DEF a, b, Execute, Alu, Ram, Device, System, Overwrites
    <3>2. CASE i = "load"
      <4>1. a = Done([m EXCEPT !.x = m.ram]) /\ b = Done([r EXCEPT !.x = m.ram])
        BY <1>2, <3>1, <3>2 DEF CpuExecMem
      <4> QED BY <1>3, <4>1, Zenon
    <3>3. CASE i = "store"
      <4>1. a = Done([m EXCEPT !.ram = m.x]) /\ b = Done([r EXCEPT !.ram = m.x])
        BY <1>2, <3>1, <3>3 DEF CpuExecMem
      <4> QED BY <1>4, <4>1, Zenon
    <3>4. CASE i = "wild"
      <4>1. a = Trapped(m, "access") /\ b = Trapped(r, "access")
        BY <3>1, <3>4 DEF CpuExecMem
      <4> QED BY <4>1
    <3>5. CASE i \in {"patch", "unpatch"}
      <4> DEFINE c == [m.code EXCEPT ![Patched] = Overwrites[i]]
      <4>1. a = Done([m EXCEPT !.code = c]) /\ b = Done([r EXCEPT !.code = c])
        BY <1>2, <3>1, <3>5 DEF CpuExecMem
      <4> HIDE DEF c
      <4> QED BY <1>5, <4>1, Zenon
    <3> QED BY <2>2, <3>2, <3>3, <3>4, <3>5 DEF Ram
  <2>3. CASE i \in Jumps
    <3>1. a = Done(m) /\ b = Done(r)
      BY <2>3 DEF a, b, Execute, Alu, Ram, Device, System, Jumps
    <3> QED BY <1>6, <3>1, Zenon
  <2> QED BY <2>1, <2>2, <2>3
<1>12. a.ok = b.ok /\ K(a.m, b.m) /\ (a.ok => P(a.m))
  BY <1>9, <1>10, <1>11, Zenon
<1> QED BY <1>12, Zenon DEF K, P, a, b

LEMMA RetireClockless ==
    ASSUME NEW n, IsMachine(n), NEW w, IsMachine(w), SameBut(n, w, Clocks),
           NEW i \in Alu \cup Ram \cup Jumps
    PROVE  /\ SameBut(Retire(n, i), Retire(w, i), Clocks)
           /\ \A f \in Fields \ {"x", "alias", "pc", "instret"} : Retire(n, i)[f] = n[f]
           /\ Retire(n, i).instret = n.instret + 1
           /\ i \notin Jumps => Retire(n, i) = [n EXCEPT !.instret = @ + 1, !.pc = @ + 1]
<1>1. /\ DOMAIN n = Fields /\ DOMAIN w = Fields
      /\ \A f \in Fields \ Clocks : n[f] = w[f]
  BY Zenon DEF SameBut
<1>2. n.x = w.x /\ n.code = w.code /\ n.pc = w.pc /\ n.alias = w.alias
  BY <1>1 DEF Fields, Clocks
<1> DEFINE J(m, k, x, a, p) == [m EXCEPT !.instret = k, !.x = x, !.alias = a, !.pc = p]
           C(m, k, p) == [m EXCEPT !.instret = k, !.pc = p]
           Good(u, v, k) == /\ SameBut(u, v, Clocks) /\ u.instret = k
                            /\ \A f \in Fields \ {"x", "alias", "pc", "instret"} : u[f] = n[f]
<1>3. ASSUME NEW x, NEW a, NEW p, NEW k, NEW o
      PROVE  Good(J(n, k, x, a, p), J(w, o, x, a, p), k)
  BY <1>1, Zenon DEF SameBut, Fields, Clocks
<1>4. ASSUME NEW p, NEW k, NEW o
      PROVE  Good(C(n, k, p), C(w, o, p), k)
  BY <1>1, Zenon DEF SameBut, Fields, Clocks
<1>5. CASE i \in Jumps
  <2> DEFINE to == JumpTarget(n, i, <<n.alias, n.pc>>)
             x == IF i = "link" THEN n.alias * Len(n.code) + n.pc + 1 ELSE n.x
             N == [n EXCEPT !.instret = @ + 1]
             W == [w EXCEPT !.instret = @ + 1]
  <2>1. N.x = n.x /\ W.x = w.x /\ N.code = n.code /\ W.code = w.code
    BY <1>1 DEF Fields
  <2>2. to = JumpTarget(N, i, <<n.alias, n.pc>>) /\ to = JumpTarget(W, i, <<w.alias, w.pc>>)
    BY <1>2, <2>1 DEF JumpTarget
  <2>3. Retire(n, i) = ExecJump(N, i, <<n.alias, n.pc>>) /\ Retire(w, i) = ExecJump(W, i, <<w.alias, w.pc>>)
    BY <1>5 DEF Retire, Jumps
  <2>4. /\ Retire(n, i) = J(n, n.instret + 1, x, to[1], to[2])
        /\ Retire(w, i) = J(w, w.instret + 1, x, to[1], to[2])
    <3> HIDE DEF to
    <3> QED BY <1>1, <1>2, <2>1, <2>2, <2>3, Zenon DEF ExecJump
  <2> HIDE DEF to, x, J, N, W, Good
  <2>5. Good(Retire(n, i), Retire(w, i), n.instret + 1)
    BY <1>3, <2>4, Zenon
  <2> QED BY <1>5, <2>5, Zenon DEF Good
<1>6. CASE i \notin Jumps
  <2>1. /\ Retire(n, i) = [n EXCEPT !.instret = @ + 1, !.pc = @ + 1]
        /\ Retire(w, i) = [w EXCEPT !.instret = @ + 1, !.pc = @ + 1]
    BY <1>1, <1>6 DEF Retire, Alu, Ram
  <2>2. /\ Retire(n, i) = C(n, n.instret + 1, n.pc + 1)
        /\ Retire(w, i) = C(w, w.instret + 1, n.pc + 1)
    BY <1>1, <1>2, <2>1 DEF Fields
  <2> HIDE DEF C, Good
  <2>3. Good(Retire(n, i), Retire(w, i), n.instret + 1)
    BY <1>4, <2>2, Zenon
  <2> QED BY <1>6, <2>1, <2>3, Zenon DEF Good
<1> QED BY <1>5, <1>6

\* The whole instruction.
LEMMA FinishClockless ==
    ASSUME NEW m, IsMachine(m), NEW r, IsMachine(r), SameBut(m, r, Clocks),
           NEW i \in Alu \cup Ram \cup Jumps
    PROVE  /\ SameBut(Finish(m, i), Finish(r, i), Clocks)
           /\ Execute(m, i).ok = Execute(r, i).ok
           /\ Timeless([m EXCEPT !.instret = IF Execute(m, i).ok THEN @ + 1 ELSE @], Finish(m, i))
<1> DEFINE a == Execute(m, i)
           b == Execute(r, i)
<1>1. /\ a.ok = b.ok /\ SameBut(a.m, b.m, Clocks) /\ Timeless(m, a.m)
      /\ IsMachine(a.m) /\ IsMachine(b.m) /\ DOMAIN m = Fields
  <2>1. IsMachine(a.m) /\ IsMachine(b.m)
    BY ExecuteType, Zenon
  <2> QED BY <2>1, ExecuteClockless, MachineClocked, Zenon
<1>2. /\ Finish(m, i) = IF a.ok THEN Retire(a.m, i) ELSE a.m
      /\ Finish(r, i) = IF b.ok THEN Retire(b.m, i) ELSE b.m
  BY Zenon DEF Finish
<1> HIDE DEF a, b
<1>3. /\ SameBut(Retire(a.m, i), Retire(b.m, i), Clocks)
      /\ \A f \in Fields \ {"x", "alias", "pc", "instret"} : Retire(a.m, i)[f] = a.m[f]
      /\ Retire(a.m, i).instret = a.m.instret + 1
  BY <1>1, RetireClockless, Zenon
<1>4. Timeless([m EXCEPT !.instret = IF a.ok THEN @ + 1 ELSE @], Finish(m, i))
  <2>1. CASE a.ok
    <3>1. Finish(m, i) = Retire(a.m, i)
      BY <1>2, <2>1
    <3> QED BY <1>1, <1>3, <2>1, <3>1 DEF Timeless, Clocks, Fields
  <2>2. CASE ~a.ok
    <3>1. Finish(m, i) = a.m
      BY <1>2, <2>2
    <3> QED BY <1>1, <2>2, <3>1 DEF Timeless, Clocks, Fields
  <2> QED BY <2>1, <2>2
<1>5. SameBut(Finish(m, i), Finish(r, i), Clocks)
  BY <1>1, <1>2, <1>3, Zenon
<1> QED BY <1>1, <1>4, <1>5, Zenon DEF a, b

LEMMA FinishAgrees ==
    ASSUME NEW m, IsMachine(m), NEW r, IsMachine(r), Agree(m, r),
           NEW i \in Alu \cup Ram \cup Jumps,
           IsMachine(Finish(m, i)), IsMachine(Finish(r, i))
    PROVE  Agree(Finish(m, i), Finish(r, i))
<1> DEFINE n == Finish(m, i)
           s == Finish(r, i)
           up(z) == [z EXCEPT !.instret = IF Execute(m, i).ok THEN @ + 1 ELSE @]
<1>1. SameBut(m, r, Clocks) /\ SameBut(r, m, Clocks)
  BY DEF Agree, SameBut, Clocks
<1>2. SameBut(n, s, Clocks) /\ Timeless(up(m), n) /\ Timeless(up(r), s)
  BY <1>1, FinishClockless, Zenon
<1> HIDE DEF n, s
<1>3. /\ DOMAIN m = Fields /\ DOMAIN r = Fields /\ m.instret = r.instret /\ m.mtime = r.mtime
      /\ m.mtime \in Nat
  <2>1. DOMAIN m = Fields /\ DOMAIN r = Fields /\ m.mtime \in Nat
    BY MachineClocked, Zenon DEF Clocked
  <2> QED BY <2>1 DEF Agree, SameBut, Fields
<1>4. /\ \A f \in (Clocks \ {"instret"}) \cup {"mtimecmp", "stce"} : n[f] = m[f]
      /\ n.instret = up(m).instret
  BY <1>2, <1>3 DEF Timeless, Clocks, Fields
<1>5. /\ \A f \in (Clocks \ {"instret"}) \cup {"mtimecmp", "stce"} : s[f] = r[f]
      /\ s.instret = up(r).instret
  BY <1>2, <1>3 DEF Timeless, Clocks, Fields
<1>6. n.instret = s.instret /\ n.mtime = s.mtime
  BY <1>3, <1>4, <1>5 DEF Clocks, Fields
<1>7. SameBut(n, s, {"stip", "armed"})
  BY <1>2, <1>6 DEF SameBut, Clocks
<1>8. Later(m, n)
  BY <1>3, <1>4 DEF Later, Clocks
<1>9. Later(r, s)
  BY <1>3, <1>5 DEF Later, Clocks
<1> QED BY <1>7, <1>8, <1>9, AgreeLater, MachineClocked, Zenon DEF n, s

-----------------------------------------------------------------------------
(* A block, instruction by instruction. *)

\* The machine a block stands for before its k-th instruction: the clocks
\* count the instructions already run, which the block adds when it is left.
Virt(m, b, k) == [AtInsn(m, b, k) EXCEPT !.instret = @ + (k - 1), !.mtime = @ + (k - 1)]

\* Block b is code of a program as long as m's, before its last cell.
IsBlock(b, m) ==
    /\ b.insns = [k \in 1..Len(b.insns) |-> b.insns[k]] /\ Len(b.insns) \in Nat \ {0}
    /\ \A k \in 1..Len(b.insns) : Translatable(b.insns[k])
    /\ b.va[1] \in {0, 1} /\ b.va[2] \in Nat \ {0}
    /\ b.va[2] + Len(b.insns) <= Len(m.code)

LEMMA VirtType ==
    ASSUME NEW m, IsMachine(m), NEW b, IsBlock(b, m), NEW k \in 1..Len(b.insns) + 1
    PROVE  /\ IsMachine(AtInsn(m, b, k)) /\ IsMachine(Virt(m, b, k))
           /\ SameBut(AtInsn(m, b, k), Virt(m, b, k), Clocks)
           /\ \A f \in Fields \ {"alias", "pc", "instret", "mtime"} : Virt(m, b, k)[f] = m[f]
           /\ Virt(m, b, k).pc = b.va[2] + k - 1
           /\ Virt(m, b, k).instret = m.instret + (k - 1)
           /\ Virt(m, b, k).mtime = m.mtime + (k - 1)
<1> DEFINE p == b.va[2] + k - 1
           a == b.va[1]
           at == [m EXCEPT !.alias = a, !.pc = p]
           A(o, t) == [at EXCEPT !.instret = o, !.mtime = t]
<1>1. p \in 1..Len(m.code) /\ a \in {0, 1} /\ DOMAIN m.code = 1..Len(m.code)
  <2>1. Len(m.code) \in Nat /\ DOMAIN m.code = 1..Len(m.code)
    BY MachineCode, Zenon
  <2>2. /\ b.va[1] \in {0, 1} /\ b.va[2] \in Nat \ {0} /\ Len(b.insns) \in Nat \ {0}
        /\ b.va[2] + Len(b.insns) <= Len(m.code)
    BY Zenon DEF IsBlock
  <2> QED BY <2>1, <2>2
<1>2. at = AtInsn(m, b, k)
  BY DEF AtInsn
<1> HIDE DEF p, a
<1>3. IsMachine(at) /\ at.instret = m.instret /\ at.mtime = m.mtime /\ at.pc = p
      /\ \A f \in Fields \ {"alias", "pc"} : at[f] = m[f]
  BY <1>1, Zenon DEF IsMachine, Fields
<1> HIDE DEF at
<1>4. m.instret + (k - 1) \in Nat /\ m.mtime + (k - 1) \in Nat
  <2>1. m.instret \in Nat /\ m.mtime \in Nat /\ k - 1 \in Nat
    <3>1. m.instret \in Nat /\ m.mtime \in Nat
      BY MachineClocked, Zenon DEF Clocked
    <3> QED BY <3>1 DEF IsBlock
  <2> QED BY <2>1
<1>5. ASSUME NEW o \in Nat, NEW t \in Nat
      PROVE  /\ IsMachine(A(o, t)) /\ SameBut(at, A(o, t), Clocks)
             /\ \A f \in Fields \ {"instret", "mtime"} : A(o, t)[f] = at[f]
             /\ A(o, t).instret = o /\ A(o, t).mtime = t
  BY <1>3, <1>5, Zenon DEF IsMachine, SameBut, Fields, Clocks
<1> DEFINE v == Virt(m, b, k)
           o == m.instret + (k - 1)
           t == m.mtime + (k - 1)
<1>6. v = A(o, t) /\ o \in Nat /\ t \in Nat
  BY <1>2, <1>3, <1>4 DEF Virt
<1> HIDE DEF A, v, o, t
<1>7. /\ IsMachine(v) /\ SameBut(at, v, Clocks)
      /\ \A f \in Fields \ {"instret", "mtime"} : v[f] = at[f]
      /\ v.instret = o /\ v.mtime = t
  BY <1>5, <1>6, Zenon
<1>8. v.pc = p /\ \A f \in Fields \ {"alias", "pc", "instret", "mtime"} : v[f] = m[f]
  BY <1>3, <1>7 DEF Fields
<1> QED BY <1>2, <1>3, <1>7, <1>8 DEF v, p, o, t

\* What the horizon's argument needs of the instructions before.
Quiet(m, n) ==
    /\ Timeless(m, n)
    /\ n.priv = m.priv /\ n.mie = m.mie /\ n.sie = m.sie /\ n.halted = m.halted

\* Going on inside a block is the plain instruction and a tick of the clock.
LEMMA OnwardIs ==
    ASSUME NEW m, IsMachine(m), NEW b, IsBlock(b, m), NEW k \in 1..Len(b.insns),
           Straight(m, b, k)
    PROVE  LET i == b.insns[k]
               n == Execute(AtInsn(m, b, k), i).m
               v == Virt(m, b, k)
           IN  /\ i \in Alu \cup Ram /\ IsMachine(n) /\ IsBlock(b, n) /\ Quiet(m, n)
               /\ Virt(n, b, k + 1) = PlatTick(Finish(v, i)) /\ IsMachine(Finish(v, i))
               /\ Execute(v, i).ok
<1> DEFINE i == b.insns[k]
           at == AtInsn(m, b, k)
           n == Execute(at, i).m
           v == Virt(m, b, k)
           e == Execute(v, i).m
           w == Finish(v, i)
<1>1. k \in 1..Len(b.insns) + 1 /\ k + 1 \in 1..Len(b.insns) + 1 /\ k \in Nat
  <2>1. Len(b.insns) \in Nat
    BY Zenon DEF IsBlock
  <2> QED BY <2>1
<1>2. /\ IsMachine(at) /\ IsMachine(v) /\ SameBut(at, v, Clocks) /\ SameBut(v, at, Clocks)
      /\ \A f \in Fields \ {"alias", "pc", "instret", "mtime"} : v[f] = m[f]
      /\ v.pc = b.va[2] + k - 1 /\ v.instret = m.instret + (k - 1) /\ v.mtime = m.mtime + (k - 1)
  BY <1>1, VirtType DEF SameBut
<1>3. /\ DOMAIN m = Fields /\ at.alias = b.va[1] /\ at.pc = b.va[2] + k - 1
      /\ \A f \in Fields \ {"alias", "pc"} : at[f] = m[f]
  <2>1. DOMAIN m = Fields
    BY MachineClocked
  <2> QED BY <2>1, Zenon DEF AtInsn, Fields
<1>4. i \in Alu \cup Ram /\ Execute(at, i).ok
  <2>1. Translatable(i) /\ i \notin Jumps \cup Device /\ Execute(at, i).ok
    BY Zenon DEF IsBlock, Straight
  <2> QED BY <2>1, Zenon DEF Translatable
<1> HIDE DEF i, at, v
<1>5. /\ IsMachine(n) /\ Len(n.code) = Len(at.code) /\ IsMachine(e) /\ Kept(at, n)
  BY <1>2, <1>4, ExecuteType, Zenon
<1>6. /\ Execute(v, i).ok /\ SameBut(n, e, Clocks) /\ Timeless(at, n) /\ Timeless(v, e)
      /\ n.priv = at.priv /\ n.mie = at.mie /\ n.sie = at.sie /\ n.halted = at.halted
  <2>1. i \in Alu \cup Ram \cup Jumps
    BY <1>4, Zenon
  <2>2. Execute(at, i).ok = Execute(v, i).ok
    BY <1>2, <2>1, ExecuteClockless, Zenon
  <2>3. SameBut(n, e, Clocks) /\ Timeless(at, n) /\ Timeless(v, e)
    BY <1>2, <2>1, ExecuteClockless, Zenon
  <2>4. n.priv = at.priv /\ n.mie = at.mie /\ n.sie = at.sie /\ n.halted = at.halted
    BY <1>2, <1>4, <2>1, ExecuteClockless, Zenon
  <2> QED BY <1>4, <2>2, <2>3, <2>4, Zenon
<1> HIDE DEF n, e
<1>7. Quiet(m, n) /\ IsBlock(b, n)
  <2>1. Len(n.code) = Len(m.code)
    BY <1>3, <1>5 DEF Fields
  <2>2. Quiet(m, n)
    BY <1>3, <1>6 DEF Quiet, Timeless, Fields, Clocks
  <2> QED BY <2>1, <2>2, Zenon DEF IsBlock
<1>8. w = [e EXCEPT !.instret = @ + 1, !.pc = @ + 1]
  <2>1. w = Retire(e, i)
    BY <1>6, Zenon DEF Finish, w, e
  <2>2. e = e /\ SameBut(e, e, Clocks) /\ i \notin Jumps
    <3>1. i \notin Jumps
      BY <1>4 DEF Alu, Ram, Jumps
    <3> QED BY <1>6, <3>1, Zenon DEF SameBut
  <2> QED BY <1>4, <1>5, <2>1, <2>2, RetireClockless, Zenon
<1>9. IsMachine(w)
  <2>1. v.pc # Len(v.code)
    <3>1. /\ b.va[2] \in Nat \ {0} /\ Len(b.insns) \in Nat \ {0}
          /\ b.va[2] + Len(b.insns) <= Len(m.code)
      BY Zenon DEF IsBlock
    <3>2. v.code = m.code
      BY <1>2 DEF Fields
    <3>3. Len(m.code) \in Nat
      BY MachineCode, Zenon
    <3> QED BY <1>2, <3>1, <3>2, <3>3
  <2> QED BY <1>2, <2>1, FinishType, Zenon
<1>10. /\ DOMAIN e = Fields /\ DOMAIN n = Fields /\ \A f \in Fields \ Clocks : n[f] = e[f]
  BY <1>6, Zenon DEF SameBut
<1>11. /\ n.instret = m.instret /\ n.mtime = m.mtime /\ n.stip = m.stip /\ n.armed = m.armed
       /\ e.instret = m.instret + (k - 1) /\ e.mtime = m.mtime + (k - 1)
       /\ e.stip = m.stip /\ e.armed = m.armed
       /\ n.pc = b.va[2] + k - 1 /\ n.alias = b.va[1]
  BY <1>2, <1>3, <1>5, <1>6 DEF Timeless, Kept, Fields, Clocks
<1>12. Virt(n, b, k + 1) = PlatTick(w)
  <2> DEFINE L == Virt(n, b, k + 1)
             R == PlatTick(w)
  <2>1. L = [f \in Fields |-> L[f]] /\ R = [f \in Fields |-> R[f]]
    BY <1>8, <1>10, Zenon DEF Virt, AtInsn, PlatTick
  <2>2. \A f \in Fields \ {"alias", "pc", "instret", "mtime"} : L[f] = n[f] /\ R[f] = e[f]
    BY <1>8, <1>10, Zenon DEF Virt, AtInsn, PlatTick
  <2>3. /\ L.alias = b.va[1] /\ L.pc = b.va[2] + (k + 1) - 1
        /\ L.instret = n.instret + ((k + 1) - 1) /\ L.mtime = n.mtime + ((k + 1) - 1)
    BY <1>10 DEF Virt, AtInsn, Fields
  <2>4. /\ R.alias = e.alias /\ R.pc = e.pc + 1 /\ R.instret = e.instret + 1 /\ R.mtime = e.mtime + 1
    BY <1>8, <1>10 DEF PlatTick, Fields
  <2>5. e.alias = n.alias /\ e.pc = n.pc
    BY <1>10 DEF Fields, Clocks
  <2>6. m.instret \in Nat /\ m.mtime \in Nat /\ b.va[2] \in Nat
    BY MachineClocked, Zenon DEF Clocked, IsBlock
  <2> HIDE DEF L, R
  <2>7. L.alias = R.alias /\ L.pc = R.pc /\ L.instret = R.instret /\ L.mtime = R.mtime
    BY <1>1, <1>11, <2>3, <2>4, <2>5, <2>6
  <2>8. L.stip = R.stip /\ L.armed = R.armed
    BY <1>11, <2>2 DEF Fields
  <2>9. \A f \in Fields : L[f] = R[f]
    BY <1>10, <2>2, <2>7, <2>8 DEF Clocks
  <2> QED BY <2>1, <2>9 DEF L, R
<1> QED BY <1>4, <1>5, <1>6, <1>7, <1>9, <1>12, Zenon DEF i, at, v, n, e

\* Leaving a block at its k-th instruction, when control does not go on: the
\* block ends, or stops before a device access, or the instruction jumps or traps.
LEMMA LeaveIs ==
    ASSUME NEW m, IsMachine(m), NEW b, IsBlock(b, m), NEW k \in 1..Len(b.insns) + 1,
           ~Straight(m, b, k)
    PROVE  LET out == Leave(m, b, k)
               done == [out.m EXCEPT !.mtime = @ + out.steps - 1]
               v == Virt(m, b, k)
           IN  \/ /\ out.steps = k - 1 /\ out.m = [AtInsn(m, b, k) EXCEPT !.instret = @ + (k - 1)]
                  /\ IsMachine(out.m) /\ PlatTick(done) = v
               \/ /\ k \in 1..Len(b.insns) /\ b.insns[k] \in Alu \cup Ram \cup Jumps
                  /\ out.steps = k /\ done = Finish(v, b.insns[k]) /\ IsMachine(done)
<1> DEFINE i == b.insns[k]
           at == AtInsn(m, b, k)
           v == Virt(m, b, k)
           out == Leave(m, b, k)
           done == [out.m EXCEPT !.mtime = @ + out.steps - 1]
<1>1. /\ IsMachine(at) /\ IsMachine(v) /\ SameBut(at, v, Clocks) /\ v.pc = b.va[2] + k - 1
      /\ \A f \in Fields \ {"alias", "pc", "instret", "mtime"} : v[f] = m[f]
      /\ Len(b.insns) \in Nat \ {0} /\ k \in Nat /\ v.instret = m.instret + (k - 1)
      /\ v.mtime = m.mtime + (k - 1)
  <2>1. Len(b.insns) \in Nat \ {0}
    BY Zenon DEF IsBlock
  <2>2. k \in Nat
    BY <2>1
  <2> QED BY <2>1, <2>2, VirtType
<1>2. /\ DOMAIN at = Fields /\ DOMAIN v = Fields /\ at.instret = m.instret /\ at.mtime = m.mtime
      /\ at.stip = m.stip /\ at.armed = m.armed /\ v.stip = m.stip /\ v.armed = m.armed
      /\ \A f \in Fields \ Clocks : at[f] = v[f]
  <2>1. DOMAIN m = Fields
    BY MachineClocked
  <2>2. at.instret = m.instret /\ at.mtime = m.mtime /\ at.stip = m.stip /\ at.armed = m.armed
    BY <2>1 DEF AtInsn, Fields
  <2>3. v.stip = m.stip /\ v.armed = m.armed
    BY <1>1 DEF Fields
  <2> QED BY <1>1, <2>2, <2>3, Zenon DEF SameBut
<1>3. v = [at EXCEPT !.instret = @ + (k - 1), !.mtime = @ + (k - 1)] /\ m.instret \in Nat /\ m.mtime \in Nat
  <2>1. m.instret \in Nat /\ m.mtime \in Nat
    BY MachineClocked, Zenon DEF Clocked
  <2> QED BY <2>1 DEF Virt
<1> HIDE DEF v, at
<1>9. ASSUME NEW n, NEW s, out = [m |-> n, steps |-> s]
      PROVE  out.m = n /\ out.steps = s /\ done = [n EXCEPT !.mtime = n.mtime + (s - 1)]
  <2> HIDE DEF out
  <2> QED BY <1>9
<1> HIDE DEF done
<1>4. CASE k > Len(b.insns) \/ i \in Device
  <2> DEFINE n == [at EXCEPT !.instret = @ + (k - 1)]
  <2>1. out = [m |-> n, steps |-> k - 1]
    BY <1>4 DEF Leave, at
  <2>2. IsMachine(n)
    <3>1. at.instret + (k - 1) \in Nat
      BY <1>1, <1>2, <1>3
    <3> QED BY <1>1, <3>1, Zenon DEF IsMachine, Fields
  <2>3. out.m = n /\ out.steps = k - 1 /\ done = [n EXCEPT !.mtime = n.mtime + ((k - 1) - 1)]
    <3> HIDE DEF n, out
    <3> QED BY <1>9, <2>1, Zenon
  <2>4. /\ DOMAIN n = Fields /\ n.mtime = at.mtime /\ n.instret = at.instret + (k - 1)
        /\ \A f \in Fields \ {"instret"} : n[f] = at[f]
    BY <1>2 DEF Fields
  <2>5. /\ PlatTick(done) = [f \in Fields |-> PlatTick(done)[f]]
        /\ \A f \in Fields \ {"mtime"} : PlatTick(done)[f] = n[f]
        /\ PlatTick(done).mtime = (n.mtime + ((k - 1) - 1)) + 1
    <3> HIDE DEF n
    <3> QED BY <2>3, <2>4, Zenon DEF PlatTick, Fields
  <2>6. (at.mtime + ((k - 1) - 1)) + 1 = at.mtime + (k - 1)
    BY <1>1, <1>2, <1>3
  <2> HIDE DEF n
  <2>7. \A f \in Fields : PlatTick(done)[f] = v[f]
    BY <1>2, <1>3, <2>4, <2>5, <2>6, Zenon
  <2>8. v = [f \in Fields |-> v[f]]
    BY <1>1, MachineClocked, Zenon DEF Clocked
  <2>9. PlatTick(done) = v
    BY <2>5, <2>7, <2>8
  <2> QED BY <2>2, <2>3, <2>9, Zenon DEF n, v, at, done, out
<1>5. ASSUME ~(k > Len(b.insns) \/ i \in Device)
      PROVE  /\ k \in 1..Len(b.insns) /\ i \in Alu \cup Ram \cup Jumps
             /\ i \notin Jumps => ~Execute(at, i).ok
  <2>1. k \in 1..Len(b.insns) /\ k <= Len(b.insns) /\ i \notin Device
    BY <1>1, <1>5
  <2>2. Translatable(i)
    BY <2>1, Zenon DEF IsBlock
  <2> QED BY <2>1, <2>2, Zenon DEF Translatable, Straight, at
<1>6. ASSUME ~(k > Len(b.insns) \/ i \in Device) PROVE IsMachine(Finish(v, i))
  <2>1. v.pc # Len(v.code)
    <3>1. /\ b.va[2] \in Nat \ {0} /\ b.va[2] + Len(b.insns) <= Len(m.code)
      BY Zenon DEF IsBlock
    <3>2. v.code = m.code
      BY <1>1 DEF Fields
    <3>3. Len(m.code) \in Nat
      BY MachineCode, Zenon
    <3>4. k <= Len(b.insns)
      BY <1>1, <1>6
    <3> QED BY <1>1, <3>1, <3>2, <3>3, <3>4
  <2> QED BY <1>1, <2>1, FinishType, Zenon
<1> HIDE DEF i
<1>7. CASE ~(k > Len(b.insns) \/ i \in Device) /\ i \in Jumps
  <2> DEFINE to == JumpTarget(at, i, <<at.alias, at.pc>>)
             x == IF i = "link" THEN at.alias * Len(at.code) + at.pc + 1 ELSE at.x
             u == [v EXCEPT !.instret = @ + 1]
  <2>1. v.alias = at.alias /\ v.pc = at.pc /\ v.x = at.x /\ v.code = at.code
    BY <1>2 DEF Fields, Clocks
  <2>2. u.x = at.x /\ u.code = at.code
    BY <1>2, <2>1 DEF Fields
  <2>3. JumpTarget(u, i, <<v.alias, v.pc>>) = to
    BY <2>1, <2>2 DEF JumpTarget
  <2>4. Finish(v, i) = ExecJump(u, i, <<v.alias, v.pc>>)
    <3>1. Execute(v, i) = Done(v)
      BY <1>7 DEF Execute, Alu, Ram, Device, System, Jumps
    <3>2. Finish(v, i) = Retire(v, i)
      BY <3>1 DEF Finish, Done
    <3> QED BY <1>7, <3>2 DEF Retire, Jumps
  <2>5. Finish(v, i) = [u EXCEPT !.x = x, !.alias = to[1], !.pc = to[2]]
    <3> HIDE DEF to
    <3> QED BY <2>1, <2>2, <2>3, <2>4, <1>2, Zenon DEF ExecJump
  <2>6. out = [m |-> [ExecJump(at, i, <<at.alias, at.pc>>) EXCEPT !.instret = @ + k], steps |-> k]
    BY <1>7 DEF Leave, at, i
  <2>7. ExecJump(at, i, <<at.alias, at.pc>>) = [at EXCEPT !.x = x, !.alias = to[1], !.pc = to[2]]
    BY DEF ExecJump
  <2> HIDE DEF to, x
  <2> DEFINE n == [[at EXCEPT !.x = x, !.alias = to[1], !.pc = to[2]] EXCEPT !.instret = @ + k]
  <2>8. out.steps = k /\ done = [n EXCEPT !.mtime = n.mtime + (k - 1)]
    <3>1. out = [m |-> n, steps |-> k]
      BY <2>6, <2>7, Zenon
    <3> HIDE DEF n, out
    <3> QED BY <1>9, <3>1, Zenon
  <2>9. done = Finish(v, i)
    <3>1. (at.instret + (k - 1)) + 1 = at.instret + k
      BY <1>1, <1>2, <1>3
    <3>2. /\ DOMAIN n = Fields /\ n.x = x /\ n.alias = to[1] /\ n.pc = to[2]
          /\ n.instret = at.instret + k /\ n.mtime = at.mtime
          /\ \A f \in Fields \ {"x", "alias", "pc", "instret"} : n[f] = at[f]
      BY <1>2, Zenon DEF Fields
    <3> DEFINE g == Finish(v, i)
    <3>3. /\ DOMAIN g = Fields /\ g.x = x /\ g.alias = to[1] /\ g.pc = to[2]
          /\ g.instret = at.instret + k /\ g.mtime = at.mtime + (k - 1)
          /\ \A f \in Fields \ {"x", "alias", "pc", "instret", "mtime"} : g[f] = at[f]
      <4>1. /\ DOMAIN u = Fields /\ u.instret = at.instret + k /\ u.mtime = at.mtime + (k - 1)
            /\ \A f \in Fields \ {"instret", "mtime"} : u[f] = at[f]
        BY <1>2, <1>3, <3>1, Zenon DEF Fields
      <4> HIDE DEF u
      <4> QED BY <2>5, <4>1, Zenon DEF Fields
    <3>4. g = [f \in Fields |-> g[f]]
      BY <1>6, <1>7, MachineClocked, Zenon DEF Clocked
    <3> HIDE DEF n, g
    <3>5. done = [f \in Fields |-> done[f]] /\ \A f \in Fields : done[f] = g[f]
      BY <2>8, <3>1, <3>2, <3>3
    <3> QED BY <3>4, <3>5 DEF g
  <2> QED BY <1>5, <1>6, <1>7, <2>8, <2>9, Zenon DEF done, out, v, i
<1>8. CASE ~(k > Len(b.insns) \/ i \in Device) /\ i \notin Jumps
  <2> DEFINE e == Execute(at, i).m
             g == Execute(v, i).m
  <2>1. ~Execute(at, i).ok /\ i \in Alu \cup Ram \cup Jumps
    BY <1>5, <1>8
  <2>2. /\ SameBut(e, g, Clocks) /\ Timeless(at, e) /\ Timeless(v, g) /\ ~Execute(v, i).ok
    <3>1. Execute(at, i).ok = Execute(v, i).ok
      BY <1>1, <2>1, ExecuteClockless, Zenon
    <3> QED BY <1>1, <2>1, <3>1, ExecuteClockless, Zenon
  <2>3. Finish(v, i) = g
    BY <2>2, Zenon DEF Finish
  <2>4. out = [m |-> [e EXCEPT !.instret = @ + (k - 1)], steps |-> k]
    BY <1>8 DEF Leave, at, i
  <2> HIDE DEF e, g
  <2>5. /\ DOMAIN e = Fields /\ DOMAIN g = Fields /\ \A f \in Fields \ Clocks : e[f] = g[f]
    BY <2>2, Zenon DEF SameBut
  <2>6. /\ e.instret = m.instret /\ e.mtime = m.mtime /\ e.stip = m.stip /\ e.armed = m.armed
        /\ g.instret = m.instret + (k - 1) /\ g.mtime = m.mtime + (k - 1)
        /\ g.stip = m.stip /\ g.armed = m.armed
    BY <1>1, <1>2, <2>2 DEF Timeless, Clocks
  <2> DEFINE n == [e EXCEPT !.instret = @ + (k - 1)]
  <2>7. /\ out.steps = k /\ done = [n EXCEPT !.mtime = n.mtime + (k - 1)]
        /\ DOMAIN n = Fields /\ n.instret = m.instret + (k - 1) /\ n.mtime = m.mtime
        /\ \A f \in Fields \ {"instret"} : n[f] = e[f]
    <3>1. out = [m |-> n, steps |-> k]
      BY <2>4
    <3>2. /\ DOMAIN n = Fields /\ n.instret = m.instret + (k - 1) /\ n.mtime = m.mtime
          /\ \A f \in Fields \ {"instret"} : n[f] = e[f]
      BY <2>5, <2>6 DEF Fields
    <3> HIDE DEF n, out
    <3> QED BY <1>9, <3>1, <3>2, Zenon
  <2> HIDE DEF n
  <2>9. done = g
    <3>1. done = [f \in Fields |-> done[f]] /\ g = [f \in Fields |-> g[f]]
      <4>1. g = [f \in Fields |-> g[f]]
        BY <1>1, <1>6, <1>8, <2>3, MachineClocked, Zenon DEF Clocked
      <4> QED BY <2>7, <4>1
    <3>2. \A f \in Fields \ Clocks : done[f] = g[f]
      BY <2>5, <2>7 DEF Clocks
    <3>3. \A f \in Clocks : done[f] = g[f]
      BY <2>5, <2>6, <2>7 DEF Clocks, Fields
    <3>4. \A f \in Fields : done[f] = g[f]
      BY <3>2, <3>3, Zenon
    <3> HIDE DEF done
    <3> QED BY <3>1, <3>4
  <2> QED BY <1>5, <1>6, <1>8, <2>3, <2>7, <2>9, Zenon DEF done, out, v, i
<1> QED BY <1>4, <1>7, <1>8

-----------------------------------------------------------------------------
(* cpu_interrupt_horizon. *)

\* A nonempty set of numbers has a least.
LEMMA LeastOf ==
    ASSUME NEW V \in SUBSET Nat, V # {}
    PROVE  \E x \in V : \A y \in V : x <= y
<1>1. PICK x \in V : \A y \in V : ~(<<y, x>> \in OpToRel(<, Nat))
  BY WFMin, NatLessThanWellFounded, Zenon
<1>2. ASSUME NEW y \in V PROVE x <= y
  <2>1. x \in Nat /\ y \in Nat
    OBVIOUS
  <2>2. ~(<<y, x>> \in OpToRel(<, Nat))
    BY <1>1, Zenon
  <2> QED BY <2>1, <2>2 DEF OpToRel
<1> QED BY <1>2

LEMMA HorizonNat == ASSUME NEW p, IsMachine(p) PROVE CpuInterruptHorizon(p) \in Nat
<1> DEFINE dMtip == IF p.mtime >= p.mtimecmp THEN 0 ELSE p.mtimecmp - p.mtime
           dSstc == IF p.instret >= p.stimecmp THEN 0 ELSE p.stimecmp - p.instret
           ds == (IF "mti" \in p.enabled /\ GateOpen(p, "mti") THEN {dMtip} ELSE {})
                 \cup (IF "sti" \in p.enabled /\ GateOpen(p, "sti")
                       THEN (IF p.armed THEN {dMtip} ELSE {})
                            \cup (IF p.stce THEN {dSstc} ELSE {}) ELSE {})
<1>1. /\ p.mtime \in Nat /\ p.mtimecmp \in Nat /\ p.instret \in Nat /\ p.stimecmp \in Nat
  BY MachineClocked, Zenon DEF Clocked
<1>2. ds \in SUBSET Nat
  BY <1>1
<1>3. CpuInterruptHorizon(p) = IF ds = {} THEN MaxInsns ELSE CHOOSE d \in ds : \A e \in ds : d <= e
  BY DEF CpuInterruptHorizon
<1>4. MaxInsns \in Nat
  BY SizeAssumption
<1> HIDE DEF ds
<1>5. ds # {} => \E d \in ds : \A e \in ds : d <= e
  BY <1>2, LeastOf
<1> QED BY <1>2, <1>3, <1>4, <1>5, Zenon

\* No interrupt opens within the horizon of a machine with none open, as long
\* as only the clocks move.
LEMMA NoInterrupt ==
    ASSUME NEW p, IsMachine(p), Open(p) = {}, NEW v, IsMachine(v),
           \A f \in {"mtimecmp", "stimecmp", "stce", "enabled", "mideleg", "line", "stip",
                     "armed", "priv", "mie", "sie"} : v[f] = p[f],
           NEW j \in Nat, v.mtime = p.mtime + j, v.instret = p.instret + j,
           j + 1 <= CpuInterruptHorizon(p)
    PROVE  Open(Settled(v)) = {}
<1> DEFINE dMtip == IF p.mtime >= p.mtimecmp THEN 0 ELSE p.mtimecmp - p.mtime
           dSstc == IF p.instret >= p.stimecmp THEN 0 ELSE p.stimecmp - p.instret
           ds == (IF "mti" \in p.enabled /\ GateOpen(p, "mti") THEN {dMtip} ELSE {})
                 \cup (IF "sti" \in p.enabled /\ GateOpen(p, "sti")
                       THEN (IF p.armed THEN {dMtip} ELSE {})
                            \cup (IF p.stce THEN {dSstc} ELSE {}) ELSE {})
           h == CpuInterruptHorizon(p)
           s == Settled(v)
<1>1. /\ p.mtime \in Nat /\ p.mtimecmp \in Nat /\ p.instret \in Nat /\ p.stimecmp \in Nat
      /\ v.mtime \in Nat /\ v.mtimecmp \in Nat /\ v.instret \in Nat /\ v.stimecmp \in Nat
  BY MachineClocked, Zenon DEF Clocked
<1>2. dMtip \in Nat /\ dSstc \in Nat
  BY <1>1
<1>3. ds # {} => h \in ds /\ \A e \in ds : h <= e
  <2>1. h = IF ds = {} THEN MaxInsns ELSE CHOOSE d \in ds : \A e \in ds : d <= e
    BY DEF CpuInterruptHorizon
  <2>2. ds \in SUBSET Nat
    BY <1>2
  <2> HIDE DEF ds, h
  <2> QED BY <2>1, <2>2, LeastOf, Zenon
<1>4. /\ "mti" \in p.enabled /\ GateOpen(p, "mti") => v.mtime < v.mtimecmp
      /\ "sti" \in p.enabled /\ GateOpen(p, "sti") /\ p.armed => v.mtime < v.mtimecmp
      /\ "sti" \in p.enabled /\ GateOpen(p, "sti") /\ p.stce => v.instret < v.stimecmp
  <2>1. dMtip \in ds => v.mtime < v.mtimecmp
    <3>1. dMtip \in ds => h \in Nat /\ h <= dMtip
      <4> HIDE DEF dMtip, h
      <4> QED BY <1>2, <1>3
    <3> HIDE DEF ds, h
    <3>2. v.mtimecmp = p.mtimecmp
      OBVIOUS
    <3>3. j + 1 <= h
      BY DEF h
    <3> QED BY <1>1, <3>1, <3>2, <3>3
  <2>2. dSstc \in ds => v.instret < v.stimecmp
    <3>1. dSstc \in ds => h \in Nat /\ h <= dSstc
      <4> HIDE DEF dSstc, h
      <4> QED BY <1>2, <1>3
    <3> HIDE DEF ds, h
    <3>2. v.stimecmp = p.stimecmp
      OBVIOUS
    <3>3. j + 1 <= h
      BY DEF h
    <3> QED BY <1>1, <3>1, <3>2, <3>3
  <2> HIDE DEF dMtip, dSstc
  <2> QED BY <2>1, <2>2
<1>5. /\ \A f \in Fields \ {"stip", "armed"} : s[f] = v[f]
      /\ s.stip = Stip(v)
  BY MachineClocked, SettledIs, Zenon DEF SameBut
<1> HIDE DEF s, h, ds
<1>6. /\ s.enabled = p.enabled /\ s.mideleg = p.mideleg /\ s.line = p.line /\ s.priv = p.priv
      /\ s.mie = p.mie /\ s.sie = p.sie /\ s.mtime = v.mtime /\ s.mtimecmp = v.mtimecmp
  BY <1>5 DEF Fields
<1>7. ASSUME NEW i \in Open(s) PROVE FALSE
  <2>1. /\ i \in p.enabled
        /\ \/ i = "mti" /\ v.mtime >= v.mtimecmp
           \/ i = "sti" /\ Stip(v)
           \/ i = "mei" /\ p.line
    BY <1>5, <1>6, <1>7 DEF Open, Pending
  <2>2. GateOpen(p, i)
    <3>1. GateOpen(s, i)
      BY <1>7 DEF Open
    <3> QED BY <1>6, <3>1 DEF GateOpen, ToS
  <2>3. CASE i = "mti"
    BY <1>1, <1>4, <2>1, <2>2, <2>3
  <2>4. CASE i = "sti"
    <3>1. ~p.stip
      BY <2>1, <2>2, <2>4 DEF Open, Pending
    <3>2. Stip(v)
      BY <2>1, <2>4
    <3>3. v.stip = p.stip /\ v.armed = p.armed /\ v.stce = p.stce
      OBVIOUS
    <3>4. CASE p.stce
      <4>1. v.instret >= v.stimecmp
        BY <3>2, <3>3, <3>4 DEF Stip
      <4>2. v.instret < v.stimecmp
        BY <1>4, <2>1, <2>2, <2>4, <3>4
      <4> QED BY <1>1, <4>1, <4>2
    <3>5. CASE ~p.stce
      <4>1. p.armed /\ v.mtime >= v.mtimecmp
        BY <3>1, <3>2, <3>3, <3>5 DEF Stip
      <4>2. v.mtime < v.mtimecmp
        BY <1>4, <2>1, <2>2, <2>4, <4>1
      <4> QED BY <1>1, <4>1, <4>2
    <3> QED BY <3>4, <3>5
  <2>5. CASE i = "mei"
    <3>1. i \in Open(p)
      BY <2>1, <2>2, <2>5 DEF Open, Pending
    <3> QED BY <3>1
  <2> QED BY <2>1, <2>3, <2>4, <2>5
<1> QED BY <1>7 DEF s

-----------------------------------------------------------------------------
(* The two recursions: the reference machine's steps and the walk in a block. *)

\* Induction, on a set of numbers.
LEMMA SetInduction ==
    ASSUME NEW S, 0 \in S, \A n \in Nat : n \in S => n + 1 \in S
    PROVE  \A n \in Nat : n \in S
<1> DEFINE T == Nat \ S
<1>1. SUFFICES ASSUME T # {} PROVE FALSE
  OBVIOUS
<1>2. PICK x \in T : \A y \in T : x <= y
  <2>1. T \in SUBSET Nat
    OBVIOUS
  <2> HIDE DEF T
  <2> QED BY <1>1, <2>1, LeastOf
<1>3. x # 0 /\ x - 1 \in Nat /\ ~(x <= x - 1)
  OBVIOUS
<1>4. x - 1 \in S /\ (x - 1) + 1 = x
  BY <1>2, <1>3
<1> QED BY <1>3, <1>4

\* f is the function RefSteps is defined with, up to n.
Steps(m, f, n) == f = [i \in 0..n |-> IF i = 0 THEN m ELSE QuantaStep(f[i - 1])]

LEMMA StepsExist == ASSUME NEW m PROVE \A n \in Nat : \E f : Steps(m, f, n)
<1> DEFINE S == {n \in Nat : \E f : Steps(m, f, n)}
<1>1. 0 \in S
  <2> DEFINE f == [i \in 0..0 |-> m]
  <2>1. Steps(m, f, 0)
    BY DEF Steps
  <2> QED BY <2>1, Zenon
<1>2. ASSUME NEW n \in Nat, n \in S PROVE n + 1 \in S
  <2>1. PICK f : Steps(m, f, n)
    BY <1>2
  <2> DEFINE h == [i \in 0..n + 1 |-> IF i = n + 1 THEN QuantaStep(f[n]) ELSE f[i]]
             w == [i \in 0..n + 1 |-> IF i = 0 THEN m ELSE QuantaStep(h[i - 1])]
  <2>2. ASSUME NEW i \in 0..n + 1 PROVE h[i] = w[i]
    <3>1. CASE i = n + 1
      BY <3>1
    <3>2. CASE i # n + 1 /\ i # 0
      <4>1. h[i] = f[i] /\ h[i - 1] = f[i - 1]
        BY <3>2
      <4>2. f[i] = QuantaStep(f[i - 1])
        BY <2>1, <3>2 DEF Steps
      <4> QED BY <4>1, <4>2, <3>2
    <3>3. CASE i = 0
      BY <2>1, <3>3 DEF Steps
    <3> QED BY <3>1, <3>2, <3>3
  <2>3. Steps(m, h, n + 1)
    <3>1. h = w
      BY <2>2
    <3> QED BY <3>1 DEF Steps
  <2> HIDE DEF h
  <2> QED BY <2>3
<1> HIDE DEF S
<1>3. \A n \in Nat : n \in S
  BY <1>1, <1>2, SetInduction
<1> QED BY <1>3 DEF S

\* A function that agrees with RefSteps' at 0 and step by step is RefSteps'.
LEMMA StepsSame ==
    ASSUME NEW m, NEW n \in Nat, NEW f, Steps(m, f, n), NEW g, NEW o \in Nat, Steps(m, g, o)
    PROVE  \A i \in Nat : i <= n /\ i <= o => f[i] = g[i]
<1> DEFINE S == {i \in Nat : i <= n /\ i <= o => f[i] = g[i]}
<1>1. 0 \in S
  BY DEF Steps
<1>2. ASSUME NEW i \in Nat, i \in S PROVE i + 1 \in S
  <2>1. SUFFICES ASSUME i + 1 <= n, i + 1 <= o PROVE f[i + 1] = g[i + 1]
    OBVIOUS
  <2>2. f[i] = g[i]
    BY <1>2, <2>1
  <2>3. (i + 1) - 1 = i /\ i + 1 # 0 /\ i + 1 \in 0..n /\ i + 1 \in 0..o
    BY <2>1
  <2>4. f[i + 1] = QuantaStep(f[i]) /\ g[i + 1] = QuantaStep(g[i])
    BY <2>3 DEF Steps
  <2> QED BY <2>2, <2>4
<1> HIDE DEF S
<1>3. \A i \in Nat : i \in S
  BY <1>1, <1>2, SetInduction
<1> QED BY <1>3 DEF S

LEMMA RefStepsIs ==
    ASSUME NEW m
    PROVE  /\ RefSteps(m, 0) = m
           /\ \A n \in Nat : RefSteps(m, n + 1) = QuantaStep(RefSteps(m, n))
<1> DEFINE F(n) == CHOOSE f : f = [i \in 0..n |-> IF i = 0 THEN m ELSE QuantaStep(f[i - 1])]
<1>1. ASSUME NEW n \in Nat PROVE Steps(m, F(n), n) /\ RefSteps(m, n) = F(n)[n]
  <2>1. \E f : Steps(m, f, n)
    BY StepsExist
  <2> QED BY <2>1 DEF Steps, RefSteps
<1> HIDE DEF F
<1>2. RefSteps(m, 0) = m
  <2>1. Steps(m, F(0), 0) /\ RefSteps(m, 0) = F(0)[0]
    BY <1>1
  <2> QED BY <2>1 DEF Steps
<1>3. ASSUME NEW n \in Nat PROVE RefSteps(m, n + 1) = QuantaStep(RefSteps(m, n))
  <2>1. Steps(m, F(n + 1), n + 1) /\ RefSteps(m, n + 1) = F(n + 1)[n + 1]
    BY <1>1
  <2>2. Steps(m, F(n), n) /\ RefSteps(m, n) = F(n)[n]
    BY <1>1
  <2>3. F(n + 1)[n + 1] = QuantaStep(F(n + 1)[n])
    <3>1. n + 1 \in 0..n + 1 /\ n + 1 # 0 /\ (n + 1) - 1 = n
      OBVIOUS
    <3> QED BY <2>1, <3>1 DEF Steps
  <2>4. F(n + 1)[n] = F(n)[n]
    <3>1. n <= n + 1 /\ n <= n /\ n + 1 \in Nat
      OBVIOUS
    <3> QED BY <2>1, <2>2, <3>1, StepsSame
  <2> QED BY <2>1, <2>2, <2>3, <2>4
<1> QED BY <1>2, <1>3

\* f is the function RunBlock is defined with, up to n.
Walks(m, b, f, n) ==
    f = [i \in 0..n |-> IF i = 0 THEN [m |-> m, k |-> 1] ELSE Onward(f[i - 1], b)]

LEMMA WalksExist == ASSUME NEW m, NEW b PROVE \A n \in Nat : \E f : Walks(m, b, f, n)
<1> DEFINE S == {n \in Nat : \E f : Walks(m, b, f, n)}
<1>1. 0 \in S
  <2> DEFINE f == [i \in 0..0 |-> [m |-> m, k |-> 1]]
  <2>1. Walks(m, b, f, 0)
    BY DEF Walks
  <2> QED BY <2>1, Zenon
<1>2. ASSUME NEW n \in Nat, n \in S PROVE n + 1 \in S
  <2>1. PICK f : Walks(m, b, f, n)
    BY <1>2
  <2> DEFINE h == [i \in 0..n + 1 |-> IF i = n + 1 THEN Onward(f[n], b) ELSE f[i]]
             w == [i \in 0..n + 1 |-> IF i = 0 THEN [m |-> m, k |-> 1] ELSE Onward(h[i - 1], b)]
  <2>2. ASSUME NEW i \in 0..n + 1 PROVE h[i] = w[i]
    <3>1. CASE i = n + 1
      BY <3>1
    <3>2. CASE i # n + 1 /\ i # 0
      <4>1. h[i] = f[i] /\ h[i - 1] = f[i - 1]
        BY <3>2
      <4>2. f[i] = Onward(f[i - 1], b)
        BY <2>1, <3>2 DEF Walks
      <4> QED BY <4>1, <4>2, <3>2
    <3>3. CASE i = 0
      BY <2>1, <3>3 DEF Walks
    <3> QED BY <3>1, <3>2, <3>3
  <2>3. Walks(m, b, h, n + 1)
    <3>1. h = w
      BY <2>2
    <3> QED BY <3>1 DEF Walks
  <2> HIDE DEF h
  <2> QED BY <2>3
<1> HIDE DEF S
<1>3. \A n \in Nat : n \in S
  BY <1>1, <1>2, SetInduction
<1> QED BY <1>3 DEF S

LEMMA RunBlockIs ==
    ASSUME NEW m, NEW b, Len(b.insns) \in Nat
    PROVE  \E W : /\ W[0] = [m |-> m, k |-> 1]
                  /\ \A n \in Nat : n < Len(b.insns) => W[n + 1] = Onward(W[n], b)
                  /\ RunBlock(m, b) = Leave(W[Len(b.insns)].m, b, W[Len(b.insns)].k)
<1> DEFINE l == Len(b.insns)
           W == CHOOSE f : f = [i \in 0..l |-> IF i = 0 THEN [m |-> m, k |-> 1] ELSE Onward(f[i - 1], b)]
<1>1. Walks(m, b, W, l)
  <2>1. \E f : Walks(m, b, f, l)
    BY WalksExist, Zenon
  <2> QED BY <2>1 DEF Walks
<1>2. RunBlock(m, b) = Leave(W[l].m, b, W[l].k)
  BY DEF RunBlock
<1> HIDE DEF W
<1>3. W[0] = [m |-> m, k |-> 1]
  BY <1>1 DEF Walks
<1>4. ASSUME NEW n \in Nat, n < l PROVE W[n + 1] = Onward(W[n], b)
  <2>1. n + 1 \in 0..l /\ n + 1 # 0 /\ (n + 1) - 1 = n
    BY <1>4
  <2> QED BY <1>1, <2>1 DEF Walks
<1> QED BY <1>2, <1>3, <1>4

-----------------------------------------------------------------------------
(* The clock and the halt poll around a step. *)

LEMMA TickIs ==
    ASSUME NEW m, IsMachine(m)
    PROVE  /\ IsMachine(PlatTick(m)) /\ PlatTick(m).mtime = m.mtime + 1
           /\ \A f \in Fields \ {"mtime"} : PlatTick(m)[f] = m[f]
<1>1. m.mtime + 1 \in Nat
  <2>1. m.mtime \in Nat
    BY MachineClocked, Zenon DEF Clocked
  <2> QED BY <2>1
<1> QED BY <1>1, Zenon DEF PlatTick, IsMachine, Fields

LEMMA TickAgrees ==
    ASSUME NEW m, IsMachine(m), NEW r, IsMachine(r), Agree(m, r)
    PROVE  Agree(PlatTick(m), PlatTick(r))
<1> DEFINE n == PlatTick(m)
           s == PlatTick(r)
<1>1. /\ IsMachine(n) /\ IsMachine(s) /\ n.mtime = m.mtime + 1 /\ s.mtime = r.mtime + 1
      /\ \A f \in Fields \ {"mtime"} : n[f] = m[f] /\ s[f] = r[f]
  BY TickIs
<1> HIDE DEF n, s
<1>2. SameBut(m, r, {"stip", "armed"}) /\ m.mtime = r.mtime
  BY DEF Agree, SameBut, Fields
<1>3. m.mtime \in Nat /\ r.mtime \in Nat
  BY MachineClocked, Zenon DEF Clocked
<1>4. DOMAIN n = Fields /\ DOMAIN s = Fields
  BY <1>1, MachineClocked, Zenon
<1>5. SameBut(n, s, {"stip", "armed"})
  BY <1>1, <1>2, <1>4 DEF SameBut
<1>6. Later(m, n) /\ Later(r, s)
  BY <1>1, <1>3 DEF Later, Fields
<1> QED BY <1>1, <1>5, <1>6, AgreeLater, MachineClocked, Zenon DEF n, s

\* The tick can be undone.
LEMMA TickInjective ==
    ASSUME NEW m, IsMachine(m), NEW r, DOMAIN r = Fields, r = [f \in Fields |-> r[f]],
           r.mtime \in Int, PlatTick(r) = PlatTick(m)
    PROVE  r = m
<1>1. m = [f \in Fields |-> m[f]] /\ m.mtime \in Nat
  BY MachineClocked, Zenon DEF Clocked
<1>2. PlatTick(m).mtime = m.mtime + 1 /\ PlatTick(r).mtime = r.mtime + 1
  BY <1>1 DEF PlatTick, Fields
<1>3. r.mtime = m.mtime
  BY <1>1, <1>2
<1>4. \A f \in Fields \ {"mtime"} : PlatTick(m)[f] = m[f] /\ PlatTick(r)[f] = r[f]
  BY <1>1 DEF PlatTick
<1>5. \A f \in Fields : r[f] = m[f]
  BY <1>3, <1>4
<1> QED BY <1>1, <1>5

LEMMA PollIs ==
    ASSUME NEW m, IsMachine(m)
    PROVE  /\ IsMachine(MachinePollHalt(m)) /\ Len(MachinePollHalt(m).code) = Len(m.code)
           /\ \A f \in Fields \ {"stopped"} : MachinePollHalt(m)[f] = m[f]
           /\ ~m.poweroff /\ ~m.halted /\ ~m.stopped => MachinePollHalt(m) = m
           /\ m.halted => MachinePollHalt(m).stopped
<1> DEFINE n == MachinePollHalt(m)
           h == m.poweroff \/ m.halted
<1>1. n = [m EXCEPT !.stopped = h] /\ h \in BOOLEAN /\ DOMAIN m = Fields /\ m.stopped \in BOOLEAN
  <2>1. n = [m EXCEPT !.stopped = h]
    BY DEF MachinePollHalt
  <2>2. DOMAIN m = Fields
    BY MachineClocked
  <2>3. m.stopped \in BOOLEAN /\ h \in BOOLEAN
    BY Zenon DEF IsMachine
  <2> QED BY <2>1, <2>2, <2>3, Zenon
<1>2. ~m.poweroff /\ ~m.halted /\ ~m.stopped => n = m
  <2>1. SUFFICES ASSUME ~m.poweroff /\ ~m.halted /\ ~m.stopped PROVE n = m
    OBVIOUS
  <2>2. h = FALSE /\ m.stopped = FALSE
    BY <1>1, <2>1, Zenon
  <2>3. m = [f \in Fields |-> m[f]]
    BY MachineClocked, Zenon DEF Clocked
  <2> HIDE DEF h
  <2> QED BY <1>1, <2>2, <2>3
<1>3. m.halted => n.stopped = TRUE
  <2>1. m.halted => h = TRUE
    OBVIOUS
  <2> HIDE DEF h
  <2> QED BY <1>1, <2>1 DEF Fields
<1> HIDE DEF h
<1>4. IsMachine(n) /\ n.code = m.code /\ \A f \in Fields \ {"stopped"} : n[f] = m[f]
  <2>1. /\ n = [f \in Fields |-> n[f]] /\ n.stopped \in BOOLEAN
        /\ \A f \in Fields \ {"stopped"} : n[f] = m[f]
    BY <1>1 DEF Fields
  <2> HIDE DEF n
  <2>2. /\ n.code = m.code /\ n.pc = m.pc /\ n.alias = m.alias /\ n.saved = m.saved
        /\ n.mtime = m.mtime /\ n.mtimecmp = m.mtimecmp /\ n.instret = m.instret
        /\ n.stimecmp = m.stimecmp /\ n.stip = m.stip /\ n.armed = m.armed /\ n.stce = m.stce
        /\ n.mie = m.mie /\ n.sie = m.sie /\ n.poweroff = m.poweroff /\ n.halted = m.halted
    BY <2>1 DEF Fields
  <2> QED BY <2>1, <2>2, Zenon DEF IsMachine
<1> QED BY <1>2, <1>3, <1>4, Zenon

LEMMA PollAgrees ==
    ASSUME NEW m, IsMachine(m), NEW r, IsMachine(r), Agree(m, r)
    PROVE  Agree(MachinePollHalt(m), MachinePollHalt(r))
<1> DEFINE n == MachinePollHalt(m)
           s == MachinePollHalt(r)
<1>1. /\ IsMachine(n) /\ IsMachine(s)
      /\ \A f \in Fields \ {"stopped"} : n[f] = m[f] /\ s[f] = r[f]
  BY PollIs
<1>2. m.poweroff = r.poweroff /\ m.halted = r.halted /\ DOMAIN m = Fields /\ DOMAIN r = Fields
  BY DEF Agree, SameBut, Fields
<1>3. n.stopped = s.stopped
  BY <1>2 DEF MachinePollHalt, Fields
<1> HIDE DEF n, s
<1>4. DOMAIN n = Fields /\ DOMAIN s = Fields
  BY <1>1, MachineClocked, Zenon
<1>5. SameBut(n, s, {"stip", "armed"})
  BY <1>1, <1>3, <1>4 DEF SameBut, Agree
<1>6. m.mtime \in Nat /\ r.mtime \in Nat
  BY MachineClocked, Zenon DEF Clocked
<1>7. Later(m, n) /\ Later(r, s)
  BY <1>1, <1>6 DEF Later, Fields
<1> QED BY <1>1, <1>5, <1>7, AgreeLater, MachineClocked, Zenon DEF n, s

\* cpu_step: an interrupt, or the instruction fetched.
LEMMA CpuStepIs ==
    ASSUME NEW m, NEW c
    PROVE  LET pre == CpuPreStep(m)
               i == DcFetch(c, pre.m)
               one == CpuStep(m, c)
           IN  /\ pre.taken => one.m = pre.m /\ one.dc = c /\ one.ran = <<>>
               /\ ~pre.taken => /\ one.m = Finish(pre.m, i) /\ one.ran = <<<<pre.m.pc, i>>>>
                                /\ one.dc = IF i = "fencei" /\ c.on THEN DcacheFlush(DcFill(c, pre.m))
                                            ELSE DcFill(c, pre.m)
<1> DEFINE pre == CpuPreStep(m)
<1>1. pre.taken => CpuStep(m, c) = [m |-> pre.m, dc |-> c, ran |-> <<>>]
  BY DEF CpuStep
<1>2. ~pre.taken => CpuStep(m, c) = CpuFetchExecute(pre.m, c)
  BY DEF CpuStep
<1> HIDE DEF pre
<1> QED BY <1>1, <1>2 DEF pre, CpuFetchExecute, Finish

LEMMA QuantaStepIs ==
    ASSUME NEW r, ~r.stopped, "on" \in DOMAIN dc
    PROVE  QuantaStep(r) = MachinePollHalt(PlainStep(PlatTick(r)))
<1> DEFINE c == [dc EXCEPT !.on = FALSE]
           pre == CpuPreStep(PlatTick(r))
<1>1. ~c.on
  OBVIOUS
<1> HIDE DEF c
<1>2. DcFetch(c, pre.m) = pre.m.code[pre.m.pc]
  BY <1>1 DEF DcFetch, DcHit
<1>3. CpuStep(PlatTick(r), c).m = PlainStep(PlatTick(r))
  <2> DEFINE one == CpuStep(PlatTick(r), c)
  <2>1. (pre.taken => one.m = pre.m) /\ (~pre.taken => one.m = Finish(pre.m, DcFetch(c, pre.m)))
    BY CpuStepIs
  <2>2. PlainStep(PlatTick(r)) = IF pre.taken THEN pre.m ELSE Finish(pre.m, pre.m.code[pre.m.pc])
    BY DEF PlainStep
  <2> HIDE DEF pre, one
  <2> QED BY <1>2, <2>1, <2>2 DEF one
<1> QED BY <1>3 DEF QuantaStep, c

-----------------------------------------------------------------------------
(* A block follows the plain interpreter. *)

\* The first n instructions of b are those memory holds, from p on, when each runs.
Current(p, b, n) ==
    \A k \in 1..n :
        /\ b.insns[k] = p.code[p.pc + (k - 1)]
        /\ \A i \in 1..k - 1 : p.pc + (k - 1) = Patched /\ b.insns[i] \in DOMAIN Overwrites
                                  => b.insns[k] = Overwrites[b.insns[i]]

\* What the instructions of b before the k-th left of p's code in m.
CodeSoFar(p, b, m, k) ==
    \/ m.code = p.code
    \/ \E i \in 1..k - 1 : /\ b.insns[i] \in DOMAIN Overwrites
                           /\ m.code = [p.code EXCEPT ![Patched] = Overwrites[b.insns[i]]]

LEMMA CodeOnward ==
    ASSUME NEW p, IsMachine(p), NEW b, NEW m, IsMachine(m), NEW k \in Nat \ {0},
           CodeSoFar(p, b, m, k), b.insns[k] \in Alu \cup Ram,
           NEW at, DOMAIN at = Fields, at.code = m.code, Execute(at, b.insns[k]).ok
    PROVE  CodeSoFar(p, b, Execute(at, b.insns[k]).m, k + 1)
<1> DEFINE i == b.insns[k]
           n == Execute(at, i).m
<1>1. 1..k - 1 \subseteq 1..(k + 1) - 1 /\ k \in 1..(k + 1) - 1
  OBVIOUS
<1>2. n.code = at.code \/ (i \in DOMAIN Overwrites /\ n.code = [at.code EXCEPT ![Patched] = Overwrites[i]])
  <2> HIDE DEF i
  <2>1. i \in Alu \cup Ram /\ Execute(at, i).ok
    BY DEF i
  <2>2. CASE i \in Alu
    <3>1. Execute(at, i) = CpuExecAlu(at, i)
      BY <2>2 DEF Execute, Alu, Ram, Device, System
    <3>2. Execute(at, i) = Done([at EXCEPT !.x = (@ + 1) % 4])
      BY <2>1, <3>1 DEF CpuExecAlu, Trapped
    <3> QED BY <3>2 DEF Done, Fields
  <2>3. CASE i \in Ram
    <3>1. Execute(at, i) = CpuExecMem(at, i) /\ DOMAIN Overwrites = {"patch", "unpatch"}
      BY <2>3 DEF Execute, Alu, Ram, Device, System, Overwrites
    <3>2. CASE i \in {"load", "store"}
      <4>1. Execute(at, i) = Done([at EXCEPT !.x = at.ram]) \/ Execute(at, i) = Done([at EXCEPT !.ram = at.x])
        BY <3>1, <3>2 DEF CpuExecMem
      <4> QED BY <4>1 DEF Done, Fields
    <3>3. CASE i \in {"patch", "unpatch"}
      <4>1. Execute(at, i) = Done([at EXCEPT !.code[Patched] = Overwrites[i]])
        BY <3>1, <3>3 DEF CpuExecMem
      <4> QED BY <3>1, <3>3, <4>1 DEF Done, Fields
    <3>4. CASE i = "wild"
      <4>1. Execute(at, i) = Trapped(at, "access")
        BY <3>1, <3>4 DEF CpuExecMem
      <4> QED BY <2>1, <4>1 DEF Trapped
    <3> QED BY <2>3, <3>2, <3>3, <3>4 DEF Ram
  <2> QED BY <2>1, <2>2, <2>3
<1> HIDE DEF n
<1>3. CASE n.code = m.code
  BY <1>1, <1>3 DEF CodeSoFar, n
<1>4. CASE i \in DOMAIN Overwrites /\ n.code = [m.code EXCEPT ![Patched] = Overwrites[i]]
  <2>1. n.code = [p.code EXCEPT ![Patched] = Overwrites[i]]
    <3>1. CASE m.code = p.code
      BY <1>4, <3>1
    <3>2. ASSUME NEW j, m.code = [p.code EXCEPT ![Patched] = Overwrites[b.insns[j]]]
          PROVE  n.code = [p.code EXCEPT ![Patched] = Overwrites[i]]
      BY <1>4, <3>2
    <3> QED BY <3>1, <3>2, Zenon DEF CodeSoFar
  <2> QED BY <1>1, <1>4, <2>1, Zenon DEF CodeSoFar, n
<1> QED BY <1>2, <1>3, <1>4 DEF n

\* The k-th instruction is the one memory holds when it runs.
LEMMA CodeFetched ==
    ASSUME NEW p, IsMachine(p), NEW b, IsBlock(b, p), b.va[2] = p.pc, NEW m,
           NEW k \in 1..Len(b.insns), CodeSoFar(p, b, m, k), Current(p, b, k)
    PROVE  m.code[p.pc + (k - 1)] = b.insns[k]
<1> DEFINE c == p.pc + (k - 1)
<1>1. c \in 1..Len(p.code) /\ DOMAIN p.code = 1..Len(p.code) /\ k \in 1..k
  <2>1. /\ b.va[2] \in Nat \ {0} /\ Len(b.insns) \in Nat \ {0}
        /\ b.va[2] + Len(b.insns) <= Len(p.code)
    BY Zenon DEF IsBlock
  <2>2. Len(p.code) \in Nat /\ DOMAIN p.code = 1..Len(p.code)
    BY MachineCode, Zenon
  <2> QED BY <2>1, <2>2
<1>2. /\ b.insns[k] = p.code[c]
      /\ \A i \in 1..k - 1 : c = Patched /\ b.insns[i] \in DOMAIN Overwrites
                                => b.insns[k] = Overwrites[b.insns[i]]
  BY <1>1 DEF Current
<1> HIDE DEF c
<1>3. ASSUME NEW i \in 1..k - 1, b.insns[i] \in DOMAIN Overwrites,
             m.code = [p.code EXCEPT ![Patched] = Overwrites[b.insns[i]]]
      PROVE  m.code[c] = b.insns[k]
  BY <1>1, <1>2, <1>3
<1>4. m.code[c] = b.insns[k]
  BY <1>2, <1>3, Zenon DEF CodeSoFar
<1> QED BY <1>4 DEF c

\* Block b may run on machine p, which has begun its step.
MayRun(p, b) ==
    /\ IsMachine(p) /\ ~p.poweroff /\ ~p.halted /\ ~p.stopped /\ Open(p) = {}
    /\ IsBlock(b, p) /\ b.va[1] = p.alias /\ b.va[2] = p.pc
    /\ Len(b.insns) <= CpuInterruptHorizon(p)

\* s is a machine inside the block and the instruction it is at.
Stage(p, b, s) ==
    /\ s.k \in 1..Len(b.insns) + 1 /\ IsMachine(s.m) /\ IsBlock(b, s.m)
    /\ Quiet(p, s.m) /\ CodeSoFar(p, b, s.m, s.k)

LEMMA StageFirst ==
    ASSUME NEW p, NEW b, MayRun(p, b)
    PROVE  Stage(p, b, [m |-> p, k |-> 1]) /\ Virt(p, b, 1) = p
<1>1. Len(b.insns) \in Nat
  BY Zenon DEF MayRun, IsBlock
<1>2. 1 \in 1..Len(b.insns) + 1 /\ Quiet(p, p) /\ CodeSoFar(p, b, p, 1)
  BY <1>1 DEF Quiet, Timeless, CodeSoFar
<1>3. Stage(p, b, [m |-> p, k |-> 1])
  <2> DEFINE s == [m |-> p, k |-> 1]
  <2>1. s.m = p /\ s.k = 1
    OBVIOUS
  <2> HIDE DEF s
  <2> QED BY <1>2, <2>1 DEF Stage, MayRun, s
<1>4. p = [f \in Fields |-> p[f]] /\ p.instret \in Nat /\ p.mtime \in Nat /\ p.pc \in Nat
  <2>1. p = [f \in Fields |-> p[f]] /\ p.instret \in Nat /\ p.mtime \in Nat
    BY MachineClocked, Zenon DEF Clocked, MayRun
  <2>2. p.pc \in 1..Len(p.code) /\ Len(p.code) \in Nat
    BY MachineCode, Zenon DEF MayRun
  <2> QED BY <2>1, <2>2
<1>5. p.instret + (1 - 1) = p.instret /\ p.mtime + (1 - 1) = p.mtime /\ p.pc + 1 - 1 = p.pc
  BY <1>4
<1>6. b.va[1] = p.alias /\ b.va[2] = p.pc
  BY DEF MayRun
<1>7. AtInsn(p, b, 1) = p
  BY <1>4, <1>5, <1>6, Zenon DEF AtInsn, Fields
<1>8. Virt(p, b, 1) = p
  BY <1>4, <1>5, <1>7, Zenon DEF Virt, Fields
<1> QED BY <1>3, <1>8

LEMMA QuietTrans == ASSUME NEW m, NEW n, NEW w, Quiet(m, n), Quiet(n, w) PROVE Quiet(m, w)
BY DEF Quiet, Timeless

LEMMA StageOnward ==
    ASSUME NEW p, NEW b, MayRun(p, b), NEW s, Stage(p, b, s)
    PROVE  Stage(p, b, Onward(s, b))
<1>1. CASE ~Straight(s.m, b, s.k)
  BY <1>1 DEF Onward
<1>2. CASE Straight(s.m, b, s.k)
  <2> DEFINE m == s.m
             k == s.k
             n == Execute(AtInsn(m, b, k), b.insns[k]).m
             t == Onward(s, b)
  <2>1. t = [m |-> n, k |-> k + 1]
    BY <1>2 DEF Onward
  <2>2. k \in 1..Len(b.insns) /\ k + 1 \in 1..Len(b.insns) + 1 /\ k \in Nat \ {0}
    <3>1. k <= Len(b.insns)
      BY <1>2, Zenon DEF Straight
    <3>2. Len(b.insns) \in Nat /\ k \in 1..Len(b.insns) + 1
      BY Zenon DEF Stage, IsBlock
    <3> QED BY <3>1, <3>2
  <2>3. IsMachine(m) /\ IsBlock(b, m) /\ Quiet(p, m) /\ CodeSoFar(p, b, m, k) /\ IsMachine(p)
    BY Zenon DEF Stage, MayRun
  <2> HIDE DEF m, k
  <2>4. b.insns[k] \in Alu \cup Ram /\ IsMachine(n) /\ IsBlock(b, n) /\ Quiet(m, n)
    BY <1>2, <2>2, <2>3, OnwardIs, Zenon DEF m, k
  <2>5. /\ DOMAIN AtInsn(m, b, k) = Fields /\ AtInsn(m, b, k).code = m.code
        /\ Execute(AtInsn(m, b, k), b.insns[k]).ok
    <3>1. DOMAIN m = Fields
      BY <2>3, MachineClocked
    <3> QED BY <1>2, <3>1 DEF AtInsn, Fields, Straight, m, k
  <2>6. CodeSoFar(p, b, n, k + 1)
    BY <2>2, <2>3, <2>4, <2>5, CodeOnward
  <2>7. Quiet(p, n)
    BY <2>3, <2>4, QuietTrans
  <2> HIDE DEF n, t
  <2>8. t.m = n /\ t.k = k + 1
    BY <2>1
  <2> QED BY <2>2, <2>4, <2>6, <2>7, <2>8, Zenon DEF Stage, t
<1> QED BY <1>1, <1>2

\* The reference machine r does what the block is about to do: no interrupt
\* takes the step and the instruction is the block's.
LEMMA RefTakes ==
    ASSUME NEW p, NEW b, MayRun(p, b), NEW s, Stage(p, b, s), s.k \in 1..Len(b.insns),
           Current(p, b, s.k), b.insns[s.k] \in Alu \cup Ram \cup Jumps,
           NEW r, IsMachine(r), ~r.stopped, Agree(PlatTick(r), Virt(s.m, b, s.k)),
           "on" \in DOMAIN dc
    PROVE  \E w : /\ IsMachine(w) /\ QuantaStep(r) = MachinePollHalt(w)
                  /\ IsMachine(Finish(Virt(s.m, b, s.k), b.insns[s.k]))
                  /\ Agree(w, Finish(Virt(s.m, b, s.k), b.insns[s.k]))
<1> DEFINE m == s.m
           k == s.k
           i == b.insns[k]
           v == Virt(m, b, k)
           t == PlatTick(r)
           w == Finish(Settled(v), i)
<1>1. /\ IsMachine(m) /\ IsBlock(b, m) /\ Quiet(p, m) /\ CodeSoFar(p, b, m, k)
      /\ k \in 1..Len(b.insns) + 1 /\ IsMachine(p) /\ IsBlock(b, p) /\ ~p.poweroff /\ Open(p) = {}
      /\ b.va[2] = p.pc /\ Len(b.insns) <= CpuInterruptHorizon(p)
  BY Zenon DEF Stage, MayRun
<1>2. /\ Len(b.insns) \in Nat \ {0} /\ p.pc \in Nat \ {0} /\ p.pc + Len(b.insns) <= Len(m.code)
      /\ Len(m.code) \in Nat /\ k \in Nat \ {0} /\ k - 1 \in Nat /\ (k - 1) + 1 = k
  <2>1. /\ Len(b.insns) \in Nat \ {0} /\ p.pc \in Nat \ {0}
        /\ p.pc + Len(b.insns) <= Len(m.code)
    BY <1>1, Zenon DEF IsBlock
  <2>2. Len(m.code) \in Nat
    BY <1>1, MachineCode, Zenon
  <2> QED BY <1>1, <2>1, <2>2
<1>3. k \in 1..Len(b.insns) /\ k <= Len(b.insns) /\ i \in Alu \cup Ram \cup Jumps /\ Current(p, b, k)
  BY <1>2
<1> HIDE DEF k, i, m
<1>4. /\ IsMachine(v) /\ v.pc = p.pc + (k - 1) /\ v.instret = m.instret + (k - 1)
      /\ v.mtime = m.mtime + (k - 1)
      /\ \A f \in Fields \ {"alias", "pc", "instret", "mtime"} : v[f] = m[f]
  <2>1. /\ IsMachine(v) /\ v.pc = b.va[2] + k - 1 /\ v.instret = m.instret + (k - 1)
        /\ v.mtime = m.mtime + (k - 1)
        /\ \A f \in Fields \ {"alias", "pc", "instret", "mtime"} : v[f] = m[f]
    BY <1>1, VirtType
  <2> QED BY <1>1, <2>1
<1>5. Agree(t, v) /\ IsMachine(t)
  <2>1. IsMachine(t)
    BY TickIs
  <2> QED BY <2>1 DEF m, k
<1> HIDE DEF v, t
<1>6. v.code[v.pc] = i /\ v.pc # Len(v.code)
  <2>1. v.code = m.code
    BY <1>4 DEF Fields
  <2>2. m.code[p.pc + (k - 1)] = i
    BY <1>1, <1>3, CodeFetched DEF i
  <2> QED BY <1>2, <1>3, <1>4, <2>1, <2>2
<1>7. Open(Settled(v)) = {} /\ ~v.poweroff
  <2>1. \A f \in {"mtimecmp", "stimecmp", "stce", "enabled", "mideleg", "line", "stip",
                  "armed", "priv", "mie", "sie", "poweroff"} : v[f] = p[f]
    BY <1>1, <1>4 DEF Quiet, Timeless, Clocks, Fields
  <2>2. v.mtime = p.mtime + (k - 1) /\ v.instret = p.instret + (k - 1)
    BY <1>1, <1>4 DEF Quiet, Timeless, Clocks
  <2>3. (k - 1) + 1 <= CpuInterruptHorizon(p)
    <3>1. CpuInterruptHorizon(p) \in Nat
      BY <1>1, HorizonNat
    <3> QED BY <1>1, <1>2, <1>3, <3>1
  <2>4. Open(Settled(v)) = {}
    BY <1>1, <1>2, <1>4, <2>1, <2>2, <2>3, NoInterrupt
  <2> QED BY <1>1, <2>1, <2>4
<1>8. PlainStep(t) = w
  <2>1. CpuPreStep(v).taken = FALSE /\ CpuPreStep(v).m = Settled(v)
    BY <1>4, <1>7, PreStepIs DEF CpuPreStep, TakeInterrupt, Open, Settled
  <2>2. CpuPreStep(t) = CpuPreStep(v)
    <3>1. t.poweroff = v.poweroff
      BY <1>5 DEF Agree, SameBut, Fields
    <3> QED BY <1>4, <1>5, <1>7, <3>1, PreStepSame, Zenon
  <2>3. Settled(v).code = v.code /\ Settled(v).pc = v.pc
    BY <1>4, SettledType DEF SameBut, Fields
  <2> QED BY <1>6, <2>1, <2>2, <2>3, Zenon DEF PlainStep
<1>9. IsMachine(Finish(v, i)) /\ IsMachine(w)
  <2>1. Settled(v).code = v.code /\ Settled(v).pc = v.pc /\ IsMachine(Settled(v))
    BY <1>4, SettledType DEF SameBut, Fields
  <2> QED BY <1>4, <1>6, <2>1, FinishType, Zenon
<1>10. Agree(w, Finish(v, i))
  <2>1. Agree(Settled(v), v) /\ IsMachine(Settled(v))
    BY <1>4, SettledAgrees, SettledType, AgreeTrans, MachineClocked, Zenon
  <2> QED BY <1>3, <1>4, <1>9, <2>1, FinishAgrees, Zenon
<1>11. QuantaStep(r) = MachinePollHalt(w)
  BY <1>8, QuantaStepIs, Zenon DEF t
<1> QED BY <1>9, <1>10, <1>11, Zenon DEF v, m, k, i

\* As long as the block ran what memory held, the reference machine r0 is, as
\* many steps on, where the block is.
Follows(p, b, r0, s) ==
    Current(p, b, s.k - 1) =>
        LET r == RefSteps(r0, s.k - 1)
            v == Virt(s.m, b, s.k)
        IN  /\ IsMachine(r) /\ ~r.stopped /\ Agree(PlatTick(r), v)
            /\ s.k = 1 \/ \E u : IsMachine(u) /\ Agree(r, u) /\ PlatTick(u) = v

LEMMA FollowsOnward ==
    ASSUME NEW p, NEW b, MayRun(p, b), NEW s, Stage(p, b, s), NEW r0, Follows(p, b, r0, s),
           "on" \in DOMAIN dc
    PROVE  Follows(p, b, r0, Onward(s, b))
<1>1. CASE ~Straight(s.m, b, s.k)
  BY <1>1 DEF Onward
<1>2. CASE Straight(s.m, b, s.k)
  <2> DEFINE m == s.m
             k == s.k
             i == b.insns[k]
             n == Execute(AtInsn(m, b, k), i).m
             v == Virt(m, b, k)
             F == Finish(v, i)
             r == RefSteps(r0, k - 1)
             t == Onward(s, b)
  <2>1. t = [m |-> n, k |-> k + 1]
    BY <1>2 DEF Onward
  <2>2. k \in 1..Len(b.insns) /\ k \in Nat \ {0} /\ k - 1 \in Nat /\ (k + 1) - 1 = k
        /\ (k - 1) + 1 = k
    <3>1. k <= Len(b.insns)
      BY <1>2, Zenon DEF Straight
    <3>2. Len(b.insns) \in Nat /\ k \in 1..Len(b.insns) + 1
      BY Zenon DEF Stage, IsBlock
    <3> QED BY <3>1, <3>2
  <2>3. IsMachine(m) /\ IsBlock(b, m) /\ Quiet(p, m) /\ ~p.poweroff /\ ~p.halted /\ ~p.stopped
    BY Zenon DEF Stage, MayRun
  <2>4. /\ i \in Alu \cup Ram /\ IsMachine(n) /\ IsBlock(b, n) /\ Quiet(m, n)
        /\ Virt(n, b, k + 1) = PlatTick(F) /\ IsMachine(F)
    BY <1>2, <2>2, <2>3, OnwardIs, Zenon
  <2>5. SUFFICES ASSUME Current(p, b, k)
                 PROVE  LET g == RefSteps(r0, k)
                            V == Virt(n, b, k + 1)
                        IN  /\ IsMachine(g) /\ ~g.stopped /\ Agree(PlatTick(g), V)
                            /\ \E u : IsMachine(u) /\ Agree(g, u) /\ PlatTick(u) = V
    <3> HIDE DEF n, t, k
    <3>1. t.m = n /\ t.k = k + 1
      BY <2>1
    <3> QED BY <2>2, <3>1 DEF Follows, t
  <2>6. Current(p, b, k - 1)
    BY <2>2, <2>5 DEF Current
  <2>7. IsMachine(r) /\ ~r.stopped /\ Agree(PlatTick(r), v)
    BY <2>6, Zenon DEF Follows
  <2>8. PICK w : IsMachine(w) /\ QuantaStep(r) = MachinePollHalt(w) /\ Agree(w, F)
    <3>1. i \in Alu \cup Ram \cup Jumps
      BY <2>4, Zenon
    <3> QED BY <2>2, <2>5, <2>7, <3>1, RefTakes, Zenon
  <2>9. RefSteps(r0, k) = MachinePollHalt(w)
    <3>1. RefSteps(r0, (k - 1) + 1) = QuantaStep(r)
      BY <2>2, RefStepsIs, Zenon
    <3> HIDE DEF r
    <3> QED BY <2>2, <2>8, <3>1
  <2> HIDE DEF n, F, r, v, t
  <2>10. ~w.poweroff /\ ~w.halted /\ ~w.stopped
    <3>1. \A f \in {"poweroff", "halted", "stopped"} : n[f] = p[f]
      BY <2>3, <2>4 DEF Quiet, Timeless
    <3>2. k + 1 \in 1..Len(b.insns) + 1
      <4>1. Len(b.insns) \in Nat
        BY <2>3, Zenon DEF IsBlock
      <4> QED BY <2>2, <4>1
    <3>3. \A f \in {"poweroff", "halted", "stopped"} : Virt(n, b, k + 1)[f] = n[f]
      BY <2>4, <3>2, VirtType DEF Fields
    <3>4. \A f \in {"poweroff", "halted", "stopped"} : PlatTick(F)[f] = F[f]
      BY <2>4, TickIs DEF Fields
    <3>5. \A f \in {"poweroff", "halted", "stopped"} : w[f] = F[f]
      BY <2>8 DEF Agree, SameBut, Fields
    <3> QED BY <2>3, <2>4, <3>1, <3>3, <3>4, <3>5
  <2>11. RefSteps(r0, k) = w
    BY <2>8, <2>9, <2>10, PollIs, Zenon
  <2>12. Agree(PlatTick(w), PlatTick(F))
    BY <2>4, <2>8, TickAgrees, Zenon
  <2> QED BY <2>4, <2>8, <2>10, <2>11, <2>12
<1> QED BY <1>1, <1>2

\* The machine a turn of the loop that used n steps makes of m.
Ended(m, n) == [m EXCEPT !.mtime = @ + n - 1]

\* run is what becomes of the block when it is left at stage s.
Left(p, b, s, run) ==
    LET done == Ended(run.m, run.steps)
    IN  /\ run.steps \in 0..Len(b.insns)
        /\ run.steps = 0 => s.k = 1 /\ run.m = [AtInsn(s.m, b, 1) EXCEPT !.instret = @ + (1 - 1)]
        /\ run.steps > 0 => IsMachine(done) /\ Len(done.code) = Len(p.code)
        /\ \A r0 : Follows(p, b, r0, s) /\ "on" \in DOMAIN dc
                      /\ run.steps > 0 /\ Current(p, b, run.steps)
                   => /\ IsMachine(RefSteps(r0, run.steps))
                      /\ Agree(MachinePollHalt(done), RefSteps(r0, run.steps))

\* Leaving the block at stage s, where control does not go on.
LEMMA BlockLeft ==
    ASSUME NEW p, NEW b, MayRun(p, b), NEW s, Stage(p, b, s), ~Straight(s.m, b, s.k)
    PROVE  Left(p, b, s, Leave(s.m, b, s.k))
<1> DEFINE m == s.m
           k == s.k
           run == Leave(m, b, k)
           done == Ended(run.m, run.steps)
           v == Virt(m, b, k)
<1>1. /\ IsMachine(m) /\ IsBlock(b, m) /\ Quiet(p, m) /\ k \in 1..Len(b.insns) + 1 /\ IsMachine(p)
      /\ ~p.poweroff /\ ~p.halted /\ ~p.stopped /\ IsBlock(b, p) /\ CodeSoFar(p, b, m, k)
  BY Zenon DEF Stage, MayRun
<1>2. Len(b.insns) \in Nat /\ k \in Nat \ {0} /\ k - 1 \in Nat /\ (k - 1) + 1 = k
  <2>1. Len(b.insns) \in Nat
    BY <1>1, Zenon DEF IsBlock
  <2> QED BY <1>1, <2>1
<1>3. \/ /\ run.steps = k - 1 /\ run.m = [AtInsn(m, b, k) EXCEPT !.instret = @ + (k - 1)]
         /\ IsMachine(run.m) /\ PlatTick(done) = v
      \/ /\ k \in 1..Len(b.insns) /\ b.insns[k] \in Alu \cup Ram \cup Jumps
         /\ run.steps = k /\ done = Finish(v, b.insns[k]) /\ IsMachine(done)
  BY <1>1, LeaveIs DEF Ended
<1>4. /\ IsMachine(v)
      /\ \A f \in Fields \ {"alias", "pc", "instret", "mtime"} : v[f] = m[f]
  BY <1>1, VirtType
<1>5. Len(m.code) = Len(p.code)
  <2>1. DOMAIN p.code = 1..Len(p.code) /\ Len(p.code) \in Nat
    BY <1>1, MachineCode, Zenon
  <2>2. p.code \in Seq(Insns)
    BY <1>1 DEF IsMachine
  <2>3. \A e : Len([p.code EXCEPT ![Patched] = e]) = Len(p.code)
    BY <2>1, <2>2
  <2> QED BY <1>1, <2>3, Zenon DEF CodeSoFar
<1> HIDE DEF m, k, v
<1>6. CASE /\ run.steps = k - 1 /\ run.m = [AtInsn(m, b, k) EXCEPT !.instret = @ + (k - 1)]
           /\ IsMachine(run.m) /\ PlatTick(done) = v
  <2> DEFINE n == run.m
  <2>1. /\ run.steps = k - 1 /\ IsMachine(n) /\ PlatTick(done) = v /\ n.code = m.code /\ n.mtime = m.mtime
    <3>1. DOMAIN m = Fields
      BY <1>1, MachineClocked
    <3>2. AtInsn(m, b, k).code = m.code /\ AtInsn(m, b, k).mtime = m.mtime /\ DOMAIN AtInsn(m, b, k) = Fields
      BY <3>1 DEF AtInsn, Fields
    <3> HIDE DEF run
    <3> QED BY <1>6, <3>2 DEF Fields
  <2>2. CASE k = 1
    <3>1. run.steps = 0 /\ ~(run.steps > 0)
      BY <2>1, <2>2
    <3>2. k - 1 = 1 - 1
      BY <2>2
    <3> QED BY <1>2, <1>6, <2>1, <2>2, <3>1, <3>2 DEF m, k, Left
  <2>3. CASE k # 1
    <3>1. run.steps > 0 /\ run.steps \in 0..Len(b.insns) /\ run.steps # 0 /\ run.steps \in Nat
      BY <1>1, <1>2, <2>1, <2>3
    <3>2. n.mtime + (run.steps - 1) \in Nat
      <4>1. m.mtime \in Nat
        BY <1>1, MachineClocked, Zenon DEF Clocked
      <4> QED BY <2>1, <3>1, <4>1
    <3>3. done = [n EXCEPT !.mtime = n.mtime + (run.steps - 1)]
      BY DEF Ended
    <3> HIDE DEF n, done, run
    <3>4. IsMachine(done) /\ done.code = n.code
      BY <2>1, <3>2, <3>3, Zenon DEF IsMachine, Fields
    <3>5. ASSUME NEW r0, Follows(p, b, r0, s), Current(p, b, run.steps)
          PROVE  /\ IsMachine(RefSteps(r0, run.steps))
                 /\ Agree(MachinePollHalt(done), RefSteps(r0, run.steps))
      <4> DEFINE r == RefSteps(r0, k - 1)
      <4>1. IsMachine(r) /\ (k = 1 \/ \E u : IsMachine(u) /\ Agree(r, u) /\ PlatTick(u) = v)
        <5>1. Current(p, b, k - 1)
          BY <2>1, <3>5, Zenon
        <5> QED BY <3>5, <5>1, Zenon DEF Follows, m, k, v
      <4>2. PICK u : IsMachine(u) /\ Agree(r, u) /\ PlatTick(u) = v
        BY <2>3, <4>1
      <4>3. DOMAIN done = Fields /\ done = [f \in Fields |-> done[f]] /\ done.mtime \in Nat
        BY <3>4, MachineClocked, Zenon DEF Clocked
      <4>4. done.mtime \in Int
        BY <4>3
      <4>5. done = u
        BY <2>1, <4>2, <4>3, <4>4, TickInjective, Zenon
      <4>6. ~done.poweroff /\ ~done.halted /\ ~done.stopped
        <5>1. \A f \in {"poweroff", "halted", "stopped"} : PlatTick(done)[f] = done[f]
          BY <3>4, TickIs DEF Fields
        <5>2. \A f \in {"poweroff", "halted", "stopped"} : v[f] = p[f]
          BY <1>1, <1>4 DEF Fields, Quiet, Timeless
        <5> QED BY <1>1, <2>1, <5>1, <5>2
      <4>7. MachinePollHalt(done) = done
        BY <3>4, <4>6, PollIs, Zenon
      <4> HIDE DEF r
      <4>8. Agree(done, r)
        BY <4>2, <4>5, AgreeTrans, MachineClocked, SettledAgrees, Zenon
      <4> QED BY <2>1, <4>1, <4>7, <4>8, Zenon DEF r
    <3> QED BY <1>5, <2>1, <3>1, <3>4, <3>5, Zenon DEF m, k, run, done, n, Left
  <2> QED BY <2>2, <2>3
<1>7. CASE /\ k \in 1..Len(b.insns) /\ b.insns[k] \in Alu \cup Ram \cup Jumps
           /\ run.steps = k /\ done = Finish(v, b.insns[k]) /\ IsMachine(done)
  <2>1. run.steps \in 0..Len(b.insns) /\ run.steps > 0 /\ run.steps # 0
    BY <1>2, <1>7
  <2>2. Len(done.code) = Len(p.code)
    <3>1. v.code = m.code
      BY <1>4 DEF Fields
    <3>2. v.pc = Len(v.code) => b.insns[k] = "ret"
      <4>1. /\ b.va[2] \in Nat \ {0} /\ b.va[2] + Len(b.insns) <= Len(m.code)
        BY <1>1, Zenon DEF IsBlock
      <4>2. v.pc = b.va[2] + k - 1
        BY <1>1, VirtType DEF v
      <4>3. Len(m.code) \in Nat
        BY <1>1, MachineCode, Zenon
      <4> QED BY <1>2, <1>7, <3>1, <4>1, <4>2, <4>3
    <3> QED BY <1>4, <1>5, <1>7, <3>1, <3>2, FinishType, Zenon
  <2>3. ASSUME NEW r0, Follows(p, b, r0, s), Current(p, b, run.steps), "on" \in DOMAIN dc
        PROVE  /\ IsMachine(RefSteps(r0, run.steps))
               /\ Agree(MachinePollHalt(done), RefSteps(r0, run.steps))
    <3> DEFINE r == RefSteps(r0, k - 1)
    <3>1. Current(p, b, k) /\ Current(p, b, k - 1)
      BY <1>2, <1>7, <2>3 DEF Current
    <3>2. IsMachine(r) /\ ~r.stopped /\ Agree(PlatTick(r), v)
      BY <2>3, <3>1, Zenon DEF Follows, m, k, v
    <3>3. PICK w : IsMachine(w) /\ QuantaStep(r) = MachinePollHalt(w) /\ Agree(w, done)
      BY <1>7, <2>3, <3>1, <3>2, RefTakes, Zenon DEF m, k, v
    <3>4. RefSteps(r0, k) = MachinePollHalt(w)
      <4>1. RefSteps(r0, (k - 1) + 1) = QuantaStep(r)
        BY <1>2, RefStepsIs, Zenon
      <4> HIDE DEF r
      <4> QED BY <1>2, <3>3, <4>1
    <3> HIDE DEF r, done, run
    <3>5. Agree(MachinePollHalt(w), MachinePollHalt(done))
      BY <1>7, <3>3, PollAgrees, Zenon
    <3>6. IsMachine(MachinePollHalt(w)) /\ IsMachine(MachinePollHalt(done))
      BY <1>7, <3>3, PollIs, Zenon
    <3>7. Agree(MachinePollHalt(done), MachinePollHalt(w))
      BY <3>5, <3>6, AgreeTrans, MachineClocked, SettledAgrees, Zenon
    <3> QED BY <1>7, <3>4, <3>6, <3>7, Zenon
  <2> HIDE DEF run, done
  <2> QED BY <1>7, <2>1, <2>2, <2>3, Zenon DEF run, done, m, k, Left
<1> HIDE DEF run, done
<1> QED BY <1>3, <1>6, <1>7

\* r is a reference machine where block-machine p begins.
Starts(r, p) == IsMachine(r) /\ ~r.stopped /\ Agree(PlatTick(r), p) /\ "on" \in DOMAIN dc

\* A block does what the plain interpreter does in as many steps.
LEMMA BlockRuns ==
    ASSUME NEW p, NEW b, MayRun(p, b)
    PROVE  LET run == RunBlock(p, b)
               done == Ended(run.m, run.steps)
           IN  /\ run.steps \in 0..Len(b.insns)
               /\ run.steps = 0 => run.m = p
               /\ run.steps > 0 => IsMachine(done) /\ Len(done.code) = Len(p.code)
               /\ \A r0 : Starts(r0, p) /\ run.steps > 0 /\ Current(p, b, run.steps)
                          => /\ IsMachine(RefSteps(r0, run.steps))
                             /\ Agree(MachinePollHalt(done), RefSteps(r0, run.steps))
<1> DEFINE l == Len(b.insns)
<1>1. l \in Nat
  BY Zenon DEF MayRun, IsBlock
<1>2. PICK W : /\ W[0] = [m |-> p, k |-> 1]
               /\ \A n \in Nat : n < l => W[n + 1] = Onward(W[n], b)
               /\ RunBlock(p, b) = Leave(W[l].m, b, W[l].k)
  BY <1>1, RunBlockIs
<1> DEFINE Q(n) == /\ Stage(p, b, W[n])
                   /\ W[n].k = n + 1 \/ ~Straight(W[n].m, b, W[n].k)
                   /\ W[n].k = 1 => W[n].m = p
                   /\ \A r0 : Starts(r0, p) => Follows(p, b, r0, W[n])
           S == {n \in Nat : n <= l => Q(n)}
<1>3. 0 \in S
  <2>1. W[0].m = p /\ W[0].k = 1
    BY <1>2
  <2>2. Stage(p, b, W[0]) /\ Virt(p, b, 1) = p
    BY <1>2, StageFirst
  <2>3. ASSUME NEW r0, Starts(r0, p) PROVE Follows(p, b, r0, W[0])
    <3>1. RefSteps(r0, 1 - 1) = r0
      BY RefStepsIs
    <3> QED BY <2>1, <2>2, <2>3, <3>1 DEF Follows, Starts
  <2> QED BY <2>1, <2>2, <2>3
<1>4. ASSUME NEW n \in Nat, n \in S PROVE n + 1 \in S
  <2>1. SUFFICES ASSUME n + 1 <= l PROVE Q(n + 1)
    <3> HIDE DEF Q
    <3> QED OBVIOUS
  <2> DEFINE s == W[n]
             t == W[n + 1]
  <2>2. Q(n) /\ t = Onward(s, b)
    <3> HIDE DEF Q
    <3> QED BY <1>1, <1>2, <1>4, <2>1
  <2>3. Stage(p, b, t)
    BY <2>2, StageOnward, Zenon
  <2>4. ASSUME NEW r0, Starts(r0, p) PROVE Follows(p, b, r0, t)
    BY <2>2, <2>4, FollowsOnward, Zenon DEF Starts
  <2>5. s.k \in Nat \ {0}
    <3>1. s.k \in 1..l + 1
      BY <2>2, Zenon DEF Stage
    <3> QED BY <1>1, <3>1
  <2>6. CASE Straight(s.m, b, s.k)
    <3>1. t.k = s.k + 1
      <4>1. t = [m |-> Execute(AtInsn(s.m, b, s.k), b.insns[s.k]).m, k |-> s.k + 1]
        BY <2>2, <2>6 DEF Onward
      <4> QED BY <4>1
    <3>2. s.k = n + 1
      BY <2>2, <2>6
    <3>3. t.k = (n + 1) + 1 /\ t.k # 1
      BY <3>1, <3>2
    <3> QED BY <2>3, <2>4, <3>3
  <2>7. CASE ~Straight(s.m, b, s.k)
    <3>1. t = s
      BY <2>2, <2>7 DEF Onward
    <3> QED BY <2>2, <2>3, <2>4, <2>7, <3>1
  <2> QED BY <2>6, <2>7
<1> HIDE DEF S
<1>5. \A n \in Nat : n \in S
  BY <1>3, <1>4, SetInduction
<1>6. Q(l)
  <2> HIDE DEF Q
  <2> QED BY <1>1, <1>5 DEF S
<1> DEFINE s == W[l]
<1>7. ~Straight(s.m, b, s.k)
  <2>1. s.k = l + 1 => ~(s.k <= l)
    BY <1>1
  <2> QED BY <1>6, <2>1 DEF Straight
<1> DEFINE run == RunBlock(p, b)
           done == Ended(run.m, run.steps)
<1>8. /\ run.steps \in 0..l
      /\ run.steps = 0 => s.k = 1 /\ run.m = [AtInsn(s.m, b, 1) EXCEPT !.instret = @ + (1 - 1)]
      /\ run.steps > 0 => IsMachine(done) /\ Len(done.code) = Len(p.code)
      /\ \A r0 : Follows(p, b, r0, s) /\ "on" \in DOMAIN dc
                    /\ run.steps > 0 /\ Current(p, b, run.steps)
                 => /\ IsMachine(RefSteps(r0, run.steps))
                    /\ Agree(MachinePollHalt(done), RefSteps(r0, run.steps))
  <2>1. run = Leave(s.m, b, s.k) /\ Stage(p, b, s)
    BY <1>2, <1>6
  <2> HIDE DEF run, s
  <2>2. Left(p, b, s, run)
    BY <1>7, <2>1, BlockLeft, Zenon
  <2> QED BY <2>2, Zenon DEF Left
<1>9. run.steps = 0 => run.m = p
  <2>1. SUFFICES ASSUME run.steps = 0 PROVE run.m = p
    OBVIOUS
  <2>2. run.m = [AtInsn(p, b, 1) EXCEPT !.instret = @ + (1 - 1)]
    BY <1>6, <1>8, <2>1
  <2>3. p = [f \in Fields |-> p[f]] /\ p.instret \in Nat /\ p.pc \in 1..Len(p.code) /\ Len(p.code) \in Nat
    BY MachineClocked, MachineCode, Zenon DEF Clocked, MayRun
  <2>4. p.instret + (1 - 1) = p.instret /\ p.pc + 1 - 1 = p.pc
    BY <2>3
  <2>5. b.va[1] = p.alias /\ b.va[2] = p.pc
    BY DEF MayRun
  <2>6. AtInsn(p, b, 1) = p
    BY <2>3, <2>4, <2>5, Zenon DEF AtInsn, Fields
  <2> QED BY <2>2, <2>3, <2>4, <2>6 DEF Fields
<1> HIDE DEF run, done, s
<1>10. ASSUME NEW r0, Starts(r0, p) PROVE Follows(p, b, r0, s) /\ "on" \in DOMAIN dc
  BY <1>6, <1>10 DEF Starts, s
<1> QED BY <1>8, <1>9, <1>10, Zenon DEF run, done

-----------------------------------------------------------------------------
(* The inductive invariant. *)

\* Decode cache c: a live slot holds what its cell has held since the last fence.
DcOK(c, sn) ==
    /\ DOMAIN c = {"on", "gen", "slots"} /\ c.on \in BOOLEAN /\ c.gen \in Nat
    /\ DOMAIN c.slots = 0..DcSlots - 1
    /\ \A s \in 0..DcSlots - 1 :
          /\ c.slots[s].gen \in Nat /\ c.slots[s].gen <= c.gen
          /\ c.on /\ c.slots[s].gen = c.gen /\ c.slots[s].pa \in DOMAIN sn
                => c.slots[s].insn \in sn[c.slots[s].pa]

\* Entry w of translator j leads to a block.
Live(j, w) == j.table[w].gen = j.gen /\ j.table[w].fn # 0

\* The block of entry e in arena a is code, before the last cell, that its
\* cells have held since the last fence.
Compiled(e, a, sn) ==
    LET b == a[e.fn]
    IN  /\ b.insns = [k \in 1..e.ninsn |-> b.insns[k]]
        /\ b.va = e.va /\ e.va[1] \in {0, 1} /\ e.va[2] = e.pa /\ e.pa \in Nat \ {0}
        /\ \A k \in 1..e.ninsn :
              /\ Translatable(b.insns[k]) /\ {e.pa + (k - 1), e.pa + k} \subseteq DOMAIN sn
              /\ b.insns[k] \in sn[e.pa + (k - 1)]

\* The blocks of entries v and w do not overlap.
Apart(v, w) == v.fn + v.ninsn <= w.fn \/ w.fn + w.ninsn <= v.fn

JitOK(j, sn) ==
    /\ DOMAIN j = {"on", "gen", "used", "victim", "arena", "table"}
    /\ j.on \in BOOLEAN /\ j.gen \in Nat /\ j.used \in 0..Arena /\ j.victim \in Nat
    /\ DOMAIN j.arena = 1..Arena /\ DOMAIN j.table = 1..Ways
    /\ \A w \in 1..Ways : j.table[w].gen \in Nat /\ j.table[w].gen <= j.gen
    /\ \A w \in 1..Ways : Live(j, w) =>
          LET e == j.table[w]
          IN  /\ e.fn \in Nat \ {0} /\ e.ninsn \in Nat \ {0} /\ e.fn + e.ninsn <= j.used + 1
              /\ j.on => Compiled(e, j.arena, sn)
    /\ \A v, w \in 1..Ways : Live(j, v) /\ Live(j, w) /\ v # w => Apart(j.table[v], j.table[w])

\* What each cell of m's program has held.
SinceOK(m, sn) ==
    /\ DOMAIN sn = DOMAIN m.code /\ sn[Len(m.code)] = {"ret"}
    /\ \A c \in DOMAIN sn : m.code[c] \in sn[c]

Inv ==
    /\ IsMachine(vm) /\ (vm.halted => vm.stopped) /\ left \in Nat /\ odd \in BOOLEAN
    /\ SinceOK(vm, since) /\ DcOK(dc, since) /\ JitOK(jit, since)
    /\ ~odd => IsMachine(ref) /\ Agree(vm, ref)

-----------------------------------------------------------------------------
(* What the caches hold. *)

\* Every cell has held in tn what it has held in sn.
Grows(sn, tn) == DOMAIN tn = DOMAIN sn /\ \A c \in DOMAIN sn : sn[c] \subseteq tn[c]

LEMMA DcGrows == ASSUME NEW c, NEW sn, NEW tn, DcOK(c, sn), Grows(sn, tn) PROVE DcOK(c, tn)
BY DEF DcOK, Grows

\* A flushed cache, or one that is off, holds nothing that counts.
LEMMA DcFlushed ==
    ASSUME NEW c, NEW sn, NEW tn, DcOK(c, sn)
    PROVE  /\ DcOK(DcacheFlush(c), tn) /\ (~c.on => DcOK(c, tn))
           /\ \A on \in BOOLEAN : DcOK(AttachDcaches(c, on), tn)
<1>1. DcOK(DcacheFlush(c), tn) /\ (~c.on => DcOK(c, tn))
  BY DEF DcOK, DcacheFlush
<1>2. DcOK([DcacheFlush(c) EXCEPT !.on = TRUE], tn)
  BY DEF DcOK, DcacheFlush
<1>3. DcOK([c EXCEPT !.on = FALSE], tn)
  BY DEF DcOK
<1> QED BY <1>1, <1>2, <1>3 DEF AttachDcaches

\* A fetch gives, and a fill keeps, an instruction the cell has held.
LEMMA DcFetched ==
    ASSUME NEW c, NEW sn, DcOK(c, sn), NEW m, IsMachine(m), SinceOK(m, sn)
    PROVE  DcFetch(c, m) \in sn[m.pc] /\ DcOK(DcFill(c, m), sn)
<1>1. m.pc \in Nat /\ m.pc \in DOMAIN sn /\ m.code[m.pc] \in sn[m.pc]
  BY MachineCode DEF SinceOK
<1>2. DcIndex(m.pc) \in 0..DcSlots - 1
  BY <1>1, SizeAssumption DEF DcIndex
<1>3. DcFetch(c, m) \in sn[m.pc]
  BY <1>1, <1>2 DEF DcFetch, DcHit, DcOK
<1>4. DcOK(DcFill(c, m), sn)
  BY <1>1, <1>2 DEF DcFill, DcOK
<1> QED BY <1>3, <1>4

LEMMA JitGrows ==
    ASSUME NEW j, NEW sn, NEW tn, JitOK(j, sn), Grows(sn, tn)
    PROVE  JitOK(j, tn)
<1>1. ASSUME NEW w \in 1..Ways, Compiled(j.table[w], j.arena, sn), j.table[w].ninsn \in Nat
      PROVE  Compiled(j.table[w], j.arena, tn)
  <2> DEFINE e == j.table[w]
  <2>1. ASSUME NEW k \in 1..e.ninsn
        PROVE  /\ {e.pa + (k - 1), e.pa + k} \subseteq DOMAIN tn
               /\ j.arena[e.fn].insns[k] \in tn[e.pa + (k - 1)]
    <3>1. {e.pa + (k - 1), e.pa + k} \subseteq DOMAIN sn /\ j.arena[e.fn].insns[k] \in sn[e.pa + (k - 1)]
      BY <1>1, <2>1, Zenon DEF Compiled
    <3> QED BY <3>1 DEF Grows
  <2> QED BY <1>1, <2>1, Zenon DEF Compiled
<1> QED BY <1>1 DEF JitOK

\* A flushed translator has no live entry.
LEMMA JitFlushed ==
    ASSUME NEW j, NEW sn, NEW tn, JitOK(j, sn)
    PROVE  /\ JitOK(JitFlush(j), tn) /\ (~j.on => JitOK(j, tn))
           /\ \A on \in BOOLEAN : JitOK(AttachJit(j, on), tn)
<1>1. ASSUME NEW n, DOMAIN n = DOMAIN j, n.on \in BOOLEAN, n.gen = j.gen + 1, n.used = 0,
             n.victim = j.victim, n.arena = j.arena, n.table = j.table
      PROVE  JitOK(n, tn)
  <2>1. \A w \in 1..Ways : ~Live(n, w)
    BY <1>1 DEF JitOK, Live
  <2>2. n.used \in 0..Arena
    BY <1>1, SizeAssumption
  <2> QED BY <1>1, <2>1, <2>2 DEF JitOK
<1> DEFINE f == JitFlush(j)
<1>2. /\ DOMAIN f = DOMAIN j /\ f.on = j.on /\ f.gen = j.gen + 1 /\ f.used = 0
      /\ f.victim = j.victim /\ f.arena = j.arena /\ f.table = j.table /\ j.on \in BOOLEAN
      /\ DOMAIN j = {"on", "gen", "used", "victim", "arena", "table"}
  BY DEF JitOK, JitFlush
<1> HIDE DEF f
<1>3. ~j.on => JitOK(j, tn)
  BY DEF JitOK
<1>4. ASSUME NEW on \in BOOLEAN PROVE JitOK([f EXCEPT !.on = on], tn)
  BY <1>1, <1>2
<1>5. JitOK(f, tn)
  BY <1>1, <1>2
<1> QED BY <1>3, <1>4, <1>5 DEF AttachJit, f

-----------------------------------------------------------------------------
(* translate. *)

LEMMA GreatestOf ==
    ASSUME NEW b \in Nat, NEW V \in SUBSET (0..b), V # {}
    PROVE  \E x \in V : \A y \in V : y <= x
<1> DEFINE W == {b - x : x \in V}
<1>1. W \in SUBSET Nat /\ W # {}
  <2>1. \A x \in 0..b : b - x \in Nat
    OBVIOUS
  <2>2. PICK x : x \in V
    OBVIOUS
  <2>3. b - x \in W
    BY <2>2
  <2> QED BY <2>1, <2>3
<1>2. PICK w \in W : \A y \in W : w <= y
  <2> HIDE DEF W
  <2> QED BY <1>1, LeastOf
<1>3. PICK x \in V : w = b - x
  BY <1>2
<1>4. ASSUME NEW y \in V PROVE y <= x
  <2>1. b - y \in W /\ y \in Int /\ x \in Int
    OBVIOUS
  <2>2. w <= b - y
    BY <1>2, <2>1
  <2> QED BY <1>3, <2>1, <2>2
<1> QED BY <1>4

\* n instructions from m's pc on can be a block: the last cell is not of them.
Fits(m, n) ==
    /\ n \in Nat /\ n <= MaxInsns /\ m.pc + n <= Len(m.code)
    /\ \A k \in 1..n : Translatable(m.code[m.pc + (k - 1)])

LEMMA BlockFits == ASSUME NEW m, IsMachine(m) PROVE Fits(m, BlockLen(m))
<1> DEFINE end == IF m.pc <= PageEnd THEN PageEnd ELSE Len(m.code)
           Good(n) == /\ n <= MaxInsns /\ m.pc + n - 1 <= end
                      /\ \A k \in 0..n - 1 : Translatable(m.code[m.pc + k])
                      /\ \A k \in 0..n - 2 : m.code[m.pc + k] \notin Jumps
           fits == {n \in 0..Len(m.code) : Good(n)}
<1>1. /\ Len(m.code) \in Nat /\ m.pc \in 1..Len(m.code) /\ Len(m.code) > PageEnd
      /\ m.code[Len(m.code)] = "ret"
  <2>1. Len(m.code) > PageEnd
    BY Zenon DEF IsMachine
  <2> QED BY <2>1, MachineCode
<1>2. PageEnd \in Nat /\ MaxInsns \in Nat
  BY SizeAssumption
<1>3. 0 \in fits
  <2>1. 0 <= MaxInsns /\ m.pc + 0 - 1 <= end
    BY <1>1, <1>2
  <2>2. 0..0 - 1 = {} /\ 0..0 - 2 = {} /\ 0 \in 0..Len(m.code)
    BY <1>1
  <2> QED BY <2>1, <2>2
<1>4. BlockLen(m) = CHOOSE n \in fits : \A o \in fits : o <= n
  BY DEF BlockLen
<1>5. BlockLen(m) \in fits
  <2>1. fits \in SUBSET (0..Len(m.code)) /\ fits # {}
    BY <1>3
  <2> HIDE DEF fits
  <2>2. \E x \in fits : \A y \in fits : y <= x
    BY <1>1, <2>1, GreatestOf, Zenon
  <2> QED BY <1>4, <2>2
<1> DEFINE n == BlockLen(m)
<1>6. n \in Nat /\ Good(n)
  BY <1>1, <1>5
<1> HIDE DEF n
<1>7. \A k \in 1..n : Translatable(m.code[m.pc + (k - 1)])
  <2>1. \A k \in 1..n : k - 1 \in 0..n - 1
    BY <1>6
  <2> QED BY <1>6, <2>1
<1>8. m.pc + n <= Len(m.code)
  <2>0. m.pc + (n - 1) <= end
    BY <1>6
  <2>1. SUFFICES ASSUME m.pc + (n - 1) = Len(m.code) PROVE FALSE
    <3>1. end \in Nat /\ end <= Len(m.code)
      BY <1>1, <1>2
    <3> HIDE DEF end
    <3> QED BY <1>1, <1>6, <2>0, <3>1
  <2>2. n - 1 \in 0..n - 1
    BY <1>1, <1>6, <2>1
  <2>3. Translatable("ret")
    BY <1>1, <1>6, <2>1, <2>2
  <2> QED BY <2>3 DEF Translatable, Alu, Ram, Device, Jumps
<1> QED BY <1>6, <1>7, <1>8 DEF Fits, n

\* Entry w of j is the current PC's.
Mine(j, w, m) ==
    LET e == j.table[w] IN e.gen = j.gen /\ e.pa = m.pc /\ e.va = <<m.alias, m.pc>>

LEMMA VictimIs ==
    ASSUME NEW j, NEW sn, JitOK(j, sn)
    PROVE  LET v == Victim(j) IN v.w \in 1..Ways /\ JitOK(v.j, sn) /\ v.j.on = j.on
<1> DEFINE dead == {w \in 1..Ways : j.table[w].gen # j.gen}
<1>1. Ways \in Nat \ {0} /\ j.victim \in Nat
  BY SizeAssumption DEF JitOK
<1>2. CASE dead # {}
  <2>1. dead \in SUBSET Nat /\ dead \in SUBSET (1..Ways)
    BY <1>1
  <2>2. Victim(j) = [w |-> CHOOSE w \in dead : \A v \in dead : w <= v, j |-> j]
    BY <1>2 DEF Victim
  <2> HIDE DEF dead
  <2>3. \E x \in dead : \A y \in dead : x <= y
    BY <1>2, <2>1, LeastOf
  <2> DEFINE c == CHOOSE w \in dead : \A v \in dead : w <= v
  <2>4. c \in dead
    BY <2>3
  <2>5. Victim(j).w = c /\ Victim(j).j = j
    BY <2>2
  <2> HIDE DEF c
  <2> QED BY <2>1, <2>4, <2>5
<1>3. CASE dead = {}
  <2> DEFINE o == [j EXCEPT !.victim = (@ + 1) % Ways]
  <2>1. Victim(j) = [w |-> (j.victim % Ways) + 1, j |-> o]
    BY <1>3 DEF Victim
  <2>2. (j.victim % Ways) + 1 \in 1..Ways /\ (j.victim + 1) % Ways \in Nat
    BY <1>1
  <2>3. /\ DOMAIN o = DOMAIN j /\ o.on = j.on /\ o.gen = j.gen /\ o.used = j.used
        /\ o.victim \in Nat /\ o.arena = j.arena /\ o.table = j.table
    BY <2>2 DEF JitOK
  <2> HIDE DEF o
  <2>4. JitOK(o, sn)
    BY <2>3 DEF JitOK, Live
  <2> QED BY <2>1, <2>2, <2>3, <2>4
<1> QED BY <1>2, <1>3

LEMMA Cut ==
    ASSUME NEW s \in Seq(Insns), NEW p \in 1..Len(s), NEW n \in Nat, p + n <= Len(s),
           NEW c, c = SubSeq(s, p, p + n - 1)
    PROVE  c = [k \in 1..n |-> c[k]] /\ \A k \in 1..n : c[k] = s[p + (k - 1)]
<1> DEFINE q == p + (n - 1)
<1>1. Len(s) \in Nat /\ q \in Int /\ q <= Len(s) /\ q - p + 1 = n
  OBVIOUS
<1>2. c \in Seq(Insns) /\ Len(c) = n
  BY <1>1
<1>3. \A k \in 1..n : c[k] = s[p + (k - 1)]
  BY <1>1
<1> QED BY <1>2, <1>3

\* The entry and the block translate makes of n instructions, and where they go.
IsEntry(e, fn, gen, m, n) ==
    e.gen = gen /\ e.pa = m.pc /\ e.va = <<m.alias, m.pc>> /\ e.fn = fn /\ e.ninsn = n
IsCut(b, m, n) == b.va = <<m.alias, m.pc>> /\ b.insns = SubSeq(m.code, m.pc, m.pc + n - 1)
Put(j, w, e, b, n) ==
    [j EXCEPT !.table[w] = e, !.arena = [@ EXCEPT ![j.used + 1] = b], !.used = @ + n]

LEMMA CutCompiled ==
    ASSUME NEW sn, NEW m, IsMachine(m), SinceOK(m, sn), NEW n, Fits(m, n),
           NEW b, IsCut(b, m, n), NEW e, NEW fn, NEW gen, IsEntry(e, fn, gen, m, n),
           NEW a, a[fn] = b
    PROVE  Compiled(e, a, sn)
<1>1. /\ m.code \in Seq(Insns) /\ Len(m.code) \in Nat /\ m.pc \in 1..Len(m.code)
      /\ m.alias \in {0, 1} /\ DOMAIN m.code = 1..Len(m.code)
  BY MachineCode, Zenon DEF IsMachine
<1>2. /\ n \in Nat /\ m.pc + n <= Len(m.code)
      /\ \A k \in 1..n : Translatable(m.code[m.pc + (k - 1)])
  BY Zenon DEF Fits
<1>3. /\ b.insns = [k \in 1..n |-> b.insns[k]]
      /\ \A k \in 1..n : b.insns[k] = m.code[m.pc + (k - 1)]
  <2>1. b.insns = SubSeq(m.code, m.pc, m.pc + n - 1)
    BY DEF IsCut
  <2> DEFINE s == m.code  p == m.pc  c == b.insns
  <2>2. n \in Nat /\ s \in Seq(Insns) /\ p \in 1..Len(s) /\ p + n <= Len(s)
    BY <1>1, <1>2, Zenon
  <2>3. c = SubSeq(s, p, p + n - 1)
    BY <2>1, Zenon
  <2>4. c = [k \in 1..n |-> c[k]] /\ \A k \in 1..n : c[k] = s[p + (k - 1)]
    <3> HIDE DEF s, p, c
    <3> QED BY <2>2, <2>3, Cut
  <2> QED BY <2>4, Zenon
<1>4. ASSUME NEW k \in 1..n
      PROVE  /\ Translatable(b.insns[k]) /\ {m.pc + (k - 1), m.pc + k} \subseteq DOMAIN sn
             /\ b.insns[k] \in sn[m.pc + (k - 1)]
  <2>1. m.pc + (k - 1) \in 1..Len(m.code) /\ m.pc + k \in 1..Len(m.code)
    BY <1>1, <1>2
  <2>2. {m.pc + (k - 1), m.pc + k} \subseteq DOMAIN sn /\ m.code[m.pc + (k - 1)] \in sn[m.pc + (k - 1)]
    BY <1>1, <2>1 DEF SinceOK
  <2> QED BY <1>2, <1>3, <2>2
<1>5. /\ b.va = e.va /\ e.va[1] \in {0, 1} /\ e.va[2] = e.pa /\ e.pa \in Nat \ {0}
      /\ e.pa = m.pc /\ e.ninsn = n /\ a[e.fn] = b
  BY <1>1 DEF IsCut, IsEntry
<1> QED BY <1>3, <1>4, <1>5, Zenon DEF Compiled

\* A block put behind the cursor overlaps no other and holds what memory holds.
LEMMA Placed ==
    ASSUME NEW j, NEW sn, JitOK(j, sn), NEW m, IsMachine(m), SinceOK(m, sn), NEW w \in 1..Ways,
           NEW n, Fits(m, n), n > 0, j.used + n <= Arena, NEW b, IsCut(b, m, n),
           NEW e, IsEntry(e, j.used + 1, j.gen, m, n),
           NEW t, t = Put(j, w, e, b, n)
    PROVE  JitOK(t, sn) /\ t.on = j.on /\ Mine(t, w, m)
<1>0. PICK f : f = j.used + 1
  OBVIOUS
<1>1. /\ n \in Nat \ {0} /\ j.used \in Nat /\ Arena \in Nat /\ f \in 1..Arena /\ j.gen \in Nat
      /\ DOMAIN j = {"on", "gen", "used", "victim", "arena", "table"} /\ j.victim \in Nat
      /\ DOMAIN j.arena = 1..Arena /\ DOMAIN j.table = 1..Ways /\ j.on \in BOOLEAN
  BY <1>0, SizeAssumption DEF JitOK, Fits
<1>2. /\ DOMAIN t = DOMAIN j /\ t.on = j.on /\ t.gen = j.gen /\ t.victim = j.victim
      /\ t.used = j.used + n /\ t.used \in 0..Arena
      /\ DOMAIN t.table = 1..Ways /\ DOMAIN t.arena = 1..Arena
      /\ t.table[w] = e /\ (\A v \in 1..Ways : v # w => t.table[v] = j.table[v])
      /\ t.arena[f] = b /\ (\A o \in 1..Arena : o # f => t.arena[o] = j.arena[o])
  <2>1. /\ DOMAIN t = DOMAIN j /\ t.on = j.on /\ t.gen = j.gen /\ t.victim = j.victim
        /\ t.used = j.used + n /\ t.table = [j.table EXCEPT ![w] = e]
        /\ t.arena = [j.arena EXCEPT ![f] = b]
    BY <1>0, <1>1 DEF Put
  <2>2. j.used + n \in 0..Arena
    BY <1>1
  <2> QED BY <1>1, <2>1, <2>2, Zenon
<1>3. e.gen = j.gen /\ e.pa = m.pc /\ e.va = <<m.alias, m.pc>> /\ e.fn = f /\ e.ninsn = n
  BY <1>0, Zenon DEF IsEntry
<1>4. Mine(t, w, m)
  BY <1>2, <1>3, Zenon DEF Mine
<1>5. Compiled(e, t.arena, sn)
  BY <1>0, <1>2, CutCompiled, Zenon
<1>6. ASSUME NEW v \in 1..Ways, v # w, Live(t, v)
      PROVE  /\ Live(j, v) /\ t.table[v] = j.table[v] /\ t.table[v].fn \in Nat \ {0}
             /\ t.table[v].ninsn \in Nat \ {0} /\ t.table[v].fn + t.table[v].ninsn <= f
             /\ t.on => Compiled(t.table[v], t.arena, sn)
  <2>1. Live(j, v) /\ t.table[v] = j.table[v]
    BY <1>2, <1>6 DEF Live
  <2> DEFINE d == j.table[v]
  <2>2. /\ d.fn \in Nat \ {0} /\ d.ninsn \in Nat \ {0} /\ d.fn + d.ninsn <= f
        /\ j.on => Compiled(d, j.arena, sn)
    BY <1>0, <2>1 DEF JitOK
  <2>3. d.fn \in 1..Arena /\ d.fn # f
    BY <1>1, <2>2
  <2>4. t.arena[d.fn] = j.arena[d.fn]
    BY <1>2, <2>3
  <2>5. j.on => Compiled(d, t.arena, sn)
    BY <2>2, <2>4, Zenon DEF Compiled
  <2> QED BY <1>2, <2>1, <2>2, <2>5
<1>7. \A v \in 1..Ways : t.table[v].gen \in Nat /\ t.table[v].gen <= t.gen
  <2>1. \A v \in 1..Ways : j.table[v].gen \in Nat /\ j.table[v].gen <= j.gen
    BY Zenon DEF JitOK
  <2>2. e.gen \in Nat /\ e.gen <= j.gen
    BY <1>1, <1>3
  <2> QED BY <1>2, <2>1, <2>2, Zenon
<1>8. ASSUME NEW v \in 1..Ways, Live(t, v)
      PROVE  /\ t.table[v].fn \in Nat \ {0} /\ t.table[v].ninsn \in Nat \ {0}
             /\ t.table[v].fn + t.table[v].ninsn <= t.used + 1
             /\ t.on => Compiled(t.table[v], t.arena, sn)
  <2>1. CASE v = w
    <3>1. f \in Nat \ {0} /\ f + n <= t.used + 1
      BY <1>0, <1>1, <1>2
    <3> QED BY <1>1, <1>2, <1>3, <1>5, <2>1, <3>1, Zenon
  <2>2. CASE v # w
    <3>1. \A x \in Nat : x <= f => x <= t.used + 1
      BY <1>0, <1>1, <1>2
    <3>2. t.table[v].fn + t.table[v].ninsn \in Nat
      BY <1>6, <1>8, <2>2
    <3> QED BY <1>6, <1>8, <2>2, <3>1, <3>2, Zenon
  <2> QED BY <2>1, <2>2, Zenon
<1>9. ASSUME NEW u \in 1..Ways, NEW v \in 1..Ways, Live(t, u), Live(t, v), u # v
      PROVE  Apart(t.table[u], t.table[v])
  <2>1. CASE u = w
    BY <1>2, <1>3, <1>6, <1>9, <2>1, Zenon DEF Apart
  <2>2. CASE v = w
    BY <1>2, <1>3, <1>6, <1>9, <2>2 DEF Apart
  <2>3. CASE u # w /\ v # w
    BY <1>6, <1>9, <2>3, Zenon DEF JitOK
  <2> QED BY <2>1, <2>2, <2>3
<1>10. JitOK(t, sn)
  BY <1>1, <1>2, <1>7, <1>8, <1>9, Zenon DEF JitOK
<1> QED BY <1>2, <1>4, <1>10

LEMMA TranslateIs ==
    ASSUME NEW j, NEW sn, JitOK(j, sn), NEW m, IsMachine(m), SinceOK(m, sn), NEW w \in 1..Ways
    PROVE  LET t == Translate(j, m, w) IN JitOK(t, sn) /\ t.on = j.on /\ Mine(t, w, m)
<1> DEFINE n == BlockLen(m)
           room == IF j.used + n > Arena THEN JitFlush(j) ELSE j
           t == Translate(j, m, w)
<1>1. Fits(m, n) /\ n \in Nat
  BY BlockFits DEF Fits
<1> HIDE DEF n
<1>2. CASE n = 0
  <2> DEFINE e == [gen |-> j.gen, pa |-> m.pc, va |-> <<m.alias, m.pc>>, fn |-> 0, ninsn |-> n]
  <2>1. t = [j EXCEPT !.table[w] = e]
    BY <1>2 DEF Translate, n
  <2>2. e.gen = j.gen /\ e.pa = m.pc /\ e.va = <<m.alias, m.pc>> /\ e.fn = 0
    OBVIOUS
  <2> HIDE DEF e, t
  <2>3. /\ DOMAIN t = DOMAIN j /\ t.on = j.on /\ t.gen = j.gen /\ t.victim = j.victim
        /\ t.used = j.used /\ t.arena = j.arena /\ DOMAIN t.table = 1..Ways
        /\ t.table[w] = e /\ \A v \in 1..Ways : v # w => t.table[v] = j.table[v]
    BY <2>1, Zenon DEF JitOK
  <2>4. \A v \in 1..Ways : Live(t, v) => v # w /\ Live(j, v)
    BY <2>2, <2>3 DEF Live
  <2>5. \A v \in 1..Ways : t.table[v].gen \in Nat /\ t.table[v].gen <= t.gen
    BY <2>2, <2>3 DEF JitOK
  <2>6. JitOK(t, sn)
    BY <2>3, <2>4, <2>5 DEF JitOK
  <2> QED BY <2>2, <2>3, <2>6 DEF Mine, t
<1>3. CASE n # 0
  <2>1. JitOK(room, sn) /\ room.on = j.on /\ room.used + n <= Arena
    <3>1. CASE j.used + n > Arena
      <4>1. JitOK(JitFlush(j), sn)
        BY JitFlushed
      <4>2. JitFlush(j).used = 0 /\ JitFlush(j).on = j.on
        BY DEF JitFlush, JitOK
      <4> QED BY <1>1, <3>1, <4>1, <4>2, SizeAssumption DEF Fits
    <3>2. CASE ~(j.used + n > Arena)
      <4>1. room = j
        BY <3>2, Zenon
      <4>2. j.used \in 0..Arena /\ Arena \in Nat
        BY SizeAssumption, Zenon DEF JitOK
      <4>3. j.used + n <= Arena
        BY <1>1, <3>2, <4>2
      <4> HIDE DEF room
      <4> QED BY <4>1, <4>3, Zenon
    <3> QED BY <3>1, <3>2
  <2> DEFINE b == [va |-> <<m.alias, m.pc>>, insns |-> SubSeq(m.code, m.pc, m.pc + n - 1)]
             e == [gen |-> room.gen, pa |-> m.pc, va |-> <<m.alias, m.pc>>, fn |-> room.used + 1,
                   ninsn |-> n]
  <2>2. t = Put(room, w, e, b, n)
    BY <1>3 DEF Translate, n, Put
  <2>3. n > 0
    BY <1>1, <1>3
  <2>4. IsCut(b, m, n) /\ IsEntry(e, room.used + 1, room.gen, m, n)
    BY Zenon DEF IsCut, IsEntry
  <2> HIDE DEF room, t, b, e
  <2>5. JitOK(t, sn) /\ t.on = room.on /\ Mine(t, w, m)
    BY <1>1, <2>1, <2>2, <2>3, <2>4, Placed
  <2> QED BY <2>1, <2>5 DEF t
<1> QED BY <1>2, <1>3 DEF n

-----------------------------------------------------------------------------
(* The dispatcher. *)

\* m has begun its step, and no interrupt took it.
Began(m, sn) ==
    /\ IsMachine(m) /\ ~m.poweroff /\ ~m.halted /\ ~m.stopped /\ Open(m) = {}
    /\ SinceOK(m, sn)

\* d is the result of running block b, of instructions its cells have held.
RanBlock(d, m, b, sn) ==
    /\ MayRun(m, b) /\ d.m = RunBlock(m, b).m /\ d.steps = RunBlock(m, b).steps
    /\ d.steps \in 1..Len(b.insns)
    /\ d.ran = [k \in 1..d.steps |-> <<m.pc + k - 1, b.insns[k]>>]
    /\ \A k \in 1..Len(b.insns) : b.insns[k] \in sn[m.pc + (k - 1)]

\* The dispatcher's result d: the machine as it was, or a block run within the limit.
Dispatched(d, m, cap, sn) ==
    /\ JitOK(d.j, sn) /\ d.j.on
    /\ \/ d.steps = 0 /\ d.m = m
       \/ d.steps <= cap /\ \E b : RanBlock(d, m, b, sn)

\* The block of a live entry of the current PC may run.
LEMMA EntryRuns ==
    ASSUME NEW j, NEW sn, JitOK(j, sn), j.on, NEW w \in 1..Ways, NEW m, Mine(j, w, m),
           Began(m, sn), NEW cap \in Nat, Runnable(j.table[w], m, cap)
    PROVE  LET b == j.arena[j.table[w].fn]
           IN  /\ MayRun(m, b) /\ Len(b.insns) <= cap
               /\ \A k \in 1..Len(b.insns) : b.insns[k] \in sn[m.pc + (k - 1)]
<1> DEFINE e == j.table[w]
           b == j.arena[e.fn]
<1>1. e.pa = m.pc /\ e.va = <<m.alias, m.pc>> /\ Live(j, w)
  BY Zenon DEF Mine, Runnable, Live
<1>2. e.ninsn \in Nat \ {0} /\ Compiled(e, j.arena, sn)
  BY <1>1 DEF JitOK
<1>3. /\ b.insns = [k \in 1..e.ninsn |-> b.insns[k]] /\ b.va = e.va
      /\ \A k \in 1..e.ninsn : /\ Translatable(b.insns[k]) /\ m.pc + k \in DOMAIN sn
                               /\ b.insns[k] \in sn[m.pc + (k - 1)]
  BY <1>1, <1>2, Zenon DEF Compiled
<1>4. e.ninsn <= cap /\ e.ninsn <= CpuInterruptHorizon(m)
  BY Zenon DEF Runnable
<1>5. IsMachine(m) /\ DOMAIN sn = 1..Len(m.code) /\ Len(m.code) \in Nat
      /\ m.pc \in 1..Len(m.code) /\ m.alias \in {0, 1}
  BY MachineCode, Zenon DEF Began, SinceOK
<1> HIDE DEF e, b
<1>6. Len(b.insns) = e.ninsn
  BY <1>2, <1>3
<1>7. b.va[1] = m.alias /\ b.va[2] = m.pc /\ m.pc \in Nat \ {0}
  BY <1>1, <1>3, <1>5
<1>8. m.pc + e.ninsn <= Len(m.code)
  <2>1. e.ninsn \in 1..e.ninsn
    BY <1>2
  <2>2. m.pc + e.ninsn \in 1..Len(m.code)
    BY <1>3, <1>5, <2>1, Zenon
  <2> QED BY <2>2
<1>9. IsBlock(b, m)
  BY <1>2, <1>3, <1>5, <1>6, <1>7, <1>8, Zenon DEF IsBlock
<1>10. MayRun(m, b)
  BY <1>4, <1>6, <1>7, <1>9 DEF MayRun, Began
<1> QED BY <1>3, <1>4, <1>6, <1>10, Zenon DEF b, e

LEMMA EnterIs ==
    ASSUME NEW j, NEW sn, JitOK(j, sn), j.on, NEW w \in 1..Ways, NEW m, Mine(j, w, m),
           Began(m, sn), NEW cap \in Nat
    PROVE  Dispatched(EnterBlock(j, w, m, cap), m, cap, sn)
<1> DEFINE d == EnterBlock(j, w, m, cap)
<1>1. CASE ~Runnable(j.table[w], m, cap)
  <2>1. d = [m |-> m, j |-> j, steps |-> 0, ran |-> <<>>]
    BY <1>1 DEF EnterBlock
  <2> QED BY <2>1 DEF Dispatched
<1>2. CASE Runnable(j.table[w], m, cap)
  <2> DEFINE b == j.arena[j.table[w].fn]
             run == RunBlock(m, b)
  <2>1. /\ d.m = run.m /\ d.j = j /\ d.steps = run.steps
        /\ d.ran = [k \in 1..run.steps |-> <<m.pc + k - 1, b.insns[k]>>]
    BY <1>2, Zenon DEF EnterBlock
  <2>2. /\ MayRun(m, b) /\ Len(b.insns) <= cap
        /\ \A k \in 1..Len(b.insns) : b.insns[k] \in sn[m.pc + (k - 1)]
    BY <1>2, EntryRuns, Zenon
  <2>3. run.steps \in 0..Len(b.insns) /\ (run.steps = 0 => run.m = m)
    BY <2>2, BlockRuns, Zenon
  <2>4. Len(b.insns) \in Nat
    BY <2>2, Zenon DEF MayRun, IsBlock
  <2> HIDE DEF d, b
  <2>5. run.steps = 0 \/ (run.steps \in 1..Len(b.insns) /\ run.steps <= cap)
    BY <2>2, <2>3, <2>4
  <2> HIDE DEF run
  <2>6. CASE run.steps = 0
    BY <2>1, <2>3, <2>6 DEF Dispatched, d
  <2>7. CASE run.steps \in 1..Len(b.insns) /\ run.steps <= cap
    <3>1. RanBlock(d, m, b, sn)
      BY <2>1, <2>2, <2>7 DEF RanBlock, run
    <3> QED BY <2>1, <2>7, <3>1 DEF Dispatched, d
  <2> QED BY <2>5, <2>6, <2>7
<1> QED BY <1>1, <1>2

LEMMA DispatchIs ==
    ASSUME NEW j, NEW sn, JitOK(j, sn), j.on, NEW m, Began(m, sn), NEW cap \in Nat
    PROVE  Dispatched(Dispatch(j, m, cap), m, cap, sn)
<1> DEFINE hit == Lookup(j, m)
           vic == Victim(j)
<1>1. CASE hit # {}
  <2>1. The(hit) \in hit
    BY <1>1 DEF The
  <2>2. The(hit) \in 1..Ways /\ Mine(j, The(hit), m)
    BY <2>1, Zenon DEF Lookup, Mine
  <2>3. Dispatch(j, m, cap) = EnterBlock(j, The(hit), m, cap)
    BY <1>1 DEF Dispatch
  <2> QED BY <2>2, <2>3, EnterIs, Zenon
<1>2. CASE hit = {}
  <2> DEFINE t == Translate(vic.j, m, vic.w)
  <2>1. vic.w \in 1..Ways /\ JitOK(vic.j, sn) /\ vic.j.on = j.on
    BY VictimIs, Zenon
  <2>2. IsMachine(m) /\ SinceOK(m, sn)
    BY Zenon DEF Began
  <2>3. Dispatch(j, m, cap) = EnterBlock(t, vic.w, m, cap)
    BY <1>2 DEF Dispatch
  <2> HIDE DEF vic
  <2>4. JitOK(t, sn) /\ t.on = vic.j.on /\ Mine(t, vic.w, m)
    BY <2>1, <2>2, TranslateIs, Zenon
  <2> HIDE DEF t
  <2>5. t.on
    BY <2>1, <2>4
  <2> QED BY <2>1, <2>3, <2>4, <2>5, EnterIs, Zenon
<1> QED BY <1>1, <1>2

-----------------------------------------------------------------------------
(* A turn of the loop. *)

Fenced(t) == \E k \in DOMAIN t.ran : t.ran[k][2] = "fencei"

\* The reference machine, n steps on, is where done is.
Matched(done, n) == IsMachine(RefSteps(ref, n)) /\ Agree(MachinePollHalt(done), RefSteps(ref, n))

\* Turn t keeps what the invariant says.
Stepped(t) ==
    /\ t.used \in 1..left
    /\ IsMachine(Ended(t.m, t.used)) /\ Len(Ended(t.m, t.used).code) = Len(vm.code)
    /\ JitOK(t.j, since) /\ t.j.on = jit.on
    /\ \A tn : Grows(since, tn) \/ Fenced(t) => DcOK(t.dc, tn)
    /\ \A k \in DOMAIN t.ran : t.ran[k][2] \in since[t.ran[k][1]]
    /\ ~odd /\ ~RanOverwritten(t.ran) => Matched(Ended(t.m, t.used), t.used)

\* The reference machine one step on.
LEMMA RefStep ==
    ASSUME Inv, ~odd, ~vm.stopped
    PROVE  /\ IsMachine(ref) /\ ~ref.stopped /\ IsMachine(PlatTick(ref))
           /\ Agree(PlatTick(vm), PlatTick(ref))
           /\ RefSteps(ref, 1) = MachinePollHalt(PlainStep(PlatTick(ref)))
<1>1. IsMachine(vm) /\ IsMachine(ref) /\ Agree(vm, ref) /\ DcOK(dc, since)
  BY Zenon DEF Inv
<1>2. ~ref.stopped
  <2>1. "stopped" \in Fields \ {"stip", "armed"}
    BY DEF Fields
  <2> QED BY <1>1, <2>1, Zenon DEF Agree, SameBut
<1>3. RefSteps(ref, 1) = QuantaStep(ref)
  <2>1. 0 \in Nat /\ 0 + 1 = 1
    OBVIOUS
  <2>2. RefSteps(ref, 0) = ref /\ RefSteps(ref, 0 + 1) = QuantaStep(RefSteps(ref, 0))
    BY <2>1, RefStepsIs, Zenon
  <2> QED BY <2>1, <2>2
<1>4. "on" \in DOMAIN dc
  BY <1>1 DEF DcOK
<1> QED BY <1>1, <1>2, <1>3, <1>4, QuantaStepIs, TickIs, TickAgrees, Zenon

\* What is known of a turn's instructions when it had none, or one.
LEMMA RanNone == ASSUME NEW s, s = <<>> PROVE DOMAIN s = {}
OBVIOUS

LEMMA RanOne ==
    ASSUME NEW s, NEW p, NEW i, s = <<<<p, i>>>>
    PROVE  DOMAIN s = {1} /\ s[1][1] = p /\ s[1][2] = i
OBVIOUS

\* A turn of the interpreter, from the ticked machine or from that machine with
\* the timer bits already brought up to date.
LEMMA InterpreterTurn ==
    ASSUME Inv, left > 0, ~vm.stopped, NEW q, IsMachine(q), q.code = vm.code, Agree(q, PlatTick(vm)),
           NEW t, t.used = 1, JitOK(t.j, since), t.j.on = jit.on,
           t.m = CpuStep(q, dc).m, t.dc = CpuStep(q, dc).dc, t.ran = CpuStep(q, dc).ran
    PROVE  Stepped(t)
<1> DEFINE pre == CpuPreStep(q)
           i == DcFetch(dc, pre.m)
<1>1. IsMachine(vm) /\ SinceOK(vm, since) /\ DcOK(dc, since) /\ left \in Nat
  BY Zenon DEF Inv
<1>2. /\ IsMachine(pre.m) /\ pre.m.code = vm.code
  BY PreStepIs, Zenon
<1>3. SinceOK(pre.m, since)
  BY <1>1, <1>2, Zenon DEF SinceOK
<1>4. i \in since[pre.m.pc] /\ DcOK(DcFill(dc, pre.m), since)
  BY <1>1, <1>2, <1>3, DcFetched, Zenon
<1>5. t.used \in 1..left
  BY <1>1
<1>6. /\ pre.taken => t.m = pre.m /\ t.dc = dc /\ t.ran = <<>>
      /\ ~pre.taken => /\ t.m = Finish(pre.m, i) /\ t.ran = <<<<pre.m.pc, i>>>>
                       /\ t.dc = IF i = "fencei" /\ dc.on THEN DcacheFlush(DcFill(dc, pre.m))
                                 ELSE DcFill(dc, pre.m)
  BY CpuStepIs, Zenon
<1>0. /\ pre.taken => DOMAIN t.ran = {}
      /\ ~pre.taken => DOMAIN t.ran = {1} /\ t.ran[1][1] = pre.m.pc /\ t.ran[1][2] = i
  <2> HIDE DEF pre, i
  <2>1. ASSUME pre.taken PROVE DOMAIN t.ran = {}
    <3>1. t.ran = <<>>
      BY <1>6, <2>1, Zenon
    <3> QED BY <3>1, RanNone, Zenon
  <2>2. ASSUME ~pre.taken
        PROVE  DOMAIN t.ran = {1} /\ t.ran[1][1] = pre.m.pc /\ t.ran[1][2] = i
    <3>1. t.ran = <<<<pre.m.pc, i>>>>
      BY <1>6, <2>2, Zenon
    <3> QED BY <3>1, RanOne
  <2> QED BY <2>1, <2>2, Zenon
<1>7. IsMachine(t.m) /\ Len(t.m.code) = Len(vm.code)
  <2>1. CASE pre.taken
    BY <1>2, <1>6, <2>1, Zenon
  <2>2. CASE ~pre.taken
    <3>1. pre.m.pc = Len(pre.m.code) => i = "ret"
      BY <1>3, <1>4, Zenon DEF SinceOK
    <3> QED BY <1>2, <1>6, <2>2, <3>1, FinishType, Zenon
  <2> QED BY <2>1, <2>2
<1>8. Ended(t.m, t.used) = t.m
  <2>1. t.m = [f \in Fields |-> t.m[f]] /\ t.m.mtime \in Nat
    BY <1>7, MachineClocked, Zenon DEF Clocked
  <2>2. t.m.mtime + (1 - 1) = t.m.mtime
    BY <2>1
  <2> QED BY <2>1, <2>2 DEF Ended
<1>9. ASSUME NEW tn, Grows(since, tn) \/ Fenced(t) PROVE DcOK(t.dc, tn)
  <2>1. CASE pre.taken
    <3>1. ~Fenced(t) /\ t.dc = dc
      BY <1>0, <1>6, <2>1, Zenon DEF Fenced
    <3> QED BY <1>1, <1>9, <3>1, DcGrows
  <2>2. CASE ~pre.taken
    <3>1. Fenced(t) => i = "fencei"
      BY <1>0, <2>2, Zenon DEF Fenced
    <3>2. (DcFill(dc, pre.m)).on = dc.on
      BY <1>1 DEF DcFill, DcOK
    <3> DEFINE c == DcFill(dc, pre.m)
    <3>3. DcOK(DcacheFlush(c), tn) /\ (~c.on => DcOK(c, tn)) /\ (Grows(since, tn) => DcOK(c, tn))
      BY <1>4, DcFlushed, DcGrows, Zenon
    <3>4. t.dc = IF i = "fencei" /\ dc.on THEN DcacheFlush(c) ELSE c
      BY <1>6, <2>2, Zenon
    <3> HIDE DEF c, i
    <3> QED BY <1>9, <3>1, <3>2, <3>3, <3>4, Zenon DEF c
  <2> QED BY <2>1, <2>2
<1>10. ASSUME NEW k \in DOMAIN t.ran PROVE t.ran[k][2] \in since[t.ran[k][1]]
  <2>1. k = 1 /\ t.ran[1][1] = pre.m.pc /\ t.ran[1][2] = i
    BY <1>0, <1>10, Zenon
  <2> QED BY <1>4, <2>1, Zenon
<1>11. ASSUME ~odd, ~RanOverwritten(t.ran) PROVE Matched(t.m, 1)
  <2>1. /\ IsMachine(PlatTick(ref)) /\ Agree(PlatTick(vm), PlatTick(ref))
        /\ RefSteps(ref, 1) = MachinePollHalt(PlainStep(PlatTick(ref)))
    BY <1>11, RefStep
  <2>2. Agree(q, PlatTick(ref))
    BY <2>1, AgreeTrans, Zenon
  <2>3. t.m = PlainStep(q)
    <3>1. CASE pre.taken
      BY <1>6, <3>1, Zenon DEF PlainStep
    <3>2. CASE ~pre.taken
      <4>1. t.ran = <<<<pre.m.pc, i>>>> /\ t.m = Finish(pre.m, i)
        BY <1>6, <3>2, Zenon
      <4>2. i = vm.code[pre.m.pc]
        BY <1>0, <1>11, <3>2, Zenon DEF RanOverwritten
      <4> QED BY <1>2, <3>2, <4>1, <4>2, Zenon DEF PlainStep
    <3> QED BY <3>1, <3>2
  <2>4. IsMachine(PlainStep(PlatTick(ref))) /\ Agree(t.m, PlainStep(PlatTick(ref)))
    BY <2>1, <2>2, <2>3, PlainStepSame, Zenon
  <2> QED BY <1>7, <2>1, <2>4, PollIs, PollAgrees, Zenon DEF Matched
<1> QED BY <1>5, <1>7, <1>8, <1>9, <1>10, <1>11, Zenon DEF Stepped

\* A run that memory agreed with ran the block's current instructions.
LEMMA RanCurrent ==
    ASSUME NEW p, IsMachine(p), p.code = vm.code, NEW b, NEW n \in Nat,
           ~RanOverwritten([k \in 1..n |-> <<p.pc + k - 1, b.insns[k]>>])
    PROVE  Current(p, b, n)
<1> DEFINE ran0 == [k \in 1..n |-> <<p.pc + k - 1, b.insns[k]>>]
<1>0. p.pc \in Nat
  BY MachineCode
<1>1. DOMAIN ran0 = 1..n /\ \A k \in 1..n : ran0[k][1] = p.pc + (k - 1) /\ ran0[k][2] = b.insns[k]
  OBVIOUS
<1> HIDE DEF ran0
<1>2. ASSUME NEW k \in 1..n
      PROVE  /\ b.insns[k] = p.code[p.pc + (k - 1)]
             /\ \A i \in 1..k - 1 : p.pc + (k - 1) = Patched /\ b.insns[i] \in DOMAIN Overwrites
                                       => b.insns[k] = Overwrites[b.insns[i]]
  <2>1. k \in DOMAIN ran0 /\ ran0[k][1] = p.pc + (k - 1) /\ ran0[k][2] = b.insns[k]
    BY <1>1
  <2>2. \A i \in 1..k - 1 : ran0[i][2] = b.insns[i]
    BY <1>1
  <2>3. ~RanOverwritten(ran0)
    BY DEF ran0
  <2>4. /\ ran0[k][2] = vm.code[ran0[k][1]]
        /\ \A i \in 1..k - 1 : ~(/\ ran0[k][1] = Patched
                                 /\ ran0[i][2] \in DOMAIN Overwrites
                                 /\ ran0[k][2] # Overwrites[ran0[i][2]])
    BY <2>1, <2>3, Zenon DEF RanOverwritten
  <2> QED BY <2>1, <2>2, <2>4, Zenon
<1> QED BY <1>2, Zenon DEF Current

\* A turn that runs a block.
LEMMA BlockTurn ==
    ASSUME Inv, left > 0, ~vm.stopped, NEW p, p = Settled(PlatTick(vm)), p.code = vm.code,
           NEW t, NEW b, RanBlock([m |-> t.m, j |-> t.j, steps |-> t.used, ran |-> t.ran], p, b, since),
           t.used <= left, JitOK(t.j, since), t.j.on = jit.on, t.dc = dc
    PROVE  Stepped(t)
<1>1. /\ IsMachine(vm) /\ DcOK(dc, since) /\ left \in Nat
  BY Zenon DEF Inv
<1>2. /\ MayRun(p, b) /\ t.m = RunBlock(p, b).m /\ t.used = RunBlock(p, b).steps
      /\ t.used \in 1..Len(b.insns)
      /\ t.ran = [k \in 1..t.used |-> <<p.pc + k - 1, b.insns[k]>>]
      /\ \A k \in 1..Len(b.insns) : b.insns[k] \in since[p.pc + (k - 1)]
  BY Zenon DEF RanBlock
<1>3. IsMachine(p) /\ Len(b.insns) \in Nat /\ \A k \in 1..Len(b.insns) : Translatable(b.insns[k])
  BY <1>2, Zenon DEF MayRun, IsBlock
<1>4. t.used \in Nat \ {0} /\ t.used \in 1..left /\ 1..t.used \subseteq 1..Len(b.insns)
      /\ t.used > 0
  BY <1>1, <1>2, <1>3
<1> DEFINE done == Ended(t.m, t.used)
<1>5. /\ IsMachine(done) /\ Len(done.code) = Len(p.code)
      /\ \A r0 : Starts(r0, p) /\ Current(p, b, t.used)
                 => IsMachine(RefSteps(r0, t.used)) /\ Agree(MachinePollHalt(done), RefSteps(r0, t.used))
  <2> DEFINE run == RunBlock(p, b)
  <2>1. /\ run.steps > 0 => /\ IsMachine(Ended(run.m, run.steps))
                            /\ Len(Ended(run.m, run.steps).code) = Len(p.code)
        /\ \A r0 : Starts(r0, p) /\ run.steps > 0 /\ Current(p, b, run.steps)
                   => /\ IsMachine(RefSteps(r0, run.steps))
                      /\ Agree(MachinePollHalt(Ended(run.m, run.steps)), RefSteps(r0, run.steps))
    BY <1>2, BlockRuns, Zenon
  <2>2. run.m = t.m /\ run.steps = t.used /\ t.used > 0
    BY <1>2, <1>4, Zenon
  <2> HIDE DEF run
  <2> QED BY <2>1, <2>2, Zenon
<1> HIDE DEF done
<1>6. ASSUME NEW k \in DOMAIN t.ran
      PROVE  /\ t.ran[k][2] \in since[t.ran[k][1]] /\ t.ran[k][2] # "fencei"
  <2>0. k \in 1..t.used /\ t.ran[k] = <<p.pc + k - 1, b.insns[k]>>
    BY <1>2, Zenon
  <2>1. k \in 1..t.used /\ t.ran[k][1] = p.pc + (k - 1) /\ t.ran[k][2] = b.insns[k]
    <3>1. p.pc \in Nat /\ k \in Int
      BY <1>3, <2>0, MachineCode
    <3>2. p.pc + k - 1 = p.pc + (k - 1)
      BY <3>1
    <3> QED BY <2>0, <3>2
  <2>2. b.insns[k] \in since[p.pc + (k - 1)] /\ Translatable(b.insns[k])
    BY <1>2, <1>3, <1>4, <2>1, Zenon
  <2> QED BY <2>1, <2>2 DEF Translatable, Alu, Ram, Device, Jumps
<1>7. ASSUME NEW tn, Grows(since, tn) \/ Fenced(t) PROVE DcOK(t.dc, tn)
  BY <1>1, <1>6, <1>7, DcGrows, Zenon DEF Fenced
<1>8. ASSUME ~odd, ~RanOverwritten(t.ran) PROVE Matched(done, t.used)
  <2>1. Current(p, b, t.used)
    BY <1>2, <1>3, <1>4, <1>8, RanCurrent, Zenon
  <2>2. IsMachine(ref) /\ ~ref.stopped /\ Agree(PlatTick(vm), PlatTick(ref))
    BY <1>8, RefStep, Zenon
  <2>3. Agree(PlatTick(vm), p)
    BY <1>1, TickIs, MachineClocked, SettledAgrees, Zenon
  <2>4. Agree(PlatTick(ref), p)
    BY <2>2, <2>3, AgreeSym, AgreeTrans, Zenon
  <2>5. Starts(ref, p)
    BY <1>1, <2>2, <2>4 DEF Starts, DcOK
  <2> QED BY <1>5, <2>1, <2>5, Zenon DEF Matched
<1> QED BY <1>4, <1>5, <1>6, <1>7, <1>8, Zenon DEF Stepped, done

\* Whatever way a turn takes.
LEMMA TurnIs ==
    ASSUME Inv, left > 0, ~vm.stopped,
           NEW run, run = IF jit.on THEN JitRun(jit, PlatTick(vm), left)
                          ELSE [m |-> PlatTick(vm), j |-> jit, steps |-> 0, ran |-> <<>>]
    PROVE  Stepped(Turn(run))
<1> DEFINE tick == PlatTick(vm)
           pre == CpuPreStep(tick)
           t == Turn(run)
<1>1. /\ IsMachine(vm) /\ ~vm.halted /\ left \in Nat /\ SinceOK(vm, since) /\ JitOK(jit, since)
      /\ jit.on \in BOOLEAN
  BY Zenon DEF Inv, JitOK
<1>2. /\ IsMachine(tick) /\ \A f \in Fields \ {"mtime"} : tick[f] = vm[f]
  BY <1>1, TickIs, Zenon
<1>3. /\ tick.code = vm.code /\ tick.halted = vm.halted /\ tick.stopped = vm.stopped
      /\ tick.poweroff = vm.poweroff
  <2>1. {"code", "halted", "stopped", "poweroff"} \subseteq Fields \ {"mtime"}
    BY DEF Fields
  <2> QED BY <1>2, <2>1, Zenon
<1>4. Agree(tick, tick)
  BY <1>2, MachineClocked, SettledAgrees, Zenon
<1>5. /\ pre.m.code = tick.code
      /\ pre.taken <=> tick.poweroff \/ Open(Settled(tick)) # {}
      /\ ~pre.taken => pre.m = Settled(tick)
  BY <1>2, PreStepIs, Zenon
<1> HIDE DEF tick, pre
<1>6. CASE ~jit.on
  <2>1. run.steps = 0 /\ run.m = tick /\ run.j = jit
    BY <1>6 DEF tick
  <2>2. /\ t.used = 1 /\ t.j = jit /\ t.m = CpuStep(tick, dc).m /\ t.dc = CpuStep(tick, dc).dc
        /\ t.ran = CpuStep(tick, dc).ran
    BY <2>1, Zenon DEF Turn
  <2> HIDE DEF t
  <2>3. Stepped(t)
    BY <1>1, <1>2, <1>3, <1>4, <2>2, InterpreterTurn, Zenon DEF tick
  <2> QED BY <2>3 DEF t
<1>7. CASE jit.on /\ pre.taken
  <2>1. run = [m |-> pre.m, j |-> jit, steps |-> 1, ran |-> <<>>]
    BY <1>7 DEF JitRun, tick, pre
  <2>0. run.steps = 1 /\ run.steps # 0 /\ run.j = jit /\ run.m = pre.m /\ run.ran = <<>>
    BY <2>1
  <2>2. t.used = 1 /\ t.j = jit /\ t.m = pre.m /\ t.dc = dc /\ t.ran = <<>>
    BY <2>0, Zenon DEF Turn
  <2>3. CpuStep(tick, dc).m = pre.m /\ CpuStep(tick, dc).dc = dc /\ CpuStep(tick, dc).ran = <<>>
    BY <1>7, CpuStepIs, Zenon DEF pre
  <2> HIDE DEF t
  <2>4. Stepped(t)
    BY <1>1, <1>2, <1>3, <1>4, <2>2, <2>3, InterpreterTurn, Zenon DEF tick
  <2> QED BY <2>4 DEF t
<1>8. CASE jit.on /\ ~pre.taken
  <2> DEFINE p == Settled(tick)
  <2>1. IsMachine(p) /\ SameBut(tick, p, {"stip", "armed"}) /\ Agree(tick, p) /\ Agree(p, tick)
    <3>1. Agree(tick, p)
      BY <1>2, MachineClocked, SettledAgrees, Zenon
    <3>2. IsMachine(p) /\ SameBut(tick, p, {"stip", "armed"})
      BY <1>2, SettledType, Zenon
    <3> QED BY <3>1, <3>2, AgreeSym, Zenon
  <2>2. /\ p.code = tick.code /\ p.halted = tick.halted /\ p.stopped = tick.stopped
        /\ p.poweroff = tick.poweroff
    <3>1. {"code", "halted", "stopped", "poweroff"} \subseteq Fields \ {"stip", "armed"}
      BY DEF Fields
    <3> QED BY <2>1, <3>1, Zenon DEF SameBut
  <2>3. pre.m = p /\ ~tick.poweroff /\ Open(p) = {}
    BY <1>5, <1>8
  <2> HIDE DEF p
  <2>4. Began(p, since)
    BY <1>1, <1>3, <2>1, <2>2, <2>3, Zenon DEF Began, SinceOK
  <2>5. run = Dispatch(jit, p, left)
    BY <1>8, <2>3 DEF JitRun, tick, pre
  <2>6. Dispatched(run, p, left, since)
    BY <1>1, <1>8, <2>4, <2>5, DispatchIs, Zenon
  <2>7. JitOK(run.j, since) /\ run.j.on = jit.on
    <3>1. JitOK(run.j, since) /\ run.j.on
      BY <2>6, Zenon DEF Dispatched
    <3>2. run.j.on \in BOOLEAN
      BY <3>1, Zenon DEF JitOK
    <3> QED BY <1>1, <1>8, <3>1, <3>2, Zenon
  <2>8. CASE run.steps = 0 /\ run.m = p
    <3>1. /\ t.used = 1 /\ t.j = run.j /\ t.m = CpuStep(p, dc).m /\ t.dc = CpuStep(p, dc).dc
          /\ t.ran = CpuStep(p, dc).ran
      BY <2>8, Zenon DEF Turn
    <3>2. p.code = vm.code /\ Agree(p, PlatTick(vm))
      BY <1>3, <2>1, <2>2 DEF tick
    <3> HIDE DEF t
    <3>3. Stepped(t)
      BY <2>1, <2>7, <3>1, <3>2, InterpreterTurn, Zenon
    <3> QED BY <3>3 DEF t
  <2>9. ASSUME run.steps <= left, NEW b, RanBlock(run, p, b, since) PROVE Stepped(t)
    <3>1. Len(b.insns) \in Nat /\ run.steps \in 1..Len(b.insns)
      BY <2>9, Zenon DEF RanBlock, MayRun, IsBlock
    <3>2. run.steps # 0
      BY <3>1
    <3>3. t.used = run.steps /\ t.j = run.j /\ t.m = run.m /\ t.dc = dc /\ t.ran = run.ran
      BY <3>2, Zenon DEF Turn
    <3> HIDE DEF t
    <3>4. RanBlock([m |-> t.m, j |-> t.j, steps |-> t.used, ran |-> t.ran], p, b, since)
      BY <2>9, <3>3 DEF RanBlock
    <3>5. p = Settled(PlatTick(vm)) /\ p.code = vm.code
      BY <1>3, <2>2 DEF p, tick
    <3> QED BY <2>7, <2>9, <3>3, <3>4, <3>5, BlockTurn, Zenon
  <2> HIDE DEF t
  <2> QED BY <2>6, <2>8, <2>9, Zenon DEF Dispatched, t
<1> QED BY <1>1, <1>6, <1>7, <1>8

LEMMA LoopTurnIs ==
    ASSUME Inv, LoopTurn
    PROVE  \E t : /\ Stepped(t) /\ vm' = MachinePollHalt(Ended(t.m, t.used))
                  /\ ref' = RefSteps(ref, t.used) /\ dc' = t.dc /\ left' = left - t.used
                  /\ jit' = IF Fenced(t) /\ jit.on THEN JitFlush(t.j) ELSE t.j
                  /\ since' = Since(vm', Fenced(t)) /\ ran' = t.ran
                  /\ odd' = (odd \/ RanOverwritten(t.ran))
<1> DEFINE run == IF jit.on THEN JitRun(jit, PlatTick(vm), left)
                  ELSE [m |-> PlatTick(vm), j |-> jit, steps |-> 0, ran |-> <<>>]
           t == Turn(run)
<1>1. left > 0 /\ ~vm.stopped
  BY DEF LoopTurn
<1>2. Stepped(t)
  <2> HIDE DEF run
  <2> QED BY <1>1, TurnIs, Zenon DEF run
<1>3. /\ vm' = MachinePollHalt(Ended(t.m, t.used))
      /\ ref' = RefSteps(ref, t.used) /\ dc' = t.dc /\ left' = left - t.used
      /\ jit' = IF Fenced(t) /\ jit.on THEN JitFlush(t.j) ELSE t.j
      /\ since' = Since(vm', Fenced(t)) /\ ran' = t.ran
      /\ odd' = (odd \/ RanOverwritten(t.ran))
  <2> HIDE DEF t
  <2>1. \E u \in {t} :
          LET fence == \E k \in DOMAIN u.ran : u.ran[k][2] = "fencei"
          IN /\ vm' = MachinePollHalt([u.m EXCEPT !.mtime = @ + u.used - 1])
             /\ ref' = RefSteps(ref, u.used)
             /\ dc' = u.dc
             /\ jit' = IF fence /\ jit.on THEN JitFlush(u.j) ELSE u.j
             /\ left' = left - u.used
             /\ since' = Since(vm', fence)
             /\ ran' = u.ran
             /\ odd' = (odd \/ RanOverwritten(u.ran))
    BY Zenon DEF LoopTurn, t
  <2> QED BY <2>1, Zenon DEF Ended, Fenced
<1> HIDE DEF t
<1> QED BY <1>2, <1>3, Zenon

LEMMA LoopTurnInv == ASSUME Inv, LoopTurn PROVE Inv'
<1>1. PICK t : /\ Stepped(t) /\ vm' = MachinePollHalt(Ended(t.m, t.used))
               /\ ref' = RefSteps(ref, t.used) /\ dc' = t.dc /\ left' = left - t.used
               /\ jit' = IF Fenced(t) /\ jit.on THEN JitFlush(t.j) ELSE t.j
               /\ since' = Since(vm', Fenced(t)) /\ odd' = (odd \/ RanOverwritten(t.ran))
  BY LoopTurnIs, Zenon
<1> DEFINE done == Ended(t.m, t.used)
<1>2. /\ t.used \in 1..left /\ IsMachine(done) /\ Len(done.code) = Len(vm.code)
      /\ JitOK(t.j, since) /\ t.j.on = jit.on
      /\ \A tn : Grows(since, tn) \/ Fenced(t) => DcOK(t.dc, tn)
      /\ ~odd /\ ~RanOverwritten(t.ran) => Matched(done, t.used)
  BY <1>1, Zenon DEF Stepped
<1>3. IsMachine(vm) /\ left \in Nat /\ odd \in BOOLEAN /\ SinceOK(vm, since)
  BY Zenon DEF Inv
<1> HIDE DEF done
<1>4. /\ IsMachine(vm') /\ Len(vm'.code) = Len(vm.code) /\ (done.halted => vm'.stopped)
      /\ \A f \in Fields \ {"stopped"} : vm'[f] = done[f]
  BY <1>1, <1>2, PollIs, Zenon DEF done
<1>5. vm'.halted => vm'.stopped
  <2>1. "halted" \in Fields \ {"stopped"}
    BY DEF Fields
  <2> QED BY <1>4, <2>1
<1>6. left' \in Nat
  <2>1. left' = left - t.used /\ left \in Nat /\ t.used \in 1..left
    BY <1>1, <1>2, <1>3, Zenon
  <2> QED BY <2>1
<1>7. /\ DOMAIN vm'.code = DOMAIN since /\ Len(vm'.code) \in DOMAIN since
      /\ vm'.code[Len(vm'.code)] = "ret" /\ since[Len(vm'.code)] = {"ret"}
  <2>1. /\ DOMAIN vm'.code = 1..Len(vm'.code) /\ vm'.code[Len(vm'.code)] = "ret"
        /\ Len(vm'.code) \in Nat /\ Len(vm'.code) > 2
    BY <1>4, MachineCode, Zenon
  <2>2. DOMAIN since = 1..Len(vm.code) /\ since[Len(vm.code)] = {"ret"}
    BY <1>3, MachineCode, Zenon DEF SinceOK
  <2> QED BY <1>4, <2>1, <2>2
<1>8. SinceOK(vm', since') /\ (~Fenced(t) => Grows(since, since'))
  <2> HIDE DEF Fenced
  <2>1. CASE Fenced(t)
    <3>1. since' = [c \in DOMAIN vm'.code |-> {vm'.code[c]}]
      BY <1>1, <2>1 DEF Since
    <3> QED BY <1>7, <2>1, <3>1 DEF SinceOK
  <2>2. CASE ~Fenced(t)
    <3>1. since' = [c \in DOMAIN vm'.code |-> since[c] \cup {vm'.code[c]}]
      BY <1>1, <2>2 DEF Since
    <3> QED BY <1>7, <3>1 DEF SinceOK, Grows
  <2> QED BY <2>1, <2>2
<1>9. DcOK(dc', since')
  BY <1>1, <1>2, <1>8, Zenon
<1>10. JitOK(jit', since')
  <2>1. JitOK(JitFlush(t.j), since') /\ (~t.j.on => JitOK(t.j, since'))
    BY <1>2, JitFlushed, Zenon
  <2>2. Grows(since, since') => JitOK(t.j, since')
    BY <1>2, JitGrows, Zenon
  <2>3. \/ Fenced(t) /\ jit.on /\ jit' = JitFlush(t.j)
        \/ ~Fenced(t) /\ jit' = t.j
        \/ ~jit.on /\ jit' = t.j
    BY <1>1
  <2> QED BY <1>2, <1>8, <2>1, <2>2, <2>3, Zenon
<1>11. odd' \in BOOLEAN /\ (~odd' => IsMachine(ref') /\ Agree(vm', ref'))
  <2>1. odd' = (odd \/ RanOverwritten(t.ran))
    BY <1>1
  <2>2. odd' \in BOOLEAN
    BY <2>1
  <2>3. ~odd' => Matched(done, t.used)
    BY <1>2, <2>1, Zenon
  <2>4. vm' = MachinePollHalt(done) /\ ref' = RefSteps(ref, t.used)
    BY <1>1 DEF done
  <2> QED BY <2>2, <2>3, <2>4, Zenon DEF Matched
<1> QED BY <1>4, <1>5, <1>6, <1>8, <1>9, <1>10, <1>11 DEF Inv

-----------------------------------------------------------------------------
(* The other actions. *)

LEMMA InitInv == Init => Inv
<1> SUFFICES ASSUME Init PROVE Inv
  OBVIOUS
<1>1. IsMachine(vm) /\ ~vm.halted /\ ref = vm
  BY BootAssumption DEF Init
<1>2. /\ DOMAIN vm.code = 1..Len(vm.code) /\ Len(vm.code) \in Nat /\ Len(vm.code) > 2
      /\ vm.code[Len(vm.code)] = "ret"
  BY <1>1, MachineCode, Zenon
<1>3. SinceOK(vm, since)
  <2>1. since = [c \in DOMAIN vm.code |-> {vm.code[c]}]
    BY DEF Init
  <2>2. Len(vm.code) \in DOMAIN vm.code
    BY <1>2
  <2> QED BY <1>2, <2>1, <2>2 DEF SinceOK
<1>4. DcOK(dc, since)
  <2>1. /\ DOMAIN dc = {"on", "gen", "slots"} /\ dc.on = TRUE /\ dc.gen = 1
        /\ dc.slots = [s \in 0..DcSlots - 1 |-> [gen |-> 0, pa |-> 0, insn |-> "inc"]]
    BY Zenon DEF Init
  <2>2. DOMAIN dc.slots = 0..DcSlots - 1 /\ \A s \in 0..DcSlots - 1 : dc.slots[s].gen = 0
    BY <2>1
  <2>3. DOMAIN dc = {"on", "gen", "slots"} /\ dc.on \in BOOLEAN /\ dc.gen = 1
    BY <2>1, Zenon
  <2> QED BY <2>2, <2>3 DEF DcOK
<1>5. JitOK(jit, since)
  <2>1. /\ DOMAIN jit = {"on", "gen", "used", "victim", "arena", "table"}
        /\ jit.on \in BOOLEAN /\ jit.gen = 1 /\ jit.used = 0 /\ jit.victim = 0
        /\ jit.arena = [o \in 1..Arena |-> [va |-> <<0, 0>>, insns |-> <<>>]]
        /\ jit.table = [w \in 1..Ways |-> [gen |-> 0, pa |-> 0, va |-> <<0, 0>>,
                                           fn |-> 0, ninsn |-> 0]]
    BY DEF Init
  <2>2. \A w \in 1..Ways : jit.table[w].gen = 0 /\ ~Live(jit, w)
    BY <2>1 DEF Live
  <2>3. 0 \in 0..Arena
    BY SizeAssumption
  <2>4. DOMAIN jit.arena = 1..Arena /\ DOMAIN jit.table = 1..Ways
    BY <2>1
  <2> QED BY <2>1, <2>2, <2>3, <2>4 DEF JitOK
<1>6. Agree(vm, ref)
  BY <1>1, MachineClocked, SettledAgrees, Zenon
<1>7. left = 0 /\ odd = FALSE
  BY DEF Init
<1> QED BY <1>1, <1>3, <1>4, <1>5, <1>6, <1>7, Zenon DEF Inv

\* Host input raises or lowers the same line on both machines.
Lined(m, line, n) ==
    /\ IsMachine(n) /\ Later(m, n) /\ DOMAIN n = Fields
    /\ \A f \in Fields : n[f] = IF f = "line" THEN line ELSE m[f]

LEMMA LineIs ==
    ASSUME NEW m, IsMachine(m), NEW line, NEW n, n = [m EXCEPT !.line = line]
    PROVE  Lined(m, line, n)
<1>1. m = [f \in Fields |-> m[f]] /\ DOMAIN m = Fields /\ m.mtime \in Nat
  BY MachineClocked, Zenon DEF Clocked
<1>2. n = [f \in Fields |-> n[f]] /\ DOMAIN n = Fields /\ \A f \in Fields : n[f] = IF f = "line" THEN line ELSE m[f]
  BY <1>1
<1>3. /\ n.code = m.code /\ n.pc = m.pc /\ n.alias = m.alias /\ n.mtime = m.mtime
      /\ n.mtimecmp = m.mtimecmp /\ n.instret = m.instret /\ n.stimecmp = m.stimecmp
      /\ n.stip = m.stip /\ n.armed = m.armed /\ n.stce = m.stce /\ n.mie = m.mie
      /\ n.sie = m.sie /\ n.poweroff = m.poweroff /\ n.halted = m.halted
      /\ n.stopped = m.stopped /\ n.saved = m.saved
  BY <1>2 DEF Fields
<1>4. IsMachine(n)
  BY <1>2, <1>3, Zenon DEF IsMachine
<1>5. Later(m, n)
  BY <1>1, <1>3 DEF Later
<1> QED BY <1>2, <1>4, <1>5 DEF Lined

LEMMA QuantaRunInv == ASSUME Inv, QuantaRun PROVE Inv'
<1>1. PICK line : vm' = [vm EXCEPT !.line = line] /\ ref' = [ref EXCEPT !.line = line]
  BY Zenon DEF QuantaRun
<1>2. left' \in Nat /\ UNCHANGED <<dc, jit, since, odd>>
  BY SizeAssumption DEF QuantaRun
<1>3. /\ IsMachine(vm) /\ (vm.halted => vm.stopped) /\ odd \in BOOLEAN /\ SinceOK(vm, since)
      /\ DcOK(dc, since) /\ JitOK(jit, since) /\ (~odd => IsMachine(ref) /\ Agree(vm, ref))
  BY Zenon DEF Inv
<1>4. /\ IsMachine(vm') /\ Later(vm, vm') /\ DOMAIN vm' = Fields
      /\ \A f \in Fields : vm'[f] = IF f = "line" THEN line ELSE vm[f]
  <2>1. Lined(vm, line, vm')
    BY <1>1, <1>3, LineIs
  <2> QED BY <2>1, Zenon DEF Lined
<1>5. vm'.code = vm.code /\ vm'.halted = vm.halted /\ vm'.stopped = vm.stopped
  BY <1>4 DEF Fields
<1>6. SinceOK(vm', since')
  BY <1>2, <1>3, <1>5 DEF SinceOK
<1>7. ASSUME ~odd PROVE IsMachine(ref') /\ Agree(vm', ref')
  <2>1. /\ IsMachine(ref') /\ Later(ref, ref') /\ DOMAIN ref' = Fields
        /\ \A f \in Fields : ref'[f] = IF f = "line" THEN line ELSE ref[f]
    <3>1. Lined(ref, line, ref')
      BY <1>1, <1>3, <1>7, LineIs
    <3> QED BY <3>1, Zenon DEF Lined
  <2>2. SameBut(vm', ref', {"stip", "armed"})
    BY <1>3, <1>4, <1>7, <2>1 DEF Agree, SameBut
  <2>3. Clocked(vm) /\ Clocked(ref) /\ Clocked(vm') /\ Clocked(ref')
    BY <1>3, <1>4, <1>7, <2>1, MachineClocked, Zenon
  <2> QED BY <1>3, <1>4, <1>7, <2>1, <2>2, <2>3, AgreeLater, Zenon
<1> QED BY <1>2, <1>3, <1>4, <1>5, <1>6, <1>7 DEF Inv

LEMMA SwitchInv == ASSUME Inv, QuantaSetDcache \/ QuantaSetJit PROVE Inv'
<1>1. DcOK(dc, since) /\ JitOK(jit, since) /\ dc.on \in BOOLEAN /\ jit.on \in BOOLEAN
  BY Zenon DEF Inv, DcOK, JitOK
<1>2. CASE QuantaSetDcache
  <2>1. dc' = AttachDcaches(dc, ~dc.on) /\ UNCHANGED <<vm, ref, jit, left, since, odd>>
    BY <1>2 DEF QuantaSetDcache
  <2>2. DcOK(dc', since)
    BY <1>1, <2>1, DcFlushed, Zenon
  <2> QED BY <2>1, <2>2 DEF Inv
<1>3. CASE QuantaSetJit
  <2>1. jit' = AttachJit(jit, ~jit.on) /\ UNCHANGED <<vm, ref, dc, left, since, odd>>
    BY <1>3 DEF QuantaSetJit
  <2>2. JitOK(jit', since)
    BY <1>1, <2>1, JitFlushed, Zenon
  <2> QED BY <2>1, <2>2 DEF Inv
<1> QED BY <1>2, <1>3

LEMMA NextInv == Inv /\ [Next]_vars => Inv'
<1>1. Inv /\ UNCHANGED vars => Inv'
  BY DEF Inv, vars
<1> QED BY <1>1, LoopTurnInv, QuantaRunInv, SwitchInv DEF Next

LEMMA InvHolds == Spec => []Inv
BY InitInv, NextInv, PTL DEF Spec

-----------------------------------------------------------------------------
\* Blocks, cached decodes and single steps leave the machine where the plain
\* interpreter is after the same number of steps, and no call runs past its
\* limit (quanta_run, jit_run, cpu_interrupt_horizon): for every program,
\* every interrupt set-up and all sizes of blocks, caches and steps.
THEOREM SameCorrect == Spec => []SameMachine
<1>1. Inv => SameMachine
  <2> SUFFICES ASSUME Inv PROVE SameMachine
    OBVIOUS
  <2>1. IsMachine(vm) /\ left \in Nat /\ (~odd => IsMachine(ref) /\ Agree(vm, ref))
    BY Zenon DEF Inv
  <2>2. ~odd => Settled(vm) = Settled(ref)
    BY <2>1, MachineClocked, AgreeSettled, Zenon
  <2> QED BY <2>1, <2>2 DEF SameMachine
<1> QED BY <1>1, InvHolds, PTL

\* Live blocks never overlap and lie below the arena's cursor, whatever was
\* evicted, flushed or recycled (translate, jit_flush).
THEOREM IntactCorrect == Spec => []CodeIntact
<1>1. Inv => CodeIntact
  <2> SUFFICES ASSUME Inv PROVE CodeIntact
    OBVIOUS
  <2>1. IsMachine(vm) /\ JitOK(jit, since)
    BY Zenon DEF Inv
  <2>2. TypeOK
    <3>1. vm.pc \in DOMAIN vm.code /\ vm.alias \in {0, 1}
      BY <2>1, Zenon DEF IsMachine
    <3> QED BY <2>1, <3>1 DEF TypeOK, JitOK
  <2> DEFINE live == {w \in 1..Ways : jit.table[w].gen = jit.gen /\ jit.table[w].fn # 0}
             Span(w) == jit.table[w].fn..(jit.table[w].fn + jit.table[w].ninsn - 1)
  <2>3. ASSUME NEW w \in live
        PROVE  /\ w \in 1..Ways /\ Live(jit, w) /\ jit.used \in Nat
               /\ jit.table[w].fn \in Nat \ {0} /\ jit.table[w].ninsn \in Nat \ {0}
               /\ jit.table[w].fn + jit.table[w].ninsn <= jit.used + 1
    BY <2>1, SizeAssumption DEF JitOK, Live
  <2>4. ASSUME NEW w \in live PROVE Span(w) \subseteq 1..jit.used
    <3> HIDE DEF live
    <3> QED BY <2>3
  <2>5. ASSUME NEW v \in live, NEW w \in live, v # w PROVE Span(v) \cap Span(w) = {}
    <3>1. Apart(jit.table[v], jit.table[w])
      BY <2>1, <2>3, <2>5 DEF JitOK
    <3> HIDE DEF live
    <3> QED BY <2>3, <3>1 DEF Apart
  <2> QED BY <2>2, <2>4, <2>5, Zenon DEF CodeIntact
<1> QED BY <1>1, InvHolds, PTL

\* An instruction that runs is one its cell has held since the last FENCE.I or
\* attach: no decode slot and no block survives the flush (cpu.c OP_FENCE,
\* dcache_flush, jit_flush, attach_dcaches).
THEOREM FenceCorrect == Spec => FenceContract
<1> DEFINE Held == left' < left => \A k \in DOMAIN ran' : ran'[k][2] \in since[ran'[k][1]]
<1>1. Inv /\ [Next]_vars => [Held]_vars
  <2> SUFFICES ASSUME Inv, Next PROVE Held
    OBVIOUS
  <2>1. CASE LoopTurn
    <3>1. PICK t : Stepped(t) /\ ran' = t.ran
      BY <2>1, LoopTurnIs, Zenon
    <3> QED BY <3>1, Zenon DEF Stepped
  <2>2. CASE ~LoopTurn
    <3>1. left = 0 /\ (left' \in Caps \/ left' = left)
      BY <2>2 DEF Next, QuantaRun, QuantaSetDcache, QuantaSetJit
    <3>2. left = 0 /\ left' \in Nat
      <4>1. Caps \subseteq Nat
        BY SizeAssumption
      <4>2. left' \in Caps => left' \in Nat
        BY <4>1, Zenon
      <4>3. left' = 0 => left' \in Nat
        OBVIOUS
      <4> HIDE DEF Held
      <4> QED BY <3>1, <4>2, <4>3
    <3>3. ~(left' < left)
      BY <3>2
    <3> QED BY <3>3
  <2> QED BY <2>1, <2>2
<1> QED BY <1>1, InvHolds, PTL DEF Spec, FenceContract

=============================================================================
