----------------------------- MODULE PlicProofs -----------------------------
(***************************************************************************)
(* Proofs about Plic, for any contexts, priorities, enables and inputs,    *)
(* with handlers that do not nest.                                         *)
(***************************************************************************)
EXTENDS Plic, WellFoundedInduction, TLAPS

\* The handler record of a source in a phase.
One(s, p) == <<[src |-> s, phase |-> p]>>

\* A context runs no handler, or one, for the source it has in service.
Handling(hs, cl) ==
    \/ hs = <<>> /\ cl = 0
    \/ \E s, p : hs = One(s, p) /\ cl = s

\* InServiceExact with the shape of the state it needs to be inductive.
IInv ==
    /\ handler = [c \in Contexts |-> handler[c]]
    /\ claimed = [c \in Contexts |-> claimed[c]]
    /\ \A c \in Contexts : Handling(handler[c], claimed[c])

\* plat_init leaves nothing in service.
LEMMA InitInv == Init => IInv
BY DEF Init, IInv, Handling

\* What the handler operators do to a stack of one.
LEMMA OneProps ==
    ASSUME NEW s, NEW p
    PROVE  /\ One(s, p) # <<>> /\ Len(One(s, p)) = 1
           /\ One(s, p)[1] = [src |-> s, phase |-> p] /\ One(s, p)[1].src = s
           /\ Tail(One(s, p)) = <<>>
           /\ One(s, p) \o <<>> = One(s, p)
<1>1. /\ One(s, p) # <<>> /\ Len(One(s, p)) = 1
      /\ One(s, p)[1] = [src |-> s, phase |-> p] /\ One(s, p)[1].src = s
  BY DEF One
<1>2. Tail(One(s, p)) = <<>>
  BY DEF One
<1>3. One(s, p) \o <<>> = One(s, p)
  BY DEF One
<1> QED BY <1>1, <1>2, <1>3

\* Moving it to another phase.
LEMMA OneMoved ==
    ASSUME NEW s, NEW p, NEW q
    PROVE  [One(s, p) EXCEPT ![1].phase = q] = One(s, q)
BY DEF One

\* A step of one context's handler leaves the other contexts alone.
LEMMA OtherContexts ==
    ASSUME IInv, NEW c \in Contexts, NEW hs, NEW cl, Handling(hs, cl),
           handler' = [handler EXCEPT ![c] = hs], claimed' = [claimed EXCEPT ![c] = cl]
    PROVE  IInv'
BY Zenon DEF IInv

\* The handler moves to another phase of the same source.
LEMMA MoveInv ==
    ASSUME IInv, NEW c \in Contexts, NEW q, handler[c] # <<>>, Move(c, q), claimed' = claimed
    PROVE  IInv'
<1>1. PICK s, p : handler[c] = One(s, p) /\ claimed[c] = s
  BY DEF IInv, Handling
<1>2. handler' = [handler EXCEPT ![c] = [handler[c] EXCEPT ![1].phase = q]]
  BY DEF Move, IInv
<1>3. [handler[c] EXCEPT ![1].phase = q] = One(s, q)
  <2>1. [One(s, p) EXCEPT ![1].phase = q] = One(s, q)
    BY OneMoved, Zenon
  <2> QED BY <1>1, <2>1, Zenon
<1>4. claimed' = [claimed EXCEPT ![c] = s]
  BY <1>1 DEF IInv
<1>5. Handling(One(s, q), s)
  BY DEF Handling
<1>6. handler' = [handler EXCEPT ![c] = One(s, q)]
  BY <1>2, <1>3, Zenon
<1> QED BY <1>4, <1>5, <1>6, OtherContexts, Zenon

\* Every step keeps the invariant when handlers do not nest.
LEMMA NextInv ==
    ASSUME MaxNest = 1
    PROVE  IInv /\ [Next]_vars => IInv'
<1> SUFFICES ASSUME IInv, [Next]_vars PROVE IInv'
  OBVIOUS
<1>1. ASSUME handler' = handler, claimed' = claimed PROVE IInv'
  BY <1>1 DEF IInv
<1>2. CASE ConsolePump \/ Transmit \/ WriteIer \/ Raise \/ WritePlic \/ UNCHANGED vars
  BY <1>1, <1>2, Zenon DEF ConsolePump, Transmit, WriteIer, Raise, WritePlic, plic, vars
<1>3. ASSUME NEW c \in Contexts, Handle(c) PROVE IInv'
  <2>0. Handling(handler[c], claimed[c])
    BY DEF IInv
  <2>1. CASE Claim(c)
    <3> DEFINE b == plic_best(c)
    <3>1. /\ Len(handler[c]) < 1
          /\ claimed' = [claimed EXCEPT ![c] = b]
          /\ handler' = [handler EXCEPT ![c] = One(b, "serve") \o handler[c]]
      BY <2>1 DEF Claim, One, IInv
    <3> HIDE DEF b
    <3>2. handler[c] = <<>>
      BY <2>0, <3>1, OneProps DEF Handling
    <3>3. handler' = [handler EXCEPT ![c] = One(b, "serve")]
      BY <3>1, <3>2, OneProps
    <3>4. Handling(One(b, "serve"), b)
      BY DEF Handling
    <3> QED BY <3>1, <3>3, <3>4, OtherContexts, Zenon
  <2>2. CASE Complete(c)
    <3>1. handler[c] # <<>> /\ handler' = [handler EXCEPT ![c] = Tail(handler[c])]
      BY <2>2 DEF Complete, InPhase, IInv
    <3>2. PICK s, p : handler[c] = One(s, p) /\ claimed[c] = s
      BY <2>0, <3>1 DEF Handling
    <3>3. One(s, p)[1].src = s /\ Tail(One(s, p)) = <<>>
      BY OneProps, Zenon
    <3>4. Top(c).src = claimed[c] /\ Tail(handler[c]) = <<>>
      BY <3>2, <3>3, Zenon DEF Top
    <3>5. claimed' = [claimed EXCEPT ![c] = 0] /\ handler' = [handler EXCEPT ![c] = <<>>]
      BY <2>2, <3>1, <3>4, Zenon DEF Complete
    <3>6. Handling(<<>>, 0)
      BY DEF Handling
    <3> QED BY <3>5, <3>6, OtherContexts, Zenon
  <2>3. CASE ReadIir(c)
    <3>1. handler[c] # <<>> /\ claimed' = claimed /\ (Move(c, "rx") \/ Move(c, "done"))
      BY <2>3 DEF ReadIir, InPhase, plic
    <3> QED BY <3>1, MoveInv
  <2>4. CASE ReadRbr(c)
    BY <2>4, MoveInv DEF ReadRbr, InPhase, plic
  <2>5. CASE Acknowledge(c)
    BY <2>5, MoveInv DEF Acknowledge, InPhase, plic
  <2> QED BY <1>3, <2>1, <2>2, <2>3, <2>4, <2>5 DEF Handle
<1> QED BY <1>2, <1>3 DEF Next

\* A context has a source in service exactly while it is being handled: the
\* claim sets it and the completion of the same source clears it (plic_claim,
\* plic_write), whatever is reconfigured in between.
THEOREM ServiceCorrect ==
    ASSUME MaxNest = 1
    PROVE  Spec => []InServiceExact
<1>1. IInv => InServiceExact
  <2> SUFFICES ASSUME IInv, NEW c \in Contexts
               PROVE  claimed[c] = IF handler[c] = <<>> THEN 0 ELSE Top(c).src
    BY DEF InServiceExact
  <2>1. Handling(handler[c], claimed[c])
    BY DEF IInv
  <2>2. CASE handler[c] = <<>> /\ claimed[c] = 0
    BY <2>2
  <2>3. CASE \E s, p : handler[c] = One(s, p) /\ claimed[c] = s
    <3>1. PICK s, p : handler[c] = One(s, p) /\ claimed[c] = s
      BY <2>3
    <3>2. One(s, p) # <<>> /\ One(s, p)[1].src = s
      BY OneProps, Zenon
    <3>3. handler[c] # <<>> /\ Top(c).src = s
      BY <3>1, <3>2, Zenon DEF Top
    <3> QED BY <3>1, <3>3
  <2> QED BY <2>1, <2>2, <2>3 DEF Handling
<1>2. IInv /\ [Next]_vars => IInv'
  BY NextInv
<1> QED BY <1>1, <1>2, InitInv, PTL DEF Spec

-----------------------------------------------------------------------------
(* The console escape: what one more byte of input means.                   *)

\* Induction, on a set of naturals.
LEMMA SetInduction ==
    ASSUME NEW S, 0 \in S, \A n \in Nat : n \in S => n + 1 \in S
    PROVE  \A n \in Nat : n \in S
<1> DEFINE T == Nat \ S
<1>1. SUFFICES ASSUME T # {} PROVE FALSE
  OBVIOUS
<1>2. PICK x \in T : \A y \in T : ~(<<y, x>> \in OpToRel(<, Nat))
  <2>1. T \subseteq Nat OBVIOUS
  <2> QED BY <1>1, <2>1, WFMin, NatLessThanWellFounded, Zenon
<1>3. x # 0 /\ x - 1 \in Nat
  OBVIOUS
<1>4. x - 1 \notin T
  <2>1. SUFFICES ASSUME x - 1 \in T PROVE FALSE OBVIOUS
  <2>2. ~(<<x - 1, x>> \in OpToRel(<, Nat)) BY <1>2, <2>1, Zenon
  <2> QED BY <2>2, <1>3 DEF OpToRel
<1> QED BY <1>3, <1>4

\* The input ends in a prefix that awaits its command.
Escaped(s) == Len(s) > 0 /\ IsPrefix(s, Len(s))

\* j is where the run of Ctrl-As that reaches i starts.
StartsRun(s, j, i) ==
    /\ j \in 1 .. i /\ \A k \in j .. i : s[k] = CtrlA
    /\ j = 1 \/ s[j - 1] # CtrlA

\* Every Ctrl-A belongs to a run that starts somewhere.
HasStart(s) == Len(s) > 0 /\ s[Len(s)] = CtrlA => \E j : StartsRun(s, j, Len(s))

LEMMA AppendedStart ==
    ASSUME NEW s \in Seq(Bytes), NEW b \in Bytes, HasStart(s)
    PROVE  HasStart(Append(s, b))
<1> DEFINE t == Append(s, b)
           n == Len(s)
<1>1. n \in Nat /\ Len(t) = n + 1 /\ t[n + 1] = b /\ \A i \in 1 .. n : t[i] = s[i]
  OBVIOUS
<1> HIDE DEF t, n
<1>2. SUFFICES ASSUME b = CtrlA PROVE \E j : StartsRun(t, j, n + 1)
  BY <1>1 DEF HasStart, t
<1>3. CASE n > 0 /\ s[n] = CtrlA
  <2>1. PICK j : StartsRun(s, j, n)
    BY <1>3 DEF HasStart, n
  <2>2. StartsRun(t, j, n + 1)
    BY <1>1, <1>2, <2>1 DEF StartsRun
  <2> QED BY <2>2
<1>4. CASE ~(n > 0 /\ s[n] = CtrlA)
  <2>1. StartsRun(t, n + 1, n + 1)
    BY <1>1, <1>2, <1>4 DEF StartsRun
  <2> QED BY <2>1
<1> QED BY <1>3, <1>4

\* A run has one start.
LEMMA OneStart ==
    ASSUME NEW s, NEW i \in Nat, NEW j, NEW k, StartsRun(s, j, i), StartsRun(s, k, i)
    PROVE  j = k
<1>1. j \in Nat /\ k \in Nat /\ j >= 1 /\ k >= 1 /\ j <= i /\ k <= i
  BY DEF StartsRun
<1>2. ~(j < k)
  BY <1>1 DEF StartsRun
<1>3. ~(k < j)
  BY <1>1 DEF StartsRun
<1> QED BY <1>1, <1>2, <1>3

\* Earlier bytes keep their role.
LEMMA PrefixKept ==
    ASSUME NEW s \in Seq(Bytes), NEW b \in Bytes, NEW i \in 1 .. Len(s)
    PROVE  /\ IsPrefix(Append(s, b), i) <=> IsPrefix(s, i)
           /\ Dropped(Append(s, b), i) <=> Dropped(s, i)
<1>1. \A k \in 1 .. i : Append(s, b)[k] = s[k]
  OBVIOUS
<1>2. ASSUME NEW l \in 1 .. i
      PROVE  IsPrefix(Append(s, b), l) <=> IsPrefix(s, l)
  <2>1. \A k \in 1 .. l : Append(s, b)[k] = s[k]
    BY <1>1
  <2>2. ASSUME NEW j \in 1 .. l
        PROVE  /\ (\A k \in j .. l : Append(s, b)[k] = CtrlA) <=> (\A k \in j .. l : s[k] = CtrlA)
               /\ (j = 1 \/ Append(s, b)[j - 1] # CtrlA) <=> (j = 1 \/ s[j - 1] # CtrlA)
    <3> HIDE DEF CtrlA
    <3> QED BY <2>1
  <2>3. Append(s, b)[l] = s[l]
    BY <2>1
  <2> HIDE DEF CtrlA
  <2> QED BY <2>2, <2>3, Zenon DEF IsPrefix
<1>3. i > 1 => i - 1 \in 1 .. i
  OBVIOUS
<1>4. i \in 1 .. i
  OBVIOUS
<1>5. IsPrefix(Append(s, b), i) <=> IsPrefix(s, i)
  BY <1>2, <1>4
<1>6. i > 1 => (IsPrefix(Append(s, b), i - 1) <=> IsPrefix(s, i - 1))
  BY <1>2, <1>3
<1>7. Append(s, b)[i] = s[i]
  BY <1>1, <1>4
<1> HIDE DEF IsPrefix
<1> QED BY <1>5, <1>6, <1>7 DEF Dropped

LEMMA PrefixStarts ==
    ASSUME NEW s, NEW i
    PROVE  IsPrefix(s, i) <=> /\ Raw /\ s[i] = CtrlA
                              /\ \E j : StartsRun(s, j, i) /\ (i - j) % 2 = 0
BY Zenon DEF IsPrefix, StartsRun

\* The new byte is a prefix when it is a Ctrl-A that no prefix precedes: the parity
\* of a run alternates, as console_pump's escape flag does.
LEMMA PrefixOfLast ==
    ASSUME NEW s \in Seq(Bytes), NEW b \in Bytes, HasStart(s)
    PROVE  Escaped(Append(s, b)) <=> (Raw /\ ~Escaped(s) /\ b = CtrlA)
<1> DEFINE t == Append(s, b)
           n == Len(s)
<1>1. n \in Nat /\ Len(t) = n + 1 /\ t[n + 1] = b /\ \A i \in 1 .. n : t[i] = s[i]
  OBVIOUS
<1>2. Escaped(t) <=> /\ Raw /\ b = CtrlA
                     /\ \E j : StartsRun(t, j, n + 1) /\ ((n + 1) - j) % 2 = 0
  <2>1. Len(t) > 0 /\ Len(t) = n + 1 /\ t[n + 1] = b
    BY <1>1
  <2> HIDE DEF t, n
  <2>2. Escaped(t) <=> IsPrefix(t, n + 1)
    BY <2>1, Zenon DEF Escaped
  <2>3. (t[n + 1] = CtrlA) <=> (b = CtrlA)
    BY <2>1, Zenon
  <2>4. IsPrefix(t, n + 1) <=> /\ Raw /\ t[n + 1] = CtrlA
                               /\ \E j : StartsRun(t, j, n + 1) /\ ((n + 1) - j) % 2 = 0
    BY PrefixStarts
  <2> QED BY <2>2, <2>3, <2>4, Zenon
<1>3. Escaped(s) <=> /\ n > 0 /\ Raw /\ s[n] = CtrlA
                     /\ \E j : StartsRun(s, j, n) /\ (n - j) % 2 = 0
  BY Zenon DEF Escaped, IsPrefix, StartsRun
<1> HIDE DEF t, n
<1>4. ASSUME Escaped(t) PROVE ~Escaped(s)
  <2>1. PICK j : StartsRun(t, j, n + 1) /\ ((n + 1) - j) % 2 = 0
    BY <1>2, <1>4
  <2>2. SUFFICES ASSUME Escaped(s) PROVE FALSE
    OBVIOUS
  <2>3. PICK k : StartsRun(s, k, n) /\ (n - k) % 2 = 0
    BY <1>3, <2>2
  <2>4. StartsRun(t, k, n + 1)
    BY <1>1, <1>2, <1>4, <2>3 DEF StartsRun
  <2>5. n + 1 \in Nat
    BY <1>1
  <2>6. j = k
    BY <2>1, <2>4, <2>5, OneStart
  <2>7. j \in Int
    BY <2>1, <1>1 DEF StartsRun
  <2> QED BY <2>1, <2>3, <2>6, <2>7, <1>1
<1>5. ASSUME Raw, ~Escaped(s), b = CtrlA PROVE Escaped(t)
  <2>1. CASE n > 0 /\ s[n] = CtrlA
    <3>1. PICK j : StartsRun(s, j, n)
      BY <2>1 DEF HasStart, n
    <3>2. StartsRun(t, j, n + 1)
      BY <1>1, <1>5, <3>1 DEF StartsRun
    <3>3. (n - j) % 2 # 0 /\ j \in Int
      BY <1>3, <1>5, <2>1, <3>1, <1>1 DEF StartsRun
    <3>4. ((n + 1) - j) % 2 = 0
      <4>1. \A d \in Int : d % 2 # 0 => (d + 1) % 2 = 0
        OBVIOUS
      <4>2. n - j \in Int /\ (n + 1) - j = (n - j) + 1
        BY <3>3, <1>1
      <4> QED BY <3>3, <4>1, <4>2, Zenon
    <3> QED BY <1>2, <1>5, <3>2, <3>4
  <2>2. CASE ~(n > 0 /\ s[n] = CtrlA)
    <3>1. StartsRun(t, n + 1, n + 1)
      BY <1>1, <1>5, <2>2 DEF StartsRun
    <3>2. ((n + 1) - (n + 1)) % 2 = 0
      BY <1>1
    <3> QED BY <1>2, <1>5, <3>1, <3>2
  <2> QED BY <2>1, <2>2
<1> QED BY <1>2, <1>4, <1>5 DEF t

\* What a byte adds to the input meant for the guest.
Grown(s, m, i) == IF Dropped(s, i) THEN m ELSE Append(m, s[i])

\* f is the function Meant is defined with, up to k.
Reads(s, f, k) ==
    f = [n \in 0 .. k |-> IF n = 0 THEN <<>> ELSE Grown(s, f[n - 1], n)]

\* There is such a function, by induction on its domain.
LEMMA ReadsExist ==
    ASSUME NEW s
    PROVE  \A k \in Nat : \E f : Reads(s, f, k)
<1> DEFINE S == {k \in Nat : \E f : Reads(s, f, k)}
<1>1. 0 \in S
  <2> DEFINE f == [n \in 0 .. 0 |-> <<>>]
  <2>1. Reads(s, f, 0)
    BY DEF Reads
  <2> QED BY <2>1, Zenon
<1>2. ASSUME NEW k \in Nat, k \in S PROVE k + 1 \in S
  <2>1. PICK f : Reads(s, f, k)
    BY <1>2
  <2> DEFINE h == [n \in 0 .. k + 1 |-> IF n = k + 1 THEN Grown(s, f[k], k + 1) ELSE f[n]]
             w == [n \in 0 .. k + 1 |-> IF n = 0 THEN <<>> ELSE Grown(s, h[n - 1], n)]
  <2>2. ASSUME NEW n \in 0 .. k + 1 PROVE h[n] = w[n]
    <3>1. CASE n = k + 1
      BY <3>1
    <3>2. CASE n # k + 1 /\ n # 0
      <4>1. h[n] = f[n] /\ h[n - 1] = f[n - 1]
        BY <3>2
      <4>2. f[n] = Grown(s, f[n - 1], n)
        BY <2>1, <3>2 DEF Reads
      <4> QED BY <4>1, <4>2, <3>2
    <3>3. CASE n = 0
      BY <2>1, <3>3 DEF Reads
    <3> QED BY <3>1, <3>2, <3>3
  <2>3. Reads(s, h, k + 1)
    <3>1. h = w
      BY <2>2
    <3> QED BY <3>1 DEF Reads
  <2> HIDE DEF h
  <2> QED BY <2>3
<1> HIDE DEF S
<1>3. \A n \in Nat : n \in S
  BY <1>1, <1>2, SetInduction
<1> QED BY <1>3 DEF S

\* Its value at the end is Meant.
LEMMA MeantReads ==
    ASSUME NEW s \in Seq(Bytes)
    PROVE  \E f : Reads(s, f, Len(s)) /\ Meant(s) = f[Len(s)]
<1> DEFINE f == CHOOSE g : Reads(s, g, Len(s))
<1>1. Meant(s) = f[Len(s)]
  BY Zenon DEF Meant, Reads, Grown
<1>2. Reads(s, f, Len(s))
  <2>1. Len(s) \in Nat
    OBVIOUS
  <2>2. \E g : Reads(s, g, Len(s))
    BY <2>1, ReadsExist, Zenon
  <2> QED BY <2>2, Zenon
<1> QED BY <1>1, <1>2, Zenon

\* One more byte of input leaves what the others meant.
LEMMA MeantGrows ==
    ASSUME NEW s \in Seq(Bytes), NEW b \in Bytes
    PROVE  Meant(Append(s, b)) = Grown(Append(s, b), Meant(s), Len(s) + 1)
<1> DEFINE t == Append(s, b)
           n == Len(s)
<1>1. t \in Seq(Bytes) /\ n \in Nat /\ Len(t) = n + 1
  OBVIOUS
<1>2. PICK f : Reads(s, f, n) /\ Meant(s) = f[n]
  BY MeantReads
<1>3. PICK g : Reads(t, g, n + 1) /\ Meant(t) = g[n + 1]
  <2> HIDE DEF t
  <2>1. \E g : Reads(t, g, Len(t)) /\ Meant(t) = g[Len(t)]
    BY <1>1, MeantReads, Zenon
  <2> QED BY <1>1, <2>1, Zenon
<1>4. ASSUME NEW i \in 1 .. n, NEW m PROVE Grown(t, m, i) = Grown(s, m, i)
  <2>1. Dropped(t, i) <=> Dropped(s, i)
    BY PrefixKept, Zenon
  <2>2. t[i] = s[i]
    OBVIOUS
  <2> QED BY <2>1, <2>2, Zenon DEF Grown
<1> HIDE DEF t, n
<1> DEFINE S == {i \in Nat : i <= n => g[i] = f[i]}
<1>5. 0 \in S
  BY <1>1, <1>2, <1>3 DEF Reads
<1>6. ASSUME NEW i \in Nat, i \in S PROVE i + 1 \in S
  <2>1. SUFFICES ASSUME i + 1 <= n PROVE g[i + 1] = f[i + 1]
    OBVIOUS
  <2>2. g[i] = f[i]
    BY <1>1, <1>6, <2>1
  <2>3. g[i + 1] = Grown(t, g[i], i + 1)
    BY <1>1, <1>3, <2>1 DEF Reads
  <2>4. f[i + 1] = Grown(s, f[i], i + 1)
    BY <1>1, <1>2, <2>1 DEF Reads
  <2>5. i + 1 \in 1 .. n
    BY <1>1, <2>1
  <2> QED BY <1>4, <2>2, <2>3, <2>4, <2>5, Zenon
<1>7. g[n] = f[n]
  <2>1. \A i \in Nat : i \in S
    <3> HIDE DEF S
    <3> QED BY <1>5, <1>6, SetInduction
  <2> QED BY <2>1, <1>1
<1>8. g[n + 1] = Grown(t, g[n], n + 1)
  BY <1>1, <1>3 DEF Reads
<1> QED BY <1>2, <1>3, <1>7, <1>8, Zenon DEF t, n

\* No input means nothing.
LEMMA MeantNothing == Meant(<<>>) = <<>>
<1>1. <<>> \in Seq(Bytes) /\ Len(<<>>) = 0
  OBVIOUS
<1>2. PICK f : Reads(<<>>, f, 0) /\ Meant(<<>>) = f[0]
  BY <1>1, MeantReads, Zenon
<1> QED BY <1>2 DEF Reads

-----------------------------------------------------------------------------
(* The path of the input.                                                   *)

\* The driver's port lock: a handler that found a byte, and no other, is between
\* the IIR and the RBR reads, and the byte is still there.
Locked ==
    /\ \A c \in Contexts : InPhase(c, "rx") => rx_have
    /\ \A c, d \in Contexts : InPhase(c, "rx") /\ InPhase(d, "rx") => c = d

\* The pump's escape flag is the role of the last byte typed.
Typing ==
    /\ typed \in Seq(Bytes) /\ HasStart(typed)
    /\ escape \in BOOLEAN /\ (escape <=> Escaped(typed))

\* The bytes in flight have their types.
Bytewise ==
    /\ got \in Seq(Bytes \cup {NoByte}) /\ rx_have \in BOOLEAN
    /\ rx \in Bytes \cup {NoByte} /\ pending \in Bytes \cup {NoByte}

PathInv == IInv /\ Locked /\ Typing /\ Bytewise /\ InputExact

\* Where the bytes are when one moves from the input to the pump, the UART or the guest.
LEMMA Passing ==
    ASSUME NEW B, NEW g \in Seq(B), NEW x \in B, NEW y \in B
    PROVE  /\ g \o <<>> \o <<>> = g
           /\ g \o <<>> \o <<x>> = g \o <<x>> \o <<>>
           /\ Append(g \o <<>> \o <<>>, x) = g \o <<x>> \o <<>>
           /\ Append(g \o <<x>> \o <<>>, y) = g \o <<x>> \o <<y>>
           /\ Append(g, x) \o <<>> \o <<>> = g \o <<x>> \o <<>>
           /\ Append(g, x) \o <<>> \o <<y>> = g \o <<x>> \o <<y>>
<1>1. \A h \in Seq(B) : h \o <<>> = h
  OBVIOUS
<1>2. \A h \in Seq(B), z \in B : Append(h, z) \in Seq(B) /\ h \o <<z>> = Append(h, z)
  OBVIOUS
<1>3. Append(g, x) \in Seq(B) /\ g \o <<x>> = Append(g, x)
  BY <1>2, Zenon
<1>4. Append(g, x) \o <<y>> = Append(Append(g, x), y)
  BY <1>2, <1>3, Zenon
<1>5. g \o <<>> = g /\ Append(g, x) \o <<>> = Append(g, x)
  BY <1>1, <1>3, Zenon
<1> QED BY <1>3, <1>4, <1>5, Zenon

\* console_pump's escape flag drops a byte exactly when the input does.
LEMMA Accepted ==
    ASSUME Typing, NEW b \in Bytes, Accept(b)
    PROVE  /\ Typing'
           /\ Meant(typed') = IF escape' \/ quit' THEN Meant(typed) ELSE Append(Meant(typed), b)
<1> DEFINE t == Append(typed, b)
           n == Len(typed)
<1>1. typed \in Seq(Bytes) /\ t \in Seq(Bytes) /\ n \in Nat /\ Len(t) = n + 1 /\ t[n + 1] = b
  BY DEF Typing
<1>2. typed' = t
  BY DEF Accept
<1>3. HasStart(t)
  BY AppendedStart DEF Typing
<1>4. Escaped(t) <=> (Raw /\ ~Escaped(typed) /\ b = CtrlA)
  BY PrefixOfLast DEF Typing
<1>5. n > 0 => (IsPrefix(t, n) <=> IsPrefix(typed, n))
  <2>1. n > 0 => n \in 1 .. n
    BY <1>1
  <2> QED BY <1>1, <2>1, PrefixKept, Zenon
<1>6. Meant(t) = Grown(t, Meant(typed), n + 1)
  BY <1>1, MeantGrows
<1> HIDE DEF t, n
<1>7. Escaped(t) <=> escape'
  BY <1>4, Zenon DEF Accept, Typing
<1>8. Typing'
  BY <1>1, <1>2, <1>3, <1>7, BoundAssumption DEF Typing, Accept
<1>9. Escaped(t) <=> IsPrefix(t, n + 1)
  BY <1>1 DEF Escaped
<1>10. Escaped(typed) <=> n > 0 /\ IsPrefix(typed, n)
  BY DEF Escaped, n
<1>11. n + 1 > 1 <=> n > 0
  BY <1>1
<1>12. Dropped(t, n + 1) <=> Escaped(t) \/ (n > 0 /\ IsPrefix(t, n) /\ b = Quit)
  <2>1. (n + 1) - 1 = n
    BY <1>1
  <2> QED BY <2>1, <1>1, <1>9, <1>11, Zenon DEF Dropped
<1>13. IsPrefix(typed, n) => Raw
  BY DEF IsPrefix
<1>14. Dropped(t, n + 1) <=> escape' \/ quit'
  BY <1>5, <1>7, <1>10, <1>12, <1>13 DEF Accept, Typing
<1> QED BY <1>1, <1>2, <1>6, <1>8, <1>14, Zenon DEF Grown

\* What moving a handler does to the phases.
LEMMA MovePhase ==
    ASSUME IInv, NEW c \in Contexts, NEW q, handler[c] # <<>>, Move(c, q),
           NEW d \in Contexts, NEW r
    PROVE  InPhase(d, r)' <=> IF d = c THEN r = q ELSE InPhase(d, r)
<1>1. PICK s, p : handler[c] = One(s, p)
  BY DEF IInv, Handling
<1>2. handler' = [handler EXCEPT ![c] = [handler[c] EXCEPT ![1].phase = q]]
  BY DEF Move, IInv
<1>3. [handler[c] EXCEPT ![1].phase = q] = One(s, q)
  <2>1. [One(s, p) EXCEPT ![1].phase = q] = One(s, q)
    BY OneMoved, Zenon
  <2> QED BY <1>1, <2>1, Zenon
<1>4. handler' = [handler EXCEPT ![c] = One(s, q)]
  BY <1>2, <1>3, Zenon
<1>5. One(s, q) # <<>> /\ One(s, q)[1].phase = q
  BY DEF One
<1>6. CASE d = c
  <2>1. handler'[d] = One(s, q)
    BY <1>4, <1>6 DEF IInv
  <2> QED BY <1>5, <1>6, <2>1, Zenon DEF InPhase, Top
<1>7. CASE d # c
  <2>1. handler'[d] = handler[d]
    BY <1>4, <1>7 DEF IInv
  <2> QED BY <1>7, <2>1, Zenon DEF InPhase, Top
<1> QED BY <1>6, <1>7

\* A handler that starts, ends or moves anywhere but to the RBR read keeps the lock.
LEMMA StillLocked ==
    ASSUME Locked, rx_have' = rx_have \/ rx_have' = TRUE,
           \A d \in Contexts : InPhase(d, "rx")' => InPhase(d, "rx")
    PROVE  Locked'
BY DEF Locked

\* A step that moves no byte leaves the input where it is.
LEMMA SameBytes ==
    ASSUME Typing, Bytewise, InputExact,
           UNCHANGED <<typed, escape, got, rx, rx_have, pending>>
    PROVE  Typing' /\ Bytewise' /\ InputExact'
<1>1. Typing'
  BY DEF Typing
<1>2. Bytewise'
  BY DEF Bytewise
<1>3. InputExact'
  BY DEF InputExact
<1> QED BY <1>1, <1>2, <1>3

\* A fresh byte is dropped, or goes to the UART, or waits in the pump.
LEMMA PumpInv ==
    ASSUME PathInv, ConsolePump
    PROVE  Locked' /\ Typing' /\ Bytewise' /\ InputExact'
<1> DEFINE B == Bytes \cup {NoByte}
<1>0. /\ got \in Seq(B) /\ rx \in B /\ pending \in B /\ rx_have \in BOOLEAN /\ got' = got
      /\ NoByte \notin Bytes
      /\ Meant(typed) = got \o Held(rx, rx_have) \o Held(pending, pending # NoByte)
  BY DEF PathInv, Bytewise, InputExact, ConsolePump, Bytes, NoByte, CtrlA, Quit, Key
<1>1. Locked'
  <2>1. handler' = handler /\ (rx_have' = rx_have \/ rx_have' = TRUE)
    BY DEF ConsolePump, Offer
  <2> QED BY <2>1, StillLocked, Zenon DEF PathInv, InPhase, Top
<1>2. CASE Offer(pending) /\ UNCHANGED <<typed, escape, quit>>
  <2>1. Typing'
    BY <1>2 DEF PathInv, Typing
  <2>2. CASE pending # NoByte /\ ~rx_have
    <3>1. pending' = NoByte /\ rx_have' = TRUE /\ rx' = pending
      BY <1>2, <2>2 DEF Offer
    <3>2. Meant(typed) = got \o <<>> \o <<pending>>
      BY <1>0, <2>2, Zenon DEF Held
    <3>3. got \o <<>> \o <<pending>> = got \o <<pending>> \o <<>>
      BY <1>0, Passing
    <3>4. InputExact'
      BY <1>0, <1>2, <3>1, <3>2, <3>3, Zenon DEF InputExact, Held
    <3> QED BY <1>0, <1>1, <2>1, <3>1, <3>4 DEF Bytewise
  <2>3. CASE ~(pending # NoByte /\ ~rx_have)
    <3>1. UNCHANGED <<typed, escape, got, rx, rx_have, pending>>
      BY <1>0, <1>2, <2>3 DEF Offer
    <3> QED BY <3>1, <1>1, SameBytes DEF PathInv
  <2> QED BY <2>2, <2>3
<1>3. ASSUME pending = NoByte, NEW b \in Bytes, Accept(b),
             Offer(IF escape' \/ quit' THEN NoByte ELSE b)
      PROVE  Typing' /\ Bytewise' /\ InputExact'
  <2>1. /\ Typing'
        /\ Meant(typed') = IF escape' \/ quit' THEN Meant(typed) ELSE Append(Meant(typed), b)
    BY <1>3, Accepted DEF PathInv
  <2>2. CASE escape' \/ quit'
    <3>1. pending' = NoByte /\ UNCHANGED <<rx_have, rx>>
      BY <1>3, <2>2 DEF Offer
    <3>2. InputExact'
      BY <1>0, <1>3, <2>1, <2>2, <3>1, Zenon DEF InputExact
    <3> QED BY <1>0, <2>1, <3>1, <3>2 DEF Bytewise
  <2>3. CASE ~(escape' \/ quit')
    <3>0. b # NoByte /\ b \in B
      BY <1>0
    <3>1. Meant(typed') = Append(got \o Held(rx, rx_have) \o <<>>, b)
      BY <1>0, <1>3, <2>1, <2>3, Zenon DEF Held
    <3>2. CASE rx_have
      <4>1. pending' = b /\ UNCHANGED <<rx_have, rx>>
        BY <1>3, <2>3, <3>2 DEF Offer
      <4>2. Meant(typed') = Append(got \o <<rx>> \o <<>>, b)
        BY <3>1, <3>2, Zenon DEF Held
      <4>3. Append(got \o <<rx>> \o <<>>, b) = got \o <<rx>> \o <<b>>
        BY <1>0, <3>0, Passing
      <4>4. InputExact'
        BY <1>0, <3>0, <3>2, <4>1, <4>2, <4>3, Zenon DEF InputExact, Held
      <4> QED BY <1>0, <2>1, <4>1, <4>4 DEF Bytewise
    <3>3. CASE ~rx_have
      <4>1. pending' = NoByte /\ rx_have' = TRUE /\ rx' = b
        BY <1>3, <2>3, <3>0, <3>3 DEF Offer
      <4>2. Meant(typed') = Append(got \o <<>> \o <<>>, b)
        BY <3>1, <3>3, Zenon DEF Held
      <4>3. Append(got \o <<>> \o <<>>, b) = got \o <<b>> \o <<>>
        BY <1>0, <3>0, Passing
      <4>4. InputExact'
        BY <1>0, <4>1, <4>2, <4>3, Zenon DEF InputExact, Held
      <4> QED BY <1>0, <2>1, <4>1, <4>4 DEF Bytewise
    <3> QED BY <3>2, <3>3
  <2> QED BY <2>2, <2>3
<1> QED BY <1>1, <1>2, <1>3 DEF ConsolePump

\* The byte read is the one the UART held.
LEMMA ReadRbrInv ==
    ASSUME PathInv, NEW c \in Contexts, ReadRbr(c)
    PROVE  Locked' /\ Typing' /\ Bytewise' /\ InputExact'
<1> DEFINE B == Bytes \cup {NoByte}
<1>0. /\ got \in Seq(B) /\ rx \in B /\ pending \in B
      /\ Meant(typed) = got \o Held(rx, rx_have) \o Held(pending, pending # NoByte)
  BY DEF PathInv, Bytewise, InputExact
<1>1. /\ rx_have /\ handler[c] # <<>> /\ Move(c, "done") /\ rx_have' = FALSE
      /\ got' = Append(got, rx) /\ UNCHANGED <<rx, typed, pending, escape>>
  BY DEF PathInv, Locked, ReadRbr, InPhase, console
<1>2. Locked'
  <2>1. ASSUME NEW d \in Contexts PROVE ~InPhase(d, "rx")'
    <3>1. InPhase(d, "rx")' <=> IF d = c THEN "rx" = "done" ELSE InPhase(d, "rx")
      BY <1>1, MovePhase DEF PathInv
    <3>2. InPhase(d, "rx") => d = c
      BY DEF PathInv, Locked, ReadRbr
    <3> QED BY <3>1, <3>2
  <2> QED BY <2>1, Zenon DEF Locked
<1>3. Typing'
  BY <1>1 DEF PathInv, Typing
<1>4. Bytewise'
  <2>1. Append(got, rx) \in Seq(B)
    BY <1>0
  <2> QED BY <1>0, <1>1, <2>1, Zenon DEF Bytewise
<1>5. InputExact'
  <2>1. CASE pending = NoByte
    <3>1. Append(got, rx) \o <<>> \o <<>> = got \o <<rx>> \o <<>>
      BY <1>0, Passing
    <3> QED BY <1>0, <1>1, <2>1, <3>1, Zenon DEF InputExact, Held
  <2>2. CASE pending # NoByte
    <3>1. Append(got, rx) \o <<>> \o <<pending>> = got \o <<rx>> \o <<pending>>
      BY <1>0, Passing
    <3> QED BY <1>0, <1>1, <2>2, <3>1, Zenon DEF InputExact, Held
  <2> QED BY <2>1, <2>2
<1> QED BY <1>2, <1>3, <1>4, <1>5

LEMMA PathNext ==
    ASSUME MaxNest = 1
    PROVE  PathInv /\ [Next]_vars => PathInv'
<1> SUFFICES ASSUME PathInv, [Next]_vars PROVE PathInv'
  OBVIOUS
<1>0. IInv /\ IInv'
  BY NextInv DEF PathInv
<1>1. SUFFICES Locked' /\ Typing' /\ Bytewise' /\ InputExact'
  BY <1>0 DEF PathInv
<1>2. CASE ConsolePump
  BY <1>2, PumpInv
<1>3. CASE Transmit \/ WriteIer \/ Raise \/ WritePlic \/ UNCHANGED vars
  <2>1. UNCHANGED <<handler, typed, escape, got, rx, rx_have, pending>>
    BY <1>3, Zenon DEF Transmit, WriteIer, Raise, WritePlic, vars, uart, console
  <2>2. Locked'
    BY <2>1, StillLocked DEF PathInv, InPhase, Top
  <2> QED BY <2>1, <2>2, SameBytes DEF PathInv
<1>4. ASSUME NEW c \in Contexts, Handle(c) PROVE Locked' /\ Typing' /\ Bytewise' /\ InputExact'
  <2>1. CASE ReadRbr(c)
    BY <2>1, ReadRbrInv
  <2>2. ASSUME ~ReadRbr(c) PROVE UNCHANGED <<typed, escape, got, rx, rx_have, pending>>
    BY <1>4, <2>2 DEF Handle, Claim, ReadIir, Acknowledge, Complete, uart, console
  <2>3. ASSUME ~ReadRbr(c) PROVE Typing' /\ Bytewise' /\ InputExact'
    BY <2>2, <2>3, SameBytes DEF PathInv
  <2>4. CASE Claim(c) \/ Complete(c)
    <3>1. ASSUME NEW d \in Contexts, InPhase(d, "rx")' PROVE InPhase(d, "rx")
      <4>1. CASE d # c
        <5>1. handler'[d] = handler[d]
          BY <1>0, <2>4, <4>1 DEF Claim, Complete, IInv
        <5> QED BY <3>1, <5>1 DEF InPhase, Top
      <4>2. CASE d = c /\ Claim(c)
        <5>1. handler[c] = <<>>
          <6>1. Len(handler[c]) < 1 /\ Handling(handler[c], claimed[c])
            BY <1>0, <4>2 DEF Claim, IInv
          <6> QED BY <6>1, OneProps DEF Handling
        <5>2. handler'[c] = One(plic_best(c), "serve") \o <<>>
          BY <1>0, <4>2, <5>1 DEF Claim, IInv, One
        <5>3. handler'[c] = One(plic_best(c), "serve")
          BY <5>2, OneProps
        <5>4. One(plic_best(c), "serve")[1].phase = "serve"
          BY DEF One
        <5> QED BY <3>1, <4>2, <5>3, <5>4 DEF InPhase, Top
      <4>3. CASE d = c /\ Complete(c)
        <5>1. handler[c] # <<>> /\ handler'[c] = Tail(handler[c])
          BY <1>0, <4>3 DEF Complete, InPhase, IInv
        <5>2. handler'[c] = <<>>
          <6>1. PICK s, p : handler[c] = One(s, p)
            BY <1>0, <5>1 DEF IInv, Handling
          <6>2. Tail(One(s, p)) = <<>>
            BY OneProps, Zenon
          <6> QED BY <5>1, <6>1, <6>2, Zenon
        <5> QED BY <3>1, <4>3, <5>2 DEF InPhase
      <4> QED BY <2>4, <4>1, <4>2, <4>3
    <3>2. ~ReadRbr(c)
      <4>1. ASSUME ReadRbr(c), Claim(c) PROVE FALSE
        <5>1. Len(handler[c]) < 1 /\ handler[c] # <<>> /\ Handling(handler[c], claimed[c])
          BY <1>0, <4>1 DEF Claim, ReadRbr, InPhase, IInv
        <5> QED BY <5>1, OneProps DEF Handling
      <4>2. ASSUME ReadRbr(c), Complete(c) PROVE FALSE
        BY <4>2 DEF ReadRbr, Complete, InPhase
      <4> QED BY <2>4, <4>1, <4>2
    <3>3. Locked'
      BY <2>2, <3>1, <3>2, StillLocked DEF PathInv
    <3> QED BY <2>3, <3>2, <3>3
  <2>5. CASE ReadIir(c) \/ Acknowledge(c)
    <3>1. PICK q : Move(c, q) /\ handler[c] # <<>> /\ (q = "rx" => ReadIir(c) /\ rx_have)
      BY <2>5 DEF ReadIir, Acknowledge, InPhase
    <3>2. \A d \in Contexts : InPhase(d, "rx")' <=> IF d = c THEN "rx" = q ELSE InPhase(d, "rx")
      BY <1>0, <3>1, MovePhase
    <3>3. ~ReadRbr(c)
      BY <2>5 DEF ReadIir, Acknowledge, ReadRbr, InPhase
    <3>4. Locked'
      <4>1. CASE q = "rx"
        <5>1. rx_have /\ rx_have' /\ \A d \in Contexts : ~InPhase(d, "rx")
          BY <2>2, <3>1, <3>3, <4>1 DEF ReadIir
        <5> QED BY <3>2, <4>1, <5>1 DEF Locked
      <4>2. CASE q # "rx"
        BY <2>2, <3>2, <3>3, <4>2, StillLocked DEF PathInv
      <4> QED BY <4>1, <4>2
    <3> QED BY <2>3, <3>3, <3>4
  <2> QED BY <1>4, <2>1, <2>4, <2>5 DEF Handle
<1> QED BY <1>2, <1>3, <1>4 DEF Next

\* console_pump through uart_read: the guest reads every byte the host typed for
\* it, once, in order, for any number of contexts sharing the UART and any input.
THEOREM InputCorrect ==
    ASSUME MaxNest = 1
    PROVE  Spec => []InputExact
<1>1. Init => PathInv
  <2> SUFFICES ASSUME Init PROVE PathInv
    OBVIOUS
  <2>1. IInv
    BY InitInv
  <2>2. Locked
    BY DEF Init, Locked, InPhase
  <2>3. Typing
    <3>1. typed = <<>> /\ typed \in Seq(Bytes) /\ ~(Len(typed) > 0) /\ escape = FALSE
      BY DEF Init
    <3> QED BY <3>1, Zenon DEF Typing, HasStart, Escaped
  <2>4. Bytewise
    <3>1. <<>> \in Seq(Bytes \cup {NoByte})
      OBVIOUS
    <3> QED BY <3>1, Zenon DEF Init, Bytewise
  <2>5. InputExact
    <3>1. <<>> \o <<>> \o <<>> = <<>>
      OBVIOUS
    <3> QED BY <3>1, MeantNothing DEF Init, InputExact, Held
  <2> QED BY <2>1, <2>2, <2>3, <2>4, <2>5 DEF PathInv
<1>2. PathInv /\ [Next]_vars => PathInv'
  BY PathNext
<1>3. PathInv => InputExact
  BY DEF PathInv
<1> QED BY <1>1, <1>2, <1>3, PTL DEF Spec
=============================================================================
