-------------------------- MODULE VirtioBlkProofs --------------------------
(***************************************************************************)
(* Proofs about VirtioBlk, for any ring size, index width, disk and set of *)
(* requests.                                                               *)
(***************************************************************************)
EXTENDS VirtioBlk, FiniteSetTheorems, SequenceTheorems, WellFoundedInduction, TLAPS

\* No completion is lost between the device's interrupt bit and the driver's
\* handler: virtio_notify raises the bit after it publishes, the handler clears
\* it before it collects, and it leaves only when it has caught up.
THEOREM CompletionCorrect == Spec => []NoLostCompletion
<1>1. Init => NoLostCompletion
  BY DEF Init, NoLostCompletion
<1>2. NoLostCompletion /\ [Next]_vars => NoLostCompletion'
  <2> SUFFICES ASSUME NoLostCompletion, [Next]_vars
               PROVE  NoLostCompletion'
    OBVIOUS
  <2> USE DEF NoLostCompletion, vars, rings, device, driver, history
  <2>1. CASE Notify
    BY <2>1 DEF Notify
  <2>2. CASE Reset
    BY <2>2 DEF Reset
  <2>3. CASE SetUp
    BY <2>3 DEF SetUp, FreshRings
  <2>4. CASE Post
    BY <2>4 DEF Post
  <2>5. CASE Acknowledge
    BY <2>5 DEF Acknowledge
  <2>6. CASE Collect
    <3>1. CASE last_used = used_idx
      BY <2>6, <3>1 DEF Collect
    <3>2. CASE last_used # used_idx
      BY <2>6, <3>2 DEF Collect
    <3> QED BY <3>1, <3>2
  <2>7. CASE UNCHANGED vars
    BY <2>7
  <2> QED BY <2>1, <2>2, <2>3, <2>4, <2>5, <2>6, <2>7, Zenon DEF Next
<1> QED BY <1>1, <1>2, PTL DEF Spec

-----------------------------------------------------------------------------
(* The rings as one queue.  `outstanding' lists the requests in flight; the *)
(* first F of them are in the used ring, the others in the available one.   *)
(* D is the sequence of images the device passes through: D[j] is the image *)
(* once outstanding[1..j] are served.                                       *)

\* What the remainder of a division is.
LEMMA Division ==
    ASSUME NEW m \in Nat \ {0}, NEW x \in Int
    PROVE  /\ x % m \in 0 .. m - 1 /\ x % m \in Int
           /\ \E q \in Int : x = (q * m) + (x % m)
<1>1. x \div m \in Int /\ x % m \in 0 .. m - 1 /\ x % m \in Int
  OBVIOUS
<1>2. x = ((x \div m) * m) + (x % m)
  OBVIOUS
<1> QED BY <1>1, <1>2, Zenon

LEMMA Remainder ==
    ASSUME NEW m \in Nat \ {0}, NEW q \in Int, NEW t \in 0 .. m - 1
    PROVE  ((q * m) + t) % m = t
OBVIOUS

\* Wrapping an index that is about to be advanced changes nothing.
LEMMA NextIndex ==
    ASSUME NEW x \in Nat
    PROVE  ((x % IndexMod) + 1) % IndexMod = (x + 1) % IndexMod
<1> DEFINE t == x % IndexMod
<1>0. IndexMod \in Nat \ {0} /\ IndexMod > 1
  BY RingAssumption
<1>1. t \in 0 .. IndexMod - 1 /\ \E q \in Int : x = (q * IndexMod) + t
  <2>1. x \in Int OBVIOUS
  <2> QED BY <2>1, <1>0, Division, Zenon
<1> HIDE DEF t
<1>2. PICK q \in Int : x = (q * IndexMod) + t
  BY <1>1
<1>3. CASE t + 1 < IndexMod
  <2>1. x + 1 = (q * IndexMod) + (t + 1) /\ t + 1 = (0 * IndexMod) + (t + 1)
    BY <1>0, <1>1, <1>2
  <2>2. t + 1 \in 0 .. IndexMod - 1
    BY <1>0, <1>1, <1>3
  <2>3. (x + 1) % IndexMod = t + 1
    BY <2>1, <2>2, <1>0, Remainder, Zenon
  <2>4. (t + 1) % IndexMod = t + 1
    BY <2>2, <1>0
  <2> QED BY <2>3, <2>4 DEF t
<1>4. CASE t + 1 = IndexMod
  <2>1. x + 1 = ((q + 1) * IndexMod) + 0 /\ t + 1 = (1 * IndexMod) + 0
    BY <1>0, <1>1, <1>2, <1>4
  <2> QED BY <2>1, <1>0, Remainder DEF t
<1> QED BY <1>0, <1>1, <1>3, <1>4

\* Nor does a whole turn of the indices.
LEMMA Wrap ==
    ASSUME NEW x \in Nat, NEW n \in Nat
    PROVE  (x + IndexMod + n) % IndexMod = (x + n) % IndexMod
<1> DEFINE t == (x + n) % IndexMod
<1>0. IndexMod \in Nat \ {0}
  BY RingAssumption
<1>1. t \in 0 .. IndexMod - 1 /\ \E q \in Int : x + n = (q * IndexMod) + t
  <2>1. x + n \in Int OBVIOUS
  <2> QED BY <2>1, <1>0, Division, Zenon
<1> HIDE DEF t
<1>2. PICK q \in Int : x + n = (q * IndexMod) + t
  BY <1>1
<1>3. x + IndexMod + n = ((q + 1) * IndexMod) + t /\ q + 1 \in Int
  BY <1>0, <1>1, <1>2
<1> QED BY <1>3, <1>0, <1>1, Remainder, Zenon DEF t

\* Indices wrap at a multiple of the ring size, so that the slot of an index is
\* that of the number it stands for.
LEMMA SlotOfIndex ==
    ASSUME NEW x \in Nat
    PROVE  (x % IndexMod) % QueueNum = x % QueueNum
<1>0. QueueNum \in Nat \ {0} /\ IndexMod \in Nat \ {0} /\ IndexMod % QueueNum = 0
  BY RingAssumption
<1>1. PICK k \in Int : IndexMod = k * QueueNum
  <2>1. IndexMod \in Int
    BY <1>0
  <2>2. PICK k \in Int : IndexMod = (k * QueueNum) + 0
    BY <2>1, <1>0, Division, Zenon
  <2> QED BY <2>2, <1>0
<1> DEFINE r == x % IndexMod
           t == r % QueueNum
<1>2. r \in Int /\ \E q \in Int : x = (q * IndexMod) + r
  <2>1. x \in Int OBVIOUS
  <2> QED BY <2>1, <1>0, Division, Zenon
<1>3. t \in 0 .. QueueNum - 1 /\ \E p \in Int : r = (p * QueueNum) + t
  BY <1>0, <1>2, Division, Zenon
<1> HIDE DEF r, t
<1>4. PICK q \in Int : x = (q * IndexMod) + r
  BY <1>2
<1>5. PICK p \in Int : r = (p * QueueNum) + t
  BY <1>3
<1>6. x = (((q * k) + p) * QueueNum) + t /\ (q * k) + p \in Int
  BY <1>1, <1>3, <1>4, <1>5, <1>0
<1>7. x % QueueNum = t
  BY <1>6, <1>3, <1>0, Remainder
<1> QED BY <1>7 DEF r, t

\* Fewer than QueueNum apart, two entries are in different slots.
LEMMA SlotsDiffer ==
    ASSUME NEW x \in Nat, NEW y \in Nat, x < y, y < x + QueueNum
    PROVE  x % QueueNum # y % QueueNum
<1> DEFINE t == x % QueueNum
           u == y % QueueNum
<1>0. QueueNum \in Nat \ {0}
  BY RingAssumption
<1>1. t \in Int /\ \E p \in Int : x = (p * QueueNum) + t
  <2>1. x \in Int OBVIOUS
  <2> QED BY <2>1, <1>0, Division, Zenon
<1>2. u \in Int /\ \E q \in Int : y = (q * QueueNum) + u
  <2>1. y \in Int OBVIOUS
  <2> QED BY <2>1, <1>0, Division, Zenon
<1> HIDE DEF t, u
<1>3. SUFFICES ASSUME t = u PROVE FALSE
  BY DEF t, u
<1>4. PICK p \in Int : x = (p * QueueNum) + t
  BY <1>1
<1>5. PICK q \in Int : y = (q * QueueNum) + t
  BY <1>2, <1>3
<1>6. y - x = (q - p) * QueueNum /\ q - p \in Int
  BY <1>0, <1>1, <1>4, <1>5
<1>7. \A z \in Int : z * QueueNum > 0 => z > 0
  BY <1>0
<1>8. \A z \in Int : z * QueueNum < QueueNum => z < 1
  BY <1>0
<1> QED BY <1>6, <1>7, <1>8, <1>0

-----------------------------------------------------------------------------
(* virtio_notify's loop.                                                    *)

\* Induction, on a set of naturals.
LEMMA SetInduction ==
    ASSUME NEW S, 0 \in S, \A n \in Nat : n \in S => n + 1 \in S
    PROVE  \A n \in Nat : n \in S
<1> DEFINE T == Nat \ S
<1>1. SUFFICES ASSUME T # {} PROVE FALSE
  OBVIOUS
<1>2. PICK x \in T : \A y \in T : ~(<<y, x>> \in OpToRel(<, Nat))
  <2>1. T \subseteq Nat OBVIOUS
  <2> QED BY <1>1, <2>1, WFMin, NatLessThanWellFounded, Zenon
<1>3. x # 0 /\ x - 1 \in Nat
  OBVIOUS
<1>4. x - 1 \notin T
  <2>1. SUFFICES ASSUME x - 1 \in T PROVE FALSE OBVIOUS
  <2>2. ~(<<x - 1, x>> \in OpToRel(<, Nat)) BY <1>2, <2>1, Zenon
  <2> QED BY <2>2, <1>3 DEF OpToRel
<1> QED BY <1>3, <1>4

\* The loop starts from the device's state and takes one turn at a time: there
\* is a function with the equation that defines Served.
LEMMA ServedTurns ==
    /\ Served[0] = [disk |-> disk, dirty |-> dirty, result |-> result,
                    used |-> used, used_idx |-> used_idx]
    /\ \A n \in 1 .. IndexMod : Served[n] =
           Service(avail[((last_avail + n - 1) % IndexMod) % QueueNum], Served[n - 1])
<1> DEFINE start == [disk |-> disk, dirty |-> dirty, result |-> result,
                     used |-> used, used_idx |-> used_idx]
           Turn(n, m) == Service(avail[((last_avail + n - 1) % IndexMod) % QueueNum], m)
           Solves(g, k) == g = [n \in 0 .. k |-> IF n = 0 THEN start ELSE Turn(n, g[n - 1])]
           S == {k \in Nat : \E g : Solves(g, k)}
<1>1. Served = CHOOSE g : Solves(g, IndexMod)
  BY DEF Served
<1> HIDE DEF start, Turn
<1>2. 0 \in S
  <2> DEFINE g == [n \in 0 .. 0 |-> start]
  <2>1. Solves(g, 0) OBVIOUS
  <2> QED BY <2>1, Zenon
<1>3. ASSUME NEW k \in Nat, k \in S PROVE k + 1 \in S
  <2>1. PICK g : Solves(g, k) BY <1>3
  <2> DEFINE h == [n \in 0 .. k + 1 |-> IF n = k + 1 THEN Turn(k + 1, g[k]) ELSE g[n]]
             w == [n \in 0 .. k + 1 |-> IF n = 0 THEN start ELSE Turn(n, h[n - 1])]
  <2>2. ASSUME NEW n \in 0 .. k + 1 PROVE h[n] = w[n]
    <3>1. CASE n = k + 1 BY <3>1
    <3>2. CASE n # k + 1 /\ n # 0
      <4>1. h[n] = g[n] BY <3>2
      <4>2. g[n] = Turn(n, g[n - 1]) BY <2>1, <3>2
      <4>3. h[n - 1] = g[n - 1] BY <3>2
      <4> QED BY <4>1, <4>2, <4>3, <3>2
    <3>3. CASE n = 0 BY <2>1, <3>3
    <3> QED BY <3>1, <3>2, <3>3
  <2>3. Solves(h, k + 1)
    <3>1. h = w BY <2>2
    <3> QED BY <3>1
  <2> HIDE DEF h, Solves
  <2> QED BY <2>3
<1>4. IndexMod \in S
  <2>1. \A n \in Nat : n \in S
    <3> HIDE DEF S
    <3> QED BY <1>2, <1>3, SetInduction
  <2> QED BY <2>1, RingAssumption, Zenon
<1>5. Solves(Served, IndexMod)
  <2>1. \E g : Solves(g, IndexMod) BY <1>4
  <2> HIDE DEF Solves
  <2> QED BY <1>1, <2>1
<1>6. Served[0] = start /\ \A n \in 1 .. IndexMod : Served[n] = Turn(n, Served[n - 1])
  BY <1>5, RingAssumption
<1> QED BY <1>6 DEF start, Turn

-----------------------------------------------------------------------------
(* The inductive invariant.                                                 *)

\* What a read posted on image d should return.
Wanted(r, d) == IF r.type = "in"
                THEN [i \in 1 .. Len(r.bufs) |-> IF r.sector + i - 1 \in Image
                                                 THEN d[r.sector + i - 1] ELSE Zero]
                ELSE <<>>

\* The requests in flight are distinct chains, as many as the indices say.
Flight ==
    /\ outstanding \in Seq(Heads) /\ Len(outstanding) <= QueueNum
    /\ \A i, j \in 1 .. Len(outstanding) : outstanding[i] = outstanding[j] => i = j
    /\ avail_idx = (last_used + Len(outstanding)) % IndexMod

\* With device memory m, F of them are in the used ring and the others wait in
\* the available ring, both in order.
Split(m, F) ==
    /\ F \in 0 .. Len(outstanding)
    /\ m.used \in [Slots -> Heads]
    /\ m.used_idx = (last_used + F) % IndexMod
    /\ \A j \in 1 .. F : m.used[(last_used + j - 1) % QueueNum] = outstanding[j]
    /\ \A j \in F + 1 .. Len(outstanding) :
           avail[(last_used + j - 1) % QueueNum] = outstanding[j]

\* The waiting requests lead from the image of m to `mirror' through the images
\* D, and each waiting read expects what its predecessors leave.
Future(m, F, D) ==
    /\ m.disk = D[F] /\ D[Len(outstanding)] = mirror
    /\ \A j \in F + 1 .. Len(outstanding) :
           /\ D[j] = Stored(desc[outstanding[j]], D[j - 1])
           /\ expect[outstanding[j]] = Wanted(desc[outstanding[j]], D[j - 1])

\* Request j, in the used ring with F others, has its data and, if a flush, has
\* left only later writes dirty.
Settled(m, F, j) ==
    LET h == outstanding[j]
    IN  /\ desc[h].whole /\ m.result[h].status = "ok" => m.result[h].data = expect[h]
        /\ desc[h].whole /\ desc[h].type = "flush"
              => m.dirty \subseteq UNION {Written(desc[outstanding[k]]) : k \in j + 1 .. F}

\* The shape of the device memory the loop works on.
IsMemory(m) ==
    /\ DOMAIN m.result = Heads /\ DOMAIN m.disk = Image /\ m.dirty \subseteq Image

Stage(m, F, D) ==
    /\ IsMemory(m) /\ Split(m, F) /\ Future(m, F, D)
    /\ \A j \in 1 .. F : Settled(m, F, j)

Here == [disk |-> disk, dirty |-> dirty, result |-> result, used |-> used, used_idx |-> used_idx]

IInv ==
    /\ TypeOK
    /\ DOMAIN result = Heads /\ DOMAIN expect = Heads
    /\ IF queue_ready
       THEN /\ Flight /\ last_avail = used_idx
            /\ \E F, D : Stage(Here, F, D)
       ELSE last_avail = 0 /\ outstanding = <<>> /\ mirror = disk

\* A read that succeeds returns what was wanted of it.
LEMMA AnswerRight ==
    ASSUME NEW r, NEW d, Answer(r, d).status = "ok"
    PROVE  Answer(r, d).data = Wanted(r, d)
BY Zenon DEF Answer, Wanted, ReadBack

\* One turn of the loop moves the oldest waiting request to the used ring.
LEMMA TurnStage ==
    ASSUME TypeOK, Flight, NEW m, NEW F, NEW D, Stage(m, F, D), F < Len(outstanding)
    PROVE  Stage(Service(outstanding[F + 1], m), F + 1, D)
<1> DEFINE head == outstanding[F + 1]
           r == desc[head]
           n == Service(head, m)
           L == Len(outstanding)
<1>0. /\ L \in Nat /\ L <= QueueNum /\ F \in 0 .. L /\ F < L /\ last_used \in Nat
      /\ QueueNum \in Nat \ {0} /\ IndexMod \in Nat \ {0}
      /\ \A j \in 1 .. L : outstanding[j] \in Heads
  BY RingAssumption DEF Flight, Stage, Split, TypeOK, Indices
<1>1. n = [disk |-> Stored(r, m.disk),
           dirty |-> IF r.whole /\ r.type = "flush" THEN {} ELSE m.dirty \cup Written(r),
           result |-> IF r.whole THEN [m.result EXCEPT ![head] = Answer(r, m.disk)] ELSE m.result,
           used |-> [m.used EXCEPT ![m.used_idx % QueueNum] = head],
           used_idx |-> (m.used_idx + 1) % IndexMod]
  BY DEF Service
<1> HIDE DEF n
<1>2. IsMemory(n)
  <2>1. Written(r) \subseteq Image
    BY DEF Written
  <2>2. DOMAIN Stored(r, m.disk) = Image
    BY DEF Stored
  <2> QED BY <1>1, <2>1, <2>2 DEF IsMemory, Stage
<1>3. Split(n, F + 1)
  <2>1. n.used_idx = (last_used + (F + 1)) % IndexMod
    <3>1. n.used_idx = (((last_used + F) % IndexMod) + 1) % IndexMod
      BY <1>1 DEF Stage, Split
    <3>2. last_used + F \in Nat /\ (last_used + F) + 1 = last_used + (F + 1)
      BY <1>0
    <3> QED BY <3>1, <3>2, NextIndex
  <2>2. m.used_idx % QueueNum = (last_used + F) % QueueNum
    BY <1>0, SlotOfIndex DEF Stage, Split
  <2>3. (last_used + F) % QueueNum \in Slots
    BY <1>0 DEF Slots
  <2>4. n.used = [m.used EXCEPT ![(last_used + F) % QueueNum] = head] /\ m.used \in [Slots -> Heads]
    BY <1>1, <2>2 DEF Stage, Split
  <2>5. n.used \in [Slots -> Heads]
    <3>1. head \in Heads
      BY <1>0
    <3> HIDE DEF head
    <3> QED BY <2>4, <3>1, Zenon
  <2>6. ASSUME NEW j \in 1 .. F + 1
        PROVE  n.used[(last_used + j - 1) % QueueNum] = outstanding[j]
    <3>1. CASE j = F + 1
      BY <3>1, <2>3, <2>4, <1>0
    <3>2. CASE j # F + 1
      <4>1. (last_used + j - 1) % QueueNum # (last_used + F) % QueueNum
        <5>1. last_used + j - 1 \in Nat /\ last_used + F \in Nat
              /\ last_used + j - 1 < last_used + F /\ last_used + F < last_used + j - 1 + QueueNum
          BY <3>2, <1>0
        <5> QED BY <5>1, SlotsDiffer
      <4>2. (last_used + j - 1) % QueueNum \in Slots
        BY <1>0 DEF Slots
      <4>3. m.used[(last_used + j - 1) % QueueNum] = outstanding[j]
        BY <3>2, <1>0 DEF Stage, Split
      <4> QED BY <4>1, <4>2, <4>3, <2>4
    <3> QED BY <3>1, <3>2
  <2>7. \A j \in F + 2 .. L : avail[(last_used + j - 1) % QueueNum] = outstanding[j]
    BY <1>0 DEF Stage, Split
  <2> QED BY <2>1, <2>5, <2>6, <2>7, <1>0 DEF Split
<1>4. Future(n, F + 1, D)
  BY <1>0, <1>1 DEF Stage, Future
<1>5. ASSUME NEW j \in 1 .. F + 1
      PROVE  Settled(n, F + 1, j)
  <2>1. DOMAIN m.result = Heads /\ head \in Heads
    BY <1>0 DEF Stage, IsMemory
  <2>2. CASE j = F + 1
    <3>1. ASSUME r.whole, n.result[head].status = "ok"
          PROVE  n.result[head].data = expect[head]
      <4>1. n.result[head] = Answer(r, m.disk)
        BY <1>1, <2>1, <3>1
      <4>2. expect[head] = Wanted(r, D[F]) /\ m.disk = D[F]
        BY <1>0 DEF Stage, Future
      <4> QED BY <4>1, <4>2, <3>1, AnswerRight
    <3>2. ASSUME r.whole, r.type = "flush"
          PROVE  n.dirty = {}
      BY <1>1, <3>2
    <3> QED BY <2>2, <3>1, <3>2 DEF Settled
  <2>3. CASE j # F + 1
    <3> DEFINE h == outstanding[j]
               after(G) == UNION {Written(desc[outstanding[k]]) : k \in j + 1 .. G}
    <3>1. Settled(m, F, j) /\ h # head
      BY <2>3, <1>0 DEF Stage, Flight
    <3>2. n.result[h] = m.result[h]
      BY <3>1, <1>1, <2>1
    <3>3. m.dirty \subseteq after(F) => n.dirty \subseteq after(F + 1)
      <4>1. after(F) \subseteq after(F + 1) /\ Written(r) \subseteq after(F + 1)
        <5>1. F + 1 \in j + 1 .. F + 1 /\ \A k \in j + 1 .. F : k \in j + 1 .. F + 1
          BY <1>0, <2>3
        <5> QED BY <5>1, Zenon
      <4> HIDE DEF after
      <4> QED BY <4>1, <1>1
    <3> QED BY <3>1, <3>2, <3>3 DEF Settled
  <2> QED BY <2>2, <2>3
<1> QED BY <1>2, <1>3, <1>4, <1>5 DEF Stage, n

\* How many requests the indices say are finished and waiting.
LEMMA Counts ==
    ASSUME TypeOK, Flight, last_avail = used_idx, NEW F, Split(Here, F)
    PROVE  /\ (used_idx - last_used) % IndexMod = F
           /\ Pending = Len(outstanding) - F
           /\ \A n \in Nat : ((last_avail + n) % IndexMod) % QueueNum = (last_used + F + n) % QueueNum
<1> DEFINE L == Len(outstanding)
<1>0. /\ L \in Nat /\ L <= QueueNum /\ F \in 0 .. L /\ last_used \in 0 .. IndexMod - 1
      /\ QueueNum \in Nat \ {0} /\ IndexMod \in Nat \ {0} /\ IndexMod > QueueNum
      /\ avail_idx = (last_used + L) % IndexMod /\ used_idx = (last_used + F) % IndexMod
  BY RingAssumption DEF Flight, Split, Here, TypeOK, Indices
<1> HIDE DEF L
<1>1. \A x \in 0 .. 2 * IndexMod - 1 : x % IndexMod = IF x < IndexMod THEN x ELSE x - IndexMod
  BY <1>0
<1>2. \A x \in -IndexMod .. -1 : x % IndexMod = x + IndexMod
  BY <1>0
<1>3. (used_idx - last_used) % IndexMod = F
  BY <1>0, <1>1, <1>2
<1>4. Pending = L - F
  BY <1>0, <1>1, <1>2 DEF Pending
<1>5. ASSUME NEW n \in Nat
      PROVE  ((last_avail + n) % IndexMod) % QueueNum = (last_used + F + n) % QueueNum
  <2>1. last_avail = last_used + F \/ last_avail + IndexMod = last_used + F
    BY <1>0, <1>1
  <2>2. last_avail \in Nat
    BY DEF TypeOK, Indices
  <2>3. ((last_avail + n) % IndexMod) % QueueNum = (last_avail + n) % QueueNum
    BY <2>2, SlotOfIndex
  <2>4. (last_avail + IndexMod + n) % QueueNum = (last_avail + n) % QueueNum
    <3>1. (last_avail + IndexMod + n) % IndexMod = (last_avail + n) % IndexMod
      BY <2>2, <1>0, Wrap, Zenon
    <3>2. last_avail + IndexMod + n \in Nat /\ last_avail + n \in Nat
      BY <2>2, <1>0
    <3>3. ((last_avail + IndexMod + n) % IndexMod) % QueueNum = (last_avail + IndexMod + n) % QueueNum
      BY <3>2, SlotOfIndex, Zenon
    <3>4. ((last_avail + n) % IndexMod) % QueueNum = (last_avail + n) % QueueNum
      BY <3>2, SlotOfIndex, Zenon
    <3> QED BY <3>1, <3>3, <3>4, Zenon
  <2> QED BY <2>1, <2>2, <2>3, <2>4, <1>0
<1> QED BY <1>3, <1>4, <1>5 DEF L

\* virtio_notify leaves the device at the end of the queue: every turn of the
\* loop is a stage, and it takes as many turns as there are waiting requests.
LEMMA NotifyStage ==
    ASSUME TypeOK, Flight, last_avail = used_idx, NEW F, NEW D, Stage(Here, F, D)
    PROVE  Stage(Served[Pending], Len(outstanding), D)
<1> DEFINE L == Len(outstanding)
           S == {n \in Nat : n <= L - F => Stage(Served[n], F + n, D)}
<1>0. /\ L \in Nat /\ L <= QueueNum /\ F \in 0 .. L /\ L < IndexMod /\ last_used \in Nat
      /\ Pending = L - F /\ QueueNum \in Nat /\ IndexMod \in Nat
  <2>1. Pending = L - F
    BY Counts DEF Stage
  <2>2. L \in Nat /\ L <= QueueNum
    BY DEF Flight
  <2>3. F \in 0 .. L
    BY DEF Stage, Split
  <2>4. last_used \in Nat
    BY DEF TypeOK, Indices
  <2>5. QueueNum \in Nat /\ IndexMod \in Nat /\ IndexMod > QueueNum
    BY RingAssumption
  <2> QED BY <2>1, <2>2, <2>3, <2>4, <2>5
<1>1. 0 \in S
  <2>1. Served[0] = Here
    BY ServedTurns DEF Here
  <2> QED BY <2>1, <1>0
<1>2. ASSUME NEW n \in Nat, n \in S PROVE n + 1 \in S
  <2>1. SUFFICES ASSUME n + 1 <= L - F PROVE Stage(Served[n + 1], F + (n + 1), D)
    BY <1>0
  <2>2. Stage(Served[n], F + n, D) /\ F + n < L
    BY <1>2, <2>1, <1>0
  <2>3. Served[n + 1] = Service(avail[((last_avail + (n + 1) - 1) % IndexMod) % QueueNum], Served[n])
    <3>1. n + 1 \in 1 .. IndexMod /\ (n + 1) - 1 = n
      BY <2>1, <1>0
    <3> QED BY <3>1, ServedTurns
  <2>4. avail[((last_avail + (n + 1) - 1) % IndexMod) % QueueNum] = outstanding[F + n + 1]
    <3>1. ((last_avail + n) % IndexMod) % QueueNum = (last_used + F + n) % QueueNum
      BY Counts DEF Stage
    <3>2. last_avail + (n + 1) - 1 = last_avail + n
      BY DEF TypeOK, Indices
    <3>3. last_used + (F + n + 1) - 1 = last_used + F + n /\ F + n + 1 \in (F + n) + 1 .. L
      BY <1>0, <2>1
    <3>4. avail[(last_used + (F + n + 1) - 1) % QueueNum] = outstanding[F + n + 1]
      BY <2>2, <3>3 DEF Stage, Split
    <3> QED BY <3>1, <3>2, <3>3, <3>4
  <2>5. Stage(Service(outstanding[(F + n) + 1], Served[n]), (F + n) + 1, D)
    BY <2>2, TurnStage
  <2>6. (F + n) + 1 = F + (n + 1)
    BY <1>0
  <2> QED BY <2>3, <2>4, <2>5, <2>6
<1>3. L - F \in S
  <2>1. \A n \in Nat : n \in S
    <3> HIDE DEF S
    <3> QED BY <1>1, <1>2, SetInduction
  <2> QED BY <2>1, <1>0
<1> QED BY <1>3, <1>0

-----------------------------------------------------------------------------
(* The invariant is inductive.                                              *)

LEMMA InitInv == Init => IInv
<1> SUFFICES ASSUME Init PROVE IInv
  OBVIOUS
<1>1. 0 \in Heads /\ 0 \in Indices /\ 0 \in 0 .. MaxResets
  BY RingAssumption, DiskAssumption DEF Heads, Indices
<1>2. TypeOK
  BY <1>1 DEF Init, TypeOK
<1> QED BY <1>2 DEF Init, IInv

LEMMA NotifyInv ==
    ASSUME IInv, Notify
    PROVE  IInv'
<1> DEFINE m == Served[Pending]
           L == Len(outstanding)
<1>1. queue_ready /\ TypeOK /\ Flight /\ last_avail = used_idx
  BY DEF IInv, Notify
<1>2. PICK F, D : Stage(Here, F, D)
  BY <1>1 DEF IInv
<1>3. Stage(m, L, D)
  BY <1>1, <1>2, NotifyStage
<1>4. /\ disk' = m.disk /\ dirty' = m.dirty /\ result' = m.result
      /\ used' = m.used /\ used_idx' = m.used_idx /\ last_avail' = avail_idx
      /\ interrupt_status' = TRUE
      /\ UNCHANGED <<desc, avail, avail_idx, queue_ready, last_used, handler, resets,
                     outstanding, mirror, expect>>
  BY DEF Notify, Install, driver, history
<1> HIDE DEF m
<1>5. used_idx' = avail_idx
  BY <1>1, <1>3, <1>4 DEF Stage, Split, Flight
<1>6. TypeOK'
  <2>1. used' \in [Slots -> Heads] /\ used_idx' \in Indices /\ last_avail' \in Indices
    BY <1>1, <1>3, <1>4, <1>5 DEF Stage, Split, TypeOK
  <2>2. dirty' \subseteq Image /\ DOMAIN disk' = Image
    BY <1>3, <1>4 DEF Stage, IsMemory
  <2> QED BY <1>1, <1>4, <2>1, <2>2 DEF TypeOK
<1>7. Flight'
  BY <1>1, <1>4 DEF Flight
<1>8. Stage(Here, L, D)'
  <2>1. IsMemory(Here)'
    BY <1>3, <1>4 DEF Stage, IsMemory, Here
  <2>2. Split(Here, L)'
    BY <1>3, <1>4 DEF Stage, Split, Here
  <2>3. Future(Here, L, D)'
    BY <1>3, <1>4 DEF Stage, Future, Here
  <2>4. (\A j \in 1 .. L : Settled(Here, L, j))'
    BY <1>3, <1>4 DEF Stage, Settled, Here
  <2> QED BY <2>1, <2>2, <2>3, <2>4 DEF Stage
<1>9. DOMAIN result' = Heads /\ DOMAIN expect' = Heads
  BY <1>3, <1>4 DEF Stage, IsMemory, IInv
<1> QED BY <1>1, <1>4, <1>5, <1>6, <1>7, <1>8, <1>9 DEF IInv

\* A free chain means a free place in the rings.
LEMMA Room ==
    ASSUME Flight, NEW head \in Heads, \A i \in 1 .. Len(outstanding) : outstanding[i] # head
    PROVE  Len(outstanding) < QueueNum
<1> DEFINE L == Len(outstanding)
           T == Heads \ {head}
<1>1. outstanding \in Injection(1 .. L, T)
  BY DEF Flight, Injection, IsInjective
<1>2. IsFiniteSet(Heads) /\ Cardinality(Heads) = QueueNum
  BY FS_Interval, RingAssumption DEF Heads
<1>3. IsFiniteSet(T) /\ Cardinality(T) = QueueNum - 1
  BY <1>2, FS_RemoveElement
<1>4. L \in Nat
  BY DEF Flight
<1>5. Cardinality(1 .. L) = L
  <2>1. 1 \in Int /\ L \in Int
    BY <1>4
  <2> HIDE DEF L
  <2>2. Cardinality(1 .. L) = IF 1 > L THEN 0 ELSE L - 1 + 1
    BY <2>1, FS_Interval
  <2> QED BY <2>2, <1>4
<1>6. Cardinality(1 .. L) <= Cardinality(T)
  <2> HIDE DEF L, T
  <2> QED BY <1>1, <1>3, FS_Injection
<1> QED BY <1>3, <1>4, <1>5, <1>6, RingAssumption

LEMMA PostInv ==
    ASSUME IInv, Post
    PROVE  IInv'
<1> DEFINE L == Len(outstanding)
<1>1. queue_ready /\ TypeOK /\ Flight /\ last_avail = used_idx
  BY DEF IInv, Post
<1>2. PICK F, D : Stage(Here, F, D)
  BY <1>1 DEF IInv
<1>3. PICK r \in Requests, head \in Heads :
        /\ \A i \in 1 .. L : outstanding[i] # head
        /\ desc' = [desc EXCEPT ![head] = r]
        /\ result' = [result EXCEPT ![head] = NoResult]
        /\ avail' = [avail EXCEPT ![avail_idx % QueueNum] = head]
        /\ outstanding' = Append(outstanding, head)
        /\ mirror' = Stored(r, mirror)
        /\ expect' = [expect EXCEPT ![head] = Wanted(r, mirror)]
  <2>1. DOMAIN outstanding = 1 .. L
    BY <1>1 DEF Flight
  <2> QED BY <2>1, Zenon DEF Post, Wanted
<1>4. /\ avail_idx' = (avail_idx + 1) % IndexMod
      /\ UNCHANGED <<used, used_idx, disk, dirty, queue_ready, last_avail, interrupt_status,
                     last_used, handler, resets>>
  BY DEF Post, device, driver
<1>5. L \in Nat /\ L < QueueNum /\ F \in 0 .. L /\ last_used \in Nat /\ QueueNum \in Nat \ {0}
  <2>1. L < QueueNum
    BY <1>1, <1>3, Room
  <2>2. L \in Nat
    BY <1>1 DEF Flight
  <2>3. F \in 0 .. L
    BY <1>2 DEF Stage, Split
  <2>4. last_used \in Nat
    BY <1>1 DEF TypeOK, Indices
  <2> QED BY <2>1, <2>2, <2>3, <2>4, RingAssumption
<1>6. /\ Len(outstanding') = L + 1 /\ outstanding'[L + 1] = head
      /\ \A i \in 1 .. L : outstanding'[i] = outstanding[i] /\ outstanding[i] \in Heads
      /\ outstanding' \in Seq(Heads)
  BY <1>1, <1>3, <1>5 DEF Flight
<1>7. avail_idx % QueueNum = (last_used + L) % QueueNum /\ (last_used + L) % QueueNum \in Slots
  <2>1. last_used + L \in Nat
    BY <1>5
  <2>2. ((last_used + L) % IndexMod) % QueueNum = (last_used + L) % QueueNum
    BY <2>1, SlotOfIndex, Zenon
  <2>3. (last_used + L) % QueueNum \in Slots
    BY <2>1, <1>5 DEF Slots
  <2> QED BY <2>2, <2>3, <1>1 DEF Flight
<1>8. avail' \in [Slots -> Heads]
  BY <1>1, <1>3, <1>7 DEF TypeOK
<1>9. avail_idx' = (last_used + (L + 1)) % IndexMod /\ avail_idx' \in Indices
  <2>1. avail_idx' = (((last_used + L) % IndexMod) + 1) % IndexMod
    BY <1>1, <1>4 DEF Flight
  <2>2. last_used + L \in Nat /\ (last_used + L) + 1 = last_used + (L + 1)
    BY <1>5
  <2>3. (last_used + (L + 1)) % IndexMod \in Indices
    BY <1>5, RingAssumption DEF Indices
  <2> QED BY <2>1, <2>2, <2>3, NextIndex
<1>10. TypeOK'
  BY <1>1, <1>3, <1>4, <1>8, <1>9 DEF TypeOK
<1>11. Flight'
  <2>1. \A i, j \in 1 .. L + 1 : outstanding'[i] = outstanding'[j] => i = j
    BY <1>1, <1>3, <1>5, <1>6 DEF Flight
  <2> QED BY <2>1, <1>4, <1>5, <1>6, <1>9 DEF Flight
<1>E. PICK E : E = [j \in 0 .. L + 1 |-> IF j = L + 1 THEN Stored(r, mirror) ELSE D[j]]
  BY Zenon
<1>12. IsMemory(Here)' /\ DOMAIN result' = Heads /\ DOMAIN expect' = Heads
  BY <1>2, <1>3, <1>4 DEF Stage, IsMemory, Here, IInv
<1>13. Split(Here, F)'
  <2>1. ASSUME NEW j \in F + 1 .. L + 1
        PROVE  avail'[(last_used + j - 1) % QueueNum] = outstanding'[j]
    <3>1. CASE j = L + 1
      BY <3>1, <1>1, <1>3, <1>5, <1>6, <1>7 DEF TypeOK
    <3>2. CASE j # L + 1
      <4>1. last_used + j - 1 \in Nat /\ last_used + L \in Nat
            /\ last_used + j - 1 < last_used + L /\ last_used + L < last_used + j - 1 + QueueNum
        BY <3>2, <1>5
      <4>2. (last_used + j - 1) % QueueNum # (last_used + L) % QueueNum
        BY <4>1, SlotsDiffer
      <4>3. (last_used + j - 1) % QueueNum \in Slots
        BY <4>1, <1>5 DEF Slots
      <4>4. avail[(last_used + j - 1) % QueueNum] = outstanding[j]
        <5>1. j \in F + 1 .. L
          BY <1>5, <3>2
        <5> QED BY <1>2, <5>1 DEF Stage, Split
      <4> QED BY <4>2, <4>3, <4>4, <1>1, <1>3, <1>5, <1>6, <1>7, <3>2 DEF TypeOK
    <3> QED BY <3>1, <3>2
  <2>2. F \in 0 .. L + 1
    BY <1>5
  <2>3. \A j \in 1 .. F : used'[(last_used' + j - 1) % QueueNum] = outstanding'[j]
    BY <1>2, <1>4, <1>5, <1>6 DEF Stage, Split, Here
  <2>4. used' \in [Slots -> Heads] /\ used_idx' = (last_used' + F) % IndexMod
    BY <1>2, <1>4, Zenon DEF Stage, Split, Here
  <2> QED BY <2>1, <2>2, <2>3, <2>4, <1>4, <1>6, Zenon DEF Split, Here
<1>14. Future(Here, F, E)'
  <2>1. ASSUME NEW j \in F + 1 .. L + 1
        PROVE  /\ E[j] = Stored(desc'[outstanding'[j]], E[j - 1])
               /\ expect'[outstanding'[j]] = Wanted(desc'[outstanding'[j]], E[j - 1])
    <3>0. DOMAIN desc = Heads /\ DOMAIN expect = Heads
      BY <1>1 DEF TypeOK, IInv
    <3>1. CASE j = L + 1
      <4>1. E[j - 1] = mirror
        <5>1. E[L] = D[L] /\ j - 1 = L
          BY <1>E, <3>1, <1>5
        <5>2. D[L] = mirror
          BY <1>2 DEF Stage, Future
        <5> QED BY <5>1, <5>2
      <4>2. outstanding'[j] = head /\ desc'[head] = r /\ expect'[head] = Wanted(r, mirror)
        BY <3>0, <3>1, <1>3, <1>6
      <4>3. E[j] = Stored(r, mirror)
        BY <1>E, <3>1, <1>5
      <4> QED BY <4>1, <4>2, <4>3, Zenon
    <3>2. CASE j # L + 1
      <4>1. E[j] = D[j] /\ E[j - 1] = D[j - 1]
        BY <1>E, <3>2, <1>5
      <4>2. outstanding'[j] = outstanding[j] /\ outstanding[j] # head
        BY <3>2, <1>3, <1>5, <1>6
      <4>3. desc'[outstanding[j]] = desc[outstanding[j]] /\ expect'[outstanding[j]] = expect[outstanding[j]]
        BY <3>0, <3>2, <4>2, <1>3, <1>5, <1>6
      <4>4. /\ D[j] = Stored(desc[outstanding[j]], D[j - 1])
            /\ expect[outstanding[j]] = Wanted(desc[outstanding[j]], D[j - 1])
        BY <1>2, <1>5, <3>2 DEF Stage, Future
      <4> QED BY <4>1, <4>2, <4>3, <4>4
    <3> QED BY <3>1, <3>2
  <2>2. disk' = E[F] /\ E[L + 1] = mirror'
    BY <1>E, <1>2, <1>3, <1>4, <1>5 DEF Stage, Future, Here
  <2> QED BY <2>1, <2>2, <1>6, Zenon DEF Future, Here
<1>15. (\A j \in 1 .. F : Settled(Here, F, j))'
  <2>1. ASSUME NEW j \in 1 .. F
        PROVE  /\ outstanding'[j] = outstanding[j] /\ desc'[outstanding[j]] = desc[outstanding[j]]
               /\ result'[outstanding[j]] = result[outstanding[j]]
               /\ expect'[outstanding[j]] = expect[outstanding[j]]
    <3>1. DOMAIN desc = Heads /\ DOMAIN expect = Heads /\ DOMAIN result = Heads
      BY <1>1 DEF TypeOK, IInv
    <3>2. j \in 1 .. L /\ outstanding[j] \in Heads /\ outstanding[j] # head
      BY <1>3, <1>5, <1>6
    <3> QED BY <3>1, <3>2, <1>3, <1>6
  <2>2. ASSUME NEW j \in 1 .. F
        PROVE  Settled(Here, F, j)'
    <3>1. Settled(Here, F, j)
      BY <1>2 DEF Stage
    <3>2. {Written(desc'[outstanding'[k]]) : k \in j + 1 .. F}
            = {Written(desc[outstanding[k]]) : k \in j + 1 .. F}
      BY <2>1, <1>5
    <3> QED BY <3>1, <3>2, <2>1, <1>4 DEF Settled, Here
  <2> QED BY <2>2
<1>16. Stage(Here, F, E)'
  BY <1>12, <1>13, <1>14, <1>15 DEF Stage
<1> QED BY <1>1, <1>4, <1>10, <1>11, <1>12, <1>16 DEF IInv

\* Positions relative to an index, once the index has advanced.
LEMMA Advance ==
    ASSUME NEW a \in Indices, NEW b, b = (a + 1) % IndexMod, NEW n \in Nat
    PROVE  /\ b \in Indices
           /\ (b + n) % IndexMod = (a + (n + 1)) % IndexMod
           /\ (b + n) % QueueNum = (a + (n + 1)) % QueueNum
<1>0. a \in Nat /\ a + 1 <= IndexMod /\ IndexMod \in Nat \ {0} /\ IndexMod > 1
  BY RingAssumption DEF Indices
<1>1. CASE a + 1 < IndexMod
  <2>1. b = a + 1 /\ b + n = a + (n + 1)
    BY <1>0, <1>1
  <2> QED BY <2>1, <1>0, <1>1 DEF Indices
<1>2. CASE a + 1 = IndexMod
  <2>1. b = 0 /\ b + n = 0 + n /\ a + (n + 1) = 0 + IndexMod + n
    BY <1>0, <1>2
  <2>2. (b + n) % IndexMod = (a + (n + 1)) % IndexMod
    BY <2>1, Wrap
  <2>3. b + n \in Nat /\ a + (n + 1) \in Nat
    BY <2>1, <1>0
  <2>4. /\ ((b + n) % IndexMod) % QueueNum = (b + n) % QueueNum
        /\ ((a + (n + 1)) % IndexMod) % QueueNum = (a + (n + 1)) % QueueNum
    BY <2>3, SlotOfIndex, Zenon
  <2>5. (b + n) % QueueNum = (a + (n + 1)) % QueueNum
    BY <2>2, <2>4, Zenon
  <2>6. b \in Indices
    BY <2>1, <1>0 DEF Indices
  <2> QED BY <2>2, <2>5, <2>6
<1> QED BY <1>0, <1>1, <1>2

\* The queue does not depend on the interrupt bit or the handler.
LEMMA SameQueue ==
    ASSUME UNCHANGED <<desc, result, avail, avail_idx, used, used_idx, disk, dirty, last_used,
                       outstanding, mirror, expect>>
    PROVE  /\ Flight => Flight'
           /\ \A F, D : Stage(Here, F, D) => Stage(Here, F, D)'
<1>1. Flight => Flight'
  BY DEF Flight
<1>2. ASSUME NEW F, NEW D, Stage(Here, F, D)
      PROVE  Stage(Here, F, D)'
  <2>1. IsMemory(Here) => IsMemory(Here)'
    BY DEF IsMemory, Here
  <2>2. Split(Here, F) => Split(Here, F)'
    BY DEF Split, Here
  <2>3. Future(Here, F, D) => Future(Here, F, D)'
    BY DEF Future, Here
  <2>4. ASSUME NEW j PROVE Settled(Here, F, j) => Settled(Here, F, j)'
    BY DEF Settled, Here
  <2> QED BY <1>2, <2>1, <2>2, <2>3, <2>4, Zenon DEF Stage
<1> QED BY <1>1, <1>2

LEMMA CollectInv ==
    ASSUME IInv, Collect
    PROVE  IInv'
<1> DEFINE L == Len(outstanding)
<1>1. queue_ready /\ TypeOK /\ Flight /\ last_avail = used_idx
  BY DEF IInv, Collect
<1>2. PICK F, D : Stage(Here, F, D)
  BY <1>1 DEF IInv
<1>3. UNCHANGED <<avail, avail_idx, used, used_idx, disk, dirty, queue_ready, last_avail,
                  interrupt_status, resets>>
  BY DEF Collect, rings, device
<1>4. CASE last_used = used_idx
  <2>1. handler' = "idle" /\ UNCHANGED <<desc, result, last_used, outstanding, mirror, expect>>
    BY <1>4 DEF Collect, history
  <2>2. TypeOK' /\ Flight'
    BY <2>1, <1>1, <1>3 DEF TypeOK, Flight
  <2>3. Stage(Here, F, D)'
    BY <2>1, <1>2, <1>3, SameQueue
  <2> QED BY <2>1, <2>2, <2>3, <1>1, <1>3 DEF IInv
<1>5. CASE last_used # used_idx
  <2> DEFINE head == outstanding[1]
  <2>1. L \in Nat /\ L <= QueueNum /\ F \in 1 .. L /\ last_used \in Nat /\ last_used \in Indices
    <3>1. F # 0
      <4>1. SUFFICES ASSUME F = 0 PROVE FALSE
        OBVIOUS
      <4>2. used_idx = (last_used + 0) % IndexMod
        BY <4>1, <1>2 DEF Stage, Split, Here
      <4>3. last_used \in 0 .. IndexMod - 1
        BY <1>1 DEF TypeOK, Indices
      <4> QED BY <4>2, <4>3, <1>5, RingAssumption
    <3>2. F \in 0 .. L
      BY <1>2 DEF Stage, Split
    <3>3. L \in Nat /\ L <= QueueNum
      BY <1>1 DEF Flight
    <3> QED BY <1>1, <3>1, <3>2, <3>3 DEF TypeOK, Indices
  <2>2. used[last_used % QueueNum] = head /\ head \in Heads
    <3>1. used[(last_used + 1 - 1) % QueueNum] = head
      BY <1>2, <2>1 DEF Stage, Split, Here
    <3>2. last_used + 1 - 1 = last_used
      BY <2>1
    <3> QED BY <3>1, <3>2, <1>1, <2>1 DEF Flight
  <2>3. /\ last_used' = (last_used + 1) % IndexMod
        /\ desc' = [desc EXCEPT ![head] = NoRequest]
        /\ result' = [result EXCEPT ![head] = NoResult]
        /\ outstanding' = Without(outstanding, head)
        /\ expect' = [expect EXCEPT ![head] = <<>>]
        /\ UNCHANGED <<handler, mirror>>
    BY <1>5, <2>2 DEF Collect
  <2>4. outstanding' = [i \in 1 .. L - 1 |-> outstanding[i + 1]]
    <3>1. DOMAIN outstanding = 1 .. L /\ 1 \in 1 .. L
      BY <1>1, <2>1 DEF Flight
    <3>2. (CHOOSE i \in DOMAIN outstanding : outstanding[i] = head) = 1
      BY <3>1, <1>1 DEF Flight
    <3>3. Without(outstanding, head) =
              [i \in 1 .. L - 1 |-> IF i < 1 THEN outstanding[i] ELSE outstanding[i + 1]]
      <4>1. \E i \in DOMAIN outstanding : outstanding[i] = head
        BY <3>1
      <4> HIDE DEF head
      <4> QED BY <4>1, <3>2, Zenon DEF Without
    <3> QED BY <3>3, <2>1, <2>3
  <2>5. /\ outstanding' \in Seq(Heads) /\ Len(outstanding') = L - 1
        /\ \A i \in 1 .. L - 1 : outstanding'[i] = outstanding[i + 1]
    <3>1. \A i \in 1 .. L - 1 : outstanding[i + 1] \in Heads
      BY <1>1, <2>1 DEF Flight
    <3> HIDE DEF L
    <3> QED BY <2>1, <2>4, <3>1
  <2>6. /\ last_used' \in Indices
        /\ \A n \in Nat : /\ (last_used' + n) % IndexMod = (last_used + (n + 1)) % IndexMod
                          /\ (last_used' + n) % QueueNum = (last_used + (n + 1)) % QueueNum
    BY <2>1, <2>3, Advance, Zenon
  <2>7. TypeOK'
    BY <1>1, <1>3, <2>3, <2>6 DEF TypeOK
  <2>8. Flight'
    <3>1. \A i, j \in 1 .. L - 1 : outstanding'[i] = outstanding'[j] => i = j
      <4>1. SUFFICES ASSUME NEW i \in 1 .. L - 1, NEW j \in 1 .. L - 1,
                            outstanding[i + 1] = outstanding[j + 1]
                     PROVE  i = j
        BY <2>5
      <4>2. i + 1 \in 1 .. L /\ j + 1 \in 1 .. L
        BY <2>1
      <4>3. i + 1 = j + 1
        BY <4>1, <4>2, <1>1 DEF Flight
      <4> QED BY <4>3
    <3>2. avail_idx' = (last_used' + (L - 1)) % IndexMod
      <4>1. L - 1 \in Nat /\ (L - 1) + 1 = L
        BY <2>1
      <4> QED BY <4>1, <2>6, <1>1, <1>3 DEF Flight
    <3>3. L - 1 <= QueueNum
      BY <2>1, RingAssumption
    <3> QED BY <3>1, <3>2, <3>3, <2>5, Zenon DEF Flight
  <2>9. DOMAIN desc = Heads /\ DOMAIN expect = Heads /\ DOMAIN result = Heads
    BY <1>1 DEF TypeOK, IInv
  <2>10. ASSUME NEW j \in 1 .. L - 1
         PROVE  /\ outstanding'[j] = outstanding[j + 1]
                /\ desc'[outstanding'[j]] = desc[outstanding[j + 1]]
                /\ result'[outstanding'[j]] = result[outstanding[j + 1]]
                /\ expect'[outstanding'[j]] = expect[outstanding[j + 1]]
    <3>1. outstanding'[j] = outstanding[j + 1] /\ outstanding[j + 1] # head
          /\ outstanding[j + 1] \in Heads
      BY <1>1, <2>1, <2>5 DEF Flight
    <3> QED BY <3>1, <2>3, <2>9
  <2>11. IsMemory(Here)' /\ DOMAIN result' = Heads /\ DOMAIN expect' = Heads
    BY <1>2, <1>3, <2>3, <2>9 DEF Stage, IsMemory, Here
  <2>12. Split(Here, F - 1)'
    <3>1. used_idx' = (last_used' + (F - 1)) % IndexMod
      <4>1. F - 1 \in Nat /\ (F - 1) + 1 = F
        BY <2>1
      <4> QED BY <4>1, <2>6, <1>2, <1>3 DEF Stage, Split, Here
    <3>2. ASSUME NEW j \in 1 .. L - 1
          PROVE  (last_used' + j - 1) % QueueNum = (last_used + (j + 1) - 1) % QueueNum
      <4>1. j - 1 \in Nat /\ last_used' + j - 1 = last_used' + (j - 1)
            /\ last_used + (j + 1) - 1 = last_used + ((j - 1) + 1)
        BY <2>1, <2>6 DEF Indices
      <4> QED BY <4>1, <2>6
    <3>3. ASSUME NEW j \in 1 .. F - 1
          PROVE  used'[(last_used' + j - 1) % QueueNum] = outstanding'[j]
      <4>1. j \in 1 .. L - 1 /\ j + 1 \in 1 .. F
        BY <2>1
      <4>2. used[(last_used + (j + 1) - 1) % QueueNum] = outstanding[j + 1]
        BY <4>1, <1>2 DEF Stage, Split, Here
      <4> QED BY <4>1, <4>2, <3>2, <2>5, <1>3
    <3>4. ASSUME NEW j \in (F - 1) + 1 .. L - 1
          PROVE  avail'[(last_used' + j - 1) % QueueNum] = outstanding'[j]
      <4>1. j \in 1 .. L - 1 /\ j + 1 \in F + 1 .. L
        BY <2>1
      <4>2. avail[(last_used + (j + 1) - 1) % QueueNum] = outstanding[j + 1]
        BY <4>1, <1>2 DEF Stage, Split
      <4> QED BY <4>1, <4>2, <3>2, <2>5, <1>3, Zenon
    <3>5. F - 1 \in 0 .. L - 1
      BY <2>1
    <3>6. used' \in [Slots -> Heads]
      BY <2>7 DEF TypeOK
    <3> QED BY <3>1, <3>3, <3>4, <3>5, <3>6, <2>5 DEF Split, Here
  <2>E. PICK E : E = [j \in 0 .. L - 1 |-> D[j + 1]]
    BY Zenon
  <2>13. Future(Here, F - 1, E)'
    <3>1. disk' = E[F - 1] /\ E[L - 1] = mirror'
      BY <2>E, <2>1, <2>3, <1>2, <1>3 DEF Stage, Future, Here
    <3>2. ASSUME NEW j \in (F - 1) + 1 .. L - 1
          PROVE  /\ E[j] = Stored(desc'[outstanding'[j]], E[j - 1])
                 /\ expect'[outstanding'[j]] = Wanted(desc'[outstanding'[j]], E[j - 1])
      <4>1. j \in 1 .. L - 1 /\ j + 1 \in F + 1 .. L /\ (j + 1) - 1 = j
        BY <2>1
      <4>2. E[j] = D[j + 1] /\ E[j - 1] = D[j]
        BY <4>1, <2>E, <2>1
      <4>3. /\ D[j + 1] = Stored(desc[outstanding[j + 1]], D[j])
            /\ expect[outstanding[j + 1]] = Wanted(desc[outstanding[j + 1]], D[j])
        BY <4>1, <1>2 DEF Stage, Future
      <4> QED BY <4>1, <4>2, <4>3, <2>10
    <3> QED BY <3>1, <3>2, <2>5 DEF Future, Here
  <2>14. ASSUME NEW j \in 1 .. F - 1
         PROVE  Settled(Here, F - 1, j)'
    <3>1. Settled(Here, F, j + 1) /\ j \in 1 .. L - 1
      BY <1>2, <2>1 DEF Stage
    <3>2. UNION {Written(desc'[outstanding'[k]]) : k \in j + 1 .. F - 1}
            = UNION {Written(desc[outstanding[k]]) : k \in (j + 1) + 1 .. F}
      <4>1. \A k \in j + 1 .. F - 1 : k + 1 \in (j + 1) + 1 .. F /\
                 desc'[outstanding'[k]] = desc[outstanding[k + 1]]
        BY <2>1, <2>10
      <4>2. \A k \in (j + 1) + 1 .. F : k - 1 \in j + 1 .. F - 1 /\ (k - 1) + 1 = k
        BY <2>1
      <4> QED BY <4>1, <4>2
    <3> QED BY <3>1, <3>2, <2>10, <1>3, Zenon DEF Settled, Here
  <2>15. Stage(Here, F - 1, E)'
    BY <2>11, <2>12, <2>13, <2>14 DEF Stage
  <2> QED BY <1>1, <1>3, <2>7, <2>8, <2>11, <2>15 DEF IInv
<1> QED BY <1>4, <1>5

LEMMA SetUpInv ==
    ASSUME IInv, SetUp
    PROVE  IInv'
<1>1. TypeOK /\ last_avail = 0 /\ outstanding = <<>> /\ mirror = disk
  BY DEF IInv, SetUp
<1>2. /\ queue_ready' /\ queue_ready' = TRUE
      /\ avail' = [s \in Slots |-> 0] /\ avail_idx' = 0
      /\ used' = [s \in Slots |-> 0] /\ used_idx' = 0 /\ last_used' = 0
      /\ desc' = [h \in Heads |-> NoRequest] /\ result' = [h \in Heads |-> NoResult]
      /\ expect' = [h \in Heads |-> <<>>]
      /\ UNCHANGED <<disk, dirty, last_avail, interrupt_status, handler, resets, outstanding, mirror>>
  BY DEF SetUp, FreshRings
<1>3. 0 \in Heads /\ 0 \in Indices /\ 0 % IndexMod = 0
  BY RingAssumption DEF Heads, Indices
<1>4. TypeOK'
  BY <1>1, <1>2, <1>3 DEF TypeOK
<1>5. Flight'
  BY <1>1, <1>2, <1>3, RingAssumption DEF Flight
<1>E. PICK E : E = [j \in 0 .. 0 |-> disk]
  BY Zenon
<1>6. Stage(Here, 0, E)'
  <2>1. IsMemory(Here)'
    BY <1>2, <1>4 DEF IsMemory, Here, TypeOK
  <2>2. Split(Here, 0)'
    BY <1>1, <1>2, <1>3 DEF Split, Here
  <2>3. Future(Here, 0, E)'
    BY <1>E, <1>1, <1>2 DEF Future, Here
  <2> QED BY <2>1, <2>2, <2>3 DEF Stage
<1> QED BY <1>1, <1>2, <1>4, <1>5, <1>6 DEF IInv

LEMMA NextInv == IInv /\ [Next]_vars => IInv'
<1> SUFFICES ASSUME IInv, [Next]_vars PROVE IInv'
  OBVIOUS
<1>1. CASE Notify
  BY <1>1, NotifyInv
<1>2. CASE Reset
  <2>1. /\ resets < MaxResets /\ resets' = resets + 1 /\ queue_ready' = FALSE /\ last_avail' = 0
        /\ interrupt_status' = FALSE /\ outstanding' = <<>> /\ mirror' = disk /\ handler' = "idle"
        /\ UNCHANGED <<desc, result, avail, avail_idx, used, used_idx, disk, dirty, last_used, expect>>
    BY <1>2 DEF Reset, rings
  <2>2. TypeOK'
    <3>1. 0 \in Indices /\ TypeOK
      BY RingAssumption DEF Indices, IInv
    <3>2. resets' \in 0 .. MaxResets
      BY <2>1, <3>1, DiskAssumption DEF TypeOK
    <3> QED BY <2>1, <3>1, <3>2, Zenon DEF TypeOK
  <2> QED BY <2>1, <2>2 DEF IInv
<1>3. CASE SetUp
  BY <1>3, SetUpInv
<1>4. CASE Post
  BY <1>4, PostInv
<1>5. CASE Acknowledge
  <2>1. /\ interrupt_status' = FALSE /\ handler' = "drain"
        /\ UNCHANGED <<desc, result, avail, avail_idx, used, used_idx, disk, dirty, queue_ready,
                       last_avail, last_used, resets, outstanding, mirror, expect>>
    BY <1>5 DEF Acknowledge, rings, history
  <2> QED BY <2>1, SameQueue, Zenon DEF IInv, TypeOK
<1>6. CASE Collect
  BY <1>6, CollectInv
<1>7. CASE UNCHANGED vars
  <2>1. UNCHANGED <<desc, result, avail, avail_idx, used, used_idx, disk, dirty, queue_ready,
                    last_avail, last_used, resets, outstanding, mirror, expect,
                    interrupt_status, handler>>
    BY <1>7 DEF vars, rings, device, driver, history
  <2> QED BY <2>1, SameQueue DEF IInv, TypeOK
<1> QED BY <1>1, <1>2, <1>3, <1>4, <1>5, <1>6, <1>7 DEF Next

\* What the indices count as finished and waiting is the queue.
LEMMA QueueView ==
    ASSUME IInv, queue_ready
    PROVE  /\ Finished \o Waiting = outstanding
           /\ DOMAIN Finished = 1 .. Len(Finished)
           /\ \E D : Stage(Here, Len(Finished), D)
           /\ Len(Finished) \in 0 .. Len(outstanding)
           /\ \A i \in 1 .. Len(Finished) : Finished[i] = outstanding[i]
<1>1. TypeOK /\ Flight /\ last_avail = used_idx
  BY DEF IInv
<1>2. PICK F, D : Stage(Here, F, D)
  BY DEF IInv
<1> DEFINE L == Len(outstanding)
<1>3. L \in Nat /\ F \in 0 .. L /\ last_used \in Nat /\ last_avail \in Nat
      /\ (used_idx - last_used) % IndexMod = F /\ Pending = L - F
      /\ outstanding \in Seq(Heads)
  <2>1. (used_idx - last_used) % IndexMod = F /\ Pending = L - F
    BY <1>1, <1>2, Counts DEF Stage
  <2>2. outstanding \in Seq(Heads) /\ L \in Nat
    BY <1>1 DEF Flight
  <2>3. F \in 0 .. L
    BY <1>2 DEF Stage, Split
  <2> QED BY <2>1, <2>2, <2>3, <1>1 DEF TypeOK, Indices
<1>4. /\ Finished \in [1 .. F -> Heads]
      /\ \A i \in 1 .. F : Finished[i] = outstanding[i]
  <2>1. ASSUME NEW i \in 1 .. F
        PROVE  used[((last_used + i - 1) % IndexMod) % QueueNum] = outstanding[i]
    <3>1. last_used + i - 1 \in Nat
      BY <1>3
    <3>2. ((last_used + i - 1) % IndexMod) % QueueNum = (last_used + i - 1) % QueueNum
      BY <3>1, SlotOfIndex
    <3> QED BY <3>2, <1>2 DEF Stage, Split, Here
  <2>2. \A i \in 1 .. F : outstanding[i] \in Heads
    BY <1>3
  <2> QED BY <2>1, <2>2, <1>3, Zenon DEF Finished
<1>5. /\ Waiting \in [1 .. L - F -> Heads]
      /\ \A i \in 1 .. L - F : Waiting[i] = outstanding[F + i]
  <2>1. ASSUME NEW i \in 1 .. L - F
        PROVE  avail[((last_avail + i - 1) % IndexMod) % QueueNum] = outstanding[F + i]
    <3>1. i - 1 \in Nat /\ last_avail + (i - 1) = last_avail + i - 1
          /\ last_used + F + (i - 1) = last_used + (F + i) - 1 /\ F + i \in F + 1 .. L
      BY <1>3
    <3>2. ((last_avail + (i - 1)) % IndexMod) % QueueNum = (last_used + F + (i - 1)) % QueueNum
      BY <1>1, <1>2, <3>1, Counts DEF Stage
    <3>3. avail[(last_used + (F + i) - 1) % QueueNum] = outstanding[F + i]
      BY <1>2, <3>1 DEF Stage, Split
    <3> QED BY <3>1, <3>2, <3>3
  <2>2. \A i \in 1 .. L - F : outstanding[F + i] \in Heads
    BY <1>3
  <2> QED BY <2>1, <2>2, <1>3 DEF Waiting
<1>6. /\ Finished \in Seq(Heads) /\ Len(Finished) = F
      /\ Waiting \in Seq(Heads) /\ Len(Waiting) = L - F
  <2>1. F \in Nat /\ L - F \in Nat
    BY <1>3
  <2>2. \A n \in Nat : \A f \in [1 .. n -> Heads] : f \in Seq(Heads) /\ Len(f) = n
    OBVIOUS
  <2> QED BY <2>1, <2>2, <1>4, <1>5
<1>7. Finished \o Waiting = outstanding
  <2> HIDE DEF L
  <2> DEFINE w == Finished \o Waiting
  <2>1. w \in Seq(Heads) /\ Len(w) = L
    BY <1>3, <1>6
  <2>2. ASSUME NEW i \in 1 .. L PROVE w[i] = outstanding[i]
    <3>1. w[i] = IF i <= F THEN Finished[i] ELSE Waiting[i - F]
      BY <1>3, <1>6
    <3>2. CASE i <= F
      BY <3>1, <3>2, <1>3, <1>4
    <3>3. CASE i > F
      <4>1. i - F \in 1 .. L - F /\ F + (i - F) = i
        BY <3>3, <1>3
      <4> QED BY <3>1, <3>3, <4>1, <1>3, <1>5
    <3>4. i <= F \/ i > F
      BY <1>3
    <3> QED BY <3>2, <3>3, <3>4, Zenon
  <2>3. outstanding \in Seq(Heads) /\ Len(outstanding) = L
    BY <1>3 DEF L
  <2> HIDE DEF w
  <2> QED BY <2>1, <2>2, <2>3, SeqEqual DEF w
<1> QED BY <1>2, <1>3, <1>4, <1>6, <1>7

\* Between the driver's posting a chain and its collecting it, the two rings hold
\* it exactly once and in order, for any ring size and index width, whatever the
\* batching of requests into notifies, across wrap-around and resets.
THEOREM QueueCorrect == Spec => []ExactlyOnceInOrder
<1>1. IInv => ExactlyOnceInOrder
  BY QueueView DEF ExactlyOnceInOrder
<1> QED BY <1>1, InitInv, NextInv, PTL DEF Spec

\* Reads that virtio_service completes return what the writes posted before them
\* left in the image, and a completed flush leaves no earlier write unpushed, for
\* any image size and requests of any number of buffers.
THEOREM DataCorrect == Spec => []DataExact
<1>1. IInv => DataExact
  <2> SUFFICES ASSUME IInv, queue_ready
               PROVE  /\ \A i \in DOMAIN Finished :
                            desc[Finished[i]].whole /\ result[Finished[i]].status = "ok"
                                => result[Finished[i]].data = expect[Finished[i]]
                      /\ \A i \in DOMAIN Finished :
                            desc[Finished[i]].whole /\ desc[Finished[i]].type = "flush"
                                => dirty \subseteq UNION {Written(desc[Finished[j]]) : j \in i + 1 .. Len(Finished)}
    BY DEF DataExact, ReadsSeeEarlierWrites, FlushCoversEarlierWrites
  <2> DEFINE F == Len(Finished)
  <2>1. /\ DOMAIN Finished = 1 .. F /\ F \in Nat
        /\ \A i \in 1 .. F : Finished[i] = outstanding[i]
    BY QueueView
  <2>2. PICK D : Stage(Here, F, D)
    BY QueueView
  <2> HIDE DEF F
  <2>3. ASSUME NEW i \in 1 .. F
        PROVE  Settled(Here, F, i) /\ Finished[i] = outstanding[i]
               /\ {Written(desc[Finished[j]]) : j \in i + 1 .. F}
                     = {Written(desc[outstanding[j]]) : j \in i + 1 .. F}
    BY <2>1, <2>2 DEF Stage
  <2> QED BY <2>1, <2>3 DEF Settled, Here, F
<1> QED BY <1>1, InitInv, NextInv, PTL DEF Spec
=============================================================================
