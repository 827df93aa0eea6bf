------------------------------ MODULE VirtioBlk ------------------------------
(***************************************************************************)
(* The virtio-mmio block device (device.c): a split virtqueue whose rings   *)
(* live in guest RAM, a device that on a notify services every newly        *)
(* available request in order, and the interrupt bit it raises.  The        *)
(* machine runs one instruction at a time, so a notify is one step, but     *)
(* the driver's own steps (post, notify, acknowledge, collect) interleave   *)
(* across harts.                                                            *)
(*                                                                          *)
(* A request is its descriptor chain: a header (type, sector), a sequence   *)
(* of one-sector data buffers, each inside guest RAM or not, and a status   *)
(* byte; `whole' is false for a chain too short to have both ends.  (A      *)
(* header outside guest RAM is served as a read of sector 0, so it needs no *)
(* case of its own.)  Ring indices wrap at IndexMod (2^16 in the code).     *)
(***************************************************************************)
EXTENDS Integers, Sequences, FiniteSets

CONSTANTS
    QueueNum,    \* negotiated ring size
    IndexMod,    \* where ring indices wrap
    ImageSize,   \* sectors in the disk image
    Requests,    \* the requests the driver makes
    MaxResets    \* bound: soft resets of the device

ASSUME RingAssumption ==
    /\ QueueNum \in Nat \ {0} /\ IndexMod \in Nat
    /\ IndexMod > QueueNum /\ IndexMod % QueueNum = 0
ASSUME DiskAssumption == ImageSize \in Nat /\ MaxResets \in Nat

Heads == 0 .. QueueNum - 1
Slots == 0 .. QueueNum - 1
Indices == 0 .. IndexMod - 1
Image == 0 .. ImageSize - 1
Zero == 0                        \* what a read past the image returns

ASSUME RequestAssumption ==
    \A r \in Requests : /\ r.type \in {"in", "out", "flush"} /\ r.sector \in Nat
                        /\ r.whole \in BOOLEAN
                        /\ \A i \in DOMAIN r.bufs : r.bufs[i].ok \in BOOLEAN

VARIABLES
    desc,                      \* descriptor table: the request at each chain head
    result,                    \* what the device wrote back for it: data and status
    avail, avail_idx,          \* available ring
    used, used_idx,            \* used ring, without the byte counts
    disk, dirty,               \* image; sectors written since the last file flush
    queue_ready, last_avail, interrupt_status,
    last_used, handler,        \* driver: next used entry, interrupt handler phase
    resets,
    outstanding,               \* history: heads posted and not collected, in order
    mirror, expect             \* history: the image once every posted request is
                               \* served, and what each read should then return

rings == <<avail, avail_idx, used, used_idx>>
device == <<disk, dirty, queue_ready, last_avail, interrupt_status>>
driver == <<last_used, handler, resets>>
history == <<outstanding, mirror, expect>>
vars == <<desc, result, rings, device, driver, history>>

NoRequest == [type |-> "flush", sector |-> 0, bufs |-> <<>>, whole |-> FALSE]
NoResult == [data |-> <<>>, status |-> "none"]

\* The driver's view of a fresh queue: zeroed rings, nothing outstanding.
FreshRings ==
    /\ avail' = [s \in Slots |-> 0] /\ avail_idx' = 0
    /\ used' = [s \in Slots |-> 0] /\ used_idx' = 0

Init ==
    /\ desc = [h \in Heads |-> NoRequest] /\ result = [h \in Heads |-> NoResult]
    /\ avail = [s \in Slots |-> 0] /\ avail_idx = 0
    /\ used = [s \in Slots |-> 0] /\ used_idx = 0
    /\ disk = [s \in Image |-> Zero] /\ dirty = {}
    /\ queue_ready = FALSE /\ last_avail = 0 /\ interrupt_status = FALSE
    /\ last_used = 0 /\ handler = "idle" /\ resets = 0
    /\ outstanding = <<>> /\ mirror = disk /\ expect = [h \in Heads |-> <<>>]

-----------------------------------------------------------------------------
(* The device.                                                              *)

\* virtio_service stops at the first data buffer outside guest RAM.
Reached(r) == CHOOSE n \in 0 .. Len(r.bufs) :
                  /\ \A i \in 1 .. n : r.bufs[i].ok
                  /\ n = Len(r.bufs) \/ ~r.bufs[n + 1].ok

\* The sectors a write stores: those of the image only.
Written(r) == IF r.whole /\ r.type = "out"
              THEN {r.sector + i - 1 : i \in 1 .. Reached(r)} \cap Image ELSE {}

Stored(r, d) == [s \in Image |-> IF s \in Written(r) THEN r.bufs[s - r.sector + 1].val ELSE d[s]]

\* Mutant: a read past the image returns the last sector.
ReadBackClamped(r, d) ==
    [i \in 1 .. Reached(r) |-> d[IF r.sector + i - 1 \in Image THEN r.sector + i - 1
                                 ELSE ImageSize - 1]]

\* What a read copies into the guest's buffers.
ReadBack(r, d) ==
    [i \in 1 .. Reached(r) |-> IF r.sector + i - 1 \in Image THEN d[r.sector + i - 1] ELSE Zero]

\* virtio_service: the device's answer to r, on image d.
Answer(r, d) ==
    [data   |-> IF r.type = "in" THEN ReadBack(r, d) ELSE <<>>,
     status |-> IF Reached(r) = Len(r.bufs) THEN "ok" ELSE "ioerr"]

\* One turn of virtio_notify's loop: service the chain, post it, publish it.
Service(head, m) ==
    LET r == desc[head]
    IN  [disk   |-> Stored(r, m.disk),
         dirty  |-> IF r.whole /\ r.type = "flush" THEN {} ELSE m.dirty \cup Written(r),
         result |-> IF r.whole THEN [m.result EXCEPT ![head] = Answer(r, m.disk)] ELSE m.result,
         used   |-> [m.used EXCEPT ![m.used_idx % QueueNum] = head],
         used_idx |-> (m.used_idx + 1) % IndexMod]

Pending == (avail_idx - last_avail) % IndexMod

\* The loop, from the current state: after n turns.
Served[n \in 0 .. IndexMod] ==
    IF n = 0
    THEN [disk |-> disk, dirty |-> dirty, result |-> result, used |-> used, used_idx |-> used_idx]
    ELSE Service(avail[((last_avail + n - 1) % IndexMod) % QueueNum], Served[n - 1])

Install(m) == /\ disk' = m.disk /\ dirty' = m.dirty /\ result' = m.result
              /\ used' = m.used /\ used_idx' = m.used_idx

\* Mutant: the interrupt bit is toggled instead of set.
NotifyToggles ==
    /\ queue_ready
    /\ Install(Served[Pending])
    /\ last_avail' = avail_idx
    /\ interrupt_status' = ~interrupt_status
    /\ UNCHANGED <<desc, avail, avail_idx, queue_ready, driver, history>>

\* virtio_notify: consume every newly available request.
Notify ==
    /\ queue_ready
    /\ Install(Served[Pending])
    /\ last_avail' = avail_idx
    /\ interrupt_status' = TRUE
    /\ UNCHANGED <<desc, avail, avail_idx, queue_ready, driver, history>>

\* Mutant: a reset keeps the device's ring position.
ResetKeepsPosition ==
    /\ resets < MaxResets /\ resets' = resets + 1
    /\ queue_ready' = FALSE /\ interrupt_status' = FALSE
    /\ outstanding' = <<>> /\ mirror' = disk /\ handler' = "idle"
    /\ UNCHANGED <<desc, result, rings, disk, dirty, last_avail, last_used, expect>>

\* virtio_reset, on a status write of 0; the driver gives up what is outstanding.
Reset ==
    /\ resets < MaxResets /\ resets' = resets + 1
    /\ queue_ready' = FALSE /\ last_avail' = 0 /\ interrupt_status' = FALSE
    /\ outstanding' = <<>> /\ mirror' = disk /\ handler' = "idle"
    /\ UNCHANGED <<desc, result, rings, disk, dirty, last_used, expect>>

-----------------------------------------------------------------------------
(* The driver.                                                              *)

\* Zero the rings and descriptors in memory, hand over their addresses, set QUEUE_READY.
SetUp ==
    /\ ~queue_ready /\ queue_ready' = TRUE
    /\ FreshRings /\ last_used' = 0
    /\ desc' = [h \in Heads |-> NoRequest] /\ result' = [h \in Heads |-> NoResult]
    /\ expect' = [h \in Heads |-> <<>>]
    /\ UNCHANGED <<disk, dirty, last_avail, interrupt_status, handler, resets, outstanding,
                   mirror>>

\* Build a chain at a free head and publish it in the available ring.
Post ==
    /\ queue_ready
    /\ \E r \in Requests, head \in Heads \ {outstanding[i] : i \in DOMAIN outstanding} :
          /\ desc' = [desc EXCEPT ![head] = r]
          /\ result' = [result EXCEPT ![head] = NoResult]
          /\ avail' = [avail EXCEPT ![avail_idx % QueueNum] = head]
          /\ outstanding' = Append(outstanding, head)
          /\ mirror' = Stored(r, mirror)
          /\ expect' = [expect EXCEPT ![head] = IF r.type = "in"
                           THEN [i \in 1 .. Len(r.bufs) |-> IF r.sector + i - 1 \in Image
                                                            THEN mirror[r.sector + i - 1] ELSE Zero]
                           ELSE <<>>]
    /\ avail_idx' = (avail_idx + 1) % IndexMod
    /\ UNCHANGED <<used, used_idx, device, driver>>

\* The interrupt handler acknowledges first (INTERRUPT_ACK), ...
Acknowledge ==
    /\ interrupt_status /\ handler = "idle"
    /\ interrupt_status' = FALSE /\ handler' = "drain"
    /\ UNCHANGED <<desc, result, rings, disk, dirty, queue_ready, last_avail, last_used, resets,
                   history>>

\* Sequence s with an x taken out, if it has one.
Without(s, x) ==
    LET at == CHOOSE i \in DOMAIN s : s[i] = x
    IN  IF \E i \in DOMAIN s : s[i] = x
        THEN [i \in 1 .. Len(s) - 1 |-> IF i < at THEN s[i] ELSE s[i + 1]] ELSE s

\* ... then collects used entries, freeing their chains, until it has caught up.
Collect ==
    /\ handler = "drain" /\ queue_ready
    /\ IF last_used = used_idx
       THEN handler' = "idle" /\ UNCHANGED <<desc, result, last_used, history>>
       ELSE LET head == used[last_used % QueueNum]
            IN  /\ last_used' = (last_used + 1) % IndexMod
                /\ desc' = [desc EXCEPT ![head] = NoRequest]
                /\ result' = [result EXCEPT ![head] = NoResult]
                /\ outstanding' = Without(outstanding, head)
                /\ expect' = [expect EXCEPT ![head] = <<>>]
                /\ UNCHANGED <<handler, mirror>>
    /\ UNCHANGED <<rings, device, resets>>

Next == Notify \/ Reset \/ SetUp \/ Post \/ Acknowledge \/ Collect

Spec == Init /\ [][Next]_vars

\* Every hart gets its turn: a posted request is notified, an interrupt taken, a
\* handler finished.
FairSpec == /\ Spec
            /\ WF_vars(Pending # 0 /\ Notify) /\ WF_vars(Acknowledge)
            /\ WF_vars(Collect) /\ WF_vars(SetUp)

-----------------------------------------------------------------------------
(* Properties.                                                              *)

\* Every variable has its type.
TypeOK ==
    /\ avail \in [Slots -> Heads] /\ avail_idx \in Indices
    /\ used \in [Slots -> Heads] /\ used_idx \in Indices
    /\ last_avail \in Indices /\ last_used \in Indices
    /\ dirty \subseteq Image /\ DOMAIN disk = Image /\ DOMAIN desc = Heads
    /\ queue_ready \in BOOLEAN /\ interrupt_status \in BOOLEAN
    /\ handler \in {"idle", "drain"} /\ resets \in 0 .. MaxResets

\* The used entries the driver has yet to collect and the available ones the
\* device has yet to consume, oldest first.
Finished == [i \in 1 .. (used_idx - last_used) % IndexMod |->
                used[((last_used + i - 1) % IndexMod) % QueueNum]]
Waiting == [i \in 1 .. Pending |-> avail[((last_avail + i - 1) % IndexMod) % QueueNum]]

\* The two rings are one queue: across index wrap-around, full rings and resets,
\* the requests the driver has posted and not collected are exactly, and in order,
\* those in the used ring followed by those in the available ring, so each one is
\* completed once.
ExactlyOnceInOrder == queue_ready => Finished \o Waiting = outstanding

\* A finished read has the data every write posted before it left, and none posted
\* after it, however requests are batched into notifies.
ReadsSeeEarlierWrites ==
    queue_ready => \A i \in DOMAIN Finished :
        LET h == Finished[i]
        IN  desc[h].whole /\ result[h].status = "ok" => result[h].data = expect[h]

\* While a finished flush is still uncollected, the only writes not yet pushed to
\* the backing file are those that were posted after it.
FlushCoversEarlierWrites ==
    queue_ready => \A i \in DOMAIN Finished :
        desc[Finished[i]].whole /\ desc[Finished[i]].type = "flush"
            => dirty \subseteq UNION {Written(desc[Finished[j]]) : j \in i + 1 .. Len(Finished)}

\* The data is right: what reads return, and what a flush has pushed out.
DataExact == ReadsSeeEarlierWrites /\ FlushCoversEarlierWrites

\* No completion is lost: while one waits in the used ring, either the interrupt
\* bit is up or the handler is still collecting.
NoLostCompletion == queue_ready /\ used_idx # last_used => interrupt_status \/ handler = "drain"

\* Every posted request is collected in the end, unless the driver resets.
RequestsFinish == \A h \in Heads :
    (\E i \in DOMAIN outstanding : outstanding[i] = h) ~>
        ~(\E i \in DOMAIN outstanding : outstanding[i] = h)

\* What device.h says of interrupt bit 0: the used ring advanced.
InterruptMeansAdvance ==
    [][interrupt_status' /\ ~interrupt_status => used_idx' # used_idx]_vars
=============================================================================
