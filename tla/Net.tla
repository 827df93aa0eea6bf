-------------------------------- MODULE Net --------------------------------
(***************************************************************************)
(* The guest's network: the virtio-net receive path of device.c, the user- *)
(* mode stack of netstack.c that ends the guest's TCP connections and      *)
(* forwards their bytes through host sockets, and the socket pump of       *)
(* main.c.                                                                 *)
(*                                                                         *)
(* A frame the guest transmits runs through the device into the stack and  *)
(* every reply comes back into the receive FIFO before the transmit        *)
(* returns, so it is one step; one call of the pump is one step.  The      *)
(* operators below take the state of the emulator (the record net) to the  *)
(* next one, as the C functions do through their pointers.  The guest's    *)
(* own TCP and the remote hosts are the environment.                       *)
(*                                                                         *)
(* A byte of a stream is its number in the stream.  Sequence numbers wrap  *)
(* at SeqSize.  Frames carry what a property tells apart; headers and       *)
(* checksums are left out.                                                 *)
(***************************************************************************)
EXTENDS Integers, Sequences, FiniteSets, SequencesExt

CONSTANTS
    TcpPorts, UdpPorts,  \* guest ports; one connection or flow each
    Dst,                 \* the address each port talks to: "net", "dns" or "gw"
    Asks,                \* requests to the gateway: <<kind, address>>
    NatMax,              \* flows (64)
    Buf, Mss,            \* bytes buffered per direction, bytes per segment
    Fifo,                \* frames the device buffers (16)
    RxBufs,              \* receive buffers the guest posts
    GuestBuf,            \* bytes the guest's TCP can hold
    SeqSize,              \* sequence numbers (2^32)
    SendRoom,            \* bytes the host socket takes before it would block
    RecvMax,             \* bytes one recv() of the pump takes (16384)
    Plans                \* bounds of a run: <<bytes the remote sends, bytes the guest
                         \* sends, requests and repeats and failures besides>>

VARIABLES
    net,      \* the emulator: flow table, device, sockets
    guest,    \* guest[p]: the guest's end of connection p
    heard,    \* the replies to its other requests the guest has received
    plan,     \* the member of Plans this behaviour follows
    extras    \* requests, repeats and failures still to come

vars == <<net, guest, heard, plan, extras>>

HostBytes == plan[1]
GuestBytes == plan[2]

Ports == TcpPorts \cup UdpPorts
Ids == 1..NatMax

Plus(a, n) == (a + n) % SeqSize
Minus(a, b) == (a - b) % SeqSize
Least(a, b) == IF a < b THEN a ELSE b
Without(s, n) == SubSeq(s, n + 1, Len(s))
First(s, n) == SubSeq(s, 1, n)

Free == [st |-> "free"]

Live(n, id) == n.flows[id].st # "free"

-----------------------------------------------------------------------------
(* The receive path of virtio-net. *)

\* Move buffered frames into posted buffers; n.used is the used ring the
\* guest has not looked at yet.
DeliverRx(n) ==
    LET k == Least(Len(n.fifo), n.posted)
    IN [n EXCEPT !.fifo = Without(@, k),
                 !.used = @ \o First(n.fifo, k),
                 !.posted = @ - k,
                 !.intr = @ \/ k > 0]

\* A frame that finds the FIFO full is dropped; n.dropped remembers it.
PlatNetRx(n, fr) ==
    IF Len(n.fifo) >= Fifo THEN [n EXCEPT !.dropped = TRUE]
    ELSE DeliverRx([n EXCEPT !.fifo = Append(@, fr)])

-----------------------------------------------------------------------------
(* Host sockets: sock[id] is the entry of main.c's table, host[p] the       *)
(* kernel's socket and the remote behind it.                                *)

IoOpen(n, id, p) ==
    [n EXCEPT !.sock[id] = [open |-> TRUE, connecting |-> p \in TcpPorts],
              !.host[p].st = IF p \in TcpPorts THEN "pending" ELSE "up"]

\* send(): how many bytes the kernel takes, -1 on a dead connection.
IoSendCount(n, id, data) ==
    LET h == n.host[n.flows[id].port]
    IN IF h.st = "reset" THEN -1 ELSE Least(Len(data), h.space)

IoSend(n, id, data, k) ==
    [n EXCEPT !.host[n.flows[id].port] =
        [@ EXCEPT !.got = @ \o First(data, k), !.space = @ - k]]

IoShutdown(n, id) == [n EXCEPT !.host[n.flows[id].port].shut = TRUE]

IoClose(n, id) ==
    [n EXCEPT !.sock[id] = [open |-> FALSE, connecting |-> FALSE],
              !.host[n.flows[id].port].st = "closed"]

-----------------------------------------------------------------------------
(* The flow table. *)

FlowFind(n, p) == {id \in Ids : Live(n, id) /\ n.flows[id].port = p}

FreeSlots(n) == {id \in Ids : ~Live(n, id)}

FlowNew(p) ==
    [st |-> IF p \in TcpPorts THEN "connecting" ELSE "estab", port |-> p,
     real |-> IF Dst[p] = "dns" THEN "upstream" ELSE Dst[p],
     guestFin |-> FALSE, hostEof |-> FALSE, finSent |-> FALSE,
     shutPending |-> FALSE, sndNxt |-> 0, sndUna |-> 0, rcvNxt |-> 0,
     wnd |-> 0, g2h |-> <<>>, h2g |-> <<>>]

\* Mutant: the slot is cleared but its socket stays open.
FlowFreeLeaks(n, id) ==
    IF ~Live(n, id) THEN n ELSE [n EXCEPT !.flows[id] = Free]

FlowFree(n, id) ==
    IF ~Live(n, id) THEN n ELSE [IoClose(n, id) EXCEPT !.flows[id] = Free]

-----------------------------------------------------------------------------
(* UDP. *)

UdpToGuest(n, id, data) ==
    PlatNetRx(n, [kind |-> "udp", port |-> n.flows[id].port,
                  from |-> Dst[n.flows[id].port], data |-> data])

UdpNat(n, fr, ok) ==
    LET found == FlowFind(n, fr.port)
        id    == IF found # {} THEN CHOOSE i \in found : TRUE
                 ELSE CHOOSE i \in FreeSlots(n) : \A j \in FreeSlots(n) : i <= j
        m     == IF found # {} THEN n
                 ELSE IoOpen([n EXCEPT !.flows[id] = FlowNew(fr.port)], id, fr.port)
    IN IF found = {} /\ (FreeSlots(n) = {} \/ ~ok) THEN n
       ELSE [m EXCEPT !.host[fr.port].got = Append(@, m.flows[id].real)]

-----------------------------------------------------------------------------
(* TCP: the stack is the other end of the guest's connection. *)

TcpOut(n, id, flags, data) ==
    LET f == n.flows[id]
    IN PlatNetRx(n, [kind |-> "tcp", port |-> f.port, flags |-> flags,
                     seq |-> f.sndNxt, ack |-> f.rcvNxt, data |-> data,
                     wnd |-> IF "syn" \in flags THEN Buf ELSE Buf - Len(f.g2h)])

\* Send what the guest's window allows, in segments, and the FIN once the
\* host is done and its last byte is out.
RECURSIVE TcpFlushH2g(_, _)
TcpFlushH2g(n, id) ==
    LET f        == n.flows[id]
        inflight == Minus(f.sndNxt, f.sndUna)
        chunk    == Least(Least(Len(f.h2g), f.wnd - inflight), Mss)
        sent     == TcpOut(n, id, {"ack"}, First(f.h2g, chunk))
    IN CASE f.st # "estab" -> n
         [] f.st = "estab" /\ f.h2g # <<>> /\ inflight < f.wnd ->
                TcpFlushH2g([sent EXCEPT !.flows[id].sndNxt = Plus(@, chunk),
                                         !.flows[id].h2g = Without(@, chunk)], id)
         [] f.st = "estab" /\ f.h2g = <<>> /\ f.hostEof /\ ~f.finSent ->
                [TcpOut(n, id, {"fin", "ack"}, <<>>)
                    EXCEPT !.flows[id].sndNxt = Plus(@, 1), !.flows[id].finSent = TRUE]
         [] OTHER -> n

\* Pass buffered guest bytes to the host, then a pending half-close; a dead
\* socket resets the guest and frees the flow.
TcpDrainG2h(n, id) ==
    LET f == n.flows[id]
        k == IF f.g2h = <<>> THEN 0 ELSE IoSendCount(n, id, f.g2h)
        m == [IoSend(n, id, f.g2h, k) EXCEPT !.flows[id].g2h = Without(@, k)]
    IN IF k < 0 THEN FlowFree(TcpOut(n, id, {"rst"}, <<>>), id)
       ELSE IF f.shutPending /\ m.flows[id].g2h = <<>>
       THEN [IoShutdown(m, id) EXCEPT !.flows[id].shutPending = FALSE]
       ELSE m

TcpMaybeClose(n, id) ==
    LET f == n.flows[id]
    IN IF f.guestFin /\ f.finSent /\ f.g2h = <<>> /\ f.h2g = <<>>
       THEN FlowFree(n, id) ELSE n

\* A SYN without a flow: allocate, and connect.  The SYN-ACK waits.
TcpConnect(n, fr, ok) ==
    LET id == CHOOSE i \in FreeSlots(n) : \A j \in FreeSlots(n) : i <= j
        f  == [FlowNew(fr.port) EXCEPT !.sndNxt = n.isn, !.sndUna = n.isn,
                  !.rcvNxt = Plus(fr.seq, 1), !.wnd = IF fr.wnd = 0 THEN 1 ELSE fr.wnd]
        m  == [n EXCEPT !.isn = Plus(@, 3), !.flows[id] = f]
    IN IF FreeSlots(n) = {} THEN n
       ELSE IF ok THEN IoOpen(m, id, fr.port)
       ELSE [TcpOut(m, id, {"rst", "ack"}, <<>>) EXCEPT !.flows[id] = Free]

\* The guest's window and acknowledgement.
TcpAck(f, fr) ==
    LET una == IF "ack" \in fr.flags
                  /\ Minus(fr.ack, f.sndUna) <= Minus(f.sndNxt, f.sndUna)
               THEN fr.ack ELSE f.sndUna
    IN [f EXCEPT !.wnd = IF fr.wnd = 0 THEN 1 ELSE fr.wnd,
                 !.sndUna = una,
                 !.st = IF @ = "synrcvd" /\ "ack" \in fr.flags /\ una = f.sndNxt
                        THEN "estab" ELSE @]

\* Mutant: a repeated segment is taken again.
TcpDataRepeats(n, id, fr) ==
    LET f    == n.flows[id]
        take == Least(Len(fr.data), Buf - Len(f.g2h))
        m    == TcpDrainG2h([n EXCEPT !.flows[id].g2h = @ \o First(fr.data, take),
                                      !.flows[id].rcvNxt = Plus(fr.seq, take)], id)
    IN CASE fr.data # <<>> /\ f.st = "estab" /\ ~f.guestFin ->
                IF Live(m, id) THEN TcpOut(m, id, {"ack"}, <<>>) ELSE m
         [] OTHER -> n

\* In-order data is taken as far as there is room; anything else is only
\* acknowledged again.
TcpData(n, id, fr) ==
    LET f    == n.flows[id]
        take == Least(Len(fr.data), Buf - Len(f.g2h))
        m    == TcpDrainG2h([n EXCEPT !.flows[id].g2h = @ \o First(fr.data, take),
                                      !.flows[id].rcvNxt = Plus(@, take)], id)
    IN CASE fr.data # <<>> /\ f.st = "estab" /\ fr.seq = f.rcvNxt /\ ~f.guestFin ->
                IF Live(m, id) THEN TcpOut(m, id, {"ack"}, <<>>) ELSE m
         [] fr.data # <<>> /\ fr.seq # f.rcvNxt -> TcpOut(n, id, {"ack"}, <<>>)
         [] OTHER -> n

TcpFin(n, id, fr) ==
    LET f == n.flows[id]
        m == [n EXCEPT !.flows[id].guestFin = TRUE, !.flows[id].rcvNxt = Plus(@, 1)]
    IN IF "fin" \in fr.flags /\ ~f.guestFin /\ Plus(fr.seq, Len(fr.data)) = f.rcvNxt
       THEN TcpDrainG2h([TcpOut(m, id, {"ack"}, <<>>)
                            EXCEPT !.flows[id].shutPending = TRUE], id)
       ELSE n

HandleTcp(n, fr, ok) ==
    LET found == FlowFind(n, fr.port)
        id    == CHOOSE i \in found : TRUE
        n1    == [n EXCEPT !.flows[id] = TcpAck(@, fr)]
        n2    == TcpData(n1, id, fr)
        n3    == TcpFin(n2, id, fr)
        n4    == TcpFlushH2g(n3, id)
    IN CASE found = {} -> IF "syn" \in fr.flags THEN TcpConnect(n, fr, ok) ELSE n
         [] found # {} /\ "rst" \in fr.flags -> FlowFree(n, id)
         [] OTHER -> IF ~Live(n2, id) THEN n2
                     ELSE IF ~Live(n3, id) THEN n3
                     ELSE TcpMaybeClose(n4, id)

-----------------------------------------------------------------------------
(* The gateway's own services, and dispatch. *)

HandleArp(n, addr) ==
    IF addr \in {"gw", "dns"} THEN PlatNetRx(n, [kind |-> "isat", from |-> addr]) ELSE n

HandleIcmp(n, addr) ==
    IF addr = "gw" THEN PlatNetRx(n, [kind |-> "pong", from |-> addr]) ELSE n

\* DISCOVER gets an OFFER, REQUEST an ACK; the destination does not matter.
HandleDhcp(n, msg) ==
    CASE msg = "discover" -> PlatNetRx(n, [kind |-> "offer", from |-> "gw"])
      [] msg = "request"  -> PlatNetRx(n, [kind |-> "lease", from |-> "gw"])
      [] OTHER            -> n

HandleIp(n, fr, ok) ==
    CASE fr.kind = "ping" -> HandleIcmp(n, fr.to)
      [] fr.kind \in {"discover", "request", "inform"} -> HandleDhcp(n, fr.kind)
      [] fr.kind = "udp"  -> IF fr.to = "gw" THEN n ELSE UdpNat(n, fr, ok)
      [] fr.kind = "tcp"  -> IF fr.to = "gw" THEN n ELSE HandleTcp(n, fr, ok)

NetstackInput(n, fr, ok) ==
    IF fr.kind = "arp" THEN HandleArp(n, fr.to) ELSE HandleIp(n, fr, ok)

\* The transmit queue: the frame goes to the stack, and the completion
\* raises the interrupt.
ProcessTx(n, fr, ok) == [NetstackInput(n, fr, ok) EXCEPT !.intr = TRUE]

-----------------------------------------------------------------------------
(* Host-side events, called by the pump. *)

TcpSynack(n, id) == TcpOut(n, id, {"syn", "ack"}, <<>>)

\* Mutant: the SYN takes no sequence number.
HostConnectedFreeSyn(n, id) ==
    IF Live(n, id) /\ n.flows[id].st = "connecting"
    THEN [TcpSynack(n, id) EXCEPT !.flows[id].st = "synrcvd"]
    ELSE n

HostConnected(n, id) ==
    IF Live(n, id) /\ n.flows[id].st = "connecting"
    THEN [TcpSynack(n, id)
            EXCEPT !.flows[id].sndNxt = Plus(@, 1), !.flows[id].st = "synrcvd"]
    ELSE n

\* Mutant: received bytes wait for the guest's next segment.
HostRecvLazy(n, id, data) ==
    LET take == Least(Len(data), Buf - Len(n.flows[id].h2g))
    IN IF n.flows[id].port \in UdpPorts THEN UdpToGuest(n, id, data)
       ELSE [n EXCEPT !.flows[id].h2g = @ \o First(data, take)]

HostRecv(n, id, data) ==
    LET f    == n.flows[id]
        take == Least(Len(data), Buf - Len(f.h2g))
    IN IF f.port \in UdpPorts THEN UdpToGuest(n, id, data)
       ELSE IF take = 0 THEN n
       ELSE TcpFlushH2g([n EXCEPT !.flows[id].h2g = @ \o First(data, take)], id)

HostClosed(n, id) ==
    IF n.flows[id].port \in UdpPorts THEN FlowFree(n, id)
    ELSE TcpMaybeClose(TcpFlushH2g([n EXCEPT !.flows[id].hostEof = TRUE], id), id)

HostReset(n, id) ==
    LET f == n.flows[id]
    IN FlowFree(IF f.port \in TcpPorts /\ ~f.finSent
                THEN TcpOut(n, id, {"rst", "ack"}, <<>>) ELSE n, id)

HostWritable(n, id) ==
    LET before == Len(n.flows[id].g2h)
        m      == TcpDrainG2h(n, id)
    IN IF ~Live(m, id) THEN m
       ELSE TcpMaybeClose(IF Len(m.flows[id].g2h) < before
                          THEN TcpOut(m, id, {"ack"}, <<>>) ELSE m, id)

RxRoom(n, id) ==
    LET f == n.flows[id]
    IN IF ~Live(n, id) THEN 0
       ELSE IF f.port \in UdpPorts THEN 1
       ELSE IF f.hostEof \/ f.st = "connecting" THEN 0
       ELSE Buf - Len(f.h2g)

WantsWrite(n, id) ==
    Live(n, id) /\ n.flows[id].port \in TcpPorts /\ n.flows[id].g2h # <<>>

\* What select() reports for the kernel socket of port p.
Readable(h) == h.inbox # <<>> \/ h.fin \/ h.st = "reset"
Writable(h, connecting) ==
    IF connecting THEN h.st # "pending" ELSE h.space > 0 \/ h.st = "reset"

\* recv() and what the pump does with its result.  A UDP receive takes one
\* datagram; an empty datagram reads as length 0, like an end of file.
PumpRead(n, id) ==
    LET p == n.flows[id].port
        h == n.host[p]
        k == Least(Least(RxRoom(n, id), RecvMax), Len(h.inbox))
        m == [n EXCEPT !.host[p].inbox = Without(@, k)]
    IN IF h.st = "reset" THEN HostReset(n, id)
       ELSE IF h.inbox = <<>> THEN HostClosed(n, id)
       ELSE IF p \in UdpPorts /\ Head(h.inbox) = 0 THEN HostClosed(m, id)
       ELSE HostRecv(m, id, First(h.inbox, k))

PumpConnect(n, id) ==
    LET m == [n EXCEPT !.sock[id].connecting = FALSE]
    IN IF n.host[n.flows[id].port].st \in {"refused", "reset"} THEN HostReset(m, id)
       ELSE HostConnected(m, id)

\* One poll of every socket: the sets are taken before any callback runs.
NetPumpUser(n) ==
    LET Port(id) == n.flows[id].port
        Open  == {id \in Ids : n.sock[id].open}
        rfds  == {id \in Open : /\ ~n.sock[id].connecting
                                /\ RxRoom(n, id) > 0
                                /\ Readable(n.host[Port(id)])}
        wfds  == {id \in Open : /\ n.sock[id].connecting \/ WantsWrite(n, id)
                                /\ Writable(n.host[Port(id)], n.sock[id].connecting)}
        One(m, id) ==
            LET m1 == IF m.sock[id].open /\ m.sock[id].connecting /\ id \in wfds
                      THEN PumpConnect(m, id) ELSE m
                m2 == IF m1.sock[id].open /\ id \in rfds /\ RxRoom(m1, id) > 0
                      THEN PumpRead(m1, id) ELSE m1
            IN IF /\ m2.sock[id].open /\ ~m2.sock[id].connecting
                  /\ id \in wfds /\ WantsWrite(m2, id)
               THEN HostWritable(m2, id) ELSE m2
    IN FoldLeft(One, n, [i \in Ids |-> i])

-----------------------------------------------------------------------------
(* The guest's TCP, which is not part of the emulator.  nxt and una count    *)
(* the bytes of its stream sent and acknowledged, the FIN as one more.       *)

Iss == SeqSize - 2
StreamSeq(k) == Plus(Iss, 1 + k)

GuestInit ==
    [st |-> "closed", nxt |-> 0, una |-> 0, rcv |-> 0, got |-> <<>>, unread |-> 0,
     eof |-> FALSE, ackDue |-> FALSE, wnd |-> 0, discarded |-> FALSE, zero |-> FALSE]

Segment(p, g, flags, seq, data) ==
    [kind |-> "tcp", port |-> p, to |-> Dst[p], flags |-> flags, seq |-> seq,
     ack |-> g.rcv, wnd |-> GuestBuf - g.unread, data |-> data]

GuestTake(g, fr) ==
    LET fits  == Least(Len(fr.data), GuestBuf - g.unread)
        inSeq == fr.seq = g.rcv
        all   == inSeq /\ fits = Len(fr.data)
        acked == Minus(fr.ack, StreamSeq(0))
    IN [g EXCEPT
          !.una = IF acked <= g.nxt /\ acked > @ THEN acked ELSE @,
          !.wnd = fr.wnd,
          !.got = IF inSeq THEN @ \o First(fr.data, fits) ELSE @,
          !.unread = IF inSeq THEN @ + fits ELSE @,
          !.rcv = IF ~inSeq THEN @
                  ELSE Plus(@, fits + (IF all /\ "fin" \in fr.flags THEN 1 ELSE 0)),
          !.eof = @ \/ (all /\ "fin" \in fr.flags),
          !.ackDue = @ \/ fr.data # <<>> \/ "fin" \in fr.flags,
          !.discarded = @ \/ (inSeq /\ fits < Len(fr.data))]

GuestTcp(g, fr) ==
    CASE g.st \in {"closed", "dead"} -> g
      [] g.st \in {"syn", "estab"} /\ "rst" \in fr.flags -> [g EXCEPT !.st = "dead"]
      [] g.st = "syn" /\ {"syn", "ack"} \subseteq fr.flags ->
            [g EXCEPT !.st = "estab", !.rcv = Plus(fr.seq, 1), !.ackDue = TRUE,
                      !.wnd = fr.wnd]
      [] g.st = "estab" /\ fr.flags \cap {"syn", "rst"} = {} -> GuestTake(g, fr)
      [] OTHER -> g

-----------------------------------------------------------------------------
HostInit == [st |-> "none", inbox |-> <<>>, sent |-> 0, fin |-> FALSE,
             got |-> <<>>, space |-> SendRoom, shut |-> FALSE]

\* A live machine: stack and device just set up, the guest's driver has
\* posted its receive buffers.
Init ==
    /\ net = [flows |-> [id \in Ids |-> Free], isn |-> 0,
              fifo |-> <<>>, posted |-> RxBufs, used |-> <<>>, intr |-> FALSE,
              sock |-> [id \in Ids |-> [open |-> FALSE, connecting |-> FALSE]],
              host |-> [p \in Ports |-> HostInit], dropped |-> FALSE]
    /\ guest = [p \in TcpPorts |-> GuestInit]
    /\ heard = {}
    /\ plan \in Plans
    /\ extras = plan[3]

\* One more event outside the normal course of a connection.
Extra == extras > 0 /\ extras' = extras - 1

\* The guest sends one TCP segment; whatever it had to acknowledge rides on it.
Transmit(p, flags, seq, data, g, ok) ==
    /\ net' = ProcessTx(net, Segment(p, guest[p], flags, seq, data), ok)
    /\ guest' = [guest EXCEPT ![p] = [g EXCEPT !.ackDue = FALSE,
                    !.zero = @ \/ guest[p].unread = GuestBuf]]
    /\ UNCHANGED <<heard, plan>>

\* The first SYN or one more.
Connect(p) ==
    LET g == guest[p]
    IN /\ g.st \in {"closed", "syn"}
       /\ \E ok \in BOOLEAN :
            /\ Transmit(p, {"syn"}, Iss, <<>>, [g EXCEPT !.st = "syn"], ok)
            /\ IF g.st = "closed" /\ ok THEN UNCHANGED extras ELSE Extra

\* New bytes, within the window the stack last advertised.
GuestSend(p) ==
    LET g == guest[p]
    IN /\ g.st = "estab" /\ g.nxt < GuestBytes /\ g.nxt - g.una < g.wnd
       /\ \E k \in 1..Least(Mss, Least(GuestBytes - g.nxt, g.wnd - (g.nxt - g.una))) :
            Transmit(p, {"ack"}, StreamSeq(g.nxt), [i \in 1..k |-> g.nxt + i],
                     [g EXCEPT !.nxt = @ + k], TRUE)
       /\ UNCHANGED extras

\* The retransmission timer: the oldest unacknowledged segment again.
Resend(p) ==
    LET g == guest[p]
        k == Least(Mss, Least(g.nxt, GuestBytes) - g.una)
    IN /\ g.st = "estab" /\ g.una < g.nxt /\ Extra
       /\ IF k > 0
          THEN Transmit(p, {"ack"}, StreamSeq(g.una), [i \in 1..k |-> g.una + i], g, TRUE)
          ELSE Transmit(p, {"fin", "ack"}, StreamSeq(g.una), <<>>, g, TRUE)

GuestClose(p) ==
    LET g == guest[p]
    IN /\ g.st = "estab" /\ g.nxt = GuestBytes
       /\ Transmit(p, {"fin", "ack"}, StreamSeq(g.nxt), <<>>, [g EXCEPT !.nxt = @ + 1], TRUE)
       /\ UNCHANGED extras

GuestAck(p) ==
    /\ guest[p].st = "estab" /\ guest[p].ackDue
    /\ Transmit(p, {"ack"}, StreamSeq(guest[p].nxt), <<>>, guest[p], TRUE)
    /\ UNCHANGED extras

Abort(p) ==
    /\ Extra /\ guest[p].st = "estab"
    /\ Transmit(p, {"rst"}, StreamSeq(guest[p].nxt), <<>>, [guest[p] EXCEPT !.st = "dead"], TRUE)

\* The application reads; the reopened window is announced.
AppRead(p) ==
    /\ guest[p].unread > 0
    /\ guest' = [guest EXCEPT ![p] = [@ EXCEPT !.unread = 0, !.ackDue = TRUE]]
    /\ UNCHANGED <<net, heard, plan, extras>>

Ask ==
    /\ Extra
    /\ \E a \in Asks : net' = ProcessTx(net, [kind |-> a[1], to |-> a[2]], TRUE)
    /\ UNCHANGED <<guest, heard, plan>>

SendUdp(p) ==
    /\ Extra
    /\ \E ok \in BOOLEAN :
         net' = ProcessTx(net, [kind |-> "udp", port |-> p, to |-> Dst[p]], ok)
    /\ UNCHANGED <<guest, heard, plan>>

\* The interrupt handler: acknowledge, then take every used buffer.
Service ==
    LET One(g, fr) == IF fr.kind = "tcp" THEN [g EXCEPT ![fr.port] = GuestTcp(@, fr)] ELSE g
    IN /\ net.intr
       /\ net' = [net EXCEPT !.intr = FALSE, !.used = <<>>]
       /\ guest' = FoldLeft(One, guest, net.used)
       /\ heard' = heard \cup {fr \in Range(net.used) : fr.kind # "tcp"}
       /\ UNCHANGED <<plan, extras>>

\* Post one more receive buffer and notify queue 0.
PostRx ==
    /\ net.posted + Len(net.used) < RxBufs
    /\ net' = DeliverRx([net EXCEPT !.posted = @ + 1])
    /\ UNCHANGED <<guest, heard, plan, extras>>

\* Status written 0: queues, FIFO and interrupt are cleared, and the driver
\* forgets its rings.
NetReset ==
    /\ Extra
    /\ net.fifo # <<>> \/ net.used # <<>>
    /\ net' = [net EXCEPT !.fifo = <<>>, !.used = <<>>, !.posted = 0, !.intr = FALSE,
                          !.dropped = TRUE]
    /\ UNCHANGED <<guest, heard, plan>>

Pump ==
    /\ net' = NetPumpUser(net)
    /\ UNCHANGED <<guest, heard, plan, extras>>

-----------------------------------------------------------------------------
(* The remote hosts. *)

Host(p, h) ==
    /\ net' = [net EXCEPT !.host[p] = h]
    /\ UNCHANGED <<guest, heard, plan>>

Accept(p) == /\ net.host[p].st = "pending"
             /\ Host(p, [net.host[p] EXCEPT !.st = "up"])
             /\ UNCHANGED extras

Refuse(p) == /\ Extra
             /\ net.host[p].st = "pending"
             /\ Host(p, [net.host[p] EXCEPT !.st = "refused"])

RemoteSend(p) ==
    LET h == net.host[p]
    IN /\ h.st = "up" /\ ~h.fin /\ h.sent < HostBytes
       /\ Host(p, [h EXCEPT !.sent = @ + 1, !.inbox = Append(@, h.sent + 1)])
       /\ UNCHANGED extras

RemoteFin(p) ==
    LET h == net.host[p]
    IN /\ h.st = "up" /\ ~h.fin /\ h.sent = HostBytes
       /\ Host(p, [h EXCEPT !.fin = TRUE])
       /\ UNCHANGED extras

\* An unread inbox is lost with the connection.
RemoteReset(p) ==
    /\ Extra
    /\ net.host[p].st = "up"
    /\ Host(p, [net.host[p] EXCEPT !.st = "reset", !.inbox = <<>>])

RemoteRead(p) ==
    /\ net.host[p].st = "up" /\ net.host[p].space < SendRoom
    /\ Host(p, [net.host[p] EXCEPT !.space = SendRoom])
    /\ UNCHANGED extras

\* A datagram in answer to one that was sent; an empty one has length 0.
RemoteReply(p) ==
    LET h == net.host[p]
    IN /\ h.st = "up" /\ h.sent < Len(h.got)
       /\ \E len \in {0, 1} : Host(p, [h EXCEPT !.sent = @ + 1, !.inbox = Append(@, len)])
       /\ UNCHANGED extras

GuestStep(p) ==
    \/ Connect(p) \/ GuestSend(p) \/ Resend(p) \/ GuestClose(p)
    \/ GuestAck(p) \/ Abort(p) \/ AppRead(p)

RemoteStep(p) ==
    Accept(p) \/ Refuse(p) \/ RemoteSend(p) \/ RemoteFin(p) \/ RemoteReset(p) \/ RemoteRead(p)

Next ==
    \/ \E p \in TcpPorts : GuestStep(p) \/ RemoteStep(p)
    \/ \E p \in UdpPorts : SendUdp(p) \/ RemoteReply(p) \/ RemoteReset(p)
    \/ Ask \/ Service \/ PostRx \/ NetReset \/ Pump

\* Weak fairness, each action with its enabling condition written out.
\* run_until_halt pumps every 1024 instructions; the guest's driver and its
\* TCP are assumed to answer, and its application to read.
Fairness ==
    /\ []<>(NetPumpUser(net) = net) \/ []<><<Pump>>_vars
    /\ []<>(~net.intr) \/ []<><<Service>>_vars
    /\ []<>(net.posted + Len(net.used) >= RxBufs) \/ []<><<PostRx>>_vars
    /\ \A p \in TcpPorts :
          /\ []<>(guest[p].st # "estab" \/ ~guest[p].ackDue) \/ []<><<GuestAck(p)>>_vars
          /\ []<>(guest[p].unread = 0) \/ []<><<AppRead(p)>>_vars

Spec == Init /\ [][Next]_vars /\ Fairness

-----------------------------------------------------------------------------
\* Every frame the device holds or has delivered.
InTransit == net.used \o net.fifo

(* Properties. *)

\* The table, the device and both streams stay within their bounds, and a
\* flow's buffers never exceed NS_TCP_BUF.
TypeOK ==
    /\ \A id \in Ids : Live(net, id) =>
          /\ net.flows[id].st \in {"connecting", "synrcvd", "estab"}
          /\ {Len(net.flows[id].g2h), Len(net.flows[id].h2g)} \subseteq 0..Buf
          /\ {net.flows[id].sndNxt, net.flows[id].sndUna, net.flows[id].rcvNxt}
                \subseteq 0..SeqSize - 1
    /\ Len(net.fifo) <= Fifo
    /\ net.posted + Len(net.used) <= RxBufs
    /\ \A p \in TcpPorts : guest[p].unread \in 0..GuestBuf

InOrder(bytes) == bytes = [i \in 1..Len(bytes) |-> i]

\* Both ends of a connection receive the other end's bytes in order, without
\* gap or repeat, although the guest retransmits, the host socket takes part
\* of a write and buffers and windows fill up; and an end of stream never
\* overtakes data (handle_tcp, tcp_drain_g2h, tcp_flush_h2g,
\* netstack_host_recv, shutdown_pending, fin_sent).
StreamsExact ==
    \A p \in TcpPorts :
        /\ InOrder(guest[p].got) /\ InOrder(net.host[p].got)
        /\ guest[p].eof => net.host[p].fin /\ Len(guest[p].got) = HostBytes
        /\ net.host[p].shut => Len(net.host[p].got) = GuestBytes

\* A UDP answer reaches the port that asked and carries the address it asked,
\* although a query for the virtual name server goes to the real one
\* (flow_alloc, udp_to_guest).
DatagramsExact ==
    /\ \A fr \in heard : fr.kind = "udp" => fr.from = Dst[fr.port]
    /\ \A p \in UdpPorts : Range(net.host[p].got) \subseteq
          (IF Dst[p] = "dns" THEN {"upstream"} ELSE {Dst[p]} \ {"gw"})

\* What the bridge relays arrives unchanged, in order and under the address
\* the guest used.
RelayExact == StreamsExact /\ DatagramsExact

\* A flow holds a socket for as long as it is allocated and no longer, and no
\* two flows serve the same guest port (flow_find, flow_alloc, flow_free).
SocketsMatchFlows ==
    /\ \A id \in Ids : net.sock[id].open <=> Live(net, id)
    /\ \A p \in Ports : Cardinality(FlowFind(net, p)) <= 1

SeqSpan(fr) == Len(fr.data) + IF fr.flags \cap {"fin", "syn"} # {} THEN 1 ELSE 0

\* While no frame was dropped and no byte discarded, the stack's next sequence
\* number is what the guest expects next plus what is still on the way, and
\* what the stack has taken lies between what the guest has had acknowledged
\* and what it has sent; the guest has to throw a byte away only after it has
\* closed its window completely.  Buffers keep to their sizes.  This is the
\* bookkeeping that stands in for retransmission (netstack.c, head comment).
Bookkeeping ==
    /\ TypeOK
    /\ \A id \in Ids : LET f == net.flows[id] IN
        (f.st = "estab" /\ f.port \in TcpPorts /\ guest[f.port].st = "estab") =>
            LET g   == guest[f.port]
                way == SelectSeq(InTransit, LAMBDA fr : fr.kind = "tcp" /\ fr.port = f.port)
                Add(n, fr) == n + SeqSpan(fr)
            IN /\ ~net.dropped /\ ~g.discarded =>
                     f.sndNxt = Plus(g.rcv, FoldLeft(Add, 0, way))
               /\ Minus(f.rcvNxt, StreamSeq(g.una)) <= g.nxt - g.una
    /\ \A p \in TcpPorts : guest[p].discarded => guest[p].zero

Broken(p) == \/ net.dropped \/ guest[p].discarded \/ guest[p].st = "dead"
             \/ net.host[p].st \notin {"up", "closed"}

\* Every byte the remote sends on an established connection reaches the guest
\* in the end, unless the device dropped a frame, the window was closed or
\* the connection broke (net_pump, window updates, FIFO refill).
Delivered ==
    \A p \in TcpPorts :
        guest[p].st = "estab" ~> (Broken(p) \/ Len(guest[p].got) = net.host[p].sent)

\* The head comment of netstack.c: the bridge "uses the advertised windows for
\* flow control", so the guest never receives more than it advertised.
NeverOverrun == \A p \in TcpPorts : ~guest[p].discarded
=============================================================================
