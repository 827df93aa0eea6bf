-------------------------------- MODULE Plic --------------------------------
(***************************************************************************)
(* External interrupts end to end (device.c, main.c): the console pump that *)
(* feeds the host's input to the 16550 UART, the UART's two interrupt       *)
(* conditions, the virtio devices' interrupt lines, the PLIC that           *)
(* arbitrates them for each context, and a guest driver that claims,        *)
(* services and completes.                                                  *)
(*                                                                          *)
(* The driver is the environment: it is written from the register protocol  *)
(* the devices implement, one device access per step, so that the pump and  *)
(* the handlers of the other contexts run between any two of them.          *)
(***************************************************************************)
EXTENDS Integers, Sequences, FiniteSets

CONSTANTS
    Contexts,        \* PLIC contexts in use
    VirtioSources,   \* virtio devices attached, by source number
    Priorities,      \* what the driver programs: priority of each source,
    Enables,         \* ... and sources enabled in each context
    Raw,             \* the console is a tty: Ctrl-A is an escape prefix
    MaxInput,        \* bound: bytes the host types
    MaxWork,         \* bound: transmissions, requests and reconfigurations
    MaxNest          \* bound: how deep a context's handlers nest

UART_IRQ == 10
Sources == VirtioSources \cup {UART_IRQ}

ASSUME VirtioAssumption   == VirtioSources \subseteq {1, 2}
ASSUME PriorityAssumption == Priorities \in [Sources -> Nat \ {0}]
ASSUME EnableAssumption   == Enables \in [Contexts -> SUBSET Sources]
ASSUME BoundAssumption    == Raw \in BOOLEAN /\ {MaxInput, MaxWork, MaxNest} \subseteq Nat

\* Bytes, as far as the console tells them apart.
CtrlA == "^A"
Quit  == "x"
Key   == "k"
Bytes == {CtrlA, Quit, Key}
NoByte == "none"

VARIABLES
    ier, rx_have, rx, thre_ip,             \* Uart
    interrupt_status,                      \* of each virtio device, # 0
    priority, enable, threshold, claimed,  \* Plic
    pending, escape, quit,                 \* console_pump's statics, g_console_quit
    handler,                               \* guest: each context's active handlers
    work,                                  \* guest: what is left of MaxWork
    typed, got                             \* history: host input, guest input

uart == <<ier, rx_have, rx, thre_ip>>
plic == <<priority, enable, threshold, claimed>>
console == <<pending, escape, quit, typed>>
vars == <<uart, interrupt_status, plic, console, handler, work, got>>

\* plat_init leaves the devices all zero.
Init ==
    /\ ier = {} /\ rx_have = FALSE /\ rx = NoByte /\ thre_ip = FALSE
    /\ interrupt_status = [s \in VirtioSources |-> FALSE]
    /\ priority = [s \in Sources |-> 0]
    /\ enable = [c \in Contexts |-> {}]
    /\ threshold = [c \in Contexts |-> 0]
    /\ claimed = [c \in Contexts |-> 0]
    /\ pending = NoByte /\ escape = FALSE /\ quit = FALSE
    /\ handler = [c \in Contexts |-> <<>>]
    /\ work = MaxWork /\ typed = <<>> /\ got = <<>>

-----------------------------------------------------------------------------
(* The host side.                                                           *)

\* console_pump's treatment of a fresh byte.
Accept(b) ==
    /\ typed' = Append(typed, b)
    /\ escape' = (Raw /\ ~escape /\ b = CtrlA)
    /\ quit' = (Raw /\ escape /\ b = Quit)

\* Mutant: the byte is dropped when the UART has no room for it.
OfferOnce(held) ==
    /\ pending' = NoByte
    /\ IF held # NoByte /\ ~rx_have
       THEN rx_have' = TRUE /\ rx' = held
       ELSE UNCHANGED <<rx_have, rx>>
    /\ UNCHANGED <<ier, thre_ip>>

\* plat_uart_rx, and what the pump holds afterwards.
Offer(held) ==
    /\ IF held # NoByte /\ ~rx_have
       THEN pending' = NoByte /\ rx_have' = TRUE /\ rx' = held
       ELSE pending' = held /\ UNCHANGED <<rx_have, rx>>
    /\ UNCHANGED <<ier, thre_ip>>

\* console_pump, with a byte waiting on stdin or with none.
ConsolePump ==
    /\ ~quit
    /\ \/ /\ pending = NoByte /\ Len(typed) < MaxInput
          /\ \E b \in Bytes :
                /\ Accept(b)
                /\ Offer(IF escape' \/ quit' THEN NoByte ELSE b)
       \/ Offer(pending) /\ UNCHANGED <<typed, escape, quit>>
    /\ UNCHANGED <<interrupt_status, plic, handler, work, got>>

-----------------------------------------------------------------------------
(* The PLIC.                                                                *)

uart_asserted == ("rx" \in ier /\ rx_have) \/ ("tx" \in ier /\ thre_ip)

plic_lines == {s \in VirtioSources : interrupt_status[s]}
                  \cup {s \in {UART_IRQ} : uart_asserted}

\* What plic_best scans for in context c.
Presentable(c) == {s \in plic_lines \cap enable[c] :
                       s # claimed[c] /\ priority[s] > threshold[c]}

\* The source plic_best returns; 0 when nothing is presentable.
plic_best(c) ==
    IF Presentable(c) = {} THEN 0
    ELSE CHOOSE s \in Presentable(c) : \A t \in Presentable(c) :
             priority[s] > priority[t] \/ (priority[s] = priority[t] /\ s <= t)

Top(c) == handler[c][1]
InPhase(c, phase) == handler[c] # <<>> /\ Top(c).phase = phase
Move(c, phase) == handler' = [handler EXCEPT ![c][1].phase = phase]

\* A handler is entered on a presented interrupt and reads the claim register
\* (plic_claim).
Claim(c) ==
    /\ ~quit /\ Len(handler[c]) < MaxNest /\ plic_best(c) # 0
    /\ claimed' = [claimed EXCEPT ![c] = plic_best(c)]
    /\ handler' = [handler EXCEPT ![c] = <<[src |-> plic_best(c), phase |-> "serve"]>> \o @]
    /\ UNCHANGED <<uart, interrupt_status, priority, enable, threshold, console, work, got>>

\* Mutant: a completion counts only while the source is enabled.
CompleteIfEnabled(c) ==
    /\ ~quit /\ InPhase(c, "done")
    /\ claimed' = [claimed EXCEPT ![c] =
                       IF Top(c).src = @ /\ @ \in enable[c] THEN 0 ELSE @]
    /\ handler' = [handler EXCEPT ![c] = Tail(@)]
    /\ UNCHANGED <<uart, interrupt_status, priority, enable, threshold, console, work, got>>

\* The handler completes what it claimed (plic_write) and returns.
Complete(c) ==
    /\ ~quit /\ InPhase(c, "done")
    /\ claimed' = [claimed EXCEPT ![c] = IF Top(c).src = @ THEN 0 ELSE @]
    /\ handler' = [handler EXCEPT ![c] = Tail(@)]
    /\ UNCHANGED <<uart, interrupt_status, priority, enable, threshold, console, work, got>>

-----------------------------------------------------------------------------
(* Servicing the devices.                                                   *)

\* Mutant: reading IIR leaves a THRE interrupt pending.
ReadIirKeepsThre(c) ==
    /\ ~quit /\ InPhase(c, "serve") /\ Top(c).src = UART_IRQ
    /\ \A d \in Contexts : ~InPhase(d, "rx")
    /\ Move(c, IF "rx" \in ier /\ rx_have THEN "rx" ELSE "done")
    /\ UNCHANGED <<uart, interrupt_status, plic, console, work, got>>

\* uart_read of IIR: RX outranks THRE, and reporting THRE clears it.  The driver
\* holds its port lock from here to the RBR read.
ReadIir(c) ==
    /\ ~quit /\ InPhase(c, "serve") /\ Top(c).src = UART_IRQ
    /\ \A d \in Contexts : ~InPhase(d, "rx")
    /\ IF "rx" \in ier /\ rx_have
       THEN Move(c, "rx") /\ UNCHANGED thre_ip
       ELSE Move(c, "done") /\ thre_ip' = (thre_ip /\ "tx" \notin ier)
    /\ UNCHANGED <<ier, rx_have, rx, interrupt_status, plic, console, work, got>>

\* uart_read of RBR.
ReadRbr(c) ==
    /\ ~quit /\ InPhase(c, "rx")
    /\ rx_have' = FALSE /\ got' = Append(got, rx)
    /\ Move(c, "done")
    /\ UNCHANGED <<ier, rx, thre_ip, interrupt_status, plic, console, work>>

\* INTERRUPT_ACK of a virtio device.
Acknowledge(c) ==
    /\ ~quit /\ InPhase(c, "serve") /\ Top(c).src \in VirtioSources
    /\ interrupt_status' = [interrupt_status EXCEPT ![Top(c).src] = FALSE]
    /\ Move(c, "done")
    /\ UNCHANGED <<uart, plic, console, work, got>>

-----------------------------------------------------------------------------
(* What the guest does outside its handlers.  A write that leaves the       *)
(* programmed configuration, and every new request, spends work.            *)

Spend(free) == IF free THEN UNCHANGED work ELSE work > 0 /\ work' = work - 1

\* uart_write of THR.
Transmit ==
    /\ ~quit /\ Spend(FALSE) /\ thre_ip' = TRUE
    /\ UNCHANGED <<ier, rx_have, rx, interrupt_status, plic, console, handler, got>>

\* uart_write of IER; the driver wants both conditions.
WriteIer ==
    /\ ~quit
    /\ \E v \in SUBSET {"rx", "tx"} :
          /\ Spend(v = {"rx", "tx"} /\ ier # v)
          /\ ier' = v
          /\ thre_ip' = (thre_ip \/ "tx" \in v)
    /\ UNCHANGED <<rx_have, rx, interrupt_status, plic, console, handler, got>>

\* A notify completes requests, or a frame arrives.
Raise ==
    /\ ~quit /\ Spend(FALSE)
    /\ \E s \in VirtioSources : interrupt_status' = [interrupt_status EXCEPT ![s] = TRUE]
    /\ UNCHANGED <<uart, plic, console, handler, got>>

\* plic_write of a priority, an enable word or a threshold.
WritePlic ==
    /\ ~quit
    /\ \/ \E s \in Sources : \E v \in {0, Priorities[s]} :
             /\ Spend(v = Priorities[s] /\ priority[s] # v)
             /\ priority' = [priority EXCEPT ![s] = v]
             /\ UNCHANGED <<enable, threshold>>
       \/ \E c \in Contexts, v \in {{}} \cup {Enables[d] : d \in Contexts} :
             /\ Spend(v = Enables[c] /\ enable[c] # v)
             /\ enable' = [enable EXCEPT ![c] = v]
             /\ UNCHANGED <<priority, threshold>>
       \/ \E c \in Contexts, v \in {0} \cup {Priorities[s] : s \in Sources} :
             /\ Spend(v = 0 /\ threshold[c] # v)
             /\ threshold' = [threshold EXCEPT ![c] = v]
             /\ UNCHANGED <<priority, enable>>
    /\ UNCHANGED <<uart, interrupt_status, claimed, console, handler, got>>

Handle(c) == Claim(c) \/ ReadIir(c) \/ ReadRbr(c) \/ Acknowledge(c) \/ Complete(c)

Next == ConsolePump \/ Transmit \/ WriteIer \/ Raise \/ WritePlic
            \/ \E c \in Contexts : Handle(c)

Spec == Init /\ [][Next]_vars

\* The run loop pumps the console every chunk, so a held byte is offered again, and
\* runs every hart in turn, so a driver mid-handler goes on and one that masked
\* something puts it back.
Restore == (WriteIer \/ WritePlic) /\ work' = work
Retry   == ConsolePump /\ typed' = typed

FairSpec == /\ Spec
            /\ WF_vars(Retry) /\ WF_vars(Restore)
            /\ \A c \in Contexts : WF_vars(Handle(c))

-----------------------------------------------------------------------------
(* Properties.                                                              *)

\* Every variable has its type.
TypeOK ==
    /\ ier \subseteq {"rx", "tx"} /\ rx_have \in BOOLEAN /\ thre_ip \in BOOLEAN
    /\ rx \in Bytes \cup {NoByte} /\ pending \in Bytes \cup {NoByte}
    /\ interrupt_status \in [VirtioSources -> BOOLEAN]
    /\ priority \in [Sources -> Nat] /\ threshold \in [Contexts -> Nat]
    /\ enable \in [Contexts -> SUBSET Sources]
    /\ claimed \in [Contexts -> Sources \cup {0}]
    /\ escape \in BOOLEAN /\ quit \in BOOLEAN /\ work \in 0 .. MaxWork
    /\ \A c \in Contexts : Len(handler[c]) <= MaxNest

\* A Ctrl-A is a prefix when it stands at an even offset in its run of Ctrl-As.
IsPrefix(s, i) ==
    /\ Raw /\ s[i] = CtrlA
    /\ \E j \in 1 .. i : /\ \A k \in j .. i : s[k] = CtrlA
                         /\ j = 1 \/ s[j - 1] # CtrlA
                         /\ (i - j) % 2 = 0

\* The prefixes, and the quit command, are not for the guest.
Dropped(s, i) == IsPrefix(s, i) \/ (i > 1 /\ IsPrefix(s, i - 1) /\ s[i] = Quit)

\* The bytes of input s the guest is meant to see: f[n], of the first n.
Meant(s) ==
    LET f[n \in 0 .. Len(s)] == IF n = 0 THEN <<>>
                                ELSE IF Dropped(s, n) THEN f[n - 1] ELSE Append(f[n - 1], s[n])
    IN  f[Len(s)]

Held(b, have) == IF have THEN <<b>> ELSE <<>>

\* console_pump through uart_read: whatever the pump, the handlers and the
\* reconfigurations do, the guest has read, in order and once each, exactly the
\* bytes meant for it, save the one in the UART and the one the pump holds back.
InputExact == Meant(typed) = got \o Held(rx, rx_have) \o Held(pending, pending # NoByte)

\* plic_claim and plic_write agree with the handlers: with one handler at a time,
\* a context has a source in service exactly while it is being handled, so no
\* source stays masked after its handler is gone.
InServiceExact ==
    \A c \in Contexts : claimed[c] = IF handler[c] = <<>> THEN 0 ELSE Top(c).src

\* Level-triggered lines lose nothing: every byte meant for the guest is read in
\* the end, although it may arrive while the source is masked, unprogrammed or in
\* service, unless the user quits.
InputServed ==
    \A n \in 1 .. MaxInput : Len(Meant(typed)) >= n ~> (Len(got) >= n \/ quit)

\* THRE is one-shot (uart_asserted): once the guest stops asking, every line goes
\* quiet and stays so, however often the transmitter was empty.
NoStorm == <>[](quit \/ plic_lines = {})

\* What plic_claim says: a claimed source is not presented again until completed.
InServiceNotPresented ==
    \A c \in Contexts : \A i \in DOMAIN handler[c] : plic_best(c) # handler[c][i].src
=============================================================================
