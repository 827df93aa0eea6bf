--------------------------------- MODULE Gdb ---------------------------------
(***************************************************************************)
(* A host program that drives a machine through quanta.h, and the GDB stub *)
(* it may hand the machine to (gdbstub.c): packets and their               *)
(* acknowledgements, breakpoints, stepping, and execution in reverse by    *)
(* checkpoints and replay.                                                 *)
(*                                                                         *)
(* The stub is one sequential process that owns the machine while it       *)
(* serves, so a handler is one step; what runs beside it is the debugger,  *)
(* whose bytes it reads while a reply is unacknowledged, while it waits    *)
(* and, at intervals, while the guest runs.                                *)
(***************************************************************************)
EXTENDS Snapshot, FiniteSets

CONSTANTS
    MaxBp,       \* GDB_MAX_BP
    MaxCp,       \* GDB_MAX_CP
    CpInterval,  \* GDB_CP_INTERVAL
    PollEvery,   \* instructions between two looks at the socket (65536)
    Tries,       \* times a reply is sent (5)
    Wrap         \* modulus of the step counter (2^64)

ASSUME TableAssumption == MaxBp \in Nat /\ MaxCp \in Nat /\ MaxCp >= 2
ASSUME LoopAssumption  == {PollEvery, Tries} \subseteq Nat \ {0}
ASSUME BootAssumption  == \A b \in Boots : b.nharts \in Nat \ {0} /\ b.image \in Seq(0..Vals - 1)

VARIABLES
    boot,     \* the choices made at the start
    q,        \* the handle
    image,    \* contents of the disk's backing file
    host,     \* the host program: calls left, last status, process, snapshots
    stub,     \* GdbStub and where quanta_gdb_serve is
    gdb,      \* the debugger
    c2s, s2c, \* bytes under way to the stub and to the debugger
    hist,     \* hist[k+1]: the machine as it should be at step k
    edit,     \* the first step at which the debugger changed the machine
    odd       \* the guest ran an instruction its memory no longer held

vars == <<boot, q, image, host, stub, gdb, c2s, s2c, hist, edit, odd>>

NoEdit == -1
NoSnap == [was |-> None]

Init ==
    /\ boot \in Boots
    /\ q = StartAt(boot)
    /\ image = boot.image
    /\ host = [calls |-> boot.calls, status |-> None, proc |-> 1, build |-> "a",
               kept |-> NoSnap, file |-> NoFile, rewound |-> FALSE]
    /\ stub = [at |-> "off", bp |-> {}, nsteps |-> 0, reverse |-> FALSE, lastcp |-> 0,
               cp |-> <<>>, adds |-> 0, guard |-> 0, tries |-> 0, reply |-> None,
               quit |-> FALSE, execs |-> 0, cmd |-> None, from |-> 0]
    /\ gdb = [at |-> "idle", n |-> 0, cmd |-> None, left |-> boot.cmds,
              faults |-> boot.faults, ints |-> boot.ints, crossed |-> FALSE]
    /\ c2s = <<>> /\ s2c = <<>>
    /\ hist = <<q.v>>
    /\ edit = NoEdit
    /\ odd = FALSE

Now == stub.nsteps + 1

\* With first edit e, the debugger has changed nothing up to step k.
Unedited(k, e) == e = NoEdit \/ k < e

-----------------------------------------------------------------------------
(* The host's calls, while no debugger is attached. *)

Calling == stub.at = "off" /\ host.calls > 0

Return(status) == host' = [host EXCEPT !.calls = @ - 1, !.status = status]

HostStep ==
    /\ Calling /\ q.loaded
    /\ q' = QuantaStep(q)
    /\ hist' = <<RefStep(hist[1])>>
    /\ odd' = (odd \/ Stale(q))
    /\ image' = IF WritesThrough(q) THEN [image EXCEPT ![1] = q'.v.disk[1]] ELSE image
    /\ Return("ok")
    /\ UNCHANGED <<boot, stub, gdb, c2s, s2c, edit>>

\* The other file, of another size, is only ever attached read-only.
AttachDisk(writable, other) ==
    /\ Calling /\ q.loaded
    /\ other => ~writable
    /\ LET data == IF other THEN <<0, 0>> ELSE image
       IN /\ q' = QuantaAttachDisk(q, data, writable)
          /\ hist' = <<[hist[1] EXCEPT !.disk = data]>>
    /\ host' = [host EXCEPT !.calls = @ - 1, !.status = "ok", !.rewound = FALSE]
    /\ UNCHANGED <<boot, image, stub, gdb, c2s, s2c, edit, odd>>

SetBackend ==
    /\ Calling
    /\ q' = [q EXCEPT !.tx = <<host.proc, "backend">>]
    /\ Return("ok")
    /\ UNCHANGED <<boot, image, stub, gdb, c2s, s2c, hist, edit, odd>>

\* A debug write through the API: memory only, no cache is told.
MemWrite ==
    /\ Calling /\ q.loaded
    /\ q' = [q EXCEPT !.v.data = 1]
    /\ hist' = <<[hist[1] EXCEPT !.data = 1]>>
    /\ Return("ok")
    /\ UNCHANGED <<boot, image, stub, gdb, c2s, s2c, edit, odd>>

\* What the machine should be: once it ran overwritten code, what it is.
Should == IF odd THEN q.v ELSE hist[1]

Keep ==
    /\ Calling /\ q.loaded
    /\ host' = [host EXCEPT !.calls = @ - 1, !.status = "ok",
                            !.kept = QuantaSnapshot(q, Should)]
    /\ UNCHANGED <<boot, q, image, stub, gdb, c2s, s2c, hist, edit, odd>>

Restore ==
    /\ Calling /\ host.kept # NoSnap
    /\ LET ok == Restorable(q, host.kept)
       IN /\ q' = QuantaRestore(q, host.kept)
          /\ hist' = IF ok THEN <<host.kept.was>> ELSE hist
          /\ host' = [host EXCEPT !.calls = @ - 1, !.status = IF ok THEN "ok" ELSE "err",
                                  !.rewound = @ \/ ok]
    /\ UNCHANGED <<boot, image, stub, gdb, c2s, s2c, edit, odd>>

\* The write can stop half-way; the old file is gone by then.
SaveSnapshot(whole) ==
    /\ Calling
    /\ host' = [host EXCEPT !.calls = @ - 1,
                  !.status = IF q.loaded /\ whole THEN "ok" ELSE "err",
                  !.file = IF q.loaded
                           THEN SnapshotWrite(QuantaSnapshot(q, Should), host.build, whole)
                           ELSE @]
    /\ UNCHANGED <<boot, q, image, stub, gdb, c2s, s2c, hist, edit, odd>>

\* The program ends and is started again, perhaps rebuilt.
NewProcess(build) ==
    /\ Calling
    /\ q' = Fresh(boot)
    /\ hist' = <<q'.v>>
    /\ host' = [host EXCEPT !.calls = @ - 1, !.status = "ok", !.proc = @ + 1,
                            !.build = build, !.kept = NoSnap, !.rewound = FALSE]
    /\ odd' = FALSE
    /\ UNCHANGED <<boot, image, stub, gdb, c2s, s2c, edit>>

LoadSnapshot ==
    /\ Calling
    /\ LET ok == ~q.loaded /\ Readable(host.file, host.build)
       IN /\ q' = IF ok THEN QuantaLoadSnapshot(q, host.file.snap) ELSE q
          /\ hist' = IF ok THEN <<host.file.snap.was>> ELSE hist
          /\ Return(IF ok THEN "ok" ELSE "err")
    /\ UNCHANGED <<boot, image, stub, gdb, c2s, s2c, edit, odd>>

HostNext ==
    \/ HostStep \/ SetBackend \/ MemWrite \/ Keep \/ Restore \/ LoadSnapshot
    \/ \E w, o \in BOOLEAN : AttachDisk(w, o)
    \/ \E whole \in BOOLEAN : SaveSnapshot(whole)
    \/ \E b \in {"a", "b"} : NewProcess(b)

-----------------------------------------------------------------------------
(* Stepping, checkpoints and replay.  m bundles what the stub's code changes. *)

Mach == [q |-> q, image |-> image, hist |-> hist, edit |-> edit, odd |-> odd, stub |-> stub]

RawStep(m) ==
    LET r == QuantaStep(m.q)
    IN IF m.q.v.halt # "run" THEN m
       ELSE [m EXCEPT !.q = r, !.odd = @ \/ Stale(m.q), !.stub.nsteps = @ + 1,
                      !.image = IF WritesThrough(m.q) THEN [@ EXCEPT ![1] = r.v.disk[1]] ELSE @]

\* Of the checkpoints in slots, the first with the lowest or the highest step.
Earliest(cp, slots) ==
    CHOOSE i \in slots : \A j \in slots : /\ cp[i].step <= cp[j].step
                                          /\ cp[i].step = cp[j].step => i <= j

Latest(cp, slots) ==
    CHOOSE i \in slots : \A j \in slots : /\ cp[i].step >= cp[j].step
                                          /\ cp[i].step = cp[j].step => i <= j

\* Mutant: a full ring gives up its first entry.
CpAddEvictsFirst(m) ==
    LET st == m.stub
        new == [step |-> st.nsteps, snap |-> QuantaSnapshot(m.q, m.hist[st.nsteps + 1])]
    IN IF st.adds + 1 \in boot.oom THEN [m EXCEPT !.stub.adds = @ + 1]
       ELSE [m EXCEPT !.stub = [st EXCEPT
                !.cp = IF Len(@) < MaxCp THEN Append(@, new) ELSE [@ EXCEPT ![1] = new],
                !.lastcp = st.nsteps, !.adds = IF boot.oom = {} THEN 0 ELSE @ + 1]]

\* The ring: the first entry stays, then the one with the lowest step goes.
\* Nothing is kept when the copy cannot be allocated.
CpAdd(m) ==
    LET st == m.stub
        new == [step |-> st.nsteps, snap |-> QuantaSnapshot(m.q, m.hist[st.nsteps + 1])]
        oldest == Earliest(st.cp, 2..Len(st.cp))
    IN IF st.adds + 1 \in boot.oom THEN [m EXCEPT !.stub.adds = @ + 1]
       ELSE [m EXCEPT !.stub = [st EXCEPT
                !.cp = IF Len(@) < MaxCp THEN Append(@, new) ELSE [@ EXCEPT ![oldest] = new],
                !.lastcp = st.nsteps, !.adds = IF boot.oom = {} THEN 0 ELSE @ + 1]]

\* Forward.  lastcp may lie ahead of the count after a reverse operation; the
\* unsigned difference is then huge.
StubStep(m) ==
    LET k == m.stub.nsteps
        known == SubSeq(m.hist, 1, k + 1)
        r == [RawStep(m) EXCEPT !.hist = IF m.q.v.halt # "run" THEN @
                                         ELSE Append(known, RefStep(known[k + 1]))]
        due == (r.stub.nsteps - r.stub.lastcp) % Wrap >= CpInterval
    IN IF r.stub.reverse /\ r.q.v.halt = "run" /\ due THEN CpAdd(r) ELSE r

Replay(m, n) ==
    LET after[k \in 0..n] == IF k = 0 THEN m ELSE RawStep(after[k - 1])
    IN after[n]

GotoStep(m, target) ==
    LET cp == m.stub.cp
        fit == {i \in DOMAIN cp : cp[i].step <= target}
        best == Latest(cp, fit)
    IN IF fit = {} \/ ~Restorable(m.q, cp[best].snap) THEN m
       ELSE Replay([m EXCEPT !.q = QuantaRestore(@, cp[best].snap),
                             !.stub.nsteps = cp[best].step],
                   target - cp[best].step)

QuantaPc(m) == m.q.v.harts[1].pc

BpMatch(m) == QuantaPc(m) \in m.stub.bp

HandleReverseStep(m) ==
    LET r == [m EXCEPT !.stub.reverse = TRUE]
    IN IF r.stub.nsteps = 0 THEN r ELSE GotoStep(r, r.stub.nsteps - 1)

HandleReverseContinue(m) ==
    LET r == [m EXCEPT !.stub.reverse = TRUE]
        cur == r.stub.nsteps
        start == GotoStep(r, 0)
        Scan(a) == [m |-> RawStep(a.m), hit |-> IF BpMatch(a.m) THEN a.m.stub.nsteps ELSE a.hit]
        scanned[k \in 0..cur] == IF k = 0 THEN [m |-> start, hit |-> 0] ELSE Scan(scanned[k - 1])
        seen == scanned[cur - start.stub.nsteps]
    IN IF cur = 0 THEN r ELSE GotoStep(seen.m, seen.hit)

-----------------------------------------------------------------------------
(* Packets.  A command is <<name, address>>. *)

\* What a debugger writes into the machine; "Gbad" is refused at the second
\* register, with the first already written.
Poked(v, cmd) ==
    CASE cmd[1] \in {"P", "Gbad"} -> [v EXCEPT !.harts[1].x = Vals - 1]
      [] cmd[1] = "G"             -> [v EXCEPT !.harts[1].x = Vals - 1, !.harts[1].pc = cmd[2]]
      [] cmd[1] = "M"             -> [v EXCEPT !.data = Vals - 1]
      [] cmd[1] = "Mcode"         -> [v EXCEPT !.code[Patched] = "inc"]
      [] cmd[1] \in {"c@", "s@"}  -> [v EXCEPT !.harts[1].pc = cmd[2]]

Poke(m, cmd) ==
    LET k == m.stub.nsteps
    IN [m EXCEPT !.q.v = Poked(@, cmd),
                 !.hist = Append(SubSeq(@, 1, k), Poked(@[k + 1], cmd)),
                 !.edit = IF Unedited(k, @) THEN k ELSE @]

StopReply(m, sig) ==
    IF m.q.v.halt = "exit" THEN "W" ELSE IF m.q.v.halt # "run" THEN "S05" ELSE sig

Answer(m, reply) == [m |-> m, reply |-> reply]

HandleBp(m, cmd) ==
    IF cmd[1] = "z" THEN Answer([m EXCEPT !.stub.bp = @ \ {cmd[2]}], "OK")
    ELSE IF cmd[2] \in m.stub.bp \/ Cardinality(m.stub.bp) < MaxBp
    THEN Answer([m EXCEPT !.stub.bp = @ \cup {cmd[2]}], "OK")
    ELSE Answer(m, "E")

HandleStep(m, cmd) ==
    LET r == StubStep(IF cmd[1] = "s@" THEN Poke(m, cmd) ELSE m)
    IN Answer(r, StopReply(r, "trap"))

\* c starts the run loop; its reply comes from there.
HandleContinue(m, cmd) ==
    LET r == StubStep(IF cmd[1] = "c@" THEN Poke(m, cmd) ELSE m)
    IN Answer([r EXCEPT !.stub.at = "run", !.stub.guard = 0], None)

HandleWrite(m, cmd) == Answer(Poke(m, cmd), IF cmd[1] = "Gbad" THEN "E" ELSE "OK")

HandleReverse(m, cmd) ==
    LET r == IF cmd[1] = "bs" THEN HandleReverseStep(m) ELSE HandleReverseContinue(m)
    IN Answer(r, StopReply(r, "trap"))

\* D, k and vKill end the session; k has no reply.
Leave(m, cmd) == Answer([m EXCEPT !.stub.quit = TRUE], IF cmd[1] = "k" THEN None ELSE "OK")

Handle(m, cmd) ==
    CASE cmd[1] \in {"Z", "z"}                     -> HandleBp(m, cmd)
      [] cmd[1] \in {"s", "s@"}                    -> HandleStep(m, cmd)
      [] cmd[1] \in {"c", "c@"}                    -> HandleContinue(m, cmd)
      [] cmd[1] \in {"P", "G", "M", "Mcode", "Gbad"} -> HandleWrite(m, cmd)
      [] cmd[1] \in {"bs", "bc"}                   -> HandleReverse(m, cmd)
      [] cmd[1] \in {"D", "k"}                     -> Leave(m, cmd)
      [] cmd[1] = "?"                              -> Answer(m, StopReply(m, "trap"))
      [] cmd[1] = "g"                              -> Answer(m, "OK")
      [] OTHER                                     -> Answer(m, "E")

-----------------------------------------------------------------------------
(* The stub's loop. *)

Install(m) ==
    /\ q' = m.q /\ image' = m.image /\ hist' = m.hist
    /\ edit' = m.edit /\ odd' = m.odd /\ stub' = m.stub

\* A packet under way may lose a bit while faults remain.
Intact == IF gdb.faults > 0 THEN BOOLEAN ELSE {TRUE}
Faulted(ok) == [gdb EXCEPT !.faults = IF ok THEN @ ELSE @ - 1]

Reply(m, reply) == [m EXCEPT !.stub.at = "ack", !.stub.tries = 1, !.stub.reply = reply]

\* A reply carries the number of the command it answers, 0 for a Ctrl-C.
Rep(m, ok) == <<<<"rep", IF m.stub.cmd = <<"int">> THEN 0 ELSE m.stub.execs, ok>>>>

\* quanta_gdb_serve: the debugger connects, and the start is checkpointed.
Serve ==
    /\ stub.at = "off" /\ q.loaded /\ boot.cmds > 0
    /\ Install(CpAdd([Mach EXCEPT !.stub.at = "read"]))
    /\ UNCHANGED <<boot, host, gdb, c2s, s2c>>

Reads(kind) == stub.at = "read" /\ c2s # <<>> /\ Head(c2s)[1] = kind

ReadCommand ==
    /\ Reads("pkt") /\ Head(c2s)[3]
    /\ c2s' = Tail(c2s)
    /\ LET cmd == Head(c2s)[2]
           m == [Mach EXCEPT !.stub.execs = @ + 1, !.stub.cmd = cmd, !.stub.from = stub.nsteps]
           a == Handle(m, cmd)
       IN IF a.reply # None
          THEN \E ok \in Intact :
                 /\ Install(Reply(a.m, a.reply))
                 /\ s2c' = s2c \o <<<<"ack">>>> \o Rep(a.m, ok)
                 /\ gdb' = Faulted(ok)
          ELSE /\ Install([a.m EXCEPT !.stub.at = IF a.m.stub.quit THEN "end" ELSE @])
               /\ s2c' = Append(s2c, <<"ack">>)
               /\ UNCHANGED gdb
    /\ UNCHANGED <<boot, host>>

\* Mutant: a packet with a bad checksum is dropped without a word.
ReadGarbledSilent ==
    /\ Reads("pkt") /\ ~Head(c2s)[3]
    /\ c2s' = Tail(c2s)
    /\ UNCHANGED <<boot, q, image, host, stub, gdb, s2c, hist, edit, odd>>

\* A bad checksum is refused and the next packet awaited.
ReadGarbled ==
    /\ Reads("pkt") /\ ~Head(c2s)[3]
    /\ c2s' = Tail(c2s)
    /\ s2c' = Append(s2c, <<"nak">>)
    /\ UNCHANGED <<boot, q, image, host, stub, gdb, hist, edit, odd>>

\* Between packets, everything but a packet and Ctrl-C is skipped.
ReadSkip ==
    /\ Reads("ack") \/ Reads("nak")
    /\ c2s' = Tail(c2s)
    /\ UNCHANGED <<boot, q, image, host, stub, gdb, s2c, hist, edit, odd>>

ReadCtrlC ==
    /\ Reads("int")
    /\ c2s' = Tail(c2s)
    /\ LET m == [Mach EXCEPT !.stub.cmd = <<"int">>]
       IN \E ok \in Intact : /\ Install(Reply(m, StopReply(m, "sigint")))
                             /\ s2c' = s2c \o Rep(m, ok)
                             /\ gdb' = Faulted(ok)
    /\ UNCHANGED <<boot, host>>

ReadEof ==
    /\ Reads("eof")
    /\ stub' = [stub EXCEPT !.at = "end"]
    /\ c2s' = <<>>
    /\ UNCHANGED <<boot, q, image, host, gdb, s2c, hist, edit, odd>>

\* Mutant: a refused reply makes the stub run the command again.
ReadAckRepeats ==
    /\ stub.at = "ack" /\ c2s # <<>>
    /\ c2s' = Tail(c2s)
    /\ LET token == Head(c2s)[1]
       IN IF token = "ack" \/ token = "eof" \/ stub.tries = Tries
          THEN /\ stub' = [stub EXCEPT !.at = IF token = "ack" /\ ~stub.quit THEN "read" ELSE "end"]
               /\ UNCHANGED <<q, image, hist, edit, odd, gdb, s2c>>
          ELSE \E ok \in Intact :
                 /\ Install([Handle(Mach, stub.cmd).m EXCEPT !.stub.tries = @ + 1,
                                !.stub.at = "ack", !.stub.execs = @ + 1])
                 /\ s2c' = s2c \o Rep([Mach EXCEPT !.stub.execs = @ + 1], ok)
                 /\ gdb' = Faulted(ok)
    /\ UNCHANGED <<boot, host>>

\* send_packet waits for '+'; anything else, a Ctrl-C included, sends again.
ReadAck ==
    /\ stub.at = "ack" /\ c2s # <<>>
    /\ c2s' = Tail(c2s)
    /\ LET token == Head(c2s)[1]
       IN IF token = "ack" \/ token = "eof" \/ stub.tries = Tries
          THEN /\ stub' = [stub EXCEPT !.at = IF token = "ack" /\ ~stub.quit THEN "read" ELSE "end"]
               /\ UNCHANGED <<gdb, s2c>>
          ELSE \E ok \in Intact :
                 /\ stub' = [stub EXCEPT !.tries = @ + 1]
                 /\ s2c' = s2c \o Rep(Mach, ok)
                 /\ gdb' = Faulted(ok)
    /\ UNCHANGED <<boot, q, image, host, hist, edit, odd>>

\* do_continue after a step: a halt, then a breakpoint, then the socket.
Stops == q.v.halt # "run" \/ BpMatch(Mach)
Polls == stub.guard + 1 = PollEvery /\ c2s # <<>>

RunStop(sig) ==
    \E ok \in Intact : /\ Install(Reply(Mach, StopReply(Mach, sig)))
                       /\ s2c' = s2c \o Rep(Mach, ok)
                       /\ gdb' = Faulted(ok)

ContinueStop ==
    /\ stub.at = "run" /\ Stops
    /\ RunStop("swbreak")
    /\ UNCHANGED <<boot, host, c2s>>

ContinuePoll ==
    /\ stub.at = "run" /\ ~Stops /\ Polls
    /\ c2s' = Tail(c2s)
    /\ CASE Head(c2s)[1] = "int" -> RunStop("sigint")
         [] Head(c2s)[1] = "eof" -> /\ stub' = [stub EXCEPT !.at = "end"]
                                    /\ UNCHANGED <<q, image, gdb, s2c, hist, edit, odd>>
         [] OTHER                -> /\ Install(StubStep([Mach EXCEPT !.stub.guard = 0]))
                                    /\ UNCHANGED <<gdb, s2c>>
    /\ UNCHANGED <<boot, host>>

ContinueStep ==
    /\ stub.at = "run" /\ ~Stops /\ ~Polls
    /\ Install(StubStep([Mach EXCEPT !.stub.guard = (@ + 1) % PollEvery]))
    /\ UNCHANGED <<boot, host, gdb, c2s, s2c>>

StubNext ==
    \/ Serve \/ ReadCommand \/ ReadGarbled \/ ReadSkip \/ ReadCtrlC \/ ReadEof \/ ReadAck
    \/ ContinueStop \/ ContinuePoll \/ ContinueStep

-----------------------------------------------------------------------------
(* The debugger: one command at a time, each acknowledged and answered. *)

Connected == stub.at \notin {"off", "end"} /\ gdb.at # "closed"

GdbSend ==
    /\ Connected /\ gdb.at = "idle" /\ gdb.left > 0
    /\ \E cmd \in boot.menu, ok \in Intact :
         /\ c2s' = Append(c2s, <<"pkt", cmd, ok>>)
         /\ gdb' = [Faulted(ok) EXCEPT !.at = "sent", !.n = @ + 1, !.cmd = cmd, !.left = @ - 1]
    /\ UNCHANGED <<boot, q, image, host, stub, s2c, hist, edit, odd>>

\* The user presses Ctrl-C: while the guest runs, or at a stopped target.  A
\* bare Ctrl-C is not acknowledged, so a reply sent twice could be taken for
\* its answer: the second kind comes only before the first.
GdbInterrupt ==
    /\ Connected /\ gdb.ints > 0
    /\ \/ /\ gdb.at = "wait" /\ gdb.cmd[1] \in {"c", "c@"}
          /\ gdb' = [gdb EXCEPT !.ints = @ - 1]
       \/ /\ gdb.at = "idle" /\ gdb.ints = boot.ints
          /\ gdb' = [gdb EXCEPT !.ints = @ - 1, !.at = "wait", !.cmd = <<"int">>]
    /\ c2s' = Append(c2s, <<"int">>)
    /\ UNCHANGED <<boot, q, image, host, stub, s2c, hist, edit, odd>>

\* A reply that comes when none is awaited is acknowledged and dropped.
GdbReceive ==
    /\ gdb.at # "closed" /\ s2c # <<>>
    /\ s2c' = Tail(s2c)
    /\ LET t == Head(s2c)
       IN CASE t[1] = "ack" -> /\ gdb' = [gdb EXCEPT !.at = IF @ = "sent" THEN "wait" ELSE @]
                               /\ UNCHANGED c2s
            [] t[1] = "nak" -> \E ok \in Intact :
                                  /\ c2s' = Append(c2s, <<"pkt", gdb.cmd, ok>>)
                                  /\ gdb' = Faulted(ok)
            [] t[1] = "rep" -> /\ c2s' = Append(c2s, IF t[3] THEN <<"ack">> ELSE <<"nak">>)
                               /\ gdb' = IF t[3] /\ gdb.at = "wait"
                                         THEN [gdb EXCEPT !.at = "idle", !.crossed =
                                                     t[2] # IF gdb.cmd = <<"int">> THEN 0 ELSE gdb.n]
                                         ELSE gdb
    /\ UNCHANGED <<boot, q, image, host, stub, hist, edit, odd>>

\* The debugger goes away, or finds the connection closed.
GdbClose ==
    /\ gdb.at # "closed"
    /\ \/ Connected /\ boot.closes
       \/ stub.at = "end" /\ s2c = <<>>
    /\ gdb' = [gdb EXCEPT !.at = "closed"]
    /\ c2s' = Append(c2s, <<"eof">>)
    /\ UNCHANGED <<boot, q, image, host, stub, s2c, hist, edit, odd>>

GdbNext == GdbSend \/ GdbInterrupt \/ GdbReceive \/ GdbClose

Next == HostNext \/ StubNext \/ GdbNext

\* The stub reads what arrives and goes on running; the debugger's side of the
\* connection reads too.
StubReady == (stub.at \in {"read", "ack"} /\ c2s # <<>>) \/ stub.at = "run"
GdbReady == gdb.at # "closed" /\ (s2c # <<>> \/ stub.at = "end")

Fairness ==
    /\ []<>(~StubReady) \/ []<><<StubNext>>_vars
    /\ []<>(~GdbReady) \/ []<><<GdbReceive \/ GdbClose>>_vars

Spec == Init /\ [][Next]_vars

LiveSpec == Spec /\ Fairness

-----------------------------------------------------------------------------
(* Properties. *)

\* The tables of GdbStub stay within their sizes, the step count within the
\* history, and at most a handful of bytes are under way.
TypeOK ==
    /\ Len(stub.cp) <= MaxCp /\ Cardinality(stub.bp) <= MaxBp
    /\ stub.nsteps \in 0..(Len(hist) - 1)
    /\ stub.tries \in 0..Tries /\ stub.guard \in 0..(PollEvery - 1)
    /\ stub.at \in {"off", "read", "ack", "run", "end"}
    /\ gdb.at \in {"idle", "sent", "wait", "closed"}
    /\ Len(q.v.harts) = boot.nharts /\ q.v.sched \in 0..(boot.nharts - 1)

\* quanta_restore and quanta_load_snapshot, and goto_step built on them: the
\* machine at step n is the machine that was at step n, whatever checkpoints,
\* evictions, replays, failed copies and reloads lie between, up to the first
\* step the debugger changed something.  A guest that runs code it has
\* overwritten without FENCE.I is outside the claim.  The tables of the stub
\* keep to their sizes meanwhile.
ReplayExact ==
    /\ TypeOK
    /\ q.loaded /\ ~odd /\ Unedited(stub.nsteps, edit) => q.v = hist[Now]

\* do_continue runs past no breakpoint, and bc stops at the last step before
\* the current one whose PC has a breakpoint, or at the first step.
Plain == ~odd /\ edit = NoEdit /\ 1 \notin boot.oom
BpAt(k) == hist[k + 1].harts[1].pc \in stub.bp
StopsRight ==
    stub.at = "ack" /\ Plain =>
        /\ stub.cmd[1] = "c" =>
              /\ \A k \in (stub.from + 1)..(stub.nsteps - 1) : ~BpAt(k)
              /\ stub.reply = "swbreak" => BpAt(stub.nsteps)
        /\ stub.cmd[1] = "bc" =>
              LET hits == {k \in 0..(stub.from - 1) : BpAt(k)}
              IN stub.nsteps = IF hits = {} THEN 0 ELSE CHOOSE k \in hits : \A j \in hits : j <= k

\* A refused call or packet leaves the machine alone: a snapshot of another
\* shape, a file that is short or of another build, a handle in use, a full
\* breakpoint table.  (A G packet refused half-way does not; see Gbad.)
ErrorsChangeNothing ==
    [][/\ host'.calls # host.calls /\ host'.status = "err" => q' = q
       /\ stub.at = "read" /\ stub'.at = "ack" /\ stub'.reply = "E" /\ stub'.cmd[1] # "Gbad"
            => q' = q /\ stub'.bp = stub.bp]_vars

\* Garbled packets, refused replies and Ctrl-Cs that cross a reply make no
\* command run twice, and no reply is taken for another command's.  The latter
\* not where two Ctrl-Cs meet a garbled packet: an acknowledgement left over
\* from the first then stands for a reply that arrived garbled, and the reply
\* to the second takes its place.
OnceEach ==
    /\ stub.execs \in {gdb.n - 1, gdb.n}
    /\ gdb.at = "idle" => /\ stub.execs = gdb.n
                          /\ boot.ints <= 1 \/ boot.faults = 0 => ~gdb.crossed

\* With --disk, the file holds what the guest's disk holds, until a restore
\* takes the image back: the file is not rewound with it.
FileTracksImage ==
    q.loaded /\ q.writable /\ ~host.rewound /\ stub.reverse = FALSE => image = q.v.disk

\* Every command is answered or the connection ends, on a connection that
\* garbles packets or carries a Ctrl-C that crosses a reply.  Not both: the
\* reply sent again after the Ctrl-C is acknowledged twice, and the second
\* acknowledgement can stand for a reply that arrived garbled.
Answered ==
    boot.ints = 0 \/ boot.faults = 0 =>
        (gdb.at \in {"sent", "wait"} ~> gdb.at \in {"idle", "closed"})

\* What quanta.c says of a restored machine: every pointer of it is wired to
\* a live object of this process.
PointersLive == q.loaded => q.tx = NullTx \/ q.tx[1] = host.proc
=============================================================================
