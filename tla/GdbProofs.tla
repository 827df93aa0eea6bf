------------------------------ MODULE GdbProofs ------------------------------
(***************************************************************************)
(* Proofs about Gdb, for any program, number of harts, table sizes,        *)
(* commands and faults: the invariant of the system, every step's          *)
(* preservation of it, and the results.                                    *)
(***************************************************************************)
EXTENDS GdbStubProofs

-----------------------------------------------------------------------------
(* The invariant of the system. *)

HostFields == {"calls", "status", "proc", "build", "kept", "file", "rewound"}
GdbFields == {"at", "n", "cmd", "left", "faults", "ints", "crossed"}

\* A snapshot held by the host is whole, and of a machine that was as it should be.
Faithful(s, n) == Sized(Saved(s), n) /\ s.was = Saved(s)

HostOK ==
    /\ boot \in Boots /\ DOMAIN host = HostFields /\ DOMAIN gdb = GdbFields
    /\ gdb.at \in {"idle", "sent", "wait", "closed"}
    /\ host.kept # NoSnap => Faithful(host.kept, boot.nharts)
    /\ host.file.build # None => Faithful(host.file.snap, boot.nharts)

StubOff == [at |-> "off", bp |-> {}, nsteps |-> 0, reverse |-> FALSE, lastcp |-> 0,
            cp |-> <<>>, adds |-> 0, guard |-> 0, tries |-> 0, reply |-> None,
            quit |-> FALSE, execs |-> 0, cmd |-> None, from |-> 0]

\* Before a debugger connects.
Idle ==
    /\ stub = StubOff /\ edit = NoEdit /\ odd \in BOOLEAN
    /\ IsHandle(q, boot.nharts) /\ q.loaded \in BOOLEAN /\ IsSeq(image)
    /\ IsSeq(hist) /\ Len(hist) = 1
    /\ q.loaded /\ ~odd => q.v = hist[1]

\* A continued guest has passed no breakpoint; bc has stopped at the last one.
Stopped(m) ==
    ~m.odd /\ m.edit = NoEdit /\ 1 \notin boot.oom =>
        /\ m.stub.at = "run" => m.stub.cmd[1] # "bc"
        /\ m.stub.at \in {"run", "ack"} /\ m.stub.cmd[1] = "c" =>
              \A k \in m.stub.from + 1..m.stub.nsteps - 1 : ~BpOf(m, k)
        /\ m.stub.at = "ack" /\ m.stub.cmd[1] = "c" /\ m.stub.reply = "swbreak" =>
              BpOf(m, m.stub.nsteps)
        /\ m.stub.at = "ack" /\ m.stub.cmd[1] = "bc" => IsLast(m, m.stub.nsteps, m.stub.from)

\* While one is connected, and after.
Serving ==
    /\ Session(Mach, boot.nharts) /\ Tables(Mach) /\ Stopped(Mach) /\ stub.from \in Nat
    /\ stub.guard \in 0..PollEvery - 1 /\ stub.tries \in 0..Tries
    /\ stub.at \in {"read", "ack", "run", "end"}

Inv ==
    /\ HostOK /\ FileTracksImage
    /\ stub.at = "off" => Idle
    /\ stub.at # "off" => Serving

LEMMA BootHarts == ASSUME HostOK PROVE boot.nharts \in Nat \ {0} /\ IsSeq(boot.image)
BY BootAssumption DEF HostOK, IsSeq

LEMMA OneSeq == ASSUME NEW x PROVE IsSeq(<<x>>) /\ Len(<<x>>) = 1 /\ <<x>>[1] = x
<1>1. <<x>> \in Seq({x})
  OBVIOUS
<1> QED BY <1>1, Zenon DEF IsSeq

\* A machine at reset.
LEMMA StartSized ==
    ASSUME HostOK
    PROVE  /\ IsHandle(StartAt(boot), boot.nharts) /\ StartAt(boot).loaded = TRUE
           /\ StartAt(boot).writable = FALSE
           /\ IsHandle(Fresh(boot), boot.nharts) /\ Fresh(boot).loaded = FALSE
<1> DEFINE h == [i \in 1..boot.nharts |-> [pc |-> 1, x |-> i - 1, halt |-> "run"]]
           v == [harts |-> h, sched |-> 0, mtime |-> 0, halt |-> "run",
                 code |-> boot.code, data |-> 0, disk |-> <<>>]
<1>1. Tuple(h, boot.nharts)
  BY DEF Tuple
<1>2. StartAt(boot) = [loaded |-> TRUE, v |-> v, dc |-> NoCache(v), tx |-> NullTx, writable |-> FALSE]
  BY DEF StartAt
<1> HIDE DEF h
<1>3. IsSeq(<<>>)
  <2>1. <<>> \in Seq({})
    OBVIOUS
  <2> QED BY <2>1 DEF IsSeq
<1>4. Sized(v, boot.nharts)
  BY <1>1, <1>3, BootHarts DEF Sized, IsMachine
<1> HIDE DEF v
<1>5. /\ IsHandle(StartAt(boot), boot.nharts) /\ StartAt(boot).loaded = TRUE
      /\ StartAt(boot).v = v /\ StartAt(boot).writable = FALSE
  BY <1>2, <1>4 DEF IsHandle, HandleFields
<1>6. Fresh(boot) = [StartAt(boot) EXCEPT !.loaded = FALSE]
  BY DEF Fresh
<1>7. IsHandle(Fresh(boot), boot.nharts) /\ Fresh(boot).loaded = FALSE
  BY <1>4, <1>5, <1>6 DEF IsHandle, HandleFields
<1> QED BY <1>5, <1>7

LEMMA InitInv == Init => Inv
<1> SUFFICES ASSUME Init PROVE Inv
  OBVIOUS
<1>1. HostOK
  <2>1. DOMAIN host = HostFields /\ host.kept = NoSnap /\ host.file = NoFile
    BY Zenon DEF Init, HostFields
  <2>2. DOMAIN gdb = GdbFields /\ gdb.at = "idle" /\ boot \in Boots
    BY Zenon DEF Init, GdbFields
  <2>3. NoFile.build = None
    BY DEF NoFile
  <2> QED BY <2>1, <2>2, <2>3 DEF HostOK
<1>2. stub = StubOff /\ stub.at = "off"
  BY DEF Init, StubOff
<1>3. IsHandle(q, boot.nharts) /\ q.loaded = TRUE /\ q.writable = FALSE
  BY <1>1, StartSized, Zenon DEF Init
<1>4. IsSeq(image) /\ IsSeq(hist) /\ Len(hist) = 1 /\ hist[1] = q.v /\ odd = FALSE /\ edit = NoEdit
  BY <1>1, BootHarts, OneSeq, Zenon DEF Init
<1>5. Idle
  BY <1>2, <1>3, <1>4, Zenon DEF Idle
<1>6. FileTracksImage
  BY <1>3 DEF FileTracksImage
<1> QED BY <1>1, <1>2, <1>5, <1>6 DEF Inv

\* What a call of the host has to show.
LEMMA IdleNext ==
    ASSUME Inv, stub.at = "off", UNCHANGED <<boot, stub, gdb, edit>>, odd' \in BOOLEAN,
           IsHandle(q', boot.nharts), q'.loaded \in BOOLEAN, IsSeq(image'),
           IsSeq(hist'), Len(hist') = 1, q'.loaded /\ ~odd' => q'.v = hist'[1],
           DOMAIN host' = HostFields,
           host'.kept # NoSnap => Faithful(host'.kept, boot.nharts),
           host'.file.build # None => Faithful(host'.file.snap, boot.nharts),
           FileTracksImage'
    PROVE  Inv'
<1>1. HostOK'
  BY DEF Inv, HostOK
<1>2. Idle'
  BY DEF Inv, Idle
<1> QED BY <1>1, <1>2 DEF Inv

LEMMA ReturnFields ==
    ASSUME HostOK, NEW x, Return(x)
    PROVE  /\ DOMAIN host' = HostFields /\ host'.kept = host.kept /\ host'.file = host.file
           /\ host'.rewound = host.rewound /\ host'.status = x /\ host'.calls = host.calls - 1
BY DEF HostOK, HostFields, Return

LEMMA HostStepInv == ASSUME Inv, HostStep PROVE Inv'
<1>0. HostOK /\ Idle /\ stub.at = "off" /\ q.loaded /\ FileTracksImage
  BY Zenon DEF Inv, HostStep, Calling
<1>1. /\ DOMAIN host' = HostFields /\ host'.kept = host.kept /\ host'.file = host.file
      /\ host'.rewound = host.rewound
  BY <1>0, ReturnFields DEF HostStep
<1>2. hist' = <<RefStep(hist[1])>> /\ odd' = (odd \/ Stale(q)) /\ UNCHANGED <<boot, stub, gdb, edit>>
  BY DEF HostStep
<1>3. /\ IsHandle(q', boot.nharts) /\ q'.loaded = q.loaded /\ q'.writable = q.writable
      /\ ~Stale(q) => q'.v = RefStep(q.v)
      /\ q.writable => q'.v.disk = IF WritesThrough(q)
                                   THEN [q.v.disk EXCEPT ![1] = q'.v.disk[1]] ELSE q.v.disk
  <2>1. CASE q.v.halt = "run"
    BY <1>0, <2>1, StepExact, BootHarts, Zenon DEF HostStep, Idle
  <2>2. CASE q.v.halt # "run"
    <3>1. q' = q
      BY <2>2 DEF HostStep, QuantaStep
    <3>2. RefStep(q.v) = q.v /\ ~WritesThrough(q)
      BY <2>2 DEF RefStep, WritesThrough
    <3> QED BY <1>0, <3>1, <3>2, Zenon DEF Idle
  <2> QED BY <2>1, <2>2
<1>4. image' = IF WritesThrough(q) THEN [image EXCEPT ![1] = q'.v.disk[1]] ELSE image
  BY DEF HostStep
<1>5. IsSeq(image')
  BY <1>0, <1>4, SeqExcept, Zenon DEF Idle
<1>6. FileTracksImage'
  BY <1>0, <1>1, <1>2, <1>3, <1>4 DEF FileTracksImage
<1>7. IsSeq(hist') /\ Len(hist') = 1 /\ hist'[1] = RefStep(hist[1])
  BY <1>2, OneSeq
<1>8. odd' \in BOOLEAN /\ (~odd' => ~odd /\ ~Stale(q))
  BY <1>0, <1>2, Zenon DEF Idle
<1>9. q'.loaded /\ ~odd' => q'.v = hist'[1]
  BY <1>0, <1>3, <1>7, <1>8 DEF Idle
<1> QED BY <1>0, <1>1, <1>2, <1>3, <1>5, <1>6, <1>7, <1>8, <1>9, IdleNext, Zenon DEF HostOK, Idle

\* A write to one field of the machine.
LEMMA DiskSized ==
    ASSUME NEW n, NEW v, Sized(v, n), NEW d, IsSeq(d)
    PROVE  Sized([v EXCEPT !.disk = d], n) /\ [v EXCEPT !.disk = d].disk = d
BY DEF Sized, IsMachine

LEMMA DataSized ==
    ASSUME NEW n, NEW v, Sized(v, n), NEW d
    PROVE  Sized([v EXCEPT !.data = d], n) /\ [v EXCEPT !.data = d].disk = v.disk
BY DEF Sized, IsMachine

LEMMA AttachDiskInv ==
    ASSUME Inv, NEW w \in BOOLEAN, NEW o \in BOOLEAN, AttachDisk(w, o)
    PROVE  Inv'
<1> DEFINE data == IF o THEN <<0, 0>> ELSE image
<1>0. HostOK /\ Idle /\ stub.at = "off" /\ q.loaded
  BY DEF Inv, AttachDisk, Calling
<1>1. /\ DOMAIN host' = HostFields /\ host'.kept = host.kept /\ host'.file = host.file
  BY <1>0 DEF AttachDisk, HostOK, HostFields
<1>2. /\ hist' = <<[hist[1] EXCEPT !.disk = data]>> /\ UNCHANGED <<boot, stub, gdb, edit, odd, image>>
      /\ q' = [q EXCEPT !.v.disk = data, !.writable = w] /\ (o => ~w)
  BY DEF AttachDisk, QuantaAttachDisk
<1>3. IsSeq(data)
  <2>1. <<0, 0>> \in Seq({0})
    OBVIOUS
  <2> QED BY <1>0, <2>1, Zenon DEF Idle, IsSeq
<1> HIDE DEF data
<1>4. /\ DOMAIN q' = HandleFields /\ q'.v = [q.v EXCEPT !.disk = data] /\ q'.writable = w
      /\ q'.loaded = q.loaded
  BY <1>0, <1>2, Zenon DEF Idle, IsHandle, HandleFields
<1>5. Sized(q'.v, boot.nharts) /\ q'.v.disk = data
  BY <1>0, <1>3, <1>4, DiskSized DEF Idle, IsHandle
<1>6. FileTracksImage'
  BY <1>2, <1>4, <1>5 DEF FileTracksImage, data
<1>7. IsSeq(hist') /\ Len(hist') = 1 /\ hist'[1] = [hist[1] EXCEPT !.disk = data]
  BY <1>2, OneSeq
<1>8. q'.loaded /\ ~odd' => q'.v = hist'[1]
  BY <1>0, <1>2, <1>4, <1>7 DEF Idle
<1>9. IsHandle(q', boot.nharts) /\ IsSeq(image') /\ odd' \in BOOLEAN /\ q'.loaded \in BOOLEAN
  BY <1>0, <1>2, <1>4, <1>5, Zenon DEF Idle, IsHandle
<1> QED BY <1>0, <1>1, <1>2, <1>6, <1>7, <1>8, <1>9, IdleNext DEF HostOK

LEMMA SetBackendInv == ASSUME Inv, SetBackend PROVE Inv'
<1>0. HostOK /\ Idle /\ stub.at = "off" /\ FileTracksImage
  BY DEF Inv, SetBackend, Calling
<1>1. /\ DOMAIN host' = HostFields /\ host'.kept = host.kept /\ host'.file = host.file
      /\ host'.rewound = host.rewound
  BY <1>0, ReturnFields DEF SetBackend
<1>2. UNCHANGED <<boot, stub, gdb, edit, odd, image, hist>>
  BY DEF SetBackend
<1>3. /\ DOMAIN q' = HandleFields /\ q'.v = q.v /\ q'.writable = q.writable /\ q'.loaded = q.loaded
  BY <1>0 DEF SetBackend, Idle, IsHandle, HandleFields
<1>4. FileTracksImage'
  BY <1>0, <1>1, <1>2, <1>3 DEF FileTracksImage
<1>5. /\ IsHandle(q', boot.nharts) /\ IsSeq(image') /\ odd' \in BOOLEAN /\ q'.loaded \in BOOLEAN
      /\ IsSeq(hist') /\ Len(hist') = 1 /\ (q'.loaded /\ ~odd' => q'.v = hist'[1])
  BY <1>0, <1>2, <1>3 DEF Idle, IsHandle
<1> QED BY <1>0, <1>1, <1>2, <1>4, <1>5, IdleNext DEF HostOK

LEMMA MemWriteInv == ASSUME Inv, MemWrite PROVE Inv'
<1>0. HostOK /\ Idle /\ stub.at = "off" /\ FileTracksImage
  BY DEF Inv, MemWrite, Calling
<1>1. /\ DOMAIN host' = HostFields /\ host'.kept = host.kept /\ host'.file = host.file
      /\ host'.rewound = host.rewound
  BY <1>0, ReturnFields DEF MemWrite
<1>2. UNCHANGED <<boot, stub, gdb, edit, odd, image>> /\ hist' = <<[hist[1] EXCEPT !.data = 1]>>
  BY DEF MemWrite
<1>3. /\ DOMAIN q' = HandleFields /\ q'.v = [q.v EXCEPT !.data = 1]
      /\ q'.writable = q.writable /\ q'.loaded = q.loaded
  BY <1>0, Zenon DEF MemWrite, Idle, IsHandle, HandleFields
<1>4. Sized(q'.v, boot.nharts) /\ q'.v.disk = q.v.disk
  BY <1>0, <1>3, DataSized DEF Idle, IsHandle
<1>5. FileTracksImage'
  BY <1>0, <1>1, <1>2, <1>3, <1>4 DEF FileTracksImage
<1>6. IsSeq(hist') /\ Len(hist') = 1 /\ hist'[1] = [hist[1] EXCEPT !.data = 1]
  BY <1>2, OneSeq
<1>7. q'.loaded /\ ~odd' => q'.v = hist'[1]
  BY <1>0, <1>2, <1>3, <1>6 DEF Idle
<1>8. IsHandle(q', boot.nharts) /\ IsSeq(image') /\ odd' \in BOOLEAN /\ q'.loaded \in BOOLEAN
  BY <1>0, <1>2, <1>3, <1>4 DEF Idle, IsHandle
<1> QED BY <1>0, <1>1, <1>2, <1>5, <1>6, <1>7, <1>8, IdleNext DEF HostOK

\* A snapshot taken while the host drives the machine.
LEMMA SnapshotFaithful ==
    ASSUME HostOK, Idle, q.loaded
    PROVE  Faithful(QuantaSnapshot(q, Should), boot.nharts)
<1> DEFINE s == QuantaSnapshot(q, Should)
<1>1. Saved(s) = q.v /\ s.was = Should
  BY SnapshotSaves DEF Idle
<1>2. Should = q.v
  BY DEF Should, Idle
<1>3. Sized(q.v, boot.nharts)
  BY DEF Idle, IsHandle
<1> HIDE DEF s
<1> QED BY <1>1, <1>2, <1>3 DEF Faithful, s

LEMMA KeepInv == ASSUME Inv, Keep PROVE Inv'
<1>0. HostOK /\ Idle /\ stub.at = "off" /\ FileTracksImage /\ q.loaded
  BY DEF Inv, Keep, Calling
<1> DEFINE s == QuantaSnapshot(q, Should)
<1>1. Faithful(s, boot.nharts)
  BY <1>0, SnapshotFaithful
<1> HIDE DEF s
<1>2. /\ DOMAIN host' = HostFields /\ host'.kept = s /\ host'.file = host.file
      /\ host'.rewound = host.rewound
  BY <1>0 DEF Keep, HostOK, HostFields, s
<1>3. UNCHANGED <<boot, q, stub, gdb, edit, odd, image, hist>>
  BY DEF Keep
<1>4. FileTracksImage'
  BY <1>0, <1>2, <1>3 DEF FileTracksImage
<1>5. HostOK' /\ Idle' /\ stub'.at = "off"
  BY <1>0, <1>1, <1>2, <1>3, Zenon DEF HostOK, Idle
<1> QED BY <1>4, <1>5 DEF Inv

LEMMA SaveSnapshotInv == ASSUME Inv, NEW whole \in BOOLEAN, SaveSnapshot(whole) PROVE Inv'
<1>0. HostOK /\ Idle /\ stub.at = "off" /\ FileTracksImage
  BY DEF Inv, SaveSnapshot, Calling
<1> DEFINE s == QuantaSnapshot(q, Should)
           f == IF q.loaded THEN SnapshotWrite(s, host.build, whole) ELSE host.file
<1>1. q.loaded => Faithful(s, boot.nharts)
  BY <1>0, SnapshotFaithful
<1> HIDE DEF s
<1>2. f.build # None => Faithful(f.snap, boot.nharts)
  BY <1>0, <1>1 DEF SnapshotWrite, HostOK
<1>3. /\ DOMAIN host' = HostFields /\ host'.kept = host.kept /\ host'.file = f
      /\ host'.rewound = host.rewound
  BY <1>0 DEF SaveSnapshot, HostOK, HostFields, s
<1> HIDE DEF f
<1>4. UNCHANGED <<boot, q, stub, gdb, edit, odd, image, hist>>
  BY DEF SaveSnapshot
<1>5. FileTracksImage'
  BY <1>0, <1>3, <1>4 DEF FileTracksImage
<1>6. HostOK' /\ Idle' /\ stub'.at = "off"
  BY <1>0, <1>2, <1>3, <1>4 DEF HostOK, Idle
<1> QED BY <1>5, <1>6 DEF Inv

LEMMA RestoreInv == ASSUME Inv, Restore PROVE Inv'
<1>0. HostOK /\ Idle /\ stub.at = "off" /\ FileTracksImage /\ host.kept # NoSnap
  BY DEF Inv, Restore, Calling
<1> DEFINE s == host.kept
           ok == Restorable(q, s)
<1>1. Faithful(s, boot.nharts)
  BY <1>0 DEF HostOK
<1>2. /\ DOMAIN host' = HostFields /\ host'.kept = s /\ host'.file = host.file
      /\ (host'.rewound <=> host.rewound \/ ok)
  BY <1>0, Zenon DEF Restore, HostOK, HostFields
<1>3. UNCHANGED <<boot, stub, gdb, edit, odd, image>>
  BY DEF Restore
<1>4. CASE ok
  <2>1. IsHandle(q', boot.nharts) /\ q'.v = Saved(s) /\ q'.loaded = q.loaded
    BY <1>0, <1>1, <1>4, RestoreExact DEF Restore, Idle, Faithful
  <2>2. IsSeq(hist') /\ Len(hist') = 1 /\ hist'[1] = s.was
    BY <1>4, OneSeq DEF Restore
  <2>3. FileTracksImage'
    BY <1>2, <1>4 DEF FileTracksImage
  <2>4. /\ IsSeq(image') /\ odd' \in BOOLEAN /\ q'.loaded \in BOOLEAN
        /\ (q'.loaded /\ ~odd' => q'.v = hist'[1])
    BY <1>0, <1>1, <1>3, <2>1, <2>2, Zenon DEF Idle, Faithful
  <2> QED BY <1>0, <1>1, <1>2, <1>3, <2>1, <2>2, <2>3, <2>4, IdleNext DEF HostOK
<1>5. CASE ~ok
  <2>1. q' = q /\ hist' = hist
    BY <1>5 DEF Restore, QuantaRestore
  <2>2. FileTracksImage'
    BY <1>0, <1>2, <1>3, <1>5, <2>1, Zenon DEF FileTracksImage
  <2>3. HostOK' /\ Idle' /\ stub'.at = "off"
    BY <1>0, <1>1, <1>2, <1>3, <2>1 DEF HostOK, Idle
  <2> QED BY <2>2, <2>3 DEF Inv
<1> QED BY <1>4, <1>5

LEMMA NewProcessInv == ASSUME Inv, NEW b, NewProcess(b) PROVE Inv'
<1>0. HostOK /\ Idle /\ stub.at = "off"
  BY DEF Inv, NewProcess, Calling
<1>1. DOMAIN host' = HostFields /\ host'.kept = NoSnap /\ host'.file = host.file
  BY <1>0 DEF NewProcess, HostOK, HostFields
<1>2. /\ UNCHANGED <<boot, stub, gdb, edit, image>> /\ odd' = FALSE
      /\ q' = Fresh(boot) /\ hist' = <<q'.v>>
  BY DEF NewProcess
<1>3. IsHandle(q', boot.nharts) /\ q'.loaded = FALSE
  BY <1>0, <1>2, StartSized, Zenon
<1>4. IsSeq(hist') /\ Len(hist') = 1
  BY <1>2, OneSeq
<1>5. FileTracksImage'
  BY <1>3 DEF FileTracksImage
<1>6. IsSeq(image') /\ odd' \in BOOLEAN /\ q'.loaded \in BOOLEAN
  BY <1>0, <1>2, <1>3, Zenon DEF Idle
<1> QED BY <1>0, <1>1, <1>2, <1>3, <1>4, <1>5, <1>6, IdleNext, Zenon DEF HostOK

LEMMA LoadSnapshotInv == ASSUME Inv, LoadSnapshot PROVE Inv'
<1>0. HostOK /\ Idle /\ stub.at = "off" /\ FileTracksImage
  BY DEF Inv, LoadSnapshot, Calling
<1> DEFINE s == host.file.snap
           ok == ~q.loaded /\ Readable(host.file, host.build)
<1>1. /\ DOMAIN host' = HostFields /\ host'.kept = host.kept /\ host'.file = host.file
      /\ host'.rewound = host.rewound
  BY <1>0, ReturnFields DEF LoadSnapshot
<1>2. UNCHANGED <<boot, stub, gdb, edit, odd, image>>
  BY DEF LoadSnapshot
<1>3. CASE ok
  <2>1. Faithful(s, boot.nharts)
    BY <1>0, <1>3 DEF HostOK, Readable
  <2>2. q' = QuantaLoadSnapshot(q, s) /\ hist' = <<s.was>>
    BY <1>3 DEF LoadSnapshot
  <2>3. IsHandle(q', boot.nharts) /\ q'.v = Saved(s) /\ q'.loaded = TRUE /\ q'.writable = FALSE
    <3>1. IsHandle(q, boot.nharts) /\ Sized(Saved(s), boot.nharts)
      BY <1>0, <2>1 DEF Idle, Faithful
    <3> HIDE DEF s
    <3>2. LoadedFrom(QuantaLoadSnapshot(q, s), s, boot.nharts)
      BY <3>1, LoadExact
    <3> QED BY <2>2, <3>2 DEF LoadedFrom
  <2>4. IsSeq(hist') /\ Len(hist') = 1 /\ hist'[1] = s.was
    BY <2>2, OneSeq
  <2>5. FileTracksImage'
    BY <2>3 DEF FileTracksImage
  <2>6. /\ IsSeq(image') /\ odd' \in BOOLEAN /\ q'.loaded \in BOOLEAN
        /\ (q'.loaded /\ ~odd' => q'.v = hist'[1])
    BY <1>0, <1>2, <2>1, <2>3, <2>4, Zenon DEF Idle, Faithful
  <2> QED BY <1>0, <1>1, <1>2, <2>3, <2>4, <2>5, <2>6, IdleNext DEF HostOK
<1>4. CASE ~ok
  <2>1. q' = q /\ hist' = hist
    BY <1>4 DEF LoadSnapshot
  <2>2. FileTracksImage'
    BY <1>0, <1>1, <1>2, <2>1 DEF FileTracksImage
  <2>3. HostOK' /\ Idle' /\ stub'.at = "off"
    BY <1>0, <1>1, <1>2, <2>1, Zenon DEF HostOK, Idle
  <2> QED BY <2>2, <2>3 DEF Inv
<1> QED BY <1>3, <1>4

LEMMA HostInv == ASSUME Inv, HostNext PROVE Inv'
BY HostStepInv, SetBackendInv, MemWriteInv, KeepInv, RestoreInv, LoadSnapshotInv, AttachDiskInv,
   SaveSnapshotInv, NewProcessInv DEF HostNext

-----------------------------------------------------------------------------
(* The steps of the stub. *)

FileOK(m) == m.q.writable /\ ~host.rewound /\ m.stub.reverse = FALSE => m.image = m.q.v.disk

\* What has to be shown of the m a step installs.
Served(m) ==
    /\ Session(m, boot.nharts) /\ Tables(m) /\ FileOK(m) /\ m.stub.from \in Nat
    /\ m.stub.guard \in 0..PollEvery - 1 /\ m.stub.tries \in 0..Tries
    /\ m.stub.at \in {"read", "ack", "run", "end"}

LEMMA ServingNext ==
    ASSUME HostOK, NEW m, Served(m), Stopped(m), Install(m), UNCHANGED <<boot, host>>,
           DOMAIN gdb' = GdbFields, gdb'.at \in {"idle", "sent", "wait", "closed"}
    PROVE  Inv'
<1>1. HostOK'
  BY DEF HostOK
<1>2. /\ q' = m.q /\ image' = m.image /\ hist' = m.hist /\ edit' = m.edit /\ odd' = m.odd
      /\ stub' = m.stub /\ boot' = boot
  BY DEF Install
<1>3. /\ Mach'.q = m.q /\ Mach'.image = m.image /\ Mach'.hist = m.hist /\ Mach'.edit = m.edit
      /\ Mach'.odd = m.odd /\ Mach'.stub = m.stub /\ DOMAIN Mach' = MachFields
  BY <1>2, Zenon DEF Mach, MachFields
<1>4. IsMach(Mach', boot.nharts) /\ Ring(Mach', boot.nharts) /\ Line(Mach')
  BY <1>3, Zenon DEF Served, Session, IsMach, Ring, Line
<1>5. First(Mach)'
  BY <1>2, <1>3, Zenon DEF Served, Session, First
<1>6. Session(Mach, boot.nharts)' /\ Tables(Mach)'
  BY <1>2, <1>3, <1>4, <1>5, Zenon DEF Served, Session, Tables
<1>10. Stopped(Mach)'
  BY <1>2, <1>3, Zenon DEF Stopped, BpOf, IsLast
<1>7. Serving'
  BY <1>2, <1>6, <1>10, Zenon DEF Served, Serving
<1>8. FileTracksImage'
  BY <1>2 DEF Served, FileOK, FileTracksImage
<1>9. stub'.at # "off"
  BY <1>2 DEF Served
<1> QED BY <1>1, <1>7, <1>8, <1>9 DEF Inv

\* What is known of the machine the stub is about to work on.
LEMMA ServedNow ==
    ASSUME Inv, stub.at # "off"
    PROVE  /\ HostOK /\ Served(Mach) /\ Stopped(Mach) /\ DOMAIN Mach = MachFields /\ boot.nharts \in Nat \ {0}
           /\ Mach.q = q /\ Mach.image = image /\ Mach.hist = hist /\ Mach.edit = edit
           /\ Mach.odd = odd /\ Mach.stub = stub /\ DOMAIN stub = StubFields
<1>1. HostOK /\ Serving /\ FileTracksImage
  BY DEF Inv
<1>2. /\ Mach.q = q /\ Mach.image = image /\ Mach.hist = hist /\ Mach.edit = edit
      /\ Mach.odd = odd /\ Mach.stub = stub /\ DOMAIN Mach = MachFields
  BY DEF Mach, MachFields
<1>3. IsMach(Mach, boot.nharts)
  BY <1>1 DEF Serving, Session
<1>4. DOMAIN stub = StubFields /\ q.loaded = TRUE
  BY <1>2, <1>3 DEF IsMach
<1>5. FileOK(Mach)
  BY <1>1, <1>2, <1>4 DEF FileOK, FileTracksImage
<1> QED BY <1>1, <1>2, <1>4, <1>5, BootHarts DEF Served, Serving

\* Fields of the stub that have no part in the session's invariant.
Idling == {"at", "guard", "tries", "reply", "quit", "execs", "cmd", "from"}

Holds(m, r, n) ==
    /\ Session(r, n) /\ Tables(r)
    /\ r.stub.nsteps = m.stub.nsteps /\ r.stub.cp = m.stub.cp /\ r.stub.bp = m.stub.bp
    /\ r.stub.reverse = m.stub.reverse

LEMMA Steered ==
    ASSUME NEW n, NEW m, Session(m, n), Tables(m), NEW r, DOMAIN r = MachFields, Still(m, r),
           DOMAIN r.stub = StubFields, Keeps(m, r, Idling)
    PROVE  Holds(m, r, n)
<1>1. /\ r.stub.nsteps = m.stub.nsteps /\ r.stub.cp = m.stub.cp /\ r.stub.bp = m.stub.bp
      /\ r.stub.reverse = m.stub.reverse
  BY DEF Keeps, StubFields, Idling
<1> QED BY <1>1, Restub DEF Tables, Holds

LEMMA ReplyServed ==
    ASSUME NEW m, Served(m), NEW x
    PROVE  /\ Served(Reply(m, x)) /\ Still(m, Reply(m, x))
           /\ Keeps(m, Reply(m, x), {"at", "tries", "reply"})
           /\ Reply(m, x).stub.at = "ack" /\ Reply(m, x).stub.reply = x
<1> DEFINE r == Reply(m, x)
<1>1. DOMAIN m = MachFields /\ DOMAIN m.stub = StubFields
  BY DEF Served, Session, IsMach
<1>2. /\ DOMAIN r = MachFields /\ Still(m, r)
      /\ r.stub = [m.stub EXCEPT !.at = "ack", !.tries = 1, !.reply = x]
  BY <1>1 DEF Reply, MachFields, Still
<1> HIDE DEF r
<1>3. /\ DOMAIN r.stub = StubFields /\ Keeps(m, r, {"at", "tries", "reply"})
      /\ r.stub.at = "ack" /\ r.stub.tries = 1 /\ r.stub.reply = x
  BY <1>1, <1>2, Zenon DEF StubFields, Keeps
<1>4. Keeps(m, r, Idling)
  BY <1>3 DEF Keeps, Idling
<1>5. Session(r, boot.nharts) /\ Tables(r) /\ r.stub.reverse = m.stub.reverse
  <2>1. Session(m, boot.nharts) /\ Tables(m)
    BY DEF Served
  <2>2. Holds(m, r, boot.nharts)
    BY <1>2, <1>3, <1>4, <2>1, Steered, Zenon
  <2> QED BY <2>2 DEF Holds
<1>6. r.stub.guard = m.stub.guard /\ r.stub.from = m.stub.from
  BY <1>3 DEF Keeps, StubFields
<1>7. FileOK(r)
  BY <1>2, <1>5 DEF Served, FileOK, Still
<1>8. 1 \in 0..Tries
  BY LoopAssumption
<1> QED BY <1>2, <1>3, <1>5, <1>6, <1>7, <1>8 DEF Served, r

LEMMA FaultedFields ==
    ASSUME HostOK, NEW ok
    PROVE  /\ DOMAIN Faulted(ok) = GdbFields
           /\ Faulted(ok).at = gdb.at /\ Faulted(ok).n = gdb.n /\ Faulted(ok).cmd = gdb.cmd
           /\ Faulted(ok).crossed = gdb.crossed /\ Faulted(ok).ints = gdb.ints
BY DEF HostOK, Faulted, GdbFields

\* The debugger connects.
LEMMA ServeInv == ASSUME Inv, Serve PROVE Inv'
<1>0. HostOK /\ Idle /\ stub.at = "off" /\ FileTracksImage /\ q.loaded = TRUE
  BY DEF Inv, Serve, Idle
<1> DEFINE n == boot.nharts
           m == [Mach EXCEPT !.stub.at = "read"]
           r == CpAdd(m)
<1>1. n \in Nat \ {0}
  BY <1>0, BootHarts
<1>2. /\ DOMAIN m = MachFields /\ m.q = q /\ m.image = image /\ m.hist = hist /\ m.edit = NoEdit
      /\ m.odd = odd /\ m.stub = [StubOff EXCEPT !.at = "read"]
  BY <1>0 DEF Mach, MachFields, Idle
<1> HIDE DEF m
<1>3. /\ DOMAIN m.stub = StubFields /\ m.stub.nsteps = 0 /\ m.stub.cp = <<>> /\ m.stub.adds = 0
      /\ m.stub.bp = {} /\ m.stub.reverse = FALSE /\ m.stub.guard = 0 /\ m.stub.tries = 0
      /\ m.stub.at = "read" /\ m.stub.from = 0
  BY <1>2 DEF StubOff, StubFields
<1>4. IsMach(m, n)
  BY <1>0, <1>2, <1>3 DEF IsMach, Idle
<1>5. Ring(m, n)
  <2>1. <<>> \in Seq({}) /\ Len(<<>>) = 0
    OBVIOUS
  <2> QED BY <1>3, <2>1, TableAssumption DEF Ring, IsSeq
<1>6. Line(m)
  <2>1. Path(hist[1], 0, hist[1])
    BY PathStart
  <2>2. Len(hist) = 1 /\ IsSeq(hist)
    BY <1>0 DEF Idle
  <2>3. \A k \in 0..Len(hist) - 1 : k = 0 /\ k + 1 = 1
    BY <2>2
  <2>4. \A k \in 0..Len(hist) - 2 : FALSE
    BY <2>2
  <2>5. ~m.odd => m.q.v = m.hist[m.stub.nsteps + 1]
    BY <1>0, <1>2, <1>3 DEF Idle
  <2>6. \A i \in 1..Len(m.stub.cp) : FALSE
    BY <1>3
  <2> QED BY <1>2, <1>3, <2>1, <2>2, <2>3, <2>4, <2>5, <2>6 DEF Line
<1>7. /\ IsMach(r, n) /\ Ring(r, n) /\ Line(r) /\ Still(m, r) /\ First(r)
      /\ Keeps(m, r, {"cp", "lastcp", "adds"})
  BY <1>1, <1>3, <1>4, <1>5, <1>6, CpAddLine, Zenon
<1>8. Install(r) /\ UNCHANGED <<boot, host, gdb>>
  BY DEF Serve, m
<1> HIDE DEF r
<1>9. /\ r.stub.bp = {} /\ r.stub.reverse = FALSE /\ r.stub.guard = 0 /\ r.stub.tries = 0
      /\ r.stub.at = "read" /\ r.stub.from = 0
  BY <1>3, <1>7 DEF Keeps, StubFields
<1>10. Tables(r)
  BY <1>9, FS_EmptySet, TableAssumption DEF Tables
<1>11. FileOK(r)
  BY <1>0, <1>2, <1>7 DEF FileOK, FileTracksImage, Still, Idle, StubOff
<1>12. Served(r)
  BY <1>7, <1>9, <1>10, <1>11, LoopAssumption DEF Served, Session
<1>13. Stopped(r)
  BY <1>9 DEF Stopped
<1> QED BY <1>0, <1>8, <1>12, <1>13, ServingNext DEF HostOK

\* The machine handle_packet is called with.
LEMMA CommandMach ==
    ASSUME Inv, stub.at = "read", NEW cmd
    PROVE  LET m == [Mach EXCEPT !.stub.execs = @ + 1, !.stub.cmd = cmd, !.stub.from = stub.nsteps]
           IN  /\ Served(m) /\ Still(Mach, m) /\ Keeps(Mach, m, {"execs", "cmd", "from"})
               /\ m.stub.execs = stub.execs + 1 /\ m.stub.cmd = cmd /\ m.stub.from = stub.nsteps
               /\ m.stub.at = "read" /\ m.stub.nsteps = stub.nsteps
<1> DEFINE m == [Mach EXCEPT !.stub.execs = @ + 1, !.stub.cmd = cmd, !.stub.from = stub.nsteps]
<1>0. /\ Served(Mach) /\ DOMAIN Mach = MachFields /\ Mach.stub = stub /\ DOMAIN stub = StubFields
  BY ServedNow
<1>1. /\ DOMAIN m = MachFields /\ Still(Mach, m)
      /\ m.stub = [stub EXCEPT !.execs = @ + 1, !.cmd = cmd, !.from = stub.nsteps]
  BY <1>0 DEF MachFields, Still
<1> HIDE DEF m
<1>2. /\ DOMAIN m.stub = StubFields /\ m.stub.execs = stub.execs + 1 /\ m.stub.cmd = cmd
      /\ m.stub.from = stub.nsteps /\ Keeps(Mach, m, {"execs", "cmd", "from"})
  BY <1>0, <1>1, Zenon DEF StubFields, Keeps
<1>3. Keeps(Mach, m, Idling)
  BY <1>2 DEF Keeps, Idling
<1>4. Holds(Mach, m, boot.nharts)
  <2>1. Session(Mach, boot.nharts) /\ Tables(Mach)
    BY <1>0 DEF Served
  <2> QED BY <1>1, <1>2, <1>3, <2>1, Steered, Zenon
<1>5. m.stub.guard = stub.guard /\ m.stub.tries = stub.tries /\ m.stub.at = stub.at
  BY <1>0, <1>2 DEF Keeps, StubFields
<1>6. FileOK(m)
  BY <1>0, <1>1, <1>4 DEF Served, FileOK, Still, Holds
<1>7. stub.nsteps \in Nat
  BY <1>0 DEF Served, Session, IsMach
<1>8. Served(m)
  BY <1>0, <1>2, <1>4, <1>5, <1>6, <1>7 DEF Served, Holds
<1> QED BY <1>0, <1>1, <1>2, <1>4, <1>5, <1>8 DEF Holds, m

\* A handler's result is sound where its machine was.
LEMMA HandledServed ==
    ASSUME HostOK, NEW m, Served(m), m.stub.at = "read", NEW cmd, NEW a,
           Handled(m, cmd, a, boot.nharts)
    PROVE  Served(a.m) /\ a.m.stub.from = m.stub.from /\ a.m.stub.cmd = m.stub.cmd
           /\ a.m.stub.execs = m.stub.execs /\ a.m.stub.at \in {"read", "run"}
<1>1. Works(m, a.m, boot.nharts)
  BY Zenon DEF Handled
<1>2. /\ a.m.stub.from = m.stub.from /\ a.m.stub.cmd = m.stub.cmd /\ a.m.stub.execs = m.stub.execs
      /\ a.m.stub.tries = m.stub.tries
  BY <1>1 DEF Works, Keeps, StubFields, Working, Steering
<1>3. a.m.stub.at \in {"read", "run"} /\ a.m.stub.guard \in 0..PollEvery - 1
  <2>1. a.m.stub.at \in {m.stub.at, "run"} /\ a.m.stub.guard \in {0, m.stub.guard}
    BY DEF Handled
  <2>2. m.stub.guard \in 0..PollEvery - 1
    BY Zenon DEF Served
  <2> QED BY <2>1, <2>2, LoopAssumption
<1>4. FileOK(a.m)
  BY <1>1, Zenon DEF Works, FileKept, Served, FileOK
<1> QED BY <1>1, <1>2, <1>3, <1>4, Zenon DEF Served, Works

LEMMA ReadCommandInv == ASSUME Inv, ReadCommand PROVE Inv'
<1> DEFINE cmd == Head(c2s)[2]
           m == [Mach EXCEPT !.stub.execs = @ + 1, !.stub.cmd = cmd, !.stub.from = stub.nsteps]
           a == Handle(m, cmd)
<1>0. stub.at = "read" /\ HostOK /\ boot.nharts \in Nat \ {0}
  BY ServedNow, Zenon DEF ReadCommand, Reads
<1>1. /\ Served(m) /\ m.stub.cmd = cmd /\ m.stub.from = stub.nsteps
      /\ m.stub.at = "read" /\ m.stub.nsteps = stub.nsteps
  BY <1>0, CommandMach, Zenon
<1>2. \/ /\ a.reply # None
         /\ \E ok \in Intact : Install(Reply(a.m, a.reply)) /\ gdb' = Faulted(ok)
      \/ /\ ~(a.reply # None) /\ UNCHANGED gdb
         /\ Install([a.m EXCEPT !.stub.at = IF a.m.stub.quit THEN "end" ELSE @])
  BY Zenon DEF ReadCommand
<1>3. UNCHANGED <<boot, host>>
  BY Zenon DEF ReadCommand
<1> HIDE DEF m, cmd
<1>4. Handled(m, cmd, a, boot.nharts)
  BY <1>0, <1>1, HandleHandled, Zenon DEF Served
<1> HIDE DEF a
<1>5. /\ Served(a.m) /\ a.m.stub.from = stub.nsteps /\ a.m.stub.cmd = cmd
      /\ a.m.stub.at \in {"read", "run"}
  BY <1>0, <1>1, <1>4, HandledServed
<1>6. CASE a.reply # None
  <2> DEFINE r == Reply(a.m, a.reply)
  <2>1. PICK ok \in Intact : Install(r) /\ gdb' = Faulted(ok)
    BY <1>2, <1>6
  <2>2. DOMAIN gdb' = GdbFields /\ gdb'.at = gdb.at
    BY <1>0, <2>1, FaultedFields
  <2>3. /\ Served(r) /\ Still(a.m, r) /\ Keeps(a.m, r, {"at", "tries", "reply"})
        /\ r.stub.at = "ack"
    BY <1>5, ReplyServed
  <2> HIDE DEF r
  <2>4. /\ r.stub.cmd = cmd /\ r.stub.from = stub.nsteps /\ r.stub.nsteps = a.m.stub.nsteps
        /\ r.stub.bp = a.m.stub.bp
    BY <1>5, <2>3 DEF Keeps, StubFields
  <2>5. cmd[1] # "c"
    BY <1>4, <1>6 DEF Handled
  <2>6. ASSUME ~r.odd, r.edit = NoEdit, 1 \notin boot.oom, cmd[1] = "bc"
        PROVE  IsLast(r, r.stub.nsteps, r.stub.from)
    <3>1. ~a.m.odd /\ a.m.edit = NoEdit /\ r.hist = a.m.hist
      BY <2>3, <2>6 DEF Still
    <3>2. /\ IsLast(m, a.m.stub.nsteps, m.stub.nsteps) /\ a.m.hist = m.hist
          /\ a.m.stub.bp = m.stub.bp
      BY <1>4, <2>6, <3>1, Zenon DEF Handled
    <3>3. \A j : BpOf(r, j) <=> BpOf(m, j)
      BY <2>4, <3>1, <3>2 DEF BpOf
    <3> QED BY <1>1, <2>4, <3>2, <3>3 DEF IsLast
  <2>7. Stopped(r)
    BY <2>3, <2>4, <2>5, <2>6, Zenon DEF Stopped
  <2> QED BY <1>0, <1>3, <2>1, <2>2, <2>3, <2>7, ServingNext DEF HostOK
<1>7. CASE ~(a.reply # None)
  <2> DEFINE x == IF a.m.stub.quit THEN "end" ELSE a.m.stub.at
             r == [a.m EXCEPT !.stub.at = x]
  <2>1. Install(r) /\ UNCHANGED gdb
    BY <1>2, <1>7
  <2>2. x \in {"read", "run", "end"}
    BY <1>5
  <2> HIDE DEF x
  <2>3. DOMAIN r = MachFields /\ Still(a.m, r) /\ r.stub = [a.m.stub EXCEPT !.at = x]
    BY <1>5 DEF Served, Session, IsMach, MachFields, Still
  <2> HIDE DEF r
  <2>4. DOMAIN r.stub = StubFields /\ Keeps(a.m, r, {"at"}) /\ r.stub.at = x
    BY <1>5, <2>3 DEF Served, Session, IsMach, StubFields, Keeps
  <2>5. Keeps(a.m, r, Idling)
    BY <2>4 DEF Keeps, Idling
  <2>6. Holds(a.m, r, boot.nharts)
    <3>1. Session(a.m, boot.nharts) /\ Tables(a.m)
      BY <1>5 DEF Served
    <3> QED BY <2>3, <2>4, <2>5, <3>1, Steered
  <2>7. /\ r.stub.cmd = cmd /\ r.stub.from = stub.nsteps /\ r.stub.guard = a.m.stub.guard
        /\ r.stub.tries = a.m.stub.tries
    BY <1>5, <2>4 DEF Keeps, StubFields
  <2>8. FileOK(r)
    BY <1>5, <2>3, <2>6 DEF Served, FileOK, Still, Holds
  <2>9. Served(r)
    BY <1>5, <2>2, <2>4, <2>6, <2>7, <2>8, Zenon DEF Served, Holds
  <2>10. Stopped(r)
    <3>1. cmd[1] = "c" => \A k \in r.stub.from + 1..r.stub.nsteps - 1 : FALSE
      <4>1. SUFFICES ASSUME cmd[1] = "c", NEW k \in r.stub.from + 1..r.stub.nsteps - 1 PROVE FALSE
        OBVIOUS
      <4>2. r.stub.nsteps \in {stub.nsteps, stub.nsteps + 1}
        BY <1>1, <1>4, <2>6, <4>1, Zenon DEF Handled, Holds
      <4>3. stub.nsteps \in Nat
        BY <1>1 DEF Served
      <4> QED BY <2>7, <4>1, <4>2, <4>3
    <3>2. r.stub.at # "ack"
      BY <2>2, <2>4
    <3>3. cmd[1] # "bc"
      BY <1>4, <1>7 DEF Handled
    <3> QED BY <2>7, <3>1, <3>2, <3>3 DEF Stopped
  <2> QED BY <1>0, <1>3, <2>1, <2>9, <2>10, ServingNext, Zenon DEF HostOK
<1> QED BY <1>6, <1>7

\* A step that only moves the stub's loop on.
LEMMA StubOnly ==
    ASSUME Inv, stub.at # "off", NEW s, DOMAIN s = StubFields,
           \A f \in StubFields \ Idling : s[f] = stub[f],
           s.guard \in 0..PollEvery - 1, s.tries \in 0..Tries, s.from \in Nat,
           s.at \in {"read", "ack", "run", "end"}, Stopped([Mach EXCEPT !.stub = s]),
           stub' = s, UNCHANGED <<boot, host, q, image, hist, edit, odd>>,
           DOMAIN gdb' = GdbFields, gdb'.at \in {"idle", "sent", "wait", "closed"}
    PROVE  Inv'
<1> DEFINE r == [Mach EXCEPT !.stub = s]
<1>0. /\ HostOK /\ Served(Mach) /\ DOMAIN Mach = MachFields
      /\ Mach.q = q /\ Mach.image = image /\ Mach.hist = hist /\ Mach.edit = edit
      /\ Mach.odd = odd /\ Mach.stub = stub
  BY ServedNow
<1>1. DOMAIN r = MachFields /\ Still(Mach, r) /\ r.stub = s
  BY <1>0 DEF MachFields, Still
<1>2. Stopped(r)
  OBVIOUS
<1> HIDE DEF r
<1>3. Keeps(Mach, r, Idling)
  BY <1>0, <1>1 DEF Keeps
<1>4. Holds(Mach, r, boot.nharts)
  <2>1. Session(Mach, boot.nharts) /\ Tables(Mach)
    BY <1>0 DEF Served
  <2> QED BY <1>1, <1>3, <2>1, Steered
<1>5. Install(r)
  BY <1>0, <1>1 DEF Install, Still
<1>6. FileOK(r)
  BY <1>0, <1>1, <1>4 DEF Served, FileOK, Still, Holds
<1>7. Served(r)
  BY <1>1, <1>4, <1>6 DEF Served, Holds
<1> QED BY <1>0, <1>2, <1>5, <1>7, ServingNext

\* A step of the two streams and the debugger's own state.
LEMMA StreamInv ==
    ASSUME Inv, UNCHANGED <<boot, q, image, host, stub, hist, edit, odd>>,
           DOMAIN gdb' = GdbFields, gdb'.at \in {"idle", "sent", "wait", "closed"}
    PROVE  Inv'
<1>1. HostOK' /\ FileTracksImage'
  BY DEF Inv, HostOK, FileTracksImage
<1>2. Idle' = Idle
  BY Zenon DEF Idle
<1>3. Mach' = Mach
  BY DEF Mach
<1>4. First(Mach)' <=> First(Mach)
  BY <1>3 DEF First
<1>5. Session(Mach, boot.nharts)' <=> Session(Mach, boot.nharts)
  BY <1>3, <1>4 DEF Session
<1>6. Serving' = Serving
  BY <1>3, <1>5, Zenon DEF Serving, Tables, Stopped
<1> QED BY <1>1, <1>2, <1>6 DEF Inv

LEMMA ReadCtrlCInv == ASSUME Inv, ReadCtrlC PROVE Inv'
<1> DEFINE m == [Mach EXCEPT !.stub.cmd = <<"int">>]
           x == StopReply(m, "sigint")
           r == Reply(m, x)
<1>0. /\ stub.at = "read" /\ HostOK /\ Served(Mach) /\ DOMAIN Mach = MachFields
      /\ Mach.stub = stub /\ DOMAIN stub = StubFields
  BY ServedNow DEF ReadCtrlC, Reads
<1>1. PICK ok \in Intact : Install(r) /\ gdb' = Faulted(ok)
  BY DEF ReadCtrlC
<1>2. UNCHANGED <<boot, host>>
  BY DEF ReadCtrlC
<1>3. DOMAIN m = MachFields /\ Still(Mach, m) /\ m.stub = [stub EXCEPT !.cmd = <<"int">>]
  BY <1>0 DEF MachFields, Still
<1> HIDE DEF m
<1>4. DOMAIN m.stub = StubFields /\ Keeps(Mach, m, {"cmd"}) /\ m.stub.cmd = <<"int">>
  BY <1>0, <1>3 DEF StubFields, Keeps
<1>5. Keeps(Mach, m, Idling)
  BY <1>4 DEF Keeps, Idling
<1>6. Holds(Mach, m, boot.nharts)
  <2>1. Session(Mach, boot.nharts) /\ Tables(Mach)
    BY <1>0 DEF Served
  <2> QED BY <1>3, <1>4, <1>5, <2>1, Steered
<1>7. /\ m.stub.guard = stub.guard /\ m.stub.tries = stub.tries /\ m.stub.at = stub.at
      /\ m.stub.from = stub.from
  BY <1>0, <1>4 DEF Keeps, StubFields
<1>8. FileOK(m)
  BY <1>0, <1>3, <1>6 DEF Served, FileOK, Still, Holds
<1>9. Served(m)
  BY <1>0, <1>6, <1>7, <1>8 DEF Served, Holds
<1> HIDE DEF x
<1>10. Served(r) /\ Keeps(m, r, {"at", "tries", "reply"})
  BY <1>9, ReplyServed
<1> HIDE DEF r
<1>11. r.stub.cmd = <<"int">>
  BY <1>4, <1>10 DEF Keeps, StubFields
<1>12. Stopped(r)
  BY <1>11 DEF Stopped
<1>13. DOMAIN gdb' = GdbFields /\ gdb'.at = gdb.at
  BY <1>0, <1>1, FaultedFields
<1> QED BY <1>0, <1>1, <1>2, <1>10, <1>12, <1>13, ServingNext, Zenon DEF HostOK

LEMMA EndInv ==
    ASSUME Inv, stub.at # "off", NEW x \in {"read", "end"}, stub' = [stub EXCEPT !.at = x],
           UNCHANGED <<boot, host, gdb, q, image, hist, edit, odd>>
    PROVE  Inv'
<1> DEFINE s == [stub EXCEPT !.at = x]
<1>0. /\ HostOK /\ Served(Mach) /\ Mach.stub = stub /\ DOMAIN stub = StubFields
      /\ DOMAIN Mach = MachFields
  BY ServedNow
<1>1. /\ DOMAIN s = StubFields /\ \A f \in StubFields \ {"at"} : s[f] = stub[f]
      /\ s.at = x
  BY <1>0 DEF StubFields
<1>2. stub' = s
  OBVIOUS
<1> HIDE DEF s
<1>3. s.guard = stub.guard /\ s.tries = stub.tries /\ s.from = stub.from
  BY <1>1 DEF StubFields
<1>4. [Mach EXCEPT !.stub = s].stub = s
  BY <1>0 DEF MachFields
<1>5. Stopped([Mach EXCEPT !.stub = s])
  BY <1>1, <1>4 DEF Stopped
<1>6. \A f \in StubFields \ Idling : s[f] = stub[f]
  BY <1>1 DEF Idling
<1> QED BY <1>0, <1>1, <1>2, <1>3, <1>5, <1>6, StubOnly DEF Served, HostOK

LEMMA ReadAckInv == ASSUME Inv, ReadAck PROVE Inv'
<1> DEFINE token == Head(c2s)[1]
<1>0. stub.at = "ack" /\ UNCHANGED <<boot, q, image, host, hist, edit, odd>>
  BY DEF ReadAck
<1>1. CASE token = "ack" \/ token = "eof" \/ stub.tries = Tries
  <2> DEFINE x == IF token = "ack" /\ ~stub.quit THEN "read" ELSE "end"
  <2>1. x \in {"read", "end"} /\ stub' = [stub EXCEPT !.at = x] /\ UNCHANGED gdb
    BY <1>1 DEF ReadAck
  <2> HIDE DEF x
  <2> QED BY <1>0, <2>1, EndInv
<1>2. CASE ~(token = "ack" \/ token = "eof" \/ stub.tries = Tries)
  <2> DEFINE s == [stub EXCEPT !.tries = @ + 1]
  <2>1. stub' = s /\ \E ok \in Intact : gdb' = Faulted(ok)
    BY <1>2 DEF ReadAck
  <2>2. /\ HostOK /\ Served(Mach) /\ Stopped(Mach) /\ Mach.stub = stub /\ DOMAIN stub = StubFields
        /\ DOMAIN Mach = MachFields
    BY <1>0, ServedNow
  <2>3. /\ DOMAIN s = StubFields /\ \A f \in StubFields \ {"tries"} : s[f] = stub[f]
        /\ s.tries = stub.tries + 1
    BY <2>2 DEF StubFields
  <2> HIDE DEF s
  <2>4. /\ s.guard = stub.guard /\ s.at = stub.at /\ s.from = stub.from /\ s.cmd = stub.cmd
        /\ s.nsteps = stub.nsteps /\ s.reply = stub.reply /\ s.bp = stub.bp
    BY <2>3 DEF StubFields
  <2>5. s.tries \in 0..Tries
    BY <1>2, <2>2, <2>3, LoopAssumption DEF Served
  <2> DEFINE r == [Mach EXCEPT !.stub = s]
  <2>6. r.stub = s /\ r.odd = Mach.odd /\ r.edit = Mach.edit /\ r.hist = Mach.hist
    BY <2>2 DEF MachFields
  <2> HIDE DEF r
  <2>7. \A j : BpOf(r, j) <=> BpOf(Mach, j)
    BY <2>2, <2>4, <2>6, Zenon DEF BpOf
  <2>8. Stopped(r)
    BY <2>2, <2>4, <2>6, <2>7, Zenon DEF Stopped, IsLast
  <2>9. \A f \in StubFields \ Idling : s[f] = stub[f]
    BY <2>3 DEF Idling
  <2>10. DOMAIN gdb' = GdbFields /\ gdb'.at = gdb.at
    BY <2>1, <2>2, FaultedFields
  <2>11. Stopped([Mach EXCEPT !.stub = s])
    BY <2>8 DEF r
  <2> QED BY <1>0, <2>1, <2>2, <2>3, <2>4, <2>5, <2>9, <2>10, <2>11, StubOnly DEF Served, HostOK
<1> QED BY <1>1, <1>2

\* A continued guest stops, with a reply that fits.
LEMMA RunStopInv ==
    ASSUME Inv, stub.at = "run", NEW sig \in {"swbreak", "sigint"}, RunStop(sig),
           sig = "swbreak" => Stops, UNCHANGED <<boot, host>>
    PROVE  Inv'
<1> DEFINE x == StopReply(Mach, sig)
           r == Reply(Mach, x)
<1>0. /\ HostOK /\ Served(Mach) /\ Stopped(Mach) /\ Mach.stub = stub /\ Mach.q = q
      /\ Mach.odd = odd /\ Mach.edit = edit /\ Mach.hist = hist
  BY ServedNow, Zenon
<1>1. PICK ok \in Intact : Install(r) /\ gdb' = Faulted(ok)
  BY DEF RunStop
<1>2. x = "swbreak" => BpMatch(Mach)
  BY <1>0 DEF StopReply, Stops
<1> HIDE DEF x
<1>3. /\ Served(r) /\ Still(Mach, r) /\ Keeps(Mach, r, {"at", "tries", "reply"})
      /\ r.stub.reply = x
  BY <1>0, ReplyServed, Zenon
<1> HIDE DEF r
<1>4. /\ r.stub.cmd = stub.cmd /\ r.stub.from = stub.from /\ r.stub.nsteps = stub.nsteps
      /\ r.stub.bp = stub.bp /\ r.stub.at \in {"read", "ack", "run", "end"}
  BY <1>0, <1>3, Zenon DEF Keeps, StubFields, Served
<1>5. \A j : BpOf(r, j) <=> BpOf(Mach, j)
  BY <1>0, <1>3, <1>4, Zenon DEF BpOf, Still
<1>6. ASSUME ~r.odd, r.edit = NoEdit, 1 \notin boot.oom, x = "swbreak" PROVE BpOf(r, r.stub.nsteps)
  <2>1. Mach.q.v = hist[stub.nsteps + 1]
    BY <1>0, <1>3, <1>6, Zenon DEF Served, Session, Line, Still, Unedited
  <2>2. BpOf(Mach, stub.nsteps)
    BY <1>0, <1>2, <1>6, <2>1, Zenon DEF BpMatch, BpOf, QuantaPc
  <2> QED BY <1>4, <1>5, <2>2
<1>7. Stopped(r)
  BY <1>0, <1>3, <1>4, <1>5, <1>6, Zenon DEF Stopped, Still
<1>8. DOMAIN gdb' = GdbFields /\ gdb'.at = gdb.at
  BY <1>0, <1>1, FaultedFields
<1> QED BY <1>0, <1>1, <1>3, <1>7, <1>8, ServingNext, Zenon DEF HostOK

\* One more step of do_continue, past no breakpoint.
LEMMA RunInv ==
    ASSUME Inv, stub.at = "run", ~Stops, NEW g \in 0..PollEvery - 1,
           Install(StubStep([Mach EXCEPT !.stub.guard = g])), UNCHANGED <<boot, host, gdb>>
    PROVE  Inv'
<1> DEFINE m == [Mach EXCEPT !.stub.guard = g]
           r == StubStep(m)
<1>0. /\ HostOK /\ Served(Mach) /\ Stopped(Mach) /\ DOMAIN Mach = MachFields
      /\ Mach.stub = stub /\ Mach.q = q /\ Mach.odd = odd /\ Mach.edit = edit /\ Mach.hist = hist
      /\ DOMAIN stub = StubFields /\ boot.nharts \in Nat \ {0}
  BY ServedNow
<1>1. DOMAIN m = MachFields /\ Still(Mach, m) /\ m.stub = [stub EXCEPT !.guard = g]
  BY <1>0 DEF MachFields, Still
<1>2. Install(r)
  OBVIOUS
<1> HIDE DEF m
<1>3. DOMAIN m.stub = StubFields /\ Keeps(Mach, m, {"guard"}) /\ m.stub.guard = g
  BY <1>0, <1>1 DEF StubFields, Keeps
<1>4. Keeps(Mach, m, Idling)
  BY <1>3 DEF Keeps, Idling
<1>5. Holds(Mach, m, boot.nharts)
  <2>1. Session(Mach, boot.nharts) /\ Tables(Mach)
    BY <1>0 DEF Served
  <2> QED BY <1>1, <1>3, <1>4, <2>1, Steered
<1>6. /\ IsMach(r, boot.nharts) /\ Ring(r, boot.nharts) /\ Line(r) /\ First(r)
      /\ Advanced(m, r, {"nsteps", "cp", "lastcp", "adds"})
  <2>1. IsMach(m, boot.nharts) /\ Ring(m, boot.nharts) /\ Line(m) /\ First(m)
    BY <1>5 DEF Holds, Session
  <2> QED BY <1>0, <2>1, StubStepLine
<1> HIDE DEF r
<1>7. /\ m.stub.tries = stub.tries /\ m.stub.at = "run" /\ m.stub.from = stub.from
      /\ m.stub.cmd = stub.cmd /\ m.stub.bp = stub.bp /\ m.stub.nsteps = stub.nsteps
      /\ m.stub.reverse = stub.reverse
  BY <1>0, <1>3 DEF Keeps, StubFields
<1>8. /\ r.stub.tries = stub.tries /\ r.stub.at = "run" /\ r.stub.from = stub.from
      /\ r.stub.cmd = stub.cmd /\ r.stub.bp = stub.bp /\ r.stub.guard = g
      /\ r.stub.reverse = stub.reverse
  BY <1>3, <1>6, <1>7 DEF Advanced, Keeps, StubFields
<1>9. Session(r, boot.nharts) /\ Tables(r)
  BY <1>0, <1>6, <1>8 DEF Session, Tables, Served
<1>10. FileOK(r)
  BY <1>0, <1>1, <1>6, <1>8 DEF FileOK, Served, Advanced, Still
<1>11. Served(r)
  BY <1>0, <1>8, <1>9, <1>10 DEF Served
<1>12. q.v.halt = "run" /\ ~BpMatch(Mach)
  BY DEF Stops
<1>13. /\ r.stub.nsteps = stub.nsteps + 1 /\ stub.nsteps \in Nat
       /\ \A j \in 1..stub.nsteps + 1 : r.hist[j] = hist[j]
  BY <1>0, <1>1, <1>6, <1>7, <1>12 DEF Advanced, Still, Served, Session, IsMach
<1>14. Stopped(r)
  <2>1. SUFFICES ASSUME ~r.odd, r.edit = NoEdit, 1 \notin boot.oom
                 PROVE  /\ r.stub.cmd[1] # "bc"
                        /\ r.stub.cmd[1] = "c" =>
                              \A k \in r.stub.from + 1..r.stub.nsteps - 1 : ~BpOf(r, k)
    BY <1>8 DEF Stopped
  <2>2. ~odd /\ edit = NoEdit
    BY <1>0, <1>1, <1>6, <2>1 DEF Advanced, Still
  <2>3. stub.cmd[1] # "bc"
    BY <1>0, <2>1, <2>2 DEF Stopped
  <2>4. ASSUME stub.cmd[1] = "c", NEW k \in stub.from + 1..stub.nsteps PROVE ~BpOf(r, k)
    <3>1. stub.from \in Nat /\ k \in Nat /\ k + 1 \in 1..stub.nsteps + 1
      BY <1>0, <1>13 DEF Served
    <3>2. BpOf(r, k) <=> BpOf(Mach, k)
      BY <1>0, <1>8, <1>13, <3>1 DEF BpOf
    <3>3. CASE k = stub.nsteps
      <4>1. q.v = hist[stub.nsteps + 1]
        BY <1>0, <2>2 DEF Served, Session, Line, Unedited
      <4> QED BY <1>0, <1>12, <3>2, <3>3, <4>1 DEF BpMatch, BpOf, QuantaPc
    <3>4. CASE k # stub.nsteps
      <4>1. k \in stub.from + 1..stub.nsteps - 1
        BY <1>13, <3>1, <3>4
      <4> QED BY <1>0, <2>1, <2>2, <2>4, <3>2, <4>1 DEF Stopped
    <3> QED BY <3>3, <3>4
  <2>5. r.stub.nsteps - 1 = stub.nsteps
    BY <1>13
  <2> QED BY <1>8, <2>3, <2>4, <2>5
<1> QED BY <1>0, <1>2, <1>11, <1>14, ServingNext DEF HostOK

LEMMA StubInv == ASSUME Inv, StubNext PROVE Inv'
<1>1. CASE Serve
  BY <1>1, ServeInv
<1>2. CASE ReadCommand
  BY <1>2, ReadCommandInv
<1>3. CASE ReadGarbled \/ ReadSkip
  BY <1>3, StreamInv, Zenon DEF ReadGarbled, ReadSkip, Inv, HostOK
<1>4. CASE ReadCtrlC
  BY <1>4, ReadCtrlCInv
<1>5. CASE ReadEof
  BY <1>5, EndInv DEF ReadEof, Reads
<1>6. CASE ReadAck
  BY <1>6, ReadAckInv
<1>7. CASE ContinueStop
  BY <1>7, RunStopInv DEF ContinueStop
<1>8. CASE ContinuePoll
  <2>0. stub.at = "run" /\ ~Stops /\ UNCHANGED <<boot, host>>
    BY <1>8 DEF ContinuePoll
  <2>1. CASE Head(c2s)[1] = "int"
    BY <1>8, <2>0, <2>1, RunStopInv DEF ContinuePoll
  <2>2. CASE Head(c2s)[1] = "eof"
    BY <1>8, <2>0, <2>2, EndInv DEF ContinuePoll
  <2>3. CASE Head(c2s)[1] # "int" /\ Head(c2s)[1] # "eof"
    <3>1. Install(StubStep([Mach EXCEPT !.stub.guard = 0])) /\ UNCHANGED gdb
      BY <1>8, <2>3 DEF ContinuePoll
    <3>2. 0 \in 0..PollEvery - 1
      BY LoopAssumption
    <3> QED BY <2>0, <3>1, <3>2, RunInv
  <2> QED BY <2>1, <2>2, <2>3
<1>9. CASE ContinueStep
  <2>0. stub.at = "run" /\ ~Stops /\ UNCHANGED <<boot, host, gdb>>
    BY <1>9 DEF ContinueStep
  <2>1. Mach.stub.guard \in 0..PollEvery - 1
    BY <2>0, ServedNow, Zenon DEF Served
  <2> DEFINE g == (Mach.stub.guard + 1) % PollEvery
  <2>2. g \in 0..PollEvery - 1
    BY <2>1, LoopAssumption
  <2>3. Install(StubStep([Mach EXCEPT !.stub.guard = g]))
    BY <1>9 DEF ContinueStep
  <2> HIDE DEF g
  <2> QED BY <2>0, <2>2, <2>3, RunInv
<1> QED BY <1>1, <1>2, <1>3, <1>4, <1>5, <1>6, <1>7, <1>8, <1>9 DEF StubNext

-----------------------------------------------------------------------------
(* What is under way to the debugger: '+', '-' and replies. *)

IsToken(t) == t[1] \in {"ack", "nak", "rep"}
Streams == IsSeq(s2c) /\ \A i \in 1..Len(s2c) : IsToken(s2c[i])

\* One more token, and one fewer.
IsMore(r, s, x) == /\ IsSeq(r) /\ Len(s) \in Nat /\ Len(r) = Len(s) + 1 /\ r[Len(s) + 1] = x
                   /\ \A i \in 1..Len(s) : r[i] = s[i]

IsLess(r, s) == /\ IsSeq(r) /\ Len(s) \in Nat \ {0} /\ Len(r) = Len(s) - 1 /\ Head(s) = s[1]
                /\ \A i \in 1..Len(r) : r[i] = s[i + 1]

LEMMA TokenMore ==
    ASSUME NEW s, IsSeq(s), NEW x
    PROVE  IsMore(Append(s, x), s, x) /\ s \o <<x>> = Append(s, x)
<1>1. PICK S : s \in Seq(S)
  BY DEF IsSeq
<1> DEFINE U == S \cup {x}
<1>2. s \in Seq(U) /\ x \in U
  BY <1>1
<1>3. Append(s, x) \in Seq(U) /\ Len(s) \in Nat
  BY <1>2
<1>4. Len(Append(s, x)) = Len(s) + 1 /\ Append(s, x)[Len(s) + 1] = x
  BY <1>2
<1>5. \A i \in 1..Len(s) : Append(s, x)[i] = s[i]
  BY <1>2
<1>6. s \o <<x>> = Append(s, x)
  BY <1>2
<1> QED BY <1>3, <1>4, <1>5, <1>6 DEF IsSeq, IsMore

LEMMA TokenLess ==
    ASSUME NEW s, IsSeq(s), s # <<>>
    PROVE  IsLess(Tail(s), s)
<1>1. PICK S : s \in Seq(S)
  BY DEF IsSeq
<1>2. Tail(s) \in Seq(S) /\ Len(s) \in Nat /\ Len(s) >= 1 /\ Len(Tail(s)) = Len(s) - 1
  BY <1>1
<1> QED BY <1>1, <1>2 DEF IsSeq, IsLess

LEMMA StreamsMore ==
    ASSUME Streams, NEW x, IsToken(x), s2c' = Append(s2c, x) PROVE Streams'
BY TokenMore DEF Streams, IsMore

LEMMA StreamsInit == Init => Streams
<1>1. <<>> \in Seq({1}) /\ Len(<<>>) = 0
  OBVIOUS
<1>2. IsSeq(<<>>) /\ \A i \in 1..Len(<<>>) : IsToken(<<>>[i])
  BY <1>1 DEF IsSeq
<1>3. Init => s2c = <<>>
  BY DEF Init
<1> QED BY <1>2, <1>3, Zenon DEF Streams

LEMMA RepToken == ASSUME NEW m, NEW ok PROVE \E x : IsToken(x) /\ Rep(m, ok) = <<x>>
<1> DEFINE k == IF m.stub.cmd = <<"int">> THEN 0 ELSE m.stub.execs
<1> HIDE DEF k
<1>1. IsToken(<<"rep", k, ok>>)
  BY DEF IsToken
<1> QED BY <1>1 DEF Rep, k

LEMMA StreamsRep == ASSUME Streams, NEW m, NEW ok, s2c' = s2c \o Rep(m, ok) PROVE Streams'
<1>1. PICK x : IsToken(x) /\ Rep(m, ok) = <<x>>
  BY RepToken
<1>2. s2c' = Append(s2c, x)
  BY <1>1, TokenMore DEF Streams
<1> QED BY <1>1, <1>2, StreamsMore

LEMMA StreamsAnswer ==
    ASSUME Streams, NEW m, NEW ok, s2c' = s2c \o <<<<"ack">>>> \o Rep(m, ok)
    PROVE  Streams'
<1> DEFINE s == Append(s2c, <<"ack">>)
<1>1. PICK x : IsToken(x) /\ Rep(m, ok) = <<x>>
  BY RepToken
<1>2. IsSeq(s) /\ s2c \o <<<<"ack">>>> = s
  BY TokenMore DEF Streams, IsMore
<1>3. Len(s2c) \in Nat /\ Len(s) = Len(s2c) + 1 /\ \A i \in 1..Len(s) : IsToken(s[i])
  BY TokenMore DEF Streams, IsToken, IsMore
<1> HIDE DEF s
<1>4. s2c' = Append(s, x)
  BY <1>1, <1>2, TokenMore
<1>5. IsMore(s2c', s, x)
  BY <1>2, <1>4, TokenMore, Zenon
<1>6. ASSUME NEW i \in 1..Len(s) + 1 PROVE IsToken(s2c'[i])
  <2>1. i = Len(s) + 1 \/ i \in 1..Len(s)
    BY <1>3
  <2> QED BY <1>1, <1>3, <1>5, <2>1 DEF IsMore
<1> QED BY <1>5, <1>6 DEF Streams, IsMore

LEMMA StreamsTail == ASSUME Streams, s2c # <<>>, s2c' = Tail(s2c) PROVE Streams'
BY TokenLess DEF Streams, IsLess

LEMMA StreamsNext == ASSUME Streams, [Next]_vars PROVE Streams'
<1>1. CASE UNCHANGED s2c
  BY <1>1 DEF Streams
<1>2. CASE HostNext
  <2>1. UNCHANGED s2c
    BY <1>2, Zenon DEF HostNext, HostStep, SetBackend, MemWrite, Keep, Restore, LoadSnapshot, AttachDisk,
                SaveSnapshot, NewProcess
  <2> QED BY <1>1, <2>1
<1>3. CASE StubNext
  <2>1. \/ UNCHANGED s2c
        \/ s2c' = Append(s2c, <<"ack">>) \/ s2c' = Append(s2c, <<"nak">>)
        \/ \E m, ok : s2c' = s2c \o Rep(m, ok)
        \/ \E m, ok : s2c' = s2c \o <<<<"ack">>>> \o Rep(m, ok)
    <3>1. CASE ReadCommand
      BY <3>1, Zenon DEF ReadCommand
    <3>2. CASE ReadCtrlC
      BY <3>2, Zenon DEF ReadCtrlC
    <3>3. CASE ReadAck
      BY <3>3, Zenon DEF ReadAck
    <3>4. CASE ContinueStop
      BY <3>4, Zenon DEF ContinueStop, RunStop
    <3>5. CASE ContinuePoll
      BY <3>5 DEF ContinuePoll, RunStop
    <3>6. CASE Serve \/ ReadGarbled \/ ReadSkip \/ ReadEof \/ ContinueStep
      BY <3>6 DEF Serve, ReadGarbled, ReadSkip, ReadEof, ContinueStep
    <3> QED BY <1>3, <3>1, <3>2, <3>3, <3>4, <3>5, <3>6, Zenon DEF StubNext
  <2>2. IsToken(<<"ack">>) /\ IsToken(<<"nak">>)
    BY DEF IsToken
  <2> QED BY <1>1, <2>1, <2>2, StreamsMore, StreamsRep, StreamsAnswer, Zenon
<1>4. CASE GdbNext
  <2>1. UNCHANGED s2c \/ (s2c # <<>> /\ s2c' = Tail(s2c))
    BY <1>4, Zenon DEF GdbNext, GdbSend, GdbInterrupt, GdbReceive, GdbClose
  <2> QED BY <1>1, <2>1, StreamsTail
<1>5. CASE UNCHANGED vars
  BY <1>1, <1>5 DEF vars
<1> QED BY <1>2, <1>3, <1>4, <1>5 DEF Next

\* The debugger's side touches only its own state and the two streams.
LEMMA GdbInv == ASSUME Inv, Streams, GdbNext PROVE Inv'
<1>0. UNCHANGED <<boot, q, image, host, stub, hist, edit, odd>>
  BY Zenon DEF GdbNext, GdbSend, GdbInterrupt, GdbReceive, GdbClose
<1>1. HostOK /\ DOMAIN gdb = GdbFields /\ gdb.at \in {"idle", "sent", "wait", "closed"}
  BY DEF Inv, HostOK
<1>2. CASE GdbSend
  <2>1. PICK cmd, ok :
          gdb' = [Faulted(ok) EXCEPT !.at = "sent", !.n = @ + 1, !.cmd = cmd, !.left = @ - 1]
    BY <1>2, Zenon DEF GdbSend
  <2>2. DOMAIN gdb' = GdbFields /\ gdb'.at = "sent"
    BY <1>1, <2>1, FaultedFields DEF GdbFields
  <2> QED BY <1>0, <2>2, StreamInv
<1>3. CASE GdbInterrupt
  <2>1. DOMAIN gdb' = GdbFields /\ gdb'.at \in {gdb.at, "wait"}
    BY <1>1, <1>3, Zenon DEF GdbInterrupt, GdbFields
  <2> QED BY <1>0, <1>1, <2>1, StreamInv
<1>4. CASE GdbReceive
  <2> DEFINE t == Head(s2c)
  <2>1. IsToken(t)
    <3>1. s2c # <<>>
      BY <1>4 DEF GdbReceive
    <3> QED BY <3>1, TokenLess DEF Streams, IsLess
  <2>2. CASE t[1] = "ack"
    <3>1. gdb' = [gdb EXCEPT !.at = IF @ = "sent" THEN "wait" ELSE @]
      BY <1>4, <2>2, Zenon DEF GdbReceive
    <3>2. DOMAIN gdb' = GdbFields /\ gdb'.at \in {gdb.at, "wait"}
      BY <1>1, <3>1 DEF GdbFields
    <3> QED BY <1>0, <1>1, <3>2, StreamInv
  <2>3. CASE t[1] = "nak"
    <3>1. PICK ok \in Intact : gdb' = Faulted(ok)
      BY <1>4, <2>3, Zenon DEF GdbReceive
    <3> QED BY <1>0, <1>1, <3>1, FaultedFields, StreamInv
  <2>4. CASE t[1] = "rep"
    <3>1. \/ gdb' = gdb
          \/ gdb' = [gdb EXCEPT !.at = "idle", !.crossed =
                                  t[2] # IF gdb.cmd = <<"int">> THEN 0 ELSE gdb.n]
      BY <1>4, <2>4, Zenon DEF GdbReceive
    <3> DEFINE x == t[2] # IF gdb.cmd = <<"int">> THEN 0 ELSE gdb.n
    <3>2. CASE gdb' = [gdb EXCEPT !.at = "idle", !.crossed = x]
      <4> HIDE DEF x
      <4>1. DOMAIN gdb' = GdbFields /\ gdb'.at = "idle"
        BY <1>1, <3>2 DEF GdbFields
      <4> QED BY <1>0, <4>1, StreamInv
    <3> QED BY <1>0, <1>1, <3>1, <3>2, StreamInv
  <2> QED BY <2>1, <2>2, <2>3, <2>4 DEF IsToken
<1>5. CASE GdbClose
  <2>1. DOMAIN gdb' = GdbFields /\ gdb'.at = "closed"
    BY <1>1, <1>5 DEF GdbClose, GdbFields
  <2> QED BY <1>0, <2>1, StreamInv
<1> QED BY <1>2, <1>3, <1>4, <1>5 DEF GdbNext

LEMMA NextInv == ASSUME Inv, Streams, [Next]_vars PROVE Inv'
<1>1. CASE UNCHANGED vars
  BY <1>1, StreamInv, Zenon DEF vars, Inv, HostOK
<1> QED BY <1>1, HostInv, StubInv, GdbInv DEF Next

LEMMA InvHolds == Spec => [](Inv /\ Streams)
<1>1. Init => Inv /\ Streams
  BY InitInv, StreamsInit
<1>2. Inv /\ Streams /\ [Next]_vars => Inv' /\ Streams'
  BY NextInv, StreamsNext
<1> QED BY <1>1, <1>2, PTL DEF Spec

-----------------------------------------------------------------------------
(* The results. *)

LEMMA InvTypeOK == ASSUME Inv PROVE TypeOK
<1>1. CASE stub.at = "off"
  <2>1. /\ stub = StubOff /\ Len(hist) = 1 /\ IsHandle(q, boot.nharts) /\ HostOK
        /\ boot.nharts \in Nat \ {0}
    BY <1>1, BootHarts DEF Inv, Idle
  <2>2. Len(stub.cp) <= MaxCp
    BY <2>1, TableAssumption DEF StubOff
  <2>3. Cardinality(stub.bp) <= MaxBp
    <3>1. Cardinality({}) = 0
      BY FS_EmptySet
    <3> QED BY <2>1, <3>1, TableAssumption DEF StubOff
  <2>4. Len(q.v.harts) = boot.nharts /\ q.v.sched \in 0..boot.nharts - 1
    BY <2>1, TupleLen DEF IsHandle, Sized
  <2>5. /\ stub.nsteps = 0 /\ stub.tries = 0 /\ stub.guard = 0
    BY <2>1 DEF StubOff
  <2>6. stub.nsteps \in 0..Len(hist) - 1
    BY <2>1, <2>5
  <2>7. stub.tries \in 0..Tries /\ stub.guard \in 0..PollEvery - 1
    BY <2>5, LoopAssumption
  <2>8. gdb.at \in {"idle", "sent", "wait", "closed"}
    BY <2>1, Zenon DEF HostOK
  <2>9. stub.at \in {"off", "read", "ack", "run", "end"}
    BY <1>1, Zenon
  <2> QED BY <2>2, <2>3, <2>4, <2>6, <2>7, <2>8, <2>9, Zenon DEF TypeOK
<1>2. CASE stub.at # "off"
  <2>1. /\ HostOK /\ Served(Mach) /\ Mach.stub = stub /\ Mach.q = q /\ Mach.hist = hist
        /\ boot.nharts \in Nat \ {0}
    BY <1>2, ServedNow, Zenon
  <2>2. /\ Len(stub.cp) <= MaxCp /\ Cardinality(stub.bp) <= MaxBp
        /\ stub.nsteps \in Nat /\ stub.nsteps < Len(hist) /\ IsSeq(hist)
        /\ Tuple(q.v.harts, boot.nharts) /\ q.v.sched \in 0..boot.nharts - 1
    BY <2>1, Zenon DEF Served, Session, IsMach, Ring, Line, Tables, IsHandle, Sized
  <2>3. Len(q.v.harts) = boot.nharts
    BY <2>1, <2>2, TupleLen, Zenon
  <2>4. stub.nsteps \in 0..Len(hist) - 1
    BY <2>2, SeqLen
  <2> QED BY <2>1, <2>2, <2>3, <2>4, Zenon DEF TypeOK, HostOK, Served
<1> QED BY <1>1, <1>2

LEMMA InvReplayExact == ASSUME Inv PROVE ReplayExact
<1>1. CASE stub.at = "off"
  <2>1. q.loaded /\ ~odd => q.v = hist[1]
    BY <1>1 DEF Inv, Idle
  <2>2. stub.nsteps + 1 = 1
    <3>1. stub = StubOff
      BY <1>1, Zenon DEF Inv, Idle
    <3>2. stub.nsteps = 0
      BY <3>1, Zenon DEF StubOff
    <3> QED BY <3>2
  <2> QED BY <2>1, <2>2, InvTypeOK DEF ReplayExact, Now
<1>2. CASE stub.at # "off"
  <2>1. /\ Served(Mach) /\ Mach.stub = stub /\ Mach.q = q /\ Mach.hist = hist
        /\ Mach.odd = odd /\ Mach.edit = edit
    BY <1>2, ServedNow, Zenon
  <2> QED BY <2>1, InvTypeOK, Zenon DEF ReplayExact, Now, Served, Session, Line
<1> QED BY <1>1, <1>2

LEMMA InvStopsRight == ASSUME Inv PROVE StopsRight
<1>1. SUFFICES ASSUME stub.at = "ack", Plain
               PROVE  /\ stub.cmd[1] = "c" =>
                            /\ \A k \in (stub.from + 1)..(stub.nsteps - 1) : ~BpAt(k)
                            /\ stub.reply = "swbreak" => BpAt(stub.nsteps)
                      /\ stub.cmd[1] = "bc" =>
                            LET hits == {k \in 0..(stub.from - 1) : BpAt(k)}
                            IN stub.nsteps = IF hits = {} THEN 0
                                             ELSE CHOOSE k \in hits : \A j \in hits : j <= k
  BY DEF StopsRight
<1>2. /\ Served(Mach) /\ Stopped(Mach) /\ Mach.stub = stub /\ Mach.hist = hist
      /\ Mach.odd = odd /\ Mach.edit = edit
  BY <1>1, ServedNow
<1>3. \A k : BpAt(k) <=> BpOf(Mach, k)
  BY <1>2 DEF BpAt, BpOf
<1>4. CASE stub.cmd[1] = "c"
  BY <1>1, <1>2, <1>3, <1>4 DEF Stopped, Plain
<1>5. CASE stub.cmd[1] = "bc"
  <2> DEFINE c == stub.from
             k == stub.nsteps
             hits == {j \in 0..(c - 1) : BpAt(j)}
  <2>1. IsLast(Mach, k, c) /\ c \in Nat /\ k \in Nat
    BY <1>1, <1>2, <1>5, Zenon DEF Stopped, Plain, Served, Session, IsMach
  <2>2. /\ \A j \in 0..c - 1 : BpAt(j) => j <= k
        /\ k = 0 \/ (BpAt(k) /\ k < c)
    BY <1>3, <2>1 DEF IsLast
  <2>3. hits \subseteq Nat /\ \A j \in hits : j <= k
    BY <2>1, <2>2
  <2>4. CASE hits = {}
    <3>1. k = 0
      BY <2>1, <2>2, <2>4
    <3> QED BY <1>5, <2>4, <3>1
  <2>5. CASE hits # {}
    <3>1. k \in hits
      <4>1. CASE k = 0
        <5>1. PICK j \in hits : TRUE
          BY <2>5
        <5>2. j = k
          BY <2>1, <2>3, <4>1, <5>1
        <5> QED BY <5>1, <5>2
      <4>2. CASE k # 0
        BY <2>1, <2>2, <4>2
      <4> QED BY <4>1, <4>2
    <3> HIDE DEF hits
    <3>2. \A x \in hits : (\A j \in hits : j <= x) => x = k
      BY <2>1, <2>3, <3>1
    <3>3. (CHOOSE x \in hits : \A j \in hits : j <= x) = k
      BY <2>3, <3>1, <3>2, Zenon
    <3> QED BY <1>5, <2>5, <3>3, Zenon DEF hits
  <2> QED BY <2>4, <2>5
<1> QED BY <1>4, <1>5

\* quanta_restore, quanta_load_snapshot and goto_step (quanta.c, gdbstub.c): for
\* every program, number of harts, checkpoint ring, wire and choice of failed
\* copies, the machine at step n is the machine that was at step n.
THEOREM ReplayCorrect == Spec => []ReplayExact
BY InvHolds, InvReplayExact, PTL

\* do_continue and do_reverse_continue (gdbstub.c): no breakpoint is run past,
\* and bc stops at the last one.
THEOREM StopsCorrect == Spec => []StopsRight
BY InvHolds, InvStopsRight, PTL

\* The write-through of the block device (quanta.c, virtio_blk.c): the file holds
\* what the guest's disk holds until a restore takes the image back.
THEOREM FileCorrect == Spec => []FileTracksImage
<1>1. Inv => FileTracksImage
  BY DEF Inv
<1> QED BY <1>1, InvHolds, PTL

\* A step of a refused call or packet.
Refuses ==
    /\ host'.calls # host.calls /\ host'.status = "err" => q' = q
    /\ stub.at = "read" /\ stub'.at = "ack" /\ stub'.reply = "E" /\ stub'.cmd[1] # "Gbad"
         => q' = q /\ stub'.bp = stub.bp

LEMMA HostRefuses == ASSUME Inv, HostNext PROVE Refuses
<1>1. stub.at = "off" /\ DOMAIN host = HostFields
  BY Zenon DEF HostNext, HostStep, SetBackend, MemWrite, Keep, Restore, LoadSnapshot, AttachDisk,
         SaveSnapshot, NewProcess, Calling, Inv, HostOK
<1>2. CASE HostStep \/ SetBackend \/ MemWrite \/ Keep \/ (\E w, o \in BOOLEAN : AttachDisk(w, o))
           \/ (\E b \in {"a", "b"} : NewProcess(b))
  <2>1. host'.status = "ok"
    BY <1>1, <1>2, Zenon DEF HostStep, SetBackend, MemWrite, Keep, AttachDisk, NewProcess, Return, HostFields
  <2> QED BY <1>1, <2>1 DEF Refuses
<1>3. CASE Restore
  <2>1. CASE Restorable(q, host.kept)
    <3>1. host'.status = "ok"
      BY <1>1, <1>3, <2>1 DEF Restore, HostFields
    <3> QED BY <1>1, <3>1 DEF Refuses
  <2>2. CASE ~Restorable(q, host.kept)
    <3>1. q' = q
      BY <1>3, <2>2 DEF Restore, QuantaRestore
    <3> QED BY <1>1, <3>1 DEF Refuses
  <2> QED BY <2>1, <2>2
<1>4. CASE \E whole \in BOOLEAN : SaveSnapshot(whole)
  BY <1>1, <1>4 DEF SaveSnapshot, Refuses
<1>5. CASE LoadSnapshot
  <2> DEFINE ok == ~q.loaded /\ Readable(host.file, host.build)
  <2>1. CASE ok
    <3>1. host'.status = "ok"
      BY <1>1, <1>5, <2>1 DEF LoadSnapshot, Return, HostFields
    <3> QED BY <1>1, <3>1 DEF Refuses
  <2>2. CASE ~ok
    <3>1. q' = q
      BY <1>5, <2>2 DEF LoadSnapshot
    <3> QED BY <1>1, <3>1 DEF Refuses
  <2> QED BY <2>1, <2>2
<1> QED BY <1>2, <1>3, <1>4, <1>5 DEF HostNext

LEMMA CommandRefuses == ASSUME Inv, ReadCommand PROVE Refuses
<1> DEFINE cmd == Head(c2s)[2]
           m == [Mach EXCEPT !.stub.execs = @ + 1, !.stub.cmd = cmd, !.stub.from = stub.nsteps]
           a == Handle(m, cmd)
<1>0. /\ stub.at = "read" /\ HostOK /\ boot.nharts \in Nat \ {0} /\ UNCHANGED host
      /\ DOMAIN Mach = MachFields /\ DOMAIN stub = StubFields /\ Mach.stub = stub /\ Mach.q = q
  BY ServedNow, Zenon DEF ReadCommand, Reads
<1>1. /\ Served(m) /\ m.stub.cmd = cmd /\ m.stub.at = "read"
  BY <1>0, CommandMach, Zenon
<1>2. m.q = q /\ m.stub.bp = stub.bp
  BY <1>0, Zenon DEF MachFields, StubFields
<1>3. \/ a.reply # None /\ Install(Reply(a.m, a.reply))
      \/ a.reply = None /\ Install([a.m EXCEPT !.stub.at = IF a.m.stub.quit THEN "end" ELSE @])
  BY Zenon DEF ReadCommand
<1> HIDE DEF m, cmd
<1>4. Handled(m, cmd, a, boot.nharts)
  BY <1>0, <1>1, HandleHandled DEF Served
<1> HIDE DEF a
<1>5. Served(a.m) /\ a.m.stub.cmd = cmd /\ a.m.stub.at \in {"read", "run"}
  BY <1>0, <1>1, <1>4, HandledServed
<1>6. CASE a.reply # None
  <2> DEFINE r == Reply(a.m, a.reply)
  <2>1. /\ Still(a.m, r) /\ Keeps(a.m, r, {"at", "tries", "reply"}) /\ r.stub.reply = a.reply
    BY <1>5, ReplyServed, Zenon
  <2>2. q' = r.q /\ stub' = r.stub
    BY <1>3, <1>6 DEF Install
  <2> HIDE DEF r
  <2>3. r.stub.bp = a.m.stub.bp /\ r.stub.cmd = cmd /\ r.q = a.m.q
    BY <1>5, <2>1 DEF Keeps, StubFields, Still
  <2>4. a.reply = "E" /\ cmd[1] # "Gbad" => a.m.q = q /\ a.m.stub.bp = stub.bp
    BY <1>2, <1>4, Zenon DEF Handled
  <2> QED BY <1>0, <2>1, <2>2, <2>3, <2>4 DEF Refuses
<1>7. CASE a.reply = None
  <2>1. DOMAIN a.m = MachFields /\ DOMAIN a.m.stub = StubFields
    BY <1>5, Zenon DEF Served, Session, IsMach
  <2>2. stub'.at \in {"end", a.m.stub.at}
    BY <1>3, <1>7, <2>1 DEF Install, MachFields, StubFields
  <2> QED BY <1>0, <1>5, <2>2 DEF Refuses
<1> QED BY <1>6, <1>7

LEMMA StubRefuses == ASSUME Inv, StubNext PROVE Refuses
<1>1. UNCHANGED host
  BY Zenon DEF StubNext, Serve, ReadCommand, ReadGarbled, ReadSkip, ReadCtrlC, ReadEof, ReadAck,
         ContinueStop, ContinuePoll, ContinueStep
<1>2. CASE ReadCommand
  BY <1>2, CommandRefuses
<1>3. CASE ReadCtrlC
  <2> DEFINE m == [Mach EXCEPT !.stub.cmd = <<"int">>]
  <2>1. \E x : Install(Reply(m, x))
    BY <1>3 DEF ReadCtrlC
  <2>2. stub.at # "off"
    BY <1>3 DEF ReadCtrlC, Reads
  <2>3. /\ DOMAIN Mach = MachFields /\ DOMAIN stub = StubFields /\ Mach.stub = stub /\ Mach.q = q
    BY <2>2, ServedNow
  <2>4. DOMAIN m = MachFields /\ DOMAIN m.stub = StubFields /\ m.q = q /\ m.stub.bp = stub.bp
    BY <2>3 DEF MachFields, StubFields
  <2> HIDE DEF m
  <2>5. q' = q /\ stub'.bp = stub.bp
    BY <2>1, <2>4, Zenon DEF Install, Reply, MachFields, StubFields
  <2> QED BY <1>1, <2>5 DEF Refuses
<1>4. CASE Serve \/ ReadAck \/ ContinueStop \/ ContinuePoll \/ ContinueStep
  <2>1. stub.at # "read"
    BY <1>4 DEF Serve, ReadAck, ContinueStop, ContinuePoll, ContinueStep
  <2> QED BY <1>1, <2>1 DEF Refuses
<1>5. CASE ReadGarbled \/ ReadSkip \/ ReadEof
  <2>1. UNCHANGED q
    BY <1>5 DEF ReadGarbled, ReadSkip, ReadEof
  <2>2. UNCHANGED stub \/ stub' = [stub EXCEPT !.at = "end"]
    BY <1>5 DEF ReadGarbled, ReadSkip, ReadEof
  <2>3. stub.at # "off"
    BY <1>5 DEF ReadGarbled, ReadSkip, ReadEof, Reads
  <2>4. DOMAIN stub = StubFields
    BY <2>3, ServedNow
  <2>5. stub'.bp = stub.bp
    BY <2>2, <2>4 DEF StubFields
  <2> QED BY <1>1, <2>1, <2>5 DEF Refuses
<1> QED BY <1>2, <1>3, <1>4, <1>5 DEF StubNext

LEMMA NextRefuses == ASSUME Inv, [Next]_vars PROVE Refuses
<1>1. CASE GdbNext
  BY <1>1, Zenon DEF GdbNext, GdbSend, GdbInterrupt, GdbReceive, GdbClose, Refuses
<1>2. CASE UNCHANGED vars
  BY <1>2 DEF vars, Refuses
<1> QED BY <1>1, <1>2, HostRefuses, StubRefuses DEF Next

\* quanta_restore, quanta_load_snapshot and the packet handlers (quanta.c,
\* gdbstub.c): a call or packet that is refused has changed neither the machine
\* nor the breakpoints, except a G packet refused half-way.
THEOREM RefusalsCorrect == Spec => ErrorsChangeNothing
<1>1. Inv /\ [Next]_vars => [Refuses]_vars
  BY NextRefuses
<1> QED BY <1>1, InvHolds, PTL DEF Spec, ErrorsChangeNothing, Refuses

=============================================================================
