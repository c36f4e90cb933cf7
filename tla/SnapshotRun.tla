---------------------------- MODULE SnapshotRun ----------------------------
(***************************************************************************)
(* What snapshot.Snapshot does while the world is stopped (internal/       *)
(* snapshot: snapshot.go, unwinder.go; internal/allgs), down to the bytes  *)
(* of the buffer: each goroutine's stack is walked, the programs of its    *)
(* frames of interest run on the stack machine, then those of the objects  *)
(* queued.                                                                 *)
(***************************************************************************)
EXTENDS StackMachine

CONSTANTS
  Programs,        \* the snapshot programs
  Memories,        \* what the process may have in memory
  Capacities,      \* sizes of the buffer
  Goroutines,      \* the goroutines allgs refers to
  TextBase,        \* ComputeTextSectionBaseOffset
  MaxStackFrames,  \* 512 in the code
  Hash(_)          \* murmur2

ASSUME ProgramAssumption == \A p \in Programs : SnapshotProgram(p)

\* Addresses, and the words at them, are natural numbers.
Memory(mm) ==
  /\ mm.arch \in {"amd64", "arm64"}
  /\ \A a \in DOMAIN mm.at : a \in Nat /\ mm.at[a] \in Nat
ASSUME MemoryAssumption == \A mm \in Memories : Memory(mm)

ASSUME ProcessAssumption ==
  /\ Capacities \subseteq Nat /\ TextBase \in Nat /\ MaxStackFrames \in Nat \ {0}
  /\ Goroutines \in Seq([goid : Nat, status : Nat, pc : Nat, bp : Nat, stktopsp : Nat])

vars == <<program, mem, machineVars, sn>>

Init ==
  /\ \E p \in Programs : program = Loaded(p)
  /\ mem \in Memories
  /\ \E size \in Capacities : buf = makeOutBuf(size)
  /\ MachineInit
  /\ sn = [phase |-> "start", next |-> 1, left |-> {}, cfas |-> <<>>, before |-> 0,
           header |-> 0, after |-> 0, stackBytes |-> 0, hash |-> 0, stacks |-> {}]

-----------------------------------------------------------------------------
(***************************************************************************)
(* The unwinder.                                                           *)
(***************************************************************************)
At0(mm, a) == IF a \in DOMAIN mm.at THEN mm.at[a] ELSE 0

\* walkStack: the frames up to one that is nil or cannot be read, or to the bound.
FrameAt(mm, f) == f # 0 /\ Readable(mm, f, 16)

FrameChain(mm, fp) ==
  LET fps[i \in 1..MaxStackFrames] ==
        IF i = 1 THEN fp
        ELSE IF FrameAt(mm, fps[i - 1]) THEN At0(mm, fps[i - 1]) ELSE 0
      ends == {i \in 1..MaxStackFrames : i = MaxStackFrames \/ ~FrameAt(mm, fps[i])}
      n == CHOOSE i \in ends : \A j \in ends : i <= j
  IN [i \in 1..n |-> fps[i]]

\* The counters are those of the frames' return addresses, relative to the text
\* section, but for the counter of a goroutine without a frame.
Pcs(mm, g) ==
  LET fps == FrameChain(mm, g.bp) IN
  IF g.bp = 0 THEN <<g.pc>>
  ELSE [i \in 1..Len(fps) |->
          (IF i = 1 THEN g.pc ELSE At0(mm, fps[i - 1] + 8)) - TextBase]

ASSUME HashAssumption ==
  \A mm \in Memories : \A i \in 1..Len(Goroutines) : Hash(Pcs(mm, Goroutines[i])) \in Nat

\* adjustCFA, of one architecture and of the other.
CfasAmd64(fps) == [i \in 1..Len(fps) |-> fps[i] + 16]

CfasArm64(fps, stackTopSp) ==
  [i \in 1..Len(fps) |-> IF i < Len(fps) THEN fps[i + 1] + 8 ELSE stackTopSp]

Cfas(g) ==
  LET fps == FrameChain(mem, g.bp) IN
  IF g.bp = 0 THEN fps
  ELSE IF mem.arch = "amd64" THEN CfasAmd64(fps) ELSE CfasArm64(fps, g.stktopsp)

\* sort.Search, and the classification of a counter that it finds the place of: the
\* first target that is not smaller, equal or not.
Classified(p) ==
  LET targets == program.PcClassifier.TargetPc
      found == {j \in 1..Len(targets) : p <= targets[j]}
  IN IF found = {} THEN 0
     ELSE program.PcClassifier.ProgPc[CHOOSE j \in found : \A k \in found : j <= k]

FramesOfInterest(pcs) ==
  {f \in {[idx |-> i, pc |-> Classified(pcs[i])] : i \in 1..Len(pcs)} : f.pc # 0}

-----------------------------------------------------------------------------
Idle == ~m.on /\ m.crash = "none"

\* What the program must say for the world to be stopped, and to be looked at.
ConfigComplete ==
  /\ program.RuntimeConfig.StopTheWorldStartAddr # 0
  /\ program.RuntimeConfig.StartTheWorldStartAddr # 0

GoroutineIteratorValid ==
  /\ program.RuntimeConfig.VariableRuntimeDotAllgs # 0
  /\ program.RuntimeConfig.GoRuntimeBssAddress # 0
  /\ program.RuntimeConfig.VariableRuntimeDotAllgs >= program.RuntimeConfig.GoRuntimeBssAddress

NoSnapshot(b, qu) ==
  /\ sn' = [sn EXCEPT !.phase = "failed"]
  /\ buf' = b /\ queue' = qu
  /\ Fixed /\ UNCHANGED <<m, cut>>

Rejects == sn.phase = "start" /\ ~ConfigComplete /\ NoSnapshot(buf, queue)

StaticsPushed ==
  LET vs == program.RuntimeConfig.StaticVariables
      pushed[i \in 0..Len(vs)] ==
        IF i = 0 THEN queue
        ELSE Push(pushed[i - 1], vs[i].Address + BssShift, vs[i].Type, 0)
  IN pushed[Len(vs)]

\* The header is written, the world stopped and the static variables pushed.
Start ==
  /\ sn.phase = "start" /\ ConfigComplete
  /\ IF SnapshotHeaderSize > buf.cap THEN NoSnapshot([buf EXCEPT !.full = TRUE], queue)
     ELSE IF ~GoroutineIteratorValid
     THEN NoSnapshot([buf EXCEPT !.len = SnapshotHeaderSize], StaticsPushed)
     ELSE /\ buf' = [buf EXCEPT !.len = SnapshotHeaderSize]
          /\ sn' = [sn EXCEPT !.phase = "goroutines"]
          /\ queue' = StaticsPushed
          /\ Fixed /\ UNCHANGED <<m, cut>>

NumGoroutines == 32
NonLiveGoroutines == 36
Counted(b, field) == Put(b, field, 4, Get(b, field) + 1)

\* Status_Gdead, Status_Grunning, Status_Gscan, and a status without the bit of a scan.
Gdead == 6
Grunning == 2
Gscan == 4096
Unscanned(status) == status % Gscan

\* What is read of the next g at the offsets of the RuntimeConfig.
Current == [Goroutines[sn.next] EXCEPT !.status = Unscanned(@)]
Goroutine(b, x) == buf' = b /\ sn' = x /\ Fixed /\ UNCHANGED <<m, queue, cut>>
NextGoroutine == [sn EXCEPT !.next = @ + 1]

SkipGoroutine ==
  /\ sn.phase = "goroutines" /\ sn.next <= Len(Goroutines)
  /\ buf.full \/ Current.status \in {Gdead, Grunning}
  /\ Goroutine(IF ~buf.full /\ Current.status = Gdead THEN Counted(buf, NonLiveGoroutines)
               ELSE buf, NextGoroutine)

\* snapshotGoroutine up to the first program; without room the goroutine is removed.
BeginGoroutine ==
  /\ sn.phase = "goroutines" /\ sn.next <= Len(Goroutines)
  /\ ~buf.full /\ Current.status \notin {Gdead, Grunning}
  /\ LET pcs == Pcs(mem, Current)
         b == Counted(buf, NumGoroutines)
         header == EnsureLen(b, b.len + GoroutineHeaderSize)
         known == {s \in sn.stacks : s.hash = Hash(pcs)}
         stacked == IF known = {} THEN writeStack(header, pcs) ELSE header
         frames == IF known = {} THEN FramesOfInterest(pcs)
                   ELSE (CHOOSE s \in known : TRUE).frames
     IN IF header.full \/ stacked.full
        THEN Goroutine(Truncate(IF header.full THEN header ELSE stacked, b.len), NextGoroutine)
        ELSE Goroutine(stacked,
               [sn EXCEPT !.phase = "frames", !.left = frames, !.cfas = Cfas(Current),
                  !.before = b.len, !.header = b.len, !.after = header.len, !.hash = Hash(pcs),
                  !.stackBytes = stacked.len - header.len,
                  !.stacks = IF known = {}
                             THEN @ \cup {[hash |-> Hash(pcs), frames |-> frames]} ELSE @])

\* The last frame of interest left: its program runs at the end of the buffer.  Frames
\* remembered with a stack of the same hash may lie beyond this stack.
RunFrame ==
  /\ sn.phase = "frames" /\ Idle /\ m.ok
  /\ \E f \in sn.left :
     /\ \A g \in sn.left : g.idx <= f.idx
     /\ m' = IF f.idx \in DOMAIN sn.cfas
             THEN Runs(m, f.pc, sn.cfas[f.idx], f.idx - 1, buf.len, buf.len)
             ELSE [m EXCEPT !.ok = FALSE, !.crash = "panic"]
     /\ sn' = [sn EXCEPT !.left = @ \ {f}]
  /\ Fixed /\ UNCHANGED <<buf, queue, cut>>

\* No frame is left, or a program failed: the header is filled in, and taken back
\* with all that follows when the buffer is full.
EndGoroutine ==
  /\ sn.phase = "frames" /\ Idle /\ (sn.left = {} \/ ~m.ok)
  /\ LET h == sn.header
         b == Put(Put(Put(Overwrite(buf, h, GoroutineHeaderSize, <<>>), h, 8, Current.goid),
                      h + 8, 8, sn.hash), h + 16, 4, Current.status)
         filled == Put(Put(b, h + 32, 4, sn.stackBytes), h + 36, 4, buf.len - sn.after)
     IN buf' = IF buf.full THEN Truncate(filled, sn.before) ELSE filled
  /\ sn' = [NextGoroutine EXCEPT !.phase = "goroutines"]
  /\ m' = [m EXCEPT !.ok = TRUE]
  /\ Fixed /\ UNCHANGED <<queue, cut>>

GoroutinesByteLen == 4
GoroutinesDone ==
  /\ sn.phase = "goroutines" /\ sn.next > Len(Goroutines)
  /\ Goroutine(Put(buf, GoroutinesByteLen, 4, buf.len - SnapshotHeaderSize),
               [sn EXCEPT !.phase = "queue"])

-----------------------------------------------------------------------------
(***************************************************************************)
(* processQueue.                                                           *)
(***************************************************************************)
\* An entry has the length of its type unless it was queued with a smaller one.
LengthOf(e, info) == IF e.len = 0 \/ e.len > info.ByteLen THEN info.ByteLen ELSE e.len

\* Mutant: only the queue says when to stop.
PoppingWhenFull == sn.phase = "queue" /\ Idle /\ queue.q # <<>>

Popping == sn.phase = "queue" /\ Idle /\ ~buf.full /\ queue.q # <<>>

PopEntry ==
  /\ Popping
  /\ LET popped == Head(queue.q)
         t == popped.type
         e == [popped EXCEPT !.len = LengthOf(popped, program.TypeInfo[t])]
         w == IF program.TypeInfo[t].SerializeBeforeEnqueue THEN writeQueueEntry(mem, buf, e)
              ELSE [b |-> buf, offset |-> 0, ok |-> TRUE]
     IN IF t \notin DOMAIN program.TypeInfo THEN UNCHANGED <<m, buf>>
        ELSE IF e.len = 0 THEN UNCHANGED <<m, buf>>
        ELSE /\ buf' = w.b
             /\ m' = IF ~w.ok \/ program.TypeInfo[t].EnqueuePc = 0 THEN m
                     ELSE Runs([m EXCEPT !.chased = e], program.TypeInfo[t].EnqueuePc, 0, 0,
                               w.offset, buf.len)
  /\ queue' = [queue EXCEPT !.q = Tail(@)]
  /\ Fixed /\ UNCHANGED <<sn, cut>>

\* The buffer is full or the queue empty: DataByteLen is written, and the data sent.
DataByteLen == 0
QueueDone ==
  /\ sn.phase = "queue" /\ Idle /\ (buf.full \/ queue.q = <<>>)
  /\ Goroutine(Put(buf, DataByteLen, 4, buf.len), [sn EXCEPT !.phase = "done"])

\* A fault, or a write outside the buffer that faults, ends in an error of Snapshot; a
\* panic ends the process.
Fails ==
  /\ m.crash # "none" \/ (buf.wild /\ sn.phase \in {"goroutines", "frames", "queue"})
  /\ sn.phase # "failed"
  /\ sn' = [sn EXCEPT !.phase = "failed"]
  /\ m' = [m EXCEPT !.on = FALSE]
  /\ Fixed /\ UNCHANGED <<buf, queue, cut>>

Next ==
  \/ Rejects \/ Start
  \/ SkipGoroutine \/ BeginGoroutine \/ RunFrame \/ EndGoroutine \/ GoroutinesDone
  \/ PopEntry \/ QueueDone \/ Fails
  \/ Step

Spec == Init /\ [][Next]_vars

-----------------------------------------------------------------------------
TypeOK ==
  /\ sn.phase \in {"start", "goroutines", "frames", "queue", "done", "failed"}
  /\ sn.next \in 1..Len(Goroutines) + 1
  /\ buf.len \in 0..buf.cap
  /\ buf.full \in BOOLEAN /\ buf.intact \in BOOLEAN /\ buf.wild \in BOOLEAN
  /\ m.on \in BOOLEAN /\ m.ok \in BOOLEAN /\ cut \in BOOLEAN
  /\ m.steps \in 0..MaxSteps
  /\ m.on => m.pc \in 0..ProgLen
  /\ m.exprType \in {"Frame", "Pointer"}
  /\ m.crash \in {"none", "fault", "panic"}
  /\ \A i \in 1..Len(queue.q) : <<queue.q[i].addr, queue.q[i].type>> \in queue.seen

\* The type of an entry, marked or not.
Unmarked(t) == IF t < 0 THEN t - (-2147483647 - 1) ELSE t

\* What the reader of a snapshot finds between two offsets when it goes from entry to
\* entry by their lengths; NoOffset marks a place where it ends up elsewhere.
NoOffset == -1
EntryEnd(o) == o + QueueEntrySize + Pad8(Get(buf, o + 4))

EntriesIn(from, to) ==
  LET rest[o \in from..to] ==
        IF o = to THEN {}
        ELSE IF o + QueueEntrySize > to \/ Get(buf, o + 4) < 0 \/ EntryEnd(o) > to THEN {NoOffset}
        ELSE {o} \cup rest[EntryEnd(o)]
  IN rest[from]

\* A frame: its length, then its entry and those it wrote on the way.
FramesIn(from, to) ==
  LET end(o) == o + FrameHeaderSize + Get(buf, o)
      rest[o \in from..to] ==
        IF o = to THEN {}
        ELSE IF Get(buf, o) <= 0 \/ end(o) > to THEN {NoOffset}
        ELSE EntriesIn(o + FrameHeaderSize, end(o)) \cup rest[end(o)]
  IN rest[from]

\* A goroutine: its header, its stack, its frames.
GoroutinesIn(from, to) ==
  LET data(o) == o + GoroutineHeaderSize
      end(o) == data(o) + Get(buf, o + 36)
      rest[o \in from..to] ==
        IF o = to THEN {}
        ELSE IF data(o) > to \/ end(o) > to \/ Get(buf, o + 32) > Get(buf, o + 36) THEN {NoOffset}
        ELSE FramesIn(data(o) + Get(buf, o + 32), end(o)) \cup rest[end(o)]
  IN rest[from]

GoroutinesEnd == SnapshotHeaderSize + Get(buf, GoroutinesByteLen)
Entries ==
  IF GoroutinesEnd > buf.len \/ GoroutinesEnd < SnapshotHeaderSize THEN {NoOffset}
  ELSE GoroutinesIn(SnapshotHeaderSize, GoroutinesEnd) \cup EntriesIn(GoroutinesEnd, buf.len)

\* A snapshot is done and has neither of the two kinds of records that are left
\* unfinished: an entry written without room, a program stopped in the middle.
Done == sn.phase = "done" /\ buf.intact /\ ~cut

\* Every length in a snapshot leads to the next record, up to DataByteLen, also when
\* the buffer is full in the middle of a goroutine, when memory cannot be read or an
\* expression gives up; and no entry is an operand of an expression, which has no type.
Parsable ==
  Done =>
    /\ Get(buf, DataByteLen) = buf.len
    /\ NoOffset \notin Entries
    /\ \A o \in Entries : Unmarked(Get(buf, o)) # 0

\* The types of which an object that is queued gets an entry.
ContextTypes ==
  {program.Prog[pc].arg.TypeID :
     pc \in {p \in 0..ProgLen : program.Prog[p].name = "PrepareGoContext"}}

Recordable(t) ==
  \/ t \in ContextTypes
  \/ /\ t \in DOMAIN program.TypeInfo
     /\ program.TypeInfo[t].ByteLen > 0
     /\ \/ program.TypeInfo[t].SerializeBeforeEnqueue
        \/ program.Prog[program.TypeInfo[t].EnqueuePc].name = "PreparePointeeData"

\* Every object that was queued is in the snapshot, whatever the program that queued
\* it wrote, gave back or failed to read afterwards: as an entry of its address and
\* type, marked when it could not be read.
ObjectsPresent ==
  sn.phase = "done" /\ ~buf.full /\ ~cut =>
    \A k \in queue.seen : Recordable(k[2]) =>
      \E o \in Entries : Get(buf, o + 8) = k[1] /\ Unmarked(Get(buf, o)) = k[2]

\* A run touches its own part of the buffer only: no goroutine, frame or object
\* that was written before changes.
EarlierIntact ==
  [][m.on /\ buf'.intact /\ ~cut =>
       \A o \in {i \in DOMAIN buf.at \cup DOMAIN buf'.at : i < m.base} :
         Get(buf', o) = Get(buf, o)]_buf

\* The offsets of the goroutine headers.
Headers ==
  LET rest[o \in SnapshotHeaderSize..GoroutinesEnd] ==
        IF o = GoroutinesEnd THEN {} ELSE {o} \cup rest[o + GoroutineHeaderSize + Get(buf, o + 36)]
  IN rest[SnapshotHeaderSize]

\* A goroutine refers to its stack by hash only: the stack itself is in the buffer,
\* written by this goroutine or by one before it, although a goroutine that did not fit
\* is removed together with a stack it was the first to write, whose hash is remembered.
StacksPresent ==
  Done =>
    \A h \in Headers :
      \E s \in Headers : s <= h /\ Get(buf, s + 8) = Get(buf, h + 8) /\ Get(buf, s + 32) > 0

\* No object is in the buffer twice, whichever way and however often it is reached
\* (from a static variable, a frame, another object, a Go context); only a closure of
\* an unknown subroutine is written each time.
NoDuplicates ==
  Done =>
    \A o, p \in Entries :
      /\ Get(buf, o + 8) = Get(buf, p + 8) /\ Unmarked(Get(buf, o)) = Unmarked(Get(buf, p))
      /\ Get(buf, o + 8) # 0 /\ Unmarked(Get(buf, o)) # program.SubroutineClassifier.Unresolved
      => o = p

\* A snapshot that ran out of room stays as it was then, but for the program that runs:
\* small records that would fit later are not added after the goroutine or the queue
\* entry that filled it.
Kept == SnapshotHeaderSize..(IF sn.phase = "frames" THEN sn.before ELSE buf.len) - 1

FullIsFinal ==
  [][buf.full => /\ buf'.full
                 /\ ~m.on => /\ buf'.len <= buf.len
                             /\ \A o \in Kept : Get(buf', o) = Get(buf, o)]_<<buf, sn>>

\* "If either the outBuf is full or the dereference fails, the buffer is unmodified": until
\* the end there is nothing in the snapshot's header but the counts it is for.
HeaderIntact ==
  sn.phase \in {"goroutines", "frames", "queue"} =>
    \A o \in DOMAIN buf.at :
      o < SnapshotHeaderSize => o \in {GoroutinesByteLen, NumGoroutines, NonLiveGoroutines}

ReturnPoints ==
  {program.Prog[pc].next : pc \in {p \in 0..ProgLen - 1 : program.Prog[p].name = "Call"}}

\* The value stack is that of one run: it is empty when no program runs, and a return
\* goes to the instruction after a call, unless a program was stopped in the middle by the
\* step limit (then the next one returns into whatever that one had counted).  One that was
\* stopped for want of room leaves its values as well, but is the last to run.
RunsIsolated ==
  ~cut =>
    /\ Idle /\ ~buf.full /\ sn.phase # "failed" => m.stack = <<>>
    /\ m.on /\ I.name = "Return" /\ m.stack # <<>> => Top \in ReturnPoints

(***************************************************************************)
(* What a compiler of programs must see to for this: p is balanced when an *)
(* instruction finds a number of values on the stack that depends on its   *)
(* place only, `depth' of them, above the return address of the subroutine *)
(* when its place is one of the `called'.  The instructions that end a run *)
(* in its middle are outside of subroutines.  A place that no run reaches  *)
(* has no depth.                                                           *)
(***************************************************************************)
Leaves == {"Invalid", "Return", "Jump", "Illegal", "PastTheEnd"}
PushingOne == {"PushImm", "PushOffset", "PushSliceLen"}

EntryPcs(p) ==
  ({p.TypeInfo[t].EnqueuePc : t \in DOMAIN p.TypeInfo}
     \cup {p.PcClassifier.ProgPc[i] : i \in DOMAIN p.PcClassifier.ProgPc}) \ {0}

Balanced(p, depth, called) ==
  LET Goes(pc, to, n) ==
        to \in DOMAIN depth /\ depth[to] = n /\ (pc \in called => to \in called)
  IN
  /\ DOMAIN depth \subseteq 0..(Cardinality(DOMAIN p.Prog) - 1) - 1
  /\ \A pc \in EntryPcs(p) : pc \in DOMAIN depth /\ depth[pc] = 0
  /\ \A pc \in DOMAIN depth :
       LET i == p.Prog[pc]
           n == depth[pc]
           stops == \/ i.name \in NeedsTop /\ n = 0
                    \/ i.name = "Invalid"
                    \/ i.name = "EnqueuePointer" /\ i.arg.ElemType = 0
       IN
       /\ n \in Nat
       /\ stops => n = 0 /\ pc \notin called
       /\ i.name \in {"Return", "DereferencePtr"} => n = 0
       /\ i.name \in {"Jump", "CondJump"} => Goes(pc, i.arg.Pc, n)
       /\ i.name = "Call" => /\ i.arg.Pc \in called \cap DOMAIN depth
                             /\ depth[i.arg.Pc] = 0
       /\ ~stops /\ i.name \notin Leaves =>
            Goes(pc, i.next,
                 IF i.name \in PushingOne THEN n + 1 ELSE IF i.name = "Pop" THEN n - 1 ELSE n)

\* And for what is given back to be the operands of an expression: p is prepared when the
\* instructions that cut the buffer off where the operands began, and every way to them, are
\* at `places' behind a PrepareExprEval of the same subroutine.  A call leaves the places.
Prepared(p, depth, places) ==
  /\ EntryPcs(p) \cap places = {}
  /\ \A pc \in DOMAIN depth :
       LET i == p.Prog[pc] IN
       /\ i.name \in {"SaveExprResult", "DereferencePtr"} => pc \in places
       /\ i.name = "Call" => i.arg.Pc \notin places /\ i.next \notin places
       /\ pc \notin places =>
            /\ i.name \notin Leaves \cup {"PrepareExprEval"} => i.next \notin places
            /\ i.name \in {"Jump", "CondJump"} => i.arg.Pc \notin places

\* "Note that it is assumed that the offset is valid": nothing is written outside the
\* buffer, except by PrepareExprEval in its last eight bytes and for an entry
\* without room.
WritesInBuffer ==
  [][buf'.wild /\ ~buf.wild /\ buf'.intact /\ ~cut =>
       I.name = "PrepareExprEval" /\ buf.len + 8 > buf.cap]_buf
=============================================================================
