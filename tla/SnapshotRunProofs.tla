-------------------------- MODULE SnapshotRunProofs --------------------------
(***************************************************************************)
(* Proofs about SnapshotRun.                                               *)
(***************************************************************************)
EXTENDS SnapshotRun, SequenceTheorems, WellFoundedInduction, TLAPS

-----------------------------------------------------------------------------
(***************************************************************************)
(* The buffer: room that was refused once is refused for good.             *)
(***************************************************************************)
IsBuf(b) == DOMAIN b = {"cap", "len", "full", "at", "intact", "wild"} /\ b.full \in BOOLEAN

\* c is a buffer that b may become.
Becomes(b, c) == IsBuf(c) /\ (b.full => c.full)

LEMMA BufOps ==
  ASSUME NEW b, IsBuf(b)
  PROVE  /\ Becomes(b, b)
         /\ \A o, n, f : Becomes(b, Overwrite(b, o, n, f))
         /\ \A o, w, v : Becomes(b, Put(b, o, w, v))
         /\ \A o, n : Becomes(b, Zero(b, o, n))
         /\ \A s, d, n : Becomes(b, Copy(b, s, d, n))
         /\ \A n : Becomes(b, EnsureLen(b, n)) /\ (~HasRoom(b, n) => EnsureLen(b, n).full)
         /\ \A n : Becomes(b, Truncate(b, n))
<1>1. \A o, n, f : Becomes(b, Overwrite(b, o, n, f))
  BY DEF IsBuf, Becomes, Overwrite
<1>2. \A o, w, v : Becomes(b, Put(b, o, w, v))
  BY <1>1 DEF Put
<1>3. \A o, n : Becomes(b, Zero(b, o, n))
  BY <1>1 DEF Zero, Becomes
<1>4. \A s, d, n : Becomes(b, Copy(b, s, d, n))
  BY <1>1 DEF Copy, Becomes
<1>5. \A n : Becomes(b, EnsureLen(b, n)) /\ (~HasRoom(b, n) => EnsureLen(b, n).full)
  BY DEF IsBuf, Becomes, EnsureLen, HasRoom
<1>6. \A n : Becomes(b, Truncate(b, n))
  BY DEF IsBuf, Becomes, Truncate
<1> QED
  BY <1>1, <1>2, <1>3, <1>4, <1>5, <1>6 DEF Becomes

LEMMA BecomesTransitive ==
  ASSUME NEW b, NEW c, NEW d, Becomes(b, c), Becomes(c, d)
  PROVE  Becomes(b, d)
BY DEF Becomes

LEMMA Dereferenced ==
  ASSUME NEW b, IsBuf(b), NEW p, NEW o, NEW a, NEW n
  PROVE  Becomes(b, Dereference(p, b, o, a, n).b)
<1>1. /\ Becomes(b, b) /\ Becomes(b, Overwrite(b, o, n, Moved(p.at, a, o, n)))
      /\ Becomes(b, Zero(b, o, n))
  BY BufOps
<1> QED
  BY <1>1 DEF Dereference

LEMMA EntryPut ==
  ASSUME NEW b, IsBuf(b), NEW o, NEW e
  PROVE  Becomes(b, PutEntry(b, o, e))
<1> DEFINE c == Put(b, o, 4, e.type)
           d == Put(c, o + 4, 4, e.len)
<1>1. Becomes(b, c)
  BY BufOps
<1>2. Becomes(c, d)
  BY <1>1, BufOps DEF Becomes
<1>3. Becomes(d, Put(d, o + 8, 8, e.addr))
  BY <1>2, BufOps DEF Becomes
<1> QED
  BY <1>1, <1>2, <1>3, BecomesTransitive DEF PutEntry

LEMMA EntryReserved ==
  ASSUME NEW b, IsBuf(b), NEW e
  PROVE  LET r == reserveQueueEntry(b, e) IN Becomes(b, r.b) /\ (~r.ok => r.b.full)
<1> DEFINE n == b.len + Pad8(e.len) + QueueEntrySize
           c == EnsureLen(b, n)
<1>1. Becomes(b, c) /\ (~HasRoom(b, n) => c.full)
  BY BufOps
<1>2. Becomes(c, PutEntry(c, b.len, e))
  BY <1>1, EntryPut DEF Becomes
<1>3. Becomes(b, PutEntry(c, b.len, e))
  BY <1>1, <1>2, BecomesTransitive
<1> HIDE DEF n, c
<1> QED
  BY <1>1, <1>3 DEF reserveQueueEntry, n, c

LEMMA EntryWritten ==
  ASSUME NEW b, IsBuf(b), NEW p, NEW e
  PROVE  Becomes(b, writeQueueEntry(p, b, e).b)
<1> DEFINE r == reserveQueueEntry(b, e)
           c == [r.b EXCEPT !.intact = @ /\ r.ok]
           d == Dereference(p, c, r.offset, e.addr, e.len)
           header == r.offset - QueueEntrySize
           marked == Put(d.b, header, 4, Marked(Get(d.b, header)))
<1>1. Becomes(b, r.b)
  BY EntryReserved
<1> HIDE DEF r
<1>2. Becomes(b, c)
  BY <1>1 DEF Becomes, IsBuf
<1> HIDE DEF c
<1>3. Becomes(c, d.b)
  BY <1>2, Dereferenced DEF Becomes
<1> HIDE DEF d
<1>4. Becomes(d.b, marked)
  BY <1>3, BufOps DEF Becomes
<1>5. writeQueueEntry(p, b, e).b = IF d.ok THEN d.b ELSE marked
  BY DEF writeQueueEntry, Filled, r, c, d
<1> HIDE DEF marked
<1> QED
  BY <1>2, <1>3, <1>4, <1>5, BecomesTransitive

LEMMA FramePrepared ==
  ASSUME NEW b, IsBuf(b), NEW t, NEW p, NEW n, NEW d
  PROVE  LET f == PrepareFrameData(b, t, p, n, d) IN Becomes(b, f.b) /\ (~f.ok => f.b.full)
<1> DEFINE entry == b.len + FrameHeaderSize
           data == entry + QueueEntrySize
           b1 == [b EXCEPT !.len = @ + FrameSize(n)]
           b2 == Put(b1, b.len, 4, entry)
           b3 == Put(b2, b.len + 4, 4, 0)
           b4 == PutEntry(b3, entry, Entry(t, n + 8, 0))
           b5 == Put(b4, data + n, 4, p)
           b6 == Put(b5, data + n + 4, 4, d)
           no == [b EXCEPT !.full = TRUE]
<1>1. Becomes(b, b1) /\ Becomes(b, no) /\ no.full
  BY DEF Becomes, IsBuf
<1> HIDE DEF b1
<1>2. Becomes(b1, b2)
  BY <1>1, BufOps DEF Becomes
<1> HIDE DEF b2
<1>3. Becomes(b2, b3)
  BY <1>2, BufOps DEF Becomes
<1> HIDE DEF b3
<1>4. Becomes(b3, b4)
  BY <1>3, EntryPut DEF Becomes
<1> HIDE DEF b4
<1>5. Becomes(b4, b5)
  BY <1>4, BufOps DEF Becomes
<1> HIDE DEF b5
<1>6. Becomes(b5, b6)
  BY <1>5, BufOps DEF Becomes
<1> HIDE DEF b6
<1>7. Becomes(b, b6)
  BY <1>1, <1>2, <1>3, <1>4, <1>5, <1>6 DEF Becomes
<1>8. LET f == PrepareFrameData(b, t, p, n, d) IN
      \/ f.b = no
      \/ f.b = b6 /\ f.ok = TRUE
  BY DEF PrepareFrameData, b1, b2, b3, b4, b5, b6
<1> QED
  BY <1>1, <1>7, <1>8

LEMMA StackWritten ==
  ASSUME NEW b, IsBuf(b), NEW pcs
  PROVE  Becomes(b, writeStack(b, pcs))
<1> DEFINE n == b.len + 8 * Len(pcs)
           c == EnsureLen(b, n)
           f == [o \in {b.len + 8 * (i - 1) : i \in 1..Len(pcs)} |-> pcs[(o - b.len) \div 8 + 1]]
           d == Overwrite(c, b.len, 8 * Len(pcs), f)
<1>1. Becomes(b, c)
  BY BufOps
<1> HIDE DEF c, n
<1>2. Becomes(c, d)
  BY <1>1, BufOps DEF Becomes
<1>3. writeStack(b, pcs) = IF c.full THEN c ELSE d
  BY DEF writeStack, c, n
<1> HIDE DEF d
<1> QED
  BY <1>1, <1>2, <1>3, BecomesTransitive

-----------------------------------------------------------------------------
(***************************************************************************)
(* The value stack, of any values.                                         *)
(***************************************************************************)
IsStack(s) == \E S : s \in Seq(S)

LEMMA StackPushed ==
  ASSUME NEW s, IsStack(s), NEW v
  PROVE  /\ IsStack(Append(s, v)) /\ Len(Append(s, v)) = Len(s) + 1 /\ Len(s) \in Nat
         /\ \A i \in 1..Len(s) : Append(s, v)[i] = s[i]
         /\ Append(s, v)[Len(s) + 1] = v
<1>1. PICK S : s \in Seq(S)
  BY DEF IsStack
<1> DEFINE T == S \cup {v}
<1>2. s \in Seq(T) /\ v \in T
  BY <1>1
<1> HIDE DEF T
<1>3. Append(s, v) \in Seq(T)
  BY <1>2
<1> QED
  BY <1>2, <1>3 DEF IsStack

LEMMA StackCut ==
  ASSUME NEW s, IsStack(s), s # <<>>
  PROVE  LET t == SubSeq(s, 1, Len(s) - 1) IN
         /\ IsStack(t) /\ Len(s) \in Nat \ {0} /\ Len(t) = Len(s) - 1
         /\ \A i \in 1..Len(s) - 1 : t[i] = s[i]
<1>1. PICK S : s \in Seq(S)
  BY DEF IsStack
<1> DEFINE t == SubSeq(s, 1, Len(s) - 1)
<1>2. Len(s) \in Nat \ {0}
  BY <1>1
<1>3. t \in Seq(S) /\ Len(t) = Len(s) - 1 /\ \A i \in 1..Len(s) - 1 : t[i] = s[i]
  BY <1>1, <1>2
<1> QED
  BY <1>2, <1>3 DEF IsStack

-----------------------------------------------------------------------------
(***************************************************************************)
(* The machine: what the instructions do to its place and to its stack.    *)
(***************************************************************************)
MachineFields ==
  {"on", "ok", "pc", "steps", "stack", "depth", "offset", "cfa", "frame", "results",
   "resultsEnd", "exprType", "rootAddr", "chased", "base", "walk", "crash"}

IsMachine(x) ==
  /\ DOMAIN x = MachineFields /\ x.on \in BOOLEAN /\ IsStack(x.stack)
  /\ x.on => x.crash = "none"

\* x differs from the machine in the registers only.
Like(x) ==
  IsMachine(x) /\ x.on = m.on /\ x.stack = m.stack /\ x.walk = m.walk /\ x.pc = m.pc

\* What every instruction keeps: the buffer that was full is so afterwards, ...
Keeps == IsMachine(m') /\ Becomes(buf, buf') /\ program' = program /\ sn' = sn

\* ... an instruction with a successor goes there, ...
GoesOn == Keeps /\ cut' = cut /\ m'.on /\ m'.walk = <<>> /\ m'.pc = I.next /\ m'.stack = m.stack

\* ... and a run that ends leaves the stack as it is.
EndsRun == Keeps /\ cut' = cut /\ ~m'.on /\ m'.walk = m.walk /\ m'.stack = m.stack

\* Then, with the registers and the stack of x.
LEMMA ThenGoes ==
  ASSUME NEW x, NEW b, NEW qu, IsMachine(x), Becomes(buf, b), Then(x, b, qu)
  PROVE  /\ Keeps /\ cut' = cut /\ m'.on = x.on /\ m'.walk = x.walk
         /\ m'.pc = I.next /\ m'.stack = x.stack
<1>1. m' = [x EXCEPT !.pc = I.next, !.steps = x.steps + 1] /\ buf' = b /\ cut' = cut /\ sn' = sn
  BY DEF Then
<1>2. program' = program
  BY DEF Then, Fixed
<1>3. IsMachine(m')
  BY <1>1 DEF IsMachine, MachineFields
<1> QED
  BY <1>1, <1>2, <1>3 DEF IsMachine, MachineFields, Keeps

LEMMA ThenGoesOn ==
  ASSUME NEW x, NEW b, NEW qu, Like(x), Becomes(buf, b), Then(x, b, qu), m.on, m.walk = <<>>
  PROVE  GoesOn
BY ThenGoes DEF Like, GoesOn

LEMMA StopsEnds ==
  ASSUME IsMachine(m), NEW ok, NEW b, Becomes(buf, b), Stops(ok, b)
  PROVE  EndsRun /\ buf' = b /\ m'.ok = ok
<1>1. m' = [m EXCEPT !.on = FALSE, !.ok = ok] /\ buf' = b /\ cut' = cut /\ sn' = sn
  BY DEF Stops
<1>2. program' = program
  BY DEF Stops, Fixed
<1>3. IsMachine(m')
  BY <1>1 DEF IsMachine, MachineFields
<1> QED
  BY <1>1, <1>2, <1>3 DEF IsMachine, MachineFields, EndsRun, Keeps

LEMMA JumpsGoes ==
  ASSUME IsMachine(m), NEW x, NEW b, NEW pc, IsMachine(x), Becomes(buf, b), Jumps(x, pc, b)
  PROVE  \/ EndsRun /\ pc \notin 0..ProgLen - 1
         \/ /\ Keeps /\ cut' = cut /\ m'.on = x.on /\ m'.walk = x.walk
            /\ m'.pc = pc /\ m'.stack = x.stack
<1>1. CASE pc \notin 0..ProgLen - 1
  <2>1. Stops(FALSE, b)
    BY <1>1 DEF Jumps
  <2> QED
    BY <1>1, <2>1, StopsEnds
<1>2. CASE pc \in 0..ProgLen - 1
  <2>1. m' = [x EXCEPT !.pc = pc, !.steps = x.steps + 1] /\ buf' = b /\ cut' = cut /\ sn' = sn
    BY <1>2 DEF Jumps
  <2>2. program' = program
    BY <1>2 DEF Jumps, Fixed
  <2>3. IsMachine(m')
    BY <2>1 DEF IsMachine, MachineFields
  <2> QED
    BY <2>1, <2>2, <2>3 DEF IsMachine, MachineFields, Keeps
<1> QED
  BY <1>1, <1>2

LEMMA Registers ==
  ASSUME IsMachine(m)
  PROVE  /\ Like(m)
         /\ \A v : Like([m EXCEPT !.offset = v])
         /\ \A v, w : Like([m EXCEPT !.resultsEnd = v, !.offset = w])
         /\ \A u, v, w, z : Like([m EXCEPT !.frame = u, !.exprType = v, !.results = w,
                                          !.offset = z])
         /\ \A u, v, w, z : Like([m EXCEPT !.exprType = u, !.results = v, !.rootAddr = w,
                                          !.offset = z])
BY DEF Like, IsMachine, MachineFields

\* The instructions that only write, queue, or set a register.
PlainNames ==
  {"Nothing", "SetOffset", "AdvanceOffset", "EnqueuePointer", "EnqueueEmptyInterface",
   "EnqueueInterface", "EnqueueSliceHeader", "EnqueueStringHeader", "EnqueueSwissMap",
   "EnqueueSwissMapGroups", "EnqueueSubroutine", "PrepareFrameData", "ConcludeFrameData",
   "PreparePointeeData", "PrepareExprEval", "DereferenceCFAOffset", "CopyFromRegister",
   "DereferencePtr", "SaveExprResult", "ZeroFill", "SetPresenceBit", "PrepareGoContext"}

Queueing ==
  \/ EnqueueEmptyInterface \/ EnqueueInterface \/ EnqueueSliceHeader \/ EnqueueStringHeader
  \/ EnqueueSwissMap \/ EnqueueSwissMapGroups \/ EnqueueSubroutine

LEMMA QueueingGoes ==
  ASSUME IsMachine(m), IsBuf(buf), Queueing
  PROVE  GoesOn /\ I.name \in PlainNames
<1> USE DEF PlainNames, At, Pushes, Sets, Writes
<1>0. Like(m) /\ Becomes(buf, buf)
  BY Registers, BufOps
<1>1. CASE EnqueueEmptyInterface
  <2> DEFINE goType == GoRuntimeType(Word(0))
             b == Put(buf, m.offset, 8, goType)
  <2>1. Becomes(buf, b)
    BY BufOps
  <2> HIDE DEF b
  <2>2. m.on /\ m.walk = <<>> /\ I.name = "EnqueueEmptyInterface"
    BY <1>1 DEF EnqueueEmptyInterface
  <2>3. \/ Then(m, buf, queue) \/ Then(m, b, queue)
        \/ Then(m, b, Push(queue, Word(8), TypeId(goType), 0))
    BY <1>1 DEF EnqueueEmptyInterface, b
  <2> QED
    BY <1>0, <2>1, <2>2, <2>3, ThenGoesOn
<1>2. CASE EnqueueInterface
  <2> DEFINE d == Dereference(mem, buf, m.offset, Word(0) + 8, 8)
             goType == GoRuntimeType(Get(d.b, m.offset))
             b == Put(d.b, m.offset, 8, goType)
  <2>1. Becomes(buf, d.b)
    BY Dereferenced
  <2> HIDE DEF d
  <2>2. Becomes(d.b, b)
    BY <2>1, BufOps DEF Becomes
  <2> HIDE DEF b
  <2>3. Becomes(buf, b)
    BY <2>1, <2>2, BecomesTransitive
  <2>4. m.on /\ m.walk = <<>> /\ I.name = "EnqueueInterface"
    BY <1>2 DEF EnqueueInterface
  <2>5. \/ Then(m, buf, queue) \/ Then(m, d.b, queue) \/ Then(m, b, queue)
        \/ Then(m, b, Push(queue, Word(8), TypeId(goType), 0))
    BY <1>2 DEF EnqueueInterface, d, b
  <2> QED
    BY <1>0, <2>1, <2>3, <2>4, <2>5, ThenGoesOn
<1>3. CASE EnqueueSliceHeader
  <2>1. m.on /\ m.walk = <<>> /\ I.name = "EnqueueSliceHeader"
    BY <1>3 DEF EnqueueSliceHeader
  <2>2. \/ Then(m, buf, queue)
        \/ Then(m, buf, Push(queue, Word(0), arg.ArrayType, Word(8) * arg.ElemByteLen))
    BY <1>3 DEF EnqueueSliceHeader
  <2> QED
    BY <1>0, <2>1, <2>2, ThenGoesOn
<1>4. CASE EnqueueStringHeader
  <2>1. m.on /\ m.walk = <<>> /\ I.name = "EnqueueStringHeader"
    BY <1>4 DEF EnqueueStringHeader
  <2>2. \/ Then(m, buf, queue)
        \/ Then(m, buf, Push(queue, Word(0), arg.StringDataType, Word(8)))
    BY <1>4 DEF EnqueueStringHeader
  <2> QED
    BY <1>0, <2>1, <2>2, ThenGoesOn
<1>5. CASE EnqueueSwissMap
  <2>1. m.on /\ m.walk = <<>> /\ I.name = "EnqueueSwissMap"
    BY <1>5 DEF EnqueueSwissMap
  <2>2. \/ Then(m, buf, Push(queue, Word(arg.DirPtrOffset), arg.TablePtrSliceType,
                            8 * Word(arg.DirLenOffset)))
        \/ Then(m, buf, Push(queue, Word(arg.DirPtrOffset), arg.GroupType, 0))
    BY <1>5 DEF EnqueueSwissMap
  <2> QED
    BY <1>0, <2>1, <2>2, ThenGoesOn
<1>6. CASE EnqueueSwissMapGroups
  <2>1. m.on /\ m.walk = <<>> /\ I.name = "EnqueueSwissMapGroups"
    BY <1>6 DEF EnqueueSwissMapGroups
  <2>2. Then(m, buf, Push(queue, Word(arg.DataOffset), arg.GroupSliceType,
                          arg.GroupByteLen * (Word(arg.LengthMaskOffset) + 1)))
    BY <1>6 DEF EnqueueSwissMapGroups
  <2> QED
    BY <1>0, <2>1, <2>2, ThenGoesOn
<1>7. CASE EnqueueSubroutine
  <2> DEFINE w == writeQueueEntry(mem, buf,
                                  Entry(program.SubroutineClassifier.Unresolved, 8, Word(0)))
             entryPc == Get(w.b, w.offset) - BssShift
             b == Put(w.b, w.offset, 8, entryPc)
             back == Truncate(b, buf.len)
  <2>1. Becomes(buf, w.b)
    BY EntryWritten
  <2> HIDE DEF w
  <2>2. Becomes(w.b, b)
    BY <2>1, BufOps DEF Becomes
  <2> HIDE DEF b
  <2>3. Becomes(b, back)
    BY <2>2, BufOps DEF Becomes
  <2> HIDE DEF back
  <2>4. Becomes(buf, b) /\ Becomes(buf, back)
    BY <2>1, <2>2, <2>3, BecomesTransitive
  <2>5. m.on /\ m.walk = <<>> /\ I.name = "EnqueueSubroutine"
    BY <1>7 DEF EnqueueSubroutine
  <2>6. \/ Then(m, w.b, queue) \/ Then(m, b, queue)
        \/ Then(m, back, Push(queue, Word(0), program.SubroutineClassifier.Types[entryPc], 0))
    BY <1>7 DEF EnqueueSubroutine, w, b, back
  <2> QED
    BY <1>0, <2>1, <2>4, <2>5, <2>6, ThenGoesOn
<1> QED
  BY <1>1, <1>2, <1>3, <1>4, <1>5, <1>6, <1>7 DEF Queueing

Setting ==
  \/ Nothing \/ SetOffset \/ AdvanceOffset \/ ConcludeFrame \/ PrepareExprEval
  \/ SaveExprResult \/ ZeroFill \/ SetPresenceBit

LEMMA SettingGoes ==
  ASSUME IsMachine(m), IsBuf(buf), Setting
  PROVE  /\ GoesOn /\ I.name \in PlainNames
         /\ I.name \in NeedsTop => m.stack # <<>>
<1> USE DEF PlainNames, NeedsTop, At, Sets, Writes
<1>0. Like(m) /\ Becomes(buf, buf)
  BY Registers, BufOps
<1>1. CASE Nothing
  <2>1. m.on /\ m.walk = <<>> /\ I.name = "Nothing" /\ Then(m, buf, queue)
    BY <1>1 DEF Nothing
  <2> QED
    BY <1>0, <2>1, ThenGoesOn
<1>2. CASE SetOffset
  <2>1. /\ m.on /\ m.walk = <<>> /\ I.name = "SetOffset" /\ m.stack # <<>>
        /\ Then([m EXCEPT !.offset = Top], buf, queue)
    BY <1>2 DEF SetOffset
  <2> QED
    BY <1>0, <2>1, ThenGoesOn, Registers
<1>3. CASE AdvanceOffset
  <2>1. /\ m.on /\ m.walk = <<>> /\ I.name = "AdvanceOffset"
        /\ Then([m EXCEPT !.offset = m.offset + arg.Increment], buf, queue)
    BY <1>3 DEF AdvanceOffset
  <2> QED
    BY <1>0, <2>1, ThenGoesOn, Registers
<1>4. CASE ConcludeFrame
  <2>1. /\ m.on /\ m.walk = <<>> /\ I.name = "ConcludeFrameData"
        /\ Then(m, ConcludeFrameData(buf, m.frame), queue)
    BY <1>4 DEF ConcludeFrame
  <2>2. Becomes(buf, ConcludeFrameData(buf, m.frame))
    BY BufOps DEF ConcludeFrameData
  <2> QED
    BY <1>0, <2>1, <2>2, ThenGoesOn
<1>5. CASE PrepareExprEval
  <2> DEFINE b == IF m.exprType = "Pointer" THEN Put(buf, buf.len, 8, m.rootAddr) ELSE buf
  <2>1. Becomes(buf, b)
    BY <1>0, BufOps
  <2> HIDE DEF b
  <2>2. /\ m.on /\ m.walk = <<>> /\ I.name = "PrepareExprEval"
        /\ Then([m EXCEPT !.resultsEnd = buf.len, !.offset = buf.len], b, queue)
    BY <1>5 DEF PrepareExprEval, b
  <2> QED
    BY <2>1, <2>2, ThenGoesOn, Registers
<1>6. CASE SaveExprResult
  <2> DEFINE to == m.results + arg.ResultOffset
             c == Copy(buf, m.offset, to, arg.ByteLen)
             b == Truncate(c, m.resultsEnd)
  <2>1. Becomes(buf, c)
    BY BufOps
  <2> HIDE DEF c
  <2>2. Becomes(c, b)
    BY <2>1, BufOps DEF Becomes
  <2> HIDE DEF b
  <2>3. Becomes(buf, b)
    BY <2>1, <2>2, BecomesTransitive
  <2>4. /\ m.on /\ m.walk = <<>> /\ I.name = "SaveExprResult"
        /\ Then([m EXCEPT !.offset = to], b, queue)
    BY <1>6 DEF SaveExprResult, b, c
  <2> QED
    BY <2>3, <2>4, ThenGoesOn, Registers
<1>7. CASE ZeroFill
  <2>1. /\ m.on /\ m.walk = <<>> /\ I.name = "ZeroFill"
        /\ Then(m, Zero(buf, m.offset, arg.ByteLen), queue)
    BY <1>7 DEF ZeroFill
  <2>2. Becomes(buf, Zero(buf, m.offset, arg.ByteLen))
    BY BufOps
  <2> QED
    BY <1>0, <2>1, <2>2, ThenGoesOn
<1>8. CASE SetPresenceBit
  <2> DEFINE o == m.results + arg.BitOffset \div 8
             bit == 2 ^ (arg.BitOffset % 8)
             byte == Get(buf, o)
             c == Put(buf, o, 1, byte + bit)
             b == IF (byte \div bit) % 2 = 1 THEN buf ELSE c
  <2>1. Becomes(buf, c)
    BY BufOps
  <2>2. Then(m, b, queue)
    BY <1>8 DEF SetPresenceBit
  <2> HIDE DEF c
  <2>3. Becomes(buf, b)
    BY <1>0, <2>1
  <2>4. m.on /\ m.walk = <<>> /\ I.name = "SetPresenceBit"
    BY <1>8 DEF SetPresenceBit
  <2> HIDE DEF b
  <2> QED
    BY <1>0, <2>2, <2>3, <2>4, ThenGoesOn
<1> QED
  BY <1>1, <1>2, <1>3, <1>4, <1>5, <1>6, <1>7, <1>8 DEF Setting

Filling == PrepareFrame \/ PreparePointeeData \/ DereferenceCFAOffset \/ CopyFromRegister

\* An instruction that makes room: a run ends there only when there is none.
LEMMA FillingGoes ==
  ASSUME IsMachine(m), IsBuf(buf), Filling
  PROVE  /\ GoesOn \/ (EndsRun /\ m.walk = <<>> /\ buf'.full /\ ~m'.ok)
         /\ I.name \in PlainNames \ NeedsTop
<1> USE DEF PlainNames, NeedsTop, At, Sets, Writes
<1>0. Like(m) /\ Becomes(buf, buf)
  BY Registers, BufOps
<1>1. CASE PrepareFrame
  <2> DEFINE f == PrepareFrameData(buf, arg.TypeID, arg.ProgID, arg.DataByteLen, m.depth)
             x == [m EXCEPT !.frame = buf.len, !.exprType = "Frame", !.results = f.offset,
                            !.offset = f.offset]
  <2>1. Becomes(buf, f.b) /\ (~f.ok => f.b.full)
    BY FramePrepared
  <2>2. Like(x)
    BY Registers
  <2>3. m.on /\ m.walk = <<>> /\ I.name = "PrepareFrameData"
    BY <1>1 DEF PrepareFrame
  <2>4. \/ Then(x, f.b, queue) \/ (~f.ok /\ Stops(FALSE, f.b))
    BY <1>1 DEF PrepareFrame
  <2> HIDE DEF f, x
  <2> QED
    BY <2>1, <2>2, <2>3, <2>4, ThenGoesOn, StopsEnds
<1>2. CASE PreparePointeeData
  <2> DEFINE r == reserveQueueEntry(buf, m.chased)
             b == Zero(r.b, r.offset, m.chased.len)
             x == [m EXCEPT !.exprType = "Pointer", !.results = r.offset,
                            !.rootAddr = m.chased.addr, !.offset = r.offset]
  <2>1. Becomes(buf, r.b) /\ (~r.ok => r.b.full)
    BY EntryReserved
  <2>2. Like(x)
    BY Registers
  <2>3. m.on /\ m.walk = <<>> /\ I.name = "PreparePointeeData"
    BY <1>2 DEF PreparePointeeData
  <2>4. \/ Then(x, b, queue) \/ (~r.ok /\ Stops(FALSE, r.b))
    BY <1>2 DEF PreparePointeeData
  <2> HIDE DEF r, x
  <2>5. Becomes(r.b, b)
    BY <2>1, BufOps DEF Becomes
  <2> HIDE DEF b
  <2>6. Becomes(buf, b)
    BY <2>1, <2>5, BecomesTransitive
  <2> QED
    BY <2>1, <2>2, <2>3, <2>4, <2>6, ThenGoesOn, StopsEnds
<1>3. ASSUME NEW n, NEW b, Becomes(buf, b), Makes(n, b), m.on, m.walk = <<>>
      PROVE  GoesOn \/ (EndsRun /\ m.walk = <<>> /\ buf'.full /\ ~m'.ok)
  <2> DEFINE c == EnsureLen(buf, m.offset + n)
  <2>1. Becomes(buf, c) /\ (~HasRoom(buf, m.offset + n) => c.full)
    BY BufOps
  <2>2. \/ Then(m, b, queue)
        \/ ~HasRoom(buf, m.offset + n) /\ Stops(FALSE, c)
    BY <1>3 DEF Makes
  <2> HIDE DEF c
  <2> QED
    BY <1>0, <1>3, <2>1, <2>2, ThenGoesOn, StopsEnds
<1>4. CASE DereferenceCFAOffset
  <2> DEFINE c == EnsureLen(buf, m.offset + arg.ByteLen)
             a == m.cfa + arg.Offset + arg.PointerBias
             b == Dereference(mem, c, m.offset, a, arg.ByteLen).b
  <2>1. Becomes(buf, c)
    BY BufOps
  <2>2. m.on /\ m.walk = <<>> /\ I.name = "DereferenceCFAOffset" /\ Makes(arg.ByteLen, b)
    BY <1>4 DEF DereferenceCFAOffset
  <2> HIDE DEF c
  <2>3. Becomes(c, b)
    BY <2>1, Dereferenced DEF Becomes
  <2> HIDE DEF b
  <2> QED
    BY <1>3, <2>1, <2>2, <2>3, BecomesTransitive
<1>5. CASE CopyFromRegister
  <2> DEFINE c == EnsureLen(buf, m.offset + arg.ByteSize)
             b == Zero(c, m.offset, arg.ByteSize)
  <2>1. Becomes(buf, c)
    BY BufOps
  <2>2. m.on /\ m.walk = <<>> /\ I.name = "CopyFromRegister" /\ Makes(arg.ByteSize, b)
    BY <1>5 DEF CopyFromRegister
  <2> HIDE DEF c
  <2>3. Becomes(c, b)
    BY <2>1, BufOps DEF Becomes
  <2> HIDE DEF b
  <2> QED
    BY <1>3, <2>1, <2>2, <2>3, BecomesTransitive
<1> QED
  BY <1>1, <1>2, <1>4, <1>5 DEF Filling, PrepareFrame, PreparePointeeData, DereferenceCFAOffset,
     CopyFromRegister

\* The return address that is on the stack, or the end of the run.
ReturnsTo ==
  \/ EndsRun /\ m.walk = <<>> /\ m.stack = <<>>
  \/ EndsRun /\ m.walk = <<>> /\ m.stack # <<>> /\ Top \notin 0..ProgLen - 1
  \/ /\ Keeps /\ cut' = cut /\ m'.on /\ m'.walk = <<>> /\ m.stack # <<>>
     /\ m'.pc = Top /\ m'.stack = Below

LEMMA PoppedIsMachine ==
  ASSUME IsMachine(m), m.stack # <<>>
  PROVE  /\ IsMachine(Popped) /\ Popped.on = m.on /\ Popped.walk = m.walk
         /\ Popped.stack = Below
<1>1. IsStack(Below)
  BY StackCut DEF IsMachine, Below
<1> QED
  BY <1>1 DEF IsMachine, MachineFields, Popped

LEMMA ReturnsGoes ==
  ASSUME IsMachine(m), NEW b, Becomes(buf, b), Returns(b), m.on, m.walk = <<>>
  PROVE  ReturnsTo
<1>1. CASE m.stack = <<>>
  <2>1. Stops(TRUE, b)
    BY <1>1 DEF Returns
  <2> QED
    BY <1>1, <2>1, StopsEnds DEF ReturnsTo
<1>2. CASE m.stack # <<>>
  <2>1. Jumps(Popped, Top, b)
    BY <1>2 DEF Returns
  <2> QED
    BY <1>2, <2>1, JumpsGoes, PoppedIsMachine DEF ReturnsTo
<1> QED
  BY <1>1, <1>2

LEMMA ReturningGoes ==
  ASSUME IsMachine(m), IsBuf(buf), Return \/ DereferencePtr
  PROVE  \/ I.name \in {"Return", "DereferencePtr"} /\ ReturnsTo
         \/ I.name = "DereferencePtr" /\ GoesOn
<1>0. Like(m) /\ Becomes(buf, buf)
  BY Registers, BufOps
<1>1. CASE Return
  BY <1>0, <1>1, ReturnsGoes DEF Return, At
<1>2. CASE DereferencePtr
  <2> DEFINE a == Word(0) + arg.Bias
             none == [b |-> buf, offset |-> 0, ok |-> FALSE]
             w == IF a = 0 THEN none ELSE writeQueueEntry(mem, buf, Entry(0, arg.ByteLen, a))
             back == Truncate(w.b, m.resultsEnd)
  <2>1. Becomes(buf, w.b)
    BY <1>0, EntryWritten
  <2>2. m.on /\ m.walk = <<>> /\ I.name = "DereferencePtr"
    BY <1>2 DEF DereferencePtr, At
  <2>3. Then([m EXCEPT !.offset = w.offset], w.b, queue) \/ Returns(back)
    BY <1>2 DEF DereferencePtr, Writes
  <2> HIDE DEF w
  <2>4. Becomes(w.b, back)
    BY <2>1, BufOps DEF Becomes
  <2> HIDE DEF back
  <2>5. Becomes(buf, back)
    BY <2>1, <2>4, BecomesTransitive
  <2> QED
    BY <2>1, <2>2, <2>3, <2>5, ThenGoesOn, Registers, ReturnsGoes
<1> QED
  BY <1>1, <1>2

LEMMA EnqueuePointerGoes ==
  ASSUME IsMachine(m), IsBuf(buf), EnqueuePointer \/ Invalid
  PROVE  \/ /\ EndsRun /\ m.walk = <<>>
            /\ I.name = "Invalid" \/ (I.name = "EnqueuePointer" /\ arg.ElemType = 0)
         \/ GoesOn /\ I.name = "EnqueuePointer" /\ arg.ElemType # 0
<1>0. Like(m) /\ Becomes(buf, buf)
  BY Registers, BufOps
<1>1. CASE EnqueuePointer
  <2>1. m.on /\ m.walk = <<>> /\ I.name = "EnqueuePointer"
    BY <1>1 DEF EnqueuePointer, At
  <2>2. \/ Stops(FALSE, buf) /\ arg.ElemType = 0
        \/ Then(m, buf, Push(queue, Word(0), arg.ElemType, 0)) /\ arg.ElemType # 0
    BY <1>1 DEF EnqueuePointer, Pushes
  <2> QED
    BY <1>0, <2>1, <2>2, ThenGoesOn, StopsEnds
<1>2. CASE Invalid
  BY <1>0, <1>2, StopsEnds DEF Invalid, At
<1> QED
  BY <1>1, <1>2

LEMMA JumpingGoes ==
  ASSUME IsMachine(m), IsBuf(buf), Jump \/ CondJump
  PROVE  /\ I.name \in {"Jump", "CondJump"}
         /\ I.name = "CondJump" => m.stack # <<>>
         /\ \/ EndsRun /\ m.walk = <<>> /\ arg.Pc \notin 0..ProgLen - 1
            \/ GoesOn /\ I.name = "CondJump"
            \/ /\ Keeps /\ cut' = cut /\ m'.on /\ m'.walk = <<>>
               /\ m'.pc = arg.Pc /\ m'.stack = m.stack
<1>0. Like(m) /\ Becomes(buf, buf)
  BY Registers, BufOps
<1>1. m.on /\ m.walk = <<>> /\ I.name \in {"Jump", "CondJump"}
      /\ (I.name = "CondJump" => m.stack # <<>>)
  BY DEF Jump, CondJump, At
<1>2. Jumps(m, arg.Pc, buf) \/ (Then(m, buf, queue) /\ I.name = "CondJump")
  BY DEF Jump, CondJump, At, Sets
<1> QED
  BY <1>0, <1>1, <1>2, ThenGoesOn, JumpsGoes

LEMMA PushedIsMachine ==
  ASSUME IsMachine(m), NEW v
  PROVE  /\ IsMachine(Pushed(v)) /\ Pushed(v).on = m.on /\ Pushed(v).walk = m.walk
         /\ Pushed(v).stack = Append(m.stack, v)
<1>1. IsStack(Append(m.stack, v))
  BY StackPushed DEF IsMachine
<1> QED
  BY <1>1 DEF IsMachine, MachineFields, Pushed

LEMMA ReplacedIsMachine ==
  ASSUME IsMachine(m), m.stack # <<>>, NEW v
  PROVE  /\ IsMachine(Replaced(v)) /\ Replaced(v).on = m.on /\ Replaced(v).walk = m.walk
         /\ Replaced(v).stack = Append(Below, v)
<1>1. IsStack(Append(Below, v))
  BY StackCut, StackPushed DEF IsMachine, Below
<1> QED
  BY <1>1 DEF IsMachine, MachineFields, Replaced

LEMMA CallGoes ==
  ASSUME IsMachine(m), IsBuf(buf), Call
  PROVE  /\ I.name = "Call"
         /\ \/ EndsRun /\ m.walk = <<>> /\ arg.Pc \notin 0..ProgLen - 1
            \/ /\ Keeps /\ cut' = cut /\ m'.on /\ m'.walk = <<>>
               /\ m'.pc = arg.Pc /\ m'.stack = Append(m.stack, I.next)
<1>1. Becomes(buf, buf)
  BY BufOps
<1>2. m.on /\ m.walk = <<>> /\ I.name = "Call" /\ Jumps(Pushed(I.next), arg.Pc, buf)
  BY DEF Call, At
<1> DEFINE x == Pushed(I.next)
<1>3. IsMachine(x) /\ x.on = m.on /\ x.walk = m.walk /\ x.stack = Append(m.stack, I.next)
  BY PushedIsMachine
<1>4. Jumps(x, arg.Pc, buf)
  BY <1>2
<1> HIDE DEF x
<1> QED
  BY <1>1, <1>2, <1>3, <1>4, JumpsGoes

Pushing == PushImm \/ PushOffset \/ PushSliceLen

\* One value more, ...
LEMMA PushingGoes ==
  ASSUME IsMachine(m), IsBuf(buf), Pushing
  PROVE  /\ I.name \in PushingOne /\ Keeps /\ cut' = cut /\ m'.on /\ m'.walk = <<>>
         /\ m'.pc = I.next /\ \E v : m'.stack = Append(m.stack, v)
<1>1. Becomes(buf, buf)
  BY BufOps
<1>2. m.on /\ m.walk = <<>> /\ I.name \in PushingOne
  BY DEF Pushing, PushImm, PushOffset, PushSliceLen, At, PushingOne
<1>3. PICK v : Then(Pushed(v), buf, queue)
  BY DEF Pushing, PushImm, PushOffset, PushSliceLen, Sets
<1> QED
  BY <1>1, <1>2, <1>3, ThenGoes, PushedIsMachine

\* ... one less, ...
LEMMA PopGoes ==
  ASSUME IsMachine(m), IsBuf(buf), Pop
  PROVE  /\ I.name = "Pop" /\ Keeps /\ cut' = cut /\ m'.on /\ m'.walk = <<>>
         /\ m'.pc = I.next /\ m.stack # <<>> /\ m'.stack = Below
<1>1. Becomes(buf, buf)
  BY BufOps
<1>2. m.on /\ m.walk = <<>> /\ I.name = "Pop" /\ m.stack # <<>> /\ Then(Popped, buf, queue)
  BY DEF Pop, At, Sets
<1> QED
  BY <1>1, <1>2, ThenGoes, PoppedIsMachine

\* ... or another one.
LEMMA ReplacingGoes ==
  ASSUME IsMachine(m), IsBuf(buf), Decrement \/ EnqueueHMapHeader
  PROVE  /\ I.name \in {"Decrement", "EnqueueHMapHeader"} /\ Keeps /\ cut' = cut
         /\ m'.on /\ m'.walk = <<>> /\ m'.pc = I.next /\ m.stack # <<>>
         /\ \E v : m'.stack = Append(Below, v)
<1>1. Becomes(buf, buf)
  BY BufOps
<1>2. CASE Decrement
  <2>1. /\ m.on /\ m.walk = <<>> /\ I.name = "Decrement" /\ m.stack # <<>>
        /\ Then(Replaced(Top - 1), buf, queue)
    BY <1>2 DEF Decrement, At, Sets
  <2> QED
    BY <1>1, <2>1, ThenGoes, ReplacedIsMachine
<1>3. CASE EnqueueHMapHeader
  <2>1. /\ m.on /\ m.walk = <<>> /\ I.name = "EnqueueHMapHeader" /\ m.stack # <<>>
        /\ \E qu : Then(Replaced(0), buf, qu)
    BY <1>3 DEF EnqueueHMapHeader, At
  <2> QED
    BY <1>1, <2>1, ThenGoes, ReplacedIsMachine
<1> QED
  BY <1>2, <1>3

LEMMA CrashingGoes ==
  ASSUME IsMachine(m), IsBuf(buf), cut \in BOOLEAN, Panics \/ Illegal \/ StepLimit
  PROVE  Keeps /\ ~m'.on /\ (m'.crash # "none" \/ cut') /\ cut' \in BOOLEAN /\ (cut => cut')
<1>1. Becomes(buf, buf)
  BY BufOps
<1>2. /\ program' = program /\ sn' = sn /\ buf' = buf
      /\ \/ cut' = cut /\ \E c \in {"panic", "fault"} :
                            m' = [m EXCEPT !.on = FALSE, !.ok = FALSE, !.crash = c]
         \/ cut' = TRUE /\ m' = [m EXCEPT !.on = FALSE, !.ok = FALSE]
  BY DEF Panics, Illegal, StepLimit, Fixed
<1>3. IsMachine(m') /\ ~m'.on /\ (m'.crash # "none" \/ cut')
  BY <1>2 DEF IsMachine, MachineFields
<1> QED
  BY <1>1, <1>2, <1>3 DEF Keeps

-----------------------------------------------------------------------------
\* A step of the walk along a chain of contexts stays at the instruction, or is the last.
WalkGoes ==
  /\ Keeps /\ cut' = cut /\ m.on /\ m'.on /\ m'.stack = m.stack
  /\ m'.pc = m.pc \/ (m'.pc = I.next /\ m'.walk = <<>>)

LEMMA WalkStays ==
  ASSUME IsMachine(m), m.on, NEW x, NEW b, Becomes(buf, b), m' = x, buf' = b,
         DOMAIN x = DOMAIN m, x.on = m.on, x.stack = m.stack, x.pc = m.pc, x.crash = m.crash,
         Fixed, UNCHANGED <<cut, sn>>
  PROVE  WalkGoes
<1>1. IsMachine(x)
  BY DEF IsMachine
<1> QED
  BY <1>1 DEF WalkGoes, Keeps, Fixed

LEMMA WalkedGoes ==
  ASSUME IsMachine(m), IsBuf(buf), m.on, NEW x, NEW b, NEW qu, Becomes(buf, b), Like(x),
         Walked(x, b, qu)
  PROVE  WalkGoes
<1> DEFINE y == [x EXCEPT !.walk = <<>>]
           c == Truncate(b, m.walk[1].end)
<1>1. Then(y, c, qu)
  BY DEF Walked
<1>2. IsMachine(y) /\ y.on = m.on /\ y.walk = <<>> /\ y.stack = m.stack
  BY DEF Like, IsMachine, MachineFields
<1> HIDE DEF y
<1>3. Becomes(b, c)
  BY BufOps DEF Becomes
<1> HIDE DEF c
<1>4. Becomes(buf, c)
  BY <1>3, BecomesTransitive
<1> QED
  BY <1>1, <1>2, <1>4, ThenGoes DEF WalkGoes

LEMMA PrepareGoContextGoes ==
  ASSUME IsMachine(m), IsBuf(buf), PrepareGoContext
  PROVE  I.name = "PrepareGoContext" /\ WalkGoes
<1> DEFINE data == Word(8)
           w == writeQueueEntry(mem, buf, Entry(arg.TypeID, arg.DataByteLen, data))
           qu == Recorded(queue, data, arg.TypeID)
           walk == <<[context |-> w.offset, end |-> w.b.len, at |-> NoContext, type |-> 0,
                      left |-> 0..arg.CaptureCount - 1]>>
           x == [m EXCEPT !.walk = walk]
           b == Zero(w.b, w.offset, arg.DataByteLen)
<1>1. Becomes(buf, buf) /\ Becomes(buf, w.b) /\ Like(m)
  BY BufOps, EntryWritten, Registers
<1>2. m.on /\ m.walk = <<>> /\ I.name = "PrepareGoContext"
  BY DEF PrepareGoContext, At
<1>3. \/ Then(m, buf, queue) \/ Then(m, w.b, qu)
      \/ m' = x /\ buf' = b /\ Fixed /\ UNCHANGED <<cut, sn>>
  BY DEF PrepareGoContext, Sets
<1> HIDE DEF w, qu, walk
<1>4. DOMAIN x = DOMAIN m /\ x.on = m.on /\ x.stack = m.stack /\ x.pc = m.pc /\ x.crash = m.crash
  BY DEF IsMachine, MachineFields
<1> HIDE DEF x
<1>5. Becomes(w.b, b)
  BY <1>1, BufOps DEF Becomes
<1> HIDE DEF b
<1>6. Becomes(buf, b)
  BY <1>1, <1>5, BecomesTransitive
<1>7. GoesOn => WalkGoes
  BY <1>2 DEF GoesOn, WalkGoes
<1> QED
  BY <1>1, <1>2, <1>3, <1>4, <1>6, <1>7, ThenGoesOn, WalkStays

LEMMA FetchContextGoes ==
  ASSUME IsMachine(m), IsBuf(buf), FetchContext
  PROVE  m.walk # <<>> /\ WalkGoes
<1> DEFINE d == Dereference(mem, buf, m.offset, Word(0) + 8, 8)
           t == TypeId(GoRuntimeType(Get(d.b, m.offset)))
           e == writeQueueEntry(mem, d.b, Entry(t, program.TypeInfo[t].ByteLen, Word(8)))
           x == [m EXCEPT !.walk[1].at = e.offset, !.walk[1].type = t]
           y == [m EXCEPT !.offset = 0]
<1>1. Becomes(buf, buf) /\ Becomes(buf, d.b) /\ Like(m) /\ Like(y)
  BY BufOps, Dereferenced, Registers
<1>2. m.on /\ m.walk # <<>>
  BY DEF FetchContext
<1>3. \/ Walked(m, buf, queue) \/ Walked(m, d.b, queue) \/ Walked(y, e.b, queue)
      \/ m' = x /\ buf' = e.b /\ Fixed /\ UNCHANGED <<queue, cut, sn>>
  BY DEF FetchContext
<1> HIDE DEF d, y
<1>4. Becomes(d.b, e.b)
  BY <1>1, EntryWritten DEF Becomes
<1> HIDE DEF e, t
<1>5. DOMAIN x = DOMAIN m /\ x.on = m.on /\ x.stack = m.stack /\ x.pc = m.pc /\ x.crash = m.crash
  BY DEF IsMachine, MachineFields
<1> HIDE DEF x
<1>6. Becomes(buf, e.b)
  BY <1>1, <1>4, BecomesTransitive
<1> QED
  BY <1>1, <1>2, <1>3, <1>5, <1>6, WalkedGoes, WalkStays

LEMMA ValueRecorded ==
  ASSUME NEW s, IsBuf(s.b), NEW found
  PROVE  Becomes(s.b, RecordValue(s, found).b)
<1> DEFINE r == found[1]
           o == m.walk[1].context + r.spec.Offset
           c == Put(s.b, o, 8, r.v.addr)
           d == Put(c, o + 8, 8, r.v.goType)
<1>1. Becomes(s.b, s.b) /\ Becomes(s.b, c)
  BY BufOps
<1>2. RecordValue(s, found).b = s.b \/ RecordValue(s, found).b = d
  BY DEF RecordValue
<1> HIDE DEF c
<1>3. Becomes(c, d)
  BY <1>1, BufOps DEF Becomes
<1> HIDE DEF d
<1> QED
  BY <1>1, <1>2, <1>3, BecomesTransitive

LEMMA RecordContextGoes ==
  ASSUME IsMachine(m), IsBuf(buf), RecordContext
  PROVE  m.walk # <<>> /\ WalkGoes
<1> DEFINE w == m.walk[1]
           impl == program.TypeInfo[w.type].GoContextImpl[1]
           before == [b |-> buf, qu |-> queue, left |-> w.left]
           v == Held(impl.ValueOffset)
           byValue == RecordValue(before, FoundByValue(v))
           s == RecordValue(byValue, FoundByKey(v, Held(impl.KeyOffset)))
           y == [m EXCEPT !.offset = w.at]
           x == [m EXCEPT !.offset = w.at + impl.ContextOffset[1],
                          !.walk[1].at = NoContext, !.walk[1].left = s.left]
<1>1. m.on /\ m.walk # <<>>
  BY DEF RecordContext
<1>2. \/ Walked(y, s.b, s.qu)
      \/ m' = x /\ buf' = s.b /\ Fixed /\ UNCHANGED <<cut, sn>>
  BY DEF RecordContext
<1>3. Like(y)
  BY Registers
<1>4. before.b = buf
  OBVIOUS
<1> HIDE DEF before, v, y
<1>5. Becomes(buf, byValue.b)
  BY <1>4, ValueRecorded
<1> HIDE DEF byValue
<1>6. Becomes(byValue.b, s.b)
  BY <1>5, ValueRecorded DEF Becomes
<1> HIDE DEF s, w, impl
<1>7. Becomes(buf, s.b)
  BY <1>5, <1>6, BecomesTransitive
<1>8. DOMAIN x = DOMAIN m /\ x.on = m.on /\ x.stack = m.stack /\ x.pc = m.pc /\ x.crash = m.crash
  BY DEF IsMachine, MachineFields
<1> HIDE DEF x
<1> QED
  BY <1>1, <1>2, <1>3, <1>7, <1>8, WalkedGoes, WalkStays

-----------------------------------------------------------------------------
(***************************************************************************)
(* The stack of a balanced program.                                        *)
(***************************************************************************)
\* There are n return addresses on the stack, at the places `at'.  The values of the
\* subroutine that goes on at each of them are below it.
FramesAt(depth, called, returns, s, pc, n, at) ==
  /\ at[0] = 0
  /\ \A i, j \in 0..n : i <= j => at[i] <= at[j]
  /\ \A i \in 1..n : /\ s[at[i]] \in returns
                     /\ at[i] = at[i - 1] + depth[s[at[i]]] + 1
                     /\ i > 1 => s[at[i]] \in called
  /\ Len(s) = at[n] + depth[pc]
  /\ n > 0 => pc \in called

Stacked(depth, called, returns, s, pc) ==
  \E n \in Nat : \E at \in [0..n -> Nat] : FramesAt(depth, called, returns, s, pc, n, at)

\* The instruction that goes on has its values on top, whatever became of them.
LEMMA StackedSameFrames ==
  ASSUME NEW depth, NEW called, NEW returns, NEW s, NEW t, NEW pc, NEW to,
         \A p \in DOMAIN depth : depth[p] \in Nat, returns \subseteq DOMAIN depth,
         pc \in DOMAIN depth, to \in DOMAIN depth,
         Stacked(depth, called, returns, s, pc),
         Len(s) \in Nat, Len(t) = (Len(s) - depth[pc]) + depth[to],
         \A i \in 1..Len(s) - depth[pc] : t[i] = s[i],
         pc \in called => to \in called
  PROVE  Stacked(depth, called, returns, t, to)
<1>0. PICK n \in Nat : \E at \in [0..n -> Nat] :
                        FramesAt(depth, called, returns, s, pc, n, at)
  BY DEF Stacked
<1>1. PICK at \in [0..n -> Nat] : FramesAt(depth, called, returns, s, pc, n, at)
  BY <1>0
<1>2. n \in 0..n /\ at[n] \in Nat /\ at[n] = Len(s) - depth[pc]
  BY <1>1 DEF FramesAt
<1>3. ASSUME NEW i \in 1..n
      PROVE  t[at[i]] = s[at[i]]
  <2>1. i \in 0..n /\ i - 1 \in 0..n /\ i <= n
    OBVIOUS
  <2>2. s[at[i]] \in returns /\ at[i] = at[i - 1] + depth[s[at[i]]] + 1
    BY <1>1 DEF FramesAt
  <2>3. depth[s[at[i]]] \in Nat /\ at[i - 1] \in Nat /\ at[i] \in Nat
    BY <2>1, <2>2
  <2>4. at[i] <= at[n]
    BY <1>1, <1>2, <2>1 DEF FramesAt
  <2>5. at[i] \in 1..Len(s) - depth[pc]
    BY <1>2, <2>2, <2>3, <2>4
  <2> QED
    BY <2>5
<1>4. FramesAt(depth, called, returns, t, to, n, at)
  BY <1>1, <1>2, <1>3 DEF FramesAt
<1> QED
  BY <1>4 DEF Stacked

LEMMA StackedCall ==
  ASSUME NEW depth, NEW called, NEW returns, NEW s, NEW pc, NEW to, NEW r,
         \A p \in DOMAIN depth : depth[p] \in Nat, returns \subseteq DOMAIN depth,
         pc \in DOMAIN depth, to \in DOMAIN depth, r \in returns, IsStack(s),
         Stacked(depth, called, returns, s, pc),
         depth[r] = depth[pc], depth[to] = 0, to \in called, pc \in called => r \in called
  PROVE  Stacked(depth, called, returns, Append(s, r), to)
<1>0. PICK n \in Nat : \E at \in [0..n -> Nat] :
                        FramesAt(depth, called, returns, s, pc, n, at)
  BY DEF Stacked
<1>1. PICK at \in [0..n -> Nat] : FramesAt(depth, called, returns, s, pc, n, at)
  BY <1>0
<1> DEFINE l == Len(s)
           t == Append(s, r)
           up == [i \in 0..n + 1 |-> IF i = n + 1 THEN l + 1 ELSE at[i]]
<1>2. /\ l \in Nat /\ Len(t) = l + 1 /\ t[l + 1] = r
      /\ \A i \in 1..l : t[i] = s[i]
  BY StackPushed
<1>3. /\ up \in [0..n + 1 -> Nat] /\ up[n + 1] = l + 1
      /\ \A i \in 0..n : up[i] = at[i] /\ i # n + 1 /\ i \in 0..n + 1
  BY <1>2
<1>4. /\ at[0] = 0 /\ at[n] \in Nat /\ l = at[n] + depth[pc] /\ n \in 0..n /\ 0 \in 0..n
      /\ \A i, j \in 0..n : i <= j => at[i] <= at[j]
      /\ \A i \in 1..n : /\ s[at[i]] \in returns
                         /\ at[i] = at[i - 1] + depth[s[at[i]]] + 1
                         /\ i > 1 => s[at[i]] \in called
      /\ n > 0 => pc \in called
  BY <1>1 DEF FramesAt
<1> HIDE DEF up, t, l
<1>5. ASSUME NEW i \in 1..n
      PROVE  at[i] \in 1..l
  <2>1. i \in 0..n /\ i - 1 \in 0..n /\ i <= n
    OBVIOUS
  <2>2. depth[s[at[i]]] \in Nat /\ at[i - 1] \in Nat /\ at[i] \in Nat
    BY <1>4, <2>1
  <2>3. at[i] = at[i - 1] + depth[s[at[i]]] + 1 /\ at[i] <= at[n]
    BY <1>4, <2>1
  <2>4. depth[pc] \in Nat
    OBVIOUS
  <2> QED
    BY <1>4, <2>2, <2>3, <2>4
<1>6. ASSUME NEW i \in 0..n + 1, NEW j \in 0..n + 1, i <= j
      PROVE  up[i] <= up[j]
  <2>1. CASE j = n + 1 /\ i # n + 1
    <3>1. i \in 0..n /\ up[j] = l + 1 /\ up[i] = at[i] /\ i <= n
      BY <1>3, <2>1
    <3>2. at[i] <= at[n] /\ at[i] \in Nat /\ depth[pc] \in Nat
      BY <1>4, <3>1
    <3> QED
      BY <1>2, <1>4, <3>1, <3>2
  <2>2. CASE j # n + 1
    <3>1. i \in 0..n /\ j \in 0..n
      BY <1>6, <2>2
    <3> QED
      BY <1>3, <1>4, <1>6, <3>1
  <2>3. CASE i = n + 1
    <3>1. j = n + 1
      BY <1>6, <2>3
    <3> QED
      BY <1>2, <1>3, <2>3, <3>1
  <2> QED
    BY <2>1, <2>2, <2>3
<1>7. ASSUME NEW i \in 1..n + 1
      PROVE  /\ t[up[i]] \in returns
             /\ up[i] = up[i - 1] + depth[t[up[i]]] + 1
             /\ i > 1 => t[up[i]] \in called
  <2>1. CASE i = n + 1
    <3>1. i - 1 = n /\ up[i - 1] = at[n] /\ up[i] = l + 1 /\ (i > 1 => n > 0)
      BY <1>3, <1>4, <2>1
    <3> QED
      BY <1>2, <1>4, <3>1
  <2>2. CASE i # n + 1
    <3>1. i \in 1..n /\ i \in 0..n /\ i - 1 \in 0..n
      BY <2>2
    <3>2. up[i] = at[i] /\ up[i - 1] = at[i - 1] /\ t[at[i]] = s[at[i]]
      BY <1>2, <1>3, <1>5, <3>1
    <3> QED
      BY <1>4, <3>1, <3>2
  <2> QED
    BY <2>1, <2>2
<1>8. up[0] = 0 /\ Len(t) = up[n + 1] + depth[to]
  BY <1>2, <1>3, <1>4
<1>9. FramesAt(depth, called, returns, t, to, n + 1, up)
  BY <1>6, <1>7, <1>8 DEF FramesAt
<1>10. n + 1 \in Nat
  OBVIOUS
<1> QED
  BY <1>3, <1>9, <1>10 DEF Stacked, t

LEMMA StackedReturn ==
  ASSUME NEW depth, NEW called, NEW returns, NEW s, NEW pc,
         \A p \in DOMAIN depth : depth[p] \in Nat, returns \subseteq DOMAIN depth,
         pc \in DOMAIN depth, IsStack(s), s # <<>>,
         Stacked(depth, called, returns, s, pc), depth[pc] = 0
  PROVE  /\ s[Len(s)] \in returns
         /\ Stacked(depth, called, returns, SubSeq(s, 1, Len(s) - 1), s[Len(s)])
<1>0. PICK n \in Nat : \E at \in [0..n -> Nat] :
                        FramesAt(depth, called, returns, s, pc, n, at)
  BY DEF Stacked
<1>1. PICK at \in [0..n -> Nat] : FramesAt(depth, called, returns, s, pc, n, at)
  BY <1>0
<1> DEFINE l == Len(s)
           t == SubSeq(s, 1, l - 1)
           down == [i \in 0..n - 1 |-> at[i]]
<1>2. l \in Nat \ {0} /\ Len(t) = l - 1 /\ \A i \in 1..l - 1 : t[i] = s[i]
  BY StackCut
<1>3. /\ at[0] = 0 /\ at[n] \in Nat /\ l = at[n]
      /\ \A i, j \in 0..n : i <= j => at[i] <= at[j]
      /\ \A i \in 1..n : /\ s[at[i]] \in returns
                         /\ at[i] = at[i - 1] + depth[s[at[i]]] + 1
                         /\ i > 1 => s[at[i]] \in called
  BY <1>1 DEF FramesAt
<1> HIDE DEF t, l
<1>4. n # 0 /\ n \in 1..n /\ n \in 0..n /\ n - 1 \in 0..n /\ n - 1 \in Nat /\ n - 1 <= n
  BY <1>2, <1>3
<1>5. s[l] \in returns /\ l = at[n - 1] + depth[s[l]] + 1 /\ (n > 1 => s[l] \in called)
  BY <1>3, <1>4
<1>6. depth[s[l]] \in Nat /\ at[n - 1] \in Nat
  BY <1>4, <1>5
<1>7. down \in [0..n - 1 -> Nat] /\ \A i \in 0..n - 1 : down[i] = at[i] /\ i \in 0..n
  BY <1>4
<1> HIDE DEF down
<1>8. ASSUME NEW i \in 1..n - 1
      PROVE  /\ t[down[i]] \in returns
             /\ down[i] = down[i - 1] + depth[t[down[i]]] + 1
             /\ i > 1 => t[down[i]] \in called
  <2>1. i \in 0..n - 1 /\ i - 1 \in 0..n - 1 /\ i \in 1..n /\ i <= n - 1 /\ i \in 0..n
    BY <1>4
  <2>2. down[i] = at[i] /\ down[i - 1] = at[i - 1] /\ at[i] \in Nat /\ at[i - 1] \in Nat
    BY <1>7, <2>1
  <2>3. at[i] <= at[n - 1]
    BY <1>3, <1>4, <2>1
  <2>4. at[i] = at[i - 1] + depth[s[at[i]]] + 1 /\ depth[s[at[i]]] \in Nat
    BY <1>3, <2>1
  <2>5. at[i] >= 1
    BY <2>2, <2>4
  <2>6. at[i] <= l - 1
    BY <1>2, <1>5, <1>6, <2>2, <2>3
  <2>7. at[i] \in 1..l - 1
    BY <1>2, <2>2, <2>5, <2>6
  <2> QED
    BY <1>2, <1>3, <2>1, <2>2, <2>7
<1>9. \A i, j \in 0..n - 1 : i <= j => down[i] <= down[j]
  BY <1>3, <1>7
<1>10. down[0] = 0 /\ Len(t) = down[n - 1] + depth[s[l]]
  <2>1. 0 \in 0..n - 1 /\ n - 1 \in 0..n - 1
    BY <1>4
  <2> QED
    BY <1>2, <1>3, <1>5, <1>6, <1>7, <2>1
<1>11. FramesAt(depth, called, returns, t, s[l], n - 1, down)
  BY <1>5, <1>8, <1>9, <1>10 DEF FramesAt
<1> QED
  BY <1>4, <1>5, <1>7, <1>11 DEF Stacked, t, l

\* Outside of subroutines there is nothing below the values of the instruction.
LEMMA StackedOutside ==
  ASSUME NEW depth, NEW called, NEW returns, NEW s, NEW pc, IsStack(s),
         Stacked(depth, called, returns, s, pc), depth[pc] = 0, pc \notin called
  PROVE  s = <<>>
<1>0. PICK n \in Nat : \E at \in [0..n -> Nat] :
                        FramesAt(depth, called, returns, s, pc, n, at)
  BY DEF Stacked
<1>1. PICK at \in [0..n -> Nat] : FramesAt(depth, called, returns, s, pc, n, at)
  BY <1>0
<1>2. n = 0 /\ Len(s) = 0
  BY <1>1 DEF FramesAt
<1> QED
  BY <1>2 DEF IsStack

LEMMA StackedAtEntry ==
  ASSUME NEW depth, NEW called, NEW returns, NEW pc, depth[pc] = 0
  PROVE  Stacked(depth, called, returns, <<>>, pc)
<1> DEFINE at == [i \in 0..0 |-> 0]
<1>1. at \in [0..0 -> Nat] /\ FramesAt(depth, called, returns, <<>>, pc, 0, at)
  BY DEF FramesAt
<1> HIDE DEF at
<1> SUFFICES \E n \in Nat : \E b \in [0..n -> Nat] :
               FramesAt(depth, called, returns, <<>>, pc, n, b)
  BY DEF Stacked
<1> WITNESS 0 \in Nat
<1> HIDE DEF at
<1> QED
  BY <1>1

-----------------------------------------------------------------------------
(***************************************************************************)
(* A run of a balanced program.                                            *)
(***************************************************************************)
Follows(depth, called, pc, to, n) ==
  to \in DOMAIN depth /\ depth[to] = n /\ (pc \in called => to \in called)

LEMMA BalancedAt ==
  ASSUME NEW p, NEW depth, NEW called, Balanced(p, depth, called), NEW pc \in DOMAIN depth
  PROVE  LET i == p.Prog[pc]
             n == depth[pc]
             stops == \/ i.name \in NeedsTop /\ n = 0
                      \/ i.name = "Invalid"
                      \/ i.name = "EnqueuePointer" /\ i.arg.ElemType = 0
         IN
         /\ n \in Nat
         /\ stops => n = 0 /\ pc \notin called
         /\ i.name \in {"Return", "DereferencePtr"} => n = 0
         /\ i.name \in {"Jump", "CondJump"} => Follows(depth, called, pc, i.arg.Pc, n)
         /\ i.name = "Call" => /\ i.arg.Pc \in called \cap DOMAIN depth
                               /\ depth[i.arg.Pc] = 0
         /\ ~stops /\ i.name \notin Leaves =>
              Follows(depth, called, pc, i.next,
                      IF i.name \in PushingOne THEN n + 1
                      ELSE IF i.name = "Pop" THEN n - 1 ELSE n)
BY DEF Balanced, Follows

LEMMA BalancedDepths ==
  ASSUME NEW depth, NEW called, Balanced(program, depth, called)
  PROVE  /\ DOMAIN depth \subseteq 0..ProgLen - 1
         /\ \A pc \in DOMAIN depth : depth[pc] \in Nat
         /\ \A pc \in EntryPcs(program) : pc \in DOMAIN depth /\ depth[pc] = 0
BY DEF Balanced, ProgLen

\* The places after the calls that a run may reach.
Returning(depth) ==
  {program.Prog[pc].next : pc \in {p \in DOMAIN depth : program.Prog[p].name = "Call"}}

LEMMA BalancedReturns ==
  ASSUME NEW depth, NEW called, Balanced(program, depth, called)
  PROVE  Returning(depth) \subseteq DOMAIN depth \cap ReturnPoints
<1> SUFFICES ASSUME NEW pc \in DOMAIN depth, program.Prog[pc].name = "Call"
             PROVE  program.Prog[pc].next \in DOMAIN depth \cap ReturnPoints
  BY DEF Returning
<1>1. program.Prog[pc].next \in DOMAIN depth
  BY BalancedAt DEF Follows, NeedsTop, Leaves
<1>2. pc \in 0..ProgLen - 1
  BY BalancedDepths
<1> QED
  BY <1>1, <1>2 DEF ReturnPoints

\* No run starts again: the buffer is full, and the goroutine that is being written ends
\* with the program that found it so.
Halted == buf.full /\ (sn.phase = "frames" => ~m.ok)

\* The values on the stack are those that the place of the machine says.
OnTrack(depth, called) ==
  /\ m.on => /\ m.pc \in DOMAIN depth
             /\ Stacked(depth, called, Returning(depth), m.stack, m.pc)
  /\ ~m.on => m.stack = <<>> \/ Halted
  /\ m.walk # <<>> => m.on /\ I.name = "PrepareGoContext"

LEMMA TrackKept ==
  ASSUME NEW depth, NEW called, Keeps, m'.on, m'.walk = <<>>, m'.pc \in DOMAIN depth,
         Stacked(depth, called, Returning(depth), m'.stack, m'.pc)
  PROVE  OnTrack(depth, called)'
<1>1. Returning(depth)' = Returning(depth)
  BY DEF Returning, Keeps
<1> QED
  BY <1>1 DEF OnTrack

LEMMA TrackEnds ==
  ASSUME NEW depth, NEW called, EndsRun, m.walk = <<>>,
         m.stack = <<>> \/ (buf'.full /\ ~m'.ok)
  PROVE  OnTrack(depth, called)'
BY DEF OnTrack, EndsRun, Halted

\* What the lemmas about a step of a run assume, and what they are for.
Running(depth, called) ==
  /\ Balanced(program, depth, called) /\ IsMachine(m) /\ IsBuf(buf) /\ cut \in BOOLEAN
  /\ m.on /\ OnTrack(depth, called)

LEMMA RunningFacts ==
  ASSUME NEW depth, NEW called, Running(depth, called)
  PROVE  LET returns == Returning(depth)
             n == depth[m.pc]
             stops == \/ I.name \in NeedsTop /\ n = 0
                      \/ I.name = "Invalid"
                      \/ I.name = "EnqueuePointer" /\ arg.ElemType = 0
         IN
         /\ m.pc \in DOMAIN depth /\ m.pc \in 0..ProgLen - 1 /\ IsStack(m.stack)
         /\ Len(m.stack) \in Nat
         /\ Stacked(depth, called, returns, m.stack, m.pc)
         /\ \A p \in DOMAIN depth : depth[p] \in Nat
         /\ returns \subseteq DOMAIN depth
         /\ stops => m.stack = <<>>
         /\ I.name \in {"Return", "DereferencePtr"} => n = 0
         /\ I.name \in {"Jump", "CondJump"} => Follows(depth, called, m.pc, arg.Pc, n)
         /\ I.name = "Call" => /\ arg.Pc \in called \cap DOMAIN depth
                               /\ depth[arg.Pc] = 0
         /\ ~stops /\ I.name \notin Leaves =>
              Follows(depth, called, m.pc, I.next,
                      IF I.name \in PushingOne THEN n + 1
                      ELSE IF I.name = "Pop" THEN n - 1 ELSE n)
<1> DEFINE returns == Returning(depth)
           n == depth[m.pc]
           stops == \/ I.name \in NeedsTop /\ n = 0
                    \/ I.name = "Invalid"
                    \/ I.name = "EnqueuePointer" /\ arg.ElemType = 0
<1>1. /\ m.pc \in DOMAIN depth /\ IsStack(m.stack)
      /\ Stacked(depth, called, returns, m.stack, m.pc)
      /\ Balanced(program, depth, called)
  BY DEF Running, OnTrack, IsMachine
<1>2. /\ n \in Nat
      /\ stops => n = 0 /\ m.pc \notin called
      /\ I.name \in {"Return", "DereferencePtr"} => n = 0
      /\ I.name \in {"Jump", "CondJump"} => Follows(depth, called, m.pc, arg.Pc, n)
      /\ I.name = "Call" => arg.Pc \in called \cap DOMAIN depth /\ depth[arg.Pc] = 0
      /\ ~stops /\ I.name \notin Leaves =>
           Follows(depth, called, m.pc, I.next,
                   IF I.name \in PushingOne THEN n + 1
                   ELSE IF I.name = "Pop" THEN n - 1 ELSE n)
  BY <1>1, BalancedAt DEF I, arg
<1>3. stops => m.stack = <<>>
  <2> SUFFICES ASSUME stops PROVE m.stack = <<>>
    OBVIOUS
  <2>1. n = 0 /\ m.pc \notin called
    BY <1>2
  <2> HIDE DEF stops, returns
  <2> QED
    BY <1>1, <2>1, StackedOutside
<1>4. Len(m.stack) \in Nat
  BY <1>1, StackPushed
<1>5. m.pc \in 0..ProgLen - 1 /\ \A p \in DOMAIN depth : depth[p] \in Nat
  BY <1>1, BalancedDepths
<1>6. returns \subseteq DOMAIN depth
  BY <1>1, BalancedReturns
<1> QED
  BY <1>1, <1>2, <1>3, <1>4, <1>5, <1>6

\* An instruction that leaves the values as they are, ...
LEMMA TrackGoesOn ==
  ASSUME NEW depth, NEW called, Running(depth, called), GoesOn,
         I.name \notin Leaves \cup PushingOne \cup {"Pop"},
         I.name \in NeedsTop => m.stack # <<>>,
         ~(I.name = "EnqueuePointer" /\ arg.ElemType = 0)
  PROVE  OnTrack(depth, called)'
<1> DEFINE returns == Returning(depth)
<1>1. /\ m.pc \in DOMAIN depth /\ IsStack(m.stack) /\ Len(m.stack) \in Nat
      /\ Stacked(depth, called, returns, m.stack, m.pc)
      /\ \A p \in DOMAIN depth : depth[p] \in Nat
      /\ returns \subseteq DOMAIN depth
      /\ Follows(depth, called, m.pc, I.next, depth[m.pc])
  BY RunningFacts DEF Leaves
<1> HIDE DEF returns
<1>2. Stacked(depth, called, returns, m.stack, I.next)
  BY <1>1, StackedSameFrames DEF Follows
<1> QED
  BY <1>1, <1>2, TrackKept DEF GoesOn, Follows, returns

\* ... jumps, ...
LEMMA TrackJumps ==
  ASSUME NEW depth, NEW called, Running(depth, called), I.name \in {"Jump", "CondJump"},
         Keeps, m'.on, m'.walk = <<>>, m'.pc = arg.Pc, m'.stack = m.stack
  PROVE  OnTrack(depth, called)'
<1> DEFINE returns == Returning(depth)
<1>1. /\ m.pc \in DOMAIN depth /\ IsStack(m.stack) /\ Len(m.stack) \in Nat
      /\ Stacked(depth, called, returns, m.stack, m.pc)
      /\ \A p \in DOMAIN depth : depth[p] \in Nat
      /\ returns \subseteq DOMAIN depth
      /\ Follows(depth, called, m.pc, arg.Pc, depth[m.pc])
  BY RunningFacts
<1> HIDE DEF returns
<1>2. Stacked(depth, called, returns, m.stack, arg.Pc)
  BY <1>1, StackedSameFrames DEF Follows
<1> QED
  BY <1>1, <1>2, TrackKept DEF Follows, returns

\* ... replaces the value on top, ...
LEMMA TrackReplaces ==
  ASSUME NEW depth, NEW called, Running(depth, called),
         I.name \in {"Decrement", "EnqueueHMapHeader"}, m.stack # <<>>,
         Keeps, m'.on, m'.walk = <<>>, m'.pc = I.next, NEW v, m'.stack = Append(Below, v)
  PROVE  OnTrack(depth, called)'
<1> DEFINE returns == Returning(depth)
           t == Append(Below, v)
<1>1. /\ m.pc \in DOMAIN depth /\ IsStack(m.stack) /\ Len(m.stack) \in Nat
      /\ Stacked(depth, called, returns, m.stack, m.pc)
      /\ \A p \in DOMAIN depth : depth[p] \in Nat
      /\ returns \subseteq DOMAIN depth
      /\ depth[m.pc] # 0
      /\ Follows(depth, called, m.pc, I.next, depth[m.pc])
  BY RunningFacts DEF Leaves, NeedsTop, PushingOne
<1> HIDE DEF returns
<1>2. /\ IsStack(Below) /\ Len(m.stack) \in Nat \ {0} /\ Len(Below) = Len(m.stack) - 1
      /\ \A i \in 1..Len(m.stack) - 1 : Below[i] = m.stack[i]
  BY <1>1, StackCut DEF Below
<1>3. Len(t) = Len(Below) + 1 /\ \A i \in 1..Len(Below) : t[i] = Below[i]
  BY <1>2, StackPushed
<1> HIDE DEF t
<1>4. depth[m.pc] \in Nat \ {0}
  BY <1>1
<1>5. \A i \in 1..Len(m.stack) - depth[m.pc] : t[i] = m.stack[i]
  <2> TAKE i \in 1..Len(m.stack) - depth[m.pc]
  <2>1. i \in 1..Len(m.stack) - 1
    BY <1>2, <1>4
  <2> QED
    BY <1>2, <1>3, <2>1
<1>6. Len(t) = (Len(m.stack) - depth[m.pc]) + depth[I.next]
  BY <1>2, <1>3, <1>1, <1>4 DEF Follows
<1>7. Stacked(depth, called, returns, t, I.next)
  BY <1>1, <1>5, <1>6, StackedSameFrames DEF Follows
<1> QED
  BY <1>1, <1>7, TrackKept DEF Follows, returns, t

\* ... adds a value, ...
LEMMA TrackPushes ==
  ASSUME NEW depth, NEW called, Running(depth, called), I.name \in PushingOne,
         Keeps, m'.on, m'.walk = <<>>, m'.pc = I.next, NEW v, m'.stack = Append(m.stack, v)
  PROVE  OnTrack(depth, called)'
<1> DEFINE returns == Returning(depth)
           t == Append(m.stack, v)
<1>1. /\ m.pc \in DOMAIN depth /\ IsStack(m.stack) /\ Len(m.stack) \in Nat
      /\ Stacked(depth, called, returns, m.stack, m.pc)
      /\ \A p \in DOMAIN depth : depth[p] \in Nat
      /\ returns \subseteq DOMAIN depth
      /\ Follows(depth, called, m.pc, I.next, depth[m.pc] + 1)
  BY RunningFacts DEF Leaves, NeedsTop, PushingOne
<1> HIDE DEF returns
<1>2. Len(t) = Len(m.stack) + 1 /\ \A i \in 1..Len(m.stack) : t[i] = m.stack[i]
  BY <1>1, StackPushed
<1> HIDE DEF t
<1>3. depth[m.pc] \in Nat
  BY <1>1
<1>4. \A i \in 1..Len(m.stack) - depth[m.pc] : t[i] = m.stack[i]
  <2> TAKE i \in 1..Len(m.stack) - depth[m.pc]
  <2>1. i \in 1..Len(m.stack)
    BY <1>1, <1>3
  <2> QED
    BY <1>2, <2>1
<1>5. Len(t) = (Len(m.stack) - depth[m.pc]) + depth[I.next]
  BY <1>1, <1>2, <1>3 DEF Follows
<1>6. Stacked(depth, called, returns, t, I.next)
  BY <1>1, <1>4, <1>5, StackedSameFrames DEF Follows
<1> QED
  BY <1>1, <1>6, TrackKept DEF Follows, returns, t

\* ... or takes one away.
LEMMA TrackPops ==
  ASSUME NEW depth, NEW called, Running(depth, called), I.name = "Pop", m.stack # <<>>,
         Keeps, m'.on, m'.walk = <<>>, m'.pc = I.next, m'.stack = Below
  PROVE  OnTrack(depth, called)'
<1> DEFINE returns == Returning(depth)
<1>1. /\ m.pc \in DOMAIN depth /\ IsStack(m.stack) /\ Len(m.stack) \in Nat
      /\ Stacked(depth, called, returns, m.stack, m.pc)
      /\ \A p \in DOMAIN depth : depth[p] \in Nat
      /\ returns \subseteq DOMAIN depth
      /\ depth[m.pc] # 0
      /\ Follows(depth, called, m.pc, I.next, depth[m.pc] - 1)
  BY RunningFacts DEF Leaves, NeedsTop, PushingOne
<1> HIDE DEF returns
<1>2. /\ Len(m.stack) \in Nat \ {0} /\ Len(Below) = Len(m.stack) - 1
      /\ \A i \in 1..Len(m.stack) - 1 : Below[i] = m.stack[i]
  BY <1>1, StackCut DEF Below
<1>3. depth[m.pc] \in Nat \ {0}
  BY <1>1
<1>4. \A i \in 1..Len(m.stack) - depth[m.pc] : Below[i] = m.stack[i]
  <2> TAKE i \in 1..Len(m.stack) - depth[m.pc]
  <2>1. i \in 1..Len(m.stack) - 1
    BY <1>2, <1>3
  <2> QED
    BY <1>2, <2>1
<1>5. Len(Below) = (Len(m.stack) - depth[m.pc]) + depth[I.next]
  BY <1>1, <1>2, <1>3 DEF Follows
<1>6. Stacked(depth, called, returns, Below, I.next)
  BY <1>1, <1>4, <1>5, StackedSameFrames DEF Follows
<1> QED
  BY <1>1, <1>6, TrackKept DEF Follows, returns

\* A call leaves the place to return to on the stack, ...
LEMMA TrackCalls ==
  ASSUME NEW depth, NEW called, Running(depth, called), I.name = "Call",
         Keeps, m'.on, m'.walk = <<>>, m'.pc = arg.Pc, m'.stack = Append(m.stack, I.next)
  PROVE  OnTrack(depth, called)'
<1> DEFINE returns == Returning(depth)
<1>1. /\ m.pc \in DOMAIN depth /\ m.pc \in 0..ProgLen - 1 /\ IsStack(m.stack)
      /\ Stacked(depth, called, returns, m.stack, m.pc)
      /\ \A p \in DOMAIN depth : depth[p] \in Nat
      /\ returns \subseteq DOMAIN depth
      /\ arg.Pc \in called \cap DOMAIN depth /\ depth[arg.Pc] = 0
      /\ Follows(depth, called, m.pc, I.next, depth[m.pc])
  BY RunningFacts DEF Leaves, NeedsTop, PushingOne
<1>2. I.next \in returns
  BY <1>1 DEF Returning, I, Follows
<1> HIDE DEF returns
<1>3. Stacked(depth, called, returns, Append(m.stack, I.next), arg.Pc)
  BY <1>1, <1>2, StackedCall DEF Follows
<1> QED
  BY <1>1, <1>3, TrackKept DEF returns

\* ... where the next return goes.
LEMMA TrackReturns ==
  ASSUME NEW depth, NEW called, Running(depth, called),
         I.name \in {"Return", "DereferencePtr"}, ReturnsTo
  PROVE  OnTrack(depth, called)'
<1> DEFINE returns == Returning(depth)
<1>1. /\ m.pc \in DOMAIN depth /\ IsStack(m.stack) /\ Len(m.stack) \in Nat
      /\ Stacked(depth, called, returns, m.stack, m.pc)
      /\ \A p \in DOMAIN depth : depth[p] \in Nat
      /\ returns \subseteq DOMAIN depth
      /\ depth[m.pc] = 0
  BY RunningFacts
<1>2. DOMAIN depth \subseteq 0..ProgLen - 1
  BY BalancedDepths DEF Running
<1> HIDE DEF returns
<1>3. CASE m.stack = <<>>
  BY <1>3, TrackEnds DEF ReturnsTo
<1>4. CASE m.stack # <<>>
  <2>1. Top \in returns /\ Stacked(depth, called, returns, Below, Top)
    BY <1>1, <1>4, StackedReturn DEF Top, Below
  <2>2. Keeps /\ m'.on /\ m'.walk = <<>> /\ m'.pc = Top /\ m'.stack = Below
    BY <1>1, <1>2, <1>4, <2>1 DEF ReturnsTo
  <2> QED
    BY <1>1, <2>1, <2>2, TrackKept DEF returns
<1> QED
  BY <1>3, <1>4

\* Every instruction is of one of these kinds.
LEMMA StepKinds ==
  ASSUME Step
  PROVE  /\ m.on
         /\ \/ Panics \/ Illegal \/ StepLimit
            \/ EnqueuePointer \/ Invalid
            \/ Setting \/ Queueing \/ Filling \/ Pushing
            \/ Return \/ DereferencePtr
            \/ Jump \/ CondJump \/ Call \/ Pop
            \/ Decrement \/ EnqueueHMapHeader
            \/ PrepareGoContext \/ FetchContext \/ RecordContext
<1>1. \/ Panics \/ Illegal \/ StepLimit
      \/ EnqueuePointer \/ Invalid
      \/ Setting \/ Queueing \/ Filling \/ Pushing
      \/ Return \/ DereferencePtr
      \/ Jump \/ CondJump \/ Call \/ Pop
      \/ Decrement \/ EnqueueHMapHeader
      \/ PrepareGoContext \/ FetchContext \/ RecordContext
  BY DEF Step, Setting, Queueing, Filling, Pushing
<1>2. m.on
  <2> USE DEF At
  <2>1. CASE Panics \/ Illegal \/ StepLimit
    BY <2>1 DEF Panics, Illegal, StepLimit
  <2>2. CASE EnqueuePointer \/ Invalid \/ Pushing \/ Filling
    BY <2>2 DEF EnqueuePointer, Invalid, Pushing, PushImm, PushOffset, PushSliceLen, Filling,
       PrepareFrame, PreparePointeeData, DereferenceCFAOffset, CopyFromRegister
  <2>3. CASE Setting
    BY <2>3 DEF Setting, Nothing, SetOffset, AdvanceOffset, ConcludeFrame, PrepareExprEval,
       SaveExprResult, ZeroFill, SetPresenceBit
  <2>4. CASE Queueing
    BY <2>4 DEF Queueing, EnqueueEmptyInterface, EnqueueInterface, EnqueueSliceHeader,
       EnqueueStringHeader, EnqueueSwissMap, EnqueueSwissMapGroups, EnqueueSubroutine
  <2>5. CASE \/ Return \/ DereferencePtr \/ Jump \/ CondJump \/ Call \/ Pop
             \/ Decrement \/ EnqueueHMapHeader
    BY <2>5 DEF Return, DereferencePtr, Jump, CondJump, Call, Pop, Decrement, EnqueueHMapHeader
  <2>6. CASE PrepareGoContext \/ FetchContext \/ RecordContext
    BY <2>6 DEF PrepareGoContext, FetchContext, RecordContext
  <2> QED
    BY <1>1, <2>1, <2>2, <2>3, <2>4, <2>5, <2>6
<1> QED
  BY <1>1, <1>2

\* What a run has spoiled stays spoiled.
LEMMA StepKeeps ==
  ASSUME IsMachine(m), IsBuf(buf), cut \in BOOLEAN, Step
  PROVE  Keeps /\ cut' \in BOOLEAN /\ (cut => cut')
<1>1. CASE Panics \/ Illegal \/ StepLimit
  BY <1>1, CrashingGoes
<1>2. CASE EnqueuePointer \/ Invalid
  BY <1>2, EnqueuePointerGoes DEF EndsRun, GoesOn
<1>3. CASE Setting \/ Queueing \/ Filling \/ Pushing
  BY <1>3, SettingGoes, QueueingGoes, FillingGoes, PushingGoes DEF EndsRun, GoesOn
<1>4. CASE Return \/ DereferencePtr
  BY <1>4, ReturningGoes DEF ReturnsTo, GoesOn, EndsRun
<1>5. CASE Jump \/ CondJump \/ Call \/ Pop
  BY <1>5, JumpingGoes, CallGoes, PopGoes DEF GoesOn, EndsRun
<1>6. CASE Decrement \/ EnqueueHMapHeader
  BY <1>6, ReplacingGoes
<1>7. CASE PrepareGoContext \/ FetchContext \/ RecordContext
  BY <1>7, PrepareGoContextGoes, FetchContextGoes, RecordContextGoes DEF WalkGoes
<1> QED
  BY <1>1, <1>2, <1>3, <1>4, <1>5, <1>6, <1>7, StepKinds

LEMMA TrackWalks ==
  ASSUME NEW depth, NEW called, Running(depth, called), I.name = "PrepareGoContext", WalkGoes
  PROVE  OnTrack(depth, called)'
<1>1. CASE m'.pc = I.next /\ m'.walk = <<>>
  <2>1. GoesOn
    BY <1>1 DEF WalkGoes, GoesOn
  <2> QED
    BY <2>1, TrackGoesOn DEF Leaves, PushingOne, NeedsTop
<1>2. CASE m'.pc = m.pc
  <2>1. /\ m.pc \in DOMAIN depth
        /\ Stacked(depth, called, Returning(depth), m.stack, m.pc)
    BY DEF Running, OnTrack
  <2>2. Returning(depth)' = Returning(depth) /\ I' = I
    BY <1>2 DEF WalkGoes, Keeps, Returning, I
  <2> QED
    BY <1>2, <2>1, <2>2 DEF OnTrack, WalkGoes
<1> QED
  BY <1>1, <1>2 DEF WalkGoes

Spoiled == cut \/ m.crash # "none" \/ sn.phase = "failed"

LEMMA StepKeepsTrack ==
  ASSUME NEW depth, NEW called, Running(depth, called), Step
  PROVE  OnTrack(depth, called)' \/ Spoiled'
<1>0. /\ IsMachine(m) /\ IsBuf(buf) /\ cut \in BOOLEAN /\ m.on
      /\ m.walk # <<>> => I.name = "PrepareGoContext"
  BY DEF Running, OnTrack
<1>1. CASE Panics \/ Illegal \/ StepLimit
  BY <1>0, <1>1, CrashingGoes DEF Spoiled
<1>2. CASE EnqueuePointer \/ Invalid
  <2>1. CASE GoesOn /\ I.name = "EnqueuePointer" /\ arg.ElemType # 0
    BY <2>1, TrackGoesOn DEF Leaves, PushingOne, NeedsTop
  <2>2. CASE /\ EndsRun /\ m.walk = <<>>
             /\ I.name = "Invalid" \/ (I.name = "EnqueuePointer" /\ arg.ElemType = 0)
    <3>1. m.stack = <<>>
      BY <2>2, RunningFacts
    <3> QED
      BY <2>2, <3>1, TrackEnds
  <2> QED
    BY <1>0, <1>2, <2>1, <2>2, EnqueuePointerGoes
<1>3. ASSUME GoesOn, I.name \in PlainNames, I.name # "EnqueuePointer",
             I.name \in NeedsTop => m.stack # <<>>
      PROVE  OnTrack(depth, called)'
  <2>1. I.name \notin Leaves \cup PushingOne \cup {"Pop"}
    BY <1>3 DEF PlainNames, Leaves, PushingOne
  <2> QED
    BY <1>3, <2>1, TrackGoesOn
<1>4. CASE Setting \/ Queueing \/ Filling
  <2>1. I.name # "EnqueuePointer"
    <3> USE DEF At
    <3>1. CASE Setting
      BY <3>1 DEF Setting, Nothing, SetOffset, AdvanceOffset, ConcludeFrame, PrepareExprEval,
         SaveExprResult, ZeroFill, SetPresenceBit
    <3>2. CASE Queueing
      BY <3>2 DEF Queueing, EnqueueEmptyInterface, EnqueueInterface, EnqueueSliceHeader,
         EnqueueStringHeader, EnqueueSwissMap, EnqueueSwissMapGroups, EnqueueSubroutine
    <3>3. CASE Filling
      BY <3>3 DEF Filling, PrepareFrame, PreparePointeeData, DereferenceCFAOffset,
         CopyFromRegister
    <3> QED
      BY <1>4, <3>1, <3>2, <3>3
  <2>2. CASE Setting
    BY <1>0, <1>3, <2>1, <2>2, SettingGoes
  <2>3. CASE Queueing
    <3>1. I.name \notin NeedsTop
      BY <2>3 DEF Queueing, EnqueueEmptyInterface, EnqueueInterface, EnqueueSliceHeader, At,
         EnqueueStringHeader, EnqueueSwissMap, EnqueueSwissMapGroups, EnqueueSubroutine, NeedsTop
    <3> QED
      BY <1>0, <1>3, <2>1, <2>3, <3>1, QueueingGoes
  <2>4. CASE Filling
    <3>1. /\ GoesOn \/ (EndsRun /\ m.walk = <<>> /\ buf'.full /\ ~m'.ok)
          /\ I.name \in PlainNames /\ I.name \notin NeedsTop
      BY <1>0, <2>4, FillingGoes
    <3> QED
      BY <1>3, <2>1, <3>1, TrackEnds
  <2> QED
    BY <1>4, <2>2, <2>3, <2>4
<1>5. CASE Pushing
  BY <1>0, <1>5, PushingGoes, TrackPushes
<1>6. CASE Return \/ DereferencePtr
  <2>1. CASE I.name \in {"Return", "DereferencePtr"} /\ ReturnsTo
    BY <2>1, TrackReturns
  <2>2. CASE I.name = "DereferencePtr" /\ GoesOn
    BY <2>2, TrackGoesOn DEF Leaves, PushingOne, NeedsTop
  <2> QED
    BY <1>0, <1>6, <2>1, <2>2, ReturningGoes
<1>7. CASE Jump \/ CondJump
  <2>1. /\ I.name \in {"Jump", "CondJump"}
        /\ I.name = "CondJump" => m.stack # <<>>
        /\ \/ EndsRun /\ m.walk = <<>> /\ arg.Pc \notin 0..ProgLen - 1
           \/ GoesOn /\ I.name = "CondJump"
           \/ /\ Keeps /\ cut' = cut /\ m'.on /\ m'.walk = <<>>
              /\ m'.pc = arg.Pc /\ m'.stack = m.stack
    BY <1>0, <1>7, JumpingGoes
  <2>2. arg.Pc \in 0..ProgLen - 1
    BY <2>1, RunningFacts, BalancedDepths DEF Follows, Running
  <2>3. CASE GoesOn /\ I.name = "CondJump"
    BY <2>1, <2>3, TrackGoesOn DEF Leaves, PushingOne, NeedsTop
  <2> QED
    BY <2>1, <2>2, <2>3, TrackJumps
<1>8. CASE Call
  <2>1. arg.Pc \in 0..ProgLen - 1
    BY <1>0, <1>8, CallGoes, RunningFacts, BalancedDepths DEF Running
  <2> QED
    BY <1>0, <1>8, <2>1, CallGoes, TrackCalls
<1>9. CASE Pop
  BY <1>0, <1>9, PopGoes, TrackPops
<1>10. CASE Decrement \/ EnqueueHMapHeader
  BY <1>0, <1>10, ReplacingGoes, TrackReplaces
<1>11. CASE PrepareGoContext \/ FetchContext \/ RecordContext
  BY <1>0, <1>11, PrepareGoContextGoes, FetchContextGoes, RecordContextGoes, TrackWalks
<1> QED
  BY <1>1, <1>2, <1>4, <1>5, <1>6, <1>7, <1>8, <1>9, <1>10, <1>11, StepKinds

-----------------------------------------------------------------------------
(***************************************************************************)
(* The snapshot around the runs.                                           *)
(***************************************************************************)
SnapshotFields ==
  {"phase", "next", "left", "cfas", "before", "header", "after", "stackBytes", "hash", "stacks"}

\* The frames whose programs are still to run, and those remembered with a stack.
IsSnapshot(x) ==
  /\ DOMAIN x = SnapshotFields
  /\ \A f \in x.left : f.pc \in EntryPcs(program)
  /\ \A s \in x.stacks : \A f \in s.frames : f.pc \in EntryPcs(program)

Shape ==
  /\ IsMachine(m) /\ IsBuf(buf) /\ cut \in BOOLEAN /\ IsSnapshot(sn)
  /\ \E p \in Programs : program = Loaded(p)
  /\ m.on => sn.phase \in {"frames", "queue"}

\* The search among the targets of the classifier finds a first one.
LEMMA ClassifiedIsEntry ==
  ASSUME \E p \in Programs : program = Loaded(p), NEW c, Classified(c) # 0
  PROVE  Classified(c) \in EntryPcs(program)
<1> DEFINE targets == program.PcClassifier.TargetPc
           pcs == program.PcClassifier.ProgPc
           found == {j \in 1..Len(targets) : c <= targets[j]}
<1>1. PICK p \in Programs : program = Loaded(p)
  OBVIOUS
<1>2. SnapshotProgram(p) /\ program.PcClassifier = p.PcClassifier
  BY <1>1, ProgramAssumption DEF Loaded, SnapshotProgram
<1>3. targets \in Seq(0..MaxUint) /\ pcs \in Seq(0..MaxUint) /\ Len(targets) = Len(pcs)
  BY <1>2 DEF SnapshotProgram, PcClassifier
<1>4. found # {} /\ found \subseteq Nat
  BY <1>3 DEF Classified
<1>5. \E j \in found : \A k \in found : j <= k
  <2> DEFINE R == OpToRel(<, Nat)
  <2> HIDE DEF found
  <2>1. \A i, j \in Nat : i < j => <<i, j>> \in R
    BY DEF OpToRel
  <2>2. IsWellFoundedOn(R, Nat)
    BY NatLessThanWellFounded
  <2> HIDE DEF R
  <2>3. PICK j \in found : \A k \in found : ~ (<<k, j>> \in R)
    BY <1>4, <2>2, WFMin
  <2>4. ASSUME NEW k \in found PROVE j <= k
    <3>1. j \in Nat /\ k \in Nat
      BY <1>4
    <3>2. ~ (k < j)
      BY <2>1, <2>3, <3>1
    <3> QED
      BY <3>1, <3>2
  <2> QED
    BY <2>4
<1> DEFINE j == CHOOSE i \in found : \A k \in found : i <= k
<1>6. j \in found
  BY <1>5
<1>7. Classified(c) = pcs[j]
  BY <1>4 DEF Classified
<1>8. j \in DOMAIN pcs
  BY <1>3, <1>6
<1> HIDE DEF j, pcs, targets
<1> QED
  BY <1>7, <1>8 DEF EntryPcs, pcs

LEMMA FramesAreEntries ==
  ASSUME \E p \in Programs : program = Loaded(p), NEW pcs
  PROVE  \A f \in FramesOfInterest(pcs) : f.pc \in EntryPcs(program)
<1> TAKE f \in FramesOfInterest(pcs)
<1>1. PICK i \in 1..Len(pcs) : f = [idx |-> i, pc |-> Classified(pcs[i])]
  BY DEF FramesOfInterest
<1>2. f.pc = Classified(pcs[i]) /\ f.pc # 0
  BY <1>1 DEF FramesOfInterest
<1> QED
  BY <1>2, ClassifiedIsEntry

\* What an action of the snapshot leaves: it starts a run, or ends in an error, or lets
\* the machine be.
Around ==
  /\ Shape' /\ Becomes(buf, buf') /\ program' = program /\ cut' = cut
  /\ m'.stack = m.stack /\ m'.walk = m.walk
  /\ m'.crash = m.crash \/ (Idle /\ ~m'.on /\ m'.crash = "panic")
  /\ sn.phase = "failed" => sn'.phase = "failed"
  /\ Halted => Halted' /\ (m'.on => m.on)
  /\ \/ m'.on = m.on /\ m'.pc = m.pc
     \/ Idle /\ ~m'.on
     \/ Idle /\ m'.on /\ m'.pc \in EntryPcs(program)
     \/ sn'.phase = "failed"

LEMMA SnapshotKept ==
  ASSUME Shape, NEW x, IsSnapshot(x), sn' = x, program' = program
  PROVE  IsSnapshot(sn)' /\ \E p \in Programs : program' = Loaded(p)
<1>1. EntryPcs(program)' = EntryPcs(program)
  OBVIOUS
<1> QED
  BY <1>1 DEF Shape, IsSnapshot

\* An action that leaves the machine alone.
LEMMA MachineLeft ==
  ASSUME Shape, NEW x, NEW b, IsSnapshot(x), Becomes(buf, b), ~m.on \/ x.phase = sn.phase,
         sn.phase = "failed" => x.phase = "failed",
         buf.full /\ x.phase = "frames" => sn.phase = "frames",
         sn' = x, buf' = b, UNCHANGED <<program, m, cut>>
  PROVE  Around
<1>1. IsSnapshot(sn)' /\ \E p \in Programs : program' = Loaded(p)
  BY SnapshotKept
<1>2. Shape'
  BY <1>1 DEF Shape, Becomes
<1>3. Halted => Halted'
  BY DEF Halted, Becomes
<1> QED
  BY <1>2, <1>3 DEF Around

LEMMA GoroutineGoes ==
  ASSUME Shape, NEW x, NEW b, IsSnapshot(x), Becomes(buf, b), ~m.on,
         sn.phase # "failed", buf.full /\ x.phase = "frames" => sn.phase = "frames",
         Goroutine(b, x)
  PROVE  Around
<1>1. sn' = x /\ buf' = b /\ UNCHANGED <<program, m, cut>>
  BY DEF Goroutine, Fixed
<1> QED
  BY <1>1, MachineLeft

LEMMA NoSnapshotGoes ==
  ASSUME Shape, NEW b, NEW qu, Becomes(buf, b), ~m.on, NoSnapshot(b, qu)
  PROVE  Around
<1> DEFINE x == [sn EXCEPT !.phase = "failed"]
<1>1. sn' = x /\ buf' = b /\ UNCHANGED <<program, m, cut>>
  BY DEF NoSnapshot, Fixed
<1>2. IsSnapshot(x) /\ x.phase = "failed"
  BY DEF Shape, IsSnapshot, SnapshotFields
<1> HIDE DEF x
<1> QED
  BY <1>1, <1>2, MachineLeft

LEMMA CountedBecomes ==
  ASSUME NEW b, IsBuf(b), NEW field
  PROVE  Becomes(b, Counted(b, field))
BY BufOps DEF Counted

LEMMA StartGoes ==
  ASSUME Shape, Rejects \/ Start
  PROVE  Around
<1>0. sn.phase = "start" /\ ~m.on /\ IsBuf(buf)
  BY DEF Shape, Rejects, Start
<1>1. /\ Becomes(buf, buf)
      /\ Becomes(buf, [buf EXCEPT !.full = TRUE])
      /\ Becomes(buf, [buf EXCEPT !.len = SnapshotHeaderSize])
  BY <1>0 DEF Becomes, IsBuf
<1>2. CASE NoSnapshot(buf, queue)
  BY <1>0, <1>1, <1>2, NoSnapshotGoes
<1>3. CASE NoSnapshot([buf EXCEPT !.full = TRUE], queue)
  BY <1>0, <1>1, <1>3, NoSnapshotGoes
<1>4. CASE NoSnapshot([buf EXCEPT !.len = SnapshotHeaderSize], StaticsPushed)
  BY <1>0, <1>1, <1>4, NoSnapshotGoes
<1>5. CASE /\ buf' = [buf EXCEPT !.len = SnapshotHeaderSize]
           /\ sn' = [sn EXCEPT !.phase = "goroutines"]
           /\ UNCHANGED <<program, m, cut>>
  <2> DEFINE x == [sn EXCEPT !.phase = "goroutines"]
  <2>1. IsSnapshot(x) /\ x.phase # "frames"
    BY DEF Shape, IsSnapshot, SnapshotFields
  <2> HIDE DEF x
  <2>2. sn' = x
    BY <1>5 DEF x
  <2> QED
    BY <1>0, <1>1, <1>5, <2>1, <2>2, MachineLeft
<1> QED
  BY <1>2, <1>3, <1>4, <1>5 DEF Rejects, Start, Fixed

LEMMA NextGoroutineIsSnapshot ==
  ASSUME Shape
  PROVE  IsSnapshot(NextGoroutine) /\ NextGoroutine.phase = sn.phase
BY DEF Shape, IsSnapshot, SnapshotFields, NextGoroutine

LEMMA SkipGoroutineGoes ==
  ASSUME Shape, SkipGoroutine
  PROVE  Around
<1> DEFINE b == IF ~buf.full /\ Current.status = Gdead THEN Counted(buf, NonLiveGoroutines)
                ELSE buf
<1>1. sn.phase = "goroutines" /\ ~m.on /\ Goroutine(b, NextGoroutine)
  BY DEF Shape, SkipGoroutine
<1>2. Becomes(buf, b)
  BY CountedBecomes, BufOps DEF Shape
<1> HIDE DEF b
<1> QED
  BY <1>1, <1>2, NextGoroutineIsSnapshot, GoroutineGoes

LEMMA BeginGoroutineGoes ==
  ASSUME Shape, BeginGoroutine
  PROVE  Around
<1> DEFINE pcs == Pcs(mem, Current)
           b == Counted(buf, NumGoroutines)
           header == EnsureLen(b, b.len + GoroutineHeaderSize)
           known == {s \in sn.stacks : s.hash = Hash(pcs)}
           stacked == IF known = {} THEN writeStack(header, pcs) ELSE header
           frames == IF known = {} THEN FramesOfInterest(pcs)
                     ELSE (CHOOSE s \in known : TRUE).frames
           removed == Truncate(IF header.full THEN header ELSE stacked, b.len)
           x == [sn EXCEPT !.phase = "frames", !.left = frames, !.cfas = Cfas(Current),
                   !.before = b.len, !.header = b.len, !.after = header.len, !.hash = Hash(pcs),
                   !.stackBytes = stacked.len - header.len,
                   !.stacks = IF known = {}
                              THEN @ \cup {[hash |-> Hash(pcs), frames |-> frames]} ELSE @]
<1>1. /\ sn.phase = "goroutines" /\ ~m.on /\ ~buf.full
      /\ Goroutine(removed, NextGoroutine) \/ Goroutine(stacked, x)
  BY DEF Shape, BeginGoroutine
<1>2. Becomes(buf, b)
  BY CountedBecomes DEF Shape
<1> HIDE DEF pcs, b
<1>3. Becomes(b, header)
  BY <1>2, BufOps DEF Becomes
<1> HIDE DEF header
<1>4. Becomes(header, stacked)
  BY <1>3, BufOps, StackWritten DEF Becomes
<1>5. \A f \in frames : f.pc \in EntryPcs(program)
  <2>1. CASE known = {}
    BY <2>1, FramesAreEntries DEF Shape
  <2>2. CASE known # {}
    <3> DEFINE s == CHOOSE z \in known : TRUE
    <3>1. s \in sn.stacks
      BY <2>2
    <3>2. frames = s.frames
      BY <2>2
    <3> HIDE DEF s, frames
    <3> QED
      BY <3>1, <3>2 DEF Shape, IsSnapshot
  <2> QED
    BY <2>1, <2>2
<1> HIDE DEF stacked, frames
<1>6. Becomes(buf, stacked) /\ Becomes(buf, header)
  BY <1>2, <1>3, <1>4, BecomesTransitive
<1>7. Becomes(buf, removed)
  <2> DEFINE c == IF header.full THEN header ELSE stacked
  <2>1. Becomes(buf, c)
    BY <1>6
  <2> HIDE DEF c
  <2>2. Becomes(c, Truncate(c, b.len))
    BY <2>1, BufOps DEF Becomes
  <2> QED
    BY <2>1, <2>2, BecomesTransitive DEF c
<1>8. IsSnapshot(x) /\ x.phase = "frames"
  <2> HIDE DEF known
  <2>1. /\ DOMAIN x = DOMAIN sn /\ x.phase = "frames" /\ x.left = frames
        /\ x.stacks \subseteq sn.stacks \cup {[hash |-> Hash(pcs), frames |-> frames]}
    BY DEF Shape, IsSnapshot, SnapshotFields
  <2> HIDE DEF x
  <2>2. ASSUME NEW s \in x.stacks PROVE \A f \in s.frames : f.pc \in EntryPcs(program)
    <3>1. CASE s \in sn.stacks
      BY <3>1 DEF Shape, IsSnapshot
    <3>2. CASE s = [hash |-> Hash(pcs), frames |-> frames]
      BY <1>5, <3>2
    <3> QED
      BY <2>1, <3>1, <3>2
  <2> QED
    BY <1>5, <2>1, <2>2 DEF Shape, IsSnapshot
<1> HIDE DEF removed, x
<1> QED
  BY <1>1, <1>6, <1>7, <1>8, NextGoroutineIsSnapshot, GoroutineGoes

LEMMA GoroutinesDoneGoes ==
  ASSUME Shape, GoroutinesDone \/ QueueDone
  PROVE  Around
<1>1. IsBuf(buf)
  BY DEF Shape
<1>2. CASE GoroutinesDone
  <2> DEFINE b == Put(buf, GoroutinesByteLen, 4, buf.len - SnapshotHeaderSize)
             x == [sn EXCEPT !.phase = "queue"]
  <2>1. sn.phase = "goroutines" /\ ~m.on /\ Goroutine(b, x)
    BY <1>2 DEF Shape, GoroutinesDone
  <2>2. Becomes(buf, b) /\ IsSnapshot(x) /\ x.phase # "frames"
    BY <1>1, BufOps DEF Shape, IsSnapshot, SnapshotFields
  <2> HIDE DEF b, x
  <2> QED
    BY <2>1, <2>2, GoroutineGoes
<1>3. CASE QueueDone
  <2> DEFINE b == Put(buf, DataByteLen, 4, buf.len)
             x == [sn EXCEPT !.phase = "done"]
  <2>1. sn.phase = "queue" /\ ~m.on /\ Goroutine(b, x)
    BY <1>3 DEF Shape, QueueDone, Idle
  <2>2. Becomes(buf, b) /\ IsSnapshot(x) /\ x.phase # "frames"
    BY <1>1, BufOps DEF Shape, IsSnapshot, SnapshotFields
  <2> HIDE DEF b, x
  <2> QED
    BY <2>1, <2>2, GoroutineGoes
<1> QED
  BY <1>2, <1>3

\* Run, with the registers of x: it starts, or there is nothing at pc.
LEMMA RunsFrom ==
  ASSUME IsMachine(m), Idle, NEW x, DOMAIN x = DOMAIN m, x.stack = m.stack, x.walk = m.walk,
         x.crash = m.crash, NEW pc, NEW cfa, NEW d, NEW o, NEW base
  PROVE  LET y == Runs(x, pc, cfa, d, o, base) IN
         /\ IsMachine(y) /\ y.stack = m.stack /\ y.walk = m.walk /\ y.crash = m.crash
         /\ ~y.on \/ y.pc = pc
BY DEF IsMachine, MachineFields, Runs, Idle

\* An action between two runs that has the machine y afterwards.
LEMMA MachineSet ==
  ASSUME Shape, Idle, ~Halted, NEW y, IsMachine(y), y.stack = m.stack, y.walk = m.walk,
         y.crash = m.crash \/ (~y.on /\ y.crash = "panic"),
         ~y.on \/ y.pc \in EntryPcs(program),
         NEW x, IsSnapshot(x), x.phase = sn.phase, y.on => x.phase \in {"frames", "queue"},
         NEW b, Becomes(buf, b), m' = y, sn' = x, buf' = b, UNCHANGED <<program, cut>>
  PROVE  Around
<1>1. IsSnapshot(sn)' /\ \E p \in Programs : program' = Loaded(p)
  BY SnapshotKept
<1>2. Shape'
  BY <1>1 DEF Shape, Becomes
<1>3. y.on \in BOOLEAN
  BY DEF IsMachine
<1> QED
  BY <1>2, <1>3 DEF Around

LEMMA RunFrameGoes ==
  ASSUME Shape, RunFrame
  PROVE  Around
<1>1. PICK f \in sn.left :
        /\ m' = IF f.idx \in DOMAIN sn.cfas
                THEN Runs(m, f.pc, sn.cfas[f.idx], f.idx - 1, buf.len, buf.len)
                ELSE [m EXCEPT !.ok = FALSE, !.crash = "panic"]
        /\ sn' = [sn EXCEPT !.left = @ \ {f}]
  BY DEF RunFrame
<1> DEFINE r == Runs(m, f.pc, sn.cfas[f.idx], f.idx - 1, buf.len, buf.len)
           y == IF f.idx \in DOMAIN sn.cfas THEN r ELSE [m EXCEPT !.ok = FALSE, !.crash = "panic"]
           x == [sn EXCEPT !.left = sn.left \ {f}]
<1>2. sn.phase = "frames" /\ Idle /\ UNCHANGED <<program, cut>> /\ buf' = buf
  BY DEF RunFrame, Fixed
<1>3. f.pc \in EntryPcs(program)
  BY DEF Shape, IsSnapshot
<1>4. IsSnapshot(x) /\ x.phase = sn.phase
  BY DEF Shape, IsSnapshot, SnapshotFields
<1>5. /\ IsMachine(y) /\ y.stack = m.stack /\ y.walk = m.walk
      /\ y.crash = m.crash \/ (~y.on /\ y.crash = "panic")
      /\ ~y.on \/ y.pc = f.pc
  <2>1. CASE f.idx \in DOMAIN sn.cfas
    <3>1. /\ IsMachine(r) /\ r.stack = m.stack /\ r.walk = m.walk /\ r.crash = m.crash
          /\ ~r.on \/ r.pc = f.pc
      BY <1>2, RunsFrom DEF Shape
    <3> HIDE DEF r
    <3> QED
      BY <2>1, <3>1
  <2>2. CASE f.idx \notin DOMAIN sn.cfas
    BY <1>2, <2>2 DEF Shape, Idle, IsMachine, MachineFields
  <2> QED
    BY <2>1, <2>2
<1>6. Becomes(buf, buf) /\ m' = y /\ sn' = x
  BY <1>1, BufOps DEF Shape
<1>7. ~Halted
  BY DEF RunFrame, Halted
<1> HIDE DEF y, x
<1> QED
  BY <1>2, <1>3, <1>4, <1>5, <1>6, <1>7, MachineSet

LEMMA EndGoroutineGoes ==
  ASSUME Shape, EndGoroutine
  PROVE  Around
<1> DEFINE h == sn.header
           b0 == Overwrite(buf, h, GoroutineHeaderSize, <<>>)
           b1 == Put(b0, h, 8, Current.goid)
           b2 == Put(b1, h + 8, 8, sn.hash)
           b3 == Put(b2, h + 16, 4, Current.status)
           b4 == Put(b3, h + 32, 4, sn.stackBytes)
           b5 == Put(b4, h + 36, 4, buf.len - sn.after)
           b == IF buf.full THEN Truncate(b5, sn.before) ELSE b5
           x == [NextGoroutine EXCEPT !.phase = "goroutines"]
           y == [m EXCEPT !.ok = TRUE]
<1>1. buf' = b /\ sn' = x /\ m' = y /\ Idle /\ UNCHANGED <<program, cut>>
  BY DEF EndGoroutine, Fixed
<1>2. sn.phase = "frames"
  BY DEF EndGoroutine
<1>3. Becomes(buf, b0)
  BY BufOps DEF Shape
<1> HIDE DEF b0
<1>4. Becomes(b0, b1)
  BY <1>3, BufOps DEF Becomes
<1> HIDE DEF b1
<1>5. Becomes(b1, b2)
  BY <1>4, BufOps DEF Becomes
<1> HIDE DEF b2
<1>6. Becomes(b2, b3)
  BY <1>5, BufOps DEF Becomes
<1> HIDE DEF b3
<1>7. Becomes(b3, b4)
  BY <1>6, BufOps DEF Becomes
<1> HIDE DEF b4
<1>8. Becomes(b4, b5)
  BY <1>7, BufOps DEF Becomes
<1> HIDE DEF b5
<1>9. Becomes(b5, b)
  BY <1>8, BufOps DEF Becomes
<1> HIDE DEF b
<1>10. Becomes(buf, b)
  BY <1>3, <1>4, <1>5, <1>6, <1>7, <1>8, <1>9 DEF Becomes
<1>11. IsSnapshot(x) /\ x.phase = "goroutines"
  BY NextGoroutineIsSnapshot DEF IsSnapshot, SnapshotFields
<1>12. /\ IsMachine(y) /\ y.stack = m.stack /\ y.walk = m.walk /\ y.crash = m.crash
       /\ ~y.on
  BY <1>1 DEF Shape, IsMachine, MachineFields, Idle
<1> HIDE DEF x, y
<1>15. Halted => Halted'
  BY <1>1, <1>10, <1>11 DEF Halted, Becomes
<1>13. IsSnapshot(sn)' /\ \E p \in Programs : program' = Loaded(p)
  BY <1>1, <1>11, SnapshotKept
<1>14. Shape'
  BY <1>1, <1>10, <1>12, <1>13 DEF Shape, Becomes
<1> QED
  BY <1>1, <1>2, <1>10, <1>12, <1>14, <1>15 DEF Around

LEMMA PopEntryGoes ==
  ASSUME Shape, PopEntry
  PROVE  Around
<1> DEFINE popped == Head(queue.q)
           t == popped.type
           e == [popped EXCEPT !.len = LengthOf(popped, program.TypeInfo[t])]
           w == IF program.TypeInfo[t].SerializeBeforeEnqueue THEN writeQueueEntry(mem, buf, e)
                ELSE [b |-> buf, offset |-> 0, ok |-> TRUE]
           x == [m EXCEPT !.chased = e]
           pc == program.TypeInfo[t].EnqueuePc
           y == Runs(x, pc, 0, 0, w.offset, buf.len)
<1>1. sn.phase = "queue" /\ Idle /\ UNCHANGED <<program, cut>> /\ sn' = sn /\ ~Halted
  BY DEF PopEntry, Popping, Fixed, Halted
<1>2. \/ m' = m /\ buf' = buf
      \/ m' = m /\ buf' = w.b
      \/ m' = y /\ buf' = w.b /\ t \in DOMAIN program.TypeInfo /\ pc # 0
  BY DEF PopEntry
<1>3. Becomes(buf, buf) /\ Becomes(buf, w.b)
  BY BufOps, EntryWritten DEF Shape
<1>4. pc # 0 /\ t \in DOMAIN program.TypeInfo => pc \in EntryPcs(program)
  BY DEF EntryPcs
<1> HIDE DEF w, e, popped, t
<1>5. /\ DOMAIN x = DOMAIN m /\ x.stack = m.stack /\ x.walk = m.walk /\ x.crash = m.crash
  BY DEF Shape, IsMachine, MachineFields
<1> HIDE DEF x, pc
<1>6. /\ IsMachine(y) /\ y.stack = m.stack /\ y.walk = m.walk /\ y.crash = m.crash
      /\ ~y.on \/ y.pc = pc
  BY <1>1, <1>5, RunsFrom DEF Shape
<1> HIDE DEF y
<1>7. IsSnapshot(sn) /\ IsMachine(m) /\ ~m.on
  BY <1>1 DEF Shape, Idle
<1>8. CASE m' = m
  BY <1>1, <1>2, <1>3, <1>7, <1>8, MachineLeft
<1>9. CASE m' = y /\ buf' = w.b /\ t \in DOMAIN program.TypeInfo /\ pc # 0
  BY <1>1, <1>3, <1>4, <1>6, <1>7, <1>9, MachineSet
<1> QED
  BY <1>2, <1>8, <1>9

LEMMA FailsGoes ==
  ASSUME Shape, Fails
  PROVE  Around
<1> DEFINE x == [sn EXCEPT !.phase = "failed"]
           y == [m EXCEPT !.on = FALSE]
<1>1. sn' = x /\ m' = y /\ buf' = buf /\ UNCHANGED <<program, cut>>
  BY DEF Fails, Fixed
<1>2. IsSnapshot(x) /\ x.phase = "failed" /\ Becomes(buf, buf)
  BY BufOps DEF Shape, IsSnapshot, SnapshotFields
<1>3. IsMachine(y) /\ y.stack = m.stack /\ y.walk = m.walk /\ y.crash = m.crash /\ ~y.on
  BY DEF Shape, IsMachine, MachineFields
<1> HIDE DEF x, y
<1>4. IsSnapshot(sn)' /\ \E p \in Programs : program' = Loaded(p)
  BY <1>1, <1>2, SnapshotKept
<1>5. Shape'
  BY <1>1, <1>2, <1>3, <1>4 DEF Shape, Becomes
<1>6. Halted => Halted'
  BY <1>1, <1>2 DEF Halted
<1> QED
  BY <1>1, <1>2, <1>3, <1>5, <1>6 DEF Around

LEMMA AroundGoes ==
  ASSUME Shape, Next
  PROVE  Around \/ Step
BY StartGoes, SkipGoroutineGoes, BeginGoroutineGoes, RunFrameGoes, EndGoroutineGoes,
   GoroutinesDoneGoes, PopEntryGoes, FailsGoes DEF Next

-----------------------------------------------------------------------------
(***************************************************************************)
(* The invariant.                                                          *)
(***************************************************************************)
LEMMA ShapeInitially ==
  ASSUME Init
  PROVE  Shape /\ ~m.on /\ m.stack = <<>> /\ m.walk = <<>>
<1>1. IsBuf(buf)
  BY DEF Init, makeOutBuf, IsBuf
<1>2. IsMachine(m) /\ ~m.on /\ m.stack = <<>> /\ m.walk = <<>> /\ cut = FALSE
  <2>1. IsStack(<<>>)
    BY DEF IsStack
  <2> QED
    BY <2>1 DEF Init, MachineInit, IsMachine, MachineFields
<1>3. IsSnapshot(sn) /\ \E p \in Programs : program = Loaded(p)
  BY DEF Init, IsSnapshot, SnapshotFields
<1> QED
  BY <1>1, <1>2, <1>3 DEF Shape

LEMMA ShapeStep ==
  ASSUME Shape, [Next]_vars
  PROVE  Shape' /\ Becomes(buf, buf') /\ program' = program
<1>1. CASE Around
  BY <1>1 DEF Around
<1>2. CASE Step
  <2>1. Keeps /\ cut' \in BOOLEAN /\ m.on
    BY <1>2, StepKeeps, StepKinds DEF Shape
  <2>2. IsSnapshot(sn)' /\ \E p \in Programs : program' = Loaded(p)
    BY <2>1, SnapshotKept DEF Keeps, Shape
  <2> QED
    BY <2>1, <2>2 DEF Shape, Keeps, Becomes
<1>3. CASE UNCHANGED vars
  <2>1. /\ UNCHANGED <<program, m, buf, cut, sn>>
    BY <1>3 DEF vars, machineVars
  <2>2. Becomes(buf, buf)
    BY BufOps DEF Shape
  <2>3. IsSnapshot(sn)' /\ \E p \in Programs : program' = Loaded(p)
    BY <2>1, SnapshotKept DEF Shape
  <2> QED
    BY <2>1, <2>2, <2>3 DEF Shape
<1> QED
  BY <1>1, <1>2, <1>3, AroundGoes

\* isFull is never cleared: the buffer that had no room for something is full until the
\* end, although what is written later is smaller, and although truncate and the removal
\* of a goroutine that did not fit make room again (internal/snapshot/out_buf.go
\* ensureLen, truncate; snapshot.go snapshotGoroutine).
FullStays == [][buf.full => buf'.full]_buf

THEOREM FullIsForGood == Spec => FullStays
<1>1. Init => Shape
  BY ShapeInitially
<1>2. Shape /\ [Next]_vars => Shape'
  BY ShapeStep
<1>3. Shape /\ [Next]_vars => [buf.full => buf'.full]_buf
  BY ShapeStep DEF Becomes
<1> QED
  BY <1>1, <1>2, <1>3, PTL DEF Spec, FullStays

\* While nothing was spoiled, the stack holds what the place of the machine says.
RunsIInv ==
  /\ Shape
  /\ \E depth, called : Balanced(program, depth, called) /\ (OnTrack(depth, called) \/ Spoiled)

LEMMA SpoiledForGood ==
  ASSUME Shape, Spoiled, [Next]_vars
  PROVE  Spoiled'
<1>1. Becomes(buf, buf')
  BY ShapeStep
<1>2. CASE Around
  BY <1>1, <1>2 DEF Around, Spoiled, Becomes
<1>3. CASE Step
  <2>1. Keeps /\ (cut => cut') /\ m.on /\ m.crash = "none"
    BY <1>3, StepKeeps, StepKinds DEF Shape, IsMachine
  <2> QED
    BY <1>1, <2>1 DEF Spoiled, Keeps, Becomes
<1>4. CASE UNCHANGED vars
  BY <1>4 DEF vars, machineVars, Spoiled
<1> QED
  BY <1>2, <1>3, <1>4, AroundGoes

LEMMA AroundOnTrack ==
  ASSUME NEW depth, NEW called, Balanced(program, depth, called), OnTrack(depth, called), Around
  PROVE  OnTrack(depth, called)' \/ Spoiled'
<1>1. program' = program /\ m'.stack = m.stack /\ m'.walk = m.walk
  BY DEF Around
<1>2. Returning(depth)' = Returning(depth)
  BY <1>1 DEF Returning
<1>3. CASE m'.on = m.on /\ m'.pc = m.pc
  <2>1. I' = I
    BY <1>1, <1>3 DEF I
  <2> QED
    BY <1>1, <1>2, <1>3, <2>1 DEF OnTrack, Around
<1>4. CASE Idle /\ ~m'.on
  BY <1>1, <1>4 DEF OnTrack, Idle, Around
<1>5. CASE Idle /\ m'.on /\ m'.pc \in EntryPcs(program)
  <2>1. m'.pc \in DOMAIN depth /\ depth[m'.pc] = 0
    BY <1>5, BalancedDepths
  <2>2. m'.stack = <<>> /\ m'.walk = <<>>
    BY <1>1, <1>5 DEF OnTrack, Idle, Around
  <2>3. Stacked(depth, called, Returning(depth), <<>>, m'.pc)
    BY <2>1, StackedAtEntry
  <2> QED
    BY <1>2, <2>1, <2>2, <2>3 DEF OnTrack
<1>6. CASE sn'.phase = "failed"
  BY <1>6 DEF Spoiled
<1> QED
  BY <1>3, <1>4, <1>5, <1>6 DEF Around

LEMMA RunsInitially ==
  ASSUME \A p \in Programs : \E depth, called : Balanced(Loaded(p), depth, called), Init
  PROVE  RunsIInv
<1>1. Shape /\ ~m.on /\ m.stack = <<>> /\ m.walk = <<>>
  BY ShapeInitially
<1>2. PICK depth, called : Balanced(program, depth, called)
  BY DEF Init
<1>3. OnTrack(depth, called)
  BY <1>1 DEF OnTrack
<1> QED
  BY <1>1, <1>2, <1>3 DEF RunsIInv

LEMMA RunsStep ==
  ASSUME RunsIInv, [Next]_vars
  PROVE  RunsIInv'
<1>1. Shape /\ Shape' /\ program' = program
  BY ShapeStep DEF RunsIInv
<1>2. PICK depth, called : Balanced(program, depth, called) /\ (OnTrack(depth, called) \/ Spoiled)
  BY DEF RunsIInv
<1>3. OnTrack(depth, called)' \/ Spoiled'
  <2>1. CASE Spoiled
    BY <1>1, <2>1, SpoiledForGood
  <2>2. CASE OnTrack(depth, called) /\ Around
    BY <1>2, <2>2, AroundOnTrack
  <2>3. CASE OnTrack(depth, called) /\ Step
    <3>1. Running(depth, called)
      BY <1>1, <1>2, <2>3, StepKinds DEF Running, Shape
    <3> QED
      BY <2>3, <3>1, StepKeepsTrack
  <2>4. CASE OnTrack(depth, called) /\ UNCHANGED vars
    BY <2>4 DEF vars, machineVars, OnTrack, Halted, I, Returning
  <2> QED
    BY <1>1, <1>2, <2>1, <2>2, <2>3, <2>4, AroundGoes
<1>4. Balanced(program, depth, called)'
  BY <1>1, <1>2
<1> QED
  BY <1>1, <1>3, <1>4 DEF RunsIInv

LEMMA RunsIInvImplies ==
  ASSUME RunsIInv
  PROVE  RunsIsolated
<1>1. PICK depth, called : Balanced(program, depth, called) /\ (OnTrack(depth, called) \/ Spoiled)
  BY DEF RunsIInv
<1>2. SUFFICES ASSUME ~cut
               PROVE  /\ Idle /\ ~buf.full /\ sn.phase # "failed" => m.stack = <<>>
                      /\ m.on /\ I.name = "Return" /\ m.stack # <<>> => Top \in ReturnPoints
  BY DEF RunsIsolated
<1>3. Idle /\ ~buf.full /\ sn.phase # "failed" => m.stack = <<>>
  BY <1>1, <1>2 DEF Idle, Spoiled, OnTrack, Halted
<1>4. ASSUME m.on, I.name = "Return", m.stack # <<>>
      PROVE  Top \in ReturnPoints
  <2>1. m.crash = "none" /\ sn.phase # "failed"
    BY <1>4 DEF RunsIInv, Shape, IsMachine
  <2>2. Running(depth, called)
    BY <1>1, <1>2, <1>4, <2>1 DEF Spoiled, Running, RunsIInv, Shape
  <2>3. /\ m.pc \in DOMAIN depth /\ IsStack(m.stack) /\ depth[m.pc] = 0
        /\ Stacked(depth, called, Returning(depth), m.stack, m.pc)
        /\ \A p \in DOMAIN depth : depth[p] \in Nat
    BY <1>4, <2>2, RunningFacts
  <2>4. Returning(depth) \subseteq DOMAIN depth \cap ReturnPoints
    BY <1>1, BalancedReturns
  <2>5. m.stack[Len(m.stack)] \in Returning(depth)
    BY <1>4, <2>3, <2>4, StackedReturn
  <2> QED
    BY <2>4, <2>5 DEF Top
<1> QED
  BY <1>3, <1>4

\* Run does not reset s.stack: a subroutine of any balanced program returns to where it
\* was called, and the program leaves nothing behind for the one that runs next, unless a
\* run was stopped in its middle (internal/snapshot/stack_machine.go Run, ExecuteReturn,
\* and every instruction that pushes or pops).
THEOREM BalancedRunsIsolated ==
  ASSUME \A p \in Programs : \E depth, called : Balanced(Loaded(p), depth, called)
  PROVE  Spec => []RunsIsolated
<1>1. Init => RunsIInv
  BY RunsInitially
<1>2. RunsIInv /\ [Next]_vars => RunsIInv'
  BY RunsStep
<1>3. RunsIInv => RunsIsolated
  BY RunsIInvImplies
<1> QED
  BY <1>1, <1>2, <1>3, PTL DEF Spec

-----------------------------------------------------------------------------
(***************************************************************************)
(* The queue: an object enters it once.                                    *)
(***************************************************************************)
Key(e) == <<e.addr, e.type>>

IsQueue(qu) ==
  /\ DOMAIN qu = {"seen", "q"} /\ IsStack(qu.q)
  /\ \A i \in 1..Len(qu.q) : Key(qu.q[i]) \in qu.seen
  /\ \A i, j \in 1..Len(qu.q) : Key(qu.q[i]) = Key(qu.q[j]) => i = j

\* What of r was seen by qu, qu holds.
NothingAgain(qu, r) ==
  \A i \in 1..Len(r.q) :
    Key(r.q[i]) \in qu.seen => \E j \in 1..Len(qu.q) : Key(qu.q[j]) = Key(r.q[i])

\* r is a queue that qu may become.
Grows(qu, r) == IsQueue(r) /\ qu.seen \subseteq r.seen /\ NothingAgain(qu, r)

LEMMA QueueKept ==
  ASSUME NEW qu, IsQueue(qu)
  PROVE  Grows(qu, qu)
BY DEF Grows, NothingAgain

LEMMA GrowsTransitive ==
  ASSUME NEW qu, NEW r, NEW s, Grows(qu, r), Grows(r, s)
  PROVE  Grows(qu, s)
BY DEF Grows, NothingAgain

LEMMA RecordedGrows ==
  ASSUME NEW qu, IsQueue(qu), NEW a, NEW t
  PROVE  Grows(qu, Recorded(qu, a, t))
<1> DEFINE r == Recorded(qu, a, t)
<1>1. DOMAIN r = {"seen", "q"} /\ r.q = qu.q /\ r.seen = qu.seen \cup {<<a, t>>}
  BY DEF Recorded, IsQueue
<1> HIDE DEF r
<1>2. IsQueue(r)
  BY <1>1 DEF IsQueue
<1>3. NothingAgain(qu, r)
  BY <1>1 DEF NothingAgain
<1>4. qu.seen \subseteq r.seen
  BY <1>1
<1> QED
  BY <1>2, <1>3, <1>4 DEF Grows, r

LEMMA PushGrows ==
  ASSUME NEW qu, IsQueue(qu), NEW a, NEW t, NEW len
  PROVE  Grows(qu, Push(qu, a, t, len))
<1> DEFINE e == Entry(t, len, a)
           r == [Recorded(qu, a, t) EXCEPT !.q = Append(@, e)]
<1>1. CASE ~ShouldRecord(qu, a, t)
  BY <1>1, QueueKept DEF Push
<1>2. CASE ShouldRecord(qu, a, t)
  <2>1. Push(qu, a, t, len) = r
    BY <1>2 DEF Push
  <2>2. DOMAIN r = {"seen", "q"} /\ r.q = Append(qu.q, e) /\ r.seen = qu.seen \cup {<<a, t>>}
    BY DEF Recorded, IsQueue
  <2>3. Key(e) = <<a, t>> /\ <<a, t>> \notin qu.seen
    BY <1>2 DEF Key, Entry, ShouldRecord
  <2> HIDE DEF r, e
  <2>4. /\ IsStack(r.q) /\ Len(r.q) = Len(qu.q) + 1 /\ Len(qu.q) \in Nat
        /\ \A i \in 1..Len(qu.q) : r.q[i] = qu.q[i]
        /\ r.q[Len(qu.q) + 1] = e
    BY <2>2, StackPushed DEF IsQueue
  <2>5. \A i \in 1..Len(r.q) : i \in 1..Len(qu.q) \/ i = Len(qu.q) + 1
    BY <2>4
  <2>6. \A i \in 1..Len(qu.q) : Key(r.q[i]) = Key(qu.q[i]) /\ Key(qu.q[i]) \in qu.seen
    BY <2>4 DEF IsQueue
  <2>7. Key(r.q[Len(qu.q) + 1]) = <<a, t>>
    BY <2>3, <2>4
  <2>8. \A i \in 1..Len(r.q) : Key(r.q[i]) \in r.seen
    BY <2>2, <2>5, <2>6, <2>7
  <2>9. \A i, j \in 1..Len(r.q) : Key(r.q[i]) = Key(r.q[j]) => i = j
    BY <2>3, <2>5, <2>6, <2>7 DEF IsQueue
  <2>10. NothingAgain(qu, r)
    BY <2>3, <2>5, <2>6, <2>7 DEF NothingAgain
  <2> QED
    BY <2>1, <2>2, <2>4, <2>8, <2>9, <2>10 DEF IsQueue, Grows
<1> QED
  BY <1>1, <1>2

LEMMA PoppedGrows ==
  ASSUME NEW qu, IsQueue(qu), qu.q # <<>>
  PROVE  Grows(qu, [qu EXCEPT !.q = Tail(@)])
<1> DEFINE r == [qu EXCEPT !.q = Tail(@)]
<1>1. DOMAIN r = {"seen", "q"} /\ r.q = Tail(qu.q) /\ r.seen = qu.seen
  BY DEF IsQueue
<1>2. PICK S : qu.q \in Seq(S)
  BY DEF IsQueue, IsStack
<1>3. Len(qu.q) \in Nat \ {0}
  BY <1>2
<1>4. /\ Tail(qu.q) \in Seq(S) /\ Len(Tail(qu.q)) = Len(qu.q) - 1
      /\ \A i \in 1..Len(qu.q) - 1 : Tail(qu.q)[i] = qu.q[i + 1]
  BY <1>2, <1>3
<1> HIDE DEF r
<1>5. /\ IsStack(r.q) /\ Len(r.q) = Len(qu.q) - 1
      /\ \A i \in 1..Len(r.q) : r.q[i] = qu.q[i + 1] /\ i + 1 \in 1..Len(qu.q)
  BY <1>1, <1>3, <1>4 DEF IsStack
<1>6. \A i, j \in 1..Len(r.q) : Key(r.q[i]) = Key(r.q[j]) => i = j
  <2> SUFFICES ASSUME NEW i \in 1..Len(r.q), NEW j \in 1..Len(r.q), Key(r.q[i]) = Key(r.q[j])
               PROVE  i = j
    OBVIOUS
  <2>1. i + 1 = j + 1
    BY <1>5 DEF IsQueue
  <2> QED
    BY <1>3, <1>5, <2>1
<1>7. \A i \in 1..Len(r.q) : Key(r.q[i]) = Key(qu.q[i + 1]) /\ i + 1 \in 1..Len(qu.q)
  BY <1>5
<1> QED
  BY <1>1, <1>5, <1>6, <1>7 DEF IsQueue, Grows, NothingAgain

LEMMA ValueQueued ==
  ASSUME NEW s, IsQueue(s.qu), NEW found
  PROVE  Grows(s.qu, RecordValue(s, found).qu)
<1> DEFINE r == found[1]
           t == IF r.spec.Type = 0 THEN r.v.type ELSE r.spec.Type
<1>1. Grows(s.qu, s.qu) /\ Grows(s.qu, Push(s.qu, r.v.addr, t, 0))
  BY QueueKept, PushGrows
<1>2. RecordValue(s, found).qu \in {s.qu, Push(s.qu, r.v.addr, t, 0)}
  BY DEF RecordValue
<1> QED
  BY <1>1, <1>2

\* The instructions, by what they may do to the queue.
LEMMA StepQueues ==
  ASSUME IsQueue(queue), Step
  PROVE  Grows(queue, queue')
<1> USE DEF Then, Pushes, Sets, Writes, Stops, Jumps, Returns, Makes, Walked
<1>0. Grows(queue, queue)
  BY QueueKept
<1>1. CASE Panics \/ Illegal \/ StepLimit \/ Invalid \/ Nothing
  BY <1>0, <1>1 DEF Panics, Illegal, StepLimit, Invalid, Nothing
<1>2. CASE Call \/ Jump \/ CondJump \/ Return \/ DereferencePtr
  BY <1>0, <1>2 DEF Call, Jump, CondJump, Return, DereferencePtr
<1>3. CASE Decrement \/ Pop \/ PushImm \/ PushOffset \/ PushSliceLen \/ SetOffset \/ AdvanceOffset
  BY <1>0, <1>3 DEF Decrement, Pop, PushImm, PushOffset, PushSliceLen, SetOffset, AdvanceOffset
<1>4. CASE EnqueuePointer \/ EnqueueSliceHeader \/ EnqueueStringHeader
  BY <1>0, <1>4, PushGrows DEF EnqueuePointer, EnqueueSliceHeader, EnqueueStringHeader
<1>5. CASE EnqueueSwissMap \/ EnqueueSwissMapGroups
  BY <1>0, <1>5, PushGrows DEF EnqueueSwissMap, EnqueueSwissMapGroups
<1>6. CASE EnqueueEmptyInterface \/ EnqueueInterface
  BY <1>0, <1>6, PushGrows DEF EnqueueEmptyInterface, EnqueueInterface
<1>7. CASE EnqueueSubroutine
  BY <1>0, <1>7, PushGrows DEF EnqueueSubroutine
<1>8. CASE EnqueueHMapHeader
  <2> DEFINE buckets == 2 ^ ByteAt(arg.BOffset)
             same == (ByteAt(arg.FlagsOffset) \div sameSizeGrow) % 2 = 1
             oldBuckets == IF same THEN buckets ELSE buckets \div 2
             q1 == Push(queue, Word(arg.BucketsOffset), arg.BucketsArrayType,
                        buckets * arg.BucketByteLen)
             q2 == Push(q1, Word(arg.OldBucketsOffset), arg.BucketsArrayType,
                        oldBuckets * arg.BucketByteLen)
  <2>1. queue' = q2
    BY <1>8 DEF EnqueueHMapHeader
  <2>2. Grows(queue, q1)
    BY PushGrows
  <2> HIDE DEF q1
  <2>3. Grows(q1, q2)
    BY <2>2, PushGrows DEF Grows
  <2> QED
    BY <2>1, <2>2, <2>3, GrowsTransitive
<1>9. CASE PrepareFrame \/ PreparePointeeData \/ DereferenceCFAOffset \/ CopyFromRegister
  BY <1>0, <1>9 DEF PrepareFrame, PreparePointeeData, DereferenceCFAOffset, CopyFromRegister
<1>10. CASE ConcludeFrame \/ PrepareExprEval \/ SaveExprResult \/ ZeroFill \/ SetPresenceBit
  BY <1>0, <1>10 DEF ConcludeFrame, PrepareExprEval, SaveExprResult, ZeroFill, SetPresenceBit
<1>11. CASE PrepareGoContext \/ FetchContext
  BY <1>0, <1>11, RecordedGrows DEF PrepareGoContext, FetchContext
<1>12. CASE RecordContext
  <2> DEFINE impl == program.TypeInfo[m.walk[1].type].GoContextImpl[1]
             before == [b |-> buf, qu |-> queue, left |-> m.walk[1].left]
             v == Held(impl.ValueOffset)
             byValue == RecordValue(before, FoundByValue(v))
             s == RecordValue(byValue, FoundByKey(v, Held(impl.KeyOffset)))
  <2>1. queue' = s.qu
    BY <1>12 DEF RecordContext
  <2>2. before.qu = queue
    OBVIOUS
  <2> HIDE DEF before, v
  <2>3. Grows(queue, byValue.qu)
    BY <2>2, ValueQueued
  <2> HIDE DEF byValue
  <2>4. Grows(byValue.qu, s.qu)
    BY <2>3, ValueQueued DEF Grows
  <2> QED
    BY <2>1, <2>3, <2>4, GrowsTransitive
<1> QED
  BY <1>1, <1>2, <1>3, <1>4, <1>5, <1>6, <1>7, <1>8, <1>9, <1>10, <1>11, <1>12 DEF Step

\* StaticsPushed is defined by recursion: a set of numbers that holds 0 and every
\* successor holds all.
LEMMA NatInductionSet ==
  ASSUME NEW S, 0 \in S, \A n \in Nat : n \in S => n + 1 \in S
  PROVE  Nat \subseteq S
<1> DEFINE R == OpToRel(<, Nat)
           T == Nat \ S
<1> SUFFICES ASSUME T # {} PROVE FALSE
  OBVIOUS
<1>1. IsWellFoundedOn(R, Nat)
  BY NatLessThanWellFounded
<1>2. \A i, j \in Nat : i < j => <<i, j>> \in R
  BY DEF OpToRel
<1>3. PICK n \in T : \A j \in T : ~ (<<j, n>> \in R)
  <2> HIDE DEF R
  <2> QED
    BY <1>1, WFMin
<1> HIDE DEF R
<1>4. n # 0 /\ n - 1 \in Nat
  OBVIOUS
<1>5. n - 1 \in S
  <2>1. n \in Nat /\ n - 1 < n
    BY <1>4
  <2>2. <<n - 1, n>> \in R
    BY <1>2, <1>4, <2>1
  <2> QED
    BY <1>3, <1>4, <2>2
<1>6. n - 1 + 1 \in S
  BY <1>4, <1>5
<1> QED
  BY <1>4, <1>6

\* The queue after the first n static variables of vs.
IsPushed(g, vs, n) ==
  /\ g = [i \in 0..n |-> g[i]]
  /\ g[0] = queue
  /\ \A i \in 0..n - 1 :
       g[i + 1] = Push(g[i], vs[i + 1].Address + BssShift, vs[i + 1].Type, 0)

LEMMA PushedExists ==
  ASSUME NEW vs, NEW n \in Nat
  PROVE  \E g : IsPushed(g, vs, n)
<1> DEFINE K == {k \in Nat : \E g : IsPushed(g, vs, k)}
<1>1. 0 \in K
  <2> DEFINE g == [i \in 0..0 |-> queue]
  <2>1. IsPushed(g, vs, 0)
    BY DEF IsPushed
  <2> QED
    BY <2>1
<1>2. ASSUME NEW k \in Nat, k \in K
      PROVE  k + 1 \in K
  <2>1. PICK g : IsPushed(g, vs, k)
    BY <1>2
  <2> DEFINE next == Push(g[k], vs[k + 1].Address + BssShift, vs[k + 1].Type, 0)
             h == [i \in 0..k + 1 |-> IF i <= k THEN g[i] ELSE next]
  <2> HIDE DEF K, next
  <2>2. \A i \in 0..k : h[i] = g[i]
    OBVIOUS
  <2>3. h[k + 1] = next
    OBVIOUS
  <2>4. h = [i \in 0..k + 1 |-> h[i]]
    OBVIOUS
  <2> HIDE DEF h
  <2>5. ASSUME NEW i \in 0..k
        PROVE  h[i + 1] = Push(h[i], vs[i + 1].Address + BssShift, vs[i + 1].Type, 0)
    <3>1. CASE i = k
      BY <2>2, <2>3, <3>1 DEF next
    <3>2. CASE i \in 0..k - 1
      <4>1. h[i] = g[i] /\ h[i + 1] = g[i + 1]
        BY <2>2, <3>2
      <4> QED
        BY <2>1, <3>2, <4>1 DEF IsPushed
    <3> QED
      BY <3>1, <3>2
  <2>6. h[0] = queue
    BY <2>1, <2>2 DEF IsPushed
  <2>7. (k + 1) - 1 = k
    OBVIOUS
  <2>8. IsPushed(h, vs, k + 1)
    BY <2>4, <2>5, <2>6, <2>7, Zenon DEF IsPushed
  <2> QED
    BY <2>8 DEF K
<1>3. Nat \subseteq K
  <2> HIDE DEF K
  <2> QED
    BY <1>1, <1>2, NatInductionSet
<1> QED
  BY <1>3

LEMMA StaticsGrow ==
  ASSUME IsQueue(queue), Len(program.RuntimeConfig.StaticVariables) \in Nat
  PROVE  Grows(queue, StaticsPushed)
<1> DEFINE vs == program.RuntimeConfig.StaticVariables
           Solves(f) == f = [i \in 0..Len(vs) |->
                               IF i = 0 THEN queue
                               ELSE Push(f[i - 1], vs[i].Address + BssShift, vs[i].Type, 0)]
           pushed == CHOOSE f : Solves(f)
<1>1. StaticsPushed = pushed[Len(vs)]
  BY DEF StaticsPushed
<1>2. PICK g : IsPushed(g, vs, Len(vs))
  BY PushedExists
<1>3. Solves(g)
  <2>1. ASSUME NEW i \in 0..Len(vs), i # 0
        PROVE  g[i] = Push(g[i - 1], vs[i].Address + BssShift, vs[i].Type, 0)
    <3>1. i - 1 \in 0..Len(vs) - 1 /\ i - 1 + 1 = i
      BY <2>1
    <3> QED
      BY <1>2, <3>1 DEF IsPushed
  <2>2. \A i \in 0..Len(vs) :
           g[i] = IF i = 0 THEN queue
                  ELSE Push(g[i - 1], vs[i].Address + BssShift, vs[i].Type, 0)
    BY <1>2, <2>1 DEF IsPushed
  <2>3. g = [i \in 0..Len(vs) |-> g[i]]
    BY <1>2 DEF IsPushed
  <2> QED
    BY <2>2, <2>3
<1>4. Solves(pushed)
  BY <1>3
<1> HIDE DEF pushed
<1>5. \A i \in 0..Len(vs) :
         pushed[i] = IF i = 0 THEN queue
                     ELSE Push(pushed[i - 1], vs[i].Address + BssShift, vs[i].Type, 0)
  BY <1>4, Zenon
<1> HIDE DEF vs
<1> DEFINE K == {k \in Nat : k <= Len(vs) => Grows(queue, pushed[k])}
<1>6. 0 \in K
  <2>1. pushed[0] = queue
    BY <1>5 DEF vs
  <2> QED
    BY <2>1, QueueKept
<1>7. ASSUME NEW k \in Nat, k \in K, k + 1 <= Len(vs)
      PROVE  Grows(queue, pushed[k + 1])
  <2>1. Grows(queue, pushed[k])
    BY <1>7 DEF vs
  <2>2. k + 1 \in 0..Len(vs) /\ k + 1 # 0 /\ (k + 1) - 1 = k
    <3> HIDE DEF K
    <3> QED
      BY <1>7 DEF vs
  <2>3. pushed[k + 1] = Push(pushed[(k + 1) - 1], vs[k + 1].Address + BssShift, vs[k + 1].Type, 0)
    BY <1>5, <2>2, Zenon
  <2>4. Grows(pushed[k], pushed[k + 1])
    BY <2>1, <2>2, <2>3, PushGrows DEF Grows
  <2> QED
    BY <2>1, <2>4, GrowsTransitive
<1>8. \A k \in Nat : k \in K => k + 1 \in K
  BY <1>7
<1>9. Nat \subseteq K
  <2> HIDE DEF K
  <2> QED
    BY <1>6, <1>8, NatInductionSet
<1>10. Len(vs) \in K
  BY <1>9 DEF vs
<1> QED
  BY <1>1, <1>10 DEF vs

\* No instruction changes the program, or what is in memory.
LEMMA StepFixes ==
  ASSUME Step
  PROVE  program' = program /\ mem' = mem
<1> USE DEF Fixed, Then, Pushes, Sets, Writes, Stops, Jumps, Returns, Makes, Walked
<1>1. CASE Panics \/ Illegal \/ StepLimit \/ Invalid \/ Nothing
  BY <1>1 DEF Panics, Illegal, StepLimit, Invalid, Nothing
<1>2. CASE Call \/ Jump \/ CondJump \/ Return \/ DereferencePtr
  BY <1>2 DEF Call, Jump, CondJump, Return, DereferencePtr
<1>3. CASE Decrement \/ Pop \/ PushImm \/ PushOffset \/ PushSliceLen \/ SetOffset \/ AdvanceOffset
  BY <1>3 DEF Decrement, Pop, PushImm, PushOffset, PushSliceLen, SetOffset, AdvanceOffset
<1>4. CASE EnqueuePointer \/ EnqueueSliceHeader \/ EnqueueStringHeader \/ EnqueueHMapHeader
  BY <1>4 DEF EnqueuePointer, EnqueueSliceHeader, EnqueueStringHeader, EnqueueHMapHeader
<1>5. CASE EnqueueSwissMap \/ EnqueueSwissMapGroups
  BY <1>5 DEF EnqueueSwissMap, EnqueueSwissMapGroups
<1>6. CASE EnqueueEmptyInterface \/ EnqueueInterface \/ EnqueueSubroutine
  BY <1>6 DEF EnqueueEmptyInterface, EnqueueInterface, EnqueueSubroutine
<1>7. CASE PrepareFrame \/ PreparePointeeData \/ DereferenceCFAOffset \/ CopyFromRegister
  BY <1>7 DEF PrepareFrame, PreparePointeeData, DereferenceCFAOffset, CopyFromRegister
<1>8. CASE ConcludeFrame \/ PrepareExprEval \/ SaveExprResult \/ ZeroFill \/ SetPresenceBit
  BY <1>8 DEF ConcludeFrame, PrepareExprEval, SaveExprResult, ZeroFill, SetPresenceBit
<1>9. CASE PrepareGoContext \/ FetchContext \/ RecordContext
  BY <1>9 DEF PrepareGoContext, FetchContext, RecordContext
<1> QED
  BY <1>1, <1>2, <1>3, <1>4, <1>5, <1>6, <1>7, <1>8, <1>9 DEF Step

LEMMA StaticsAreSequence ==
  ASSUME \E p \in Programs : program = Loaded(p)
  PROVE  Len(program.RuntimeConfig.StaticVariables) \in Nat
<1>1. PICK p \in Programs : program = Loaded(p)
  OBVIOUS
<1>2. SnapshotProgram(p) /\ program.RuntimeConfig = p.RuntimeConfig
  BY <1>1, ProgramAssumption DEF Loaded, SnapshotProgram
<1> DEFINE vs == program.RuntimeConfig.StaticVariables
<1>3. vs \in Seq(Values(vs))
  BY <1>2 DEF SnapshotProgram, RuntimeConfig
<1> HIDE DEF vs
<1>4. Len(vs) \in Nat
  BY <1>3
<1> QED
  BY <1>4 DEF vs

QueueIInv == IsQueue(queue) /\ \E p \in Programs : program = Loaded(p)

LEMMA QueueInitially ==
  ASSUME Init
  PROVE  QueueIInv
<1>1. IsStack(<<>>)
  BY DEF IsStack
<1> QED
  BY <1>1 DEF Init, MachineInit, makeQueue, IsQueue, QueueIInv

LEMMA QueueStep ==
  ASSUME QueueIInv, [Next]_vars
  PROVE  Grows(queue, queue') /\ program' = program
<1>0. IsQueue(queue) /\ Grows(queue, queue)
  BY QueueKept DEF QueueIInv
<1>1. CASE Rejects \/ Start
  <2>1. Grows(queue, StaticsPushed)
    BY <1>0, StaticsGrow, StaticsAreSequence DEF QueueIInv
  <2> QED
    BY <1>0, <1>1, <2>1 DEF Rejects, Start, NoSnapshot, Fixed
<1>2. CASE SkipGoroutine \/ BeginGoroutine \/ RunFrame \/ EndGoroutine
  BY <1>0, <1>2 DEF SkipGoroutine, BeginGoroutine, RunFrame, EndGoroutine, Goroutine, Fixed
<1>3. CASE GoroutinesDone \/ QueueDone \/ Fails
  BY <1>0, <1>3 DEF GoroutinesDone, QueueDone, Fails, Goroutine, Fixed
<1>4. CASE PopEntry
  BY <1>0, <1>4, PoppedGrows DEF PopEntry, Popping, Fixed
<1>5. CASE Step
  <2>1. program' = program
    BY <1>5, StepFixes
  <2> QED
    BY <1>0, <1>5, <2>1, StepQueues
<1>6. CASE UNCHANGED vars
  BY <1>0, <1>6 DEF vars, machineVars
<1> QED
  BY <1>1, <1>2, <1>3, <1>4, <1>5, <1>6 DEF Next

\* No two entries of the queue are the same object of the same type, and what was queued
\* once is never queued again, also after it was taken out, by whichever instruction, Go
\* context or static variable it is reached (internal/snapshot/queue.go ShouldRecord, Push,
\* Pop).  With this a program that writes one entry for each object it is run on writes
\* none twice.
Distinct == \A i, j \in 1..Len(queue.q) : Key(queue.q[i]) = Key(queue.q[j]) => i = j

NeverAgain == [][queue.seen \subseteq queue'.seen /\ NothingAgain(queue, queue')]_queue

THEOREM QueuedOnce == Spec => []Distinct /\ NeverAgain
<1>1. Init => QueueIInv
  BY QueueInitially
<1>2. QueueIInv /\ [Next]_vars => QueueIInv'
  BY QueueStep DEF QueueIInv, Grows
<1>3. QueueIInv => Distinct
  BY DEF QueueIInv, IsQueue, Distinct
<1>4. QueueIInv /\ [Next]_vars =>
        [queue.seen \subseteq queue'.seen /\ NothingAgain(queue, queue')]_queue
  BY QueueStep DEF Grows
<1> QED
  BY <1>1, <1>2, <1>3, <1>4, PTL DEF Spec, NeverAgain
=============================================================================
