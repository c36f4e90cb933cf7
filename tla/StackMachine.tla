---------------------------- MODULE StackMachine ----------------------------
(***************************************************************************)
(* The stack machine of a snapshot (internal/snapshot/stack_machine.go):   *)
(* one action per instruction.  A program writes the data of a frame, or   *)
(* looks through an object that is in the buffer already, and queues the   *)
(* objects to which it leads.                                              *)
(*                                                                         *)
(* The machine is not reset between two runs: its value stack, and the     *)
(* place of the results, are those that the run before left.               *)
(***************************************************************************)
EXTENDS OpDecoder, OutBuf

CONSTANTS
  GoTypesRange,  \* types and etypes of the module data
  BssShift,      \* bssAddrShift
  MaxSteps       \* 100000 in the code

ASSUME MachineAssumption == GoTypesRange \in Nat \X Nat /\ BssShift \in Int /\ MaxSteps \in Nat

VARIABLES
  program,  \* the SnapshotProgram, its instructions decoded
  mem,      \* what the process has in memory
  m,        \* the machine
  buf,      \* outBuf
  queue,    \* queue
  cut,      \* a run was stopped by MaxSteps
  sn        \* the snapshot for which it runs: no instruction changes it

machineVars == <<m, buf, queue, cut>>

\* What the program says, and what the process has in memory, does not change.
Fixed == UNCHANGED <<program, mem>>

(***************************************************************************)
(* A SnapshotProgram (snapshotpb): a field that may be missing is a        *)
(* sequence of at most one value.                                          *)
(***************************************************************************)
MaxUint == 2147483647
Uint(n) == n \in 0..MaxUint
Values(field) == {field[i] : i \in DOMAIN field}
Optional(field) == field = <<>> \/ DOMAIN field = {1}

GoContextImpl(i) ==
  /\ Optional(i.ContextOffset) /\ Optional(i.KeyOffset) /\ Optional(i.ValueOffset)
  /\ \A o \in Values(i.ContextOffset) \cup Values(i.KeyOffset) \cup Values(i.ValueOffset) :
       Uint(o)

GoContextValueType(s) == Uint(s.Index) /\ Uint(s.Offset) /\ Uint(s.Type)

TypeInfo(t) ==
  /\ Uint(t.EnqueuePc) /\ Uint(t.ByteLen) /\ t.SerializeBeforeEnqueue \in BOOLEAN
  /\ Optional(t.GoContextImpl) /\ Optional(t.GoContextKey) /\ Optional(t.GoContextValue)
  /\ \A i \in Values(t.GoContextImpl) : GoContextImpl(i)
  /\ \A s \in Values(t.GoContextKey) \cup Values(t.GoContextValue) : GoContextValueType(s)
  /\ Uint(t.GoContextKeyValueType)

\* The targets are sorted, which sort.Search relies on.
PcClassifier(c) ==
  /\ c.TargetPc \in Seq(0..MaxUint) /\ c.ProgPc \in Seq(0..MaxUint)
  /\ Len(c.TargetPc) = Len(c.ProgPc)
  /\ \A i \in 2..Len(c.TargetPc) : c.TargetPc[i - 1] <= c.TargetPc[i]

\* Both arrays at once: the type by the entry pc.
SubroutineClassifier(c) ==
  /\ Uint(c.Unresolved)
  /\ \A pc \in DOMAIN c.Types : Uint(pc) /\ Uint(c.Types[pc])

StaticVariable(v) == Uint(v.Address) /\ Uint(v.Type)

RuntimeConfig(c) ==
  /\ Uint(c.StopTheWorldStartAddr) /\ Uint(c.StartTheWorldStartAddr)
  /\ Uint(c.VariableRuntimeDotAllgs) /\ Uint(c.GoRuntimeBssAddress)
  /\ c.StaticVariables \in Seq(Values(c.StaticVariables))
  /\ \A v \in Values(c.StaticVariables) : StaticVariable(v)

SnapshotProgram(p) ==
  /\ DOMAIN p = {"RuntimeConfig", "PcClassifier", "SubroutineClassifier",
                 "GoRuntimeTypeToTypeId", "TypeInfo", "Prog"}
  /\ RuntimeConfig(p.RuntimeConfig)
  /\ PcClassifier(p.PcClassifier)
  /\ SubroutineClassifier(p.SubroutineClassifier)
  /\ \A g \in DOMAIN p.GoRuntimeTypeToTypeId : Uint(g) /\ Uint(p.GoRuntimeTypeToTypeId[g])
  /\ \A t \in DOMAIN p.TypeInfo : Uint(t) /\ TypeInfo(p.TypeInfo[t])
  /\ p.Prog \in Seq(Bytes)

\* The instruction at each place, misaligned or not.
Loaded(p) == [p EXCEPT !.Prog = [pc \in 0..Len(@) |-> Decode(@, pc)]]
ProgLen == Cardinality(DOMAIN program.Prog) - 1
I == program.Prog[m.pc]
arg == I.arg

MachineInit ==
  /\ m = [on |-> FALSE, ok |-> TRUE, pc |-> 0, steps |-> 0, stack |-> <<>>, depth |-> 0,
          offset |-> 0, cfa |-> 0, frame |-> 0, results |-> 0, resultsEnd |-> 0,
          exprType |-> "Frame", rootAddr |-> 0, chased |-> Entry(0, 0, 0),
          base |-> 0, walk |-> <<>>, crash |-> "none"]
  /\ queue = makeQueue
  /\ cut = FALSE

-----------------------------------------------------------------------------
\* The machine is at an instruction of this name.
At(name) == m.on /\ m.walk = <<>> /\ m.steps < MaxSteps /\ I.name = name

\* The instruction is done: registers, buffer and queue afterwards.
Then(x, b, qu) ==
  /\ m' = [x EXCEPT !.pc = I.next, !.steps = @ + 1]
  /\ buf' = b
  /\ queue' = qu
  /\ Fixed /\ UNCHANGED <<cut, sn>>

Pushes(a, t, len) == Then(m, buf, Push(queue, a, t, len))
Writes(x, b) == Then(x, b, queue)
Sets(x) == Then(x, buf, queue)

\* Run returns ok.
Stops(ok, b) ==
  /\ m' = [m EXCEPT !.on = FALSE, !.ok = ok]
  /\ buf' = b
  /\ Fixed /\ UNCHANGED <<queue, cut, sn>>

\* SetPC, and what becomes of the registers when it succeeds.
Jumps(x, pc, b) ==
  IF pc \notin 0..ProgLen - 1 THEN Stops(FALSE, b)
  ELSE /\ m' = [x EXCEPT !.pc = pc, !.steps = @ + 1]
       /\ buf' = b
       /\ Fixed /\ UNCHANGED <<queue, cut, sn>>

Top == m.stack[Len(m.stack)]
Below == SubSeq(m.stack, 1, Len(m.stack) - 1)
Popped == [m EXCEPT !.stack = Below]
Replaced(v) == [m EXCEPT !.stack = Append(Below, v)]
Pushed(v) == [m EXCEPT !.stack = Append(@, v)]

\* ExecuteReturn.
Returns(b) ==
  IF m.stack = <<>> THEN Stops(TRUE, b) ELSE Jumps(Popped, Top, b)

\* The word, or the byte, that s.offset, or a place after it, points to.
Word(n) == Get(buf, m.offset + n)
ByteAt(n) == Word(n) % 256

\* ResolveTypeAddressToGoRuntimeTypeId, then ResolveGoRuntimeTypeToTypeId.
GoRuntimeType(a) ==
  IF a < GoTypesRange[1] \/ a >= GoTypesRange[2] THEN 0 ELSE a - GoTypesRange[1]
TypeId(goType) ==
  IF goType \in DOMAIN program.GoRuntimeTypeToTypeId
  THEN program.GoRuntimeTypeToTypeId[goType] ELSE 0

-----------------------------------------------------------------------------
(***************************************************************************)
(* Control.  A program that pops or reads an empty stack, or that leaves   *)
(* its bytes, panics.                                                      *)
(***************************************************************************)
NeedsTop == {"CondJump", "Decrement", "EnqueueHMapHeader", "Pop", "SetOffset"}

Panics ==
  /\ m.on /\ m.walk = <<>> /\ m.steps < MaxSteps
  /\ \/ I.name \in NeedsTop /\ m.stack = <<>>
     \/ I.name = "PastTheEnd"
     \/ I.name = "SaveExprResult"
        /\ CopyPanics(buf, m.offset, m.results + arg.ResultOffset, arg.ByteLen)
     \/ I.name = "PushSliceLen" /\ arg.ElemByteLen = 0
  /\ m' = [m EXCEPT !.on = FALSE, !.ok = FALSE, !.crash = "panic"]
  /\ Fixed /\ UNCHANGED <<buf, queue, cut, sn>>

\* "This should be totally bogus": the read faults.
Illegal ==
  /\ At("Illegal")
  /\ m' = [m EXCEPT !.on = FALSE, !.ok = FALSE, !.crash = "fault"]
  /\ Fixed /\ UNCHANGED <<buf, queue, cut, sn>>

StepLimit ==
  /\ m.on /\ m.walk = <<>> /\ m.steps = MaxSteps
  /\ m' = [m EXCEPT !.on = FALSE, !.ok = FALSE]
  /\ cut' = TRUE
  /\ Fixed /\ UNCHANGED <<buf, queue, sn>>

Invalid == At("Invalid") /\ Stops(FALSE, buf)

Nothing == At("Nothing") /\ Sets(m)

Call == At("Call") /\ Jumps(Pushed(I.next), arg.Pc, buf)

Jump == At("Jump") /\ Jumps(m, arg.Pc, buf)

CondJump ==
  /\ At("CondJump") /\ m.stack # <<>>
  /\ IF Top # 0 THEN Jumps(m, arg.Pc, buf) ELSE Sets(m)

Decrement == At("Decrement") /\ m.stack # <<>> /\ Sets(Replaced(Top - 1))

\* Mutant: the counter of a loop is left behind.
PopNothing == At("Pop") /\ m.stack # <<>> /\ Sets(m)

Pop == At("Pop") /\ m.stack # <<>> /\ Sets(Popped)

PushImm == At("PushImm") /\ Sets(Pushed(arg.Value))

PushOffset == At("PushOffset") /\ Sets(Pushed(m.offset))

PushSliceLen ==
  /\ At("PushSliceLen") /\ arg.ElemByteLen # 0
  /\ Sets(Pushed(GetEntryLen(buf, m.offset) \div arg.ElemByteLen))

Return == At("Return") /\ Returns(buf)

SetOffset == At("SetOffset") /\ m.stack # <<>> /\ Sets([m EXCEPT !.offset = Top])

AdvanceOffset == At("AdvanceOffset") /\ Sets([m EXCEPT !.offset = @ + arg.Increment])

-----------------------------------------------------------------------------
(***************************************************************************)
(* Queueing what the data at the offset refers to.                         *)
(***************************************************************************)
EnqueuePointer ==
  /\ At("EnqueuePointer")
  /\ IF arg.ElemType = 0 THEN Stops(FALSE, buf) ELSE Pushes(Word(0), arg.ElemType, 0)

\* The type word becomes the run-time type.
EnqueueEmptyInterface ==
  /\ At("EnqueueEmptyInterface")
  /\ LET goType == GoRuntimeType(Word(0))
         b == Put(buf, m.offset, 8, goType)
     IN IF Word(0) = 0 THEN Sets(m)
        ELSE IF TypeId(goType) = 0 THEN Writes(m, b)
        ELSE Then(m, b, Push(queue, Word(8), TypeId(goType), 0))

\* The itab is replaced by the type it points to, or zeroed.
EnqueueInterface ==
  /\ At("EnqueueInterface")
  /\ LET d == Dereference(mem, buf, m.offset, Word(0) + 8, 8)
         goType == GoRuntimeType(Get(d.b, m.offset))
         b == Put(d.b, m.offset, 8, goType)
     IN IF Word(0) = 0 THEN Sets(m)
        ELSE IF ~d.ok THEN Writes(m, d.b)
        ELSE IF TypeId(goType) = 0 THEN Writes(m, b)
        ELSE Then(m, b, Push(queue, Word(8), TypeId(goType), 0))

EnqueueSliceHeader ==
  /\ At("EnqueueSliceHeader")
  /\ IF Word(8) > 0 /\ arg.ElemByteLen > 0
     THEN Pushes(Word(0), arg.ArrayType, Word(8) * arg.ElemByteLen) ELSE Sets(m)

EnqueueStringHeader ==
  /\ At("EnqueueStringHeader")
  /\ IF Word(8) > 0 THEN Pushes(Word(0), arg.StringDataType, Word(8)) ELSE Sets(m)

\* Both bucket arrays at once; the counter of the loop is cleared.
sameSizeGrow == 8
EnqueueHMapHeader ==
  /\ At("EnqueueHMapHeader") /\ m.stack # <<>>
  /\ LET buckets == 2 ^ ByteAt(arg.BOffset)
         same == (ByteAt(arg.FlagsOffset) \div sameSizeGrow) % 2 = 1
         oldBuckets == IF same THEN buckets ELSE buckets \div 2
         PushBuckets(qu, a, n) == Push(qu, a, arg.BucketsArrayType, n * arg.BucketByteLen)
     IN Then(Replaced(0), buf,
             PushBuckets(PushBuckets(queue, Word(arg.BucketsOffset), buckets),
                         Word(arg.OldBucketsOffset), oldBuckets))

EnqueueSwissMap ==
  /\ At("EnqueueSwissMap")
  /\ LET dirPtr == Word(arg.DirPtrOffset)
         dirLen == Word(arg.DirLenOffset)
     IN IF dirLen > 0 THEN Pushes(dirPtr, arg.TablePtrSliceType, 8 * dirLen)
        ELSE Pushes(dirPtr, arg.GroupType, 0)

EnqueueSwissMapGroups ==
  /\ At("EnqueueSwissMapGroups")
  /\ Pushes(Word(arg.DataOffset), arg.GroupSliceType,
            arg.GroupByteLen * (Word(arg.LengthMaskOffset) + 1))

\* The closure is written as an unknown subroutine, unless its entry pc is known.
EnqueueSubroutine ==
  /\ At("EnqueueSubroutine")
  /\ LET w == writeQueueEntry(mem, buf, Entry(program.SubroutineClassifier.Unresolved, 8, Word(0)))
         entryPc == Get(w.b, w.offset) - BssShift
         b == Put(w.b, w.offset, 8, entryPc)
     IN IF ~w.ok THEN Writes(m, w.b)
        ELSE IF entryPc \in DOMAIN program.SubroutineClassifier.Types
             THEN Then(m, Truncate(b, buf.len),
                       Push(queue, Word(0), program.SubroutineClassifier.Types[entryPc], 0))
             ELSE Writes(m, b)

-----------------------------------------------------------------------------
(***************************************************************************)
(* Expressions: results go to the frame's data, or to that of the object   *)
(* chased; operands are kept behind the end and given back.                *)
(***************************************************************************)
PrepareFrame ==
  /\ At("PrepareFrameData")
  /\ LET f == PrepareFrameData(buf, arg.TypeID, arg.ProgID, arg.DataByteLen, m.depth) IN
     IF f.ok THEN Writes([m EXCEPT !.frame = buf.len, !.exprType = "Frame",
                                   !.results = f.offset, !.offset = f.offset], f.b)
     ELSE Stops(FALSE, f.b)

ConcludeFrame == At("ConcludeFrameData") /\ Writes(m, ConcludeFrameData(buf, m.frame))

PreparePointeeData ==
  /\ At("PreparePointeeData")
  /\ LET r == reserveQueueEntry(buf, m.chased) IN
     IF r.ok THEN Writes([m EXCEPT !.exprType = "Pointer", !.results = r.offset,
                                   !.rootAddr = m.chased.addr, !.offset = r.offset],
                         Zero(r.b, r.offset, m.chased.len))
     ELSE Stops(FALSE, r.b)

\* The root of an expression on a pointee is written behind the end without room
\* having been made for it.
PrepareExprEval ==
  /\ At("PrepareExprEval")
  /\ Writes([m EXCEPT !.resultsEnd = buf.len, !.offset = buf.len],
            IF m.exprType = "Pointer" THEN Put(buf, buf.len, 8, m.rootAddr) ELSE buf)

\* Room is made at the offset, then used.
Makes(n, b) ==
  IF HasRoom(buf, m.offset + n) THEN Writes(m, b)
  ELSE Stops(FALSE, EnsureLen(buf, m.offset + n))

DereferenceCFAOffset ==
  /\ At("DereferenceCFAOffset")
  /\ Makes(arg.ByteLen,
           Dereference(mem, EnsureLen(buf, m.offset + arg.ByteLen), m.offset,
                       m.cfa + arg.Offset + arg.PointerBias, arg.ByteLen).b)

CopyFromRegister ==
  /\ At("CopyFromRegister")
  /\ Makes(arg.ByteSize, Zero(EnsureLen(buf, m.offset + arg.ByteSize), m.offset, arg.ByteSize))

\* Mutant: the operands stay.
DereferencePtrKeeping ==
  /\ At("DereferencePtr")
  /\ LET a == Word(0) + arg.Bias
         w == writeQueueEntry(mem, buf, Entry(0, arg.ByteLen, a))
     IN IF w.ok THEN Writes([m EXCEPT !.offset = w.offset], w.b) ELSE Returns(w.b)

\* Nil, or memory that cannot be read: the operands are given back and the
\* subroutine that evaluates the expression returns.
DereferencePtr ==
  /\ At("DereferencePtr")
  /\ LET a == Word(0) + arg.Bias
         w == IF a = 0 THEN [b |-> buf, offset |-> 0, ok |-> FALSE]
              ELSE writeQueueEntry(mem, buf, Entry(0, arg.ByteLen, a))
     IN IF w.ok THEN Writes([m EXCEPT !.offset = w.offset], w.b)
        ELSE Returns(Truncate(w.b, m.resultsEnd))

\* Mutant: the result is saved at the start of the results of the run before.
SaveExprResultLate ==
  /\ At("SaveExprResult")
  /\ Writes([m EXCEPT !.offset = m.results + arg.ResultOffset],
            Truncate(Copy(buf, m.offset, arg.ResultOffset, arg.ByteLen), m.resultsEnd))

SaveExprResult ==
  /\ At("SaveExprResult")
  /\ LET to == m.results + arg.ResultOffset IN
     /\ ~CopyPanics(buf, m.offset, to, arg.ByteLen)
     /\ Writes([m EXCEPT !.offset = to],
               Truncate(Copy(buf, m.offset, to, arg.ByteLen), m.resultsEnd))

ZeroFill == At("ZeroFill") /\ Writes(m, Zero(buf, m.offset, arg.ByteLen))

SetPresenceBit ==
  /\ At("SetPresenceBit")
  /\ LET o == m.results + arg.BitOffset \div 8
         bit == 2 ^ (arg.BitOffset % 8)
         byte == Get(buf, o)
     IN Writes(m, IF (byte \div bit) % 2 = 1 THEN buf ELSE Put(buf, o, 1, byte + bit))

-----------------------------------------------------------------------------
(***************************************************************************)
(* Go contexts: an object is made up for the chain of contexts behind an   *)
(* interface, at the address of the first; the chain is walked for the     *)
(* values the object has fields for, `left' of them.  A step of the walk   *)
(* is an action; the instruction is over when there is no step left.       *)
(***************************************************************************)
NoContext == -1

PrepareGoContext ==
  /\ At("PrepareGoContext")
  /\ LET data == Word(8)
         w == writeQueueEntry(mem, buf, Entry(arg.TypeID, arg.DataByteLen, data))
         qu == Recorded(queue, data, arg.TypeID)
     IN IF ~ShouldRecord(queue, data, arg.TypeID) THEN Sets(m)
        ELSE IF ~w.ok THEN Then(m, w.b, qu)
        ELSE /\ m' = [m EXCEPT !.walk = <<[context |-> w.offset, end |-> w.b.len,
                                           at |-> NoContext, type |-> 0,
                                           left |-> 0..arg.CaptureCount - 1]>>]
             /\ buf' = Zero(w.b, w.offset, arg.DataByteLen)
             /\ queue' = qu
             /\ Fixed /\ UNCHANGED <<cut, sn>>

\* The walk is over: what was fetched is given back, the offset stays where it is.
Walked(x, b, qu) == Then([x EXCEPT !.walk = <<>>], Truncate(b, m.walk[1].end), qu)

\* resolveAnyType: the value of an interface at o, if its type is described.
AnyType(b, o) ==
  LET goType == GoRuntimeType(Get(b, o))
      t == TypeId(goType)
  IN IF Get(b, o) = 0 \/ t = 0 \/ t \notin DOMAIN program.TypeInfo THEN <<>>
     ELSE <<[addr |-> Get(b, o + 8), goType |-> goType, type |-> t, info |-> program.TypeInfo[t]]>>

\* The next interface of the chain: the context behind it is written at the end.
FetchContext ==
  /\ m.on /\ m.walk # <<>> /\ m.walk[1].at = NoContext
  /\ LET d == Dereference(mem, buf, m.offset, Word(0) + 8, 8)
         t == TypeId(GoRuntimeType(Get(d.b, m.offset)))
         e == writeQueueEntry(mem, d.b, Entry(t, program.TypeInfo[t].ByteLen, Word(8)))
     IN IF m.walk[1].left = {} \/ Word(0) = 0 THEN Walked(m, buf, queue)
        ELSE IF ~d.ok \/ t \notin DOMAIN program.TypeInfo THEN Walked(m, d.b, queue)
        ELSE IF program.TypeInfo[t].GoContextImpl = <<>> THEN Walked(m, d.b, queue)
        ELSE IF ~e.ok THEN Walked([m EXCEPT !.offset = 0], e.b, queue)
        ELSE /\ m' = [m EXCEPT !.walk[1].at = e.offset, !.walk[1].type = t]
             /\ buf' = e.b
             /\ Fixed /\ UNCHANGED <<queue, cut, sn>>

\* What the context fetched holds, by the value's type and by its key's, and whether the
\* value has the type that the key asks for.
Held(at) == IF at = <<>> THEN <<>> ELSE AnyType(buf, m.walk[1].at + at[1])
As(spec, v, expected) == <<[spec |-> spec, v |-> v, wanted |-> expected \in {0, v.type}]>>

FoundByValue(v) ==
  IF v = <<>> THEN <<>> ELSE IF v[1].info.GoContextValue = <<>> THEN <<>>
  ELSE As(v[1].info.GoContextValue[1], v[1], 0)

FoundByKey(v, k) ==
  IF v = <<>> \/ k = <<>> THEN <<>> ELSE IF k[1].info.GoContextKey = <<>> THEN <<>>
  ELSE As(k[1].info.GoContextKey[1], v[1], k[1].info.GoContextKeyValueType)

\* recordGoContextValue, unless the field is there already: the value's address and type
\* go to the field, and the value is queued.  s has the buffer, the queue and the fields
\* that are left.
RecordValue(s, found) ==
  LET r == found[1]
      o == m.walk[1].context + r.spec.Offset
      t == IF r.spec.Type = 0 THEN r.v.type ELSE r.spec.Type
  IN IF found = <<>> THEN s ELSE IF r.spec.Index \notin s.left THEN s
     ELSE [b |-> Put(Put(s.b, o, 8, r.v.addr), o + 8, 8, r.v.goType),
           qu |-> IF r.wanted THEN Push(s.qu, r.v.addr, t, 0) ELSE s.qu,
           left |-> s.left \ {r.spec.Index}]

RecordContext ==
  /\ m.on /\ m.walk # <<>> /\ m.walk[1].at # NoContext
  /\ LET w == m.walk[1]
         impl == program.TypeInfo[w.type].GoContextImpl[1]
         before == [b |-> buf, qu |-> queue, left |-> w.left]
         v == Held(impl.ValueOffset)
         byValue == RecordValue(before, FoundByValue(v))
     IN \E s \in {RecordValue(byValue, FoundByKey(v, Held(impl.KeyOffset)))} :
          IF impl.ContextOffset = <<>> THEN Walked([m EXCEPT !.offset = w.at], s.b, s.qu)
          ELSE /\ m' = [m EXCEPT !.offset = w.at + impl.ContextOffset[1],
                                 !.walk[1].at = NoContext, !.walk[1].left = s.left]
               /\ buf' = s.b
               /\ queue' = s.qu
               /\ Fixed /\ UNCHANGED <<cut, sn>>

-----------------------------------------------------------------------------
Step ==
  \/ Panics \/ Illegal \/ StepLimit \/ Invalid \/ Nothing
  \/ Call \/ Jump \/ CondJump \/ Decrement \/ Pop \/ PushImm \/ PushOffset \/ PushSliceLen
  \/ Return \/ SetOffset \/ AdvanceOffset
  \/ EnqueuePointer \/ EnqueueEmptyInterface \/ EnqueueInterface \/ EnqueueSliceHeader
  \/ EnqueueStringHeader \/ EnqueueHMapHeader \/ EnqueueSwissMap \/ EnqueueSwissMapGroups
  \/ EnqueueSubroutine
  \/ PrepareFrame \/ ConcludeFrame \/ PreparePointeeData \/ PrepareExprEval
  \/ DereferenceCFAOffset \/ CopyFromRegister \/ DereferencePtr \/ SaveExprResult
  \/ ZeroFill \/ SetPresenceBit \/ PrepareGoContext \/ FetchContext \/ RecordContext

\* Run: x is the machine, b the buffer with which it starts.  `base' remembers where
\* the run's own part of the buffer begins.
Runs(x, pc, cfa, depth, offset, base) ==
  IF pc \notin 0..ProgLen - 1 THEN [x EXCEPT !.on = FALSE, !.ok = FALSE]
  ELSE [x EXCEPT !.on = TRUE, !.ok = TRUE, !.pc = pc, !.steps = 0, !.cfa = cfa,
                 !.depth = depth, !.offset = offset, !.base = base]
=============================================================================
