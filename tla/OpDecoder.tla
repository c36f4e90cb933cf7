------------------------------ MODULE OpDecoder ------------------------------
(***************************************************************************)
(* stackmachine.OpDecoder (internal/stackmachine/op_decoder.go): a program *)
(* is a sequence of bytes, each instruction a code followed by operands in *)
(* little-endian order.  Nothing marks where an instruction starts: what a *)
(* program means depends on where it is entered.                           *)
(***************************************************************************)
EXTENDS Integers, Sequences

\* An operand: where it is, counted from the code, and how wide.  It is unsigned, but for
\* the offset from a frame's address.
Field(name, at, width) == [name |-> name, at |-> at, width |-> width, signed |-> FALSE]
SignedField(name, at, width) == [name |-> name, at |-> at, width |-> width, signed |-> TRUE]
Op(name, size, fields) == [name |-> name, size |-> size, fields |-> fields]

\* The instruction of each code, with its size.
Codes == (0..17) \cup (19..23) \cup {25, 27} \cup (30..37)

OpCodes == [c \in Codes |->
  CASE c = 0  -> Op("Invalid", 1, {})
    [] c = 1  -> Op("Call", 5, {Field("Pc", 1, 4)})
    [] c = 2  -> Op("CondJump", 5, {Field("Pc", 1, 4)})
    [] c = 3  -> Op("Decrement", 1, {})
    [] c = 4  -> Op("EnqueueEmptyInterface", 1, {})
    [] c = 5  -> Op("EnqueueInterface", 1, {})
    [] c = 6  -> Op("EnqueuePointer", 5, {Field("ElemType", 1, 4)})
    [] c = 7  -> Op("EnqueueSliceHeader", 9,
           {Field("ArrayType", 1, 4), Field("ElemByteLen", 5, 4)})
    [] c = 8  -> Op("EnqueueStringHeader", 5, {Field("StringDataType", 1, 4)})
    [] c = 9  -> Op("EnqueueHMapHeader", 13,
           {Field("BucketsArrayType", 1, 4), Field("BucketByteLen", 5, 4),
            Field("FlagsOffset", 9, 1), Field("BOffset", 10, 1), Field("BucketsOffset", 11, 1),
            Field("OldBucketsOffset", 12, 1)})
    [] c = 10 -> Op("Jump", 5, {Field("Pc", 1, 4)})
    [] c = 11 -> Op("Pop", 1, {})
    [] c = 12 -> Op("PushImm", 5, {Field("Value", 1, 4)})
    [] c = 13 -> Op("PushOffset", 1, {})
    [] c = 14 -> Op("PushSliceLen", 5, {Field("ElemByteLen", 1, 4)})
    [] c = 15 -> Op("Return", 1, {})
    [] c = 16 -> Op("SetOffset", 1, {})
    [] c = 17 -> Op("AdvanceOffset", 5, {Field("Increment", 1, 4)})
    [] c = 19 -> Op("DereferenceCFAOffset", 13,
           {SignedField("Offset", 1, 4), Field("ByteLen", 5, 4), Field("PointerBias", 9, 4)})
    [] c = 20 -> Op("CopyFromRegister", 4, {Field("Register", 1, 2), Field("ByteSize", 3, 1)})
    [] c = 21 -> Op("ZeroFill", 5, {Field("ByteLen", 1, 4)})
    [] c = 22 -> Op("PrepareFrameData", 13,
           {Field("ProgID", 1, 4), Field("DataByteLen", 5, 4), Field("TypeID", 9, 4)})
    [] c = 23 -> Op("Illegal", 1, {})
    [] c = 25 -> Op("ConcludeFrameData", 1, {})
    [] c = 27 -> Op("PrepareGoContext", 10,
           {Field("DataByteLen", 1, 4), Field("TypeID", 5, 4), Field("CaptureCount", 9, 1)})
    [] c = 30 -> Op("SetPresenceBit", 5, {Field("BitOffset", 1, 4)})
    [] c = 31 -> Op("EnqueueSwissMap", 11,
           {Field("TablePtrSliceType", 1, 4), Field("GroupType", 5, 4),
            Field("DirPtrOffset", 9, 1), Field("DirLenOffset", 10, 1)})
    [] c = 32 -> Op("EnqueueSwissMapGroups", 11,
           {Field("GroupSliceType", 1, 4), Field("GroupByteLen", 5, 4), Field("DataOffset", 9, 1),
            Field("LengthMaskOffset", 10, 1)})
    [] c = 33 -> Op("EnqueueSubroutine", 1, {})
    [] c = 34 -> Op("SaveExprResult", 9, {Field("ResultOffset", 1, 4), Field("ByteLen", 5, 4)})
    [] c = 35 -> Op("DereferencePtr", 9, {Field("Bias", 1, 4), Field("ByteLen", 5, 4)})
    [] c = 36 -> Op("PrepareExprEval", 1, {})
    [] c = 37 -> Op("PreparePointeeData", 1, {})]

\* The interpreter has no case for any other code: it does nothing.
OpOf(code) == IF code \in DOMAIN OpCodes THEN OpCodes[code] ELSE Op("Nothing", 1, {})

Bytes == 0..255

\* binary.LittleEndian.  Addresses and lengths stay below 2^31: the highest bit of an
\* unsigned operand is left out.
Byte(prog, pc) == prog[pc + 1]
Highest(byte, signed) == IF byte < 128 THEN byte ELSE IF signed THEN byte - 256 ELSE byte - 128

LittleEndian(prog, pc, field) ==
  LET byte(i) == Byte(prog, pc + field.at + i) IN
  CASE field.width = 1 -> byte(0)
    [] field.width = 2 -> byte(0) + 256 * byte(1)
    [] field.width = 4 ->
         byte(0) + 256 * (byte(1) + 256 * (byte(2) + 256 * Highest(byte(3), field.signed)))

\* PopOpCode and the Decode function of the code: the instruction at pc, its
\* operands, and where the next one starts.  Reading past the end panics.
PastTheEnd == [name |-> "PastTheEnd", arg |-> <<>>, next |-> 0]

Decode(prog, pc) ==
  LET op == OpOf(Byte(prog, pc))
      value(name) == LittleEndian(prog, pc, CHOOSE f \in op.fields : f.name = name)
  IN IF pc >= Len(prog) THEN PastTheEnd
     ELSE IF pc + op.size > Len(prog) THEN PastTheEnd
     ELSE [name |-> op.name, arg |-> [n \in {f.name : f \in op.fields} |-> value(n)],
           next |-> pc + op.size]
=============================================================================
