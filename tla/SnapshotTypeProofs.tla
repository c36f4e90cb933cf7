------------------------- MODULE SnapshotTypeProofs -------------------------
(***************************************************************************)
(* Proofs about SnapshotRun: what its values are.                          *)
(***************************************************************************)
EXTENDS SnapshotRunProofs, FiniteSetTheorems

-----------------------------------------------------------------------------
(***************************************************************************)
(* Decoding.                                                               *)
(***************************************************************************)
\* Only the offset from a frame's address has a sign.
SignOK(f) == f.signed = FALSE \/ f.name = "Offset"

\* The operands of an instruction lie within it.
OpOK(op) ==
  /\ op.size \in Nat \ {0} /\ op.name # "PastTheEnd"
  /\ \A f \in op.fields :
       f.width \in {1, 2, 4} /\ f.at \in Nat /\ f.at + f.width <= op.size /\ SignOK(f)

\* What each instruction reads of its operands.
OperandsOf(name) ==
  CASE name \in {"Call", "CondJump", "Jump"} -> {"Pc"}
    [] name = "EnqueuePointer" -> {"ElemType"}
    [] name = "EnqueueSliceHeader" -> {"ArrayType", "ElemByteLen"}
    [] name = "EnqueueStringHeader" -> {"StringDataType"}
    [] name = "EnqueueHMapHeader" -> {"BucketsArrayType", "BucketByteLen", "FlagsOffset",
                                      "BOffset", "BucketsOffset", "OldBucketsOffset"}
    [] name = "PushImm" -> {"Value"}
    [] name = "PushSliceLen" -> {"ElemByteLen"}
    [] name = "AdvanceOffset" -> {"Increment"}
    [] name = "DereferenceCFAOffset" -> {"Offset", "ByteLen", "PointerBias"}
    [] name = "CopyFromRegister" -> {"ByteSize"}
    [] name = "ZeroFill" -> {"ByteLen"}
    [] name = "PrepareFrameData" -> {"ProgID", "DataByteLen", "TypeID"}
    [] name = "PrepareGoContext" -> {"DataByteLen", "TypeID", "CaptureCount"}
    [] name = "SetPresenceBit" -> {"BitOffset"}
    [] name = "EnqueueSwissMap" -> {"TablePtrSliceType", "GroupType", "DirPtrOffset",
                                    "DirLenOffset"}
    [] name = "EnqueueSwissMapGroups" -> {"GroupSliceType", "GroupByteLen", "DataOffset",
                                          "LengthMaskOffset"}
    [] name = "SaveExprResult" -> {"ResultOffset", "ByteLen"}
    [] name = "DereferencePtr" -> {"Bias", "ByteLen"}
    [] OTHER -> {}

Complete(op) == \A n \in OperandsOf(op.name) : \E f \in op.fields : f.name = n

LEMMA OpComplete ==
  ASSUME NEW code
  PROVE  OpOK(OpOf(code)) /\ Complete(OpOf(code))
<1> DEFINE Fine(op) == OpOK(op) /\ Complete(op)
<1>60. Fine(Op("Nothing", 1, {}))
  BY DEF OpOK, Complete, OperandsOf, Op
<1>1. Fine(OpOf(0))
  <2> DEFINE op == Op("Invalid", 1, {})
  <2>1. OpOK(op)
    BY DEF OpOK, SignOK, Op, Field, SignedField
  <2>2. Complete(op)
    BY DEF Complete, OperandsOf, Op, Field, SignedField
  <2>3. OpOf(0) = op
    BY DEF OpOf, OpCodes, Codes
  <2> QED
    BY <2>1, <2>2, <2>3
<1>2. Fine(OpOf(1))
  <2> DEFINE op == Op("Call", 5, {Field("Pc", 1, 4)})
  <2>1. OpOK(op)
    BY DEF OpOK, SignOK, Op, Field, SignedField
  <2>2. Complete(op)
    BY DEF Complete, OperandsOf, Op, Field, SignedField
  <2>3. OpOf(1) = op
    BY DEF OpOf, OpCodes, Codes
  <2> QED
    BY <2>1, <2>2, <2>3
<1>3. Fine(OpOf(2))
  <2> DEFINE op == Op("CondJump", 5, {Field("Pc", 1, 4)})
  <2>1. OpOK(op)
    BY DEF OpOK, SignOK, Op, Field, SignedField
  <2>2. Complete(op)
    BY DEF Complete, OperandsOf, Op, Field, SignedField
  <2>3. OpOf(2) = op
    BY DEF OpOf, OpCodes, Codes
  <2> QED
    BY <2>1, <2>2, <2>3
<1>4. Fine(OpOf(3))
  <2> DEFINE op == Op("Decrement", 1, {})
  <2>1. OpOK(op)
    BY DEF OpOK, SignOK, Op, Field, SignedField
  <2>2. Complete(op)
    BY DEF Complete, OperandsOf, Op, Field, SignedField
  <2>3. OpOf(3) = op
    BY DEF OpOf, OpCodes, Codes
  <2> QED
    BY <2>1, <2>2, <2>3
<1>5. Fine(OpOf(4))
  <2> DEFINE op == Op("EnqueueEmptyInterface", 1, {})
  <2>1. OpOK(op)
    BY DEF OpOK, SignOK, Op, Field, SignedField
  <2>2. Complete(op)
    BY DEF Complete, OperandsOf, Op, Field, SignedField
  <2>3. OpOf(4) = op
    BY DEF OpOf, OpCodes, Codes
  <2> QED
    BY <2>1, <2>2, <2>3
<1>6. Fine(OpOf(5))
  <2> DEFINE op == Op("EnqueueInterface", 1, {})
  <2>1. OpOK(op)
    BY DEF OpOK, SignOK, Op, Field, SignedField
  <2>2. Complete(op)
    BY DEF Complete, OperandsOf, Op, Field, SignedField
  <2>3. OpOf(5) = op
    BY DEF OpOf, OpCodes, Codes
  <2> QED
    BY <2>1, <2>2, <2>3
<1>7. Fine(OpOf(6))
  <2> DEFINE op == Op("EnqueuePointer", 5, {Field("ElemType", 1, 4)})
  <2>1. OpOK(op)
    BY DEF OpOK, SignOK, Op, Field, SignedField
  <2>2. Complete(op)
    BY DEF Complete, OperandsOf, Op, Field, SignedField
  <2>3. OpOf(6) = op
    BY DEF OpOf, OpCodes, Codes
  <2> QED
    BY <2>1, <2>2, <2>3
<1>8. Fine(OpOf(7))
  <2> DEFINE op == Op("EnqueueSliceHeader", 9, {Field("ArrayType", 1, 4), Field("ElemByteLen",
                       5, 4)})
  <2>1. OpOK(op)
    BY DEF OpOK, SignOK, Op, Field, SignedField
  <2>2. Complete(op)
    BY DEF Complete, OperandsOf, Op, Field, SignedField
  <2>3. OpOf(7) = op
    BY DEF OpOf, OpCodes, Codes
  <2> QED
    BY <2>1, <2>2, <2>3
<1>9. Fine(OpOf(8))
  <2> DEFINE op == Op("EnqueueStringHeader", 5, {Field("StringDataType", 1, 4)})
  <2>1. OpOK(op)
    BY DEF OpOK, SignOK, Op, Field, SignedField
  <2>2. Complete(op)
    BY DEF Complete, OperandsOf, Op, Field, SignedField
  <2>3. OpOf(8) = op
    BY DEF OpOf, OpCodes, Codes
  <2> QED
    BY <2>1, <2>2, <2>3
<1>10. Fine(OpOf(9))
  <2> DEFINE op == Op("EnqueueHMapHeader", 13, {Field("BucketsArrayType", 1, 4),
                       Field("BucketByteLen", 5, 4), Field("FlagsOffset", 9, 1),
                       Field("BOffset", 10, 1), Field("BucketsOffset", 11, 1),
                       Field("OldBucketsOffset", 12, 1)})
  <2>1. OpOK(op)
    BY DEF OpOK, SignOK, Op, Field, SignedField
  <2>2. Complete(op)
    BY DEF Complete, OperandsOf, Op, Field, SignedField
  <2>3. OpOf(9) = op
    BY DEF OpOf, OpCodes, Codes
  <2> QED
    BY <2>1, <2>2, <2>3
<1>11. Fine(OpOf(10))
  <2> DEFINE op == Op("Jump", 5, {Field("Pc", 1, 4)})
  <2>1. OpOK(op)
    BY DEF OpOK, SignOK, Op, Field, SignedField
  <2>2. Complete(op)
    BY DEF Complete, OperandsOf, Op, Field, SignedField
  <2>3. OpOf(10) = op
    BY DEF OpOf, OpCodes, Codes
  <2> QED
    BY <2>1, <2>2, <2>3
<1>12. Fine(OpOf(11))
  <2> DEFINE op == Op("Pop", 1, {})
  <2>1. OpOK(op)
    BY DEF OpOK, SignOK, Op, Field, SignedField
  <2>2. Complete(op)
    BY DEF Complete, OperandsOf, Op, Field, SignedField
  <2>3. OpOf(11) = op
    BY DEF OpOf, OpCodes, Codes
  <2> QED
    BY <2>1, <2>2, <2>3
<1>13. Fine(OpOf(12))
  <2> DEFINE op == Op("PushImm", 5, {Field("Value", 1, 4)})
  <2>1. OpOK(op)
    BY DEF OpOK, SignOK, Op, Field, SignedField
  <2>2. Complete(op)
    BY DEF Complete, OperandsOf, Op, Field, SignedField
  <2>3. OpOf(12) = op
    BY DEF OpOf, OpCodes, Codes
  <2> QED
    BY <2>1, <2>2, <2>3
<1>14. Fine(OpOf(13))
  <2> DEFINE op == Op("PushOffset", 1, {})
  <2>1. OpOK(op)
    BY DEF OpOK, SignOK, Op, Field, SignedField
  <2>2. Complete(op)
    BY DEF Complete, OperandsOf, Op, Field, SignedField
  <2>3. OpOf(13) = op
    BY DEF OpOf, OpCodes, Codes
  <2> QED
    BY <2>1, <2>2, <2>3
<1>15. Fine(OpOf(14))
  <2> DEFINE op == Op("PushSliceLen", 5, {Field("ElemByteLen", 1, 4)})
  <2>1. OpOK(op)
    BY DEF OpOK, SignOK, Op, Field, SignedField
  <2>2. Complete(op)
    BY DEF Complete, OperandsOf, Op, Field, SignedField
  <2>3. OpOf(14) = op
    BY DEF OpOf, OpCodes, Codes
  <2> QED
    BY <2>1, <2>2, <2>3
<1>16. Fine(OpOf(15))
  <2> DEFINE op == Op("Return", 1, {})
  <2>1. OpOK(op)
    BY DEF OpOK, SignOK, Op, Field, SignedField
  <2>2. Complete(op)
    BY DEF Complete, OperandsOf, Op, Field, SignedField
  <2>3. OpOf(15) = op
    BY DEF OpOf, OpCodes, Codes
  <2> QED
    BY <2>1, <2>2, <2>3
<1>17. Fine(OpOf(16))
  <2> DEFINE op == Op("SetOffset", 1, {})
  <2>1. OpOK(op)
    BY DEF OpOK, SignOK, Op, Field, SignedField
  <2>2. Complete(op)
    BY DEF Complete, OperandsOf, Op, Field, SignedField
  <2>3. OpOf(16) = op
    BY DEF OpOf, OpCodes, Codes
  <2> QED
    BY <2>1, <2>2, <2>3
<1>18. Fine(OpOf(17))
  <2> DEFINE op == Op("AdvanceOffset", 5, {Field("Increment", 1, 4)})
  <2>1. OpOK(op)
    BY DEF OpOK, SignOK, Op, Field, SignedField
  <2>2. Complete(op)
    BY DEF Complete, OperandsOf, Op, Field, SignedField
  <2>3. OpOf(17) = op
    BY DEF OpOf, OpCodes, Codes
  <2> QED
    BY <2>1, <2>2, <2>3
<1>20. Fine(OpOf(19))
  <2> DEFINE op == Op("DereferenceCFAOffset", 13, {SignedField("Offset", 1, 4), Field("ByteLen",
                       5, 4), Field("PointerBias", 9, 4)})
  <2>1. OpOK(op)
    BY DEF OpOK, SignOK, Op, Field, SignedField
  <2>2. Complete(op)
    BY DEF Complete, OperandsOf, Op, Field, SignedField
  <2>3. OpOf(19) = op
    BY DEF OpOf, OpCodes, Codes
  <2> QED
    BY <2>1, <2>2, <2>3
<1>21. Fine(OpOf(20))
  <2> DEFINE op == Op("CopyFromRegister", 4, {Field("Register", 1, 2), Field("ByteSize", 3, 1)})
  <2>1. OpOK(op)
    BY DEF OpOK, SignOK, Op, Field, SignedField
  <2>2. Complete(op)
    BY DEF Complete, OperandsOf, Op, Field, SignedField
  <2>3. OpOf(20) = op
    BY DEF OpOf, OpCodes, Codes
  <2> QED
    BY <2>1, <2>2, <2>3
<1>22. Fine(OpOf(21))
  <2> DEFINE op == Op("ZeroFill", 5, {Field("ByteLen", 1, 4)})
  <2>1. OpOK(op)
    BY DEF OpOK, SignOK, Op, Field, SignedField
  <2>2. Complete(op)
    BY DEF Complete, OperandsOf, Op, Field, SignedField
  <2>3. OpOf(21) = op
    BY DEF OpOf, OpCodes, Codes
  <2> QED
    BY <2>1, <2>2, <2>3
<1>23. Fine(OpOf(22))
  <2> DEFINE op == Op("PrepareFrameData", 13, {Field("ProgID", 1, 4), Field("DataByteLen", 5,
                       4), Field("TypeID", 9, 4)})
  <2>1. OpOK(op)
    BY DEF OpOK, SignOK, Op, Field, SignedField
  <2>2. Complete(op)
    BY DEF Complete, OperandsOf, Op, Field, SignedField
  <2>3. OpOf(22) = op
    BY DEF OpOf, OpCodes, Codes
  <2> QED
    BY <2>1, <2>2, <2>3
<1>24. Fine(OpOf(23))
  <2> DEFINE op == Op("Illegal", 1, {})
  <2>1. OpOK(op)
    BY DEF OpOK, SignOK, Op, Field, SignedField
  <2>2. Complete(op)
    BY DEF Complete, OperandsOf, Op, Field, SignedField
  <2>3. OpOf(23) = op
    BY DEF OpOf, OpCodes, Codes
  <2> QED
    BY <2>1, <2>2, <2>3
<1>26. Fine(OpOf(25))
  <2> DEFINE op == Op("ConcludeFrameData", 1, {})
  <2>1. OpOK(op)
    BY DEF OpOK, SignOK, Op, Field, SignedField
  <2>2. Complete(op)
    BY DEF Complete, OperandsOf, Op, Field, SignedField
  <2>3. OpOf(25) = op
    BY DEF OpOf, OpCodes, Codes
  <2> QED
    BY <2>1, <2>2, <2>3
<1>28. Fine(OpOf(27))
  <2> DEFINE op == Op("PrepareGoContext", 10, {Field("DataByteLen", 1, 4), Field("TypeID", 5,
                       4), Field("CaptureCount", 9, 1)})
  <2>1. OpOK(op)
    BY DEF OpOK, SignOK, Op, Field, SignedField
  <2>2. Complete(op)
    BY DEF Complete, OperandsOf, Op, Field, SignedField
  <2>3. OpOf(27) = op
    BY DEF OpOf, OpCodes, Codes
  <2> QED
    BY <2>1, <2>2, <2>3
<1>31. Fine(OpOf(30))
  <2> DEFINE op == Op("SetPresenceBit", 5, {Field("BitOffset", 1, 4)})
  <2>1. OpOK(op)
    BY DEF OpOK, SignOK, Op, Field, SignedField
  <2>2. Complete(op)
    BY DEF Complete, OperandsOf, Op, Field, SignedField
  <2>3. OpOf(30) = op
    BY DEF OpOf, OpCodes, Codes
  <2> QED
    BY <2>1, <2>2, <2>3
<1>32. Fine(OpOf(31))
  <2> DEFINE op == Op("EnqueueSwissMap", 11, {Field("TablePtrSliceType", 1, 4),
                       Field("GroupType", 5, 4), Field("DirPtrOffset", 9, 1),
                       Field("DirLenOffset", 10, 1)})
  <2>1. OpOK(op)
    BY DEF OpOK, SignOK, Op, Field, SignedField
  <2>2. Complete(op)
    BY DEF Complete, OperandsOf, Op, Field, SignedField
  <2>3. OpOf(31) = op
    BY DEF OpOf, OpCodes, Codes
  <2> QED
    BY <2>1, <2>2, <2>3
<1>33. Fine(OpOf(32))
  <2> DEFINE op == Op("EnqueueSwissMapGroups", 11, {Field("GroupSliceType", 1, 4),
                       Field("GroupByteLen", 5, 4), Field("DataOffset", 9, 1),
                       Field("LengthMaskOffset", 10, 1)})
  <2>1. OpOK(op)
    BY DEF OpOK, SignOK, Op, Field, SignedField
  <2>2. Complete(op)
    BY DEF Complete, OperandsOf, Op, Field, SignedField
  <2>3. OpOf(32) = op
    BY DEF OpOf, OpCodes, Codes
  <2> QED
    BY <2>1, <2>2, <2>3
<1>34. Fine(OpOf(33))
  <2> DEFINE op == Op("EnqueueSubroutine", 1, {})
  <2>1. OpOK(op)
    BY DEF OpOK, SignOK, Op, Field, SignedField
  <2>2. Complete(op)
    BY DEF Complete, OperandsOf, Op, Field, SignedField
  <2>3. OpOf(33) = op
    BY DEF OpOf, OpCodes, Codes
  <2> QED
    BY <2>1, <2>2, <2>3
<1>35. Fine(OpOf(34))
  <2> DEFINE op == Op("SaveExprResult", 9, {Field("ResultOffset", 1, 4), Field("ByteLen", 5,
                       4)})
  <2>1. OpOK(op)
    BY DEF OpOK, SignOK, Op, Field, SignedField
  <2>2. Complete(op)
    BY DEF Complete, OperandsOf, Op, Field, SignedField
  <2>3. OpOf(34) = op
    BY DEF OpOf, OpCodes, Codes
  <2> QED
    BY <2>1, <2>2, <2>3
<1>36. Fine(OpOf(35))
  <2> DEFINE op == Op("DereferencePtr", 9, {Field("Bias", 1, 4), Field("ByteLen", 5, 4)})
  <2>1. OpOK(op)
    BY DEF OpOK, SignOK, Op, Field, SignedField
  <2>2. Complete(op)
    BY DEF Complete, OperandsOf, Op, Field, SignedField
  <2>3. OpOf(35) = op
    BY DEF OpOf, OpCodes, Codes
  <2> QED
    BY <2>1, <2>2, <2>3
<1>37. Fine(OpOf(36))
  <2> DEFINE op == Op("PrepareExprEval", 1, {})
  <2>1. OpOK(op)
    BY DEF OpOK, SignOK, Op, Field, SignedField
  <2>2. Complete(op)
    BY DEF Complete, OperandsOf, Op, Field, SignedField
  <2>3. OpOf(36) = op
    BY DEF OpOf, OpCodes, Codes
  <2> QED
    BY <2>1, <2>2, <2>3
<1>38. Fine(OpOf(37))
  <2> DEFINE op == Op("PreparePointeeData", 1, {})
  <2>1. OpOK(op)
    BY DEF OpOK, SignOK, Op, Field, SignedField
  <2>2. Complete(op)
    BY DEF Complete, OperandsOf, Op, Field, SignedField
  <2>3. OpOf(37) = op
    BY DEF OpOf, OpCodes, Codes
  <2> QED
    BY <2>1, <2>2, <2>3
<1>50. \/ code = 0 \/ code = 1 \/ code = 2 \/ code = 3 \/ code = 4 \/ code = 5 \/ code = 6 \/
           code = 7 \/ code = 8 \/ code = 9 \/ code = 10 \/ code = 11 \/ code = 12 \/ code = 13
           \/ code = 14 \/ code = 15 \/ code = 16 \/ code = 17 \/ code = 19 \/ code = 20 \/ code
           = 21 \/ code = 22 \/ code = 23 \/ code = 25 \/ code = 27 \/ code = 30 \/ code = 31 \/
           code = 32 \/ code = 33 \/ code = 34 \/ code = 35 \/ code = 36 \/ code = 37 \/ code
           \notin Codes
  BY DEF Codes
<1>51. code \notin Codes => Fine(OpOf(code))
  BY <1>60 DEF OpOf, OpCodes
<1> HIDE DEF Fine
<1>52. Fine(OpOf(code))
  BY <1>1, <1>2, <1>3, <1>4, <1>5, <1>6, <1>7, <1>8, <1>9, <1>10, <1>11, <1>12, <1>13, <1>14,
         <1>15, <1>16, <1>17, <1>18, <1>20, <1>21, <1>22, <1>23, <1>24, <1>26, <1>28, <1>31,
         <1>32, <1>33, <1>34, <1>35, <1>36, <1>37, <1>38, <1>50, <1>51
<1> QED
  BY <1>52 DEF Fine

LEMMA ByteIs ==
  ASSUME NEW p \in Seq(Bytes), NEW i \in 0..Len(p) - 1
  PROVE  Byte(p, i) \in 0..255
BY ElementOfSeq DEF Byte, Bytes

LEMMA HighestIs ==
  ASSUME NEW b \in 0..255, NEW signed
  PROVE  Highest(b, signed) \in Int /\ Highest(b, FALSE) \in Nat
BY DEF Highest

\* What an operand may be.
OperandOf(name) == IF name = "Offset" THEN Int ELSE Nat

LEMMA LittleEndianIs ==
  \A p \in Seq(Bytes), pc \in Nat : \A f :
    /\ f.width \in {1, 2, 4} /\ f.at \in Nat /\ pc + f.at + f.width <= Len(p)
         /\ SignOK(f)
    => LittleEndian(p, pc, f) \in OperandOf(f.name)
<1> SUFFICES ASSUME NEW p \in Seq(Bytes), NEW pc \in Nat, NEW f,
                    f.width \in {1, 2, 4}, f.at \in Nat, pc + f.at + f.width <= Len(p),
                    SignOK(f)
             PROVE  LittleEndian(p, pc, f) \in OperandOf(f.name)
  OBVIOUS
<1> DEFINE b0 == Byte(p, pc + f.at + 0)
           b1 == Byte(p, pc + f.at + 1)
           b2 == Byte(p, pc + f.at + 2)
           b3 == Byte(p, pc + f.at + 3)
           high == Highest(b3, f.signed)
<1>1. ASSUME NEW i \in 0..f.width - 1
      PROVE  Byte(p, pc + f.at + i) \in 0..255
  <2>1. pc + f.at + i \in 0..Len(p) - 1
    OBVIOUS
  <2> QED
    BY <2>1, ByteIs
<1>2. CASE f.width = 1
  <2>1. LittleEndian(p, pc, f) = b0
    BY <1>2 DEF LittleEndian
  <2>2. b0 \in 0..255
    BY <1>1, <1>2
  <2> HIDE DEF b0
  <2>3. b0 \in Nat
    BY <2>2
  <2> QED
    BY <2>1, <2>3 DEF OperandOf
<1>3. CASE f.width = 2
  <2>1. LittleEndian(p, pc, f) = b0 + 256 * b1
    BY <1>3 DEF LittleEndian
  <2>2. b0 \in 0..255 /\ b1 \in 0..255
    BY <1>1, <1>3
  <2> HIDE DEF b0, b1
  <2>3. b0 + 256 * b1 \in Nat
    BY <2>2
  <2> QED
    BY <2>1, <2>3 DEF OperandOf
<1>4. CASE f.width = 4
  <2>1. LittleEndian(p, pc, f) = b0 + 256 * (b1 + 256 * (b2 + 256 * high))
    BY <1>4 DEF LittleEndian
  <2>2. b0 \in 0..255 /\ b1 \in 0..255 /\ b2 \in 0..255 /\ b3 \in 0..255
    BY <1>1, <1>4
  <2>3. high \in Int /\ (f.name # "Offset" => high \in Nat)
    BY <2>2, HighestIs DEF SignOK
  <2> HIDE DEF b0, b1, b2, high
  <2> DEFINE h2 == b2 + 256 * high
             h1 == b1 + 256 * h2
             h0 == b0 + 256 * h1
  <2>4. \A b \in 0..255, h \in Int :
          b + 256 * h \in Int /\ (h \in Nat => b + 256 * h \in Nat)
    OBVIOUS
  <2>5. h2 \in Int /\ (high \in Nat => h2 \in Nat)
    BY <2>2, <2>3, <2>4
  <2> HIDE DEF h2
  <2>6. h1 \in Int /\ (h2 \in Nat => h1 \in Nat)
    BY <2>2, <2>4, <2>5
  <2> HIDE DEF h1
  <2>8. h0 \in Int /\ (h1 \in Nat => h0 \in Nat)
    BY <2>2, <2>4, <2>6
  <2>7. LittleEndian(p, pc, f) = h0
    BY <2>1 DEF h1, h2
  <2> HIDE DEF h0
  <2> QED
    BY <2>3, <2>5, <2>6, <2>7, <2>8 DEF OperandOf
<1> QED
  BY <1>2, <1>3, <1>4

\* An instruction of a program of n bytes, decoded.
Instruction(i, n) ==
  /\ i.next \in 0..n
  /\ \A a \in OperandsOf(i.name) : i.arg[a] \in OperandOf(a)

LEMMA DecodeIs ==
  ASSUME NEW p \in Seq(Bytes), NEW pc \in 0..Len(p)
  PROVE  Instruction(Decode(p, pc), Len(p))
<1> DEFINE op == OpOf(Byte(p, pc))
<1>1. OpOK(op) /\ Complete(op)
  BY OpComplete
<1> HIDE DEF op
<1>2. CASE Decode(p, pc) = PastTheEnd
  BY <1>2 DEF PastTheEnd, Instruction, OperandsOf
<1>3. CASE Decode(p, pc) # PastTheEnd
  <2> DEFINE value(name) == LittleEndian(p, pc, CHOOSE f \in op.fields : f.name = name)
             i == [name |-> op.name, arg |-> [n \in {f.name : f \in op.fields} |-> value(n)],
                   next |-> pc + op.size]
  <2>1. Decode(p, pc) = i /\ pc + op.size <= Len(p)
    BY <1>3, <1>1 DEF Decode, op, OpOK
  <2>2. i.next \in 0..Len(p)
    BY <1>1, <2>1 DEF OpOK
  <2>3. ASSUME NEW a \in OperandsOf(op.name)
        PROVE  i.arg[a] \in OperandOf(a)
    <3>1. PICK f \in op.fields : f = (CHOOSE g \in op.fields : g.name = a) /\ f.name = a
      BY <1>1 DEF Complete
    <3>2. i.arg[a] = LittleEndian(p, pc, f)
      BY <3>1
    <3> HIDE DEF i
    <3>3. /\ f.width \in {1, 2, 4} /\ f.at \in Nat /\ f.at + f.width <= op.size
          /\ SignOK(f)
      BY <1>1, <3>1 DEF OpOK
    <3>4. pc + f.at + f.width <= Len(p) /\ pc \in Nat
      BY <1>1, <2>1, <3>3 DEF OpOK
    <3>5. LittleEndian(p, pc, f) \in OperandOf(f.name)
      BY <3>3, <3>4, LittleEndianIs
    <3> QED
      BY <3>1, <3>2, <3>3, <3>5
  <2>4. i.name = op.name
    OBVIOUS
  <2> HIDE DEF i
  <2> QED
    BY <2>1, <2>2, <2>3, <2>4 DEF Instruction
<1> QED
  BY <1>2, <1>3

\* What is used of a program that is loaded.
LEMMA ProgramIs ==
  ASSUME NEW p \in Programs, program = Loaded(p)
  PROVE  /\ ProgLen \in Nat /\ \A pc \in 0..ProgLen : Instruction(program.Prog[pc], ProgLen)
         /\ Uint(program.SubroutineClassifier.Unresolved)
         /\ \A pc \in DOMAIN program.SubroutineClassifier.Types :
              Uint(program.SubroutineClassifier.Types[pc])
         /\ \A g \in DOMAIN program.GoRuntimeTypeToTypeId :
              Uint(program.GoRuntimeTypeToTypeId[g])
         /\ \A t \in DOMAIN program.TypeInfo : Uint(t) /\ TypeInfo(program.TypeInfo[t])
         /\ RuntimeConfig(program.RuntimeConfig) /\ PcClassifier(program.PcClassifier)
<1>1. SnapshotProgram(p)
  BY ProgramAssumption
<1>2. /\ program.Prog = [pc \in 0..Len(p.Prog) |-> Decode(p.Prog, pc)]
      /\ program.SubroutineClassifier = p.SubroutineClassifier
      /\ program.GoRuntimeTypeToTypeId = p.GoRuntimeTypeToTypeId
      /\ program.TypeInfo = p.TypeInfo /\ program.RuntimeConfig = p.RuntimeConfig
      /\ program.PcClassifier = p.PcClassifier
  BY <1>1 DEF Loaded, SnapshotProgram
<1>3. p.Prog \in Seq(Bytes) /\ Len(p.Prog) \in Nat
  BY <1>1 DEF SnapshotProgram
<1>4. ProgLen = Len(p.Prog)
  <2>1. DOMAIN program.Prog = 0..Len(p.Prog)
    BY <1>2
  <2>2. Cardinality(0..Len(p.Prog)) = Len(p.Prog) + 1
    BY <1>3, FS_Interval
  <2> QED
    BY <1>3, <2>1, <2>2 DEF ProgLen
<1>5. \A pc \in 0..ProgLen : Instruction(program.Prog[pc], ProgLen)
  BY <1>2, <1>3, <1>4, DecodeIs
<1> QED
  BY <1>1, <1>2, <1>3, <1>4, <1>5 DEF SnapshotProgram, SubroutineClassifier

-----------------------------------------------------------------------------
(***************************************************************************)
(* The buffer: what is in it are numbers, and its length is at most its    *)
(* capacity.                                                               *)
(***************************************************************************)
Words(f) == DOMAIN f \subseteq Int /\ \A i \in DOMAIN f : f[i] \in Int

NumBuf(b) ==
  /\ IsBuf(b) /\ Words(b.at) /\ b.cap \in Nat /\ b.len \in 0..b.cap
  /\ b.intact \in BOOLEAN /\ b.wild \in BOOLEAN

\* c is a buffer that b becomes when something is written.
Extends(b, c) == NumBuf(c) /\ c.cap = b.cap /\ b.len <= c.len

LEMMA ExtendsItself ==
  ASSUME NEW b, NumBuf(b)
  PROVE  Extends(b, b)
BY DEF Extends, NumBuf

LEMMA ExtendsTransitive ==
  ASSUME NEW b, NEW c, NEW d, NumBuf(b), Extends(b, c), Extends(c, d)
  PROVE  Extends(b, d)
BY DEF Extends, NumBuf

LEMMA WordsIn ==
  /\ Words(<<>>)
  /\ \A o \in Int, v \in Int : Words([i \in {o} |-> v])
  /\ \A f : Words(f) => \A s \in Int, d \in Int, n \in Int : Words(Moved(f, s, d, n))
<1>1. Words(<<>>)
  BY DEF Words
<1>2. \A o \in Int, v \in Int : Words([i \in {o} |-> v])
  BY DEF Words
<1>3. ASSUME NEW f, Words(f), NEW s \in Int, NEW d \in Int, NEW n \in Int
      PROVE  Words(Moved(f, s, d, n))
  <2> DEFINE D == {k \in DOMAIN f : k >= s /\ k < s + n}
             g == Moved(f, s, d, n)
  <2>1. g = [i \in {j - s + d : j \in D} |-> f[i + s - d]]
    BY DEF Moved
  <2>2. ASSUME NEW i \in DOMAIN g
        PROVE  i \in Int /\ g[i] \in Int
    <3>1. PICK j \in D : i = j - s + d
      BY <2>1
    <3>2. j \in Int /\ j \in DOMAIN f /\ f[j] \in Int
      <4>1. j \in DOMAIN f
        BY <3>1
      <4> HIDE DEF D, g
      <4> QED
        BY <1>3, <4>1 DEF Words
    <3>3. i + s - d = j /\ i \in Int
      BY <3>1, <3>2
    <3>4. g[i] = f[j]
      BY <2>1, <3>3
    <3> QED
      BY <3>2, <3>3, <3>4
  <2> HIDE DEF g
  <2> QED
    BY <2>2 DEF Words, g
<1> QED
  BY <1>1, <1>2, <1>3

LEMMA GetIs ==
  ASSUME NEW b, NumBuf(b), NEW o
  PROVE  Get(b, o) \in Int
BY DEF Get, NumBuf, Words

LEMMA OverwriteExtends ==
  ASSUME NEW b, NumBuf(b), NEW o \in Int, NEW n \in Int, NEW f, Words(f)
  PROVE  Extends(b, Overwrite(b, o, n, f)) /\ Overwrite(b, o, n, f).len = b.len
<1> DEFINE c == Overwrite(b, o, n, f)
           at == [i \in DOMAIN f \cup {j \in DOMAIN b.at : j < o \/ j >= o + n} |->
                    IF i \in DOMAIN f THEN f[i] ELSE b.at[i]]
           wild == b.wild \/ (n > 0 /\ (o < 0 \/ o + n > b.cap))
<1>1. c = [b EXCEPT !.at = at, !.wild = wild]
  BY DEF Overwrite
<1>2. Words(at)
  BY DEF Words, NumBuf
<1>3. wild \in BOOLEAN
  OBVIOUS
<1> HIDE DEF at, wild, c
<1>4. IsBuf(b)
  BY DEF NumBuf
<1>5. /\ IsBuf(c) /\ c.at = at /\ c.wild = wild /\ c.cap = b.cap /\ c.len = b.len
      /\ c.intact = b.intact
  BY <1>1, <1>4 DEF IsBuf
<1> QED
  BY <1>2, <1>3, <1>5 DEF Extends, NumBuf, c

LEMMA PutExtends ==
  ASSUME NEW b, NumBuf(b), NEW o \in Int, NEW w \in Int, NEW v \in Int
  PROVE  Extends(b, Put(b, o, w, v)) /\ Put(b, o, w, v).len = b.len
<1> DEFINE f == IF v = 0 THEN <<>> ELSE [i \in {o} |-> v]
<1>1. Words(f)
  BY WordsIn
<1> HIDE DEF f
<1> QED
  BY <1>1, OverwriteExtends DEF Put, f

LEMMA BufExtends ==
  ASSUME NEW b, NumBuf(b)
  PROVE  /\ \A o \in Int, n \in Int : Extends(b, Zero(b, o, n))
         /\ \A s \in Int, d \in Int, n \in Int : Extends(b, Copy(b, s, d, n))
         /\ \A n \in Int : Extends(b, EnsureLen(b, n))
         /\ \A n \in 0..b.cap : /\ NumBuf(Truncate(b, n)) /\ Truncate(b, n).cap = b.cap
                                /\ Truncate(b, n).len = n
<1> USE WordsIn, OverwriteExtends, ExtendsItself
<1>2. ASSUME NEW o \in Int, NEW n \in Int
      PROVE  Extends(b, Zero(b, o, n))
  BY DEF Zero
<1>3. ASSUME NEW s \in Int, NEW d \in Int, NEW n \in Int
      PROVE  Extends(b, Copy(b, s, d, n))
  <2>1. Words(Moved(b.at, s, d, n))
    BY DEF NumBuf
  <2> QED
    BY <2>1 DEF Copy
<1>4. ASSUME NEW n \in Int
      PROVE  Extends(b, EnsureLen(b, n))
  <2>1. CASE n < b.len
    BY <2>1 DEF EnsureLen
  <2>2. CASE ~(n < b.len) /\ n > b.cap
    BY <2>2 DEF EnsureLen, NumBuf, IsBuf, Extends
  <2>3. CASE ~(n < b.len) /\ ~(n > b.cap)
    BY <2>3 DEF EnsureLen, NumBuf, IsBuf, Extends
  <2> QED
    BY <2>1, <2>2, <2>3
<1>5. ASSUME NEW n \in 0..b.cap
      PROVE  /\ NumBuf(Truncate(b, n)) /\ Truncate(b, n).cap = b.cap /\ Truncate(b, n).len = n
  BY DEF Truncate, NumBuf, IsBuf
<1> QED
  BY <1>2, <1>3, <1>4, <1>5

\* Entries are numbers.
Numbers == [type : Int, len : Int, addr : Int]

LEMMA EntryIs ==
  ASSUME NEW t \in Int, NEW n \in Int, NEW a \in Int
  PROVE  Entry(t, n, a) \in Numbers
BY DEF Entry, Numbers

LEMMA Pad8Is ==
  ASSUME NEW n \in Int
  PROVE  Pad8(n) \in Int /\ (n >= 0 => Pad8(n) >= n)
BY DEF Pad8

LEMMA DereferenceExtends ==
  ASSUME NEW b, NumBuf(b), NEW p, Words(p.at), NEW o \in Int, NEW a \in Int, NEW n \in Int
  PROVE  Extends(b, Dereference(p, b, o, a, n).b)
<1>1. Words(Moved(p.at, a, o, n))
  BY WordsIn
<1>2. /\ Extends(b, b) /\ Extends(b, Overwrite(b, o, n, Moved(p.at, a, o, n)))
      /\ Extends(b, Zero(b, o, n))
  BY <1>1, ExtendsItself, OverwriteExtends, BufExtends
<1> QED
  BY <1>2 DEF Dereference

LEMMA PutEntryExtends ==
  ASSUME NEW b, NumBuf(b), NEW o \in Int, NEW e \in Numbers
  PROVE  Extends(b, PutEntry(b, o, e))
<1> DEFINE c == Put(b, o, 4, e.type)
           d == Put(c, o + 4, 4, e.len)
<1>1. e.type \in Int /\ e.len \in Int /\ e.addr \in Int /\ o + 4 \in Int /\ o + 8 \in Int
  BY DEF Numbers
<1>2. Extends(b, c)
  BY <1>1, PutExtends
<1> HIDE DEF c
<1>3. Extends(b, d)
  <2>1. NumBuf(c)
    BY <1>2 DEF Extends
  <2>2. Extends(c, d)
    BY <1>1, <2>1, PutExtends
  <2> QED
    BY <1>2, <2>2, ExtendsTransitive
<1> HIDE DEF d
<1>4. Extends(d, Put(d, o + 8, 8, e.addr))
  <2>1. NumBuf(d)
    BY <1>3 DEF Extends
  <2> QED
    BY <1>1, <2>1, PutExtends
<1> QED
  BY <1>3, <1>4, ExtendsTransitive DEF PutEntry, c, d

LEMMA ReserveExtends ==
  ASSUME NEW b, NumBuf(b), NEW e \in Numbers
  PROVE  LET r == reserveQueueEntry(b, e) IN Extends(b, r.b) /\ r.offset \in Int
<1> DEFINE newLen == b.len + Pad8(e.len) + QueueEntrySize
           c == EnsureLen(b, newLen)
<1>1. newLen \in Int /\ b.len \in Int /\ b.len + QueueEntrySize \in Int
  BY Pad8Is DEF Numbers, NumBuf, QueueEntrySize
<1> HIDE DEF newLen
<1>2. Extends(b, c)
  BY <1>1, BufExtends
<1> HIDE DEF c
<1>3. Extends(b, PutEntry(c, b.len, e))
  BY <1>1, <1>2, PutEntryExtends, ExtendsTransitive DEF Extends
<1> QED
  BY <1>1, <1>2, <1>3 DEF reserveQueueEntry, newLen, c

LEMMA MarkedIs ==
  ASSUME NEW t \in Int
  PROVE  Marked(t) \in Int
BY DEF Marked

LEMMA WriteExtends ==
  ASSUME NEW b, NumBuf(b), NEW p, Words(p.at), NEW e \in Numbers
  PROVE  LET w == writeQueueEntry(p, b, e) IN Extends(b, w.b) /\ w.offset \in Int
<1> DEFINE r == reserveQueueEntry(b, e)
           c == [r.b EXCEPT !.intact = @ /\ r.ok]
           d == Dereference(p, c, r.offset, e.addr, e.len)
           header == r.offset - QueueEntrySize
           marked == Put(d.b, header, 4, Marked(Get(d.b, header)))
<1>1. Extends(b, r.b) /\ r.offset \in Int
  BY ReserveExtends
<1> HIDE DEF r
<1>2. Extends(r.b, c)
  <2>1. NumBuf(r.b)
    BY <1>1 DEF Extends
  <2> DEFINE good == r.b.intact /\ r.ok
  <2>2. good \in BOOLEAN /\ c = [r.b EXCEPT !.intact = good]
    OBVIOUS
  <2> HIDE DEF good, c
  <2> QED
    BY <2>1, <2>2 DEF NumBuf, IsBuf, Extends
<1> HIDE DEF c
<1>3. Extends(b, d.b)
  <2>1. Extends(c, d.b)
    BY <1>1, <1>2, DereferenceExtends DEF Extends, Numbers
  <2> QED
    BY <1>1, <1>2, <2>1, ExtendsTransitive
<1>4. header \in Int
  BY <1>1 DEF QueueEntrySize
<1> HIDE DEF d, header
<1>5. Extends(b, marked)
  <2>1. Marked(Get(d.b, header)) \in Int
    BY <1>3, GetIs, MarkedIs DEF Extends
  <2>2. NumBuf(d.b)
    BY <1>3 DEF Extends
  <2>3. Extends(d.b, marked)
    BY <1>4, <2>1, <2>2, PutExtends
  <2> QED
    BY <1>3, <2>3, ExtendsTransitive
<1> HIDE DEF marked
<1>6. \/ writeQueueEntry(p, b, e) = [b |-> d.b, offset |-> r.offset, ok |-> TRUE]
      \/ writeQueueEntry(p, b, e) = [b |-> marked, offset |-> 0, ok |-> FALSE]
  BY DEF writeQueueEntry, Filled, r, c, d, header, marked
<1> QED
  BY <1>1, <1>3, <1>5, <1>6

LEMMA FullExtends ==
  ASSUME NEW b, NumBuf(b)
  PROVE  Extends(b, [b EXCEPT !.full = TRUE])
BY DEF Extends, NumBuf, IsBuf

LEMMA FrameExtends ==
  ASSUME NEW b, NumBuf(b), NEW typeID \in Int, NEW progID \in Int, NEW dataLen \in Nat,
         NEW depth \in Int
  PROVE  LET f == PrepareFrameData(b, typeID, progID, dataLen, depth) IN
         Extends(b, f.b) /\ f.offset \in Int
<1> DEFINE entry == b.len + FrameHeaderSize
           data == entry + QueueEntrySize
           size == FrameSize(dataLen)
           grown == [b EXCEPT !.len = @ + size]
           c1 == Put(grown, b.len, 4, entry)
           c2 == Put(c1, b.len + 4, 4, 0)
           e == Entry(typeID, dataLen + 8, 0)
           framed == PutEntry(c2, entry, e)
           c3 == Put(framed, data + dataLen, 4, progID)
           c4 == Put(c3, data + dataLen + 4, 4, depth)
           f == PrepareFrameData(b, typeID, progID, dataLen, depth)
<1>1. /\ b.len \in Int /\ entry \in Int /\ data \in Int /\ b.len + 4 \in Int
      /\ data + dataLen \in Int /\ data + dataLen + 4 \in Int /\ size \in Nat
  BY Pad8Is DEF NumBuf, FrameHeaderSize, QueueEntrySize, FrameSize
<1>2. e \in Numbers
  BY EntryIs
<1>3. /\ b.len + size > b.cap => f = [b |-> [b EXCEPT !.full = TRUE], offset |-> 0, ok |-> FALSE]
      /\ ~(b.len + size > b.cap) => f = [b |-> c4, offset |-> data, ok |-> TRUE]
  BY DEF PrepareFrameData
<1>4. CASE b.len + size > b.cap
  BY <1>3, <1>4, FullExtends
<1>5. CASE ~(b.len + size > b.cap)
  <2> HIDE DEF size, entry, data, e, f
  <2>1. Extends(b, grown)
    BY <1>1, <1>5 DEF Extends, NumBuf, IsBuf
  <2> HIDE DEF grown
  <2>2. Extends(b, c1)
    BY <1>1, <2>1, PutExtends, ExtendsTransitive DEF Extends
  <2> HIDE DEF c1
  <2>3. Extends(b, c2)
    <3>1. NumBuf(c1)
      BY <2>2 DEF Extends
    <3>2. Extends(c1, c2)
      BY <1>1, <3>1, PutExtends
    <3> QED
      BY <2>2, <3>2, ExtendsTransitive
  <2> HIDE DEF c2
  <2>4. Extends(b, framed)
    BY <1>1, <1>2, <2>3, PutEntryExtends, ExtendsTransitive DEF Extends
  <2> HIDE DEF framed
  <2>5. Extends(b, c3)
    <3>1. NumBuf(framed)
      BY <2>4 DEF Extends
    <3>2. Extends(framed, c3)
      BY <1>1, <3>1, PutExtends
    <3> QED
      BY <2>4, <3>2, ExtendsTransitive
  <2> HIDE DEF c3
  <2>6. Extends(b, c4)
    <3>1. NumBuf(c3)
      BY <2>5 DEF Extends
    <3>2. Extends(c3, c4)
      BY <1>1, <3>1, PutExtends
    <3> QED
      BY <2>5, <3>2, ExtendsTransitive
  <2> HIDE DEF c4
  <2> QED
    BY <1>1, <1>3, <1>5, <2>6 DEF f
<1> QED
  BY <1>1, <1>4, <1>5

LEMMA ConcludeExtends ==
  ASSUME NEW b, NumBuf(b), NEW o \in Int
  PROVE  Extends(b, ConcludeFrameData(b, o))
<1>1. b.len - Get(b, o) \in Int
  BY GetIs DEF NumBuf
<1> QED
  BY <1>1, PutExtends DEF ConcludeFrameData

LEMMA CountedExtends ==
  ASSUME NEW b, NumBuf(b), NEW field \in Int
  PROVE  Extends(b, Counted(b, field)) /\ Counted(b, field).len = b.len
<1>1. Get(b, field) + 1 \in Int
  BY GetIs
<1> QED
  BY <1>1, PutExtends DEF Counted

LEMMA StackExtends ==
  ASSUME NEW b, NumBuf(b), NEW pcs, Len(pcs) \in Nat, \A i \in 1..Len(pcs) : pcs[i] \in Int
  PROVE  Extends(b, writeStack(b, pcs))
<1> DEFINE n == 8 * Len(pcs)
           grown == EnsureLen(b, b.len + n)
           O == {b.len + 8 * (i - 1) : i \in 1..Len(pcs)}
           f == [o \in O |-> pcs[(o - b.len) \div 8 + 1]]
<1>1. n \in Int /\ b.len + n \in Int /\ b.len \in Int
  BY DEF NumBuf
<1>2. Extends(b, grown)
  BY <1>1, BufExtends
<1>3. Words(f)
  <2>1. ASSUME NEW o \in O
        PROVE  o \in Int /\ pcs[(o - b.len) \div 8 + 1] \in Int
    <3>1. PICK i \in 1..Len(pcs) : o = b.len + 8 * (i - 1)
      OBVIOUS
    <3>2. o \in Int /\ o - b.len = 8 * (i - 1) /\ i \in Int
      BY <1>1, <3>1
    <3>3. \A j \in Int : (8 * j) \div 8 = j
      OBVIOUS
    <3>4. (8 * (i - 1)) \div 8 + 1 = i
      BY <3>2, <3>3
    <3> QED
      BY <3>2, <3>4
  <2> HIDE DEF O
  <2> QED
    BY <2>1 DEF Words
<1> HIDE DEF n, f, grown
<1>4. Extends(grown, Overwrite(grown, b.len, n, f))
  BY <1>1, <1>2, <1>3, OverwriteExtends DEF Extends
<1>5. Extends(b, Overwrite(grown, b.len, n, f))
  BY <1>2, <1>4, ExtendsTransitive
<1>6. writeStack(b, pcs) = IF grown.full THEN grown ELSE Overwrite(grown, b.len, n, f)
  BY DEF writeStack, grown, n, f
<1> QED
  BY <1>2, <1>5, <1>6

-----------------------------------------------------------------------------
(***************************************************************************)
(* The machine: its registers are numbers.                                 *)
(***************************************************************************)
\* The walk of the contexts, in a buffer of this capacity.
WalkRecord(r, cap) ==
  /\ DOMAIN r = {"context", "end", "at", "type", "left"}
  /\ r.context \in Int /\ r.end \in 0..cap /\ r.at \in Int
  /\ r.at # NoContext => /\ r.type \in DOMAIN program.TypeInfo
                         /\ program.TypeInfo[r.type].GoContextImpl # <<>>

NumWalk(w, cap) == w = <<>> \/ \E r : w = <<r>> /\ WalkRecord(r, cap)

NumMachine(x, cap) ==
  /\ IsMachine(x) /\ x.ok \in BOOLEAN
  /\ x.depth \in Int /\ x.offset \in Int /\ x.cfa \in Int /\ x.frame \in Int
  /\ x.results \in Int /\ x.rootAddr \in Int /\ x.base \in Int
  /\ x.resultsEnd \in 0..cap
  /\ x.pc \in 0..ProgLen /\ x.steps \in 0..MaxSteps
  /\ x.stack \in Seq(Int) /\ x.chased \in Numbers
  /\ x.exprType \in {"Frame", "Pointer"} /\ x.crash \in {"none", "fault", "panic"}
  /\ NumWalk(x.walk, cap) /\ (x.walk # <<>> => x.steps < MaxSteps)

NumQueue(qu) == DOMAIN qu = {"seen", "q"} /\ qu.q \in Seq(Numbers)

\* What does not change.
Constants ==
  mem \in Memories /\ \E p \in Programs : program = Loaded(p)

\* Between two instructions, or two steps of a walk.
Ready ==
  Constants /\ NumBuf(buf) /\ NumMachine(m, buf.cap) /\ NumQueue(queue) /\ m.on

\* A buffer that a step may leave: cut off, if at all, where the results or the walk
\* say.
Resized(b) ==
  /\ NumBuf(b) /\ b.cap = buf.cap
  /\ \/ buf.len <= b.len
     \/ /\ m.walk = <<>> /\ I.name \in {"SaveExprResult", "DereferencePtr"}
        /\ m.resultsEnd <= b.len
     \/ m.walk # <<>> /\ m.walk[1].end <= b.len

\* These places are set to the end of the buffer.
Places ==
  /\ \/ m'.resultsEnd = m.resultsEnd
     \/ m.walk = <<>> /\ I.name = "PrepareExprEval" /\ m'.resultsEnd = buf.len
  /\ \/ m'.walk = <<>>
     \/ m.walk = <<>> /\ buf.len <= m'.walk[1].end
     \/ m.walk # <<>> /\ m'.walk[1].end = m.walk[1].end

Stepped ==
  /\ Resized(buf') /\ NumMachine(m', buf.cap) /\ NumQueue(queue') /\ Places
  /\ m'.on \/ m'.walk = <<>>

\* The machine with other registers.
Near(x) ==
  /\ NumMachine(x, buf.cap) /\ x.resultsEnd = m.resultsEnd /\ x.walk = m.walk
  /\ x.steps = m.steps

LEMMA ReadyFacts ==
  ASSUME Constants, m.pc \in 0..ProgLen
  PROVE  /\ Words(mem.at) /\ ProgLen \in Nat /\ MaxSteps \in Nat
         /\ Instruction(I, ProgLen)
         /\ program.SubroutineClassifier.Unresolved \in Int
         /\ \A pc \in DOMAIN program.SubroutineClassifier.Types :
              program.SubroutineClassifier.Types[pc] \in Int
         /\ \A t \in DOMAIN program.TypeInfo :
              /\ t \in Int /\ TypeInfo(program.TypeInfo[t])
              /\ program.TypeInfo[t].ByteLen \in Int /\ program.TypeInfo[t].EnqueuePc \in Int
         /\ \A g : TypeId(g) \in Int
         /\ \A a \in Int : GoRuntimeType(a) \in Int
<1>1. PICK p \in Programs : program = Loaded(p)
  BY DEF Constants
<1>2. /\ ProgLen \in Nat /\ \A pc \in 0..ProgLen : Instruction(program.Prog[pc], ProgLen)
      /\ Uint(program.SubroutineClassifier.Unresolved)
      /\ \A pc \in DOMAIN program.SubroutineClassifier.Types :
           Uint(program.SubroutineClassifier.Types[pc])
      /\ \A g \in DOMAIN program.GoRuntimeTypeToTypeId : Uint(program.GoRuntimeTypeToTypeId[g])
      /\ \A t \in DOMAIN program.TypeInfo : Uint(t) /\ TypeInfo(program.TypeInfo[t])
  BY <1>1, ProgramIs
<1>3. ASSUME NEW n, Uint(n)
      PROVE  n \in Int
  BY <1>3 DEF Uint
<1>4. Words(mem.at)
  BY MemoryAssumption DEF Constants, Memory, Words
<1>5. MaxSteps \in Nat /\ GoTypesRange[1] \in Int
  BY MachineAssumption
<1>6. \A g : TypeId(g) \in Int
  BY <1>2, <1>3 DEF TypeId
<1>7. \A a \in Int : GoRuntimeType(a) \in Int
  BY <1>5 DEF GoRuntimeType
<1>8. \A t \in DOMAIN program.TypeInfo :
        program.TypeInfo[t].ByteLen \in Int /\ program.TypeInfo[t].EnqueuePc \in Int
  BY <1>2, <1>3 DEF TypeInfo
<1>9. Instruction(I, ProgLen)
  BY <1>2 DEF I
<1> QED
  BY <1>2, <1>3, <1>4, <1>5, <1>6, <1>7, <1>8, <1>9

LEMMA OperandsAre ==
  ASSUME Instruction(I, ProgLen)
  PROVE  /\ I.next \in 0..ProgLen
         /\ I.name \in {"Call", "CondJump", "Jump"} => arg.Pc \in Nat
         /\ I.name = "EnqueuePointer" => arg.ElemType \in Nat
         /\ I.name = "EnqueueSliceHeader" => arg.ArrayType \in Nat /\ arg.ElemByteLen \in Nat
         /\ I.name = "EnqueueStringHeader" => arg.StringDataType \in Nat
         /\ I.name = "EnqueueHMapHeader" =>
              /\ arg.BucketsArrayType \in Nat /\ arg.BucketByteLen \in Nat
              /\ arg.FlagsOffset \in Nat /\ arg.BOffset \in Nat
              /\ arg.BucketsOffset \in Nat /\ arg.OldBucketsOffset \in Nat
         /\ I.name = "PushImm" => arg.Value \in Nat
         /\ I.name = "PushSliceLen" => arg.ElemByteLen \in Nat
         /\ I.name = "AdvanceOffset" => arg.Increment \in Nat
         /\ I.name = "DereferenceCFAOffset" =>
              arg.Offset \in Int /\ arg.ByteLen \in Nat /\ arg.PointerBias \in Nat
         /\ I.name = "CopyFromRegister" => arg.ByteSize \in Nat
         /\ I.name = "ZeroFill" => arg.ByteLen \in Nat
         /\ I.name = "PrepareFrameData" =>
              arg.ProgID \in Nat /\ arg.DataByteLen \in Nat /\ arg.TypeID \in Nat
         /\ I.name = "PrepareGoContext" =>
              arg.DataByteLen \in Nat /\ arg.TypeID \in Nat /\ arg.CaptureCount \in Nat
         /\ I.name = "SetPresenceBit" => arg.BitOffset \in Nat
         /\ I.name = "EnqueueSwissMap" =>
              /\ arg.TablePtrSliceType \in Nat /\ arg.GroupType \in Nat
              /\ arg.DirPtrOffset \in Nat /\ arg.DirLenOffset \in Nat
         /\ I.name = "EnqueueSwissMapGroups" =>
              /\ arg.GroupSliceType \in Nat /\ arg.GroupByteLen \in Nat
              /\ arg.DataOffset \in Nat /\ arg.LengthMaskOffset \in Nat
         /\ I.name = "SaveExprResult" => arg.ResultOffset \in Nat /\ arg.ByteLen \in Nat
         /\ I.name = "DereferencePtr" => arg.Bias \in Nat /\ arg.ByteLen \in Nat
BY DEF Instruction, OperandsOf, OperandOf, arg

LEMMA NearRegisters ==
  ASSUME NumMachine(m, buf.cap)
  PROVE  /\ Near(m)
         /\ \A v \in Int : Near([m EXCEPT !.offset = v])
         /\ \A s \in Seq(Int) : Near([m EXCEPT !.stack = s])
         /\ \A v \in Int, f \in Int, t \in {"Frame", "Pointer"} :
              /\ Near([m EXCEPT !.frame = f, !.exprType = t, !.results = v, !.offset = v])
              /\ Near([m EXCEPT !.exprType = t, !.results = v, !.rootAddr = f, !.offset = v])
<1>1. IsMachine(m) /\ \A s \in Seq(Int) : IsStack(s)
  BY DEF NumMachine, IsStack
<1>2. Near(m)
  BY DEF Near
<1>3. \A v \in Int : Near([m EXCEPT !.offset = v])
  BY <1>1 DEF Near, NumMachine, IsMachine, MachineFields
<1>4. \A s \in Seq(Int) : Near([m EXCEPT !.stack = s])
  BY <1>1 DEF Near, NumMachine, IsMachine, MachineFields
<1>5. ASSUME NEW v \in Int, NEW f \in Int, NEW t \in {"Frame", "Pointer"}
      PROVE  Near([m EXCEPT !.frame = f, !.exprType = t, !.results = v, !.offset = v])
  BY <1>1 DEF Near, NumMachine, IsMachine, MachineFields
<1>6. ASSUME NEW v \in Int, NEW f \in Int, NEW t \in {"Frame", "Pointer"}
      PROVE  Near([m EXCEPT !.exprType = t, !.results = v, !.rootAddr = f, !.offset = v])
  BY <1>1 DEF Near, NumMachine, IsMachine, MachineFields
<1> QED
  BY <1>2, <1>3, <1>4, <1>5, <1>6

LEMMA StackValues ==
  ASSUME NumMachine(m, buf.cap)
  PROVE  /\ \A v \in Int : Append(m.stack, v) \in Seq(Int)
         /\ m.stack # <<>> => /\ Top \in Int /\ Below \in Seq(Int)
                              /\ \A v \in Int : Append(Below, v) \in Seq(Int)
<1>1. m.stack \in Seq(Int) /\ Len(m.stack) \in Nat
  BY DEF NumMachine
<1>2. ASSUME m.stack # <<>>
      PROVE  Top \in Int /\ Below \in Seq(Int)
  <2>1. Len(m.stack) \in 1..Len(m.stack)
    BY <1>1, <1>2
  <2>2. Top \in Int
    BY <1>1, <2>1, ElementOfSeq DEF Top
  <2>3. Below \in Seq(Int)
    BY <1>1, <2>1 DEF Below
  <2> QED
    BY <2>2, <2>3
<1> QED
  BY <1>1, <1>2

LEMMA ExtendsResized ==
  ASSUME Ready
  PROVE  Resized(buf) /\ \A b : Extends(buf, b) => Resized(b)
BY ExtendsItself DEF Ready, Extends, Resized

\* Then, for an instruction of a run.
LEMMA ThenStepped ==
  ASSUME Ready, m.walk = <<>>, m.steps < MaxSteps, NEW x, Near(x), NEW b, Resized(b),
         NEW qu, NumQueue(qu), Then(x, b, qu)
  PROVE  Stepped
<1> DEFINE y == [x EXCEPT !.pc = I.next, !.steps = @ + 1]
<1>1. m' = y /\ buf' = b /\ queue' = qu
  BY DEF Then
<1>2. I.next \in 0..ProgLen /\ MaxSteps \in Nat
  BY ReadyFacts, OperandsAre DEF Ready, NumMachine
<1>3. NumMachine(y, buf.cap) /\ y.resultsEnd = m.resultsEnd /\ y.walk = <<>>
  BY <1>2 DEF Near, NumMachine, IsMachine, MachineFields
<1> HIDE DEF y
<1> QED
  BY <1>1, <1>3 DEF Stepped, Places

LEMMA StopsStepped ==
  ASSUME Ready, m.walk = <<>>, NEW ok \in BOOLEAN, NEW b, Resized(b), Stops(ok, b)
  PROVE  Stepped
<1> DEFINE y == [m EXCEPT !.on = FALSE, !.ok = ok]
<1>1. m' = y /\ buf' = b /\ queue' = queue
  BY DEF Stops
<1>2. NumMachine(y, buf.cap) /\ y.resultsEnd = m.resultsEnd /\ y.walk = m.walk
  BY DEF Ready, NumMachine, IsMachine, MachineFields
<1> HIDE DEF y
<1> QED
  BY <1>1, <1>2 DEF Ready, Stepped, Places

LEMMA JumpsStepped ==
  ASSUME Ready, m.walk = <<>>, m.steps < MaxSteps, NEW x, Near(x), NEW pc, NEW b, Resized(b),
         Jumps(x, pc, b)
  PROVE  Stepped
<1>1. ProgLen \in Nat /\ MaxSteps \in Nat
  BY ReadyFacts DEF Ready, NumMachine
<1>2. CASE pc \notin 0..ProgLen - 1
  BY <1>1, <1>2, StopsStepped DEF Jumps
<1>3. CASE pc \in 0..ProgLen - 1
  <2> DEFINE y == [x EXCEPT !.pc = pc, !.steps = @ + 1]
  <2>1. m' = y /\ buf' = b /\ queue' = queue
    BY <1>3 DEF Jumps
  <2>2. pc \in 0..ProgLen
    BY <1>1, <1>3
  <2>3. NumMachine(y, buf.cap) /\ y.resultsEnd = m.resultsEnd /\ y.walk = <<>>
    <3>1. x.steps + 1 \in 0..MaxSteps /\ NumMachine(x, buf.cap) /\ x.walk = <<>>
      BY <1>1 DEF Near, NumMachine
    <3>2. x.resultsEnd = m.resultsEnd
      BY DEF Near
    <3> QED
      BY <2>2, <3>1, <3>2 DEF NumMachine, IsMachine, MachineFields
  <2> HIDE DEF y
  <2> QED
    BY <1>1, <2>1, <2>3 DEF Ready, Stepped, Places
<1> QED
  BY <1>2, <1>3

LEMMA ReturnsStepped ==
  ASSUME Ready, m.walk = <<>>, m.steps < MaxSteps, NEW b, Resized(b), Returns(b)
  PROVE  Stepped
<1>1. CASE m.stack = <<>>
  BY <1>1, StopsStepped DEF Returns
<1>2. CASE m.stack # <<>>
  <2>1. Near(Popped)
    BY <1>2, StackValues, NearRegisters DEF Ready, Popped
  <2> QED
    BY <1>2, <2>1, JumpsStepped DEF Returns
<1> QED
  BY <1>1, <1>2

LEMMA WordIs ==
  ASSUME Ready, NEW n
  PROVE  Word(n) \in Int /\ ByteAt(n) \in Nat
<1>1. Word(n) \in Int
  BY GetIs DEF Ready, Word
<1> QED
  BY <1>1 DEF ByteAt

LEMMA ReadyNumbers ==
  ASSUME Ready
  PROVE  /\ m.offset \in Int /\ m.results \in Int /\ m.resultsEnd \in 0..buf.cap
         /\ m.cfa \in Int /\ m.frame \in Int /\ m.rootAddr \in Int /\ m.depth \in Int
         /\ m.chased \in Numbers /\ m.exprType \in {"Frame", "Pointer"} /\ m.ok \in BOOLEAN
         /\ buf.len \in 0..buf.cap /\ buf.len \in Int /\ buf.cap \in Nat
         /\ Words(mem.at) /\ NumMachine(m, buf.cap) /\ NumBuf(buf) /\ NumQueue(queue)
         /\ Instruction(I, ProgLen) /\ Resized(buf) /\ Near(m)
<1>1. Resized(buf) /\ Near(m) /\ m.pc \in 0..ProgLen
  BY ExtendsResized, NearRegisters DEF Ready, NumMachine
<1>2. Words(mem.at) /\ Instruction(I, ProgLen)
  BY <1>1, ReadyFacts DEF Ready
<1>3. buf.len \in 0..buf.cap /\ buf.len \in Int /\ buf.cap \in Nat
  BY DEF Ready, NumBuf
<1>4. /\ m.offset \in Int /\ m.results \in Int /\ m.resultsEnd \in 0..buf.cap
      /\ m.cfa \in Int /\ m.frame \in Int /\ m.rootAddr \in Int /\ m.depth \in Int
      /\ m.chased \in Numbers /\ m.exprType \in {"Frame", "Pointer"} /\ m.ok \in BOOLEAN
  BY DEF Ready, NumMachine
<1> QED
  BY <1>1, <1>2, <1>3, <1>4 DEF Ready

\* What an instruction assumes.
LEMMA AtFacts ==
  ASSUME NEW name, At(name)
  PROVE  m.on /\ m.walk = <<>> /\ m.steps < MaxSteps /\ I.name = name
BY DEF At

LEMMA ControlStepped ==
  ASSUME Ready,
         \/ Panics \/ Illegal \/ StepLimit \/ Invalid \/ Nothing \/ Call \/ Jump \/ CondJump
         \/ Decrement \/ Pop \/ PushImm \/ PushOffset \/ PushSliceLen \/ Return \/ SetOffset
         \/ AdvanceOffset
  PROVE  Stepped
<1> USE ReadyNumbers, OperandsAre, AtFacts
<1>1. CASE Panics \/ Illegal \/ StepLimit
  <2>1. PICK c \in {"none", "fault", "panic"} :
          m' = [m EXCEPT !.on = FALSE, !.ok = FALSE, !.crash = c]
    <3>1. m.crash \in {"none", "fault", "panic"} /\ IsMachine(m)
      BY DEF NumMachine
    <3>2. CASE StepLimit
      BY <3>1, <3>2 DEF StepLimit, IsMachine, MachineFields
    <3>3. CASE Panics \/ Illegal
      BY <3>3 DEF Panics, Illegal
    <3> QED
      BY <1>1, <3>2, <3>3
  <2>2. buf' = buf /\ queue' = queue /\ m.walk = <<>>
    BY <1>1 DEF Panics, Illegal, StepLimit
  <2> DEFINE y == [m EXCEPT !.on = FALSE, !.ok = FALSE, !.crash = c]
  <2>3. NumMachine(y, buf.cap) /\ y.resultsEnd = m.resultsEnd /\ y.walk = m.walk
    BY DEF Ready, NumMachine, IsMachine, MachineFields
  <2> HIDE DEF y
  <2> QED
    BY <2>1, <2>2, <2>3 DEF Stepped, Places, y
<1>2. CASE Invalid
  BY <1>2, StopsStepped DEF Invalid
<1>3. CASE Nothing
  BY <1>3, ThenStepped DEF Nothing, Sets
<1>4. CASE Call
  <2>1. I.next \in Int /\ m.walk = <<>> /\ m.steps < MaxSteps
    BY <1>4 DEF Call
  <2>2. Near(Pushed(I.next))
    BY <2>1, StackValues, NearRegisters DEF Pushed
  <2> QED
    BY <1>4, <2>1, <2>2, JumpsStepped DEF Call
<1>5. CASE Jump
  BY <1>5, JumpsStepped DEF Jump
<1>6. CASE CondJump
  BY <1>6, JumpsStepped, ThenStepped DEF CondJump, Sets
<1>7. CASE Decrement
  <2>1. Top - 1 \in Int /\ m.stack # <<>> /\ m.walk = <<>> /\ m.steps < MaxSteps
    BY <1>7, StackValues DEF Decrement
  <2>2. Near(Replaced(Top - 1))
    BY <2>1, StackValues, NearRegisters DEF Replaced
  <2> QED
    BY <1>7, <2>1, <2>2, ThenStepped DEF Decrement, Sets
<1>8. CASE Pop
  <2>1. Near(Popped)
    BY <1>8, StackValues, NearRegisters DEF Pop, Popped
  <2> QED
    BY <1>8, <2>1, ThenStepped DEF Pop, Sets
<1>9. CASE PushImm \/ PushOffset \/ PushSliceLen
  <2>1. PICK v \in Int : Sets(Pushed(v)) /\ m.walk = <<>> /\ m.steps < MaxSteps
    <3>1. CASE PushImm
      BY <3>1 DEF PushImm
    <3>2. CASE PushOffset
      BY <3>2 DEF PushOffset
    <3>3. CASE PushSliceLen
      <4>1. arg.ElemByteLen \in Nat /\ arg.ElemByteLen # 0
        BY <3>3 DEF PushSliceLen
      <4>2. GetEntryLen(buf, m.offset) \in Int
        BY GetIs DEF GetEntryLen
      <4>3. GetEntryLen(buf, m.offset) \div arg.ElemByteLen \in Int
        BY <4>1, <4>2
      <4> QED
        BY <3>3, <4>3 DEF PushSliceLen
    <3> QED
      BY <1>9, <3>1, <3>2, <3>3
  <2>2. Near(Pushed(v))
    BY StackValues, NearRegisters DEF Pushed
  <2> QED
    BY <2>1, <2>2, ThenStepped DEF Sets
<1>10. CASE Return
  BY <1>10, ReturnsStepped DEF Return
<1>11. CASE SetOffset
  <2>1. Near([m EXCEPT !.offset = Top])
    BY <1>11, StackValues, NearRegisters DEF SetOffset
  <2> QED
    BY <1>11, <2>1, ThenStepped DEF SetOffset, Sets
<1>12. CASE AdvanceOffset
  <2>1. m.offset + arg.Increment \in Int
    BY <1>12 DEF AdvanceOffset
  <2>2. Near([m EXCEPT !.offset = @ + arg.Increment])
    BY <2>1, NearRegisters
  <2> QED
    BY <1>12, <2>2, ThenStepped DEF AdvanceOffset, Sets
<1> QED
  BY <1>1, <1>2, <1>3, <1>4, <1>5, <1>6, <1>7, <1>8, <1>9, <1>10, <1>11, <1>12

LEMMA PushIs ==
  ASSUME NEW qu, NumQueue(qu), NEW a \in Int, NEW t \in Int
  PROVE  /\ NumQueue(Recorded(qu, a, t))
         /\ \A n \in Int : NumQueue(Push(qu, a, t, n))
<1>1. /\ DOMAIN Recorded(qu, a, t) = {"seen", "q"} /\ Recorded(qu, a, t).q = qu.q
  BY DEF Recorded, NumQueue
<1>2. NumQueue(Recorded(qu, a, t))
  BY <1>1 DEF NumQueue
<1>3. ASSUME NEW n \in Int
      PROVE  NumQueue(Push(qu, a, t, n))
  <2>1. Entry(t, n, a) \in Numbers
    BY EntryIs
  <2> DEFINE r == Recorded(qu, a, t)
  <2> HIDE DEF r
  <2>2. NumQueue([r EXCEPT !.q = Append(@, Entry(t, n, a))])
    BY <1>2, <2>1 DEF NumQueue, r
  <2> QED
    BY <2>2 DEF Push, r
<1> QED
  BY <1>2, <1>3

\* Push, by an instruction of a run.
LEMMA PushesStepped ==
  ASSUME Ready, m.walk = <<>>, m.steps < MaxSteps, NEW a \in Int, NEW t \in Int, NEW n \in Int,
         Pushes(a, t, n)
  PROVE  Stepped
BY PushIs, ReadyNumbers, ThenStepped DEF Pushes

LEMMA QueueingStepped ==
  ASSUME Ready,
         \/ EnqueuePointer \/ EnqueueSliceHeader \/ EnqueueStringHeader
         \/ EnqueueSwissMap \/ EnqueueSwissMapGroups \/ EnqueueHMapHeader
  PROVE  Stepped
<1> USE ReadyNumbers, OperandsAre, AtFacts
<1>1. CASE EnqueuePointer
  <2>1. m.walk = <<>> /\ m.steps < MaxSteps /\ arg.ElemType \in Int /\ Word(0) \in Int
    BY <1>1, WordIs DEF EnqueuePointer
  <2>2. Stops(FALSE, buf) \/ Pushes(Word(0), arg.ElemType, 0)
    BY <1>1 DEF EnqueuePointer
  <2>3. CASE Stops(FALSE, buf)
    BY <2>1, <2>3, StopsStepped
  <2>4. CASE Pushes(Word(0), arg.ElemType, 0)
    BY <2>1, <2>4, PushesStepped
  <2> QED
    BY <2>2, <2>3, <2>4
<1>2. CASE EnqueueSliceHeader
  <2>1. m.walk = <<>> /\ m.steps < MaxSteps /\ arg.ArrayType \in Int /\ arg.ElemByteLen \in Int
    BY <1>2 DEF EnqueueSliceHeader
  <2>2. Word(8) \in Int /\ Word(0) \in Int
    BY WordIs
  <2>3. Word(8) * arg.ElemByteLen \in Int
    BY <2>1, <2>2
  <2> QED
    BY <1>2, <2>1, <2>2, <2>3, ThenStepped, PushesStepped DEF EnqueueSliceHeader, Sets
<1>3. CASE EnqueueStringHeader
  BY <1>3, WordIs, ThenStepped, PushesStepped DEF EnqueueStringHeader, Sets
<1>4. CASE EnqueueSwissMap
  <2>1. /\ m.walk = <<>> /\ m.steps < MaxSteps /\ arg.TablePtrSliceType \in Int
        /\ arg.GroupType \in Int
    BY <1>4 DEF EnqueueSwissMap
  <2>2. Word(arg.DirPtrOffset) \in Int /\ 8 * Word(arg.DirLenOffset) \in Int
    BY WordIs
  <2> QED
    BY <1>4, <2>1, <2>2, PushesStepped DEF EnqueueSwissMap
<1>5. CASE EnqueueSwissMapGroups
  <2>1. /\ m.walk = <<>> /\ m.steps < MaxSteps /\ arg.GroupSliceType \in Int
        /\ arg.GroupByteLen \in Int
    BY <1>5 DEF EnqueueSwissMapGroups
  <2>2. Word(arg.DataOffset) \in Int /\ Word(arg.LengthMaskOffset) + 1 \in Int
    BY WordIs
  <2>3. arg.GroupByteLen * (Word(arg.LengthMaskOffset) + 1) \in Int
    BY <2>1, <2>2
  <2> QED
    BY <1>5, <2>1, <2>2, <2>3, PushesStepped DEF EnqueueSwissMapGroups
<1>6. CASE EnqueueHMapHeader
  <2> DEFINE buckets == 2 ^ ByteAt(arg.BOffset)
             same == (ByteAt(arg.FlagsOffset) \div sameSizeGrow) % 2 = 1
             oldBuckets == IF same THEN buckets ELSE buckets \div 2
             n1 == buckets * arg.BucketByteLen
             n2 == oldBuckets * arg.BucketByteLen
             q1 == Push(queue, Word(arg.BucketsOffset), arg.BucketsArrayType, n1)
             q2 == Push(q1, Word(arg.OldBucketsOffset), arg.BucketsArrayType, n2)
  <2>1. /\ m.walk = <<>> /\ m.steps < MaxSteps /\ arg.BucketsArrayType \in Int
        /\ arg.BucketByteLen \in Int /\ m.stack # <<>>
    BY <1>6 DEF EnqueueHMapHeader
  <2>2. Then(Replaced(0), buf, q2)
    BY <1>6 DEF EnqueueHMapHeader
  <2>3. Word(arg.BucketsOffset) \in Int /\ Word(arg.OldBucketsOffset) \in Int
    BY WordIs
  <2>4. buckets \in Int
    <3>1. \A x \in Nat : 2 ^ x \in Int
      OBVIOUS
    <3> QED
      BY <3>1, WordIs
  <2> HIDE DEF buckets
  <2>5. oldBuckets \in Int
    BY <2>4
  <2> HIDE DEF oldBuckets
  <2>6. n1 \in Int /\ n2 \in Int
    BY <2>1, <2>4, <2>5
  <2> HIDE DEF n1, n2
  <2>7. NumQueue(q1)
    BY <2>1, <2>3, <2>6, PushIs
  <2> HIDE DEF q1
  <2>8. NumQueue(q2)
    BY <2>1, <2>3, <2>6, <2>7, PushIs
  <2> HIDE DEF q2
  <2>9. Near(Replaced(0))
    <3>1. Append(Below, 0) \in Seq(Int)
      BY <2>1, StackValues
    <3> QED
      BY <3>1, NearRegisters DEF Replaced
  <2> QED
    BY <2>1, <2>2, <2>8, <2>9, ThenStepped
<1> QED
  BY <1>1, <1>2, <1>3, <1>4, <1>5, <1>6

LEMMA InterfaceStepped ==
  ASSUME Ready, EnqueueEmptyInterface \/ EnqueueInterface
  PROVE  Stepped
<1> DEFINE d == Dereference(mem, buf, m.offset, Word(0) + 8, 8)
           goType1 == GoRuntimeType(Word(0))
           goType2 == GoRuntimeType(Get(d.b, m.offset))
           b1 == Put(buf, m.offset, 8, goType1)
           b2 == Put(d.b, m.offset, 8, goType2)
<1>1. Word(0) \in Int /\ Word(8) \in Int /\ m.offset \in Int /\ NumBuf(buf) /\ Words(mem.at)
  BY WordIs, ReadyNumbers
<1>2. /\ \A g : TypeId(g) \in Int
      /\ \A a \in Int : GoRuntimeType(a) \in Int
  BY ReadyFacts DEF Ready, NumMachine
<1>3. Extends(buf, b1)
  BY <1>1, <1>2, PutExtends
<1>4. Extends(buf, d.b)
  BY <1>1, DereferenceExtends
<1>5. Extends(buf, b2)
  <2>1. NumBuf(d.b)
    BY <1>4 DEF Extends
  <2> HIDE DEF d
  <2>2. goType2 \in Int
    BY <1>2, <2>1, GetIs
  <2>3. Extends(d.b, b2)
    BY <1>1, <2>1, <2>2, PutExtends
  <2> QED
    BY <1>1, <1>4, <2>3, ExtendsTransitive
<1>6. /\ NumQueue(Push(queue, Word(8), TypeId(goType1), 0))
      /\ NumQueue(Push(queue, Word(8), TypeId(goType2), 0)) /\ NumQueue(queue)
  <2> HIDE DEF goType1, goType2
  <2>1. NumQueue(queue) /\ TypeId(goType1) \in Int /\ TypeId(goType2) \in Int /\ 0 \in Int
    BY <1>2, ReadyNumbers
  <2> QED
    BY <1>1, <2>1, PushIs
<1>7. m.walk = <<>> /\ m.steps < MaxSteps
  BY AtFacts DEF EnqueueEmptyInterface, EnqueueInterface
<1>8. \E b \in {buf, b1, d.b, b2}, qu \in {queue, Push(queue, Word(8), TypeId(goType1), 0),
                                           Push(queue, Word(8), TypeId(goType2), 0)} :
         Then(m, b, qu)
  <2>1. CASE EnqueueEmptyInterface
    BY <2>1 DEF EnqueueEmptyInterface, Sets, Writes
  <2>2. CASE EnqueueInterface
    BY <2>2 DEF EnqueueInterface, Sets, Writes
  <2> QED
    BY <2>1, <2>2
<1> HIDE DEF b1, b2, d, goType1, goType2
<1>9. Resized(buf) /\ Resized(b1) /\ Resized(d.b) /\ Resized(b2) /\ Near(m)
  BY <1>3, <1>4, <1>5, ExtendsResized, ReadyNumbers
<1> QED
  BY <1>6, <1>7, <1>8, <1>9, ThenStepped

LEMMA SubroutineStepped ==
  ASSUME Ready, EnqueueSubroutine
  PROVE  Stepped
<1> DEFINE e == Entry(program.SubroutineClassifier.Unresolved, 8, Word(0))
           w == writeQueueEntry(mem, buf, e)
           entryPc == Get(w.b, w.offset) - BssShift
           b == Put(w.b, w.offset, 8, entryPc)
           types == program.SubroutineClassifier.Types
           qu == Push(queue, Word(0), types[entryPc], 0)
<1>1. Word(0) \in Int /\ NumBuf(buf) /\ Words(mem.at) /\ NumQueue(queue) /\ Near(m)
  BY WordIs, ReadyNumbers
<1>2. /\ program.SubroutineClassifier.Unresolved \in Int
      /\ \A pc \in DOMAIN types : types[pc] \in Int
  BY ReadyFacts DEF Ready, NumMachine
<1>3. Extends(buf, w.b) /\ w.offset \in Int
  BY <1>1, <1>2, EntryIs, WriteExtends
<1>4. m.walk = <<>> /\ m.steps < MaxSteps
  BY AtFacts DEF EnqueueSubroutine
<1>5. \/ Then(m, w.b, queue) \/ Then(m, b, queue)
      \/ entryPc \in DOMAIN types /\ Then(m, Truncate(b, buf.len), qu)
  BY DEF EnqueueSubroutine, Writes
<1> HIDE DEF w, e, types
<1>6. Extends(buf, b)
  <2>1. NumBuf(w.b)
    BY <1>3 DEF Extends
  <2>2. entryPc \in Int
    BY <2>1, GetIs, MachineAssumption
  <2> HIDE DEF entryPc
  <2>3. Extends(w.b, b)
    BY <1>3, <2>1, <2>2, PutExtends
  <2> QED
    BY <1>1, <1>3, <2>3, ExtendsTransitive
<1> HIDE DEF b, entryPc
<1>7. Extends(buf, Truncate(b, buf.len))
  <2>1. NumBuf(b) /\ b.cap = buf.cap /\ buf.len \in 0..buf.cap
    BY <1>1, <1>6 DEF Extends, NumBuf
  <2> QED
    BY <2>1, BufExtends DEF Extends
<1>8. ASSUME entryPc \in DOMAIN types
      PROVE  NumQueue(qu)
  <2>1. types[entryPc] \in Int /\ 0 \in Int
    BY <1>2, <1>8 DEF types
  <2> QED
    BY <1>1, <2>1, PushIs
<1> HIDE DEF qu
<1>9. Resized(w.b) /\ Resized(b) /\ Resized(Truncate(b, buf.len))
  BY <1>3, <1>6, <1>7, ExtendsResized
<1> QED
  BY <1>1, <1>4, <1>5, <1>8, <1>9, ThenStepped

LEMMA WritesStepped ==
  ASSUME Ready, m.walk = <<>>, m.steps < MaxSteps, NEW x, Near(x), NEW b, Resized(b),
         Writes(x, b)
  PROVE  Stepped
BY ReadyNumbers, ThenStepped DEF Writes

LEMMA PreparingStepped ==
  ASSUME Ready, PrepareFrame \/ ConcludeFrame \/ PreparePointeeData
  PROVE  Stepped
<1> USE ReadyNumbers, OperandsAre, AtFacts
<1>1. CASE PrepareFrame
  <2> DEFINE f == PrepareFrameData(buf, arg.TypeID, arg.ProgID, arg.DataByteLen, m.depth)
             x == [m EXCEPT !.frame = buf.len, !.exprType = "Frame",
                            !.results = f.offset, !.offset = f.offset]
  <2>1. /\ m.walk = <<>> /\ m.steps < MaxSteps
        /\ arg.TypeID \in Int /\ arg.ProgID \in Int /\ arg.DataByteLen \in Nat
    BY <1>1 DEF PrepareFrame
  <2>2. Writes(x, f.b) \/ Stops(FALSE, f.b)
    BY <1>1 DEF PrepareFrame
  <2>3. Extends(buf, f.b) /\ f.offset \in Int
    BY <2>1, FrameExtends
  <2> HIDE DEF f
  <2>4. Near(x) /\ Resized(f.b)
    BY <2>3, NearRegisters, ExtendsResized
  <2> HIDE DEF x
  <2> QED
    BY <2>1, <2>2, <2>4, StopsStepped, WritesStepped
<1>2. CASE ConcludeFrame
  <2>1. Extends(buf, ConcludeFrameData(buf, m.frame))
    BY ConcludeExtends
  <2> QED
    BY <1>2, <2>1, ExtendsResized, WritesStepped DEF ConcludeFrame
<1>3. CASE PreparePointeeData
  <2> DEFINE r == reserveQueueEntry(buf, m.chased)
             x == [m EXCEPT !.exprType = "Pointer", !.results = r.offset,
                            !.rootAddr = m.chased.addr, !.offset = r.offset]
             b == Zero(r.b, r.offset, m.chased.len)
  <2>1. m.walk = <<>> /\ m.steps < MaxSteps
    BY <1>3 DEF PreparePointeeData
  <2>2. Writes(x, b) \/ Stops(FALSE, r.b)
    BY <1>3 DEF PreparePointeeData
  <2>3. Extends(buf, r.b) /\ r.offset \in Int /\ m.chased.len \in Int /\ m.chased.addr \in Int
    BY ReserveExtends DEF Numbers
  <2> HIDE DEF r
  <2>4. Extends(r.b, b)
    BY <2>3, BufExtends DEF Extends
  <2> HIDE DEF b
  <2>5. Extends(buf, b)
    BY <2>3, <2>4, ExtendsTransitive
  <2>6. Near(x)
    BY <2>3, NearRegisters
  <2> HIDE DEF x
  <2>7. Resized(r.b) /\ Resized(b)
    BY <2>3, <2>5, ExtendsResized
  <2> QED
    BY <2>1, <2>2, <2>6, <2>7, StopsStepped, WritesStepped
<1> QED
  BY <1>1, <1>2, <1>3

LEMMA ExprEvalStepped ==
  ASSUME Ready, PrepareExprEval
  PROVE  Stepped
<1> DEFINE b == IF m.exprType = "Pointer" THEN Put(buf, buf.len, 8, m.rootAddr) ELSE buf
           x == [m EXCEPT !.resultsEnd = buf.len, !.offset = buf.len]
           y == [x EXCEPT !.pc = I.next, !.steps = @ + 1]
<1>1. m.walk = <<>> /\ m.steps < MaxSteps /\ I.name = "PrepareExprEval"
  BY AtFacts DEF PrepareExprEval
<1>2. m' = y /\ buf' = b /\ queue' = queue
  BY DEF PrepareExprEval, Writes, Then
<1>3. Resized(b)
  BY ReadyNumbers, PutExtends, ExtendsResized
<1> HIDE DEF b
<1>4. I.next \in 0..ProgLen /\ MaxSteps \in Nat /\ buf.len \in 0..buf.cap /\ buf.len \in Int
  BY ReadyFacts, ReadyNumbers, OperandsAre DEF Ready, NumMachine
<1>5. NumMachine(y, buf.cap) /\ y.resultsEnd = buf.len /\ y.walk = <<>>
  <2>1. NumMachine(m, buf.cap) /\ m.steps + 1 \in 0..MaxSteps
    BY <1>1, <1>4 DEF Ready, NumMachine
  <2> QED
    BY <1>1, <1>4, <2>1 DEF NumMachine, IsMachine, MachineFields
<1> HIDE DEF y
<1> QED
  BY <1>1, <1>2, <1>3, <1>5, ReadyNumbers DEF Stepped, Places

\* Room is made, then used.
LEMMA MakesStepped ==
  ASSUME Ready, m.walk = <<>>, m.steps < MaxSteps, NEW n \in Int, NEW b,
         HasRoom(buf, m.offset + n) => Extends(buf, b), Makes(n, b)
  PROVE  Stepped
<1>1. CASE HasRoom(buf, m.offset + n)
  BY <1>1, ExtendsResized, ReadyNumbers, WritesStepped DEF Makes
<1>2. CASE ~HasRoom(buf, m.offset + n)
  <2>1. m.offset + n \in Int /\ NumBuf(buf)
    BY ReadyNumbers
  <2>2. Resized(EnsureLen(buf, m.offset + n))
    BY <2>1, BufExtends, ExtendsResized
  <2> QED
    BY <1>2, <2>2, StopsStepped DEF Makes
<1> QED
  BY <1>1, <1>2

LEMMA FillingStepped ==
  ASSUME Ready, DereferenceCFAOffset \/ CopyFromRegister \/ ZeroFill \/ SetPresenceBit
  PROVE  Stepped
<1> USE ReadyNumbers, OperandsAre, AtFacts
<1>1. CASE DereferenceCFAOffset
  <2> DEFINE n == arg.ByteLen
             a == m.cfa + arg.Offset + arg.PointerBias
             c == EnsureLen(buf, m.offset + n)
             b == Dereference(mem, c, m.offset, a, n).b
  <2>1. /\ m.walk = <<>> /\ m.steps < MaxSteps /\ n \in Int /\ a \in Int
        /\ Makes(n, b) /\ m.offset + n \in Int
    <3>1. I.name = "DereferenceCFAOffset" /\ m.walk = <<>> /\ m.steps < MaxSteps
      BY <1>1 DEF DereferenceCFAOffset
    <3>2. n \in Int /\ a \in Int /\ m.offset + n \in Int
      BY <3>1
    <3> QED
      BY <1>1, <3>1, <3>2 DEF DereferenceCFAOffset
  <2> HIDE DEF n, a
  <2>2. Extends(buf, c)
    BY <2>1, BufExtends
  <2> HIDE DEF c
  <2>3. Extends(c, b)
    BY <2>1, <2>2, DereferenceExtends DEF Extends
  <2>4. Extends(buf, b)
    BY <2>2, <2>3, ExtendsTransitive
  <2> HIDE DEF b
  <2> QED
    BY <2>1, <2>4, MakesStepped
<1>2. CASE CopyFromRegister
  <2> DEFINE n == arg.ByteSize
             c == EnsureLen(buf, m.offset + n)
             b == Zero(c, m.offset, n)
  <2>1. /\ m.walk = <<>> /\ m.steps < MaxSteps /\ n \in Int /\ Makes(n, b)
        /\ m.offset + n \in Int
    BY <1>2 DEF CopyFromRegister
  <2> HIDE DEF n
  <2>2. Extends(buf, c)
    BY <2>1, BufExtends
  <2> HIDE DEF c
  <2>3. Extends(c, b)
    BY <2>1, <2>2, BufExtends DEF Extends
  <2>4. Extends(buf, b)
    BY <2>2, <2>3, ExtendsTransitive
  <2> HIDE DEF b
  <2> QED
    BY <2>1, <2>4, MakesStepped
<1>3. CASE ZeroFill
  <2>1. arg.ByteLen \in Int /\ m.walk = <<>> /\ m.steps < MaxSteps
    BY <1>3 DEF ZeroFill
  <2>2. Extends(buf, Zero(buf, m.offset, arg.ByteLen))
    BY <2>1, BufExtends
  <2> QED
    BY <1>3, <2>1, <2>2, ExtendsResized, WritesStepped DEF ZeroFill
<1>4. CASE SetPresenceBit
  <2> DEFINE o == m.results + arg.BitOffset \div 8
             bit == 2 ^ (arg.BitOffset % 8)
             byte == Get(buf, o)
             b == IF (byte \div bit) % 2 = 1 THEN buf ELSE Put(buf, o, 1, byte + bit)
  <2>1. /\ m.walk = <<>> /\ m.steps < MaxSteps /\ arg.BitOffset \in Nat /\ Writes(m, b)
    BY <1>4 DEF SetPresenceBit
  <2>2. o \in Int
    BY <2>1
  <2>3. byte + bit \in Int
    <3>1. \A x \in Nat : 2 ^ x \in Int
      OBVIOUS
    <3>2. arg.BitOffset % 8 \in Nat
      BY <2>1
    <3>3. bit \in Int
      BY <3>1, <3>2
    <3> HIDE DEF bit, o
    <3>4. byte \in Int
      BY GetIs
    <3> QED
      BY <3>3, <3>4
  <2> HIDE DEF o, byte, bit
  <2>4. Extends(buf, Put(buf, o, 1, byte + bit))
    BY <2>2, <2>3, PutExtends
  <2>5. Resized(b)
    BY <2>4, ExtendsResized
  <2> HIDE DEF b
  <2> QED
    BY <2>1, <2>5, WritesStepped
<1> QED
  BY <1>1, <1>2, <1>3, <1>4

LEMMA ExprStepped ==
  ASSUME Ready, DereferencePtr \/ SaveExprResult
  PROVE  Stepped
<1> USE ReadyNumbers, OperandsAre, AtFacts
<1>1. CASE DereferencePtr
  <2> DEFINE a == Word(0) + arg.Bias
             e == Entry(0, arg.ByteLen, a)
             w == IF a = 0 THEN [b |-> buf, offset |-> 0, ok |-> FALSE]
                  ELSE writeQueueEntry(mem, buf, e)
             x == [m EXCEPT !.offset = w.offset]
             b == Truncate(w.b, m.resultsEnd)
  <2>1. m.walk = <<>> /\ m.steps < MaxSteps /\ I.name = "DereferencePtr"
    BY <1>1 DEF DereferencePtr
  <2>2. arg.ByteLen \in Int /\ a \in Int
    BY <2>1, WordIs
  <2>3. Writes(x, w.b) \/ Returns(b)
    BY <1>1 DEF DereferencePtr
  <2> HIDE DEF a
  <2>4. Extends(buf, w.b) /\ w.offset \in Int
    <3> DEFINE v == writeQueueEntry(mem, buf, e)
    <3>1. e \in Numbers
      BY <2>2, EntryIs
    <3> HIDE DEF e
    <3>2. Extends(buf, v.b) /\ v.offset \in Int
      BY <3>1, WriteExtends
    <3>3. a = 0 \/ w = v
      BY DEF w
    <3>4. a = 0 => w.b = buf /\ w.offset = 0
      BY DEF w
    <3> HIDE DEF v
    <3> QED
      BY <3>2, <3>3, <3>4, ExtendsItself
  <2> HIDE DEF w
  <2>5. Near(x) /\ Resized(w.b)
    BY <2>4, NearRegisters, ExtendsResized
  <2>6. Resized(b)
    <3>1. NumBuf(w.b) /\ w.b.cap = buf.cap
      BY <2>4 DEF Extends
    <3> QED
      BY <2>1, <3>1, BufExtends DEF Resized
  <2> HIDE DEF x, b
  <2> QED
    BY <2>1, <2>3, <2>5, <2>6, WritesStepped, ReturnsStepped
<1>2. CASE SaveExprResult
  <2> DEFINE to == m.results + arg.ResultOffset
             c == Copy(buf, m.offset, to, arg.ByteLen)
             b == Truncate(c, m.resultsEnd)
             x == [m EXCEPT !.offset = to]
  <2>1. m.walk = <<>> /\ m.steps < MaxSteps /\ I.name = "SaveExprResult"
    BY <1>2 DEF SaveExprResult
  <2>2. arg.ByteLen \in Int /\ to \in Int
    BY <2>1
  <2>3. Writes(x, b)
    BY <1>2 DEF SaveExprResult
  <2> HIDE DEF to
  <2>4. Extends(buf, c)
    BY <2>2, BufExtends
  <2> HIDE DEF c
  <2>5. Near(x)
    BY <2>2, NearRegisters
  <2>6. Resized(b)
    <3>1. NumBuf(c) /\ c.cap = buf.cap
      BY <2>4 DEF Extends
    <3> QED
      BY <2>1, <3>1, BufExtends DEF Resized
  <2> HIDE DEF x, b
  <2> QED
    BY <2>1, <2>3, <2>5, <2>6, WritesStepped
<1> QED
  BY <1>1, <1>2

\* A context made up: the walk begins behind its entry.
LEMMA PrepareContextStepped ==
  ASSUME Ready, PrepareGoContext
  PROVE  Stepped
<1> USE ReadyNumbers, OperandsAre, AtFacts
<1> DEFINE data == Word(8)
           w == writeQueueEntry(mem, buf, Entry(arg.TypeID, arg.DataByteLen, data))
           qu == Recorded(queue, data, arg.TypeID)
           r == [context |-> w.offset, end |-> w.b.len, at |-> NoContext, type |-> 0,
                 left |-> 0..arg.CaptureCount - 1]
           b == Zero(w.b, w.offset, arg.DataByteLen)
           y == [m EXCEPT !.walk = <<r>>]
<1>1. m.walk = <<>> /\ m.steps < MaxSteps /\ I.name = "PrepareGoContext"
  BY DEF PrepareGoContext
<1>2. arg.TypeID \in Int /\ arg.DataByteLen \in Int /\ data \in Int
  BY <1>1, WordIs
<1>3. \/ Then(m, buf, queue) \/ Then(m, w.b, qu)
      \/ m' = y /\ buf' = b /\ queue' = qu
  BY DEF PrepareGoContext, Sets
<1>4. NumQueue(qu)
  BY <1>2, PushIs
<1> HIDE DEF qu
<1>5. Extends(buf, w.b) /\ w.offset \in Int
  BY <1>2, EntryIs, WriteExtends
<1> HIDE DEF w
<1>6. Extends(w.b, b)
  BY <1>2, <1>5, BufExtends DEF Extends
<1> HIDE DEF b
<1>7. Extends(buf, b)
  BY <1>5, <1>6, ExtendsTransitive
<1>8. Resized(w.b) /\ Resized(b)
  BY <1>5, <1>7, ExtendsResized
<1>9. CASE m' = y /\ buf' = b /\ queue' = qu
  <2>1. w.b.len \in 0..buf.cap /\ buf.len <= w.b.len
    BY <1>5 DEF Extends, NumBuf
  <2>2. WalkRecord(r, buf.cap) /\ r.end = w.b.len
    BY <1>5, <2>1 DEF WalkRecord, NoContext
  <2> HIDE DEF r
  <2>3. NumMachine(y, buf.cap) /\ y.resultsEnd = m.resultsEnd /\ y.walk = <<r>> /\ y.on
    <3>1. NumWalk(<<r>>, buf.cap)
      BY <2>2 DEF NumWalk
    <3> QED
      BY <1>1, <3>1 DEF Ready, NumMachine, IsMachine, MachineFields
  <2> HIDE DEF y
  <2>4. y.walk[1].end = w.b.len
    BY <2>2, <2>3
  <2> QED
    BY <1>1, <1>4, <1>8, <1>9, <2>1, <2>3, <2>4 DEF Stepped, Places
<1> QED
  BY <1>1, <1>3, <1>4, <1>8, <1>9, ThenStepped

LEMMA WalkFacts ==
  ASSUME Ready, m.walk # <<>>
  PROVE  /\ m.steps < MaxSteps /\ m.walk = <<m.walk[1]>> /\ WalkRecord(m.walk[1], buf.cap)
         /\ m.walk[1].end \in 0..buf.cap
<1>1. PICK r : m.walk = <<r>> /\ WalkRecord(r, buf.cap)
  BY DEF Ready, NumMachine, NumWalk
<1>2. m.steps < MaxSteps
  BY DEF Ready, NumMachine
<1>3. m.walk[1] = r
  BY <1>1
<1> QED
  BY <1>1, <1>2, <1>3 DEF WalkRecord

LEMMA WalkedStepped ==
  ASSUME Ready, m.walk # <<>>, NEW x, Near(x), NEW b, Extends(buf, b), NEW qu, NumQueue(qu),
         Walked(x, b, qu)
  PROVE  Stepped
<1> DEFINE c == Truncate(b, m.walk[1].end)
           y == [x EXCEPT !.walk = <<>>, !.pc = I.next, !.steps = @ + 1]
<1>1. m' = y /\ buf' = c /\ queue' = qu
  <2>1. IsMachine(x)
    BY DEF Near, NumMachine
  <2>2. m' = [[x EXCEPT !.walk = <<>>] EXCEPT !.pc = I.next, !.steps = @ + 1]
        /\ buf' = c /\ queue' = qu
    BY DEF Walked, Then
  <2> QED
    BY <2>1, <2>2 DEF IsMachine, MachineFields
<1>2. Resized(c)
  <2>1. NumBuf(b) /\ b.cap = buf.cap /\ m.walk[1].end \in 0..buf.cap
    BY WalkFacts DEF Extends
  <2> QED
    BY <2>1, BufExtends DEF Resized
<1> HIDE DEF c
<1>3. I.next \in 0..ProgLen /\ MaxSteps \in Nat /\ m.steps < MaxSteps
  BY WalkFacts, ReadyFacts, OperandsAre DEF Ready, NumMachine
<1>4. NumMachine(y, buf.cap) /\ y.resultsEnd = m.resultsEnd /\ y.walk = <<>>
  <2>1. NumMachine(x, buf.cap) /\ x.resultsEnd = m.resultsEnd /\ x.steps + 1 \in 0..MaxSteps
    BY <1>3 DEF Near, NumMachine
  <2> QED
    BY <1>3, <2>1 DEF NumMachine, IsMachine, MachineFields, NumWalk
<1> HIDE DEF y
<1> QED
  BY <1>1, <1>2, <1>4 DEF Stepped, Places

\* The walk goes on, at another place.
LEMMA WalkingStepped ==
  ASSUME Ready, m.walk # <<>>, NEW r, WalkRecord(r, buf.cap), r.end = m.walk[1].end,
         NEW o \in Int, m' = [m EXCEPT !.offset = o, !.walk = <<r>>],
         Extends(buf, buf'), NumQueue(queue')
  PROVE  Stepped
<1>1. Resized(buf')
  BY ExtendsResized
<1>2. NumMachine(m', buf.cap) /\ m'.resultsEnd = m.resultsEnd /\ m'.walk = <<r>> /\ m'.on
  <2>1. NumMachine(m, buf.cap) /\ NumWalk(<<r>>, buf.cap) /\ m.steps < MaxSteps
    BY WalkFacts DEF Ready, NumWalk
  <2> QED
    BY <2>1 DEF Ready, NumMachine, IsMachine, MachineFields
<1>3. m'.walk[1] = r
  BY <1>2
<1> QED
  BY <1>1, <1>2, <1>3 DEF Stepped, Places

LEMMA FetchContextStepped ==
  ASSUME Ready, FetchContext
  PROVE  Stepped
<1> USE ReadyNumbers
<1> DEFINE a == Word(0) + 8
           d == Dereference(mem, buf, m.offset, a, 8)
           g == GoRuntimeType(Get(d.b, m.offset))
           t == TypeId(g)
           len == program.TypeInfo[t].ByteLen
           entry == Entry(t, len, Word(8))
           e == writeQueueEntry(mem, d.b, entry)
           x == [m EXCEPT !.offset = 0]
           y == [m EXCEPT !.walk[1].at = e.offset, !.walk[1].type = t]
           described == t \in DOMAIN program.TypeInfo /\ program.TypeInfo[t].GoContextImpl # <<>>
<1>1. m.walk # <<>>
  BY DEF FetchContext
<1>2. Extends(buf, d.b)
  BY WordIs, DereferenceExtends
<1>3. t \in Int /\ Word(8) \in Int
  BY WordIs, ReadyFacts DEF Ready, NumMachine
<1>4. \/ Walked(m, buf, queue) \/ Walked(m, d.b, queue)
      \/ described /\ Walked(x, e.b, queue)
      \/ described /\ m' = y /\ buf' = e.b /\ queue' = queue
  BY DEF FetchContext
<1> HIDE DEF d, t
<1>5. ASSUME described
      PROVE  Extends(buf, e.b) /\ e.offset \in Int
  <2>1. len \in Int
    BY <1>5, ReadyFacts DEF Ready, NumMachine
  <2>2. entry \in Numbers
    BY <1>3, <2>1, EntryIs
  <2> HIDE DEF entry
  <2>3. Extends(d.b, e.b) /\ e.offset \in Int
    BY <1>2, <2>2, WriteExtends DEF Extends
  <2> QED
    BY <1>2, <2>3, ExtendsTransitive
<1> HIDE DEF e
<1>6. CASE described /\ m' = y /\ buf' = e.b /\ queue' = queue
  <2> DEFINE r == [m.walk[1] EXCEPT !.at = e.offset, !.type = t]
  <2>1. WalkRecord(r, buf.cap) /\ r.end = m.walk[1].end
    BY <1>1, <1>5, <1>6, WalkFacts DEF WalkRecord
  <2>2. y = [m EXCEPT !.offset = m.offset, !.walk = <<r>>]
    <3>1. m.walk = <<m.walk[1]>> /\ WalkRecord(m.walk[1], buf.cap) /\ IsMachine(m)
      BY <1>1, WalkFacts DEF Ready, NumMachine
    <3>2. [m.walk EXCEPT ![1].at = e.offset, ![1].type = t] = <<r>>
      <4>1. PICK w : m.walk = <<w>>
        BY <3>1
      <4>2. m.walk[1] = w /\ [m.walk EXCEPT ![1].at = e.offset, ![1].type = t]
                             = <<[w EXCEPT !.at = e.offset, !.type = t]>>
        BY <4>1
      <4> QED
        BY <4>2
    <3> HIDE DEF r
    <3> QED
      BY <3>1, <3>2 DEF IsMachine, MachineFields
  <2> HIDE DEF r, y
  <2> QED
    BY <1>1, <1>5, <1>6, <2>1, <2>2, WalkingStepped
<1>7. Near(x) /\ Near(m) /\ Extends(buf, buf)
  <2>1. Near(x)
    <3>1. 0 \in Int /\ NumMachine(m, buf.cap)
      BY DEF Ready
    <3> QED
      BY <3>1, NearRegisters
  <2> QED
    BY <2>1, ExtendsItself
<1> HIDE DEF x, y, described
<1> QED
  BY <1>1, <1>2, <1>4, <1>5, <1>6, <1>7, WalkedStepped

\* What a context holds, if it is found.
HeldIs(v) ==
  v = <<>> \/ (v[1].addr \in Int /\ v[1].goType \in Int /\ v[1].type \in Int
               /\ TypeInfo(v[1].info))

FoundIs(f) ==
  f = <<>> \/ (f[1].v.addr \in Int /\ f[1].v.goType \in Int /\ f[1].v.type \in Int
               /\ GoContextValueType(f[1].spec))

RecordedIs(s) == Extends(buf, s.b) /\ NumQueue(s.qu)

LEMMA HeldFound ==
  /\ Ready => \A at : HeldIs(Held(at))
  /\ \A v : HeldIs(v) => FoundIs(FoundByValue(v)) /\ \A k : HeldIs(k) => FoundIs(FoundByKey(v, k))
<1>1. ASSUME Ready, NEW at
      PROVE  HeldIs(Held(at))
  <2>1. ASSUME NEW o
        PROVE  HeldIs(AnyType(buf, o))
    <3> DEFINE g == GoRuntimeType(Get(buf, o))
               t == TypeId(g)
               r == [addr |-> Get(buf, o + 8), goType |-> g, type |-> t,
                     info |-> program.TypeInfo[t]]
    <3>1. g \in Int /\ Get(buf, o + 8) \in Int /\ t \in Int
      BY <1>1, ReadyFacts, ReadyNumbers, GetIs DEF Ready, NumMachine
    <3>2. t \in DOMAIN program.TypeInfo => TypeInfo(program.TypeInfo[t])
      BY <1>1, ReadyFacts DEF Ready, NumMachine
    <3> DEFINE none == Get(buf, o) = 0 \/ t = 0 \/ t \notin DOMAIN program.TypeInfo
    <3>3. AnyType(buf, o) = IF none THEN <<>> ELSE <<r>>
      BY DEF AnyType
    <3> HIDE DEF g, t
    <3> QED
      BY <3>1, <3>2, <3>3 DEF HeldIs
  <2> QED
    BY <2>1 DEF Held, HeldIs
<1>2. ASSUME NEW v, HeldIs(v)
      PROVE  FoundIs(FoundByValue(v))
  <2>1. CASE v # <<>> /\ v[1].info.GoContextValue # <<>>
    <3> DEFINE s == v[1].info.GoContextValue
    <3>1. TypeInfo(v[1].info)
      BY <1>2, <2>1 DEF HeldIs
    <3>2. 1 \in DOMAIN s /\ \A q \in Values(s) : GoContextValueType(q)
      BY <2>1, <3>1 DEF TypeInfo, Optional
    <3>3. GoContextValueType(s[1])
      BY <3>2 DEF Values
    <3> HIDE DEF s
    <3> QED
      BY <1>2, <2>1, <3>3 DEF HeldIs, FoundIs, FoundByValue, As, s
  <2>2. CASE ~(v # <<>> /\ v[1].info.GoContextValue # <<>>)
    BY <2>2 DEF FoundIs, FoundByValue
  <2> QED
    BY <2>1, <2>2
<1>3. ASSUME NEW v, HeldIs(v), NEW k, HeldIs(k)
      PROVE  FoundIs(FoundByKey(v, k))
  <2>1. CASE v # <<>> /\ k # <<>> /\ k[1].info.GoContextKey # <<>>
    <3> DEFINE s == k[1].info.GoContextKey
    <3>1. TypeInfo(k[1].info)
      BY <1>3, <2>1 DEF HeldIs
    <3>2. 1 \in DOMAIN s /\ \A q \in Values(s) : GoContextValueType(q)
      BY <2>1, <3>1 DEF TypeInfo, Optional
    <3>3. GoContextValueType(s[1])
      BY <3>2 DEF Values
    <3> HIDE DEF s
    <3> QED
      BY <1>3, <2>1, <3>3 DEF HeldIs, FoundIs, FoundByKey, As, s
  <2>2. CASE ~(v # <<>> /\ k # <<>> /\ k[1].info.GoContextKey # <<>>)
    BY <2>2 DEF FoundIs, FoundByKey
  <2> QED
    BY <2>1, <2>2
<1> QED
  BY <1>1, <1>2, <1>3

LEMMA RecordValueIs ==
  ASSUME Ready, m.walk # <<>>, NEW s, RecordedIs(s), NEW f, FoundIs(f)
  PROVE  RecordedIs(RecordValue(s, f))
<1>1. CASE f = <<>> \/ f[1].spec.Index \notin s.left
  BY <1>1 DEF RecordValue
<1>2. CASE f # <<>> /\ f[1].spec.Index \in s.left
  <2> DEFINE r == f[1]
             o == m.walk[1].context + r.spec.Offset
             t == IF r.spec.Type = 0 THEN r.v.type ELSE r.spec.Type
             b1 == Put(s.b, o, 8, r.v.addr)
             b2 == Put(b1, o + 8, 8, r.v.goType)
             qu == IF r.wanted THEN Push(s.qu, r.v.addr, t, 0) ELSE s.qu
  <2>1. RecordValue(s, f) = [b |-> b2, qu |-> qu, left |-> s.left \ {r.spec.Index}]
    BY <1>2 DEF RecordValue
  <2>2. /\ r.v.addr \in Int /\ r.v.goType \in Int /\ t \in Int /\ r.spec.Offset \in Int
    <3>1. /\ r.v.addr \in Int /\ r.v.goType \in Int /\ r.v.type \in Int
          /\ GoContextValueType(r.spec)
      BY <1>2 DEF FoundIs
    <3>2. r.spec.Offset \in Int /\ r.spec.Type \in Int
      <4>1. ASSUME NEW c, GoContextValueType(c)
            PROVE  c.Offset \in Int /\ c.Type \in Int
        BY <4>1 DEF GoContextValueType, Uint
      <4> HIDE DEF r
      <4> QED
        BY <3>1, <4>1
    <3> QED
      BY <3>1, <3>2
  <2>3. o \in Int /\ o + 8 \in Int
    BY <2>2, WalkFacts DEF WalkRecord
  <2> HIDE DEF o, t
  <2>4. NumBuf(s.b) /\ Extends(buf, s.b) /\ NumBuf(buf)
    BY DEF RecordedIs, Extends, Ready
  <2>5. Extends(buf, b1)
    BY <2>2, <2>3, <2>4, PutExtends, ExtendsTransitive
  <2> HIDE DEF b1
  <2>6. Extends(buf, b2)
    <3>1. NumBuf(b1)
      BY <2>5 DEF Extends
    <3>2. Extends(b1, b2)
      BY <2>2, <2>3, <3>1, PutExtends
    <3> QED
      BY <2>4, <2>5, <3>2, ExtendsTransitive
  <2>7. NumQueue(qu)
    <3>1. 0 \in Int /\ NumQueue(s.qu)
      BY DEF RecordedIs
    <3> QED
      BY <2>2, <3>1, PushIs
  <2> HIDE DEF b2, qu
  <2> QED
    BY <2>1, <2>6, <2>7 DEF RecordedIs
<1> QED
  BY <1>1, <1>2

LEMMA RecordContextStepped ==
  ASSUME Ready, RecordContext
  PROVE  Stepped
<1> USE ReadyNumbers
<1> DEFINE w == m.walk[1]
           impl == program.TypeInfo[w.type].GoContextImpl[1]
           before == [b |-> buf, qu |-> queue, left |-> w.left]
           v == Held(impl.ValueOffset)
           byValue == RecordValue(before, FoundByValue(v))
           s == RecordValue(byValue, FoundByKey(v, Held(impl.KeyOffset)))
           x == [m EXCEPT !.offset = w.at]
           y == [m EXCEPT !.offset = w.at + impl.ContextOffset[1],
                          !.walk[1].at = NoContext, !.walk[1].left = s.left]
<1>1. m.walk # <<>> /\ w.at # NoContext
  BY DEF RecordContext
<1>2. WalkRecord(w, buf.cap) /\ m.walk = <<w>>
  BY <1>1, WalkFacts
<1>3. GoContextImpl(impl)
  <2>1. w.type \in DOMAIN program.TypeInfo /\ program.TypeInfo[w.type].GoContextImpl # <<>>
    BY <1>1, <1>2 DEF WalkRecord
  <2>2. TypeInfo(program.TypeInfo[w.type])
    BY <2>1, ReadyFacts DEF Ready, NumMachine
  <2> QED
    BY <2>1, <2>2 DEF TypeInfo, Optional, Values
<1>4. RecordedIs(s)
  <2>1. RecordedIs(before)
    BY ExtendsItself DEF RecordedIs
  <2>2. HeldIs(v) /\ HeldIs(Held(impl.KeyOffset))
    BY HeldFound
  <2> HIDE DEF before, v
  <2>3. FoundIs(FoundByValue(v)) /\ FoundIs(FoundByKey(v, Held(impl.KeyOffset)))
    BY <2>2, HeldFound
  <2>4. RecordedIs(byValue)
    BY <1>1, <2>1, <2>3, RecordValueIs
  <2> HIDE DEF byValue
  <2> QED
    BY <1>1, <2>3, <2>4, RecordValueIs
<1>5. \/ Walked(x, s.b, s.qu)
      \/ impl.ContextOffset # <<>> /\ m' = y /\ buf' = s.b /\ queue' = s.qu
  BY DEF RecordContext
<1> HIDE DEF s, impl
<1>6. Near(x)
  BY <1>2, NearRegisters DEF WalkRecord
<1>7. CASE impl.ContextOffset # <<>> /\ m' = y /\ buf' = s.b /\ queue' = s.qu
  <2> DEFINE o == w.at + impl.ContextOffset[1]
             r == [w EXCEPT !.at = NoContext, !.left = s.left]
  <2>1. o \in Int
    <3>1. 1 \in DOMAIN impl.ContextOffset /\ \A n \in Values(impl.ContextOffset) : Uint(n)
      BY <1>3, <1>7 DEF GoContextImpl, Optional
    <3>2. impl.ContextOffset[1] \in Int
      BY <3>1 DEF Values, Uint
    <3> QED
      BY <1>2, <3>2 DEF WalkRecord
  <2>2. WalkRecord(r, buf.cap) /\ r.end = w.end
    <3>1. ASSUME NEW z, NEW l, NEW cap, WalkRecord(z, cap)
          PROVE  LET u == [z EXCEPT !.at = NoContext, !.left = l] IN
                 WalkRecord(u, cap) /\ u.end = z.end
      BY <3>1 DEF WalkRecord, NoContext
    <3> HIDE DEF w
    <3> QED
      BY <1>2, <3>1
  <2>3. y = [m EXCEPT !.offset = o, !.walk = <<r>>]
    <3>1. IsMachine(m)
      BY DEF NumMachine
    <3>2. [m.walk EXCEPT ![1].at = NoContext, ![1].left = s.left] = <<r>>
      <4>1. PICK z : m.walk = <<z>>
        BY <1>2
      <4>2. w = z /\ [m.walk EXCEPT ![1].at = NoContext, ![1].left = s.left]
                       = <<[z EXCEPT !.at = NoContext, !.left = s.left]>>
        BY <4>1
      <4> QED
        BY <4>2
    <3> HIDE DEF r, o
    <3> QED
      BY <3>1, <3>2 DEF IsMachine, MachineFields, o
  <2> HIDE DEF o, r, y
  <2> QED
    BY <1>1, <1>4, <1>7, <2>1, <2>2, <2>3, WalkingStepped DEF RecordedIs
<1> HIDE DEF x, y
<1> QED
  BY <1>1, <1>4, <1>5, <1>6, <1>7, WalkedStepped DEF RecordedIs

\* One instruction, or one step of a walk.
LEMMA StepStepped ==
  ASSUME Ready, Step
  PROVE  Stepped
BY ControlStepped, QueueingStepped, InterfaceStepped, SubroutineStepped, PreparingStepped,
   ExprEvalStepped, FillingStepped, ExprStepped, PrepareContextStepped, FetchContextStepped,
   RecordContextStepped DEF Step

LEMMA LeastExists ==
  ASSUME NEW S, S \subseteq Nat, S # {}
  PROVE  \E j \in S : \A k \in S : j <= k
<1> DEFINE R == OpToRel(<, Nat)
<1>1. \A i, j \in Nat : i < j => <<i, j>> \in R
  BY DEF OpToRel
<1>2. IsWellFoundedOn(R, Nat)
  BY NatLessThanWellFounded
<1> HIDE DEF R
<1>3. PICK j \in S : \A k \in S : ~ (<<k, j>> \in R)
  BY <1>2, WFMin
<1>4. ASSUME NEW k \in S
      PROVE  j <= k
  <2>1. j \in Nat /\ k \in Nat /\ ~ (k < j)
    BY <1>1, <1>3
  <2> QED
    BY <2>1
<1> QED
  BY <1>4

-----------------------------------------------------------------------------
(***************************************************************************)
(* The unwinder: the frames of a goroutine, a recursive definition, and    *)
(* what is computed of them, are numbers.                                  *)
(***************************************************************************)
\* The frame behind another.
Behind(mm, f) == IF FrameAt(mm, f) THEN At0(mm, f) ELSE 0

\* The first n frames of the chain.
IsChain(g, mm, fp, n) ==
  /\ g = [i \in 1..n |-> g[i]]
  /\ g[1] = fp
  /\ \A i \in 1..n - 1 : g[i + 1] = Behind(mm, g[i])

LEMMA ChainExists ==
  ASSUME NEW mm, NEW fp, NEW n \in Nat \ {0}
  PROVE  \E g : IsChain(g, mm, fp, n)
<1> DEFINE K == {k \in Nat : \E g : IsChain(g, mm, fp, k + 1)}
<1>1. 0 \in K
  <2> DEFINE g == [i \in 1..1 |-> fp]
  <2>1. IsChain(g, mm, fp, 1)
    BY DEF IsChain
  <2> QED
    BY <2>1
<1>2. ASSUME NEW k \in Nat, k \in K
      PROVE  k + 1 \in K
  <2>1. PICK g : IsChain(g, mm, fp, k + 1)
    BY <1>2
  <2> DEFINE next == Behind(mm, g[k + 1])
             h == [i \in 1..k + 2 |-> IF i <= k + 1 THEN g[i] ELSE next]
  <2> HIDE DEF K, next
  <2>2. \A i \in 1..k + 1 : h[i] = g[i]
    OBVIOUS
  <2>3. h[k + 2] = next
    OBVIOUS
  <2>4. h = [i \in 1..k + 2 |-> h[i]]
    OBVIOUS
  <2> HIDE DEF h
  <2>5. ASSUME NEW i \in 1..k + 1
        PROVE  h[i + 1] = Behind(mm, h[i])
    <3>1. CASE i = k + 1
      <4>1. i + 1 = k + 2
        BY <3>1
      <4> QED
        BY <2>2, <2>3, <3>1, <4>1 DEF next
    <3>2. CASE i \in 1..k
      <4>1. h[i] = g[i] /\ h[i + 1] = g[i + 1] /\ i \in 1..(k + 1) - 1
        BY <2>2, <3>2
      <4> QED
        BY <2>1, <4>1 DEF IsChain
    <3> QED
      BY <3>1, <3>2
  <2>6. h[1] = fp
    BY <2>1, <2>2 DEF IsChain
  <2>7. (k + 2) - 1 = k + 1 /\ (k + 1) + 1 = k + 2
    OBVIOUS
  <2>8. IsChain(h, mm, fp, k + 2)
    BY <2>4, <2>5, <2>6, <2>7, Zenon DEF IsChain
  <2> QED
    BY <2>7, <2>8 DEF K
<1>3. Nat \subseteq K
  <2> HIDE DEF K
  <2> QED
    BY <1>1, <1>2, NatInductionSet
<1>4. n - 1 \in Nat /\ (n - 1) + 1 = n
  OBVIOUS
<1> QED
  BY <1>3, <1>4

\* What is in memory are natural numbers.
LEMMA BehindIs ==
  ASSUME NEW mm \in Memories
  PROVE  \A a : At0(mm, a) \in Nat /\ Behind(mm, a) \in Nat
BY MemoryAssumption DEF Memory, At0, Behind

LEMMA ChainIs ==
  ASSUME NEW mm \in Memories, NEW fp \in Nat, NEW n \in Nat \ {0}, NEW g,
         IsChain(g, mm, fp, n)
  PROVE  g \in [1..n -> Nat]
<1>1. ASSUME NEW i \in 1..n
      PROVE  g[i] \in Nat
  <2>1. CASE i = 1
    BY <2>1 DEF IsChain
  <2>2. CASE i # 1
    <3>1. i - 1 \in 1..n - 1 /\ (i - 1) + 1 = i
      BY <2>2
    <3>2. g[(i - 1) + 1] = Behind(mm, g[i - 1])
      BY <3>1 DEF IsChain
    <3> QED
      BY <3>1, <3>2, BehindIs
  <2> QED
    BY <2>1, <2>2
<1> QED
  BY <1>1 DEF IsChain

LEMMA FrameChainIs ==
  ASSUME NEW mm \in Memories, NEW fp \in Nat
  PROVE  FrameChain(mm, fp) \in Seq(Nat)
<1> DEFINE N == MaxStackFrames
           Solves(f) == f = [i \in 1..N |->
                               IF i = 1 THEN fp
                               ELSE IF FrameAt(mm, f[i - 1]) THEN At0(mm, f[i - 1]) ELSE 0]
           fps == CHOOSE f : Solves(f)
           ends == {i \in 1..N : i = N \/ ~FrameAt(mm, fps[i])}
           n == CHOOSE i \in ends : \A j \in ends : i <= j
<1>0. N \in Nat \ {0}
  BY ProcessAssumption
<1>1. FrameChain(mm, fp) = [i \in 1..n |-> fps[i]]
  BY DEF FrameChain
<1>2. PICK g : IsChain(g, mm, fp, N)
  BY <1>0, ChainExists
<1>3. Solves(g)
  <2>1. ASSUME NEW i \in 1..N, i # 1
        PROVE  g[i] = IF FrameAt(mm, g[i - 1]) THEN At0(mm, g[i - 1]) ELSE 0
    <3>1. i - 1 \in 1..N - 1 /\ i - 1 + 1 = i
      BY <1>0, <2>1
    <3> QED
      BY <1>2, <3>1 DEF IsChain, Behind
  <2>2. \A i \in 1..N :
           g[i] = IF i = 1 THEN fp
                  ELSE IF FrameAt(mm, g[i - 1]) THEN At0(mm, g[i - 1]) ELSE 0
    BY <1>2, <2>1 DEF IsChain
  <2>3. g = [i \in 1..N |-> g[i]]
    BY <1>2 DEF IsChain
  <2> QED
    BY <2>2, <2>3
<1>4. Solves(fps)
  BY <1>3
<1>5. IsChain(fps, mm, fp, N)
  <2> HIDE DEF fps, N
  <2>1. fps = [i \in 1..N |-> fps[i]]
    BY <1>4
  <2>2. \A i \in 1..N :
           fps[i] = IF i = 1 THEN fp
                    ELSE IF FrameAt(mm, fps[i - 1]) THEN At0(mm, fps[i - 1]) ELSE 0
    BY <1>4, Zenon
  <2>3. fps[1] = fp
    BY <1>0, <2>2
  <2>4. ASSUME NEW i \in 1..N - 1
        PROVE  fps[i + 1] = Behind(mm, fps[i])
    <3>1. i + 1 \in 1..N /\ i + 1 # 1 /\ (i + 1) - 1 = i
      BY <1>0
    <3> QED
      BY <2>2, <3>1, Zenon DEF Behind
  <2> QED
    BY <2>1, <2>3, <2>4 DEF IsChain
<1>6. fps \in [1..N -> Nat]
  BY <1>0, <1>5, ChainIs
<1> HIDE DEF fps
<1>7. N \in ends /\ ends \subseteq 1..N
  BY <1>0
<1> HIDE DEF ends
<1>8. n \in ends
  <2>1. \E i \in ends : \A j \in ends : i <= j
    <3>1. ends \subseteq Nat /\ ends # {}
      BY <1>0, <1>7
    <3> QED
      BY <3>1, LeastExists
  <2> QED
    BY <2>1
<1> HIDE DEF n
<1>9. n \in 1..N
  BY <1>7, <1>8
<1>10. [i \in 1..n |-> fps[i]] \in [1..n -> Nat]
  BY <1>0, <1>6, <1>9
<1>11. n \in Nat
  BY <1>0, <1>9
<1> QED
  BY <1>1, <1>10, <1>11

LEMMA SequenceIs ==
  ASSUME NEW S, NEW s \in Seq(S)
  PROVE  Len(s) \in Nat /\ \A i \in 1..Len(s) : s[i] \in S
OBVIOUS

LEMMA PcsAre ==
  ASSUME NEW mm \in Memories, NEW g, g.bp \in Nat, g.pc \in Nat
  PROVE  Len(Pcs(mm, g)) \in Nat /\ \A i \in 1..Len(Pcs(mm, g)) : Pcs(mm, g)[i] \in Int
<1> DEFINE fps == FrameChain(mm, g.bp)
           pcs == [i \in 1..Len(fps) |->
                     (IF i = 1 THEN g.pc ELSE At0(mm, fps[i - 1] + 8)) - TextBase]
<1>1. Pcs(mm, g) = IF g.bp = 0 THEN <<g.pc>> ELSE pcs
  BY DEF Pcs
<1>2. Len(fps) \in Nat
  BY FrameChainIs, SequenceIs
<1> HIDE DEF fps
<1>3. pcs \in [1..Len(fps) -> Int]
  <2>1. \A a : At0(mm, a) \in Int
    BY BehindIs
  <2>2. TextBase \in Int
    BY ProcessAssumption
  <2> QED
    BY <1>2, <2>1, <2>2
<1> HIDE DEF pcs
<1>4. pcs \in Seq(Int)
  BY <1>2, <1>3
<1>5. <<g.pc>> \in Seq(Int)
  OBVIOUS
<1>6. Pcs(mm, g) \in Seq(Int)
  BY <1>1, <1>4, <1>5
<1> QED
  BY <1>6, SequenceIs

LEMMA CfasAre ==
  ASSUME mem \in Memories, NEW g, g.bp \in Nat, g.stktopsp \in Nat
  PROVE  \A i \in DOMAIN Cfas(g) : Cfas(g)[i] \in Int
<1> DEFINE fps == FrameChain(mem, g.bp)
           amd == CfasAmd64(fps)
           arm == CfasArm64(fps, g.stktopsp)
<1>1. Cfas(g) = IF g.bp = 0 THEN fps ELSE IF mem.arch = "amd64" THEN amd ELSE arm
  BY DEF Cfas
<1>2. fps \in Seq(Nat)
  BY FrameChainIs
<1> HIDE DEF fps
<1>3. Len(fps) \in Nat /\ (\A i \in 1..Len(fps) : fps[i] \in Nat) /\ DOMAIN fps = 1..Len(fps)
  BY <1>2
<1>4. DOMAIN amd = 1..Len(fps) /\ \A i \in 1..Len(fps) : amd[i] = fps[i] + 16
  BY DEF CfasAmd64
<1>5. /\ DOMAIN arm = 1..Len(fps)
      /\ \A i \in 1..Len(fps) :
           arm[i] = IF i < Len(fps) THEN fps[i + 1] + 8 ELSE g.stktopsp
  BY DEF CfasArm64
<1> HIDE DEF amd, arm
<1>6. \A i \in DOMAIN amd : amd[i] \in Int
  BY <1>3, <1>4
<1>7. ASSUME NEW i \in DOMAIN arm
      PROVE  arm[i] \in Int
  <2>1. CASE i < Len(fps)
    <3>1. i + 1 \in 1..Len(fps)
      BY <1>3, <1>5, <2>1
    <3> QED
      BY <1>3, <1>5, <2>1, <3>1
  <2>2. CASE ~(i < Len(fps))
    BY <1>5, <2>2
  <2> QED
    BY <2>1, <2>2
<1>8. \A i \in DOMAIN fps : fps[i] \in Int
  BY <1>3
<1> QED
  BY <1>1, <1>6, <1>7, <1>8

-----------------------------------------------------------------------------
(***************************************************************************)
(* The snapshot.                                                           *)
(***************************************************************************)
Phases == {"start", "goroutines", "frames", "queue", "done", "failed"}

\* In a buffer of this capacity.
NumSnapshot(x, cap) ==
  /\ DOMAIN x = SnapshotFields
  /\ x.phase \in Phases
  /\ x.next \in 1..Len(Goroutines) + 1 /\ (x.phase = "frames" => x.next <= Len(Goroutines))
  /\ x.before \in 0..cap /\ x.header = x.before /\ x.after \in Int
  /\ x.stackBytes \in Int /\ x.hash \in Int
  /\ \A i \in DOMAIN x.cfas : x.cfas[i] \in Int
  /\ \A f \in x.left : f.idx \in Int
  /\ \A s \in x.stacks : \A f \in s.frames : f.idx \in Int

TypeIInv ==
  /\ Shape /\ IsQueue(queue) /\ Constants
  /\ NumBuf(buf) /\ NumMachine(m, buf.cap) /\ NumQueue(queue) /\ NumSnapshot(sn, buf.cap)

LEMMA TypeIInvImplies ==
  ASSUME TypeIInv
  PROVE  TypeOK
<1>1. /\ sn.phase \in {"start", "goroutines", "frames", "queue", "done", "failed"}
      /\ sn.next \in 1..Len(Goroutines) + 1
  BY DEF TypeIInv, NumSnapshot, Phases
<1>2. /\ buf.len \in 0..buf.cap
      /\ buf.full \in BOOLEAN /\ buf.intact \in BOOLEAN /\ buf.wild \in BOOLEAN
  BY DEF TypeIInv, NumBuf, IsBuf
<1>3. /\ m.on \in BOOLEAN /\ m.ok \in BOOLEAN /\ m.steps \in 0..MaxSteps
      /\ m.pc \in 0..ProgLen /\ m.exprType \in {"Frame", "Pointer"}
      /\ m.crash \in {"none", "fault", "panic"}
  BY DEF TypeIInv, NumMachine, IsMachine
<1>4. cut \in BOOLEAN
  BY DEF TypeIInv, Shape
<1>5. \A i \in 1..Len(queue.q) : <<queue.q[i].addr, queue.q[i].type>> \in queue.seen
  BY DEF TypeIInv, IsQueue, Key
<1> QED
  BY <1>1, <1>2, <1>3, <1>4, <1>5 DEF TypeOK

LEMMA TypesInitially ==
  ASSUME Init
  PROVE  TypeIInv
<1>1. Shape
  BY ShapeInitially
<1>2. IsQueue(queue)
  BY QueueInitially DEF QueueIInv
<1>3. Constants
  BY DEF Init, Constants
<1>4. PICK size \in Capacities : buf = makeOutBuf(size)
  BY DEF Init
<1>5. size \in Nat /\ buf.cap = size
  BY <1>4, ProcessAssumption DEF makeOutBuf
<1>6. NumBuf(buf)
  BY <1>1, <1>4, <1>5, WordsIn DEF makeOutBuf, NumBuf, Shape
<1>7. NumQueue(queue)
  BY DEF Init, MachineInit, makeQueue, NumQueue
<1>8. ProgLen \in Nat /\ MaxSteps \in Nat
  BY <1>3, MachineAssumption, ProgramIs DEF Constants
<1>9. NumMachine(m, buf.cap)
  <2>1. Entry(0, 0, 0) \in Numbers
    BY EntryIs
  <2>2. IsMachine(m)
    BY <1>1 DEF Shape
  <2>3. \A cap : NumWalk(<<>>, cap)
    BY DEF NumWalk
  <2>4. <<>> \in Seq(Int)
    OBVIOUS
  <2> QED
    BY <1>5, <1>8, <2>1, <2>2, <2>3, <2>4 DEF Init, MachineInit, NumMachine
<1>10. NumSnapshot(sn, buf.cap)
  <2>1. Len(Goroutines) \in Nat
    BY ProcessAssumption
  <2> QED
    BY <1>5, <2>1 DEF Init, NumSnapshot, SnapshotFields, Phases
<1> QED
  BY <1>1, <1>2, <1>3, <1>6, <1>7, <1>9, <1>10 DEF TypeIInv

\* What an action of the snapshot leaves.  The first length of the buffer while a
\* goroutine is written is not smaller than before.
Typed ==
  /\ NumBuf(buf') /\ buf'.cap = buf.cap
  /\ NumMachine(m', buf.cap) /\ NumQueue(queue') /\ NumSnapshot(sn', buf.cap)
  /\ sn'.phase = "frames" => sn.phase = "frames" \/ sn'.before <= buf'.len

LEMMA TypeFacts ==
  ASSUME TypeIInv
  PROVE  /\ NumBuf(buf) /\ buf.len \in 0..buf.cap /\ buf.len \in Int /\ buf.cap \in Nat
         /\ Extends(buf, buf) /\ NumMachine(m, buf.cap) /\ NumQueue(queue)
         /\ NumSnapshot(sn, buf.cap) /\ DOMAIN sn = SnapshotFields /\ sn.before \in 0..buf.cap
         /\ sn.next \in 1..Len(Goroutines) + 1 /\ Len(Goroutines) \in Nat
         /\ mem \in Memories /\ Words(mem.at) /\ BssShift \in Int
<1>1. NumBuf(buf) /\ NumMachine(m, buf.cap) /\ NumQueue(queue) /\ NumSnapshot(sn, buf.cap)
  BY DEF TypeIInv
<1>2. buf.len \in 0..buf.cap /\ buf.len \in Int /\ buf.cap \in Nat
  BY <1>1 DEF NumBuf
<1>3. DOMAIN sn = SnapshotFields /\ sn.next \in 1..Len(Goroutines) + 1
      /\ sn.before \in 0..buf.cap
  BY <1>1 DEF NumSnapshot
<1>4. Len(Goroutines) \in Nat
  BY ProcessAssumption
<1>5. mem \in Memories /\ Words(mem.at)
  BY MemoryAssumption DEF TypeIInv, Constants, Memory, Words
<1> QED
  BY <1>1, <1>2, <1>3, <1>4, <1>5, ExtendsItself, MachineAssumption

LEMMA CurrentIs ==
  ASSUME TypeIInv, sn.next <= Len(Goroutines)
  PROVE  /\ Current.goid \in Nat /\ Current.status \in Int /\ Current.pc \in Nat
         /\ Current.bp \in Nat /\ Current.stktopsp \in Nat
         /\ Hash(Pcs(mem, Current)) \in Nat
<1> DEFINE g == Goroutines[sn.next]
<1>1. sn.next \in 1..Len(Goroutines)
  BY TypeFacts
<1>2. g \in [goid : Nat, status : Nat, pc : Nat, bp : Nat, stktopsp : Nat]
  <2> DEFINE G == [goid : Nat, status : Nat, pc : Nat, bp : Nat, stktopsp : Nat]
  <2>1. Goroutines \in Seq(G)
    BY ProcessAssumption
  <2> HIDE DEF G
  <2>2. \A i \in 1..Len(Goroutines) : Goroutines[i] \in G
    BY <2>1
  <2> QED
    BY <1>1, <2>2 DEF G
<1>3. Current = [g EXCEPT !.status = Unscanned(@)]
  BY DEF Current
<1>4. Unscanned(g.status) \in Int
  BY <1>2 DEF Unscanned, Gscan
<1>5. Hash(Pcs(mem, g)) \in Nat
  BY <1>1, HashAssumption, TypeFacts
<1> HIDE DEF g
<1>6. /\ Current.goid = g.goid /\ Current.pc = g.pc /\ Current.bp = g.bp
      /\ Current.stktopsp = g.stktopsp /\ Current.status = Unscanned(g.status)
  BY <1>2, <1>3
<1>7. Pcs(mem, Current) = Pcs(mem, g)
  BY <1>6 DEF Pcs
<1> QED
  BY <1>2, <1>4, <1>5, <1>6, <1>7

\* An action that leaves the machine and the queue.
LEMMA GoroutineTyped ==
  ASSUME TypeIInv, NEW b, NumBuf(b), b.cap = buf.cap, NEW x, NumSnapshot(x, buf.cap),
         x.phase = "frames" => sn.phase = "frames" \/ x.before <= b.len, Goroutine(b, x)
  PROVE  Typed
BY TypeFacts DEF Goroutine, Typed

LEMMA NextGoroutineTyped ==
  ASSUME TypeIInv, sn.next <= Len(Goroutines), NEW ph \in Phases \ {"frames"}
  PROVE  NumSnapshot([NextGoroutine EXCEPT !.phase = ph], buf.cap)
BY TypeFacts DEF NextGoroutine, NumSnapshot, SnapshotFields

LEMMA StaticsTyped ==
  ASSUME TypeIInv
  PROVE  NumQueue(StaticsPushed)
<1> DEFINE vs == program.RuntimeConfig.StaticVariables
           Solves(f) == f = [i \in 0..Len(vs) |->
                               IF i = 0 THEN queue
                               ELSE Push(f[i - 1], vs[i].Address + BssShift, vs[i].Type, 0)]
           pushed == CHOOSE f : Solves(f)
<1>0. PICK p \in Programs : program = Loaded(p)
  BY DEF TypeIInv, Constants
<1>1. Len(vs) \in Nat
  BY <1>0, StaticsAreSequence
<1>2. ASSUME NEW i \in 1..Len(vs)
      PROVE  vs[i].Address + BssShift \in Int /\ vs[i].Type \in Int
  <2>1. RuntimeConfig(program.RuntimeConfig)
    BY <1>0, ProgramIs
  <2>2. vs \in Seq(Values(vs)) /\ \A v \in Values(vs) : StaticVariable(v)
    BY <2>1 DEF RuntimeConfig
  <2> HIDE DEF vs
  <2>3. StaticVariable(vs[i])
    BY <2>2, SequenceIs
  <2>4. vs[i].Address \in Int /\ vs[i].Type \in Int
    BY <2>3 DEF StaticVariable, Uint
  <2> QED
    BY <2>4, TypeFacts
<1>3. StaticsPushed = pushed[Len(vs)]
  BY DEF StaticsPushed
<1>4. PICK g : IsPushed(g, vs, Len(vs))
  BY <1>1, PushedExists
<1>5. Solves(g)
  <2>1. ASSUME NEW i \in 0..Len(vs), i # 0
        PROVE  g[i] = Push(g[i - 1], vs[i].Address + BssShift, vs[i].Type, 0)
    <3>1. i - 1 \in 0..Len(vs) - 1 /\ i - 1 + 1 = i
      BY <1>1, <2>1
    <3> QED
      BY <1>4, <3>1 DEF IsPushed
  <2>2. \A i \in 0..Len(vs) :
           g[i] = IF i = 0 THEN queue
                  ELSE Push(g[i - 1], vs[i].Address + BssShift, vs[i].Type, 0)
    BY <1>4, <2>1 DEF IsPushed
  <2>3. g = [i \in 0..Len(vs) |-> g[i]]
    BY <1>4 DEF IsPushed
  <2> QED
    BY <2>2, <2>3
<1>6. Solves(pushed)
  BY <1>5
<1> HIDE DEF pushed
<1>7. \A i \in 0..Len(vs) :
         pushed[i] = IF i = 0 THEN queue
                     ELSE Push(pushed[i - 1], vs[i].Address + BssShift, vs[i].Type, 0)
  BY <1>6, Zenon
<1> HIDE DEF vs
<1> DEFINE K == {k \in Nat : k <= Len(vs) => NumQueue(pushed[k])}
<1>8. 0 \in K
  BY <1>1, <1>7, TypeFacts
<1>9. ASSUME NEW k \in Nat, k \in K, k + 1 <= Len(vs)
      PROVE  NumQueue(pushed[k + 1])
  <2>1. NumQueue(pushed[k])
    BY <1>1, <1>9
  <2> HIDE DEF K
  <2>2. k + 1 \in 0..Len(vs) /\ k + 1 # 0 /\ (k + 1) - 1 = k /\ k + 1 \in 1..Len(vs)
    BY <1>1, <1>9
  <2>3. pushed[k + 1] = Push(pushed[(k + 1) - 1], vs[k + 1].Address + BssShift, vs[k + 1].Type, 0)
    BY <1>7, <2>2, Zenon
  <2>4. vs[k + 1].Address + BssShift \in Int /\ vs[k + 1].Type \in Int /\ 0 \in Int
    BY <1>2, <2>2
  <2> QED
    BY <2>1, <2>2, <2>3, <2>4, PushIs
<1>10. Nat \subseteq K
  <2>1. \A k \in Nat : k \in K => k + 1 \in K
    BY <1>9
  <2> HIDE DEF K
  <2> QED
    BY <1>8, <2>1, NatInductionSet
<1>11. Len(vs) \in K
  BY <1>1, <1>10
<1> QED
  BY <1>1, <1>3, <1>11

LEMMA StartTyped ==
  ASSUME TypeIInv, Rejects \/ Start
  PROVE  Typed
<1> DEFINE full == [buf EXCEPT !.full = TRUE]
           begun == [buf EXCEPT !.len = SnapshotHeaderSize]
           failed == [sn EXCEPT !.phase = "failed"]
           going == [sn EXCEPT !.phase = "goroutines"]
<1>1. NumBuf(full) /\ full.cap = buf.cap
  BY FullExtends, TypeFacts DEF Extends
<1>2. SnapshotHeaderSize <= buf.cap => NumBuf(begun) /\ begun.cap = buf.cap
  BY TypeFacts DEF NumBuf, IsBuf, SnapshotHeaderSize
<1>3. /\ NumSnapshot(failed, buf.cap) /\ NumSnapshot(going, buf.cap)
      /\ failed.phase = "failed" /\ going.phase = "goroutines"
  BY TypeFacts DEF NumSnapshot, SnapshotFields, Phases
<1>4. NumQueue(queue) /\ NumQueue(StaticsPushed) /\ NumMachine(m, buf.cap)
  BY TypeFacts, StaticsTyped
<1>5. m' = m /\ sn' \in {failed, going} /\ queue' \in {queue, StaticsPushed}
      /\ (buf' \in {buf, full} \/ (SnapshotHeaderSize <= buf.cap /\ buf' = begun))
  <2>1. SnapshotHeaderSize <= buf.cap \/ SnapshotHeaderSize > buf.cap
    BY TypeFacts DEF SnapshotHeaderSize
  <2>2. CASE Rejects
    <3>1. m' = m /\ sn' = failed /\ queue' = queue /\ buf' = buf
      BY <2>2 DEF Rejects, NoSnapshot
    <3> HIDE DEF full, begun, failed, going
    <3> QED
      BY <3>1
  <2>3. CASE Start /\ SnapshotHeaderSize > buf.cap
    <3>1. m' = m /\ sn' = failed /\ queue' = queue /\ buf' = full
      BY <2>3 DEF Start, NoSnapshot
    <3> HIDE DEF full, begun, failed, going
    <3> QED
      BY <3>1
  <2>4. CASE Start /\ ~(SnapshotHeaderSize > buf.cap)
    <3>1. SnapshotHeaderSize <= buf.cap
      BY <2>1, <2>4
    <3> QED
      BY <2>4, <3>1 DEF Start, NoSnapshot
  <2> QED
    BY <2>2, <2>3, <2>4
<1> HIDE DEF full, begun, failed, going
<1> QED
  BY <1>1, <1>2, <1>3, <1>4, <1>5, TypeFacts DEF Typed

LEMMA GoroutinesTyped ==
  ASSUME TypeIInv, SkipGoroutine \/ GoroutinesDone \/ QueueDone
  PROVE  Typed
<1>1. CASE SkipGoroutine
  <2> DEFINE b == IF ~buf.full /\ Current.status = Gdead THEN Counted(buf, NonLiveGoroutines)
                  ELSE buf
  <2>1. sn.phase = "goroutines" /\ sn.next <= Len(Goroutines) /\ Goroutine(b, NextGoroutine)
    BY <1>1 DEF SkipGoroutine
  <2>2. Extends(buf, b)
    <3>1. NonLiveGoroutines \in Int
      BY DEF NonLiveGoroutines
    <3>2. Extends(buf, Counted(buf, NonLiveGoroutines))
      BY <3>1, CountedExtends, TypeFacts
    <3> QED
      BY <3>2, TypeFacts
  <2> HIDE DEF b
  <2>3. NumSnapshot(NextGoroutine, buf.cap) /\ NextGoroutine.phase = "goroutines"
    BY <2>1, TypeFacts DEF NextGoroutine, NumSnapshot, SnapshotFields
  <2> QED
    BY <2>1, <2>2, <2>3, GoroutineTyped DEF Extends
<1>2. CASE GoroutinesDone
  <2> DEFINE b == Put(buf, GoroutinesByteLen, 4, buf.len - SnapshotHeaderSize)
             x == [sn EXCEPT !.phase = "queue"]
  <2>1. Goroutine(b, x)
    BY <1>2 DEF GoroutinesDone
  <2>2. buf.len - SnapshotHeaderSize \in Int /\ GoroutinesByteLen \in Int
    BY TypeFacts DEF SnapshotHeaderSize, GoroutinesByteLen
  <2>3. NumBuf(b) /\ b.cap = buf.cap
    BY <2>2, TypeFacts, PutExtends DEF Extends
  <2>4. NumSnapshot(x, buf.cap) /\ x.phase = "queue"
    BY TypeFacts DEF NumSnapshot, SnapshotFields, Phases
  <2> HIDE DEF b, x
  <2> QED
    BY <2>1, <2>3, <2>4, GoroutineTyped
<1>3. CASE QueueDone
  <2> DEFINE b == Put(buf, DataByteLen, 4, buf.len)
             x == [sn EXCEPT !.phase = "done"]
  <2>1. Goroutine(b, x)
    BY <1>3 DEF QueueDone
  <2>3. NumBuf(b) /\ b.cap = buf.cap
    BY TypeFacts, PutExtends DEF Extends, DataByteLen
  <2>4. NumSnapshot(x, buf.cap) /\ x.phase = "done"
    BY TypeFacts DEF NumSnapshot, SnapshotFields, Phases
  <2> HIDE DEF b, x
  <2> QED
    BY <2>1, <2>3, <2>4, GoroutineTyped
<1> QED
  BY <1>1, <1>2, <1>3

LEMMA BeginGoroutineTyped ==
  ASSUME TypeIInv, BeginGoroutine
  PROVE  Typed
<1> DEFINE pcs == Pcs(mem, Current)
           b == Counted(buf, NumGoroutines)
           header == EnsureLen(b, b.len + GoroutineHeaderSize)
           known == {s \in sn.stacks : s.hash = Hash(pcs)}
           stacked == IF known = {} THEN writeStack(header, pcs) ELSE header
           frames == IF known = {} THEN FramesOfInterest(pcs)
                     ELSE (CHOOSE s \in known : TRUE).frames
           kept == IF header.full THEN header ELSE stacked
           removed == Truncate(kept, b.len)
           x == [sn EXCEPT !.phase = "frames", !.left = frames, !.cfas = Cfas(Current),
                   !.before = b.len, !.header = b.len, !.after = header.len, !.hash = Hash(pcs),
                   !.stackBytes = stacked.len - header.len,
                   !.stacks = IF known = {}
                              THEN @ \cup {[hash |-> Hash(pcs), frames |-> frames]} ELSE @]
<1>1. /\ sn.phase = "goroutines" /\ sn.next <= Len(Goroutines)
      /\ Goroutine(removed, NextGoroutine) \/ Goroutine(stacked, x)
  BY DEF BeginGoroutine
<1>2. /\ Len(pcs) \in Nat /\ \A i \in 1..Len(pcs) : pcs[i] \in Int
      /\ Hash(pcs) \in Nat /\ \A i \in DOMAIN Cfas(Current) : Cfas(Current)[i] \in Int
  BY <1>1, CurrentIs, PcsAre, CfasAre, TypeFacts
<1> HIDE DEF pcs
<1>3. Extends(buf, b) /\ b.len = buf.len
  BY CountedExtends, TypeFacts DEF NumGoroutines
<1> HIDE DEF b
<1>4. NumBuf(b) /\ b.cap = buf.cap /\ b.len \in 0..buf.cap /\ b.len + GoroutineHeaderSize \in Int
  BY <1>3, TypeFacts DEF Extends, GoroutineHeaderSize
<1>5. Extends(b, header)
  BY <1>4, BufExtends
<1> HIDE DEF header
<1>6. NumBuf(header) /\ header.cap = buf.cap /\ header.len \in Int /\ b.len <= header.len
  BY <1>4, <1>5 DEF Extends, NumBuf
<1>7. Extends(header, stacked)
  <2>1. Extends(header, writeStack(header, pcs))
    BY <1>2, <1>6, StackExtends
  <2> QED
    BY <1>6, <2>1, ExtendsItself
<1>8. \A f \in frames : f.idx \in Int
  <2>1. CASE known = {}
    <3>1. \A f \in FramesOfInterest(pcs) : f.idx \in Int
      BY <1>2 DEF FramesOfInterest
    <3> QED
      BY <2>1, <3>1
  <2>2. CASE known # {}
    <3> DEFINE s == CHOOSE z \in known : TRUE
    <3>1. s \in sn.stacks
      BY <2>2
    <3>2. frames = s.frames
      BY <2>2
    <3> HIDE DEF s, frames
    <3> QED
      BY <3>1, <3>2, TypeFacts DEF NumSnapshot
  <2> QED
    BY <2>1, <2>2
<1> HIDE DEF stacked, frames
<1>9. NumBuf(stacked) /\ stacked.cap = buf.cap /\ stacked.len \in Int /\ b.len <= stacked.len
  BY <1>4, <1>6, <1>7 DEF Extends, NumBuf
<1>10. NumBuf(removed) /\ removed.cap = buf.cap
  <2>1. NumBuf(kept) /\ kept.cap = buf.cap
    BY <1>6, <1>9
  <2> HIDE DEF kept
  <2> QED
    BY <1>4, <2>1, BufExtends
<1> HIDE DEF removed
<1>11. NumSnapshot(x, buf.cap) /\ x.phase = "frames" /\ x.before = b.len
  <2>0. stacked.len - header.len \in Int
    BY <1>6, <1>9
  <2> HIDE DEF known
  <2>1. /\ DOMAIN x = SnapshotFields /\ x.phase = "frames" /\ x.left = frames
        /\ x.cfas = Cfas(Current) /\ x.before = b.len /\ x.header = b.len
        /\ x.after = header.len /\ x.hash = Hash(pcs) /\ x.next = sn.next
        /\ x.stackBytes = stacked.len - header.len
        /\ x.stacks \subseteq sn.stacks \cup {[hash |-> Hash(pcs), frames |-> frames]}
    BY TypeFacts DEF SnapshotFields
  <2> HIDE DEF x
  <2>2. ASSUME NEW s \in x.stacks PROVE \A f \in s.frames : f.idx \in Int
    <3>1. CASE s \in sn.stacks
      BY <3>1, TypeFacts DEF NumSnapshot
    <3>2. CASE s = [hash |-> Hash(pcs), frames |-> frames]
      BY <1>8, <3>2
    <3> QED
      BY <2>1, <3>1, <3>2
  <2>3. x.next \in 1..Len(Goroutines) + 1 /\ x.next <= Len(Goroutines)
    BY <1>1, <2>1, TypeFacts
  <2>4. x.after \in Int /\ x.stackBytes \in Int /\ x.hash \in Int /\ x.phase \in Phases
        /\ x.before \in 0..buf.cap /\ x.header = x.before
    BY <1>2, <1>4, <1>6, <2>0, <2>1 DEF Phases
  <2>5. /\ \A i \in DOMAIN x.cfas : x.cfas[i] \in Int
        /\ \A f \in x.left : f.idx \in Int
    BY <1>2, <1>8, <2>1
  <2> QED
    BY <2>1, <2>2, <2>3, <2>4, <2>5 DEF NumSnapshot
<1> HIDE DEF x
<1>12. NumSnapshot(NextGoroutine, buf.cap) /\ NextGoroutine.phase = "goroutines"
  BY <1>1, TypeFacts DEF NextGoroutine, NumSnapshot, SnapshotFields
<1>13. CASE Goroutine(removed, NextGoroutine)
  BY <1>10, <1>12, <1>13, GoroutineTyped
<1>14. CASE Goroutine(stacked, x)
  BY <1>9, <1>11, <1>14, GoroutineTyped
<1> QED
  BY <1>1, <1>13, <1>14

LEMMA ReadyTypes ==
  ASSUME TypeIInv, NEW t \in DOMAIN program.TypeInfo
  PROVE  program.TypeInfo[t].ByteLen \in Int
<1>1. m.pc \in 0..ProgLen /\ Constants
  BY DEF TypeIInv, NumMachine
<1> QED
  BY <1>1, ReadyFacts

\* Run, with the registers of a machine of numbers.
LEMMA RunsTyped ==
  ASSUME TypeIInv, NEW x, NumMachine(x, buf.cap), x.walk = <<>>, x.crash = "none",
         NEW pc, NEW cfa \in Int,
         NEW d \in Int, NEW o \in Int, NEW base \in Int
  PROVE  NumMachine(Runs(x, pc, cfa, d, o, base), buf.cap)
<1>1. ProgLen \in Nat /\ MaxSteps \in Nat
  BY MachineAssumption, ProgramIs DEF TypeIInv, Constants
<1>2. IsMachine(x)
  BY DEF NumMachine
<1>3. CASE pc \notin 0..ProgLen - 1
  BY <1>1, <1>2, <1>3 DEF NumMachine, Runs, IsMachine, MachineFields, NumWalk
<1>4. CASE pc \in 0..ProgLen - 1
  <2> DEFINE y == [x EXCEPT !.on = TRUE, !.ok = TRUE, !.pc = pc, !.steps = 0, !.cfa = cfa,
                            !.depth = d, !.offset = o, !.base = base]
  <2>1. pc \in 0..ProgLen /\ 0 \in 0..MaxSteps
    BY <1>1, <1>4
  <2>2. Runs(x, pc, cfa, d, o, base) = y
    BY <1>4 DEF Runs
  <2>3. /\ IsMachine(y) /\ y.ok \in BOOLEAN /\ y.pc = pc /\ y.steps = 0 /\ y.cfa = cfa
        /\ y.depth = d /\ y.offset = o /\ y.base = base /\ y.walk = <<>>
        /\ y.frame = x.frame /\ y.results = x.results /\ y.rootAddr = x.rootAddr
        /\ y.resultsEnd = x.resultsEnd /\ y.stack = x.stack /\ y.chased = x.chased
        /\ y.exprType = x.exprType /\ y.crash = x.crash
    BY <1>2 DEF IsMachine, MachineFields
  <2> HIDE DEF y
  <2>4. NumMachine(y, buf.cap)
    BY <2>1, <2>3 DEF NumMachine, NumWalk
  <2> QED
    BY <2>2, <2>4
<1> QED
  BY <1>3, <1>4

\* No walk goes on between two runs.
LEMMA RunFrameTyped ==
  ASSUME TypeIInv, m.walk = <<>>, RunFrame
  PROVE  Typed
<1>1. PICK f \in sn.left :
        /\ m' = IF f.idx \in DOMAIN sn.cfas
                THEN Runs(m, f.pc, sn.cfas[f.idx], f.idx - 1, buf.len, buf.len)
                ELSE [m EXCEPT !.ok = FALSE, !.crash = "panic"]
        /\ sn' = [sn EXCEPT !.left = @ \ {f}]
  BY DEF RunFrame
<1>2. sn.phase = "frames" /\ buf' = buf /\ queue' = queue /\ m.crash = "none"
  BY DEF RunFrame, Idle
<1>3. f.idx \in Int /\ f.idx - 1 \in Int
  BY TypeFacts DEF NumSnapshot
<1>4. NumMachine(m', buf.cap)
  <2>1. CASE f.idx \in DOMAIN sn.cfas
    <3>1. sn.cfas[f.idx] \in Int
      BY <2>1, TypeFacts DEF NumSnapshot
    <3> QED
      BY <1>1, <1>2, <1>3, <2>1, <3>1, RunsTyped, TypeFacts
  <2>2. CASE f.idx \notin DOMAIN sn.cfas
    <3>1. NumMachine([m EXCEPT !.ok = FALSE, !.crash = "panic"], buf.cap)
      BY TypeFacts DEF NumMachine, IsMachine, MachineFields, RunFrame, Idle
    <3> QED
      BY <1>1, <2>2, <3>1
  <2> QED
    BY <2>1, <2>2
<1>5. NumSnapshot(sn', buf.cap)
  BY <1>1, TypeFacts DEF NumSnapshot, SnapshotFields
<1> QED
  BY <1>2, <1>4, <1>5, TypeFacts DEF Typed

LEMMA FilledIn ==
  ASSUME NEW b, NumBuf(b), NEW h \in Int, NEW v1 \in Int, NEW v2 \in Int, NEW v3 \in Int,
         NEW v4 \in Int, NEW v5 \in Int
  PROVE  Extends(b, Put(Put(Put(Put(Put(Overwrite(b, h, GoroutineHeaderSize, <<>>), h, 8, v1),
                                    h + 8, 8, v2), h + 16, 4, v3), h + 32, 4, v4), h + 36, 4, v5))
<1> DEFINE c0 == Overwrite(b, h, GoroutineHeaderSize, <<>>)
           c1 == Put(c0, h, 8, v1)
           c2 == Put(c1, h + 8, 8, v2)
           c3 == Put(c2, h + 16, 4, v3)
           c4 == Put(c3, h + 32, 4, v4)
           c5 == Put(c4, h + 36, 4, v5)
<1>1. h + 8 \in Int /\ h + 16 \in Int /\ h + 32 \in Int /\ h + 36 \in Int
  OBVIOUS
<1>2. Extends(b, c0)
  <2>1. GoroutineHeaderSize \in Int
    BY DEF GoroutineHeaderSize
  <2> QED
    BY <2>1, WordsIn, OverwriteExtends
<1> HIDE DEF c0
<1>3. Extends(c0, c1)
  BY <1>1, <1>2, PutExtends DEF Extends
<1> HIDE DEF c1
<1>4. Extends(c1, c2)
  BY <1>1, <1>3, PutExtends DEF Extends
<1> HIDE DEF c2
<1>5. Extends(c2, c3)
  BY <1>1, <1>4, PutExtends DEF Extends
<1> HIDE DEF c3
<1>6. Extends(c3, c4)
  BY <1>1, <1>5, PutExtends DEF Extends
<1> HIDE DEF c4
<1>7. Extends(c4, c5)
  BY <1>1, <1>6, PutExtends DEF Extends
<1> HIDE DEF c5
<1>8. Extends(b, c5)
  <2>1. Extends(b, c2)
    BY <1>2, <1>3, <1>4, ExtendsTransitive DEF Extends
  <2>2. Extends(b, c4)
    BY <2>1, <1>5, <1>6, ExtendsTransitive DEF Extends
  <2> QED
    BY <2>2, <1>7, ExtendsTransitive
<1> QED
  BY <1>8 DEF c0, c1, c2, c3, c4, c5

LEMMA EndGoroutineTyped ==
  ASSUME TypeIInv, EndGoroutine
  PROVE  Typed
<1> DEFINE h == sn.header
           filled == Put(Put(Put(Put(Put(Overwrite(buf, h, GoroutineHeaderSize, <<>>),
                                         h, 8, Current.goid), h + 8, 8, sn.hash),
                                 h + 16, 4, Current.status), h + 32, 4, sn.stackBytes),
                         h + 36, 4, buf.len - sn.after)
           b == IF buf.full THEN Truncate(filled, sn.before) ELSE filled
           x == [NextGoroutine EXCEPT !.phase = "goroutines"]
           y == [m EXCEPT !.ok = TRUE]
<1>1. buf' = b /\ sn' = x /\ m' = y /\ queue' = queue /\ sn.phase = "frames"
  BY DEF EndGoroutine
<1>2. sn.next <= Len(Goroutines)
  BY <1>1, TypeFacts DEF NumSnapshot
<1>3. /\ h \in Int /\ sn.hash \in Int /\ sn.stackBytes \in Int /\ buf.len - sn.after \in Int
      /\ Current.goid \in Int /\ Current.status \in Int
  <2>1. sn.header \in Int /\ sn.hash \in Int /\ sn.stackBytes \in Int /\ sn.after \in Int
    BY TypeFacts DEF NumSnapshot
  <2>2. Current.goid \in Int /\ Current.status \in Int
    BY <1>2, CurrentIs
  <2> QED
    BY <2>1, <2>2, TypeFacts
<1> HIDE DEF h
<1>4. Extends(buf, filled)
  BY <1>3, TypeFacts, FilledIn
<1> HIDE DEF filled
<1>5. NumBuf(b) /\ b.cap = buf.cap
  <2>1. NumBuf(filled) /\ filled.cap = buf.cap
    BY <1>4 DEF Extends
  <2> QED
    BY <2>1, TypeFacts, BufExtends
<1> HIDE DEF b
<1>6. NumSnapshot(x, buf.cap) /\ x.phase = "goroutines"
  <2>1. "goroutines" \in Phases \ {"frames"}
    BY DEF Phases
  <2>2. NumSnapshot(x, buf.cap)
    BY <1>2, <2>1, NextGoroutineTyped
  <2>3. x.phase = "goroutines"
    BY TypeFacts DEF NextGoroutine, SnapshotFields
  <2> QED
    BY <2>2, <2>3
<1>7. NumMachine(y, buf.cap)
  BY TypeFacts DEF NumMachine, IsMachine, MachineFields
<1> HIDE DEF x, y
<1> QED
  BY <1>1, <1>5, <1>6, <1>7, TypeFacts DEF Typed

LEMMA PopEntryTyped ==
  ASSUME TypeIInv, m.walk = <<>>, PopEntry
  PROVE  Typed
<1> DEFINE popped == Head(queue.q)
           t == popped.type
           info == program.TypeInfo[t]
           e == [popped EXCEPT !.len = LengthOf(popped, info)]
           v == writeQueueEntry(mem, buf, e)
           w == IF info.SerializeBeforeEnqueue THEN v
                ELSE [b |-> buf, offset |-> 0, ok |-> TRUE]
           x == [m EXCEPT !.chased = e]
           y == Runs(x, info.EnqueuePc, 0, 0, w.offset, buf.len)
           qu == [queue EXCEPT !.q = Tail(@)]
<1>1. sn' = sn /\ queue.q # <<>> /\ queue' = qu /\ sn.phase = "queue" /\ m.crash = "none"
  BY DEF PopEntry, Popping, Idle
<1>2. popped \in Numbers /\ NumQueue(qu)
  BY <1>1, TypeFacts DEF NumQueue
<1>3. CASE m' = m /\ buf' = buf
  BY <1>1, <1>2, <1>3, TypeFacts DEF Typed
<1>4. CASE t \in DOMAIN program.TypeInfo /\ buf' = w.b /\ m' \in {m, y}
  <2>1. info.ByteLen \in Int
    BY <1>4, ReadyTypes
  <2>2. e \in Numbers
    BY <1>2, <2>1 DEF Numbers, LengthOf
  <2> HIDE DEF e, info, t
  <2>3. Extends(buf, v.b) /\ v.offset \in Int
    BY <2>2, TypeFacts, WriteExtends
  <2> HIDE DEF v
  <2>4. Extends(buf, w.b) /\ w.offset \in Int
    BY <2>3, TypeFacts
  <2> HIDE DEF w
  <2>5. NumMachine(x, buf.cap) /\ x.walk = <<>> /\ x.crash = "none"
    BY <1>1, <2>2, TypeFacts DEF NumMachine, IsMachine, MachineFields
  <2> HIDE DEF x
  <2>6. NumMachine(y, buf.cap)
    <3>1. 0 \in Int /\ buf.len \in Int
      BY TypeFacts
    <3> QED
      BY <2>4, <2>5, <3>1, RunsTyped
  <2> HIDE DEF y
  <2>7. NumMachine(m', buf.cap) /\ NumBuf(buf') /\ buf'.cap = buf.cap
    BY <1>4, <2>4, <2>6, TypeFacts DEF Extends
  <2> HIDE DEF qu
  <2> QED
    BY <1>1, <1>2, <2>7, TypeFacts DEF Typed
<1> QED
  <2>1. \/ m' = m /\ buf' = buf
        \/ t \in DOMAIN program.TypeInfo /\ buf' = w.b /\ m' \in {m, y}
    BY DEF PopEntry
  <2> QED
    BY <1>3, <1>4, <2>1

LEMMA FailsTyped ==
  ASSUME TypeIInv, Fails
  PROVE  Typed
<1>1. NumMachine([m EXCEPT !.on = FALSE], buf.cap)
  BY TypeFacts DEF NumMachine, IsMachine, MachineFields
<1>2. NumSnapshot([sn EXCEPT !.phase = "failed"], buf.cap)
  BY TypeFacts DEF NumSnapshot, SnapshotFields, Phases
<1>3. sn'.phase = "failed"
  BY TypeFacts DEF Fails, SnapshotFields
<1>4. m' = [m EXCEPT !.on = FALSE] /\ sn' = [sn EXCEPT !.phase = "failed"]
      /\ buf' = buf /\ queue' = queue
  BY DEF Fails
<1> QED
  BY <1>1, <1>2, <1>3, <1>4, TypeFacts DEF Typed

\* No walk goes on when no program runs, unless the snapshot failed in the middle of it.
WalkEnded == m.on \/ m.walk = <<>> \/ sn.phase = "failed"

TypesIInv == TypeIInv /\ WalkEnded

\* No action changes what the process has in memory, or the program.
LEMMA NextFixes ==
  ASSUME [Next]_vars
  PROVE  Fixed
<1>1. CASE Step
  BY <1>1, StepFixes DEF Fixed
<1>2. CASE Rejects \/ Start
  BY <1>2 DEF Rejects, Start, NoSnapshot
<1>3. CASE SkipGoroutine \/ BeginGoroutine \/ RunFrame \/ EndGoroutine
  BY <1>3 DEF SkipGoroutine, BeginGoroutine, RunFrame, EndGoroutine, Goroutine
<1>4. CASE GoroutinesDone \/ PopEntry \/ QueueDone \/ Fails
  BY <1>4 DEF GoroutinesDone, PopEntry, QueueDone, Fails, Goroutine
<1>5. CASE UNCHANGED vars
  BY <1>5 DEF vars, Fixed
<1> QED
  BY <1>1, <1>2, <1>3, <1>4, <1>5 DEF Next

\* The actions of the snapshot.
Surrounds ==
  \/ Rejects \/ Start
  \/ SkipGoroutine \/ BeginGoroutine \/ RunFrame \/ EndGoroutine \/ GoroutinesDone
  \/ PopEntry \/ QueueDone \/ Fails

LEMMA SurroundsTyped ==
  ASSUME TypesIInv, Surrounds
  PROVE  Typed /\ WalkEnded'
<1>1. Typed
  <2>1. CASE RunFrame \/ PopEntry
    <3>1. m.walk = <<>>
      BY <2>1 DEF TypesIInv, WalkEnded, RunFrame, PopEntry, Popping, Idle
    <3> QED
      BY <2>1, <3>1, RunFrameTyped, PopEntryTyped DEF TypesIInv
  <2> QED
    BY <2>1, StartTyped, GoroutinesTyped, BeginGoroutineTyped, EndGoroutineTyped, FailsTyped
       DEF Surrounds, TypesIInv
<1>2. WalkEnded'
  <2>1. Around
    BY StartGoes, SkipGoroutineGoes, BeginGoroutineGoes, RunFrameGoes, EndGoroutineGoes,
       GoroutinesDoneGoes, PopEntryGoes, FailsGoes DEF Surrounds, TypesIInv, TypeIInv
  <2> QED
    BY <2>1 DEF Around, WalkEnded, TypesIInv, Idle
<1> QED
  BY <1>1, <1>2

\* When a program runs, the lemmas about instructions can be used.
LEMMA RunningIsReady ==
  ASSUME TypesIInv, m.on
  PROVE  Ready
BY DEF TypesIInv, TypeIInv, Ready

LEMMA TypesStep ==
  ASSUME TypesIInv, [Next]_vars
  PROVE  TypesIInv'
<1>1. /\ Shape' /\ IsQueue(queue)' /\ Constants'
  <2>1. Shape'
    BY ShapeStep DEF TypesIInv, TypeIInv
  <2>2. IsQueue(queue)'
    <3>1. QueueIInv
      BY DEF TypesIInv, TypeIInv, Constants, QueueIInv
    <3> QED
      BY <3>1, QueueStep DEF Grows
  <2>3. Constants'
    BY NextFixes DEF TypesIInv, TypeIInv, Constants, Fixed
  <2> QED
    BY <2>1, <2>2, <2>3
<1>2. /\ NumBuf(buf') /\ buf'.cap = buf.cap /\ NumMachine(m', buf.cap) /\ NumQueue(queue')
      /\ NumSnapshot(sn', buf.cap) /\ WalkEnded'
  <2>1. CASE Surrounds
    BY <2>1, SurroundsTyped DEF Typed
  <2>2. CASE Step
    <3>1. m.on /\ sn' = sn
      BY <2>2, StepKeeps, StepKinds DEF TypesIInv, TypeIInv, Shape, Keeps
    <3>2. Stepped
      BY <2>2, <3>1, RunningIsReady, StepStepped
    <3> QED
      BY <3>1, <3>2 DEF Stepped, Resized, WalkEnded, TypesIInv, TypeIInv
  <2>3. CASE UNCHANGED vars
    BY <2>3 DEF vars, machineVars, TypesIInv, TypeIInv, WalkEnded
  <2> QED
    BY <2>1, <2>2, <2>3 DEF Next, Surrounds
<1>3. program' = program
  BY NextFixes DEF Fixed
<1>4. NumMachine(m, buf.cap)'
  BY <1>2, <1>3 DEF NumMachine, NumWalk, WalkRecord, ProgLen
<1> QED
  BY <1>1, <1>2, <1>4 DEF TypesIInv, TypeIInv

\* The registers, the offsets and the lengths of a snapshot are numbers in their ranges,
\* whatever the bytes of the programs are and whatever is in memory: no program makes the
\* buffer longer than it is, no run takes more steps than it may, no pc leaves the program
\* (internal/snapshot/stack_machine.go Run, SetPC; out_buf.go ensureLen, truncate).
THEOREM SnapshotTypes == Spec => []TypeOK
<1>1. Init => TypesIInv
  BY TypesInitially, ShapeInitially DEF TypesIInv, WalkEnded
<1>2. TypesIInv /\ [Next]_vars => TypesIInv'
  BY TypesStep
<1>3. TypesIInv => TypeOK
  BY TypeIInvImplies DEF TypesIInv
<1> QED
  BY <1>1, <1>2, <1>3, PTL DEF Spec

-----------------------------------------------------------------------------
(***************************************************************************)
(* The buffer that is full is final: what is given back is what a run of   *)
(* the goroutine that is being written has put there.                      *)
(***************************************************************************)
\* While a goroutine is written the buffer reaches to its header at least, and so do the
\* places where a run may cut it off.
ResultsIn(places) ==
  sn.phase = "frames" =>
    /\ sn.before <= buf.len
    /\ m.on /\ m.pc \in places => sn.before <= m.resultsEnd
    /\ m.walk # <<>> => sn.before <= m.walk[1].end

\* Where an instruction leads to.
LEMMA StepLeads ==
  ASSUME NEW depth, NEW called, Running(depth, called), Step, m'.on
  PROVE  \/ m'.pc = I.next /\ I.name \notin Leaves \cup {"Call"}
         \/ m'.pc = arg.Pc /\ I.name \in {"Jump", "CondJump", "Call"}
         \/ m'.pc \in Returning(depth)
         \/ m'.pc = m.pc
<1> DEFINE goal == \/ m'.pc = I.next /\ I.name \notin Leaves \cup {"Call"}
                   \/ m'.pc = arg.Pc /\ I.name \in {"Jump", "CondJump", "Call"}
                   \/ m'.pc \in Returning(depth)
                   \/ m'.pc = m.pc
<1>0. /\ IsMachine(m) /\ IsBuf(buf) /\ cut \in BOOLEAN /\ m.on
      /\ m.walk # <<>> => I.name = "PrepareGoContext"
  BY DEF Running, OnTrack
<1> SUFFICES goal
  OBVIOUS
<1>1. ASSUME m'.pc = I.next,
             \/ I.name \in PlainNames
             \/ I.name \in PushingOne
             \/ I.name \in {"Pop", "CondJump", "Decrement", "EnqueueHMapHeader"}
      PROVE  goal
  BY <1>1 DEF PlainNames, PushingOne, Leaves
<1> HIDE DEF goal
<1>2. CASE Panics \/ Illegal \/ StepLimit
  BY <1>0, <1>2, CrashingGoes
<1>3. CASE EnqueuePointer \/ Invalid
  <2>1. GoesOn /\ I.name = "EnqueuePointer"
    BY <1>0, <1>3, EnqueuePointerGoes DEF EndsRun
  <2>2. I.name \in PlainNames
    BY <2>1 DEF PlainNames
  <2> QED
    BY <1>1, <2>1, <2>2 DEF GoesOn
<1>4. CASE Setting \/ Queueing \/ Filling
  <2>1. GoesOn /\ I.name \in PlainNames
    BY <1>0, <1>4, SettingGoes, QueueingGoes, FillingGoes DEF EndsRun
  <2> QED
    BY <1>1, <2>1 DEF GoesOn
<1>5. CASE Pushing \/ Pop
  BY <1>0, <1>1, <1>5, PushingGoes, PopGoes
<1>6. CASE Return \/ DereferencePtr
  <2>1. CASE I.name \in {"Return", "DereferencePtr"} /\ ReturnsTo
    <3>1. m.stack # <<>> /\ m'.pc = Top
      BY <2>1 DEF ReturnsTo, EndsRun
    <3>2. /\ m.pc \in DOMAIN depth /\ IsStack(m.stack) /\ depth[m.pc] = 0
          /\ Stacked(depth, called, Returning(depth), m.stack, m.pc)
          /\ \A p \in DOMAIN depth : depth[p] \in Nat
          /\ Returning(depth) \subseteq DOMAIN depth
      BY <2>1, RunningFacts
    <3>3. Top \in Returning(depth)
      BY <3>1, <3>2, StackedReturn DEF Top
    <3> QED
      BY <3>1, <3>3 DEF goal
  <2>2. CASE I.name = "DereferencePtr" /\ GoesOn
    <3>1. I.name \in PlainNames
      BY <2>2 DEF PlainNames
    <3> QED
      BY <1>1, <2>2, <3>1 DEF GoesOn
  <2> QED
    BY <1>0, <1>6, <2>1, <2>2, ReturningGoes
<1>7. CASE Jump \/ CondJump
  BY <1>0, <1>1, <1>7, JumpingGoes DEF GoesOn, EndsRun, goal
<1>8. CASE Call
  BY <1>0, <1>8, CallGoes DEF EndsRun, goal
<1>9. CASE Decrement \/ EnqueueHMapHeader
  BY <1>0, <1>1, <1>9, ReplacingGoes
<1>10. CASE PrepareGoContext \/ FetchContext \/ RecordContext
  BY <1>0, <1>1, <1>10, PrepareGoContextGoes, FetchContextGoes, RecordContextGoes
     DEF WalkGoes, PlainNames, goal
<1> QED
  BY <1>2, <1>3, <1>4, <1>5, <1>6, <1>7, <1>8, <1>9, <1>10, StepKinds DEF goal

\* The place behind a PrepareExprEval is the only way into the places.
LEMMA PlacesEntered ==
  ASSUME NEW depth, NEW called, NEW places, Running(depth, called),
         Prepared(program, depth, places), Step, m'.on, m'.pc \in places
  PROVE  m.pc \in places \/ I.name = "PrepareExprEval"
<1>1. m.pc \in DOMAIN depth
  BY DEF Running, OnTrack
<1>2. /\ I.name = "Call" => arg.Pc \notin places
      /\ m.pc \notin places =>
           /\ I.name \notin Leaves \cup {"PrepareExprEval"} => I.next \notin places
           /\ I.name \in {"Jump", "CondJump"} => arg.Pc \notin places
  BY <1>1 DEF Prepared, I, arg
<1>3. \A pc \in Returning(depth) : pc \notin places
  BY DEF Returning, Prepared
<1> QED
  BY <1>2, <1>3, StepLeads

\* Of the actions of a run only one is an instruction of that name.
LEMMA StepAtExprEval ==
  ASSUME Step, I.name = "PrepareExprEval", m.walk = <<>>, IsMachine(m), IsBuf(buf),
         cut \in BOOLEAN, m'.on
  PROVE  PrepareExprEval
<1> USE DEF At
<1>1. ~(Panics \/ Illegal \/ StepLimit)
  BY CrashingGoes
<1>2. ~(EnqueuePointer \/ Invalid \/ Pushing \/ Filling)
  BY DEF EnqueuePointer, Invalid, Pushing, PushImm, PushOffset, PushSliceLen, Filling,
     PrepareFrame, PreparePointeeData, DereferenceCFAOffset, CopyFromRegister
<1>3. Setting => PrepareExprEval
  BY DEF Setting, Nothing, SetOffset, AdvanceOffset, ConcludeFrame, SaveExprResult, ZeroFill,
     SetPresenceBit
<1>4. ~Queueing
  BY DEF Queueing, EnqueueEmptyInterface, EnqueueInterface, EnqueueSliceHeader,
     EnqueueStringHeader, EnqueueSwissMap, EnqueueSwissMapGroups, EnqueueSubroutine
<1>5. ~(\/ Return \/ DereferencePtr \/ Jump \/ CondJump \/ Call \/ Pop
        \/ Decrement \/ EnqueueHMapHeader)
  BY DEF Return, DereferencePtr, Jump, CondJump, Call, Pop, Decrement, EnqueueHMapHeader
<1>6. ~(PrepareGoContext \/ FetchContext \/ RecordContext)
  BY DEF PrepareGoContext, FetchContext, RecordContext
<1> QED
  BY <1>1, <1>2, <1>3, <1>4, <1>5, <1>6, StepKinds

LEMMA ResultsStep ==
  ASSUME NEW depth, NEW called, NEW places, TypesIInv, Running(depth, called),
         Prepared(program, depth, places), ResultsIn(places), Step
  PROVE  ResultsIn(places)'
<1>1. Resized(buf') /\ Places
  BY RunningIsReady, StepStepped DEF Running, Stepped
<1>2. sn' = sn
  BY StepKeeps DEF Running, Keeps
<1> SUFFICES ASSUME sn.phase = "frames"
             PROVE  /\ sn.before <= buf'.len
                    /\ m'.on /\ m'.pc \in places => sn.before <= m'.resultsEnd
                    /\ m'.walk # <<>> => sn.before <= m'.walk[1].end
  BY <1>2 DEF ResultsIn
<1>3. /\ sn.before <= buf.len
      /\ m.pc \in places => sn.before <= m.resultsEnd
      /\ m.walk # <<>> => sn.before <= m.walk[1].end
  BY DEF ResultsIn, Running
<1>4. m.pc \in DOMAIN depth /\ (m.walk # <<>> => I.name = "PrepareGoContext")
  BY DEF Running, OnTrack
<1>5. I.name \in {"SaveExprResult", "DereferencePtr"} => m.pc \in places
  BY <1>4 DEF Prepared, I
<1>6. /\ sn.before \in Int /\ buf.len \in Int /\ buf'.len \in Int
      /\ m.resultsEnd \in Int /\ (m.walk # <<>> => m.walk[1].end \in Int)
  <2>1. NumBuf(buf) /\ NumBuf(buf') /\ NumMachine(m, buf.cap) /\ NumSnapshot(sn, buf.cap)
    BY <1>1 DEF TypesIInv, TypeIInv, Resized
  <2>2. buf.cap \in Nat /\ buf.len \in Int /\ buf'.len \in Int
    BY <2>1 DEF NumBuf
  <2>3. sn.before \in Int /\ m.resultsEnd \in Int
    BY <2>1, <2>2 DEF NumMachine, NumSnapshot
  <2>4. m.walk # <<>> => m.walk[1].end \in Int
    BY <2>1, <2>2 DEF NumMachine, NumWalk, WalkRecord
  <2> QED
    BY <2>2, <2>3, <2>4
<1>7. sn.before <= buf'.len
  BY <1>1, <1>3, <1>5, <1>6 DEF Resized
<1>8. ASSUME m'.on, m'.pc \in places
      PROVE  sn.before <= m'.resultsEnd
  <2>1. CASE m.pc \in places
    BY <1>1, <1>3, <1>6, <2>1 DEF Places
  <2>2. CASE I.name = "PrepareExprEval"
    <3>1. PrepareExprEval
      BY <1>4, <1>8, <2>2, StepAtExprEval DEF Running
    <3>2. m'.resultsEnd = buf.len
      <4>1. DOMAIN m = MachineFields
        BY DEF Running, IsMachine
      <4> QED
        BY <3>1, <4>1 DEF PrepareExprEval, Writes, Then, MachineFields
    <3> QED
      BY <1>3, <3>2
  <2> QED
    BY <1>8, <2>1, <2>2, PlacesEntered
<1>9. ASSUME m'.walk # <<>>
      PROVE  sn.before <= m'.walk[1].end
  <2>1. CASE m.walk = <<>> /\ buf.len <= m'.walk[1].end
    <3>1. m'.walk[1].end \in Int
      <4>1. NumMachine(m', buf.cap) /\ NumBuf(buf)
        BY RunningIsReady, StepStepped DEF Running, Stepped, TypesIInv, TypeIInv
      <4>2. PICK r : m'.walk = <<r>> /\ r.end \in 0..buf.cap
        BY <1>9, <4>1 DEF NumMachine, NumWalk, WalkRecord
      <4> QED
        BY <4>1, <4>2 DEF NumBuf
    <3> QED
      BY <1>3, <1>6, <2>1, <3>1
  <2>2. CASE m.walk # <<>> /\ m'.walk[1].end = m.walk[1].end
    BY <1>3, <2>2
  <2> QED
    BY <1>1, <1>9, <2>1, <2>2 DEF Places
<1> QED
  BY <1>7, <1>8, <1>9

\* Between two runs: a goroutine begins at the end of the buffer, and a run at an entry,
\* which is not one of the places.
LEMMA ResultsAround ==
  ASSUME NEW depth, NEW places, Prepared(program, depth, places), TypesIInv,
         ResultsIn(places), Surrounds
  PROVE  ResultsIn(places)'
<1>1. Typed /\ WalkEnded' /\ Around
  BY SurroundsTyped, StartGoes, SkipGoroutineGoes, BeginGoroutineGoes, RunFrameGoes,
     EndGoroutineGoes, GoroutinesDoneGoes, PopEntryGoes, FailsGoes
     DEF Surrounds, TypesIInv, TypeIInv
<1>2. DOMAIN sn = SnapshotFields
  BY DEF TypesIInv, TypeIInv, NumSnapshot
<1> SUFFICES ASSUME sn'.phase = "frames"
             PROVE  /\ sn'.before <= buf'.len
                    /\ m'.on /\ m'.pc \in places => sn'.before <= m'.resultsEnd
                    /\ m'.walk # <<>> => sn'.before <= m'.walk[1].end
  BY DEF ResultsIn
<1>3. BeginGoroutine \/ RunFrame
  <2>1. CASE Rejects \/ Start
    BY <1>2, <2>1 DEF Rejects, Start, NoSnapshot, SnapshotFields
  <2>2. CASE SkipGoroutine \/ EndGoroutine \/ GoroutinesDone
    BY <1>2, <2>2 DEF SkipGoroutine, EndGoroutine, GoroutinesDone, Goroutine, NextGoroutine,
       SnapshotFields
  <2>3. CASE PopEntry \/ QueueDone \/ Fails
    BY <1>2, <2>3 DEF PopEntry, Popping, QueueDone, Fails, Goroutine, SnapshotFields
  <2> QED
    BY <2>1, <2>2, <2>3 DEF Surrounds
<1>4. ~m.on /\ m.walk = <<>> /\ m'.walk = <<>>
  <2>1. ~m.on /\ sn.phase # "failed"
    BY <1>3 DEF BeginGoroutine, RunFrame, Idle, TypesIInv, TypeIInv, Shape
  <2> QED
    BY <1>1, <2>1 DEF TypesIInv, WalkEnded, Around
<1>5. m'.on => m'.pc \notin places
  BY <1>1, <1>4 DEF Around, Prepared
<1>6. sn'.before <= buf'.len
  <2>1. CASE BeginGoroutine
    BY <1>1, <2>1 DEF BeginGoroutine, Typed
  <2>2. CASE RunFrame
    BY <1>2, <2>2 DEF RunFrame, ResultsIn, SnapshotFields
  <2> QED
    BY <1>3, <2>1, <2>2
<1> QED
  BY <1>4, <1>5, <1>6

\* What is written elsewhere does not change what is at an offset.
LEMMA GetElsewhere ==
  ASSUME NEW b, IsBuf(b), NEW o \in Int
  PROVE  /\ \A at \in Int, n \in Nat : \A f : (o < at \/ o >= at + n) /\ o \notin DOMAIN f =>
              Get(Overwrite(b, at, n, f), o) = Get(b, o)
         /\ \A at \in Int, w \in Nat \ {0} : \A v : (o < at \/ o >= at + w) =>
              Get(Put(b, at, w, v), o) = Get(b, o)
         /\ \A n : Get(Truncate(b, n), o) = Get(b, o)
<1>1. ASSUME NEW at \in Int, NEW n \in Nat, NEW f, o < at \/ o >= at + n, o \notin DOMAIN f
      PROVE  Get(Overwrite(b, at, n, f), o) = Get(b, o)
  <2> DEFINE g == [i \in DOMAIN f \cup {j \in DOMAIN b.at : j < at \/ j >= at + n} |->
                     IF i \in DOMAIN f THEN f[i] ELSE b.at[i]]
  <2>1. Overwrite(b, at, n, f).at = g
    BY DEF Overwrite, IsBuf
  <2>2. o \in DOMAIN g <=> o \in DOMAIN b.at
    BY <1>1
  <2>3. o \in DOMAIN g => g[o] = b.at[o]
    BY <1>1
  <2> HIDE DEF g
  <2> QED
    BY <2>1, <2>2, <2>3 DEF Get
<1>2. ASSUME NEW at \in Int, NEW w \in Nat \ {0}, NEW v, o < at \/ o >= at + w
      PROVE  Get(Put(b, at, w, v), o) = Get(b, o)
  <2>1. o \notin DOMAIN (IF v = 0 THEN <<>> ELSE [i \in {at} |-> v])
    BY <1>2
  <2> QED
    BY <1>1, <1>2, <2>1 DEF Put
<1>3. \A n : Get(Truncate(b, n), o) = Get(b, o)
  BY DEF Truncate, Get, IsBuf
<1> QED
  BY <1>1, <1>2, <1>3

\* A goroutine's header is filled in behind what was there before the goroutine.
LEMMA FilledElsewhere ==
  ASSUME NEW b, IsBuf(b), NEW h \in Int, NEW o \in Int, o < h,
         NEW v1, NEW v2, NEW v3, NEW v4, NEW v5
  PROVE  LET c == Put(Put(Put(Put(Put(Overwrite(b, h, GoroutineHeaderSize, <<>>), h, 8, v1),
                                  h + 8, 8, v2), h + 16, 4, v3), h + 32, 4, v4), h + 36, 4, v5)
         IN IsBuf(c) /\ Get(c, o) = Get(b, o)
<1> DEFINE c0 == Overwrite(b, h, GoroutineHeaderSize, <<>>)
           c1 == Put(c0, h, 8, v1)
           c2 == Put(c1, h + 8, 8, v2)
           c3 == Put(c2, h + 16, 4, v3)
           c4 == Put(c3, h + 32, 4, v4)
           c5 == Put(c4, h + 36, 4, v5)
<1>1. /\ h + 8 \in Int /\ h + 16 \in Int /\ h + 32 \in Int /\ h + 36 \in Int
      /\ o < h + 8 /\ o < h + 16 /\ o < h + 32 /\ o < h + 36
      /\ 8 \in Nat \ {0} /\ 4 \in Nat \ {0}
  OBVIOUS
<1>2. IsBuf(c0) /\ Get(c0, o) = Get(b, o)
  <2>1. GoroutineHeaderSize \in Nat /\ o \notin DOMAIN <<>>
    BY DEF GoroutineHeaderSize
  <2> QED
    BY <2>1, GetElsewhere, BufOps DEF Becomes
<1> HIDE DEF c0
<1>3. IsBuf(c1) /\ Get(c1, o) = Get(c0, o)
  BY <1>1, <1>2, GetElsewhere, BufOps DEF Becomes
<1> HIDE DEF c1
<1>4. IsBuf(c2) /\ Get(c2, o) = Get(c1, o)
  BY <1>1, <1>3, GetElsewhere, BufOps DEF Becomes
<1> HIDE DEF c2
<1>5. IsBuf(c3) /\ Get(c3, o) = Get(c2, o)
  BY <1>1, <1>4, GetElsewhere, BufOps DEF Becomes
<1> HIDE DEF c3
<1>6. IsBuf(c4) /\ Get(c4, o) = Get(c3, o)
  BY <1>1, <1>5, GetElsewhere, BufOps DEF Becomes
<1> HIDE DEF c4
<1>7. IsBuf(c5) /\ Get(c5, o) = Get(c4, o)
  BY <1>1, <1>6, GetElsewhere, BufOps DEF Becomes
<1> HIDE DEF c5
<1>8. IsBuf(c5) /\ Get(c5, o) = Get(b, o)
  BY <1>2, <1>3, <1>4, <1>5, <1>6, <1>7
<1> QED
  BY <1>8 DEF c0, c1, c2, c3, c4, c5

\* While nothing was spoiled, a run gives back nothing of what was there before its
\* goroutine.
FinalIInv ==
  /\ TypesIInv
  /\ sn.phase = "start" => ~buf.full
  /\ \E depth, called, places :
       /\ Balanced(program, depth, called) /\ Prepared(program, depth, places)
       /\ (OnTrack(depth, called) /\ ResultsIn(places)) \/ Spoiled

LEMMA FinalInitially ==
  ASSUME \A p \in Programs : \E depth, called, places :
           Balanced(Loaded(p), depth, called) /\ Prepared(Loaded(p), depth, places),
         Init
  PROVE  FinalIInv
<1>1. /\ TypesIInv
      /\ ~m.on /\ m.stack = <<>> /\ m.walk = <<>>
  BY TypesInitially, ShapeInitially DEF TypesIInv, WalkEnded
<1>2. sn.phase = "start" /\ ~buf.full
  BY DEF Init, makeOutBuf
<1>3. PICK depth, called, places :
        Balanced(program, depth, called) /\ Prepared(program, depth, places)
  BY DEF Init
<1>4. OnTrack(depth, called) /\ ResultsIn(places)
  BY <1>1, <1>2 DEF OnTrack, ResultsIn
<1> QED
  BY <1>1, <1>2, <1>3, <1>4 DEF FinalIInv

LEMMA FinalStep ==
  ASSUME FinalIInv, [Next]_vars
  PROVE  FinalIInv'
<1>1. Shape /\ TypesIInv /\ program' = program /\ TypesIInv'
  BY ShapeStep, TypesStep DEF FinalIInv, TypesIInv, TypeIInv
<1>2. PICK depth, called, places :
        /\ Balanced(program, depth, called) /\ Prepared(program, depth, places)
        /\ (OnTrack(depth, called) /\ ResultsIn(places)) \/ Spoiled
  BY DEF FinalIInv
<1>3. (OnTrack(depth, called) /\ ResultsIn(places))' \/ Spoiled'
  <2>1. CASE Spoiled
    BY <1>1, <2>1, SpoiledForGood
  <2>2. CASE OnTrack(depth, called) /\ ResultsIn(places) /\ Surrounds
    <3>1. Around
      BY <1>1, <2>2, StartGoes, SkipGoroutineGoes, BeginGoroutineGoes, RunFrameGoes,
         EndGoroutineGoes, GoroutinesDoneGoes, PopEntryGoes, FailsGoes DEF Surrounds
    <3>2. OnTrack(depth, called)' \/ Spoiled'
      BY <1>2, <2>2, <3>1, AroundOnTrack
    <3>3. ResultsIn(places)'
      BY <1>1, <1>2, <2>2, ResultsAround
    <3> QED
      BY <3>2, <3>3
  <2>3. CASE OnTrack(depth, called) /\ ResultsIn(places) /\ Step
    <3>1. Running(depth, called)
      BY <1>1, <1>2, <2>3, StepKinds DEF Running, Shape
    <3>2. OnTrack(depth, called)' \/ Spoiled'
      BY <2>3, <3>1, StepKeepsTrack
    <3>3. ResultsIn(places)'
      BY <1>1, <1>2, <2>3, <3>1, ResultsStep
    <3> QED
      BY <3>2, <3>3
  <2>4. CASE OnTrack(depth, called) /\ ResultsIn(places) /\ UNCHANGED vars
    BY <2>4 DEF vars, machineVars, OnTrack, Halted, I, Returning, ResultsIn
  <2> QED
    BY <1>2, <2>1, <2>2, <2>3, <2>4 DEF Next, Surrounds
<1>4. sn'.phase = "start" => ~buf'.full
  <2>0. DOMAIN sn = SnapshotFields
    BY <1>1 DEF Shape, IsSnapshot
  <2>1. CASE Step
    <3>1. sn' = sn /\ sn.phase # "start"
      BY <1>1, <2>1, StepKeeps, StepKinds DEF Shape, Keeps
    <3> QED
      BY <3>1
  <2>2. CASE Rejects \/ Start
    BY <2>0, <2>2 DEF Rejects, Start, NoSnapshot, SnapshotFields
  <2>3. CASE SkipGoroutine \/ BeginGoroutine \/ EndGoroutine \/ GoroutinesDone
    BY <2>0, <2>3 DEF SkipGoroutine, BeginGoroutine, EndGoroutine, GoroutinesDone, Goroutine,
       NextGoroutine, SnapshotFields
  <2>4. CASE RunFrame \/ PopEntry \/ QueueDone \/ Fails
    BY <2>0, <2>4 DEF RunFrame, PopEntry, Popping, QueueDone, Fails, Goroutine, SnapshotFields
  <2>5. CASE UNCHANGED vars
    BY <2>5 DEF vars, machineVars, FinalIInv
  <2> QED
    BY <2>1, <2>2, <2>3, <2>4, <2>5 DEF Next
<1>5. (Balanced(program, depth, called) /\ Prepared(program, depth, places))'
  BY <1>1, <1>2
<1> QED
  BY <1>1, <1>3, <1>4, <1>5 DEF FinalIInv

\* The buffer that is full: only the counts in the snapshot's header, and the header of the
\* goroutine that ends, are still written, and the goroutine is removed.
LEMMA FullChanges ==
  ASSUME FinalIInv, [Next]_vars, ~cut, buf.full, ~m.on
  PROVE  buf'.len <= buf.len /\ \A o \in Kept : Get(buf', o) = Get(buf, o)
<1> DEFINE goal == buf'.len <= buf.len /\ \A o \in Kept : Get(buf', o) = Get(buf, o)
<1> SUFFICES goal
  OBVIOUS
<1>1. TypeIInv /\ Shape /\ IsBuf(buf) /\ sn.phase # "start"
  BY DEF FinalIInv, TypesIInv, TypeIInv, Shape
<1>2. /\ buf.len \in Int /\ sn.before \in Int /\ sn.header = sn.before
      /\ DOMAIN sn = SnapshotFields
  BY <1>1, TypeFacts DEF NumSnapshot
<1>3. Kept \subseteq Int /\ \A o \in Kept : o >= SnapshotHeaderSize
  BY <1>2 DEF Kept, SnapshotHeaderSize
<1>4. CASE buf' = buf
  BY <1>2, <1>4
<1>5. CASE \E at \in {DataByteLen, GoroutinesByteLen} : \E v : buf' = Put(buf, at, 4, v)
  <2>0. PICK at \in {DataByteLen, GoroutinesByteLen} : \E v : buf' = Put(buf, at, 4, v)
    BY <1>5
  <2>1. PICK v : buf' = Put(buf, at, 4, v)
    BY <2>0
  <2>2. at \in Int /\ at + 4 <= SnapshotHeaderSize
    BY DEF DataByteLen, GoroutinesByteLen, SnapshotHeaderSize
  <2>3. buf'.len = buf.len
    BY <1>1, <2>1 DEF Put, Overwrite, IsBuf
  <2>4. ASSUME NEW o \in Kept
        PROVE  Get(buf', o) = Get(buf, o)
    <3>1. o \in Int /\ o >= at + 4 /\ 4 \in Nat \ {0}
      BY <1>3, <2>2 DEF SnapshotHeaderSize
    <3> QED
      BY <1>1, <2>1, <2>2, <3>1, GetElsewhere
  <2> QED
    BY <1>2, <2>3, <2>4
<1>6. CASE EndGoroutine
  <2> DEFINE h == sn.header
             filled == Put(Put(Put(Put(Put(Overwrite(buf, h, GoroutineHeaderSize, <<>>),
                                           h, 8, Current.goid), h + 8, 8, sn.hash),
                                   h + 16, 4, Current.status), h + 32, 4, sn.stackBytes),
                           h + 36, 4, buf.len - sn.after)
  <2>1. buf' = Truncate(filled, sn.before) /\ sn.phase = "frames" /\ Idle
    BY <1>6 DEF EndGoroutine
  <2>2. sn.before <= buf.len
    BY <2>1 DEF FinalIInv, Spoiled, Idle, ResultsIn
  <2>3. ASSUME NEW o \in Int, o < h
        PROVE  IsBuf(filled) /\ Get(filled, o) = Get(buf, o)
    <3>1. h \in Int
      BY <1>2
    <3> HIDE DEF h
    <3> QED
      BY <1>1, <2>3, <3>1, FilledElsewhere
  <2> HIDE DEF filled
  <2>4. IsBuf(filled)
    <3>1. sn.before - 1 \in Int /\ sn.before - 1 < h
      BY <1>2
    <3> QED
      BY <2>3, <3>1
  <2>5. buf'.len = sn.before
    BY <2>1, <2>4 DEF Truncate, IsBuf
  <2>6. ASSUME NEW o \in Kept
        PROVE  Get(buf', o) = Get(buf, o)
    <3>1. o \in Int /\ o < h
      BY <1>2, <2>1 DEF Kept, SnapshotHeaderSize
    <3> QED
      BY <2>1, <2>3, <2>4, <3>1, GetElsewhere
  <2> QED
    BY <2>2, <2>5, <2>6
<1> HIDE DEF goal
<1>7. ~Step
  BY StepKinds
<1>8. ~(Rejects \/ Start)
  BY <1>1 DEF Rejects, Start
<1>9. CASE SkipGoroutine \/ RunFrame \/ Fails
  BY <1>4, <1>9 DEF SkipGoroutine, RunFrame, Fails, Goroutine
<1>10. ~(BeginGoroutine \/ PopEntry)
  BY DEF BeginGoroutine, PopEntry, Popping
<1>11. CASE GoroutinesDone \/ QueueDone
  BY <1>5, <1>11 DEF GoroutinesDone, QueueDone, Goroutine
<1>12. CASE UNCHANGED vars
  BY <1>4, <1>12 DEF vars, machineVars
<1> QED
  BY <1>6, <1>7, <1>8, <1>9, <1>10, <1>11, <1>12 DEF Next

\* truncate never clears isFull, and yet gives room back, to a run that gives up an
\* expression and to a goroutine that did not fit: nothing is written there again, and
\* nothing that was complete is given back.  It holds of programs whose expressions begin
\* where their results are given back, as long as no run is cut by the step limit
\* (internal/snapshot/out_buf.go ensureLen, truncate; snapshot.go snapshotGoroutine,
\* processQueue; stack_machine.go PrepareExprEval, SaveExprResult, DereferencePtr).
THEOREM PreparedFullIsFinal ==
  ASSUME \A p \in Programs : \E depth, called, places :
           Balanced(Loaded(p), depth, called) /\ Prepared(Loaded(p), depth, places)
  PROVE  Spec /\ []~cut => FullIsFinal
<1>1. Init => FinalIInv
  BY FinalInitially
<1>2. FinalIInv /\ [Next]_vars => FinalIInv'
  BY FinalStep
<1>3. FinalIInv /\ ~cut /\ [Next]_vars =>
        [buf.full => /\ buf'.full
                     /\ ~m.on => /\ buf'.len <= buf.len
                                 /\ \A o \in Kept : Get(buf', o) = Get(buf, o)]_<<buf, sn>>
  <2> SUFFICES ASSUME FinalIInv, ~cut, [Next]_vars, buf.full
               PROVE  /\ buf'.full
                      /\ ~m.on => /\ buf'.len <= buf.len
                                  /\ \A o \in Kept : Get(buf', o) = Get(buf, o)
    OBVIOUS
  <2>1. buf'.full
    BY ShapeStep DEF FinalIInv, TypesIInv, TypeIInv, Becomes
  <2> QED
    BY <2>1, FullChanges
<1> QED
  BY <1>1, <1>2, <1>3, PTL DEF Spec, FullIsFinal
=============================================================================
