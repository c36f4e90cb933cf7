--------------------------- MODULE MCSnapshotRun ---------------------------
(* SnapshotRun on a program with every instruction and a process of five   *)
(* goroutines.  The program is assembled here, the inverse of OpDecoder.   *)
EXTENDS SnapshotRun, TLC

LOCAL INSTANCE SequencesExt

(* The assembler.  A routine is a name and its instructions; P says where   *)
(* each routine starts.                                                     *)
CodeOf(name) ==
  IF name = "Nothing" THEN 28 ELSE CHOOSE c \in DOMAIN OpCodes : OpCodes[c].name = name
EncodedByte(v, i) == (v \div (256 ^ i)) % 256
Operand(v, width) == [i \in 1..width |-> EncodedByte(v, i - 1)]

Encoded(instr) ==
  LET fields == SetToSortSeq(OpOf(CodeOf(instr[1])).fields, LAMBDA f, g : f.at < g.at) IN
  <<CodeOf(instr[1])>> \o
    FlattenSeq([i \in 1..Len(fields) |-> Operand(instr[i + 1], fields[i].width)])

EncodedAll(instrs) == FlattenSeq([i \in 1..Len(instrs) |-> Encoded(instrs[i])])

Node == 1 Holder == 2 Slice == 3 Str == 4 Buckets == 5 Tables == 6 Table == 7
Groups == 8 Group == 9 Pointee == 10 Func == 11 ValueCtx == 12 Background == 13
Trace == 14 Key == 15 Bad == 20 Guard == 21 Empty == 22 Popper == 23 Lost == 24 Unknown == 60
FrameA == 101 FrameB == 102 CtxType == 103 UnknownFunc == 50

Routines(P) == <<
  <<"none", << <<"Invalid">> >> >>,
  <<"frameA", << <<"PrepareFrameData", 7, 20, FrameA>>, <<"ZeroFill", 20>>, <<"Call", P["ptr"]>>,
                 <<"Call", P["deref"]>>, <<"ConcludeFrameData">>, <<"Return">> >> >>,
  <<"ptr", << <<"PrepareExprEval">>, <<"DereferenceCFAOffset", -32, 8, 0>>,
              <<"SaveExprResult", 0, 8>>, <<"SetPresenceBit", 128>>,
              <<"EnqueuePointer", Node>>, <<"Return">> >> >>,
  <<"deref", << <<"PrepareExprEval">>, <<"DereferenceCFAOffset", -32, 8, 0>>,
                <<"DereferencePtr", 8, 8>>, <<"SaveExprResult", 8, 8>>,
                <<"SetPresenceBit", 129>>, <<"EnqueuePointer", Holder>>, <<"Return">> >> >>,
  <<"frameB", << <<"PrepareFrameData", 8, 32, FrameB>>, <<"CopyFromRegister", 3, 8>>,
                 <<"Call", P["ctx"]>>, <<"ConcludeFrameData">>, <<"Return">> >> >>,
  <<"ctx", << <<"PrepareExprEval">>, <<"DereferenceCFAOffset", -32, 16, 0>>,
              <<"SaveExprResult", 8, 16>>, <<"SetPresenceBit", 192>>,
              <<"PrepareGoContext", 32, CtxType, 2>>, <<"Return">> >> >>,
  <<"node", << <<"EnqueuePointer", Node>>, <<"AdvanceOffset", 8>>, <<"EnqueuePointer", Holder>>,
               <<"AdvanceOffset", 8>>, <<"EnqueueEmptyInterface">>, <<"Return">> >> >>,
  <<"holder", << <<"EnqueueSliceHeader", Slice, 8>>, <<"AdvanceOffset", 24>>,
                 <<"EnqueueStringHeader", Str>>, <<"AdvanceOffset", 16>>,
                 <<"EnqueueInterface">>, <<"AdvanceOffset", 16>>,
                 <<"EnqueueSubroutine">>, <<"AdvanceOffset", 8>>, <<"PushImm", 1>> >> >>,
  <<"hmap", << <<"EnqueueHMapHeader", Buckets, 8, 0, 1, 8, 16>>, <<"CondJump", P["hmap"]>>,
               <<"Pop">>, <<"PushOffset">>, <<"AdvanceOffset", 24>>,
               <<"EnqueueSwissMap", Tables, Group, 0, 8>>, <<"SetOffset">>, <<"Pop">>,
               <<"Jump", P["end"]>> >> >>,
  <<"slice", << <<"PushSliceLen", 8>> >> >>,
  <<"loop", << <<"Call", P["elem"]>>, <<"AdvanceOffset", 8>>, <<"Decrement">>,
               <<"CondJump", P["loop"]>>, <<"Pop">>, <<"Return">> >> >>,
  <<"elem", << <<"EnqueuePointer", Node>> >> >>,
  <<"end", << <<"Nothing">>, <<"Return">> >> >>,
  <<"tables", << <<"EnqueuePointer", Table>>, <<"Return">> >> >>,
  <<"table", << <<"EnqueueSwissMapGroups", Groups, 8, 0, 8>>, <<"Return">> >> >>,
  <<"pointee", << <<"PreparePointeeData">>, <<"Call", P["root"]>>, <<"Return">> >> >>,
  <<"root", << <<"PrepareExprEval">>, <<"DereferencePtr", 0, 8>>, <<"SaveExprResult", 0, 8>>,
               <<"SetPresenceBit", 64>>, <<"EnqueuePointer", Node>>, <<"Return">> >> >>,
  <<"guard", << <<"Illegal">> >> >>,
  <<"lost", << <<"Jump", P["none"]>> >> >>, <<"pops", << <<"Pop">> >> >>,
  <<"bad", << <<"EnqueuePointer", 0>> >> >> >>

Names ==
  {"none", "frameA", "ptr", "deref", "frameB", "ctx", "node",
   "holder", "hmap", "slice", "loop",
   "elem", "end", "tables", "table", "pointee", "root", "guard", "lost", "pops", "bad"}
Sized == Routines([n \in Names |-> 0])
Starts ==
  [n \in Names |->
    LET k == CHOOSE i \in 1..Len(Sized) : Sized[i][1] = n IN
    Len(FlattenSeq([i \in 1..k - 1 |-> EncodedAll(Sized[i][2])]))]
TheProg ==
  LET rs == Routines(Starts) IN FlattenSeq([i \in 1..Len(rs) |-> EncodedAll(rs[i][2])])

Info(size, pc, serialize) ==
  [ByteLen |-> size, EnqueuePc |-> pc, SerializeBeforeEnqueue |-> serialize,
   GoContextImpl |-> <<>>, GoContextValue |-> <<>>, GoContextKey |-> <<>>,
   GoContextKeyValueType |-> 0]
Impl(ctx, key, value) == <<[ContextOffset |-> ctx, KeyOffset |-> key, ValueOffset |-> value]>>
Spec3(i, o, t) == <<[Index |-> i, Offset |-> o, Type |-> t]>>

TheTypeInfo ==
  Node :> Info(32, Starts["node"], TRUE) @@ Holder :> Info(104, Starts["holder"], TRUE) @@
  Slice :> Info(48, Starts["slice"], TRUE) @@ Str :> Info(64, 0, TRUE) @@
  Buckets :> Info(64, 0, TRUE) @@ Tables :> Info(16, Starts["tables"], TRUE) @@
  Table :> Info(16, Starts["table"], TRUE) @@ Groups :> Info(32, 0, TRUE) @@
  Group :> Info(8, 0, TRUE) @@ Pointee :> Info(16, Starts["pointee"], FALSE) @@
  Func :> Info(8, 0, TRUE) @@
  ValueCtx :> [Info(48, 0, TRUE) EXCEPT !.GoContextImpl = Impl(<<0>>, <<16>>, <<32>>)] @@
  Background :> [Info(8, 0, TRUE) EXCEPT !.GoContextImpl = Impl(<<>>, <<>>, <<>>)] @@
  Trace :> [Info(8, 0, TRUE) EXCEPT !.GoContextValue = Spec3(0, 0, 0)] @@
  Key :> [Info(8, 0, TRUE) EXCEPT !.GoContextKey = Spec3(1, 16, 0),
                                  !.GoContextKeyValueType = Pointee] @@
  Bad :> Info(8, Starts["bad"], TRUE) @@ Guard :> Info(8, Starts["guard"], TRUE) @@
  Lost :> Info(8, Starts["lost"], TRUE) @@ Popper :> Info(8, Starts["pops"], TRUE) @@
  Empty :> Info(0, 0, TRUE)

TheGoTypes ==
  10 :> Pointee @@ 12 :> Table @@ 20 :> ValueCtx @@ 22 :> Key @@ 24 :> Trace @@ 30 :> Background
TheGoTypesRange == <<7000, 7100>>
TheSubroutines == 600 :> Func

Words(base, ws) == [a \in {base + 8 * (i - 1) : i \in 1..Len(ws)} |-> ws[(a - base) \div 8 + 1]]

Frames ==
  (984 :> 2000) @@ Words(1000, <<1100, 520>>) @@ Words(1084, <<3000, 4000>>) @@
  Words(1100, <<1100, 530>>) @@
  (1184 :> 2032) @@ Words(1200, <<1300, 520>>) @@ Words(1284, <<3000, 4000>>) @@
  Words(1300, <<1300, 530>>)
Objects(sliceLen, entryPc) ==
  Words(2000, <<2032, 2200, 7010, 2100>>) @@ Words(2032, <<2000, 0, 7999, 2100>>) @@
  Words(2100, <<2032, 9>>) @@
  Words(2200, <<2400, sliceLen, 6, 2500, 5, 3010, 2600, 2700>>) @@
  (2264 :> 8) @@ (2265 :> 1) @@ Words(2272, <<2800, 2850, 2900, 2>>) @@
  Words(2400, <<2000, 2032, 0, 0, 0, 2000>>) @@ Words(2500, <<77>>) @@
  Words(2600, <<2950, 0>>) @@ Words(2700, <<entryPc>>) @@ Words(2800, <<5, 6>>) @@
  Words(2850, <<7>>) @@ Words(2900, <<2920, 2920>>) @@ Words(2920, <<2950, 1>>) @@
  Words(2950, <<3, 4>>)
Contexts ==
  (3008 :> 7020) @@ (3018 :> 7012) @@ (3038 :> 7030) @@
  Words(4000, <<3000, 4048, 7022, 4100, 7010, 2100>>) @@
  Words(4048, <<3030, 4300, 7022, 4100, 7024, 4200>>) @@ Words(4200, <<8>>) @@
  Words(4100, <<9>>) @@ Words(4300, <<9>>)

Ranges == {<<900, 1050>>, <<1050, 1150>>, <<1150, 1350>>, <<2000, 2032>>, <<2032, 2064>>,
           <<2100, 2116>>, <<2200, 2304>>, <<2400, 2448>>, <<2500, 2960>>, <<3000, 3050>>,
           <<4000, 4048>>, <<4048, 4400>>}
MemoryWith(sliceLen, entryPc, bad) ==
  [arch |-> "amd64", at |-> Frames @@ Objects(sliceLen, entryPc) @@ Contexts,
   ranges |-> Ranges \ bad]

Unreadable == {{}, {<<1150, 1350>>}, {<<2000, 2032>>}, {<<2200, 2304>>}, {<<2100, 2116>>},
               {<<2500, 2960>>}, {<<4000, 4048>>}, {<<4048, 4400>>}}
TheMemories ==
  {MemoryWith(2, 610, bad) : bad \in Unreadable} \cup 
  {MemoryWith(5, 610, {}), MemoryWith(2, 999, {}), [MemoryWith(2, 610, {}) EXCEPT !.arch = "arm64"]}

Static(a, t) == [Address |-> a - BssShift, Type |-> t]
TheStatics == {<<>>, <<Static(2100, Pointee), Static(2200, Holder)>>,
               <<Static(2500, Bad), Static(2508, Unknown), Static(2508, Lost),
                 Static(2508, Empty), Static(2100, Pointee)>>,
               <<Static(2500, Guard)>>, <<Static(2500, Popper)>>}

TheGoroutines == <<
  [goid |-> 1, status |-> 4, pc |-> 510, bp |-> 1000, stktopsp |-> 1130],
  [goid |-> 2, status |-> Grunning, pc |-> 0, bp |-> 0, stktopsp |-> 0],
  [goid |-> 3, status |-> Gdead, pc |-> 0, bp |-> 0, stktopsp |-> 0],
  [goid |-> 4, status |-> Gscan + 1, pc |-> 510, bp |-> 1200, stktopsp |-> 1330],
  [goid |-> 5, status |-> 3, pc |-> 510, bp |-> 0, stktopsp |-> 0]>>
TheTargetPc == <<9, 10, 19, 20, 40>>
TheProgPc == <<0, Starts["frameA"], 0, Starts["frameB"], 0>>

Program(statics, stopAddr, bss) ==
  [Prog |-> TheProg, TypeInfo |-> TheTypeInfo, GoRuntimeTypeToTypeId |-> TheGoTypes,
   SubroutineClassifier |-> [Unresolved |-> UnknownFunc, Types |-> TheSubroutines],
   PcClassifier |-> [TargetPc |-> TheTargetPc, ProgPc |-> TheProgPc],
   RuntimeConfig |-> [StopTheWorldStartAddr |-> stopAddr, StartTheWorldStartAddr |-> 9,
                      VariableRuntimeDotAllgs |-> 70, GoRuntimeBssAddress |-> bss,
                      StaticVariables |-> statics]]
ThePrograms ==
  {Program(statics, 8, 60) : statics \in TheStatics}
    \cup {Program(<<>>, 0, 60), Program(<<>>, 8, 80)}

TheCapacities == {40} \cup {56 + 24 * i : i \in 0..50}
TheHash(pcs) == FoldLeft(LAMBDA h, p : (h * 31 + p) % 10007, Len(pcs), pcs)

(* The program is balanced: where its runs lead from their entry pcs, with  *)
(* how many values on the stack, inside a subroutine or not.                *)
After(p, r) ==
  LET i == p.Prog[r[1]]
      n == r[2]
      jumps == IF i.name \in {"Jump", "CondJump"} THEN {<<i.arg.Pc, n, r[3]>>} ELSE {}
      calls == IF i.name = "Call" THEN {<<i.arg.Pc, 0, TRUE>>} ELSE {}
      stops == \/ i.name \in Leaves \/ (i.name \in NeedsTop /\ n = 0)
               \/ (i.name = "EnqueuePointer" /\ i.arg.ElemType = 0)
      change == IF i.name \in PushingOne THEN 1 ELSE IF i.name = "Pop" THEN -1 ELSE 0
  IN jumps \cup calls \cup (IF stops THEN {} ELSE {<<i.next, n + change, r[3]>>})

ReachedFrom(p, rs0, barred) ==
  LET within[k \in 0..80] ==
        IF k = 0 THEN rs0
        ELSE LET rs == within[k - 1]
             IN rs \cup UNION {After(p, r) : r \in {s \in rs : p.Prog[s[1]].name \notin barred}}
  IN within[80]

Reached(p) == ReachedFrom(p, {<<pc, 0, FALSE>> : pc \in EntryPcs(p)}, {})

Depths(p) ==
  LET rs == Reached(p) IN
  [pc \in {r[1] : r \in rs} |-> (CHOOSE r \in rs : r[1] = pc)[2]]
CalledPcs(p) == {r[1] : r \in {s \in Reached(p) : s[3]}}

(* It is prepared: the places behind a PrepareExprEval, up to a call.       *)
PreparedPcs(p) ==
  LET depths == Depths(p)
      evals == {pc \in DOMAIN depths : p.Prog[pc].name = "PrepareExprEval"}
      behind == {<<p.Prog[pc].next, depths[pc], FALSE>> : pc \in evals}
  IN {r[1] : r \in ReachedFrom(p, behind, {"Call"})}

ASSUME BalancedAssumption ==
  \A p \in ThePrograms :
    LET q == Loaded(p) IN
    /\ Balanced(q, Depths(q), CalledPcs(q))
    /\ Prepared(q, Depths(q), PreparedPcs(q))
=============================================================================
