------------------------------- MODULE OutBuf -------------------------------
(***************************************************************************)
(* The snapshot's output buffer (internal/snapshot/out_buf.go), byte for   *)
(* byte as far as offsets and lengths go, and the queue of what it is to   *)
(* hold (queue.go).  A value is kept at the offset of its first byte; the  *)
(* bytes that are not in the domain of `at' are zero or the rest of a      *)
(* value.  Bytes beyond `len' keep what was in them.                       *)
(*                                                                         *)
(* A memory says what is at each address and which ranges can be read.     *)
(***************************************************************************)
EXTENDS Integers, Sequences, FiniteSets

\* framing.go: the sizes of the records.
SnapshotHeaderSize == 56
GoroutineHeaderSize == 40
QueueEntrySize == 16
FrameHeaderSize == 8

Pad8(n) == ((n + 7) \div 8) * 8

\* intact: no entry was written without room; wild: a byte outside the buffer was.
makeOutBuf(size) ==
  [cap |-> size, len |-> 0, full |-> FALSE, at |-> <<>>, intact |-> TRUE, wild |-> FALSE]

\* The bytes from o on, n of them, become those of the sparse function f.
Overwrite(b, o, n, f) ==
  [b EXCEPT !.at = [i \in DOMAIN f \cup {j \in DOMAIN @ : j < o \/ j >= o + n} |->
                      IF i \in DOMAIN f THEN f[i] ELSE b.at[i]],
            !.wild = @ \/ (n > 0 /\ (o < 0 \/ o + n > b.cap))]

\* Values read and written through Ptr, which checks nothing.
Get(b, o) == IF o \in DOMAIN b.at THEN b.at[o] ELSE 0

Put(b, o, width, v) == Overwrite(b, o, width, IF v = 0 THEN <<>> ELSE [i \in {o} |-> v])

\* The part of the sparse function f from `from' on, moved to `to'.
Moved(f, from, to, n) ==
  [i \in {j - from + to : j \in {k \in DOMAIN f : k >= from /\ k < from + n}} |-> f[i + from - to]]

Zero(b, o, n) == IF o + n > b.cap THEN b ELSE Overwrite(b, o, n, <<>>)

\* Copy indexes the slice, so bytes beyond its length make it panic.
CopyFits(b, src, dst, n) == src + n <= b.cap /\ dst + n <= b.cap
CopyPanics(b, src, dst, n) ==
  CopyFits(b, src, dst, n) /\ n > 0 /\ (src + n > b.len \/ dst + n > b.len)

Copy(b, src, dst, n) ==
  IF CopyFits(b, src, dst, n) THEN Overwrite(b, dst, n, Moved(b.at, src, dst, n)) ELSE b

\* stoptheworld.Dereference reads all of the range or returns false.
Readable(mem, a, n) == n = 0 \/ \E r \in mem.ranges : r[1] <= a /\ a + n <= r[2]

\* Dereference, which zeroes what it could not read.
Dereference(mem, b, o, a, n) ==
  IF o + n > b.cap THEN [b |-> b, ok |-> FALSE]
  ELSE IF Readable(mem, a, n)
       THEN [b |-> Overwrite(b, o, n, Moved(mem.at, a, o, n)), ok |-> TRUE]
       ELSE [b |-> Zero(b, o, n), ok |-> FALSE]

\* Mutant: the capacity is not checked.
EnsureLenUnchecked(b, n) == IF n < b.len THEN b ELSE [b EXCEPT !.len = n]

\* The buffer is full when it cannot have the length.
EnsureLen(b, n) ==
  IF n < b.len THEN b
  ELSE IF n > b.cap THEN [b EXCEPT !.full = TRUE] ELSE [b EXCEPT !.len = n]

HasRoom(b, n) == n < b.len \/ ~(n > b.cap)

\* Mutant: room that was given back is used again.
TruncateReopening(b, n) == [b EXCEPT !.len = n, !.full = FALSE]

Truncate(b, n) == [b EXCEPT !.len = n]

-----------------------------------------------------------------------------
Entry(type, len, addr) == [type |-> type, len |-> len, addr |-> addr]

PutEntry(b, o, e) ==
  Put(Put(Put(b, o, 4, e.type), o + 4, 4, e.len), o + 8, 8, e.addr)

GetEntry(b, o) == Entry(Get(b, o), Get(b, o + 4), Get(b, o + 8))

\* GetEntryLen: of the entry just before o.
GetEntryLen(b, o) == Get(b, o - QueueEntrySize + 4)

\* Type |= 1 << 31, in the 32 bits of an integer.
Marked(type) == IF type < 0 THEN type ELSE type + (-2147483647 - 1)

\* reserveQueueEntry: the header is written, room for the data is made.
reserveQueueEntry(b, e) ==
  LET newLen == b.len + Pad8(e.len) + QueueEntrySize IN
  IF HasRoom(b, newLen)
  THEN [b |-> PutEntry(EnsureLen(b, newLen), b.len, e), offset |-> b.len + QueueEntrySize,
        ok |-> TRUE]
  ELSE [b |-> EnsureLen(b, newLen), offset |-> 0, ok |-> FALSE]

\* Mutant: an entry of memory that cannot be read is removed, its mark is not.
writeQueueEntryUnmarked(mem, b, e) ==
  LET r == reserveQueueEntry(b, e)
      d == Dereference(mem, r.b, r.offset, e.addr, e.len)
  IN [b |-> IF d.ok THEN d.b ELSE Truncate(d.b, b.len), offset |-> r.offset, ok |-> d.ok]

\* writeQueueEntry: the data is dereferenced although there may be no room for it, at
\* offset 0 then; the entry of unreadable memory stays, with a mark.
Filled(mem, r, e) ==
  LET d == Dereference(mem, [r.b EXCEPT !.intact = @ /\ r.ok], r.offset, e.addr, e.len)
      header == r.offset - QueueEntrySize
  IN IF d.ok THEN [b |-> d.b, offset |-> r.offset, ok |-> TRUE]
     ELSE [b |-> Put(d.b, header, 4, Marked(Get(d.b, header))), offset |-> 0, ok |-> FALSE]

writeQueueEntry(mem, b, e) == Filled(mem, reserveQueueEntry(b, e), e)

\* PrepareFrameData: frame header, entry and, after the data, two numbers.
FrameSize(dataLen) == FrameHeaderSize + QueueEntrySize + Pad8(dataLen) + 8

PrepareFrameData(b, typeID, progID, dataLen, depth) ==
  LET entry == b.len + FrameHeaderSize
      data == entry + QueueEntrySize
      grown == [b EXCEPT !.len = @ + FrameSize(dataLen)]
      framed == PutEntry(Put(Put(grown, b.len, 4, entry), b.len + 4, 4, 0), entry,
                         Entry(typeID, dataLen + 8, 0))
  IN IF b.len + FrameSize(dataLen) > b.cap
     THEN [b |-> [b EXCEPT !.full = TRUE], offset |-> 0, ok |-> FALSE]
     ELSE [b |-> Put(Put(framed, data + dataLen, 4, progID), data + dataLen + 4, 4, depth),
           offset |-> data, ok |-> TRUE]

\* ConcludeFrameData: the length from the entry on, which until now was its offset.
ConcludeFrameData(b, frame) == Put(b, frame, 4, b.len - Get(b, frame))

writeStack(b, pcs) ==
  LET grown == EnsureLen(b, b.len + 8 * Len(pcs)) IN
  IF grown.full THEN grown
  ELSE Overwrite(grown, b.len, 8 * Len(pcs),
                 [o \in {b.len + 8 * (i - 1) : i \in 1..Len(pcs)} |-> pcs[(o - b.len) \div 8 + 1]])

-----------------------------------------------------------------------------
makeQueue == [seen |-> {}, q |-> <<>>]

\* ShouldRecord, which remembers what it is asked; the length does not count.
ShouldRecord(qu, a, t) == a # 0 /\ <<a, t>> \notin qu.seen

\* Mutant: what was asked is not remembered.
RecordedNot(qu, a, t) == qu

Recorded(qu, a, t) == [qu EXCEPT !.seen = @ \cup {<<a, t>>}]

Push(qu, a, t, len) ==
  IF ShouldRecord(qu, a, t)
  THEN [Recorded(qu, a, t) EXCEPT !.q = Append(@, Entry(t, len, a))] ELSE qu
=============================================================================
