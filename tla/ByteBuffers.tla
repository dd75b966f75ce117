---------------------------- MODULE ByteBuffers ----------------------------
(***************************************************************************)
(* The byte buffers: in memory, over a file, and appended ones, which are  *)
(* made of other buffers and share them.  A buffer is an object on `heap`; *)
(* an operation is a function of the heap that gives an outcome, which is  *)
(* the heap it leaves, what it raises ("none" if it returns) and what it   *)
(* returns.  A file also has a position of its own, which operations move  *)
(* even when they fail.                                                    *)
(***************************************************************************)
EXTENDS Integers, Sequences, FiniteSets, SequencesExt

CONSTANTS
  Buffers,     \* objects, 1 .. n
  Byte,        \* values of a byte
  NewLine,     \* the bytes that end a line
  Threshold,   \* below it two buffers are joined by writing
  Start,       \* what the first memory buffer and the first file hold
  Data,        \* what the application writes
  MaxLength,   \* bound: bytes of a buffer
  MaxCalls     \* bound: calls of the application

ASSUME BufferAssumption ==
  /\ Buffers = 1 .. Cardinality(Buffers)
  /\ NewLine \in Seq(Byte) \ {<<>>}
  /\ 0 \in Byte
  /\ Start \in Seq(Byte) \X Seq(Byte) /\ Data \subseteq Seq(Byte)
  /\ Threshold \in Nat /\ MaxLength \in Nat /\ MaxCalls \in Nat

VARIABLES
  heap,   \* the objects
  calls   \* calls so far

vars == <<heap, calls>>

Free == [kind |-> "free", bytes |-> <<>>, parts |-> <<>>, pos |-> 0, writable |-> FALSE,
         pointer |-> 0, destroyed |-> FALSE]
MemoryByteBuffer(data) == [Free EXCEPT !.kind = "memory", !.bytes = data]
FileByteBuffer(data, w) ==
  [Free EXCEPT !.kind = "file", !.bytes = data, !.writable = w]
AppendedByteBuffer(records) == [Free EXCEPT !.kind = "appended", !.parts = records]

Init == \E w \in BOOLEAN :
  /\ heap = [b \in Buffers |-> CASE b = 1 -> MemoryByteBuffer(Start[1])
                                 [] b = 2 -> FileByteBuffer(Start[2], w)
                                 [] OTHER -> Free]
  /\ calls = 0
-----------------------------------------------------------------------------
(* Outcomes *)

Done(h, v) == [heap |-> h, raises |-> "none", value |-> v]
Raise(h, e) == [heap |-> h, raises |-> e, value |-> <<>>]
Unsupported(h) == Raise(h, "UnsupportedOperation")
Then(o, Continue(_, _)) == IF o.raises = "none" THEN Continue(o.heap, o.value) ELSE o

\* Every method calls assertNotDestroyed first.
Live(h, b, o) == IF h[b].destroyed THEN Unsupported(h) ELSE o

Allocate(h, record) ==
  LET unused == {b \in Buffers : h[b].kind = "free"}
      b == CHOOSE b \in unused : \A c \in unused : b <= c
  IN IF unused = {} THEN Raise(h, "NoRoom") ELSE Done([h EXCEPT ![b] = record], b)

_syncPointer(h, b, p) == [h EXCEPT ![b].pos = IF p = -1 THEN Len(h[b].bytes) ELSE p]
Advance(h, b, n) == [h EXCEPT ![b].pointer = @ + n]
Slice(s, from, n) == SubSeq(s, from + 1, from + n)

RECURSIVE fullLength(_, _)

\* As if only a loss of bytes were noticed.
Shrunk(n, length) == n < length

Resized(n, length) == n # length

\* The loop `for buffer in __iterate_buffers()`: Body may ask to leave it.
ForEachPart(h, b, first, Body(_, _, _)) ==
  FoldLeft(LAMBDA o, record :
             Then(o, LAMBDA g, acc :
               IF acc.stop THEN o
               ELSE Then(fullLength(g, record.buffer), LAMBDA k, n :
                      IF Resized(n, record.length) THEN Raise(k, "IllegalManipulationError")
                      ELSE Body(k, acc, record.buffer))),
           Done(h, first), h[b].parts)

AppendedFullLength(h, b) ==
  Then(ForEachPart(h, b, [length |-> 0, stop |-> FALSE], LAMBDA g, acc, c :
         Then(fullLength(g, c), LAMBDA k, n : Done(k, [acc EXCEPT !.length = @ + n]))),
       LAMBDA g, acc : Done(g, acc.length))

fullLength(h, b) ==
  Live(h, b, CASE h[b].kind = "memory"   -> Done(h, Len(h[b].bytes))
               [] h[b].kind = "file"     -> Done(_syncPointer(h, b, -1), Len(h[b].bytes))
               [] h[b].kind = "appended" -> AppendedFullLength(h, b))

leftLength(h, b) == Then(fullLength(h, b), LAMBDA g, n : Done(g, n - g[b].pointer))

assertHas(h, b, n) ==
  IF n = 0 THEN Raise(h, "ValueError")
  ELSE Then(leftLength(h, b), LAMBDA g, left :
         IF n < 0 /\ -n > g[b].pointer THEN Raise(g, "OutOfBoundsUndoError")
         ELSE IF left < n THEN Raise(g, "OutOfBoundsReadError")
         ELSE Done(g, left))

skip(h, b, n) == Then(assertHas(h, b, n), LAMBDA g, left : Done(Advance(g, b, n), <<>>))
back(h, b, n) == Then(assertHas(h, b, -n), LAMBDA g, left : Done(Advance(g, b, -n), <<>>))

resetPointer(h, b) ==
  Live(h, b, LET g == [h EXCEPT ![b].pointer = 0]
             IN Done(IF h[b].kind = "file" THEN _syncPointer(g, b, 0) ELSE g, <<>>))
-----------------------------------------------------------------------------
(* Reading *)

MemoryRead(h, b, n) ==
  Then(assertHas(h, b, n), LAMBDA g, left :
    Done(Advance(g, b, n), Slice(g[b].bytes, g[b].pointer, n)))

\* BinaryIO.read(n) at the position p, which it moves behind what it read.
_readInnerWithoutPointer(h, b, p, n) ==
  LET g    == _syncPointer(h, b, p)
      left == Len(g[b].bytes) - g[b].pos
      got  == IF left < 0 THEN 0 ELSE IF n < left THEN n ELSE left
      k    == [g EXCEPT ![b].pos = @ + got]
  IN IF got < n THEN Raise(k, "OutOfBoundsReadError")
     ELSE Done(k, Slice(g[b].bytes, g[b].pos, n))

_readInner(h, b, n) ==
  Then(assertHas(h, b, n), LAMBDA g, left :
    Then(_readInnerWithoutPointer(g, b, g[b].pointer, n), LAMBDA k, data :
      Done(Advance(k, b, n), data)))

RECURSIVE read(_, _, _), readByte(_, _), readLastByte(_, _), export(_, _)

\* As if a part were read on from where it was left.
GoOn(h, c, rel) == IF rel > 0 THEN skip(h, c, rel) ELSE Done(h, <<>>)

\* The pointers of the parts belong to the appended buffer: they are set
\* before each use.
GoTo(h, c, rel) ==
  Then(resetPointer(h, c), LAMBDA g, x : IF rel > 0 THEN skip(g, c, rel) ELSE Done(g, x))

AppendedReadByte(h, b) ==
  Then(assertHas(h, b, 1), LAMBDA g, left :
    Then(ForEachPart(g, b, [start |-> 0, buffer |-> 0, stop |-> FALSE], LAMBDA k, acc, c :
           Then(fullLength(k, c), LAMBDA l, n :
             IF g[b].pointer - acc.start \in 0 .. n - 1
             THEN Done(l, [acc EXCEPT !.buffer = c, !.stop = TRUE])
             ELSE Done(l, [acc EXCEPT !.buffer = c, !.start = @ + n]))),
         LAMBDA k, acc :
           Then(GoTo(k, acc.buffer, k[b].pointer - acc.start), LAMBDA l, x :
             readByte(Advance(l, b, 1), acc.buffer))))

AppendedRead(h, b, amount) ==
  Then(assertHas(h, b, amount), LAMBDA g, left :
    LET from == g[b].pointer
    IN Then(ForEachPart(Advance(g, b, amount), b,
              [start |-> 0, got |-> <<>>, stop |-> FALSE], LAMBDA k, acc, c :
                Then(fullLength(k, c), LAMBDA l, n :
                  LET rel     == IF from > acc.start THEN from - acc.start ELSE 0
                      needed  == amount - Len(acc.got)
                      current == IF n - rel < needed THEN n - rel ELSE needed
                  IN IF from > acc.start + n THEN Done(l, [acc EXCEPT !.start = @ + n])
                     ELSE Then(GoTo(l, c, rel), LAMBDA p, x :
                            Then(read(p, c, current), LAMBDA q, data :
                              Done(q, [start |-> acc.start + n, got |-> acc.got \o data,
                                       stop |-> current = needed]))))),
            LAMBDA k, acc : IF Len(acc.got) = amount THEN Done(k, acc.got)
                            ELSE Raise(k, "AssertionError")))

read(h, b, n) ==
  Live(h, b, IF n = 0 THEN Done(h, <<>>)
             ELSE CASE h[b].kind = "memory"   -> MemoryRead(h, b, n)
                    [] h[b].kind = "file"     -> _readInner(h, b, n)
                    [] h[b].kind = "appended" -> AppendedRead(h, b, n))

readByte(h, b) ==
  Live(h, b, CASE h[b].kind = "memory"   -> MemoryRead(h, b, 1)
               [] h[b].kind = "file"     -> _readInner(h, b, 1)
               [] h[b].kind = "appended" -> AppendedReadByte(h, b))

\* The last part and its number, or 0 and 0.
LastPart(h, b) ==
  ForEachPart(h, b, [buffer |-> 0, number |-> 0, stop |-> FALSE], LAMBDA g, acc, c :
    Done(g, [acc EXCEPT !.buffer = c, !.number = @ + 1]))

AppendedReadLastByte(h, b) ==
  Then(LastPart(h, b), LAMBDA g, last :
    IF last.buffer = 0 THEN Raise(g, "AssertionError") ELSE readLastByte(g, last.buffer))

\* With its position at the end, a file has no byte left to read.
readLastByte(h, b) ==
  Live(h, b, CASE h[b].kind = "memory" ->
                    IF h[b].bytes = <<>> THEN Raise(h, "AssertionError")
                    ELSE Done(h, <<h[b].bytes[Len(h[b].bytes)]>>)
               [] h[b].kind = "file"     -> _readInnerWithoutPointer(h, b, -1, 1)
               [] h[b].kind = "appended" -> AppendedReadLastByte(h, b))

MemoryReadRest(h, b) ==
  Then(leftLength(h, b), LAMBDA g, left :
    Done(Advance(g, b, left), Slice(g[b].bytes, g[b].pointer, left)))

\* Read until the end of the file, which is where its position stays.
FileReadRest(h, b) ==
  Then(leftLength(h, b), LAMBDA g, left :
    LET k == _syncPointer(g, b, IF left > 0 THEN g[b].pointer ELSE -1)
    IN Done(Advance(_syncPointer(k, b, -1), b, left), Slice(k[b].bytes, k[b].pos, left)))

readRest(h, b) ==
  Live(h, b, CASE h[b].kind = "memory"   -> MemoryReadRest(h, b)
               [] h[b].kind = "file"     -> FileReadRest(h, b)
               [] h[b].kind = "appended" -> Unsupported(h))

\* Where seq begins, counted from the pointer.
Found(h, b, seq, left) ==
  {i \in 0 .. left - Len(seq) : Slice(h[b].bytes, h[b].pointer + i, Len(seq)) = seq}
First(places) == CHOOSE i \in places : \A j \in places : i <= j

MemoryIndex(h, b, seq) ==
  Then(assertHas(h, b, Len(seq)), LAMBDA g, left :
    LET places == Found(g, b, seq, left)
    IN IF places = {} THEN Raise(g, "IndexError") ELSE Done(g, First(places)))

\* The file is read piece by piece, which moves its position.
FileIndex(h, b, seq) ==
  Then(assertHas(h, b, Len(seq)), LAMBDA g, left :
    LET places == Found(g, b, seq, left)
        Behind(i) == _syncPointer(g, b, g[b].pointer + i + Len(seq))
    IN IF places = {} THEN Raise(Behind(left - Len(seq)), "IndexError")
       ELSE Done(Behind(First(places)), First(places)))

index(h, b, seq) ==
  Live(h, b, CASE h[b].kind = "memory"   -> MemoryIndex(h, b, seq)
               [] h[b].kind = "file"     -> FileIndex(h, b, seq)
               [] h[b].kind = "appended" -> Unsupported(h))

readLine(h, b) ==
  Then(index(h, b, NewLine), LAMBDA g, amount :
    Then(read(g, b, amount), LAMBDA k, data :
      Then(skip(k, b, Len(NewLine)), LAMBDA l, x : Done(l, data))))

\* One step of the generator batched(maxBatchSize).
batched(h, b, maxBatchSize) ==
  Then(leftLength(h, b), LAMBDA g, left :
    read(g, b, IF left < maxBatchSize THEN left ELSE maxBatchSize))

FileExport(h, b) ==
  Then(fullLength(h, b), LAMBDA g, n : _readInnerWithoutPointer(g, b, 0, n))

AppendedExport(h, b) ==
  Then(ForEachPart(h, b, [got |-> <<>>, stop |-> FALSE], LAMBDA g, acc, c :
         Then(export(g, c), LAMBDA k, data : Done(k, [acc EXCEPT !.got = @ \o data]))),
       LAMBDA g, acc : Done(g, acc.got))

export(h, b) ==
  Live(h, b, CASE h[b].kind = "memory"   -> Done(h, h[b].bytes)
               [] h[b].kind = "file"     -> FileExport(h, b)
               [] h[b].kind = "appended" -> AppendedExport(h, b))
-----------------------------------------------------------------------------
(* Writing *)

Spliced(s, data, i) ==
  LET at == IF i < Len(s) THEN i ELSE Len(s)
  IN SubSeq(s, 1, at) \o data \o SubSeq(s, at + 1, Len(s))

MemoryWrite(h, b, data, i) ==
  Done([h EXCEPT ![b].bytes = IF i = -1 THEN @ \o data ELSE Spliced(@, data, i)], <<>>)

\* BinaryIO.write(data) at the position of the file; a gap is filled with 0.
PutInFile(h, b, data) ==
  LET s == h[b].bytes
      p == h[b].pos
      Before == [k \in 1 .. p |-> IF k <= Len(s) THEN s[k] ELSE 0]
  IN IF ~h[b].writable THEN Unsupported(h)
     ELSE Done([h EXCEPT
            ![b].bytes = Before \o data \o SubSeq(s, p + Len(data) + 1, Len(s)),
            ![b].pos = p + Len(data)], <<>>)

\* The check of the length of the file moves the position to its end, so
\* that what is read as the data behind i is empty.
_writeInternal(h, b, data, i) ==
  Live(h, b, PutInFile(_syncPointer(h, b, i), b, data))

AppendedWrite(h, b, data, i) ==
  IF i # -1 THEN Unsupported(h)
  ELSE Then(LastPart(h, b), LAMBDA g, last :
    IF last.buffer # 0 /\ g[last.buffer].kind = "memory"
    THEN Then(MemoryWrite(g, last.buffer, data, -1), LAMBDA k, x :
           Done([k EXCEPT ![b].parts[last.number].length = Len(k[last.buffer].bytes)], x))
    ELSE Then(Allocate(g, MemoryByteBuffer(data)), LAMBDA k, c :
           Done([k EXCEPT ![b].parts = Append(@, [buffer |-> c, length |-> Len(data)])], <<>>)))

write(h, b, data, i) ==
  Live(h, b, CASE h[b].kind = "memory"   -> MemoryWrite(h, b, data, i)
               [] h[b].kind = "file"     -> _writeInternal(h, b, data, i)
               [] h[b].kind = "appended" -> AppendedWrite(h, b, data, i))

\* bytearray.extend asks the buffer for its length, which is what is left
\* of it, and loses the first byte if that is 0 and there is one: x is what
\* is there instead.
Extend(h, b, c, x) ==
  Then(leftLength(h, c), LAMBDA g, left : Then(export(g, c), LAMBDA k, data :
    MemoryWrite(k, b, IF left = 0 /\ data # <<>> THEN [data EXCEPT ![1] = x] ELSE data, -1)))

FileTake(h, b, c) == Then(export(h, c), LAMBDA g, data : _writeInternal(g, b, data, -1))

AppendedTake(h, b, c) ==
  Then(fullLength(h, c), LAMBDA g, n :
    Done([g EXCEPT ![b].parts = Append(@, [buffer |-> c, length |-> n])], <<>>))

\* write(buffer): all its bytes, whatever its pointer; an appended buffer
\* takes the buffer itself.
writeBuffer(h, b, c, x) ==
  Live(h, b, CASE h[b].kind = "memory"   -> Extend(h, b, c, x)
               [] h[b].kind = "file"     -> FileTake(h, b, c)
               [] h[b].kind = "appended" -> AppendedTake(h, b, c))

MemoryReset(h, b, data) == Done([h EXCEPT ![b].pointer = 0, ![b].bytes = data], <<>>)

\* truncate(0) of a file that is only read raises, behind resetPointer.
FileReset(h, b, data) ==
  Then(resetPointer(h, b), LAMBDA g, x :
    IF ~g[b].writable THEN Unsupported(g)
    ELSE _writeInternal([g EXCEPT ![b].bytes = <<>>], b, data, -1))

reset(h, b, data) ==
  Live(h, b, CASE h[b].kind = "memory"   -> MemoryReset(h, b, data)
               [] h[b].kind = "file"     -> FileReset(h, b, data)
               [] h[b].kind = "appended" -> Unsupported(h))

\* As if what is left over behind the moved bytes stayed.
FileRestUncut(h, b) ==
  Then(leftLength(h, b), LAMBDA g, left :
    Then(_readInnerWithoutPointer(g, b, g[b].pointer, left), LAMBDA k, rest :
      Then(PutInFile(_syncPointer(k, b, 0), b, rest), LAMBDA l, x : resetPointer(l, b))))

FileResetBeforePointer(h, b) ==
  Then(leftLength(h, b), LAMBDA g, left :
    Then(_readInnerWithoutPointer(g, b, g[b].pointer, left), LAMBDA k, rest :
      Then(PutInFile(_syncPointer(k, b, 0), b, rest), LAMBDA l, x :
        resetPointer([l EXCEPT ![b].bytes = SubSeq(@, 1, left)], b))))

MemoryResetBeforePointer(h, b) ==
  Done([h EXCEPT ![b].bytes = SubSeq(@, h[b].pointer + 1, Len(@)), ![b].pointer = 0], <<>>)

resetBeforePointer(h, b) ==
  Live(h, b, CASE h[b].kind = "memory"   -> MemoryResetBeforePointer(h, b)
               [] h[b].kind = "file"     -> FileResetBeforePointer(h, b)
               [] h[b].kind = "appended" -> Unsupported(h))
-----------------------------------------------------------------------------
(* Whole buffers *)

RECURSIVE copy(_, _), destroy(_, _)

copyInto(h, b) ==
  Then(Allocate(_syncPointer(h, b, -1), FileByteBuffer(h[b].bytes, TRUE)), LAMBDA g, c :
    Done([_syncPointer(g, c, -1) EXCEPT ![c].pointer = g[b].pointer], c))

Records(h, cs) == [i \in DOMAIN cs |-> [buffer |-> cs[i], length |-> fullLength(h, cs[i]).value]]

\* Only the last part is copied, the others are shared.
AppendedCopy(h, b) ==
  Then(ForEachPart(h, b, [buffers |-> <<>>, stop |-> FALSE], LAMBDA g, acc, c :
         Done(g, [acc EXCEPT !.buffers = Append(@, c)])),
       LAMBDA g, acc :
         Then(IF acc.buffers = <<>> THEN Done(g, 0) ELSE copy(g, Last(acc.buffers)), LAMBDA k, c :
           LET cs == IF c = 0 THEN <<>> ELSE Append(Front(acc.buffers), c)
           IN Allocate(k, [AppendedByteBuffer(Records(k, cs)) EXCEPT !.pointer = k[b].pointer])))

copy(h, b) ==
  Live(h, b, CASE h[b].kind = "memory" ->
                    Allocate(h, [MemoryByteBuffer(h[b].bytes) EXCEPT !.pointer = h[b].pointer])
               [] h[b].kind = "file"     -> copyInto(h, b)
               [] h[b].kind = "appended" -> AppendedCopy(h, b))

\* The parts of an appended buffer are destroyed with it.
destroy(h, b) ==
  IF h[b].destroyed THEN Done(h, <<>>)
  ELSE FoldLeft(LAMBDA o, record : destroy(o.heap, record.buffer),
                Done([h EXCEPT ![b].destroyed = TRUE, ![b].bytes = <<>>, ![b].parts = <<>>], <<>>),
                h[b].parts)

\* AppendedByteBuffer(buffers)
appendAll(h, cs) ==
  Then(FoldLeft(LAMBDA o, c : Then(o, LAMBDA g, x : fullLength(g, c)), Done(h, 0), cs),
       LAMBDA g, n : Allocate(g, AppendedByteBuffer(Records(g, cs))))

\* ByteBuffer.appended([b, c], Threshold, extend)
appended(h, b, c, extend) ==
  LET WriteInto(g) == Then(export(g, c), LAMBDA k, data :
                        Then(write(k, b, data, -1), LAMBDA l, x : Done(l, b)))
  IN Then(fullLength(h, b), LAMBDA g, n : Then(fullLength(g, c), LAMBDA k, m :
       IF n + m < Threshold THEN WriteInto(k)
       ELSE IF extend /\ k[b].kind = "appended"
            THEN Then(writeBuffer(k, b, c, 0), LAMBDA l, x : Done(l, b))
       ELSE IF k[b].kind = "file" /\ k[b].writable THEN WriteInto(k)
       ELSE appendAll(k, <<b, c>>)))
-----------------------------------------------------------------------------
(* The application *)

RECURSIVE PartsOf(_, _)
PartsOf(h, b) == {b} \cup UNION {PartsOf(h, h[b].parts[i].buffer) : i \in DOMAIN h[b].parts}

Known(h) == {b \in Buffers : h[b].kind # "free"}
Lent(h) == UNION {PartsOf(h, b) \ {b} : b \in Known(h)}
Own == Known(heap) \ Lent(heap)

Bounded(h) == \A b \in Known(h) : Len(h[b].bytes) <= MaxLength /\ Len(h[b].parts) <= 2

\* The application calls an operation; it gets its outcome.
Call(o) ==
  /\ calls < MaxCalls
  /\ o.raises # "NoRoom" /\ Bounded(o.heap)
  /\ heap' = o.heap
  /\ calls' = calls + 1

Read(b) == \E n \in 0 .. MaxLength : Call(read(heap, b, n))
ReadByte(b) == Call(readByte(heap, b))
ReadLastByte(b) == Call(readLastByte(heap, b))
ReadRest(b) == Call(readRest(heap, b))
ReadLine(b) == Call(readLine(heap, b))
Batch(b) == Call(batched(heap, b, 2))
Skip(b) == \E n \in 1 .. MaxLength : Call(skip(heap, b, n))
Back(b) == \E n \in 1 .. MaxLength : Call(back(heap, b, n))
ResetPointer(b) == Call(resetPointer(heap, b))
Export(b) == Call(export(heap, b))

\* The buffers an appended buffer was made of must not be written to by
\* others; growing one all the same is noticed.
Write(b) == \E data \in Data, i \in -1 .. 2 : (b \in Lent(heap) => i = -1) /\ Call(write(heap, b, data, i))
WriteBuffer(b) == \E c \in Own \ PartsOf(heap, b), x \in Byte :
  b \in Own /\ Call(writeBuffer(heap, b, c, x))
Reset(b) == \E data \in Data \cup {<<>>} : b \in Own /\ Call(reset(heap, b, data))
ResetBeforePointer(b) == b \in Own /\ Call(resetBeforePointer(heap, b))
Copy(b) == Call(copy(heap, b))
Destroy(b) == Call(destroy(heap, b))
AppendBuffers(b) == \E c \in Own \ {b} : b \in Own /\ Call(appendAll(heap, <<b, c>>))
Join(b) == \E c \in Own \ {b}, extend \in BOOLEAN : b \in Own /\ Call(appended(heap, b, c, extend))

Next == \E b \in Known(heap) :
  \/ Read(b) \/ ReadByte(b) \/ ReadLastByte(b) \/ ReadRest(b) \/ ReadLine(b) \/ Batch(b)
  \/ Skip(b) \/ Back(b) \/ ResetPointer(b) \/ Export(b)
  \/ Write(b) \/ WriteBuffer(b) \/ Reset(b) \/ ResetBeforePointer(b)
  \/ Copy(b) \/ Destroy(b) \/ AppendBuffers(b) \/ Join(b)

Spec == Init /\ [][Next]_vars
-----------------------------------------------------------------------------
(* Properties *)

S == INSTANCE ByteSequence

RECURSIVE Usable(_, _), Content(_, _)
\* Neither it nor a part of it was destroyed or resized behind its back.
Usable(h, b) ==
  /\ ~h[b].destroyed
  /\ \A i \in DOMAIN h[b].parts :
       LET c == h[b].parts[i] IN Usable(h, c.buffer) /\ Len(Content(h, c.buffer)) = c.length
Content(h, b) ==
  IF h[b].kind = "appended"
  THEN FoldLeft(LAMBDA s, c : s \o Content(h, c.buffer), <<>>, h[b].parts)
  ELSE h[b].bytes
View(h, b) == [bytes |-> Content(h, b), pointer |-> h[b].pointer]

InUse == {b \in Known(heap) : Usable(heap, b)}
Gives(o, b, view, value) == o.raises = "none" /\ View(o.heap, b) = view /\ o.value = value
Changes(o, b, view) == o.raises = "none" /\ View(o.heap, b) = view
Refuses(o, b, errors) == o.raises \in errors /\ View(o.heap, b) = View(heap, b)
OutOfBounds == {"OutOfBoundsReadError", "OutOfBoundsUndoError"}
ReadsLastByte(b) ==
  LET v == View(heap, b) IN Gives(readLastByte(heap, b), b, v, <<v.bytes[Len(v.bytes)]>>)

\* The pointer stays inside a buffer that is in use, whatever is called in
\* whatever order, and parts are buffers that exist.
TypeOK ==
  \A b \in Known(heap) :
    /\ heap[b].bytes \in Seq(Byte) /\ heap[b].pos \in Nat
    /\ \A i \in DOMAIN heap[b].parts : heap[b].parts[i].buffer \in Known(heap) \ {b}
    /\ b \in InUse => heap[b].pointer \in 0 .. Len(Content(heap, b))

\* Every kind of buffer, wherever the position of a file or the pointers of
\* parts were left, reads like one sequence: bytes, lines and batches come
\* in order, the pointer moves behind them, and what is not there is refused
\* without a change (ByteBuffer.read, readLine, readRest, batched, skip, back).
\* readLastByte does so on a memory buffer only, see LastByteIsRead.
ReadsLikeASequence ==
  \A b \in InUse :
    LET v == View(heap, b)
        Reads(o, n) == IF S!Has(v, n) THEN Gives(o, b, S!Move(v, n), S!Ahead(v, n))
                       ELSE Refuses(o, b, OutOfBounds)
    IN /\ \A n \in 0 .. MaxLength + 1 : Reads(read(heap, b, n), n)
       /\ Reads(readByte(heap, b), 1)
       /\ LET n == IF S!Left(v) < 2 THEN S!Left(v) ELSE 2 IN Reads(batched(heap, b, 2), n)
       /\ Gives(export(heap, b), b, v, v.bytes)
       /\ heap[b].kind = "memory" /\ v.bytes # <<>> => ReadsLastByte(b)
       /\ \A n \in 1 .. MaxLength + 1 :
            /\ IF S!Has(v, n) THEN Changes(skip(heap, b, n), b, S!Move(v, n))
               ELSE Refuses(skip(heap, b, n), b, OutOfBounds)
            /\ IF S!Has(v, -n) THEN Changes(back(heap, b, n), b, S!Move(v, -n))
               ELSE Refuses(back(heap, b, n), b, OutOfBounds)
       /\ heap[b].kind # "appended" =>
            /\ Reads(readRest(heap, b), S!Left(v))
            /\ LET o == readLine(heap, b)
               IN IF S!Places(v, NewLine) = {} THEN Refuses(o, b, OutOfBounds \cup {"IndexError"})
                  ELSE \E i \in S!Places(v, NewLine) :
                         /\ S!IsFirst(i, v, NewLine)
                         /\ Gives(o, b, S!Move(v, i + Len(NewLine)), S!Ahead(v, i))

\* Writing at the end, resetting and dropping what was read do the same to
\* every kind of buffer that supports them, at any pointer and position; a
\* refused call changes no byte (write, reset, resetBeforePointer).  A memory
\* buffer takes another one whole only if not all of that was read.
WritesLikeASequence ==
  \A b \in InUse \ Lent(heap) :
    LET v == View(heap, b)
        Effect(o, view) ==
          \/ o.raises = "NoRoom"
          \/ IF heap[b].kind = "file" /\ ~heap[b].writable
             THEN o.raises = "UnsupportedOperation" /\ Content(o.heap, b) = v.bytes
             ELSE Changes(o, b, view)
    IN /\ \A data \in Data : Effect(write(heap, b, data, -1), S!Appended(v, data))
       /\ \A c \in InUse \ PartsOf(heap, b) :
            (heap[b].kind = "memory" => S!Left(View(heap, c)) > 0) =>
              Effect(writeBuffer(heap, b, c, 0), S!Appended(v, Content(heap, c)))
       /\ heap[b].kind # "appended" =>
            /\ \A data \in Data : Effect(reset(heap, b, data), S!Replaced(data))
            /\ Effect(resetBeforePointer(heap, b), S!Rest(v))
       /\ heap[b].kind = "memory" =>
            \A x, y \in Byte, i \in 0 .. 2 :
              Effect(write(heap, b, <<x, y>>, i), S!Inserted(v, <<x, y>>, i))

\* When a part was resized or destroyed by somebody else, an appended buffer
\* raises instead of returning the wrong bytes (AppendedByteBuffer).
ResizeIsNoticed ==
  \A b \in Known(heap) \ InUse :
    {read(heap, b, 1).raises, readByte(heap, b).raises, export(heap, b).raises,
     fullLength(heap, b).raises, copy(heap, b).raises, write(heap, b, <<0>>, -1).raises}
      \subseteq {"IllegalManipulationError", "UnsupportedOperation"}

\* "Reads the last byte from the buffer, without modifying the pointer"
\* (ByteBuffer.py:94).  Not kept: a file is asked for the byte behind its end
\* (FileByteBuffer.py:49), and an appended buffer asks its last part, which may
\* be empty.
LastByteIsRead ==
  \A b \in InUse : View(heap, b).bytes # <<>> => ReadsLastByte(b)

\* "Makes sure to insert the data instead of overwriting it"
\* (FileByteBuffer._writeInternal).  Not kept: in the middle of a file it
\* overwrites.
InsertsInstead ==
  \A b \in InUse, x \in Byte :
    heap[b].kind = "file" /\ heap[b].writable =>
      \A i \in 0 .. Len(heap[b].bytes) :
        Changes(write(heap, b, <<x>>, i), b, S!Inserted(View(heap, b), <<x>>, i))
=============================================================================
