----------------------------- MODULE InputStream -----------------------------
(* The default bulk operations of src/src/libcore/src/ccm/io/InputStream.cpp, *)
(* built on the one-byte Read(&c) a subclass provides.  The subclass is a   *)
(* sequence of outcomes, one per call: a byte value 0..255, -1 for end of   *)
(* stream, or ReadFailed for a call that returns a failing ECode.  Past the *)
(* end of the sequence every call returns -1.  A buffer is a function from *)
(* 0..length-1 to Bytes.                                                    *)
EXTENDS Integers, Sequences, FiniteSets

NOERROR == "NOERROR"
IndexOutOfBounds == "E_INDEX_OUT_OF_BOUNDS_EXCEPTION"
IoFailure == "E_IO_EXCEPTION"    \* what a failing Read(&c) returns
ReadFailed == -2

\* Read(&c) at position pos of the stream.
ReadOne(stream, pos) == IF pos > Len(stream) THEN -1 ELSE stream[pos]

\* (Byte)c: the low eight bits, as a signed Byte.
ToByte(c) == IF (c % 256) > 127 THEN (c % 256) - 256 ELSE c % 256

BufferLength(buffer) == Cardinality(DOMAIN buffer)

\* The loop of Read(buffer, offset, size) from i: it stops at size, at -1
\* and at a failing read (whose ECode it drops).
RECURSIVE ReadLoop(_, _, _, _, _, _)

\* A plausible fault: the loop runs while i <= size.
ReadLoopInclusive(buffer, offset, size, i, stream, pos) ==
    IF i > size THEN [ec |-> NOERROR, number |-> i, buffer |-> buffer, pos |-> pos]
    ELSE LET c == ReadOne(stream, pos) IN
         IF c = ReadFailed \/ c = -1
         THEN [ec |-> NOERROR, number |-> i, buffer |-> buffer, pos |-> pos + 1]
         ELSE ReadLoop([buffer EXCEPT ![offset + i] = ToByte(c)], offset, size, i + 1,
                       stream, pos + 1)

ReadLoop(buffer, offset, size, i, stream, pos) ==
    IF i >= size THEN [ec |-> NOERROR, number |-> i, buffer |-> buffer, pos |-> pos]
    ELSE LET c == ReadOne(stream, pos) IN
         IF c = ReadFailed \/ c = -1
         THEN [ec |-> NOERROR, number |-> i, buffer |-> buffer, pos |-> pos + 1]
         ELSE ReadLoop([buffer EXCEPT ![offset + i] = ToByte(c)], offset, size, i + 1,
                       stream, pos + 1)

\* Read(buffer, offset, size, &number): the bounds check, then the first
\* byte, whose failure is returned, then the loop.
Read(buffer, offset, size, stream, pos) ==
    LET c == ReadOne(stream, pos)
        unchanged(ec, n) == [ec |-> ec, number |-> n, buffer |-> buffer, pos |-> pos]
    IN CASE offset < 0 \/ size < 0 \/ size > BufferLength(buffer) - offset ->
              unchanged(IndexOutOfBounds, 0)
         [] size = 0 -> unchanged(NOERROR, 0)
         [] c = ReadFailed -> [unchanged(IoFailure, 0) EXCEPT !.pos = pos + 1]
         [] c = -1 -> [unchanged(NOERROR, -1) EXCEPT !.pos = pos + 1]
         [] OTHER -> ReadLoop([buffer EXCEPT ![offset] = ToByte(c)], offset, size, 1,
                              stream, pos + 1)

\* Read(buffer, &number): the whole buffer from offset 0.
ReadAll(buffer, stream, pos) == Read(buffer, 0, BufferLength(buffer), stream, pos)

\* The loop of Skip: chunks of at most size bytes read into skipBuffer until
\* remaining is 0 or a read returns -1; a failing Read returns at once.
RECURSIVE SkipLoop(_, _, _, _, _)
SkipLoop(byteCount, remaining, size, stream, pos) ==
    IF remaining <= 0 THEN [ec |-> NOERROR, number |-> byteCount - remaining, pos |-> pos]
    ELSE LET r == Read([i \in 0..size - 1 |-> 0], 0,
                       IF size < remaining THEN size ELSE remaining, stream, pos)
         IN CASE r.ec # NOERROR -> [ec |-> r.ec, number |-> 0, pos |-> r.pos]  \* *number unset
              [] r.number < 0 -> [ec |-> NOERROR, number |-> byteCount - remaining, pos |-> r.pos]
              [] OTHER -> SkipLoop(byteCount, remaining - r.number, size, stream, r.pos)

\* A plausible fault: every chunk asks for a whole buffer, past remaining.
SkipWholeChunks(byteCount, maxSkip, stream, pos) ==
    LET size == IF maxSkip < byteCount THEN maxSkip ELSE byteCount
        RECURSIVE Loop(_, _)
        Loop(remaining, p) ==
            IF remaining <= 0 THEN [ec |-> NOERROR, number |-> byteCount - remaining, pos |-> p]
            ELSE LET r == Read([i \in 0..size - 1 |-> 0], 0, size, stream, p) IN
                 CASE r.ec # NOERROR -> [ec |-> r.ec, number |-> 0, pos |-> r.pos]  \* *number unset
                   [] r.number < 0 -> [ec |-> NOERROR, number |-> byteCount - remaining, pos |-> r.pos]
                   [] OTHER -> Loop(remaining - r.number, r.pos)
    IN IF byteCount <= 0 THEN [ec |-> NOERROR, number |-> 0, pos |-> pos]
       ELSE Loop(byteCount, pos)

\* Skip(byteCount, &number), with MAX_SKIP_BUFFER_SIZE as maxSkip.
Skip(byteCount, maxSkip, stream, pos) ==
    IF byteCount <= 0 THEN [ec |-> NOERROR, number |-> 0, pos |-> pos]
    ELSE SkipLoop(byteCount, byteCount,
                  IF maxSkip < byteCount THEN maxSkip ELSE byteCount, stream, pos)

=============================================================================
