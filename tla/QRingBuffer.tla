----------------------------- MODULE QRingBuffer -----------------------------
(***************************************************************************)
(* The buffer in which a QHttp keeps the body of an answer until it is     *)
(* read (qringbuffer_p.h): a list of blocks, of which the first is filled  *)
(* from head on and the last, with index tailBuffer, up to tail. The       *)
(* operations are operators on the record of its members; an action is one *)
(* call. Offsets count from 0 as in the code, elements of sequences from   *)
(* 1. Reserved bytes that were not written are Junk. append, chop and     *)
(* truncate, which nothing in this program calls, are left out.            *)
(***************************************************************************)
EXTENDS Integers, FiniteSetsExt, SequencesExt

CONSTANTS
    Bytes,           \* that are stored
    Junk,            \* what a byte that was not written may be
    Newline,         \* the one that ends a line
    basicBlockSize,  \* 4096 in the code
    WriteSizes,      \* the numbers of bytes that arrive at once
    MaxSize,         \* bound on the bytes stored
    MaxBlocks        \* bound on the number of blocks

ASSUME BytesAssumption == Newline \in Bytes /\ Junk \notin Bytes
ASSUME BlockAssumption == basicBlockSize \in Nat \ {0}

\* An empty part of an answer changes nothing that is stored.
ASSUME SizeAssumption  == WriteSizes \subseteq Nat \ {0} /\ MaxSize \in Nat

VARIABLES
    b,    \* the members
    out   \* what the last call returned

bufferVars == <<b, out>>

----------------------------------------------------------------------------
(* Blocks.                                                                 *)

\* QByteArray::resize; what is added is not initialised.
Resize(block, n) == [i \in 1..n |-> IF i <= Len(block) THEN block[i] ELSE Junk]

\* memcpy to a block.
Written(block, at, data) ==
    [i \in 1..Len(block) |->
        IF i > at /\ i <= at + Len(data) THEN data[i - at] ELSE block[i]]

Block(r, i) == r.buffers[i + 1]

Begin(r, i) == IF i = 0 THEN r.head ELSE 0
End(r, i)   == IF i = r.tailBuffer THEN r.tail ELSE Len(Block(r, i))

\* What is stored in each block, and all that is stored.
Parts(r) ==
    [k \in 1..Len(r.buffers) |-> SubSeq(r.buffers[k], Begin(r, k - 1) + 1, End(r, k - 1))]
Content(r) == FlattenSeq(Parts(r))

NextDataBlockSize(r) ==
    (IF r.tailBuffer = 0 THEN r.tail ELSE Len(Block(r, 0))) - r.head

IsEmpty(r) == r.tailBuffer = 0 /\ r.tail = 0

Cleared ==
    [buffers |-> << <<>> >>, head |-> 0, tail |-> 0, tailBuffer |-> 0, bufferSize |-> 0]

----------------------------------------------------------------------------
(* Operations.                                                             *)

\* A block is resized, a new one is added.
Resized(r, i, size)  == [r EXCEPT !.buffers[i + 1] = Resize(@, size)]
WithBlock(r, size)   ==
    [r EXCEPT !.buffers = Append(@, Resize(<<>>, size)), !.tailBuffer = @ + 1]

\* The bytes reserved are those of the last block from "at" on; the caller of
\* reserve writes data there.
WrittenAt(r, at, data) ==
    [r EXCEPT !.buffers[r.tailBuffer + 1] = Written(@, at, data),
              !.tail = at + Len(data), !.bufferSize = @ + Len(data)]

\* reserve, with the data that are written.
Reserve(r, data) ==
    LET n    == Len(data)
        last == Len(Block(r, r.tailBuffer))
        new  == Max({basicBlockSize, n})
    IN  CASE r.bufferSize = 0 ->
                WrittenAt(Resized(r, 0, new), 0, data)
          [] r.bufferSize # 0 /\ r.tail + n <= last ->
                WrittenAt(r, r.tail, data)
          [] r.bufferSize # 0 /\ r.tail + n > last /\ r.tail < last \div 2 ->
                WrittenAt(Resized(r, r.tailBuffer, r.tail + n), r.tail, data)
          [] OTHER ->
                WrittenAt(WithBlock(Resized(r, r.tailBuffer, r.tail), new), 0, data)

\* The bytes in the first k blocks.
Before(r, k) == Len(FlattenSeq(SubSeq(Parts(r), 1, k)))

\* Seeded fault: the next block is taken to begin at head as well.
DropKeepsHead(r, k) ==
    [r EXCEPT !.buffers = SubSeq(@, k + 1, Len(@)), !.tailBuffer = @ - k]

\* The first k blocks are removed; head is that of the first one only.
Drop(r, k) ==
    [r EXCEPT !.buffers = SubSeq(@, k + 1, Len(@)), !.tailBuffer = @ - k,
              !.head = IF k = 0 THEN @ ELSE 0]

\* The last round of the loop of free: n bytes of the first block, or all of
\* the only one.
FreeInBlock(r, n) ==
    IF n < NextDataBlockSize(r)
    THEN IF r.head + n = r.tail /\ r.tailBuffer = 0
         THEN [r EXCEPT !.head = 0, !.tail = 0]
         ELSE [r EXCEPT !.head = @ + n]
    ELSE [r EXCEPT !.buffers[1] = Resize(@, basicBlockSize),
                   !.head = 0, !.tail = 0, !.tailBuffer = 0]

\* The loop of free: the blocks that are freed as a whole, but for the last
\* one, are removed.
FreeBlocks(r, n) ==
    LET k == Max({i \in 0..Len(r.buffers) - 1 : Before(r, i) <= n})
    IN  FreeInBlock(Drop(r, k), n - Before(r, k))

Less(r, n) == [r EXCEPT !.bufferSize = Max({@ - n, 0})]

\* free.
Free(r, n) ==
    LET f == FreeBlocks(Less(r, n), n) IN IF IsEmpty(f) THEN Cleared ELSE f

\* ungetChar: c at the position before head, of which a new block has one.
WithFirst(r) ==
    [r EXCEPT !.buffers = <<Resize(<<>>, basicBlockSize)>> \o @, !.tailBuffer = @ + 1]
SetAt(r, head, c) ==
    [r EXCEPT !.buffers[1] = Written(@, head, <<c>>), !.head = head, !.bufferSize = @ + 1]
UngetChar(r, c) ==
    IF r.head > 0 THEN SetAt(r, r.head - 1, c)
    ELSE SetAt(WithFirst(r), basicBlockSize - 1, c)

\* A round of read(data, maxLength): n bytes are wanted still.
CopyBlock(s) ==
    LET k == Min({s.n, NextDataBlockSize(s.r)})
    IN  IF s.n = 0 THEN s
        ELSE [r    |-> Free(s.r, k),
              n    |-> s.n - k,
              data |-> s.data \o SubSeq(Block(s.r, 0), s.r.head + 1, s.r.head + k)]

\* There are no more rounds than blocks.
ReadBlocks(r, n) ==
    LET round[k \in 0..Len(r.buffers)] ==
            IF k = 0 THEN [r |-> r, n |-> n, data |-> <<>>] ELSE CopyBlock(round[k - 1])
    IN  round[Len(r.buffers)]

Read(r, maxLength) == ReadBlocks(r, Min({r.bufferSize, maxLength}))

\* read(): the first block.
ReadBlock(r) ==
    LET first == SubSeq(Block(r, 0), r.head + 1, r.head + NextDataBlockSize(r))
        rest  == [r EXCEPT !.bufferSize = @ - Len(first), !.head = 0]
    IN  IF r.bufferSize = 0 THEN [r |-> r, data |-> <<>>]
        ELSE [r |-> IF r.tailBuffer = 0
                    THEN [rest EXCEPT !.buffers = << <<>> >>, !.tail = 0]
                    ELSE [rest EXCEPT !.buffers = Tail(@), !.tailBuffer = @ - 1],
              data |-> first]

\* The position of the first c; -1 if there is none.
IndexOf(r, c) ==
    LET parts == Parts(r)
        hits  == {i \in 1..Len(parts) : \E k \in 1..Len(parts[i]) : parts[i][k] = c}
        first == Min(hits)
    IN  IF hits = {} THEN -1
        ELSE Before(r, first - 1) + Min({k \in 1..Len(parts[first]) : parts[first][k] = c}) - 1

\* readLine: a line with its end, or what fits; all there is without an end.
ReadLine(r, maxLength) ==
    LET index == IndexOf(r, Newline)
    IN  IF index = -1 THEN Read(r, maxLength)
        ELSE Read(r, Min({index + 1, maxLength - 1}))

----------------------------------------------------------------------------
Data == UNION {[1..n -> Bytes] : n \in WriteSizes}

BufferInit == b = Cleared /\ out = <<>>

Stored(r) ==
    /\ r.bufferSize <= MaxSize /\ Len(r.buffers) <= MaxBlocks
    /\ b' = r /\ out' = <<>>

Returned(result) == b' = result.r /\ out' = result.data

\* How QHttp stores a part of an answer; putChar for a single byte.
DoReserve   == \E data \in Data : Stored(Reserve(b, data))
DoUngetChar == \E c \in Bytes : Stored(UngetChar(b, c))
DoClear     == Stored(Cleared)

\* QHttp reads with free, block by block; getChar is the read of one byte.
DoFree      == \E n \in 0..b.bufferSize : Stored(Free(b, n))
DoRead      == \E n \in 1..MaxSize : Returned(Read(b, n))
DoReadBlock == Returned(ReadBlock(b))
DoReadLine  == \E n \in 1..MaxSize : Returned(ReadLine(b, n))

BufferNext ==
    \/ DoReserve
    \/ DoUngetChar
    \/ DoClear
    \/ DoFree
    \/ DoRead
    \/ DoReadBlock
    \/ DoReadLine

BufferSpec == BufferInit /\ [][BufferNext]_bufferVars

----------------------------------------------------------------------------
(* Properties.                                                             *)

\* No byte is lost, repeated, reordered or made up, whatever mix of calls
\* stores, reads and takes them back: the blocks are a queue of bytes.
Queue == INSTANCE ByteQueue WITH bytes <- Content(b)

Implements == Queue!Spec
==============================================================================
