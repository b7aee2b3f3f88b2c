----------------------------- MODULE AudioBuffer -----------------------------
(***************************************************************************)
(* The ring buffer between libspotify's music delivery and foobar2000's    *)
(* decoder (backend/audio_buffer.h, audio_buffer.cpp).                     *)
(*                                                                         *)
(* A chunk is stored contiguously: a header, then its samples.  When it    *)
(* does not fit before the end of the array it goes to position 0 and      *)
(* waterMark remembers where the data before it ended.  Memory is modelled *)
(* cell by cell, a cell naming the chunk it was written for and its offset *)
(* in it, so that overwriting unread data or reading a torn chunk shows.   *)
(* Every operation holds posMutex_ from start to end and is one action.    *)
(***************************************************************************)
EXTENDS Integers, Sequences

CONSTANTS
    Size,        \* size_, the number of cells of the array
    HeaderSize,  \* k_headerSizeInU16
    Chunk,       \* the chunks that can be delivered, the end mark included
    EofChunk,    \* the end mark write_end() stores
    DataSize     \* AudioChunkHeader::size of every chunk

WriteSize(c) == HeaderSize + DataSize[c]

\* The array holds any two chunks (8M cells; a chunk has at most 65541).
ASSUME SizeAssumption ==
    /\ Size \in Nat
    /\ HeaderSize \in Nat \ {0}
    /\ EofChunk \in Chunk
    /\ DataSize \in [Chunk -> Nat]
    /\ DataSize[EofChunk] = 0
    /\ \A c \in Chunk : 2 * WriteSize(c) <= Size

VARIABLES
    mem,        \* buffer_
    readPos,    \* readPos_
    writePos,   \* writePos_
    waterMark,  \* waterMark_
    out,        \* the cells the latest read() handed to its callback
    accepted,   \* what the latest write() returned
    chunks      \* history: the unread chunks and where they were stored

vars == <<mem, readPos, writePos, waterMark, out, accepted, chunks>>

Position == 0 .. Size - 1
Cell == Chunk \X Nat
\* A cell no chunk wrote: its offset is that of no cell of the end mark.
Blank == <<EofChunk, HeaderSize>>
\* The cells of chunk c, as the writer lays them out.
BlockOf(c) == [k \in 0 .. WriteSize(c) - 1 |-> <<c, k>>]
NoBlock == <<>>

TypeOK ==
    /\ mem \in [Position -> Cell]
    /\ readPos \in 0 .. Size
    /\ writePos \in 0 .. Size
    /\ waterMark \in 0 .. Size
    /\ out \in {BlockOf(c) : c \in Chunk} \cup {NoBlock}
    /\ accepted \in BOOLEAN
    /\ chunks \in Seq([pos : Position, chunk : Chunk])

Init ==
    /\ mem = [i \in Position |-> Blank]
    /\ readPos = 0
    /\ writePos = 0
    /\ waterMark = Size
    /\ out = NoBlock
    /\ accepted = TRUE
    /\ chunks = <<>>

-----------------------------------------------------------------------------
(* write() and write_end() *)

\* writeData: the header and the samples, from position p on.
WriteData(c, p) ==
    /\ mem' = [i \in Position |->
                 IF i \in p .. p + WriteSize(c) - 1 THEN <<c, i - p>> ELSE mem[i]]
    /\ writePos' = p + WriteSize(c)
    /\ chunks' = Append(chunks, [pos |-> p, chunk |-> c])
    /\ accepted' = TRUE
    /\ UNCHANGED <<readPos, out>>

WriteLeads == writePos >= readPos
\* Mutants: the header is not counted; the reader is not looked at; a chunk never
\* goes to the start; the last free cell is used, too.
FitsAtEndNoHeader(c) == Size - writePos >= DataSize[c]
FitsAtStartAnyway(c) == readPos # 0
FitsAtStartNever(c) == FALSE
FitsBehindReaderAtEnd(c) == Size - writePos >= WriteSize(c)
FitsBehindReaderFull(c) == readPos - writePos >= WriteSize(c)

FitsAtEnd(c) == Size - writePos >= WriteSize(c)
FitsAtStart(c) == readPos # 0 /\ readPos - 1 >= WriteSize(c)
FitsBehindReader(c) == readPos - 1 - writePos >= WriteSize(c)

WriteAtEnd(c) ==
    /\ WriteLeads
    /\ FitsAtEnd(c)
    /\ WriteData(c, writePos)
    /\ waterMark' = Size

WriteWrapped(c) ==
    /\ WriteLeads
    /\ ~FitsAtEnd(c)
    /\ FitsAtStart(c)
    /\ WriteData(c, 0)
    /\ waterMark' = writePos

WriteBehindReader(c) ==
    /\ ~WriteLeads
    /\ FitsBehindReader(c)
    /\ WriteData(c, writePos)
    /\ UNCHANGED waterMark

NoRoom(c) ==
    IF WriteLeads THEN ~FitsAtEnd(c) /\ ~FitsAtStart(c) ELSE ~FitsBehindReader(c)

WriteRefused(c) ==
    /\ NoRoom(c)
    /\ accepted' = FALSE
    /\ UNCHANGED <<mem, readPos, writePos, waterMark, out, chunks>>

Write(c) ==
    \/ WriteAtEnd(c)
    \/ WriteWrapped(c)
    \/ WriteBehindReader(c)
    \/ WriteRefused(c)

\* write_end() ignores what write() returns.
WriteEnd == Write(EofChunk)

-----------------------------------------------------------------------------
(* read() and clear() *)

\* Reading past the array yields anything that is not the chunk's own cell.
CellAt(i) == IF i \in Position THEN mem[i] ELSE Blank
\* Mutant: the water mark is forgotten.
ReadStartUnmarked == readPos
ReadStart == IF readPos = waterMark THEN 0 ELSE readPos
HeaderAt(p) == CellAt(p)[1]

Read ==
    /\ readPos # writePos
    /\ LET p == ReadStart
           c == HeaderAt(p)
       IN  /\ out' = [k \in 0 .. WriteSize(c) - 1 |-> CellAt(p + k)]
           /\ readPos' = p + WriteSize(c)
    /\ chunks' = Tail(chunks)
    /\ UNCHANGED <<mem, writePos, waterMark, accepted>>

ReadNothing ==
    /\ readPos = writePos
    /\ out' = NoBlock
    /\ UNCHANGED <<mem, readPos, writePos, waterMark, accepted, chunks>>

Clear ==
    /\ readPos' = 0
    /\ writePos' = 0
    /\ waterMark' = Size
    /\ chunks' = <<>>
    /\ UNCHANGED <<mem, out, accepted>>

Next ==
    \/ \E c \in Chunk \ {EofChunk} : Write(c)
    \/ WriteEnd
    \/ Read
    \/ ReadNothing
    \/ Clear

Spec == Init /\ [][Next]_vars

-----------------------------------------------------------------------------
(* The layout of the unread chunks *)

Start(i) == chunks[i].pos
End(i) == chunks[i].pos + WriteSize(chunks[i].chunk)
\* Where the chunk after one that ends at p starts.
After(p) == IF p = waterMark THEN 0 ELSE p

\* The positions delimit exactly the unread chunks: equal positions mean that
\* nothing is unread (never that the array is full), the first chunk is where
\* read() looks, and each further one is where the one before it leads.
Chained ==
    /\ chunks = <<>> <=> readPos = writePos
    /\ chunks # <<>> => Start(1) = After(readPos) /\ End(Len(chunks)) = writePos
    /\ \A i \in 1 .. Len(chunks) - 1 : Start(i + 1) = After(End(i))

\* Chunks lie between the reader and the writer, in order and without overlap;
\* once the writer has wrapped around, those before the water mark come first.
Ordered ==
    IF readPos <= writePos
    THEN /\ writePos <= waterMark
         /\ \A i \in 1 .. Len(chunks) : readPos <= Start(i) /\ End(i) <= writePos
         /\ \A i, j \in 1 .. Len(chunks) : i < j => End(i) <= Start(j)
    ELSE /\ readPos <= waterMark
         /\ \A i \in 1 .. Len(chunks) :
              \/ readPos <= Start(i) /\ End(i) <= waterMark
              \/ End(i) <= writePos
         /\ \A i, j \in 1 .. Len(chunks) : i < j =>
              \/ End(i) <= Start(j)
              \/ readPos <= Start(i) /\ End(j) <= writePos

\* Every cell of every unread chunk is still what was written for it: no later
\* write() tears a chunk that read() has yet to hand out.
ChunksIntact ==
    \A i \in 1 .. Len(chunks) : \A k \in 0 .. WriteSize(chunks[i].chunk) - 1 :
        CellAt(Start(i) + k) = <<chunks[i].chunk, k>>

\* The inductive invariant.
Layout == Chained /\ Ordered /\ ChunksIntact

\* Once the writer has wrapped around, less than a chunk is wasted behind the
\* water mark (inductive with Layout).
MarkNearEnd ==
    writePos < readPos => \E other \in Chunk : waterMark + WriteSize(other) > Size

\* The cells between the reader and the writer: those of the unread chunks.
Used == IF readPos <= writePos THEN writePos - readPos ELSE waterMark - readPos + writePos

\* Storing chunks in one piece wastes less than a chunk: through wrap-arounds and
\* partial reads, write() refuses a chunk only when the cells in use, the chunk and
\* some one further chunk would not fit into the array.
RefusedOnlyWhenFull ==
    \A c \in Chunk : NoRoom(c) =>
        \E other \in Chunk : Used + WriteSize(c) + WriteSize(other) > Size

-----------------------------------------------------------------------------
(* The buffer is a queue *)

unread == [i \in 1 .. Len(chunks) |-> BlockOf(chunks[i].chunk)]

Queue == INSTANCE AudioQueue
         WITH Block <- {BlockOf(c) : c \in Chunk}, NoBlock <- NoBlock, queue <- unread

\* Read through the queue it stands for, every operation of the buffer is an
\* operation of AudioQueue: chunks come out whole, once and in order, a read
\* fails only when nothing is unread, and an empty buffer refuses no chunk.
ImplementsQueue == Queue!Spec
=============================================================================
