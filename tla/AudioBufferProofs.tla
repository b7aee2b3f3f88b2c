-------------------------- MODULE AudioBufferProofs --------------------------
(***************************************************************************)
(* Proofs about AudioBuffer for every array size and every set of chunks:  *)
(* the layout of the unread chunks is an inductive invariant, and by it    *)
(* the buffer implements AudioQueue.                                       *)
(***************************************************************************)
EXTENDS AudioBuffer, SequenceTheorems, TLAPS

IInv == TypeOK /\ Layout

Stored == [pos : Position, chunk : Chunk]

-----------------------------------------------------------------------------
(* Sizes and sequences *)

\* A chunk fills at least its header's cell, and two of them fit into the array.
LEMMA WriteSizeFacts ==
    ASSUME NEW c \in Chunk
    PROVE  /\ WriteSize(c) \in Nat
           /\ WriteSize(c) >= 1
           /\ 2 * WriteSize(c) <= Size
           /\ WriteSize(c) <= Size
BY SizeAssumption DEF WriteSize

\* What Append does to a sequence.
LEMMA AppendFacts ==
    ASSUME NEW S, NEW s \in Seq(S), NEW e \in S
    PROVE  /\ Append(s, e) \in Seq(S)
           /\ Len(s) \in Nat
           /\ Len(Append(s, e)) = Len(s) + 1
           /\ \A i \in 1 .. Len(s) : Append(s, e)[i] = s[i]
           /\ Append(s, e)[Len(s) + 1] = e
           /\ Append(s, e) # <<>>
OBVIOUS

\* An empty sequence is the one of length 0, and its elements are in its set.
LEMMA EmptyFacts ==
    ASSUME NEW S, NEW s \in Seq(S)
    PROVE  /\ Len(s) \in Nat
           /\ s = <<>> <=> Len(s) = 0
           /\ \A i \in 1 .. Len(s) : s[i] \in S
BY EmptySeq, LenProperties, ElementOfSeq

\* What Tail does to a sequence.
LEMMA TailFacts ==
    ASSUME NEW S, NEW s \in Seq(S), s # <<>>
    PROVE  /\ Tail(s) \in Seq(S)
           /\ Len(s) \in Nat \ {0}
           /\ Len(Tail(s)) = Len(s) - 1
           /\ \A i \in 1 .. Len(s) - 1 : Tail(s)[i] = s[i + 1]
           /\ Tail(s) = <<>> <=> Len(s) = 1
<1>1. Tail(s) \in Seq(S) /\ Len(Tail(s)) = Len(s) - 1
      /\ \A i \in 1 .. Len(Tail(s)) : Tail(s)[i] = s[i + 1]
  BY HeadTailProperties
<1>2. Len(s) \in Nat \ {0}
  BY EmptySeq
<1>3. Tail(s) = <<>> <=> Len(Tail(s)) = 0
  BY <1>1, EmptyFacts
<1> QED
  BY <1>1, <1>2, <1>3

\* The stored chunks are typed, and their extents lie in the array.
LEMMA ChunkFacts ==
    ASSUME IInv
    PROVE  /\ chunks \in Seq(Stored)
           /\ Len(chunks) \in Nat
           /\ chunks = <<>> <=> Len(chunks) = 0
           /\ \A i \in 1 .. Len(chunks) :
                /\ chunks[i] \in Stored
                /\ chunks[i].chunk \in Chunk
                /\ Start(i) \in 0 .. Size - 1
                /\ End(i) \in 0 .. Size
                /\ Start(i) < End(i)
                /\ End(i) = Start(i) + WriteSize(chunks[i].chunk)
<1>1. chunks \in Seq(Stored)
  BY DEF IInv, TypeOK, Stored
<1>2. \A i \in 1 .. Len(chunks) :
        /\ chunks[i] \in Stored
        /\ chunks[i].chunk \in Chunk
        /\ Start(i) \in 0 .. Size - 1
  <2>1. \A i \in 1 .. Len(chunks) : chunks[i] \in Stored
    BY <1>1, EmptyFacts
  <2> QED
    BY <2>1 DEF Stored, Position, Start
<1>3. ASSUME NEW i \in 1 .. Len(chunks)
      PROVE  /\ End(i) = Start(i) + WriteSize(chunks[i].chunk)
             /\ Start(i) < End(i)
             /\ End(i) \in Nat
  BY <1>2, WriteSizeFacts, SizeAssumption DEF Start, End
<1>4. ASSUME NEW i \in 1 .. Len(chunks)
      PROVE  End(i) <= Size
  BY <1>3, SizeAssumption DEF IInv, TypeOK, Layout, Ordered
<1> QED
  BY <1>1, <1>2, <1>3, <1>4, EmptyFacts, SizeAssumption
-----------------------------------------------------------------------------
(* write() *)

\* What a write that stores a chunk at p does to the chunks.
LEMMA WriteDataFacts ==
    ASSUME IInv, NEW c \in Chunk, NEW p \in Position, WriteData(c, p),
           NEW n, n = Len(chunks)
    PROVE  /\ chunks' \in Seq(Stored)
           /\ Len(chunks') = n + 1
           /\ chunks' # <<>>
           /\ \A i \in 1 .. n :
                /\ chunks'[i] = chunks[i]
                /\ Start(i)' = Start(i)
                /\ End(i)' = End(i)
           /\ chunks'[n + 1].chunk = c
           /\ Start(n + 1)' = p
           /\ End(n + 1)' = p + WriteSize(c)
<1> DEFINE e == [pos |-> p, chunk |-> c]
<1>1. e \in Stored /\ e.pos = p /\ e.chunk = c
  BY DEF Stored
<1>2. chunks \in Seq(Stored) /\ chunks' = Append(chunks, e)
  BY ChunkFacts DEF WriteData
<1>3. /\ chunks' \in Seq(Stored)
      /\ Len(chunks') = n + 1
      /\ chunks' # <<>>
      /\ \A i \in 1 .. n : chunks'[i] = chunks[i]
      /\ chunks'[n + 1] = e
  <2> HIDE DEF e
  <2> QED
    BY <1>1, <1>2, AppendFacts
<1> HIDE DEF e
<1> QED
  BY <1>1, <1>3 DEF Start, End, WriteSize

\* A write into free cells leaves every unread chunk intact and adds its own.
LEMMA WriteDataIntact ==
    ASSUME IInv, NEW c \in Chunk, NEW p \in Position, WriteData(c, p),
           p + WriteSize(c) <= Size,
           \A i \in 1 .. Len(chunks) : End(i) <= p \/ p + WriteSize(c) <= Start(i),
           NEW n, n = Len(chunks)
    PROVE  /\ mem' \in [Position -> Cell]
           /\ ChunksIntact'
<1>1. mem' \in [Position -> Cell]
  <2> DEFINE cell(i) == IF i \in p .. p + WriteSize(c) - 1 THEN <<c, i - p>> ELSE mem[i]
  <2>1. mem \in [Position -> Cell]
    BY DEF IInv, TypeOK
  <2>2. ASSUME NEW i \in Position
        PROVE  cell(i) \in Cell
    <3>1. CASE i \in p .. p + WriteSize(c) - 1
      <4>1. i - p \in Nat
        BY <3>1, SizeAssumption, WriteSizeFacts DEF Position
      <4> QED
        BY <4>1, <3>1 DEF Cell
    <3>2. CASE i \notin p .. p + WriteSize(c) - 1
      BY <3>2, <2>1
    <3> QED
      BY <3>1, <3>2
  <2>3. mem' = [i \in Position |-> cell(i)]
    BY DEF WriteData
  <2> HIDE DEF cell
  <2> QED
    BY <2>2, <2>3
<1>2. ASSUME NEW i \in 1 .. n, NEW k \in 0 .. WriteSize(chunks[i].chunk) - 1
      PROVE  CellAt(Start(i) + k)' = <<chunks[i].chunk, k>>
  <2>1. /\ Start(i) \in 0 .. Size - 1
        /\ WriteSize(chunks[i].chunk) \in Nat
        /\ End(i) = Start(i) + WriteSize(chunks[i].chunk)
        /\ End(i) <= Size
    BY ChunkFacts, WriteSizeFacts
  <2>2. Size \in Nat /\ WriteSize(c) \in Nat /\ p \in 0 .. Size - 1
    BY WriteSizeFacts, SizeAssumption DEF Position
  <2>3. End(i) <= p \/ p + WriteSize(c) <= Start(i)
    OBVIOUS
  <2>4. /\ Start(i) + k \in Position
        /\ Start(i) + k \notin p .. p + WriteSize(c) - 1
    BY <2>1, <2>2, <2>3 DEF Position
  <2>5. CellAt(Start(i) + k) = <<chunks[i].chunk, k>>
    BY DEF IInv, Layout, ChunksIntact
  <2>6. Start(i)' = Start(i)
    BY WriteDataFacts
  <2>7. mem'[Start(i) + k] = mem[Start(i) + k]
    BY <2>4 DEF WriteData
  <2> QED
    BY <2>4, <2>5, <2>6, <2>7 DEF CellAt
<1>3. ASSUME NEW k \in 0 .. WriteSize(c) - 1
      PROVE  CellAt(p + k)' = <<c, k>>
  <2>1. WriteSize(c) \in Nat /\ Size \in Nat /\ p \in 0 .. Size - 1
    BY WriteSizeFacts, SizeAssumption DEF Position
  <2>2. p + k \in Position /\ p + k \in p .. p + WriteSize(c) - 1 /\ (p + k) - p = k
    BY <2>1 DEF Position
  <2> QED
    BY <2>2 DEF CellAt, WriteData
<1>4. ChunksIntact'
  <2>1. n \in Nat
    BY ChunkFacts
  <2>2. /\ Len(chunks') = n + 1
        /\ \A i \in 1 .. n : chunks'[i] = chunks[i]
        /\ chunks'[n + 1].chunk = c
        /\ Start(n + 1)' = p
    BY WriteDataFacts
  <2> SUFFICES ASSUME NEW i \in 1 .. n + 1,
                      NEW k \in 0 .. WriteSize(chunks'[i].chunk) - 1
               PROVE  CellAt(Start(i) + k)' = <<chunks'[i].chunk, k>>
    BY <2>2 DEF ChunksIntact, WriteSize
  <2>3. CASE i = n + 1
    <3>1. Start(i)' = p /\ chunks'[i].chunk = c
      BY <2>2, <2>3
    <3>2. CellAt(p + k)' = <<c, k>>
      BY <1>3, <3>1
    <3> QED
      BY <3>1, <3>2 DEF CellAt
  <2>4. CASE i \in 1 .. n
    BY <1>2, <2>2, <2>4
  <2> QED
    BY <2>1, <2>3, <2>4
<1> QED
  BY <1>1, <1>4

\* A write that stores a chunk inside the array keeps the types.
LEMMA WriteDataType ==
    ASSUME IInv, NEW c \in Chunk, NEW p \in Position, WriteData(c, p),
           p + WriteSize(c) <= Size, waterMark' \in 0 .. Size,
           mem' \in [Position -> Cell]
    PROVE  TypeOK'
<1>1. writePos' \in 0 .. Size
  BY WriteSizeFacts, SizeAssumption DEF WriteData, Position
<1>2. chunks' \in Seq([pos : Position, chunk : Chunk])
  BY WriteDataFacts DEF Stored
<1>3. readPos' = readPos /\ out' = out /\ accepted' = TRUE
  BY DEF WriteData
<1>4. /\ readPos \in 0 .. Size
      /\ out \in {BlockOf(d) : d \in Chunk} \cup {NoBlock}
  BY DEF IInv, TypeOK
<1> QED
  BY <1>1, <1>2, <1>3, <1>4 DEF TypeOK, Position, Cell, BlockOf, NoBlock, WriteSize

\* A chunk stored after the others keeps the layout.
LEMMA WriteAtEndStep ==
    ASSUME IInv, NEW c \in Chunk, WriteAtEnd(c)
    PROVE  IInv'
<1> PICK n : n = Len(chunks)
  OBVIOUS
<1>1. /\ Size \in Nat
      /\ readPos \in 0 .. Size /\ writePos \in 0 .. Size /\ waterMark \in 0 .. Size
      /\ WriteSize(c) \in Nat /\ WriteSize(c) >= 1
  BY WriteSizeFacts, SizeAssumption DEF IInv, TypeOK
<1>2. /\ WriteData(c, writePos)
      /\ readPos <= writePos
      /\ writePos \in Position
      /\ writePos + WriteSize(c) <= Size
      /\ readPos' = readPos
      /\ writePos' = writePos + WriteSize(c)
      /\ waterMark' = Size
  BY <1>1 DEF WriteAtEnd, WriteLeads, FitsAtEnd, WriteData, Position
<1>3. /\ n \in Nat
      /\ chunks = <<>> <=> n = 0
      /\ \A i \in 1 .. n : Start(i) \in 0 .. Size - 1 /\ End(i) \in 0 .. Size /\ Start(i) < End(i)
  BY ChunkFacts
<1>4. /\ Len(chunks') = n + 1
      /\ chunks' # <<>>
      /\ \A i \in 1 .. n : Start(i)' = Start(i) /\ End(i)' = End(i)
      /\ Start(n + 1)' = writePos
      /\ End(n + 1)' = writePos + WriteSize(c)
  BY <1>2, WriteDataFacts
<1>5. /\ writePos <= waterMark
      /\ \A i \in 1 .. n : readPos <= Start(i) /\ End(i) <= writePos
      /\ \A i, j \in 1 .. n : i < j => End(i) <= Start(j)
  BY <1>2 DEF IInv, Layout, Ordered
<1>6. /\ n = 0 <=> readPos = writePos
      /\ n # 0 => Start(1) = After(readPos) /\ End(n) = writePos
      /\ \A i \in 1 .. n - 1 : Start(i + 1) = After(End(i))
  BY <1>3 DEF IInv, Layout, Chained
<1>7. mem' \in [Position -> Cell] /\ ChunksIntact'
  BY <1>2, <1>5, WriteDataIntact
<1>8. TypeOK'
  BY <1>1, <1>2, <1>7, WriteDataType
<1>9. Ordered'
  <2>1. readPos' <= writePos' /\ writePos' <= waterMark'
    BY <1>1, <1>2
  <2>2. ASSUME NEW i \in 1 .. n + 1
        PROVE  readPos' <= Start(i)' /\ End(i)' <= writePos'
    <3>1. CASE i \in 1 .. n
      BY <1>1, <1>2, <1>3, <1>4, <1>5, <3>1
    <3>2. CASE i = n + 1
      BY <1>1, <1>2, <1>4, <3>2
    <3> QED
      BY <1>3, <3>1, <3>2
  <2>3. ASSUME NEW i \in 1 .. n + 1, NEW j \in 1 .. n + 1, i < j
        PROVE  End(i)' <= Start(j)'
    <3>1. i \in 1 .. n
      BY <1>3, <2>3
    <3>2. CASE j \in 1 .. n
      BY <1>4, <1>5, <2>3, <3>1, <3>2
    <3>3. CASE j = n + 1
      BY <1>4, <1>5, <3>1, <3>3
    <3> QED
      BY <1>3, <3>2, <3>3
  <2> QED
    BY <1>4, <2>1, <2>2, <2>3 DEF Ordered
<1>10. Chained'
  <2>1. Start(1)' = After(readPos)'
    BY <1>1, <1>2, <1>3, <1>4, <1>5, <1>6 DEF After
  <2>2. ASSUME NEW i \in 1 .. n
        PROVE  Start(i + 1)' = After(End(i))'
    <3>1. CASE i = n
      BY <1>1, <1>2, <1>3, <1>4, <1>6, <3>1 DEF After
    <3>2. CASE i \in 1 .. n - 1
      <4>1. i + 1 \in 1 .. n /\ i < i + 1
        BY <1>3, <3>2
      <4>2. /\ End(i) \in Nat /\ End(i) > 0 /\ End(i) <= Start(i + 1)
            /\ Start(i + 1) \in 0 .. Size - 1
            /\ Start(i + 1) = After(End(i))
        BY <1>3, <1>5, <1>6, <3>2, <4>1
      <4>3. Start(i + 1)' = Start(i + 1) /\ End(i)' = End(i)
        BY <1>4, <4>1
      <4>4. Start(i + 1) = End(i) /\ End(i) # Size
        BY <1>1, <4>2 DEF After
      <4> QED
        BY <1>2, <4>3, <4>4 DEF After
    <3> QED
      BY <1>3, <3>1, <3>2
  <2> QED
    BY <1>1, <1>2, <1>3, <1>4, <1>5, <2>1, <2>2 DEF Chained
<1> QED
  BY <1>7, <1>8, <1>9, <1>10 DEF IInv, Layout

\* A chunk stored at position 0, ahead of the reader, keeps the layout.
LEMMA WriteWrappedStep ==
    ASSUME IInv, NEW c \in Chunk, WriteWrapped(c)
    PROVE  IInv'
<1> PICK n : n = Len(chunks)
  OBVIOUS
<1>1. /\ Size \in Nat
      /\ readPos \in 0 .. Size /\ writePos \in 0 .. Size /\ waterMark \in 0 .. Size
      /\ WriteSize(c) \in Nat /\ WriteSize(c) >= 1 /\ WriteSize(c) <= Size
  BY WriteSizeFacts, SizeAssumption DEF IInv, TypeOK
<1>2. /\ WriteData(c, 0)
      /\ readPos <= writePos
      /\ 0 \in Position
      /\ WriteSize(c) < readPos
      /\ readPos' = readPos
      /\ writePos' = WriteSize(c)
      /\ waterMark' = writePos
  BY <1>1 DEF WriteWrapped, WriteLeads, FitsAtStart, WriteData, Position
<1>3. /\ n \in Nat
      /\ chunks = <<>> <=> n = 0
      /\ \A i \in 1 .. n : Start(i) \in 0 .. Size - 1 /\ End(i) \in 0 .. Size /\ Start(i) < End(i)
  BY ChunkFacts
<1>4. /\ Len(chunks') = n + 1
      /\ chunks' # <<>>
      /\ \A i \in 1 .. n : Start(i)' = Start(i) /\ End(i)' = End(i)
      /\ Start(n + 1)' = 0
      /\ End(n + 1)' = WriteSize(c)
  BY <1>1, <1>2, WriteDataFacts
<1>5. /\ writePos <= waterMark
      /\ \A i \in 1 .. n : readPos <= Start(i) /\ End(i) <= writePos
      /\ \A i, j \in 1 .. n : i < j => End(i) <= Start(j)
  BY <1>2 DEF IInv, Layout, Ordered
<1>6. /\ n = 0 <=> readPos = writePos
      /\ n # 0 => Start(1) = After(readPos) /\ End(n) = writePos
      /\ \A i \in 1 .. n - 1 : Start(i + 1) = After(End(i))
  BY <1>3 DEF IInv, Layout, Chained
<1>7. mem' \in [Position -> Cell] /\ ChunksIntact'
  <2>1. /\ 0 + WriteSize(c) <= Size
        /\ \A i \in 1 .. n : 0 + WriteSize(c) <= Start(i)
    BY <1>1, <1>2, <1>3, <1>5
  <2> QED
    BY <1>2, <2>1, WriteDataIntact
<1>8. TypeOK'
  <2>1. 0 + WriteSize(c) <= Size /\ waterMark' \in 0 .. Size
    BY <1>1, <1>2
  <2> QED
    BY <1>2, <1>7, <2>1, WriteDataType
<1>9. Ordered'
  <2>1. writePos' < readPos' /\ readPos' <= waterMark'
    BY <1>1, <1>2
  <2>2. ASSUME NEW i \in 1 .. n + 1
        PROVE  \/ readPos' <= Start(i)' /\ End(i)' <= waterMark'
               \/ End(i)' <= writePos'
    <3>1. CASE i \in 1 .. n
      BY <1>2, <1>4, <1>5, <3>1
    <3>2. CASE i = n + 1
      BY <1>1, <1>2, <1>4, <3>2
    <3> QED
      BY <1>3, <3>1, <3>2
  <2>3. ASSUME NEW i \in 1 .. n + 1, NEW j \in 1 .. n + 1, i < j
        PROVE  \/ End(i)' <= Start(j)'
               \/ readPos' <= Start(i)' /\ End(j)' <= writePos'
    <3>1. i \in 1 .. n
      BY <1>3, <2>3
    <3>2. CASE j \in 1 .. n
      BY <1>4, <1>5, <2>3, <3>1, <3>2
    <3>3. CASE j = n + 1
      BY <1>1, <1>2, <1>4, <1>5, <3>1, <3>3
    <3> QED
      BY <1>3, <3>2, <3>3
  <2>4. ~(readPos' <= writePos')
    BY <1>1, <1>2, <2>1
  <2> QED
    BY <1>4, <2>1, <2>2, <2>3, <2>4 DEF Ordered
<1>10. Chained'
  <2>1. Start(1)' = After(readPos)'
    BY <1>1, <1>2, <1>3, <1>4, <1>5, <1>6 DEF After
  <2>2. ASSUME NEW i \in 1 .. n
        PROVE  Start(i + 1)' = After(End(i))'
    <3>1. CASE i = n
      BY <1>1, <1>2, <1>3, <1>4, <1>6, <3>1 DEF After
    <3>2. CASE i \in 1 .. n - 1
      <4>1. i + 1 \in 1 .. n /\ i < i + 1
        BY <1>3, <3>2
      <4>2. /\ End(i) \in Nat /\ End(i) > 0 /\ End(i) <= Start(i + 1)
            /\ Start(i + 1) \in 0 .. Size - 1
            /\ Start(i + 1) < End(i + 1) /\ End(i + 1) <= writePos
            /\ Start(i + 1) = After(End(i))
        BY <1>3, <1>5, <1>6, <3>2, <4>1
      <4>3. Start(i + 1)' = Start(i + 1) /\ End(i)' = End(i)
        BY <1>4, <4>1
      <4>4. Start(i + 1) = End(i) /\ End(i) # writePos
        BY <1>1, <1>3, <4>1, <4>2 DEF After
      <4> QED
        BY <1>2, <4>3, <4>4 DEF After
    <3> QED
      BY <1>3, <3>1, <3>2
  <2> QED
    BY <1>1, <1>2, <1>3, <1>4, <1>5, <2>1, <2>2 DEF Chained
<1> QED
  BY <1>7, <1>8, <1>9, <1>10 DEF IInv, Layout

\* A chunk stored after the wrapped ones, still ahead of the reader, keeps the
\* layout.
LEMMA WriteBehindReaderStep ==
    ASSUME IInv, NEW c \in Chunk, WriteBehindReader(c)
    PROVE  IInv'
<1> PICK n : n = Len(chunks)
  OBVIOUS
<1>1. /\ Size \in Nat
      /\ readPos \in 0 .. Size /\ writePos \in 0 .. Size /\ waterMark \in 0 .. Size
      /\ WriteSize(c) \in Nat /\ WriteSize(c) >= 1
  BY WriteSizeFacts, SizeAssumption DEF IInv, TypeOK
<1>2. /\ WriteData(c, writePos)
      /\ writePos < readPos
      /\ writePos \in Position
      /\ writePos + WriteSize(c) < readPos
      /\ readPos' = readPos
      /\ writePos' = writePos + WriteSize(c)
      /\ waterMark' = waterMark
  BY <1>1 DEF WriteBehindReader, WriteLeads, FitsBehindReader, WriteData, Position
<1>3. /\ n \in Nat
      /\ chunks = <<>> <=> n = 0
      /\ \A i \in 1 .. n : Start(i) \in 0 .. Size - 1 /\ End(i) \in 0 .. Size /\ Start(i) < End(i)
  BY ChunkFacts
<1>4. /\ Len(chunks') = n + 1
      /\ chunks' # <<>>
      /\ \A i \in 1 .. n : Start(i)' = Start(i) /\ End(i)' = End(i)
      /\ Start(n + 1)' = writePos
      /\ End(n + 1)' = writePos + WriteSize(c)
  BY <1>2, WriteDataFacts
<1>5. /\ readPos <= waterMark
      /\ \A i \in 1 .. n : \/ readPos <= Start(i) /\ End(i) <= waterMark
                           \/ End(i) <= writePos
      /\ \A i, j \in 1 .. n : i < j => \/ End(i) <= Start(j)
                                       \/ readPos <= Start(i) /\ End(j) <= writePos
  <2>1. ~(readPos <= writePos)
    BY <1>1, <1>2
  <2> QED
    BY <2>1 DEF IInv, Layout, Ordered
<1>6. /\ n # 0
      /\ Start(1) = After(readPos) /\ End(n) = writePos
      /\ \A i \in 1 .. n - 1 : Start(i + 1) = After(End(i))
  BY <1>1, <1>2, <1>3 DEF IInv, Layout, Chained
<1>7. mem' \in [Position -> Cell] /\ ChunksIntact'
  <2>1. ASSUME NEW i \in 1 .. n
        PROVE  End(i) <= writePos \/ writePos + WriteSize(c) <= Start(i)
    BY <1>1, <1>2, <1>3, <1>5
  <2>2. writePos + WriteSize(c) <= Size
    BY <1>1, <1>2
  <2> QED
    BY <1>2, <2>1, <2>2, WriteDataIntact
<1>8. TypeOK'
  <2>1. writePos + WriteSize(c) <= Size /\ waterMark' \in 0 .. Size
    BY <1>1, <1>2
  <2> QED
    BY <1>2, <1>7, <2>1, WriteDataType
<1>9. Ordered'
  <2>1. readPos' <= waterMark' /\ ~(readPos' <= writePos')
    BY <1>1, <1>2, <1>5
  <2>2. ASSUME NEW i \in 1 .. n + 1
        PROVE  \/ readPos' <= Start(i)' /\ End(i)' <= waterMark'
               \/ End(i)' <= writePos'
    <3>1. CASE i \in 1 .. n
      BY <1>1, <1>2, <1>3, <1>4, <1>5, <3>1
    <3>2. CASE i = n + 1
      BY <1>1, <1>2, <1>4, <3>2
    <3> QED
      BY <1>3, <3>1, <3>2
  <2>3. ASSUME NEW i \in 1 .. n + 1, NEW j \in 1 .. n + 1, i < j
        PROVE  \/ End(i)' <= Start(j)'
               \/ readPos' <= Start(i)' /\ End(j)' <= writePos'
    <3>1. i \in 1 .. n
      BY <1>3, <2>3
    <3>2. CASE j \in 1 .. n
      BY <1>1, <1>2, <1>3, <1>4, <1>5, <2>3, <3>1, <3>2
    <3>3. CASE j = n + 1
      BY <1>1, <1>2, <1>4, <1>5, <3>1, <3>3
    <3> QED
      BY <1>3, <3>2, <3>3
  <2> QED
    BY <1>4, <2>1, <2>2, <2>3 DEF Ordered
<1>10. Chained'
  <2>1. Start(1)' = After(readPos)'
    BY <1>2, <1>3, <1>4, <1>6 DEF After
  <2>2. ASSUME NEW i \in 1 .. n
        PROVE  Start(i + 1)' = After(End(i))'
    <3>1. CASE i = n
      BY <1>1, <1>2, <1>4, <1>5, <1>6, <3>1 DEF After
    <3>2. CASE i \in 1 .. n - 1
      <4>1. i \in 1 .. n /\ i + 1 \in 1 .. n
        BY <1>3, <3>2
      <4> QED
        BY <1>2, <1>4, <1>6, <3>2, <4>1 DEF After
    <3> QED
      BY <1>3, <3>1, <3>2
  <2>3. readPos' # writePos' /\ End(n + 1)' = writePos'
    BY <1>1, <1>2, <1>4
  <2> QED
    BY <1>3, <1>4, <2>1, <2>2, <2>3 DEF Chained
<1> QED
  BY <1>7, <1>8, <1>9, <1>10 DEF IInv, Layout

-----------------------------------------------------------------------------
(* read() *)

\* read() hands out exactly the oldest unread chunk and consumes it.
LEMMA ReadFacts ==
    ASSUME IInv, Read, NEW n, n = Len(chunks)
    PROVE  /\ n \in Nat \ {0}
           /\ ReadStart = Start(1)
           /\ out' = BlockOf(chunks[1].chunk)
           /\ readPos' = End(1)
           /\ chunks' \in Seq(Stored)
           /\ Len(chunks') = n - 1
           /\ chunks' = <<>> <=> n = 1
           /\ \A i \in 1 .. n - 1 :
                /\ chunks'[i] = chunks[i + 1]
                /\ Start(i)' = Start(i + 1)
                /\ End(i)' = End(i + 1)
<1>1. chunks # <<>>
  BY DEF Read, IInv, Layout, Chained
<1>2. n \in Nat \ {0} /\ chunks \in Seq(Stored) /\ chunks' = Tail(chunks)
  BY <1>1, ChunkFacts DEF Read
<1>3. /\ chunks' \in Seq(Stored)
      /\ Len(chunks') = n - 1
      /\ chunks' = <<>> <=> n = 1
      /\ \A i \in 1 .. n - 1 : chunks'[i] = chunks[i + 1]
  BY <1>1, <1>2, TailFacts
<1>4. \A i \in 1 .. n - 1 : Start(i)' = Start(i + 1) /\ End(i)' = End(i + 1)
  BY <1>3 DEF Start, End, WriteSize
<1>5. ReadStart = Start(1)
  BY <1>1 DEF IInv, Layout, Chained, ReadStart, After
<1> DEFINE c == chunks[1].chunk
<1>6. /\ c \in Chunk
      /\ WriteSize(c) \in Nat /\ WriteSize(c) >= 1
      /\ Start(1) \in Nat
      /\ End(1) = Start(1) + WriteSize(c)
  BY <1>2, ChunkFacts, WriteSizeFacts, SizeAssumption
<1>7. \A k \in 0 .. WriteSize(c) - 1 : CellAt(Start(1) + k) = <<c, k>>
  BY <1>2 DEF IInv, Layout, ChunksIntact
<1>8. HeaderAt(Start(1)) = c
  <2>1. 0 \in 0 .. WriteSize(c) - 1 /\ Start(1) + 0 = Start(1)
    BY <1>6
  <2>2. CellAt(Start(1)) = <<c, 0>>
    BY <1>7, <2>1
  <2> QED
    BY <2>2 DEF HeaderAt
<1>9. /\ out' = [k \in 0 .. WriteSize(c) - 1 |-> CellAt(Start(1) + k)]
      /\ readPos' = Start(1) + WriteSize(c)
  BY <1>5, <1>8 DEF Read
<1>10. out' = BlockOf(c)
  BY <1>7, <1>9 DEF BlockOf
<1> QED
  BY <1>2, <1>3, <1>4, <1>5, <1>6, <1>9, <1>10

\* read() keeps the layout: what was the second chunk is now where it looks.
LEMMA ReadStep ==
    ASSUME IInv, Read
    PROVE  IInv'
<1> PICK n : n = Len(chunks)
  OBVIOUS
<1>1. /\ Size \in Nat
      /\ readPos \in 0 .. Size /\ writePos \in 0 .. Size /\ waterMark \in 0 .. Size
      /\ readPos # writePos
      /\ writePos' = writePos /\ waterMark' = waterMark /\ mem' = mem
      /\ accepted' = accepted
  BY SizeAssumption DEF IInv, TypeOK, Read
<1>2. /\ n \in Nat \ {0}
      /\ ReadStart = Start(1)
      /\ out' = BlockOf(chunks[1].chunk)
      /\ readPos' = End(1)
      /\ chunks' \in Seq(Stored)
      /\ Len(chunks') = n - 1
      /\ chunks' = <<>> <=> n = 1
      /\ \A i \in 1 .. n - 1 :
           /\ chunks'[i] = chunks[i + 1]
           /\ Start(i)' = Start(i + 1)
           /\ End(i)' = End(i + 1)
  BY ReadFacts
<1>3. \A i \in 1 .. n :
        /\ Start(i) \in 0 .. Size - 1 /\ End(i) \in 0 .. Size /\ Start(i) < End(i)
        /\ chunks[i].chunk \in Chunk
  BY ChunkFacts
<1>4. /\ Start(1) = After(readPos) /\ End(n) = writePos
      /\ \A i \in 1 .. n - 1 : Start(i + 1) = After(End(i))
  BY <1>2, ChunkFacts DEF IInv, Layout, Chained
<1>5. 1 \in 1 .. n /\ \A i \in 1 .. n - 1 : i \in 1 .. n /\ i + 1 \in 1 .. n /\ 1 < i + 1
  BY <1>2
<1>6. TypeOK'
  <2>1. chunks[1].chunk \in Chunk /\ readPos' \in 0 .. Size
    BY <1>2, <1>3, <1>5
  <2>2. /\ mem \in [Position -> Cell]
        /\ accepted \in BOOLEAN
    BY DEF IInv, TypeOK
  <2> QED
    BY <1>1, <1>2, <2>1, <2>2 DEF TypeOK, Stored, Position, Cell, BlockOf, NoBlock, WriteSize
<1>7. ChunksIntact'
  <2> SUFFICES ASSUME NEW i \in 1 .. n - 1,
                      NEW k \in 0 .. WriteSize(chunks'[i].chunk) - 1
               PROVE  CellAt(Start(i) + k)' = <<chunks'[i].chunk, k>>
    BY <1>2 DEF ChunksIntact, WriteSize
  <2>1. chunks'[i] = chunks[i + 1] /\ Start(i)' = Start(i + 1)
    BY <1>2
  <2>2. CellAt(Start(i + 1) + k) = <<chunks[i + 1].chunk, k>>
    BY <1>5, <2>1 DEF IInv, Layout, ChunksIntact
  <2> QED
    BY <1>1, <2>1, <2>2 DEF CellAt
<1>8. ASSUME n # 1 => readPos' # writePos'
       PROVE  Chained'
  <2>1. chunks' = <<>> <=> readPos' = writePos'
    BY <1>1, <1>2, <1>4, <1>8
  <2>2. ASSUME chunks' # <<>>
        PROVE  Start(1)' = After(readPos)' /\ End(n - 1)' = writePos'
    <3>1. n - 1 \in 1 .. n - 1 /\ 1 \in 1 .. n - 1 /\ (n - 1) + 1 = n
      BY <1>2, <2>2
    <3>2. Start(1)' = Start(1 + 1) /\ End(n - 1)' = End(n)
      BY <1>2, <3>1
    <3>3. After(readPos)' = After(End(1))
      BY <1>1, <1>2 DEF After
    <3> QED
      BY <1>1, <1>4, <3>1, <3>2, <3>3
  <2>3. ASSUME NEW i \in 1 .. n - 2
        PROVE  Start(i + 1)' = After(End(i))'
    <3>1. i \in 1 .. n - 1 /\ i + 1 \in 1 .. n - 1
      BY <1>2
    <3>2. Start(i + 1)' = Start((i + 1) + 1) /\ End(i)' = End(i + 1)
      BY <1>2, <3>1
    <3>3. After(End(i))' = After(End(i + 1))
      BY <1>1, <3>2 DEF After
    <3> QED
      BY <1>4, <3>1, <3>2, <3>3
  <2>4. Len(chunks') - 1 = n - 2 /\ Len(chunks') = n - 1
    BY <1>2
  <2> QED
    BY <2>1, <2>2, <2>3, <2>4 DEF Chained
\* Where the reader is after the chunk it consumed, in the three shapes.
<1>9. CASE readPos <= writePos
  <2>1. /\ writePos <= waterMark
        /\ \A i \in 1 .. n : readPos <= Start(i) /\ End(i) <= writePos
        /\ \A i, j \in 1 .. n : i < j => End(i) <= Start(j)
    BY <1>9 DEF IInv, Layout, Ordered
  <2>2. Ordered'
    <3>1. readPos' <= writePos' /\ writePos' <= waterMark'
      BY <1>1, <1>2, <1>5, <2>1
    <3>2. ASSUME NEW i \in 1 .. n - 1
          PROVE  readPos' <= Start(i)' /\ End(i)' <= writePos'
      BY <1>1, <1>2, <1>5, <2>1
    <3>3. ASSUME NEW i \in 1 .. n - 1, NEW j \in 1 .. n - 1, i < j
          PROVE  End(i)' <= Start(j)'
      BY <1>2, <1>5, <2>1, <3>3
    <3> QED
      BY <1>2, <3>1, <3>2, <3>3 DEF Ordered
  <2>3. n # 1 => readPos' # writePos'
    <3>1. n # 1 => 2 \in 1 .. n
      BY <1>2
    <3>2. n # 1 => End(1) <= Start(2) /\ Start(2) < End(2) /\ End(2) <= writePos
      BY <1>3, <1>5, <2>1, <3>1
    <3> QED
      BY <1>1, <1>2, <1>3, <1>5, <3>1, <3>2
  <2>4. Chained'
    BY <1>8, <2>3
  <2> QED
    BY <1>6, <1>7, <2>2, <2>4 DEF IInv, Layout
<1>10. CASE writePos < readPos
  <2>1. /\ readPos <= waterMark
        /\ \A i \in 1 .. n : \/ readPos <= Start(i) /\ End(i) <= waterMark
                             \/ End(i) <= writePos
        /\ \A i, j \in 1 .. n : i < j => \/ End(i) <= Start(j)
                                         \/ readPos <= Start(i) /\ End(j) <= writePos
    <3>1. ~(readPos <= writePos)
      BY <1>1, <1>10
    <3> QED
      BY <3>1 DEF IInv, Layout, Ordered
  <2>2. CASE readPos = waterMark
    \* The chunks before the water mark are read: all that is left is at the start.
    <3>1. \A i \in 1 .. n : End(i) <= writePos /\ Start(i) < readPos
      BY <1>1, <1>3, <1>10, <2>1, <2>2
    <3>2. \A i, j \in 1 .. n : i < j => End(i) <= Start(j)
      BY <1>1, <1>3, <2>1, <3>1
    <3>3. Ordered'
      <4>1. readPos' <= writePos' /\ writePos' <= waterMark'
        BY <1>1, <1>2, <1>5, <1>10, <2>2, <3>1
      <4>2. ASSUME NEW i \in 1 .. n - 1
            PROVE  readPos' <= Start(i)' /\ End(i)' <= writePos'
        BY <1>1, <1>2, <1>5, <3>1, <3>2
      <4>3. ASSUME NEW i \in 1 .. n - 1, NEW j \in 1 .. n - 1, i < j
            PROVE  End(i)' <= Start(j)'
        BY <1>2, <1>5, <3>2, <4>3
      <4> QED
        BY <1>2, <4>1, <4>2, <4>3 DEF Ordered
    <3>4. n # 1 => readPos' # writePos'
      BY <1>1, <1>2, <1>3, <1>5, <3>1, <3>2
    <3>5. Chained'
      BY <1>8, <3>4
    <3> QED
      BY <1>6, <1>7, <3>3, <3>5 DEF IInv, Layout
  <2>3. CASE readPos # waterMark
    \* The chunk just read lies before the water mark, and so does the reader still.
    <3>1. Start(1) = readPos
      BY <1>4, <2>3 DEF After
    <3>2. readPos < End(1) /\ End(1) <= waterMark
      BY <1>1, <1>3, <1>5, <1>10, <2>1, <3>1
    <3>3. \A i \in 1 .. n - 1 : \/ End(1) <= Start(i + 1) /\ End(i + 1) <= waterMark
                                \/ End(i + 1) <= writePos
      BY <1>1, <1>3, <1>5, <1>10, <2>1, <3>1
    <3>4. Ordered'
      <4>1. readPos' <= waterMark' /\ ~(readPos' <= writePos')
        BY <1>1, <1>2, <1>3, <1>5, <1>10, <3>2
      <4>2. ASSUME NEW i \in 1 .. n - 1
            PROVE  \/ readPos' <= Start(i)' /\ End(i)' <= waterMark'
                   \/ End(i)' <= writePos'
        BY <1>1, <1>2, <3>3
      <4>3. ASSUME NEW i \in 1 .. n - 1, NEW j \in 1 .. n - 1, i < j
            PROVE  \/ End(i)' <= Start(j)'
                   \/ readPos' <= Start(i)' /\ End(j)' <= writePos'
        <5>1. /\ i + 1 \in 1 .. n /\ j + 1 \in 1 .. n /\ i + 1 < j + 1
              /\ Start(i)' = Start(i + 1) /\ End(i)' = End(i + 1)
              /\ Start(j)' = Start(j + 1) /\ End(j)' = End(j + 1)
          BY <1>2, <1>5, <4>3
        <5>2. \/ End(i + 1) <= Start(j + 1)
              \/ readPos <= Start(i + 1) /\ End(j + 1) <= writePos
          BY <2>1, <5>1
        <5>3. \/ End(1) <= Start(i + 1)
              \/ End(i + 1) <= writePos
          BY <3>3
        <5>4. readPos <= Start(i + 1) => ~(End(i + 1) <= writePos)
          BY <1>1, <1>3, <1>10, <5>1
        <5> QED
          BY <1>1, <1>2, <5>1, <5>2, <5>3, <5>4
      <4> QED
        BY <1>2, <4>1, <4>2, <4>3 DEF Ordered
    <3>5. readPos' # writePos'
      BY <1>1, <1>2, <1>3, <1>5, <1>10, <3>2
    <3>7. Chained'
      BY <1>8, <3>5
    <3> QED
      BY <1>6, <1>7, <3>4, <3>7 DEF IInv, Layout
  <2> QED
    BY <2>2, <2>3
<1> QED
  BY <1>1, <1>9, <1>10

-----------------------------------------------------------------------------
(* The invariant *)

\* The empty buffer satisfies the invariant.
LEMMA InitInv ==
    ASSUME Init
    PROVE  IInv
<1>1. /\ Size \in Nat /\ HeaderSize \in Nat /\ EofChunk \in Chunk
      /\ Blank \in Cell
  BY SizeAssumption DEF Blank, Cell
<1>2. TypeOK
  BY <1>1 DEF Init, TypeOK
<1>3. Len(chunks) = 0 /\ chunks = <<>>
  BY DEF Init
<1>4. Layout
  BY <1>1, <1>3 DEF Init, Layout, Chained, Ordered, ChunksIntact
<1> QED
  BY <1>2, <1>4 DEF IInv

\* The state an operation leaves when it touches neither memory nor positions.
LEMMA SameLayout ==
    ASSUME IInv, UNCHANGED <<mem, readPos, writePos, waterMark, chunks>>
    PROVE  Layout'
BY DEF IInv, Layout, Chained, Ordered, ChunksIntact, CellAt, Start, End, After, WriteSize

\* write() preserves the invariant, whichever of its branches it takes.
LEMMA WriteStep ==
    ASSUME IInv, NEW c \in Chunk, Write(c)
    PROVE  IInv'
<1>1. CASE WriteRefused(c)
  <2>1. TypeOK'
    BY <1>1 DEF IInv, TypeOK, WriteRefused, Position, Cell, BlockOf, NoBlock, WriteSize
  <2> QED
    BY <1>1, <2>1, SameLayout DEF IInv, WriteRefused
<1> QED
  BY <1>1, WriteAtEndStep, WriteWrappedStep, WriteBehindReaderStep DEF Write

\* Every operation of the buffer preserves the invariant.
LEMMA NextInv ==
    ASSUME IInv, [Next]_vars
    PROVE  IInv'
<1>1. ASSUME NEW c \in Chunk \ {EofChunk}, Write(c)
      PROVE  IInv'
  BY <1>1, WriteStep
<1>2. CASE WriteEnd
  BY <1>2, WriteStep, SizeAssumption DEF WriteEnd
<1>3. CASE Read
  BY <1>3, ReadStep
<1>4. CASE ReadNothing
  <2>1. TypeOK'
    BY <1>4 DEF IInv, TypeOK, ReadNothing, Position, Cell, BlockOf, NoBlock, WriteSize
  <2> QED
    BY <1>4, <2>1, SameLayout DEF IInv, ReadNothing
<1>5. CASE Clear
  <2>1. TypeOK'
    <3>1. /\ mem' = mem /\ out' = out /\ accepted' = accepted
          /\ readPos' \in 0 .. Size /\ writePos' \in 0 .. Size /\ waterMark' \in 0 .. Size
      BY <1>5, SizeAssumption DEF Clear
    <3>2. chunks' \in Seq(Stored)
      BY <1>5, EmptySeq DEF Clear
    <3> QED
      BY <3>1, <3>2 DEF IInv, TypeOK, Stored, Position, Cell, BlockOf, NoBlock, WriteSize
  <2>2. chunks' = <<>> /\ Len(chunks') = 0
    BY <1>5 DEF Clear
  <2>3. Layout'
    BY <1>5, <2>2, SizeAssumption DEF Clear, Layout, Chained, Ordered, ChunksIntact
  <2> QED
    BY <2>1, <2>3 DEF IInv
<1>6. CASE UNCHANGED vars
  <2>1. TypeOK'
    BY <1>6 DEF IInv, TypeOK, vars, Position, Cell, BlockOf, NoBlock, WriteSize
  <2> QED
    BY <1>6, <2>1, SameLayout DEF IInv, vars
<1> QED
  BY <1>1, <1>2, <1>3, <1>4, <1>5, <1>6 DEF Next

\* In every run of the buffer, whatever its size and the chunks delivered, the
\* unread chunks are chained from readPos_ to writePos_, do not overlap, and hold
\* what was written.
THEOREM Invariance == Spec => []IInv
<1>1. Init => IInv
  BY InitInv
<1>2. IInv /\ [Next]_vars => IInv'
  BY NextInv
<1> QED
  BY <1>1, <1>2, PTL DEF Spec

\* In every run of the buffer, whatever its size and the chunks delivered, the
\* positions stay in the array and a read hands out one whole chunk.
THEOREM TypeCorrect == Spec => []TypeOK
<1>1. IInv => TypeOK
  BY DEF IInv
<1> QED
  BY <1>1, Invariance, PTL

\* readPos_ = writePos_ always means that nothing is unread, never that the array
\* is full, and every chunk is found where the one before it leads.
THEOREM UnreadChunksChained == Spec => []Chained
<1>1. IInv => Chained
  BY DEF IInv, Layout
<1> QED
  BY <1>1, Invariance, PTL

\* Unread chunks never overlap, and lie between the reader and the writer.
THEOREM UnreadChunksOrdered == Spec => []Ordered
<1>1. IInv => Ordered
  BY DEF IInv, Layout
<1> QED
  BY <1>1, Invariance, PTL

\* No write ever overwrites a cell of a chunk that is still to be read.
THEOREM UnreadChunksIntact == Spec => []ChunksIntact
<1>1. IInv => ChunksIntact
  BY DEF IInv, Layout
<1> QED
  BY <1>1, Invariance, PTL

-----------------------------------------------------------------------------
(* The refinement *)

Blocks == {BlockOf(c) : c \in Chunk}

\* The queue the buffer stands for is typed, and as long as its chunks.
LEMMA UnreadFacts ==
    ASSUME IInv
    PROVE  /\ unread \in Seq(Blocks)
           /\ Len(unread) = Len(chunks)
           /\ \A i \in 1 .. Len(chunks) : unread[i] = BlockOf(chunks[i].chunk)
           /\ unread = <<>> <=> chunks = <<>>
<1>1. /\ Len(chunks) \in Nat
      /\ chunks = <<>> <=> Len(chunks) = 0
      /\ \A i \in 1 .. Len(chunks) : BlockOf(chunks[i].chunk) \in Blocks
  BY ChunkFacts DEF Blocks
<1>2. unread \in [1 .. Len(chunks) -> Blocks]
  BY <1>1 DEF unread
<1>3. unread \in Seq(Blocks)
  BY <1>1, <1>2, SeqDef
<1>4. Len(unread) = Len(chunks)
  BY <1>1, <1>2, <1>3, LenProperties
<1> QED
  BY <1>1, <1>3, <1>4, EmptyFacts DEF unread

\* The queue elements, the chunks being what is stored, as facts about each other.
LEMMA WriteDataPuts ==
    ASSUME IInv, IInv', NEW c \in Chunk, NEW p \in Position, WriteData(c, p)
    PROVE  Queue!Put(BlockOf(c))
<1> PICK n : n = Len(chunks)
  OBVIOUS
<1>1. /\ n \in Nat
      /\ Len(chunks') = n + 1
      /\ \A i \in 1 .. n : chunks'[i] = chunks[i]
      /\ chunks'[n + 1].chunk = c
  BY WriteDataFacts, ChunkFacts
<1>2. /\ unread \in Seq(Blocks)
      /\ Len(unread) = n
      /\ \A i \in 1 .. n : unread[i] = BlockOf(chunks[i].chunk)
  BY UnreadFacts
<1>3. /\ unread' \in Seq(Blocks)
      /\ Len(unread') = n + 1
      /\ \A i \in 1 .. n + 1 : unread'[i] = BlockOf(chunks'[i].chunk)
  <2>1. (/\ unread \in Seq(Blocks)
         /\ Len(unread) = Len(chunks)
         /\ \A i \in 1 .. Len(chunks) : unread[i] = BlockOf(chunks[i].chunk))'
    BY UnreadFacts, PTL
  <2> QED
    BY <1>1, <2>1 DEF Blocks, BlockOf, WriteSize
<1>4. BlockOf(c) \in Blocks
  BY DEF Blocks
<1> DEFINE s == Append(unread, BlockOf(c))
<1>5. /\ s \in Seq(Blocks)
      /\ Len(s) = n + 1
      /\ \A i \in 1 .. n : s[i] = unread[i]
      /\ s[n + 1] = BlockOf(c)
  BY <1>2, <1>4, AppendFacts
<1>6. \A i \in 1 .. n + 1 : unread'[i] = s[i]
  BY <1>1, <1>2, <1>3, <1>5
<1>7. unread' = s
  <2> HIDE DEF s
  <2> QED
    BY <1>3, <1>5, <1>6, SeqEqual
<1> QED
  BY <1>7 DEF WriteData, Queue!Put

\* write() is a Put of AudioQueue or a Refuse, and never refuses when empty.
LEMMA WriteRefines ==
    ASSUME IInv, IInv', NEW c \in Chunk, Write(c)
    PROVE  Queue!Next
<1>1. /\ Size \in Nat
      /\ readPos \in 0 .. Size /\ writePos \in 0 .. Size
      /\ WriteSize(c) \in Nat /\ WriteSize(c) >= 1 /\ 2 * WriteSize(c) <= Size
  BY WriteSizeFacts, SizeAssumption DEF IInv, TypeOK
<1>2. ASSUME NEW p \in Position, WriteData(c, p)
      PROVE  Queue!Next
  BY <1>2, WriteDataPuts DEF Queue!Next
<1>3. CASE WriteAtEnd(c)
  <2>1. writePos \in Position /\ WriteData(c, writePos)
    BY <1>1, <1>3 DEF WriteAtEnd, FitsAtEnd, Position
  <2> QED
    BY <1>2, <2>1
<1>4. CASE WriteWrapped(c)
  <2>1. 0 \in Position /\ WriteData(c, 0)
    BY <1>1, <1>4 DEF WriteWrapped, Position
  <2> QED
    BY <1>2, <2>1
<1>5. CASE WriteBehindReader(c)
  <2>1. writePos \in Position /\ WriteData(c, writePos)
    BY <1>1, <1>5 DEF WriteBehindReader, WriteLeads, Position
  <2> QED
    BY <1>2, <2>1
<1>6. CASE WriteRefused(c)
  \* Room for two chunks makes room for one at either end of an empty array.
  <2>1. readPos # writePos
    BY <1>1, <1>6 DEF WriteRefused, NoRoom, WriteLeads, FitsAtEnd, FitsAtStart
  <2>2. unread # <<>>
    BY <2>1, UnreadFacts DEF IInv, Layout, Chained
  <2>3. unread' = unread /\ out' = out /\ accepted' = FALSE
    BY <1>6 DEF WriteRefused, unread, BlockOf, WriteSize
  <2> QED
    BY <2>2, <2>3 DEF Queue!Next, Queue!Refuse
<1> QED
  BY <1>3, <1>4, <1>5, <1>6 DEF Write

\* read() is a Get of AudioQueue.
LEMMA ReadRefines ==
    ASSUME IInv, IInv', Read
    PROVE  Queue!Get
<1> PICK n : n = Len(chunks)
  OBVIOUS
<1>1. /\ n \in Nat \ {0}
      /\ out' = BlockOf(chunks[1].chunk)
      /\ Len(chunks') = n - 1
      /\ \A i \in 1 .. n - 1 : chunks'[i] = chunks[i + 1]
  BY ReadFacts
<1>2. /\ unread \in Seq(Blocks)
      /\ Len(unread) = n
      /\ \A i \in 1 .. n : unread[i] = BlockOf(chunks[i].chunk)
      /\ unread # <<>>
  BY <1>1, UnreadFacts, ChunkFacts
<1>3. /\ unread' \in Seq(Blocks)
      /\ Len(unread') = n - 1
      /\ \A i \in 1 .. n - 1 : unread'[i] = BlockOf(chunks'[i].chunk)
  <2>1. (/\ unread \in Seq(Blocks)
         /\ Len(unread) = Len(chunks)
         /\ \A i \in 1 .. Len(chunks) : unread[i] = BlockOf(chunks[i].chunk))'
    BY UnreadFacts, PTL
  <2> QED
    BY <1>1, <2>1 DEF Blocks, BlockOf, WriteSize
<1>4. /\ Tail(unread) \in Seq(Blocks)
      /\ Len(Tail(unread)) = n - 1
      /\ \A i \in 1 .. n - 1 : Tail(unread)[i] = unread[i + 1]
  BY <1>2, TailFacts
<1>5. \A i \in 1 .. n - 1 : unread'[i] = Tail(unread)[i]
  BY <1>1, <1>2, <1>3, <1>4
<1>6. unread' = Tail(unread)
  BY <1>3, <1>4, <1>5, SeqEqual
<1>7. Head(unread) = unread[1] /\ unread[1] = BlockOf(chunks[1].chunk)
  BY <1>1, <1>2
<1>8. accepted' = accepted
  BY DEF Read
<1> QED
  BY <1>1, <1>2, <1>6, <1>7, <1>8 DEF Queue!Get

\* Every operation of the buffer is one of AudioQueue, or changes nothing in it.
LEMMA NextRefines ==
    ASSUME IInv, IInv', [Next]_vars
    PROVE  [Queue!Next]_Queue!vars
<1>1. ASSUME NEW c \in Chunk \ {EofChunk}, Write(c)
      PROVE  Queue!Next
  BY <1>1, WriteRefines
<1>2. CASE WriteEnd
  BY <1>2, WriteRefines, SizeAssumption DEF WriteEnd
<1>3. CASE Read
  BY <1>3, ReadRefines DEF Queue!Next
<1>4. CASE ReadNothing
  <2>1. unread = <<>>
    BY <1>4, UnreadFacts DEF IInv, Layout, Chained, ReadNothing
  <2>2. unread' = unread /\ accepted' = accepted /\ out' = NoBlock
    BY <1>4 DEF ReadNothing, unread, BlockOf, WriteSize
  <2> QED
    BY <2>1, <2>2 DEF Queue!Next, Queue!GetNothing
<1>5. CASE Clear
  <2>1. (unread = <<>> <=> chunks = <<>>)'
    BY UnreadFacts, PTL
  <2>2. unread' = <<>> /\ out' = out /\ accepted' = accepted
    BY <1>5, <2>1 DEF Clear
  <2> QED
    BY <2>2 DEF Queue!Next, Queue!Clear
<1>6. CASE UNCHANGED vars
  BY <1>6 DEF vars, Queue!vars, unread, BlockOf, WriteSize
<1> QED
  BY <1>1, <1>2, <1>3, <1>4, <1>5, <1>6 DEF Next

\* The buffer implements the queue for every array size that holds two chunks:
\* read() returns the chunks whole, once and in the order write() accepted
\* them, returns false only when none is unread, and write() into an empty
\* buffer always succeeds.
THEOREM Refinement == Spec => ImplementsQueue
<1>1. Init => Queue!Init
  <2> SUFFICES ASSUME Init
               PROVE  Queue!Init
    OBVIOUS
  <2>1. unread = <<>>
    BY InitInv, UnreadFacts DEF Init
  <2> QED
    BY <2>1 DEF Init, Queue!Init
<1>2. IInv /\ IInv' /\ [Next]_vars => [Queue!Next]_Queue!vars
  BY NextRefines
<1> QED
  BY <1>1, <1>2, Invariance, PTL DEF Spec, ImplementsQueue, Queue!Spec

-----------------------------------------------------------------------------
(* Refusals *)

\* Every operation leaves the water mark less than a chunk from the end while the
\* writer is behind the reader: only a wrap-around gets it there, and a read that
\* wraps around gets in front of the writer no more.
LEMMA MarkStep ==
    ASSUME IInv, IInv', MarkNearEnd, [Next]_vars
    PROVE  MarkNearEnd'
<1>1. /\ Size \in Nat
      /\ readPos \in 0 .. Size /\ writePos \in 0 .. Size /\ waterMark \in 0 .. Size
      /\ readPos' \in 0 .. Size /\ writePos' \in 0 .. Size /\ waterMark' \in 0 .. Size
  BY SizeAssumption DEF IInv, TypeOK
<1>2. SUFFICES ASSUME writePos' < readPos'
               PROVE  \E other \in Chunk : waterMark' + WriteSize(other) > Size
  BY DEF MarkNearEnd, WriteSize
<1>3. ASSUME NEW c \in Chunk, Write(c)
      PROVE  \E other \in Chunk : waterMark' + WriteSize(other) > Size
  <2>1. WriteSize(c) \in Nat
    BY WriteSizeFacts
  <2>2. CASE WriteAtEnd(c)
    BY <1>1, <1>2, <2>1, <2>2 DEF WriteAtEnd, WriteLeads, WriteData
  <2>3. CASE WriteWrapped(c)
    <3>1. waterMark' + WriteSize(c) > Size
      BY <1>1, <2>1, <2>3 DEF WriteWrapped, FitsAtEnd
    <3> QED
      BY <3>1
  <2>4. CASE WriteBehindReader(c)
    BY <1>1, <2>4 DEF WriteBehindReader, WriteLeads, MarkNearEnd
  <2>5. CASE WriteRefused(c)
    BY <1>1, <1>2, <2>5 DEF WriteRefused, MarkNearEnd
  <2> QED
    BY <1>3, <2>2, <2>3, <2>4, <2>5 DEF Write
<1>4. CASE Read
  <2>1. /\ Len(chunks) \in Nat \ {0}
        /\ readPos' = End(1)
        /\ writePos' = writePos /\ waterMark' = waterMark
    BY <1>4, ReadFacts DEF Read
  <2>2. writePos < readPos
    <3>1. CASE readPos <= writePos
      BY <1>1, <1>2, <2>1, <3>1 DEF IInv, Layout, Ordered
    <3> QED
      BY <1>1, <3>1
  <2> QED
    BY <2>1, <2>2 DEF MarkNearEnd
<1>5. CASE ReadNothing
  BY <1>2, <1>5 DEF ReadNothing, MarkNearEnd
<1>6. CASE Clear
  BY <1>2, <1>6 DEF Clear
<1>7. CASE UNCHANGED vars
  BY <1>2, <1>7 DEF vars, MarkNearEnd
<1> QED
  BY <1>3, <1>4, <1>5, <1>6, <1>7, SizeAssumption DEF Next, WriteEnd

\* Where there is no room for a chunk, the array is full but for that chunk and a
\* further one.
LEMMA NoRoomIsFull ==
    ASSUME IInv, MarkNearEnd
    PROVE  RefusedOnlyWhenFull
<1> SUFFICES ASSUME NEW c \in Chunk, NoRoom(c)
             PROVE  \E other \in Chunk : Used + WriteSize(c) + WriteSize(other) > Size
  BY DEF RefusedOnlyWhenFull
<1>1. /\ Size \in Nat /\ WriteSize(c) \in Nat
      /\ readPos \in 0 .. Size /\ writePos \in 0 .. Size /\ waterMark \in 0 .. Size
  BY SizeAssumption, WriteSizeFacts DEF IInv, TypeOK
<1>2. CASE WriteLeads
  <2>1. readPos <= WriteSize(c) /\ writePos + WriteSize(c) > Size
    BY <1>1, <1>2 DEF NoRoom, FitsAtEnd, FitsAtStart
  <2>2. Used = writePos - readPos
    BY <1>1, <1>2 DEF WriteLeads, Used
  <2>3. Used + WriteSize(c) + WriteSize(c) > Size
    BY <1>1, <2>1, <2>2
  <2> QED
    BY <2>3
<1>3. CASE ~WriteLeads
  <2>1. readPos - writePos <= WriteSize(c) /\ writePos < readPos
    BY <1>1, <1>3 DEF NoRoom, FitsBehindReader, WriteLeads
  <2>2. PICK other \in Chunk : waterMark + WriteSize(other) > Size
    BY <2>1 DEF MarkNearEnd
  <2>3. WriteSize(other) \in Nat
    BY WriteSizeFacts
  <2>4. Used = waterMark - readPos + writePos
    BY <1>1, <2>1 DEF Used
  <2>5. Used + WriteSize(c) + WriteSize(other) > Size
    BY <1>1, <2>1, <2>2, <2>3, <2>4
  <2> QED
    BY <2>5
<1> QED
  BY <1>2, <1>3

\* For every array size and every set of chunks, write() refuses a chunk only when
\* that chunk and one further chunk would not fit beside what is unread: storing
\* chunks in one piece never costs more than that.
THEOREM RefusesOnlyWhenFull == Spec => []RefusedOnlyWhenFull
<1>1. Init => MarkNearEnd
  BY DEF Init, MarkNearEnd
<1>2. IInv /\ IInv' /\ MarkNearEnd /\ [Next]_vars => MarkNearEnd'
  BY MarkStep
<1>3. IInv /\ MarkNearEnd => RefusedOnlyWhenFull
  BY NoRoomIsFull
<1> QED
  BY <1>1, <1>2, <1>3, Invariance, PTL DEF Spec
=============================================================================
