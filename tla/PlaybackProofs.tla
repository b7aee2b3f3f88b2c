--------------------------- MODULE PlaybackProofs ---------------------------
(***************************************************************************)
(* Proofs about Playback for every set of inputs, capacity and length of   *)
(* track: one decoder at a time, nothing stale after a flush, no frame     *)
(* lost or repeated, and no end before the last one.                       *)
(***************************************************************************)
EXTENDS Playback, SequenceTheorems, TLAPS

\* The frame in flight belongs to the stream the player is on, unless a flush is
\* still to come: the delivery thread delivers the frame it holds before a flush.
InflightIsFresh ==
    loaded # 0 /\ ~discontinuity /\ inflight # NoBlock => inflight.stream = loaded

\* The track that ends is loaded: unloading forgets its end.
EndingIsLoaded == ending => loaded # 0

-----------------------------------------------------------------------------
(* The buffer *)

\* A block that is put follows those that are there.
LEMMA PutFacts ==
    ASSUME NEW b \in Block, queue \in Seq(Block), Buffer!Put(b)
    PROVE  /\ queue' \in Seq(Block)
           /\ \A k \in 1 .. Len(queue') :
                \/ queue'[k] = b
                \/ k \in 1 .. Len(queue) /\ queue'[k] = queue[k]
<1>1. queue' = Append(queue, b)
  BY DEF Buffer!Put
<1>2. /\ queue' \in Seq(Block)
      /\ Len(queue') = Len(queue) + 1
      /\ Len(queue) \in Nat
      /\ \A k \in 1 .. Len(queue) : queue'[k] = queue[k]
      /\ queue'[Len(queue) + 1] = b
  BY <1>1, AppendProperties, LenProperties
<1> QED
  BY <1>2

\* What is left after a block is taken was there before.
LEMMA GetFacts ==
    ASSUME queue \in Seq(Block), Buffer!Get
    PROVE  /\ queue' \in Seq(Block)
           /\ Head(queue) \in Block
           /\ \A k \in 1 .. Len(queue') :
                k + 1 \in 1 .. Len(queue) /\ queue'[k] = queue[k + 1]
<1>1. queue # <<>> /\ queue' = Tail(queue)
  BY DEF Buffer!Get
<1>2. /\ queue' \in Seq(Block)
      /\ Head(queue) \in Block
      /\ Len(queue') = Len(queue) - 1
      /\ Len(queue) \in Nat
      /\ \A k \in 1 .. Len(queue') : queue'[k] = queue[k + 1]
  BY <1>1, HeadTailProperties, LenProperties
<1> QED
  BY <1>2

\* The end mark of a loaded stream is a block.
LEMMA EofIsBlock ==
    ASSUME TypeOK, EndingIsLoaded, ending
    PROVE  Eof(loaded) \in Block
<1>1. loaded \in 1 .. MaxStreams /\ 0 \in 0 .. TrackLength
  BY PlaybackAssumption DEF TypeOK, EndingIsLoaded
<1> QED
  BY <1>1 DEF Eof, Block, Stream

-----------------------------------------------------------------------------
(* One decoder at a time *)

\* Who decodes is a matter of these four variables.
LEMMA SameDecoder ==
    ASSUME SingleDecoder, UNCHANGED <<owner, users, hasDecoder, pc>>
    PROVE  SingleDecoder'
BY DEF SingleDecoder

\* No step of an input makes the backend and the inputs disagree.
LEMMA DecoderStep ==
    ASSUME TypeOK, SingleDecoder, [Next]_vars
    PROVE  SingleDecoder'
<1> USE PlaybackAssumption
<1>a. /\ hasDecoder \in [Inputs -> BOOLEAN]
      /\ pc \in [Inputs -> Point]
      /\ owner \in Inputs \cup {NoOwner}
      /\ users \subseteq Inputs
  BY DEF TypeOK
<1>1. ASSUME NEW i \in Inputs, Open(i)
      PROVE  SingleDecoder'
  BY <1>a, <1>1 DEF Open, Register, Goto, SingleDecoder, InDecode
<1>2. ASSUME NEW i \in Inputs, Destroy(i)
      PROVE  SingleDecoder'
  BY <1>a, <1>2 DEF Destroy, Goto, SingleDecoder, InDecode
<1>3. ASSUME NEW i \in Inputs, InitializeAcquire(i)
      PROVE  SingleDecoder'
  BY <1>a, <1>3 DEF InitializeAcquire, AcquireDecoder, Register, Goto, SingleDecoder, InDecode
<1>4. ASSUME NEW i \in Inputs, InitializeClear(i) \/ SeekClear(i)
      PROVE  SingleDecoder'
  BY <1>a, <1>4 DEF InitializeClear, SeekClear, Goto, SingleDecoder, InDecode
<1>5. ASSUME NEW i \in Inputs, InitializeLoad(i)
      PROVE  SingleDecoder'
  BY <1>a, <1>5 DEF InitializeLoad, Goto, SingleDecoder, InDecode
<1>6. ASSUME NEW i \in Inputs, SeekPlayer(i)
      PROVE  SingleDecoder'
  BY <1>a, <1>6 DEF SeekPlayer, Goto, SingleDecoder, InDecode
<1>7. ASSUME NEW i \in Inputs, Run(i) \/ ReadAgain(i)
      PROVE  SingleDecoder'
  <2>1. /\ pc[i] \in InDecode
        /\ \/ Finish(i)
           \/ /\ \E p \in {"idle", "waiting"} : Goto(i, p)
              /\ UNCHANGED <<owner, hasDecoder>>
        /\ users' = users
    BY <1>7 DEF Run, ReadAgain, ReadBlock, InDecode
  <2>2. owner = i
    BY <2>1 DEF SingleDecoder
  <2> QED
    BY <1>a, <2>1, <2>2 DEF Finish, Goto, SingleDecoder, InDecode
<1>8. ASSUME NEW i \in Inputs, WaitForData(i)
      PROVE  SingleDecoder'
  BY <1>a, <1>8 DEF WaitForData, Goto, SingleDecoder, InDecode
<1>9. ASSUME \/ FetchFrame \/ PostEndOfTrack
             \/ DeliverDiscontinuity \/ MusicDelivery \/ EndOfTrack
             \/ OnPlaybackPause \/ OnPlaybackStop
             \/ UNCHANGED vars
      PROVE  SingleDecoder'
  BY <1>9, SameDecoder DEF FetchFrame, PostEndOfTrack, DeliverDiscontinuity, MusicDelivery,
     EndOfTrack, OnPlaybackPause, OnPlaybackStop, vars, decoder
<1> QED
  BY <1>1, <1>2, <1>3, <1>4, <1>5, <1>6, <1>7, <1>8, <1>9 DEF Next, InputNext

-----------------------------------------------------------------------------
(* Nothing stale after a flush *)

Fresh == FlushedIsFresh /\ InflightIsFresh /\ EndingIsLoaded

\* What the buffer and the player hold stays fresh when the player is left alone
\* and blocks are only removed from the buffer.
LEMMA StillFresh ==
    ASSUME Fresh, queue \in Seq(Block),
           UNCHANGED player,
           \/ UNCHANGED queue
           \/ Buffer!Clear
           \/ Buffer!GetNothing
           \/ Buffer!Get
    PROVE  Fresh'
<1>1. UNCHANGED <<loaded, discontinuity, inflight, ending>>
  BY DEF player
<1>2. \A k \in 1 .. Len(queue') : \E j \in 1 .. Len(queue) : queue'[k] = queue[j]
  <2>1. CASE Buffer!Clear
    BY <2>1 DEF Buffer!Clear
  <2>2. CASE Buffer!Get
    BY <2>2, GetFacts
  <2> QED
    BY <2>1, <2>2 DEF Buffer!GetNothing
<1> QED
  BY <1>1, <1>2 DEF Fresh, FlushedIsFresh, InflightIsFresh, EndingIsLoaded

\* A load or a seek announces a flush, and the end of the track before it is forgotten.
LEMMA StartIsFresh ==
    ASSUME NEW i, NEW t, StartStream(i, t)
    PROVE  Fresh'
BY DEF StartStream, Fresh, FlushedIsFresh, InflightIsFresh, EndingIsLoaded

\* A frame is fresh when it is queued, since a flush waits for the frame in flight;
\* so is the end mark of a track that is loaded.
LEMMA FreshStep ==
    ASSUME TypeOK, Fresh, [Next]_vars
    PROVE  Fresh'
<1>a. queue \in Seq(Block)
  BY DEF TypeOK, Buffer!TypeOK
<1>1. CASE FetchFrame
  BY <1>1 DEF FetchFrame, buffer, Fresh, FlushedIsFresh, InflightIsFresh, EndingIsLoaded
<1>2. CASE PostEndOfTrack
  BY <1>2 DEF PostEndOfTrack, buffer, Fresh, FlushedIsFresh, InflightIsFresh, EndingIsLoaded
<1>3. CASE DeliverDiscontinuity
  <2>1. Len(queue') = 0
    BY <1>3 DEF DeliverDiscontinuity, Buffer!Clear
  <2> QED
    BY <1>3, <2>1 DEF DeliverDiscontinuity, Fresh, FlushedIsFresh, InflightIsFresh, EndingIsLoaded
<1>4. CASE MusicDelivery
  <2>1. /\ UNCHANGED <<loaded, discontinuity, ending>>
        /\ inflight # NoBlock
        /\ inflight' = NoBlock
        /\ \/ UNCHANGED queue
           \/ ~IsPadding /\ Buffer!Put(inflight)
    BY <1>4 DEF MusicDelivery, Buffer!Refuse, buffer
  <2>2. CASE UNCHANGED queue
    BY <2>1, <2>2 DEF Fresh, FlushedIsFresh, InflightIsFresh, EndingIsLoaded
  <2>3. CASE ~IsPadding /\ Buffer!Put(inflight)
    <3>1. inflight \in Block
      BY <2>1, <2>3, PlaybackAssumption DEF TypeOK, IsPadding, Padding, Frame, Block
    <3>2. \A k \in 1 .. Len(queue') :
            \/ queue'[k] = inflight
            \/ k \in 1 .. Len(queue) /\ queue'[k] = queue[k]
      BY <1>a, <2>3, <3>1, PutFacts
    <3> QED
      BY <2>1, <3>2 DEF Fresh, FlushedIsFresh, InflightIsFresh, EndingIsLoaded
  <2> QED
    BY <2>1, <2>2, <2>3
<1>5. CASE EndOfTrack
  <2>1. /\ UNCHANGED <<loaded, discontinuity, inflight>>
        /\ ending /\ ~ending'
        /\ \/ UNCHANGED queue
           \/ Buffer!Put(Eof(loaded))
    BY <1>5 DEF EndOfTrack, Buffer!Refuse
  <2>2. CASE UNCHANGED queue
    BY <2>1, <2>2 DEF Fresh, FlushedIsFresh, InflightIsFresh, EndingIsLoaded
  <2>3. CASE Buffer!Put(Eof(loaded))
    <3>1. Eof(loaded) \in Block /\ Eof(loaded).stream = loaded
      BY <2>1, EofIsBlock DEF Fresh, Eof
    <3>2. \A k \in 1 .. Len(queue') :
            \/ queue'[k] = Eof(loaded)
            \/ k \in 1 .. Len(queue) /\ queue'[k] = queue[k]
      BY <1>a, <2>3, <3>1, PutFacts
    <3> QED
      BY <2>1, <3>1, <3>2 DEF Fresh, FlushedIsFresh, InflightIsFresh, EndingIsLoaded
  <2> QED
    BY <2>1, <2>2, <2>3
<1>6. CASE OnPlaybackPause \/ OnPlaybackStop
  BY <1>6 DEF OnPlaybackPause, OnPlaybackStop, buffer, Fresh, FlushedIsFresh, InflightIsFresh,
     EndingIsLoaded
<1>7. ASSUME NEW i \in Inputs,
             \/ Open(i) \/ Destroy(i) \/ InitializeAcquire(i) \/ InitializeClear(i)
             \/ Run(i) \/ WaitForData(i) \/ ReadAgain(i) \/ SeekClear(i)
      PROVE  Fresh'
  <2>1. /\ UNCHANGED player
        /\ UNCHANGED queue \/ Buffer!Clear \/ Buffer!GetNothing \/ Buffer!Get
    BY <1>7 DEF Open, Destroy, InitializeAcquire, InitializeClear, Run, WaitForData, ReadAgain,
       SeekClear, ReadBlock, buffer
  <2> QED
    BY <1>a, <2>1, StillFresh
<1>8. ASSUME NEW i \in Inputs, InitializeLoad(i) \/ SeekPlayer(i)
      PROVE  Fresh'
  <2>1. \/ \E t : StartStream(i, t)
        \/ UNCHANGED player /\ UNCHANGED queue
    BY <1>8 DEF InitializeLoad, SeekPlayer, buffer
  <2> QED
    BY <1>a, <2>1, StillFresh, StartIsFresh
<1>9. CASE UNCHANGED vars
  BY <1>9 DEF vars, buffer, player, Fresh, FlushedIsFresh, InflightIsFresh, EndingIsLoaded
<1> QED
  BY <1>1, <1>2, <1>3, <1>4, <1>5, <1>6, <1>7, <1>8, <1>9 DEF Next, InputNext

-----------------------------------------------------------------------------
(* The types *)

\* The types of the three groups of variables.
BufferTypes == Buffer!TypeOK
PlayerTypes ==
    /\ streams \in 0 .. MaxStreams
    /\ loaded \in 0 .. streams
    /\ playing \in BOOLEAN
    /\ sent \in 0 .. Padding + 1
    /\ discontinuity \in BOOLEAN
    /\ inflight \in Frame \cup {NoBlock}
    /\ ending \in BOOLEAN
DecoderTypes ==
    /\ owner \in Inputs \cup {NoOwner}
    /\ users \subseteq Inputs
    /\ hasDecoder \in [Inputs -> BOOLEAN]
    /\ pc \in [Inputs -> Point]
    /\ aborting \in [Inputs -> BOOLEAN]
    /\ stream \in [Inputs -> 0 .. MaxStreams]
    /\ got \in [Inputs -> 0 .. TrackLength]

\* Together they are the type invariant.
LEMMA TypeGroups == TypeOK <=> BufferTypes /\ PlayerTypes /\ DecoderTypes /\ eofLost \in BOOLEAN
BY DEF TypeOK, BufferTypes, PlayerTypes, DecoderTypes

\* The operations of the buffer keep its types.
LEMMA BufferStep ==
    ASSUME BufferTypes,
           \/ UNCHANGED buffer
           \/ \E b \in Block : Buffer!Put(b)
           \/ Buffer!Refuse \/ Buffer!Get \/ Buffer!GetNothing \/ Buffer!Clear
    PROVE  BufferTypes'
<1>a. queue \in Seq(Block) /\ out \in Block \cup {NoBlock} /\ accepted \in BOOLEAN
  BY DEF BufferTypes, Buffer!TypeOK
<1>1. ASSUME NEW b \in Block, Buffer!Put(b)
      PROVE  BufferTypes'
  <2>1. queue' \in Seq(Block)
    BY <1>a, <1>1, PutFacts
  <2> QED
    BY <1>a, <1>1, <2>1 DEF Buffer!Put, BufferTypes, Buffer!TypeOK
<1>2. CASE Buffer!Get
  <2>1. queue' \in Seq(Block) /\ Head(queue) \in Block
    BY <1>a, <1>2, GetFacts
  <2> QED
    BY <1>a, <1>2, <2>1 DEF Buffer!Get, BufferTypes, Buffer!TypeOK
<1>3. CASE UNCHANGED buffer
  BY <1>a, <1>3 DEF buffer, BufferTypes, Buffer!TypeOK
<1>4. CASE Buffer!Refuse
  BY <1>a, <1>4 DEF Buffer!Refuse, BufferTypes, Buffer!TypeOK
<1>5. CASE Buffer!GetNothing
  BY <1>a, <1>5 DEF Buffer!GetNothing, BufferTypes, Buffer!TypeOK
<1>6. CASE Buffer!Clear
  <2>1. <<>> \in Seq(Block)
    BY EmptySeq
  <2> QED
    BY <1>a, <1>6, <2>1 DEF Buffer!Clear, BufferTypes, Buffer!TypeOK
<1> QED
  BY <1>1, <1>2, <1>3, <1>4, <1>5, <1>6

\* A new stream is typed.
LEMMA StartStreamTypes ==
    ASSUME PlayerTypes, DecoderTypes,
           NEW i \in Inputs, NEW t \in 0 .. TrackLength, StartStream(i, t)
    PROVE  /\ streams' \in 0 .. MaxStreams
           /\ loaded' \in 0 .. streams'
           /\ sent' \in 0 .. Padding + 1
           /\ discontinuity' \in BOOLEAN
           /\ inflight' \in Frame \cup {NoBlock}
           /\ ending' \in BOOLEAN
           /\ stream' \in [Inputs -> 0 .. MaxStreams]
           /\ got' \in [Inputs -> 0 .. TrackLength]
<1>1. streams' = streams + 1 /\ streams' \in 0 .. MaxStreams /\ loaded' = streams'
  BY PlaybackAssumption DEF StartStream, PlayerTypes
<1>2. t \in 0 .. Padding + 1
  BY PlaybackAssumption DEF Padding
<1>3. loaded' \in 0 .. streams'
  BY <1>1
<1>4. /\ stream' \in [Inputs -> 0 .. MaxStreams]
      /\ got' \in [Inputs -> 0 .. TrackLength]
  BY <1>1 DEF StartStream, DecoderTypes
<1>5. inflight' \in Frame \cup {NoBlock}
  BY DEF StartStream, PlayerTypes
<1> QED
  BY <1>1, <1>2, <1>3, <1>4, <1>5 DEF StartStream

\* The steps keep every variable in its type.
LEMMA TypeStep ==
    ASSUME TypeOK, EndingIsLoaded, [Next]_vars
    PROVE  TypeOK'
<1> USE PlaybackAssumption
<1>a. BufferTypes /\ PlayerTypes /\ DecoderTypes /\ eofLost \in BOOLEAN
  BY TypeGroups
<1>0. SUFFICES BufferTypes' /\ PlayerTypes' /\ DecoderTypes' /\ eofLost' \in BOOLEAN
  BY DEF TypeOK, BufferTypes, PlayerTypes, DecoderTypes
<1>b. UNCHANGED buffer => BufferTypes'
  BY <1>a, BufferStep
<1>c. UNCHANGED player => PlayerTypes'
  BY <1>a DEF player, PlayerTypes
<1>d. UNCHANGED decoder => DecoderTypes'
  BY <1>a DEF decoder, DecoderTypes
<1>1. CASE FetchFrame
  <2>1. [stream |-> loaded, frame |-> sent + 1] \in Frame
    <3>1. loaded \in Stream /\ sent + 1 \in 1 .. Padding
      BY <1>a, <1>1 DEF FetchFrame, PlayerTypes, Stream, Padding
    <3> QED
      BY <3>1 DEF Frame
  <2>2. PlayerTypes'
    BY <1>a, <1>1, <2>1 DEF FetchFrame, PlayerTypes
  <2> QED
    BY <1>a, <1>b, <1>d, <1>1, <2>2 DEF FetchFrame
<1>2. CASE PostEndOfTrack
  <2>1. PlayerTypes'
    BY <1>a, <1>2 DEF PostEndOfTrack, PlayerTypes, Padding
  <2> QED
    BY <1>a, <1>b, <1>d, <1>2, <2>1 DEF PostEndOfTrack
<1>3. CASE DeliverDiscontinuity
  <2>1. PlayerTypes'
    BY <1>a, <1>3 DEF DeliverDiscontinuity, PlayerTypes
  <2>2. BufferTypes'
    BY <1>a, <1>3, BufferStep DEF DeliverDiscontinuity
  <2> QED
    BY <1>a, <1>d, <1>3, <2>1, <2>2 DEF DeliverDiscontinuity
<1>4. CASE MusicDelivery
  <2>1. inflight \in Frame
    BY <1>a, <1>4 DEF MusicDelivery, PlayerTypes
  <2>2. BufferTypes'
    <3>1. CASE ~IsPadding /\ Buffer!Put(inflight)
      <4>1. inflight \in Block
        BY <2>1, <3>1 DEF IsPadding, Padding, Frame, Block
      <4> QED
        BY <1>a, <3>1, <4>1, BufferStep
    <3>2. CASE UNCHANGED buffer \/ Buffer!Refuse
      BY <1>a, <3>2, BufferStep
    <3> QED
      BY <1>4, <3>1, <3>2 DEF MusicDelivery
  <2>3. sent' \in 0 .. Padding + 1
    BY <1>a, <1>4, <2>1 DEF MusicDelivery, Consumed, Refused, PlayerTypes, Frame, Padding
  <2>4. PlayerTypes'
    BY <1>a, <1>4, <2>3 DEF MusicDelivery, PlayerTypes
  <2> QED
    BY <1>a, <1>d, <1>4, <2>2, <2>4 DEF MusicDelivery
<1>5. CASE EndOfTrack
  <2>1. PlayerTypes'
    BY <1>a, <1>5 DEF EndOfTrack, PlayerTypes
  <2>2. BufferTypes' /\ eofLost' \in BOOLEAN
    BY <1>a, <1>5, BufferStep, EofIsBlock DEF EndOfTrack
  <2> QED
    BY <1>d, <1>5, <2>1, <2>2 DEF EndOfTrack
<1>6. CASE OnPlaybackPause
  <2>1. PlayerTypes'
    BY <1>a, <1>6 DEF OnPlaybackPause, PlayerTypes
  <2> QED
    BY <1>a, <1>b, <1>d, <1>6, <2>1 DEF OnPlaybackPause
<1>7. CASE OnPlaybackStop
  <2>0. /\ loaded' \in {0, loaded}
        /\ discontinuity' \in BOOLEAN
        /\ ending' \in BOOLEAN
    BY <1>a, <1>7 DEF OnPlaybackStop, PlayerTypes
  <2>1. PlayerTypes'
    <3>1. UNCHANGED <<streams, playing, sent, inflight>>
      BY <1>7 DEF OnPlaybackStop
    <3>2. loaded' \in 0 .. streams'
      BY <1>a, <2>0, <3>1 DEF PlayerTypes
    <3> QED
      BY <1>a, <2>0, <3>1, <3>2 DEF PlayerTypes
  <2>2. DecoderTypes'
    BY <1>a, <1>7 DEF OnPlaybackStop, AbortInputs, DecoderTypes
  <2> QED
    BY <1>a, <1>b, <1>7, <2>1, <2>2 DEF OnPlaybackStop
<1>8. ASSUME NEW i \in Inputs, InputNext(i)
      PROVE  BufferTypes' /\ PlayerTypes' /\ DecoderTypes' /\ eofLost' \in BOOLEAN
  <2>1. CASE Open(i) \/ Destroy(i) \/ InitializeAcquire(i) \/ InitializeClear(i) \/ SeekClear(i)
    <3>1. DecoderTypes'
      <4>1. CASE Open(i)
        BY <1>a, <4>1 DEF Open, Register, Goto, DecoderTypes, Point
      <4>2. CASE Destroy(i)
        <5>1. 0 \in 0 .. MaxStreams /\ 0 \in 0 .. TrackLength
          OBVIOUS
        <5>2. owner' \in Inputs \cup {NoOwner} /\ users' \subseteq Inputs
          BY <1>a, <4>2 DEF Destroy, DecoderTypes
        <5>3. /\ hasDecoder' \in [Inputs -> BOOLEAN]
              /\ pc' \in [Inputs -> Point]
              /\ aborting' \in [Inputs -> BOOLEAN]
          BY <1>a, <4>2 DEF Destroy, Goto, DecoderTypes, Point
        <5>4. /\ stream' \in [Inputs -> 0 .. MaxStreams]
              /\ got' \in [Inputs -> 0 .. TrackLength]
          BY <1>a, <4>2, <5>1 DEF Destroy, DecoderTypes
        <5> QED
          BY <5>2, <5>3, <5>4 DEF DecoderTypes
      <4>3. CASE InitializeAcquire(i)
        BY <1>a, <4>3 DEF InitializeAcquire, AcquireDecoder, Register, Goto, DecoderTypes, Point
      <4>4. CASE InitializeClear(i)
        BY <1>a, <4>4 DEF InitializeClear, Goto, DecoderTypes, Point
      <4>5. CASE SeekClear(i)
        BY <1>a, <4>5 DEF SeekClear, Goto, DecoderTypes, Point
      <4> QED
        BY <2>1, <4>1, <4>2, <4>3, <4>4, <4>5
    <3>2. BufferTypes'
      BY <1>a, <2>1, BufferStep DEF Open, Destroy, InitializeAcquire, InitializeClear, SeekClear
    <3> QED
      BY <1>a, <1>c, <2>1, <3>1, <3>2 DEF Open, Destroy, InitializeAcquire, InitializeClear,
         SeekClear
  <2>2. CASE InitializeLoad(i) \/ SeekPlayer(i)
    <3>1. /\ UNCHANGED <<buffer, eofLost, owner, users, hasDecoder, aborting>>
          /\ \E p \in {"idle", "failed"} : Goto(i, p)
          /\ \/ UNCHANGED <<player, stream, got>>
             \/ /\ \E t \in 0 .. TrackLength : StartStream(i, t)
                /\ playing' = TRUE \/ UNCHANGED playing
      BY <2>2 DEF InitializeLoad, SeekPlayer
    <3>2. PlayerTypes' /\ stream' \in [Inputs -> 0 .. MaxStreams]
                       /\ got' \in [Inputs -> 0 .. TrackLength]
      <4>1. CASE UNCHANGED <<player, stream, got>>
        BY <1>a, <1>c, <4>1 DEF DecoderTypes
      <4>2. CASE \E t \in 0 .. TrackLength : StartStream(i, t)
        BY <1>a, <3>1, <4>2, StartStreamTypes DEF PlayerTypes, player
      <4> QED
        BY <3>1, <4>1, <4>2
    <3>3. DecoderTypes'
      BY <1>a, <3>1, <3>2 DEF Goto, DecoderTypes, Point
    <3> QED
      BY <1>a, <1>b, <3>1, <3>2, <3>3
  <2>3. CASE Run(i) \/ ReadAgain(i) \/ WaitForData(i)
    <3>1. queue \in Seq(Block)
      BY <1>a DEF BufferTypes, Buffer!TypeOK
    <3>2. /\ UNCHANGED <<player, eofLost, users, aborting, stream>>
          /\ UNCHANGED buffer \/ Buffer!Get \/ Buffer!GetNothing
          /\ \E p \in {"idle", "waiting", "woken", "done"} : Goto(i, p)
          /\ \/ owner' = NoOwner /\ hasDecoder' = [hasDecoder EXCEPT ![i] = FALSE]
             \/ UNCHANGED <<owner, hasDecoder>>
          /\ \/ UNCHANGED got
             \/ /\ Buffer!Get /\ Head(queue).frame # 0
                /\ got' = [got EXCEPT ![i] = Head(queue).frame]
      BY <2>3 DEF Run, ReadAgain, WaitForData, ReadBlock, Finish
    <3>3. got' \in [Inputs -> 0 .. TrackLength]
      <4>1. CASE UNCHANGED got
        BY <1>a, <4>1 DEF DecoderTypes
      <4>2. CASE Buffer!Get /\ got' = [got EXCEPT ![i] = Head(queue).frame]
        <5>1. Head(queue).frame \in 0 .. TrackLength
          BY <3>1, <4>2, GetFacts DEF Block
        <5> QED
          BY <1>a, <4>2, <5>1 DEF DecoderTypes
      <4> QED
        BY <3>2, <4>1, <4>2
    <3>4. DecoderTypes'
      BY <1>a, <3>2, <3>3 DEF Goto, DecoderTypes, Point
    <3>5. BufferTypes'
      BY <1>a, <3>2, BufferStep
    <3> QED
      BY <1>a, <1>c, <3>2, <3>4, <3>5
  <2> QED
    BY <1>8, <2>1, <2>2, <2>3 DEF InputNext
<1>9. CASE UNCHANGED vars
  BY <1>a, <1>b, <1>c, <1>d, <1>9 DEF vars
<1> QED
  BY <1>1, <1>2, <1>3, <1>4, <1>5, <1>6, <1>7, <1>8, <1>9 DEF Next

-----------------------------------------------------------------------------
(* No frame is missing *)

\* Streams are numbered: what the buffer, the delivery thread and the inputs hold
\* belongs to streams that were started.
Numbered ==
    /\ \A k \in 1 .. Len(queue) : queue[k].stream <= streams
    /\ inflight.stream <= streams
    /\ \A i \in Inputs : stream[i] <= streams /\ (stream[i] = 0 => got[i] = 0)

\* Nothing of a stream arrives before its flush, its end is reported behind the
\* padding, and the frame in flight is the next one.
Announced ==
    /\ discontinuity =>
         /\ loaded # 0 /\ ~ending /\ sent <= TrackLength
         /\ inflight.stream # loaded
         /\ \A k \in 1 .. Len(queue) : queue[k].stream # loaded
    /\ ending => sent = Padding + 1
    /\ loaded # 0 /\ inflight.stream = loaded => inflight.frame = sent + 1 /\ sent < Padding

\* The input reads the stream the player is on.
Reading == {"idle", "waiting", "woken"}
Follows(i) == loaded # 0 /\ stream[i] = loaded /\ pc[i] \in Reading

\* The buffer ends with an end mark.
Marked == Len(queue) > 0 /\ queue[Len(queue)].frame = 0

\* Frames delivered to the buffer: the padding is not.
Delivered == IF sent <= TrackLength THEN sent ELSE TrackLength

\* What an input has got and what the buffer holds are the frames of its stream, one
\* after another, up to the latest that was delivered; the end mark comes behind the last.
NothingMissing ==
    \A i \in Inputs : Follows(i) =>
        IF discontinuity
        THEN got[i] = sent
        ELSE /\ \A k \in 1 .. Len(queue) :
                  k < Len(queue) \/ ~Marked => queue[k].frame = got[i] + k
             /\ IF Marked
                THEN sent = Padding + 1 /\ ~ending /\ got[i] + Len(queue) = Padding
                ELSE got[i] + Len(queue) = Delivered

Frames == Numbered /\ Announced /\ NothingMissing

IInv ==
    /\ TypeOK
    /\ SingleDecoder
    /\ FlushedIsFresh
    /\ InflightIsFresh
    /\ EndingIsLoaded
    /\ Frames

\* The positions of the blocks when one is put.
LEMMA PutPositions ==
    ASSUME NEW b \in Block, queue \in Seq(Block), Buffer!Put(b)
    PROVE  /\ Len(queue) \in Nat
           /\ Len(queue') = Len(queue) + 1
           /\ queue'[Len(queue) + 1] = b
           /\ \A k \in 1 .. Len(queue) : queue'[k] = queue[k]
<1>1. queue' = Append(queue, b)
  BY DEF Buffer!Put
<1> QED
  BY <1>1, AppendProperties, LenProperties

\* The positions of the blocks when one is taken.
LEMMA GetPositions ==
    ASSUME queue \in Seq(Block), Buffer!Get
    PROVE  /\ Len(queue) \in Nat \ {0}
           /\ Head(queue) = queue[1]
           /\ Len(queue') = Len(queue) - 1
           /\ \A k \in 1 .. Len(queue') : queue'[k] = queue[k + 1]
<1>1. queue # <<>> /\ queue' = Tail(queue)
  BY DEF Buffer!Get
<1>2. /\ Len(queue) \in Nat
      /\ Len(queue') = Len(queue) - 1
      /\ \A k \in 1 .. Len(queue') : queue'[k] = queue[k + 1]
  BY <1>1, HeadTailProperties, LenProperties
<1>3. Len(queue) # 0
  BY <1>1, EmptySeq
<1> QED
  BY <1>2, <1>3

\* Whoever reads is the only one.
LEMMA OneReader ==
    ASSUME SingleDecoder, NEW i \in Inputs, NEW j \in Inputs,
           pc[i] \in InDecode, pc[j] \in InDecode
    PROVE  i = j
BY DEF SingleDecoder

\* Steps that leave the buffer and the player alone, and let nobody follow the
\* player that did not before.
LEMMA NothingTaken ==
    ASSUME Frames, UNCHANGED <<queue, player>>,
           \A j \in Inputs : stream'[j] <= streams /\ (stream'[j] = 0 => got'[j] = 0),
           \A j \in Inputs : Follows(j)' => Follows(j) /\ got'[j] = got[j]
    PROVE  Frames'
<1>1. UNCHANGED <<queue, streams, loaded, sent, discontinuity, inflight, ending>>
  BY DEF player
<1>2. Numbered'
  BY <1>1 DEF Frames, Numbered
<1>3. Announced'
  BY <1>1 DEF Frames, Announced
<1>4. Marked' = Marked /\ Delivered' = Delivered
  BY <1>1 DEF Marked, Delivered
<1>5. NothingMissing'
  BY <1>1, <1>4 DEF Frames, NothingMissing
<1> QED
  BY <1>2, <1>3, <1>5 DEF Frames

\* Steps after which nobody follows the player may take blocks.
LEMMA NobodyFollows ==
    ASSUME Frames, UNCHANGED <<player, stream, got>>,
           \A k \in 1 .. Len(queue') : \E j \in 1 .. Len(queue) : queue'[k] = queue[j],
           \A j \in Inputs : ~Follows(j)'
    PROVE  Frames'
<1>1. UNCHANGED <<streams, loaded, sent, discontinuity, inflight, ending>>
  BY DEF player
<1>2. Numbered'
  BY <1>1 DEF Frames, Numbered
<1>3. Announced'
  BY <1>1 DEF Frames, Announced
<1>4. NothingMissing'
  BY DEF NothingMissing
<1> QED
  BY <1>2, <1>3, <1>4 DEF Frames

\* A load or a seek: the input is to get the frames from t on, behind a flush.
LEMMA StartMissesNothing ==
    ASSUME TypeOK, Frames, NEW i \in Inputs, NEW t \in 0 .. TrackLength, StartStream(i, t),
           UNCHANGED queue, \A j \in Inputs \ {i} : pc'[j] = pc[j]
    PROVE  Frames'
<1>a. /\ stream \in [Inputs -> 0 .. MaxStreams]
      /\ got \in [Inputs -> 0 .. TrackLength]
      /\ streams \in Nat
      /\ queue \in Seq(Block)
      /\ inflight.stream \in Nat
  BY DEF TypeOK, Buffer!TypeOK, Frame, NoBlock, Stream
<1>b. \A k \in 1 .. Len(queue) : queue[k].stream \in Nat
  <2>1. ASSUME NEW k \in 1 .. Len(queue)
        PROVE  queue[k].stream \in Nat
    <3>1. queue[k] \in Block
      BY <1>a, ElementOfSeq
    <3> QED
      BY <3>1 DEF Block, Stream
  <2> QED
    BY <2>1
<1>1. /\ streams' = streams + 1 /\ loaded' = streams + 1
      /\ sent' = t /\ discontinuity' = TRUE /\ ending' = FALSE /\ inflight' = inflight
      /\ stream' = [stream EXCEPT ![i] = streams + 1]
      /\ got' = [got EXCEPT ![i] = t]
  BY DEF StartStream
<1>2. Numbered'
  <2>1. \A j \in Inputs : stream'[j] <= streams' /\ (stream'[j] = 0 => got'[j] = 0)
    BY <1>a, <1>1 DEF Frames, Numbered
  <2> QED
    BY <1>a, <1>b, <1>1, <2>1 DEF Frames, Numbered
<1>3. Announced'
  <2>1. /\ inflight'.stream # loaded'
        /\ \A k \in 1 .. Len(queue') : queue'[k].stream # loaded'
    BY <1>a, <1>b, <1>1 DEF Frames, Numbered
  <2> QED
    BY <1>a, <1>1, <2>1 DEF Announced
<1>4. NothingMissing'
  <2>1. \A j \in Inputs \ {i} : stream'[j] # loaded'
    BY <1>a, <1>1 DEF Frames, Numbered
  <2>2. got'[i] = sent'
    BY <1>a, <1>1
  <2> QED
    BY <1>1, <2>1, <2>2 DEF NothingMissing, Follows
<1> QED
  BY <1>2, <1>3, <1>4 DEF Frames

\* A read gives the input that follows the player its next frame.
LEMMA ReadIsNext ==
    ASSUME TypeOK, Frames, FlushedIsFresh, NEW i \in Inputs, Follows(i), queue # <<>>,
           Head(queue).frame # 0, Head(queue).stream = loaded
    PROVE  ~discontinuity /\ Head(queue).frame = got[i] + 1
<1>1. queue \in Seq(Block)
  BY DEF TypeOK, Buffer!TypeOK
<1>2. Len(queue) \in Nat \ {0} /\ Head(queue) = queue[1]
  BY <1>1, HeadTailProperties
<1>3. ~discontinuity
  BY <1>2 DEF Frames, Announced
<1>4. 1 < Len(queue) \/ ~Marked
  BY <1>2 DEF Marked
<1> QED
  BY <1>2, <1>3, <1>4 DEF Frames, NothingMissing

\* Reading keeps the account.
LEMMA ReadMissesNothing ==
    ASSUME TypeOK, SingleDecoder, FlushedIsFresh, Frames, NEW i \in Inputs,
           pc[i] \in {"idle", "woken"}, ReadBlock(i), UNCHANGED <<player, stream>>
    PROVE  Frames'
<1>a. /\ queue \in Seq(Block)
      /\ got \in [Inputs -> 0 .. TrackLength]
      /\ stream \in [Inputs -> 0 .. MaxStreams]
      /\ pc \in [Inputs -> Point]
  BY DEF TypeOK, Buffer!TypeOK
<1>b. UNCHANGED <<streams, loaded, sent, discontinuity, inflight, ending>>
  BY DEF player
<1>1. /\ Len(queue) \in Nat \ {0}
      /\ Head(queue) = queue[1]
      /\ Len(queue') = Len(queue) - 1
      /\ \A k \in 1 .. Len(queue') : queue'[k] = queue[k + 1]
  BY <1>a, GetPositions DEF ReadBlock
<1>c. Head(queue) \in Block
  BY <1>a, GetFacts DEF ReadBlock
<1>2. \A k \in 1 .. Len(queue') : k + 1 \in 1 .. Len(queue) /\ queue'[k] = queue[k + 1]
  BY <1>1
<1>3. \A j \in Inputs \ {i} : ~Follows(j)'
  <2>1. ASSUME NEW j \in Inputs \ {i}, Follows(j)'
        PROVE  FALSE
    <3>1. pc'[j] = pc[j] /\ pc'[j] \in Reading
      BY <1>a, <2>1 DEF ReadBlock, Finish, Goto, Follows
    <3> QED
      BY <2>1, <3>1, OneReader DEF Reading, InDecode
  <2> QED
    BY <2>1
<1>4. CASE Head(queue).frame = 0
  <2>1. Finish(i)
    BY <1>4 DEF ReadBlock
  <2>2. ~Follows(i)' /\ UNCHANGED got
    BY <1>a, <2>1 DEF Finish, Goto, Follows, Reading
  <2> QED
    BY <1>2, <1>3, <2>2, NobodyFollows
<1>5. CASE Head(queue).frame # 0
  <2>1. /\ got' = IF Head(queue).stream = stream[i]
                  THEN [got EXCEPT ![i] = Head(queue).frame] ELSE got
        /\ Goto(i, "idle")
    BY <1>5 DEF ReadBlock, Finish
  <2>2. Numbered'
    <3>1. \A k \in 1 .. Len(queue') : queue'[k].stream <= streams'
      BY <1>b, <1>2 DEF Frames, Numbered
    <3>2. \A j \in Inputs : stream'[j] = 0 => got'[j] = 0
      <4>1. Head(queue).stream # 0
        BY <1>c DEF Block, Stream
      <4> QED
        BY <1>a, <2>1, <4>1 DEF Frames, Numbered
    <3> QED
      BY <1>b, <3>1, <3>2 DEF Frames, Numbered
  <2>3. Announced'
    BY <1>b, <1>2 DEF Frames, Announced
  <2>4. ASSUME Follows(i)'
        PROVE  IF discontinuity'
               THEN got'[i] = sent'
               ELSE /\ \A k \in 1 .. Len(queue') :
                         k < Len(queue') \/ ~Marked' => queue'[k].frame = got'[i] + k
                    /\ IF Marked'
                       THEN sent' = Padding + 1 /\ ~ending' /\ got'[i] + Len(queue') = Padding
                       ELSE got'[i] + Len(queue') = Delivered'
    <3>1. Follows(i)
      BY <1>b, <2>4 DEF Follows, Reading
    <3>2. CASE discontinuity
      <4>1. Head(queue).stream # loaded
        BY <1>1, <3>2 DEF Frames, Announced
      <4> QED
        BY <1>b, <2>1, <3>1, <3>2, <4>1 DEF Frames, NothingMissing, Follows
    <3>3. CASE ~discontinuity
      <4>1. Head(queue).stream = loaded
        BY <1>1, <3>1, <3>3 DEF FlushedIsFresh, Follows
      <4>2. Head(queue).frame = got[i] + 1
        BY <1>5, <3>1, <4>1, ReadIsNext DEF ReadBlock, Buffer!Get
      <4>3. got'[i] = got[i] + 1 /\ got[i] \in Nat
        BY <1>a, <2>1, <3>1, <4>1, <4>2 DEF Follows
      <4>4. Marked' = Marked
        <5>1. CASE Len(queue) = 1
          BY <1>1, <1>5, <5>1 DEF Marked
        <5>2. CASE Len(queue) > 1
          <6>1. Len(queue') > 0 /\ queue'[Len(queue')] = queue[Len(queue)]
            BY <1>1, <5>2
          <6> QED
            BY <5>2, <6>1 DEF Marked
        <5> QED
          BY <1>1, <5>1, <5>2
      <4>5. Delivered' = Delivered
        BY <1>b DEF Delivered
      <4>6. ASSUME NEW k \in 1 .. Len(queue'), k < Len(queue') \/ ~Marked'
            PROVE  queue'[k].frame = got'[i] + k
        <5>1. /\ k + 1 \in 1 .. Len(queue)
              /\ k + 1 < Len(queue) \/ ~Marked
              /\ queue'[k] = queue[k + 1]
          BY <1>1, <4>4, <4>6
        <5>2. queue[k + 1].frame = got[i] + (k + 1)
          BY <3>1, <3>3, <5>1 DEF Frames, NothingMissing
        <5> QED
          BY <4>3, <5>1, <5>2
      <4>7. got'[i] + Len(queue') = got[i] + Len(queue)
        BY <1>1, <4>3
      <4>8. IF Marked THEN sent = Padding + 1 /\ ~ending /\ got[i] + Len(queue) = Padding
            ELSE got[i] + Len(queue) = Delivered
        BY <3>1, <3>3 DEF Frames, NothingMissing
      <4>9. IF Marked' THEN sent' = Padding + 1 /\ ~ending' /\ got'[i] + Len(queue') = Padding
            ELSE got'[i] + Len(queue') = Delivered'
        BY <1>b, <4>4, <4>5, <4>7, <4>8 DEF Padding
      <4> QED
        BY <1>b, <3>3, <4>6, <4>9
    <3> QED
      BY <3>2, <3>3
  <2>5. NothingMissing'
    BY <1>3, <2>4 DEF NothingMissing
  <2> QED
    BY <2>2, <2>3, <2>5 DEF Frames
<1> QED
  BY <1>4, <1>5

\* libspotify's thread queues the frame it holds, which follows those in the buffer.
LEMMA DeliveryMissesNothing ==
    ASSUME TypeOK, Fresh, Frames, MusicDelivery
    PROVE  Frames'
<1> USE PlaybackAssumption
<1>a. /\ queue \in Seq(Block)
      /\ got \in [Inputs -> 0 .. TrackLength]
      /\ sent \in Nat /\ streams \in Nat
      /\ inflight \in Frame
  BY DEF TypeOK, Buffer!TypeOK, MusicDelivery
<1>b. /\ inflight.stream \in Nat \ {0}
      /\ inflight.frame \in 1 .. Padding
  BY <1>a DEF Frame, Stream
<1>c. /\ UNCHANGED <<streams, loaded, discontinuity, ending, stream, got, pc>>
      /\ inflight' = NoBlock /\ inflight'.stream = 0
  BY DEF MusicDelivery, decoder, NoBlock
<1>d. UNCHANGED queue \/ (~IsPadding /\ Buffer!Put(inflight))
  BY DEF MusicDelivery, Buffer!Refuse, buffer
<1>e. \A j \in Inputs : Follows(j)' <=> Follows(j)
  BY <1>c DEF Follows
<1>1. \A k \in 1 .. Len(queue') :
         \/ queue'[k] = inflight
         \/ k \in 1 .. Len(queue) /\ queue'[k] = queue[k]
  <2>1. CASE UNCHANGED queue
    BY <2>1
  <2>2. CASE ~IsPadding /\ Buffer!Put(inflight)
    <3>1. inflight \in Block
      BY <1>a, <2>2 DEF IsPadding, Padding, Frame, Block
    <3> QED
      BY <1>a, <2>2, <3>1, PutFacts
  <2> QED
    BY <1>d, <2>1, <2>2
<1>2. Numbered'
  <2>1. \A k \in 1 .. Len(queue') : queue'[k].stream <= streams
    BY <1>1 DEF Frames, Numbered
  <2>2. inflight'.stream <= streams
    BY <1>a, <1>c
  <2> QED
    BY <1>c, <2>1, <2>2 DEF Frames, Numbered
<1>3. CASE inflight.stream # loaded \/ loaded = 0
  <2>1. loaded = 0 \/ discontinuity
    BY <1>3 DEF Fresh, InflightIsFresh, MusicDelivery
  <2>2. loaded # 0 => sent' = sent
    BY <1>3, <2>1 DEF MusicDelivery, Consumed, Refused
  <2>3. ~discontinuity => UNCHANGED <<sent>> \/ ~ending
    BY <1>3, <2>1 DEF MusicDelivery, Consumed, Refused, Fresh, EndingIsLoaded
  <2>4. Announced'
    BY <1>3, <1>c, <1>1, <2>1, <2>2, <2>3 DEF Frames, Announced
  <2>5. NothingMissing'
    BY <1>c, <1>e, <2>1, <2>2 DEF Frames, NothingMissing, Follows
  <2> QED
    BY <1>2, <2>4, <2>5 DEF Frames
<1>4. CASE inflight.stream = loaded /\ loaded # 0
  <2>1. inflight.frame = sent + 1 /\ sent < Padding /\ ~discontinuity /\ ~ending
    BY <1>a, <1>4 DEF Frames, Announced, Padding
  <2>2. Announced'
    BY <1>c, <1>4, <2>1 DEF Announced
  <2>3. ASSUME NEW j \in Inputs, Follows(j)
        PROVE  /\ \A k \in 1 .. Len(queue') :
                    k < Len(queue') \/ ~Marked' => queue'[k].frame = got'[j] + k
               /\ ~Marked' /\ got'[j] + Len(queue') = Delivered'
    <3>1. /\ ~Marked
          /\ \A k \in 1 .. Len(queue) : queue[k].frame = got[j] + k
          /\ got[j] + Len(queue) = Delivered
      BY <1>a, <2>1, <2>3 DEF Frames, NothingMissing, Padding
    <3>2. CASE ~IsPadding /\ Buffer!Put(inflight)
      <4>1. inflight \in Block
        BY <1>a, <3>2 DEF IsPadding, Padding, Frame, Block
      <4>2. /\ Len(queue) \in Nat
            /\ Len(queue') = Len(queue) + 1
            /\ queue'[Len(queue) + 1] = inflight
            /\ \A k \in 1 .. Len(queue) : queue'[k] = queue[k]
        BY <1>a, <3>2, <4>1, PutPositions
      <4>3. sent' = sent + 1 /\ sent' <= TrackLength
        <5>1. sent' = sent + 1
          <6>1. ~Buffer!Refuse
            BY <4>2 DEF Buffer!Refuse
          <6> QED
            BY <1>4, <2>1, <3>2, <6>1 DEF MusicDelivery, Consumed
        <5> QED
          BY <1>a, <2>1, <3>2, <5>1 DEF IsPadding, Padding
      <4>4. Delivered' = sent + 1 /\ Delivered = sent
        BY <1>a, <4>3 DEF Delivered
      <4>5. ~Marked'
        BY <1>b, <4>2 DEF Marked
      <4>6. inflight.frame = got[j] + Len(queue) + 1
        BY <2>1, <3>1, <4>4
      <4>7. got[j] \in Nat /\ got'[j] = got[j]
        BY <1>a, <1>c
      <4>8. \A k \in 1 .. Len(queue') : queue'[k].frame = got'[j] + k
        <5>1. ASSUME NEW k \in 1 .. Len(queue')
              PROVE  queue'[k].frame = got[j] + k
          <6>1. k \in 1 .. Len(queue) \/ k = Len(queue) + 1
            BY <4>2
          <6>2. CASE k = Len(queue) + 1
            <7>1. queue'[k].frame = got[j] + Len(queue) + 1
              BY <4>2, <4>6, <6>2
            <7>2. got[j] + Len(queue) + 1 = got[j] + k
              BY <4>2, <4>7, <6>2
            <7> QED
              BY <7>1, <7>2
          <6> QED
            BY <3>1, <4>2, <6>1, <6>2
        <5> QED
          BY <4>7, <5>1
      <4>9. got'[j] + Len(queue') = Delivered'
        <5>1. got[j] + Len(queue) = sent
          BY <3>1, <4>4
        <5>2. got[j] + (Len(queue) + 1) = sent + 1
          BY <4>2, <4>7, <5>1
        <5> QED
          BY <4>2, <4>4, <4>7, <5>2
      <4> QED
        BY <4>5, <4>8, <4>9
    <3>3. CASE UNCHANGED queue
      <4>1. Marked' = Marked
        BY <3>3 DEF Marked
      <4>2. sent' = sent \/ (IsPadding /\ sent' = Padding /\ sent = TrackLength)
        <5>1. \/ IsPadding /\ Consumed
              \/ Buffer!Put(inflight)
              \/ Refused
          BY DEF MusicDelivery
        <5>2. ~Buffer!Put(inflight) \/ IsPadding
          <6>1. ASSUME Buffer!Put(inflight), ~IsPadding
                PROVE  FALSE
            <7>1. inflight \in Block
              BY <1>a, <6>1 DEF IsPadding, Padding, Frame, Block
            <7>2. Len(queue') = Len(queue) + 1 /\ Len(queue) \in Nat
              BY <1>a, <6>1, <7>1, PutPositions
            <7> QED
              BY <3>3, <7>2
          <6> QED
            BY <6>1
        <5>3. (IsPadding /\ Consumed) \/ Refused
          BY <5>1, <5>2 DEF MusicDelivery
        <5>4. CASE Refused
          BY <5>4 DEF Refused
        <5>5. CASE IsPadding /\ Consumed
          <6>1. sent' = inflight.frame
            BY <1>4, <2>1, <5>5 DEF Consumed
          <6> QED
            BY <1>a, <2>1, <5>5, <6>1 DEF IsPadding, Padding
        <5> QED
          BY <5>3, <5>4, <5>5
      <4>3. Delivered' = Delivered
        BY <1>a, <4>2 DEF Delivered, Padding
      <4> QED
        BY <1>c, <3>1, <3>3, <4>1, <4>3
    <3> QED
      BY <1>d, <3>2, <3>3
  <2>4. NothingMissing'
    BY <1>c, <1>e, <2>1, <2>3 DEF NothingMissing
  <2> QED
    BY <1>2, <2>2, <2>4 DEF Frames
<1> QED
  BY <1>3, <1>4

\* The event loop puts the end mark behind the last frame.
LEMMA EndMissesNothing ==
    ASSUME TypeOK, Fresh, Frames, EndOfTrack
    PROVE  Frames'
<1> USE PlaybackAssumption
<1>a. /\ queue \in Seq(Block)
      /\ got \in [Inputs -> 0 .. TrackLength]
  BY DEF TypeOK, Buffer!TypeOK
<1>b. /\ UNCHANGED <<streams, loaded, sent, discontinuity, inflight, stream, got, pc>>
      /\ ending /\ ~ending'
      /\ UNCHANGED queue \/ Buffer!Put(Eof(loaded))
  BY DEF EndOfTrack, Buffer!Refuse, decoder
<1>c. loaded # 0 /\ ~discontinuity /\ sent = Padding + 1
  BY <1>b DEF Fresh, EndingIsLoaded, Frames, Announced
<1>1. CASE UNCHANGED queue
  <2>1. Numbered' /\ Announced'
    BY <1>b, <1>1 DEF Frames, Numbered, Announced
  <2>2. NothingMissing'
    BY <1>b, <1>1 DEF Frames, NothingMissing, Follows, Marked, Delivered
  <2> QED
    BY <2>1, <2>2 DEF Frames
<1>2. CASE Buffer!Put(Eof(loaded))
  <2>1. Eof(loaded) \in Block
    BY <1>b, EofIsBlock DEF Fresh
  <2>2. /\ Len(queue) \in Nat
        /\ Len(queue') = Len(queue) + 1
        /\ queue'[Len(queue) + 1] = Eof(loaded)
        /\ \A k \in 1 .. Len(queue) : queue'[k] = queue[k]
    BY <1>a, <1>2, <2>1, PutPositions
  <2>3. Numbered'
    <3>1. Eof(loaded).stream <= streams
      BY DEF Eof, TypeOK
    <3>2. \A k \in 1 .. Len(queue') : queue'[k].stream <= streams
      BY <2>2, <3>1 DEF Frames, Numbered
    <3> QED
      BY <1>b, <3>2 DEF Frames, Numbered
  <2>4. Announced'
    BY <1>b, <1>c DEF Frames, Announced
  <2>5. Marked' /\ ~(sent <= TrackLength)
    BY <1>c, <2>2 DEF Marked, Eof, Padding
  <2>6. ASSUME NEW j \in Inputs, Follows(j)
        PROVE  /\ \A k \in 1 .. Len(queue') : k < Len(queue') => queue'[k].frame = got[j] + k
               /\ got[j] + Len(queue') = Padding
    <3>1. /\ ~Marked
          /\ \A k \in 1 .. Len(queue) : queue[k].frame = got[j] + k
          /\ got[j] + Len(queue) = TrackLength
      BY <1>b, <1>c, <2>5, <2>6 DEF Frames, NothingMissing, Delivered
    <3>2. got[j] \in Nat
      BY <1>a
    <3>3. got[j] + Len(queue') = Padding
      BY <2>2, <3>1, <3>2 DEF Padding
    <3>4. \A k \in 1 .. Len(queue') : k < Len(queue') => k \in 1 .. Len(queue)
      BY <2>2
    <3> QED
      BY <2>2, <3>1, <3>3, <3>4
  <2>7. NothingMissing'
    BY <1>b, <1>c, <2>5, <2>6 DEF NothingMissing, Follows
  <2> QED
    BY <2>3, <2>4, <2>7 DEF Frames
<1> QED
  BY <1>b, <1>1, <1>2

\* libspotify's own steps, the main thread's, and the flush.
LEMMA PlayerMissesNothing ==
    ASSUME TypeOK, Fresh, Frames,
           \/ FetchFrame \/ PostEndOfTrack \/ DeliverDiscontinuity
           \/ OnPlaybackPause \/ OnPlaybackStop
    PROVE  Frames'
<1> USE PlaybackAssumption
<1>a. /\ sent \in Nat /\ streams \in Nat /\ loaded \in Nat /\ loaded <= streams
      /\ got \in [Inputs -> 0 .. TrackLength]
  BY DEF TypeOK
<1>1. CASE FetchFrame
  <2>1. /\ UNCHANGED <<queue, streams, loaded, sent, discontinuity, ending, stream, got, pc>>
        /\ inflight'.stream = loaded /\ inflight'.frame = sent + 1
        /\ ~discontinuity /\ sent < Padding
    BY <1>1 DEF FetchFrame, buffer, decoder
  <2>2. Numbered' /\ Announced'
    BY <1>a, <2>1 DEF Frames, Numbered, Announced
  <2>3. NothingMissing'
    BY <2>1 DEF Frames, NothingMissing, Follows, Marked, Delivered
  <2> QED
    BY <2>2, <2>3 DEF Frames
<1>2. CASE PostEndOfTrack
  <2>1. /\ UNCHANGED <<queue, streams, loaded, discontinuity, inflight, stream, got, pc>>
        /\ loaded # 0 /\ sent = Padding /\ sent' = Padding + 1 /\ ending'
    BY <1>2 DEF PostEndOfTrack, buffer, decoder
  <2>2. ~discontinuity /\ inflight.stream # loaded
    BY <2>1 DEF Frames, Announced, Padding
  <2>3. Numbered' /\ Announced'
    BY <2>1, <2>2 DEF Frames, Numbered, Announced
  <2>4. Delivered = TrackLength /\ Delivered' = TrackLength
    BY <2>1 DEF Delivered, Padding
  <2>5. \A j \in Inputs : Follows(j) => ~Marked
    BY <2>1, <2>2 DEF Frames, NothingMissing, Padding
  <2>6. Marked' = Marked /\ \A j \in Inputs : Follows(j)' <=> Follows(j)
    BY <2>1 DEF Marked, Follows
  <2>7. NothingMissing'
    BY <2>1, <2>2, <2>4, <2>5, <2>6 DEF Frames, NothingMissing
  <2> QED
    BY <2>3, <2>7 DEF Frames
<1>3. CASE DeliverDiscontinuity
  <2>1. /\ UNCHANGED <<streams, loaded, sent, inflight, ending, stream, got, pc>>
        /\ discontinuity /\ ~discontinuity' /\ Len(queue') = 0
        /\ inflight.stream # loaded
    BY <1>3 DEF DeliverDiscontinuity, Buffer!Clear, decoder, Frames, Announced
  <2>2. Numbered' /\ Announced'
    BY <2>1 DEF Frames, Numbered, Announced
  <2>3. ~Marked' /\ Delivered' = sent
    BY <2>1 DEF Marked, Delivered, Frames, Announced
  <2>4. \A j \in Inputs : Follows(j)' => got[j] = sent /\ got[j] \in Nat
    BY <1>a, <2>1 DEF Frames, NothingMissing, Follows
  <2>5. NothingMissing'
    BY <2>1, <2>3, <2>4 DEF NothingMissing
  <2> QED
    BY <2>2, <2>5 DEF Frames
<1>4. CASE OnPlaybackPause
  <2>1. UNCHANGED <<queue, streams, loaded, sent, discontinuity, inflight, ending,
                    stream, got, pc>>
    BY <1>4 DEF OnPlaybackPause, buffer, decoder
  <2>2. Numbered' /\ Announced'
    BY <2>1 DEF Frames, Numbered, Announced
  <2>3. NothingMissing'
    BY <2>1 DEF Frames, NothingMissing, Follows, Marked, Delivered
  <2> QED
    BY <2>2, <2>3 DEF Frames
<1>5. CASE OnPlaybackStop
  <2>1. /\ UNCHANGED <<queue, streams, sent, inflight, stream, got, pc>>
        /\ \/ UNCHANGED <<loaded, discontinuity, ending>>
           \/ loaded' = 0 /\ ~discontinuity' /\ ~ending'
    BY <1>5 DEF OnPlaybackStop, buffer
  <2>2. Numbered' /\ Announced'
    BY <2>1 DEF Frames, Numbered, Announced
  <2>3. NothingMissing'
    BY <2>1 DEF Frames, NothingMissing, Follows, Marked, Delivered
  <2> QED
    BY <2>2, <2>3 DEF Frames
<1> QED
  BY <1>1, <1>2, <1>3, <1>4, <1>5

\* The steps of the inputs.
LEMMA InputMissesNothing ==
    ASSUME TypeOK, SingleDecoder, FlushedIsFresh, Frames, NEW i \in Inputs, InputNext(i)
    PROVE  Frames'
<1>a. /\ stream \in [Inputs -> 0 .. MaxStreams]
      /\ got \in [Inputs -> 0 .. TrackLength]
      /\ pc \in [Inputs -> Point]
      /\ streams \in Nat
  BY DEF TypeOK
<1>b. \A j \in Inputs : stream[j] <= streams /\ (stream[j] = 0 => got[j] = 0)
  BY DEF Frames, Numbered
<1>1. CASE \/ Open(i) \/ InitializeAcquire(i) \/ WaitForData(i)
           \/ ((Run(i) \/ ReadAgain(i)) /\ Buffer!GetNothing)
  <2>1. /\ UNCHANGED <<queue, player, stream, got>>
        /\ \E p \in Point : Goto(i, p) /\ (p \in Reading => pc[i] \in Reading)
    <3>1. CASE Open(i) \/ InitializeAcquire(i) \/ WaitForData(i)
      BY <3>1 DEF Open, InitializeAcquire, AcquireDecoder, WaitForData, buffer, Point, Reading
    <3>2. CASE (Run(i) \/ ReadAgain(i)) /\ Buffer!GetNothing
      BY <3>2 DEF Run, ReadAgain, ReadBlock, Finish, Buffer!GetNothing, Buffer!Get, Point,
         Reading
    <3> QED
      BY <1>1, <3>1, <3>2
  <2>2. \A j \in Inputs : Follows(j)' => Follows(j) /\ got'[j] = got[j]
    BY <1>a, <2>1 DEF Follows, Goto, player
  <2> QED
    BY <1>b, <2>1, <2>2, NothingTaken
<1>2. CASE Destroy(i)
  <2>1. /\ UNCHANGED <<queue, player>>
        /\ stream' = [stream EXCEPT ![i] = 0]
        /\ got' = [got EXCEPT ![i] = 0]
        /\ Goto(i, "none")
    BY <1>2 DEF Destroy, buffer
  <2>2. \A j \in Inputs : stream'[j] <= streams /\ (stream'[j] = 0 => got'[j] = 0)
    BY <1>a, <1>b, <2>1
  <2>3. \A j \in Inputs : Follows(j)' => Follows(j) /\ got'[j] = got[j]
    BY <1>a, <2>1 DEF Follows, Goto, Reading, player
  <2> QED
    BY <2>1, <2>2, <2>3, NothingTaken
<1>3. CASE InitializeClear(i) \/ SeekClear(i)
  <2>1. /\ UNCHANGED <<player, stream, got>>
        /\ Len(queue') = 0
        /\ pc[i] \in InDecode
        /\ \E p \in {"cleared", "seeking"} : Goto(i, p)
    BY <1>3 DEF InitializeClear, SeekClear, Buffer!Clear, InDecode
  <2>2. \A j \in Inputs : ~Follows(j)'
    <3>1. ASSUME NEW j \in Inputs, Follows(j)'
          PROVE  FALSE
      <4>1. j # i /\ pc[j] \in InDecode
        BY <1>a, <2>1, <3>1 DEF Follows, Goto, Reading, InDecode
      <4> QED
        BY <2>1, <4>1, OneReader
    <3> QED
      BY <3>1
  <2> QED
    BY <2>1, <2>2, NobodyFollows
<1>4. CASE InitializeLoad(i) \/ SeekPlayer(i)
  <2>1. /\ UNCHANGED queue
        /\ \A j \in Inputs \ {i} : pc'[j] = pc[j]
        /\ \/ \E t \in 0 .. TrackLength : StartStream(i, t)
           \/ /\ UNCHANGED <<player, stream, got>>
              /\ Goto(i, "failed") \/ (loaded = 0 /\ Goto(i, "idle"))
    BY <1>a, <1>4, PlaybackAssumption DEF InitializeLoad, SeekPlayer, Goto, buffer
  <2>2. CASE \E t \in 0 .. TrackLength : StartStream(i, t)
    BY <2>1, <2>2, StartMissesNothing
  <2>3. CASE /\ UNCHANGED <<player, stream, got>>
             /\ Goto(i, "failed") \/ (loaded = 0 /\ Goto(i, "idle"))
    <3>1. \A j \in Inputs : Follows(j)' => Follows(j) /\ got'[j] = got[j]
      BY <1>a, <2>1, <2>3 DEF Follows, Goto, Reading, player
    <3> QED
      BY <1>b, <2>1, <2>3, <3>1, NothingTaken
  <2> QED
    BY <2>1, <2>2, <2>3
<1>5. CASE (Run(i) \/ ReadAgain(i)) /\ ReadBlock(i)
  <2>1. pc[i] \in {"idle", "woken"} /\ UNCHANGED <<player, stream>>
    BY <1>5 DEF Run, ReadAgain
  <2> QED
    BY <1>5, <2>1, ReadMissesNothing
<1>6. (Run(i) \/ ReadAgain(i)) => ReadBlock(i) \/ Buffer!GetNothing
  BY DEF Run, ReadAgain
<1> QED
  BY <1>1, <1>2, <1>3, <1>4, <1>5, <1>6 DEF InputNext

\* No step makes a frame missing.
LEMMA FramesStep ==
    ASSUME TypeOK, SingleDecoder, Fresh, Frames, [Next]_vars
    PROVE  Frames'
<1>1. CASE UNCHANGED vars
  <2>1. UNCHANGED <<queue, streams, loaded, sent, discontinuity, inflight, ending,
                    stream, got, pc>>
    BY <1>1 DEF vars, buffer, player, decoder
  <2>2. Numbered' /\ Announced'
    BY <2>1 DEF Frames, Numbered, Announced
  <2>3. NothingMissing'
    BY <2>1 DEF Frames, NothingMissing, Follows, Marked, Delivered
  <2> QED
    BY <2>2, <2>3 DEF Frames
<1>2. CASE Next
  BY <1>2, PlayerMissesNothing, DeliveryMissesNothing, EndMissesNothing, InputMissesNothing
     DEF Next, Fresh
<1> QED
  BY <1>1, <1>2

-----------------------------------------------------------------------------
(* The theorems *)

\* The program starts with nothing loaded, nobody decoding and an empty buffer.
LEMMA InitInv == Init => IInv
<1> SUFFICES ASSUME Init PROVE IInv
  OBVIOUS
<1>1. TypeOK
  <2>1. BufferTypes
    BY EmptySeq DEF Init, Buffer!Init, BufferTypes, Buffer!TypeOK
  <2>2. 0 \in 0 .. MaxStreams /\ 0 \in 0 .. TrackLength /\ 0 \in 0 .. Padding + 1
    BY PlaybackAssumption DEF Padding
  <2>3. PlayerTypes
    <3>1. streams \in 0 .. MaxStreams /\ loaded \in 0 .. streams /\ sent \in 0 .. Padding + 1
      BY <2>2 DEF Init
    <3> QED
      BY <3>1 DEF Init, PlayerTypes
  <2>4. DecoderTypes
    BY <2>2 DEF Init, DecoderTypes, Point
  <2> QED
    BY <2>1, <2>3, <2>4, TypeGroups DEF Init
<1>2. SingleDecoder
  BY PlaybackAssumption DEF Init, SingleDecoder, InDecode
<1>3. FlushedIsFresh /\ InflightIsFresh /\ EndingIsLoaded
  BY DEF Init, FlushedIsFresh, InflightIsFresh, EndingIsLoaded
<1>4. Frames
  <2>1. Len(queue) = 0 /\ streams = 0 /\ loaded = 0 /\ inflight = NoBlock
        /\ stream = [i \in Inputs |-> 0] /\ got = [i \in Inputs |-> 0]
        /\ ~discontinuity /\ ~ending
    BY DEF Init, Buffer!Init
  <2> QED
    BY <2>1 DEF NoBlock, Frames, Numbered, Announced, NothingMissing, Follows
<1> QED
  BY <1>1, <1>2, <1>3, <1>4 DEF IInv

\* Every step keeps the invariant.
LEMMA NextInv == IInv /\ [Next]_vars => IInv'
<1> SUFFICES ASSUME IInv, [Next]_vars PROVE IInv'
  OBVIOUS
<1>1. TypeOK'
  BY TypeStep DEF IInv
<1>2. SingleDecoder'
  BY DecoderStep DEF IInv
<1>3. Fresh'
  BY FreshStep DEF IInv, Fresh
<1>4. Frames'
  BY FramesStep DEF IInv, Fresh
<1> QED
  BY <1>1, <1>2, <1>3, <1>4 DEF IInv, Fresh

\* What a step that ends an input's playback with something in the buffer can be.
LEMMA OnlyReadsEnd ==
    ASSUME TypeOK, [Next]_vars, NEW i \in Inputs,
           pc'[i] = "done" /\ pc[i] # "done" /\ queue # <<>>
    PROVE  ReadBlock(i) /\ pc[i] \in Reading
<1>a. pc \in [Inputs -> Point]
  BY DEF TypeOK
<1>1. CASE \/ FetchFrame \/ PostEndOfTrack
           \/ DeliverDiscontinuity \/ MusicDelivery \/ EndOfTrack
           \/ OnPlaybackPause \/ OnPlaybackStop
           \/ UNCHANGED vars
  <2>1. UNCHANGED pc
    BY <1>1 DEF FetchFrame, PostEndOfTrack, DeliverDiscontinuity, MusicDelivery, EndOfTrack,
       OnPlaybackPause, OnPlaybackStop, vars, decoder
  <2> QED
    BY <2>1
<1>2. ASSUME NEW j \in Inputs,
             \/ Open(j) \/ InitializeAcquire(j) \/ InitializeClear(j) \/ SeekClear(j)
             \/ WaitForData(j)
      PROVE  FALSE
  <2>1. \E p \in Point \ {"done"} : Goto(j, p)
    BY <1>2 DEF Open, InitializeAcquire, InitializeClear, SeekClear, WaitForData, Point
  <2> QED
    BY <1>a, <2>1 DEF Goto
<1>3. ASSUME NEW j \in Inputs, Destroy(j)
      PROVE  FALSE
  BY <1>a, <1>3 DEF Destroy, Goto
<1>4. ASSUME NEW j \in Inputs, InitializeLoad(j) \/ SeekPlayer(j)
      PROVE  FALSE
  <2>1. \E p \in {"idle", "failed"} : Goto(j, p)
    BY <1>4 DEF InitializeLoad, SeekPlayer
  <2> QED
    BY <1>a, <2>1 DEF Goto
<1>5. ASSUME NEW j \in Inputs, Run(j) \/ ReadAgain(j)
      PROVE  ReadBlock(i) /\ pc[i] \in Reading
  <2>1. /\ pc[j] \in Reading
        /\ \/ ReadBlock(j)
           \/ /\ queue = <<>>
              /\ \E p \in {"waiting", "done"} : Goto(j, p)
    BY <1>5 DEF Run, ReadAgain, Finish, Buffer!GetNothing, Reading
  <2>2. CASE ReadBlock(j)
    <3>1. i = j
      BY <1>a, <2>2 DEF ReadBlock, Finish, Goto
    <3> QED
      BY <2>1, <2>2, <3>1
  <2>3. CASE /\ queue = <<>>
             /\ \E p \in {"waiting", "done"} : Goto(j, p)
    BY <1>a, <2>3 DEF Goto
  <2> QED
    BY <2>1, <2>2, <2>3
<1> QED
  BY <1>1, <1>2, <1>3, <1>4, <1>5 DEF Next, InputNext

\* The frame an input would be given is the next of its stream.
LEMMA HeadIsNext ==
    ASSUME IInv
    PROVE  NoFrameSkipped
<1> SUFFICES ASSUME NEW i \in Inputs,
                    pc[i] \in {"idle", "waiting", "woken"}, loaded = stream[i],
                    queue # <<>>, Head(queue).stream = stream[i], Head(queue).frame # 0
             PROVE  Head(queue).frame = got[i] + 1
  BY DEF NoFrameSkipped
<1>1. TypeOK /\ Frames /\ FlushedIsFresh /\ queue \in Seq(Block)
  BY DEF IInv, TypeOK, Buffer!TypeOK
<1>2. Head(queue) \in Block
  BY <1>1, HeadTailProperties
<1>3. Follows(i)
  BY <1>2 DEF Follows, Reading, Block, Stream
<1> QED
  BY <1>1, <1>3, ReadIsNext

\* The end mark comes when the last frame has been given.
LEMMA EndComesLast ==
    ASSUME IInv, [Next]_vars, NEW i \in Inputs,
           pc'[i] = "done" /\ pc[i] # "done",
           queue # <<>> /\ Head(queue) = Eof(stream[i]) /\ loaded = stream[i]
    PROVE  got[i] = TrackLength
<1>a. /\ TypeOK /\ Frames
      /\ queue \in Seq(Block)
      /\ got[i] \in Nat
  BY DEF IInv, TypeOK, Buffer!TypeOK
<1>1. ReadBlock(i) /\ pc[i] \in Reading
  BY <1>a, OnlyReadsEnd
<1>2. /\ Len(queue) \in Nat \ {0} /\ Head(queue) = queue[1]
      /\ Head(queue).frame = 0 /\ Head(queue).stream = loaded
  BY <1>a, <1>1, GetPositions DEF ReadBlock, Eof
<1>3. Head(queue).stream # 0
  BY <1>a, <1>1, GetFacts DEF ReadBlock, Block, Stream
<1>4. Follows(i) /\ ~discontinuity
  BY <1>a, <1>1, <1>2, <1>3 DEF Follows, Frames, Announced
<1>5. \A k \in 1 .. Len(queue) : k < Len(queue) \/ ~Marked => queue[k].frame = got[i] + k
  BY <1>a, <1>4 DEF Frames, NothingMissing
<1>6. Len(queue) = 1 /\ Marked
  <2>1. queue[1].frame # got[i] + 1
    BY <1>a, <1>2
  <2>2. ~(1 < Len(queue) \/ ~Marked)
    BY <1>2, <1>5, <2>1
  <2> QED
    BY <1>2, <2>2 DEF Marked
<1>7. got[i] + 1 = Padding
  BY <1>a, <1>4, <1>6 DEF Frames, NothingMissing
<1> QED
  BY <1>a, <1>7, PlaybackAssumption DEF Padding

\* A block goes while an input waits or is about to read: it goes by a flush.
LEMMA TakenByFlush ==
    ASSUME IInv, [Next]_vars, NEW i \in Inputs,
           pc[i] \in {"waiting", "woken"}, pc'[i] = pc[i], Len(queue') < Len(queue)
    PROVE  discontinuity /\ ~discontinuity'
<1>a. /\ SingleDecoder
      /\ queue \in Seq(Block) /\ Len(queue) \in Nat
      /\ pc \in [Inputs -> Point]
      /\ pc[i] \in InDecode
  BY LenProperties DEF IInv, TypeOK, Buffer!TypeOK, InDecode
<1>b. queue' # queue
  BY <1>a
<1>1. ASSUME NEW b \in Block, Buffer!Put(b)
      PROVE  FALSE
  BY <1>a, <1>1, PutPositions
<1>2. CASE \/ FetchFrame \/ PostEndOfTrack \/ OnPlaybackPause \/ OnPlaybackStop
           \/ UNCHANGED vars
  BY <1>b, <1>2 DEF FetchFrame, PostEndOfTrack, OnPlaybackPause, OnPlaybackStop, vars, buffer
<1>3. CASE DeliverDiscontinuity
  BY <1>3 DEF DeliverDiscontinuity
<1>4. CASE MusicDelivery
  <2>1. /\ inflight \in Frame \cup {NoBlock}
        /\ inflight # NoBlock
        /\ UNCHANGED queue \/ (~IsPadding /\ Buffer!Put(inflight))
    BY <1>4 DEF MusicDelivery, Buffer!Refuse, buffer, IInv, TypeOK
  <2>2. inflight \in Block \/ IsPadding
    BY <2>1, PlaybackAssumption DEF IsPadding, Padding, Frame, Block
  <2> QED
    BY <1>b, <1>1, <2>1, <2>2
<1>5. CASE EndOfTrack
  <2>1. UNCHANGED queue \/ Buffer!Put(Eof(loaded))
    BY <1>5 DEF EndOfTrack, Buffer!Refuse
  <2>2. Eof(loaded) \in Block
    BY <1>5, EofIsBlock DEF EndOfTrack, IInv
  <2> QED
    BY <1>b, <1>1, <2>1, <2>2
<1>6. ASSUME NEW j \in Inputs,
             Open(j) \/ Destroy(j) \/ InitializeAcquire(j) \/ InitializeLoad(j)
               \/ WaitForData(j) \/ SeekPlayer(j)
      PROVE  FALSE
  BY <1>b, <1>6 DEF Open, Destroy, InitializeAcquire, InitializeLoad, WaitForData, SeekPlayer,
     buffer
\* The calls that take blocks are made by the input that decodes, and that is i.
<1>7. ASSUME NEW j \in Inputs,
             InitializeClear(j) \/ SeekClear(j) \/ Run(j) \/ ReadAgain(j)
      PROVE  FALSE
  <2>1. /\ pc[j] \in {"acquired", "idle", "woken"}
        /\ \E p \in {"cleared", "seeking", "idle", "waiting", "done"} :
             Goto(j, p) /\ (p # pc[j] \/ pc[j] = "idle")
    BY <1>7 DEF InitializeClear, SeekClear, Run, ReadAgain, ReadBlock, Finish
  <2>2. i = j
    BY <1>a, <2>1, OneReader DEF InDecode
  <2> QED
    BY <1>a, <2>1, <2>2 DEF Goto
<1> QED
  BY <1>2, <1>3, <1>4, <1>5, <1>6, <1>7 DEF Next, InputNext

-----------------------------------------------------------------------------
(* The buffer of the playback path is AudioQueue *)

\* Every step of the playback path makes at most one call of the buffer, and makes
\* it as AudioQueue allows.
LEMMA BufferCalls ==
    ASSUME IInv, [Next]_vars
    PROVE  [Buffer!Next]_Buffer!vars
<1>1. CASE \/ FetchFrame \/ PostEndOfTrack \/ OnPlaybackPause \/ OnPlaybackStop
           \/ UNCHANGED vars
  BY <1>1 DEF FetchFrame, PostEndOfTrack, OnPlaybackPause, OnPlaybackStop, vars, buffer,
     Buffer!vars
<1>2. CASE DeliverDiscontinuity
  BY <1>2 DEF DeliverDiscontinuity, Buffer!Next
<1>3. CASE MusicDelivery
  <2>1. /\ inflight \in Frame \cup {NoBlock}
        /\ inflight # NoBlock
        /\ UNCHANGED buffer \/ Buffer!Refuse \/ (~IsPadding /\ Buffer!Put(inflight))
    BY <1>3 DEF MusicDelivery, IInv, TypeOK
  <2>2. inflight \in Block \/ IsPadding
    BY <2>1, PlaybackAssumption DEF IsPadding, Padding, Frame, Block
  <2> QED
    BY <2>1, <2>2 DEF Buffer!Next, Buffer!vars, buffer
<1>4. CASE EndOfTrack
  <2>1. Buffer!Refuse \/ Buffer!Put(Eof(loaded))
    BY <1>4 DEF EndOfTrack
  <2>2. Eof(loaded) \in Block
    BY <1>4, EofIsBlock DEF EndOfTrack, IInv
  <2> QED
    BY <2>1, <2>2 DEF Buffer!Next
<1>5. ASSUME NEW j \in Inputs,
             Open(j) \/ Destroy(j) \/ InitializeAcquire(j) \/ InitializeLoad(j)
               \/ WaitForData(j) \/ SeekPlayer(j)
      PROVE  UNCHANGED Buffer!vars
  BY <1>5 DEF Open, Destroy, InitializeAcquire, InitializeLoad, WaitForData, SeekPlayer,
     buffer, Buffer!vars
<1>6. ASSUME NEW j \in Inputs,
             InitializeClear(j) \/ SeekClear(j) \/ Run(j) \/ ReadAgain(j)
      PROVE  Buffer!Next
  BY <1>6 DEF InitializeClear, SeekClear, Run, ReadAgain, ReadBlock, Buffer!Next
<1> QED
  BY <1>1, <1>2, <1>3, <1>4, <1>5, <1>6 DEF Next, InputNext

-----------------------------------------------------------------------------
(* What holds of every behaviour *)

\* The inductive invariant holds of every behaviour of the playback path.
THEOREM Invariance == Spec => []IInv
<1>1. Init => IInv
  BY InitInv
<1>2. IInv /\ [Next]_vars => IInv'
  BY NextInv
<1> QED
  BY <1>1, <1>2, PTL DEF Spec

\* Every variable keeps its type; in particular nothing but frames of a track and
\* its end mark ever reaches the buffer.
THEOREM TypeCorrect == Spec => []TypeOK
<1>1. IInv => TypeOK
  BY DEF IInv
<1> QED
  BY <1>1, Invariance, PTL

\* Any number of inputs that fail, end, start over and are destroyed share the one
\* decoder: pDecoderOwner_, hasDecoder_ and backendUsers_ always agree.
THEOREM OneDecoder == Spec => []SingleDecoder
<1>1. IInv => SingleDecoder
  BY DEF IInv
<1> QED
  BY <1>1, Invariance, PTL

\* After a flush was delivered the buffer holds blocks of the current stream only,
\* whatever was delivered before it.
THEOREM NothingStale == Spec => []FlushedIsFresh
<1>1. IInv => FlushedIsFresh
  BY DEF IInv
<1> QED
  BY <1>1, Invariance, PTL

\* For every capacity, length of track and number of loads and seeks, what an input
\* would read next of the stream the player is on is the frame behind its last one.
THEOREM FramesInOrder == Spec => []NoFrameSkipped
<1>1. IInv => NoFrameSkipped
  BY HeadIsNext
<1> QED
  BY <1>1, Invariance, PTL

\* The end mark of a stream never overtakes a frame of it.
THEOREM EndsComplete == Spec => EndIsComplete
<1>1. IInv /\ [Next]_vars =>
        [\A i \in Inputs :
           (/\ pc'[i] = "done" /\ pc[i] # "done"
            /\ queue # <<>> /\ Head(queue) = Eof(stream[i]) /\ loaded = stream[i])
             => got[i] = TrackLength]_vars
  BY EndComesLast
<1> QED
  BY <1>1, Invariance, PTL DEF Spec, EndIsComplete

\* For every number of inputs and every capacity, what a reader waits for or is about
\* to read is never taken away by anything but a flush that was still to be delivered.
THEOREM NothingButFlushTakes == Spec => OnlyFlushTakes
<1>1. IInv /\ [Next]_vars =>
        [\A i \in Inputs :
           pc[i] \in {"waiting", "woken"} /\ pc'[i] = pc[i] /\ Len(queue') < Len(queue)
             => discontinuity /\ ~discontinuity']_vars
  BY TakenByFlush
<1> QED
  BY <1>1, Invariance, PTL DEF Spec, OnlyFlushTakes

\* The playback path relies on nothing but what AudioQueue promises, which is what
\* AudioBuffer is proved to implement: it may refuse whenever something is unread.
THEOREM RunsOnTheQueue == Spec => Buffer!Spec
<1>1. Init => Buffer!Init
  BY DEF Init
<1>2. IInv /\ [Next]_vars => [Buffer!Next]_Buffer!vars
  BY BufferCalls
<1> QED
  BY <1>1, <1>2, Invariance, PTL DEF Spec, Buffer!Spec
=============================================================================
