------------------------------ MODULE Playback ------------------------------
(***************************************************************************)
(* The playback path: libspotify's delivery thread and its event loop fill *)
(* the audio buffer (backend/libspotify_backend.cpp), foobar2000's decoder *)
(* threads drain it through InputSpotify (fb2k/input.cpp), and the main    *)
(* thread pauses and stops the player (fb2k/playback.cpp).                 *)
(*                                                                         *)
(* The buffer is the queue AudioBuffer implements.  libspotify's player is *)
(* external: it is modelled from how the code uses it.  Every load or seek *)
(* starts a new stream; a block is one frame of a stream or its end mark.  *)
(* AudioBuffer's and libspotify's own locks make each call one action; a   *)
(* method that makes several such calls is several actions, joined by pc.  *)
(***************************************************************************)
EXTENDS Integers, Sequences

CONSTANTS
    Inputs,      \* the InputSpotify objects
    NoOwner,     \* pDecoderOwner_ is null
    Capacity,    \* blocks the audio buffer holds at most; it may refuse one before
    TrackLength, \* frames of a track
    MaxStreams   \* bound on the loads and seeks of a behaviour

ASSUME PlaybackAssumption ==
    /\ NoOwner \notin Inputs
    /\ Capacity \in Nat \ {0}
    /\ TrackLength \in Nat \ {0}
    /\ MaxStreams \in Nat

VARIABLES
    queue, out, accepted,   \* the audio buffer (AudioQueue)
    owner,                  \* pDecoderOwner_
    users,                  \* backendUsers_: the inputs whose usingLibSpotify_ is set
    hasDecoder,             \* InputSpotify::hasDecoder_
    pc,                     \* where each input's current call is
    aborting,               \* the abort_callback of each input's caller
    streams,                \* how many streams were started
    loaded,                 \* the stream the player is on, 0 when unloaded
    playing,                \* the player is not paused
    sent,                   \* frames of that stream delivered so far
    discontinuity,          \* a flush (num_frames = 0) is still to be delivered
    inflight,               \* the frame the delivery thread is about to deliver
    ending,                 \* end_of_track is queued for the event loop
    stream,                 \* history: the stream each input started
    got,                    \* history: frames of it decode_run has returned
    eofLost                 \* history: a refused end mark

buffer == <<queue, out, accepted>>
player == <<streams, loaded, playing, sent, discontinuity, inflight, ending>>
decoder == <<owner, users, hasDecoder, pc, aborting, stream, got>>
vars == <<buffer, player, decoder, eofLost>>

Stream == 1 .. MaxStreams
Eof(s) == [stream |-> s, frame |-> 0]
\* The chunk of silence that ends every track follows the last frame.
Padding == TrackLength + 1
Frame == [stream : Stream, frame : 1 .. Padding]
Block == [stream : Stream, frame : 0 .. TrackLength]
NoBlock == [stream |-> 0, frame |-> 0]

Buffer == INSTANCE AudioQueue

\* No call; in decode_initialize; in decode_run; in decode_seek; decode_run
\* returned false; a call threw.
Point == {"none", "open", "acquired", "cleared", "idle", "waiting", "woken",
          "seeking", "done", "failed"}

TypeOK ==
    /\ Buffer!TypeOK
    /\ owner \in Inputs \cup {NoOwner}
    /\ users \subseteq Inputs
    /\ hasDecoder \in [Inputs -> BOOLEAN]
    /\ pc \in [Inputs -> Point]
    /\ aborting \in [Inputs -> BOOLEAN]
    /\ streams \in 0 .. MaxStreams
    /\ loaded \in 0 .. streams
    /\ playing \in BOOLEAN
    /\ sent \in 0 .. Padding + 1
    /\ discontinuity \in BOOLEAN
    /\ inflight \in Frame \cup {NoBlock}
    /\ ending \in BOOLEAN
    /\ stream \in [Inputs -> 0 .. MaxStreams]
    /\ got \in [Inputs -> 0 .. TrackLength]
    /\ eofLost \in BOOLEAN

Init ==
    /\ Buffer!Init
    /\ owner = NoOwner
    /\ users = {}
    /\ hasDecoder = [i \in Inputs |-> FALSE]
    /\ pc = [i \in Inputs |-> "none"]
    /\ aborting = [i \in Inputs |-> FALSE]
    /\ streams = 0
    /\ loaded = 0
    /\ playing = FALSE
    /\ sent = 0
    /\ discontinuity = FALSE
    /\ inflight = NoBlock
    /\ ending = FALSE
    /\ stream = [i \in Inputs |-> 0]
    /\ got = [i \in Inputs |-> 0]
    /\ eofLost = FALSE

Goto(i, p) == pc' = [pc EXCEPT ![i] = p]

-----------------------------------------------------------------------------
(* libspotify's player *)

\* sp_session_player_load or sp_session_player_seek: a new stream from frame t
\* on.  libspotify will announce the discontinuity before its first frame and
\* forgets an end of track it has not reported yet.
StartStream(i, t) ==
    /\ streams < MaxStreams
    /\ streams' = streams + 1
    /\ loaded' = streams'
    /\ sent' = t
    /\ discontinuity' = TRUE
    /\ ending' = FALSE
    /\ stream' = [stream EXCEPT ![i] = streams']
    /\ got' = [got EXCEPT ![i] = t]
    /\ UNCHANGED inflight

\* The delivery thread decodes a frame; until it calls music_delivery the
\* decoder thread may move the player on.
FetchFrame ==
    /\ loaded # 0 /\ playing /\ ~discontinuity
    /\ inflight = NoBlock
    /\ sent < Padding
    /\ inflight' = [stream |-> loaded, frame |-> sent + 1]
    /\ UNCHANGED <<buffer, decoder, eofLost,
                   streams, loaded, playing, sent, discontinuity, ending>>

\* The event loop will be told that the track has ended.
PostEndOfTrack ==
    /\ loaded # 0 /\ sent = Padding
    /\ sent' = Padding + 1
    /\ ending' = TRUE
    /\ UNCHANGED <<buffer, decoder, eofLost,
                   streams, loaded, playing, discontinuity, inflight>>

-----------------------------------------------------------------------------
(* LibSpotify_Backend's callbacks *)

\* Mutant: the flush is ignored.
DeliverDiscontinuityIgnored ==
    /\ discontinuity
    /\ inflight = NoBlock
    /\ discontinuity' = FALSE
    /\ UNCHANGED <<buffer, decoder, eofLost,
                   streams, loaded, playing, sent, inflight, ending>>

\* music_delivery( num_frames = 0 )
DeliverDiscontinuity ==
    /\ discontinuity
    /\ inflight = NoBlock
    /\ Buffer!Clear
    /\ discontinuity' = FALSE
    /\ UNCHANGED <<decoder, eofLost, streams, loaded, playing, sent, inflight, ending>>

\* Mutant: a frame that was queued is reported as refused.
ConsumedIsRefused == UNCHANGED sent

\* The frame counts as delivered, unless the player has moved on meanwhile.
Consumed ==
    sent' = IF inflight.stream = loaded /\ ~discontinuity THEN inflight.frame ELSE sent

\* Mutant: a refused frame is reported as consumed.
RefusedIsConsumed == Consumed

\* No frame was consumed: libspotify delivers it again.
Refused == UNCHANGED sent

\* Mutants: the padding is not recognised; the last frame is taken for it.
IsPaddingNever == FALSE
IsPaddingEarly == inflight.frame >= TrackLength

IsPadding == inflight.frame = Padding

\* music_delivery: the silence is consumed and dropped, any other frame is
\* queued or, when the buffer refuses it, libspotify is told to deliver it again.
MusicDelivery ==
    /\ inflight # NoBlock
    /\ inflight' = NoBlock
    /\ \/ /\ IsPadding
          /\ Consumed
          /\ UNCHANGED buffer
       \/ /\ ~IsPadding
          /\ Len(queue) < Capacity
          /\ Buffer!Put(inflight)
          /\ Consumed
       \/ /\ ~IsPadding
          /\ Buffer!Refuse
          /\ Refused
    /\ UNCHANGED <<decoder, eofLost, streams, loaded, playing, discontinuity, ending>>

\* Mutant: the end mark is not written.
EndOfTrackUnmarked ==
    /\ ending
    /\ ending' = FALSE
    /\ UNCHANGED <<buffer, decoder, eofLost,
                   streams, loaded, playing, sent, discontinuity, inflight>>

\* end_of_track: write_end() ignores that the buffer may refuse the mark.
EndOfTrack ==
    /\ ending
    /\ ending' = FALSE
    /\ \/ /\ Len(queue) < Capacity
          /\ Buffer!Put(Eof(loaded))
          /\ UNCHANGED eofLost
       \/ /\ Buffer!Refuse
          /\ eofLost' = TRUE
    /\ UNCHANGED <<decoder, streams, loaded, playing, sent, discontinuity, inflight>>

-----------------------------------------------------------------------------
(* InputSpotify: open and the destructor *)

\* GetInitializedLibSpotify
Register(i) == users' = users \cup {i}

\* open( input_open_decode ): it may throw before or after it has registered.
Open(i) ==
    /\ pc[i] = "none"
    /\ \/ Register(i) /\ Goto(i, "open")
       \/ Register(i) /\ Goto(i, "failed")
       \/ UNCHANGED users /\ Goto(i, "failed")
    /\ UNCHANGED <<buffer, player, eofLost, owner, hasDecoder, aborting, stream, got>>

\* Mutant: the decoder is not released.
DestroyKeepsDecoder(i) ==
    /\ pc[i] \in {"open", "idle", "done", "failed"}
    /\ users' = users \ {i}
    /\ hasDecoder' = [hasDecoder EXCEPT ![i] = FALSE]
    /\ aborting' = [aborting EXCEPT ![i] = FALSE]
    /\ stream' = [stream EXCEPT ![i] = 0]
    /\ got' = [got EXCEPT ![i] = 0]
    /\ Goto(i, "none")
    /\ UNCHANGED <<buffer, player, eofLost, owner>>

\* ~InputSpotify: Finalize.  A new object may take the place of this one.
Destroy(i) ==
    /\ pc[i] \in {"open", "idle", "done", "failed"}
    /\ owner' = IF i \in users /\ hasDecoder[i] THEN NoOwner ELSE owner
    /\ users' = users \ {i}
    /\ hasDecoder' = [hasDecoder EXCEPT ![i] = FALSE]
    /\ aborting' = [aborting EXCEPT ![i] = FALSE]
    /\ stream' = [stream EXCEPT ![i] = 0]
    /\ got' = [got EXCEPT ![i] = 0]
    /\ Goto(i, "none")
    /\ UNCHANGED <<buffer, player, eofLost>>

-----------------------------------------------------------------------------
(* InputSpotify::decode_initialize *)

\* Mutant: another input's decoder is taken over.
AcquireDecoderAnyway(i) ==
    /\ owner' = i
    /\ hasDecoder' = [hasDecoder EXCEPT ![i] = TRUE]

\* AcquireDecoder refuses an input while another one is decoding.
AcquireDecoder(i) ==
    /\ owner \in {NoOwner, i}
    /\ owner' = i
    /\ hasDecoder' = [hasDecoder EXCEPT ![i] = TRUE]

\* The host may start an input over, which still or no longer is the owner.
InitializeAcquire(i) ==
    /\ pc[i] \in {"open", "idle", "done"}
    /\ Register(i)
    /\ \/ AcquireDecoder(i) /\ Goto(i, "acquired")
       \/ /\ owner \notin {NoOwner, i}
          /\ Goto(i, "failed")
          /\ UNCHANGED <<owner, hasDecoder>>
    /\ UNCHANGED <<buffer, player, eofLost, aborting, stream, got>>

InitializeClear(i) ==
    /\ pc[i] = "acquired"
    /\ Buffer!Clear
    /\ Goto(i, "cleared")
    /\ UNCHANGED <<player, eofLost, owner, users, hasDecoder, aborting, stream, got>>

\* GetInitializedSpSession or the load may fail; the decoder is then kept until
\* the input is destroyed.
InitializeLoad(i) ==
    /\ pc[i] = "cleared"
    /\ \/ StartStream(i, 0) /\ playing' = TRUE /\ Goto(i, "idle")
       \/ Goto(i, "failed") /\ UNCHANGED <<player, stream, got>>
    /\ UNCHANGED <<buffer, eofLost, owner, users, hasDecoder, aborting>>

-----------------------------------------------------------------------------
(* InputSpotify::decode_run *)

\* ReleaseDecoder, and decode_run returns false.
Finish(i) ==
    /\ owner' = NoOwner
    /\ hasDecoder' = [hasDecoder EXCEPT ![i] = FALSE]
    /\ Goto(i, "done")
    /\ UNCHANGED got

\* dataReader: the end mark ends playback, a frame is handed to the caller.
ReadBlock(i) ==
    /\ Buffer!Get
    /\ \/ Head(queue).frame = 0 /\ Finish(i)
       \/ /\ Head(queue).frame # 0
          /\ got' = IF Head(queue).stream = stream[i]
                    THEN [got EXCEPT ![i] = Head(queue).frame] ELSE got
          /\ Goto(i, "idle")
          /\ UNCHANGED <<owner, hasDecoder>>

Run(i) ==
    /\ pc[i] = "idle"
    /\ \/ ReadBlock(i)
       \/ /\ Buffer!GetNothing
          /\ Goto(i, "waiting")
          /\ UNCHANGED <<owner, hasDecoder, got>>
    /\ UNCHANGED <<player, eofLost, users, aborting, stream>>

\* wait_for_data returns when there is data or the caller aborts.
WaitForData(i) ==
    /\ pc[i] = "waiting"
    /\ queue # <<>> \/ aborting[i]
    /\ Goto(i, "woken")
    /\ UNCHANGED <<buffer, player, eofLost, owner, users, hasDecoder, aborting, stream, got>>

\* posMutex_ was released in between: what was there may be gone.
ReadAgain(i) ==
    /\ pc[i] = "woken"
    /\ \/ ReadBlock(i)
       \/ Buffer!GetNothing /\ Finish(i)
    /\ UNCHANGED <<player, eofLost, users, aborting, stream>>

-----------------------------------------------------------------------------
(* InputSpotify::decode_seek *)

SeekClear(i) ==
    /\ pc[i] = "idle"
    /\ Buffer!Clear
    /\ Goto(i, "seeking")
    /\ UNCHANGED <<player, eofLost, owner, users, hasDecoder, aborting, stream, got>>

\* Seeking an unloaded player does nothing.
SeekPlayer(i) ==
    /\ pc[i] = "seeking"
    /\ \/ /\ loaded # 0
          /\ \E t \in 0 .. TrackLength : StartStream(i, t)
          /\ UNCHANGED playing
          /\ Goto(i, "idle")
       \/ /\ loaded = 0
          /\ Goto(i, "idle")
          /\ UNCHANGED <<player, stream, got>>
       \/ Goto(i, "failed") /\ UNCHANGED <<player, stream, got>>
    /\ UNCHANGED <<buffer, eofLost, owner, users, hasDecoder, aborting>>

-----------------------------------------------------------------------------
(* The main thread *)

OnPlaybackPause ==
    /\ playing' = ~playing
    /\ UNCHANGED <<buffer, decoder, eofLost,
                   streams, loaded, sent, discontinuity, inflight, ending>>

\* The host aborts the inputs that are in use; on_playback_stop unloads the
\* player, unless another track is about to start.
AbortInputs == aborting' = [i \in Inputs |-> pc[i] # "none"]

OnPlaybackStop ==
    /\ \E i \in Inputs : pc[i] # "none" /\ ~aborting[i]
    /\ AbortInputs
    /\ \/ UNCHANGED <<loaded, discontinuity, ending>>    \* starting_another
       \/ /\ loaded' = 0
          /\ discontinuity' = FALSE
          /\ ending' = FALSE
    /\ UNCHANGED <<buffer, eofLost, owner, users, hasDecoder, pc, stream, got,
                   streams, playing, sent, inflight>>

-----------------------------------------------------------------------------

InputNext(i) ==
    \/ Open(i) \/ Destroy(i)
    \/ InitializeAcquire(i) \/ InitializeClear(i) \/ InitializeLoad(i)
    \/ Run(i) \/ WaitForData(i) \/ ReadAgain(i)
    \/ SeekClear(i) \/ SeekPlayer(i)

Next ==
    \/ FetchFrame
    \/ PostEndOfTrack
    \/ DeliverDiscontinuity
    \/ MusicDelivery
    \/ EndOfTrack
    \/ OnPlaybackPause
    \/ OnPlaybackStop
    \/ \E i \in Inputs : InputNext(i)

Spec == Init /\ [][Next]_vars

\* The threads keep running: libspotify delivers, the event loop handles its
\* events, a call of the decoder thread goes on, and the host calls decode_run
\* until it returns false.  The host destroys an input it is done with or has
\* aborted; it may first make further calls, but not for ever.
Fairness ==
    /\ WF_vars(FetchFrame) /\ WF_vars(PostEndOfTrack)
    /\ WF_vars(DeliverDiscontinuity) /\ WF_vars(MusicDelivery) /\ WF_vars(EndOfTrack)
    /\ \A i \in Inputs :
         /\ WF_vars(InitializeClear(i)) /\ WF_vars(InitializeLoad(i))
         /\ WF_vars(Run(i)) /\ WF_vars(WaitForData(i)) /\ WF_vars(ReadAgain(i))
         /\ WF_vars(SeekPlayer(i))
         /\ SF_vars((aborting[i] \/ pc[i] \in {"done", "failed"}) /\ Destroy(i))

FairSpec == Spec /\ Fairness

-----------------------------------------------------------------------------
(* Properties *)

InDecode == {"acquired", "cleared", "idle", "waiting", "woken", "seeking"}

\* Through failed initialisations, exceptions and destructors of any of the
\* inputs, the backend and the inputs agree on who is decoding: this is the
\* assertion of ReleaseDecoder, and it leaves the buffer with a single reader,
\* which is among the users the backend would finalize.
SingleDecoder ==
    /\ \A i \in Inputs : hasDecoder[i] <=> owner = i
    /\ \A i \in Inputs : pc[i] \in InDecode => owner = i
    /\ owner # NoOwner => owner \in users

\* Once the flush of a load or a seek is delivered, nothing of an earlier stream
\* is left in the buffer, whatever was delivered between the decoder thread's
\* clear() and its call of the player.
FlushedIsFresh ==
    loaded # 0 /\ ~discontinuity => \A k \in 1 .. Len(queue) : queue[k].stream = loaded

\* While the player is on the stream an input started, the frame that decode_run
\* would return next follows the last one it returned: neither a full buffer nor a
\* flush nor a clear() ever costs a frame or brings one twice.
NoFrameSkipped ==
    \A i \in Inputs :
        /\ pc[i] \in {"idle", "waiting", "woken"} /\ loaded = stream[i]
        /\ queue # <<>> /\ Head(queue).stream = stream[i] /\ Head(queue).frame # 0
        => Head(queue).frame = got[i] + 1

\* When the end mark of the stream the player is on ends an input's playback, every
\* frame up to the end of the track was returned to it first.
EndIsComplete ==
    [][\A i \in Inputs :
         (/\ pc'[i] = "done" /\ pc[i] # "done"
          /\ queue # <<>> /\ Head(queue) = Eof(stream[i]) /\ loaded = stream[i])
           => got[i] = TrackLength]_vars

\* While a reader waits for data or is about to read it, what is there to read is
\* taken away by nothing but a flush that libspotify had yet to deliver: no other
\* input's start, seek, read or destructor empties the buffer under it.
OnlyFlushTakes ==
    [][\A i \in Inputs :
         pc[i] \in {"waiting", "woken"} /\ pc'[i] = pc[i] /\ Len(queue') < Len(queue)
           => discontinuity /\ ~discontinuity']_vars

\* "wait was aborted, ending playback": a decode_run that still finds nothing
\* to read after wait_for_data has returned was aborted.
EmptyMeansAborted ==
    [][\A i \in Inputs :
         pc[i] = "woken" /\ pc'[i] = "done" /\ queue = <<>> => aborting[i]]_vars

\* An input its host aborts gives the decoder up, wherever its call was.
AbortedReleasesDecoder ==
    \A i \in Inputs : owner = i /\ aborting[i] ~> owner # i

\* A decoder thread waits for data for good only if the player is paused or
\* unloaded, or if the end mark of a track was refused by a full buffer.
WaitEnds ==
    \A i \in Inputs :
        pc[i] = "waiting" ~> pc[i] # "waiting" \/ ~playing \/ loaded = 0 \/ eofLost
=============================================================================
