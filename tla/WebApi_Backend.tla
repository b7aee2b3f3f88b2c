---------------------------- MODULE WebApi_Backend ----------------------------
(***************************************************************************)
(* Requests to the WebApi and the files that cache their answers           *)
(* (backend/webapi_backend.cpp, backend/webapi_cache.{h,cpp}).  A call     *)
(* looks for its objects in the cache, requests what is missing through    *)
(* the limiter, repeats a request that is answered with 429, and caches    *)
(* the answer.  Files outlive the program, which may be killed while it    *)
(* writes one, or fail to write some.                                      *)
(*                                                                         *)
(* One object cache stands for those of tracks and artists, which have the *)
(* same calls, and for the cache with the one object Me.  Their mutexes    *)
(* are held within one action each; that of the images through a download. *)
(* That the abort manager runs a scope's task and that the waiting call    *)
(* notices is one action.                                                  *)
(***************************************************************************)
EXTENDS RpsLimiter, FiniteSets

CONSTANTS
    Ids,           \* of tracks (or artists)
    Me,            \* the user
    Image,         \* an image
    Nobody,        \* no call holds the images' mutex
    ChunkSize,     \* kMaxItemsPerRequest of RefreshCacheForTracks
    Sends,         \* how often a request is sent
    Calls          \* the calls each thread may make

ASSUME BackendAssumption ==
    /\ Me \notin Ids /\ Image \notin Ids \cup {Me}
    /\ Nobody \notin Callers
    /\ ChunkSize \in Nat \ {0} /\ Sends \in Nat \ {0}

VARIABLES
    file,      \* the file of each object: "absent", "partial" or "complete"
    call,      \* the call each thread makes
    pc,        \* where it is
    pos,       \* where the last chunk of a refresh began, or the page of a list
    want,      \* the ids of the request it makes, and of the pages it has
    sent,      \* how often that was sent
    aborting,  \* the calls whose abort_callback is aborting
    imageLock, \* who holds the images' mutex
    cut        \* history: the objects whose last write failed, or was cut short by a kill

backend == <<file, call, pos, want, sent, aborting, imageLock, cut>>
vars == <<limiterVars, backend, pc>>

Idle == [op |-> "none"]
Objects == Ids \cup {Me, Image}
Call ==
    [op : {"none", "image"}] \cup [op : {"track"}, id : Ids \cup {Me}]
    \cup [op : {"relinked"}, id : Ids] \cup [op : {"top"}, tracks : SUBSET Ids]
    \cup [op : {"tracks"}, ids : Seq(Ids)] \cup [op : {"pages"}, pages : Seq(SUBSET Ids) \ {<<>>}]

ASSUME CallsAssumption == \A c \in Callers : Calls[c] \subseteq Call \ {Idle}

Requesting == {"request", "waiting", "send", "sleep", "cache"}
Point == {"idle", "chunk", "read", "image", "download"} \cup Requesting

\* Type correctness; the queue holds the calls that wait for the limiter.
TypeOK ==
    /\ LimiterTypeOK
    /\ Waiting = {c \in Callers : pc[c] = "waiting"}
    /\ file \in [Objects -> {"absent", "partial", "complete"}]
    /\ \A c \in Callers : call[c] \in Calls[c] \cup {Idle}
    /\ pc \in [Callers -> Point]
    /\ \A c \in Callers : pc[c] = "idle" <=> call[c] = Idle
    /\ pos \in [Callers -> Nat]
    /\ want \in [Callers -> SUBSET (Ids \cup {Me})]
    /\ sent \in [Callers -> 0 .. Sends]
    /\ aborting \subseteq Callers
    /\ cut \subseteq Objects
    /\ imageLock \in Callers \cup {Nobody}
    /\ \A c \in Callers : imageLock = c <=> pc[c] = "download"

Init ==
    /\ LimiterInit
    /\ call = [c \in Callers |-> Idle]
    /\ pc = [c \in Callers |-> "idle"]
    /\ pos = [c \in Callers |-> 0]
    /\ want = [c \in Callers |-> {}]
    /\ sent = [c \in Callers |-> 0]
    /\ aborting = {}
    /\ imageLock = Nobody
    /\ file \in [Objects -> {"absent", "complete"}]
    /\ cut = {}

Goto(c, p) == pc' = [pc EXCEPT ![c] = p]

\* IsCached looks for the file only; GetObjectFromCache reads it.
IsCached(id) == file[id] # "absent"
Readable(id) == file[id] = "complete"

\* A call returns, or throws.
Return(c) ==
    /\ Goto(c, "idle")
    /\ call' = [call EXCEPT ![c] = Idle]
    /\ pos' = [pos EXCEPT ![c] = 0]
    /\ want' = [want EXCEPT ![c] = {}]
    /\ sent' = [sent EXCEPT ![c] = 0]
    /\ aborting' = aborting \ {c}

Request(c, ids) ==
    /\ want' = [want EXCEPT ![c] = ids]
    /\ sent' = [sent EXCEPT ![c] = 0]
    /\ Goto(c, "request")

-----------------------------------------------------------------------------
(* The calls *)

Ordered(c) == call[c].ids
LastOf(c) == Len(Ordered(c))

\* remove_if and chunk are lazy views: where a chunk begins is looked for when
\* the loop gets there, among the ids that are not cached by then.
Uncached(ids, from) == {i \in from .. Len(ids) : ~IsCached(ids[i])}

\* The n-th uncached position behind i, or the end.
Advance(ids, i, n) ==
    LET later == Uncached(ids, i + 1)
        nth == {j \in later : Cardinality({k \in later : k <= j}) = n}
    IN IF nth = {} THEN Len(ids) + 1 ELSE CHOOSE j \in nth : TRUE

\* Mutant: a chunk has one id less than the loop moves on.
ChunkShort(ids, i) ==
    {ids[j] : j \in {j \in {i} \cup Uncached(ids, i + 1) :
                        Cardinality({k \in Uncached(ids, i + 1) : k <= j}) + 1 < ChunkSize}}

\* The chunk that begins at i.
Chunk(ids, i) ==
    {ids[j] : j \in {j \in {i} \cup Uncached(ids, i + 1) :
                        Cardinality({k \in Uncached(ids, i + 1) : k <= j}) < ChunkSize}}

\* GetTracks, GetImage
StartCall(c) ==
    /\ pc[c] = "idle"
    /\ \E k \in Calls[c] :
         /\ call' = [call EXCEPT ![c] = k]
         /\ \/ k.op = "tracks" /\ Goto(c, "chunk")
            \/ k.op = "image" /\ Goto(c, "image")
    /\ UNCHANGED <<limiterVars, file, pos, want, sent, aborting, imageLock, cut>>

\* What a call asks for: GetTrack, GetArtist and GetUser one object,
\* GetTopTracksForArtist the tracks of the answer.
Asked(k) == IF k.op = "top" THEN k.tracks ELSE {k.id}

\* The country of the user is looked for first.
NeedsUser(k) == k.op \in {"relinked", "top"}

FirstAsked(k) == IF NeedsUser(k) /\ ~Readable(Me) THEN {Me} ELSE Asked(k)

\* A relinked track is requested, cached or not, and so are the top tracks.
GetTrack(c) ==
    /\ pc[c] = "idle"
    /\ \E k \in Calls[c] :
         /\ k.op \in {"track", "relinked", "top"}
         /\ k.op = "track" => ~Readable(k.id)
         /\ call' = [call EXCEPT ![c] = k]
         /\ Request(c, FirstAsked(k))
    /\ UNCHANGED <<limiterVars, file, pos, aborting, imageLock, cut>>

\* GetTracksFromPlaylist and GetTracksFromAlbum: the first page.
GetTracksFromPlaylist(c) ==
    /\ pc[c] = "idle"
    /\ \E k \in Calls[c] :
         /\ k.op = "pages"
         /\ call' = [call EXCEPT ![c] = k]
         /\ pos' = [pos EXCEPT ![c] = 1]
         /\ Request(c, k.pages[1])
    /\ UNCHANGED <<limiterVars, file, aborting, imageLock, cut>>

\* One turn of the loop of RefreshCacheForTracks, and of RefreshCacheForArtists.
RefreshCacheForTracks(c) ==
    LET next == Advance(Ordered(c), pos[c], IF pos[c] = 0 THEN 1 ELSE ChunkSize) IN
    /\ pc[c] = "chunk"
    /\ IF next > LastOf(c)
       THEN Goto(c, "read") /\ UNCHANGED <<pos, want, sent>>
       ELSE /\ pos' = [pos EXCEPT ![c] = next]
            /\ Request(c, Chunk(Ordered(c), next))
    /\ UNCHANGED <<limiterVars, file, call, aborting, imageLock, cut>>

\* GetTracks reads what was refreshed.
GetTracks(c) ==
    /\ pc[c] = "read"
    /\ Return(c)
    /\ UNCHANGED <<limiterVars, file, imageLock, cut>>

-----------------------------------------------------------------------------
(* Requests *)

\* GetAccessToken gives a token or throws; WaitForRequestAvailability returns at
\* once when the call is aborting, and the request is cancelled.
GetResponse(c) ==
    /\ pc[c] = "request"
    /\ \/ Return(c) /\ UNCHANGED limiterVars
       \/ /\ c \notin aborting
          /\ \/ PassAtOnce /\ Goto(c, "send")
             \/ Join(c) /\ Goto(c, "waiting")
          /\ UNCHANGED <<call, pos, want, sent, aborting>>
    /\ UNCHANGED <<file, imageLock, cut>>

Wait(c) ==
    /\ \/ Pass(c) /\ Goto(c, "send")
       \/ SleepAgain(c) /\ UNCHANGED pc
    /\ UNCHANGED backend

\* The abort ends the wait; the request is cancelled behind it.
WaitAborted(c) ==
    /\ c \in aborting
    /\ GiveUp(c)
    /\ Return(c)
    /\ UNCHANGED <<file, imageLock, cut>>

\* The answer is not usable, the request is cancelled or times out, or the directory
\* of the cache cannot be created.
RequestFails(c) ==
    /\ pc[c] = "send"
    /\ Return(c)
    /\ UNCHANGED <<limiterVars, file, imageLock, cut>>

RequestSucceeds(c) ==
    /\ pc[c] = "send"
    /\ sent' = [sent EXCEPT ![c] = 0]
    /\ Goto(c, "cache")
    /\ UNCHANGED <<limiterVars, file, call, pos, want, aborting, imageLock, cut>>

\* Mutant: the repetitions are not counted.
TooManyRequestsForever(c) ==
    /\ pc[c] = "send"
    /\ sent[c] < Sends
    /\ Goto(c, "sleep")
    /\ UNCHANGED <<limiterVars, backend>>

\* 429: a repetition does not go through the limiter.
TooManyRequests(c) ==
    /\ pc[c] = "send"
    /\ sent[c] < Sends
    /\ sent' = [sent EXCEPT ![c] = @ + 1]
    /\ Goto(c, "sleep")
    /\ UNCHANGED <<limiterVars, file, call, pos, want, aborting, imageLock, cut>>

\* The call sleeps after the last 429, too, and fails then.
SleepEnds(c) ==
    /\ pc[c] = "sleep"
    /\ IF sent[c] < Sends /\ c \notin aborting
       THEN Goto(c, "send") /\ UNCHANGED <<call, pos, want, sent, aborting>>
       ELSE Return(c)
    /\ UNCHANGED <<limiterVars, file, imageLock, cut>>

\* Mutant: what is cached already is written anew.
WrittenAnew(ids) == ids

\* What is written of an answer: CacheObject leaves files alone that exist.
Written(ids) == {id \in ids : ~IsCached(id)}

\* The page of a list names the next one.
MorePages(c) == call[c].op = "pages" /\ pos[c] < Len(call[c].pages)

\* Mutant: the tracks of the pages before are forgotten.
NextPageForgets(c) ==
    /\ pc[c] = "cache"
    /\ MorePages(c)
    /\ pos' = [pos EXCEPT ![c] = @ + 1]
    /\ Request(c, call[c].pages[pos[c] + 1])
    /\ UNCHANGED <<limiterVars, file, call, aborting, imageLock, cut>>

\* Its tracks are kept until the last page is there.
NextPage(c) ==
    /\ pc[c] = "cache"
    /\ MorePages(c)
    /\ pos' = [pos EXCEPT ![c] = @ + 1]
    /\ Request(c, want[c] \cup call[c].pages[pos[c] + 1])
    /\ UNCHANGED <<limiterVars, file, call, aborting, imageLock, cut>>

\* A relinked track is not cached, and no part of a list.
Cacheable(c) ==
    IF MorePages(c) \/ (call[c].op = "relinked" /\ want[c] # {Me}) THEN {} ELSE want[c]

\* Bound: what one failure has cut short may be written again before the next one.
MayFail == cut = {}

\* WriteFile fails: nobody looks at its result, and the file may be half written.
WriteFails(c) ==
    /\ MayFail
    /\ \E lost \in SUBSET Written(Cacheable(c)) \ {{}} : \E torn \in SUBSET lost :
         /\ file' = [id \in DOMAIN file |->
                        IF id \in torn THEN "partial"
                        ELSE IF id \in Written(Cacheable(c)) \ lost THEN "complete"
                        ELSE file[id]]
         /\ cut' = lost

CacheObject(c) ==
    /\ file' = [id \in DOMAIN file |->
                   IF id \in Written(Cacheable(c)) THEN "complete" ELSE file[id]]
    /\ cut' = cut \ Written(Cacheable(c))

CacheObjects(c) ==
    /\ pc[c] = "cache"
    /\ ~MorePages(c)
    /\ CacheObject(c) \/ WriteFails(c)
    /\ IF call[c].op = "tracks"
       THEN /\ Goto(c, "chunk")
            /\ want' = [want EXCEPT ![c] = {}]
            /\ UNCHANGED <<call, pos, sent, aborting>>
       ELSE IF NeedsUser(call[c]) /\ want[c] = {Me}
       THEN Request(c, Asked(call[c])) /\ UNCHANGED <<call, pos, aborting>>
       ELSE Return(c)
    /\ UNCHANGED <<limiterVars, imageLock>>

-----------------------------------------------------------------------------
(* Images *)

\* GetImage holds the mutex for as long as it downloads.
GetImage(c) ==
    /\ pc[c] = "image"
    /\ imageLock = Nobody
    /\ IF IsCached(Image)
       THEN Return(c) /\ UNCHANGED imageLock
       ELSE /\ Goto(c, "download")
            /\ imageLock' = c
            /\ UNCHANGED <<call, pos, want, sent, aborting>>
    /\ UNCHANGED <<limiterVars, file, cut>>

\* Mutant: an aborted download leaves its file.
DownloadLeft == {"absent", "partial"}

\* The file of a failed download is removed.
DownloadRemoved == {"absent"}

\* URLDownloadToFile ends, by itself or because OnProgress tells it to.
DownloadEnds(c) ==
    /\ pc[c] = "download"
    /\ \E f \in (IF c \in aborting THEN {} ELSE {"complete"}) \cup DownloadRemoved :
         file' = [file EXCEPT ![Image] = f]
    /\ imageLock' = Nobody
    /\ Return(c)
    /\ UNCHANGED <<limiterVars, cut>>

-----------------------------------------------------------------------------

Abort(c) ==
    /\ pc[c] # "idle"
    /\ aborting' = aborting \cup {c}
    /\ UNCHANGED <<limiterVars, file, call, pc, pos, want, sent, imageLock, cut>>

TimePasses == Tick /\ UNCHANGED <<backend, pc>>

\* The program is killed and started again.  A file that was being
\* written stays partial; of an answer with several objects, those before it are
\* complete.
Kill ==
    /\ call' = [c \in Callers |-> Idle]
    /\ pc' = [c \in Callers |-> "idle"]
    /\ pos' = [c \in Callers |-> 0]
    /\ want' = [c \in Callers |-> {}]
    /\ sent' = [c \in Callers |-> 0]
    /\ aborting' = {}
    /\ imageLock' = Nobody
    /\ \/ UNCHANGED <<file, cut>>
       \/ \E c \in Callers :
            /\ pc[c] = "download" /\ MayFail
            /\ file' = [file EXCEPT ![Image] = "partial"]
            /\ cut' = {Image}
       \/ \E c \in Callers :
            /\ pc[c] = "cache" /\ MayFail
            /\ \E id \in Written(Cacheable(c)) :
                 \E done \in SUBSET (Written(Cacheable(c)) \ {id}) :
                   /\ file' = [o \in DOMAIN file |-> IF o = id THEN "partial"
                                                     ELSE IF o \in done THEN "complete"
                                                     ELSE file[o]]
                   /\ cut' = {id}
    /\ age' = [i \in 1 .. Limit |-> Period]
    /\ incomingRequests' = <<>>
    /\ left' = [c \in Callers |-> 0]
    /\ behind' = {}

\* What a call does by itself.
Proceed(c) ==
    \/ RefreshCacheForTracks(c) \/ GetTracks(c) \/ GetResponse(c) \/ Wait(c)
    \/ RequestFails(c) \/ RequestSucceeds(c) \/ TooManyRequests(c) \/ SleepEnds(c)
    \/ NextPage(c) \/ CacheObjects(c) \/ GetImage(c) \/ DownloadEnds(c)

Next ==
    \/ \E c \in Callers :
         \/ StartCall(c) \/ GetTrack(c) \/ GetTracksFromPlaylist(c)
         \/ Proceed(c) \/ WaitAborted(c) \/ Abort(c)
    \/ TimePasses \/ Kill

Spec == Init /\ [][Next]_vars

\* Time passes, and threads run; the HTTP client gives a request up after a while,
\* so that none stays unanswered.
FairSpec ==
    /\ Spec
    /\ WF_vars(TimePasses)
    /\ \A c \in Callers : WF_vars(Proceed(c))

-----------------------------------------------------------------------------
(* Properties *)

\* What RefreshCacheForTracks has refreshed, and could write, GetTracks finds: the
\* assertion of webapi_backend.cpp:160.
TracksCached ==
    \A c \in Callers : pc[c] = "read" =>
        \A i \in 1 .. LastOf(c) : IsCached(Ordered(c)[i]) \/ Ordered(c)[i] \in cut

\* Up to the size of a chunk the assertion holds, and each track can be read,
\* whatever other calls cache in the meantime; when some files could not be
\* written, or the program was killed while it wrote one, all others can.
ChunkCached ==
    \A c \in Callers : pc[c] = "read" /\ LastOf(c) <= ChunkSize =>
        \A i \in 1 .. LastOf(c) : Readable(Ordered(c)[i]) \/ Ordered(c)[i] \in cut

\* A failed or aborted download never leaves a file that would count as an image;
\* only a kill during the download does.
NoTornImage == file[Image] = "partial" => Image \in cut

\* No call and no kill ever damages a file that is complete.
CompleteForGood ==
    [][\A id \in DOMAIN file : file[id] = "complete" => file'[id] = "complete"]_vars

\* What a call that caches its answer is asked for.
Answer(k) == IF k.op = "pages" THEN UNION {k.pages[n] : n \in 1 .. Len(k.pages)} ELSE Asked(k)

\* A call that returns with an answer leaves all of it in the cache: the tracks of
\* every page of a list, though they are written behind the last one and other
\* calls cache, fail and download in between, and the tracks of an artist though
\* the user was requested before them.  The files can be read, but for those whose
\* write failed, now or before, or was cut short by a kill.
AnswersCached ==
    [][\A c \in Callers :
          /\ pc[c] = "cache" /\ CacheObjects(c) /\ pc'[c] = "idle"
          /\ call[c].op \in {"track", "top", "pages"}
          => \A id \in Answer(call[c]) : file'[id] = "complete" \/ id \in cut']_vars

\* Where a thread makes no call that requests.
OutsideRequests == {"idle", "image", "download"}

\* Every call that makes a request ends, and its thread comes out of it: no request
\* stays in the queue for good, though nobody is notified when its turn comes, and
\* others give up or never stop arriving; no loop of chunks, pages or repetitions
\* goes on for ever.
CallEnds == \A c \in Callers : []<>(pc[c] \in OutsideRequests)
=============================================================================
