# foo_spotify: a verification development

foo_spotify is a foobar2000 component that plays Spotify tracks. It combines
two services: libspotify, a binary SDK that logs in and delivers decoded
audio, and Spotify's Web API, which supplies metadata. This directory models
its concurrent core in TLA+, checks it with TLC on small instances and proves
properties of it with TLAPS for every instance.

Paths below are relative to `src/foo_spotify/`.

## The system

| Part | State | Operations | Talks to |
|---|---|---|---|
| `AudioBuffer` (`backend/audio_buffer.*`) | an array of 8M cells, `readPos_`, `writePos_`, `waterMark_`, one mutex and condition variable | `write`, `write_end`, `read`, `wait_for_data`, `clear` | written by libspotify's delivery thread and the event loop, read by decoder threads |
| `InputSpotify` (`fb2k/input.cpp`) | `usingLibSpotify_`, `hasDecoder_`, the opened track | `open`, `decode_initialize`, `decode_run`, `decode_seek`, destructor | called by the host's decoder threads, several objects at a time; uses the backend and the audio buffer |
| `LibSpotify_Backend` (`backend/libspotify_backend.*`) | decoder owner, users, login status, event flag, four mutexes | decoder ownership, `Relogin`, `LoginWithUI`, `LogoutAndForget`, callbacks, event loop | libspotify calls back on its own thread (`music_delivery`, `notify_main_thread`) and on the event loop (everything else) |
| `PlayCallbacks` (`fb2k/playback.cpp`) | a pointer to the backend | pause, stop | the host, on the main thread |
| `PreferenceTabAuth` (`ui/ui_pref_tab_auth.*`) | a status per service, a status thread | open, close, login and logout buttons, messages | the main thread; its status thread calls `Relogin` and refreshes the Web API token |
| `AbortManager` (`utils/abort_manager.*`) | tasks by id, ids by abort callback, a polling thread | add and remove a task, poll, stop | every call that blocks |
| `SpotifyInstance` (`backend/spotify_instance.*`) | the singletons, `isFinalized_` | lazy creation, shutdown | everything |
| `WebApi_Backend`, `RpsLimiter` (`backend/webapi_backend.*`, `utils/rps_limiter.*`) | time stamps of requests, waiting requests | requests with a rate limit and retries on 429 | Web API, caches, authorizer |
| Web API caches (`backend/webapi_cache.*`) | files on disk, a mutex each | look up, store, download an image | `WebApi_Backend` |
| `WebApiAuthorizer` (`backend/webapi_auth.*`) | tokens in memory and in a file, listener, cancellation source | authenticate in a browser, refresh, cancel, clear | preferences, requests, an HTTP listener |
| Host adapters (playlist loader, file system, album art, metadata, configuration, dialogs) | none of interest | translations | `WebApi_Backend`, the host |

What is hard about it:

* **Concurrency.** Audio arrives on libspotify's thread, ends of track on the
  event loop, and is read by decoder threads, while the main thread pauses,
  stops, logs in and out. A method of `InputSpotify` is a series of critical
  sections with gaps between them.
* **Ordering.** Loading or seeking invalidates what is in the buffer, but frames
  of the previous stream may arrive before libspotify announces the flush.
  Answers to logins arrive late, after time-outs, and two logins may be under way.
* **Mutexes.** The event loop runs callbacks with `apiMutex_` locked, and they
  lock `loginMutex_`; `Relogin` locks them the other way round.
* **Time-outs.** Every wait has an `abort_callback`, noticed by a thread that polls.
* **Two copies.** Authorization is kept in memory and in a file that change one
  after the other; cached answers outlive the program, which may be killed while it
  writes one.
* **The end.** The host quits while workers are inside requests, inputs are open and
  two threads of the program loop.

What makes each part correct:

* `AudioBuffer`: chunks come out whole, once, in order; a full buffer is never
  taken for an empty one; a chunk is refused only when there is no room for it.
* Playback: one decoder at a time; after a load or a seek nothing stale is
  played; no frame is lost or repeated; only a flush empties the buffer under a
  reader; a track ends when it ends; an aborted call gives the decoder up.
* Login: a backend that says it is logged in is; a status in process will be
  settled; every call that waits returns.
* `AbortManager`: a task runs if its callback aborts while it is registered,
  never after its removal.
* Shutdown: no part outlives one it needs, none comes back, and every thread can be
  joined.
* Web API: a request is not overtaken and passes as soon as the limit allows; a refresh
  leaves every track in the cache, and an answer all of what it lists; a complete file
  stays complete; every request ends.
* Authorization: one refresh at a time; what is used is what is stored; nothing
  outlives the dialog; the dialog can always be closed.

## The modules

| Module | What it is |
|---|---|
| `AudioQueue` | Abstract: a first-in first-out queue that may refuse a block when it is not empty |
| `AudioBuffer` | The ring buffer, cell by cell |
| `MCAudioBuffer` | Its small instance |
| `AudioBufferProofs` | Its theorems |
| `Playback` | libspotify's player, delivery and end of track, any number of `InputSpotify` objects, pause and stop, around an `AudioQueue` |
| `MCPlayback` | Symmetry of the inputs, and a `VIEW` without the results of the latest buffer calls, which no guard and, `TypeOK` apart (it is proved), no property reads |
| `PlaybackProofs` | Its theorems |
| `LibSpotifyLogin` | The login status: decoder threads, the status thread, the main thread with its dialogs, the event loop and its callbacks, libspotify |
| `LibSpotifyLoginProofs` | Its theorems |
| `AbortService` | Abstract: open scopes whose tasks run when their callback aborts, or when the service stops |
| `AbortManager` | The two maps, the ids and the polling thread |
| `AbortManagerProofs` | Its theorems |
| `SpotifyInstance` | Creation and shutdown of all parts, with workers in requests, inputs and the event loop, around the `AbortManager` |
| `MCSpotifyInstance` | Its small instance |
| `SpotifyInstanceProofs` | Its theorems |
| `RpsLimiter` | Time stamps, queue and sleeps of the rate limit |
| `RpsLimiterProofs` | Its theorems |
| `WebApi_Backend` | Calls, requests and cached files, around the `RpsLimiter` |
| `MCWebApi_Backend` | Two small instances |
| `WebApi_BackendProofs` | Its theorems |
| `WebApiAuthorizer` | Tokens, their file, the browser's answer, and the tab of the preferences that changes them |
| `WebApiAuthorizerProofs` | Its theorems |

`AudioBuffer` implements `AudioQueue` (checked and proved), and `Playback`
instantiates `AudioQueue` as its buffer: what is shown of playback rests on the
ring buffer and not on an assumption about it: every step of `Playback` is a step of
`AudioQueue` or leaves it alone (proved, `RunsOnTheQueue`). How many blocks fit depends on
the sizes of the chunks, so `Playback` lets the queue refuse a block whenever it is not
empty, as `AudioQueue` does; `Capacity` only bounds the queue for the model checker.
That the real buffer does not refuse early is a property of its own
(`RefusedOnlyWhenFull`).

### AudioBuffer

Variables are the members of the class. `mem` holds in each cell the chunk it was
written for and its offset in it, so that tearing a chunk, or reading one at a
wrong position, gives a different value. The end mark (`write_end`) is a chunk
without data. The header's fields are abstracted to the chunk's identity and size.
`chunks` is a history variable: which chunks are unread, and where they are. The
four branches of `write` are four actions; `posMutex_` is held during the whole of
every operation, so each is atomic.

### Playback

Every load or seek starts a *stream* (numbered), since what matters is whether a
block belongs to the stream the player is on. A block is a frame or the end mark of a
stream. `StartStream` and `FetchFrame` model libspotify's player from how the code
uses it: after a load or a seek it delivers a discontinuity (`music_delivery` with no
frames) before the first frame, and a frame it has decoded before the load or
seek may still arrive before that; a chunk of silence ends every track (the
code drops it); what `music_delivery` returns says how much was consumed.

`pc` is where each input's call is. Between two points of `pc` there is at most one
critical section of the code, e.g. `decode_initialize` acquires the decoder, clears
the buffer, then loads; `decode_run` reads, waits, then reads again. Calls of
the host are unconstrained except for its own rules: one call at a time for an
object, no decoding before `decode_initialize` and none after it returned false or
threw; an input may be started over, which its owner's `AcquireDecoder` allows.

### LibSpotifyLogin

`loginMutex_` is only kept across steps by `Relogin` (`login` is its owner) and
`apiMutex_` by the event loop (`loop = "processing"`). Every other critical section
is one action that needs the mutex it locks to be free. `events` is what
libspotify has queued for `sp_session_process_events`; a callback is one action
of the event loop. libspotify is external: a login that was started
(`outstanding`) succeeds, fails or is never answered; a failed one reports its
error and possibly, before or after it, that the connection is logged out, which is
what the code's comment "possible when invalid user/pass are supplied" expects.
`ui` and `message` are the dialog's status and the message the status thread posts;
they are kept apart from the backend's status because the code keeps them apart.
Assertions are not guards: they are properties.

Three simplifications: the session's connection state changes when its callback runs,
since the code reads `sp_session_connectionstate` inside the callback, so that
`LoggedInMeansSession` is about the events processed so far; a failing
`GetInitializedSpSession` also asks the main thread to stop playback and to show a
dialog, which changes nothing here; and the dialog reads the user's name under
`apiMutex_` (`GetLoggedInUserName`), a wait of the main thread that only the deadlock of
finding 3 could make a long one, which `MainThreadReturns` exempts anyway.

### AbortManager and SpotifyInstance

`SpotifyInstance` extends `AbortManager`: its steps open and close scopes, change which
callbacks abort, and stop the polling thread. `mutex_` of the abort manager is held
through `AddTask`, `RemoveTask` and a turn of the polling thread, so each is one
action. That a scope's task runs and that the waiter notices are one step.

`parts` is the set of singletons that exist. Any thread that asks for one calls
`InitializeAll`, one action that needs `mutex_` of the instance free. It succeeds, is
refused, or fails with one of the two backends not created (`sp_session_create`, or the
proxy's address in `GetClientConfig`); or the constructor of `LibSpotify_Backend` throws
behind `StartEventLoopThread`, and the joinable thread ends the program
(`InitializeTerminates`). Only `Finalize` keeps that mutex across steps: `main` says which
part `on_quit` has come to. A worker (`pc`) goes through the limiter, the request, a 429 and
its sleep, with the scopes it has open at each point, and asks for a part again on the way,
as the code does. An input first gets a reference to the backend and then, in a step of its
own, registers or unregisters with it. `Crash` may happen wherever a thread has a
reference to a part that is gone; it need not, since the memory may still hold the part.
`fate` says how the program ended, if it did not quit. `FinalizeOpenUser` has the two
outcomes of locking a non-recursive mutex twice.

### RpsLimiter and WebApi_Backend

`WebApi_Backend` extends `RpsLimiter`. Time is counted in ticks and only as differences: the
age of each of the last `Limit` stamps up to a period, and what is left of a sleep.
`mutex_` is held except in the sleep, so that arriving and waking are one action
each. `behind` is a history variable (below).

A call goes through the same points whatever it asks for: `request`, `waiting` in the limiter,
`send`, `sleep` after a 429, `cache`. `GetTrack`, `GetArtist` and `GetUser` make
one request, a relinked track and the top tracks one more before it for the user,
`RefreshCacheForTracks` and `RefreshCacheForArtists` one for each chunk, and
`GetTracksFromPlaylist` and `GetTracksFromAlbum` one for each page. `Advance` and `Chunk`
are what the lazy views of the code compute: where a chunk begins, and what belongs to
it, depends on what is cached when the loop gets there. One object cache stands for those of tracks
and artists and for the one with the user, whose code is the same; their mutexes are held
within one action each, that of the images through a download (`imageLock`). `Kill` ends
the program at any point, any number of times, and may leave a file half written
(`partial`): `IsCached` takes it for cached, reading it fails. `WriteFails` is a write
whose result nobody looks at: any part of an answer stays absent or half written. `cut` is
a history variable, the objects the last such failure has met. Bound: a failure meets a
write only while `cut` is empty, that is before another has, or when what it left absent has
been written since.

### WebApiAuthorizer

Every change of the tokens in memory and of the file is an action of its own (`store`,
`set`, `clear`, `remove`), because the code makes them one after another.
`accessTokenMutex_` is held by who gets or refreshes a token, and by nobody who clears or
replaces it. Tokens are abstracted to the account they belong to and whether they
have expired. The main thread handles the dialog's messages, its buttons and its
closing; the listener's thread handles the browser's answer; the status thread
refreshes; requesters stand for requests. Reading a token that was cleared meanwhile is
undefined: the model stops there (`undefined`). The write of the file may fail, which
the code does not look at, and then leaves the file as it was or half written, which the next
start removes (`unsaved` is a history variable that says so). A reply of success that throws
is handled like a failed exchange. That `fs::remove` cannot remove the file is left
out. The program may be killed once, between any two steps, and starts from the file.

## The runs

| Run | Instance | Shows |
|---|---|---|
| `AudioBuffer` | 7 cells, chunks of 3, 2, 2 and 1 cells | `TypeOK`; `Chained`, `Ordered`, `ChunksIntact`; `RefusedOnlyWhenFull`; `ImplementsQueue` (refinement) |
| `Playback` | 2 inputs, 2 blocks, 4 frames, 3 streams | `TypeOK`; `SingleDecoder`; `FlushedIsFresh`; `NoFrameSkipped`; `EndIsComplete`; `OnlyFlushTakes` |
| `PlaybackLive` | 1 input, 2 blocks, 3 frames, 3 streams | `AbortedReleasesDecoder`; `WaitEnds` |
| `PlaybackEmptyRead` | 1 input | `EmptyMeansAborted` is violated |
| `Login` | 1 decoder thread, status thread, main thread, 2 queued events | `TypeOK`; `LoggedInMeansSession`; `InProcessIsPending`; `LoginWakesAll`; `NoLostEvent` |
| `LoginLive` | status thread, main thread, a stored login | `AbortedReloginReturns`; `MainThreadReturns` |
| `LoginAssert`, `LoginEvents` | status thread, main thread | `LoginStartsLoggedOut`, `NotifiedIsProcessed` are violated |
| `Shutdown` | 2 workers, 1 input, ids up to 2 when a wait begins | `TypeOK`; `MapsAgree`; `DependentsOutlived`; `ImplementsService` (refinement); `FinalizedForGood`; `QuitCompletes` |
| `WebApi` | 2 callers, 2 ids, the user and an image, 2 requests a period, chunks of 2, 2 sends, 2 pages | `TypeOK`; `FrontWakesInTime`; `ChunkCached`; `NoTornImage`; `CompleteForGood`; `AnswersCached`; `CallEnds` |
| `WebApiRefresh` | 1 caller, a list of 3, chunks of 2 | `TracksCached` is violated |
| `Authorizer` | 2 accounts, 1 requester, main, status and listener threads | `TypeOK`; `ClosedIsQuiet`; `OneRefresh`; `ReadsToken`; `UsedIsStored`; `CloseEnds` |

Why the bounds are enough:

* 7 cells are a multiple of no chunk's size, hold two of the largest with one cell
  over, and let the writer wrap at several distances from the end, ahead of the reader by
  exactly its size and by one more or less.
* 3 streams let a frame or an end mark of one stream meet a flush of the next and a
  seek after that. A track is longer than the buffer, so that frames are refused and
  delivered again, and in the safety run long enough for a frame to follow one that was
  lost. Two inputs compete for the decoder; a third adds nothing, since an input meets
  only the owner. The liveness run has one input: only an owner releases the decoder.
* Two queued events are what a failed login posts at once; two logins (one by
  `Relogin`, one by the dialog) are all that can be under way, since a third
  call replaces one of them in the program's eyes. `LoginLive` leaves out the decoder
  thread, whose calls are those of the status thread without its message.
* Two workers of the pool have scopes of two callbacks in the maps at once, and up to
  two scopes each. `MaxCounter` bounds the ids, and so how many waits a worker begins; with
  it a worker can still come back from one request and begin the next while the
  other is quitting. Shutdown happens at every one of these points.
* Two callers and two stamps: one waits behind the other, gives up in front of it, or
  arrives when the front could pass. A period is one tick, since only equal or unequal to
  it matters. With two sends a request is repeated once and fails after the second
  429. The calls are those that conflict: a list of pages, a refresh of one chunk
  and the image on one thread; a relinked track, the top tracks and the image on
  the other. `GetTrack` without a relink takes the second half of the steps of the
  top tracks, and is left to the proofs. `WebApiRefresh` needs one id more than a
  chunk.
* Two accounts tell whose token is in memory and whose in the file; every other pair of
  threads that can meet at the tokens is there once.

Every file, stored login and authorization may exist or not in the beginning.

Deadlock is checked for the buffer. It is not for the others: there the streams,
events or ids are bounded, a program that has quit stops, and the login really can stop
(below).

### Fairness

`Playback`: libspotify's threads run; a call a decoder thread is in goes on; the host
keeps calling `decode_run` until it returns false, and destroys an input it has
aborted or is done with (strongly fair, because between two calls it may make
others first). Opening, seeking, pausing and stopping are never required.

`LibSpotifyLogin`: threads run, and the mutexes are granted in time (strong fairness,
because a mutex is free again and again rather than for good); a notified event
loop wakes; `AbortManager` polls every two seconds; the time-outs of the status
thread and of the main thread run out (`TimedAbortCallback`). libspotify need not
answer, the host need not abort a decoder's call, and the user need do nothing.

`SpotifyInstance`: `on_quit`, once begun, goes on; the abort manager polls; the event
loop comes back from what it processes; sleeps and the limiter's waits are timed; a
request that is cancelled ends. The server need not answer, libspotify need not
notify, tasks need not start and inputs need not be closed.

`WebApi_Backend`: time passes and each call goes on (weak fairness for every
thread; the HTTP client gives a request up after a while, so that `send` is left). Nobody
need abort.

`WebApiAuthorizer`: threads run; the HTTP client gives a request up; a thread that waits
for `accessTokenMutex_` while others lock and unlock it gets it in the end (strong
fairness). Nobody need click, and the browser need not answer.

### Exceptions by name

A property that holds up to a known weakness names it, so that the rest of it is still checked:

| Property | Exception | What it is |
|---|---|---|
| `AbortedReloginReturns`, `MainThreadReturns` | `CircularWait` of `LibSpotifyLogin` | the deadlock that `LoginEvents` shows; it is for good (`DeadlockIsForGood`) |
| `WaitEnds` | `eofLost` | `write_end` ignores the result of `write`: an end mark that a full buffer refused is lost, and the reader waits until it is aborted |
| `QuitCompletes` | `CircularWait` of `SpotifyInstance` | `Finalize` joins the pool with `mutex_` locked while a task waits for it to ask for a part; once it does, it waits for good (`WaitIsForGood`). In the limiter a task asks for one, too, but is aborting by then and goes on |
| `QuitCompletes` | `main = "stuck"` | `Finalize` of the backend finalizes an open input, which asks for the backend on the same thread |
| `QuitCompletes` | `fate = "crashed"` | a task or an input touched a part that was gone |
| `QuitCompletes` | `fate = "terminated"` | the constructor of `LibSpotify_Backend` threw with the event loop running |
| `FrontWakesInTime` | `behind` | who joins behind another sleeps for a quotient of whole seconds, which may be none, and so polls |
| `TracksCached`, `ChunkCached`, `AnswersCached` | `cut` | the objects whose own write failed, or was cut short by a kill; all others of the same answer, and of later ones, are covered |
| `NoTornImage` | `cut` | an image whose download a kill cut short: it counts as cached for good |
| `ReadsToken` | `raced` | another thread cleared the token, which takes no lock, while a thread was inside `GetAccessToken` or `UpdateRefreshToken` |
| `UsedIsStored` | `overlapped` | two threads changed memory and file at a time |
| `UsedIsStored` | `unsaved` | the last write of the file failed, and nothing has been written or cleared since |
| `CloseEnds` | `undefined` | a null token was read |

## Findings

1. `PlaybackEmptyRead`: `decode_run` takes an empty second read for an abort
   (`fb2k/input.cpp:373-376`). A frame of the previous stream can end the wait
   and a flush empty the buffer before the read: the track then ends at once.
2. `LoginAssert`: `LoginWithUI` asserts that the status is logged out
   (`backend/libspotify_backend.cpp:220`), but the dialog calls it whenever its
   own copy says so, also after a `Relogin` that timed out and is still in process.
3. `LoginEvents`: `Relogin` locks `loginMutex_`, then `apiMutex_`; callbacks lock
   them in the opposite order, and the event loop can stop for good.
4. `WebApiRefresh`: the loop of `RefreshCacheForTracks` walks lazy views of the ids
   that are not cached (`backend/webapi_backend.cpp:96-99`) and caches each
   chunk on the way. By the time the next chunk is looked for, the view no longer has the
   one before it, and as many ids are skipped: of 51 tracks that are not cached, one
   is never requested, against the assertion at line 160.

What the repository says nothing of is a hazard with a note in `PROJECT.json` and no
finding; so is, for example, that after a refused password the loop of `LoginWithUI`
does not set the status back to in process, and its second wait returns at once.

## What is proved

`AudioBufferProofs`, for every size, header size and set of chunks of which any two fit
(`SizeAssumption`: the array has 8M cells, a chunk at most 65541):

* `Invariance`: the inductive invariant is `TypeOK /\ Layout`, where `Layout` is
  `Chained /\ Ordered /\ ChunksIntact`. The three need each other: a write leaves
  unread chunks alone because they are ordered and it stays behind the reader; they
  stay ordered because the positions delimit them; and `read` moves to the right
  position only because the header it finds is intact. The proof has a lemma for each
  branch of `write` and for `read`.
* `TypeCorrect`, `UnreadChunksChained`, `UnreadChunksOrdered` and
  `UnreadChunksIntact` follow.
* `Refinement`: `Spec => ImplementsQueue`, with the unread chunks as the queue.
* `RefusesOnlyWhenFull`: a write is refused only when the cells in use, the chunk and some
  one further chunk would not fit. It needs a second invariant, `MarkNearEnd`: while the
  writer is behind the reader, what is left between the water mark and the end is too
  small for some chunk. It is inductive because `write` wraps only when the
  chunk at hand does not fit at the end, and moves the mark back to the end as soon as one
  does.

`PlaybackProofs`, for every set of inputs, capacity, length of track and number of
streams (`PlaybackAssumption`):

* `Invariance`: the inductive invariant is `TypeOK /\ SingleDecoder /\ FlushedIsFresh`
  with three strengthenings. `InflightIsFresh`: the frame the delivery thread holds
  belongs to the current stream unless a flush is still to come; without it the next
  delivery could bring a stale frame in. `EndingIsLoaded`: a pending end of track
  belongs to a loaded player; without it an end mark of no stream could be written.
  `Frames` numbers the frames from the player to the ear. `Numbered`:
  everything under way belongs to a stream that was started. `Announced`: nothing of a stream
  comes before its flush, its end comes behind the padding, and the frame in flight is the
  one after the last delivered. `NothingMissing`: what the decoder got and what the
  buffer holds are consecutive frames up to the last delivered, and the end mark is only
  behind the last frame of the track.
* `TypeCorrect`, `OneDecoder` and `NothingStale` follow, and so do `FramesInOrder` (the
  frame an input would read next is the one behind the last it got, so that none is lost,
  overtaken or read twice) and the action property `EndsComplete` (an end is read only
  behind the last frame): both look at the head of the buffer, which `NothingMissing`
  places.
* `NothingButFlushTakes`: between an input's wait and its second read nothing but a flush
  takes anything from the buffer, by `SingleDecoder` for the other inputs. It bounds
  finding 1: what ends playback there is always a flush.
* `RunsOnTheQueue`: `Spec => Buffer!Spec`. With `Refinement` above it closes the
  composition: the playback model relies on no more of the buffer than is proved of it.

That libspotify delivers the
  frame it holds before a flush, and forgets a pending end of track when it is unloaded or
  moved on, is what the external part assumes.

`LibSpotifyLoginProofs`, for every set of decoder threads and every bound on events
of at least two (`LoginAssumption`):

* `Invariance`: the inductive invariant is the type invariant, `LoginWakesAll`,
  `InProcessIsPending`, a form of `NoLostEvent` that also covers the loop's own
  points, and `StatusHasSession`, which strengthens `LoggedInMeansSession`.
  The proof goes from one action to the next, in groups
  that disturb the same conjuncts (libspotify's posts, callbacks, the loop, `Relogin`,
  the main thread).
* `TypeCorrect`, `LoggedInHasSession`, `NeverStuckInProcess`, `LoginWakes` and
  `EventsNeverLost` follow.
* `ReloginOwnsLogin`: from putting the status in process to calling `sp_session_relogin`
  `Relogin` owns the mutex and the status stays as it put it. The invariant (`OwnInv`)
  also says that the status thread has ended when the dialog is closed.
* `DeadlockIsForGood`: from `CircularWait` on the status and the owner of the mutex never
  change again, by `ReloginOwnsLogin` and the loop's point. The exemption of the liveness
  properties is therefore exactly a deadlock and not a delay.

`AbortManagerProofs`, for every set of scopes and callbacks (`AbortAssumption`):

* `MapsAlwaysAgree`: `AbortTypeOK /\ MapsAgree` is inductive: each id belongs to one open
  scope and is filed under that scope's callback, and an entry without ids is removed.
* `Refinement`: `AbortSpec => ImplementsService`. The abstract callback of a place is that of
  the task its id is filed with; `MapsAgree` makes the tasks that a turn of the thread finds
  exactly those of the open scopes.

`SpotifyInstanceProofs`, for every set of workers and inputs and every bound
(`InstanceAssumption`):

* `Invariance`: besides the invariant of the abort manager, `PartsOK` says which parts are
  created together, `GoneSoFar` which ones are gone at each point of `Finalize`,
  `ScopesMatch` which scopes a worker has open at each point; `DependentsOutlived` is
  inductive only with them.
* `TypeCorrect`, `NoneOutlivesItsNeeds`, `MapsAgreeInProgram` and
  `NeverInitializedAgain` follow.
* `ProgramGetsService`: every step of the program is a step of the abort manager or leaves
  it alone, so that the program implements `AbortSpec` and with it `AbortService`.
* `WaitIsForGood`: a task that asks for a part while `Finalize` joins the pool waits for
  good. It needs `TasksInPool` (a task that runs belongs to a pool that exists, so that
  joining it is not over).
* `TouchedOnlyAtQuit`: `fate = "crashed" => isFinalized`, by `PartsStay`: until `Finalize`
  begins, what a request is inside of, or an input has a reference to, exists, however often
  the creation fails.

`RpsLimiterProofs` and `WebApi_BackendProofs`, for every set of callers and calls, every
size of a chunk, limit and period (`LimiterAssumption`, `BackendAssumption`,
`CallsAssumption`):

* `FrontIsServed`: `LimiterTypeOK /\ FrontWakesInTime` is inductive: a request that joins
  an empty queue sleeps exactly until the oldest stamp is a period old, and a stamp is only
  replaced by the request at the front.
* `LimitKept`: the stamps are in order, and a request that passes in its turn replaces one
  that is a whole period old. No period holds more than `Limit` of them. Those that queued
  behind others are not covered: they pass in a burst (`behind`, above).
* `BackendUsesLimiter` and `RequestsKeepLimit`: every step of the backend is a step of the
  limiter or starts a new one, so that the limit holds of the calls. A repetition after 429
  does not go through the limiter, in the code as in the model.
* `Invariance`: with the limiter's invariant, `Refreshed` (while a refresh of one chunk
  is requested, each of its ids is cached, wanted, or could not be written) and `NothingTorn`
  (only what is in `cut` is half written, and a download begins without a file). The refresh
  rests on lemmas about the lazy views: `FirstUncached` (the first chunk begins at the first
  id that is not cached, by the least element of a finite set), `ChunkFacts` (a list
  no longer than a chunk fits into it) and `AdvanceFacts` (there is no second chunk, even
  when some ids could not be written).
* `TypeCorrect`, `FrontPasses`, `TracksRefreshed`, `NoTornImageEver` and
  `CompleteFilesStay` follow.
* `AnswersStay`: a call that returns leaves its whole answer cached, but for what could
  not be written. Its invariant
  `Gathered` says that what a list has gathered so far is the union of the pages up to
  the one requested, so that behind the last page it is all of the list.
* `TracksRefreshed` is the largest true part of the assertion that
  finding 4 is about.

`WebApiAuthorizerProofs`, for every set of accounts and requesters
(`AuthorizerAssumption`):

* `Invariance`: `Places` (at which points a thread of each kind can be), `DialogInv`
  (what a dialog that is open, closing or closed leaves of its threads, its
  listener and its messages), `AnswersKnown`, `TokenFound` (where a
  thread relies on a token there is one, unless it was cleared under it) and `HalfChanged`
  (where exactly one thread changes memory and file, and no write has failed, how far they
  differ).
* `TypeCorrect`, `RefreshedOnce`, `NothingOutlivesDialog`, `TokensFound` and
  `MemoryIsStored` follow.

Only model-checked: every liveness property (`AbortedReleasesDecoder`, `WaitEnds`,
`AbortedReloginReturns`, `MainThreadReturns`, `CallEnds`, `CloseEnds`, `QuitCompletes`),
since fairness and `ENABLED` are beyond the prover, and the violations.

## What is not modelled, and why

* **Partly**: `play_token_lost`, which only asks the host to pause, as it may at any
  time; the settings (`RefreshBitrate` and its like), which hand a value to libspotify under
  `apiMutex_`; registration with the host and update checks.
* **The playlist loader and album art** make calls of `WebApi_Backend` one after the
  other (a list, then its artists; a track, its artist, an image). The calls are modelled;
  in which order an adapter makes them changes no state of its own.
* **Names and formats**: parsing of links and JSON, tags, scopes and challenge codes of
  the authorization, configuration, layout. They keep no state that two actors share.
* **Dialogs**: the credentials dialog has its two outcomes in `LibSpotifyLogin`; the
  dialog that asks for an authorization is opened and closed by the main thread alone.
* **`utils/async_mutex.hpp`** is not included by any file.
* **libspotify, the host, the HTTP client, the operating system** are external and
  modelled from how the code uses them. `src/libspotify/` holds the SDK's header and its
  example programs: third-party code, and about half of the lines of C in the repository.
* **Widths**: the cast of a chunk's size to 16 bits
  (`backend/libspotify_backend.cpp:557`) is out of reach of the chunks libspotify
  delivers; the model's chunks have a size but no width.

What a next step would add: two places in one module where a call waits for both the
limiter and a token (`WebApi_Backend` takes the token for granted or refused), and the
account of cached data, which a change of the login does not discard.
