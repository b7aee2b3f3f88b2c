--------------------------- MODULE SpotifyInstance ---------------------------
(***************************************************************************)
(* Creation and shutdown of the parts (backend/spotify_instance.cpp).  Any *)
(* thread that asks for a part creates all of them; when the host quits,   *)
(* the main thread finalizes one after another with mutex_ locked, while   *)
(* the workers of the thread pool are in WebApi requests (fb2k/            *)
(* playlist.cpp), inputs are open, and the event loop and the abort        *)
(* manager's thread run.                                                   *)
(*                                                                         *)
(* Only Finalize keeps mutex_ across steps: InitializeAll is one action    *)
(* that needs it free.  A reference to a part is used after mutex_ is      *)
(* unlocked, and nothing keeps the part alive meanwhile, so that Crash may *)
(* happen wherever a thread has a reference to a part that is gone.  It    *)
(* need not: the memory may still hold the part.                           *)
(***************************************************************************)
EXTENDS AbortManager

CONSTANTS
    Workers,      \* threads of the pool
    Inputs,       \* inputs, each used by one thread of the host
    MaxCounter    \* bound on idCounter_ when a task or a sleep begins

ASSUME InstanceAssumption ==
    /\ Workers \cap Inputs = {}
    /\ Callbacks = Workers
    /\ Scopes = Workers \X {"wait", "request"}
    /\ MaxCounter \in Nat

VARIABLES
    parts,        \* pThreadPool_, pAbortManager_, pLibSpotify_backend_, pWebApi_backend_
    hasCallbacks, \* PlayCallbacks::pLsBackend_ is set
    isFinalized,  \* isFinalized_
    main,         \* where on_quit is
    pc,           \* where each worker and each input's thread is
    users,        \* backendUsers_
    session,      \* the libspotify session
    loop,         \* where EventLoopThread is
    fate          \* whether the program touched a part that is gone, or std::terminate ended it

instance == <<parts, hasCallbacks, isFinalized, session>>
vars == <<abortVars, instance, main, pc, users, loop, fate>>

AllParts == {"threadPool", "abortManager", "libSpotify", "webApi"}
Finalizing == {"webApi", "libSpotify", "joinLoop", "abortManager", "joinAbort",
               "threadPool", "stuck"}
WorkerPoint == {"idle", "backend", "limiter", "limited", "request", "requesting",
                "sleep", "sleeping"}
InputPoint == {"none", "opening", "registering", "registered", "open", "closing", "releasing",
               "finalized"}

\* The scopes a worker has open where it is.
WaitOpen == {"limited", "sleeping"}
RequestOpen == {"requesting", "sleep", "sleeping"}

TypeOK ==
    /\ AbortTypeOK
    /\ \A w \in Workers :
         /\ IsOpen(<<w, "wait">>) <=> pc[w] \in WaitOpen
         /\ IsOpen(<<w, "request">>) <=> pc[w] \in RequestOpen
    /\ parts \subseteq AllParts
    /\ hasCallbacks \in BOOLEAN /\ isFinalized \in BOOLEAN
    /\ main \in {"running", "finalize", "done"} \cup Finalizing
    /\ pc \in [Workers \cup Inputs -> WorkerPoint \cup InputPoint]
    /\ \A w \in Workers : pc[w] \in WorkerPoint
    /\ \A i \in Inputs : pc[i] \in InputPoint
    /\ users \subseteq Inputs
    /\ session \in {"none", "created", "released"}
    /\ loop \in {"none", "testing", "waiting", "processing", "ended"}
    /\ fate \in {"alive", "crashed", "terminated"}

Init ==
    /\ AbortInit
    /\ parts = {}
    /\ hasCallbacks = FALSE
    /\ isFinalized = FALSE
    /\ main = "running"
    /\ pc = [t \in Workers \cup Inputs |-> IF t \in Workers THEN "idle" ELSE "none"]
    /\ users = {}
    /\ session = "none"
    /\ loop = "none"
    /\ fate = "alive"

MutexFree == main \notin Finalizing
Goto(t, p) == pc' = [pc EXCEPT ![t] = p]

-----------------------------------------------------------------------------
(* InitializeAll *)

\* Mutant: a finalized instance is created anew.
MayInitializeAgain == TRUE

MayInitialize == ~isFinalized

LibSpotifyCreated ==
    IF "libSpotify" \in parts
    THEN UNCHANGED <<session, loop>>
    ELSE session' = "created" /\ loop' = "testing"

\* Everything missing is created; the last of it is PlayCallbacks::Initialize.
InitializeAll ==
    /\ MutexFree /\ MayInitialize
    /\ parts' = AllParts
    /\ hasCallbacks' = TRUE
    /\ LibSpotifyCreated
    /\ UNCHANGED isFinalized

\* sp_session_create or the constructor of WebApi_Backend fails: what was created
\* before it stays.
InitializeFails ==
    /\ MutexFree /\ MayInitialize
    /\ \/ /\ "libSpotify" \notin parts
          /\ parts' = parts \cup {"threadPool", "abortManager"}
          /\ UNCHANGED <<session, loop>>
       \/ /\ "webApi" \notin parts
          /\ parts' = parts \cup {"threadPool", "abortManager", "libSpotify"}
          /\ LibSpotifyCreated
    /\ UNCHANGED <<hasCallbacks, isFinalized>>

\* "foobar2000 is exiting"
InitializeRefused ==
    /\ MutexFree /\ ~MayInitialize
    /\ UNCHANGED <<instance, loop>>

NotInitialized == InitializeFails \/ InitializeRefused

\* Whether a thread is about to ask for a part.
Asks ==
    \/ main = "running"
    \/ \E w \in Workers : pc[w] \in {"backend", "limiter", "sleep"}
    \/ \E i \in Inputs : pc[i] \in {"opening", "closing"}

\* The constructor of LibSpotify_Backend throws behind StartEventLoopThread: the
\* thread is destroyed while it can still be joined.
InitializeTerminates ==
    /\ MutexFree /\ MayInitialize
    /\ "libSpotify" \notin parts
    /\ Asks
    /\ fate' = "terminated"
    /\ UNCHANGED <<abortVars, instance, main, pc, users, loop>>

-----------------------------------------------------------------------------
(* Prefetch tasks *)

\* GetThreadPool: the main thread adds a task.
on_playlist_activate ==
    /\ main = "running"
    /\ InitializeAll \/ NotInitialized
    /\ UNCHANGED <<abortVars, main, pc, users, fate>>

\* A worker takes a task and asks for the WebApi; a TimedAbortCallback is new,
\* but aborts at once when the program is quitting.
StartTask(w) ==
    /\ pc[w] = "idle"
    /\ "threadPool" \in parts /\ main # "threadPool"
    /\ idCounter < MaxCounter
    /\ Goto(w, "backend")
    /\ SetAborting(IF main = "running" THEN aborting \ {w} ELSE aborting)
    /\ UNCHANGED <<instance, main, users, loop, fate>>

\* A TimedAbortCallback runs out of time.
TimeOut(w) ==
    /\ pc[w] # "idle"
    /\ w \notin aborting
    /\ SetAborting(aborting \cup {w})
    /\ UNCHANGED <<instance, main, pc, users, loop, fate>>

GetWebApi_Backend(w) ==
    /\ pc[w] = "backend"
    /\ \/ InitializeAll /\ Goto(w, "limiter")
       \/ NotInitialized /\ Goto(w, "idle")
    /\ UNCHANGED <<abortVars, main, users, fate>>

\* WaitForRequestAvailability: returns at once when aborting, and the request is
\* cancelled.
LimiterAborted(w) ==
    /\ pc[w] = "limiter"
    /\ w \in aborting
    /\ Goto(w, "idle")
    /\ UNCHANGED <<abortVars, instance, main, users, loop, fate>>

LimiterWaits(w) ==
    /\ pc[w] = "limiter"
    /\ w \notin aborting
    /\ \/ InitializeAll /\ GetAbortableScope(<<w, "wait">>, w) /\ Goto(w, "limited")
       \/ NotInitialized /\ Goto(w, "idle") /\ UNCHANGED abortVars
    /\ UNCHANGED <<main, users, fate>>

\* The wait ends in time or by the task; the abort is tested behind it.
LimiterEnds(w) ==
    /\ pc[w] = "limited"
    /\ RemoveTask(<<w, "wait">>)
    /\ Goto(w, IF w \in aborting THEN "idle" ELSE "request")
    /\ UNCHANGED <<instance, main, users, loop, fate>>

\* GetResponse, through its own reference to the abort manager.
StartRequest(w) ==
    /\ pc[w] = "request"
    /\ GetAbortableScope(<<w, "request">>, w)
    /\ Goto(w, "requesting")
    /\ UNCHANGED <<instance, main, users, loop, fate>>

\* Mutant: the backend's own cancellation is not linked to the request's.
CancelledUnlinked(w) == <<w, "request">> \in signalled

\* By the task of the scope, or by WebApi_Backend::Finalize.
Cancelled(w) == <<w, "request">> \in signalled \/ (isFinalized /\ "webApi" \notin parts)

\* The request ends and the scope closes; another request may follow.
RequestEnds(w) ==
    /\ pc[w] = "requesting"
    /\ RemoveTask(<<w, "request">>)
    /\ \/ Goto(w, "idle")
       \/ ~Cancelled(w) /\ idCounter < MaxCounter /\ Goto(w, "limiter")
    /\ UNCHANGED <<instance, main, users, loop, fate>>

\* Mutant: the request is not linked to the abort while it sleeps.
TooManyRequestsUnlinked(w) ==
    /\ pc[w] = "requesting"
    /\ ~Cancelled(w)
    /\ idCounter < MaxCounter
    /\ RemoveTask(<<w, "request">>)
    /\ Goto(w, "sleep")
    /\ UNCHANGED <<instance, main, users, loop, fate>>

\* 429
TooManyRequests(w) ==
    /\ pc[w] = "requesting"
    /\ ~Cancelled(w)
    /\ idCounter < MaxCounter
    /\ Goto(w, "sleep")
    /\ UNCHANGED <<abortVars, instance, main, users, loop, fate>>

\* SleepFor; an exception leaves GetResponse, and its scope.
StartSleep(w) ==
    /\ pc[w] = "sleep"
    /\ \/ InitializeAll /\ GetAbortableScope(<<w, "wait">>, w) /\ Goto(w, "sleeping")
       \/ NotInitialized /\ RemoveTask(<<w, "request">>) /\ Goto(w, "idle")
    /\ UNCHANGED <<main, users, fate>>

SleepEnds(w) ==
    /\ pc[w] = "sleeping"
    /\ RemoveTask(<<w, "wait">>)
    /\ Goto(w, "requesting")
    /\ UNCHANGED <<instance, main, users, loop, fate>>

-----------------------------------------------------------------------------
(* Inputs *)

OpenInput(i) ==
    /\ pc[i] = "none"
    /\ Goto(i, "opening")
    /\ UNCHANGED <<abortVars, instance, main, users, loop, fate>>

\* The reference that open, or the destructor, goes on with.
GetLibSpotify_Backend(i) ==
    /\ pc[i] \in {"opening", "closing"}
    /\ \/ InitializeAll /\ Goto(i, IF pc[i] = "opening" THEN "registering" ELSE "releasing")
       \/ NotInitialized /\ Goto(i, "none")
    /\ UNCHANGED <<abortVars, main, users, fate>>

\* LibSpotify_Backend::Finalize keeps it when it is stuck.
BackendUsersMutexFree == main # "stuck"

RegisterBackendUser(i) ==
    /\ pc[i] = "registering"
    /\ BackendUsersMutexFree
    /\ users' = users \cup {i}
    /\ Goto(i, "registered")
    /\ UNCHANGED <<abortVars, instance, main, loop, fate>>

\* usingLibSpotify_ is true from here on.
InputOpened(i) ==
    /\ pc[i] = "registered"
    /\ Goto(i, "open")
    /\ UNCHANGED <<abortVars, instance, main, users, loop, fate>>

\* The destructor sets usingLibSpotify_ to false before it asks for the backend.
CloseInput(i) ==
    /\ pc[i] \in {"open", "finalized"}
    /\ Goto(i, IF pc[i] = "open" THEN "closing" ELSE "none")
    /\ UNCHANGED <<abortVars, instance, main, users, loop, fate>>

UnregisterBackendUser(i) ==
    /\ pc[i] = "releasing"
    /\ BackendUsersMutexFree
    /\ users' = users \ {i}
    /\ Goto(i, "none")
    /\ UNCHANGED <<abortVars, instance, main, loop, fate>>

-----------------------------------------------------------------------------
(* The event loop *)

StopRequested == main = "joinLoop"

\* shouldStopEventLoop_, then hasEvents_
LoopTests ==
    /\ loop = "testing"
    /\ IF StopRequested THEN loop' = "ended" ELSE loop' \in {"waiting", "processing"}
    /\ UNCHANGED <<abortVars, instance, main, pc, users, fate>>

\* Notified by libspotify, or timed out.
LoopWakes ==
    /\ loop = "waiting"
    /\ loop' = "testing"
    /\ UNCHANGED <<abortVars, instance, main, pc, users, fate>>

LoopProcessed ==
    /\ loop = "processing"
    /\ loop' = "testing"
    /\ UNCHANGED <<abortVars, instance, main, pc, users, fate>>

-----------------------------------------------------------------------------
(* on_quit *)

\* GlobalAbortCallback::Abort
on_quit ==
    /\ main = "running"
    /\ main' = "finalize"
    /\ SetAborting(Callbacks)
    /\ UNCHANGED <<instance, pc, users, loop, fate>>

\* Mutant: the callbacks keep their pointer.
FinalizeKeepsCallbacks ==
    /\ main = "finalize"
    /\ main' = "webApi"
    /\ isFinalized' = TRUE
    /\ UNCHANGED <<abortVars, hasCallbacks, parts, session, pc, users, loop, fate>>

\* Finalize locks mutex_; PlayCallbacks::Finalize
Finalize ==
    /\ main = "finalize"
    /\ main' = "webApi"
    /\ isFinalized' = TRUE
    /\ hasCallbacks' = FALSE
    /\ UNCHANGED <<abortVars, parts, session, pc, users, loop, fate>>

FinalizeWebApi ==
    /\ main = "webApi"
    /\ main' = "libSpotify"
    /\ parts' = parts \ {"webApi"}
    /\ UNCHANGED <<abortVars, hasCallbacks, isFinalized, session, pc, users, loop, fate>>

\* Mutant: the loop is not notified.
LoopNotNotified == loop

LoopNotified == IF loop = "waiting" THEN "testing" ELSE loop

StopEventLoopThread ==
    /\ main = "libSpotify"
    /\ IF "libSpotify" \in parts
       THEN main' = "joinLoop" /\ loop' = LoopNotified
       ELSE main' = "abortManager" /\ UNCHANGED loop
    /\ UNCHANGED <<abortVars, instance, pc, users, fate>>

\* InputSpotify::Finalize returns at once for an input that is being destroyed;
\* for any other it asks for the backend on the thread that has mutex_ locked.
FinalizeUsers ==
    /\ main = "joinLoop"
    /\ loop = "ended"
    /\ \A i \in users : pc[i] # "open"
    /\ session' = "released"
    /\ parts' = parts \ {"libSpotify"}
    /\ main' = "abortManager"
    /\ UNCHANGED <<abortVars, hasCallbacks, isFinalized, pc, users, loop, fate>>

\* What locking it twice does is undefined: it blocks for good, or succeeds, and
\* the call is refused with an exception that skips the rest of the backend's
\* Finalize.
FinalizeOpenUser ==
    /\ main = "joinLoop"
    /\ loop = "ended"
    /\ \E i \in users :
         /\ pc[i] = "open"
         /\ Goto(i, "finalized")
    /\ \/ main' = "stuck" /\ UNCHANGED parts
       \/ main' = "abortManager" /\ parts' = parts \ {"libSpotify"}
    /\ UNCHANGED <<abortVars, hasCallbacks, isFinalized, session, users, loop, fate>>

StopAbortManager ==
    /\ main = "abortManager"
    /\ IF "abortManager" \in parts
       THEN main' = "joinAbort" /\ StopThread
       ELSE main' = "threadPool" /\ UNCHANGED abortVars
    /\ UNCHANGED <<instance, pc, users, loop, fate>>

AbortManagerJoined ==
    /\ main = "joinAbort"
    /\ ~polling
    /\ parts' = parts \ {"abortManager"}
    /\ main' = "threadPool"
    /\ UNCHANGED <<abortVars, hasCallbacks, isFinalized, session, pc, users, loop, fate>>

\* qwr::ThreadPool::Finalize joins its threads; mutex_ is unlocked behind it.
ThreadPoolJoined ==
    /\ main = "threadPool"
    /\ "threadPool" \in parts => \A w \in Workers : pc[w] = "idle"
    /\ parts' = parts \ {"threadPool"}
    /\ main' = "done"
    /\ UNCHANGED <<abortVars, hasCallbacks, isFinalized, session, pc, users, loop, fate>>

-----------------------------------------------------------------------------

InsideRequest == WorkerPoint \ {"idle", "backend"}
UsesBackend == {"registering", "registered", "open", "releasing"}

\* A thread touches a part that is gone.
Crash ==
    /\ \/ \E w \in Workers :
            pc[w] \in InsideRequest /\ ~({"webApi", "abortManager"} \subseteq parts)
       \/ \E i \in Inputs : pc[i] \in UsesBackend /\ "libSpotify" \notin parts
    /\ fate' = "crashed"
    /\ UNCHANGED <<abortVars, instance, main, pc, users, loop>>

\* The polling thread, in the larger system.
Polls ==
    /\ Poll \/ LastPoll
    /\ UNCHANGED <<instance, main, pc, users, loop, fate>>

WorkerNext(w) ==
    \/ StartTask(w) \/ GetWebApi_Backend(w)
    \/ LimiterAborted(w) \/ LimiterWaits(w) \/ LimiterEnds(w)
    \/ StartRequest(w) \/ RequestEnds(w) \/ TooManyRequests(w)
    \/ StartSleep(w) \/ SleepEnds(w)

InputNext(i) ==
    \/ OpenInput(i) \/ GetLibSpotify_Backend(i) \/ RegisterBackendUser(i) \/ InputOpened(i)
    \/ CloseInput(i) \/ UnregisterBackendUser(i)

LoopNext == LoopTests \/ LoopWakes \/ LoopProcessed

QuitNext ==
    \/ Finalize \/ FinalizeWebApi \/ StopEventLoopThread
    \/ FinalizeUsers \/ FinalizeOpenUser
    \/ StopAbortManager \/ AbortManagerJoined \/ ThreadPoolJoined

Next ==
    /\ fate = "alive"
    /\ \/ on_playlist_activate \/ InitializeTerminates \/ on_quit \/ QuitNext
       \/ Polls \/ LoopNext \/ Crash
       \/ \E w \in Workers : WorkerNext(w) \/ TimeOut(w)
       \/ \E i \in Inputs : InputNext(i)

Spec == Init /\ [][Next]_vars

\* Threads run, sleeps and the limiter's waits are timed, the abort manager
\* polls, and a request that is cancelled ends.  Nothing else need happen: the
\* server need not answer, libspotify need not notify, and the inputs need not
\* be closed.
WorkerRuns(w) ==
    \/ GetWebApi_Backend(w) \/ LimiterAborted(w) \/ LimiterWaits(w) \/ LimiterEnds(w)
    \/ StartRequest(w) \/ StartSleep(w) \/ SleepEnds(w)
    \/ (Cancelled(w) /\ RequestEnds(w))

Fairness ==
    /\ WF_vars(fate = "alive" /\ QuitNext)
    /\ WF_vars(fate = "alive" /\ Polls)
    /\ WF_vars(fate = "alive" /\ (LoopTests \/ LoopProcessed))
    /\ \A w \in Workers : WF_vars(fate = "alive" /\ WorkerRuns(w))

FairSpec == Spec /\ Fairness

-----------------------------------------------------------------------------
(* Properties *)

\* Whatever is created, refused or finalized in between, no part outlives one it
\* keeps a reference to: both backends need the abort manager, PlayCallbacks
\* needs libSpotify, and the event loop and the session need it, too.
DependentsOutlived ==
    /\ parts \cap {"libSpotify", "webApi"} # {} => "abortManager" \in parts
    /\ hasCallbacks => "libSpotify" \in parts
    /\ loop \in {"testing", "waiting", "processing"} => "libSpotify" \in parts
    /\ "libSpotify" \in parts => session = "created"
    /\ "abortManager" \in parts /\ main # "joinAbort" => polling

\* A part that is finalized never comes back, whoever still asks for one.
FinalizedForGood ==
    [][isFinalized => isFinalized' /\ parts' \subseteq parts /\ ~hasCallbacks']_vars

\* Finalize joins the pool with mutex_ locked, and a task asks for a part.  (In
\* the limiter a task asks for one, too, but it is aborting by then.)
CircularWait ==
    main = "threadPool" /\ \E w \in Workers : pc[w] \in {"backend", "sleep"}

\* Quitting ends: the event loop, the abort manager's thread and every worker can
\* be joined, whatever they were doing, unless a task still asks for a part, an
\* input was left open, a part was touched that is gone, or std::terminate ended
\* the program.
QuitCompletes ==
    main = "finalize" ~> main = "done" \/ CircularWait \/ main = "stuck" \/ fate # "alive"
=============================================================================
