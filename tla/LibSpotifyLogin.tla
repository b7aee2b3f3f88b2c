--------------------------- MODULE LibSpotifyLogin ---------------------------
(***************************************************************************)
(* Logging in to libspotify (backend/libspotify_backend.cpp).  Decoder     *)
(* threads and the status thread of the preferences dialog call Relogin;   *)
(* the main thread logs in and out (ui/ui_pref_tab_auth.cpp); the event    *)
(* loop runs libspotify's callbacks, which settle the login status.        *)
(*                                                                         *)
(* loginMutex_ is kept across steps by Relogin only, apiMutex_ by the      *)
(* event loop only; every other critical section is one action that needs  *)
(* the mutex free.  libspotify is external, modelled from how the code     *)
(* uses it: a login is under way until its result is queued for the event  *)
(* loop.  Assertions are not steps: the properties state them.             *)
(***************************************************************************)
EXTENDS Integers, Sequences

CONSTANTS
    Decoders,      \* threads that open and decode tracks
    StatusThread,  \* PreferenceTabAuth::pStatusThread_
    MainThread,
    Nobody,        \* no thread owns the mutex
    Stored,        \* whether libspotify may start with stored credentials
    MaxEvents      \* bound on the events libspotify has queued

Reloggers == Decoders \cup {StatusThread}
Threads == Reloggers \cup {MainThread}

ASSUME LoginAssumption ==
    /\ StatusThread \notin Decoders
    /\ MainThread \notin Reloggers
    /\ Nobody \notin Threads
    /\ Stored \subseteq BOOLEAN
    /\ MaxEvents \in Nat \ {0, 1}

VARIABLES
    status,        \* loginStatus_
    isLoginBad,    \* isLoginBad_
    login,         \* owner of loginMutex_
    pc,            \* where each thread's call is
    aborting,      \* the abort_callback of each thread's call
    loggingOut,    \* the main thread's call is LogoutAndForget
    ui,            \* libSpotifyStatus_ of the preferences dialog, or "closed"
    message,       \* kOnStatusUpdateFinish posted to the dialog
    loop,          \* where EventLoopThread is; it owns apiMutex_ in "processing"
    hasEvents,     \* hasEvents_
    events,        \* callbacks libspotify has queued
    session,       \* sp_session_connectionstate
    remembered,    \* libspotify has stored credentials
    outstanding,   \* logins under way, by the call that started them
    leaving        \* a logout is under way

backend == <<status, isLoginBad, login>>
calls == <<pc, aborting, loggingOut>>
dialog == <<ui, message>>
eventLoop == <<loop, hasEvents>>
libspotify == <<events, session, remembered, outstanding, leaving>>
vars == <<backend, calls, dialog, eventLoop, libspotify>>

InProcess == {"login_in_process", "logout_in_process"}
LoginStatus == {"uninitialized", "logged_in", "logged_out"} \cup InProcess
Event == {"loggedIn", "loggedOut", "bad", "error"}
Point == {"none", "enter", "relogin", "dialog", "submit", "logout", "wait", "asleep", "join"}

TypeOK ==
    /\ status \in LoginStatus
    /\ isLoginBad \in BOOLEAN
    /\ login \in Reloggers \cup {Nobody}
    /\ pc \in [Threads -> Point]
    /\ aborting \in [Threads -> BOOLEAN]
    /\ loggingOut \in BOOLEAN
    /\ ui \in {"closed", "fetching", "logged_in", "logged_out"}
    /\ message \in {"none", "logged_in", "logged_out"}
    /\ loop \in {"testing", "waiting", "woken", "processing"}
    /\ hasEvents \in BOOLEAN
    /\ events \in Seq(Event) /\ Len(events) <= MaxEvents
    /\ session \in {"in", "out"}
    /\ remembered \in BOOLEAN
    /\ outstanding \subseteq {"relogin", "login"}
    /\ leaving \in BOOLEAN

Init ==
    /\ status = "uninitialized"
    /\ isLoginBad = FALSE
    /\ login = Nobody
    /\ pc = [t \in Threads |-> "none"]
    /\ aborting = [t \in Threads |-> FALSE]
    /\ loggingOut = FALSE
    /\ ui = "closed"
    /\ message = "none"
    /\ loop = "testing"
    /\ hasEvents = FALSE
    /\ events = <<>>
    /\ session = "out"
    /\ remembered \in Stored
    /\ outstanding = {}
    /\ leaving = FALSE

LoginFree == login = Nobody
ApiFree == loop # "processing"
Goto(t, p) == pc' = [pc EXCEPT ![t] = p]
\* loginCv_.notify_all()
Woken == [t \in Threads |-> IF pc[t] = "asleep" THEN "wait" ELSE pc[t]]
\* Mutant: the result of a failed call is not told from no result.
StatusOfFetching(loggedIn) == IF loggedIn THEN "logged_in" ELSE "fetching"
StatusOf(loggedIn) == IF loggedIn THEN "logged_in" ELSE "logged_out"

-----------------------------------------------------------------------------
(* libspotify *)

\* Mutant: a notification without the flag reaches a sleeping loop only.
NotifyOnly == hasEvents' = (hasEvents \/ loop = "waiting")

notify_main_thread == hasEvents' = TRUE

\* Callbacks are queued and notify_main_thread is called.
Post(es) ==
    /\ Len(events) + Len(es) <= MaxEvents
    /\ events' = events \o es
    /\ notify_main_thread

LoginSucceeds(a) ==
    /\ a \in outstanding
    /\ outstanding' = outstanding \ {a}
    /\ remembered' = TRUE
    /\ Post(<<"loggedIn">>)
    /\ UNCHANGED <<backend, calls, dialog, loop, session, leaving>>

\* A failed login may also report that the session is (still) logged out,
\* before or after its error.
LoginFails(a) ==
    /\ a \in outstanding
    /\ outstanding' = outstanding \ {a}
    /\ \E e \in {"bad", "error"} :
         \/ Post(<<e>>)
         \/ session = "out" /\ Post(<<e, "loggedOut">>)
         \/ session = "out" /\ Post(<<"loggedOut", e>>)
    /\ UNCHANGED <<backend, calls, dialog, loop, session, remembered, leaving>>

LogoutEnds ==
    /\ leaving
    /\ leaving' = FALSE
    /\ Post(<<"loggedOut">>)
    /\ UNCHANGED <<backend, calls, dialog, loop, session, remembered, outstanding>>

\* Spotify ends the session.
SessionEnds ==
    /\ session = "in"
    /\ Post(<<"loggedOut">>)
    /\ UNCHANGED <<backend, calls, dialog, loop, session, remembered, outstanding, leaving>>

-----------------------------------------------------------------------------
(* EventLoopThread and the callbacks *)

EventLoopTests ==
    /\ loop = "testing"
    /\ loop' = IF hasEvents THEN "woken" ELSE "waiting"
    /\ hasEvents' = FALSE
    /\ UNCHANGED <<backend, calls, dialog, libspotify>>

\* The wait also times out, whenever libspotify said it should.
EventLoopWakes ==
    /\ loop = "waiting"
    /\ loop' = "woken"
    /\ hasEvents' = FALSE
    /\ UNCHANGED <<backend, calls, dialog, libspotify>>

ProcessEvents ==
    /\ loop = "woken"
    /\ ApiFree
    /\ loop' = "processing"
    /\ UNCHANGED <<backend, calls, dialog, hasEvents, libspotify>>

\* sp_session_process_events runs every queued callback before it returns.
EventsProcessed ==
    /\ loop = "processing"
    /\ events = <<>>
    /\ loop' = "testing"
    /\ UNCHANGED <<backend, calls, dialog, hasEvents, libspotify>>

\* A callback runs with apiMutex_ locked and locks loginMutex_.
Callback(e) ==
    /\ loop = "processing"
    /\ LoginFree
    /\ events # <<>> /\ Head(events) = e
    /\ events' = Tail(events)
    /\ UNCHANGED <<login, aborting, loggingOut, dialog, eventLoop,
                   remembered, outstanding, leaving>>

\* Mutant: the status is left in process.
BadLoginKeepsStatus ==
    /\ Callback("bad")
    /\ isLoginBad' = (isLoginBad \/ status = "login_in_process")
    /\ UNCHANGED <<status, pc, session>>

\* logged_in( SP_ERROR_BAD_USERNAME_OR_PASSWORD ); it notifies nobody.
BadLogin ==
    /\ Callback("bad")
    /\ IF status = "login_in_process"
       THEN isLoginBad' = TRUE /\ status' = "logged_out"
       ELSE UNCHANGED <<isLoginBad, status>>
    /\ UNCHANGED <<pc, session>>

\* logged_in with any other error; it notifies nobody either.
LoginError ==
    /\ Callback("error")
    /\ status' = "uninitialized"
    /\ UNCHANGED <<isLoginBad, pc, session>>

\* Mutant: no notify_all.
ConnectionLoggedInSilently ==
    /\ Callback("loggedIn")
    /\ session' = "in"
    /\ status' = "logged_in"
    /\ UNCHANGED <<isLoginBad, pc>>

\* connectionstate_updated: logged in, online or offline
ConnectionLoggedIn ==
    /\ Callback("loggedIn")
    /\ session' = "in"
    /\ status' = "logged_in"
    /\ pc' = Woken
    /\ UNCHANGED isLoginBad

\* Mutant: only the logout the program asked for is taken note of.
ConnectionLoggedOutExpected ==
    /\ Callback("loggedOut")
    /\ session' = "out"
    /\ IF status # "logout_in_process"
       THEN UNCHANGED <<status, pc>>
       ELSE status' = "logged_out" /\ pc' = Woken
    /\ UNCHANGED isLoginBad

\* connectionstate_updated: logged out
ConnectionLoggedOut ==
    /\ Callback("loggedOut")
    /\ session' = "out"
    /\ IF status = "login_in_process"
       THEN UNCHANGED <<status, pc>>
       ELSE status' = "logged_out" /\ pc' = Woken
    /\ UNCHANGED isLoginBad

-----------------------------------------------------------------------------
(* WaitForLoginStatusUpdate *)

Settled == status \notin InProcess

\* Mutant: the wait does not look at the abort_callback.
WaitEndsSettled(t) ==
    /\ pc[t] = "wait"
    /\ LoginFree
    /\ Settled
    /\ aborting' = [aborting EXCEPT ![t] = FALSE]

WaitEnds(t) ==
    /\ pc[t] = "wait"
    /\ LoginFree
    /\ Settled \/ aborting[t]
    /\ aborting' = [aborting EXCEPT ![t] = FALSE]

WaitFallsAsleep(t) ==
    /\ pc[t] = "wait"
    /\ LoginFree
    /\ ~Settled /\ ~aborting[t]
    /\ Goto(t, "asleep")
    /\ UNCHANGED <<backend, aborting, loggingOut, dialog, eventLoop, libspotify>>

\* The value the wait yields; an aborted one yields none, which callers take
\* for false.
WaitResult(t) == ~aborting[t] /\ status = "logged_in"

\* The host aborts a call, or the time of a TimedAbortCallback is up.  Only the
\* wait looks, so that an earlier abort shows when it starts.
Abort(t) ==
    /\ pc[t] \in {"wait", "asleep"}
    /\ aborting' = [aborting EXCEPT ![t] = TRUE]
    /\ UNCHANGED <<backend, pc, loggingOut, dialog, eventLoop, libspotify>>

\* Mutant: the task notifies nobody.
AbortPollSilent ==
    /\ \E t \in Threads : pc[t] = "asleep" /\ aborting[t]
    /\ UNCHANGED vars

\* AbortManager polls every two seconds and notifies without locking anything.
AbortPoll ==
    /\ \E t \in Threads : pc[t] = "asleep" /\ aborting[t]
    /\ pc' = Woken
    /\ UNCHANGED <<backend, aborting, loggingOut, dialog, eventLoop, libspotify>>

-----------------------------------------------------------------------------
(* Relogin *)

\* GetInitializedSpSession
CallRelogin(d) ==
    /\ pc[d] = "none"
    /\ Goto(d, "enter")
    /\ UNCHANGED <<backend, aborting, loggingOut, dialog, eventLoop, libspotify>>

\* The status thread posts the result to the dialog.
ReloginReturns(t, loggedIn) ==
    /\ Goto(t, "none")
    /\ message' = IF t = StatusThread THEN StatusOf(loggedIn) ELSE message
    /\ UNCHANGED <<loggingOut, ui, eventLoop>>

ReloginLock(t) ==
    /\ pc[t] = "enter"
    /\ LoginFree
    /\ \/ /\ status = "logged_out"
          /\ ReloginReturns(t, FALSE)
          /\ aborting' = [aborting EXCEPT ![t] = FALSE]
          /\ UNCHANGED <<backend, libspotify>>
       \/ /\ status = "uninitialized"
          /\ status' = "login_in_process"
          /\ login' = t
          /\ Goto(t, "relogin")
          /\ UNCHANGED <<isLoginBad, aborting, loggingOut, dialog, eventLoop, libspotify>>
       \/ /\ status \notin {"logged_out", "uninitialized"}
          /\ Goto(t, "wait")
          /\ UNCHANGED <<backend, aborting, loggingOut, dialog, eventLoop, libspotify>>

\* sp_session_relogin, with loginMutex_ and apiMutex_ locked.
ReloginCall(t) ==
    /\ pc[t] = "relogin"
    /\ ApiFree
    /\ login' = Nobody
    /\ \/ /\ remembered
          /\ outstanding' = outstanding \cup {"relogin"}
          /\ Goto(t, "wait")
          /\ UNCHANGED <<status, aborting, loggingOut, dialog, eventLoop>>
       \/ /\ ~remembered
          /\ status' = "logged_out"
          /\ ReloginReturns(t, FALSE)
          /\ aborting' = [aborting EXCEPT ![t] = FALSE]
          /\ UNCHANGED outstanding
    /\ UNCHANGED <<isLoginBad, events, session, remembered, leaving>>

ReloginWaited(t) ==
    /\ WaitEnds(t)
    /\ ReloginReturns(t, WaitResult(t))
    /\ UNCHANGED <<backend, libspotify>>

-----------------------------------------------------------------------------
(* The preferences dialog *)

\* OnInitDialog starts the status thread.
OpenPreferences ==
    /\ pc[MainThread] = "none"
    /\ ui = "closed"
    /\ ui' = "fetching"
    /\ Goto(StatusThread, "enter")
    /\ UNCHANGED <<backend, aborting, loggingOut, message, eventLoop, libspotify>>

OnStatusUpdateFinish ==
    /\ pc[MainThread] = "none"
    /\ ui # "closed"
    /\ message # "none"
    /\ ui' = message
    /\ message' = "none"
    /\ UNCHANGED <<backend, calls, eventLoop, libspotify>>

\* OnDestroy joins the status thread; what it still posts is lost.
OnDestroy ==
    /\ pc[MainThread] = "none"
    /\ ui # "closed"
    /\ ui' = "closed"
    /\ Goto(MainThread, "join")
    /\ UNCHANGED <<backend, aborting, loggingOut, message, eventLoop, libspotify>>

StatusThreadJoined ==
    /\ pc[MainThread] = "join"
    /\ pc[StatusThread] = "none"
    /\ Goto(MainThread, "none")
    /\ message' = "none"
    /\ UNCHANGED <<backend, aborting, loggingOut, ui, eventLoop, libspotify>>

-----------------------------------------------------------------------------
(* LoginWithUI *)

\* OnLibSpotifyLoginClick, logged out; it asserts that the backend is, too.
LoginClick ==
    /\ pc[MainThread] = "none"
    /\ ui = "logged_out"
    /\ LoginFree
    /\ status' = "login_in_process"
    /\ isLoginBad' = FALSE
    /\ Goto(MainThread, "dialog")
    /\ UNCHANGED <<login, aborting, loggingOut, dialog, eventLoop, libspotify>>

CredentialsCancelled ==
    /\ pc[MainThread] = "dialog"
    /\ LoginFree
    /\ status' = "logged_out"
    /\ pc' = [Woken EXCEPT ![MainThread] = "none"]
    /\ UNCHANGED <<isLoginBad, login, aborting, loggingOut, dialog, eventLoop, libspotify>>

CredentialsEntered ==
    /\ pc[MainThread] = "dialog"
    /\ Goto(MainThread, "submit")
    /\ UNCHANGED <<backend, aborting, loggingOut, dialog, eventLoop, libspotify>>

\* sp_session_login
LoginCall ==
    /\ pc[MainThread] = "submit"
    /\ ApiFree
    /\ outstanding' = outstanding \cup {"login"}
    /\ Goto(MainThread, "wait")
    /\ UNCHANGED <<backend, aborting, loggingOut, dialog, eventLoop,
                   events, session, remembered, leaving>>

\* A login that failed is tried again, with the status as it is.
LoginWaited ==
    /\ ~loggingOut
    /\ WaitEnds(MainThread)
    /\ IF aborting[MainThread] \/ WaitResult(MainThread)
       THEN ui' = StatusOf(WaitResult(MainThread)) /\ Goto(MainThread, "none")
       ELSE Goto(MainThread, "dialog") /\ UNCHANGED ui
    /\ UNCHANGED <<backend, loggingOut, message, eventLoop, libspotify>>

-----------------------------------------------------------------------------
(* LogoutAndForget *)

\* OnLibSpotifyLoginClick, logged in
LogoutClick ==
    /\ pc[MainThread] = "none"
    /\ ui = "logged_in"
    /\ LoginFree
    /\ IF status = "logged_in"
       THEN status' = "logout_in_process" /\ Goto(MainThread, "logout") /\ UNCHANGED ui
       ELSE ui' = "logged_out" /\ UNCHANGED <<status, pc>>
    /\ UNCHANGED <<isLoginBad, login, aborting, loggingOut, message, eventLoop, libspotify>>

\* sp_session_logout and sp_session_forget_me
LogoutCall ==
    /\ pc[MainThread] = "logout"
    /\ ApiFree
    /\ leaving' = (session = "in")
    /\ remembered' = FALSE
    /\ loggingOut' = TRUE
    /\ Goto(MainThread, "wait")
    /\ UNCHANGED <<backend, aborting, dialog, eventLoop, events, session, outstanding>>

LogoutWaited ==
    /\ loggingOut
    /\ WaitEnds(MainThread)
    /\ loggingOut' = FALSE
    /\ ui' = "logged_out"
    /\ Goto(MainThread, "none")
    /\ UNCHANGED <<backend, message, eventLoop, libspotify>>

-----------------------------------------------------------------------------

LibspotifyNext ==
    \/ \E a \in outstanding : LoginSucceeds(a) \/ LoginFails(a)
    \/ LogoutEnds
    \/ SessionEnds

EventLoopNext ==
    \/ EventLoopTests \/ EventLoopWakes \/ ProcessEvents \/ EventsProcessed
    \/ BadLogin \/ LoginError \/ ConnectionLoggedIn \/ ConnectionLoggedOut

ReloginNext(t) ==
    \/ ReloginLock(t) \/ ReloginCall(t) \/ WaitFallsAsleep(t) \/ ReloginWaited(t)

MainNext ==
    \/ OpenPreferences \/ OnStatusUpdateFinish \/ OnDestroy \/ StatusThreadJoined
    \/ LoginClick \/ CredentialsCancelled \/ CredentialsEntered \/ LoginCall
    \/ WaitFallsAsleep(MainThread) \/ LoginWaited
    \/ LogoutClick \/ LogoutCall \/ LogoutWaited

Next ==
    \/ LibspotifyNext
    \/ EventLoopNext
    \/ AbortPoll
    \/ \E t \in Threads : Abort(t)
    \/ \E d \in Decoders : CallRelogin(d)
    \/ \E t \in Reloggers : ReloginNext(t)
    \/ MainNext

Spec == Init /\ [][Next]_vars

\* The threads run and get the mutexes they wait for, a notified event loop
\* wakes, the abort manager polls, and the callers with a TimedAbortCallback run
\* out of time.  libspotify need not answer, the host need not abort, and the
\* user need not do anything.
MainThreadRuns ==
    \/ StatusThreadJoined \/ LoginCall \/ LogoutCall
    \/ WaitFallsAsleep(MainThread) \/ LoginWaited \/ LogoutWaited

Fairness ==
    /\ WF_vars((hasEvents \/ loop # "waiting") /\ EventLoopNext)
    /\ WF_vars(AbortPoll)
    /\ WF_vars(Abort(StatusThread)) /\ WF_vars(Abort(MainThread))
    /\ \A t \in Reloggers : SF_vars(ReloginNext(t))
    /\ SF_vars(MainThreadRuns)

FairSpec == Spec /\ Fairness

-----------------------------------------------------------------------------
(* Properties *)

Queued(e) == \E k \in 1 .. Len(events) : events[k] = e

\* A backend that says it is logged in is: Relogin, and so open and decoding,
\* never report success on a session that has ended.
LoggedInMeansSession == status = "logged_in" => session = "in"

\* The status is never left in process with nothing under way that would settle
\* it: every Relogin would wait until its caller aborts.
InProcessIsPending ==
    /\ status = "login_in_process" =>
         \/ pc[MainThread] \in {"dialog", "submit"}
         \/ login # Nobody
         \/ outstanding # {}
         \/ Queued("loggedIn") \/ Queued("bad") \/ Queued("error")
    /\ status = "logout_in_process" =>
         pc[MainThread] = "logout" \/ leaving \/ Queued("loggedOut")

\* Nobody sleeps through a login: when the status becomes logged in, every
\* thread that waits for it is woken.
LoginWakesAll == status = "logged_in" => \A t \in Threads : pc[t] # "asleep"

\* No callback is left waiting: what libspotify queues while the event loop is
\* on its way to sleep wakes it again.
NoLostEvent == events # <<>> => hasEvents \/ loop # "waiting"

\* Relogin waits for apiMutex_ with loginMutex_ locked, and a callback waits for
\* loginMutex_ with apiMutex_ locked.
CircularWait ==
    loop = "processing" /\ login # Nobody /\ events # <<>>

\* A call that is aborted returns, whether or not libspotify answers.
AbortedReloginReturns ==
    \A t \in Reloggers :
        aborting[t] /\ pc[t] # "none" ~> pc[t] = "none" \/ CircularWait

\* The main thread gets out of every call that blocks it: logging in, logging
\* out, and closing the preferences while the status thread still runs.
MainThreadReturns ==
    pc[MainThread] \notin {"none", "dialog"}
        ~> pc[MainThread] \in {"none", "dialog"} \/ CircularWait

\* assert( loginStatus_ == LoginStatus::logged_out ) of LoginWithUI
LoginStartsLoggedOut ==
    [][pc[MainThread] = "none" /\ pc'[MainThread] = "dialog" => status = "logged_out"]_vars

\* "You need to call sp_session_process_events()": each notification is followed
\* by a call.
NotifiedIsProcessed == hasEvents ~> ~hasEvents
=============================================================================
