------------------------ MODULE LibSpotifyLoginProofs ------------------------
(***************************************************************************)
(* Proofs about LibSpotifyLogin for every set of decoder threads and every *)
(* bound on the queued callbacks: the login status agrees with the session *)
(* and is never left in process with nothing that would settle it.         *)
(***************************************************************************)
EXTENDS LibSpotifyLogin, SequenceTheorems, TLAPS

\* The session lasts while the status is logged in or logging out: only the
\* callback that ends it leaves these two.
StatusHasSession == status \in {"logged_in", "logout_in_process"} => session = "in"

\* A queued callback is on its way: the loop runs callbacks, is about to, or
\* will find hasEvents_ set when it tests it.
EventsSeen == events # <<>> => hasEvents \/ loop \in {"woken", "processing"}

IInv ==
    /\ TypeOK
    /\ StatusHasSession
    /\ LoginWakesAll
    /\ InProcessIsPending
    /\ EventsSeen

-----------------------------------------------------------------------------
(* The queue of callbacks *)

\* Posting keeps what is queued and adds what is posted.
LEMMA PostFacts ==
    ASSUME events \in Seq(Event), NEW es \in Seq(Event), es # <<>>, Post(es)
    PROVE  /\ events' \in Seq(Event)
           /\ Len(events') <= MaxEvents
           /\ hasEvents'
           /\ \A e \in Event : Queued(e) => Queued(e)'
           /\ \A k \in 1 .. Len(es) : Queued(es[k])'
<1>1. /\ events' = events \o es
      /\ Len(events) + Len(es) <= MaxEvents
      /\ hasEvents'
  BY DEF Post, notify_main_thread
<1>2. /\ events' \in Seq(Event)
      /\ Len(events') = Len(events) + Len(es)
      /\ Len(events) \in Nat /\ Len(es) \in Nat
      /\ \A k \in 1 .. Len(events) : events'[k] = events[k]
      /\ \A k \in 1 .. Len(es) : events'[Len(events) + k] = es[k]
  BY <1>1, ConcatProperties, LenProperties
<1>3. \A e \in Event : Queued(e) => Queued(e)'
  BY <1>2 DEF Queued
<1>4. ASSUME NEW k \in 1 .. Len(es)
      PROVE  Queued(es[k])'
  <2>1. Len(events) + k \in 1 .. Len(events') /\ events'[Len(events) + k] = es[k]
    BY <1>2
  <2> QED
    BY <2>1 DEF Queued
<1> QED
  BY <1>1, <1>2, <1>3, <1>4

\* What a failed login posts.
LEMMA PostedSequences ==
    ASSUME NEW e \in Event
    PROVE  /\ <<e>> \in Seq(Event) /\ <<e>> # <<>> /\ Len(<<e>>) = 1 /\ <<e>>[1] = e
           /\ <<e, "loggedOut">> \in Seq(Event) /\ <<e, "loggedOut">> # <<>>
           /\ Len(<<e, "loggedOut">>) = 2 /\ <<e, "loggedOut">>[1] = e
           /\ <<"loggedOut", e>> \in Seq(Event) /\ <<"loggedOut", e>> # <<>>
           /\ Len(<<"loggedOut", e>>) = 2 /\ <<"loggedOut", e>>[2] = e
BY DEF Event

\* A callback takes nothing but itself off the queue.
LEMMA CallbackFacts ==
    ASSUME events \in Seq(Event), Len(events) <= MaxEvents, NEW e \in Event, Callback(e)
    PROVE  /\ events' \in Seq(Event)
           /\ Len(events') <= MaxEvents
           /\ \A f \in Event \ {e} : Queued(f) => Queued(f)'
<1>1. events # <<>> /\ events[1] = e /\ events' = Tail(events)
  BY DEF Callback
<1>2. /\ events' \in Seq(Event)
      /\ Len(events) \in Nat
      /\ Len(events') = Len(events) - 1
      /\ \A k \in 1 .. Len(events) - 1 : events'[k] = events[k + 1]
  BY <1>1, HeadTailProperties, LenProperties
<1>3. Len(events') <= MaxEvents
  BY <1>2, LoginAssumption
<1>4. \A f \in Event \ {e} : Queued(f) => Queued(f)'
  <2>1. ASSUME NEW f \in Event \ {e}, NEW k \in 1 .. Len(events), events[k] = f
        PROVE  Queued(f)'
    <3>1. k # 1
      BY <1>1, <2>1
    <3>2. k - 1 \in 1 .. Len(events') /\ events'[k - 1] = f
      BY <1>2, <2>1, <3>1
    <3> QED
      BY <3>2 DEF Queued
  <2> QED
    BY <2>1 DEF Queued
<1> QED
  BY <1>2, <1>3, <1>4

-----------------------------------------------------------------------------
(* The types *)

\* The steps keep every variable in its type.
LEMMA TypeStep ==
    ASSUME TypeOK, [Next]_vars
    PROVE  TypeOK'
<1> USE DEF TypeOK
<1>a. MainThread \in Threads /\ StatusThread \in Threads /\ Reloggers \subseteq Threads
  BY DEF Threads, Reloggers
<1>1. ASSUME NEW a \in outstanding, LoginSucceeds(a)
      PROVE  TypeOK'
  <2>1. Post(<<"loggedIn">>)
    BY <1>1 DEF LoginSucceeds
  <2>2. events' \in Seq(Event) /\ Len(events') <= MaxEvents /\ hasEvents' \in BOOLEAN
    BY <2>1, PostFacts, PostedSequences DEF Event, Post, notify_main_thread
  <2> QED
    BY <1>1, <2>2 DEF LoginSucceeds, backend, calls, dialog
<1>2. ASSUME NEW a \in outstanding, LoginFails(a)
      PROVE  TypeOK'
  <2>1. PICK e \in {"bad", "error"} : \/ Post(<<e>>)
                                     \/ Post(<<e, "loggedOut">>)
                                     \/ Post(<<"loggedOut", e>>)
    BY <1>2 DEF LoginFails
  <2>2. events' \in Seq(Event) /\ Len(events') <= MaxEvents /\ hasEvents' \in BOOLEAN
    BY <2>1, PostFacts, PostedSequences DEF Event, Post, notify_main_thread
  <2>3. /\ UNCHANGED <<backend, calls, dialog, loop, session, remembered, leaving>>
        /\ outstanding' = outstanding \ {a}
    BY <1>2 DEF LoginFails
  <2> QED
    BY <2>2, <2>3 DEF backend, calls, dialog
<1>3. ASSUME LogoutEnds \/ SessionEnds
      PROVE  TypeOK'
  <2>1. Post(<<"loggedOut">>)
    BY <1>3 DEF LogoutEnds, SessionEnds
  <2>2. events' \in Seq(Event) /\ Len(events') <= MaxEvents /\ hasEvents' \in BOOLEAN
    BY <2>1, PostFacts, PostedSequences DEF Event, Post, notify_main_thread
  <2>3. CASE LogoutEnds
    BY <2>2, <2>3 DEF LogoutEnds, backend, calls, dialog
  <2>4. CASE SessionEnds
    BY <2>2, <2>4 DEF SessionEnds, backend, calls, dialog
  <2> QED
    BY <1>3, <2>3, <2>4
<1>4. CASE EventLoopTests
  BY <1>a, <1>4 DEF EventLoopTests, backend, calls, dialog, libspotify
<1>5. CASE EventLoopWakes
  BY <1>a, <1>5 DEF EventLoopWakes, backend, calls, dialog, libspotify
<1>6. CASE ProcessEvents
  BY <1>a, <1>6 DEF ProcessEvents, backend, calls, dialog, libspotify
<1>7. CASE EventsProcessed
  BY <1>a, <1>7 DEF EventsProcessed, backend, calls, dialog, libspotify
<1>8. CASE BadLogin \/ LoginError \/ ConnectionLoggedIn \/ ConnectionLoggedOut
  <2>1. PICK e \in Event : Callback(e)
    BY <1>8 DEF BadLogin, LoginError, ConnectionLoggedIn, ConnectionLoggedOut, Event
  <2>2. events' \in Seq(Event) /\ Len(events') <= MaxEvents
    BY <2>1, CallbackFacts
  <2>3. UNCHANGED <<login, aborting, loggingOut, ui, message, loop, hasEvents,
                    remembered, outstanding, leaving>>
    BY <2>1 DEF Callback, dialog, eventLoop
  <2>4. pc' \in [Threads -> Point]
    BY <1>8 DEF BadLogin, LoginError, ConnectionLoggedIn, ConnectionLoggedOut, Woken, Point
  <2>5. isLoginBad' \in BOOLEAN
    BY <1>8 DEF BadLogin, LoginError, ConnectionLoggedIn, ConnectionLoggedOut
  <2>6. status' \in LoginStatus /\ session' \in {"in", "out"}
    BY <1>8 DEF BadLogin, LoginError, ConnectionLoggedIn, ConnectionLoggedOut, LoginStatus
  <2> QED
    BY <2>2, <2>3, <2>4, <2>5, <2>6
<1>9. CASE AbortPoll
  BY <1>a, <1>9 DEF AbortPoll, Woken, Point, backend, dialog, eventLoop, libspotify
<1>10. ASSUME NEW t \in Threads, Abort(t)
       PROVE  TypeOK'
  BY <1>a, <1>10 DEF Abort, backend, dialog, eventLoop, libspotify
<1>11. ASSUME NEW d \in Decoders, CallRelogin(d)
       PROVE  TypeOK'
  BY <1>a, <1>11 DEF CallRelogin, Goto, Point, Threads, Reloggers, backend, dialog, eventLoop, libspotify
<1>12. ASSUME NEW t \in Reloggers, ReloginLock(t)
       PROVE  TypeOK'
  <2>1. pc' \in [Threads -> Point] /\ aborting' \in [Threads -> BOOLEAN]
    BY <1>a, <1>12 DEF ReloginLock, ReloginReturns, Goto, Point
  <2>2. status' \in LoginStatus /\ login' \in Reloggers \cup {Nobody}
    BY <1>a, <1>12 DEF ReloginLock, backend, LoginStatus, InProcess
  <2>3. ui' = ui /\ message' \in {"none", "logged_in", "logged_out"}
    BY <1>a, <1>12 DEF ReloginLock, ReloginReturns, StatusOf, dialog
  <2>4. UNCHANGED <<isLoginBad, loggingOut, loop, hasEvents, libspotify>>
    BY <1>a, <1>12 DEF ReloginLock, ReloginReturns, backend, eventLoop
  <2> QED
    BY <1>12, <2>1, <2>2, <2>3, <2>4 DEF libspotify
<1>13. ASSUME NEW t \in Reloggers, ReloginCall(t)
       PROVE  TypeOK'
  <2>1. pc' \in [Threads -> Point] /\ aborting' \in [Threads -> BOOLEAN]
    BY <1>a, <1>13 DEF ReloginCall, ReloginReturns, Goto, Point
  <2>2. status' \in LoginStatus /\ login' = Nobody
    BY <1>a, <1>13 DEF ReloginCall, LoginStatus
  <2>3. ui' = ui /\ message' \in {"none", "logged_in", "logged_out"}
    BY <1>a, <1>13 DEF ReloginCall, ReloginReturns, StatusOf, dialog
  <2>4. /\ UNCHANGED <<isLoginBad, loggingOut, loop, hasEvents, events, session,
                       remembered, leaving>>
        /\ outstanding' \subseteq {"relogin", "login"}
    BY <1>a, <1>13 DEF ReloginCall, ReloginReturns, eventLoop
  <2> QED
    BY <1>13, <2>1, <2>2, <2>3, <2>4
<1>14. ASSUME NEW t \in Threads, WaitFallsAsleep(t)
       PROVE  TypeOK'
  BY <1>a, <1>14 DEF WaitFallsAsleep, Goto, Point, backend, dialog, eventLoop, libspotify
<1>15. ASSUME NEW t \in Reloggers, ReloginWaited(t)
       PROVE  TypeOK'
  <2>1. pc' \in [Threads -> Point] /\ aborting' \in [Threads -> BOOLEAN]
    BY <1>a, <1>15 DEF ReloginWaited, WaitEnds, ReloginReturns, Goto, Point
  <2>2. message' \in {"none", "logged_in", "logged_out"}
    BY <1>a, <1>15 DEF ReloginWaited, ReloginReturns, StatusOf
  <2> QED
    BY <1>15, <2>1, <2>2 DEF ReloginWaited, ReloginReturns, backend, eventLoop, libspotify
<1>16. CASE OpenPreferences
  BY <1>a, <1>16 DEF OpenPreferences, Goto, Point, backend, eventLoop, libspotify
<1>17. CASE OnStatusUpdateFinish
  BY <1>a, <1>17 DEF OnStatusUpdateFinish, backend, calls, eventLoop, libspotify
<1>18. CASE OnDestroy
  BY <1>a, <1>18 DEF OnDestroy, Goto, Point, backend, eventLoop, libspotify
<1>19. CASE StatusThreadJoined
  BY <1>a, <1>19 DEF StatusThreadJoined, Goto, Point, backend, eventLoop, libspotify
<1>20. CASE LoginClick
  BY <1>a, <1>20 DEF LoginClick, Goto, Point, LoginStatus, InProcess, dialog, eventLoop, libspotify
<1>21. CASE CredentialsCancelled
  BY <1>a, <1>21 DEF CredentialsCancelled, Woken, Point, LoginStatus, dialog, eventLoop, libspotify
<1>22. CASE CredentialsEntered
  BY <1>a, <1>22 DEF CredentialsEntered, Goto, Point, backend, dialog, eventLoop, libspotify
<1>23. CASE LoginCall
  BY <1>a, <1>23 DEF LoginCall, Goto, Point, backend, dialog, eventLoop
<1>24. CASE LoginWaited
  <2>1. pc' \in [Threads -> Point] /\ aborting' \in [Threads -> BOOLEAN]
    BY <1>a, <1>24 DEF LoginWaited, WaitEnds, Goto, Point
  <2>2. ui' \in {"closed", "fetching", "logged_in", "logged_out"}
    BY <1>a, <1>24 DEF LoginWaited, StatusOf
  <2> QED
    BY <1>24, <2>1, <2>2 DEF LoginWaited, backend, eventLoop, libspotify
<1>25. CASE LogoutWaited
  <2>1. pc' \in [Threads -> Point] /\ aborting' \in [Threads -> BOOLEAN]
    BY <1>a, <1>25 DEF LogoutWaited, WaitEnds, Goto, Point
  <2> QED
    BY <1>25, <2>1 DEF LogoutWaited, backend, eventLoop, libspotify
<1>26. CASE LogoutClick
  <2>1. pc' \in [Threads -> Point]
    BY <1>a, <1>26 DEF LogoutClick, Goto, Point
  <2>2. status' \in LoginStatus
    BY <1>a, <1>26 DEF LogoutClick, LoginStatus, InProcess
  <2> QED
    BY <1>26, <2>1, <2>2 DEF LogoutClick, eventLoop, libspotify
<1>27. CASE LogoutCall
  <2>1. pc' \in [Threads -> Point]
    BY <1>a, <1>27 DEF LogoutCall, Goto, Point
  <2>2. leaving' \in BOOLEAN
    BY <1>a, <1>27, Zenon DEF LogoutCall
  <2> QED
    BY <1>27, <2>1, <2>2 DEF LogoutCall, backend, dialog, eventLoop
<1>28. CASE UNCHANGED vars
  BY <1>a, <1>28 DEF vars, backend, calls, dialog, eventLoop, libspotify
<1> QED
  BY <1>a, <1>1, <1>2, <1>3, <1>4, <1>5, <1>6, <1>7, <1>8, <1>9, <1>10, <1>11, <1>12, <1>13,
     <1>14, <1>15, <1>16, <1>17, <1>18, <1>19, <1>20, <1>21, <1>22, <1>23, <1>24, <1>25, <1>26,
     <1>27, <1>28
  DEF Next, LibspotifyNext, EventLoopNext, ReloginNext, MainNext

-----------------------------------------------------------------------------
(* The status *)

Parts == StatusHasSession /\ LoginWakesAll /\ InProcessIsPending /\ EventsSeen

\* What is queued stays queued while nothing is posted or dispatched.
LEMMA SameQueue ==
    ASSUME UNCHANGED events, NEW e \in Event
    PROVE  Queued(e)' <=> Queued(e)
BY DEF Queued

\* libspotify's answers are queued as the status waits for them.
LEMMA PostStep ==
    ASSUME IInv, LibspotifyNext
    PROVE  Parts'
<1> USE DEF IInv, TypeOK
<1>1. UNCHANGED <<status, pc, login, loop, session>>
  BY DEF LibspotifyNext, LoginSucceeds, LoginFails, LogoutEnds, SessionEnds, backend, calls
<1>2. PICK es \in Seq(Event) : es # <<>> /\ Post(es)
  BY PostedSequences DEF LibspotifyNext, LoginSucceeds, LoginFails, LogoutEnds, SessionEnds, Event
<1>3. hasEvents' /\ \A e \in Event : Queued(e) => Queued(e)'
  BY <1>2, PostFacts
<1>4. StatusHasSession' /\ LoginWakesAll'
  BY <1>1 DEF StatusHasSession, LoginWakesAll
<1>5. EventsSeen'
  BY <1>3 DEF EventsSeen
<1>6. outstanding # {} => outstanding' # {} \/ Queued("loggedIn")' \/ Queued("bad")' \/ Queued("error")'
  <2>1. ASSUME NEW a \in outstanding, LoginSucceeds(a)
        PROVE  Queued("loggedIn")'
    <3>1. Post(<<"loggedIn">>)
      BY <2>1 DEF LoginSucceeds
    <3> DEFINE one == <<"loggedIn">>
    <3>2. \A k \in 1 .. Len(one) : Queued(one[k])'
      BY <3>1, PostFacts, PostedSequences DEF Event
    <3>3. 1 \in 1 .. Len(one) /\ one[1] = "loggedIn"
      BY PostedSequences DEF Event
    <3> QED
      BY <3>2, <3>3
  <2>2. ASSUME NEW a \in outstanding, LoginFails(a)
        PROVE  Queued("bad")' \/ Queued("error")'
    <3>1. PICK e \in {"bad", "error"} : \/ Post(<<e>>)
                                       \/ Post(<<e, "loggedOut">>)
                                       \/ Post(<<"loggedOut", e>>)
      BY <2>2 DEF LoginFails
    <3>2. ASSUME NEW fs \in Seq(Event), fs # <<>>, Post(fs), NEW k \in 1 .. Len(fs), fs[k] = e
          PROVE  Queued(e)'
      <4>1. \A i \in 1 .. Len(fs) : Queued(fs[i])'
        BY <3>2, PostFacts
      <4> QED
        BY <3>2, <4>1
    <3>3. e \in Event
      BY DEF Event
    <3>4. CASE Post(<<e>>)
      <4>1. <<e>> \in Seq(Event) /\ <<e>> # <<>> /\ 1 \in 1 .. Len(<<e>>) /\ <<e>>[1] = e
        BY <3>3, PostedSequences
      <4>2. Queued(e)'
        BY <3>2, <3>4, <4>1
      <4> QED
        BY <4>2
    <3>5. CASE Post(<<e, "loggedOut">>)
      <4> DEFINE fs == <<e, "loggedOut">>
      <4>1. fs \in Seq(Event) /\ fs # <<>> /\ 1 \in 1 .. Len(fs) /\ fs[1] = e
        BY <3>3, PostedSequences
      <4>2. Queued(e)'
        BY <3>2, <3>5, <4>1
      <4> QED
        BY <4>2
    <3>6. CASE Post(<<"loggedOut", e>>)
      <4> DEFINE fs == <<"loggedOut", e>>
      <4>1. fs \in Seq(Event) /\ fs # <<>> /\ 2 \in 1 .. Len(fs) /\ fs[2] = e
        BY <3>3, PostedSequences
      <4>2. Queued(e)'
        BY <3>2, <3>6, <4>1
      <4> QED
        BY <4>2
    <3> QED
      BY <3>1, <3>4, <3>5, <3>6
  <2>3. CASE LogoutEnds \/ SessionEnds
    BY <2>3 DEF LogoutEnds, SessionEnds
  <2> QED
    BY <2>1, <2>2, <2>3 DEF LibspotifyNext
<1>7. leaving => leaving' \/ Queued("loggedOut")'
  <2>1. CASE LogoutEnds
    <3>1. Post(<<"loggedOut">>)
      BY <2>1 DEF LogoutEnds
    <3> DEFINE one == <<"loggedOut">>
    <3>2. \A k \in 1 .. Len(one) : Queued(one[k])'
      BY <3>1, PostFacts, PostedSequences DEF Event
    <3>3. 1 \in 1 .. Len(one) /\ one[1] = "loggedOut"
      BY PostedSequences DEF Event
    <3> QED
      BY <3>2, <3>3
  <2>2. CASE ~LogoutEnds
    BY <2>2 DEF LibspotifyNext, LoginSucceeds, LoginFails, SessionEnds
  <2> QED
    BY <2>1, <2>2
<1>8. InProcessIsPending'
  BY <1>1, <1>3, <1>6, <1>7 DEF InProcessIsPending, Event
<1> QED
  BY <1>4, <1>5, <1>8 DEF Parts

\* A callback either settles the status or leaves it what it waits for.
LEMMA CallbackStep ==
    ASSUME IInv, BadLogin \/ LoginError \/ ConnectionLoggedIn \/ ConnectionLoggedOut
    PROVE  Parts'
<1> USE DEF IInv, TypeOK
<1>1. PICK e \in Event : Callback(e)
  BY DEF BadLogin, LoginError, ConnectionLoggedIn, ConnectionLoggedOut, Event
<1>2. UNCHANGED <<login, loop, outstanding, leaving>> /\ loop = "processing"
  BY <1>1 DEF Callback, eventLoop
<1>3. EventsSeen'
  BY <1>2 DEF EventsSeen
<1>4. MainThread \in Threads /\ \A t \in Threads : pc[t] # "asleep" => pc'[t] = pc[t]
  BY DEF BadLogin, LoginError, ConnectionLoggedIn, ConnectionLoggedOut, Woken, Threads
<1>5. CASE BadLogin
  <2>1. \A f \in Event \ {"bad"} : Queued(f) => Queued(f)'
    BY <1>5, CallbackFacts DEF BadLogin, Event
  <2>2. /\ session' = session /\ pc' = pc
        /\ status' = IF status = "login_in_process" THEN "logged_out" ELSE status
    BY <1>5 DEF BadLogin
  <2>3. StatusHasSession' /\ LoginWakesAll'
    BY <2>2 DEF StatusHasSession, LoginWakesAll
  <2>4. InProcessIsPending'
    BY <1>2, <2>1, <2>2 DEF InProcessIsPending, Event
  <2> QED
    BY <1>3, <2>3, <2>4 DEF Parts
<1>6. CASE LoginError
  BY <1>3, <1>6 DEF LoginError, Parts, StatusHasSession, LoginWakesAll, InProcessIsPending
<1>7. CASE ConnectionLoggedIn
  <2>1. \A t \in Threads : pc'[t] # "asleep"
    BY <1>7 DEF ConnectionLoggedIn, Woken
  <2> QED
    BY <1>3, <1>7, <2>1
    DEF ConnectionLoggedIn, Parts, StatusHasSession, LoginWakesAll, InProcessIsPending
<1>8. CASE ConnectionLoggedOut
  <2>1. \A f \in Event \ {"loggedOut"} : Queued(f) => Queued(f)'
    BY <1>8, CallbackFacts DEF ConnectionLoggedOut, Event
  <2>2. /\ status = "login_in_process" => status' = status /\ pc' = pc
        /\ status # "login_in_process" => status' = "logged_out"
    BY <1>8 DEF ConnectionLoggedOut
  <2>3. StatusHasSession' /\ LoginWakesAll'
    BY <2>2 DEF StatusHasSession, LoginWakesAll
  <2>4. InProcessIsPending'
    BY <1>2, <2>1, <2>2 DEF InProcessIsPending, Event
  <2> QED
    BY <1>3, <2>3, <2>4 DEF Parts
<1> QED
  BY <1>5, <1>6, <1>7, <1>8

\* A step that leaves status, session, queue and event loop alone keeps the
\* invariant if it puts nobody to sleep but while the status is in process, and
\* takes nothing from what is under way.
LEMMA QuietStep ==
    ASSUME IInv, TypeOK',
           UNCHANGED <<status, login, session, loop, hasEvents, events>>,
           \A t \in Threads : pc'[t] = "asleep" => pc[t] = "asleep" \/ status \in InProcess,
           pc[MainThread] \in {"dialog", "submit"} =>
             pc'[MainThread] \in {"dialog", "submit"} \/ outstanding' # {},
           pc[MainThread] = "logout" /\ status = "logout_in_process" =>
             pc'[MainThread] = "logout" \/ leaving',
           outstanding # {} => outstanding' # {},
           leaving => leaving' \/ status # "logout_in_process"
    PROVE  Parts'
<1>1. StatusHasSession' /\ EventsSeen'
  BY DEF IInv, StatusHasSession, EventsSeen
<1>2. LoginWakesAll'
  BY DEF IInv, LoginWakesAll, InProcess
<1>3. \A e \in Event : Queued(e)' <=> Queued(e)
  BY SameQueue
<1>4. InProcessIsPending'
  BY <1>3 DEF IInv, InProcessIsPending, Event
<1> QED
  BY <1>1, <1>2, <1>4 DEF Parts

\* The event loop never goes to sleep with a callback queued.
LEMMA LoopStep ==
    ASSUME IInv, EventLoopTests \/ EventLoopWakes \/ ProcessEvents \/ EventsProcessed
    PROVE  Parts'
<1>1. UNCHANGED <<status, login, pc, session, events, outstanding, leaving>>
  BY DEF EventLoopTests, EventLoopWakes, ProcessEvents, EventsProcessed,
     backend, calls, libspotify
<1>2. StatusHasSession' /\ LoginWakesAll'
  BY <1>1 DEF IInv, StatusHasSession, LoginWakesAll
<1>3. EventsSeen'
  BY <1>1 DEF EventLoopTests, EventLoopWakes, ProcessEvents, EventsProcessed,
     IInv, TypeOK, EventsSeen
<1>4. \A e \in Event : Queued(e)' <=> Queued(e)
  BY <1>1, SameQueue
<1>5. InProcessIsPending'
  BY <1>1, <1>4 DEF IInv, InProcessIsPending, Event
<1> QED
  BY <1>2, <1>3, <1>5 DEF Parts

\* Relogin puts the status in process only with loginMutex_ locked, and lets go
\* of it with a login under way or the status settled.
LEMMA ReloginStep ==
    ASSUME IInv, TypeOK', NEW t \in Reloggers, ReloginNext(t)
    PROVE  Parts'
<1> USE DEF TypeOK
<1>1. IInv /\ TypeOK /\ MainThread \in Threads /\ t \in Threads /\ t # MainThread /\ t # Nobody
  BY LoginAssumption DEF IInv, Threads, Reloggers
<1>2. CASE ReloginLock(t)
  <2>1. /\ UNCHANGED <<session, loop, hasEvents, events, outstanding, leaving>>
        /\ pc'[MainThread] = pc[MainThread]
        /\ \A u \in Threads : pc'[u] = "asleep" => pc[u] = "asleep"
    BY <1>1, <1>2 DEF ReloginLock, ReloginReturns, Goto, eventLoop, libspotify
  <2>2. \/ UNCHANGED <<status, login>>
        \/ status = "uninitialized" /\ status' = "login_in_process" /\ login' = t
    BY <1>2 DEF ReloginLock, backend
  <2>3. CASE UNCHANGED <<status, login>>
    BY <1>1, <2>1, <2>3, QuietStep
  <2>4. CASE status' = "login_in_process" /\ login' = t
    <3>1. StatusHasSession' /\ LoginWakesAll' /\ InProcessIsPending'
      BY <1>1, <2>4 DEF StatusHasSession, LoginWakesAll, InProcessIsPending
    <3>2. EventsSeen'
      BY <2>1 DEF IInv, EventsSeen
    <3> QED
      BY <3>1, <3>2 DEF Parts
  <2> QED
    BY <2>2, <2>3, <2>4
<1>3. CASE ReloginCall(t)
  <2>1. /\ UNCHANGED <<session, loop, hasEvents, events, leaving>>
        /\ pc'[MainThread] = pc[MainThread]
        /\ \A u \in Threads : pc'[u] = "asleep" => pc[u] = "asleep"
    BY <1>1, <1>3 DEF ReloginCall, ReloginReturns, Goto, eventLoop
  <2>2. \/ status' = status /\ "relogin" \in outstanding'
        \/ status' = "logged_out"
    BY <1>3 DEF ReloginCall
  <2>3. EventsSeen'
    BY <2>1 DEF IInv, EventsSeen
  <2>4. StatusHasSession' /\ LoginWakesAll'
    BY <2>1, <2>2 DEF IInv, StatusHasSession, LoginWakesAll
  <2>5. \A e \in Event : Queued(e)' <=> Queued(e)
    BY <2>1, SameQueue
  <2>6. InProcessIsPending'
    BY <2>1, <2>2, <2>5 DEF IInv, InProcessIsPending, Event
  <2> QED
    BY <2>3, <2>4, <2>6 DEF Parts
<1>4. CASE WaitFallsAsleep(t)
  <2>1. /\ UNCHANGED <<status, login, session, loop, hasEvents, events, outstanding, leaving>>
        /\ pc'[MainThread] = pc[MainThread]
        /\ \A u \in Threads : pc'[u] = "asleep" => pc[u] = "asleep" \/ status \in InProcess
    BY <1>1, <1>4 DEF WaitFallsAsleep, Settled, Goto, backend, eventLoop, libspotify
  <2> QED
    BY <1>1, <2>1, QuietStep
<1>5. CASE ReloginWaited(t)
  <2>1. /\ UNCHANGED <<status, login, session, loop, hasEvents, events, outstanding, leaving>>
        /\ pc'[MainThread] = pc[MainThread]
        /\ \A u \in Threads : pc'[u] = "asleep" => pc[u] = "asleep"
    BY <1>1, <1>5 DEF ReloginWaited, ReloginReturns, Goto, backend, eventLoop, libspotify
  <2> QED
    BY <1>1, <2>1, QuietStep
<1> QED
  BY <1>2, <1>3, <1>4, <1>5 DEF ReloginNext

\* The main thread leaves a login or a logout under way, or the status settled.
LEMMA MainStep ==
    ASSUME IInv, TypeOK', MainNext
    PROVE  Parts'
<1> USE DEF TypeOK
<1>1. /\ IInv /\ TypeOK /\ MainThread \in Threads /\ StatusThread \in Threads
      /\ StatusThread # MainThread
  BY LoginAssumption DEF IInv, Threads, Reloggers
<1>2. CASE OpenPreferences \/ OnStatusUpdateFinish \/ OnDestroy \/ StatusThreadJoined
  <2>1. /\ UNCHANGED <<status, login, session, loop, hasEvents, events, outstanding, leaving>>
        /\ pc[MainThread] \notin {"dialog", "submit", "logout"}
        /\ \A u \in Threads : pc'[u] = "asleep" => pc[u] = "asleep"
    BY <1>1, <1>2 DEF OpenPreferences, OnStatusUpdateFinish, OnDestroy, StatusThreadJoined,
       Goto, backend, calls, eventLoop, libspotify
  <2> QED
    BY <1>1, <2>1, QuietStep
<1>3. CASE LoginClick
  <2>1. /\ UNCHANGED <<session, loop, hasEvents, events>>
        /\ status' = "login_in_process" /\ pc'[MainThread] = "dialog"
    BY <1>1, <1>3 DEF LoginClick, Goto, eventLoop, libspotify
  <2> QED
    BY <1>1, <2>1
    DEF IInv, Parts, StatusHasSession, LoginWakesAll, InProcessIsPending, EventsSeen
<1>4. CASE CredentialsCancelled
  BY <1>1, <1>4
  DEF CredentialsCancelled, IInv, Parts, StatusHasSession, LoginWakesAll,
      InProcessIsPending, EventsSeen, eventLoop, libspotify
<1>5. CASE CredentialsEntered
  <2>1. /\ UNCHANGED <<status, login, session, loop, hasEvents, events, outstanding, leaving>>
        /\ pc[MainThread] = "dialog" /\ pc'[MainThread] = "submit"
        /\ \A u \in Threads : pc'[u] = "asleep" => pc[u] = "asleep"
    BY <1>1, <1>5 DEF CredentialsEntered, Goto, backend, eventLoop, libspotify
  <2> QED
    BY <1>1, <2>1, QuietStep
<1>6. CASE LoginCall
  <2>1. /\ UNCHANGED <<status, login, session, loop, hasEvents, events, leaving>>
        /\ outstanding' # {} /\ pc[MainThread] = "submit"
        /\ \A u \in Threads : pc'[u] = "asleep" => pc[u] = "asleep"
    BY <1>1, <1>6 DEF LoginCall, Goto, backend, eventLoop
  <2> QED
    BY <1>1, <2>1, QuietStep
<1>7. CASE WaitFallsAsleep(MainThread)
  <2>1. /\ UNCHANGED <<status, login, session, loop, hasEvents, events, outstanding, leaving>>
        /\ pc[MainThread] = "wait"
        /\ \A u \in Threads : pc'[u] = "asleep" => pc[u] = "asleep" \/ status \in InProcess
    BY <1>1, <1>7 DEF WaitFallsAsleep, Settled, Goto, backend, eventLoop, libspotify
  <2> QED
    BY <1>1, <2>1, QuietStep
<1>8. CASE LoginWaited \/ LogoutWaited
  <2>1. /\ UNCHANGED <<status, login, session, loop, hasEvents, events, outstanding, leaving>>
        /\ pc[MainThread] = "wait"
        /\ \A u \in Threads : pc'[u] = "asleep" => pc[u] = "asleep"
    BY <1>1, <1>8 DEF LoginWaited, LogoutWaited, WaitEnds, Goto, backend, eventLoop, libspotify
  <2> QED
    BY <1>1, <2>1, QuietStep
<1>9. CASE LogoutClick
  <2>1. /\ UNCHANGED <<login, session, loop, hasEvents, events, outstanding, leaving>>
        /\ pc[MainThread] = "none"
        /\ \A u \in Threads : pc'[u] = "asleep" => pc[u] = "asleep"
        /\ \/ status' = status
           \/ /\ status = "logged_in" /\ status' = "logout_in_process"
              /\ pc'[MainThread] = "logout"
    BY <1>1, <1>9 DEF LogoutClick, Goto, eventLoop, libspotify
  <2>2. CASE status' = status
    BY <1>1, <2>1, <2>2, QuietStep
  <2>3. CASE status = "logged_in" /\ status' = "logout_in_process" /\ pc'[MainThread] = "logout"
    BY <2>1, <2>3
    DEF IInv, Parts, StatusHasSession, LoginWakesAll, InProcessIsPending, EventsSeen
  <2> QED
    BY <2>1, <2>2, <2>3
<1>10. CASE LogoutCall
  <2>1. /\ UNCHANGED <<status, login, session, loop, hasEvents, events, outstanding>>
        /\ pc[MainThread] = "logout"
        /\ \A u \in Threads : pc'[u] = "asleep" => pc[u] = "asleep"
    BY <1>1, <1>10 DEF LogoutCall, Goto, backend, eventLoop
  <2>2. session = "in" => leaving'
    BY <1>10, Zenon DEF LogoutCall
  <2>3. status = "logout_in_process" => leaving'
    BY <1>1, <2>2 DEF IInv, StatusHasSession
  <2> QED
    BY <1>1, <2>1, <2>3, QuietStep
<1> QED
  BY <1>2, <1>3, <1>4, <1>5, <1>6, <1>7, <1>8, <1>9, <1>10 DEF MainNext

-----------------------------------------------------------------------------
(* The invariant *)

\* Before any login nothing is in process and nothing is queued.
LEMMA InitInv == Init => IInv
<1> SUFFICES ASSUME Init
             PROVE  IInv
  OBVIOUS
<1>1. TypeOK
  <2>1. events \in Seq(Event) /\ Len(events) = 0
    BY EmptySeq DEF Init
  <2>2. MaxEvents \in Nat /\ Stored \subseteq BOOLEAN
    BY LoginAssumption
  <2>3. /\ loggingOut \in BOOLEAN /\ isLoginBad \in BOOLEAN
        /\ hasEvents \in BOOLEAN /\ leaving \in BOOLEAN
    BY DEF Init
  <2>4. /\ status \in LoginStatus /\ login \in Reloggers \cup {Nobody}
        /\ Len(events) <= MaxEvents /\ outstanding \subseteq {"relogin", "login"}
    BY <2>1, <2>2 DEF Init, LoginStatus
  <2>5. pc \in [Threads -> Point] /\ aborting \in [Threads -> BOOLEAN]
    BY DEF Init, Point
  <2>6. remembered \in BOOLEAN
    BY <2>2 DEF Init
  <2> QED
    BY <2>1, <2>3, <2>4, <2>5, <2>6 DEF Init, TypeOK
<1>2. Parts
  BY DEF Init, Parts, StatusHasSession, LoginWakesAll, InProcessIsPending, EventsSeen
<1> QED
  BY <1>1, <1>2 DEF IInv, Parts

\* Every step preserves the invariant.
LEMMA NextInv ==
    ASSUME IInv, [Next]_vars
    PROVE  IInv'
<1>1. TypeOK /\ TypeOK' /\ MainThread \in Threads
  BY TypeStep DEF IInv, Threads
<1>2. Parts'
  <2>1. CASE LibspotifyNext
    BY <2>1, PostStep
  <2>2. CASE EventLoopNext
    BY <2>2, LoopStep, CallbackStep DEF EventLoopNext
  <2>3. CASE AbortPoll \/ (\E t \in Threads : Abort(t)) \/ (\E d \in Decoders : CallRelogin(d))
    <3>1. /\ UNCHANGED <<status, login, session, loop, hasEvents, events, outstanding, leaving>>
          /\ pc[MainThread] # "asleep" => pc'[MainThread] = pc[MainThread]
          /\ \A u \in Threads : pc'[u] = "asleep" => pc[u] = "asleep"
      BY <1>1, <2>3, LoginAssumption
      DEF AbortPoll, Abort, CallRelogin, Woken, Goto, TypeOK, Threads, Reloggers,
          backend, eventLoop, libspotify
    <3> QED
      BY <1>1, <3>1, QuietStep
  <2>4. ASSUME NEW t \in Reloggers, ReloginNext(t)
        PROVE  Parts'
    BY <1>1, <2>4, ReloginStep
  <2>5. CASE MainNext
    BY <1>1, <2>5, MainStep
  <2>6. CASE UNCHANGED vars
    BY <1>1, <2>6, QuietStep DEF vars, backend, calls, eventLoop, libspotify
  <2> QED
    BY <2>1, <2>2, <2>3, <2>4, <2>5, <2>6 DEF Next
<1> QED
  BY <1>1, <1>2 DEF IInv, Parts

\* The invariant holds in every run, whatever the decoder threads and whatever
\* libspotify answers, in whatever order.
THEOREM Invariance == Spec => []IInv
<1>1. Init => IInv
  BY InitInv
<1>2. IInv /\ [Next]_vars => IInv'
  BY NextInv
<1> QED
  BY <1>1, <1>2, PTL DEF Spec

\* Every variable keeps its type; the queue of callbacks keeps its bound.
THEOREM TypeCorrect == Spec => []TypeOK
<1>1. IInv => TypeOK
  BY DEF IInv
<1> QED
  BY <1>1, Invariance, PTL

\* Relogin and LoginWithUI never report success on a session that has ended.
THEOREM LoggedInHasSession == Spec => []LoggedInMeansSession
<1>1. IInv => LoggedInMeansSession
  BY DEF IInv, StatusHasSession, LoggedInMeansSession
<1> QED
  BY <1>1, Invariance, PTL

\* The status is never left in process with nothing under way to settle it.
THEOREM NeverStuckInProcess == Spec => []InProcessIsPending
<1>1. IInv => InProcessIsPending
  BY DEF IInv
<1> QED
  BY <1>1, Invariance, PTL

\* No thread sleeps on loginCv_ while the status is logged in.
THEOREM LoginWakes == Spec => []LoginWakesAll
<1>1. IInv => LoginWakesAll
  BY DEF IInv
<1> QED
  BY <1>1, Invariance, PTL

\* The event loop never sleeps with a callback queued and nobody to wake it.
THEOREM EventsNeverLost == Spec => []NoLostEvent
<1>1. IInv => NoLostEvent
  BY DEF IInv, EventsSeen, NoLostEvent
<1> QED
  BY <1>1, Invariance, PTL

-----------------------------------------------------------------------------
(* Relogin and its mutexes *)

\* Who has loginMutex_ locked is about to call sp_session_relogin, and nobody has
\* touched the status that it put in process.
ReloginOwns ==
    /\ \A t \in Reloggers : login = t <=> pc[t] = "relogin"
    /\ login # Nobody => status = "login_in_process"

\* A dialog that is closed has joined its thread, so that a new one may start.
StatusThreadEnds == ui = "closed" /\ pc[MainThread] # "join" => pc[StatusThread] = "none"

OwnInv == ReloginOwns /\ StatusThreadEnds

LEMMA InitOwns == Init => OwnInv
<1>1. Nobody \notin Reloggers /\ MainThread \in Threads /\ StatusThread \in Threads
      /\ Reloggers \subseteq Threads
  BY LoginAssumption DEF Threads, Reloggers
<1> QED
  BY <1>1 DEF Init, OwnInv, ReloginOwns, StatusThreadEnds

\* A step that leaves the status, the mutex and the dialog's state alone, and
\* brings nobody to the call or away from it.
LEMMA OwnersStay ==
    ASSUME OwnInv, UNCHANGED login, status' = status \/ login = Nobody,
           \A t \in Reloggers : pc'[t] = "relogin" <=> pc[t] = "relogin",
           \/ ui' # "closed"
           \/ pc'[MainThread] = "join"
           \/ pc'[StatusThread] = "none"
    PROVE  OwnInv'
BY DEF OwnInv, ReloginOwns, StatusThreadEnds

\* The threads are different ones.
LEMMA ThreadsDiffer ==
    /\ MainThread \in Threads /\ StatusThread \in Threads /\ StatusThread \in Reloggers
    /\ Reloggers \subseteq Threads /\ Decoders \subseteq Reloggers
    /\ MainThread \notin Reloggers /\ StatusThread \notin Decoders /\ Nobody \notin Reloggers
BY LoginAssumption DEF Threads, Reloggers

LEMMA LibspotifyOwns ==
    ASSUME TypeOK, OwnInv, LibspotifyNext \/ EventLoopNext
    PROVE  OwnInv'
<1>1. CASE LibspotifyNext
  <2>1. UNCHANGED <<backend, calls, dialog>>
    BY <1>1 DEF LibspotifyNext, LoginSucceeds, LoginFails, LogoutEnds, SessionEnds
  <2> QED
    BY <2>1 DEF backend, calls, dialog, OwnInv, ReloginOwns, StatusThreadEnds
<1>2. CASE EventLoopTests \/ EventLoopWakes \/ ProcessEvents \/ EventsProcessed
  <2>1. UNCHANGED <<backend, calls, dialog>>
    BY <1>2 DEF EventLoopTests, EventLoopWakes, ProcessEvents, EventsProcessed
  <2> QED
    BY <2>1 DEF backend, calls, dialog, OwnInv, ReloginOwns, StatusThreadEnds
<1>3. CASE BadLogin \/ LoginError \/ ConnectionLoggedIn \/ ConnectionLoggedOut
  <2>1. UNCHANGED <<login, ui>> /\ login = Nobody
    BY <1>3 DEF BadLogin, LoginError, ConnectionLoggedIn, ConnectionLoggedOut, Callback,
                LoginFree, dialog
  <2>2. pc' = pc \/ pc' = Woken
    BY <1>3 DEF BadLogin, LoginError, ConnectionLoggedIn, ConnectionLoggedOut
  <2>3. \A t \in Threads : pc[t] # "asleep" => pc'[t] = pc[t]
    BY <2>2 DEF Woken
  <2>4. \A t \in Threads : pc'[t] = pc[t] \/ pc'[t] = "wait"
    BY <2>2 DEF Woken
  <2>5. ui' # "closed" \/ pc'[MainThread] = "join" \/ pc'[StatusThread] = "none"
    BY <2>1, <2>3, ThreadsDiffer DEF OwnInv, StatusThreadEnds
  <2>6. \A t \in Reloggers : pc'[t] = "relogin" <=> pc[t] = "relogin"
    BY <2>3, <2>4, ThreadsDiffer
  <2> QED
    BY <2>1, <2>5, <2>6, OwnersStay
<1> QED
  BY <1>1, <1>2, <1>3 DEF EventLoopNext

LEMMA ReloginStepOwns ==
    ASSUME TypeOK, OwnInv, NEW t \in Reloggers, ReloginNext(t)
    PROVE  OwnInv'
<1> USE DEF TypeOK
<1>1. \A p : Goto(t, p) => /\ pc'[t] = p /\ pc'[MainThread] = pc[MainThread]
                           /\ \A u \in Reloggers \ {t} : pc'[u] = pc[u]
  BY ThreadsDiffer DEF Goto
<1>2. /\ UNCHANGED ui
      /\ pc[t] # "none"
      /\ \E p : Goto(t, p)
  BY DEF ReloginNext, ReloginLock, ReloginCall, WaitFallsAsleep, ReloginWaited, WaitEnds,
         ReloginReturns, dialog
<1>3. StatusThreadEnds'
  <2>1. CASE t = StatusThread
    BY <1>1, <1>2, <2>1 DEF OwnInv, StatusThreadEnds
  <2>2. CASE t # StatusThread
    BY <1>1, <1>2, <2>2, ThreadsDiffer DEF OwnInv, StatusThreadEnds
  <2> QED
    BY <2>1, <2>2
<1>4. CASE ReloginLock(t)
  <2>1. login = Nobody
    BY <1>4 DEF ReloginLock, LoginFree
  <2>2. \/ UNCHANGED <<status, login>> /\ (Goto(t, "none") \/ Goto(t, "wait"))
        \/ status' = "login_in_process" /\ login' = t /\ Goto(t, "relogin")
    BY <1>4 DEF ReloginLock, ReloginReturns, backend
  <2>3. \A u \in Reloggers : pc[u] # "relogin"
    BY <2>1, ThreadsDiffer DEF OwnInv, ReloginOwns
  <2>4. ReloginOwns'
    BY <1>1, <2>1, <2>2, <2>3, ThreadsDiffer DEF ReloginOwns
  <2> QED
    BY <1>3, <2>4 DEF OwnInv
<1>5. CASE ReloginCall(t)
  <2>1. login = t /\ login' = Nobody
    BY <1>5 DEF ReloginCall, OwnInv, ReloginOwns
  <2>2. Goto(t, "wait") \/ Goto(t, "none")
    BY <1>5 DEF ReloginCall, ReloginReturns
  <2>3. \A u \in Reloggers \ {t} : pc[u] # "relogin"
    BY <2>1 DEF OwnInv, ReloginOwns
  <2>4. ReloginOwns'
    BY <1>1, <2>1, <2>2, <2>3, ThreadsDiffer DEF ReloginOwns
  <2> QED
    BY <1>3, <2>4 DEF OwnInv
<1>6. CASE WaitFallsAsleep(t) \/ ReloginWaited(t)
  <2>1. /\ UNCHANGED <<status, login>> /\ pc[t] = "wait"
        /\ Goto(t, "asleep") \/ Goto(t, "none")
    BY <1>6 DEF WaitFallsAsleep, ReloginWaited, WaitEnds, ReloginReturns, backend
  <2>2. ReloginOwns'
    BY <1>1, <2>1 DEF OwnInv, ReloginOwns
  <2> QED
    BY <1>3, <2>2 DEF OwnInv
<1> QED
  BY <1>4, <1>5, <1>6 DEF ReloginNext

LEMMA MainStepOwns ==
    ASSUME TypeOK, OwnInv, MainNext
    PROVE  OwnInv'
<1> USE DEF TypeOK
<1>1. \A p : Goto(MainThread, p) => /\ pc'[MainThread] = p
                                    /\ \A u \in Reloggers : pc'[u] = pc[u]
  BY ThreadsDiffer DEF Goto
<1>2. UNCHANGED login
  BY DEF MainNext, OpenPreferences, OnStatusUpdateFinish, OnDestroy, StatusThreadJoined,
         LoginClick, CredentialsCancelled, CredentialsEntered, LoginCall, WaitFallsAsleep,
         LoginWaited, LogoutClick, LogoutCall, LogoutWaited, backend
<1>3. status' = status \/ login = Nobody
  BY DEF MainNext, OpenPreferences, OnStatusUpdateFinish, OnDestroy, StatusThreadJoined,
         LoginClick, CredentialsCancelled, CredentialsEntered, LoginCall, WaitFallsAsleep,
         LoginWaited, LogoutClick, LogoutCall, LogoutWaited, LoginFree, backend
<1>4. CASE OpenPreferences
  <2>1. pc[StatusThread] = "none" /\ Goto(StatusThread, "enter") /\ ui' # "closed"
    BY <1>4 DEF OpenPreferences, OwnInv, StatusThreadEnds
  <2>2. \A u \in Reloggers : pc'[u] = "relogin" <=> pc[u] = "relogin"
    BY <2>1, ThreadsDiffer DEF Goto
  <2> QED
    BY <1>2, <1>3, <2>1, <2>2, OwnersStay
<1>5. CASE OnStatusUpdateFinish
  <2>1. pc' = pc /\ ui' # "closed"
    <3>1. ui' \in {"logged_in", "logged_out"}
      BY <1>5 DEF OnStatusUpdateFinish
    <3> QED
      BY <1>5, <3>1 DEF OnStatusUpdateFinish, calls
  <2> QED
    BY <1>2, <1>3, <2>1, OwnersStay
<1>6. CASE OnDestroy
  BY <1>1, <1>2, <1>3, <1>6, OwnersStay DEF OnDestroy
<1>7. CASE StatusThreadJoined
  <2>1. pc'[StatusThread] = "none"
    BY <1>1, <1>7, ThreadsDiffer DEF StatusThreadJoined
  <2> QED
    BY <1>1, <1>2, <1>3, <1>7, <2>1, OwnersStay DEF StatusThreadJoined
<1>8. CASE CredentialsCancelled
  <2>1. \A t \in Reloggers : /\ pc[t] # "asleep" => pc'[t] = pc[t]
                             /\ pc'[t] = pc[t] \/ pc'[t] = "wait"
    BY <1>8, ThreadsDiffer DEF CredentialsCancelled, Woken
  <2>2. UNCHANGED ui /\ pc[MainThread] # "join"
    BY <1>8 DEF CredentialsCancelled, dialog
  <2> QED
    BY <1>2, <1>3, <2>1, <2>2, ThreadsDiffer, OwnersStay DEF OwnInv, StatusThreadEnds
<1>9. CASE \/ LoginClick \/ CredentialsEntered \/ LoginCall \/ WaitFallsAsleep(MainThread)
           \/ LoginWaited \/ LogoutClick \/ LogoutCall \/ LogoutWaited
  <2>1. \A u \in Reloggers : pc'[u] = pc[u]
    BY <1>1, <1>9
       DEF LoginClick, CredentialsEntered, LoginCall, WaitFallsAsleep, LoginWaited,
           LogoutClick, LogoutCall, LogoutWaited
  <2>2. ui' # "closed" \/ ui' = ui
    BY <1>9
       DEF LoginClick, CredentialsEntered, LoginCall, WaitFallsAsleep, LoginWaited,
           LogoutClick, LogoutCall, LogoutWaited, dialog, StatusOf
  <2>3. pc[MainThread] # "join"
    BY <1>9
       DEF LoginClick, CredentialsEntered, LoginCall, WaitFallsAsleep, LoginWaited, WaitEnds,
           LogoutClick, LogoutCall, LogoutWaited
  <2>4. ui' # "closed" \/ pc'[StatusThread] = "none"
    BY <2>1, <2>2, <2>3, ThreadsDiffer DEF OwnInv, StatusThreadEnds
  <2> QED
    BY <1>2, <1>3, <2>1, <2>4, OwnersStay
<1> QED
  BY <1>4, <1>5, <1>6, <1>7, <1>8, <1>9 DEF MainNext

LEMMA StepOwns ==
    ASSUME TypeOK, OwnInv, [Next]_vars
    PROVE  OwnInv'
<1>1. ASSUME NEW t \in Threads, Abort(t)
      PROVE  OwnInv'
  BY <1>1 DEF Abort, backend, dialog, OwnInv, ReloginOwns, StatusThreadEnds
<1>2. CASE AbortPoll
  <2>1. \A t \in Threads : /\ pc[t] # "asleep" => pc'[t] = pc[t]
                           /\ pc'[t] = pc[t] \/ pc'[t] = "wait"
    BY <1>2 DEF AbortPoll, Woken
  <2>2. UNCHANGED <<status, login, ui>>
    BY <1>2 DEF AbortPoll, backend, dialog
  <2> QED
    BY <2>1, <2>2, ThreadsDiffer, OwnersStay DEF OwnInv, StatusThreadEnds
<1>3. ASSUME NEW d \in Decoders, CallRelogin(d)
      PROVE  OwnInv'
  <2>1. /\ pc[d] = "none" /\ pc'[d] = "enter"
        /\ \A t \in Threads \ {d} : pc'[t] = pc[t]
        /\ UNCHANGED <<status, login, ui>>
    BY <1>3, ThreadsDiffer DEF CallRelogin, Goto, TypeOK, backend, dialog
  <2>2. \A t \in Reloggers : pc'[t] = "relogin" <=> pc[t] = "relogin"
    BY <2>1, ThreadsDiffer
  <2>3. pc'[MainThread] = pc[MainThread] /\ pc'[StatusThread] = pc[StatusThread]
    BY <2>1, ThreadsDiffer
  <2> QED
    BY <2>1, <2>2, <2>3, OwnersStay DEF OwnInv, StatusThreadEnds
<1>4. CASE UNCHANGED vars
  BY <1>4 DEF vars, backend, calls, dialog, OwnInv, ReloginOwns, StatusThreadEnds
<1> QED
  BY <1>1, <1>2, <1>3, <1>4, LibspotifyOwns, ReloginStepOwns, MainStepOwns DEF Next

LEMMA OwnInvariance == Spec => []OwnInv
BY InitOwns, StepOwns, TypeCorrect, PTL DEF Spec

\* From where Relogin puts the status in process until it has called
\* sp_session_relogin, no callback, no other Relogin and no click changes the
\* status: the login that is started is the one the status speaks of.
THEOREM ReloginOwnsLogin == Spec => []ReloginOwns
<1>1. OwnInv => ReloginOwns
  BY DEF OwnInv
<1> QED
  BY <1>1, OwnInvariance, PTL

LEMMA StepDeadlocked ==
    ASSUME TypeOK, [Next]_vars, CircularWait
    PROVE  CircularWait' /\ UNCHANGED backend
<1>1. login # Nobody /\ ~LoginFree /\ ~ApiFree /\ events # <<>> /\ loop = "processing"
  BY DEF CircularWait, LoginFree, ApiFree
<1>2. CASE LibspotifyNext
  <2>1. UNCHANGED <<backend, loop>>
    BY <1>2 DEF LibspotifyNext, LoginSucceeds, LoginFails, LogoutEnds, SessionEnds
  <2>2. PICK es \in Seq(Event) : es # <<>> /\ Post(es)
    BY <1>2, PostedSequences
       DEF LibspotifyNext, LoginSucceeds, LoginFails, LogoutEnds, SessionEnds, Event
  <2>3. events' = events \o es /\ events \in Seq(Event)
    BY <2>2 DEF Post, TypeOK
  <2>4. Len(events') = Len(events) + Len(es) /\ Len(events) > 0 /\ Len(es) \in Nat
        /\ events' \in Seq(Event)
    BY <1>1, <2>3, ConcatProperties, EmptySeq, LenProperties
  <2>5. events' # <<>>
    BY <1>1, <2>3, <2>4, LenProperties, EmptySeq
  <2> QED
    BY <1>1, <2>1, <2>5 DEF CircularWait, backend
<1>3. ~EventLoopNext
  BY <1>1 DEF EventLoopNext, EventLoopTests, EventLoopWakes, ProcessEvents, EventsProcessed,
              BadLogin, LoginError, ConnectionLoggedIn, ConnectionLoggedOut, Callback
<1>4. ASSUME NEW t \in Reloggers
      PROVE  ~ReloginNext(t)
  BY <1>1 DEF ReloginNext, ReloginLock, ReloginCall, WaitFallsAsleep, ReloginWaited, WaitEnds
<1>5. CASE \/ AbortPoll \/ (\E t \in Threads : Abort(t)) \/ (\E d \in Decoders : CallRelogin(d))
           \/ UNCHANGED vars
  BY <1>1, <1>5
     DEF AbortPoll, Abort, CallRelogin, vars, backend, eventLoop, libspotify, CircularWait
<1>6. CASE MainNext
  <2>1. UNCHANGED <<backend, loop, events>>
    BY <1>1, <1>6
       DEF MainNext, OpenPreferences, OnStatusUpdateFinish, OnDestroy, StatusThreadJoined,
           LoginClick, CredentialsCancelled, CredentialsEntered, LoginCall, WaitFallsAsleep,
           LoginWaited, WaitEnds, LogoutClick, LogoutCall, LogoutWaited, eventLoop, libspotify
  <2> QED
    BY <1>1, <2>1 DEF CircularWait, backend
<1> QED
  BY <1>2, <1>3, <1>4, <1>5, <1>6 DEF Next

\* Once Relogin waits for apiMutex_ and a callback for loginMutex_, nothing ends
\* that: no abort, no timeout, no answer of libspotify and nothing the user does;
\* the status and the mutex never change again.
THEOREM DeadlockIsForGood == Spec => [][CircularWait => CircularWait' /\ UNCHANGED backend]_vars
<1>1. TypeOK /\ [Next]_vars => (CircularWait => CircularWait' /\ UNCHANGED backend)
  BY StepDeadlocked
<1> QED
  BY <1>1, TypeCorrect, PTL DEF Spec
=============================================================================
