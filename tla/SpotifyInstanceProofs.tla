------------------------ MODULE SpotifyInstanceProofs ------------------------
(***************************************************************************)
(* Proofs about SpotifyInstance for every set of workers and inputs: the   *)
(* order in which the parts go, and that the abort manager works among     *)
(* them as AbortManagerProofs says.                                        *)
(***************************************************************************)
EXTENDS SpotifyInstance, AbortManagerProofs

\* How far the main thread is tells what is gone, and when the abort manager's
\* thread may end.
GoneSoFar ==
    /\ isFinalized <=> main \notin {"running", "finalize"}
    /\ hasCallbacks => ~isFinalized
    /\ main \in {"libSpotify", "joinLoop", "abortManager", "joinAbort", "threadPool", "stuck",
                 "done"} => "webApi" \notin parts
    /\ main \in {"abortManager", "joinAbort", "threadPool", "done"} => "libSpotify" \notin parts
    /\ main \in {"threadPool", "done"} => "abortManager" \notin parts
    /\ isTimeToDie => main \in {"joinAbort", "threadPool", "done"}
    /\ ~polling => isTimeToDie

PartsOK ==
    /\ parts \subseteq AllParts
    /\ hasCallbacks \in BOOLEAN /\ isFinalized \in BOOLEAN
    /\ main \in {"running", "finalize", "done"} \cup Finalizing
    /\ users \subseteq Inputs
    /\ session \in {"none", "created", "released"}
    /\ loop \in {"none", "testing", "waiting", "processing", "ended"}
    /\ fate \in {"alive", "crashed", "terminated"}

PlacesOK ==
    /\ pc \in [Workers \cup Inputs -> WorkerPoint \cup InputPoint]
    /\ \A w \in Workers : pc[w] \in WorkerPoint
    /\ \A i \in Inputs : pc[i] \in InputPoint

ScopesMatch ==
    \A w \in Workers :
        /\ IsOpen(<<w, "wait">>) <=> pc[w] \in WaitOpen
        /\ IsOpen(<<w, "request">>) <=> pc[w] \in RequestOpen

IInv == AbortTypeOK /\ MapsAgree /\ PartsOK /\ GoneSoFar /\ DependentsOutlived
        /\ PlacesOK /\ ScopesMatch

LEMMA IInvImpliesTypeOK == IInv => TypeOK
BY DEF IInv, TypeOK, PartsOK, PlacesOK, ScopesMatch

\* What InitializeAll and Finalize decide.
PartsInv == PartsOK /\ GoneSoFar /\ DependentsOutlived

LEMMA InitInvariant == Init => IInv
<1> SUFFICES ASSUME Init PROVE IInv
  OBVIOUS
<1>1. AbortTypeOK /\ MapsAgree
  BY InitAgrees DEF Init
<1>2. PartsInv
  BY DEF Init, AbortInit, PartsInv, PartsOK, GoneSoFar, DependentsOutlived
<1>3. PlacesOK
  BY InstanceAssumption DEF Init, PlacesOK, WorkerPoint, InputPoint
<1>4. ScopesMatch
  BY InstanceAssumption DEF Init, AbortInit, ScopesMatch, IsOpen, WaitOpen, RequestOpen
<1> QED
  BY <1>1, <1>2, <1>3, <1>4 DEF IInv, PartsInv

-----------------------------------------------------------------------------
(* The abort manager within the program *)

LEMMA ScopesAreScopes ==
    ASSUME NEW w \in Workers
    PROVE  w \in Callbacks /\ <<w, "wait">> \in Scopes /\ <<w, "request">> \in Scopes
BY InstanceAssumption

\* A worker opens and closes its own scopes.
LEMMA WorkerAborts ==
    ASSUME NEW w \in Workers, WorkerNext(w) \/ TimeOut(w), aborting \subseteq Callbacks
    PROVE  AbortNext \/ UNCHANGED abortVars
<1>0. w \in Callbacks /\ <<w, "wait">> \in Scopes /\ <<w, "request">> \in Scopes
  BY ScopesAreScopes
<1>1. ASSUME NEW s \in Scopes, GetAbortableScope(s, w) \/ RemoveTask(s)
      PROVE  AbortNext
  BY <1>0, <1>1 DEF AbortNext
<1>2. ASSUME NEW cs \in SUBSET Callbacks, SetAborting(cs)
      PROVE  AbortNext
  BY <1>2 DEF AbortNext
<1>3. CASE StartTask(w) \/ TimeOut(w)
  <2>1. aborting \in SUBSET Callbacks /\ aborting \ {w} \in SUBSET Callbacks
        /\ aborting \cup {w} \in SUBSET Callbacks
    BY <1>0
  <2> QED
    BY <1>2, <1>3, <2>1 DEF StartTask, TimeOut
<1>4. CASE \/ GetWebApi_Backend(w) \/ LimiterAborted(w) \/ LimiterWaits(w) \/ LimiterEnds(w)
           \/ StartRequest(w) \/ RequestEnds(w) \/ TooManyRequests(w) \/ StartSleep(w)
           \/ SleepEnds(w)
  BY <1>0, <1>1, <1>4
     DEF GetWebApi_Backend, LimiterAborted, LimiterWaits, LimiterEnds, StartRequest, RequestEnds,
         TooManyRequests, StartSleep, SleepEnds
<1> QED
  BY <1>3, <1>4 DEF WorkerNext

LEMMA StepAborts ==
    ASSUME IInv, [Next]_vars
    PROVE  [AbortNext]_abortVars
<1>t. aborting \subseteq Callbacks
  BY DEF IInv, AbortTypeOK
<1>1. ASSUME NEW w \in Workers, WorkerNext(w) \/ TimeOut(w)
      PROVE  [AbortNext]_abortVars
  BY <1>1, <1>t, WorkerAborts
<1>2. ASSUME NEW i \in Inputs, InputNext(i)
      PROVE  UNCHANGED abortVars
  BY <1>2 DEF InputNext, OpenInput, GetLibSpotify_Backend, RegisterBackendUser, InputOpened,
              CloseInput, UnregisterBackendUser
<1>3. CASE on_playlist_activate \/ LoopNext \/ Crash \/ InitializeTerminates
             \/ UNCHANGED vars
  BY <1>3 DEF on_playlist_activate, LoopNext, LoopTests, LoopWakes, LoopProcessed,
              Crash, InitializeTerminates, vars
<1>4. CASE on_quit \/ Polls
  BY <1>4 DEF on_quit, Polls, AbortNext
<1>5. CASE QuitNext
  <2>1. CASE StopAbortManager
    <3>1. "abortManager" \in parts => polling
      BY <2>1 DEF StopAbortManager, IInv, DependentsOutlived
    <3> QED
      BY <2>1, <3>1 DEF StopAbortManager, AbortNext
  <2>2. CASE ~StopAbortManager
    BY <1>5, <2>2
       DEF QuitNext, Finalize, FinalizeWebApi, StopEventLoopThread, FinalizeUsers,
           FinalizeOpenUser, AbortManagerJoined, ThreadPoolJoined
  <2> QED
    BY <2>1, <2>2
<1> QED
  BY <1>1, <1>2, <1>3, <1>4, <1>5 DEF Next

-----------------------------------------------------------------------------
(* The parts *)

\* Who asks for a part, and what happens to the parts then.
LEMMA CreationKeepsOrder ==
    ASSUME PartsInv, InitializeAll \/ NotInitialized,
           UNCHANGED <<main, fate, isTimeToDie, polling>>, users' \subseteq Inputs
    PROVE  PartsInv'
<1>1. CASE InitializeAll
  BY <1>1 DEF InitializeAll, LibSpotifyCreated, MutexFree, MayInitialize, PartsInv, PartsOK,
              GoneSoFar, DependentsOutlived, AllParts, Finalizing
<1>2. CASE InitializeFails
  BY <1>2 DEF InitializeFails, LibSpotifyCreated, MutexFree, MayInitialize, PartsInv, PartsOK,
              GoneSoFar, DependentsOutlived, AllParts, Finalizing
<1>3. CASE InitializeRefused
  BY <1>3 DEF InitializeRefused, instance, PartsInv, PartsOK, GoneSoFar, DependentsOutlived
<1> QED
  BY <1>1, <1>2, <1>3 DEF NotInitialized

LEMMA OthersKeepOrder ==
    ASSUME PartsInv, UNCHANGED <<instance, main, loop, isTimeToDie, polling>>,
           users' \subseteq Inputs, fate' \in {"alive", "crashed", "terminated"}
    PROVE  PartsInv'
BY DEF instance, PartsInv, PartsOK, GoneSoFar, DependentsOutlived

LEMMA WorkerKeepsOrder ==
    ASSUME PartsInv, NEW w \in Workers, WorkerNext(w) \/ TimeOut(w)
    PROVE  PartsInv'
<1>1. UNCHANGED <<isTimeToDie, polling>>
  BY DEF WorkerNext, TimeOut, StartTask, GetWebApi_Backend, LimiterAborted, LimiterWaits,
         LimiterEnds, StartRequest, RequestEnds, TooManyRequests, StartSleep, SleepEnds,
         SetAborting, RemoveTask, GetAbortableScope, abortVars
<1>2. UNCHANGED <<main, users, fate>>
  BY DEF WorkerNext, TimeOut, StartTask, GetWebApi_Backend, LimiterAborted, LimiterWaits,
         LimiterEnds, StartRequest, RequestEnds, TooManyRequests, StartSleep, SleepEnds
<1>3. InitializeAll \/ NotInitialized \/ UNCHANGED <<instance, loop>>
  BY DEF WorkerNext, TimeOut, StartTask, GetWebApi_Backend, LimiterAborted, LimiterWaits,
         LimiterEnds, StartRequest, RequestEnds, TooManyRequests, StartSleep, SleepEnds
<1>4. users' \subseteq Inputs /\ fate' \in {"alive", "crashed", "terminated"}
  BY <1>2 DEF PartsInv, PartsOK
<1> QED
  BY <1>1, <1>2, <1>3, <1>4, CreationKeepsOrder, OthersKeepOrder

LEMMA InputKeepsOrder ==
    ASSUME PartsInv, NEW i \in Inputs, InputNext(i)
    PROVE  PartsInv'
<1>1. UNCHANGED <<isTimeToDie, polling, main, fate>>
  BY DEF InputNext, OpenInput, GetLibSpotify_Backend, RegisterBackendUser, InputOpened,
         CloseInput, UnregisterBackendUser, abortVars
<1>2. InitializeAll \/ NotInitialized \/ UNCHANGED <<instance, loop>>
  BY DEF InputNext, OpenInput, GetLibSpotify_Backend, RegisterBackendUser, InputOpened,
         CloseInput, UnregisterBackendUser
<1>3. users' \subseteq Inputs
  BY DEF InputNext, OpenInput, GetLibSpotify_Backend, RegisterBackendUser, InputOpened,
         CloseInput, UnregisterBackendUser, PartsInv, PartsOK
<1>4. fate' \in {"alive", "crashed", "terminated"}
  BY <1>1 DEF PartsInv, PartsOK
<1> QED
  BY <1>1, <1>2, <1>3, <1>4, CreationKeepsOrder, OthersKeepOrder

\* Finalize, one part after another.
LEMMA QuitKeepsOrder ==
    ASSUME PartsInv, on_quit \/ QuitNext
    PROVE  PartsInv'
<1> USE DEF PartsInv, PartsOK, GoneSoFar, DependentsOutlived, AllParts, Finalizing
<1>1. CASE on_quit
  BY <1>1 DEF on_quit, SetAborting, instance
<1>2. CASE Finalize
  BY <1>2 DEF Finalize, abortVars
<1>3. CASE FinalizeWebApi
  BY <1>3 DEF FinalizeWebApi, abortVars
<1>4. CASE StopEventLoopThread
  BY <1>4 DEF StopEventLoopThread, LoopNotified, abortVars, instance
<1>5. CASE FinalizeUsers
  BY <1>5 DEF FinalizeUsers, abortVars
<1>6. CASE FinalizeOpenUser
  BY <1>6 DEF FinalizeOpenUser, abortVars
<1>7. CASE StopAbortManager
  BY <1>7 DEF StopAbortManager, StopThread, abortVars, instance
<1>8. CASE AbortManagerJoined
  BY <1>8 DEF AbortManagerJoined, abortVars
<1>9. CASE ThreadPoolJoined
  BY <1>9 DEF ThreadPoolJoined, abortVars
<1> QED
  BY <1>1, <1>2, <1>3, <1>4, <1>5, <1>6, <1>7, <1>8, <1>9 DEF QuitNext

\* The two threads that the main thread joins.
LEMMA ThreadsKeepOrder ==
    ASSUME PartsInv, LoopNext \/ Polls
    PROVE  PartsInv'
<1>1. CASE LoopNext
  BY <1>1 DEF LoopNext, LoopTests, LoopWakes, LoopProcessed, abortVars, instance,
              PartsInv, PartsOK, GoneSoFar, DependentsOutlived
<1>2. CASE Polls
  BY <1>2 DEF Polls, Poll, LastPoll, instance, PartsInv, PartsOK, GoneSoFar, DependentsOutlived
<1> QED
  BY <1>1, <1>2

LEMMA StepKeepsOrder ==
    ASSUME PartsInv, [Next]_vars
    PROVE  PartsInv'
<1>1. CASE on_playlist_activate
  <2>1. UNCHANGED <<main, users, fate, isTimeToDie, polling>>
    BY <1>1 DEF on_playlist_activate, abortVars
  <2>2. InitializeAll \/ NotInitialized
    BY <1>1 DEF on_playlist_activate
  <2>3. users' \subseteq Inputs
    BY <2>1 DEF PartsInv, PartsOK
  <2> QED
    BY <2>1, <2>2, <2>3, CreationKeepsOrder
<1>2. CASE Crash \/ InitializeTerminates \/ UNCHANGED vars
  BY <1>2, OthersKeepOrder DEF Crash, InitializeTerminates, vars, abortVars, PartsInv, PartsOK
<1> QED
  BY <1>1, <1>2, WorkerKeepsOrder, InputKeepsOrder, QuitKeepsOrder, ThreadsKeepOrder DEF Next

-----------------------------------------------------------------------------
(* Where the threads are *)

LEMMA OpeningOpens ==
    ASSUME AbortTypeOK, NEW s \in Scopes, NEW c \in Callbacks, GetAbortableScope(s, c)
    PROVE  \A t \in Scopes : IsOpen(t)' <=> IsOpen(t) \/ t = s
<1>1. PICK id \in idCounter .. idCounter + Cardinality(DOMAIN idToTask) :
        taskId' = [taskId EXCEPT ![s] = id]
  BY DEF GetAbortableScope
<1>2. id # NoId
  BY <1>1, AbortAssumption DEF AbortTypeOK
<1> QED
  BY <1>1, <1>2 DEF IsOpen, AbortTypeOK

LEMMA ClosingCloses ==
    ASSUME AbortTypeOK, NEW s \in Scopes, RemoveTask(s)
    PROVE  \A t \in Scopes : IsOpen(t)' <=> IsOpen(t) /\ t # s
BY DEF RemoveTask, IsOpen, AbortTypeOK

\* A worker goes on, and its scopes are those of where it is.
LEMMA WorkerGoes ==
    ASSUME PlacesOK, ScopesMatch, NEW w \in Workers, NEW p \in WorkerPoint, Goto(w, p),
           IsOpen(<<w, "wait">>)' <=> p \in WaitOpen,
           IsOpen(<<w, "request">>)' <=> p \in RequestOpen,
           \A v \in Workers \ {w} : /\ IsOpen(<<v, "wait">>)' <=> IsOpen(<<v, "wait">>)
                                    /\ IsOpen(<<v, "request">>)' <=> IsOpen(<<v, "request">>)
    PROVE  PlacesOK' /\ ScopesMatch'
<1>1. \A v \in Workers \cup Inputs : pc'[v] = IF v = w THEN p ELSE pc[v]
  BY DEF Goto, PlacesOK
<1>2. PlacesOK'
  BY <1>1, InstanceAssumption DEF Goto, PlacesOK
<1>3. ScopesMatch'
  BY <1>1 DEF ScopesMatch
<1> QED
  BY <1>2, <1>3

LEMMA WorkerPlaces ==
    ASSUME AbortTypeOK, PlacesOK, ScopesMatch, NEW w \in Workers, WorkerNext(w) \/ TimeOut(w)
    PROVE  PlacesOK' /\ ScopesMatch'
<1>0. /\ w \in Callbacks
      /\ \A v \in Workers : <<v, "wait">> \in Scopes /\ <<v, "request">> \in Scopes
  BY InstanceAssumption
<1>m. /\ IsOpen(<<w, "wait">>) <=> pc[w] \in WaitOpen
      /\ IsOpen(<<w, "request">>) <=> pc[w] \in RequestOpen
  BY DEF ScopesMatch
\* The step leaves the scopes alone, opens one or closes one.
<1>k. ASSUME NEW p \in WorkerPoint, Goto(w, p), UNCHANGED taskId,
             pc[w] \in WaitOpen <=> p \in WaitOpen, pc[w] \in RequestOpen <=> p \in RequestOpen
      PROVE  PlacesOK' /\ ScopesMatch'
  <2>1. \A s : IsOpen(s)' <=> IsOpen(s)
    BY <1>k DEF IsOpen
  <2> QED
    BY <1>k, <1>m, <2>1, WorkerGoes
<1>o. ASSUME NEW k \in {"wait", "request"}, NEW p \in WorkerPoint, Goto(w, p),
             GetAbortableScope(<<w, k>>, w),
             p \in WaitOpen <=> pc[w] \in WaitOpen \/ k = "wait",
             p \in RequestOpen <=> pc[w] \in RequestOpen \/ k = "request"
      PROVE  PlacesOK' /\ ScopesMatch'
  <2>1. <<w, k>> \in Scopes
    BY <1>0
  <2>2. \A t \in Scopes : IsOpen(t)' <=> IsOpen(t) \/ t = <<w, k>>
    BY <1>0, <1>o, <2>1, OpeningOpens
  <2>3. /\ IsOpen(<<w, "wait">>)' <=> p \in WaitOpen
        /\ IsOpen(<<w, "request">>)' <=> p \in RequestOpen
    BY <1>0, <1>m, <1>o, <2>2
  <2>4. \A v \in Workers \ {w} : /\ IsOpen(<<v, "wait">>)' <=> IsOpen(<<v, "wait">>)
                                 /\ IsOpen(<<v, "request">>)' <=> IsOpen(<<v, "request">>)
    BY <1>0, <2>2
  <2> QED
    BY <1>o, <2>3, <2>4, WorkerGoes
<1>c. ASSUME NEW k \in {"wait", "request"}, NEW p \in WorkerPoint, Goto(w, p),
             RemoveTask(<<w, k>>),
             p \in WaitOpen <=> pc[w] \in WaitOpen /\ k # "wait",
             p \in RequestOpen <=> pc[w] \in RequestOpen /\ k # "request"
      PROVE  PlacesOK' /\ ScopesMatch'
  <2>1. <<w, k>> \in Scopes
    BY <1>0
  <2>2. \A t \in Scopes : IsOpen(t)' <=> IsOpen(t) /\ t # <<w, k>>
    BY <1>c, <2>1, ClosingCloses
  <2>3. /\ IsOpen(<<w, "wait">>)' <=> p \in WaitOpen
        /\ IsOpen(<<w, "request">>)' <=> p \in RequestOpen
    BY <1>0, <1>m, <1>c, <2>2
  <2>4. \A v \in Workers \ {w} : /\ IsOpen(<<v, "wait">>)' <=> IsOpen(<<v, "wait">>)
                                 /\ IsOpen(<<v, "request">>)' <=> IsOpen(<<v, "request">>)
    BY <1>0, <2>2
  <2> QED
    BY <1>c, <2>3, <2>4, WorkerGoes
<1> USE DEF WorkerPoint, WaitOpen, RequestOpen
<1>1. CASE StartTask(w)
  BY <1>1, <1>k DEF StartTask, SetAborting, maps
<1>2. CASE TimeOut(w)
  BY <1>2 DEF TimeOut, SetAborting, maps, PlacesOK, ScopesMatch, IsOpen
<1>3. CASE GetWebApi_Backend(w)
  BY <1>3, <1>k DEF GetWebApi_Backend, abortVars, maps
<1>4. CASE LimiterAborted(w)
  BY <1>4, <1>k DEF LimiterAborted, abortVars, maps
<1>5. CASE LimiterWaits(w)
  BY <1>5, <1>k, <1>o DEF LimiterWaits, abortVars, maps
<1>6. CASE LimiterEnds(w)
  BY <1>6, <1>c DEF LimiterEnds
<1>7. CASE StartRequest(w)
  BY <1>7, <1>o DEF StartRequest
<1>8. CASE RequestEnds(w)
  BY <1>8, <1>c DEF RequestEnds
<1>9. CASE TooManyRequests(w)
  BY <1>9, <1>k DEF TooManyRequests, abortVars, maps
<1>10. CASE StartSleep(w)
  BY <1>10, <1>o, <1>c DEF StartSleep
<1>11. CASE SleepEnds(w)
  BY <1>11, <1>c DEF SleepEnds
<1> QED
  BY <1>1, <1>2, <1>3, <1>4, <1>5, <1>6, <1>7, <1>8, <1>9, <1>10, <1>11 DEF WorkerNext

\* Inputs have no scopes; Finalize may move one.
LEMMA InputPlaces ==
    ASSUME PlacesOK, ScopesMatch, UNCHANGED taskId,
           \/ UNCHANGED pc
           \/ \E i \in Inputs : \E p \in InputPoint : Goto(i, p)
    PROVE  PlacesOK' /\ ScopesMatch'
<1>1. \A w \in Workers : pc'[w] = pc[w]
  BY InstanceAssumption DEF Goto, PlacesOK
<1>2. ScopesMatch'
  BY <1>1 DEF ScopesMatch, IsOpen
<1>3. PlacesOK'
  <2>1. CASE UNCHANGED pc
    BY <2>1 DEF PlacesOK
  <2>2. ASSUME NEW i \in Inputs, NEW p \in InputPoint, Goto(i, p)
        PROVE  PlacesOK'
    <3>1. pc' \in [Workers \cup Inputs -> WorkerPoint \cup InputPoint]
      BY <2>2 DEF Goto, PlacesOK
    <3>2. \A j \in Inputs : pc'[j] = IF j = i THEN p ELSE pc[j]
      BY <2>2 DEF Goto, PlacesOK
    <3> QED
      BY <1>1, <3>1, <3>2 DEF PlacesOK
  <2> QED
    BY <2>1, <2>2
<1> QED
  BY <1>2, <1>3

LEMMA StepPlaces ==
    ASSUME AbortTypeOK, PartsOK, PlacesOK, ScopesMatch, [Next]_vars
    PROVE  PlacesOK' /\ ScopesMatch'
<1>1. ASSUME NEW w \in Workers, WorkerNext(w) \/ TimeOut(w)
      PROVE  PlacesOK' /\ ScopesMatch'
  BY <1>1, WorkerPlaces
<1>2. ASSUME NEW i \in Inputs, InputNext(i)
      PROVE  PlacesOK' /\ ScopesMatch'
  <2>1. UNCHANGED taskId
    BY <1>2 DEF InputNext, OpenInput, GetLibSpotify_Backend, RegisterBackendUser, InputOpened,
                CloseInput, UnregisterBackendUser, abortVars, maps
  <2>2. \E p \in InputPoint : Goto(i, p)
    BY <1>2 DEF InputNext, OpenInput, GetLibSpotify_Backend, RegisterBackendUser, InputOpened,
                CloseInput, UnregisterBackendUser, InputPoint
  <2> QED
    BY <2>1, <2>2, InputPlaces
<1>3. CASE FinalizeOpenUser
  <2>1. \E i \in Inputs : Goto(i, "finalized")
    BY <1>3 DEF FinalizeOpenUser, PartsOK
  <2> QED
    BY <1>3, <2>1, InputPlaces DEF FinalizeOpenUser, abortVars, maps, InputPoint
<1>4. CASE on_playlist_activate \/ on_quit \/ Polls \/ LoopNext \/ Crash \/ InitializeTerminates
             \/ UNCHANGED vars
  BY <1>4, InputPlaces
     DEF on_playlist_activate, on_quit, Polls, Poll, LastPoll, LoopNext, LoopTests, LoopWakes,
         LoopProcessed, Crash, InitializeTerminates, SetAborting, vars, abortVars, maps
<1>5. CASE QuitNext /\ ~FinalizeOpenUser
  BY <1>5, InputPlaces
     DEF QuitNext, Finalize, FinalizeWebApi, StopEventLoopThread, FinalizeUsers,
         StopAbortManager, StopThread, AbortManagerJoined, ThreadPoolJoined, abortVars, maps
<1> QED
  BY <1>1, <1>2, <1>3, <1>4, <1>5 DEF Next

-----------------------------------------------------------------------------
(* The theorems *)

LEMMA NextInvariant == IInv /\ [Next]_vars => IInv'
<1> SUFFICES ASSUME IInv, [Next]_vars PROVE IInv'
  OBVIOUS
<1>1. AbortTypeOK' /\ MapsAgree'
  BY StepAborts, NextAgrees DEF IInv
<1>2. PartsInv'
  BY StepKeepsOrder DEF IInv, PartsInv
<1>3. PlacesOK' /\ ScopesMatch'
  BY StepPlaces DEF IInv
<1> QED
  BY <1>1, <1>2, <1>3 DEF IInv, PartsInv

\* The invariant all others follow from.
THEOREM Invariance == Spec => []IInv
BY InitInvariant, NextInvariant, PTL DEF Spec

\* Each worker has exactly the scopes open that belong to where it is.
THEOREM TypeCorrect == Spec => []TypeOK
BY Invariance, IInvImpliesTypeOK, PTL

\* Through creation, failed creation, refusal and shutdown no part is without one
\* it refers to.
THEOREM NoneOutlivesItsNeeds == Spec => []DependentsOutlived
BY Invariance, PTL DEF IInv

\* The workers' scopes keep the abort manager's maps in agreement.
THEOREM MapsAgreeInProgram == Spec => []MapsAgree
BY Invariance, PTL DEF IInv

LEMMA StepFinalizes ==
    ASSUME IInv, [Next]_vars
    PROVE  isFinalized => isFinalized' /\ parts' \subseteq parts /\ ~hasCallbacks'
<1> SUFFICES ASSUME isFinalized
             PROVE  isFinalized' /\ parts' \subseteq parts /\ ~hasCallbacks'
  OBVIOUS
<1>1. ~hasCallbacks
  BY DEF IInv, GoneSoFar
<1>2. ~InitializeAll /\ ~InitializeFails
  BY DEF InitializeAll, InitializeFails, MayInitialize
<1>3. InitializeRefused => UNCHANGED instance
  BY DEF InitializeRefused
<1>4. \/ UNCHANGED instance
      \/ QuitNext
  BY <1>2, <1>3
     DEF Next, vars, on_playlist_activate, on_quit, Polls, LoopNext, LoopTests, LoopWakes,
         LoopProcessed, Crash, InitializeTerminates, WorkerNext, TimeOut, StartTask,
         GetWebApi_Backend, LimiterAborted, LimiterWaits, LimiterEnds, StartRequest, RequestEnds,
         TooManyRequests, StartSleep, SleepEnds, InputNext, OpenInput, GetLibSpotify_Backend,
         RegisterBackendUser, InputOpened, CloseInput, UnregisterBackendUser, NotInitialized
<1>5. CASE UNCHANGED instance
  BY <1>1, <1>5 DEF instance
<1>6. CASE QuitNext
  <2>1. isFinalized' /\ parts' \subseteq parts
    BY <1>6
       DEF QuitNext, Finalize, FinalizeWebApi, StopEventLoopThread, FinalizeUsers,
           FinalizeOpenUser, StopAbortManager, AbortManagerJoined, ThreadPoolJoined, instance
  <2>2. ~hasCallbacks'
    BY <1>1, <1>6
       DEF QuitNext, Finalize, FinalizeWebApi, StopEventLoopThread, FinalizeUsers,
           FinalizeOpenUser, StopAbortManager, AbortManagerJoined, ThreadPoolJoined, instance
  <2> QED
    BY <2>1, <2>2
<1> QED
  BY <1>4, <1>5, <1>6

\* Whoever asks after Finalize is refused.
THEOREM NeverInitializedAgain == Spec => FinalizedForGood
BY Invariance, StepFinalizes, PTL DEF Spec, FinalizedForGood

\* What the program does with the abort manager is what AbortManager allows, and
\* so the program gets what AbortService promises, to the end of the shutdown.
THEOREM ProgramGetsService == Spec => ImplementsService
<1>1. Init => AbortInit
  BY DEF Init
<1>2. Spec => AbortSpec
  BY <1>1, Invariance, StepAborts, PTL DEF Spec, AbortSpec
<1> QED
  BY <1>2, Refinement

-----------------------------------------------------------------------------
(* Waiting for each other *)

\* Tasks run in the pool, and it goes only when they have ended.
TasksInPool == \A w \in Workers : pc[w] # "idle" => "threadPool" \in parts

\* Until Finalize begins nothing goes.
PartsStay ==
    /\ ~isFinalized =>
         /\ \A w \in Workers : pc[w] \in InsideRequest => {"webApi", "abortManager"} \subseteq parts
         /\ \A i \in Inputs : pc[i] \in UsesBackend => "libSpotify" \in parts
    /\ fate = "crashed" => isFinalized

\* Who goes on, and where to.
LEMMA StepGoes ==
    ASSUME IInv, [Next]_vars, NEW w \in Workers, pc'[w] # pc[w]
    PROVE  /\ WorkerNext(w)
           /\ UNCHANGED <<main, fate>>
           /\ MutexFree \/ (UNCHANGED instance /\ pc[w] \notin {"backend", "sleep"})
<1>0. pc \in [Workers \cup Inputs -> WorkerPoint \cup InputPoint] /\ w \notin Inputs
  BY InstanceAssumption DEF IInv, PlacesOK
<1>1. ASSUME NEW v \in Workers, WorkerNext(v) \/ TimeOut(v)
      PROVE  WorkerNext(w)
  <2>1. v = w
    BY <1>0, <1>1
       DEF WorkerNext, TimeOut, StartTask, GetWebApi_Backend, LimiterAborted, LimiterWaits,
           LimiterEnds, StartRequest, RequestEnds, TooManyRequests, StartSleep, SleepEnds, Goto
  <2>2. ~TimeOut(w)
    BY DEF TimeOut
  <2> QED
    BY <1>1, <2>1, <2>2
<1>2. ASSUME NEW i \in Inputs, InputNext(i)
      PROVE  FALSE
  BY <1>0, <1>2
     DEF InputNext, OpenInput, GetLibSpotify_Backend, RegisterBackendUser, InputOpened,
         CloseInput, UnregisterBackendUser, Goto
<1>3. ~FinalizeOpenUser
  BY <1>0 DEF FinalizeOpenUser, Goto, IInv, PartsOK
<1>4. WorkerNext(w)
  <2>1. CASE on_playlist_activate \/ on_quit \/ Polls \/ LoopNext \/ Crash \/ InitializeTerminates
             \/ UNCHANGED vars
    BY <2>1 DEF on_playlist_activate, on_quit, Polls, LoopNext, LoopTests, LoopWakes,
                LoopProcessed, Crash, InitializeTerminates, vars
  <2>2. CASE QuitNext
    BY <1>3, <2>2 DEF QuitNext, Finalize, FinalizeWebApi, StopEventLoopThread, FinalizeUsers,
                      StopAbortManager, AbortManagerJoined, ThreadPoolJoined
  <2> QED
    BY <1>1, <1>2, <2>1, <2>2 DEF Next
<1>5. UNCHANGED <<main, fate>>
  BY <1>4
     DEF WorkerNext, StartTask, GetWebApi_Backend, LimiterAborted, LimiterWaits,
         LimiterEnds, StartRequest, RequestEnds, TooManyRequests, StartSleep, SleepEnds
<1>6. MutexFree \/ (UNCHANGED instance /\ pc[w] \notin {"backend", "sleep"})
  <2>1. InitializeAll \/ NotInitialized => MutexFree
    BY DEF InitializeAll, NotInitialized, InitializeFails, InitializeRefused
  <2>2. GetWebApi_Backend(w) \/ LimiterWaits(w) \/ StartSleep(w) => InitializeAll \/ NotInitialized
    BY DEF GetWebApi_Backend, LimiterWaits, StartSleep
  <2>3. ASSUME \/ StartTask(w) \/ LimiterAborted(w) \/ LimiterEnds(w) \/ StartRequest(w)
               \/ RequestEnds(w) \/ TooManyRequests(w) \/ SleepEnds(w)
        PROVE  UNCHANGED instance /\ pc[w] \notin {"backend", "sleep"}
    BY <2>3 DEF StartTask, LimiterAborted, LimiterEnds, StartRequest,
                RequestEnds, TooManyRequests, SleepEnds
  <2> QED
    BY <1>4, <2>1, <2>2, <2>3 DEF WorkerNext
<1> QED
  BY <1>4, <1>5, <1>6

\* Parts go only in Finalize, and the pool last, when its tasks have ended.
LEMMA StepParts ==
    ASSUME IInv, [Next]_vars
    PROVE  /\ parts \subseteq parts' \/ QuitNext
           /\ isFinalized => isFinalized'
           /\ "threadPool" \in parts /\ "threadPool" \notin parts' => ThreadPoolJoined
<1>1. InitializeAll \/ NotInitialized => parts \subseteq parts' /\ UNCHANGED isFinalized
  BY DEF InitializeAll, NotInitialized, InitializeFails, InitializeRefused, instance,
         IInv, PartsOK
<1>2. \/ InitializeAll \/ NotInitialized
      \/ UNCHANGED instance
      \/ QuitNext
  BY DEF Next, vars, on_playlist_activate, on_quit, Polls, LoopNext, LoopTests, LoopWakes,
         LoopProcessed, Crash, InitializeTerminates, WorkerNext, TimeOut, StartTask,
         GetWebApi_Backend, LimiterAborted, LimiterWaits, LimiterEnds, StartRequest, RequestEnds,
         TooManyRequests, StartSleep, SleepEnds, InputNext, OpenInput, GetLibSpotify_Backend,
         RegisterBackendUser, InputOpened, CloseInput, UnregisterBackendUser
<1>3. QuitNext => /\ isFinalized => isFinalized'
                  /\ "threadPool" \in parts /\ "threadPool" \notin parts' => ThreadPoolJoined
  BY DEF QuitNext, Finalize, FinalizeWebApi, StopEventLoopThread, FinalizeUsers,
         FinalizeOpenUser, StopAbortManager, AbortManagerJoined, ThreadPoolJoined, instance
<1>4. UNCHANGED instance => parts' = parts /\ isFinalized' = isFinalized
  BY DEF instance
<1> QED
  BY <1>1, <1>2, <1>3, <1>4

LEMMA StepInPool ==
    ASSUME IInv, TasksInPool, [Next]_vars
    PROVE  TasksInPool'
<1> SUFFICES ASSUME NEW w \in Workers, pc'[w] # "idle"
             PROVE  "threadPool" \in parts'
  BY DEF TasksInPool
<1>1. CASE ThreadPoolJoined
  <2>1. pc'[w] = pc[w]
    BY <1>1 DEF ThreadPoolJoined
  <2> QED
    BY <1>1, <2>1 DEF ThreadPoolJoined, TasksInPool
<1>2. CASE ~ThreadPoolJoined
  <2>1. "threadPool" \in parts
    <3>1. CASE pc[w] # "idle"
      BY <3>1 DEF TasksInPool
    <3>2. CASE pc[w] = "idle"
      BY <3>2, StepGoes
         DEF WorkerNext, StartTask, GetWebApi_Backend, LimiterAborted, LimiterWaits,
             LimiterEnds, StartRequest, RequestEnds, TooManyRequests, StartSleep, SleepEnds
    <3> QED
      BY <3>1, <3>2
  <2> QED
    BY <1>2, <2>1, StepParts
<1> QED
  BY <1>1, <1>2

LEMMA StepWaits ==
    ASSUME IInv, TasksInPool, [Next]_vars, CircularWait
    PROVE  CircularWait'
<1>1. PICK w \in Workers : pc[w] \in {"backend", "sleep"}
  BY DEF CircularWait
<1>2. main = "threadPool" /\ "threadPool" \in parts /\ ~MutexFree
  BY <1>1 DEF CircularWait, TasksInPool, MutexFree, Finalizing
<1>3. pc'[w] = pc[w]
  BY <1>1, <1>2, StepGoes
<1>4. main' = main
  <2>1. ~QuitNext
    BY <1>1, <1>2
       DEF QuitNext, Finalize, FinalizeWebApi, StopEventLoopThread, FinalizeUsers,
           FinalizeOpenUser, StopAbortManager, AbortManagerJoined, ThreadPoolJoined
  <2>2. ~on_quit
    BY <1>2 DEF on_quit
  <2> QED
    BY <2>1, <2>2
       DEF Next, vars, on_playlist_activate, Polls, LoopNext, LoopTests, LoopWakes, LoopProcessed,
           Crash, InitializeTerminates, WorkerNext, TimeOut, StartTask, GetWebApi_Backend,
           LimiterAborted, LimiterWaits, LimiterEnds, StartRequest, RequestEnds, TooManyRequests,
           StartSleep, SleepEnds, InputNext, OpenInput, GetLibSpotify_Backend,
           RegisterBackendUser, InputOpened, CloseInput, UnregisterBackendUser
<1> QED
  BY <1>1, <1>2, <1>3, <1>4 DEF CircularWait

LEMMA InitWaits == Init => TasksInPool /\ PartsStay
BY InstanceAssumption DEF Init, TasksInPool, PartsStay, InsideRequest, UsesBackend

\* A task that asks for a part while Finalize joins the pool never gets it, and
\* the program never quits: neither a timeout nor an abort nor any other thread
\* ends that wait.
THEOREM WaitIsForGood == Spec => [][CircularWait => CircularWait']_vars
<1>1. Spec => []TasksInPool
  BY InitWaits, StepInPool, Invariance, PTL DEF Spec
<1> QED
  BY <1>1, StepWaits, Invariance, PTL DEF Spec

-----------------------------------------------------------------------------
(* Parts that are gone *)

LEMMA CrashFinalized ==
    ASSUME IInv, PartsStay, [Next]_vars
    PROVE  fate' = "crashed" => isFinalized'
<1>1. CASE Crash
  <2>1. isFinalized
    BY <1>1 DEF Crash, PartsStay
  <2> QED
    BY <1>1, <2>1 DEF Crash, instance
<1>2. CASE ~Crash
  <2>1. (fate = "crashed")' <=> fate = "crashed"
    BY <1>2
       DEF Next, vars, on_playlist_activate, on_quit, QuitNext, Finalize, FinalizeWebApi,
           StopEventLoopThread, FinalizeUsers, FinalizeOpenUser, StopAbortManager,
           AbortManagerJoined, ThreadPoolJoined, Polls, LoopNext, LoopTests, LoopWakes,
           LoopProcessed, InitializeTerminates, WorkerNext, TimeOut, StartTask, GetWebApi_Backend,
           LimiterAborted, LimiterWaits, LimiterEnds, StartRequest, RequestEnds, TooManyRequests,
           StartSleep, SleepEnds, InputNext, OpenInput, GetLibSpotify_Backend,
           RegisterBackendUser, InputOpened, CloseInput, UnregisterBackendUser
  <2> QED
    BY <2>1, StepParts DEF PartsStay
<1> QED
  BY <1>1, <1>2

\* Before Finalize the parts only grow, and who enters one has created it.
LEMMA StepKeepsParts ==
    ASSUME IInv, PartsStay, [Next]_vars
    PROVE  PartsStay'
<1> SUFFICES ASSUME ~isFinalized'
             PROVE  /\ \A w \in Workers : pc'[w] \in InsideRequest =>
                         {"webApi", "abortManager"} \subseteq parts'
                    /\ \A i \in Inputs : pc'[i] \in UsesBackend => "libSpotify" \in parts'
  BY CrashFinalized DEF PartsStay
<1>1. ~isFinalized
  BY StepParts
<1>2. parts \subseteq parts'
  <2>1. main \in {"running", "finalize"} /\ main' \in {"running", "finalize"}
    BY <1>1, NextInvariant DEF IInv, GoneSoFar
  <2>2. ~QuitNext
    BY <2>1 DEF QuitNext, Finalize, FinalizeWebApi, StopEventLoopThread, FinalizeUsers,
           FinalizeOpenUser, StopAbortManager, AbortManagerJoined, ThreadPoolJoined
  <2> QED
    BY <2>2, StepParts
<1>3. InitializeAll => parts' = AllParts
  BY DEF InitializeAll
<1>4. ASSUME NEW w \in Workers, pc'[w] \in InsideRequest
      PROVE  {"webApi", "abortManager"} \subseteq parts'
  <2>1. CASE pc[w] \in InsideRequest
    BY <1>1, <1>2, <2>1 DEF PartsStay
  <2>2. CASE pc[w] \notin InsideRequest
    <3>1. WorkerNext(w) /\ pc[w] \in {"idle", "backend"}
      BY <1>4, <2>2, StepGoes DEF IInv, PlacesOK, InsideRequest
    <3>2. pc \in [Workers \cup Inputs -> WorkerPoint \cup InputPoint]
      BY DEF IInv, PlacesOK
    <3>3. InitializeAll
      BY <1>4, <3>1, <3>2
         DEF WorkerNext, StartTask, GetWebApi_Backend, LimiterAborted, LimiterWaits,
             LimiterEnds, StartRequest, RequestEnds, TooManyRequests, StartSleep, SleepEnds,
             Goto, InsideRequest
    <3> QED
      BY <1>3, <3>3 DEF AllParts
  <2> QED
    BY <2>1, <2>2
<1>5. ASSUME NEW i \in Inputs, pc'[i] \in UsesBackend, pc[i] \notin UsesBackend
      PROVE  InitializeAll
  <2>0. pc \in [Workers \cup Inputs -> WorkerPoint \cup InputPoint] /\ i \notin Workers
    BY InstanceAssumption DEF IInv, PlacesOK
  <2>1. ASSUME NEW w \in Workers, WorkerNext(w) \/ TimeOut(w)
        PROVE  FALSE
    BY <1>5, <2>0, <2>1
       DEF WorkerNext, TimeOut, StartTask, GetWebApi_Backend, LimiterAborted, LimiterWaits,
           LimiterEnds, StartRequest, RequestEnds, TooManyRequests, StartSleep, SleepEnds, Goto
  <2>2. ASSUME NEW j \in Inputs, InputNext(j)
        PROVE  InitializeAll
    BY <1>5, <2>0, <2>2
       DEF InputNext, OpenInput, GetLibSpotify_Backend, RegisterBackendUser, InputOpened,
           CloseInput, UnregisterBackendUser, Goto, UsesBackend
  <2>3. ~QuitNext
    BY <1>5, <2>0
       DEF QuitNext, Finalize, FinalizeWebApi, StopEventLoopThread, FinalizeUsers,
           FinalizeOpenUser, StopAbortManager, AbortManagerJoined, ThreadPoolJoined, Goto,
           UsesBackend
  <2> QED
    BY <1>5, <2>1, <2>2, <2>3
       DEF Next, vars, on_playlist_activate, on_quit, Polls, LoopNext, LoopTests, LoopWakes,
           LoopProcessed, Crash, InitializeTerminates
<1>6. ASSUME NEW i \in Inputs, pc'[i] \in UsesBackend
      PROVE  "libSpotify" \in parts'
  <2>1. CASE pc[i] \in UsesBackend
    BY <1>1, <1>2, <2>1 DEF PartsStay
  <2>2. CASE pc[i] \notin UsesBackend
    BY <1>3, <1>5, <1>6, <2>2 DEF AllParts
  <2> QED
    BY <2>1, <2>2
<1> QED
  BY <1>4, <1>6

\* As long as Finalize has not begun no thread has a reference to a part that is
\* gone, however often creating the parts fails and whoever asks for them.
THEOREM TouchedOnlyAtQuit == Spec => [](fate = "crashed" => isFinalized)
<1>1. Spec => []PartsStay
  BY InitWaits, StepKeepsParts, Invariance, PTL DEF Spec
<1>2. PartsStay => (fate = "crashed" => isFinalized)
  BY DEF PartsStay
<1> QED
  BY <1>1, <1>2, PTL
=============================================================================
