-------------------------- MODULE AbortManagerProofs --------------------------
(***************************************************************************)
(* Proofs about AbortManager for every set of scopes and callbacks: its    *)
(* maps agree, and it does what AbortService promises.                     *)
(***************************************************************************)
EXTENDS AbortManager, TLAPS

\* An id of a task is that of one open scope, and each open scope has a task.
LEMMA ScopesOfTasks ==
    ASSUME AbortTypeOK, MapsAgree
    PROVE  /\ \A s \in Scopes : IsOpen(s) => /\ taskId[s] \in DOMAIN idToTask
                                             /\ idToTask[taskId[s]] \in Task
                                             /\ CallbackOf(s) = idToTask[taskId[s]].pAbort
                                             /\ CallbackOf(s) \in Callbacks
           /\ \A s, t \in Scopes : IsOpen(s) /\ IsOpen(t) /\ taskId[s] = taskId[t] => s = t
           /\ \A id \in DOMAIN idToTask :
                /\ idToTask[id].scope \in Scopes
                /\ IsOpen(idToTask[id].scope)
                /\ taskId[idToTask[id].scope] = id
BY DEF AbortTypeOK, MapsAgree, Task, CallbackOf

-----------------------------------------------------------------------------
(* The invariant *)

LEMMA InitAgrees == AbortInit => AbortTypeOK /\ MapsAgree
<1> SUFFICES ASSUME AbortInit PROVE AbortTypeOK /\ MapsAgree
  OBVIOUS
<1>1. /\ DOMAIN idToTask = {} /\ idToTask = [id \in {} |-> NoCallback]
      /\ DOMAIN abortToIds = {} /\ abortToIds = [c \in {} |-> {}]
  BY DEF AbortInit
<1>2. idToTask \in [DOMAIN idToTask -> Task] /\ abortToIds \in [DOMAIN abortToIds -> SUBSET Nat]
  BY <1>1
<1>3. AbortTypeOK
  BY <1>1, <1>2 DEF AbortInit, AbortTypeOK
<1>4. MapsAgree
  BY <1>1 DEF AbortInit, MapsAgree, IsOpen
<1> QED
  BY <1>3, <1>4

LEMMA AddTaskAgrees ==
    ASSUME AbortTypeOK, MapsAgree, NEW s \in Scopes, NEW c \in Callbacks,
           GetAbortableScope(s, c)
    PROVE  AbortTypeOK' /\ MapsAgree'
<1>1. PICK id \in idCounter .. idCounter + Cardinality(DOMAIN idToTask) :
        /\ NewId(id)
        /\ idCounter' = id
        /\ idToTask' = [i \in DOMAIN idToTask \cup {id} |->
                           IF i = id THEN [scope |-> s, pAbort |-> c] ELSE idToTask[i]]
        /\ abortToIds' = [b \in DOMAIN abortToIds \cup {c} |->
                             IF b = c THEN IdsOf(c) \cup {id} ELSE abortToIds[b]]
        /\ taskId' = [taskId EXCEPT ![s] = id]
  BY DEF GetAbortableScope
<1>2. id \in Nat /\ id \notin DOMAIN idToTask
  BY <1>1 DEF NewId, AbortTypeOK
<1>3. id # NoId
  BY <1>2, AbortAssumption
<1>4. ~IsOpen(s) /\ UNCHANGED <<isTimeToDie, polling, aborting, signalled>>
  BY DEF GetAbortableScope
<1>5. AbortTypeOK'
  <2>1. idToTask' \in [DOMAIN idToTask' -> Task] /\ DOMAIN idToTask' \subseteq Nat
    BY <1>1, <1>2 DEF AbortTypeOK, Task
  <2>2. DOMAIN abortToIds' \subseteq Callbacks /\ abortToIds' \in [DOMAIN abortToIds' -> SUBSET Nat]
    BY <1>1, <1>2 DEF AbortTypeOK, IdsOf
  <2>3. taskId' \in [Scopes -> Nat \cup {NoId}]
    BY <1>1, <1>2 DEF AbortTypeOK
  <2> QED
    BY <1>1, <1>2, <1>4, <2>1, <2>2, <2>3 DEF AbortTypeOK
<1>6. MapsAgree'
  <2>1. DOMAIN idToTask' = {taskId'[t] : t \in {u \in Scopes : taskId'[u] # NoId}}
    <3>1. \A t \in Scopes : taskId'[t] = IF t = s THEN id ELSE taskId[t]
      BY <1>1 DEF AbortTypeOK
    <3>2. \A i : i \in DOMAIN idToTask <=> \E t \in Scopes : taskId[t] # NoId /\ taskId[t] = i
      BY DEF MapsAgree, IsOpen
    <3>3. \A i : i \in DOMAIN idToTask' <=> i \in DOMAIN idToTask \/ i = id
      BY <1>1
    <3>4. \A i : i \in DOMAIN idToTask' <=> \E t \in Scopes : taskId'[t] # NoId /\ taskId'[t] = i
      BY <1>3, <1>4, <3>1, <3>2, <3>3 DEF IsOpen
    <3> QED
      BY <3>4
  <2>2. \A t \in Scopes : taskId'[t] # NoId => idToTask'[taskId'[t]].scope = t
    BY <1>1, <1>2, <1>3 DEF AbortTypeOK, MapsAgree, IsOpen
  <2>3. \A i \in DOMAIN idToTask' :
          /\ idToTask'[i].pAbort \in DOMAIN abortToIds'
          /\ i \in abortToIds'[idToTask'[i].pAbort]
    BY <1>1 DEF MapsAgree, IdsOf
  <2>4. \A b \in DOMAIN abortToIds' :
          /\ abortToIds'[b] # {}
          /\ \A i \in abortToIds'[b] : i \in DOMAIN idToTask' /\ idToTask'[i].pAbort = b
    <3>1. \A b \in DOMAIN abortToIds :
            abortToIds[b] # {} /\ \A i \in abortToIds[b] : i \in DOMAIN idToTask /\ idToTask[i].pAbort = b
      BY DEF MapsAgree
    <3>2. \A b \in DOMAIN abortToIds' :
            abortToIds'[b] = IF b = c THEN IdsOf(c) \cup {id} ELSE abortToIds[b]
      BY <1>1
    <3>3. ASSUME NEW b \in DOMAIN abortToIds', b # c
          PROVE  /\ abortToIds'[b] # {}
                 /\ \A i \in abortToIds'[b] : i \in DOMAIN idToTask' /\ idToTask'[i].pAbort = b
      <4>1. b \in DOMAIN abortToIds /\ abortToIds'[b] = abortToIds[b]
        BY <1>1, <3>2, <3>3
      <4> QED
        BY <1>1, <1>2, <3>1, <4>1
    <3>4. ASSUME c \in DOMAIN abortToIds'
          PROVE  /\ abortToIds'[c] # {}
                 /\ \A i \in abortToIds'[c] : i \in DOMAIN idToTask' /\ idToTask'[i].pAbort = c
      <4>1. abortToIds'[c] = IdsOf(c) \cup {id}
        BY <3>2, <3>4
      <4> QED
        BY <1>1, <1>2, <3>1, <4>1 DEF IdsOf
    <3> QED
      BY <3>3, <3>4
  <2> QED
    BY <2>1, <2>2, <2>3, <2>4 DEF MapsAgree, IsOpen
<1> QED
  BY <1>5, <1>6

LEMMA RemoveTaskAgrees ==
    ASSUME AbortTypeOK, MapsAgree, NEW s \in Scopes, RemoveTask(s)
    PROVE  AbortTypeOK' /\ MapsAgree'
<1> DEFINE id == taskId[s]
           c == idToTask[id].pAbort
           left == abortToIds[c] \ {id}
<1>1. /\ IsOpen(s)
      /\ idToTask' = [i \in DOMAIN idToTask \ {id} |-> idToTask[i]]
      /\ abortToIds' = [b \in EntriesLeft(c, left) |-> IF b = c THEN left ELSE abortToIds[b]]
      /\ taskId' = [taskId EXCEPT ![s] = NoId]
      /\ signalled' = signalled \ {s}
      /\ UNCHANGED <<idCounter, isTimeToDie, polling, aborting>>
  BY DEF RemoveTask
<1>2. /\ id \in DOMAIN idToTask /\ c \in DOMAIN abortToIds
      /\ \A t \in Scopes : IsOpen(t) /\ taskId[t] = id => t = s
      /\ \A t \in Scopes : IsOpen(t) => taskId[t] \in DOMAIN idToTask
  BY <1>1, ScopesOfTasks DEF MapsAgree
<1>3. /\ DOMAIN abortToIds' = IF left = {} THEN DOMAIN abortToIds \ {c} ELSE DOMAIN abortToIds
      /\ \A b \in DOMAIN abortToIds' : abortToIds'[b] = IF b = c THEN left ELSE abortToIds[b]
  BY <1>1 DEF EntriesLeft
<1>4. /\ DOMAIN idToTask' = DOMAIN idToTask \ {id}
      /\ \A i \in DOMAIN idToTask' : idToTask'[i] = idToTask[i]
      /\ \A t \in Scopes : taskId'[t] = IF t = s THEN NoId ELSE taskId[t]
  BY <1>1 DEF AbortTypeOK
<1> HIDE DEF id, c, left
<1>5. AbortTypeOK'
  <2>1. abortToIds' \in [DOMAIN abortToIds' -> SUBSET Nat]
    BY <1>1, <1>3 DEF AbortTypeOK, left
  <2>2. taskId' \in [Scopes -> Nat \cup {NoId}]
    BY <1>1 DEF AbortTypeOK
  <2>3. idToTask' \in [DOMAIN idToTask' -> Task]
    BY <1>1 DEF AbortTypeOK
  <2> QED
    BY <1>1, <1>3, <1>4, <2>1, <2>2, <2>3 DEF AbortTypeOK
<1>6. MapsAgree'
  <2>1. DOMAIN idToTask' = {taskId'[t] : t \in {u \in Scopes : taskId'[u] # NoId}}
    <3>1. \A i : i \in DOMAIN idToTask <=> \E t \in Scopes : taskId[t] # NoId /\ taskId[t] = i
      BY DEF MapsAgree, IsOpen
    <3>2. \A i : i \in DOMAIN idToTask' <=> \E t \in Scopes : taskId'[t] # NoId /\ taskId'[t] = i
      BY <1>1, <1>2, <1>4, <3>1 DEF IsOpen, id
    <3> QED
      BY <3>2
  <2>2. \A t \in Scopes : taskId'[t] # NoId => idToTask'[taskId'[t]].scope = t
    BY <1>2, <1>4, <2>1 DEF MapsAgree, IsOpen
  <2>3. \A i \in DOMAIN idToTask' :
          /\ idToTask'[i].pAbort \in DOMAIN abortToIds'
          /\ i \in abortToIds'[idToTask'[i].pAbort]
    BY <1>3, <1>4 DEF MapsAgree, left
  <2>4. \A b \in DOMAIN abortToIds' :
          /\ abortToIds'[b] # {}
          /\ \A i \in abortToIds'[b] : i \in DOMAIN idToTask' /\ idToTask'[i].pAbort = b
    <3>1. \A b \in DOMAIN abortToIds :
            abortToIds[b] # {} /\ \A i \in abortToIds[b] : i \in DOMAIN idToTask /\ idToTask[i].pAbort = b
      BY DEF MapsAgree
    <3>2. \A b \in DOMAIN abortToIds' : b \in DOMAIN abortToIds /\ (b = c => left # {})
      BY <1>3
    <3>3. ASSUME NEW b \in DOMAIN abortToIds', b # c
          PROVE  /\ abortToIds'[b] # {}
                 /\ \A i \in abortToIds'[b] : i \in DOMAIN idToTask' /\ idToTask'[i].pAbort = b
      <4>1. abortToIds'[b] = abortToIds[b] /\ idToTask[id].pAbort = c
        BY <1>3, <3>3 DEF c
      <4>2. \A i \in abortToIds[b] : i \in DOMAIN idToTask /\ idToTask[i].pAbort = b /\ i # id
        BY <3>1, <3>2, <3>3, <4>1
      <4> QED
        BY <1>4, <3>1, <3>2, <4>1, <4>2
    <3>4. ASSUME c \in DOMAIN abortToIds'
          PROVE  /\ abortToIds'[c] # {}
                 /\ \A i \in abortToIds'[c] : i \in DOMAIN idToTask' /\ idToTask'[i].pAbort = c
      <4>1. abortToIds'[c] = left /\ left # {}
        BY <1>3, <3>2, <3>4
      <4>2. \A i \in left : i \in DOMAIN idToTask /\ idToTask[i].pAbort = c /\ i # id
        BY <1>2, <3>1 DEF left
      <4> QED
        BY <1>4, <4>1, <4>2
    <3> QED
      BY <3>3, <3>4
  <2> QED
    BY <2>1, <2>2, <2>3, <2>4 DEF MapsAgree, IsOpen
<1> QED
  BY <1>5, <1>6

\* The scopes whose tasks are run are scopes.
LEMMA TasksOfScopes ==
    ASSUME AbortTypeOK, MapsAgree
    PROVE  /\ TasksOf(UNION {IdsOf(c) : c \in aborting}) =
                {s \in Scopes : IsOpen(s) /\ CallbackOf(s) \in aborting}
           /\ InvokeAllTasks = {s \in Scopes : IsOpen(s)}
<1> DEFINE ids == UNION {IdsOf(c) : c \in aborting}
<1>1. \A id : id \in ids <=> id \in DOMAIN idToTask /\ idToTask[id].pAbort \in aborting
  BY DEF IdsOf, MapsAgree, AbortTypeOK
<1>2. TasksOf(ids) = {s \in Scopes : IsOpen(s) /\ CallbackOf(s) \in aborting}
  <2> HIDE DEF ids
  <2> QED
    BY <1>1, ScopesOfTasks DEF TasksOf, MapsAgree
<1>3. InvokeAllTasks = {s \in Scopes : IsOpen(s)}
  BY ScopesOfTasks DEF InvokeAllTasks, TasksOf, MapsAgree
<1> QED
  BY <1>2, <1>3

\* What leaves the maps alone.
LEMMA OthersAgree ==
    ASSUME AbortTypeOK, MapsAgree,
           \/ Poll \/ LastPoll \/ StopThread \/ UNCHANGED abortVars
           \/ \E cs \in SUBSET Callbacks : SetAborting(cs)
    PROVE  AbortTypeOK' /\ MapsAgree'
<1>1. UNCHANGED maps
  BY DEF Poll, LastPoll, StopThread, SetAborting, abortVars
<1>2. MapsAgree'
  BY <1>1 DEF MapsAgree, maps, IsOpen
<1>3. isTimeToDie' \in BOOLEAN
  BY DEF Poll, LastPoll, StopThread, SetAborting, abortVars, AbortTypeOK
<1>4. polling' \in BOOLEAN
  BY DEF Poll, LastPoll, StopThread, SetAborting, abortVars, AbortTypeOK
<1>5. aborting' \subseteq Callbacks
  BY DEF Poll, LastPoll, StopThread, SetAborting, abortVars, AbortTypeOK
<1>6. signalled' \subseteq Scopes
  BY TasksOfScopes DEF Poll, LastPoll, StopThread, SetAborting, abortVars, AbortTypeOK
<1> QED
  BY <1>1, <1>2, <1>3, <1>4, <1>5, <1>6 DEF AbortTypeOK, maps

LEMMA NextAgrees ==
    ASSUME AbortTypeOK, MapsAgree, [AbortNext]_abortVars
    PROVE  AbortTypeOK' /\ MapsAgree'
<1>1. ASSUME NEW s \in Scopes, RemoveTask(s)
      PROVE  AbortTypeOK' /\ MapsAgree'
  BY <1>1, RemoveTaskAgrees
<1>2. ASSUME NEW s \in Scopes, NEW c \in Callbacks, GetAbortableScope(s, c)
      PROVE  AbortTypeOK' /\ MapsAgree'
  BY <1>2, AddTaskAgrees
<1> QED
  BY <1>1, <1>2, OthersAgree DEF AbortNext

\* Scopes that open and close in any order, with callbacks they share and ids that
\* are used again, never leave the two maps of AddTask and RemoveTask at odds.
THEOREM MapsAlwaysAgree == AbortSpec => [](AbortTypeOK /\ MapsAgree)
BY InitAgrees, NextAgrees, PTL DEF AbortSpec

-----------------------------------------------------------------------------
(* The refinement *)

callbackOf == [s \in Scopes |-> CallbackOf(s)]

LEMMA AddTaskOpens ==
    ASSUME AbortTypeOK, MapsAgree, NEW s \in Scopes, NEW c \in Callbacks,
           GetAbortableScope(s, c)
    PROVE  Service!Open(s, c)
<1>1. PICK id \in idCounter .. idCounter + Cardinality(DOMAIN idToTask) :
        /\ NewId(id)
        /\ idToTask' = [i \in DOMAIN idToTask \cup {id} |->
                           IF i = id THEN [scope |-> s, pAbort |-> c] ELSE idToTask[i]]
        /\ taskId' = [taskId EXCEPT ![s] = id]
  BY DEF GetAbortableScope
<1>2. id \notin DOMAIN idToTask /\ id # NoId
  BY <1>1, AbortAssumption DEF NewId, AbortTypeOK
<1>3. \A t \in Scopes : CallbackOf(t)' = IF t = s THEN c ELSE CallbackOf(t)
  BY <1>1, <1>2, ScopesOfTasks DEF CallbackOf, IsOpen, AbortTypeOK
<1>4. callbackOf' = [callbackOf EXCEPT ![s] = c] /\ callbackOf[s] = NoCallback
  BY <1>3 DEF callbackOf, GetAbortableScope, CallbackOf
<1> QED
  BY <1>4 DEF Service!Open, callbackOf, GetAbortableScope

LEMMA RemoveTaskCloses ==
    ASSUME AbortTypeOK, MapsAgree, NEW s \in Scopes, RemoveTask(s)
    PROVE  Service!Close(s)
<1>1. /\ IsOpen(s)
      /\ idToTask' = [i \in DOMAIN idToTask \ {taskId[s]} |-> idToTask[i]]
      /\ taskId' = [taskId EXCEPT ![s] = NoId]
  BY DEF RemoveTask
<1>2. \A t \in Scopes : CallbackOf(t)' = IF t = s THEN NoCallback ELSE CallbackOf(t)
  BY <1>1, ScopesOfTasks DEF CallbackOf, IsOpen, AbortTypeOK
<1>3. callbackOf' = [callbackOf EXCEPT ![s] = NoCallback] /\ callbackOf[s] # NoCallback
  <2>1. callbackOf' = [callbackOf EXCEPT ![s] = NoCallback]
    BY <1>2 DEF callbackOf
  <2>2. CallbackOf(s) \in Callbacks
    BY <1>1, ScopesOfTasks
  <2> QED
    BY <2>1, <2>2, AbortAssumption DEF callbackOf
<1> QED
  BY <1>3 DEF Service!Close, callbackOf, RemoveTask

\* What leaves the maps alone leaves the callbacks of the scopes alone.
LEMMA SameCallbacks ==
    ASSUME UNCHANGED maps
    PROVE  callbackOf' = callbackOf
BY DEF callbackOf, CallbackOf, IsOpen, maps

LEMMA PollSignals ==
    ASSUME AbortTypeOK, MapsAgree, Poll
    PROVE  Service!Signal
<1>1. signalled' = signalled \cup {s \in Scopes : callbackOf[s] \in aborting}
  <2>1. {s \in Scopes : callbackOf[s] \in aborting} =
          {s \in Scopes : IsOpen(s) /\ CallbackOf(s) \in aborting}
    BY AbortAssumption DEF callbackOf, CallbackOf, AbortTypeOK
  <2> QED
    BY <2>1, TasksOfScopes DEF Poll
<1>2. callbackOf' = callbackOf
  BY SameCallbacks DEF Poll
<1> QED
  BY <1>1, <1>2 DEF Service!Signal, callbackOf, Poll

LEMMA LastPollEnds ==
    ASSUME AbortTypeOK, MapsAgree, LastPoll
    PROVE  Service!End
<1>1. signalled' = signalled \cup {s \in Scopes : callbackOf[s] # NoCallback}
  <2>1. {s \in Scopes : callbackOf[s] # NoCallback} = {s \in Scopes : IsOpen(s)}
    BY AbortAssumption, ScopesOfTasks DEF callbackOf, CallbackOf
  <2> QED
    BY <2>1, TasksOfScopes DEF LastPoll
<1>2. callbackOf' = callbackOf
  BY SameCallbacks DEF LastPoll
<1> QED
  BY <1>1, <1>2 DEF Service!End, callbackOf, LastPoll

LEMMA NextImplements ==
    ASSUME AbortTypeOK, MapsAgree, [AbortNext]_abortVars
    PROVE  [Service!Next]_Service!vars
<1>1. ASSUME NEW s \in Scopes, RemoveTask(s)
      PROVE  Service!Next
  BY <1>1, RemoveTaskCloses DEF Service!Next
<1>2. ASSUME NEW s \in Scopes, NEW c \in Callbacks, GetAbortableScope(s, c)
      PROVE  Service!Next
  BY <1>2, AddTaskOpens DEF Service!Next
<1>3. ASSUME NEW cs \in SUBSET Callbacks, SetAborting(cs)
      PROVE  Service!Next
  <2>1. callbackOf' = callbackOf
    BY <1>3, SameCallbacks DEF SetAborting
  <2>2. Service!ChangeAborting(cs)
    BY <1>3, <2>1 DEF Service!ChangeAborting, callbackOf, SetAborting
  <2> QED
    BY <2>2 DEF Service!Next
<1>4. CASE polling /\ StopThread
  <2>1. callbackOf' = callbackOf
    BY <1>4, SameCallbacks DEF StopThread
  <2>2. Service!Stop \/ UNCHANGED Service!vars
    BY <1>4, <2>1 DEF Service!Stop, Service!vars, callbackOf, StopThread
  <2> QED
    BY <2>2 DEF Service!Next
<1>5. CASE UNCHANGED abortVars
  <2>1. callbackOf' = callbackOf
    BY <1>5, SameCallbacks DEF abortVars
  <2> QED
    BY <1>5, <2>1 DEF Service!vars, callbackOf, abortVars
<1>6. CASE Poll
  BY <1>6, PollSignals DEF Service!Next
<1>7. CASE LastPoll
  BY <1>7, LastPollEnds DEF Service!Next
<1> QED
  BY <1>1, <1>2, <1>3, <1>4, <1>5, <1>6, <1>7 DEF AbortNext

\* The maps, the ids and the polling thread do what AbortService promises to the
\* threads that wait.
THEOREM Refinement == AbortSpec => ImplementsService
<1>1. AbortInit => Service!Init
  BY DEF AbortInit, Service!Init, CallbackOf, IsOpen
<1>2. AbortTypeOK /\ MapsAgree /\ [AbortNext]_abortVars => [Service!Next]_Service!vars
  BY NextImplements
<1> QED
  BY <1>1, <1>2, MapsAlwaysAgree, PTL DEF AbortSpec, ImplementsService, Service!Spec
=============================================================================
