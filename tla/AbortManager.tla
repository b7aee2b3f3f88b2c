---------------------------- MODULE AbortManager ----------------------------
(***************************************************************************)
(* The abort manager (utils/abort_manager.{h,cpp}).  A thread that is      *)
(* about to wait opens an AbortableScope: a task filed under a new id and  *)
(* under its abort_callback.  One thread looks at the callbacks at least   *)
(* every two seconds and runs the tasks of those that are aborting, and    *)
(* every task when the manager stops.                                      *)
(*                                                                         *)
(* mutex_ is held through AddTask, through RemoveTask and through a whole  *)
(* turn of the polling thread, so each is one action; the order of the     *)
(* tasks within a turn is left out, and the ids of a callback are a set.   *)
(***************************************************************************)
EXTENDS Integers, FiniteSets

CONSTANTS
    Scopes,       \* the places that may hold an AbortableScope
    Callbacks,    \* abort_callback objects
    NoId,         \* a place that holds no scope
    NoCallback

ASSUME AbortAssumption ==
    /\ NoId \notin Nat
    /\ NoCallback \notin Callbacks

VARIABLES
    idToTask,     \* idToTask_
    abortToIds,   \* abortToIds_
    idCounter,    \* idCounter_
    isTimeToDie,  \* isTimeToDie_
    polling,      \* the thread has not returned
    taskId,       \* taskId_ of the scope in each place
    aborting,     \* callbacks whose is_aborting() is true
    signalled     \* open scopes whose task has run

maps == <<idToTask, abortToIds, idCounter, taskId>>
abortVars == <<maps, isTimeToDie, polling, aborting, signalled>>

\* std::function tasks are named by the scope that owns what they touch.
Task == [scope : Scopes, pAbort : Callbacks]

AbortInit ==
    /\ idToTask = [id \in {} |-> NoCallback]
    /\ abortToIds = [c \in {} |-> {}]
    /\ idCounter = 0
    /\ isTimeToDie = FALSE
    /\ polling = TRUE
    /\ taskId = [s \in Scopes |-> NoId]
    /\ aborting = {}
    /\ signalled = {}

IsOpen(s) == taskId[s] # NoId
IdsOf(c) == IF c \in DOMAIN abortToIds THEN abortToIds[c] ELSE {}

\* The first id from idCounter_ on that no task has.
NewId(id) ==
    /\ id \notin DOMAIN idToTask
    /\ \A j \in idCounter .. id - 1 : j \in DOMAIN idToTask

\* AddTask
GetAbortableScope(s, c) ==
    /\ ~IsOpen(s)
    /\ \E id \in idCounter .. idCounter + Cardinality(DOMAIN idToTask) :
         /\ NewId(id)
         /\ idCounter' = id
         /\ idToTask' = [i \in DOMAIN idToTask \cup {id} |->
                            IF i = id THEN [scope |-> s, pAbort |-> c] ELSE idToTask[i]]
         /\ abortToIds' = [b \in DOMAIN abortToIds \cup {c} |->
                              IF b = c THEN IdsOf(c) \cup {id} ELSE abortToIds[b]]
         /\ taskId' = [taskId EXCEPT ![s] = id]
    /\ UNCHANGED <<isTimeToDie, polling, aborting, signalled>>

\* Mutant: a callback keeps its entry when its last task goes.
EntriesLeftForever(c, ids) == DOMAIN abortToIds

\* An entry without ids is erased.
EntriesLeft(c, ids) == IF ids = {} THEN DOMAIN abortToIds \ {c} ELSE DOMAIN abortToIds

\* RemoveTask, by the destructor of the scope
RemoveTask(s) ==
    LET id == taskId[s]
        c == idToTask[id].pAbort
        left == abortToIds[c] \ {id}
    IN
    /\ IsOpen(s)
    /\ idToTask' = [i \in DOMAIN idToTask \ {id} |-> idToTask[i]]
    /\ abortToIds' = [b \in EntriesLeft(c, left) |->
                         IF b = c THEN left ELSE abortToIds[b]]
    /\ taskId' = [taskId EXCEPT ![s] = NoId]
    /\ signalled' = signalled \ {s}
    /\ UNCHANGED <<idCounter, isTimeToDie, polling, aborting>>

SetAborting(cs) ==
    /\ aborting' = cs
    /\ UNCHANGED <<maps, isTimeToDie, polling, signalled>>

TasksOf(ids) == {idToTask[id].scope : id \in ids}

\* One turn of EventLoop; it looks at the callbacks of abortToIds_ only.
Poll ==
    /\ polling
    /\ ~isTimeToDie
    /\ signalled' = signalled \cup TasksOf(UNION {IdsOf(c) : c \in aborting})
    /\ UNCHANGED <<maps, isTimeToDie, polling, aborting>>

\* StopThread: the flag, and the notification.
StopThread ==
    /\ isTimeToDie' = TRUE
    /\ UNCHANGED <<maps, polling, aborting, signalled>>

\* Mutant: the thread ends without running the tasks.
InvokeNoTasks == {}

InvokeAllTasks == TasksOf(DOMAIN idToTask)

\* The last turn of EventLoop.
LastPoll ==
    /\ polling
    /\ isTimeToDie
    /\ signalled' = signalled \cup InvokeAllTasks
    /\ polling' = FALSE
    /\ UNCHANGED <<maps, isTimeToDie, aborting>>

AbortNext ==
    \/ \E s \in Scopes : RemoveTask(s) \/ \E c \in Callbacks : GetAbortableScope(s, c)
    \/ \E cs \in SUBSET Callbacks : SetAborting(cs)
    \/ Poll \/ LastPoll
    \/ (polling /\ StopThread)

AbortSpec == AbortInit /\ [][AbortNext]_abortVars

-----------------------------------------------------------------------------
(* Properties *)

AbortTypeOK ==
    /\ DOMAIN idToTask \subseteq Nat /\ idToTask \in [DOMAIN idToTask -> Task]
    /\ DOMAIN abortToIds \subseteq Callbacks
    /\ abortToIds \in [DOMAIN abortToIds -> SUBSET Nat]
    /\ idCounter \in Nat
    /\ isTimeToDie \in BOOLEAN /\ polling \in BOOLEAN
    /\ taskId \in [Scopes -> Nat \cup {NoId}]
    /\ aborting \subseteq Callbacks
    /\ signalled \subseteq Scopes

\* Through ids that are reused and scopes that share a callback, both maps and
\* the scopes tell the same story: each open scope's id leads to its own task,
\* each task is filed under its callback, and a callback has an entry exactly
\* while a scope with it is open.  These are the assertions of RemoveTask and
\* EventLoop, and they mean that the polling thread never asks a callback that
\* may be gone, nor runs the task of a scope that is closed.
MapsAgree ==
    /\ DOMAIN idToTask = {taskId[s] : s \in {t \in Scopes : IsOpen(t)}}
    /\ \A s \in Scopes : IsOpen(s) => idToTask[taskId[s]].scope = s
    /\ \A id \in DOMAIN idToTask :
         /\ idToTask[id].pAbort \in DOMAIN abortToIds
         /\ id \in abortToIds[idToTask[id].pAbort]
    /\ \A c \in DOMAIN abortToIds :
         /\ abortToIds[c] # {}
         /\ \A id \in abortToIds[c] : id \in DOMAIN idToTask /\ idToTask[id].pAbort = c

CallbackOf(s) == IF IsOpen(s) THEN idToTask[taskId[s]].pAbort ELSE NoCallback

\* The maps, the ids and the thread implement AbortService.
Service == INSTANCE AbortService WITH
    callback <- [s \in Scopes |-> CallbackOf(s)],
    phase <- IF polling THEN IF isTimeToDie THEN "stopping" ELSE "running" ELSE "ended"

ImplementsService == Service!Spec
=============================================================================
