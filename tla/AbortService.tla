---------------------------- MODULE AbortService ----------------------------
(***************************************************************************)
(* What AbortManager promises to the threads that wait in an abortable     *)
(* scope: while a scope is open its task runs when the scope's             *)
(* abort_callback is aborting or when the manager stops, and at no other   *)
(* time; one look at the callbacks serves every open scope.                *)
(***************************************************************************)
CONSTANTS
    Scopes,       \* the places that may hold an AbortableScope
    Callbacks,    \* abort_callback objects
    NoCallback

VARIABLES
    callback,     \* the callback of each open scope
    aborting,     \* callbacks that are aborting
    signalled,    \* open scopes whose task has run
    phase         \* of the manager: running, stopping, ended

vars == <<callback, aborting, signalled, phase>>

Init ==
    /\ callback = [s \in Scopes |-> NoCallback]
    /\ aborting = {}
    /\ signalled = {}
    /\ phase = "running"

Open(s, c) ==
    /\ callback[s] = NoCallback
    /\ callback' = [callback EXCEPT ![s] = c]
    /\ UNCHANGED <<aborting, signalled, phase>>

Close(s) ==
    /\ callback[s] # NoCallback
    /\ callback' = [callback EXCEPT ![s] = NoCallback]
    /\ signalled' = signalled \ {s}
    /\ UNCHANGED <<aborting, phase>>

\* Callbacks are set by the host, by a timer or by the end of the program, and
\* a new call brings a new one.
ChangeAborting(cs) ==
    /\ aborting' = cs
    /\ UNCHANGED <<callback, signalled, phase>>

Signal ==
    /\ phase = "running"
    /\ signalled' = signalled \cup {s \in Scopes : callback[s] \in aborting}
    /\ UNCHANGED <<callback, aborting, phase>>

Stop ==
    /\ phase = "running"
    /\ phase' = "stopping"
    /\ UNCHANGED <<callback, aborting, signalled>>

End ==
    /\ phase = "stopping"
    /\ signalled' = signalled \cup {s \in Scopes : callback[s] # NoCallback}
    /\ phase' = "ended"
    /\ UNCHANGED <<callback, aborting>>

Next ==
    \/ \E s \in Scopes : Close(s) \/ \E c \in Callbacks : Open(s, c)
    \/ \E cs \in SUBSET Callbacks : ChangeAborting(cs)
    \/ Signal \/ Stop \/ End

Spec == Init /\ [][Next]_vars
=============================================================================
