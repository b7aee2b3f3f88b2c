------------------------------ MODULE RpsLimiter ------------------------------
(***************************************************************************)
(* The limiter of WebApi requests (utils/rps_limiter.{h,cpp}).  A request  *)
(* passes at once when the oldest of the last Limit time stamps is a       *)
(* period old and nobody waits; otherwise it joins a queue and sleeps      *)
(* until that stamp will be a period old.  Nobody is notified when the     *)
(* queue moves on: a request that wakes behind another sleeps again.       *)
(*                                                                         *)
(* mutex_ is held except in the sleep, so that arriving and waking are one *)
(* action each.  Time is counted in ticks, and only as differences: the    *)
(* age of a stamp, up to the period, and what is left of a sleep.          *)
(***************************************************************************)
EXTENDS Integers, SequencesExt

CONSTANTS
    Callers,         \* threads that make requests
    Limit,           \* limitCount_
    PeriodSeconds,   \* limitPeriod_
    TicksPerSecond

ASSUME LimiterAssumption ==
    /\ Limit \in Nat \ {0}
    /\ PeriodSeconds \in Nat \ {0}
    /\ TicksPerSecond \in Nat \ {0}

VARIABLES
    age,               \* timeStamps_, oldest first
    incomingRequests,  \* incomingRequests_, named by their threads
    left,              \* time until a waiting request's nextAvailableTime
    behind             \* history: requests that joined a queue that was not empty

limiterVars == <<age, incomingRequests, left, behind>>

Period == PeriodSeconds * TicksPerSecond

\* limitPeriod_ / limitCount_ is a division of whole seconds.
Step == (PeriodSeconds \div Limit) * TicksPerSecond

Waiting == {incomingRequests[i] : i \in 1 .. Len(incomingRequests)}

LimiterTypeOK ==
    /\ age \in [1 .. Limit -> 0 .. Period]
    /\ incomingRequests \in Seq(Callers)
    /\ left \in [Callers -> 0 .. Period]
    /\ behind \subseteq Waiting

\* The stamps start two periods old.
LimiterInit ==
    /\ age = [i \in 1 .. Limit |-> Period]
    /\ incomingRequests = <<>>
    /\ left = [c \in Callers |-> 0]
    /\ behind = {}

Stamp == age' = [i \in 1 .. Limit |-> IF i = Limit THEN 0 ELSE age[i + 1]]

\* Mutant: a request passes at once although others wait.
FreeForNewcomers == age[1] = Period

Free == incomingRequests = <<>> /\ age[1] = Period

PassAtOnce ==
    /\ Free
    /\ Stamp
    /\ UNCHANGED <<incomingRequests, left, behind>>

Join(c) ==
    /\ ~Free
    /\ incomingRequests' = Append(incomingRequests, c)
    /\ left' = [left EXCEPT ![c] = Period - age[1]]
    /\ behind' = IF incomingRequests = <<>> THEN behind ELSE behind \cup {c}
    /\ UNCHANGED age

\* autoEraseRequest
Leave(c) ==
    /\ \E i \in 1 .. Len(incomingRequests) :
         /\ incomingRequests[i] = c
         /\ incomingRequests' = RemoveAt(incomingRequests, i)
    /\ behind' = behind \ {c}
    /\ left' = [left EXCEPT ![c] = 0]

\* A sleep that is over finds the request in front.
Pass(c) ==
    /\ c \in Waiting
    /\ Head(incomingRequests) = c
    /\ left[c] = 0
    /\ Stamp
    /\ Leave(c)

\* It finds another in front.
SleepAgain(c) ==
    /\ c \in Waiting
    /\ Head(incomingRequests) # c
    /\ left[c] = 0
    /\ left' = [left EXCEPT ![c] = Step]
    /\ UNCHANGED <<age, incomingRequests, behind>>

\* Mutant: a request that gives up stays in the queue.
GiveUpQueued(c) ==
    /\ c \in Waiting
    /\ UNCHANGED limiterVars

\* timeToDie
GiveUp(c) ==
    /\ c \in Waiting
    /\ Leave(c)
    /\ UNCHANGED age

Later(n) == IF n = 0 THEN 0 ELSE n - 1

Tick ==
    /\ age' = [i \in 1 .. Limit |-> IF age[i] = Period THEN Period ELSE age[i] + 1]
    /\ left' = [c \in Callers |-> Later(left[c])]
    /\ UNCHANGED <<incomingRequests, behind>>

LimiterNext ==
    \/ PassAtOnce \/ Tick
    \/ \E c \in Callers : (c \notin Waiting /\ Join(c)) \/ Pass(c) \/ SleepAgain(c) \/ GiveUp(c)

LimiterSpec == LimiterInit /\ [][LimiterNext]_limiterVars

-----------------------------------------------------------------------------
(* Properties *)

\* No request is queued twice, and one that found the queue empty stays in front
\* and wakes only when the oldest stamp is a period old, whatever arrives, gives
\* up or passes in the meantime: nobody overtakes it, and at most Limit requests
\* have passed in the period before.  Requests that queued behind another are the
\* exception: all of them wait for the same stamp and pass in a burst.
FrontWakesInTime ==
    /\ \A i, j \in 1 .. Len(incomingRequests) :
         incomingRequests[i] = incomingRequests[j] => i = j
    /\ \A c \in Waiting \ behind : Head(incomingRequests) = c /\ left[c] + age[1] >= Period
=============================================================================
