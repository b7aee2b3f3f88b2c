--------------------------- MODULE RpsLimiterProofs ---------------------------
(***************************************************************************)
(* Proofs about RpsLimiter for every set of callers, every limit and every *)
(* period.                                                                 *)
(***************************************************************************)
EXTENDS RpsLimiter, SequenceTheorems, TLAPS

LimiterInv == LimiterTypeOK /\ FrontWakesInTime

\* A sleep is no longer than the period.
LEMMA StepIsShort == Step \in 0 .. Period /\ Period \in Nat
<1>1. PeriodSeconds \div Limit \in 0 .. PeriodSeconds
  BY LimiterAssumption
<1>2. \A a, b, t \in Nat : a <= b => a * t \in Nat /\ b * t \in Nat /\ a * t <= b * t
  OBVIOUS
<1> QED
  BY <1>1, <1>2, LimiterAssumption DEF Step, Period

-----------------------------------------------------------------------------
(* The queue *)

LEMMA RemoveAtFacts ==
    ASSUME NEW S, NEW q \in Seq(S), NEW i \in 1 .. Len(q)
    PROVE  /\ RemoveAt(q, i) \in Seq(S)
           /\ Len(RemoveAt(q, i)) = Len(q) - 1
           /\ \A j \in 1 .. Len(q) - 1 : RemoveAt(q, i)[j] = IF j < i THEN q[j] ELSE q[j + 1]
<1> DEFINE s == SubSeq(q, 1, i - 1)
           t == SubSeq(q, i + 1, Len(q))
<1>1. s \in Seq(S) /\ Len(s) = i - 1 /\ \A j \in 1 .. i - 1 : s[j] = q[j]
  BY LenProperties, ElementOfSeq, SubSeqProperties
<1>2. /\ t \in Seq(S) /\ Len(t) = Len(q) - i
      /\ \A j \in 1 .. Len(q) - i : t[j] = q[i + j]
  BY LenProperties, ElementOfSeq, SubSeqProperties
<1>3. RemoveAt(q, i) = s \o t
  BY DEF RemoveAt
<1>4. Len(q) \in Nat
  BY LenProperties
<1> HIDE DEF s, t
<1>5. /\ s \o t \in Seq(S)
      /\ Len(s \o t) = Len(q) - 1
      /\ \A j \in 1 .. Len(q) - 1 : (s \o t)[j] = IF j <= i - 1 THEN s[j] ELSE t[j - (i - 1)]
  BY <1>1, <1>2, <1>4, ConcatProperties
<1> QED
  BY <1>1, <1>2, <1>3, <1>4, <1>5

\* A request leaves the queue, which keeps its order.
LEMMA LeaveFacts ==
    ASSUME LimiterInv, NEW c \in Callers, c \in Waiting, Leave(c)
    PROVE  /\ incomingRequests' \in Seq(Callers)
           /\ Waiting' = Waiting \ {c}
           /\ \A i, j \in 1 .. Len(incomingRequests)' :
                incomingRequests'[i] = incomingRequests'[j] => i = j
           /\ Head(incomingRequests) # c /\ incomingRequests # <<>> =>
                Head(incomingRequests)' = Head(incomingRequests)
<1> DEFINE q == incomingRequests
           n == Len(q)
<1>1. PICK k \in 1 .. n : q[k] = c /\ q' = RemoveAt(q, k)
  BY DEF Leave
<1>2. q \in Seq(Callers) /\ n \in Nat /\ \A i, j \in 1 .. n : q[i] = q[j] => i = j
  BY LenProperties DEF LimiterInv, LimiterTypeOK, FrontWakesInTime
<1>3. /\ q' \in Seq(Callers) /\ Len(q') = n - 1
      /\ \A j \in 1 .. n - 1 : q'[j] = IF j < k THEN q[j] ELSE q[j + 1]
  BY <1>1, <1>2, RemoveAtFacts
<1>4. Waiting' = Waiting \ {c}
  <2>1. \A d : d \in Waiting' <=> \E i \in 1 .. n - 1 : q'[i] = d
    BY <1>3 DEF Waiting
  <2>2. \A d : d \in Waiting <=> \E i \in 1 .. n : q[i] = d
    BY DEF Waiting
  <2> HIDE DEF q, n
  <2>3. ASSUME NEW i \in 1 .. n - 1
        PROVE  q'[i] \in Waiting /\ q'[i] # c
    <3>1. (IF i < k THEN i ELSE i + 1) \in (1 .. n) \ {k}
      BY <1>2
    <3> QED
      BY <1>1, <1>2, <1>3, <2>2, <3>1
  <2>4. ASSUME NEW i \in 1 .. n, q[i] # c
        PROVE  q[i] \in Waiting'
    <3>1. CASE i < k
      <4>1. i \in 1 .. n - 1 /\ q'[i] = q[i]
        BY <1>2, <1>3, <3>1
      <4> QED
        BY <2>1, <4>1
    <3>2. CASE i > k
      <4>1. i - 1 \in 1 .. n - 1 /\ q'[i - 1] = q[i]
        BY <1>2, <1>3, <3>2
      <4> QED
        BY <2>1, <4>1
    <3> QED
      BY <1>1, <2>4, <3>1, <3>2
  <2> QED
    BY <2>1, <2>2, <2>3, <2>4
<1>5. \A i, j \in 1 .. Len(q') : q'[i] = q'[j] => i = j
  <2> HIDE DEF q, n
  <2>1. ASSUME NEW i \in 1 .. n - 1, NEW j \in 1 .. n - 1, q'[i] = q'[j]
        PROVE  i = j
    <3>1. /\ (IF i < k THEN i ELSE i + 1) \in 1 .. n
          /\ (IF j < k THEN j ELSE j + 1) \in 1 .. n
      BY <1>2
    <3>2. (IF i < k THEN i ELSE i + 1) = (IF j < k THEN j ELSE j + 1)
      BY <1>2, <1>3, <2>1, <3>1
    <3> QED
      BY <1>2, <3>2
  <2> QED
    BY <1>3, <2>1
<1>6. Head(q) # c /\ q # <<>> => Head(q') = Head(q)
  <2> SUFFICES ASSUME Head(q) # c, q # <<>>
               PROVE  Head(q') = Head(q)
    OBVIOUS
  <2>1. n >= 1 /\ Head(q) = q[1]
    BY <1>2, HeadTailProperties, EmptySeq
  <2>2. k > 1 /\ n - 1 >= 1 /\ q'[1] = q[1]
    BY <1>1, <1>2, <1>3, <2>1
  <2>3. Head(q') = q'[1]
    BY <1>3, <2>2
  <2> QED
    BY <2>1, <2>2, <2>3
<1> QED
  BY <1>3, <1>4, <1>5, <1>6

LEMMA JoinFacts ==
    ASSUME LimiterInv, NEW c \in Callers, c \notin Waiting, Join(c)
    PROVE  /\ incomingRequests' \in Seq(Callers)
           /\ Waiting' = Waiting \cup {c}
           /\ \A i, j \in 1 .. Len(incomingRequests)' :
                incomingRequests'[i] = incomingRequests'[j] => i = j
           /\ Head(incomingRequests)' =
                IF incomingRequests = <<>> THEN c ELSE Head(incomingRequests)
<1> DEFINE q == incomingRequests
           n == Len(q)
<1>1. q \in Seq(Callers) /\ n \in Nat /\ \A i, j \in 1 .. n : q[i] = q[j] => i = j
  BY LenProperties DEF LimiterInv, LimiterTypeOK, FrontWakesInTime
<1>2. q' = Append(q, c)
  BY DEF Join
<1>3. /\ q' \in Seq(Callers) /\ Len(q') = n + 1
      /\ \A i \in 1 .. n : q'[i] = q[i]
      /\ q'[n + 1] = c
  BY <1>1, <1>2, AppendProperties
<1>4. \A d : /\ d \in Waiting' <=> \E i \in 1 .. n + 1 : q'[i] = d
             /\ d \in Waiting <=> \E i \in 1 .. n : q[i] = d
  BY <1>3 DEF Waiting
<1>5. Waiting' = Waiting \cup {c}
  <2> HIDE DEF q, n
  <2>1. \A i \in 1 .. n + 1 : i \in 1 .. n \/ i = n + 1
    BY <1>1
  <2>2. \A i \in 1 .. n : i \in 1 .. n + 1
    BY <1>1
  <2>3. n + 1 \in 1 .. n + 1
    BY <1>1
  <2> QED
    BY <1>3, <1>4, <2>1, <2>2, <2>3
<1>6. \A i, j \in 1 .. Len(q') : q'[i] = q'[j] => i = j
  <2>1. \A i \in 1 .. n : q[i] # c
    BY <1>4
  <2> HIDE DEF q, n
  <2> QED
    BY <1>1, <1>3, <2>1
<1>7. Head(q') = IF q = <<>> THEN c ELSE Head(q)
  <2>1. CASE q = <<>>
    BY <1>3, <2>1
  <2>2. CASE q # <<>>
    <3>1. n >= 1
      BY <1>1, <2>2, EmptySeq
    <3> QED
      BY <1>1, <1>3, <2>2, <3>1
  <2> QED
    BY <2>1, <2>2
<1> QED
  BY <1>3, <1>5, <1>6, <1>7

-----------------------------------------------------------------------------
(* The invariant *)

LEMMA LimiterInitInvariant == LimiterInit => LimiterInv
BY StepIsShort, LimiterAssumption, EmptySeq
   DEF LimiterInit, LimiterInv, LimiterTypeOK, FrontWakesInTime, Waiting

\* A stamp makes the others older.
LEMMA StampTypeOK ==
    ASSUME LimiterTypeOK, Stamp
    PROVE  age' \in [1 .. Limit -> 0 .. Period]
BY StepIsShort, LimiterAssumption DEF LimiterTypeOK, Stamp

LEMMA PassAtOnceInvariant ==
    ASSUME LimiterInv, PassAtOnce
    PROVE  LimiterInv' /\ Waiting' = Waiting
<1>1. /\ incomingRequests = <<>> /\ age' \in [1 .. Limit -> 0 .. Period]
      /\ UNCHANGED <<incomingRequests, left, behind>>
  BY StampTypeOK DEF PassAtOnce, Free, LimiterInv
<1>2. Waiting = {} /\ Waiting' = {}
  BY <1>1 DEF Waiting
<1> QED
  BY <1>1, <1>2 DEF LimiterInv, LimiterTypeOK, FrontWakesInTime

LEMMA JoinInvariant ==
    ASSUME LimiterInv, NEW c \in Callers, c \notin Waiting, Join(c)
    PROVE  LimiterInv' /\ Waiting' = Waiting \cup {c}
<1>1. /\ incomingRequests' \in Seq(Callers)
      /\ Waiting' = Waiting \cup {c}
      /\ \A i, j \in 1 .. Len(incomingRequests)' :
           incomingRequests'[i] = incomingRequests'[j] => i = j
      /\ Head(incomingRequests)' =
           IF incomingRequests = <<>> THEN c ELSE Head(incomingRequests)
  BY JoinFacts
<1>2. /\ age' = age
      /\ left' = [left EXCEPT ![c] = Period - age[1]]
      /\ behind' = IF incomingRequests = <<>> THEN behind ELSE behind \cup {c}
  BY DEF Join
<1>3. age[1] \in 0 .. Period /\ Period \in Nat /\ Period - age[1] \in 0 .. Period
  BY StepIsShort, LimiterAssumption DEF LimiterInv, LimiterTypeOK
<1>4. LimiterTypeOK'
  BY <1>1, <1>2, <1>3 DEF LimiterInv, LimiterTypeOK
<1>5. ASSUME NEW d \in Waiting' \ behind'
      PROVE  Head(incomingRequests)' = d /\ left'[d] + age'[1] >= Period
  <2>1. CASE incomingRequests = <<>>
    <3>1. Waiting = {}
      BY <2>1 DEF Waiting
    <3>2. d = c
      BY <1>1, <3>1
    <3> QED
      BY <1>1, <1>2, <1>3, <2>1, <3>2 DEF LimiterInv, LimiterTypeOK
  <2>2. CASE incomingRequests # <<>>
    <3>1. d \in Waiting \ behind /\ d # c
      BY <1>1, <1>2, <2>2
    <3>2. d \in Callers
      BY <3>1, ElementOfSeq DEF Waiting, LimiterInv, LimiterTypeOK
    <3> QED
      BY <1>1, <1>2, <2>2, <3>1, <3>2 DEF LimiterInv, LimiterTypeOK, FrontWakesInTime
  <2> QED
    BY <2>1, <2>2
<1> QED
  BY <1>1, <1>4, <1>5 DEF LimiterInv, FrontWakesInTime

\* Whoever leaves, one that waits in front of others stays there.
LEMMA LeaveInvariant ==
    ASSUME LimiterInv, NEW c \in Callers, c \in Waiting, Leave(c),
           age' \in [1 .. Limit -> 0 .. Period],
           age' = age \/ Head(incomingRequests) = c
    PROVE  LimiterInv' /\ Waiting' = Waiting \ {c}
<1>1. /\ incomingRequests' \in Seq(Callers)
      /\ Waiting' = Waiting \ {c}
      /\ \A i, j \in 1 .. Len(incomingRequests)' :
           incomingRequests'[i] = incomingRequests'[j] => i = j
      /\ Head(incomingRequests) # c /\ incomingRequests # <<>> =>
           Head(incomingRequests)' = Head(incomingRequests)
  BY LeaveFacts
<1>2. behind' = behind \ {c} /\ left' = [left EXCEPT ![c] = 0]
  BY DEF Leave
<1>3. LimiterTypeOK'
  BY <1>1, <1>2, StepIsShort DEF LimiterInv, LimiterTypeOK
<1>4. ASSUME NEW d \in Waiting' \ behind'
      PROVE  Head(incomingRequests)' = d /\ left'[d] + age'[1] >= Period
  <2>1. d \in Waiting \ behind /\ d # c
    BY <1>1, <1>2
  <2>2. Head(incomingRequests) = d /\ left[d] + age[1] >= Period
    BY <2>1 DEF LimiterInv, FrontWakesInTime
  <2>3. incomingRequests # <<>>
    BY <2>1 DEF Waiting
  <2>4. d \in Callers
    BY <2>1, ElementOfSeq DEF Waiting, LimiterInv, LimiterTypeOK
  <2> QED
    BY <1>1, <1>2, <2>1, <2>2, <2>3, <2>4 DEF LimiterInv, LimiterTypeOK
<1> QED
  BY <1>1, <1>3, <1>4 DEF LimiterInv, FrontWakesInTime

LEMMA PassInvariant ==
    ASSUME LimiterInv, NEW c \in Callers, Pass(c)
    PROVE  LimiterInv' /\ Waiting' = Waiting \ {c} /\ c \in Waiting
BY StampTypeOK, LeaveInvariant DEF Pass, LimiterInv

LEMMA GiveUpInvariant ==
    ASSUME LimiterInv, NEW c \in Callers, GiveUp(c)
    PROVE  LimiterInv' /\ Waiting' = Waiting \ {c} /\ c \in Waiting
<1>1. age' = age /\ age' \in [1 .. Limit -> 0 .. Period]
  BY DEF GiveUp, LimiterInv, LimiterTypeOK
<1> QED
  BY <1>1, LeaveInvariant DEF GiveUp

LEMMA SleepAgainInvariant ==
    ASSUME LimiterInv, NEW c \in Callers, SleepAgain(c)
    PROVE  LimiterInv' /\ Waiting' = Waiting
<1>1. /\ c \in Waiting /\ Head(incomingRequests) # c
      /\ left' = [left EXCEPT ![c] = Step]
      /\ UNCHANGED <<age, incomingRequests, behind>>
  BY DEF SleepAgain
<1>2. Waiting' = Waiting
  BY <1>1 DEF Waiting
<1>3. LimiterTypeOK'
  BY <1>1, <1>2, StepIsShort DEF LimiterInv, LimiterTypeOK
<1>4. ASSUME NEW d \in Waiting \ behind
      PROVE  d # c /\ Head(incomingRequests) = d /\ left'[d] + age[1] >= Period
  <2>1. d \in Callers
    BY <1>4, ElementOfSeq DEF Waiting, LimiterInv, LimiterTypeOK
  <2> QED
    BY <1>1, <1>4, <2>1 DEF LimiterInv, LimiterTypeOK, FrontWakesInTime
<1> QED
  BY <1>1, <1>2, <1>3, <1>4 DEF LimiterInv, FrontWakesInTime

LEMMA TickInvariant ==
    ASSUME LimiterInv, Tick
    PROVE  LimiterInv' /\ Waiting' = Waiting
<1>1. /\ \A i \in 1 .. Limit : age'[i] = IF age[i] = Period THEN Period ELSE age[i] + 1
      /\ \A d \in Callers : left'[d] = IF left[d] = 0 THEN 0 ELSE left[d] - 1
      /\ UNCHANGED <<incomingRequests, behind>>
  BY DEF Tick, Later
<1>2. Waiting' = Waiting
  BY <1>1 DEF Waiting
<1>3. LimiterTypeOK'
  <2>1. age' \in [1 .. Limit -> 0 .. Period]
    BY StepIsShort DEF Tick, LimiterInv, LimiterTypeOK
  <2>2. left' \in [Callers -> 0 .. Period]
    BY StepIsShort DEF Tick, Later, LimiterInv, LimiterTypeOK
  <2> QED
    BY <1>1, <1>2, <2>1, <2>2 DEF LimiterInv, LimiterTypeOK
<1>4. ASSUME NEW d \in Waiting \ behind
      PROVE  Head(incomingRequests) = d /\ left'[d] + age'[1] >= Period
  <2>1. d \in Callers
    BY <1>4, ElementOfSeq DEF Waiting, LimiterInv, LimiterTypeOK
  <2>2. age[1] \in 0 .. Period /\ left[d] \in 0 .. Period /\ 1 \in 1 .. Limit /\ Period \in Nat
    BY <2>1, StepIsShort, LimiterAssumption DEF LimiterInv, LimiterTypeOK
  <2>3. Head(incomingRequests) = d /\ left[d] + age[1] >= Period
    BY <1>4 DEF LimiterInv, FrontWakesInTime
  <2> QED
    BY <1>1, <2>1, <2>2, <2>3
<1> QED
  BY <1>1, <1>2, <1>3, <1>4 DEF LimiterInv, FrontWakesInTime

LEMMA LimiterNextInvariant == LimiterInv /\ [LimiterNext]_limiterVars => LimiterInv'
<1> SUFFICES ASSUME LimiterInv, [LimiterNext]_limiterVars
             PROVE  LimiterInv'
  OBVIOUS
<1>1. CASE UNCHANGED limiterVars
  BY <1>1 DEF limiterVars, LimiterInv, LimiterTypeOK, FrontWakesInTime, Waiting
<1>2. CASE PassAtOnce
  BY <1>2, PassAtOnceInvariant
<1>3. CASE Tick
  BY <1>3, TickInvariant
<1>4. ASSUME NEW c \in Callers,
             (c \notin Waiting /\ Join(c)) \/ Pass(c) \/ SleepAgain(c) \/ GiveUp(c)
      PROVE  LimiterInv'
  BY <1>4, JoinInvariant, PassInvariant, SleepAgainInvariant, GiveUpInvariant
<1> QED
  BY <1>1, <1>2, <1>3, <1>4 DEF LimiterNext

\* In a queue that anybody may join or leave at any time, the request that found
\* it empty stays in front and passes within the limit.
THEOREM FrontIsServed == LimiterSpec => []FrontWakesInTime
<1>1. LimiterInv => FrontWakesInTime
  BY DEF LimiterInv
<1> QED
  BY <1>1, LimiterInitInvariant, LimiterNextInvariant, PTL DEF LimiterSpec

-----------------------------------------------------------------------------
(* The limit *)

\* The stamps are in the order in which requests passed.
StampsInOrder == \A i, j \in 1 .. Limit : i <= j => age[i] >= age[j]

\* The next request passes, alone or as the one that found the queue empty.
PassesInTurn == PassAtOnce \/ \E c \in Waiting \ behind : Pass(c)

LEMMA StampKeepsOrder ==
    ASSUME LimiterTypeOK, StampsInOrder, Stamp
    PROVE  StampsInOrder'
<1>1. Limit \in Nat \ {0} /\ Period \in Nat
  BY LimiterAssumption, StepIsShort
<1>2. \A i \in 1 .. Limit : /\ age'[i] = IF i = Limit THEN 0 ELSE age[i + 1]
                            /\ age[i] \in 0 .. Period
                            /\ i # Limit => i + 1 \in 1 .. Limit
  BY <1>1 DEF Stamp, LimiterTypeOK
<1>3. ASSUME NEW i \in 1 .. Limit, NEW j \in 1 .. Limit, i <= j
      PROVE  age'[i] >= age'[j]
  <2>1. CASE j = Limit
    BY <1>1, <1>2, <2>1
  <2>2. CASE j # Limit
    <3>1. i # Limit /\ i + 1 \in 1 .. Limit /\ j + 1 \in 1 .. Limit /\ i + 1 <= j + 1
      BY <1>1, <1>3, <2>2
    <3>2. age[i + 1] >= age[j + 1]
      BY <3>1 DEF StampsInOrder
    <3> QED
      BY <1>2, <2>2, <3>1, <3>2
  <2> QED
    BY <2>1, <2>2
<1> QED
  BY <1>3 DEF StampsInOrder

LEMMA TickKeepsOrder ==
    ASSUME LimiterTypeOK, StampsInOrder, Tick
    PROVE  StampsInOrder'
<1>1. \A i \in 1 .. Limit : /\ age'[i] = IF age[i] = Period THEN Period ELSE age[i] + 1
                            /\ age[i] \in 0 .. Period
  BY DEF Tick, LimiterTypeOK
<1> QED
  BY <1>1, StepIsShort DEF StampsInOrder

LEMMA StepKeepsOrder ==
    ASSUME LimiterTypeOK, StampsInOrder, [LimiterNext]_limiterVars
    PROVE  StampsInOrder'
<1>1. Stamp \/ Tick \/ UNCHANGED age
  BY DEF LimiterNext, PassAtOnce, Join, Pass, SleepAgain, GiveUp, limiterVars
<1>2. UNCHANGED age => StampsInOrder'
  BY DEF StampsInOrder
<1> QED
  BY <1>1, <1>2, StampKeepsOrder, TickKeepsOrder

LEMMA InitInOrder == LimiterInit => StampsInOrder
<1> SUFFICES ASSUME LimiterInit, NEW i \in 1 .. Limit, NEW j \in 1 .. Limit
             PROVE  age[i] >= age[j]
  BY DEF StampsInOrder
<1> QED
  BY StepIsShort DEF LimiterInit

LEMMA PassesInTime ==
    ASSUME LimiterInv, PassesInTurn
    PROVE  age[1] = Period
<1>1. CASE PassAtOnce
  BY <1>1 DEF PassAtOnce, Free
<1>2. ASSUME NEW c \in Waiting \ behind, Pass(c)
      PROVE  age[1] = Period
  <2>1. left[c] = 0 /\ left[c] + age[1] >= Period
    BY <1>2 DEF Pass, LimiterInv, FrontWakesInTime
  <2>2. age[1] \in 0 .. Period /\ Period \in Nat
    BY LimiterAssumption, StepIsShort DEF LimiterInv, LimiterTypeOK
  <2> QED
    BY <2>1, <2>2
<1> QED
  BY <1>1, <1>2 DEF PassesInTurn

\* A request that passes in its turn follows a stamp that is a period old, and the
\* stamps behind that one are younger: with it no more than Limit requests have
\* passed in any period, unless requests that queued behind others pass in a burst.
THEOREM LimitKept ==
    LimiterSpec => []StampsInOrder /\ [][PassesInTurn => age[1] = Period]_limiterVars
<1>1. LimiterSpec => []LimiterInv
  BY LimiterInitInvariant, LimiterNextInvariant, PTL DEF LimiterSpec
<1>2. LimiterInv => LimiterTypeOK
  BY DEF LimiterInv
<1>3. LimiterSpec => []StampsInOrder
  BY <1>1, <1>2, InitInOrder, StepKeepsOrder, PTL DEF LimiterSpec
<1>4. LimiterInv => (PassesInTurn => age[1] = Period)
  BY PassesInTime
<1> QED
  BY <1>1, <1>3, <1>4, PTL DEF LimiterSpec
=============================================================================
