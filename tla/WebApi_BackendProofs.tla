------------------------- MODULE WebApi_BackendProofs -------------------------
(***************************************************************************)
(* Proofs about WebApi_Backend for every set of callers and calls, every   *)
(* size of a chunk and every limit.                                        *)
(***************************************************************************)
EXTENDS WebApi_Backend, RpsLimiterProofs, FiniteSetTheorems, WellFoundedInduction

\* A refresh of one chunk at most: all it asks for is cached or wanted, but for what
\* could not be written.
Refreshing(p, k, n, ids, f, lost) ==
    k.op = "tracks" /\ Len(k.ids) <= ChunkSize =>
        /\ p = "read" \/ (p = "chunk" /\ n # 0) =>
             \A i \in 1 .. Len(k.ids) : f[k.ids[i]] # "absent" \/ k.ids[i] \in lost
        /\ p \in Requesting =>
             /\ n # 0
             /\ \A i \in 1 .. Len(k.ids) :
                  f[k.ids[i]] # "absent" \/ k.ids[i] \in lost \/ k.ids[i] \in ids

Placed(p, k, n) ==
    /\ p \in {"chunk", "read"} => k.op = "tracks"
    /\ p = "idle" => n = 0

Refreshed ==
    \A c \in Callers : /\ Placed(pc[c], call[c], pos[c])
                       /\ Refreshing(pc[c], call[c], pos[c], want[c], file, cut)

\* Only a kill or a write that fails tears a file, and a download begins without one.
NothingTorn ==
    /\ \A o \in Objects : file[o] = "partial" => o \in cut
    /\ \A c \in Callers : pc[c] = "download" => file[Image] = "absent"

IInv ==
    /\ TypeOK /\ FrontWakesInTime
    /\ DOMAIN call = Callers
    /\ call = [c \in Callers |-> call[c]]
    /\ Refreshed /\ NothingTorn

FileStates == {"absent", "partial", "complete"}

-----------------------------------------------------------------------------
(* The calls and their chunks *)

LEMMA CallFacts ==
    ASSUME NEW c \in Callers, NEW k \in Calls[c] \cup {Idle}
    PROVE  /\ k.op = "tracks" => k.ids \in Seq(Ids)
           /\ k.op \in {"track", "relinked"} => k.id \in Ids \cup {Me}
           /\ k.op = "top" => k.tracks \subseteq Ids
           /\ k.op = "pages" => k.pages \in Seq(SUBSET Ids) /\ k.pages # <<>>
           /\ k.op \in {"none", "image", "track", "relinked", "top", "tracks", "pages"}
           /\ Idle.op = "none"
           /\ k \in Calls[c] => k # Idle
<1>1. k \in Call \cup {Idle} /\ (k \in Calls[c] => k # Idle)
  BY CallsAssumption
<1>2. k \in Call => /\ k.op = "tracks" => k.ids \in Seq(Ids)
                    /\ k.op \in {"track", "relinked"} => k.id \in Ids \cup {Me}
                    /\ k.op = "top" => k.tracks \subseteq Ids
                    /\ k.op = "pages" => k.pages \in Seq(SUBSET Ids) /\ k.pages # <<>>
                    /\ k.op \in {"none", "image", "track", "relinked", "top", "tracks", "pages"}
  BY DEF Call
<1> QED
  BY <1>1, <1>2 DEF Idle

\* A finite set of numbers has a least one.
LEMMA Smallest ==
    ASSUME NEW S, S \subseteq Nat, S # {}, IsFiniteSet(S)
    PROVE  \E x \in S : \A y \in S : x <= y
<1> DEFINE below == [x \in S |-> {k \in S : k <= x}]
           segments == {below[x] : x \in S}
<1>0. \A x \in S : below[x] = {k \in S : k <= x}
  OBVIOUS
<1>d. \A g \in segments : \E x \in S : g = below[x]
  OBVIOUS
<1>e. \A x \in S : below[x] \in segments
  OBVIOUS
<1> HIDE DEF below, segments
<1>1. segments \subseteq FiniteSubsetsOf(S) /\ segments # {}
  <2>1. ASSUME NEW x \in S
        PROVE  below[x] \in FiniteSubsetsOf(S)
    <3>1. below[x] \subseteq S
      BY <1>0
    <3> QED
      BY <3>1, FS_Subset DEF FiniteSubsetsOf
  <2> QED
    BY <1>d, <1>e, <2>1
<1>2. PICK g \in segments : \A u \in segments : ~ (<<u, g>> \in StrictSubsetOrdering(S))
  <2>1. IsWellFoundedOn(StrictSubsetOrdering(S), FiniteSubsetsOf(S))
    BY FS_StrictSubsetOrderingWellFounded
  <2> QED
    BY <1>1, <2>1, WFMin
<1>3. PICK x \in S : g = below[x]
  BY <1>d
<1>4. ASSUME NEW y \in S, y < x
      PROVE  FALSE
  <2>1. below[y] \subseteq below[x] /\ below[y] # below[x]
    <3>1. x \in below[x] /\ x \notin below[y]
      <4>1. x \in Nat /\ y \in Nat /\ x <= x /\ ~ (x <= y)
        BY <1>4
      <4> QED
        BY <1>0, <4>1
    <3>2. \A k : k \in below[y] => k \in S /\ k <= y
      BY <1>0
    <3>3. \A k \in S : k <= y => k <= x
      BY <1>4
    <3>4. \A k : k \in below[y] => k \in below[x]
      BY <1>0, <3>2, <3>3
    <3>5. below[y] # below[x]
      BY <3>1
    <3> QED
      BY <3>4, <3>5
  <2>2. <<below[y], below[x]>> \in StrictSubsetOrdering(S)
    BY <1>0, <2>1 DEF StrictSubsetOrdering
  <2> QED
    BY <1>2, <1>3, <1>e, <2>2
<1> QED
  BY <1>4

\* No more positions than are left.
LEMMA PartOfRest ==
    ASSUME NEW i \in Nat, NEW n \in Nat, i <= n, NEW part, part \subseteq (i + 1) .. n
    PROVE  /\ IsFiniteSet(part) /\ Cardinality(part) \in Nat
           /\ Cardinality(part) <= n - i
<1>1. i + 1 \in Int /\ n \in Int
  OBVIOUS
<1>2. /\ IsFiniteSet((i + 1) .. n)
      /\ Cardinality((i + 1) .. n) = IF (i + 1) > n THEN 0 ELSE n - (i + 1) + 1
  BY <1>1, FS_Interval
<1>3. IsFiniteSet(part) /\ Cardinality(part) <= Cardinality((i + 1) .. n)
  BY <1>2, FS_Subset
<1>4. Cardinality(part) \in Nat
  BY <1>3, FS_CardinalityType
<1> QED
  BY <1>2, <1>3, <1>4

LEMMA AdvanceFacts ==
    ASSUME NEW ids \in Seq(Ids), NEW i \in Nat, NEW n \in Nat
    PROVE  /\ Advance(ids, i, n) \in (i + 1) .. (Len(ids) + 1) \cup {Len(ids) + 1}
           /\ Advance(ids, i, n) \in Nat \ {0}
           /\ n > Len(ids) - i => Advance(ids, i, n) = Len(ids) + 1
<1> DEFINE later == Uncached(ids, i + 1)
           nth == {j \in later : Cardinality({k \in later : k <= j}) = n}
<1>1. Advance(ids, i, n) = IF nth = {} THEN Len(ids) + 1 ELSE CHOOSE j \in nth : TRUE
  BY DEF Advance
<1>2. nth \subseteq later /\ later \subseteq (i + 1) .. Len(ids) /\ Len(ids) \in Nat
  BY LenProperties DEF Uncached
<1> HIDE DEF later
<1>3. nth # {} => (CHOOSE j \in nth : TRUE) \in nth
  OBVIOUS
<1>4. n > Len(ids) - i => nth = {}
  <2> SUFFICES ASSUME n > Len(ids) - i, NEW j \in nth
               PROVE  FALSE
    OBVIOUS
  <2>1. j \in later /\ j \in (i + 1) .. Len(ids)
        /\ Cardinality({k \in later : k <= j}) = n
    BY <1>2
  <2>2. {k \in later : k <= j} \subseteq (i + 1) .. Len(ids)
    BY <1>2
  <2>3. Cardinality({k \in later : k <= j}) <= Len(ids) - i
    BY <1>2, <2>1, <2>2, PartOfRest
  <2> QED
    BY <1>2, <2>1, <2>3
<1> HIDE DEF nth
<1>5. CASE nth = {}
  BY <1>1, <1>2, <1>5
<1>6. CASE nth # {}
  <2>1. Advance(ids, i, n) \in (i + 1) .. Len(ids)
    BY <1>1, <1>2, <1>3, <1>6
  <2>2. Advance(ids, i, n) \in Nat \ {0}
    BY <1>2, <2>1
  <2> QED
    BY <1>4, <1>6, <2>1, <2>2
<1> QED
  BY <1>5, <1>6

\* The first chunk begins at the first id that is not cached.
LEMMA FirstUncached ==
    ASSUME NEW ids \in Seq(Ids)
    PROVE  \A j \in 1 .. Len(ids) : j < Advance(ids, 0, 1) => IsCached(ids[j])
<1> DEFINE later == Uncached(ids, 1)
           nth == {j \in later : Cardinality({k \in later : k <= j}) = 1}
<1>1. Advance(ids, 0, 1) = IF nth = {} THEN Len(ids) + 1 ELSE CHOOSE j \in nth : TRUE
  BY DEF Advance
<1>2. /\ later \subseteq 1 .. Len(ids) /\ Len(ids) \in Nat
      /\ \A j \in 1 .. Len(ids) : j \notin later => IsCached(ids[j])
      /\ \A j \in later : j \in Nat
  BY LenProperties DEF Uncached
<1>3. \A part \in SUBSET later : IsFiniteSet(part)
  <2>1. IsFiniteSet(1 .. Len(ids))
    BY <1>2, FS_Interval
  <2>2. \A part \in SUBSET later : part \in SUBSET (1 .. Len(ids))
    BY <1>2
  <2> QED
    BY <2>1, <2>2, FS_Subset
<1>4. \A j : j \in nth <=> j \in later /\ Cardinality({k \in later : k <= j}) = 1
  OBVIOUS
<1> HIDE DEF later, nth
<1>5. later # {} => nth # {}
  <2> SUFFICES ASSUME later # {}
               PROVE  nth # {}
    OBVIOUS
  <2>1. IsFiniteSet(later) /\ later \subseteq Nat
    BY <1>2, <1>3
  <2>2. PICK x \in later : \A y \in later : x <= y
    BY <2>1, Smallest
  <2>3. {k \in later : k <= x} = {x}
    <3>1. \A k \in later : k <= x <=> k = x
      BY <1>2, <2>2
    <3> QED
      BY <3>1
  <2>4. Cardinality({k \in later : k <= x}) = 1
    BY <2>3, FS_Singleton
  <2> QED
    BY <1>4, <2>4
<1>6. ASSUME NEW j \in nth, NEW k \in later
      PROVE  j <= k
  <2> DEFINE part == {m \in later : m <= j}
  <2>1. j \in later /\ Cardinality(part) = 1 /\ IsFiniteSet(part)
    <3>1. part \in SUBSET later
      OBVIOUS
    <3> QED
      BY <1>3, <1>4, <3>1
  <2>2. j \in Nat /\ k \in Nat /\ j \in part /\ (k <= j => k \in part)
    BY <1>2, <2>1
  <2> HIDE DEF part
  <2>3. PICK x : part = {x}
    BY <2>1, FS_Singleton
  <2> QED
    BY <2>2, <2>3
<1>7. CASE nth = {}
  BY <1>2, <1>5, <1>7
<1>8. CASE nth # {}
  <2>1. Advance(ids, 0, 1) \in nth
    BY <1>1, <1>8
  <2>2. Advance(ids, 0, 1) \in Nat
    BY <1>2, <1>4, <2>1
  <2>3. \A j \in later : Advance(ids, 0, 1) <= j /\ j \in Nat
    BY <1>2, <1>6, <2>1
  <2> QED
    BY <1>2, <2>2, <2>3
<1> QED
  BY <1>7, <1>8

\* A chunk holds the ids that are not cached from where it begins on, up to its
\* size.
LEMMA ChunkFacts ==
    ASSUME NEW ids \in Seq(Ids), NEW i \in 1 .. Len(ids)
    PROVE  /\ Chunk(ids, i) \subseteq Ids
           /\ Len(ids) <= ChunkSize =>
                \A j \in i .. Len(ids) : IsCached(ids[j]) \/ ids[j] \in Chunk(ids, i)
<1> DEFINE later == Uncached(ids, i + 1)
<1>1. /\ later \subseteq (i + 1) .. Len(ids) /\ Len(ids) \in Nat /\ ChunkSize \in Nat
      /\ \A j \in 1 .. Len(ids) : ids[j] \in Ids
  BY LenProperties, ElementOfSeq, BackendAssumption DEF Uncached
<1>2. \A j \in (i + 1) .. Len(ids) : j \notin later => IsCached(ids[j])
  BY DEF Uncached
<1>3. Chunk(ids, i) = {ids[j] : j \in {j \in {i} \cup later :
                                          Cardinality({k \in later : k <= j}) < ChunkSize}}
  BY DEF Chunk
<1>4. \A j : Len(ids) <= ChunkSize => Cardinality({k \in later : k <= j}) < ChunkSize
  <2> SUFFICES ASSUME NEW j, Len(ids) <= ChunkSize
               PROVE  Cardinality({k \in later : k <= j}) < ChunkSize
    OBVIOUS
  <2>1. {k \in later : k <= j} \subseteq (i + 1) .. Len(ids)
    BY <1>1
  <2>2. /\ Cardinality({k \in later : k <= j}) <= Len(ids) - i
        /\ Cardinality({k \in later : k <= j}) \in Nat
    BY <1>1, <2>1, PartOfRest
  <2> QED
    BY <1>1, <2>2
<1> HIDE DEF later
<1>5. Chunk(ids, i) \subseteq Ids
  <2>1. \A j \in {i} \cup later : j \in 1 .. Len(ids)
    BY <1>1
  <2> QED
    BY <1>1, <1>3, <2>1
<1>6. ASSUME Len(ids) <= ChunkSize, NEW j \in i .. Len(ids)
      PROVE  IsCached(ids[j]) \/ ids[j] \in Chunk(ids, i)
  <2>1. j = i \/ j \in (i + 1) .. Len(ids)
    BY <1>1
  <2> QED
    BY <1>2, <1>3, <1>4, <1>6, <2>1
<1> QED
  BY <1>5, <1>6

-----------------------------------------------------------------------------
(* The invariant *)

LEMMA InitInvariant == Init => IInv
<1> SUFFICES ASSUME Init PROVE IInv
  OBVIOUS
<1>1. LimiterTypeOK /\ FrontWakesInTime
  BY LimiterInitInvariant DEF Init, LimiterInv
<1>2. Waiting = {}
  BY DEF Init, LimiterInit, Waiting
<1>3. file \in [Objects -> FileStates] /\ \A o \in Objects : file[o] # "partial"
  BY DEF Init, FileStates
<1>4. TypeOK
  BY <1>1, <1>2, <1>3, BackendAssumption DEF Init, TypeOK, FileStates, Point
<1>5. Refreshed
  BY DEF Init, Refreshed, Placed, Refreshing, Idle, Requesting
<1>6. NothingTorn
  BY <1>3 DEF Init, NothingTorn
<1> QED
  BY <1>1, <1>4, <1>5, <1>6 DEF Init, IInv

\* What a step of c leaves as the rest of a call.
Moves(c, p, k, n, ids, m) ==
    /\ pc' = [pc EXCEPT ![c] = p]
    /\ call' = [call EXCEPT ![c] = k]
    /\ pos' = [pos EXCEPT ![c] = n]
    /\ want' = [want EXCEPT ![c] = ids]
    /\ sent' = [sent EXCEPT ![c] = m]
    /\ aborting' \subseteq Callers

\* What exists, or could not be written, goes on to.
FilesKept ==
    \A o \in Objects \ {Image} :
        file[o] # "absent" \/ o \in cut => file'[o] # "absent" \/ o \in cut'

\* Only who holds the images' mutex touches the image.
FilesMove(c) ==
    /\ file' \in [Objects -> FileStates] /\ cut' \subseteq Objects
    /\ FilesKept
    /\ \A o \in Objects : file'[o] = "partial" => o \in cut'
    /\ imageLock = c \/ file'[Image] = file[Image]

LEMMA RefreshingGrows ==
    ASSUME NEW c \in Callers, NEW k \in Calls[c] \cup {Idle}, NEW p, NEW n, NEW ids,
           Refreshing(p, k, n, ids, file, cut), FilesKept
    PROVE  Refreshing(p, k, n, ids, file', cut')
<1>1. k.op = "tracks" => \A i \in 1 .. Len(k.ids) : k.ids[i] \in Objects \ {Image}
  BY CallFacts, ElementOfSeq, BackendAssumption DEF Objects
<1> QED
  BY <1>1 DEF Refreshing, FilesKept

LEMMA CallerMoves ==
    ASSUME IInv, NEW c \in Callers, NEW p \in Point, NEW k \in Calls[c] \cup {Idle},
           NEW n \in Nat, NEW ids \in SUBSET (Ids \cup {Me}), NEW m \in 0 .. Sends,
           Moves(c, p, k, n, ids, m), FilesMove(c),
           p = "idle" <=> k = Idle,
           LimiterInv', Waiting' = IF p = "waiting" THEN Waiting \cup {c} ELSE Waiting \ {c},
           imageLock' = IF p = "download" THEN c ELSE IF imageLock = c THEN Nobody ELSE imageLock,
           p = "download" => imageLock = Nobody /\ file'[Image] = "absent",
           Placed(p, k, n), Refreshing(p, k, n, ids, file', cut')
    PROVE  IInv'
<1>1. /\ pc \in [Callers -> Point] /\ DOMAIN call = Callers /\ pos \in [Callers -> Nat]
      /\ want \in [Callers -> SUBSET (Ids \cup {Me})] /\ sent \in [Callers -> 0 .. Sends]
      /\ \A d \in Callers : call[d] \in Calls[d] \cup {Idle}
      /\ \A d \in Callers : pc[d] = "idle" <=> call[d] = Idle
      /\ \A d \in Callers : imageLock = d <=> pc[d] = "download"
      /\ Waiting = {d \in Callers : pc[d] = "waiting"}
      /\ imageLock \in Callers \cup {Nobody}
      /\ call = [d \in Callers |-> call[d]]
  BY DEF IInv, TypeOK
<1>2. \A d \in Callers : /\ pc'[d] = IF d = c THEN p ELSE pc[d]
                         /\ call'[d] = IF d = c THEN k ELSE call[d]
                         /\ pos'[d] = IF d = c THEN n ELSE pos[d]
                         /\ want'[d] = IF d = c THEN ids ELSE want[d]
  BY <1>1 DEF Moves
<1>3. DOMAIN call' = Callers /\ call' = [d \in Callers |-> call'[d]]
  BY <1>1 DEF Moves
<1>4. TypeOK'
  <2>1. pc' \in [Callers -> Point] /\ pos' \in [Callers -> Nat]
        /\ want' \in [Callers -> SUBSET (Ids \cup {Me})] /\ sent' \in [Callers -> 0 .. Sends]
        /\ aborting' \subseteq Callers
    BY <1>1 DEF Moves
  <2>2. \A d \in Callers : call'[d] \in Calls[d] \cup {Idle} /\ (pc'[d] = "idle" <=> call'[d] = Idle)
    BY <1>1, <1>2
  <2>3. Waiting' = {d \in Callers : pc'[d] = "waiting"}
    BY <1>1, <1>2
  <2>4. imageLock' \in Callers \cup {Nobody}
        /\ \A d \in Callers : imageLock' = d <=> pc'[d] = "download"
    BY <1>1, <1>2, BackendAssumption
  <2> QED
    BY <2>1, <2>2, <2>3, <2>4 DEF TypeOK, FilesMove, FileStates, LimiterInv
<1>5. Refreshed'
  <2>1. ASSUME NEW d \in Callers, d # c
        PROVE  Placed(pc[d], call[d], pos[d]) /\ Refreshing(pc[d], call[d], pos[d], want[d], file', cut')
    BY <1>1, RefreshingGrows DEF FilesMove, IInv, Refreshed
  <2> QED
    BY <1>2, <2>1 DEF Refreshed
<1>6. NothingTorn'
  <2>1. ASSUME NEW d \in Callers, pc'[d] = "download"
        PROVE  file'[Image] = "absent"
    <3>1. CASE d = c
      BY <1>2, <2>1, <3>1
    <3>2. CASE d # c
      <4>1. pc[d] = "download" /\ imageLock = d
        BY <1>1, <1>2, <2>1, <3>2
      <4>2. file[Image] = "absent" /\ file'[Image] = file[Image]
        BY <3>2, <4>1 DEF FilesMove, IInv, NothingTorn
      <4> QED
        BY <4>2
    <3> QED
      BY <3>1, <3>2
  <2> QED
    BY <2>1 DEF NothingTorn, FilesMove
<1> QED
  BY <1>3, <1>4, <1>5, <1>6 DEF IInv, LimiterInv

\* A step that leaves the files alone.
LEMMA FilesStay ==
    ASSUME IInv, NEW c \in Callers, UNCHANGED <<file, cut>>
    PROVE  FilesMove(c)
BY DEF IInv, TypeOK, NothingTorn, FilesMove, FilesKept, FileStates

\* The values of a call.
LEMMA CallTypes ==
    ASSUME IInv, NEW c \in Callers
    PROVE  /\ pc[c] \in Point /\ call[c] \in Calls[c] \cup {Idle} /\ pos[c] \in Nat
           /\ want[c] \in SUBSET (Ids \cup {Me}) /\ sent[c] \in 0 .. Sends
           /\ pc[c] = "idle" <=> call[c] = Idle
           /\ imageLock = c <=> pc[c] = "download"
           /\ c \in Waiting <=> pc[c] = "waiting"
           /\ call = [call EXCEPT ![c] = call[c]] /\ pos = [pos EXCEPT ![c] = pos[c]]
           /\ want = [want EXCEPT ![c] = want[c]] /\ sent = [sent EXCEPT ![c] = sent[c]]
           /\ pc = [pc EXCEPT ![c] = pc[c]]
           /\ aborting \subseteq Callers
           /\ Placed(pc[c], call[c], pos[c]) /\ Refreshing(pc[c], call[c], pos[c], want[c], file, cut)
           /\ LimiterInv
           /\ Nobody \notin Callers
BY BackendAssumption DEF IInv, TypeOK, Refreshed, LimiterInv

\* A step with no part in the limiter's queue and no image.
LEMMA PlainMove ==
    ASSUME IInv, NEW c \in Callers, NEW p \in Point, NEW k \in Calls[c] \cup {Idle},
           NEW n \in Nat, NEW ids \in SUBSET (Ids \cup {Me}), NEW m \in 0 .. Sends,
           Moves(c, p, k, n, ids, m), FilesMove(c),
           pc[c] \notin {"waiting", "download"}, p \notin {"waiting", "download"},
           UNCHANGED limiterVars, imageLock' = imageLock,
           p = "idle" <=> k = Idle,
           Placed(p, k, n), Refreshing(p, k, n, ids, file', cut')
    PROVE  IInv'
<1>1. /\ c \notin Waiting /\ imageLock # c
      /\ LimiterInv
  BY CallTypes
<1>2. LimiterInv' /\ Waiting' = Waiting
  BY <1>1 DEF limiterVars, LimiterInv, LimiterTypeOK, FrontWakesInTime, Waiting
<1> QED
  BY <1>1, <1>2, CallerMoves

\* A call returns.
LEMMA ReturnMoves ==
    ASSUME IInv, NEW c \in Callers, Return(c)
    PROVE  /\ Moves(c, "idle", Idle, 0, {}, 0)
           /\ "idle" \in Point /\ 0 \in 0 .. Sends
           /\ Placed("idle", Idle, 0)
           /\ \A f, lost : Refreshing("idle", Idle, 0, {}, f, lost)
BY CallTypes, BackendAssumption DEF Return, Goto, Moves, Point, Placed, Refreshing, Requesting

LEMMA ReturnInvariant ==
    ASSUME IInv, NEW c \in Callers, Return(c), FilesMove(c),
           pc[c] \notin {"waiting", "download"}, UNCHANGED limiterVars, imageLock' = imageLock
    PROVE  IInv'
BY ReturnMoves, PlainMove

\* A call requests what it has not found.
LEMMA RequestMoves ==
    ASSUME IInv, NEW c \in Callers, NEW ids \in SUBSET (Ids \cup {Me}), Request(c, ids),
           NEW k, NEW n, call' = [call EXCEPT ![c] = k], pos' = [pos EXCEPT ![c] = n],
           UNCHANGED aborting
    PROVE  Moves(c, "request", k, n, ids, 0) /\ 0 \in 0 .. Sends /\ "request" \in Point
BY CallTypes, BackendAssumption DEF Request, Goto, Moves, Point, Requesting

-----------------------------------------------------------------------------
(* The steps of a call *)

LEMMA StartCallInvariant ==
    ASSUME IInv, NEW c \in Callers, StartCall(c)
    PROVE  IInv'
<1>1. PICK k \in Calls[c] :
        /\ call' = [call EXCEPT ![c] = k]
        /\ \/ k.op = "tracks" /\ Goto(c, "chunk")
           \/ k.op = "image" /\ Goto(c, "image")
  BY DEF StartCall
<1>2. /\ pc[c] = "idle" /\ UNCHANGED <<limiterVars, file, pos, want, sent, aborting, imageLock, cut>>
  BY DEF StartCall
<1>3. k # Idle
  BY CallFacts
<1>4. pos[c] = 0
  BY <1>2, CallTypes DEF Placed
<1>5. ASSUME NEW p \in {"chunk", "image"}, Goto(c, p), p = "chunk" => k.op = "tracks"
      PROVE  IInv'
  <2>1. Moves(c, p, k, pos[c], want[c], sent[c])
    BY <1>1, <1>2, <1>5, CallTypes DEF Moves, Goto
  <2>2. Placed(p, k, pos[c]) /\ Refreshing(p, k, pos[c], want[c], file', cut')
    BY <1>4, <1>5 DEF Placed, Refreshing, Requesting
  <2>3. p \in Point /\ p # "idle" /\ p \notin {"waiting", "download"}
    BY DEF Point
  <2> QED
    BY <1>2, <1>3, <2>1, <2>2, <2>3, CallTypes, FilesStay, PlainMove
<1> QED
  BY <1>1, <1>5

\* What is asked for are tracks, artists or the user.
LEMMA AskedFacts ==
    ASSUME NEW c \in Callers, NEW k \in Calls[c] \cup {Idle},
           k.op \in {"track", "relinked", "top"}
    PROVE  Asked(k) \in SUBSET (Ids \cup {Me}) /\ FirstAsked(k) \in SUBSET (Ids \cup {Me})
<1>1. CASE k.op = "top"
  BY <1>1, CallFacts DEF Asked, FirstAsked
<1>2. CASE k.op # "top"
  BY <1>2, CallFacts DEF Asked, FirstAsked
<1> QED
  BY <1>1, <1>2

LEMMA GetTrackInvariant ==
    ASSUME IInv, NEW c \in Callers, GetTrack(c)
    PROVE  IInv'
<1>1. PICK k \in Calls[c] :
        /\ k.op \in {"track", "relinked", "top"}
        /\ call' = [call EXCEPT ![c] = k]
        /\ Request(c, FirstAsked(k))
  BY DEF GetTrack
<1>2. pc[c] = "idle" /\ UNCHANGED <<limiterVars, file, pos, aborting, imageLock, cut>>
  BY DEF GetTrack
<1>3. k # Idle /\ FirstAsked(k) \in SUBSET (Ids \cup {Me})
  BY <1>1, CallFacts, AskedFacts
<1>4. Moves(c, "request", k, pos[c], FirstAsked(k), 0) /\ 0 \in 0 .. Sends /\ "request" \in Point
  <2>1. pos' = [pos EXCEPT ![c] = pos[c]] /\ UNCHANGED aborting
    BY <1>2, CallTypes
  <2> QED
    BY <1>1, <1>3, <2>1, RequestMoves
<1>5. Placed("request", k, pos[c]) /\ Refreshing("request", k, pos[c], FirstAsked(k), file', cut')
  BY <1>1 DEF Placed, Refreshing
<1> QED
  BY <1>2, <1>3, <1>4, <1>5, CallTypes, FilesStay, PlainMove

LEMMA GetTracksFromPlaylistInvariant ==
    ASSUME IInv, NEW c \in Callers, GetTracksFromPlaylist(c)
    PROVE  IInv'
<1>1. PICK k \in Calls[c] :
        /\ k.op = "pages"
        /\ call' = [call EXCEPT ![c] = k]
        /\ pos' = [pos EXCEPT ![c] = 1]
        /\ Request(c, k.pages[1])
  BY DEF GetTracksFromPlaylist
<1>2. pc[c] = "idle" /\ UNCHANGED <<limiterVars, file, aborting, imageLock, cut>>
  BY DEF GetTracksFromPlaylist
<1>3. k # Idle /\ k.pages[1] \in SUBSET (Ids \cup {Me})
  <2>1. k # Idle /\ k.pages \in Seq(SUBSET Ids) /\ k.pages # <<>>
    BY <1>1, CallFacts
  <2>2. 1 \in 1 .. Len(k.pages)
    BY <2>1, EmptySeq, LenProperties
  <2>3. k.pages[1] \in SUBSET Ids
    BY <2>1, <2>2, ElementOfSeq
  <2> QED
    BY <2>1, <2>3
<1>4. Moves(c, "request", k, 1, k.pages[1], 0) /\ 0 \in 0 .. Sends /\ "request" \in Point
  BY <1>1, <1>2, <1>3, RequestMoves
<1>5. Placed("request", k, 1) /\ Refreshing("request", k, 1, k.pages[1], file', cut')
  BY <1>1 DEF Placed, Refreshing
<1> QED
  BY <1>2, <1>3, <1>4, <1>5, CallTypes, FilesStay, PlainMove

LEMMA NextPageInvariant ==
    ASSUME IInv, NEW c \in Callers, NextPage(c)
    PROVE  IInv'
<1> DEFINE ids == want[c] \cup call[c].pages[pos[c] + 1]
<1>1. /\ pc[c] = "cache" /\ MorePages(c)
      /\ pos' = [pos EXCEPT ![c] = pos[c] + 1]
      /\ Request(c, ids)
      /\ UNCHANGED <<limiterVars, file, call, aborting, imageLock, cut>>
  BY DEF NextPage
<1>2. call[c].op = "pages" /\ pos[c] < Len(call[c].pages)
  BY <1>1 DEF MorePages
<1>3. ids \in SUBSET (Ids \cup {Me}) /\ pos[c] + 1 \in Nat
  <2>1. call[c].pages \in Seq(SUBSET Ids) /\ pos[c] \in Nat
    BY <1>2, CallTypes, CallFacts
  <2>2. pos[c] + 1 \in 1 .. Len(call[c].pages)
    BY <1>2, <2>1, LenProperties
  <2>3. call[c].pages[pos[c] + 1] \in SUBSET Ids
    BY <2>1, <2>2, ElementOfSeq
  <2> QED
    BY <2>1, <2>3, CallTypes
<1> HIDE DEF ids
<1>4. Moves(c, "request", call[c], pos[c] + 1, ids, 0) /\ 0 \in 0 .. Sends /\ "request" \in Point
  <2>1. call' = [call EXCEPT ![c] = call[c]] /\ UNCHANGED aborting
    BY <1>1, CallTypes
  <2> QED
    BY <1>1, <1>3, <2>1, RequestMoves
<1>5. /\ Placed("request", call[c], pos[c] + 1)
      /\ Refreshing("request", call[c], pos[c] + 1, ids, file', cut')
  BY <1>2 DEF Placed, Refreshing
<1> QED
  BY <1>1, <1>3, <1>4, <1>5, CallTypes, FilesStay, PlainMove

\* A turn of the loop: the first finds the first chunk, and the next one the end.
LEMMA RefreshInvariant ==
    ASSUME IInv, NEW c \in Callers, RefreshCacheForTracks(c)
    PROVE  IInv'
<1> DEFINE ids == Ordered(c)
           n == IF pos[c] = 0 THEN 1 ELSE ChunkSize
           next == Advance(ids, pos[c], n)
<1>1. /\ pc[c] = "chunk" /\ UNCHANGED <<limiterVars, file, call, aborting, imageLock, cut>>
      /\ next > Len(ids) => Goto(c, "read") /\ UNCHANGED <<pos, want, sent>>
      /\ ~ (next > Len(ids)) => /\ pos' = [pos EXCEPT ![c] = next]
                                /\ Request(c, Chunk(ids, next))
  BY DEF RefreshCacheForTracks, LastOf
<1>2. /\ call[c].op = "tracks" /\ call[c] \in Calls[c] \cup {Idle} /\ call[c] # Idle
      /\ ids \in Seq(Ids) /\ Len(ids) \in Nat /\ call[c].ids = ids
  BY <1>1, CallTypes, CallFacts, LenProperties DEF Placed, Ordered
<1>3. n \in Nat /\ pos[c] \in Nat
  BY CallTypes, BackendAssumption
<1>4. next \in Nat \ {0} /\ next <= Len(ids) + 1
      /\ (n > Len(ids) - pos[c] => next = Len(ids) + 1)
      /\ (pos[c] = 0 => \A j \in 1 .. Len(ids) : j < next => IsCached(ids[j]))
  <2> HIDE DEF n, ids
  <2>1. /\ Advance(ids, pos[c], n) \in (pos[c] + 1) .. (Len(ids) + 1) \cup {Len(ids) + 1}
        /\ Advance(ids, pos[c], n) \in Nat \ {0}
        /\ n > Len(ids) - pos[c] => Advance(ids, pos[c], n) = Len(ids) + 1
    BY <1>2, <1>3, AdvanceFacts
  <2>2. pos[c] = 0 => \A j \in 1 .. Len(ids) : j < Advance(ids, 0, 1) => IsCached(ids[j])
    BY <1>2, FirstUncached
  <2> QED
    BY <1>2, <1>3, <2>1, <2>2 DEF n
<1>5. Len(ids) <= ChunkSize /\ pos[c] # 0 =>
        /\ next = Len(ids) + 1
        /\ \A j \in 1 .. Len(ids) : IsCached(ids[j]) \/ ids[j] \in cut
  <2> SUFFICES ASSUME Len(ids) <= ChunkSize, pos[c] # 0
               PROVE  /\ next = Len(ids) + 1
                      /\ \A j \in 1 .. Len(ids) : IsCached(ids[j]) \/ ids[j] \in cut
    OBVIOUS
  <2>1. \A j \in 1 .. Len(ids) : IsCached(ids[j]) \/ ids[j] \in cut
    BY <1>1, <1>2, CallTypes DEF Refreshing, IsCached
  <2>2. n > Len(ids) - pos[c]
    BY <1>2, <1>3
  <2> QED
    BY <1>4, <2>1, <2>2
<1> HIDE DEF next, n, ids
<1>6. CASE next > Len(ids)
  <2>1. Moves(c, "read", call[c], pos[c], want[c], sent[c])
    BY <1>1, <1>6, CallTypes DEF Moves, Goto
  <2>2. Len(ids) <= ChunkSize => \A j \in 1 .. Len(ids) : IsCached(ids[j]) \/ ids[j] \in cut
    BY <1>2, <1>3, <1>4, <1>5, <1>6
  <2>3. Refreshing("read", call[c], pos[c], want[c], file', cut') /\ Placed("read", call[c], pos[c])
    BY <1>1, <1>2, <2>2 DEF Refreshing, Placed, IsCached, Requesting
  <2>4. "read" \in Point
    BY DEF Point
  <2> QED
    BY <1>1, <1>2, <2>1, <2>3, <2>4, CallTypes, FilesStay, PlainMove
<1>7. CASE ~ (next > Len(ids))
  <2>1. next \in 1 .. Len(ids) /\ next \in Nat
    BY <1>2, <1>4, <1>7
  <2>2. /\ Chunk(ids, next) \subseteq Ids
        /\ Len(ids) <= ChunkSize =>
             \A j \in next .. Len(ids) : IsCached(ids[j]) \/ ids[j] \in Chunk(ids, next)
    BY <1>2, <2>1, ChunkFacts
  <2>3. Moves(c, "request", call[c], next, Chunk(ids, next), 0) /\ 0 \in 0 .. Sends
        /\ "request" \in Point
    BY <1>1, <1>7, <2>2, CallTypes, RequestMoves
  <2>4. Len(ids) <= ChunkSize => /\ pos[c] = 0
                                 /\ \A j \in 1 .. Len(ids) : j < next => IsCached(ids[j])
    BY <1>2, <1>4, <1>5, <1>7
  <2>5. Len(ids) <= ChunkSize =>
          \A j \in 1 .. Len(ids) : IsCached(ids[j]) \/ ids[j] \in Chunk(ids, next)
    <3>1. \A j \in 1 .. Len(ids) : j < next \/ j \in next .. Len(ids)
      BY <1>2, <2>1
    <3> QED
      BY <2>2, <2>4, <3>1
  <2>6. Refreshing("request", call[c], next, Chunk(ids, next), file', cut')
        /\ Placed("request", call[c], next)
    BY <1>1, <1>2, <2>1, <2>5 DEF Refreshing, Placed, IsCached
  <2> QED
    BY <1>1, <1>2, <2>1, <2>2, <2>3, <2>6, CallTypes, FilesStay, PlainMove
<1> QED
  BY <1>6, <1>7

LEMMA GetResponseInvariant ==
    ASSUME IInv, NEW c \in Callers, GetResponse(c)
    PROVE  IInv'
<1>1. pc[c] = "request" /\ UNCHANGED <<file, imageLock, cut>>
  BY DEF GetResponse
<1>2. CASE Return(c) /\ UNCHANGED limiterVars
  BY <1>1, <1>2, FilesStay, ReturnInvariant
<1>3. ASSUME UNCHANGED <<call, pos, want, sent, aborting>>, NEW p \in {"send", "waiting"}, Goto(c, p)
      PROVE  /\ Moves(c, p, call[c], pos[c], want[c], sent[c]) /\ p \in Point
             /\ Placed(p, call[c], pos[c]) /\ Refreshing(p, call[c], pos[c], want[c], file', cut')
             /\ call[c] # Idle /\ p # "idle" /\ p # "download"
             /\ imageLock # c /\ FilesMove(c)
  <2>1. Moves(c, p, call[c], pos[c], want[c], sent[c])
    BY <1>3, CallTypes DEF Moves, Goto
  <2>2. Placed(p, call[c], pos[c]) /\ Refreshing(p, call[c], pos[c], want[c], file', cut')
    BY <1>1, CallTypes DEF Placed, Refreshing, Requesting
  <2>3. p \in Point
    BY DEF Point, Requesting
  <2> QED
    BY <1>1, <2>1, <2>2, <2>3, CallTypes, FilesStay
<1>4. CASE PassAtOnce /\ Goto(c, "send") /\ UNCHANGED <<call, pos, want, sent, aborting>>
  <2>1. LimiterInv' /\ Waiting' = Waiting \ {c}
    BY <1>1, <1>4, CallTypes, PassAtOnceInvariant
  <2> QED
    BY <1>1, <1>3, <1>4, <2>1, CallTypes, CallerMoves
<1>5. CASE Join(c) /\ Goto(c, "waiting") /\ UNCHANGED <<call, pos, want, sent, aborting>>
  <2>1. LimiterInv' /\ Waiting' = Waiting \cup {c}
    BY <1>1, <1>5, CallTypes, JoinInvariant
  <2> QED
    BY <1>1, <1>3, <1>5, <2>1, CallTypes, CallerMoves
<1> QED
  BY <1>2, <1>4, <1>5 DEF GetResponse

LEMMA WaitInvariant ==
    ASSUME IInv, NEW c \in Callers, Wait(c)
    PROVE  IInv'
<1>1. UNCHANGED backend /\ LimiterInv
  BY CallTypes DEF Wait
<1>2. CASE Pass(c) /\ Goto(c, "send")
  <2>1. LimiterInv' /\ Waiting' = Waiting \ {c} /\ pc[c] = "waiting"
    BY <1>1, <1>2, CallTypes, PassInvariant
  <2>2. Moves(c, "send", call[c], pos[c], want[c], sent[c])
    BY <1>1, <1>2, CallTypes DEF Moves, Goto, backend
  <2>3. Placed("send", call[c], pos[c]) /\ Refreshing("send", call[c], pos[c], want[c], file', cut')
    BY <1>1, <2>1, CallTypes DEF Placed, Refreshing, Requesting, backend
  <2>4. "send" \in Point /\ imageLock # c /\ call[c] # Idle
    BY <2>1, CallTypes DEF Point, Requesting
  <2>5. FilesMove(c) /\ imageLock' = imageLock
    BY <1>1, FilesStay DEF backend
  <2> QED
    BY <2>1, <2>2, <2>3, <2>4, <2>5, CallTypes, CallerMoves
<1>3. CASE SleepAgain(c) /\ UNCHANGED pc
  <2>1. LimiterInv' /\ Waiting' = Waiting
    BY <1>1, <1>3, SleepAgainInvariant
  <2> QED
    BY <1>1, <1>3, <2>1
       DEF IInv, TypeOK, LimiterInv, Refreshed, NothingTorn, backend, IsCached
<1> QED
  BY <1>2, <1>3 DEF Wait

LEMMA WaitAbortedInvariant ==
    ASSUME IInv, NEW c \in Callers, WaitAborted(c)
    PROVE  IInv'
<1>1. GiveUp(c) /\ Return(c) /\ UNCHANGED <<file, imageLock, cut>>
  BY DEF WaitAborted
<1>2. LimiterInv' /\ Waiting' = Waiting \ {c} /\ pc[c] = "waiting"
  BY <1>1, CallTypes, GiveUpInvariant
<1>3. imageLock # c
  BY <1>2, CallTypes
<1> QED
  BY <1>1, <1>2, <1>3, FilesStay, ReturnMoves, CallerMoves

\* From one point of a request to the next.
LEMMA RequestGoes ==
    ASSUME IInv, NEW c \in Callers, NEW p \in Requesting \ {"waiting"}, Goto(c, p),
           pc[c] \in Requesting \ {"waiting"}, NEW m \in 0 .. Sends,
           sent' = [sent EXCEPT ![c] = m],
           UNCHANGED <<limiterVars, file, call, pos, want, aborting, imageLock, cut>>
    PROVE  IInv'
<1>1. Moves(c, p, call[c], pos[c], want[c], m)
  BY CallTypes DEF Moves, Goto
<1>2. Placed(p, call[c], pos[c]) /\ Refreshing(p, call[c], pos[c], want[c], file', cut')
  BY CallTypes DEF Placed, Refreshing, Requesting
<1>3. p \in Point /\ p # "idle" /\ call[c] # Idle
      /\ p \notin {"waiting", "download"} /\ pc[c] \notin {"waiting", "download"}
  BY CallTypes DEF Point, Requesting
<1> QED
  BY <1>1, <1>2, <1>3, CallTypes, FilesStay, PlainMove

LEMMA RequestInvariant ==
    ASSUME IInv, NEW c \in Callers,
           \/ GetTracks(c) \/ RequestFails(c) \/ RequestSucceeds(c) \/ TooManyRequests(c)
           \/ SleepEnds(c)
    PROVE  IInv'
<1>1. CASE GetTracks(c) \/ RequestFails(c)
  BY <1>1, FilesStay, ReturnInvariant DEF GetTracks, RequestFails
<1>2. CASE RequestSucceeds(c)
  <2>1. 0 \in 0 .. Sends
    BY BackendAssumption
  <2> QED
    BY <1>2, <2>1, RequestGoes DEF RequestSucceeds, Requesting
<1>3. CASE TooManyRequests(c)
  <2>1. sent[c] + 1 \in 0 .. Sends
    BY <1>3, CallTypes, BackendAssumption DEF TooManyRequests
  <2> QED
    BY <1>3, <2>1, RequestGoes DEF TooManyRequests, Requesting
<1>4. CASE SleepEnds(c)
  <2>1. CASE sent[c] < Sends /\ c \notin aborting
    BY <1>4, <2>1, CallTypes, RequestGoes DEF SleepEnds, Requesting
  <2>2. CASE ~ (sent[c] < Sends /\ c \notin aborting)
    BY <1>4, <2>2, FilesStay, ReturnInvariant DEF SleepEnds
  <2> QED
    BY <2>1, <2>2
<1> QED
  BY <1>1, <1>2, <1>3, <1>4

\* Only absent files are written, and what cannot be written is remembered.
LEMMA CacheObjectsFiles ==
    ASSUME IInv, NEW c \in Callers, CacheObjects(c)
    PROVE  /\ FilesMove(c)
           /\ \A o \in Objects : file[o] = "complete" => file'[o] = "complete"
           /\ \A o \in Cacheable(c) : o \in Objects /\ (file'[o] # "absent" \/ o \in cut')
<1> DEFINE ids == Written(Cacheable(c))
<1>1. /\ file \in [Objects -> FileStates] /\ DOMAIN file = Objects /\ cut \subseteq Objects
      /\ \A o \in Objects : file[o] = "partial" => o \in cut
  BY DEF IInv, TypeOK, FileStates, NothingTorn
<1>2. Cacheable(c) \subseteq Ids \cup {Me}
  BY CallTypes DEF Cacheable
<1>3. ids \subseteq Objects /\ Image \notin ids /\ Image \in Objects
  BY <1>2, BackendAssumption DEF Written, Objects
<1>4. \A o \in ids : file[o] = "absent"
  BY DEF Written, IsCached
<1>5. \A o \in Cacheable(c) : o \in Objects /\ (o \in ids \/ file[o] # "absent")
  BY <1>2 DEF Written, IsCached, Objects
<1> HIDE DEF ids
<1>6. CASE CacheObject(c)
  <2>1. /\ file' = [o \in DOMAIN file |-> IF o \in ids THEN "complete" ELSE file[o]]
        /\ cut' = cut \ ids
    BY <1>6 DEF CacheObject, ids
  <2>2. file' \in [Objects -> FileStates]
    BY <1>1, <2>1 DEF FileStates
  <2> QED
    BY <1>1, <1>3, <1>5, <2>1, <2>2 DEF FilesMove, FilesKept
<1>7. CASE WriteFails(c)
  <2>1. PICK lost \in SUBSET ids, torn \in SUBSET ids :
          /\ file' = [o \in DOMAIN file |-> IF o \in torn THEN "partial"
                                            ELSE IF o \in ids \ lost THEN "complete"
                                            ELSE file[o]]
          /\ torn \subseteq lost /\ cut' = lost /\ cut = {}
    BY <1>7 DEF WriteFails, MayFail, ids
  <2>2. file' \in [Objects -> FileStates] /\ cut' \subseteq Objects
    BY <1>1, <1>3, <2>1 DEF FileStates
  <2>3. \A o \in Objects : file'[o] = IF o \in torn THEN "partial"
                                      ELSE IF o \in ids \ lost THEN "complete" ELSE file[o]
    BY <1>1, <2>1
  <2>4. FilesKept /\ \A o \in Objects : file'[o] = "partial" => o \in cut'
    BY <1>1, <2>1, <2>3 DEF FilesKept
  <2>5. file'[Image] = file[Image]
    BY <1>3, <2>1, <2>3
  <2>6. \A o \in Objects : file[o] = "complete" => file'[o] = "complete"
    BY <1>4, <2>1, <2>3
  <2> QED
    BY <1>1, <1>5, <2>1, <2>2, <2>3, <2>4, <2>5, <2>6 DEF FilesMove
<1> QED
  BY <1>6, <1>7 DEF CacheObjects

LEMMA CacheObjectsInvariant ==
    ASSUME IInv, NEW c \in Callers, CacheObjects(c)
    PROVE  IInv'
<1>1. pc[c] = "cache" /\ UNCHANGED <<limiterVars, imageLock>>
  BY DEF CacheObjects
<1>2. /\ FilesMove(c)
      /\ \A o \in Cacheable(c) : file'[o] # "absent" \/ o \in cut'
  BY CacheObjectsFiles
<1>5. CASE call[c].op = "tracks"
  <2>1. Goto(c, "chunk") /\ want' = [want EXCEPT ![c] = {}] /\ UNCHANGED <<call, pos, sent, aborting>>
    BY <1>5 DEF CacheObjects
  <2>2. Moves(c, "chunk", call[c], pos[c], {}, sent[c]) /\ "chunk" \in Point
    BY <2>1, CallTypes DEF Moves, Goto, Point
  <2>3. Placed("chunk", call[c], pos[c])
    BY <1>5 DEF Placed
  <2>4. Refreshing("chunk", call[c], pos[c], {}, file', cut')
    <3>1. /\ Cacheable(c) = want[c]
          /\ \A i \in 1 .. Len(call[c].ids) : call[c].ids[i] \in Objects \ {Image}
      BY <1>5, CallTypes, CallFacts, ElementOfSeq, BackendAssumption
         DEF Objects, Cacheable, MorePages
    <3>2. ASSUME Len(call[c].ids) <= ChunkSize, NEW i \in 1 .. Len(call[c].ids)
          PROVE  file'[call[c].ids[i]] # "absent" \/ call[c].ids[i] \in cut'
      <4>1. \/ file[call[c].ids[i]] # "absent" \/ call[c].ids[i] \in cut
            \/ call[c].ids[i] \in want[c]
        BY <1>1, <1>5, <3>2, CallTypes DEF Refreshing, Requesting
      <4> QED
        BY <1>2, <3>1, <4>1 DEF FilesMove, FilesKept
    <3> QED
      BY <3>2 DEF Refreshing, Requesting
  <2> QED
    BY <1>1, <1>2, <2>2, <2>3, <2>4, CallTypes, PlainMove
<1>6. CASE call[c].op # "tracks" /\ NeedsUser(call[c]) /\ want[c] = {Me}
  <2>1. Request(c, Asked(call[c])) /\ UNCHANGED <<call, pos, aborting>>
    BY <1>6 DEF CacheObjects
  <2>2. Asked(call[c]) \in SUBSET (Ids \cup {Me})
    BY <1>6, CallTypes, AskedFacts DEF NeedsUser
  <2>3. Moves(c, "request", call[c], pos[c], Asked(call[c]), 0) /\ 0 \in 0 .. Sends
        /\ "request" \in Point
    BY <2>1, <2>2, CallTypes, RequestMoves
  <2>4. /\ Placed("request", call[c], pos[c])
        /\ Refreshing("request", call[c], pos[c], Asked(call[c]), file', cut')
    BY <1>6 DEF Placed, Refreshing
  <2> QED
    BY <1>1, <1>2, <2>2, <2>3, <2>4, CallTypes, PlainMove
<1>7. CASE call[c].op # "tracks" /\ ~ (NeedsUser(call[c]) /\ want[c] = {Me})
  <2>1. Return(c)
    BY <1>7 DEF CacheObjects
  <2> QED
    BY <1>1, <1>2, <2>1, ReturnInvariant
<1> QED
  BY <1>5, <1>6, <1>7

LEMMA GetImageInvariant ==
    ASSUME IInv, NEW c \in Callers, GetImage(c)
    PROVE  IInv'
<1>1. pc[c] = "image" /\ imageLock = Nobody /\ UNCHANGED <<limiterVars, file, cut>>
  BY DEF GetImage
<1>2. CASE IsCached(Image)
  BY <1>1, <1>2, FilesStay, ReturnInvariant DEF GetImage
<1>3. CASE ~IsCached(Image)
  <2>1. Goto(c, "download") /\ imageLock' = c /\ UNCHANGED <<call, pos, want, sent, aborting>>
    BY <1>3 DEF GetImage
  <2>2. Moves(c, "download", call[c], pos[c], want[c], sent[c]) /\ "download" \in Point
    BY <2>1, CallTypes DEF Moves, Goto, Point
  <2>3. /\ Placed("download", call[c], pos[c])
        /\ Refreshing("download", call[c], pos[c], want[c], file', cut')
    BY DEF Placed, Refreshing, Requesting
  <2>4. LimiterInv' /\ Waiting' = Waiting \ {c}
    BY <1>1, CallTypes
       DEF limiterVars, LimiterInv, LimiterTypeOK, FrontWakesInTime, Waiting
  <2>5. file'[Image] = "absent" /\ call[c] # Idle
    BY <1>1, <1>3, CallTypes DEF IsCached
  <2> QED
    BY <1>1, <2>1, <2>2, <2>3, <2>4, <2>5, CallTypes, FilesStay, CallerMoves
<1> QED
  BY <1>2, <1>3

LEMMA DownloadEndsInvariant ==
    ASSUME IInv, NEW c \in Callers, DownloadEnds(c)
    PROVE  IInv'
<1>1. PICK f \in {"absent", "complete"} : file' = [file EXCEPT ![Image] = f]
  BY DEF DownloadEnds, DownloadRemoved
<1>2. pc[c] = "download" /\ imageLock = c /\ imageLock' = Nobody /\ Return(c)
      /\ UNCHANGED <<limiterVars, cut>>
  BY CallTypes DEF DownloadEnds
<1>3. FilesMove(c)
  <2>1. /\ file \in [Objects -> FileStates] /\ cut' = cut /\ cut \subseteq Objects
        /\ \A o \in Objects : file[o] = "partial" => o \in cut
    BY <1>2 DEF IInv, TypeOK, NothingTorn, FileStates
  <2> QED
    BY <1>1, <1>2, <2>1 DEF FilesMove, FilesKept, FileStates
<1>4. LimiterInv' /\ Waiting' = Waiting \ {c}
  BY <1>2, CallTypes DEF limiterVars, LimiterInv, LimiterTypeOK, FrontWakesInTime, Waiting
<1> QED
  BY <1>2, <1>3, <1>4, ReturnMoves, CallerMoves

-----------------------------------------------------------------------------
(* The other steps *)

LEMMA AbortInvariant ==
    ASSUME IInv, NEW c \in Callers, Abort(c)
    PROVE  IInv'
<1>1. UNCHANGED <<limiterVars, file, call, pc, pos, want, sent, imageLock, cut>>
      /\ aborting' \subseteq Callers
  BY CallTypes DEF Abort
<1>2. LimiterTypeOK' /\ FrontWakesInTime' /\ Waiting' = Waiting
  BY <1>1, CallTypes DEF limiterVars, LimiterInv, LimiterTypeOK, FrontWakesInTime, Waiting
<1> QED
  BY <1>1, <1>2 DEF IInv, TypeOK, Refreshed, NothingTorn

LEMMA TimePassesInvariant ==
    ASSUME IInv, TimePasses
    PROVE  IInv'
<1>1. LimiterInv' /\ Waiting' = Waiting
  BY TickInvariant DEF TimePasses, IInv, TypeOK, LimiterInv
<1> QED
  BY <1>1 DEF TimePasses, IInv, TypeOK, LimiterInv, Refreshed, NothingTorn, backend

\* Files after a kill: at most one is torn.
LEMMA KillFiles ==
    ASSUME IInv, Kill
    PROVE  /\ file' \in [Objects -> FileStates] /\ cut' \subseteq Objects
           /\ \A o \in Objects : file[o] = "complete" => file'[o] = "complete"
           /\ \A o \in Objects : file'[o] = "partial" => o \in cut'
<1>1. /\ file \in [Objects -> FileStates] /\ DOMAIN file = Objects /\ cut \subseteq Objects
      /\ \A o \in Objects : file[o] = "partial" => o \in cut
  BY DEF IInv, TypeOK, FileStates, NothingTorn
<1>2. CASE UNCHANGED <<file, cut>>
  BY <1>1, <1>2
<1>3. ASSUME NEW id \in Objects, NEW done \in SUBSET Objects, id \notin done,
             file[id] = "absent", cut = {}, cut' = {id},
             file' = [o \in Objects |-> IF o = id THEN "partial"
                                        ELSE IF o \in done THEN "complete"
                                        ELSE file[o]]
      PROVE  /\ file' \in [Objects -> FileStates] /\ cut' \subseteq Objects
             /\ \A o \in Objects : file[o] = "complete" => file'[o] = "complete"
             /\ \A o \in Objects : file'[o] = "partial" => o \in cut'
  BY <1>1, <1>3 DEF FileStates
<1>4. ASSUME NEW c \in Callers, pc[c] = "download", MayFail, cut' = {Image},
             file' = [file EXCEPT ![Image] = "partial"]
      PROVE  /\ file[Image] = "absent" /\ Image \in Objects /\ cut = {}
             /\ file' = [o \in Objects |-> IF o = Image THEN "partial"
                                           ELSE IF o \in {} THEN "complete"
                                           ELSE file[o]]
  BY <1>1, <1>4 DEF IInv, NothingTorn, MayFail, Objects
<1>5. ASSUME NEW c \in Callers, NEW id \in Written(Cacheable(c))
      PROVE  file[id] = "absent" /\ id \in Objects /\ Written(Cacheable(c)) \subseteq Objects
  BY CallTypes DEF Written, IsCached, Cacheable, Objects
<1>6. \/ UNCHANGED <<file, cut>>
      \/ \E c \in Callers :
           /\ pc[c] = "download" /\ MayFail /\ cut' = {Image}
           /\ file' = [file EXCEPT ![Image] = "partial"]
      \/ \E c \in Callers : \E id \in Written(Cacheable(c)) :
           \E done \in SUBSET (Written(Cacheable(c)) \ {id}) :
             /\ MayFail /\ cut' = {id}
             /\ file' = [o \in DOMAIN file |-> IF o = id THEN "partial"
                                               ELSE IF o \in done THEN "complete"
                                               ELSE file[o]]
  BY DEF Kill
<1>7. CASE \E c \in Callers :
             /\ pc[c] = "download" /\ MayFail /\ cut' = {Image}
             /\ file' = [file EXCEPT ![Image] = "partial"]
  <2>1. {} \in SUBSET Objects /\ Image \notin {}
    OBVIOUS
  <2> QED
    BY <1>3, <1>4, <1>7, <2>1
<1>8. CASE \E c \in Callers : \E id \in Written(Cacheable(c)) :
             \E done \in SUBSET (Written(Cacheable(c)) \ {id}) :
               /\ MayFail /\ cut' = {id}
               /\ file' = [o \in DOMAIN file |-> IF o = id THEN "partial"
                                                 ELSE IF o \in done THEN "complete"
                                                 ELSE file[o]]
  <2>1. PICK c \in Callers : \E id \in Written(Cacheable(c)) :
          \E done \in SUBSET (Written(Cacheable(c)) \ {id}) :
             /\ MayFail /\ cut' = {id}
             /\ file' = [o \in DOMAIN file |-> IF o = id THEN "partial"
                                               ELSE IF o \in done THEN "complete"
                                               ELSE file[o]]
    BY <1>8
  <2>2. PICK id \in Written(Cacheable(c)) : \E done \in SUBSET (Written(Cacheable(c)) \ {id}) :
          /\ MayFail /\ cut' = {id}
          /\ file' = [o \in DOMAIN file |-> IF o = id THEN "partial"
                                            ELSE IF o \in done THEN "complete"
                                            ELSE file[o]]
    BY <2>1
  <2>3. file[id] = "absent" /\ id \in Objects /\ Written(Cacheable(c)) \subseteq Objects
    BY <1>5
  <2> QED
    BY <1>1, <1>3, <2>2, <2>3 DEF MayFail
<1> QED
  BY <1>2, <1>6, <1>7, <1>8

LEMMA KillInvariant ==
    ASSUME IInv, Kill
    PROVE  IInv'
<1>1. (LimiterInit)'
  BY DEF Kill, LimiterInit
<1>2. (LimiterInit => LimiterInv)'
  BY LimiterInitInvariant, PTL
<1>3. LimiterInv'
  BY <1>1, <1>2
<1>4. Waiting' = {}
  BY <1>1 DEF LimiterInit, Waiting
<1>5. /\ call' = [c \in Callers |-> Idle] /\ pc' = [c \in Callers |-> "idle"]
      /\ pos' = [c \in Callers |-> 0] /\ want' = [c \in Callers |-> {}]
      /\ sent' = [c \in Callers |-> 0] /\ aborting' = {} /\ imageLock' = Nobody
  BY DEF Kill
<1>6. TypeOK'
  BY <1>3, <1>4, <1>5, KillFiles, BackendAssumption DEF TypeOK, LimiterInv, FileStates, Point
<1>7. Refreshed'
  BY <1>5 DEF Refreshed, Placed, Refreshing, Idle, Requesting
<1>8. NothingTorn'
  BY <1>5, KillFiles DEF NothingTorn
<1> QED
  BY <1>3, <1>5, <1>6, <1>7, <1>8 DEF IInv, LimiterInv

LEMMA NextInvariant == IInv /\ [Next]_vars => IInv'
<1> SUFFICES ASSUME IInv, [Next]_vars
             PROVE  IInv'
  OBVIOUS
<1>1. ASSUME NEW c \in Callers, Proceed(c)
      PROVE  IInv'
  BY <1>1, RefreshInvariant, GetResponseInvariant, WaitInvariant, RequestInvariant,
     NextPageInvariant, CacheObjectsInvariant, GetImageInvariant, DownloadEndsInvariant DEF Proceed
<1>2. ASSUME NEW c \in Callers,
             \/ StartCall(c) \/ GetTrack(c) \/ GetTracksFromPlaylist(c)
             \/ WaitAborted(c) \/ Abort(c)
      PROVE  IInv'
  BY <1>2, StartCallInvariant, GetTrackInvariant, GetTracksFromPlaylistInvariant,
     WaitAbortedInvariant, AbortInvariant
<1>3. CASE TimePasses \/ Kill
  BY <1>3, TimePassesInvariant, KillInvariant
<1>4. CASE UNCHANGED vars
  <2>1. UNCHANGED limiterVars /\ UNCHANGED backend /\ UNCHANGED pc
    BY <1>4 DEF vars
  <2>2. LimiterTypeOK' /\ FrontWakesInTime' /\ Waiting' = Waiting
    BY <2>1 DEF limiterVars, IInv, TypeOK, LimiterTypeOK, FrontWakesInTime, Waiting
  <2> QED
    BY <2>1, <2>2 DEF backend, IInv, TypeOK, Refreshed, NothingTorn
<1> QED
  BY <1>1, <1>2, <1>3, <1>4 DEF Next

-----------------------------------------------------------------------------
(* The theorems *)

\* The invariant all others follow from.
THEOREM Invariance == Spec => []IInv
BY InitInvariant, NextInvariant, PTL DEF Spec

\* The queue of the limiter holds exactly the calls that wait, and the images'
\* mutex belongs to the call that downloads.
THEOREM TypeCorrect == Spec => []TypeOK
<1>1. IInv => TypeOK
  BY DEF IInv
<1> QED
  BY <1>1, Invariance, PTL

\* However calls arrive, give up and are killed, the front of the queue passes in
\* time and nobody overtakes it.
THEOREM FrontPasses == Spec => []FrontWakesInTime
<1>1. IInv => FrontWakesInTime
  BY DEF IInv
<1> QED
  BY <1>1, Invariance, PTL

LEMMA RefreshedIsCached == IInv => ChunkCached
<1> SUFFICES ASSUME IInv, NEW c \in Callers, pc[c] = "read", LastOf(c) <= ChunkSize,
                    NEW i \in 1 .. LastOf(c)
             PROVE  Readable(Ordered(c)[i]) \/ Ordered(c)[i] \in cut
  BY DEF ChunkCached
<1>1. call[c].op = "tracks"
  BY CallTypes DEF Placed
<1>2. Ordered(c)[i] \in Objects
  BY <1>1, CallTypes, CallFacts, ElementOfSeq DEF Ordered, LastOf, Objects
<1>3. file[Ordered(c)[i]] # "absent" \/ Ordered(c)[i] \in cut
  BY <1>1, CallTypes DEF Refreshing, Ordered, LastOf
<1>4. file[Ordered(c)[i]] = "partial" => Ordered(c)[i] \in cut
  BY <1>2 DEF IInv, NothingTorn
<1>5. file[Ordered(c)[i]] \in FileStates
  BY <1>2 DEF IInv, TypeOK, FileStates
<1> QED
  BY <1>3, <1>4, <1>5 DEF Readable, FileStates

\* A refresh of one chunk finds every track it was asked for, whatever other calls
\* cache while it is under way.
THEOREM TracksRefreshed == Spec => []ChunkCached
BY RefreshedIsCached, Invariance, PTL

\* A failed or aborted download leaves nothing behind.
THEOREM NoTornImageEver == Spec => []NoTornImage
<1>1. IInv => NoTornImage
  BY DEF IInv, NothingTorn, NoTornImage, Objects
<1> QED
  BY <1>1, Invariance, PTL

LEMMA StepKeepsComplete ==
    ASSUME IInv, [Next]_vars
    PROVE  \A id \in DOMAIN file : file[id] = "complete" => file'[id] = "complete"
<1>1. file \in [Objects -> FileStates] /\ DOMAIN file = Objects
  BY DEF IInv, TypeOK, FileStates
<1>2. ASSUME NEW c \in Callers, CacheObjects(c)
      PROVE  \A id \in Objects : file[id] = "complete" => file'[id] = "complete"
  BY <1>2, CacheObjectsFiles
<1>3. ASSUME NEW c \in Callers, DownloadEnds(c)
      PROVE  \A id \in Objects : file[id] = "complete" => file'[id] = "complete"
  <2>1. file[Image] = "absent"
    BY <1>3 DEF DownloadEnds, IInv, NothingTorn
  <2>2. \A id \in Objects : id # Image => file'[id] = file[id]
    BY <1>1, <1>3 DEF DownloadEnds
  <2> QED
    BY <2>1, <2>2
<1>4. CASE Kill
  BY <1>1, <1>4, KillFiles
<1>5. ASSUME NEW c \in Callers,
             \/ StartCall(c) \/ GetTrack(c) \/ GetTracksFromPlaylist(c)
             \/ Proceed(c) \/ WaitAborted(c) \/ Abort(c),
             ~CacheObjects(c), ~DownloadEnds(c)
      PROVE  file' = file
  BY <1>5 DEF Proceed, StartCall, GetTrack, GetTracksFromPlaylist, WaitAborted, Abort, NextPage,
              RefreshCacheForTracks, GetTracks,
              GetResponse, Wait, RequestFails, RequestSucceeds, TooManyRequests, SleepEnds,
              GetImage, backend
<1>6. CASE TimePasses \/ UNCHANGED vars
  BY <1>6 DEF TimePasses, vars, backend
<1> QED
  BY <1>1, <1>2, <1>3, <1>4, <1>5, <1>6 DEF Next

\* Not even a kill damages a file that is complete.
THEOREM CompleteFilesStay == Spec => CompleteForGood
BY Invariance, StepKeepsComplete, PTL DEF Spec, CompleteForGood

-----------------------------------------------------------------------------
(* What an answer leaves in the cache *)

\* What the request of a call stands for: the pages of a list so far, the object of
\* GetTrack, and for the top tracks those or, before them, the user.
Gathering(k, n, ids) ==
    /\ k.op = "pages" => n \in 1 .. Len(k.pages) /\ ids = UNION {k.pages[i] : i \in 1 .. n}
    /\ k.op = "track" => ids = {k.id}
    /\ k.op = "top" => ids = k.tracks \/ ids = {Me}

Gathered == \A c \in Callers : Gathering(call[c], pos[c], want[c])

LEMMA CallerGathers ==
    ASSUME IInv, Gathered, NEW c \in Callers, NEW k, NEW n, NEW ids,
           call' = [call EXCEPT ![c] = k], pos' = [pos EXCEPT ![c] = n],
           want' = [want EXCEPT ![c] = ids], Gathering(k, n, ids)
    PROVE  Gathered'
<1>1. DOMAIN call = Callers /\ DOMAIN pos = Callers /\ DOMAIN want = Callers
  BY DEF IInv, TypeOK
<1>2. \A d \in Callers : /\ call'[d] = IF d = c THEN k ELSE call[d]
                         /\ pos'[d] = IF d = c THEN n ELSE pos[d]
                         /\ want'[d] = IF d = c THEN ids ELSE want[d]
  BY <1>1
<1>3. \A d \in Callers : Gathering(call'[d], pos'[d], want'[d])
  BY <1>2 DEF Gathered
<1> QED
  BY <1>3 DEF Gathered

LEMMA IdleGathers ==
    ASSUME NEW k, k.op \in {"none", "image", "tracks", "relinked"}, NEW n, NEW ids
    PROVE  Gathering(k, n, ids)
BY DEF Gathering

LEMMA ReturnGathers ==
    ASSUME IInv, Gathered, NEW c \in Callers, Return(c)
    PROVE  Gathered'
<1>1. Gathering(Idle, 0, {})
  BY IdleGathers DEF Idle
<1> QED
  BY <1>1, CallerGathers DEF Return

\* A step that leaves all calls where they are in their answers.
LEMMA SameGathered ==
    ASSUME Gathered, UNCHANGED <<call, pos, want>>
    PROVE  Gathered'
BY DEF Gathered

LEMMA StartGathers ==
    ASSUME IInv, Gathered, NEW c \in Callers,
           StartCall(c) \/ GetTrack(c) \/ GetTracksFromPlaylist(c)
    PROVE  Gathered'
<1>1. CASE StartCall(c)
  <2>1. PICK k \in Calls[c] : /\ call' = [call EXCEPT ![c] = k]
                              /\ k.op \in {"tracks", "image"}
    BY <1>1 DEF StartCall
  <2>2. pos' = [pos EXCEPT ![c] = pos[c]] /\ want' = [want EXCEPT ![c] = want[c]]
    BY <1>1, CallTypes DEF StartCall
  <2>3. Gathering(k, pos[c], want[c])
    BY <2>1, IdleGathers
  <2> QED
    BY <2>1, <2>2, <2>3, CallerGathers
<1>2. CASE GetTrack(c)
  <2>1. PICK k \in Calls[c] : /\ k.op \in {"track", "relinked", "top"}
                              /\ call' = [call EXCEPT ![c] = k]
                              /\ want' = [want EXCEPT ![c] = FirstAsked(k)]
    BY <1>2 DEF GetTrack, Request
  <2>2. pos' = [pos EXCEPT ![c] = pos[c]]
    BY <1>2, CallTypes DEF GetTrack
  <2>3. Gathering(k, pos[c], FirstAsked(k))
    BY <2>1 DEF Gathering, FirstAsked, Asked, NeedsUser
  <2> QED
    BY <2>1, <2>2, <2>3, CallerGathers
<1>3. CASE GetTracksFromPlaylist(c)
  <2>1. PICK k \in Calls[c] : /\ k.op = "pages"
                              /\ call' = [call EXCEPT ![c] = k]
                              /\ pos' = [pos EXCEPT ![c] = 1]
                              /\ want' = [want EXCEPT ![c] = k.pages[1]]
    BY <1>3 DEF GetTracksFromPlaylist, Request
  <2>2. 1 \in 1 .. Len(k.pages)
    BY <2>1, CallFacts, EmptySeq, LenProperties
  <2>3. k.pages[1] = UNION {k.pages[i] : i \in 1 .. 1}
    <3>1. \A i \in 1 .. 1 : i = 1
      OBVIOUS
    <3>2. {k.pages[i] : i \in 1 .. 1} = {k.pages[1]}
      BY <3>1
    <3> QED
      BY <3>2
  <2>4. Gathering(k, 1, k.pages[1])
    BY <2>1, <2>2, <2>3 DEF Gathering
  <2> QED
    BY <2>1, <2>4, CallerGathers
<1> QED
  BY <1>1, <1>2, <1>3

\* The tracks of the next page join those of the pages before.
LEMMA NextPageGathers ==
    ASSUME IInv, Gathered, NEW c \in Callers, NextPage(c)
    PROVE  Gathered'
<1> DEFINE k == call[c]
           n == pos[c]
           ids == want[c] \cup k.pages[n + 1]
<1>1. k.op = "pages" /\ n < Len(k.pages)
  BY DEF NextPage, MorePages
<1>2. call' = [call EXCEPT ![c] = k]
  BY CallTypes DEF NextPage
<1>3. pos' = [pos EXCEPT ![c] = n + 1] /\ want' = [want EXCEPT ![c] = ids]
  BY DEF NextPage, Request
<1>4. n \in 1 .. Len(k.pages) /\ want[c] = UNION {k.pages[i] : i \in 1 .. n}
  BY <1>1 DEF Gathered, Gathering
<1>5. Len(k.pages) \in Nat
  BY <1>1, CallTypes, CallFacts, LenProperties
<1> HIDE DEF k, n
<1>6. n + 1 \in 1 .. Len(k.pages)
  BY <1>1, <1>4, <1>5
<1>7. \A i : i \in 1 .. (n + 1) <=> i \in 1 .. n \/ i = n + 1
  BY <1>4, <1>5
<1>8. ids = UNION {k.pages[i] : i \in 1 .. (n + 1)}
  <2>1. {k.pages[i] : i \in 1 .. (n + 1)} = {k.pages[i] : i \in 1 .. n} \cup {k.pages[n + 1]}
    BY <1>7
  <2> QED
    BY <1>4, <2>1
<1>9. Gathering(k, n + 1, ids)
  BY <1>1, <1>6, <1>8 DEF Gathering
<1> HIDE DEF ids
<1> QED
  BY <1>2, <1>3, <1>9, CallerGathers

LEMMA CacheObjectsGathers ==
    ASSUME IInv, Gathered, NEW c \in Callers, CacheObjects(c)
    PROVE  Gathered'
<1>1. call = [call EXCEPT ![c] = call[c]] /\ pos = [pos EXCEPT ![c] = pos[c]]
  BY CallTypes
<1>2. CASE call[c].op = "tracks"
  <2>1. want' = [want EXCEPT ![c] = {}] /\ UNCHANGED <<call, pos>>
    BY <1>2 DEF CacheObjects
  <2>2. Gathering(call[c], pos[c], {})
    BY <1>2, IdleGathers
  <2> QED
    BY <1>1, <2>1, <2>2, CallerGathers
<1>3. CASE call[c].op # "tracks" /\ NeedsUser(call[c]) /\ want[c] = {Me}
  <2>1. want' = [want EXCEPT ![c] = Asked(call[c])] /\ UNCHANGED <<call, pos>>
    BY <1>3 DEF CacheObjects, Request
  <2>2. Gathering(call[c], pos[c], Asked(call[c]))
    BY <1>3 DEF NeedsUser, Gathering, Asked
  <2> QED
    BY <1>1, <2>1, <2>2, CallerGathers
<1>4. CASE call[c].op # "tracks" /\ ~ (NeedsUser(call[c]) /\ want[c] = {Me})
  BY <1>4, ReturnGathers DEF CacheObjects
<1> QED
  BY <1>2, <1>3, <1>4

LEMMA RefreshGathers ==
    ASSUME IInv, Gathered, NEW c \in Callers, RefreshCacheForTracks(c)
    PROVE  Gathered'
<1> DEFINE next == Advance(Ordered(c), pos[c], IF pos[c] = 0 THEN 1 ELSE ChunkSize)
<1>1. pc[c] = "chunk" /\ UNCHANGED call
  BY DEF RefreshCacheForTracks
<1>2. call[c].op = "tracks" /\ call = [call EXCEPT ![c] = call[c]]
  BY <1>1, CallTypes DEF Placed
<1>3. \A n, ids : Gathering(call[c], n, ids)
  BY <1>2, IdleGathers
<1>4. \/ UNCHANGED <<pos, want>>
      \/ /\ pos' = [pos EXCEPT ![c] = next]
         /\ want' = [want EXCEPT ![c] = Chunk(Ordered(c), next)]
  BY DEF RefreshCacheForTracks, Request
<1> HIDE DEF next
<1> QED
  BY <1>1, <1>2, <1>3, <1>4, CallerGathers, SameGathered

LEMMA StepGathers ==
    ASSUME IInv, Gathered, [Next]_vars
    PROVE  Gathered'
<1>1. ASSUME NEW c \in Callers, Proceed(c)
      PROVE  Gathered'
  <2>1. CASE \/ RefreshCacheForTracks(c) \/ NextPage(c) \/ CacheObjects(c)
    BY <2>1, RefreshGathers, NextPageGathers, CacheObjectsGathers
  <2>2. CASE GetTracks(c) \/ RequestFails(c) \/ DownloadEnds(c)
    BY <2>2, ReturnGathers DEF GetTracks, RequestFails, DownloadEnds
  <2>3. CASE GetResponse(c) \/ SleepEnds(c) \/ GetImage(c)
    <3>1. Return(c) \/ UNCHANGED <<call, pos, want>>
      BY <2>3 DEF GetResponse, SleepEnds, GetImage
    <3> QED
      BY <3>1, ReturnGathers, SameGathered
  <2>4. CASE Wait(c) \/ RequestSucceeds(c) \/ TooManyRequests(c)
    BY <2>4, SameGathered DEF Wait, backend, RequestSucceeds, TooManyRequests
  <2> QED
    BY <1>1, <2>1, <2>2, <2>3, <2>4 DEF Proceed
<1>2. ASSUME NEW c \in Callers,
             \/ StartCall(c) \/ GetTrack(c) \/ GetTracksFromPlaylist(c)
             \/ WaitAborted(c) \/ Abort(c)
      PROVE  Gathered'
  <2>1. CASE StartCall(c) \/ GetTrack(c) \/ GetTracksFromPlaylist(c)
    BY <2>1, StartGathers
  <2>2. CASE WaitAborted(c)
    BY <2>2, ReturnGathers DEF WaitAborted
  <2>3. CASE Abort(c)
    BY <2>3, SameGathered DEF Abort
  <2> QED
    BY <1>2, <2>1, <2>2, <2>3
<1>3. CASE Kill
  <2>1. call' = [c \in Callers |-> Idle]
    BY <1>3 DEF Kill
  <2>2. \A c \in Callers : call'[c].op = "none"
    BY <2>1 DEF Idle
  <2> QED
    BY <2>2 DEF Gathered, Gathering
<1>4. CASE TimePasses \/ UNCHANGED vars
  BY <1>4, SameGathered DEF TimePasses, vars, backend
<1> QED
  BY <1>1, <1>2, <1>3, <1>4 DEF Next

LEMMA InitGathered == Init => Gathered
BY DEF Init, Gathered, Gathering, Idle

\* The call that returns has asked for its whole answer.
LEMMA AnswerGathered ==
    ASSUME IInv, Gathered, NEW c \in Callers, call[c].op \in {"track", "top", "pages"},
           pc[c] = "cache", CacheObjects(c), pc'[c] = "idle"
    PROVE  Cacheable(c) = Answer(call[c])
<1>1. call[c] # Idle /\ call[c] \in Calls[c] \cup {Idle} /\ pc = [pc EXCEPT ![c] = pc[c]]
      /\ pos[c] \in Nat /\ Gathering(call[c], pos[c], want[c])
  BY CallTypes, BackendAssumption DEF Gathered
<1>2. ~MorePages(c)
  BY DEF CacheObjects
<1>3. Cacheable(c) = want[c]
  BY <1>2 DEF Cacheable
<1>4. ~ (NeedsUser(call[c]) /\ want[c] = {Me})
  <2>1. SUFFICES ASSUME NeedsUser(call[c]), want[c] = {Me}
                 PROVE  FALSE
    OBVIOUS
  <2>2. Goto(c, "request")
    BY <2>1 DEF CacheObjects, Request
  <2>3. pc'[c] = "request"
    BY <1>1, <2>2 DEF Goto, IInv, TypeOK
  <2> QED
    BY <2>3
<1>5. CASE call[c].op = "pages"
  <2>1. Len(call[c].pages) \in Nat
    BY <1>1, <1>5, CallFacts, LenProperties
  <2>2. pos[c] = Len(call[c].pages)
    BY <1>1, <1>2, <1>5, <2>1 DEF Gathering, MorePages
  <2> QED
    BY <1>1, <1>3, <1>5, <2>2 DEF Gathering, Answer
<1>6. CASE call[c].op = "track"
  BY <1>1, <1>3, <1>6 DEF Gathering, Answer, Asked
<1>7. CASE call[c].op = "top"
  BY <1>1, <1>3, <1>4, <1>7 DEF Gathering, Answer, Asked, NeedsUser
<1> QED
  BY <1>5, <1>6, <1>7

LEMMA StepCachesAnswer ==
    ASSUME IInv, Gathered, NEW c \in Callers, pc[c] = "cache", CacheObjects(c), pc'[c] = "idle",
           call[c].op \in {"track", "top", "pages"}, NEW id \in Answer(call[c])
    PROVE  file'[id] = "complete" \/ id \in cut'
<1>1. Cacheable(c) = Answer(call[c])
  BY AnswerGathered
<1>2. /\ FilesMove(c)
      /\ id \in Objects /\ (file'[id] # "absent" \/ id \in cut')
  BY <1>1, CacheObjectsFiles
<1>3. file'[id] \in FileStates /\ (file'[id] = "partial" => id \in cut')
  BY <1>2 DEF FilesMove
<1> QED
  BY <1>2, <1>3 DEF FileStates

\* A call that returns with an answer has left every object of it in the cache but
\* for what could not be written, however many pages the list has and whatever other
\* calls do in between.
THEOREM AnswersStay == Spec => AnswersCached
<1>1. Spec => []Gathered
  BY Invariance, InitGathered, StepGathers, PTL DEF Spec
<1>2. ASSUME IInv, Gathered, [Next]_vars
      PROVE  \A c \in Callers :
               /\ pc[c] = "cache" /\ CacheObjects(c) /\ pc'[c] = "idle"
               /\ call[c].op \in {"track", "top", "pages"}
               => \A id \in Answer(call[c]) : file'[id] = "complete" \/ id \in cut'
  BY <1>2, StepCachesAnswer
<1> QED
  BY <1>1, <1>2, Invariance, PTL DEF Spec, AnswersCached

-----------------------------------------------------------------------------
(* The limiter among the requests *)

LEMMA CallerLimits ==
    ASSUME IInv, NEW c \in Callers,
           \/ StartCall(c) \/ GetTrack(c) \/ GetTracksFromPlaylist(c)
           \/ Proceed(c) \/ WaitAborted(c) \/ Abort(c)
    PROVE  [LimiterNext]_limiterVars
<1>1. pc[c] = "request" => c \notin Waiting
  BY CallTypes
<1>2. CASE GetResponse(c)
  BY <1>1, <1>2 DEF GetResponse, LimiterNext
<1>3. CASE Wait(c) \/ WaitAborted(c)
  BY <1>3 DEF Wait, WaitAborted, LimiterNext
<1>4. CASE ~GetResponse(c) /\ ~Wait(c) /\ ~WaitAborted(c)
  BY <1>4 DEF StartCall, GetTrack, GetTracksFromPlaylist, Proceed, Abort, RefreshCacheForTracks,
              GetTracks, RequestFails, RequestSucceeds, TooManyRequests, SleepEnds, NextPage,
              CacheObjects, GetImage, DownloadEnds
<1> QED
  BY <1>2, <1>3, <1>4

LEMMA StepLimits ==
    ASSUME IInv, [Next]_vars
    PROVE  [LimiterNext \/ LimiterInit']_limiterVars
<1>1. ASSUME NEW c \in Callers,
             \/ StartCall(c) \/ GetTrack(c) \/ GetTracksFromPlaylist(c)
             \/ Proceed(c) \/ WaitAborted(c) \/ Abort(c)
      PROVE  [LimiterNext]_limiterVars
  BY <1>1, CallerLimits
<1>2. CASE TimePasses
  BY <1>2 DEF TimePasses, LimiterNext
<1>3. CASE Kill
  BY <1>3 DEF Kill, LimiterInit
<1>4. CASE UNCHANGED vars
  BY <1>4 DEF vars
<1> QED
  BY <1>1, <1>2, <1>3, <1>4 DEF Next

\* What the calls do with the limiter is what RpsLimiter allows: no call joins the
\* queue twice or leaves it without its turn or an abort, and a new start begins
\* with a new limiter.
THEOREM BackendUsesLimiter ==
    Spec => LimiterInit /\ [][LimiterNext \/ LimiterInit']_limiterVars
<1>1. Init => LimiterInit
  BY DEF Init
<1> QED
  BY <1>1, Invariance, StepLimits, PTL DEF Spec

\* A request leaves the limiter.
Leaves(c) == pc[c] \in {"request", "waiting"} /\ pc'[c] = "send"

LEMMA LeavesInTime ==
    ASSUME IInv, [Next]_vars, NEW c \in Callers, Leaves(c), c \notin behind
    PROVE  age[1] = Period
<1>1. pc \in [Callers -> Point] /\ LimiterInv /\ (pc[c] = "waiting" <=> c \in Waiting)
  BY CallTypes DEF IInv, TypeOK
<1>2. GetResponse(c) \/ Wait(c)
  <2>1. ASSUME NEW d \in Callers, d # c,
               \/ StartCall(d) \/ GetTrack(d) \/ GetTracksFromPlaylist(d)
               \/ Proceed(d) \/ WaitAborted(d) \/ Abort(d)
        PROVE  pc'[c] = pc[c]
    <3>1. \/ \E p : pc' = [pc EXCEPT ![d] = p]
          \/ pc' = pc
      BY <2>1 DEF StartCall, GetTrack, GetTracksFromPlaylist, Proceed, WaitAborted, Abort,
                RefreshCacheForTracks, GetTracks, GetResponse, Wait, RequestFails,
                RequestSucceeds, TooManyRequests, SleepEnds, NextPage, CacheObjects, GetImage,
                DownloadEnds, Goto, Return, Request
    <3> QED
      BY <1>1, <2>1, <3>1
  <2>2. ASSUME \/ StartCall(c) \/ GetTrack(c) \/ GetTracksFromPlaylist(c)
               \/ Proceed(c) \/ WaitAborted(c) \/ Abort(c)
        PROVE  GetResponse(c) \/ Wait(c)
    <3>1. WaitAborted(c) => pc' = [pc EXCEPT ![c] = "idle"]
      BY DEF WaitAborted, Return, Goto
    <3>2. ~WaitAborted(c)
      BY <1>1, <3>1 DEF Leaves
    <3>3. ~Abort(c)
      BY DEF Abort, Leaves
    <3> QED
      BY <2>2, <3>2, <3>3
         DEF Leaves, StartCall, GetTrack, GetTracksFromPlaylist, Proceed, RefreshCacheForTracks,
             GetTracks, RequestFails, RequestSucceeds, TooManyRequests, SleepEnds, NextPage,
             CacheObjects, GetImage, DownloadEnds
  <2>3. ~Kill
    BY DEF Kill, Leaves
  <2>4. ~ (TimePasses \/ UNCHANGED vars)
    BY DEF TimePasses, vars, Leaves
  <2> QED
    BY <1>1, <2>1, <2>2, <2>3, <2>4 DEF Next, Leaves
<1>3. CASE GetResponse(c)
  <2>1. Goto(c, "idle") \/ Goto(c, "waiting") \/ PassAtOnce
    BY <1>3 DEF GetResponse, Return
  <2>2. PassAtOnce
    BY <1>1, <2>1 DEF Goto, Leaves
  <2> QED
    BY <1>1, <2>2, PassesInTime DEF PassesInTurn
<1>4. CASE Wait(c)
  <2>1. Pass(c) /\ c \in Waiting
    BY <1>4 DEF Wait, Pass, SleepAgain, Leaves
  <2> QED
    BY <1>1, <2>1, PassesInTime DEF PassesInTurn
<1> QED
  BY <1>2, <1>3, <1>4

\* Every request the limiter lets go keeps the limit, whichever call makes it,
\* whoever gives up before and after a restart; the exception are those that
\* queued behind others.  (A repetition after 429 does not go through the limiter.)
THEOREM RequestsKeepLimit ==
    Spec => /\ []StampsInOrder
            /\ [][\A c \in Callers \ behind : Leaves(c) => age[1] = Period]_vars
<1>1. IInv /\ StampsInOrder /\ [LimiterNext \/ LimiterInit']_limiterVars => StampsInOrder'
  <2> SUFFICES ASSUME IInv, StampsInOrder, [LimiterNext \/ LimiterInit']_limiterVars
               PROVE  StampsInOrder'
    OBVIOUS
  <2>1. CASE [LimiterNext]_limiterVars
    BY <2>1, StepKeepsOrder DEF IInv, TypeOK
  <2>2. (LimiterInit => StampsInOrder)'
    BY InitInOrder, PTL
  <2>3. CASE LimiterInit'
    BY <2>2, <2>3
  <2> QED
    BY <2>1, <2>3
<1>2. Spec => []StampsInOrder
  BY <1>1, InitInOrder, Invariance, BackendUsesLimiter, PTL
<1>3. ASSUME IInv, [Next]_vars
      PROVE  \A c \in Callers \ behind : Leaves(c) => age[1] = Period
  BY <1>3, LeavesInTime
<1> QED
  BY <1>2, <1>3, Invariance, PTL DEF Spec
=============================================================================
