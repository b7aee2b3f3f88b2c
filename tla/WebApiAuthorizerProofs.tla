----------------------- MODULE WebApiAuthorizerProofs -----------------------
(***************************************************************************)
(* Proofs about WebApiAuthorizer for every set of accounts and of threads  *)
(* that make requests.                                                     *)
(***************************************************************************)
EXTENDS WebApiAuthorizer, SequenceTheorems, TLAPS

\* Where the main thread is in a dialog, and what the listener needs.
DialogInv ==
    /\ dialog = "closed" =>
          /\ listener = "none" /\ messages = <<>>
          /\ pc[Main] = "idle" /\ pc[Status] = "idle"
    /\ dialog = "closing" =>
          /\ tokenMutex # Main
          /\ pc[Main] \in {"stop", "clear", "remove", "join"}
          /\ pc[Main] # "stop" => listener = "none"
    /\ pc[Main] = "join" => dialog = "closing"
    /\ pc[Listener] # "idle" => listener = "open"

\* What each thread ever does.
Places ==
    /\ pc[Listener] \in {"idle", "exchange", "reset", "reply", "replyError"} \cup Storing
    /\ pc[Status] \in {"idle", "relogin"} \cup Using \cup Storing
    /\ pc[Main] \in {"idle", "get", "stop", "join", "update", "refresh", "use"} \cup Storing
    /\ \A r \in Requesters : pc[r] \in {"idle", "update", "refresh", "use"} \cup Storing

\* A thread that stores an answer has one.
AnswersKnown ==
    \A t \in Threads : pc[t] \in {"refresh", "exchange", "store", "set"} => answer[t] \in Accounts

\* Who relies on a token finds it unless it was cleared underneath.
TokenFound == ~raced => ~undefined /\ \A t \in Threads : pc[t] \in Using => auth # None

\* The memory and the file while a thread is between its two changes.
HalfChanged ==
    ~overlapped =>
        /\ ~unsaved /\ (\A t \in Threads : pc[t] \notin {"set", "remove"}) => auth \in {file, None}
        /\ \A t \in Threads : pc[t] = "set" => unsaved \/ file = answer[t]
        /\ \A t \in Threads : pc[t] = "remove" => auth = None

IInv == TypeOK /\ Places /\ DialogInv /\ AnswersKnown /\ TokenFound /\ HalfChanged

Message == {"response", "authorized", "unauthorized"}

-----------------------------------------------------------------------------
(* The queue of messages *)

LEMMA PostFacts ==
    ASSUME messages \in Seq(Message), NEW m \in Message, Post(m)
    PROVE  messages' \in Seq(Message)
BY AppendProperties DEF Post

LEMMA TailFacts ==
    ASSUME messages \in Seq(Message), messages # <<>>
    PROVE  Tail(messages) \in Seq(Message)
BY HeadTailProperties

\* How a thread's job ends.
LEMMA EndFacts ==
    ASSUME TypeOK, NEW t \in Threads, NEW ok \in BOOLEAN, End(t, ok)
    PROVE  /\ messages' \in Seq(Message)
           /\ t # Status => messages' = messages
           /\ tokenMutex' = IF tokenMutex = t THEN Nobody ELSE tokenMutex
           /\ answer' = [answer EXCEPT ![t] = None]
           /\ pc' = [pc EXCEPT ![t] = pc'[t]]
           /\ t = Listener => pc'[t] \in {"reply", "reset"}
           /\ t # Listener => pc'[t] = "idle"
<1> USE AuthorizerAssumption
<1>1. CASE t = Listener
  BY <1>1 DEF End, Goto, Released, TypeOK, Message
<1>2. CASE t = Status
  <2>1. Post(IF ok THEN "authorized" ELSE "unauthorized")
    BY <1>2 DEF End
  <2>2. messages' \in Seq(Message)
    BY <2>1, PostFacts DEF TypeOK, Message
  <2> QED
    BY <1>2, <2>2 DEF End, Goto, Released, TypeOK
<1>3. CASE t # Listener /\ t # Status
  BY <1>3 DEF End, Goto, Released, TypeOK, Message
<1> QED
  BY <1>1, <1>2, <1>3

-----------------------------------------------------------------------------
(* The invariant *)

LEMMA InitInvariant == Init => IInv
BY AuthorizerAssumption, EmptySeq
   DEF Init, IInv, TypeOK, Places, DialogInv, AnswersKnown, TokenFound, HalfChanged, Point,
       Threads, Using, Storing, Message

LEMMA KillStep ==
    ASSUME IInv, Kill
    PROVE  IInv'
<1>1. /\ file' \in {file, None} /\ auth' = file' /\ file' \in Accounts \cup {None}
      /\ tokenMutex' = Nobody /\ listener' = "none" /\ dialog' = "closed"
      /\ messages' = <<>> /\ killed' = TRUE /\ unsaved' = FALSE
      /\ pc' = [t \in Threads |-> "idle"]
      /\ answer' = [t \in Threads |-> None]
      /\ UNCHANGED <<expired, status, raced, overlapped, undefined>>
  BY DEF Kill, IInv, TypeOK
<1> QED
  BY <1>1, AuthorizerAssumption, EmptySeq
     DEF IInv, TypeOK, Places, DialogInv, AnswersKnown, TokenFound, HalfChanged, Point, Threads,
         Using, Storing

\* The histories are truth values.
LEMMA HistoriesBoolean ==
    ASSUME NEW t \in Threads
    PROVE  /\ Changes(t) => overlapped' \in BOOLEAN
           /\ Clears(t) => raced' \in BOOLEAN
BY DEF Changes, Clears

\* A thread gets, refreshes or replaces the token.
LEMMA TypeProceed ==
    ASSUME IInv, NEW t \in Threads, Proceed(t)
    PROVE  TypeOK'
<1>t. TypeOK /\ Places /\ AnswersKnown
  BY DEF IInv
<1> USE AuthorizerAssumption DEF Threads, Using, Storing, Point
<1>e. ASSUME NEW ok \in BOOLEAN, End(t, ok), UNCHANGED <<listener, dialog, killed, raced, unsaved>>,
             expired' \in BOOLEAN, auth' \in Accounts \cup {None}, file' \in Accounts \cup {None},
             overlapped' \in BOOLEAN, undefined' \in BOOLEAN, UNCHANGED status
      PROVE  TypeOK'
  <2>1. /\ messages' \in Seq(Message)
        /\ tokenMutex' = IF tokenMutex = t THEN Nobody ELSE tokenMutex
        /\ answer' = [answer EXCEPT ![t] = None]
        /\ pc' = [pc EXCEPT ![t] = pc'[t]]
        /\ t = Listener => pc'[t] \in {"reply", "reset"}
        /\ t # Listener => pc'[t] = "idle"
    BY <1>t, <1>e, EndFacts
  <2> QED
    BY <1>t, <1>e, <2>1 DEF TypeOK, Message
<1>1. CASE UpdateRefreshToken_NonBlocking(t)
  <2>1. CASE auth # None /\ expired
    BY <1>t, <1>1, <2>1 DEF UpdateRefreshToken_NonBlocking, Goto, stored, history, TypeOK
  <2>2. CASE ~(auth # None /\ expired) /\ t = Status
    <3>1. End(t, TRUE) /\ UNCHANGED <<stored, listener, dialog, status, history>>
          /\ undefined' \in BOOLEAN
      BY <1>1, <2>2 DEF UpdateRefreshToken_NonBlocking
    <3> QED
      BY <1>t, <1>e, <3>1 DEF stored, history, TypeOK
  <2>3. CASE ~(auth # None /\ expired) /\ t # Status
    <3>1. /\ pc[t] = "update" /\ pc' = [pc EXCEPT ![t] = "use"]
          /\ undefined' \in BOOLEAN
          /\ UNCHANGED <<tokenMutex, answer, messages, stored, listener, dialog, status, history>>
      BY <1>1, <2>3 DEF UpdateRefreshToken_NonBlocking, Goto, Stays
    <3> QED
      BY <1>t, <3>1 DEF stored, history, TypeOK
  <2> QED
    BY <2>1, <2>2, <2>3
<1>2. CASE AccessToken(t)
  <2>1. End(t, TRUE) /\ undefined' \in BOOLEAN
        /\ UNCHANGED <<stored, listener, dialog, status, history>>
    BY <1>2 DEF AccessToken
  <2> QED
    BY <1>t, <1>e, <2>1 DEF stored, history, TypeOK
<1>3. CASE Answered(t)
  <2>0. pc[t] \in {"refresh", "exchange"}
        /\ UNCHANGED <<stored, listener, dialog, status, history, undefined>>
    BY <1>3 DEF Answered
  <2>1. CASE End(t, FALSE)
    BY <1>t, <1>e, <2>0, <2>1 DEF stored, history, TypeOK
  <2>2. CASE ~End(t, FALSE)
    <3>1. /\ UNCHANGED <<tokenMutex, answer, messages>>
          /\ \E p \in {"store", "clear"} : pc' = [pc EXCEPT ![t] = p]
      BY <1>3, <2>2 DEF Answered, Goto, Stays
    <3>2. t # Listener => pc[t] = "refresh"
      BY <1>t, <2>0 DEF Places
    <3> QED
      BY <1>t, <2>0, <3>1, <3>2 DEF stored, history, TypeOK
  <2> QED
    BY <2>1, <2>2
<1>4. CASE WriteFile(t)
  <2>0. overlapped' \in BOOLEAN /\ unsaved' \in BOOLEAN
    <3>1. Changes(t) /\ (unsaved' = TRUE \/ unsaved' = FALSE)
      BY <1>4 DEF WriteFile
    <3> QED
      BY <3>1, HistoriesBoolean
  <2>1. file' \in Accounts \cup {None}
    BY <1>t, <1>4 DEF WriteFile, TypeOK, AnswersKnown
  <2>2. /\ pc[t] = "store" /\ pc' = [pc EXCEPT ![t] = "set"]
        /\ UNCHANGED <<auth, expired, tokenMutex, ui, answer, killed, raced, undefined>>
    BY <1>4 DEF WriteFile, Goto
  <2> QED
    BY <1>t, <2>0, <2>1, <2>2 DEF ui, TypeOK
<1>5. CASE SetAuth(t)
  <2>0. /\ overlapped' \in BOOLEAN
        /\ pc[t] = "set" /\ auth' \in Accounts /\ expired' \in BOOLEAN
        /\ UNCHANGED <<file, listener, dialog, status, killed, raced, unsaved, undefined>>
    BY <1>t, <1>5, HistoriesBoolean DEF SetAuth, AnswersKnown
  <2>1. CASE t \in {Status, Listener}
    <3>1. End(t, TRUE)
      BY <1>5, <2>1 DEF SetAuth
    <3> QED
      BY <1>t, <1>e, <2>0, <3>1 DEF TypeOK
  <2>2. CASE t \notin {Status, Listener}
    <3>1. /\ UNCHANGED <<tokenMutex, answer, messages>>
          /\ pc' = [pc EXCEPT ![t] = "use"]
      BY <1>5, <2>2 DEF SetAuth, Goto, Stays
    <3> QED
      BY <1>t, <2>0, <3>1 DEF TypeOK
  <2> QED
    BY <2>1, <2>2
<1>6. CASE ClearMemory(t)
  <2>1. overlapped' \in BOOLEAN /\ raced' \in BOOLEAN /\ unsaved' \in BOOLEAN
    <3>1. Changes(t) /\ Clears(t) /\ unsaved' = FALSE
      BY <1>6 DEF ClearMemory
    <3> QED
      BY <3>1, HistoriesBoolean
  <2>2. /\ pc[t] = "clear" /\ pc' = [pc EXCEPT ![t] = "remove"] /\ auth' = None
        /\ UNCHANGED <<expired, file, tokenMutex, ui, answer, killed, undefined>>
    BY <1>6 DEF ClearMemory, Goto
  <2> QED
    BY <1>t, <2>1, <2>2 DEF ui, TypeOK
<1>7. CASE RemoveFile(t)
  <2>0. /\ overlapped' \in BOOLEAN
        /\ pc[t] = "remove" /\ file' = None
        /\ UNCHANGED <<auth, expired, listener, dialog, killed, raced, unsaved, undefined>>
    BY <1>7, HistoriesBoolean DEF RemoveFile
  <2>1. CASE t = Main /\ tokenMutex # Main
    BY <1>t, <1>7, <2>0, <2>1 DEF RemoveFile, Goto, Stays, TypeOK
  <2>2. CASE ~(t = Main /\ tokenMutex # Main)
    <3>1. End(t, FALSE) /\ UNCHANGED status
      BY <1>7, <2>2 DEF RemoveFile
    <3> QED
      BY <1>t, <1>e, <2>0, <3>1 DEF TypeOK
  <2> QED
    BY <2>1, <2>2
<1> QED
  BY <1>1, <1>2, <1>3, <1>4, <1>5, <1>6, <1>7 DEF Proceed

\* The end of a job keeps the dialog's part of the invariant.
LEMMA EndStep ==
    ASSUME IInv, NEW t \in Threads, NEW ok \in BOOLEAN, End(t, ok), pc[t] # "idle",
           t = Main => dialog # "closing", UNCHANGED <<listener, dialog>>
    PROVE  /\ Places' /\ DialogInv' /\ AnswersKnown'
           /\ pc'[t] \notin Using \cup Storing
           /\ \A u \in Threads \ {t} : pc'[u] = pc[u] /\ answer'[u] = answer[u]
<1>t. TypeOK /\ Places /\ DialogInv /\ AnswersKnown
  BY DEF IInv
<1>1. /\ t # Status => messages' = messages
      /\ tokenMutex' = IF tokenMutex = t THEN Nobody ELSE tokenMutex
      /\ answer' = [answer EXCEPT ![t] = None]
      /\ pc' = [pc EXCEPT ![t] = pc'[t]]
      /\ t = Listener => pc'[t] \in {"reply", "reset"}
      /\ t # Listener => pc'[t] = "idle"
  BY <1>t, EndFacts
<1>2. /\ pc'[t] \in {"idle", "reply", "reset"}
      /\ \A u \in Threads \ {t} : pc'[u] = pc[u] /\ answer'[u] = answer[u]
  BY <1>t, <1>1 DEF TypeOK
<1>3. Main \in Threads /\ Status \in Threads /\ Listener \in Threads /\ Requesters \subseteq Threads
  BY DEF Threads
<1>4. Places'
  BY <1>t, <1>1, <1>2, <1>3, AuthorizerAssumption DEF Places
<1>5. DialogInv'
  BY <1>t, <1>1, <1>2, <1>3, AuthorizerAssumption DEF DialogInv
<1>6. AnswersKnown'
  BY <1>t, <1>2 DEF AnswersKnown
<1> QED
  BY <1>2, <1>4, <1>5, <1>6 DEF Using, Storing

\* The dialog's part through what a thread does by itself.
LEMMA DialogProceed ==
    ASSUME IInv, NEW t \in Threads, Proceed(t)
    PROVE  Places' /\ DialogInv' /\ AnswersKnown'
<1>t. TypeOK /\ Places /\ DialogInv /\ AnswersKnown
  BY DEF IInv
<1>m. /\ Main \in Threads /\ Status \in Threads /\ Listener \in Threads
      /\ Requesters \subseteq Threads
  BY DEF Threads
<1>g. ASSUME NEW p \in {"use", "refresh"} \cup Storing, pc[t] \in Using \cup Storing \cup {"exchange"},
             p \notin Storing => t # Listener,
             pc' = [pc EXCEPT ![t] = p],
             p \in {"refresh", "store", "set"} => answer'[t] \in Accounts,
             \A u \in Threads \ {t} : answer'[u] = answer[u],
             UNCHANGED <<tokenMutex, messages, listener, dialog>>,
             t = Main /\ dialog = "closing" => p = "remove"
      PROVE  Places' /\ DialogInv' /\ AnswersKnown'
  <2>1. pc'[t] = p /\ \A u \in Threads \ {t} : pc'[u] = pc[u]
    BY <1>t, <1>g DEF TypeOK
  <2>2. Places'
    BY <1>t, <1>m, <1>g, <2>1, AuthorizerAssumption DEF Places, Using, Storing
  <2>3. DialogInv'
    BY <1>t, <1>m, <1>g, <2>1, AuthorizerAssumption DEF DialogInv, Using, Storing
  <2>4. AnswersKnown'
    BY <1>t, <1>g, <2>1 DEF AnswersKnown, Storing
  <2> QED
    BY <2>2, <2>3, <2>4
<1>c. t = Main /\ dialog = "closing" => pc[t] \in {"stop", "clear", "remove", "join"} /\ tokenMutex # t
  BY <1>t DEF DialogInv
<1>1. CASE UpdateRefreshToken_NonBlocking(t)
  <2>1. pc[t] = "update" /\ t # Listener /\ UNCHANGED <<listener, dialog>>
    BY <1>t, <1>1 DEF UpdateRefreshToken_NonBlocking, Places, Storing
  <2>2. CASE auth # None /\ expired
    <3>1. /\ pc' = [pc EXCEPT ![t] = "refresh"]
          /\ answer' = [answer EXCEPT ![t] = auth]
          /\ UNCHANGED <<tokenMutex, messages>>
          /\ auth \in Accounts
      BY <1>t, <1>1, <2>2 DEF UpdateRefreshToken_NonBlocking, Goto, TypeOK
    <3> QED
      BY <1>t, <1>c, <1>g, <2>1, <3>1 DEF TypeOK, Using
  <2>3. CASE End(t, TRUE)
    BY <1>c, <2>1, <2>3, EndStep
  <2>4. CASE Goto(t, "use") /\ Stays
    BY <1>c, <1>g, <2>1, <2>4 DEF Goto, Stays, Using, Storing
  <2> QED
    BY <1>1, <2>2, <2>3, <2>4 DEF UpdateRefreshToken_NonBlocking
<1>2. CASE AccessToken(t)
  BY <1>c, <1>2, EndStep DEF AccessToken
<1>3. CASE Answered(t)
  <2>1. pc[t] \in {"refresh", "exchange"} /\ UNCHANGED <<listener, dialog>>
        /\ answer[t] \in Accounts
    BY <1>t, <1>3 DEF Answered, AnswersKnown
  <2>2. CASE End(t, FALSE)
    BY <1>c, <2>1, <2>2, EndStep
  <2>3. CASE ~End(t, FALSE)
    <3>1. PICK p \in {"store", "clear"} : Goto(t, p) /\ Stays
      BY <1>3, <2>3 DEF Answered
    <3> QED
      BY <1>c, <1>g, <2>1, <3>1 DEF Goto, Stays, Using, Storing
  <2> QED
    BY <2>2, <2>3
<1>4. CASE WriteFile(t)
  <2>1. pc[t] = "store" /\ pc' = [pc EXCEPT ![t] = "set"] /\ answer[t] \in Accounts
        /\ UNCHANGED <<tokenMutex, messages, listener, dialog, answer>>
    BY <1>t, <1>4 DEF WriteFile, Goto, ui, AnswersKnown
  <2> QED
    BY <1>c, <1>g, <2>1 DEF Storing
<1>5. CASE SetAuth(t)
  <2>1. pc[t] = "set" /\ UNCHANGED <<listener, dialog>>
    BY <1>5 DEF SetAuth
  <2>2. CASE End(t, TRUE)
    BY <1>c, <2>1, <2>2, EndStep
  <2>3. CASE ~End(t, TRUE)
    <3>1. t # Listener /\ Goto(t, "use") /\ Stays
      BY <1>5, <2>3 DEF SetAuth
    <3> QED
      BY <1>c, <1>g, <2>1, <3>1 DEF Goto, Stays, Storing
  <2> QED
    BY <2>2, <2>3
<1>6. CASE ClearMemory(t)
  <2>1. pc[t] = "clear" /\ pc' = [pc EXCEPT ![t] = "remove"]
        /\ UNCHANGED <<tokenMutex, messages, listener, dialog, answer>>
    BY <1>6 DEF ClearMemory, Goto, ui
  <2> QED
    BY <1>g, <2>1 DEF Storing
<1>7. CASE RemoveFile(t)
  <2>1. pc[t] = "remove" /\ UNCHANGED <<listener, dialog>>
    BY <1>7 DEF RemoveFile
  <2>2. CASE t = Main /\ tokenMutex # Main
    <3>1. /\ pc' = [pc EXCEPT ![Main] = IF dialog = "closing" THEN "join" ELSE "idle"]
          /\ UNCHANGED <<tokenMutex, answer, messages>>
      BY <1>7, <2>2 DEF RemoveFile, Goto, Stays
    <3>2. /\ pc'[Main] = IF dialog = "closing" THEN "join" ELSE "idle"
          /\ \A u \in Threads \ {Main} : pc'[u] = pc[u]
      BY <1>t, <1>m, <3>1 DEF TypeOK
    <3>3. Places'
      BY <1>t, <1>m, <3>2, AuthorizerAssumption DEF Places
    <3>4. DialogInv'
      BY <1>t, <1>m, <2>1, <2>2, <3>1, <3>2, AuthorizerAssumption DEF DialogInv
    <3>5. AnswersKnown'
      BY <1>t, <3>1, <3>2 DEF AnswersKnown
    <3> QED
      BY <3>3, <3>4, <3>5
  <2>3. CASE ~(t = Main /\ tokenMutex # Main)
    <3>1. End(t, FALSE)
      BY <1>7, <2>3 DEF RemoveFile
    <3> QED
      BY <1>c, <2>1, <2>3, <3>1, EndStep
  <2> QED
    BY <2>2, <2>3
<1> QED
  BY <1>1, <1>2, <1>3, <1>4, <1>5, <1>6, <1>7 DEF Proceed

\* The token and its file through what a thread does by itself.
LEMMA TokenProceed ==
    ASSUME IInv, NEW t \in Threads, Proceed(t)
    PROVE  TokenFound' /\ HalfChanged'
<1>t. TypeOK /\ Places /\ DialogInv /\ AnswersKnown /\ TokenFound /\ HalfChanged
  BY DEF IInv
<1>c. t = Main /\ dialog = "closing" => pc[t] \in {"stop", "clear", "remove", "join"} /\ tokenMutex # t
  BY <1>t DEF DialogInv
\* Steps that change neither the memory nor the file.
<1>g. ASSUME UNCHANGED <<auth, file, raced, overlapped, unsaved>>,
             pc[t] \in Using \cup {"exchange"}, pc'[t] \notin {"set", "remove"},
             pc'[t] \in Using => pc[t] \in Using,
             \A u \in Threads \ {t} : pc'[u] = pc[u] /\ answer'[u] = answer[u],
             \/ undefined' = undefined
             \/ pc[t] \in Using /\ undefined' = (auth = None)
      PROVE  TokenFound' /\ HalfChanged'
  <2>1. TokenFound'
    BY <1>t, <1>g DEF TokenFound
  <2>2. HalfChanged'
    BY <1>t, <1>g DEF HalfChanged, Using
  <2> QED
    BY <2>1, <2>2
<1>1. CASE UpdateRefreshToken_NonBlocking(t)
  <2>1. /\ pc[t] = "update" /\ undefined' = (auth = None)
        /\ UNCHANGED <<auth, file, raced, overlapped, unsaved, listener, dialog>>
    BY <1>1 DEF UpdateRefreshToken_NonBlocking, stored, history
  <2>2. CASE \E p \in {"refresh", "use"} : Goto(t, p) /\ \A u \in Threads \ {t} : answer'[u] = answer[u]
    BY <1>t, <1>g, <2>1, <2>2 DEF Goto, Using, TypeOK
  <2>3. CASE End(t, TRUE)
    BY <1>c, <1>g, <2>1, <2>3, EndStep DEF Using, Storing
  <2>4. \/ End(t, TRUE)
        \/ \E p \in {"refresh", "use"} : Goto(t, p) /\ \A u \in Threads \ {t} : answer'[u] = answer[u]
    BY <1>t, <1>1 DEF UpdateRefreshToken_NonBlocking, Stays, TypeOK
  <2> QED
    BY <2>2, <2>3, <2>4
<1>2. CASE AccessToken(t)
  <2>1. /\ pc[t] = "use" /\ undefined' = (auth = None) /\ End(t, TRUE)
        /\ UNCHANGED <<auth, file, raced, overlapped, unsaved, listener, dialog>>
    BY <1>2 DEF AccessToken, stored, history
  <2> QED
    BY <1>c, <1>g, <2>1, EndStep DEF Using, Storing
<1>3. CASE Answered(t)
  <2>1. /\ pc[t] \in {"refresh", "exchange"}
        /\ UNCHANGED <<auth, file, raced, overlapped, unsaved, listener, dialog, undefined>>
    BY <1>3 DEF Answered, stored, history
  <2>2. CASE End(t, FALSE)
    <3>1. /\ pc'[t] \notin Using \cup Storing
          /\ \A u \in Threads \ {t} : pc'[u] = pc[u] /\ answer'[u] = answer[u]
      BY <1>c, <2>1, <2>2, EndStep
    <3> QED
      BY <1>g, <2>1, <3>1 DEF Using, Storing
  <2>3. CASE ~End(t, FALSE)
    <3>1. PICK p \in {"store", "clear"} : Goto(t, p) /\ Stays
      BY <1>3, <2>3 DEF Answered
    <3>2. /\ pc'[t] = p
          /\ \A u \in Threads \ {t} : pc'[u] = pc[u] /\ answer'[u] = answer[u]
      BY <1>t, <3>1 DEF Goto, Stays, TypeOK
    <3> QED
      BY <1>g, <2>1, <3>2 DEF Using
  <2> QED
    BY <2>2, <2>3
<1>4. CASE WriteFile(t)
  <2>1. /\ pc[t] = "store" /\ (unsaved' \/ file' = answer[t]) /\ pc'[t] = "set"
        /\ \A u \in Threads \ {t} : pc'[u] = pc[u]
        /\ UNCHANGED <<auth, raced, undefined, answer>>
        /\ overlapped' = (overlapped \/ \E u \in Threads \ {t} : pc[u] \in Storing)
    BY <1>t, <1>4 DEF WriteFile, Goto, Changes, TypeOK
  <2>2. TokenFound'
    BY <1>t, <2>1 DEF TokenFound, Using
  <2>3. HalfChanged'
    BY <1>t, <2>1 DEF HalfChanged, Storing
  <2> QED
    BY <2>2, <2>3
<1>5. CASE SetAuth(t)
  <2>1. /\ pc[t] = "set" /\ auth' = answer[t] /\ auth' \in Accounts
        /\ UNCHANGED <<file, raced, unsaved, undefined, listener, dialog>>
        /\ overlapped' = (overlapped \/ \E u \in Threads \ {t} : pc[u] \in Storing)
    BY <1>t, <1>5 DEF SetAuth, Changes, AnswersKnown
  <2>2. pc'[t] \notin Storing /\ \A u \in Threads \ {t} : pc'[u] = pc[u]
    <3>1. CASE End(t, TRUE)
      BY <1>c, <2>1, <3>1, EndStep
    <3>2. CASE Goto(t, "use")
      BY <1>t, <3>2 DEF Goto, Storing, TypeOK
    <3> QED
      BY <1>5, <3>1, <3>2 DEF SetAuth
  <2>3. TokenFound'
    BY <1>t, <2>1, AuthorizerAssumption DEF TokenFound
  <2>4. HalfChanged'
    BY <1>t, <2>1, <2>2 DEF HalfChanged, Storing
  <2> QED
    BY <2>3, <2>4
<1>6. CASE ClearMemory(t)
  <2>1. /\ pc[t] = "clear" /\ auth' = None /\ pc'[t] = "remove"
        /\ \A u \in Threads \ {t} : pc'[u] = pc[u]
        /\ UNCHANGED <<file, undefined, answer>>
        /\ overlapped' = (overlapped \/ \E u \in Threads \ {t} : pc[u] \in Storing)
        /\ raced' = (raced \/ \E u \in Threads \ {t} : pc[u] \in Using)
    BY <1>t, <1>6 DEF ClearMemory, Goto, Changes, Clears, TypeOK, ui
  <2>2. TokenFound'
    BY <1>t, <2>1 DEF TokenFound, Using
  <2>3. HalfChanged'
    BY <1>t, <2>1 DEF HalfChanged, Storing
  <2> QED
    BY <2>2, <2>3
<1>7. CASE RemoveFile(t)
  <2>1. /\ pc[t] = "remove" /\ file' = None
        /\ UNCHANGED <<auth, raced, unsaved, undefined, listener, dialog>>
        /\ overlapped' = (overlapped \/ \E u \in Threads \ {t} : pc[u] \in Storing)
    BY <1>7 DEF RemoveFile, Changes
  <2>2. pc'[t] \notin Using \cup Storing /\ \A u \in Threads \ {t} : pc'[u] = pc[u]
    <3>1. CASE t = Main /\ tokenMutex # Main
      BY <1>t, <1>7, <3>1 DEF RemoveFile, Goto, Using, Storing, TypeOK
    <3>2. CASE ~(t = Main /\ tokenMutex # Main)
      <4>1. End(t, FALSE)
        BY <1>7, <3>2 DEF RemoveFile
      <4> QED
        BY <1>c, <2>1, <3>2, <4>1, EndStep
    <3> QED
      BY <3>1, <3>2
  <2>3. TokenFound'
    BY <1>t, <2>1, <2>2 DEF TokenFound
  <2>4. HalfChanged'
    BY <1>t, <2>1, <2>2 DEF HalfChanged, Storing
  <2> QED
    BY <2>3, <2>4
<1> QED
  BY <1>1, <1>2, <1>3, <1>4, <1>5, <1>6, <1>7 DEF Proceed

\* What is left of the invariant to show where neither the token nor its file
\* changes, and one thread at most moves.
LEMMA MoveStep ==
    ASSUME IInv, NEW t \in Threads, NEW p \in Point,
           UNCHANGED <<stored, answer, history, undefined>>,
           pc' = [pc EXCEPT ![t] = p],
           p \notin {"refresh", "exchange", "store", "set", "remove"},
           pc[t] \notin {"set", "remove"},
           p \in Using => auth # None
    PROVE  /\ pc' \in [Threads -> Point]
           /\ pc'[t] = p /\ \A u \in Threads \ {t} : pc'[u] = pc[u]
           /\ AnswersKnown' /\ TokenFound' /\ HalfChanged'
<1>t. TypeOK /\ AnswersKnown /\ TokenFound /\ HalfChanged
  BY DEF IInv
<1>1. /\ pc' \in [Threads -> Point]
      /\ pc'[t] = p /\ \A u \in Threads \ {t} : pc'[u] = pc[u]
  BY <1>t DEF TypeOK
<1>2. UNCHANGED <<auth, file, raced, overlapped, unsaved, undefined, answer>>
  BY DEF stored, history
<1>3. AnswersKnown'
  BY <1>t, <1>1, <1>2 DEF AnswersKnown
<1>4. TokenFound'
  BY <1>t, <1>1, <1>2 DEF TokenFound
<1>5. HalfChanged'
  BY <1>t, <1>1, <1>2 DEF HalfChanged
<1> QED
  BY <1>1, <1>3, <1>4, <1>5

\* A request, or the status thread, takes the mutex.
LEMMA LockStep ==
    ASSUME IInv, NEW t \in Threads, \/ GetAccessToken(t) /\ t \in Requesters \cup {Main}
                                    \/ HasRefreshToken \/ UpdateRefreshToken
    PROVE  IInv'
<1>t. TypeOK /\ Places /\ DialogInv /\ AnswersKnown /\ TokenFound /\ HalfChanged
  BY DEF IInv
<1>m. /\ Main \in Threads /\ Status \in Threads /\ Listener \in Threads
      /\ Requesters \subseteq Threads
  BY DEF Threads
<1> USE AuthorizerAssumption
<1>1. CASE GetAccessToken(t) /\ t \in Requesters \cup {Main}
  <2>1. /\ pc[t] = IF t = Main THEN "get" ELSE "idle"
        /\ tokenMutex = Nobody
        /\ UNCHANGED <<stored, ui, answer, history, undefined>>
    BY <1>1 DEF GetAccessToken, IsFree
  <2>2. PICK p \in {"update", "idle"} :
          /\ pc' = [pc EXCEPT ![t] = p]
          /\ p = "update" => auth # None
          /\ tokenMutex' = IF p = "update" THEN t ELSE Nobody
    BY <1>1, <2>1 DEF GetAccessToken, IsAuthorized, Goto
  <2>3. /\ pc' \in [Threads -> Point]
        /\ pc'[t] = p /\ \A u \in Threads \ {t} : pc'[u] = pc[u]
        /\ AnswersKnown' /\ TokenFound' /\ HalfChanged'
    BY <2>1, <2>2, MoveStep DEF Point, Using
  <2>4. TypeOK'
    BY <1>t, <1>1, <1>m, <2>1, <2>2, <2>3 DEF TypeOK, stored, ui, history, Using, Storing
  <2>5. Places'
    BY <1>t, <1>1, <1>m, <2>1, <2>2, <2>3 DEF Places
  <2>6. DialogInv'
    BY <1>t, <1>1, <1>m, <2>1, <2>2, <2>3 DEF DialogInv, ui
  <2> QED
    BY <2>3, <2>4, <2>5, <2>6 DEF IInv
<1>2. CASE HasRefreshToken
  <2>1. /\ pc[Status] = "relogin" /\ tokenMutex = Nobody
        /\ UNCHANGED <<stored, listener, dialog, status, history, undefined>>
    BY <1>2 DEF HasRefreshToken, IsFree
  <2>2. CASE auth # None
    <3>1. pc' = [pc EXCEPT ![Status] = "lock"] /\ UNCHANGED <<tokenMutex, answer, messages>>
      BY <1>2, <2>2 DEF HasRefreshToken, Goto, Stays
    <3>2. /\ pc' \in [Threads -> Point]
          /\ pc'[Status] = "lock" /\ \A u \in Threads \ {Status} : pc'[u] = pc[u]
          /\ AnswersKnown' /\ TokenFound' /\ HalfChanged'
      BY <1>m, <2>1, <2>2, <3>1, MoveStep DEF Point, Using
    <3>3. TypeOK'
      BY <1>t, <1>m, <2>1, <3>1, <3>2 DEF TypeOK, stored, history, Using, Storing
    <3>4. Places' /\ DialogInv'
      BY <1>t, <1>m, <2>1, <3>1, <3>2 DEF Places, DialogInv, Using
    <3> QED
      BY <3>2, <3>3, <3>4 DEF IInv
  <2>3. CASE auth = None
    <3>1. End(Status, FALSE)
      BY <1>2, <2>3 DEF HasRefreshToken
    <3>2. /\ messages' \in Seq(Message)
          /\ tokenMutex' = Nobody
          /\ answer' = [answer EXCEPT ![Status] = None]
          /\ pc' = [pc EXCEPT ![Status] = "idle"]
      BY <1>t, <1>m, <2>1, <3>1, EndFacts
    <3>3. Places' /\ DialogInv' /\ AnswersKnown'
      BY <1>m, <2>1, <3>1, EndStep
    <3>4. TypeOK'
      BY <1>t, <1>m, <2>1, <3>2 DEF TypeOK, stored, history, Using, Storing, Message, Point
    <3>5. TokenFound' /\ HalfChanged'
      BY <1>t, <1>m, <2>1, <3>2 DEF TypeOK, TokenFound, HalfChanged, stored, history, Using
    <3> QED
      BY <3>3, <3>4, <3>5 DEF IInv
  <2> QED
    BY <2>2, <2>3
<1>3. CASE UpdateRefreshToken
  <2>1. /\ pc[Status] = "lock" /\ tokenMutex = Nobody /\ tokenMutex' = Status
        /\ pc' = [pc EXCEPT ![Status] = "update"]
        /\ UNCHANGED <<stored, ui, answer, history, undefined>>
    BY <1>3 DEF UpdateRefreshToken, IsFree, Goto
  <2>2. /\ pc'[Status] = "update" /\ \A u \in Threads \ {Status} : pc'[u] = pc[u]
        /\ pc' \in [Threads -> Point]
    BY <1>t, <1>m, <2>1 DEF TypeOK, Point, Using
  <2>3. TypeOK'
    BY <1>t, <1>m, <2>1, <2>2 DEF TypeOK, stored, ui, history, Using, Storing
  <2>4. Places' /\ DialogInv' /\ AnswersKnown'
    BY <1>t, <1>m, <2>1, <2>2 DEF Places, DialogInv, AnswersKnown, ui, Using
  <2>5. TokenFound' /\ HalfChanged'
    BY <1>t, <1>m, <2>1, <2>2 DEF TokenFound, HalfChanged, stored, history, Using
  <2> QED
    BY <2>3, <2>4, <2>5 DEF IInv
<1> QED
  BY <1>1, <1>2, <1>3

\* Steps of the dialog leave the token and its file alone.
LEMMA DialogStep ==
    ASSUME IInv,
           \/ OnInitDialog \/ OnStatusUpdateFinish \/ OnWebApiLoginResponse
           \/ LoginClick \/ AuthenticateClean \/ LogoutClick
           \/ OnDestroy \/ StopResponseListener \/ Destroyed
    PROVE  IInv'
<1>t. TypeOK /\ Places /\ DialogInv /\ AnswersKnown /\ TokenFound /\ HalfChanged
  BY DEF IInv
<1>m. /\ Main \in Threads /\ Status \in Threads /\ Listener \in Threads
      /\ Requesters \subseteq Threads
  BY DEF Threads
<1> USE AuthorizerAssumption
\* A step that moves t to p, where nobody holds the mutex for it.
<1>g. ASSUME NEW t \in {Main, Status}, NEW p \in {"idle", "relogin", "get", "stop", "clear", "join"},
             UNCHANGED <<stored, answer, history, undefined, tokenMutex>>,
             pc[t] \in {"idle", "stop", "join"}, pc' = [pc EXCEPT ![t] = p],
             listener' \in {"none", "failed", "open"}, dialog' \in {"closed", "open", "closing"},
             status' \in {"fetching", "logged_out", "in_progress", "logged_in"},
             messages' \in Seq(Message), Places', DialogInv'
      PROVE  IInv'
  <2>1. /\ pc' \in [Threads -> Point]
        /\ pc'[t] = p /\ \A u \in Threads \ {t} : pc'[u] = pc[u]
        /\ AnswersKnown' /\ TokenFound' /\ HalfChanged'
    BY <1>m, <1>g, MoveStep DEF Point, Using, Storing
  <2>2. TypeOK'
    BY <1>t, <1>m, <1>g, <2>1 DEF TypeOK, stored, history, Using, Storing, Message
  <2> QED
    BY <1>g, <2>1, <2>2 DEF IInv
<1>1. CASE OnInitDialog
  <2>1. /\ pc' = [pc EXCEPT ![Status] = "relogin"] /\ pc[Status] = "idle"
        /\ dialog = "closed" /\ dialog' = "open" /\ status' = "fetching"
        /\ UNCHANGED <<stored, tokenMutex, listener, messages, answer, history, undefined>>
    BY <1>t, <1>1 DEF OnInitDialog, Goto, DialogInv
  <2>2. Places' /\ DialogInv'
    BY <1>t, <1>m, <2>1 DEF Places, DialogInv, TypeOK
  <2> QED
    BY <1>t, <1>g, <2>1, <2>2 DEF TypeOK, Message
<1>2. CASE OnStatusUpdateFinish \/ OnWebApiLoginResponse
  <2>1. /\ dialog = "open" /\ pc[Main] = "idle" /\ messages # <<>> /\ messages' = Tail(messages)
        /\ status' \in {"logged_out", "logged_in"}
        /\ \E p \in {"idle", "get"} : pc' = [pc EXCEPT ![Main] = p]
        /\ UNCHANGED <<stored, tokenMutex, listener, dialog, answer, history, undefined>>
    <3>1. ASSUME NEW s \in {"logged_out", "logged_in"}, ShowStatus(s), pc[Main] = "idle"
          PROVE  /\ status' \in {"logged_out", "logged_in"}
                 /\ \E p \in {"idle", "get"} : pc' = [pc EXCEPT ![Main] = p]
      <4>1. pc = [pc EXCEPT ![Main] = "idle"]
        BY <1>t, <1>m, <3>1 DEF TypeOK
      <4> QED
        BY <3>1, <4>1 DEF ShowStatus
    <3>2. CASE OnStatusUpdateFinish
      BY <3>1, <3>2 DEF OnStatusUpdateFinish, InMessageLoop
    <3>3. CASE OnWebApiLoginResponse
      BY <3>1, <3>3 DEF OnWebApiLoginResponse, InMessageLoop
    <3> QED
      BY <1>2, <3>2, <3>3
  <2>2. messages' \in Seq(Message)
    BY <1>t, <2>1, TailFacts DEF TypeOK, Message
  <2>3. Places' /\ DialogInv'
    BY <1>t, <1>m, <2>1 DEF Places, DialogInv, TypeOK
  <2> QED
    BY <1>t, <1>g, <2>1, <2>2, <2>3 DEF TypeOK
<1>3. CASE LoginClick \/ LogoutClick \/ OnDestroy
  <2>1. /\ dialog = "open" /\ pc[Main] = "idle"
        /\ \E p \in {"stop", "clear"} :
             pc' = [pc EXCEPT ![Main] = p] /\ (dialog' = "closing" => p = "stop")
        /\ dialog' \in {"open", "closing"}
        /\ status' \in {status, "in_progress"}
        /\ UNCHANGED <<stored, tokenMutex, listener, messages, answer, history, undefined>>
    BY <1>3 DEF LoginClick, LogoutClick, OnDestroy, InMessageLoop, Goto, ui
  <2>2. tokenMutex # Main
    BY <1>t, <1>m, <2>1 DEF TypeOK, Using, Storing
  <2>3. Places' /\ DialogInv'
    BY <1>t, <1>m, <2>1, <2>2 DEF Places, DialogInv, TypeOK, Storing
  <2> QED
    BY <1>t, <1>g, <2>1, <2>3 DEF TypeOK, Message
<1>4. CASE AuthenticateClean
  <2>1. /\ pc[Main] = "stop" /\ dialog = "open" /\ pc' = [pc EXCEPT ![Main] = "idle"]
        /\ listener' \in {"open", "failed"} /\ status' \in {status, "logged_out"}
        /\ pc[Listener] = "idle"
        /\ UNCHANGED <<stored, tokenMutex, dialog, messages, answer, history, undefined>>
    BY <1>t, <1>4 DEF AuthenticateClean, Goto, HandlerDone, DialogInv
  <2>2. Places' /\ DialogInv'
    BY <1>t, <1>m, <2>1 DEF Places, DialogInv, TypeOK
  <2> QED
    BY <1>t, <1>g, <2>1, <2>2 DEF TypeOK, Message
<1>5. CASE StopResponseListener
  <2>1. /\ pc[Main] = "stop" /\ dialog = "closing" /\ listener' = "none"
        /\ \E p \in {"join", "clear"} : pc' = [pc EXCEPT ![Main] = p]
        /\ pc[Listener] = "idle"
        /\ UNCHANGED <<stored, tokenMutex, dialog, status, messages, answer, history, undefined>>
    BY <1>t, <1>5 DEF StopResponseListener, Goto, HandlerDone, DialogInv
  <2>2. Places' /\ DialogInv'
    BY <1>t, <1>m, <2>1 DEF Places, DialogInv, TypeOK, Storing
  <2> QED
    BY <1>t, <1>g, <2>1, <2>2 DEF TypeOK, Message
<1>6. CASE Destroyed
  <2>1. /\ pc[Main] = "join" /\ pc[Status] = "idle" /\ pc' = [pc EXCEPT ![Main] = "idle"]
        /\ dialog' = "closed" /\ messages' = <<>> /\ listener = "none"
        /\ UNCHANGED <<stored, tokenMutex, listener, status, answer, history, undefined>>
    BY <1>t, <1>6 DEF Destroyed, Goto, DialogInv
  <2>2. Places' /\ DialogInv'
    BY <1>t, <1>m, <2>1 DEF Places, DialogInv, TypeOK
  <2>3. messages' \in Seq(Message)
    BY <2>1, EmptySeq
  <2> QED
    BY <1>t, <1>g, <2>1, <2>2, <2>3 DEF TypeOK
<1> QED
  BY <1>1, <1>2, <1>3, <1>4, <1>5, <1>6

\* The listener's thread, and the clock.
LEMMA ListenerStep ==
    ASSUME IInv, BrowserAnswers \/ ResponseFailed \/ Replied \/ Expire
    PROVE  IInv'
<1>t. TypeOK /\ Places /\ DialogInv /\ AnswersKnown /\ TokenFound /\ HalfChanged
  BY DEF IInv
<1>m. Main \in Threads /\ Status \in Threads /\ Listener \in Threads
  BY DEF Threads
<1> USE AuthorizerAssumption
<1>1. CASE BrowserAnswers
  <2>1. /\ listener = "open" /\ pc[Listener] = "idle"
        /\ UNCHANGED <<auth, expired, file, tokenMutex, listener, dialog, status, messages,
                       killed, raced, overlapped, unsaved, undefined>>
        /\ \/ pc' = [pc EXCEPT ![Listener] = "reset"] /\ answer' = answer
           \/ \E a \in Accounts : /\ pc' = [pc EXCEPT ![Listener] = "exchange"]
                                  /\ answer' = [answer EXCEPT ![Listener] = a]
    BY <1>1 DEF BrowserAnswers, Goto, stored, ui, history
  <2>2. /\ pc'[Listener] \in {"reset", "exchange"}
        /\ pc'[Listener] = "exchange" => answer'[Listener] \in Accounts
        /\ \A u \in Threads \ {Listener} : pc'[u] = pc[u] /\ answer'[u] = answer[u]
    BY <1>t, <1>m, <2>1 DEF TypeOK
  <2>3. TypeOK'
    BY <1>t, <1>m, <2>1, <2>2 DEF TypeOK, Point
  <2>4. Places' /\ DialogInv' /\ AnswersKnown'
    BY <1>t, <1>m, <2>1, <2>2 DEF Places, DialogInv, AnswersKnown, Threads
  <2>5. TokenFound' /\ HalfChanged'
    BY <1>t, <2>1, <2>2 DEF TokenFound, HalfChanged, Using
  <2> QED
    BY <2>3, <2>4, <2>5 DEF IInv
<1>2. CASE ResponseFailed
  <2>1. /\ pc[Listener] = "reset" /\ auth' = None
        /\ pc' = [pc EXCEPT ![Listener] = "replyError"]
        /\ UNCHANGED <<expired, file, tokenMutex, listener, dialog, status, messages, answer,
                       killed, overlapped, unsaved, undefined>>
        /\ raced' = (raced \/ \E u \in Threads \ {Listener} : pc[u] \in Using)
    BY <1>2 DEF ResponseFailed, Goto, ui, Clears
  <2>2. /\ pc'[Listener] = "replyError" /\ raced' \in BOOLEAN
        /\ \A u \in Threads \ {Listener} : pc'[u] = pc[u]
    BY <1>t, <1>m, <2>1 DEF TypeOK
  <2>3. TypeOK'
    BY <1>t, <1>m, <2>1, <2>2 DEF TypeOK, Point
  <2>4. Places' /\ DialogInv' /\ AnswersKnown'
    BY <1>t, <1>m, <2>1, <2>2 DEF Places, DialogInv, AnswersKnown, Threads
  <2>5. TokenFound' /\ HalfChanged'
    BY <1>t, <2>1, <2>2 DEF TokenFound, HalfChanged, Using
  <2> QED
    BY <2>3, <2>4, <2>5 DEF IInv
<1>3. CASE Replied
  <2>1. /\ pc[Listener] \in {"reply", "replyError"}
        /\ \/ Post("response") /\ pc' = [pc EXCEPT ![Listener] = "idle"]
           \/ messages' = messages /\ pc' = [pc EXCEPT ![Listener] = "reset"]
        /\ UNCHANGED <<auth, expired, file, tokenMutex, listener, dialog, status, answer,
                       killed, raced, overlapped, unsaved, undefined>>
    BY <1>3 DEF Replied, ResponseEnds, Goto, stored, history
  <2>2. /\ pc'[Listener] \in {"idle", "reset"}
        /\ \A u \in Threads \ {Listener} : pc'[u] = pc[u]
    BY <1>t, <1>m, <2>1 DEF TypeOK
  <2>3. messages' \in Seq(Message)
    BY <1>t, <2>1, PostFacts DEF TypeOK, Message
  <2>4. TypeOK'
    BY <1>t, <1>m, <2>1, <2>2, <2>3 DEF TypeOK, Point, Message
  <2>5. Places' /\ DialogInv' /\ AnswersKnown'
    BY <1>t, <1>m, <2>1, <2>2 DEF Places, DialogInv, AnswersKnown, Threads
  <2>6. TokenFound' /\ HalfChanged'
    BY <1>t, <2>1, <2>2 DEF TokenFound, HalfChanged, Using
  <2> QED
    BY <2>4, <2>5, <2>6 DEF IInv
<1>4. CASE Expire
  <2>1. /\ expired' = TRUE
        /\ UNCHANGED <<auth, file, tokenMutex, listener, dialog, status, messages, pc, answer,
                       killed, raced, overlapped, unsaved, undefined>>
    BY <1>4 DEF Expire, ui, history
  <2>2. TypeOK'
    BY <1>t, <2>1 DEF TypeOK
  <2>3. Places' /\ DialogInv' /\ AnswersKnown' /\ TokenFound' /\ HalfChanged'
    BY <1>t, <2>1 DEF Places, DialogInv, AnswersKnown, TokenFound, HalfChanged
  <2> QED
    BY <2>2, <2>3 DEF IInv
<1> QED
  BY <1>1, <1>2, <1>3, <1>4

LEMMA NextStep ==
    ASSUME IInv, [Next]_vars
    PROVE  IInv'
<1>1. ASSUME NEW t \in Requesters \cup {Main}, GetAccessToken(t)
      PROVE  IInv'
  <2>1. t \in Threads
    BY DEF Threads
  <2> QED
    BY <1>1, <2>1, LockStep
<1>2. ASSUME NEW t \in Threads, Proceed(t)
      PROVE  IInv'
  BY <1>2, TypeProceed, DialogProceed, TokenProceed DEF IInv
<1>3. CASE StatusLocks
  <2>1. Status \in Threads
    BY DEF Threads
  <2> QED
    BY <1>3, <2>1, LockStep DEF StatusLocks
<1>4. CASE MainProceeds \/ OnInitDialog \/ OnStatusUpdateFinish \/ LoginClick \/ LogoutClick
           \/ OnDestroy
  BY <1>4, DialogStep DEF MainProceeds
<1>5. CASE Expire \/ BrowserAnswers \/ ResponseFailed \/ Replied
  BY <1>5, ListenerStep
<1>6. CASE Kill
  BY <1>6, KillStep
<1>7. CASE UNCHANGED vars
  <2>1. UNCHANGED <<auth, expired, file, tokenMutex, listener, dialog, status, messages, pc,
                    answer, killed, raced, overlapped, unsaved, undefined>>
    BY <1>7 DEF vars, stored, ui, history
  <2> QED
    BY <2>1 DEF IInv, TypeOK, Places, DialogInv, AnswersKnown, TokenFound, HalfChanged
<1> QED
  BY <1>1, <1>2, <1>3, <1>4, <1>5, <1>6, <1>7 DEF Next

-----------------------------------------------------------------------------
(* Theorems *)

\* The invariant of the authorization, the dialog and the listener.
THEOREM Invariance == Spec => []IInv
<1>1. Init => IInv
  BY InitInvariant
<1>2. IInv /\ [Next]_vars => IInv'
  BY NextStep
<1> QED
  BY <1>1, <1>2, PTL DEF Spec

\* Type correctness; who holds accessTokenMutex_ reads, refreshes or stores a token.
THEOREM TypeCorrect == Spec => []TypeOK
<1>1. IInv => TypeOK
  BY DEF IInv
<1> QED
  BY <1>1, Invariance, PTL

\* No refresh token is used twice at a time, whatever the dialog does meanwhile.
THEOREM RefreshedOnce == Spec => []OneRefresh
<1>1. IInv => OneRefresh
  BY AuthorizerAssumption DEF IInv, TypeOK, OneRefresh, Using, Storing
<1> QED
  BY <1>1, Invariance, PTL

\* Neither the listener's thread nor the status thread outlives the dialog.
THEOREM NothingOutlivesDialog == Spec => []ClosedIsQuiet
<1>1. IInv => ClosedIsQuiet
  BY DEF IInv, DialogInv, ClosedIsQuiet
<1> QED
  BY <1>1, Invariance, PTL

\* A token is missing where it is read only if it was cleared underneath.
THEOREM TokensFound == Spec => []ReadsToken
<1>1. IInv => ReadsToken
  BY DEF IInv, TokenFound, ReadsToken
<1> QED
  BY <1>1, Invariance, PTL

\* The memory and auth.json agree.
THEOREM MemoryIsStored == Spec => []UsedIsStored
<1>1. IInv => UsedIsStored
  BY DEF IInv, HalfChanged, UsedIsStored, Storing
<1> QED
  BY <1>1, Invariance, PTL
=============================================================================
