--------------------------- MODULE WebApiAuthorizer ---------------------------
(***************************************************************************)
(* The authorization of the WebApi (backend/webapi_auth.{h,cpp}) and the   *)
(* tab of the preferences that changes it (ui/ui_pref_tab_auth.cpp).       *)
(* Requests get the access token, and refresh it when it has expired; the  *)
(* status thread of an open dialog does so, too; the main thread starts a  *)
(* login in the browser, logs out and closes the dialog; the browser's     *)
(* answer is handled by a thread of the listener.                          *)
(*                                                                         *)
(* accessTokenMutex_ is held by the threads that get or refresh the token, *)
(* and by nobody who clears or replaces it.  The memory and the file       *)
(* auth.json change one after the other, so that each change is an action. *)
(* Reading a token that was cleared meanwhile is undefined: the program    *)
(* stops there.                                                            *)
(***************************************************************************)
EXTENDS Naturals, Sequences

CONSTANTS
    Accounts,     \* whose tokens
    Requesters,   \* threads that make WebApi requests
    Main, Status, Listener,
    None,         \* pAuthData_ is null
    Nobody        \* accessTokenMutex_ is free

Threads == Requesters \cup {Main, Status, Listener}

ASSUME AuthorizerAssumption ==
    /\ None \notin Accounts
    /\ Nobody \notin Threads
    /\ Requesters \cap {Main, Status, Listener} = {}
    /\ Main # Status /\ Main # Listener /\ Status # Listener

VARIABLES
    auth,       \* pAuthData_, by its account
    expired,    \* its expiresAt is over
    file,       \* auth.json
    tokenMutex, \* who holds accessTokenMutex_
    listener,   \* pListener_: "none", "failed" to open, or "open"
    dialog,     \* the preferences: "closed", "open" or "closing"
    status,     \* webApiStatus_
    messages,   \* posted to the dialog
    pc,         \* where each thread is
    answer,     \* the account of the answer that a thread handles
    killed,     \* the program has been killed once
    raced,      \* history: a token was cleared under a thread that had found it
    overlapped, \* history: two threads changed the memory and the file at a time
    unsaved,    \* history: writing the authorization that is used failed
    undefined   \* a null pAuthData_ was read

stored == <<auth, expired, file>>
ui == <<listener, dialog, status, messages>>
history == <<killed, raced, overlapped, unsaved>>
vars == <<stored, tokenMutex, ui, pc, answer, history, undefined>>

\* Where a thread relies on the token it has found, or changes it.
Using == {"lock", "update", "refresh", "use"}
Storing == {"store", "set", "clear", "remove"}
Point == {"idle", "relogin", "exchange", "reset", "reply", "replyError", "get", "stop", "join"}
         \cup Using \cup Storing

\* Type correctness; the mutex is held where a token is read or refreshed.
TypeOK ==
    /\ auth \in Accounts \cup {None} /\ file \in Accounts \cup {None}
    /\ expired \in BOOLEAN /\ undefined \in BOOLEAN
    /\ killed \in BOOLEAN /\ raced \in BOOLEAN /\ overlapped \in BOOLEAN
    /\ unsaved \in BOOLEAN
    /\ tokenMutex \in (Threads \ {Listener}) \cup {Nobody}
    /\ listener \in {"none", "failed", "open"}
    /\ dialog \in {"closed", "open", "closing"}
    /\ status \in {"fetching", "logged_out", "in_progress", "logged_in"}
    /\ messages \in Seq({"response", "authorized", "unauthorized"})
    /\ pc \in [Threads -> Point]
    /\ answer \in [Threads -> Accounts \cup {None}]
    /\ \A t \in Threads \ {Listener} :
         /\ pc[t] \in (Using \ {"lock"}) \cup {"store", "set"} => tokenMutex = t
         /\ tokenMutex = t => pc[t] \in Using \cup Storing

Init ==
    /\ auth \in Accounts \cup {None}
    /\ file = auth
    /\ expired \in BOOLEAN
    /\ tokenMutex = Nobody
    /\ listener = "none"
    /\ dialog = "closed"
    /\ status = "fetching"
    /\ messages = <<>>
    /\ pc = [t \in Threads |-> "idle"]
    /\ answer = [t \in Threads |-> None]
    /\ killed = FALSE
    /\ raced = FALSE
    /\ overlapped = FALSE
    /\ unsaved = FALSE
    /\ undefined = FALSE

Goto(t, p) == pc' = [pc EXCEPT ![t] = p]
IsFree == tokenMutex = Nobody
Post(m) == messages' = Append(messages, m)

\* Mutant: the mutex stays locked when an exception is thrown.
ReleasedOnSuccess(t, ok) == IF tokenMutex = t /\ ok THEN Nobody ELSE tokenMutex

Released(t, ok) == IF tokenMutex = t THEN Nobody ELSE tokenMutex

\* What t was asked to do ends, by an exception unless ok.
End(t, ok) ==
    /\ tokenMutex' = Released(t, ok)
    /\ answer' = [answer EXCEPT ![t] = None]
    /\ \/ /\ t = Listener
          /\ Goto(t, IF ok THEN "reply" ELSE "reset")
          /\ UNCHANGED messages
       \/ /\ t = Status
          /\ Goto(t, "idle")
          /\ Post(IF ok THEN "authorized" ELSE "unauthorized")
       \/ /\ t \notin {Listener, Status}
          /\ Goto(t, "idle")
          /\ UNCHANGED messages

Stays == UNCHANGED <<tokenMutex, answer, messages>>

-----------------------------------------------------------------------------
(* Getting and refreshing a token *)

\* Mutant: a missing authorization is not noticed.
MayGetAnyway == TRUE

IsAuthorized == auth # None

\* GetAccessToken throws when nobody is logged in, and shows the dialog that says so.
GetAccessToken(t) ==
    /\ \/ t \in Requesters /\ pc[t] = "idle"
       \/ t = Main /\ pc[t] = "get"
    /\ IsFree
    /\ IF IsAuthorized
       THEN Goto(t, "update") /\ tokenMutex' = t
       ELSE Goto(t, "idle") /\ UNCHANGED tokenMutex
    /\ UNCHANGED <<stored, ui, answer, history, undefined>>

\* The status thread, behind Relogin.
HasRefreshToken ==
    /\ pc[Status] = "relogin"
    /\ IsFree
    /\ IF auth # None
       THEN Goto(Status, "lock") /\ Stays
       ELSE End(Status, FALSE)
    /\ UNCHANGED <<stored, listener, dialog, status, history, undefined>>

\* Mutant: it does not lock.
UpdateRefreshTokenUnlocked ==
    /\ pc[Status] = "lock"
    /\ Goto(Status, "update")
    /\ UNCHANGED <<stored, tokenMutex, ui, answer, history, undefined>>

UpdateRefreshToken ==
    /\ pc[Status] = "lock"
    /\ IsFree
    /\ Goto(Status, "update")
    /\ tokenMutex' = Status
    /\ UNCHANGED <<stored, ui, answer, history, undefined>>

\* UpdateRefreshToken_NonBlocking asserts that there is a token, and reads it.
UpdateRefreshToken_NonBlocking(t) ==
    /\ pc[t] = "update"
    /\ undefined' = (auth = None)
    /\ IF auth # None /\ expired
       THEN Goto(t, "refresh") /\ answer' = [answer EXCEPT ![t] = auth]
                               /\ UNCHANGED <<tokenMutex, messages>>
       ELSE IF t = Status THEN End(t, TRUE)
       ELSE Goto(t, "use") /\ Stays
    /\ UNCHANGED <<stored, listener, dialog, status, history>>

\* GetAccessToken returns the token.
AccessToken(t) ==
    /\ pc[t] = "use"
    /\ undefined' = (auth = None)
    /\ End(t, TRUE)
    /\ UNCHANGED <<stored, listener, dialog, status, history>>

\* The answer of the server: a token, a refusal, or an exception, as when the
\* request is cancelled or times out.
Answered(t) ==
    /\ pc[t] \in {"refresh", "exchange"}
    /\ \/ Goto(t, "store") /\ Stays
       \/ Goto(t, "clear") /\ Stays
       \/ End(t, FALSE)
    /\ UNCHANGED <<stored, listener, dialog, status, history, undefined>>

-----------------------------------------------------------------------------
(* HandleAuthenticationResponse and ClearAuth *)

\* What a change by t meets.
Clears(t) == raced' = (raced \/ \E u \in Threads \ {t} : pc[u] \in Using)
Changes(t) == overlapped' = (overlapped \/ \E u \in Threads \ {t} : pc[u] \in Storing)

\* Mutant: a file that exists is left alone.
WriteFileOnce(t) ==
    /\ pc[t] = "store"
    /\ file' = IF file = None THEN answer[t] ELSE file
    /\ Goto(t, "set")
    /\ Changes(t)
    /\ UNCHANGED <<auth, expired, tokenMutex, ui, answer, killed, raced, unsaved, undefined>>

\* Whether it was written is not looked at: the file may stay as it was, or be left
\* half written, which the next start removes.
WriteFile(t) ==
    /\ pc[t] = "store"
    /\ \/ file' = answer[t] /\ unsaved' = FALSE
       \/ file' \in {file, None} /\ unsaved' = TRUE
    /\ Goto(t, "set")
    /\ Changes(t)
    /\ UNCHANGED <<auth, expired, tokenMutex, ui, answer, killed, raced, undefined>>

SetAuth(t) ==
    /\ pc[t] = "set"
    /\ auth' = answer[t]
    /\ expired' = FALSE
    /\ Changes(t)
    /\ IF t \in {Status, Listener} THEN End(t, TRUE) ELSE Goto(t, "use") /\ Stays
    /\ UNCHANGED <<file, listener, dialog, status, killed, raced, unsaved, undefined>>

ClearMemory(t) ==
    /\ pc[t] = "clear"
    /\ auth' = None
    /\ unsaved' = FALSE
    /\ Goto(t, "remove")
    /\ Clears(t) /\ Changes(t)
    /\ UNCHANGED <<expired, file, tokenMutex, ui, answer, killed, undefined>>

\* A refusal goes on as an exception; logging out and closing the dialog are the
\* main thread's.
RemoveFile(t) ==
    /\ pc[t] = "remove"
    /\ file' = None
    /\ Changes(t)
    /\ IF t = Main /\ tokenMutex # Main
       THEN /\ Goto(t, IF dialog = "closing" THEN "join" ELSE "idle")
            /\ status' = "logged_out"
            /\ Stays
       ELSE End(t, FALSE) /\ UNCHANGED status
    /\ UNCHANGED <<auth, expired, listener, dialog, killed, raced, unsaved, undefined>>

Expire ==
    /\ auth # None
    /\ expired' = TRUE
    /\ UNCHANGED <<auth, file, tokenMutex, ui, pc, answer, history, undefined>>

-----------------------------------------------------------------------------
(* The answer of the browser *)

\* It brings an error, or the code that CompleteAuthentication exchanges; a second
\* one is not sent before the dialog has noticed the first.
BrowserAnswers ==
    /\ listener = "open"
    /\ pc[Listener] = "idle"
    /\ "response" \notin {messages[i] : i \in 1 .. Len(messages)}
    /\ \/ Goto(Listener, "reset") /\ UNCHANGED answer
       \/ \E a \in Accounts :
            Goto(Listener, "exchange") /\ answer' = [answer EXCEPT ![Listener] = a]
    /\ UNCHANGED <<stored, tokenMutex, ui, history, undefined>>

\* An exception clears the memory only.
ResponseFailed ==
    /\ pc[Listener] = "reset"
    /\ auth' = None
    /\ Goto(Listener, "replyError")
    /\ Clears(Listener)
    /\ UNCHANGED <<expired, file, tokenMutex, ui, answer, killed, overlapped, unsaved, undefined>>

\* onResponseEnd, whatever became of the reply.
ResponseEnds ==
    /\ Goto(Listener, "idle")
    /\ Post("response")

\* A reply of success that throws is handled like a failed exchange.
Replied ==
    /\ \/ pc[Listener] \in {"reply", "replyError"} /\ ResponseEnds
       \/ pc[Listener] = "reply" /\ Goto(Listener, "reset") /\ UNCHANGED messages
    /\ UNCHANGED <<stored, tokenMutex, listener, dialog, status, answer, history, undefined>>

\* Mutant: the handler that runs is not waited for.
ClosesAtOnce == TRUE

HandlerDone == pc[Listener] = "idle"

-----------------------------------------------------------------------------
(* The dialog *)

OnInitDialog ==
    /\ dialog = "closed"
    /\ dialog' = "open"
    /\ status' = "fetching"
    /\ Goto(Status, "relogin")
    /\ UNCHANGED <<stored, tokenMutex, listener, messages, answer, history, undefined>>

InMessageLoop == dialog = "open" /\ pc[Main] = "idle"

\* The user's name comes from the cache or from a request.
ShowStatus(s) ==
    /\ status' = s
    /\ IF s = "logged_in" THEN pc' \in {pc, [pc EXCEPT ![Main] = "get"]} ELSE UNCHANGED pc

OnStatusUpdateFinish ==
    /\ InMessageLoop
    /\ messages # <<>> /\ Head(messages) # "response"
    /\ messages' = Tail(messages)
    /\ ShowStatus(IF Head(messages) = "authorized" THEN "logged_in" ELSE "logged_out")
    /\ UNCHANGED <<stored, tokenMutex, listener, dialog, answer, history, undefined>>

OnWebApiLoginResponse ==
    /\ InMessageLoop
    /\ messages # <<>> /\ Head(messages) = "response"
    /\ IsFree
    /\ messages' = Tail(messages)
    /\ ShowStatus(IF auth # None THEN "logged_in" ELSE "logged_out")
    /\ UNCHANGED <<stored, tokenMutex, listener, dialog, answer, history, undefined>>

\* AuthenticateClean stops the listener first.
LoginClick ==
    /\ InMessageLoop
    /\ status = "logged_out"
    /\ status' = "in_progress"
    /\ Goto(Main, "stop")
    /\ UNCHANGED <<stored, tokenMutex, listener, dialog, messages, answer, history, undefined>>

\* The listener cannot be opened, or the browser cannot.
AuthenticateClean ==
    /\ pc[Main] = "stop" /\ dialog = "open"
    /\ listener # "none" => HandlerDone
    /\ Goto(Main, "idle")
    /\ \/ listener' = "open" /\ UNCHANGED status
       \/ listener' \in {"open", "failed"} /\ status' = "logged_out"
    /\ UNCHANGED <<stored, tokenMutex, dialog, messages, answer, history, undefined>>

LogoutClick ==
    /\ InMessageLoop
    /\ status = "logged_in"
    /\ Goto(Main, "clear")
    /\ UNCHANGED <<stored, tokenMutex, ui, answer, history, undefined>>

OnDestroy ==
    /\ InMessageLoop
    /\ dialog' = "closing"
    /\ Goto(Main, "stop")
    /\ UNCHANGED <<stored, tokenMutex, listener, status, messages, answer, history, undefined>>

\* AuthenticateClean_Cleanup when logged in, CancelAuth otherwise.
StopResponseListener ==
    /\ pc[Main] = "stop" /\ dialog = "closing"
    /\ listener # "none" => HandlerDone
    /\ listener' = "none"
    /\ Goto(Main, IF status = "logged_in" THEN "join" ELSE "clear")
    /\ UNCHANGED <<stored, tokenMutex, dialog, status, messages, answer, history, undefined>>

\* The status thread is joined, and the window goes with its messages.
Destroyed ==
    /\ pc[Main] = "join"
    /\ pc[Status] = "idle"
    /\ Goto(Main, "idle")
    /\ dialog' = "closed"
    /\ messages' = <<>>
    /\ UNCHANGED <<stored, tokenMutex, listener, status, answer, history, undefined>>

-----------------------------------------------------------------------------

\* The program is killed, at most once, and started again: the constructor reads
\* the file, and removes one that was only half written.
Kill ==
    /\ ~killed
    /\ killed' = TRUE
    /\ file' \in {file} \cup {None : t \in {t \in Threads : pc[t] = "store"}}
    /\ auth' = file'
    /\ tokenMutex' = Nobody
    /\ listener' = "none"
    /\ dialog' = "closed"
    /\ messages' = <<>>
    /\ pc' = [t \in Threads |-> "idle"]
    /\ answer' = [t \in Threads |-> None]
    /\ unsaved' = FALSE
    /\ UNCHANGED <<expired, status, raced, overlapped, undefined>>

\* What a thread does by itself.
Proceed(t) ==
    \/ UpdateRefreshToken_NonBlocking(t) \/ AccessToken(t) \/ Answered(t)
    \/ WriteFile(t) \/ SetAuth(t) \/ ClearMemory(t) \/ RemoveFile(t)

MainProceeds ==
    OnWebApiLoginResponse \/ AuthenticateClean \/ StopResponseListener \/ Destroyed

StatusLocks == HasRefreshToken \/ UpdateRefreshToken

Next ==
    /\ ~undefined
    /\ \/ \E t \in Requesters \cup {Main} : GetAccessToken(t)
       \/ \E t \in Threads : Proceed(t)
       \/ StatusLocks \/ MainProceeds
       \/ Expire \/ BrowserAnswers \/ ResponseFailed \/ Replied
       \/ OnInitDialog \/ OnStatusUpdateFinish \/ LoginClick \/ LogoutClick \/ OnDestroy
       \/ Kill

Spec == Init /\ [][Next]_vars

\* Threads run, the HTTP client gives a request up after a while, and a thread
\* that waits for the mutex while others lock and unlock it gets it in the end.
FairSpec ==
    /\ Spec
    /\ \A t \in Threads : WF_vars(~undefined /\ Proceed(t))
    /\ WF_vars(~undefined /\ (ResponseFailed \/ Replied))
    /\ WF_vars(~undefined /\ (AuthenticateClean \/ StopResponseListener \/ Destroyed))
    /\ SF_vars(~undefined /\ StatusLocks)
    /\ SF_vars(~undefined /\ GetAccessToken(Main))

-----------------------------------------------------------------------------
(* Properties *)

\* The handler's callback and the status thread hold the dialog's window: neither
\* outlives it, whichever way the dialog is closed.
ClosedIsQuiet ==
    dialog = "closed" =>
        /\ listener = "none" /\ messages = <<>>
        /\ pc[Listener] = "idle" /\ pc[Status] = "idle"

\* A refresh token serves once: no two threads refresh at a time, nor does one
\* refresh a token that another is about to replace by its answer.
OneRefresh ==
    \A t, u \in Threads \ {Listener} :
        pc[t] \in {"refresh", "store", "set"} /\ pc[u] \in {"update", "refresh", "store", "set"}
        => t = u

\* A missing token is read, against the assertion of webapi_auth.cpp:329, only
\* when the dialog or the browser's answer cleared it under the thread.
ReadsToken == undefined => raced

\* Unless two threads changed it at a time, or it could not be written, the
\* authorization in use is the one that the next start will find, through
\* refreshes, refusals, failed logins, changes of the account and restarts.
UsedIsStored ==
    ~overlapped /\ ~unsaved /\ (\A t \in Threads : pc[t] \notin Storing)
    => auth \in {file, None}

\* The main thread closes the dialog without waiting for good, whatever the handler,
\* the status thread and the requests are doing.
CloseEnds == dialog = "closing" ~> dialog = "closed" \/ undefined
=============================================================================
