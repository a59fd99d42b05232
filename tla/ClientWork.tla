----------------------------- MODULE ClientWork -----------------------------
(***************************************************************************)
(* ClientWork::Run as the worker threads execute it.  Between two of these *)
(* steps the main thread and the other workers may do anything: the        *)
(* session's lock is held for single updates of processingCount only.      *)
(*                                                                         *)
(* A step that reads or writes the session is guarded by the session not   *)
(* being released; UseReleased is what happens when it is.                 *)
(***************************************************************************)
EXTENDS ClientSession

CONSTANTS
  Workers,    \* the threads of the pool (THREAD_COUNT of them)
  NoWork      \* a worker's work pointer when it is null

WorkType == {"SESSION_READ", "SESSION_CLOSE"}
Work     == [type : WorkType, session : Sessions]

ReadWork(s)  == [type |-> "SESSION_READ", session |-> s]
CloseWork(s) == [type |-> "SESSION_CLOSE", session |-> s]

ASSUME NoWorkAssumption == NoWork \notin Work

VARIABLES
  pc,         \* where each worker is in ClientThreadPool::Run
  work,       \* the work each worker has taken from the queue
  errorCode   \* what ClientWork::Run has returned or is going to return

workVars == <<pc, work, errorCode>>

(* Where a worker can be: the first row is the pool's loop, the second is  *)
(* ClientWork::Run, the third is cancelWorks.  "hung" is a response that   *)
(* is written forever, "ended" a thread that has returned.                 *)
PC == {"wait", "fetch", "count", "requeue", "finish", "hung", "ended"}
        \union {"run", "receive", "respond", "leave", "release"}
        \union {"cancel", "rotate", "inspect", "store"}

ErrorCode == {"ERROR_NONE", "ERROR_ZERO_RETURN"}

WorkTypeOK ==
  /\ pc \in [Workers -> PC]
  /\ work \in [Workers -> Work \union {NoWork}]
  /\ errorCode \in [Workers -> ErrorCode]

WorkInit ==
  /\ pc = [w \in Workers |-> "wait"]
  /\ work = [w \in Workers |-> NoWork]
  /\ errorCode = [w \in Workers |-> "ERROR_NONE"]

Goto(w, from, to) ==
  /\ pc[w] = from
  /\ pc' = [pc EXCEPT ![w] = to]

Return(w, code) == errorCode' = [errorCode EXCEPT ![w] = code]

(* The session of the work that w is running, and whether w holds such a   *)
(* work at all.                                                            *)
Session(w) == work[w].session
Alive(w)   == Session(w) \notin released

-----------------------------------------------------------------------------
(* case SESSION_READ *)

ReadBegin(w) ==
  /\ Goto(w, "run", "receive")
  /\ work[w].type = "SESSION_READ"
  /\ Alive(w)
  /\ processingCount' = [processingCount EXCEPT ![Session(w)] = @ + 1]
  /\ UNCHANGED <<work, errorCode, netVars, process,
                 bIsSSLConnected, expired, closeNotified, sslFailed, released>>

(* receiveData returns without reading: FIONREAD fails on a broken         *)
(* connection, and SSL_read_ex answers for an SSL object that has seen     *)
(* close_notify (ZERO_RETURN) or has had a fatal error (an error, taken    *)
(* for the length of a request) without touching the socket.               *)
ReceiveNothing(w) ==
  /\ Goto(w, "receive", "leave")
  /\ Alive(w)
  /\ \/ /\ Session(w) \in hungUp \union (sslFailed \ closeNotified)
        /\ Return(w, "ERROR_NONE")
     \/ /\ Session(w) \in closeNotified
        /\ Return(w, "ERROR_ZERO_RETURN")
  /\ UNCHANGED <<work, netVars, sessionVars, process>>

(* Otherwise SSL_read_ex comes to its recv. *)
Reads(s) == s \notin closeNotified \union sslFailed

(* It finds the socket empty: WANT_READ, then an empty request.            *)
ReceiveWouldBlock(w) ==
  /\ Goto(w, "receive", "leave")
  /\ Alive(w)
  /\ Reads(Session(w))
  /\ unread[Session(w)] = 0
  /\ Recv(Session(w), netEvents[Session(w)], 0)
  /\ Return(w, "ERROR_NONE")
  /\ UNCHANGED <<work, link, hungUp, sendsLeft, sessionVars, process>>

(* It takes some of what has arrived.  PrepareResponse accepts it, or      *)
(* rejects it (so it does when a record is cut short); or the record is    *)
(* bad, which is fatal to the SSL object; or the peer's close_notify is    *)
(* among it, or the length is 4, the value of HTTPS_CLIENT_ZERO_RETURN.    *)
Receive(w) ==
  /\ pc[w] = "receive"
  /\ Alive(w)
  /\ Reads(Session(w))
  /\ \E n \in 0 .. unread[Session(w)] - 1 : Recv(Session(w), netEvents[Session(w)], n)
  /\ \/ /\ pc' = [pc EXCEPT ![w] = "respond"]
        /\ UNCHANGED <<errorCode, closeNotified, sslFailed>>
     \/ /\ pc' = [pc EXCEPT ![w] = "leave"]
        /\ Return(w, "ERROR_NONE")
        /\ sslFailed' \in {sslFailed, sslFailed \union {Session(w)}}
        /\ UNCHANGED closeNotified
     \/ /\ pc' = [pc EXCEPT ![w] = "leave"]
        /\ Return(w, "ERROR_ZERO_RETURN")
        /\ closeNotified' \in {closeNotified, closeNotified \union {Session(w)}}
        /\ UNCHANGED sslFailed
  /\ UNCHANGED <<work, link, hungUp, sendsLeft, process,
                 processingCount, bIsSSLConnected, expired, released>>

(* writeHttpResponse.  http::Memcpy writes through *response[index], that  *)
(* is, from index 1 on, through whatever pointers lie beside responseBody: *)
(* the process may die of it.  If it survives, the chunk loop ends with    *)
(* success, with an SSL error (handled like success by the pool, and fatal *)
(* to the SSL object or not) or with ZERO_RETURN, or never ends: the last  *)
(* chunk of a size that is a multiple of BASIC_SSL_CHUNK_SIZE is written   *)
(* with length 0 over and over.                                            *)
Respond(w) ==
  /\ pc[w] = "respond"
  /\ Alive(w)
  /\ \/ /\ process' = "crashed"
        /\ UNCHANGED <<pc, errorCode, closeNotified, sslFailed>>
     \/ /\ pc' = [pc EXCEPT ![w] = "hung"]
        /\ UNCHANGED <<errorCode, closeNotified, sslFailed, process>>
     \/ /\ pc' = [pc EXCEPT ![w] = "leave"]
        /\ Return(w, "ERROR_NONE")
        /\ sslFailed' \in {sslFailed, sslFailed \union {Session(w)}}
        /\ UNCHANGED <<closeNotified, process>>
     \/ /\ pc' = [pc EXCEPT ![w] = "leave"]
        /\ Return(w, "ERROR_ZERO_RETURN")
        /\ closeNotified' = closeNotified \union {Session(w)}
        /\ UNCHANGED <<sslFailed, process>>
  /\ UNCHANGED <<work, netVars,
                 processingCount, bIsSSLConnected, expired, released>>

(* ... which changes nothing any more, until the session is deleted.       *)
WriteNothing(w) ==
  /\ pc[w] = "hung"
  /\ Alive(w)
  /\ UNCHANGED <<workVars, netVars, sessionVars, process>>

(* Mutant: the count stays up when the READ ended with an error. *)
ReadEndForgets(w) ==
  /\ Goto(w, "leave",
          IF errorCode[w] = "ERROR_ZERO_RETURN" THEN "cancel" ELSE "finish")
  /\ Alive(w)
  /\ processingCount' = [processingCount EXCEPT ![Session(w)] =
                           IF errorCode[w] = "ERROR_NONE" THEN @ - 1 ELSE @]
  /\ Return(w, "ERROR_NONE")
  /\ UNCHANGED <<work, netVars, process,
                 bIsSSLConnected, expired, closeNotified, sslFailed, released>>

(* The count goes down again; the status decides what the pool does next.  *)
ReadEnd(w) ==
  /\ Goto(w, "leave",
          IF errorCode[w] = "ERROR_ZERO_RETURN" THEN "cancel" ELSE "finish")
  /\ Alive(w)
  /\ processingCount' = [processingCount EXCEPT ![Session(w)] = @ - 1]
  /\ Return(w, "ERROR_NONE")
  /\ UNCHANGED <<work, netVars, process,
                 bIsSSLConnected, expired, closeNotified, sslFailed, released>>

-----------------------------------------------------------------------------
(* case SESSION_CLOSE *)

(* ERROR_CLOSE_BEFORE_WORK_DONE while a READ is running for the session.   *)
CloseBegin(w) ==
  /\ Goto(w, "run", IF IsProcessing(Session(w)) THEN "requeue" ELSE "release")
  /\ work[w].type = "SESSION_CLOSE"
  /\ Alive(w)
  /\ UNCHANGED <<work, errorCode, netVars, sessionVars, process>>

CloseConnection(w) ==
  /\ Goto(w, "release", "finish")
  /\ Alive(w)
  /\ ReleaseSession(Session(w))
  /\ UNCHANGED <<work, errorCode, hungUp, sendsLeft, process>>

-----------------------------------------------------------------------------
(* The steps above that read or write the session through the work. *)
Dereferencing == {"run", "receive", "respond", "hung", "leave", "release"}

(* An access through a dangling pointer: nothing is said of what follows.  *)
UseReleased(w) ==
  /\ pc[w] \in Dereferencing
  /\ ~Alive(w)
  /\ process' = "crashed"
  /\ UNCHANGED <<workVars, netVars, sessionVars>>

RunStep(w) ==
  \/ ReadBegin(w) \/ ReceiveNothing(w) \/ ReceiveWouldBlock(w) \/ Receive(w)
  \/ Respond(w) \/ WriteNothing(w) \/ ReadEnd(w)
  \/ CloseBegin(w) \/ CloseConnection(w)
  \/ UseReleased(w)
=============================================================================
