----------------------------- MODULE HttpsServer -----------------------------
(***************************************************************************)
(* The main thread: the event loop of HttpsServer::Run and the destructor  *)
(* it ends in.                                                             *)
(*                                                                         *)
(* mClientSessions and mClientEventHandles always change together; one     *)
(* sequence stands for both.  Its indices start at 1 here: the listening   *)
(* socket, at index 0 of the code, is mClientSessions[1].                  *)
(***************************************************************************)
EXTENDS ClientThreadPool

CONSTANTS
  Listener,    \* the dummy session that carries the listening socket
  ChunkSize    \* WSA_MAXIMUM_WAIT_EVENTS

ASSUME ListenerAssumption == Listener \notin Sessions
ASSUME ChunkSizeAssumption == ChunkSize \in Nat \ {0}

VARIABLES
  mClientSessions,
  mbIsQuitButtonPressed,
  main,        \* the main thread: where it is, and its local variables
  overtaken    \* history: sessions that may be closed before their READs are
               \* run, for the CLOSE was queued during a rotation, or the
               \* destructor closes them over works that wait

serverVars == <<mClientSessions, mbIsQuitButtonPressed, main, overtaken>>

(* First the event loop, then ~HttpsServer with ~ClientThreadPool.         *)
MainPC ==
  {"sweep", "enumerate", "dispatch", "signal", "signalclose", "erase",
   "nudge", "scan"}
    \union {"drain", "destroy", "destroyrelease", "closehandles", "join"}

MainState ==
  [at     : MainPC,
   chunk  : Nat,                                     \* i of the loop over chunks
   index  : Nat,                                     \* of the session handled
   events : SUBSET (NetEvent \union {"FD_ACCEPT"}),  \* lNetworkEvents
   resume : {"sweep", "scan"}]                       \* after a signal or erase

ServerTypeOK ==
  /\ mClientSessions \in Seq(Sessions \union {Listener})
  /\ mbIsQuitButtonPressed \in BOOLEAN
  /\ main \in MainState
  /\ overtaken \in SUBSET Sessions

ServerInit ==
  /\ mClientSessions = <<Listener>>
  /\ mbIsQuitButtonPressed = FALSE
  /\ main = [at |-> "sweep", chunk |-> 0, index |-> 0, events |-> {},
             resume |-> "sweep"]
  /\ overtaken = {}

Listed  == {mClientSessions[i] : i \in DOMAIN mClientSessions} \ {Listener}
Current == mClientSessions[main.index]

(* The parts of the state an action may leave alone together.              *)
OnlyMain ==
  UNCHANGED <<netVars, sessionVars, process, workVars, poolVars, mClientSessions,
              mbIsQuitButtonPressed, overtaken>>
NotTheMainThreads ==
  UNCHANGED <<process, workVars, endVars, mThreadRunningCount, cancelVars,
              mbIsQuitButtonPressed>>

(* Mutant: a CLOSE is queued before everything else. *)
QueueCloseFirst(s) ==
  /\ mClientWorks' = <<CloseWork(s)>> \o mClientWorks
  /\ overtaken' = IF Rotating THEN overtaken \union {s} ELSE overtaken

(* A CLOSE is queued for a session.  Whether cancelWorks is rotating the   *)
(* queue at that moment is remembered for the properties.                  *)
QueueClose(s) ==
  /\ QueueWork(CloseWork(s))
  /\ overtaken' = IF Rotating THEN overtaken \union {s} ELSE overtaken

-----------------------------------------------------------------------------
(* The wait over the event handles, ChunkSize of them at a time.           *)

LastChunk == Len(mClientSessions) \div ChunkSize

(* The last chunk is empty when the handles fill the chunks exactly.       *)
ChunkLength ==
  IF main.chunk = LastChunk THEN Len(mClientSessions) % ChunkSize ELSE ChunkSize

Indices == main.chunk * ChunkSize + 1 .. main.chunk * ChunkSize + ChunkLength

Signalled(i) ==
  IF mClientSessions[i] = Listener
  THEN \E s \in Sessions : link[s] = "pending"
  ELSE netEvents[mClientSessions[i]] # {}

(* The loop's condition is read once per sweep, before the first chunk.    *)
Sweeping == main.at = "sweep" /\ (main.chunk = 0 => ~mbIsQuitButtonPressed)

(* The wait returns the lowest index of the chunk that is signalled.       *)
SweepFinds ==
  /\ Sweeping
  /\ \E i \in Indices :
       /\ Signalled(i)
       /\ \A j \in Indices : j < i => ~Signalled(j)
       /\ main' = [main EXCEPT !.at = "enumerate", !.chunk = 0, !.index = i]
  /\ OnlyMain

(* Mutant: one chunk too many. *)
SweepPastTheEnd ==
  /\ Sweeping
  /\ main.chunk <= LastChunk
  /\ \A i \in Indices : ~Signalled(i)
  /\ main' = [main EXCEPT !.chunk = main.chunk + 1]
  /\ OnlyMain

SweepNextChunk ==
  /\ Sweeping
  /\ main.chunk < LastChunk
  /\ \A i \in Indices : ~Signalled(i)
  /\ main' = [main EXCEPT !.chunk = main.chunk + 1]
  /\ OnlyMain

(* WSA_WAIT_FAILED: no handle to wait for.  The loop starts over.          *)
SweepFailed ==
  /\ Sweeping
  /\ main.chunk = LastChunk
  /\ Indices = {}
  /\ main' = [main EXCEPT !.chunk = 0]
  /\ OnlyMain

(* WSA_WAIT_TIMEOUT on the last chunk. *)
SweepTimesOut ==
  /\ Sweeping
  /\ main.chunk = LastChunk
  /\ Indices # {}
  /\ \A i \in Indices : ~Signalled(i)
  /\ main' = [main EXCEPT !.at = "nudge", !.chunk = 0]
  /\ OnlyMain

LeaveLoop ==
  /\ main.at = "sweep"
  /\ main.chunk = 0
  /\ mbIsQuitButtonPressed
  /\ main' = [main EXCEPT !.at = "drain"]
  /\ OnlyMain

Enumerate ==
  /\ main.at = "enumerate"
  /\ \/ /\ Current = Listener
        /\ main' = [main EXCEPT !.at = "dispatch", !.events = {"FD_ACCEPT"}]
        /\ UNCHANGED netEvents
     \/ /\ Current # Listener
        /\ main' = [main EXCEPT !.at = "dispatch", !.events = netEvents[Current]]
        /\ EnumNetworkEvents(Current)
  /\ NotTheMainThreads
  /\ UNCHANGED <<link, unread, recvArmed, hungUp, sendsLeft, sessionVars,
                 queueVars, mClientSessions, overtaken>>

-----------------------------------------------------------------------------
(* The switch on lNetworkEvents, case by case. *)

Dispatching(events) == main.at = "dispatch" /\ main.events = events

(* The end of the switch, or the push of a work that is signalled next.    *)
ToSweep == main' = [main EXCEPT !.at = "sweep", !.index = 0, !.events = {}]
ToSignalRead == main' = [main EXCEPT !.at = "signal", !.index = 0, !.events = {}]
ToSignalClose == main' = [main EXCEPT !.at = "signalclose", !.events = {}]

(* ProcessSSLHandshake: SSL_accept reads what has arrived, and wants more, *)
(* is done, or gives up (at the latest when it finds the end of the        *)
(* stream).  mask holds the events recorded already.                       *)
Handshake(s, mask) ==
  \/ /\ s \notin hungUp
     /\ Recv(s, mask, 0)
     /\ UNCHANGED bIsSSLConnected
  \/ /\ \E n \in 0 .. unread[s] - 1 : Recv(s, mask, n)
     /\ bIsSSLConnected' = bIsSSLConnected \union {s}

HandshakeFails(s) == unread[s] > 0 \/ s \in hungUp

(* case FD_ACCEPT, when accept fails. *)
AcceptFails(s) ==
  /\ Dispatching({"FD_ACCEPT"})
  /\ link[s] = "pending"
  /\ link' = [link EXCEPT ![s] = "closed"]
  /\ ToSweep
  /\ NotTheMainThreads
  /\ UNCHANGED <<unread, recvArmed, netEvents, hungUp, sendsLeft, sessionVars,
                 queueVars, mClientSessions, overtaken>>

(* What WSAEventSelect records at once for a socket already in use.        *)
EventsAtSelect(s) == (IF unread[s] > 0 THEN {"FD_READ"} ELSE {})
                       \union (IF s \in hungUp THEN {"FD_CLOSE"} ELSE {})

(* case FD_ACCEPT: the session is created and listed, and the handshake    *)
(* is tried on what the client may have sent already.                      *)
Accept(s) ==
  /\ Dispatching({"FD_ACCEPT"})
  /\ link[s] = "pending"
  /\ link' = [link EXCEPT ![s] = "open"]
  /\ mClientSessions' = Append(mClientSessions, s)
  /\ Handshake(s, EventsAtSelect(s))
  /\ ToSweep
  /\ NotTheMainThreads
  /\ UNCHANGED <<hungUp, sendsLeft, processingCount, expired, closeNotified,
                 sslFailed, released, queueVars, overtaken>>

(* ... or it fails: the session is released and taken off the list again.  *)
AcceptAndRelease(s) ==
  /\ Dispatching({"FD_ACCEPT"})
  /\ link[s] = "pending"
  /\ HandshakeFails(s)
  /\ ReleaseSession(s)
  /\ ToSweep
  /\ NotTheMainThreads
  /\ UNCHANGED <<hungUp, sendsLeft, queueVars, mClientSessions, overtaken>>

(* case FD_READ before the handshake is complete: it goes on.  Application *)
(* data behind it is left to the next FD_READ.                             *)
ContinueHandshake ==
  /\ Dispatching({"FD_READ"})
  /\ Current \notin bIsSSLConnected
  /\ ResetTimer(Current)
  /\ Handshake(Current, netEvents[Current])
  /\ ToSweep
  /\ NotTheMainThreads
  /\ UNCHANGED <<link, hungUp, sendsLeft, processingCount, closeNotified,
                 sslFailed, released, queueVars, mClientSessions, overtaken>>

(* ... or it fails: a CLOSE is queued. *)
HandshakeToClose ==
  /\ Dispatching({"FD_READ"})
  /\ Current \notin bIsSSLConnected
  /\ ResetTimer(Current)
  /\ HandshakeFails(Current)
  /\ \E n \in 0 .. unread[Current] : Recv(Current, netEvents[Current], n)
  /\ QueueClose(Current)
  /\ ToSignalClose
  /\ NotTheMainThreads
  /\ UNCHANGED <<link, hungUp, sendsLeft, processingCount, bIsSSLConnected,
                 closeNotified, sslFailed, released, signalled, mClientSessions>>

(* Mutant: no READ is queued while others are waiting. *)
QueueReadIfIdle ==
  /\ Dispatching({"FD_READ"})
  /\ Current \in bIsSSLConnected
  /\ ResetTimer(Current)
  /\ IF IsWorkQueueEmpty THEN QueueWork(ReadWork(Current)) ELSE UNCHANGED mClientWorks
  /\ ToSignalRead
  /\ NotTheMainThreads
  /\ UNCHANGED <<netVars, processingCount, bIsSSLConnected, closeNotified,
                 sslFailed, released, signalled, mClientSessions, overtaken>>

(* case FD_READ on an established session. *)
QueueRead ==
  /\ Dispatching({"FD_READ"})
  /\ Current \in bIsSSLConnected
  /\ ResetTimer(Current)
  /\ QueueWork(ReadWork(Current))
  /\ ToSignalRead
  /\ NotTheMainThreads
  /\ UNCHANGED <<netVars, processingCount, bIsSSLConnected, closeNotified,
                 sslFailed, released, signalled, mClientSessions, overtaken>>

(* case FD_CLOSE *)
Disconnected ==
  /\ Dispatching({"FD_CLOSE"})
  /\ QueueClose(Current)
  /\ ToSignalClose
  /\ NotTheMainThreads
  /\ UNCHANGED <<netVars, sessionVars, signalled, mClientSessions>>

(* FD_READ and FD_CLOSE together equal no case label: both are dropped.    *)
NoCaseMatches ==
  /\ Dispatching({"FD_READ", "FD_CLOSE"})
  /\ ToSweep
  /\ OnlyMain

Dispatch ==
  \/ \E s \in Sessions : AcceptFails(s) \/ Accept(s) \/ AcceptAndRelease(s)
  \/ ContinueHandshake \/ HandshakeToClose \/ QueueRead
  \/ Disconnected \/ NoCaseMatches

-----------------------------------------------------------------------------
(* What follows a queued work, and what the timeout of the wait does.      *)

(* Signal(THREAD_SIGNAL) *)
Signal ==
  /\ \/ /\ main.at = "signal"
        /\ main' = [main EXCEPT !.at = main.resume, !.resume = "sweep"]
     \/ /\ main.at = "signalclose"
        /\ main' = [main EXCEPT !.at = "erase"]
  /\ SignalWork
  /\ NotTheMainThreads
  /\ UNCHANGED <<netVars, sessionVars, mClientWorks, mClientSessions, overtaken>>

(* Mutant: the last session goes, whatever the index. *)
ErasedLast(index) == [i \in 1 .. Len(mClientSessions) - 1 |-> mClientSessions[i]]

(* The loop of eraseClientFromList: what follows the index moves down.     *)
Erased(index) ==
  [i \in 1 .. Len(mClientSessions) - 1 |->
     IF i < index THEN mClientSessions[i] ELSE mClientSessions[i + 1]]

(* When invalidateSession erases, its index moves on all the same, past    *)
(* the session that has come down to it.                                   *)
Erase ==
  /\ main.at = "erase"
  /\ mClientSessions' = Erased(main.index)
  /\ \/ /\ main.resume = "sweep"
        /\ main' = [main EXCEPT !.at = "sweep", !.index = 0]
     \/ /\ main.resume = "scan"
        /\ main' = [main EXCEPT !.at = "scan", !.index = main.index + 1,
                               !.resume = "sweep"]
  /\ NotTheMainThreads
  /\ UNCHANGED <<netVars, sessionVars, queueVars, overtaken>>

(* Mutant: works that remain are not signalled again. *)
NudgeNobody ==
  /\ main.at = "nudge"
  /\ main' = [main EXCEPT !.at = "scan", !.index = 2]
  /\ OnlyMain

(* signalForRemainingWorks *)
Nudge ==
  /\ main.at = "nudge"
  /\ \/ /\ IsWorkQueueEmpty
        /\ main' = [main EXCEPT !.at = "scan", !.index = 2]
     \/ /\ ~IsWorkQueueEmpty
        /\ main' = [main EXCEPT !.at = "signal", !.resume = "scan", !.index = 2]
  /\ OnlyMain

(* invalidateSession, one index at a time. *)
Scanning == main.at = "scan" /\ main.index <= Len(mClientSessions)

ScanKeeps ==
  /\ Scanning
  /\ ~IsSessionInvalidated(Current)
  /\ main' = [main EXCEPT !.index = main.index + 1]
  /\ OnlyMain

ScanInvalidates ==
  /\ Scanning
  /\ IsSessionInvalidated(Current)
  /\ QueueClose(Current)
  /\ main' = [main EXCEPT !.at = "signalclose", !.resume = "scan"]
  /\ NotTheMainThreads
  /\ UNCHANGED <<netVars, sessionVars, signalled, mClientSessions>>

ScanEnds ==
  /\ main.at = "scan"
  /\ main.index > Len(mClientSessions)
  /\ main' = [main EXCEPT !.at = "sweep", !.index = 0]
  /\ OnlyMain

(* The console thread, checkQuitMessage. *)
PressQuit ==
  /\ ~mbIsQuitButtonPressed
  /\ mbIsQuitButtonPressed' = TRUE
  /\ UNCHANGED <<netVars, sessionVars, process, workVars, poolVars,
                 mClientSessions, main, overtaken>>

-----------------------------------------------------------------------------
(* ~HttpsServer.  The count is read without the pool's lock; index 0 of    *)
(* the list is the dummy session, whose close always succeeds.             *)

DrainSpin ==
  /\ main.at = "drain"
  /\ IsThreadsRunning
  /\ UNCHANGED main
  /\ OnlyMain

(* A READ of s is queued, or taken by a worker that is not counted yet.    *)
StillToRead(s) ==
  \/ \E i \in DOMAIN mClientWorks : mClientWorks[i] = ReadWork(s)
  \/ \E w \in Workers : pc[w] = "count" /\ work[w] = ReadWork(s)

ToDestroy ==
  /\ main' = [main EXCEPT !.at = "destroy", !.index = 2]
  /\ overtaken' = overtaken \union {s \in Listed : StillToRead(s)}
  /\ UNCHANGED <<netVars, sessionVars, process, workVars, poolVars,
                 mClientSessions, mbIsQuitButtonPressed>>

(* Mutant: the destructor does not wait. *)
DrainAtOnce == main.at = "drain" /\ ToDestroy

Drain ==
  /\ main.at = "drain"
  /\ ~IsThreadsRunning
  /\ ToDestroy

Destroying == main.at = "destroy" /\ main.index <= Len(mClientSessions)

(* ERROR_CLOSE_BEFORE_WORK_DONE: the assertion is compiled out, and the    *)
(* session is left as it is.                                               *)
DestroyRefused ==
  /\ Destroying
  /\ IsProcessing(Current)
  /\ main' = [main EXCEPT !.index = main.index + 1]
  /\ OnlyMain

DestroyBegin ==
  /\ Destroying
  /\ ~IsProcessing(Current)
  /\ main' = [main EXCEPT !.at = "destroyrelease"]
  /\ OnlyMain

(* Mutant: the index stays where it is. *)
DestroyReleaseAgain ==
  /\ main.at = "destroyrelease"
  /\ ReleaseSession(Current)
  /\ main' = [main EXCEPT !.at = "destroy"]
  /\ NotTheMainThreads
  /\ UNCHANGED <<hungUp, sendsLeft, queueVars, mClientSessions, overtaken>>

DestroyRelease ==
  /\ main.at = "destroyrelease"
  /\ ReleaseSession(Current)
  /\ main' = [main EXCEPT !.at = "destroy", !.index = main.index + 1]
  /\ NotTheMainThreads
  /\ UNCHANGED <<hungUp, sendsLeft, queueVars, mClientSessions, overtaken>>

(* Signal(THREAD_CLOSE), then ~ClientThreadPool. *)
StopPool ==
  /\ main.at = "destroy"
  /\ main.index > Len(mClientSessions)
  /\ SignalClose
  /\ main' = [main EXCEPT !.at = "closehandles", !.index = 0]
  /\ UNCHANGED <<netVars, sessionVars, process, workVars, queueVars, closeSlot,
                 handlesOpen, mThreadRunningCount, cancelVars, mClientSessions,
                 mbIsQuitButtonPressed, overtaken>>

CloseHandles ==
  /\ main.at = "closehandles"
  /\ handlesOpen' = FALSE
  /\ main' = [main EXCEPT !.at = "join"]
  /\ UNCHANGED <<netVars, sessionVars, process, workVars, queueVars, closeSlot,
                 closeSignalled, mThreadRunningCount, cancelVars, mClientSessions,
                 mbIsQuitButtonPressed, overtaken>>

(* The threads are waited for; then Run returns 0. *)
Join ==
  /\ main.at = "join"
  /\ \A w \in Workers : pc[w] = "ended"
  /\ process' = "returned"
  /\ UNCHANGED <<netVars, sessionVars, workVars, poolVars, serverVars>>

MainStep ==
  \/ SweepFinds \/ SweepNextChunk \/ SweepFailed \/ SweepTimesOut \/ LeaveLoop
  \/ Enumerate \/ Dispatch
  \/ Signal \/ Erase \/ Nudge \/ ScanKeeps \/ ScanInvalidates \/ ScanEnds
  \/ DrainSpin \/ Drain
  \/ DestroyRefused \/ DestroyBegin \/ DestroyRelease
  \/ StopPool \/ CloseHandles \/ Join
=============================================================================
