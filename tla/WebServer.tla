------------------------------ MODULE WebServer ------------------------------
(***************************************************************************)
(* The HTTPS server as one system: the main thread, the workers of the     *)
(* pool, the console thread, the clock and the clients, interleaved.       *)
(***************************************************************************)
EXTENDS HttpsServer

vars == <<netVars, sessionVars, process, workVars, poolVars, serverVars>>

Init ==
  /\ NetInit
  /\ SessionInit
  /\ WorkInit
  /\ PoolInit
  /\ ServerInit

Client(s) ==
  /\ ClientStep(s)
  /\ UNCHANGED <<sessionVars, process, workVars, poolVars, serverVars>>

Clock(s) ==
  /\ TimePasses(s)
  /\ UNCHANGED <<netVars, process, workVars, poolVars, serverVars>>

Worker(w) == WorkerStep(w) /\ UNCHANGED serverVars

Running ==
  \/ MainStep
  \/ \E w \in Workers : Worker(w)
  \/ \E s \in Sessions : Client(s) \/ Clock(s)
  \/ PressQuit

(* The process has crashed, or Run has returned. *)
Halted == process # "running" /\ UNCHANGED vars

Next == (process = "running" /\ Running) \/ Halted

Spec == Init /\ [][Next]_vars

(* The threads are scheduled by Windows: each goes on as long as it has    *)
(* something to do.  Clients and the console owe nothing.                  *)
Fairness ==
  /\ WF_vars(process = "running" /\ MainStep)
  /\ \A w \in Workers : WF_vars(process = "running" /\ Worker(w))
  /\ \A s \in Sessions : WF_vars(process = "running" /\ Clock(s))

FairSpec == Spec /\ Fairness

-----------------------------------------------------------------------------
TypeOK ==
  /\ NetTypeOK
  /\ SessionTypeOK
  /\ WorkTypeOK
  /\ PoolTypeOK
  /\ ServerTypeOK

-----------------------------------------------------------------------------
(* The index of the main thread *)

(* Wherever the main thread takes an entry of its list by an index - one   *)
(* that a wait returned for a chunk, that the scan or the destructor has   *)
(* come to, or that it kept since it queued a CLOSE - the entry is there,  *)
(* however the list has grown and shrunk; and where it closes or erases    *)
(* the entry, that is not the listening socket's.                          *)
IndicesInside ==
  /\ main.at = "sweep" => Indices \subseteq DOMAIN mClientSessions
  /\ main.at \in {"enumerate", "dispatch"} => main.index \in DOMAIN mClientSessions
  /\ main.at \in {"signalclose", "erase", "destroyrelease"} =>
       main.index \in DOMAIN mClientSessions /\ Current # Listener

-----------------------------------------------------------------------------
(* Who owns a session *)

(* The works a session is waiting in: queued, taken by a worker that has   *)
(* not finished it, or held by cancelWorks.                                *)
Finished == {"finish", "wait", "ended"}
InQueue(x) == {i \in DOMAIN mClientWorks : mClientWorks[i] = x}
InHand(x)  == {w \in Workers : work[w] = x /\ pc[w] \notin Finished}
Copies(x)  == Cardinality(InQueue(x)) + Cardinality(InHand(x))
                + (IF held = x THEN 1 ELSE 0)

Closing(s) == Copies(CloseWork(s)) > 0

(* ~HttpsServer has begun to close what is listed. *)
ShuttingDown == main.at \in {"destroy", "destroyrelease", "closehandles", "join"}

(* The list still stands for the session at index j: its CLOSE has not     *)
(* been queued, and the destructor has not gone past it.                   *)
Holds(j) ==
  /\ main.at \in {"signalclose", "erase"} => j # main.index
  /\ main.at \in {"destroy", "destroyrelease"} => j >= main.index
  /\ main.at \notin {"closehandles", "join"}

HeldAt(s) == {j \in DOMAIN mClientSessions : mClientSessions[j] = s /\ Holds(j)}
Owners(s) == Cardinality(HeldAt(s)) + Copies(CloseWork(s))

(* A session is either on the main thread's list or in exactly one CLOSE   *)
(* work, and in neither once it is deleted: it is never deleted twice, and *)
(* the main thread never looks at a deleted one.  The list is erased by    *)
(* index from three places, and cancelWorks and the requeue of a refused   *)
(* CLOSE take works out of the queue and put them back.                    *)
OneOwner ==
  \A s \in Sessions : /\ Owners(s) <= 1
                      /\ s \in released => Owners(s) = 0

(* A connection that is open has an owner that will close it, until the    *)
(* destructor runs: no path of the switch, of the invalidation scan or of  *)
(* cancelWorks drops one.                                                  *)
NotLost ==
  \A s \in Sessions : link[s] = "open" /\ ~ShuttingDown => Owners(s) = 1

(* The server implements SessionLifecycle.  A session whose CLOSE is being *)
(* queued is "closing" before it leaves the list.                          *)
Phase(s) ==
  IF s \in released THEN "released"
  ELSE IF Closing(s) THEN "closing"
  ELSE IF s \in Listed THEN "listed" ELSE "unborn"

phases     == [s \in Sessions |-> Phase(s)]
readCounts == [s \in Sessions |-> Copies(ReadWork(s))]

Lifecycle == INSTANCE SessionLifecycle WITH phase <- phases, reads <- readCounts

(* Every session goes through its phases once, in order, and its READs are *)
(* neither duplicated nor brought back by the rotation of cancelWorks.     *)
LifecycleSpec == Lifecycle!Spec

-----------------------------------------------------------------------------
(* The count of running READs *)

RunningReads(s) ==
  {w \in Workers : /\ work[w] = ReadWork(s)
                   /\ pc[w] \in {"receive", "respond", "leave", "hung"}}

Drift(s) == processingCount[s] - Cardinality(RunningReads(s))

(* processingCount never says that more READs run than do: a CLOSE is      *)
(* refused (ERROR_CLOSE_BEFORE_WORK_DONE) only while one really runs.      *)
(* (It may say fewer: cancelWorks takes queued READs off a count they were *)
(* never added to.)                                                        *)
BusyIsReal == \A s \in Sessions : Drift(s) <= 0

-----------------------------------------------------------------------------
(* The queue during a rotation *)

(* cancelWorks pops as many works as it has counted and uses each without  *)
(* a null test.  It never finds the queue empty: no two workers rotate it, *)
(* or pop from it during a rotation, and the main thread only adds to it.  *)
RotationSafe ==
  /\ \A v, w \in Workers :
       {pc[v], pc[w]} \subseteq {"rotate", "inspect", "store"} => v = w
  /\ \A w \in Workers :
       /\ pc[w] = "rotate" => remaining <= Len(mClientWorks)
       /\ pc[w] \in {"inspect", "store"} => remaining - 1 <= Len(mClientWorks)

-----------------------------------------------------------------------------
(* Data and events *)

(* A READ of s has not come to its recv yet. *)
ReadAhead(s) ==
  \/ InQueue(ReadWork(s)) # {}
  \/ held = ReadWork(s)
  \/ \E w \in Workers : /\ work[w] = ReadWork(s)
                        /\ pc[w] \in {"count", "run", "receive"}

DispatchingRead(s) == /\ main.at = "dispatch"
                      /\ "FD_READ" \in main.events
                      /\ Current = s

(* Data that has arrived on a listed session is never forgotten: FD_READ   *)
(* is recorded, or the main thread is handling it, or a READ will receive  *)
(* the data.  The exceptions are the peer having hung up (FD_READ and      *)
(* FD_CLOSE enumerated together match no case), having sent close_notify,  *)
(* a fatal error of the SSL object, after which nothing reads the socket   *)
(* or arms FD_READ again, and a READ of the session having been cancelled. *)
UnreadAnnounced ==
  \A s \in Listed :
    \/ unread[s] = 0
    \/ "FD_READ" \in netEvents[s] \/ DispatchingRead(s) \/ ReadAhead(s)
    \/ s \in hungUp \union closeNotified \union sslFailed \/ Drift(s) < 0

-----------------------------------------------------------------------------
(* Use after free *)

(* A step of worker w that is due and would use a deleted session.         *)
Dangling(w) == (pc[w] \in Dereferencing /\ ~Alive(w)) \/ CancelReadsReleased(w)

DanglingSession(w) == IF pc[w] \in {"inspect", "store"} /\ Alive(w)
                      THEN held.session ELSE Session(w)

(* With the single worker of the code, a READ outlives its session in two  *)
(* ways only: the CLOSE overtook it because the main thread queued it      *)
(* while cancelWorks was rotating the queue, or the destructor closed the  *)
(* session while the READ was queued or taken and not yet counted.  A READ *)
(* that is being run when q is pressed is waited for.                      *)
NoUseAfterFree ==
  \A w \in Workers : Dangling(w) => DanglingSession(w) \in overtaken

-----------------------------------------------------------------------------
(* Progress *)

(* The wait never times out while the handles fill the chunks exactly.     *)
AtBoundary == Len(mClientSessions) % ChunkSize = 0

(* No more is promised once the server is told to stop or has crashed,     *)
(* or when its workers do not serve: the slot of THREAD_CLOSE made the     *)
(* wait fail or return, or a response is written forever.                  *)
Quitting  == process # "running" \/ mbIsQuitButtonPressed
NoService == \/ closeSlot = "invalid"
             \/ \E w \in Workers : pc[w] \in {"hung", "ended"}

(* A session whose CLOSE is queued is deleted in the end.  SetEvent on an  *)
(* auto-reset event may be lost while one work is taken per wake-up: the   *)
(* timeout of the main thread's wait makes up for it, unless the number of *)
(* handles stays at a multiple of ChunkSize.                               *)
ClosedAreReleased ==
  <>[]AtBoundary \/ \A s \in Sessions :
                      Closing(s) ~> (~Closing(s) \/ Quitting \/ NoService)

(* A client that has gone, or whose SSL object has failed, does not stay   *)
(* listed: its FD_CLOSE is handled; or, when FD_CLOSE is lost together     *)
(* with FD_READ, or no READ reads the socket any more, the session timer   *)
(* takes it off, with the same exception.                                  *)
GoneAreUnlisted ==
  <>[]AtBoundary \/ \A s \in Sessions :
                      (s \in Listed /\ s \in hungUp \union sslFailed)
                        ~> (s \notin Listed \/ Quitting)

-----------------------------------------------------------------------------
(* What the repository says of itself *)

(* ClientWork.cpp, closeConnection: assert(mClientSession->processingCount *)
(* == 0).                                                                  *)
CloseAssertion ==
  \A w \in Workers :
    pc[w] = "release" /\ Alive(w) => processingCount[Session(w)] = 0

(* HttpsServer.cpp, ~HttpsServer: assert(errorCode !=                      *)
(* ClientWork::ERROR_CLOSE_BEFORE_WORK_DONE).                              *)
DestroyAssertion == [][~DestroyRefused]_vars

(* HttpsServer.h, Run: "@return 0 when q is pressed in console".           *)
QuitReturns == mbIsQuitButtonPressed ~> process # "running"
=============================================================================
