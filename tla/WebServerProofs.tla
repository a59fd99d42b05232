--------------------------- MODULE WebServerProofs ---------------------------
(***************************************************************************)
(* Proofs about WebServer, for any number of sessions and clients' sends,  *)
(* any chunk size, and one or two workers.                                 *)
(*                                                                         *)
(* The inductive invariant IInv says of each thread what it has in hand    *)
(* where it is: the worker its work, the main thread an index of its list. *)
(***************************************************************************)
EXTENDS WebServer, FiniteSetTheorems, SequenceTheorems, TLAPS

(* A worker past Fetch has a work; one inside case SESSION_READ has a READ,*)
(* and so has one in cancelWorks, which holds another work between the pop *)
(* and the push, and another READ of its session where it drops one; one   *)
(* inside case SESSION_CLOSE has a CLOSE.                                  *)
HasWork == {"count", "run", "receive", "respond", "hung", "leave", "release",
            "requeue", "cancel", "rotate", "inspect", "store"}
Reading == {"receive", "respond", "leave", "hung"}
Cancelling == {"cancel", "rotate", "inspect", "store"}

WorkShape ==
  \A w \in Workers :
    /\ pc[w] \in HasWork => work[w] \in Work
    /\ pc[w] \in Reading \union Cancelling => work[w].type = "SESSION_READ"
    /\ pc[w] \in {"release", "requeue"} => work[w].type = "SESSION_CLOSE"
    /\ pc[w] \in {"inspect", "store"} => held \in Work /\ remaining > 0
    /\ pc[w] = "store" => HeldIsRead /\ held.session = Session(w)

(* The count cancelWorks has read and will lower: one other worker at most *)
(* runs a READ meanwhile.                                                  *)
SeenShape == \A w \in Workers : pc[w] = "store" => seen <= 1

(* mThreadRunningCount counts the workers from CountUp to Finish.          *)
Counted == (HasWork \ {"count"}) \union {"finish"}
CountedWorkers == {w \in Workers : pc[w] \in Counted}
CountExact == mThreadRunningCount = Cardinality(CountedWorkers)

(* The listening socket is the first of the list, and no other entry is.   *)
ListShape ==
  /\ Len(mClientSessions) >= 1
  /\ mClientSessions[1] = Listener
  /\ \A i \in 2 .. Len(mClientSessions) : mClientSessions[i] \in Sessions

(* Wherever the main thread uses its index, it is one of the list's, and   *)
(* of a client's session where it treats it as one.                        *)
ClientIndex == main.index \in 2 .. Len(mClientSessions)
MainShape ==
  /\ main.chunk # 0 => main.at = "sweep"
  /\ main.chunk <= LastChunk
  /\ main.at \in {"enumerate", "dispatch"} => main.index \in 1 .. Len(mClientSessions)
  /\ main.at = "dispatch" /\ main.events # {"FD_ACCEPT"} => ClientIndex
  /\ main.at \in {"signalclose", "erase", "destroyrelease"} => ClientIndex
  /\ main.at \in {"scan", "destroy"} => main.index >= 2
  /\ main.at = "signal" /\ main.resume = "scan" => main.index >= 2
  /\ main.resume = "scan" => main.at \in {"signal", "signalclose", "erase"}

IInv ==
  /\ TypeOK
  /\ WorkShape
  /\ CountExact
  /\ RotationSafe
  /\ BusyIsReal
  /\ SeenShape
  /\ ListShape
  /\ MainShape

-----------------------------------------------------------------------------
(* Facts about the operators                                               *)

LEMMA DivisionFacts ==
  ASSUME NEW n \in Nat, NEW c \in Nat \ {0}
  PROVE  /\ n \div c \in Nat
         /\ n % c \in Nat
         /\ n % c < c
         /\ n = c * (n \div c) + (n % c)
  OBVIOUS

(* A chunk before the last one ends where the next one begins.             *)
LEMMA NextMultiple ==
  ASSUME NEW c \in Nat, NEW a \in Nat, NEW b \in Nat, a < b
  PROVE  a * c + c <= b * c
  <1>1. b - a \in Nat /\ b - a >= 1
    OBVIOUS
  <1>2. (b - a) * c >= c
    BY <1>1
  <1>3. (b - a) * c = b * c - a * c
    OBVIOUS
  <1> QED
    BY <1>2, <1>3

(* The chunks of the sweep stay inside the list: no handle past its end is *)
(* waited for.                                                             *)
LEMMA ChunkInsideList ==
  ASSUME mClientSessions \in Seq(Sessions \union {Listener}),
         main.chunk \in Nat, main.chunk <= LastChunk,
         NEW i \in Indices
  PROVE  i \in 1 .. Len(mClientSessions)
  <1> DEFINE n == Len(mClientSessions)
  <1>0. n \in Nat /\ ChunkSize \in Nat \ {0}
    BY ChunkSizeAssumption
  <1> HIDE DEF n
  <1>1. /\ LastChunk = n \div ChunkSize
        /\ LastChunk \in Nat
        /\ n % ChunkSize \in Nat
        /\ n = ChunkSize * LastChunk + (n % ChunkSize)
    BY <1>0, DivisionFacts DEF LastChunk, n
  <1>2. main.chunk * ChunkSize + ChunkLength <= n
    <2>1. CASE main.chunk = LastChunk
      BY <2>1, <1>0, <1>1 DEF ChunkLength, n
    <2>2. CASE main.chunk < LastChunk
      <3>1. main.chunk * ChunkSize + ChunkSize <= LastChunk * ChunkSize
        BY <2>2, <1>0, <1>1, NextMultiple
      <3>2. LastChunk * ChunkSize = ChunkSize * LastChunk
        BY <1>0, <1>1
      <3> QED
        BY <3>1, <3>2, <2>2, <1>0, <1>1 DEF ChunkLength
    <2> QED
      BY <2>1, <2>2, <1>1
  <1>3. main.chunk * ChunkSize \in Nat /\ ChunkLength \in Nat
    BY <1>0, <1>1 DEF ChunkLength, n
  <1> QED
    BY <1>0, <1>2, <1>3 DEF Indices, n

(* While a worker is counted, the count is positive.                       *)
LEMMA CountPositive ==
  ASSUME CountExact, mThreadRunningCount \in Nat,
         NEW w \in Workers, pc[w] \in Counted
  PROVE  mThreadRunningCount >= 1
  <1>1. CountedWorkers \subseteq Workers
    BY DEF CountedWorkers
  <1>2. IsFiniteSet(CountedWorkers)
    BY <1>1, WorkersAssumption, FS_Subset
  <1>3. CountedWorkers # {}
    BY DEF CountedWorkers
  <1> QED
    BY <1>2, <1>3, FS_EmptySet DEF CountExact

(* The fields of a work: the pointers a worker follows are typed.          *)
LEMMA WorkFields ==
  ASSUME NEW x \in Work
  PROVE  x.session \in Sessions /\ x.type \in WorkType
  BY DEF Work

(* What Pop does to a queue that is not empty.                             *)
LEMMA HeadAndTail ==
  ASSUME NEW S, NEW q \in Seq(S), q # <<>>
  PROVE  /\ Head(q) \in S
         /\ Tail(q) \in Seq(S)
         /\ Len(q) \in Nat /\ Len(q) >= 1
         /\ Len(Tail(q)) = Len(q) - 1
  OBVIOUS

-----------------------------------------------------------------------------
(* The workers' steps: types, and what each worker has in hand.            *)

(* ClientWork::Run keeps the types, never changes which work a worker has, *)
(* and reads only while it has a READ.                                     *)
LEMMA RunTyping ==
  ASSUME TypeOK, WorkShape, NEW w \in Workers, RunStep(w),
         UNCHANGED <<poolVars, serverVars>>
  PROVE  TypeOK' /\ WorkShape'
  <1> USE DEF TypeOK, NetTypeOK, SessionTypeOK, WorkTypeOK, PoolTypeOK, ServerTypeOK,
              WorkShape, HasWork, Reading, Cancelling, Goto, Return, Alive, Session, PC, ErrorCode,
              HeldIsRead, LinkState, NetEvent, netVars, sessionVars, workVars,
              poolVars, queueVars, endVars, cancelVars, serverVars
  <1>0. pc[w] \in HasWork => work[w].session \in Sessions
    BY WorkFields
  <1>1. CASE ReadBegin(w)
    BY <1>0, <1>1 DEF ReadBegin
  <1>2. CASE ReceiveNothing(w)
    <2>1. TypeOK'
      BY <1>2 DEF ReceiveNothing
    <2>2. WorkShape'
      BY <1>2 DEF ReceiveNothing
    <2> QED
      BY <2>1, <2>2
  <1>3. CASE ReceiveWouldBlock(w)
    BY <1>0, <1>3 DEF ReceiveWouldBlock, Recv
  <1>4. CASE Receive(w)
    <2>0. Session(w) \in Sessions
      BY <1>0, <1>4 DEF Receive
    <2>1. TypeOK'
      <3>1. /\ WorkTypeOK'
            /\ closeNotified' \in SUBSET Sessions
            /\ sslFailed' \in SUBSET Sessions
        BY <1>4, <2>0 DEF Receive
      <3>2. NetTypeOK'
        BY <1>4, <2>0 DEF Receive, Recv
      <3>3. UNCHANGED <<process, processingCount, bIsSSLConnected, expired, released>>
        BY <1>4 DEF Receive
      <3> QED
        BY <3>1, <3>2, <3>3
    <2>2. WorkShape'
      BY <1>4 DEF Receive, Recv
    <2> QED
      BY <2>1, <2>2
  <1>5. CASE Respond(w)
    <2>0. Session(w) \in Sessions
      BY <1>0, <1>5 DEF Respond
    <2>1. TypeOK'
      <3>1. /\ WorkTypeOK'
            /\ closeNotified' \in SUBSET Sessions
            /\ sslFailed' \in SUBSET Sessions
            /\ process' \in {"running", "crashed", "returned"}
        BY <1>5, <2>0 DEF Respond
      <3>2. UNCHANGED <<netVars, processingCount, bIsSSLConnected, expired, released>>
        BY <1>5 DEF Respond
      <3> QED
        BY <3>1, <3>2
    <2>2. WorkShape'
      BY <1>5 DEF Respond
    <2> QED
      BY <2>1, <2>2
  <1>6. CASE WriteNothing(w)
    BY <1>6 DEF WriteNothing
  <1>7. CASE ReadEnd(w)
    BY <1>0, <1>7 DEF ReadEnd
  <1>8. CASE CloseBegin(w)
    BY <1>8 DEF CloseBegin, IsProcessing
  <1>9. CASE CloseConnection(w)
    BY <1>0, <1>9 DEF CloseConnection, ReleaseSession, CloseSocket
  <1>10. CASE UseReleased(w)
    BY <1>10 DEF UseReleased
  <1> QED
    BY <1>1, <1>2, <1>3, <1>4, <1>5, <1>6, <1>7, <1>8, <1>9, <1>10 DEF RunStep

(* ClientThreadPool::Run keeps the types: what it pops is a work, the      *)
(* count it lowers is positive, and the rotation holds a work to push.     *)
LEMMA PoolTyping ==
  ASSUME TypeOK, WorkShape, CountExact, RotationSafe, NEW w \in Workers, PoolStep(w),
         UNCHANGED serverVars
  PROVE  TypeOK' /\ WorkShape'
  <1> USE DEF TypeOK, NetTypeOK, SessionTypeOK, WorkTypeOK, PoolTypeOK, ServerTypeOK,
              WorkShape, HasWork, Reading, Cancelling, Goto, Alive, Session, PC,
              HeldIsRead, netVars, sessionVars, workVars,
              poolVars, queueVars, endVars, cancelVars, serverVars
  <1>1. CASE WaitSignal(w)
    BY <1>1 DEF WaitSignal
  <1>2. CASE WaitClose(w)
    BY <1>2 DEF WaitClose
  <1>3. CASE WaitFailed(w)
    BY <1>3 DEF WaitFailed
  <1>4. CASE FetchNothing(w)
    BY <1>4 DEF FetchNothing
  <1>5. CASE Fetch(w)
    <2>1. TypeOK'
      BY <1>5 DEF Fetch, IsWorkQueueEmpty
    <2>2. WorkShape'
      BY <1>5 DEF Fetch, IsWorkQueueEmpty
    <2> QED
      BY <2>1, <2>2
  <1>6. CASE CountUp(w)
    BY <1>6 DEF CountUp
  <1>7. CASE Requeue(w)
    BY <1>7 DEF Requeue, QueueWork, SignalWork
  <1>8. CASE Finish(w)
    <2>1. mThreadRunningCount >= 1
      BY <1>8, CountPositive DEF Finish, Counted
    <2> QED
      BY <1>8, <2>1 DEF Finish
  <1>9. CASE CancelBegin(w)
    BY <1>9 DEF CancelBegin, LockFree, Rotating
  <1>10. CASE CancelPop(w)
    <2>1. TypeOK'
      BY <1>10 DEF CancelPop, RotationSafe
    <2>2. WorkShape'
      BY <1>10 DEF CancelPop, RotationSafe
    <2> QED
      BY <2>1, <2>2
  <1>11. CASE CancelKeep(w)
    <2>1. TypeOK'
      BY <1>11 DEF CancelKeep, CancelNext, QueueWork, RotationSafe
    <2>2. WorkShape'
      BY <1>11 DEF CancelKeep, CancelNext, QueueWork, RotationSafe
    <2> QED
      BY <2>1, <2>2
  <1>15. CASE CancelReadCount(w)
    <2>1. held.session \in Sessions
      BY <1>15, WorkFields DEF CancelReadCount
    <2>2. TypeOK'
      BY <1>15, <2>1 DEF CancelReadCount
    <2>3. WorkShape'
      BY <1>15 DEF CancelReadCount, RotationSafe
    <2> QED
      BY <2>2, <2>3
  <1>12. CASE CancelDrop(w)
    <2>1. held.session \in Sessions
      BY <1>12, WorkFields DEF CancelDrop, CancelNext
    <2>2. TypeOK'
      BY <1>12, <2>1 DEF CancelDrop, CancelNext
    <2>3. WorkShape'
      BY <1>12 DEF CancelDrop, CancelNext, RotationSafe
    <2> QED
      BY <2>2, <2>3
  <1>13. CASE CancelUseReleased(w)
    BY <1>13 DEF CancelUseReleased
  <1>14. CASE CancelEnd(w)
    BY <1>14 DEF CancelEnd
  <1> QED
    BY <1>1, <1>2, <1>3, <1>4, <1>5, <1>6, <1>7, <1>8, <1>9, <1>10, <1>11, <1>12,
       <1>13, <1>14, <1>15 DEF PoolStep

-----------------------------------------------------------------------------
(* The main thread's steps: types, the list and the index.                 *)

LEMMA ListFacts ==
  ASSUME ServerTypeOK
  PROVE  /\ Len(mClientSessions) \in Nat
         /\ LastChunk \in Nat
         /\ main.chunk \in Nat /\ main.index \in Nat
  BY DivisionFacts, ChunkSizeAssumption DEF ServerTypeOK, MainState, LastChunk

(* The client index that a step uses names a session.                      *)
LEMMA CurrentIsSession ==
  ASSUME ListShape, ClientIndex
  PROVE  Current \in Sessions
  BY DEF ListShape, ClientIndex, Current

(* A step that changes the main thread's own variables only.               *)
LEMMA OnlyMainTyping ==
  ASSUME TypeOK, ListShape, OnlyMain, main' \in MainState
  PROVE  TypeOK' /\ ListShape'
  BY DEF TypeOK, NetTypeOK, SessionTypeOK, WorkTypeOK, PoolTypeOK, ServerTypeOK, ListShape,
         OnlyMain, netVars, sessionVars, workVars, poolVars, queueVars, endVars, cancelVars

(* The main thread moves to another place with another index.              *)
LEMMA MoveTo ==
  ASSUME main \in MainState, NEW a \in MainPC, NEW j \in Nat,
         main' = [main EXCEPT !.at = a, !.index = j]
  PROVE  /\ main' \in MainState
         /\ main'.at = a
         /\ main'.chunk = main.chunk
         /\ main'.resume = main.resume
         /\ main'.index = j
  BY DEF MainState

(* The sweep has found a handle: the index is set and the chunk loop ends. *)
LEMMA MoveToHandle ==
  ASSUME main \in MainState, NEW a \in MainPC, NEW j \in Nat,
         main' = [main EXCEPT !.at = a, !.chunk = 0, !.index = j]
  PROVE  /\ main' \in MainState
         /\ main'.at = a
         /\ main'.chunk = 0
         /\ main'.resume = main.resume
         /\ main'.index = j
  BY DEF MainState

(* What recv and the handshake leave behind is well-typed.                 *)
LEMMA RecvTyping ==
  ASSUME NetTypeOK, NEW s \in Sessions, NEW mask \in SUBSET NetEvent, NEW n \in Nat,
         Recv(s, mask, n)
  PROVE  /\ unread' \in [Sessions -> Nat]
         /\ netEvents' \in [Sessions -> SUBSET NetEvent]
         /\ recvArmed' \in SUBSET Sessions
  BY DEF NetTypeOK, NetEvent, Recv

(* ... and so is what the handshake leaves.                                *)
LEMMA HandshakeTyping ==
  ASSUME NetTypeOK, bIsSSLConnected \in SUBSET Sessions, NEW s \in Sessions,
         NEW mask \in SUBSET NetEvent, Handshake(s, mask)
  PROVE  /\ unread' \in [Sessions -> Nat]
         /\ netEvents' \in [Sessions -> SUBSET NetEvent]
         /\ recvArmed' \in SUBSET Sessions
         /\ bIsSSLConnected' \in SUBSET Sessions
  <1>1. PICK n \in Nat : Recv(s, mask, n)
    BY DEF Handshake, NetTypeOK
  <1>2. bIsSSLConnected' \in SUBSET Sessions
    BY DEF Handshake
  <1> QED
    BY <1>1, <1>2, RecvTyping

(* The end of a dispatch: where the main thread goes, and that its index   *)
(* is kept for eraseClientFromList.                                        *)
LEMMA AfterDispatch ==
  ASSUME main \in MainState, MainShape, main.at = "dispatch",
         ToSweep \/ ToSignalRead \/ ToSignalClose
  PROVE  /\ main' \in MainState
         /\ main'.chunk = 0
         /\ main'.resume = "sweep"
         /\ ToSweep \/ ToSignalRead => main'.at \in {"sweep", "signal"}
         /\ ToSignalClose => main'.at = "signalclose" /\ main'.index = main.index
  <1>1. main.chunk = 0 /\ main.resume = "sweep"
    BY DEF MainShape, MainState
  <1>2. ASSUME ToSweep
        PROVE  /\ main' \in MainState /\ main'.at = "sweep"
               /\ main'.chunk = 0 /\ main'.resume = "sweep"
    BY <1>1, <1>2 DEF ToSweep, MainState, MainPC
  <1>3. ASSUME ToSignalRead
        PROVE  /\ main' \in MainState /\ main'.at = "signal"
               /\ main'.chunk = 0 /\ main'.resume = "sweep"
    BY <1>1, <1>3 DEF ToSignalRead, MainState, MainPC
  <1>4. ASSUME ToSignalClose
        PROVE  /\ main' \in MainState /\ main'.at = "signalclose" /\ main'.index = main.index
               /\ main'.chunk = 0 /\ main'.resume = "sweep"
    BY <1>1, <1>4 DEF ToSignalClose, MainState, MainPC
  <1> QED
    BY <1>2, <1>3, <1>4

(* Queueing a CLOSE keeps the queue well-typed.                            *)
LEMMA QueueCloseTyping ==
  ASSUME TypeOK, NEW s \in Sessions, QueueClose(s)
  PROVE  /\ mClientWorks' \in Seq(Work)
         /\ overtaken' \in SUBSET Sessions
  <1>1. CloseWork(s) \in Work
    BY DEF CloseWork, Work, WorkType
  <1> QED
    BY <1>1 DEF QueueClose, QueueWork, TypeOK, PoolTypeOK, ServerTypeOK

(* One step of the switch, whatever the case.  All of them leave the main  *)
(* thread at the sweep, or at the signal that follows a queued work.       *)
LEMMA DispatchTyping ==
  ASSUME TypeOK, ListShape, MainShape, Dispatch, ~NoCaseMatches
  PROVE  TypeOK' /\ ListShape' /\ MainShape'
  <1>0. /\ main \in MainState
        /\ mClientSessions \in Seq(Sessions \union {Listener})
        /\ Len(mClientSessions) \in Nat /\ LastChunk \in Nat
        /\ main.chunk \in Nat /\ main.index \in Nat
        /\ NetTypeOK /\ bIsSSLConnected \in SUBSET Sessions
    BY ListFacts DEF TypeOK, ServerTypeOK, SessionTypeOK
  <1> DEFINE Typed ==
        /\ NetTypeOK'
        /\ SessionTypeOK'
        /\ mClientWorks' \in Seq(Work)
        /\ signalled' \in BOOLEAN
        /\ mClientSessions' \in Seq(Sessions \union {Listener})
        /\ overtaken' \in SUBSET Sessions
  <1>a. SUFFICES /\ main.at = "dispatch" /\ NotTheMainThreads
                 /\ \/ ToSweep \/ ToSignalRead
                    \/ ToSignalClose /\ ClientIndex /\ UNCHANGED mClientSessions
                 /\ Typed
                 /\ ListShape'
    <2>1. TypeOK'
      BY <1>0, AfterDispatch
         DEF TypeOK, WorkTypeOK, PoolTypeOK, ServerTypeOK, NotTheMainThreads, workVars,
             endVars, cancelVars
    <2>2. LastChunk' \in Nat
      <3>1. Len(mClientSessions') \in Nat
        BY <2>1 DEF TypeOK, ServerTypeOK
      <3> QED
        BY <3>1, DivisionFacts, ChunkSizeAssumption DEF LastChunk
    <2>3. main'.at = "signalclose" => ClientIndex'
      BY <1>0, AfterDispatch DEF ClientIndex
    <2>4. MainShape'
      <3>1. /\ main'.at \in {"sweep", "signal", "signalclose"}
            /\ main'.chunk = 0
            /\ main'.resume = "sweep"
        BY <1>0, AfterDispatch
      <3> HIDE <1>a
      <3> QED
        BY <3>1, <2>2, <2>3 DEF MainShape
    <2> QED
      BY <2>1, <2>4
  <1>b. main.at = "dispatch" /\ main.events # {"FD_ACCEPT"} => Current \in Sessions
    BY CurrentIsSession DEF MainShape
  <1> USE DEF NotTheMainThreads
  <1>1. CASE \E s \in Sessions : AcceptFails(s)
    <2>1. PICK s \in Sessions : AcceptFails(s)
      BY <1>1
    <2>2. NetTypeOK'
      BY <1>0, <2>1 DEF AcceptFails, NetTypeOK, LinkState
    <2> QED
      BY <1>0, <2>1, <2>2
         DEF AcceptFails, Dispatching, TypeOK, SessionTypeOK, sessionVars, PoolTypeOK,
             queueVars, ServerTypeOK, ListShape
  <1>2. CASE \E s \in Sessions : Accept(s)
    <2>1. PICK s \in Sessions : Accept(s)
      BY <1>2
    <2>2. EventsAtSelect(s) \in SUBSET NetEvent
      BY DEF EventsAtSelect, NetEvent
    <2>3. /\ unread' \in [Sessions -> Nat]
          /\ netEvents' \in [Sessions -> SUBSET NetEvent]
          /\ recvArmed' \in SUBSET Sessions
          /\ bIsSSLConnected' \in SUBSET Sessions
      BY <1>0, <2>1, <2>2, HandshakeTyping DEF Accept
    <2>4. NetTypeOK'
      BY <1>0, <2>1, <2>3 DEF Accept, NetTypeOK, LinkState
    <2>5. /\ ListShape'
          /\ mClientSessions' \in Seq(Sessions \union {Listener})
      BY <1>0, <2>1 DEF Accept, ListShape
    <2> QED
      BY <1>0, <2>1, <2>3, <2>4, <2>5
         DEF Accept, Dispatching, TypeOK, SessionTypeOK, PoolTypeOK, queueVars,
             ServerTypeOK
  <1>3. CASE \E s \in Sessions : AcceptAndRelease(s)
    <2>1. PICK s \in Sessions : AcceptAndRelease(s)
      BY <1>3
    <2>2. NetTypeOK' /\ SessionTypeOK'
      BY <1>0, <2>1
         DEF AcceptAndRelease, ReleaseSession, CloseSocket, NetTypeOK, LinkState, TypeOK,
             SessionTypeOK
    <2> QED
      BY <1>0, <2>1, <2>2
         DEF AcceptAndRelease, Dispatching, TypeOK, PoolTypeOK, queueVars,
             ServerTypeOK, ListShape
  <1>4. CASE ContinueHandshake
    <2>1. Current \in Sessions
      BY <1>4, <1>b DEF ContinueHandshake, Dispatching
    <2>2. netEvents[Current] \in SUBSET NetEvent
      BY <1>0, <2>1 DEF NetTypeOK
    <2>3. /\ unread' \in [Sessions -> Nat]
          /\ netEvents' \in [Sessions -> SUBSET NetEvent]
          /\ recvArmed' \in SUBSET Sessions
          /\ bIsSSLConnected' \in SUBSET Sessions
      BY <1>0, <1>4, <2>1, <2>2, HandshakeTyping DEF ContinueHandshake
    <2>4. NetTypeOK' /\ SessionTypeOK'
      BY <1>0, <1>4, <2>3
         DEF ContinueHandshake, ResetTimer, NetTypeOK, TypeOK, SessionTypeOK
    <2> QED
      BY <1>0, <1>4, <2>4
         DEF ContinueHandshake, Dispatching, TypeOK, PoolTypeOK, queueVars,
             ServerTypeOK, ListShape
  <1>5. CASE HandshakeToClose
    <2>1. Current \in Sessions /\ ClientIndex
      BY <1>5, <1>b DEF HandshakeToClose, Dispatching, MainShape
    <2>2. netEvents[Current] \in SUBSET NetEvent
      BY <1>0, <2>1 DEF NetTypeOK
    <2>3. /\ unread' \in [Sessions -> Nat]
          /\ netEvents' \in [Sessions -> SUBSET NetEvent]
          /\ recvArmed' \in SUBSET Sessions
      <3>1. PICK n \in Nat : Recv(Current, netEvents[Current], n)
        BY <1>0, <1>5, <2>1 DEF HandshakeToClose, NetTypeOK
      <3> QED
        BY <1>0, <2>1, <2>2, <3>1, RecvTyping
    <2>4. NetTypeOK' /\ SessionTypeOK'
      BY <1>0, <1>5, <2>3
         DEF HandshakeToClose, ResetTimer, NetTypeOK, TypeOK, SessionTypeOK
    <2>5. /\ mClientWorks' \in Seq(Work)
          /\ overtaken' \in SUBSET Sessions
      BY <1>5, <2>1, QueueCloseTyping DEF HandshakeToClose
    <2> QED
      BY <1>0, <1>5, <2>1, <2>4, <2>5
         DEF HandshakeToClose, Dispatching, TypeOK, PoolTypeOK, ServerTypeOK, ListShape
  <1>6. CASE QueueRead
    <2>1. ReadWork(Current) \in Work
      BY <1>6, <1>b DEF QueueRead, Dispatching, ReadWork, Work, WorkType
    <2>2. NetTypeOK' /\ SessionTypeOK'
      BY <1>0, <1>6
         DEF QueueRead, ResetTimer, NetTypeOK, netVars, TypeOK, SessionTypeOK
    <2>3. mClientWorks' \in Seq(Work)
      BY <1>6, <2>1 DEF QueueRead, QueueWork, TypeOK, PoolTypeOK
    <2> QED
      BY <1>0, <1>6, <2>2, <2>3
         DEF QueueRead, Dispatching, TypeOK, PoolTypeOK, ServerTypeOK, ListShape
  <1>7. CASE Disconnected
    <2>1. Current \in Sessions /\ ClientIndex
      BY <1>7, <1>b DEF Disconnected, Dispatching, MainShape
    <2>2. NetTypeOK' /\ SessionTypeOK'
      BY <1>0, <1>7 DEF Disconnected, NetTypeOK, netVars, TypeOK, SessionTypeOK, sessionVars
    <2>3. /\ mClientWorks' \in Seq(Work)
          /\ overtaken' \in SUBSET Sessions
      BY <1>7, <2>1, QueueCloseTyping DEF Disconnected
    <2> QED
      BY <1>0, <1>7, <2>1, <2>2, <2>3
         DEF Disconnected, Dispatching, TypeOK, PoolTypeOK, ServerTypeOK, ListShape
  <1> QED
    BY <1>1, <1>2, <1>3, <1>4, <1>5, <1>6, <1>7 DEF Dispatch

(* Every step of the event loop and of the destructor keeps the types, the *)
(* shape of the list, and the index inside it.                             *)
LEMMA MainTyping ==
  ASSUME TypeOK, ListShape, MainShape, MainStep
  PROVE  TypeOK' /\ ListShape' /\ MainShape'
  <1>0. /\ main \in MainState
        /\ mClientSessions \in Seq(Sessions \union {Listener})
        /\ Len(mClientSessions) \in Nat /\ LastChunk \in Nat
        /\ main.chunk \in Nat /\ main.index \in Nat
    BY ListFacts DEF TypeOK, ServerTypeOK
  <1>1. CASE SweepFinds
    <2>1. PICK i \in Indices :
            main' = [main EXCEPT !.at = "enumerate", !.chunk = 0, !.index = i]
      BY <1>1 DEF SweepFinds
    <2>2. i \in 1 .. Len(mClientSessions) /\ i \in Nat
      BY <1>0, ChunkInsideList DEF MainShape
    <2>3. /\ main' \in MainState
          /\ main'.at = "enumerate"
          /\ main'.chunk = 0
          /\ main'.resume = main.resume
          /\ main'.index = i
      BY <1>0, <2>1, <2>2, MoveToHandle DEF MainPC
    <2>4. OnlyMain /\ main.at = "sweep"
      BY <1>1 DEF SweepFinds, Sweeping
    <2> HIDE <1>1
    <2> QED
      BY <1>0, <2>2, <2>3, <2>4, OnlyMainTyping
         DEF OnlyMain, MainShape, ClientIndex, LastChunk
  <1>2. CASE SweepNextChunk
    <2>1. /\ main' \in MainState
          /\ main'.at = "sweep"
          /\ main'.chunk = main.chunk + 1
          /\ main'.resume = main.resume
      BY <1>0, <1>2 DEF SweepNextChunk, MainState, MainPC, Sweeping
    <2> QED
      BY <1>0, <1>2, <2>1, OnlyMainTyping
         DEF SweepNextChunk, OnlyMain, MainShape, ClientIndex, LastChunk,
             Sweeping
  <1>3. CASE SweepFailed
    <2>1. /\ main' \in MainState
          /\ main'.at = "sweep"
          /\ main'.chunk = 0
          /\ main'.resume = main.resume
      BY <1>0, <1>3 DEF SweepFailed, MainState, MainPC, Sweeping
    <2> QED
      BY <1>0, <1>3, <2>1, OnlyMainTyping
         DEF SweepFailed, OnlyMain, MainShape, ClientIndex, LastChunk,
             Sweeping
  <1>4. CASE SweepTimesOut
    <2>1. /\ main' \in MainState
          /\ main'.at = "nudge"
          /\ main'.chunk = 0
          /\ main'.resume = main.resume
      BY <1>0, <1>4 DEF SweepTimesOut, MainState, MainPC, Sweeping
    <2> QED
      BY <1>0, <1>4, <2>1, OnlyMainTyping
         DEF SweepTimesOut, OnlyMain, MainShape, ClientIndex, LastChunk,
             Sweeping
  <1>5. CASE LeaveLoop
    <2>1. /\ main' \in MainState
          /\ main'.at = "drain"
          /\ main'.chunk = 0
          /\ main'.resume = main.resume
      BY <1>0, <1>5 DEF LeaveLoop, MainState, MainPC
    <2> QED
      BY <1>0, <1>5, <2>1, OnlyMainTyping
         DEF LeaveLoop, OnlyMain, MainShape, ClientIndex, LastChunk
  <1>6. CASE NoCaseMatches
    <2>1. /\ main' \in MainState
          /\ main'.at = "sweep"
          /\ main'.chunk = main.chunk
          /\ main'.resume = main.resume
      BY <1>0, <1>6 DEF NoCaseMatches, MainState, MainPC, ToSweep, Dispatching
    <2> QED
      BY <1>0, <1>6, <2>1, OnlyMainTyping
         DEF NoCaseMatches, OnlyMain, MainShape, ClientIndex, LastChunk,
             ToSweep, Dispatching
  <1>7. CASE Nudge
    <2>1. /\ main' \in MainState
          /\ main'.at \in {"scan", "signal"}
          /\ main'.chunk = main.chunk
          /\ main'.resume = "scan" => main'.at = "signal" \/ main.resume = "scan"
          /\ main'.index = 2
      <3>1. \/ main' = [main EXCEPT !.at = "scan", !.index = 2]
            \/ main' = [main EXCEPT !.at = "signal", !.resume = "scan", !.index = 2]
        BY <1>7 DEF Nudge
      <3>2. CASE main' = [main EXCEPT !.at = "scan", !.index = 2]
        BY <1>0, <3>2 DEF MainState, MainPC
      <3>3. CASE main' = [main EXCEPT !.at = "signal", !.resume = "scan", !.index = 2]
        BY <1>0, <3>3 DEF MainState, MainPC
      <3> QED
        BY <3>1, <3>2, <3>3
    <2> QED
      BY <1>0, <1>7, <2>1, OnlyMainTyping
         DEF Nudge, OnlyMain, MainShape, ClientIndex, LastChunk
  <1>8. CASE ScanKeeps
    <2>1. /\ main' \in MainState
          /\ main'.at = "scan"
          /\ main'.chunk = main.chunk
          /\ main'.resume = main.resume
          /\ main'.index = main.index + 1
      BY <1>0, <1>8 DEF ScanKeeps, MainState, MainPC, Scanning
    <2> QED
      BY <1>0, <1>8, <2>1, OnlyMainTyping
         DEF ScanKeeps, OnlyMain, MainShape, ClientIndex, LastChunk, Scanning
  <1>9. CASE ScanEnds
    <2>1. /\ main' \in MainState
          /\ main'.at = "sweep"
          /\ main'.chunk = main.chunk
          /\ main'.resume = main.resume
      BY <1>0, <1>9 DEF ScanEnds, MainState, MainPC
    <2> QED
      BY <1>0, <1>9, <2>1, OnlyMainTyping
         DEF ScanEnds, OnlyMain, MainShape, ClientIndex, LastChunk
  <1>10. CASE DrainSpin
    <2>1. /\ main' \in MainState
          /\ main' = main
      BY <1>0, <1>10 DEF DrainSpin, MainState, MainPC
    <2> QED
      BY <1>0, <1>10, <2>1, OnlyMainTyping
         DEF DrainSpin, OnlyMain, MainShape, ClientIndex, LastChunk
  <1>11. CASE Drain
    <2>1. /\ main' \in MainState
          /\ main'.at = "destroy"
          /\ main'.chunk = main.chunk
          /\ main'.resume = main.resume
          /\ main'.index = 2
      BY <1>0, <1>11 DEF Drain, ToDestroy, MainState, MainPC
    <2>3. TypeOK'
      <3>1. overtaken' \in SUBSET Sessions
        BY <1>0, <1>11 DEF Drain, ToDestroy, Listed, TypeOK, ServerTypeOK
      <3> QED
        BY <1>0, <1>11, <2>1, <3>1
           DEF Drain, ToDestroy, TypeOK, NetTypeOK, SessionTypeOK, WorkTypeOK, PoolTypeOK,
               ServerTypeOK, netVars, sessionVars, workVars, poolVars, queueVars,
               endVars, cancelVars
    <2>4. mClientSessions' = mClientSessions
      BY <1>11 DEF Drain, ToDestroy
    <2> QED
      BY <1>0, <1>11, <2>1, <2>3, <2>4
         DEF Drain, ListShape, MainShape, ClientIndex, LastChunk
  <1>12. CASE DestroyRefused
    <2>1. /\ main' \in MainState
          /\ main'.at = "destroy"
          /\ main'.chunk = main.chunk
          /\ main'.resume = main.resume
          /\ main'.index = main.index + 1
      BY <1>0, <1>12 DEF DestroyRefused, MainState, MainPC, Destroying
    <2> QED
      BY <1>0, <1>12, <2>1, OnlyMainTyping
         DEF DestroyRefused, OnlyMain, MainShape, ClientIndex, LastChunk,
             Destroying
  <1>13. CASE DestroyBegin
    <2>1. /\ main' \in MainState
          /\ main'.at = "destroyrelease"
          /\ main'.chunk = main.chunk
          /\ main'.resume = main.resume
          /\ main'.index = main.index
      BY <1>0, <1>13 DEF DestroyBegin, MainState, MainPC, Destroying
    <2> QED
      BY <1>0, <1>13, <2>1, OnlyMainTyping
         DEF DestroyBegin, OnlyMain, MainShape, ClientIndex, LastChunk,
             Destroying
  <1>14. CASE Enumerate
    <2>1. /\ main' \in MainState
          /\ main'.at = "dispatch"
          /\ main'.chunk = main.chunk
          /\ main'.resume = main.resume
          /\ main'.index = main.index
          /\ main'.events # {"FD_ACCEPT"} => Current # Listener
      <3>1. CASE Current = Listener
        <4>1. main' = [main EXCEPT !.at = "dispatch", !.events = {"FD_ACCEPT"}]
          BY <1>14, <3>1 DEF Enumerate
        <4> QED
          BY <1>0, <4>1 DEF MainState, MainPC
      <3>2. CASE Current # Listener
        <4>1. main' = [main EXCEPT !.at = "dispatch", !.events = netEvents[Current]]
          BY <1>14, <3>2 DEF Enumerate
        <4>2. netEvents[Current] \in SUBSET (NetEvent \union {"FD_ACCEPT"})
          BY <1>0, <1>14, <3>2 DEF Enumerate, MainShape, Current, TypeOK, NetTypeOK
        <4> QED
          BY <1>0, <3>2, <4>1, <4>2 DEF MainState, MainPC
      <3> QED
        BY <3>1, <3>2
    <2>3. TypeOK'
      BY <1>0, <1>14, <2>1
         DEF Enumerate, EnumNetworkEvents, Current, TypeOK, NetTypeOK,
             SessionTypeOK, WorkTypeOK, PoolTypeOK, ServerTypeOK,
             NotTheMainThreads, netVars, sessionVars, workVars, endVars,
             cancelVars, queueVars
    <2>4. mClientSessions' = mClientSessions
      BY <1>14 DEF Enumerate, serverVars
    <2> QED
      BY <1>0, <1>14, <2>1, <2>3, <2>4
         DEF Enumerate, ListShape, MainShape, ClientIndex, LastChunk, Current,
             NetEvent, TypeOK, NetTypeOK
  <1>15. CASE Signal
    <2>1. /\ main' \in MainState
          /\ main'.at \in {main.resume, "erase"}
          /\ main'.at \in {"erase", "sweep", "scan"}
          /\ main'.at = "erase" => main.at = "signalclose"
          /\ main'.at = "scan" => main.at = "signal" /\ main.resume = "scan"
          /\ main'.chunk = main.chunk
          /\ main'.resume = "scan" => main'.at = "erase"
          /\ main'.index = main.index
      BY <1>0, <1>15 DEF Signal, MainState, MainPC
    <2>3. TypeOK'
      BY <1>0, <1>15, <2>1
         DEF Signal, SignalWork, TypeOK, NetTypeOK, SessionTypeOK, WorkTypeOK,
             PoolTypeOK, ServerTypeOK, NotTheMainThreads, netVars,
             sessionVars, workVars, endVars, cancelVars, queueVars
    <2>4. mClientSessions' = mClientSessions
      BY <1>15 DEF Signal, serverVars
    <2> QED
      BY <1>0, <1>15, <2>1, <2>3, <2>4
         DEF Signal, ListShape, MainShape, ClientIndex, LastChunk
  <1>16. CASE ScanInvalidates
    <2>1. /\ main' \in MainState
          /\ main.at = "scan" /\ main'.at = "signalclose"
          /\ main'.chunk = main.chunk
          /\ main'.resume = "scan"
          /\ main'.index = main.index
      <3>1. main' = [main EXCEPT !.at = "signalclose", !.resume = "scan"]
        BY <1>16 DEF ScanInvalidates
      <3>2. main.at = "scan"
        BY <1>16 DEF ScanInvalidates, Scanning
      <3> HIDE <1>16
      <3> QED
        BY <1>0, <3>1, <3>2 DEF MainState, MainPC
    <2>2. Current \in Sessions /\ CloseWork(Current) \in Work
      BY <1>0, <1>16 DEF ScanInvalidates, Scanning, ListShape, MainShape, Current, CloseWork, Work, WorkType
    <2>3. TypeOK'
      BY <1>0, <1>16, <2>1, <2>2
         DEF ScanInvalidates, Scanning, QueueClose, QueueWork, Current,
             TypeOK, NetTypeOK, SessionTypeOK, WorkTypeOK, PoolTypeOK,
             ServerTypeOK, NotTheMainThreads, netVars, sessionVars, workVars,
             endVars, cancelVars, queueVars
    <2>4. mClientSessions' = mClientSessions
      BY <1>16 DEF ScanInvalidates, serverVars
    <2> QED
      BY <1>0, <1>16, <2>1, <2>2, <2>3, <2>4
         DEF ScanInvalidates, ListShape, MainShape, ClientIndex, LastChunk,
             Scanning
  <1>17. CASE DestroyRelease
    <2>1. /\ main' \in MainState
          /\ main'.at = "destroy"
          /\ main'.chunk = main.chunk
          /\ main'.resume = main.resume
          /\ main'.index = main.index + 1
      <3>1. main' = [main EXCEPT !.at = "destroy", !.index = main.index + 1]
        BY <1>17 DEF DestroyRelease
      <3>2. main.index + 1 \in Nat
        BY <1>0
      <3> QED
        BY <1>0, <3>1, <3>2, MoveTo DEF MainPC
    <2>2. Current \in Sessions
      BY <1>17, CurrentIsSession DEF DestroyRelease, MainShape
    <2>3. TypeOK'
      BY <1>0, <1>17, <2>1, <2>2
         DEF DestroyRelease, ReleaseSession, CloseSocket, LinkState, TypeOK,
             NetTypeOK, SessionTypeOK, WorkTypeOK, PoolTypeOK, ServerTypeOK,
             NotTheMainThreads, netVars, sessionVars, workVars, endVars,
             cancelVars, queueVars
    <2>4. mClientSessions' = mClientSessions
      BY <1>17 DEF DestroyRelease, serverVars
    <2> QED
      BY <1>0, <1>17, <2>1, <2>2, <2>3, <2>4
         DEF DestroyRelease, ListShape, MainShape, ClientIndex, LastChunk
  <1>18. CASE StopPool
    <2>1. /\ main' \in MainState
          /\ main'.at = "closehandles"
          /\ main'.chunk = main.chunk
          /\ main'.resume = main.resume
      BY <1>0, <1>18 DEF StopPool, MainState, MainPC
    <2>3. TypeOK'
      BY <1>0, <1>18, <2>1
         DEF StopPool, SignalClose, TypeOK, NetTypeOK, SessionTypeOK,
             WorkTypeOK, PoolTypeOK, ServerTypeOK, NotTheMainThreads, netVars,
             sessionVars, workVars, endVars, cancelVars, queueVars
    <2>4. mClientSessions' = mClientSessions
      BY <1>18 DEF StopPool, serverVars
    <2> QED
      BY <1>0, <1>18, <2>1, <2>3, <2>4
         DEF StopPool, ListShape, MainShape, ClientIndex, LastChunk
  <1>19. CASE CloseHandles
    <2>1. /\ main' \in MainState
          /\ main'.at = "join"
          /\ main'.chunk = main.chunk
          /\ main'.resume = main.resume
      BY <1>0, <1>19 DEF CloseHandles, MainState, MainPC
    <2>3. TypeOK'
      BY <1>0, <1>19, <2>1
         DEF CloseHandles, TypeOK, NetTypeOK, SessionTypeOK, WorkTypeOK,
             PoolTypeOK, ServerTypeOK, NotTheMainThreads, netVars,
             sessionVars, workVars, endVars, cancelVars, queueVars
    <2>4. mClientSessions' = mClientSessions
      BY <1>19 DEF CloseHandles, serverVars
    <2> QED
      BY <1>0, <1>19, <2>1, <2>3, <2>4
         DEF CloseHandles, ListShape, MainShape, ClientIndex, LastChunk
  <1>20. CASE Join
    <2>1. /\ main' \in MainState
          /\ main' = main
      BY <1>0, <1>20 DEF Join, MainState, MainPC, serverVars
    <2>3. TypeOK'
      BY <1>0, <1>20, <2>1
         DEF Join, serverVars, poolVars, TypeOK, NetTypeOK, SessionTypeOK,
             WorkTypeOK, PoolTypeOK, ServerTypeOK, NotTheMainThreads, netVars,
             sessionVars, workVars, endVars, cancelVars, queueVars
    <2>4. mClientSessions' = mClientSessions
      BY <1>20 DEF Join, serverVars
    <2> QED
      BY <1>0, <1>20, <2>1, <2>3, <2>4
         DEF Join, ListShape, MainShape, ClientIndex, LastChunk, serverVars
  <1>21. CASE Erase
    <2> DEFINE n == Len(mClientSessions)
    <2>1. main.index \in 2 .. n /\ n \in Nat
      BY <1>0, <1>21 DEF Erase, MainShape, ClientIndex
    <2>2. /\ main' \in MainState
          /\ main'.at \in {"sweep", "scan"}
          /\ main'.chunk = main.chunk
          /\ main'.resume = "sweep"
          /\ main'.at = "scan" => main'.index = main.index + 1
      <3>1. CASE main.resume = "sweep" /\ main' = [main EXCEPT !.at = "sweep", !.index = 0]
        BY <1>0, <3>1 DEF MainState, MainPC
      <3>2. CASE main' = [main EXCEPT !.at = "scan", !.index = main.index + 1,
                                      !.resume = "sweep"]
        <4>1. PICK j \in Nat : j = main.index + 1
          BY <1>0
        <4>2. main' = [main EXCEPT !.at = "scan", !.index = j, !.resume = "sweep"]
          BY <3>2, <4>1
        <4>3. main' \in MainState /\ main'.index = j
          BY <1>0, <4>2 DEF MainState, MainPC
        <4> QED
          BY <1>0, <4>1, <4>2, <4>3 DEF MainState
      <3> QED
        BY <1>21, <3>1, <3>2 DEF Erase
    <2>3. /\ mClientSessions' \in Seq(Sessions \union {Listener})
          /\ Len(mClientSessions') = n - 1
          /\ \A i \in 1 .. n - 1 :
               mClientSessions'[i] = IF i < main.index THEN mClientSessions[i]
                                                      ELSE mClientSessions[i + 1]
      <3>1. mClientSessions' = Erased(main.index)
        BY <1>21 DEF Erase
      <3>2. \A i \in 1 .. n : mClientSessions[i] \in Sessions \union {Listener}
        BY <1>0
      <3>3. mClientSessions' \in [1 .. n - 1 -> Sessions \union {Listener}]
        BY <2>1, <3>1, <3>2 DEF Erased
      <3>4. mClientSessions' \in Seq(Sessions \union {Listener})
        BY <2>1, <3>3, SeqDef
      <3>5. DOMAIN mClientSessions' = 1 .. n - 1
        BY <3>3
      <3>6. Len(mClientSessions') = n - 1
        BY <2>1, <3>4, <3>5, LenProperties
      <3> QED
        BY <3>1, <3>4, <3>6 DEF Erased
    <2>4. TypeOK'
      BY <1>21, <2>2, <2>3
         DEF Erase, TypeOK, NetTypeOK, SessionTypeOK, WorkTypeOK, PoolTypeOK, ServerTypeOK,
             NotTheMainThreads, netVars, sessionVars, workVars, endVars, cancelVars,
             queueVars
    <2>5. ListShape'
      BY <2>1, <2>3 DEF ListShape
    <2>6. LastChunk' \in Nat
      BY <2>1, <2>3, DivisionFacts, ChunkSizeAssumption DEF LastChunk
    <2>7. main.chunk = 0
      BY <1>21 DEF Erase, MainShape
    <2> QED
      BY <1>0, <2>1, <2>2, <2>4, <2>5, <2>6, <2>7 DEF MainShape
  <1>22. CASE Dispatch
    BY <1>6, <1>22, DispatchTyping
  <1> QED
    BY <1>1, <1>2, <1>3, <1>4, <1>5, <1>7, <1>8, <1>9, <1>10, <1>11, <1>12, <1>13,
       <1>14, <1>15, <1>16, <1>17, <1>18, <1>19, <1>20, <1>21, <1>22 DEF MainStep

-----------------------------------------------------------------------------
(* The clients, the clock and the console.                                 *)

(* What happens outside the server's own threads keeps the types, and does *)
(* not touch the workers, the pool, the counts or the list.                *)
LEMMA OutsideTyping ==
  ASSUME TypeOK,
         \/ \E s \in Sessions : Client(s) \/ Clock(s)
         \/ PressQuit
         \/ UNCHANGED vars
  PROVE  /\ TypeOK'
         /\ UNCHANGED <<workVars, poolVars, processingCount, mClientSessions, main>>
  <1> USE DEF TypeOK, NetTypeOK, SessionTypeOK, WorkTypeOK, PoolTypeOK, ServerTypeOK, netVars,
              sessionVars, workVars, poolVars, queueVars, endVars, cancelVars, serverVars
  <1>1. ASSUME NEW s \in Sessions, Client(s)
        PROVE  /\ TypeOK'
               /\ UNCHANGED <<workVars, poolVars, processingCount, mClientSessions, main>>
    <2>1. CASE ClientConnect(s)
      BY <1>1, <2>1 DEF Client, ClientConnect, LinkState
    <2>2. CASE ClientSend(s)
      <3>1. NetTypeOK'
        BY <2>2, MaxSendsAssumption DEF ClientSend, NetEvent
      <3> QED
        BY <1>1, <3>1 DEF Client
    <2>3. CASE ClientClose(s)
      <3>1. NetTypeOK'
        BY <2>3 DEF ClientClose, NetEvent
      <3> QED
        BY <1>1, <3>1 DEF Client
    <2> QED
      BY <1>1, <2>1, <2>2, <2>3 DEF Client, ClientStep
  <1>2. ASSUME NEW s \in Sessions, Clock(s)
        PROVE  /\ TypeOK'
               /\ UNCHANGED <<workVars, poolVars, processingCount, mClientSessions, main>>
    BY <1>2 DEF Clock, TimePasses
  <1>3. CASE PressQuit
    BY <1>3 DEF PressQuit
  <1>4. CASE UNCHANGED vars
    BY <1>4 DEF vars
  <1> QED
    BY <1>1, <1>2, <1>3, <1>4

-----------------------------------------------------------------------------
(* The counts and the rotation.                                            *)

(* The workers that run a READ of a session are finitely many.             *)
LEMMA ReadersFinite ==
  ASSUME NEW s \in Sessions
  PROVE  IsFiniteSet(RunningReads(s)) /\ Cardinality(RunningReads(s)) \in Nat
  <1>1. RunningReads(s) \subseteq Workers
    BY DEF RunningReads
  <1> QED
    BY <1>1, WorkersAssumption, FS_Subset, FS_CardinalityType

(* A step that changes no worker and no rotation, adds to the queue only,  *)
(* and changes the count of a session only by deleting it.                 *)
LEMMA WorkersUntouched ==
  ASSUME TypeOK, WorkShape, CountExact, RotationSafe, BusyIsReal, SeenShape,
         UNCHANGED <<workVars, cancelVars, mThreadRunningCount>>,
         Len(mClientWorks') >= Len(mClientWorks), Len(mClientWorks') \in Nat,
         \A s \in Sessions : processingCount'[s] \in {processingCount[s], 0}
  PROVE  WorkShape' /\ CountExact' /\ RotationSafe' /\ BusyIsReal' /\ SeenShape'
  <1>0. UNCHANGED <<pc, work, remaining, held, seen>>
    BY DEF workVars, cancelVars
  <1>1. WorkShape' /\ SeenShape'
    BY <1>0 DEF WorkShape, SeenShape, HeldIsRead, Session
  <1>2. CountExact'
    BY <1>0 DEF CountExact, CountedWorkers
  <1>3. RotationSafe'
    BY <1>0 DEF RotationSafe, TypeOK, PoolTypeOK
  <1>4. ASSUME NEW s \in Sessions
        PROVE  Drift(s)' <= 0
    <2>1. RunningReads(s)' = RunningReads(s)
      BY <1>0 DEF RunningReads
    <2>2. Cardinality(RunningReads(s)) \in Nat
      BY ReadersFinite
    <2>3. processingCount[s] \in Int /\ processingCount[s] - Cardinality(RunningReads(s)) <= 0
      BY DEF BusyIsReal, Drift, TypeOK, SessionTypeOK
    <2>4. processingCount'[s] \in {processingCount[s], 0}
      OBVIOUS
    <2> QED
      BY <2>1, <2>2, <2>3, <2>4 DEF Drift
  <1> QED
    BY <1>1, <1>2, <1>3, <1>4 DEF BusyIsReal

(* The main thread moves no worker, never takes a work out of the queue,   *)
(* and changes the count of a session only by deleting it.                 *)
LEMMA MainLeavesWorkers ==
  ASSUME TypeOK, ListShape, MainShape, MainStep, TypeOK'
  PROVE  /\ UNCHANGED <<workVars, cancelVars, mThreadRunningCount>>
         /\ UNCHANGED mClientWorks \/ \E x : mClientWorks' = Append(mClientWorks, x)
         /\ Len(mClientWorks') >= Len(mClientWorks)
         /\ \A s \in Sessions : processingCount'[s] \in {processingCount[s], 0}
  <1>0. /\ mClientWorks \in Seq(Work) /\ mClientWorks' \in Seq(Work)
        /\ processingCount \in [Sessions -> Int]
    BY DEF TypeOK, PoolTypeOK, SessionTypeOK
  <1>1. UNCHANGED <<workVars, cancelVars, mThreadRunningCount>>
    BY DEF MainStep, Dispatch, OnlyMain, NotTheMainThreads, poolVars,
         SweepFinds, SweepNextChunk, SweepFailed, SweepTimesOut, LeaveLoop, Enumerate,
         AcceptFails, Accept, AcceptAndRelease, ContinueHandshake, HandshakeToClose,
         QueueRead, Disconnected, NoCaseMatches, Signal, Erase, Nudge, ScanKeeps,
         ScanInvalidates, ScanEnds, DrainSpin, Drain, ToDestroy, DestroyRefused, DestroyBegin,
         DestroyRelease, StopPool, CloseHandles, Join
  <1>2. \/ UNCHANGED mClientWorks
        \/ \E x : mClientWorks' = Append(mClientWorks, x)
    BY DEF MainStep, Dispatch, OnlyMain, poolVars, queueVars, QueueClose, QueueWork,
         SweepFinds, SweepNextChunk, SweepFailed, SweepTimesOut, LeaveLoop, Enumerate,
         AcceptFails, Accept, AcceptAndRelease, ContinueHandshake, HandshakeToClose,
         QueueRead, Disconnected, NoCaseMatches, Signal, Erase, Nudge, ScanKeeps,
         ScanInvalidates, ScanEnds, DrainSpin, Drain, ToDestroy, DestroyRefused, DestroyBegin,
         DestroyRelease, StopPool, CloseHandles, Join
  <1>3. \/ UNCHANGED processingCount
        \/ \E s : processingCount' = [processingCount EXCEPT ![s] = 0]
    BY DEF MainStep, Dispatch, OnlyMain, sessionVars, ReleaseSession,
         SweepFinds, SweepNextChunk, SweepFailed, SweepTimesOut, LeaveLoop, Enumerate,
         AcceptFails, Accept, AcceptAndRelease, ContinueHandshake, HandshakeToClose,
         QueueRead, Disconnected, NoCaseMatches, Signal, Erase, Nudge, ScanKeeps,
         ScanInvalidates, ScanEnds, DrainSpin, Drain, ToDestroy, DestroyRefused, DestroyBegin,
         DestroyRelease, StopPool, CloseHandles, Join
  <1>4. Len(mClientWorks') >= Len(mClientWorks)
    BY <1>0, <1>2
  <1> QED
    BY <1>0, <1>1, <1>2, <1>3, <1>4

(* Where a worker runs a work or cancels one, outside the rotation.        *)
Within == {"run", "receive", "respond", "hung", "leave", "release", "requeue", "cancel",
           "finish"}

(* ClientWork::Run moves its own worker only, within the counted part.     *)
LEMMA RunMoves ==
  ASSUME TypeOK, NEW w \in Workers, RunStep(w)
  PROVE  /\ pc[w] \in Within
         /\ \E b \in Within : pc' = [pc EXCEPT ![w] = b]
         /\ UNCHANGED work
  <1>0. pc = [pc EXCEPT ![w] = pc[w]]
    BY DEF TypeOK, WorkTypeOK
  <1> USE DEF Goto, Within, workVars
  <1>1. CASE ReadBegin(w)
    BY <1>1 DEF ReadBegin
  <1>2. CASE ReceiveNothing(w)
    BY <1>2 DEF ReceiveNothing
  <1>3. CASE ReceiveWouldBlock(w)
    BY <1>3 DEF ReceiveWouldBlock
  <1>4. CASE Receive(w)
    BY <1>4 DEF Receive
  <1>5. CASE Respond(w)
    BY <1>0, <1>5 DEF Respond
  <1>6. CASE WriteNothing(w)
    BY <1>0, <1>6 DEF WriteNothing
  <1>7. CASE ReadEnd(w)
    BY <1>7 DEF ReadEnd
  <1>8. CASE CloseBegin(w)
    BY <1>8 DEF CloseBegin
  <1>9. CASE CloseConnection(w)
    BY <1>9 DEF CloseConnection
  <1>10. CASE UseReleased(w)
    BY <1>0, <1>10 DEF UseReleased, Dereferencing
  <1> QED
    BY <1>1, <1>2, <1>3, <1>4, <1>5, <1>6, <1>7, <1>8, <1>9, <1>10 DEF RunStep

(* A worker that moves without entering or leaving the counted part.       *)
LEMMA CountKept ==
  ASSUME TypeOK, CountExact, NEW w \in Workers, NEW b \in PC,
         pc' = [pc EXCEPT ![w] = b], pc[w] \in Counted <=> b \in Counted,
         UNCHANGED mThreadRunningCount
  PROVE  CountExact'
  <1>1. CountedWorkers' = CountedWorkers
    BY DEF CountedWorkers, TypeOK, WorkTypeOK
  <1> QED
    BY <1>1 DEF CountExact

(* The counted workers are finitely many.                                  *)
LEMMA CountedFinite ==
  IsFiniteSet(CountedWorkers) /\ Cardinality(CountedWorkers) \in Nat
  <1>1. CountedWorkers \subseteq Workers
    BY DEF CountedWorkers
  <1> QED
    BY <1>1, WorkersAssumption, FS_Subset, FS_CardinalityType

(* The count is exact after every step of a worker.                        *)
LEMMA WorkerCounts ==
  ASSUME TypeOK, CountExact, NEW w \in Workers, Worker(w)
  PROVE  CountExact'
  <1>0. pc \in [Workers -> PC]
    BY DEF TypeOK, WorkTypeOK
  <1>1. CASE RunStep(w) /\ UNCHANGED poolVars
    <2>1. Within \subseteq Counted /\ Within \subseteq PC
      BY DEF Within, Counted, HasWork, PC
    <2> QED
      BY <1>1, <2>1, RunMoves, CountKept DEF poolVars
  <1>2. CASE CountUp(w)
    <2>1. CountedWorkers' = CountedWorkers \union {w} /\ w \notin CountedWorkers
      BY <1>0, <1>2 DEF CountUp, Goto, CountedWorkers, Counted, HasWork
    <2>2. Cardinality(CountedWorkers') = Cardinality(CountedWorkers) + 1
      BY <2>1, CountedFinite, FS_AddElement
    <2> QED
      BY <1>2, <2>2 DEF CountUp, CountExact
  <1>3. CASE Finish(w)
    <2>1. CountedWorkers' = CountedWorkers \ {w} /\ w \in CountedWorkers
      BY <1>0, <1>3 DEF Finish, Goto, CountedWorkers, Counted, HasWork
    <2>2. Cardinality(CountedWorkers') = Cardinality(CountedWorkers) - 1
      BY <2>1, CountedFinite, FS_RemoveElement
    <2> QED
      BY <1>3, <2>2 DEF Finish, CountExact
  <1>4. CASE PoolStep(w) /\ ~CountUp(w) /\ ~Finish(w)
    <2>1. UNCHANGED mThreadRunningCount
      BY <1>4 DEF PoolStep, WaitSignal, WaitClose, WaitFailed, FetchNothing, Fetch, Requeue,
           CancelBegin, CancelPop, CancelKeep, CancelReadCount, CancelDrop,
           CancelUseReleased, CancelEnd, poolVars, queueVars
    <2>2. \/ UNCHANGED pc
          \/ \E b \in PC : /\ pc' = [pc EXCEPT ![w] = b]
                           /\ pc[w] \in Counted <=> b \in Counted
      BY <1>4 DEF PoolStep, WaitSignal, WaitClose, WaitFailed, FetchNothing, Fetch, Requeue,
           CancelBegin, CancelPop, CancelKeep, CancelReadCount, CancelDrop,
           CancelUseReleased, CancelEnd, CancelNext, Goto, workVars, PC, Counted, HasWork
    <2> QED
      BY <2>1, <2>2, CountKept DEF CountExact, CountedWorkers
  <1> QED
    BY <1>1, <1>2, <1>3, <1>4 DEF Worker, WorkerStep

(* What a step of worker w may do to the rotation without disturbing it.   *)
LEMMA WorkerRotates ==
  ASSUME TypeOK, WorkShape, RotationSafe, NEW w \in Workers, Worker(w), TypeOK'
  PROVE  RotationSafe'
  <1>0. /\ pc \in [Workers -> PC] /\ remaining \in Nat /\ remaining' \in Nat
        /\ mClientWorks \in Seq(Work) /\ mClientWorks' \in Seq(Work)
        /\ Len(mClientWorks) \in Nat /\ Len(mClientWorks') \in Nat
    BY DEF TypeOK, WorkTypeOK, PoolTypeOK
  <1> DEFINE InRotation(v) == pc[v] \in {"rotate", "inspect", "store"}
  <1>1. ASSUME NEW b, pc' = [pc EXCEPT ![w] = b], b \notin {"rotate", "inspect", "store"},
               \/ UNCHANGED <<remaining, mClientWorks>>
               \/ \A v \in Workers : ~InRotation(v)
        PROVE  RotationSafe'
    BY <1>0, <1>1 DEF RotationSafe
  <1>2. CASE RunStep(w) /\ UNCHANGED poolVars
    <2>1. UNCHANGED <<remaining, mClientWorks>>
      BY <1>2 DEF poolVars, queueVars, cancelVars
    <2>2. PICK b \in Within : pc' = [pc EXCEPT ![w] = b]
      BY <1>2, RunMoves
    <2> QED
      BY <1>1, <2>1, <2>2 DEF Within
  <1>3. CASE WaitSignal(w) \/ WaitClose(w) \/ WaitFailed(w)
    <2>1. UNCHANGED <<remaining, mClientWorks>>
      BY <1>3 DEF WaitSignal, WaitClose, WaitFailed, poolVars, queueVars, cancelVars
    <2>2. UNCHANGED pc \/ pc' = [pc EXCEPT ![w] = "fetch"] \/ pc' = [pc EXCEPT ![w] = "ended"]
      BY <1>3 DEF WaitSignal, WaitClose, WaitFailed, Goto, workVars
    <2> QED
      BY <1>0, <1>1, <2>1, <2>2 DEF RotationSafe
  <1>4. CASE FetchNothing(w) \/ Fetch(w) \/ CountUp(w) \/ Requeue(w) \/ Finish(w)
    <2>1. \A v \in Workers : ~InRotation(v)
      BY <1>4 DEF FetchNothing, Fetch, CountUp, Requeue, Finish, LockFree, Rotating
    <2>2. \E b \in {"wait", "count", "run", "finish"} : pc' = [pc EXCEPT ![w] = b]
      BY <1>4 DEF FetchNothing, Fetch, CountUp, Requeue, Finish, Goto
    <2> QED
      BY <1>1, <2>1, <2>2
  <1>5. CASE CancelBegin(w)
    <2>1. \A v \in Workers : ~InRotation(v)
      BY <1>5 DEF CancelBegin, LockFree, Rotating
    <2>2. /\ pc' = [pc EXCEPT ![w] = "rotate"]
          /\ remaining' = Len(mClientWorks) /\ mClientWorks' = mClientWorks
      BY <1>5 DEF CancelBegin, Goto, queueVars
    <2> QED
      BY <1>0, <2>1, <2>2 DEF RotationSafe
  <1>6. CASE CancelPop(w)
    <2>1. /\ pc[w] = "rotate" /\ pc' = [pc EXCEPT ![w] = "inspect"]
          /\ remaining > 0 /\ UNCHANGED remaining
          /\ mClientWorks' = Tail(mClientWorks)
      BY <1>6 DEF CancelPop, Goto
    <2>2. Len(mClientWorks) >= 1
      BY <1>0, <2>1 DEF RotationSafe
    <2>3. Len(mClientWorks') = Len(mClientWorks) - 1
      BY <1>0, <2>1, <2>2, HeadAndTail
    <2> QED
      BY <1>0, <2>1, <2>3 DEF RotationSafe
  <1>7. CASE CancelKeep(w) \/ CancelDrop(w)
    <2>1. /\ pc[w] \in {"inspect", "store"} /\ pc' = [pc EXCEPT ![w] = "rotate"]
          /\ remaining' = remaining - 1
      BY <1>7 DEF CancelKeep, CancelDrop, CancelNext, Goto
    <2>2. Len(mClientWorks') >= Len(mClientWorks)
      <3>1. mClientWorks' = Append(mClientWorks, held) \/ mClientWorks' = mClientWorks
        BY <1>7 DEF CancelKeep, CancelDrop, QueueWork, queueVars
      <3> QED
        BY <1>0, <3>1
    <2> QED
      BY <1>0, <2>1, <2>2 DEF RotationSafe
  <1>10. CASE CancelReadCount(w)
    <2>1. /\ pc[w] = "inspect" /\ pc' = [pc EXCEPT ![w] = "store"]
          /\ UNCHANGED <<remaining, mClientWorks>>
      BY <1>10 DEF CancelReadCount, Goto, queueVars
    <2> QED
      BY <1>0, <2>1 DEF RotationSafe
  <1>8. CASE CancelUseReleased(w)
    BY <1>8 DEF CancelUseReleased, workVars, poolVars, queueVars, cancelVars, RotationSafe
  <1>9. CASE CancelEnd(w)
    <2>1. pc' = [pc EXCEPT ![w] = "finish"] /\ UNCHANGED <<remaining, mClientWorks>>
      BY <1>9 DEF CancelEnd, Goto, poolVars, queueVars, cancelVars
    <2> QED
      BY <1>0, <2>1 DEF RotationSafe
  <1> QED
    BY <1>2, <1>3, <1>4, <1>5, <1>6, <1>7, <1>8, <1>9, <1>10
       DEF Worker, WorkerStep, PoolStep

-----------------------------------------------------------------------------
(* processingCount                                                         *)

(* Only w moves, and it does not begin or end a READ.                      *)
LEMMA ReadersKept ==
  ASSUME NEW w \in Workers, NEW s \in Sessions,
         \A v \in Workers \ {w} : pc'[v] = pc[v] /\ work'[v] = work[v],
         \/ pc[w] \in Reading /\ pc'[w] \in Reading /\ work'[w] = work[w]
         \/ pc[w] \notin Reading /\ pc'[w] \notin Reading
  PROVE  RunningReads(s)' = RunningReads(s)
  BY DEF RunningReads, Reading

(* ClientWork::Run changes processingCount with the READs that run: the    *)
(* two go up together in ReadBegin and down in ReadEnd.  The count of a    *)
(* deleted session is gone.                                                *)
LEMMA RunDrift ==
  ASSUME TypeOK, WorkShape, NEW w \in Workers, RunStep(w), NEW s \in Sessions
  PROVE  \/ Drift(s)' = Drift(s)
         \/ /\ CloseConnection(w) /\ s = Session(w)
            /\ processingCount'[s] = 0 /\ RunningReads(s)' = RunningReads(s)
  <1>0. /\ pc \in [Workers -> PC] /\ processingCount \in [Sessions -> Int]
        /\ work \in [Workers -> Work \union {NoWork}]
    BY DEF TypeOK, WorkTypeOK, SessionTypeOK
  <1>a. UNCHANGED work /\ \E b \in PC : pc' = [pc EXCEPT ![w] = b]
    BY RunMoves DEF Within, PC
  <1>b. \A v \in Workers \ {w} : pc'[v] = pc[v] /\ work'[v] = work[v]
    BY <1>0, <1>a
  <1>c. Cardinality(RunningReads(s)) \in Nat /\ IsFiniteSet(RunningReads(s))
    BY ReadersFinite
  <1>1. CASE ReadBegin(w)
    <2>1. /\ pc[w] = "run" /\ pc' = [pc EXCEPT ![w] = "receive"]
          /\ work[w] = ReadWork(Session(w)) /\ Session(w) \in Sessions
      BY <1>0, <1>1 DEF ReadBegin, Goto, WorkShape, HasWork, Work, ReadWork, Session
    <2>2. processingCount' = [processingCount EXCEPT ![Session(w)] = @ + 1]
      BY <1>1 DEF ReadBegin
    <2>3. CASE s = Session(w)
      <3>1. RunningReads(s)' = RunningReads(s) \union {w} /\ w \notin RunningReads(s)
        BY <1>0, <1>a, <2>1, <2>3 DEF RunningReads
      <3>2. Cardinality(RunningReads(s)') = Cardinality(RunningReads(s)) + 1
        BY <1>c, <3>1, FS_AddElement
      <3> QED
        BY <1>0, <1>c, <2>2, <2>3, <3>2 DEF Drift
    <2>4. CASE s # Session(w)
      <3>1. work[w] # ReadWork(s)
        BY <2>1, <2>4 DEF ReadWork
      <3>2. RunningReads(s)' = RunningReads(s)
        BY <1>0, <1>a, <2>1, <3>1 DEF RunningReads
      <3> QED
        BY <1>0, <2>2, <2>4, <3>2 DEF Drift
    <2> QED
      BY <2>3, <2>4
  <1>2. CASE ReadEnd(w)
    <2>1. /\ pc[w] = "leave" /\ pc'[w] \notin Reading
          /\ work[w] = ReadWork(Session(w)) /\ Session(w) \in Sessions
      <3>1. pc[w] = "leave" /\ pc'[w] \in {"cancel", "finish"}
        BY <1>0, <1>2 DEF ReadEnd, Goto
      <3>2. work[w] \in Work /\ work[w].type = "SESSION_READ"
        BY <3>1 DEF WorkShape, HasWork, Reading, Cancelling
      <3> QED
        BY <3>1, <3>2 DEF Reading, Work, ReadWork, Session
    <2>2. processingCount' = [processingCount EXCEPT ![Session(w)] = @ - 1]
      BY <1>2 DEF ReadEnd
    <2>3. CASE s = Session(w)
      <3>1. RunningReads(s)' = RunningReads(s) \ {w} /\ w \in RunningReads(s)
        BY <1>0, <1>a, <1>b, <2>1, <2>3 DEF RunningReads, Reading
      <3>2. Cardinality(RunningReads(s)') = Cardinality(RunningReads(s)) - 1
        BY <1>c, <3>1, FS_RemoveElement
      <3> QED
        BY <1>0, <1>c, <2>2, <2>3, <3>2 DEF Drift
    <2>4. CASE s # Session(w)
      <3>1. work[w] # ReadWork(s)
        BY <2>1, <2>4 DEF ReadWork
      <3>2. RunningReads(s)' = RunningReads(s)
        BY <1>0, <1>a, <1>b, <2>1, <3>1 DEF RunningReads
      <3> QED
        BY <1>0, <2>2, <2>4, <3>2 DEF Drift
    <2> QED
      BY <2>3, <2>4
  <1>3. CASE RunStep(w) /\ ~ReadBegin(w) /\ ~ReadEnd(w) /\ ~CloseConnection(w)
    <2>1. UNCHANGED processingCount
      BY <1>3 DEF RunStep, ReceiveNothing, ReceiveWouldBlock, Receive, Respond, WriteNothing,
           CloseBegin, UseReleased, sessionVars
    <2>2. \/ pc[w] \in {"receive", "respond"} /\ pc'[w] \in Reading
          \/ UNCHANGED pc
          \/ pc[w] = "run" /\ pc'[w] \in {"requeue", "release"}
      BY <1>0, <1>3 DEF RunStep, ReceiveNothing, ReceiveWouldBlock, Receive, Respond,
           WriteNothing, CloseBegin, UseReleased, Goto, Reading, workVars
    <2>3. RunningReads(s)' = RunningReads(s)
      BY <1>a, <1>b, <2>2, ReadersKept DEF Reading
    <2> QED
      BY <2>1, <2>3 DEF Drift
  <1>4. CASE CloseConnection(w)
    <2>1. pc[w] \notin Reading /\ pc'[w] \notin Reading
      BY <1>0, <1>4 DEF CloseConnection, Goto, Reading
    <2>2. RunningReads(s)' = RunningReads(s)
      BY <1>b, <2>1, ReadersKept
    <2>3. processingCount' = [processingCount EXCEPT ![Session(w)] = 0]
      BY <1>4 DEF CloseConnection, ReleaseSession
    <2> QED
      BY <1>0, <1>4, <2>2, <2>3 DEF Drift
  <1> QED
    BY <1>1, <1>2, <1>3, <1>4

(* ClientWork::Run keeps processingCount at most the number of running     *)
(* READs.                                                                  *)
LEMMA RunBusy ==
  ASSUME TypeOK, WorkShape, BusyIsReal, NEW w \in Workers, RunStep(w)
  PROVE  BusyIsReal'
  <1>1. ASSUME NEW s \in Sessions
        PROVE  Drift(s)' <= 0
    <2>1. Cardinality(RunningReads(s)) \in Nat
      BY ReadersFinite
    <2>2. Drift(s) <= 0
      BY DEF BusyIsReal
    <2> QED
      BY <2>1, <2>2, RunDrift DEF Drift
  <1> QED
    BY <1>1 DEF BusyIsReal

(* The pool's loop neither begins nor ends a READ, and cancelWorks changes *)
(* only the count of the session whose READ it drops: to one less than it  *)
(* has read.                                                               *)
LEMMA PoolDrift ==
  ASSUME TypeOK, WorkShape, NEW w \in Workers, PoolStep(w), NEW s \in Sessions
  PROVE  /\ Drift(s) \in Int
         /\ RunningReads(s)' = RunningReads(s)
         /\ ~(CancelDrop(w) /\ s = held.session) => Drift(s)' = Drift(s)
         /\ CancelDrop(w) /\ s = held.session =>
              Drift(s)' = seen - 1 - Cardinality(RunningReads(s))
  <1>0. /\ pc \in [Workers -> PC] /\ processingCount \in [Sessions -> Int]
        /\ work \in [Workers -> Work \union {NoWork}]
    BY DEF TypeOK, WorkTypeOK, SessionTypeOK
  <1>1. /\ UNCHANGED pc \/ \E b : pc' = [pc EXCEPT ![w] = b]
        /\ UNCHANGED work \/ \E x : work' = [work EXCEPT ![w] = x]
    BY DEF PoolStep, WaitSignal, WaitClose, WaitFailed, FetchNothing, Fetch, CountUp, Requeue,
         Finish, CancelBegin, CancelPop, CancelKeep, CancelReadCount, CancelDrop,
         CancelUseReleased, CancelEnd, CancelNext, Goto, workVars
  <1>2. \A v \in Workers \ {w} : pc'[v] = pc[v] /\ work'[v] = work[v]
    BY <1>0, <1>1
  <1>3. pc[w] \notin Reading /\ pc'[w] \notin Reading
    <2>1. pc[w] \in {"wait", "fetch", "count", "requeue", "finish", "cancel", "rotate",
                   "inspect", "store"}
      BY <1>0
         DEF PoolStep, WaitSignal, WaitClose, WaitFailed, FetchNothing, Fetch, CountUp,
             Requeue, Finish, CancelBegin, CancelPop, CancelKeep, CancelReadCount,
             CancelDrop, CancelUseReleased, CancelReadsReleased, CancelEnd, CancelNext,
             Goto
    <2>2. \/ UNCHANGED pc
          \/ \E b \in {"wait", "fetch", "count", "run", "finish", "ended", "rotate",
                      "inspect", "store"} : pc' = [pc EXCEPT ![w] = b]
      BY DEF PoolStep, WaitSignal, WaitClose, WaitFailed, FetchNothing, Fetch, CountUp,
             Requeue, Finish, CancelBegin, CancelPop, CancelKeep, CancelReadCount,
             CancelDrop, CancelUseReleased, CancelEnd, CancelNext, Goto, workVars
    <2> QED
      BY <1>0, <2>1, <2>2 DEF Reading
  <1>4. RunningReads(s)' = RunningReads(s) /\ Cardinality(RunningReads(s)) \in Nat
    BY <1>2, <1>3, ReadersKept, ReadersFinite
  <1>5. CASE CancelDrop(w)
    <2>1. processingCount' = [processingCount EXCEPT ![held.session] = seen - 1]
      BY <1>5 DEF CancelDrop
    <2>2. processingCount'[s] = IF s = held.session THEN seen - 1 ELSE processingCount[s]
      BY <1>0, <2>1
    <2> QED
      BY <1>0, <1>4, <1>5, <2>2 DEF Drift
  <1>6. CASE ~CancelDrop(w)
    <2>1. UNCHANGED processingCount
      BY <1>6 DEF PoolStep, WaitSignal, WaitClose, WaitFailed, FetchNothing, Fetch, CountUp,
         Requeue, Finish, CancelBegin, CancelPop, CancelKeep, CancelReadCount,
         CancelUseReleased, CancelEnd, sessionVars
    <2> QED
      BY <1>0, <1>4, <1>6, <2>1 DEF Drift
  <1> QED
    BY <1>5, <1>6

(* So BusyIsReal survives the pool's loop as well: the count that is       *)
(* stored is below zero, or zero.                                          *)
LEMMA PoolBusy ==
  ASSUME TypeOK, WorkShape, BusyIsReal, SeenShape, NEW w \in Workers, PoolStep(w)
  PROVE  BusyIsReal'
  <1>1. ASSUME NEW s \in Sessions
        PROVE  Drift(s)' <= 0
    <2>1. CASE ~(CancelDrop(w) /\ s = held.session)
      BY <2>1, PoolDrift DEF BusyIsReal
    <2>2. CASE CancelDrop(w) /\ s = held.session
      <3>1. seen <= 1 /\ seen \in Int
        BY <2>2 DEF SeenShape, CancelDrop, CancelNext, Goto, TypeOK, PoolTypeOK
      <3>2. Cardinality(RunningReads(s)) \in Nat
        BY ReadersFinite
      <3> QED
        BY <2>2, <3>1, <3>2, PoolDrift
    <2> QED
      BY <2>1, <2>2
  <1> QED
    BY <1>1 DEF BusyIsReal

(* At most one worker runs a READ while another one cancels.               *)
LEMMA OneOtherReader ==
  ASSUME NEW w \in Workers, pc[w] \notin Reading, NEW s \in Sessions
  PROVE  Cardinality(RunningReads(s)) <= 1
  <1>1. RunningReads(s) \subseteq Workers \ {w}
    BY DEF RunningReads, Reading
  <1>2. /\ IsFiniteSet(Workers \ {w})
        /\ Cardinality(Workers \ {w}) = Cardinality(Workers) - 1
    BY WorkersAssumption, FS_RemoveElement
  <1>3. Cardinality(RunningReads(s)) <= Cardinality(Workers \ {w})
    BY <1>1, <1>2, FS_Subset
  <1>4. Cardinality(Workers) \in Nat /\ Cardinality(Workers) <= 2
    BY WorkersAssumption DEF THREAD_EVENT_COUNT
  <1> QED
    BY <1>2, <1>3, <1>4, ReadersFinite

(* The count cancelWorks reads is at most one, whichever thread moves.     *)
LEMMA WorkerSees ==
  ASSUME TypeOK, WorkShape, RotationSafe, BusyIsReal, SeenShape,
         NEW w \in Workers, Worker(w)
  PROVE  SeenShape'
  <1>0. pc \in [Workers -> PC]
    BY DEF TypeOK, WorkTypeOK
  <1>1. CASE CancelReadCount(w)
    <2>1. /\ pc[w] = "inspect" /\ held.session \in Sessions
          /\ seen' = processingCount[held.session]
      BY <1>1, WorkFields DEF CancelReadCount, Goto, WorkShape
    <2>2. Cardinality(RunningReads(held.session)) <= 1
      BY <2>1, OneOtherReader DEF Reading
    <2>3. /\ processingCount[held.session] \in Int
          /\ processingCount[held.session] - Cardinality(RunningReads(held.session)) <= 0
      BY <2>1 DEF BusyIsReal, Drift, TypeOK, SessionTypeOK
    <2> QED
      BY <2>1, <2>2, <2>3, ReadersFinite DEF SeenShape
  <1>2. CASE CancelDrop(w)
    BY <1>2 DEF CancelDrop, SeenShape
  <1>3. CASE ~CancelReadCount(w) /\ ~CancelDrop(w)
    <2>1. UNCHANGED seen
      BY <1>3 DEF Worker, WorkerStep, PoolStep, WaitSignal, WaitClose, WaitFailed,
         FetchNothing, Fetch, CountUp, Requeue, Finish, CancelBegin, CancelPop, CancelKeep,
         CancelUseReleased, CancelEnd, poolVars, cancelVars
    <2>2. \/ UNCHANGED pc
          \/ \E b \in PC \ {"store"} : pc' = [pc EXCEPT ![w] = b]
      <3>1. CASE RunStep(w)
        <4>1. Within \subseteq PC \ {"store"}
          BY DEF Within, PC
        <4> QED
          BY <3>1, <4>1, RunMoves
      <3>2. CASE PoolStep(w)
        BY <1>3, <3>2 DEF PoolStep, WaitSignal, WaitClose, WaitFailed, FetchNothing,
           Fetch, CountUp, Requeue, Finish, CancelBegin, CancelPop, CancelKeep, CancelNext,
           CancelUseReleased, CancelEnd, Goto, workVars, PC
      <3> QED
        BY <3>1, <3>2 DEF Worker, WorkerStep
    <2> QED
      BY <1>0, <2>1, <2>2 DEF SeenShape
  <1> QED
    BY <1>1, <1>2, <1>3

-----------------------------------------------------------------------------
(* The inductive invariant, and what it implies.                           *)

(* The server starts in the invariant.                                     *)
LEMMA Initially == Init => IInv
  <1> SUFFICES ASSUME Init PROVE IInv
    OBVIOUS
  <1>1. TypeOK
    <2>1. NetTypeOK
      BY MaxSendsAssumption DEF Init, NetInit, NetTypeOK, LinkState, NetEvent
    <2>2. SessionTypeOK
      BY DEF Init, SessionInit, SessionTypeOK
    <2>3. WorkTypeOK
      BY DEF Init, WorkInit, WorkTypeOK, PC, ErrorCode
    <2>4. PoolTypeOK
      <3>1. closeSlot \in {"invalid", "event", "other"}
        BY DEF Init, PoolInit, CloseSlots
      <3>2. closeSignalled \in BOOLEAN
        BY DEF Init, PoolInit
      <3>3. mClientWorks \in Seq(Work)
        BY DEF Init, PoolInit
      <3>4. /\ signalled \in BOOLEAN /\ handlesOpen \in BOOLEAN
            /\ mThreadRunningCount \in Nat /\ remaining \in Nat
            /\ held \in Work \union {NoWork}
        BY DEF Init, PoolInit
      <3>5. seen \in Int
        BY DEF Init, PoolInit
      <3> QED
        BY <3>1, <3>2, <3>3, <3>4, <3>5 DEF PoolTypeOK
    <2>5. ServerTypeOK
      <3>1. main \in MainState
        BY DEF Init, ServerInit, MainState, MainPC
      <3> QED
        <4>1. mClientSessions \in Seq(Sessions \union {Listener})
          BY DEF Init, ServerInit
        <4>2. mbIsQuitButtonPressed \in BOOLEAN /\ overtaken \in SUBSET Sessions
          BY DEF Init, ServerInit
        <4> QED
          BY <3>1, <4>1, <4>2 DEF ServerTypeOK
    <2> QED
      BY <2>1, <2>2, <2>3, <2>4, <2>5 DEF TypeOK
  <1>2. WorkShape
    BY DEF Init, WorkInit, WorkShape, HasWork, Reading, Cancelling
  <1>3. CountExact
    <2>1. CountedWorkers = {}
      BY DEF Init, WorkInit, CountedWorkers, Counted, HasWork
    <2> QED
      BY <2>1, FS_EmptySet DEF Init, PoolInit, CountExact
  <1>4. RotationSafe /\ SeenShape
    BY DEF Init, WorkInit, RotationSafe, SeenShape
  <1>5. BusyIsReal
    <2>1. \A s \in Sessions : RunningReads(s) = {}
      BY DEF Init, WorkInit, RunningReads
    <2>2. \A s \in Sessions : Cardinality(RunningReads(s)) = 0
      BY <2>1, FS_EmptySet
    <2>3. \A s \in Sessions : processingCount[s] = 0
      BY DEF Init, SessionInit
    <2>4. ASSUME NEW s \in Sessions
          PROVE  Drift(s) <= 0
      <3>1. Cardinality(RunningReads(s)) = 0 /\ processingCount[s] = 0
        BY <2>2, <2>3
      <3> QED
        BY <3>1 DEF Drift
    <2> QED
      BY <2>4 DEF BusyIsReal
  <1>6. ListShape
    BY DEF Init, ServerInit, ListShape
  <1>7. MainShape
    <2>1. LastChunk \in Nat
      BY <1>1, ListFacts DEF TypeOK
    <2> QED
      BY <2>1 DEF Init, ServerInit, MainShape
  <1> QED
    BY <1>1, <1>2, <1>3, <1>4, <1>5, <1>6, <1>7 DEF IInv

(* Every step of every thread, and of the clients, keeps the invariant.    *)
LEMMA Inductive == IInv /\ [Next]_vars => IInv'
  <1> SUFFICES ASSUME IInv, [Next]_vars PROVE IInv'
    OBVIOUS
  <1> USE DEF IInv
  <1>1. CASE MainStep
    <2>1. TypeOK' /\ ListShape' /\ MainShape'
      BY <1>1, MainTyping
    <2>2. Len(mClientWorks') \in Nat
      BY <2>1 DEF TypeOK, PoolTypeOK
    <2> QED
      BY <1>1, <2>1, <2>2, MainLeavesWorkers, WorkersUntouched
  <1>2. ASSUME NEW w \in Workers, Worker(w)
        PROVE  IInv'
    <2>1. TypeOK' /\ WorkShape'
      BY <1>2, RunTyping, PoolTyping DEF Worker, WorkerStep
    <2>2. CountExact' /\ RotationSafe'
      BY <1>2, <2>1, WorkerCounts, WorkerRotates
    <2>3. BusyIsReal'
      BY <1>2, <2>1, RunBusy, PoolBusy DEF Worker, WorkerStep
    <2>5. SeenShape'
      BY <1>2, WorkerSees
    <2>4. ListShape' /\ MainShape'
      BY <1>2 DEF Worker, serverVars, ListShape, MainShape, ClientIndex, LastChunk
    <2> QED
      BY <2>1, <2>2, <2>3, <2>4, <2>5
  <1>3. CASE \/ \E s \in Sessions : Client(s) \/ Clock(s)
             \/ PressQuit
             \/ UNCHANGED vars
    <2>1. /\ TypeOK'
          /\ UNCHANGED <<workVars, poolVars, processingCount, mClientSessions, main>>
      BY <1>3, OutsideTyping
    <2>2. /\ UNCHANGED <<cancelVars, mThreadRunningCount, mClientWorks>>
          /\ Len(mClientWorks) \in Nat
      BY <2>1 DEF poolVars, queueVars, TypeOK, PoolTypeOK
    <2>3. WorkShape' /\ CountExact' /\ RotationSafe' /\ BusyIsReal' /\ SeenShape'
      BY <2>1, <2>2, WorkersUntouched
    <2>4. ListShape' /\ MainShape'
      BY <2>1 DEF ListShape, MainShape, ClientIndex, LastChunk
    <2> QED
      BY <2>1, <2>3, <2>4
  <1> QED
    BY <1>1, <1>2, <1>3 DEF Next, Running, Halted

(* Every reachable state satisfies the inductive invariant.                *)
THEOREM Invariant == Spec => []IInv
  BY Initially, Inductive, PTL DEF Spec

(* The variables keep their types: in particular mThreadRunningCount never *)
(* goes below zero, and no queued or held pointer is garbage.              *)
THEOREM TypeCorrect == Spec => []TypeOK
  <1>1. IInv => TypeOK
    BY DEF IInv
  <1> QED
    BY <1>1, Invariant, PTL

(* Wherever the main thread uses an index of its list, the entry is there, *)
(* whatever was accepted, erased or released since the index was found;    *)
(* and it closes and erases only sessions of clients.                      *)
THEOREM IndexIsInside == Spec => []IndicesInside
  <1>1. IInv => IndicesInside
    <2> SUFFICES ASSUME IInv PROVE IndicesInside
      OBVIOUS
    <2>0. /\ mClientSessions \in Seq(Sessions \union {Listener})
          /\ main.chunk \in Nat /\ main.chunk <= LastChunk
          /\ ListShape /\ MainShape
      BY ListFacts DEF IInv, TypeOK, ServerTypeOK, MainShape
    <2>1. DOMAIN mClientSessions = 1 .. Len(mClientSessions)
      BY <2>0
    <2>2. Indices \subseteq DOMAIN mClientSessions
      BY <2>0, <2>1, ChunkInsideList
    <2>3. main.at \in {"signalclose", "erase", "destroyrelease"} =>
            main.index \in DOMAIN mClientSessions /\ Current # Listener
      <3>1. ClientIndex => Current \in Sessions /\ main.index \in DOMAIN mClientSessions
        BY <2>0, <2>1, CurrentIsSession DEF ClientIndex
      <3> QED
        BY <2>0, <3>1, ListenerAssumption DEF MainShape
    <2> QED
      BY <2>0, <2>1, <2>2, <2>3 DEF IndicesInside, MainShape
  <1> QED
    BY <1>1, Invariant, PTL

(* cancelWorks never finds the queue empty, and no two workers rotate it   *)
(* at a time, whatever the main thread queues meanwhile.                   *)
THEOREM RotationIsSafe == Spec => []RotationSafe
  <1>1. IInv => RotationSafe
    BY DEF IInv
  <1> QED
    BY <1>1, Invariant, PTL

(* processingCount never exceeds the number of READs that are running for  *)
(* the session, so ERROR_CLOSE_BEFORE_WORK_DONE is never a false alarm.    *)
THEOREM BusyIsAlwaysReal == Spec => []BusyIsReal
  <1>1. IInv => BusyIsReal
    BY DEF IInv
  <1> QED
    BY <1>1, Invariant, PTL
=============================================================================
