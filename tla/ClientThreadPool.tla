-------------------------- MODULE ClientThreadPool --------------------------
(***************************************************************************)
(* The pool: the queue of works (ThreadSafeQueue), the two events the      *)
(* workers wait on, and ClientThreadPool::Run.  Each operation of the      *)
(* queue takes the queue's own lock and is one step.  The pool's lock      *)
(* (mSRWLock) is taken by the workers only; it is held across several      *)
(* queue operations in cancelWorks, which therefore interleaves with the   *)
(* main thread's QueueWork.                                                *)
(***************************************************************************)
EXTENDS ClientWork, Sequences, FiniteSets

THREAD_EVENT_COUNT == 2

(* Init creates one event per thread, in an array of THREAD_EVENT_COUNT:   *)
(* with more threads than that it would write past the array.              *)
ASSUME WorkersAssumption ==
  /\ IsFiniteSet(Workers)
  /\ Cardinality(Workers) \in 1 .. THREAD_EVENT_COUNT

VARIABLES
  mClientWorks,         \* the queue, head first
  signalled,            \* mEventHandles[THREAD_SIGNAL], an auto-reset event
  closeSlot,            \* what mEventHandles[THREAD_CLOSE] holds
  closeSignalled,       \* whether that object is signalled
  handlesOpen,          \* ~ClientThreadPool has not closed the handles yet
  mThreadRunningCount,
  remaining,            \* cancelWorks: queued works still to be looked at
  held,                 \* cancelWorks: the work just popped
  seen                  \* cancelWorks: the processingCount it has just read

queueVars  == <<mClientWorks, signalled>>
endVars    == <<closeSlot, closeSignalled, handlesOpen>>
cancelVars == <<remaining, held, seen>>
poolVars   == <<queueVars, endVars, mThreadRunningCount, cancelVars>>

(* With THREAD_COUNT = 1, Init creates the first event only, and the slot  *)
(* of THREAD_CLOSE keeps what the heap had there: no valid handle, the     *)
(* handle of some event, or that of an object that is never signalled.     *)
CloseSlots == IF Cardinality(Workers) < THREAD_EVENT_COUNT
              THEN {"invalid", "event", "other"}
              ELSE {"event"}

PoolTypeOK ==
  /\ mClientWorks \in Seq(Work)
  /\ signalled \in BOOLEAN
  /\ closeSlot \in {"invalid", "event", "other"}
  /\ closeSignalled \in BOOLEAN
  /\ handlesOpen \in BOOLEAN
  /\ mThreadRunningCount \in Nat
  /\ remaining \in Nat
  /\ held \in Work \union {NoWork}
  /\ seen \in Int

PoolInit ==
  /\ mClientWorks = <<>>
  /\ signalled = FALSE
  /\ closeSlot \in CloseSlots
  /\ closeSignalled \in
       IF closeSlot = "event" /\ Cardinality(Workers) < THREAD_EVENT_COUNT
       THEN BOOLEAN ELSE {FALSE}
  /\ handlesOpen = TRUE
  /\ mThreadRunningCount = 0
  /\ remaining = 0
  /\ held = NoWork
  /\ seen = 0

(* cancelWorks is running: its worker is the one that holds the pool lock. *)
Rotating == \E w \in Workers : pc[w] \in {"rotate", "inspect", "store"}
LockFree == ~Rotating

-----------------------------------------------------------------------------
(* The operations other threads call. *)

QueueWork(x) == mClientWorks' = Append(mClientWorks, x)

SignalWork == signalled' = TRUE

(* SetEvent(THREAD_CLOSE), once per thread, on the same auto-reset event.  *)
SignalClose == closeSignalled' = (closeSignalled \/ closeSlot = "event")

IsWorkQueueEmpty == mClientWorks = <<>>

IsThreadsRunning == mThreadRunningCount > 0

-----------------------------------------------------------------------------
(* ClientThreadPool::Run *)

(* WaitForMultipleObjects returns THREAD_SIGNAL and resets the event.  A   *)
(* worker that was waiting when the event was set leaves the wait even if  *)
(* the handles are closed before it runs.                                  *)
WaitSignal(w) ==
  /\ closeSlot # "invalid"
  /\ signalled
  /\ Goto(w, "wait", "fetch")
  /\ signalled' = FALSE
  /\ UNCHANGED <<work, errorCode, netVars, sessionVars, process, mClientWorks,
                 endVars, mThreadRunningCount, cancelVars>>

(* ... or THREAD_CLOSE, the lower index first. *)
WaitClose(w) ==
  /\ closeSlot # "invalid"
  /\ ~signalled
  /\ closeSignalled
  /\ Goto(w, "wait", "ended")
  /\ closeSignalled' = FALSE
  /\ UNCHANGED <<work, errorCode, netVars, sessionVars, process, queueVars,
                 closeSlot, handlesOpen, mThreadRunningCount, cancelVars>>

(* ... or WAIT_FAILED, which no case handles: the loop turns again.        *)
WaitFailed(w) ==
  /\ closeSlot = "invalid" \/ ~handlesOpen
  /\ pc[w] = "wait"
  /\ UNCHANGED <<workVars, netVars, sessionVars, process, poolVars>>

(* GetClientWork; a null work sends the worker back to its wait.           *)
FetchNothing(w) ==
  /\ LockFree
  /\ IsWorkQueueEmpty
  /\ Goto(w, "fetch", "wait")
  /\ UNCHANGED <<work, errorCode, netVars, sessionVars, process, poolVars>>

(* Mutant: the work is taken without the pool's lock. *)
FetchUnlocked(w) ==
  /\ ~IsWorkQueueEmpty
  /\ Goto(w, "fetch", "count")
  /\ work' = [work EXCEPT ![w] = Head(mClientWorks)]
  /\ mClientWorks' = Tail(mClientWorks)
  /\ UNCHANGED <<errorCode, netVars, sessionVars, process, signalled, endVars,
                 mThreadRunningCount, cancelVars>>

Fetch(w) ==
  /\ LockFree
  /\ ~IsWorkQueueEmpty
  /\ Goto(w, "fetch", "count")
  /\ work' = [work EXCEPT ![w] = Head(mClientWorks)]
  /\ mClientWorks' = Tail(mClientWorks)
  /\ UNCHANGED <<errorCode, netVars, sessionVars, process, signalled, endVars,
                 mThreadRunningCount, cancelVars>>

(* Mutant: the worker does not count itself. *)
CountUpForgotten(w) ==
  /\ LockFree
  /\ Goto(w, "count", "run")
  /\ UNCHANGED <<work, errorCode, netVars, sessionVars, process, poolVars>>

CountUp(w) ==
  /\ LockFree
  /\ Goto(w, "count", "run")
  /\ mThreadRunningCount' = mThreadRunningCount + 1
  /\ UNCHANGED <<work, errorCode, netVars, sessionVars, process, queueVars,
                 endVars, cancelVars>>

(* Mutant: the worker goes on with the work it has queued. *)
RequeueAndRetry(w) ==
  /\ LockFree
  /\ Goto(w, "requeue", "run")
  /\ QueueWork(work[w])
  /\ SignalWork
  /\ UNCHANGED <<work, errorCode, netVars, sessionVars, process, endVars,
                 mThreadRunningCount, cancelVars>>

(* ERROR_CLOSE_BEFORE_WORK_DONE: the work goes to the back of the queue.   *)
(* The worker does not use its pointer to it again.                        *)
Requeue(w) ==
  /\ LockFree
  /\ Goto(w, "requeue", "finish")
  /\ QueueWork(work[w])
  /\ SignalWork
  /\ work' = [work EXCEPT ![w] = NoWork]
  /\ UNCHANGED <<errorCode, netVars, sessionVars, process, endVars,
                 mThreadRunningCount, cancelVars>>

(* FinishWork and the last part of the loop. *)
Finish(w) ==
  /\ LockFree
  /\ Goto(w, "finish", "wait")
  /\ work' = [work EXCEPT ![w] = NoWork]
  /\ mThreadRunningCount' = mThreadRunningCount - 1
  /\ UNCHANGED <<errorCode, netVars, sessionVars, process, queueVars, endVars,
                 cancelVars>>

-----------------------------------------------------------------------------
(* ERROR_ZERO_RETURN: cancelWorks takes every queued work in turn and puts *)
(* it back, except the READs of the session that was shut down.            *)

CancelBegin(w) ==
  /\ LockFree
  /\ Goto(w, "cancel", "rotate")
  /\ remaining' = Len(mClientWorks)
  /\ UNCHANGED <<work, errorCode, netVars, sessionVars, process, queueVars,
                 endVars, mThreadRunningCount, held, seen>>

CancelPop(w) ==
  /\ remaining > 0
  /\ Goto(w, "rotate", "inspect")
  /\ held' = Head(mClientWorks)
  /\ mClientWorks' = Tail(mClientWorks)
  /\ UNCHANGED <<work, errorCode, netVars, sessionVars, process, signalled,
                 endVars, mThreadRunningCount, remaining, seen>>

(* The session IDs of a READ and of the running work are compared through  *)
(* their sessions; of a CLOSE only the type is read.  The count of a READ  *)
(* that is dropped is read, and then written.                              *)
HeldIsAny  == held.type \in WorkType   \* mutant: the type is not looked at
HeldIsRead == held.type = "SESSION_READ"
CancelReadsReleased(w) ==
  \/ /\ pc[w] = "inspect" /\ HeldIsRead
     /\ held.session \in released \/ ~Alive(w)
  \/ pc[w] = "store" /\ held.session \in released

CancelNext(w, from) ==
  /\ Goto(w, from, "rotate")
  /\ held' = NoWork
  /\ remaining' = remaining - 1

CancelKeep(w) ==
  /\ CancelNext(w, "inspect")
  /\ ~CancelReadsReleased(w)
  /\ HeldIsRead => held.session # Session(w)
  /\ QueueWork(held)
  /\ UNCHANGED <<work, errorCode, netVars, sessionVars, process, signalled,
                 endVars, mThreadRunningCount, seen>>

(* A queued READ has not been run, so IsThisWorkProcessing() is false; and *)
(* the session's lock is not taken.                                        *)
CancelReadCount(w) ==
  /\ Goto(w, "inspect", "store")
  /\ ~CancelReadsReleased(w)
  /\ HeldIsRead /\ held.session = Session(w)
  /\ seen' = processingCount[held.session]
  /\ UNCHANGED <<work, errorCode, netVars, sessionVars, process, queueVars,
                 endVars, mThreadRunningCount, remaining, held>>

CancelDrop(w) ==
  /\ CancelNext(w, "store")
  /\ ~CancelReadsReleased(w)
  /\ processingCount' = [processingCount EXCEPT ![held.session] = seen - 1]
  /\ seen' = 0
  /\ UNCHANGED <<work, errorCode, netVars, process, bIsSSLConnected, expired,
                 closeNotified, sslFailed, released, queueVars, endVars,
                 mThreadRunningCount>>

CancelUseReleased(w) ==
  /\ CancelReadsReleased(w)
  /\ process' = "crashed"
  /\ UNCHANGED <<workVars, netVars, sessionVars, poolVars>>

CancelEnd(w) ==
  /\ remaining = 0
  /\ Goto(w, "rotate", "finish")
  /\ UNCHANGED <<work, errorCode, netVars, sessionVars, process, poolVars>>

-----------------------------------------------------------------------------
PoolStep(w) ==
  \/ WaitSignal(w) \/ WaitClose(w) \/ WaitFailed(w)
  \/ FetchNothing(w) \/ Fetch(w) \/ CountUp(w)
  \/ Requeue(w) \/ Finish(w)
  \/ CancelBegin(w) \/ CancelPop(w) \/ CancelKeep(w)
  \/ CancelReadCount(w) \/ CancelDrop(w) \/ CancelUseReleased(w) \/ CancelEnd(w)

WorkerStep(w) ==
  \/ PoolStep(w)
  \/ RunStep(w) /\ UNCHANGED poolVars
=============================================================================
