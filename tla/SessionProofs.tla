----------------------------- MODULE SessionProofs ----------------------------
(***************************************************************************)
(* Proofs about the sessions of the server, for any number of them and of  *)
(* bursts, any chunk size, and one or two workers.                         *)
(*                                                                         *)
(* Ownership: OneOwner, NotLost, and the refinement of SessionLifecycle.   *)
(* All three count: works of one kind wherever they are (Copies), and the  *)
(* list's entries for a session (HeldAt).  The first lemmas say what each  *)
(* operation on a queue or a list does to such a count; then each step of  *)
(* the system is summed up by what it does to the counts.                  *)
(*                                                                         *)
(* Data: UnreadAnnounced.  Memory: NoUseAfterFree.  Both with the single   *)
(* worker of the code.                                                     *)
(***************************************************************************)
EXTENDS WebServerProofs

-----------------------------------------------------------------------------
(* Ownership                                                               *)

(* OneOwner and NotLost say nothing of a session before it is accepted;    *)
(* Accept adds an owner, and relies on there being none.                   *)
Ownership ==
  \A s \in Sessions :
    /\ Owners(s) <= 1
    /\ s \in released => Owners(s) = 0
    /\ link[s] \in {"unused", "pending"} =>
         Owners(s) = 0 /\ s \notin released /\ Copies(ReadWork(s)) = 0
    /\ link[s] = "open" /\ ~ShuttingDown => Owners(s) = 1

(* What eraseClientFromList takes off the list has its CLOSE on the way,   *)
(* or is deleted already.                                                  *)
ErasedIsClosed ==
  main.at \in {"signalclose", "erase"} =>
    \A s \in Sessions : s = Current => s \in released \/ Closing(s)

(* A worker that waits has no work, and cancelWorks holds one between its  *)
(* pop and its push only.                                                  *)
EmptyHands ==
  /\ \A w \in Workers : pc[w] \in {"wait", "fetch"} => work[w] = NoWork
  /\ (\A w \in Workers : pc[w] \notin {"inspect", "store"}) => held = NoWork

OInv == IInv /\ EmptyHands /\ Ownership /\ ErasedIsClosed

-----------------------------------------------------------------------------
(* Counting in sequences                                                   *)

Places(q, x) == {i \in DOMAIN q : q[i] = x}

(* The places of a value are finitely many.                                *)
LEMMA PlacesFinite ==
  ASSUME NEW S, NEW q \in Seq(S), NEW P \in SUBSET DOMAIN q
  PROVE  IsFiniteSet(P) /\ Cardinality(P) \in Nat
  <1>1. DOMAIN q = 1 .. Len(q) /\ Len(q) \in Nat
    OBVIOUS
  <1>2. IsFiniteSet(1 .. Len(q))
    BY <1>1, FS_Interval
  <1>3. IsFiniteSet(P)
    BY <1>1, <1>2, FS_Subset
  <1> QED
    BY <1>3, FS_CardinalityType

(* A value that is pushed occurs once more, the others as often as before. *)
LEMMA PushCounts ==
  ASSUME NEW S, NEW q \in Seq(S), NEW y \in S, NEW x
  PROVE  Cardinality(Places(Append(q, y), x)) =
           Cardinality(Places(q, x)) + (IF x = y THEN 1 ELSE 0)
  <1> DEFINE n == Len(q)
  <1>1. n \in Nat /\ Places(q, x) \in SUBSET DOMAIN q /\ n + 1 \notin Places(q, x)
    BY DEF Places
  <1>2. IsFiniteSet(Places(q, x)) /\ Cardinality(Places(q, x)) \in Nat
    BY <1>1, PlacesFinite
  <1>3. Places(Append(q, y), x) = IF x = y THEN Places(q, x) \union {n + 1} ELSE Places(q, x)
    BY DEF Places
  <1>4. Cardinality(Places(q, x) \union {n + 1}) = Cardinality(Places(q, x)) + 1
    BY <1>1, <1>2, FS_AddElement
  <1> QED
    BY <1>2, <1>3, <1>4

(* An entry is taken out, and what is behind it closes up.                 *)
CloseUp(q, k) == [i \in 1 .. Len(q) - 1 |-> IF i < k THEN q[i] ELSE q[i + 1]]

LEMMA CloseUpIsSeq ==
  ASSUME NEW S, NEW q \in Seq(S), NEW k \in 1 .. Len(q)
  PROVE  /\ CloseUp(q, k) \in Seq(S)
         /\ Len(CloseUp(q, k)) = Len(q) - 1
         /\ \A i \in 1 .. Len(q) - 1 : CloseUp(q, k)[i] = IF i < k THEN q[i] ELSE q[i + 1]
  <1>1. Len(q) \in Nat /\ Len(q) - 1 \in Nat /\ \A i \in 1 .. Len(q) : q[i] \in S
    OBVIOUS
  <1>2. CloseUp(q, k) \in [1 .. Len(q) - 1 -> S]
    BY <1>1 DEF CloseUp
  <1>3. CloseUp(q, k) \in Seq(S)
    BY <1>1, <1>2, SeqDef
  <1>4. Len(CloseUp(q, k)) = Len(q) - 1
    BY <1>1, <1>2, <1>3, LenProperties
  <1> QED
    BY <1>3, <1>4 DEF CloseUp

(* A value then occurs as often as it did in the other places.             *)
LEMMA CloseUpCounts ==
  ASSUME NEW S, NEW q \in Seq(S), NEW k \in 1 .. Len(q), NEW x
  PROVE  Cardinality(Places(CloseUp(q, k), x)) = Cardinality(Places(q, x) \ {k})
  <1> DEFINE n == Len(q)
             r == CloseUp(q, k)
             A == Places(r, x)
             B == Places(q, x) \ {k}
             f == [i \in A |-> IF i < k THEN i ELSE i + 1]
  <1>0. /\ n \in Nat /\ k \in 1 .. n
        /\ r \in Seq(S) /\ Len(r) = n - 1
        /\ \A i \in 1 .. n - 1 : r[i] = IF i < k THEN q[i] ELSE q[i + 1]
    BY CloseUpIsSeq
  <1> HIDE DEF r
  <1>a. /\ A = {i \in 1 .. n - 1 : r[i] = x}
        /\ B = {i \in 1 .. n : q[i] = x /\ i # k}
    BY <1>0 DEF Places
  <1> HIDE DEF A, B, n
  <1>1. \A i \in A : f[i] = IF i < k THEN i ELSE i + 1
    OBVIOUS
  <1>2. f \in [A -> B]
    <2>1. \A i \in A : (IF i < k THEN i ELSE i + 1) \in B
      BY <1>0, <1>a
    <2> QED
      BY <2>1
  <1> HIDE DEF f
  <1>3. \A i, j \in A : f[i] = f[j] => i = j
    BY <1>0, <1>a, <1>1
  <1>4. \A b \in B : \E i \in A : f[i] = b
    <2> SUFFICES ASSUME NEW b \in B
                 PROVE  \E i \in A : f[i] = b
      OBVIOUS
    <2>0. b \in Int /\ k \in Int /\ b # k
      BY <1>0, <1>a
    <2>1. CASE b < k
      <3>1. b \in A
        BY <1>0, <1>a, <2>1
      <3> QED
        BY <1>1, <2>1, <3>1
    <2>2. CASE b > k
      <3>1. b - 1 \in A /\ ~(b - 1 < k) /\ b - 1 + 1 = b
        BY <1>0, <1>a, <2>2
      <3> QED
        BY <1>1, <3>1
    <2> QED
      BY <2>0, <2>1, <2>2
  <1>5. f \in Bijection(A, B)
    BY <1>2, <1>3, <1>4 DEF Bijection, Injection, Surjection, IsInjective
  <1>6. IsFiniteSet(A)
    BY <1>0, PlacesFinite DEF A, Places
  <1>7. ExistsBijection(A, B)
    BY <1>5 DEF ExistsBijection
  <1>8. Cardinality(B) = Cardinality(A)
    BY <1>6, <1>7, FS_Bijection
  <1> QED
    BY <1>8 DEF A, B, r

(* A value that is popped occurs once less.                                *)
LEMMA PopCounts ==
  ASSUME NEW S, NEW q \in Seq(S), q # <<>>, NEW x
  PROVE  Cardinality(Places(q, x)) =
           Cardinality(Places(Tail(q), x)) + (IF x = Head(q) THEN 1 ELSE 0)
  <1>1. Len(q) \in Nat /\ 1 \in 1 .. Len(q)
    OBVIOUS
  <1>2. Tail(q) = CloseUp(q, 1)
    <2>1. /\ CloseUp(q, 1) \in Seq(S) /\ Len(CloseUp(q, 1)) = Len(q) - 1
          /\ \A i \in 1 .. Len(q) - 1 : CloseUp(q, 1)[i] = q[i + 1]
      BY <1>1, CloseUpIsSeq
    <2>2. /\ Tail(q) \in Seq(S) /\ Len(Tail(q)) = Len(q) - 1
          /\ \A i \in 1 .. Len(q) - 1 : Tail(q)[i] = q[i + 1]
      OBVIOUS
    <2> QED
      BY <2>1, <2>2, SeqEqual
  <1>3. Cardinality(Places(Tail(q), x)) = Cardinality(Places(q, x) \ {1})
    <2>1. Cardinality(Places(CloseUp(q, 1), x)) = Cardinality(Places(q, x) \ {1})
      BY <1>1, CloseUpCounts
    <2> QED
      BY <1>2, <2>1
  <1>4. IsFiniteSet(Places(q, x)) /\ Cardinality(Places(q, x)) \in Nat
    BY PlacesFinite DEF Places
  <1>5. Cardinality(Places(q, x) \ {1}) =
          IF 1 \in Places(q, x) THEN Cardinality(Places(q, x)) - 1
                                ELSE Cardinality(Places(q, x))
    BY <1>4, FS_RemoveElement
  <1>6. 1 \in Places(q, x) <=> x = Head(q)
    BY <1>1 DEF Places
  <1> QED
    BY <1>3, <1>4, <1>5, <1>6

-----------------------------------------------------------------------------
(* The copies of a work                                                    *)

(* The parts of Copies are numbers.                                        *)
LEMMA CopiesNat ==
  ASSUME TypeOK, NEW x
  PROVE  /\ Cardinality(InQueue(x)) \in Nat
         /\ IsFiniteSet(InHand(x)) /\ Cardinality(InHand(x)) \in Nat
         /\ Copies(x) \in Nat
  <1>1. mClientWorks \in Seq(Work) /\ InQueue(x) \in SUBSET DOMAIN mClientWorks
    BY DEF TypeOK, PoolTypeOK, InQueue
  <1>2. Cardinality(InQueue(x)) \in Nat
    BY <1>1, PlacesFinite
  <1>3. InHand(x) \in SUBSET Workers
    BY DEF InHand
  <1>4. IsFiniteSet(InHand(x)) /\ Cardinality(InHand(x)) \in Nat
    BY <1>3, WorkersAssumption, FS_Subset, FS_CardinalityType
  <1> QED
    BY <1>2, <1>4 DEF Copies

(* A work that is queued, in hand or held has a copy.                      *)
LEMMA CopyExists ==
  ASSUME TypeOK, NEW x,
         InQueue(x) # {} \/ InHand(x) # {} \/ held = x
  PROVE  Copies(x) >= 1
  <1>1. mClientWorks \in Seq(Work) /\ InQueue(x) \in SUBSET DOMAIN mClientWorks
    BY DEF TypeOK, PoolTypeOK, InQueue
  <1>2. IsFiniteSet(InQueue(x))
    BY <1>1, PlacesFinite
  <1>3. InQueue(x) # {} => Cardinality(InQueue(x)) >= 1
    BY <1>2, CopiesNat, FS_EmptySet
  <1>4. InHand(x) # {} => Cardinality(InHand(x)) >= 1
    BY CopiesNat, FS_EmptySet
  <1> QED
    BY <1>3, <1>4, CopiesNat DEF Copies

(* Copies depends on the queue, the hands and the held work only.          *)
LEMMA CopiesKept ==
  ASSUME UNCHANGED <<mClientWorks, pc, work, held>>, NEW x
  PROVE  Copies(x)' = Copies(x)
  BY DEF Copies, InQueue, InHand

(* QueueWork makes one more copy of what it queues.                        *)
LEMMA QueueCopies ==
  ASSUME TypeOK, NEW y \in Work, QueueWork(y), UNCHANGED <<pc, work, held>>, NEW x
  PROVE  Copies(x)' = Copies(x) + (IF x = y THEN 1 ELSE 0)
  <1>1. mClientWorks \in Seq(Work) /\ mClientWorks' = Append(mClientWorks, y)
    BY DEF TypeOK, PoolTypeOK, QueueWork
  <1>2. Cardinality(InQueue(x))' = Cardinality(InQueue(x)) + (IF x = y THEN 1 ELSE 0)
    <2>1. Cardinality(Places(Append(mClientWorks, y), x)) =
            Cardinality(Places(mClientWorks, x)) + (IF x = y THEN 1 ELSE 0)
      BY <1>1, PushCounts
    <2> QED
      BY <1>1, <2>1 DEF InQueue, Places
  <1>3. InHand(x)' = InHand(x) /\ held' = held
    BY DEF InHand
  <1> QED
    BY <1>2, <1>3, CopiesNat DEF Copies

(* What one worker does changes its own hand only.                         *)
LEMMA HandCounts ==
  ASSUME TypeOK, NEW w \in Workers, NEW x,
         \A v \in Workers \ {w} : pc'[v] = pc[v] /\ work'[v] = work[v]
  PROVE  Cardinality(InHand(x))' =
           Cardinality(InHand(x)) - (IF w \in InHand(x) THEN 1 ELSE 0)
                                  + (IF w \in InHand(x)' THEN 1 ELSE 0)
  <1> DEFINE A == InHand(x)
             B == InHand(x)'
  <1>1. A \ {w} = B \ {w} /\ B \in SUBSET Workers
    BY DEF InHand
  <1>2. IsFiniteSet(A) /\ Cardinality(A) \in Nat
    BY CopiesNat
  <1>3. IsFiniteSet(B) /\ Cardinality(B) \in Nat
    BY <1>1, WorkersAssumption, FS_Subset, FS_CardinalityType
  <1> HIDE DEF A, B
  <1>4. Cardinality(A \ {w}) = IF w \in A THEN Cardinality(A) - 1 ELSE Cardinality(A)
    BY <1>2, FS_RemoveElement
  <1>5. Cardinality(B \ {w}) = IF w \in B THEN Cardinality(B) - 1 ELSE Cardinality(B)
    BY <1>3, FS_RemoveElement
  <1>6. Cardinality(A \ {w}) = Cardinality(B \ {w}) /\ Cardinality(A \ {w}) \in Int
    BY <1>1, <1>2, <1>4
  <1>7. Cardinality(A) = Cardinality(A \ {w}) + (IF w \in A THEN 1 ELSE 0)
    BY <1>2, <1>4
  <1>8. Cardinality(B) = Cardinality(B \ {w}) + (IF w \in B THEN 1 ELSE 0)
    BY <1>3, <1>5
  <1>9. Cardinality(B) = Cardinality(A) - (IF w \in A THEN 1 ELSE 0) + (IF w \in B THEN 1 ELSE 0)
    BY <1>2, <1>3, <1>6, <1>7, <1>8
  <1> QED
    BY <1>9 DEF A, B

(* ... and when it keeps what it had in hand, every copy stays.            *)
LEMMA HandKept ==
  ASSUME TypeOK, NEW w \in Workers, NEW x,
         \A v \in Workers \ {w} : pc'[v] = pc[v] /\ work'[v] = work[v],
         UNCHANGED <<mClientWorks, held>>,
         w \in InHand(x)' <=> w \in InHand(x)
  PROVE  Copies(x)' = Copies(x)
  <1>1. Cardinality(InHand(x))' = Cardinality(InHand(x))
    BY HandCounts, CopiesNat
  <1>2. InQueue(x)' = InQueue(x)
    BY DEF InQueue
  <1> QED
    BY <1>1, <1>2 DEF Copies

(* A worker has done with its work: a copy of it is gone.                  *)
LEMMA HandDropped ==
  ASSUME TypeOK, NEW w \in Workers, NEW x,
         \A v \in Workers \ {w} : pc'[v] = pc[v] /\ work'[v] = work[v],
         UNCHANGED <<mClientWorks, held>>,
         pc[w] \notin Finished, pc'[w] \in Finished
  PROVE  Copies(x)' = Copies(x) - (IF x = work[w] THEN 1 ELSE 0)
  <1>1. (w \in InHand(x) <=> x = work[w]) /\ w \notin InHand(x)'
    BY DEF InHand
  <1>2. Cardinality(InHand(x))' = Cardinality(InHand(x)) - (IF x = work[w] THEN 1 ELSE 0)
    BY <1>1, HandCounts, CopiesNat
  <1>3. InQueue(x)' = InQueue(x)
    BY DEF InQueue
  <1> QED
    BY <1>2, <1>3, CopiesNat DEF Copies

(* The queue loses its head.                                               *)
LEMMA QueuePopped ==
  ASSUME TypeOK, mClientWorks # <<>>, mClientWorks' = Tail(mClientWorks), NEW x
  PROVE  Cardinality(InQueue(x))' =
           Cardinality(InQueue(x)) - (IF x = Head(mClientWorks) THEN 1 ELSE 0)
  <1>1. mClientWorks \in Seq(Work) /\ Tail(mClientWorks) \in Seq(Work)
    BY DEF TypeOK, PoolTypeOK
  <1>2. Cardinality(Places(mClientWorks, x)) =
          Cardinality(Places(Tail(mClientWorks), x)) + (IF x = Head(mClientWorks) THEN 1 ELSE 0)
    BY <1>1, PopCounts
  <1>3. Cardinality(Places(Tail(mClientWorks), x)) \in Nat
    <2>1. Places(Tail(mClientWorks), x) \in SUBSET DOMAIN Tail(mClientWorks)
      BY DEF Places
    <2> QED
      BY <1>1, <2>1, PlacesFinite
  <1>4. InQueue(x) = Places(mClientWorks, x) /\ InQueue(x)' = Places(Tail(mClientWorks), x)
    BY DEF InQueue, Places
  <1> DEFINE m == Cardinality(InQueue(x))
             n == Cardinality(InQueue(x)')
  <1>5. m = n + (IF x = Head(mClientWorks) THEN 1 ELSE 0) /\ n \in Nat
    BY <1>2, <1>3, <1>4
  <1> HIDE DEF m, n
  <1>6. n = m - (IF x = Head(mClientWorks) THEN 1 ELSE 0)
    BY <1>5
  <1> QED
    BY <1>6 DEF m, n

(* The queue gains an entry at its back.                                   *)
LEMMA QueuePushed ==
  ASSUME TypeOK, NEW y \in Work, mClientWorks' = Append(mClientWorks, y), NEW x
  PROVE  Cardinality(InQueue(x))' = Cardinality(InQueue(x)) + (IF x = y THEN 1 ELSE 0)
  <1>1. mClientWorks \in Seq(Work)
    BY DEF TypeOK, PoolTypeOK
  <1>2. Cardinality(Places(Append(mClientWorks, y), x)) =
          Cardinality(Places(mClientWorks, x)) + (IF x = y THEN 1 ELSE 0)
    BY <1>1, PushCounts
  <1> QED
    BY <1>1, <1>2 DEF InQueue, Places

-----------------------------------------------------------------------------
(* What a worker's step does to the copies                                 *)

(* A step moves works about, or ends one, or adds one.                     *)
AllKept   == \A x \in Work : Copies(x)' = Copies(x)
OneEnded(y) == \A x \in Work : Copies(x)' = Copies(x) - (IF x = y THEN 1 ELSE 0)
OneAdded(y) == \A x \in Work : Copies(x)' = Copies(x) + (IF x = y THEN 1 ELSE 0)

(* The works of a session.                                                 *)
LEMMA WorkKinds ==
  /\ \A s \in Sessions : ReadWork(s) \in Work /\ CloseWork(s) \in Work
  /\ \A s, t \in Sessions : /\ ReadWork(s) # CloseWork(t)
                            /\ ReadWork(s) = ReadWork(t) => s = t
                            /\ CloseWork(s) = CloseWork(t) => s = t
  /\ \A x \in Work : /\ x.session \in Sessions
                     /\ x.type = "SESSION_READ" \/ x.type = "SESSION_CLOSE"
                     /\ x.type = "SESSION_READ" => x = ReadWork(x.session)
                     /\ x.type = "SESSION_CLOSE" => x = CloseWork(x.session)
  <1>1. \A s \in Sessions : ReadWork(s) \in Work /\ CloseWork(s) \in Work
    BY DEF ReadWork, CloseWork, Work, WorkType
  <1>2. \A s, t \in Sessions : /\ ReadWork(s) # CloseWork(t)
                               /\ ReadWork(s) = ReadWork(t) => s = t
                               /\ CloseWork(s) = CloseWork(t) => s = t
    BY DEF ReadWork, CloseWork
  <1>3. \A x \in Work : /\ x.session \in Sessions
                        /\ x.type = "SESSION_READ" \/ x.type = "SESSION_CLOSE"
                        /\ x.type = "SESSION_READ" => x = ReadWork(x.session)
                        /\ x.type = "SESSION_CLOSE" => x = CloseWork(x.session)
    BY DEF ReadWork, CloseWork, Work, WorkType
  <1> QED
    BY <1>1, <1>2, <1>3

(* A worker changes nothing of another worker.                             *)
LEMMA OnlyItsOwn ==
  ASSUME TypeOK, WorkShape, NEW w \in Workers, WorkerStep(w)
  PROVE  \A v \in Workers \ {w} : pc'[v] = pc[v] /\ work'[v] = work[v]
  <1>0. pc \in [Workers -> PC] /\ work \in [Workers -> Work \union {NoWork}]
    BY DEF TypeOK, WorkTypeOK
  <1>1. /\ UNCHANGED pc \/ \E b : pc' = [pc EXCEPT ![w] = b]
        /\ UNCHANGED work \/ \E x : work' = [work EXCEPT ![w] = x]
    <2>1. CASE PoolStep(w)
      BY <2>1 DEF PoolStep, WaitSignal, WaitClose, WaitFailed, FetchNothing, Fetch, CountUp,
         Requeue, Finish, CancelBegin, CancelPop, CancelKeep, CancelReadCount,
         CancelDrop, CancelUseReleased, CancelEnd, CancelNext, Goto, workVars
    <2>2. CASE RunStep(w)
      BY <2>2 DEF RunStep, ReadBegin, ReceiveNothing, ReceiveWouldBlock, Receive, Respond,
         WriteNothing, ReadEnd, CloseBegin, CloseConnection, UseReleased, Goto, workVars
    <2> QED
      BY <2>1, <2>2 DEF WorkerStep
  <1> QED
    BY <1>0, <1>1

(* ClientWork::Run ends a READ or a CLOSE, and leaves the queue alone.     *)
LEMMA RunEffect ==
  ASSUME TypeOK, WorkShape, NEW w \in Workers, WorkerStep(w), RunStep(w), UNCHANGED poolVars
  PROVE  \/ AllKept /\ UNCHANGED <<released, link>>
         \/ \E s \in Sessions : /\ OneEnded(ReadWork(s)) /\ Copies(ReadWork(s)) >= 1
                               /\ UNCHANGED <<released, link>>
         \/ \E s \in Sessions : /\ OneEnded(CloseWork(s)) /\ Copies(CloseWork(s)) >= 1
                               /\ released' = released \union {s}
                               /\ link' = [link EXCEPT ![s] = "closed"]
  <1>0. /\ pc \in [Workers -> PC] /\ work \in [Workers -> Work \union {NoWork}]
        /\ UNCHANGED <<mClientWorks, held>>
        /\ \A v \in Workers \ {w} : pc'[v] = pc[v] /\ work'[v] = work[v]
    BY OnlyItsOwn DEF TypeOK, WorkTypeOK, poolVars, queueVars, cancelVars
  <1>1. CASE CloseConnection(w)
    <2>1. pc[w] = "release" /\ pc'[w] = "finish"
      BY <1>0, <1>1 DEF CloseConnection, Goto
    <2>2. work[w] \in Work /\ work[w].type = "SESSION_CLOSE"
      BY <2>1 DEF WorkShape, HasWork
    <2>3. PICK s \in Sessions : s = Session(w) /\ work[w] = CloseWork(s)
      BY <2>2, WorkKinds DEF Session
    <2>4. OneEnded(CloseWork(s))
      BY <1>0, <2>1, <2>3, HandDropped DEF OneEnded, Finished
    <2>5. Copies(CloseWork(s)) >= 1
      <3>1. w \in InHand(CloseWork(s))
        BY <2>1, <2>3 DEF InHand, Finished
      <3> QED
        BY <3>1, CopyExists
    <2>6. released' = released \union {s} /\ link' = [link EXCEPT ![s] = "closed"]
      BY <1>1, <2>3 DEF CloseConnection, ReleaseSession, CloseSocket
    <2> QED
      BY <2>4, <2>5, <2>6
  <1>2. CASE ~CloseConnection(w)
    <2>1. UNCHANGED <<released, link, work>>
      BY <1>2 DEF RunStep, ReadBegin, ReceiveNothing, ReceiveWouldBlock, Receive, Respond,
         WriteNothing, ReadEnd, CloseBegin, UseReleased, netVars, sessionVars, workVars
    <2>2. CASE ReadEnd(w) /\ pc'[w] = "finish"
      <3>1. pc[w] = "leave" /\ pc'[w] = "finish"
        BY <2>2 DEF ReadEnd, Goto
      <3>2. work[w] \in Work /\ work[w].type = "SESSION_READ"
        BY <3>1 DEF WorkShape, HasWork, Reading
      <3>3. PICK s \in Sessions : work[w] = ReadWork(s)
        BY <3>2, WorkKinds
      <3>4. OneEnded(ReadWork(s))
        BY <1>0, <3>1, <3>3, HandDropped DEF OneEnded, Finished
      <3>5. Copies(ReadWork(s)) >= 1
        <4>1. w \in InHand(ReadWork(s))
          BY <3>1, <3>3 DEF InHand, Finished
        <4> QED
          BY <4>1, CopyExists
      <3> QED
        BY <2>1, <3>4, <3>5
    <2>3. CASE ~(ReadEnd(w) /\ pc'[w] = "finish")
      <3>1. \/ UNCHANGED pc
            \/ pc[w] \notin Finished /\ pc'[w] \notin Finished
        BY <1>0, <1>2, <2>3 DEF RunStep, ReadBegin, ReceiveNothing, ReceiveWouldBlock, Receive,
           Respond, WriteNothing, ReadEnd, CloseBegin, UseReleased, Goto, Finished, workVars
      <3>2. ASSUME NEW x \in Work
            PROVE  Copies(x)' = Copies(x)
        <4>1. w \in InHand(x)' <=> w \in InHand(x)
          BY <2>1, <3>1 DEF InHand
        <4> QED
          BY <1>0, <4>1, HandKept
      <3> QED
        BY <2>1, <3>2 DEF AllKept
    <2> QED
      BY <2>2, <2>3
  <1> QED
    BY <1>1, <1>2

(* ClientThreadPool::Run takes works out of the queue and puts them back;  *)
(* none is lost or doubled on the way, but for a cancelled READ.           *)
LEMMA PoolEffect ==
  ASSUME TypeOK, WorkShape, RotationSafe, EmptyHands,
         NEW w \in Workers, WorkerStep(w), PoolStep(w)
  PROVE  /\ UNCHANGED <<released, link>>
         /\ AllKept \/ \E s \in Sessions : /\ OneEnded(ReadWork(s))
                                         /\ Copies(ReadWork(s)) >= 1
  <1>0. /\ pc \in [Workers -> PC] /\ work \in [Workers -> Work \union {NoWork}]
        /\ mClientWorks \in Seq(Work)
        /\ \A v \in Workers \ {w} : pc'[v] = pc[v] /\ work'[v] = work[v]
    BY OnlyItsOwn DEF TypeOK, WorkTypeOK, PoolTypeOK
  <1>n. UNCHANGED <<released, link>>
    BY DEF PoolStep, WaitSignal, WaitClose, WaitFailed, FetchNothing, Fetch, CountUp,
         Requeue, Finish, CancelBegin, CancelPop, CancelKeep, CancelReadCount,
         CancelDrop, CancelUseReleased, CancelEnd, CancelNext, netVars, sessionVars
  <1>1. CASE WaitSignal(w) \/ WaitClose(w) \/ WaitFailed(w) \/ FetchNothing(w) \/ CountUp(w)
               \/ Finish(w) \/ CancelBegin(w) \/ CancelReadCount(w) \/ CancelUseReleased(w)
    <2>1. UNCHANGED <<mClientWorks, held>>
      BY <1>1 DEF WaitSignal, WaitClose, WaitFailed, FetchNothing, CountUp, Finish, CancelBegin,
         CancelReadCount, CancelUseReleased, poolVars, queueVars, cancelVars
    <2>2. \/ UNCHANGED <<pc, work>>
          \/ pc[w] \notin Finished /\ pc'[w] \notin Finished /\ UNCHANGED work
          \/ pc[w] \in Finished /\ pc'[w] \in Finished
          \/ pc[w] \in {"wait", "fetch"} /\ UNCHANGED work
      BY <1>0, <1>1 DEF WaitSignal, WaitClose, WaitFailed, FetchNothing, CountUp, Finish,
         CancelBegin, CancelReadCount, CancelUseReleased, Goto, Finished, workVars
    <2>3. ASSUME NEW x \in Work
          PROVE  Copies(x)' = Copies(x)
      <3>1. w \in InHand(x)' <=> w \in InHand(x)
        BY <2>2, NoWorkAssumption DEF InHand, EmptyHands
      <3> QED
        BY <1>0, <2>1, <3>1, HandKept
    <2> QED
      BY <1>n, <2>3 DEF AllKept
  <1>2. CASE Fetch(w)
    <2>1. /\ pc[w] = "fetch" /\ pc'[w] = "count" /\ mClientWorks # <<>>
          /\ work[w] = NoWork /\ work'[w] = Head(mClientWorks)
          /\ mClientWorks' = Tail(mClientWorks) /\ UNCHANGED held
      BY <1>0, <1>2 DEF Fetch, IsWorkQueueEmpty, Goto, cancelVars, EmptyHands
    <2>2. ASSUME NEW x \in Work
          PROVE  Copies(x)' = Copies(x)
      <3>1. w \notin InHand(x) /\ (w \in InHand(x)' <=> x = Head(mClientWorks))
        BY <2>1, NoWorkAssumption DEF InHand, Finished
      <3>2. Cardinality(InHand(x))' =
              Cardinality(InHand(x)) + (IF x = Head(mClientWorks) THEN 1 ELSE 0)
        BY <1>0, <3>1, HandCounts, CopiesNat
      <3>3. Cardinality(InQueue(x))' =
              Cardinality(InQueue(x)) - (IF x = Head(mClientWorks) THEN 1 ELSE 0)
        BY <2>1, QueuePopped
      <3> QED
        BY <2>1, <3>2, <3>3, CopiesNat DEF Copies
    <2> QED
      BY <1>n, <2>2 DEF AllKept
  <1>3. CASE Requeue(w)
    <2>1. /\ pc[w] = "requeue" /\ pc'[w] = "finish" /\ work[w] \in Work
          /\ mClientWorks' = Append(mClientWorks, work[w]) /\ UNCHANGED held
      BY <1>0, <1>3 DEF Requeue, QueueWork, Goto, cancelVars, WorkShape, HasWork
    <2>2. ASSUME NEW x \in Work
          PROVE  Copies(x)' = Copies(x)
      <3>1. (w \in InHand(x) <=> x = work[w]) /\ w \notin InHand(x)'
        BY <2>1 DEF InHand, Finished
      <3>2. Cardinality(InHand(x))' = Cardinality(InHand(x)) - (IF x = work[w] THEN 1 ELSE 0)
        BY <1>0, <3>1, HandCounts, CopiesNat
      <3>3. PICK y \in Work : y = work[w]
        BY <2>1
      <3>4. Cardinality(InQueue(x))' = Cardinality(InQueue(x)) + (IF x = y THEN 1 ELSE 0)
        BY <2>1, <3>3, QueuePushed
      <3> QED
        BY <2>1, <3>2, <3>3, <3>4, CopiesNat DEF Copies
    <2> QED
      BY <1>n, <2>2 DEF AllKept
  <1>4. CASE CancelPop(w)
    <2>1. /\ pc[w] = "rotate" /\ pc'[w] = "inspect" /\ UNCHANGED work
          /\ held' = Head(mClientWorks) /\ mClientWorks' = Tail(mClientWorks)
          /\ remaining > 0
      BY <1>0, <1>4 DEF CancelPop, Goto
    <2>2. mClientWorks # <<>> /\ held = NoWork
      <3>1. remaining <= Len(mClientWorks) /\ remaining \in Nat
        BY <2>1 DEF RotationSafe, TypeOK, PoolTypeOK
      <3>2. \A v \in Workers : pc[v] \notin {"inspect", "store"}
        BY <2>1 DEF RotationSafe
      <3> QED
        BY <1>0, <2>1, <3>1, <3>2 DEF EmptyHands
    <2>3. ASSUME NEW x \in Work
          PROVE  Copies(x)' = Copies(x)
      <3>1. w \in InHand(x)' <=> w \in InHand(x)
        BY <2>1 DEF InHand, Finished
      <3>2. Cardinality(InHand(x))' = Cardinality(InHand(x))
        BY <1>0, <3>1, HandCounts, CopiesNat
      <3>3. Cardinality(InQueue(x))' =
              Cardinality(InQueue(x)) - (IF x = Head(mClientWorks) THEN 1 ELSE 0)
        BY <2>1, <2>2, QueuePopped
      <3> QED
        BY <2>1, <2>2, <3>2, <3>3, CopiesNat, NoWorkAssumption DEF Copies
    <2> QED
      BY <1>n, <2>3 DEF AllKept
  <1>5. CASE CancelKeep(w)
    <2>1. /\ pc[w] = "inspect" /\ pc'[w] = "rotate" /\ UNCHANGED work
          /\ held \in Work /\ held' = NoWork
          /\ mClientWorks' = Append(mClientWorks, held)
      BY <1>0, <1>5 DEF CancelKeep, CancelNext, QueueWork, Goto, WorkShape
    <2>2. ASSUME NEW x \in Work
          PROVE  Copies(x)' = Copies(x)
      <3>1. w \in InHand(x)' <=> w \in InHand(x)
        BY <2>1 DEF InHand, Finished
      <3>2. Cardinality(InHand(x))' = Cardinality(InHand(x))
        BY <1>0, <3>1, HandCounts, CopiesNat
      <3>3. PICK y \in Work : y = held
        BY <2>1
      <3>4. Cardinality(InQueue(x))' = Cardinality(InQueue(x)) + (IF x = y THEN 1 ELSE 0)
        BY <2>1, <3>3, QueuePushed
      <3> QED
        BY <2>1, <3>2, <3>3, <3>4, CopiesNat, NoWorkAssumption DEF Copies
    <2> QED
      BY <1>n, <2>2 DEF AllKept
  <1>6. CASE CancelDrop(w)
    <2>1. /\ pc[w] = "store" /\ pc'[w] = "rotate" /\ UNCHANGED <<work, mClientWorks>>
          /\ held \in Work /\ held' = NoWork
      BY <1>0, <1>6 DEF CancelDrop, CancelNext, Goto, queueVars, WorkShape
    <2>2. PICK s \in Sessions : held = ReadWork(s)
      BY <2>1, WorkKinds DEF WorkShape, HeldIsRead
    <2>3. ASSUME NEW x \in Work
          PROVE  Copies(x)' = Copies(x) - (IF x = ReadWork(s) THEN 1 ELSE 0)
      <3>1. w \in InHand(x)' <=> w \in InHand(x)
        BY <2>1 DEF InHand, Finished
      <3>2. Cardinality(InHand(x))' = Cardinality(InHand(x))
        BY <1>0, <3>1, HandCounts, CopiesNat
      <3>3. InQueue(x)' = InQueue(x)
        BY <2>1 DEF InQueue
      <3> QED
        BY <2>1, <2>2, <3>2, <3>3, CopiesNat, NoWorkAssumption DEF Copies
    <2>4. Copies(ReadWork(s)) >= 1
      BY <2>2, CopyExists
    <2> QED
      BY <1>n, <2>3, <2>4 DEF OneEnded
  <1>7. CASE CancelEnd(w)
    <2>1. pc[w] = "rotate" /\ pc'[w] = "finish" /\ UNCHANGED <<work, mClientWorks, held>>
      BY <1>0, <1>7 DEF CancelEnd, Goto, poolVars, queueVars, cancelVars
    <2>2. work[w] \in Work /\ work[w].type = "SESSION_READ"
      BY <2>1 DEF WorkShape, HasWork, Cancelling
    <2>3. PICK s \in Sessions : work[w] = ReadWork(s)
      BY <2>2, WorkKinds
    <2>4. OneEnded(ReadWork(s))
      BY <1>0, <2>1, <2>3, HandDropped DEF OneEnded, Finished
    <2>5. Copies(ReadWork(s)) >= 1
      <3>1. w \in InHand(ReadWork(s))
        BY <2>1, <2>3 DEF InHand, Finished
      <3> QED
        BY <3>1, CopyExists
    <2> QED
      BY <1>n, <2>4, <2>5
  <1> QED
    BY <1>1, <1>2, <1>3, <1>4, <1>5, <1>6, <1>7 DEF PoolStep

(* What a worker holds where, after its step.                              *)
LEMMA WorkerHands ==
  ASSUME TypeOK, WorkShape, RotationSafe, EmptyHands, NEW w \in Workers, Worker(w)
  PROVE  EmptyHands'
  <1>0. /\ pc \in [Workers -> PC] /\ work \in [Workers -> Work \union {NoWork}]
        /\ \A v \in Workers \ {w} : pc'[v] = pc[v] /\ work'[v] = work[v]
    BY OnlyItsOwn DEF TypeOK, WorkTypeOK, Worker
  <1>1. CASE RunStep(w) /\ UNCHANGED poolVars
    <2>1. pc[w] \in Within /\ pc'[w] \in Within /\ UNCHANGED <<work, held>>
      BY <1>0, <1>1, RunMoves DEF poolVars, cancelVars
    <2> QED
      BY <1>0, <2>1 DEF EmptyHands, Within
  <1>2. CASE PoolStep(w)
    <2>1. pc'[w] \in {"wait", "fetch"} => work'[w] = NoWork
      BY <1>0, <1>2 DEF PoolStep, WaitSignal, WaitClose, WaitFailed, FetchNothing, Fetch, CountUp,
         Requeue, Finish, CancelBegin, CancelPop, CancelKeep, CancelReadCount,
         CancelDrop, CancelUseReleased, CancelEnd, CancelNext, Goto, workVars, EmptyHands
    <2>2. \/ held' = held /\ (pc[w] \in {"inspect", "store"} => pc'[w] \in {"inspect", "store"})
          \/ pc'[w] \in {"inspect", "store"}
          \/ held' = NoWork
      BY <1>0, <1>2 DEF PoolStep, WaitSignal, WaitClose, WaitFailed, FetchNothing, Fetch, CountUp,
         Requeue, Finish, CancelBegin, CancelPop, CancelKeep, CancelReadCount,
         CancelDrop, CancelUseReleased, CancelEnd, CancelNext, Goto, workVars, poolVars, cancelVars
    <2> QED
      BY <1>0, <2>1, <2>2 DEF EmptyHands
  <1> QED
    BY <1>1, <1>2 DEF Worker, WorkerStep

-----------------------------------------------------------------------------
(* What a step of the main thread does to the list and to the copies       *)

OnList(s) == Cardinality(HeldAt(s))
ListKept  == \A s \in Sessions : OnList(s)' = OnList(s)

(* The entries the list stands for are finitely many.                      *)
LEMMA OnListNat ==
  ASSUME TypeOK, NEW s
  PROVE  IsFiniteSet(HeldAt(s)) /\ OnList(s) \in Nat
  <1>1. mClientSessions \in Seq(Sessions \union {Listener})
    BY DEF TypeOK, ServerTypeOK
  <1>2. HeldAt(s) \in SUBSET DOMAIN mClientSessions
    BY DEF HeldAt
  <1> QED
    BY <1>1, <1>2, PlacesFinite DEF OnList

(* Where the list stands for all its entries.                              *)
Plain == {"sweep", "enumerate", "dispatch", "signal", "nudge", "scan", "drain"}

LEMMA PlainPlaces ==
  ASSUME main.at \in Plain, NEW s
  PROVE  HeldAt(s) = Places(mClientSessions, s)
  BY DEF Plain, HeldAt, Holds, Places

LEMMA PlainPlacesNext ==
  ASSUME main'.at \in Plain, NEW s
  PROVE  HeldAt(s)' = Places(mClientSessions', s)
  BY DEF Plain, HeldAt, Holds, Places

LEMMA PlainMove ==
  ASSUME main.at \in Plain, main'.at \in Plain, UNCHANGED mClientSessions
  PROVE  ListKept
  <1>1. ASSUME NEW s \in Sessions
        PROVE  HeldAt(s)' = HeldAt(s)
    BY PlainPlaces, PlainPlacesNext
  <1> QED
    BY <1>1 DEF ListKept, OnList

(* The main thread lets go of its current entry.                           *)
LEMMA LetGo ==
  ASSUME TypeOK, main.index \in DOMAIN mClientSessions, UNCHANGED mClientSessions,
         Holds(main.index),
         \A j \in DOMAIN mClientSessions : Holds(j)' <=> Holds(j) /\ j # main.index,
         NEW s
  PROVE  OnList(s)' = OnList(s) - (IF s = Current THEN 1 ELSE 0)
  <1> DEFINE A == HeldAt(s)
             k == main.index
  <1>1. HeldAt(s)' = A \ {k}
    BY DEF HeldAt
  <1>2. k \in A <=> s = Current
    BY DEF HeldAt, Current
  <1>3. IsFiniteSet(A) /\ Cardinality(A) \in Nat
    BY OnListNat DEF OnList
  <1> HIDE DEF A, k
  <1>4. Cardinality(A \ {k}) = IF k \in A THEN Cardinality(A) - 1 ELSE Cardinality(A)
    BY <1>3, FS_RemoveElement
  <1>5. Cardinality(A \ {k}) = Cardinality(A) - (IF s = Current THEN 1 ELSE 0)
    BY <1>2, <1>3, <1>4
  <1>6. OnList(s)' = Cardinality(A \ {k})
    BY <1>1 DEF OnList
  <1>7. OnList(s) = Cardinality(A)
    BY DEF OnList, A
  <1> QED
    BY <1>5, <1>6, <1>7

(* The kinds of steps the main thread takes.                               *)
Workless == UNCHANGED <<mClientWorks, pc, work, held>>

Idles ==                       \* it goes on, or gives the list up for good
  /\ Workless
  /\ UNCHANGED <<released, link>>
  /\ UNCHANGED mClientSessions \/ Erase
  /\ ShuttingDown => ShuttingDown'
  /\ \A s \in Sessions : OnList(s)' <= OnList(s)
  /\ ShuttingDown' \/ ListKept

Asks(s) ==                     \* it queues a READ
  /\ OneAdded(ReadWork(s))
  /\ UNCHANGED <<released, link, mClientSessions>>
  /\ OnList(s) >= 1 /\ ListKept
  /\ ~ShuttingDown

Closes(s) ==                   \* it queues a CLOSE
  /\ OneAdded(CloseWork(s))
  /\ UNCHANGED <<released, link, mClientSessions>>
  /\ OnList(s) >= 1
  /\ \A r \in Sessions : OnList(r)' = OnList(r) - (IF r = s THEN 1 ELSE 0)
  /\ ~ShuttingDown

Opens(s) ==                    \* it lists a client
  /\ Workless
  /\ link[s] = "pending" /\ link' = [link EXCEPT ![s] = "open"]
  /\ UNCHANGED released
  /\ mClientSessions' = Append(mClientSessions, s)
  /\ \A r \in Sessions : OnList(r)' = OnList(r) + (IF r = s THEN 1 ELSE 0)
  /\ ~ShuttingDown /\ main.at \in Plain

Refuses(s) ==                  \* it accepts none, or accepts and deletes at once
  /\ Workless
  /\ link[s] = "pending" /\ link' = [link EXCEPT ![s] = "closed"]
  /\ released' \in {released, released \union {s}}
  /\ UNCHANGED mClientSessions
  /\ ListKept
  /\ ~ShuttingDown /\ main.at \in Plain

Destroys(s) ==                 \* the destructor deletes a session
  /\ Workless
  /\ link' = [link EXCEPT ![s] = "closed"]
  /\ released' = released \union {s}
  /\ UNCHANGED mClientSessions
  /\ OnList(s) >= 1
  /\ \A r \in Sessions : OnList(r)' = OnList(r) - (IF r = s THEN 1 ELSE 0)
  /\ ShuttingDown /\ ShuttingDown'

MainKinds ==
  \/ Idles
  \/ \E s \in Sessions : Asks(s) \/ Closes(s) \/ Opens(s) \/ Refuses(s) \/ Destroys(s)

(* The steps that only move the main thread about.                         *)
LEMMA MainIdles ==
  ASSUME TypeOK, ListShape, MainShape, MainStep, ~Dispatch \/ ContinueHandshake \/ NoCaseMatches,
         ~ScanInvalidates, ~DestroyRelease
  PROVE  Idles
  <1> USE DEF NotTheMainThreads, OnlyMain, netVars, sessionVars, workVars, poolVars, queueVars,
              cancelVars
  <1>0. /\ main \in MainState /\ mClientSessions \in Seq(Sessions \union {Listener})
        /\ \A s \in Sessions : OnList(s) \in Nat /\ IsFiniteSet(HeldAt(s))
    BY OnListNat DEF TypeOK, ServerTypeOK
  <1> DEFINE Gone == {"destroy", "destroyrelease", "closehandles", "join"}
  <1>1. CASE SweepFinds \/ SweepNextChunk \/ SweepFailed \/ SweepTimesOut \/ LeaveLoop
    <2>1. main.at = "sweep" /\ main'.at \in {"sweep", "enumerate", "nudge", "drain"}
      BY <1>0, <1>1 DEF SweepFinds, SweepNextChunk, SweepFailed, SweepTimesOut, LeaveLoop,
         Sweeping, MainState
    <2>2. Workless /\ UNCHANGED <<released, link, mClientSessions>>
      BY <1>1 DEF SweepFinds, SweepNextChunk, SweepFailed, SweepTimesOut, LeaveLoop, Workless
    <2>3. ListKept
      BY <2>1, <2>2, PlainMove DEF Plain
    <2> QED
      BY <1>0, <2>1, <2>2, <2>3 DEF Idles, ShuttingDown, ListKept
  <1>2. CASE Enumerate \/ ContinueHandshake \/ NoCaseMatches
    <2>1. main.at \in {"enumerate", "dispatch"} /\ main'.at \in {"dispatch", "sweep"}
      BY <1>0, <1>2 DEF Enumerate, ContinueHandshake, NoCaseMatches, Dispatching, ToSweep,
         MainState
    <2>2. Workless /\ UNCHANGED <<released, link, mClientSessions>>
      BY <1>2 DEF Enumerate, ContinueHandshake, NoCaseMatches, Workless
    <2>3. ListKept
      BY <2>1, <2>2, PlainMove DEF Plain
    <2> QED
      BY <1>0, <2>1, <2>2, <2>3 DEF Idles, ShuttingDown, ListKept
  <1>3. CASE Nudge \/ ScanKeeps \/ ScanEnds \/ DrainSpin \/ (Signal /\ main.at = "signal")
    <2>1. main.at \in Plain /\ main'.at \in Plain
      BY <1>0, <1>3 DEF Nudge, Scanning, ScanKeeps, ScanEnds, DrainSpin, Signal, MainState, Plain
    <2>2. Workless /\ UNCHANGED <<released, link, mClientSessions>>
      BY <1>3 DEF Nudge, ScanKeeps, ScanEnds, DrainSpin, Signal, Workless
    <2>3. ListKept
      BY <2>1, <2>2, PlainMove
    <2> QED
      BY <1>0, <2>1, <2>2, <2>3 DEF Idles, ShuttingDown, ListKept, Plain
  <1>4. CASE Signal /\ main.at = "signalclose"
    <2>1. main'.at = "erase" /\ main'.index = main.index
      BY <1>0, <1>4 DEF Signal, MainState
    <2>2. Workless /\ UNCHANGED <<released, link, mClientSessions>>
      BY <1>4 DEF Signal, Workless
    <2>3. \A s \in Sessions : HeldAt(s)' = HeldAt(s)
      BY <1>4, <2>1, <2>2 DEF HeldAt, Holds
    <2> QED
      BY <1>0, <1>4, <2>1, <2>2, <2>3 DEF Idles, ShuttingDown, ListKept, OnList
  <1>5. CASE Erase
    <2>1. /\ main.at = "erase" /\ main'.at \in {"sweep", "scan"}
          /\ mClientSessions' = CloseUp(mClientSessions, main.index)
          /\ main.index \in 1 .. Len(mClientSessions)
      <3>1. main.at = "erase" /\ main'.at \in {"sweep", "scan"}
        BY <1>0, <1>5 DEF Erase, MainState
      <3>2. main.index \in 1 .. Len(mClientSessions)
        BY <1>0, <3>1 DEF MainShape, ClientIndex
      <3>3. mClientSessions' = CloseUp(mClientSessions, main.index)
        BY <1>5 DEF Erase, Erased, CloseUp
      <3> QED
        BY <3>1, <3>2, <3>3
    <2>2. Workless /\ UNCHANGED <<released, link>>
      BY <1>5 DEF Erase, Workless
    <2>3. ASSUME NEW s \in Sessions
          PROVE  OnList(s)' = OnList(s)
      <3>1. PICK k \in 1 .. Len(mClientSessions) : k = main.index
        BY <2>1
      <3>2. Cardinality(Places(CloseUp(mClientSessions, k), s)) =
              Cardinality(Places(mClientSessions, s) \ {k})
        BY <1>0, CloseUpCounts
      <3>3. HeldAt(s) = Places(mClientSessions, s) \ {k}
        BY <2>1, <3>1 DEF HeldAt, Holds, Places
      <3>4. HeldAt(s)' = Places(CloseUp(mClientSessions, k), s)
        BY <2>1, <3>1, PlainPlacesNext DEF Plain
      <3> QED
        BY <3>2, <3>3, <3>4 DEF OnList
    <2> QED
      BY <1>0, <1>5, <2>1, <2>2, <2>3 DEF Idles, ShuttingDown, ListKept
  <1>6. CASE Drain
    <2>1. main.at = "drain" /\ main'.at = "destroy" /\ main'.index = 2
      BY <1>0, <1>6 DEF Drain, ToDestroy, MainState
    <2>2. Workless /\ UNCHANGED <<released, link, mClientSessions>>
      BY <1>6 DEF Drain, ToDestroy, Workless
    <2>3. ASSUME NEW s \in Sessions
          PROVE  HeldAt(s)' = HeldAt(s)
      <3>1. mClientSessions[1] # s
        BY ListenerAssumption DEF ListShape
      <3>2. \A j \in DOMAIN mClientSessions : mClientSessions[j] = s => j >= 2
        BY <1>0, <3>1
      <3> QED
        BY <2>1, <2>2, <3>2 DEF HeldAt, Holds
    <2> QED
      BY <1>0, <2>1, <2>2, <2>3 DEF Idles, ShuttingDown, ListKept, OnList
  <1>7. CASE DestroyBegin
    <2>1. main.at = "destroy" /\ main'.at = "destroyrelease" /\ main'.index = main.index
      BY <1>0, <1>7 DEF DestroyBegin, Destroying, MainState
    <2>2. Workless /\ UNCHANGED <<released, link, mClientSessions>>
      BY <1>7 DEF DestroyBegin, Workless
    <2>3. \A s \in Sessions : HeldAt(s)' = HeldAt(s)
      BY <2>1, <2>2 DEF HeldAt, Holds
    <2> QED
      BY <1>0, <2>1, <2>2, <2>3 DEF Idles, ShuttingDown, ListKept, OnList
  <1>8. CASE DestroyRefused \/ StopPool \/ CloseHandles \/ Join
    <2>1. /\ main.at \in Gone /\ main'.at \in Gone
          /\ \/ main.at = "destroy" /\ main'.at = "destroy" /\ main'.index = main.index + 1
             \/ main'.at \in {"closehandles", "join"}
      BY <1>0, <1>8 DEF DestroyRefused, Destroying, StopPool, CloseHandles, Join, serverVars,
         MainState
    <2>2. Workless /\ UNCHANGED <<released, link, mClientSessions>>
      BY <1>8 DEF DestroyRefused, StopPool, CloseHandles, Join, Workless, serverVars
    <2>3. ASSUME NEW s \in Sessions
          PROVE  OnList(s)' <= OnList(s)
      <3>1. HeldAt(s)' \subseteq HeldAt(s)
        BY <1>0, <2>1, <2>2 DEF HeldAt, Holds, MainState
      <3> QED
        BY <1>0, <3>1, FS_Subset DEF OnList
    <2> QED
      BY <2>1, <2>2, <2>3 DEF Idles, ShuttingDown
  <1> QED
    <2>1. Signal => main.at \in {"signal", "signalclose"}
      BY DEF Signal
    <2> QED
      BY <1>1, <1>2, <1>3, <1>4, <1>5, <1>6, <1>7, <1>8, <2>1 DEF MainStep

(* The steps that queue a work, list a client, or delete one.              *)
LEMMA MainEffect ==
  ASSUME TypeOK, ListShape, MainShape, MainStep
  PROVE  MainKinds
  <1> USE DEF NotTheMainThreads, workVars, cancelVars
  <1>0. /\ main \in MainState /\ mClientSessions \in Seq(Sessions \union {Listener})
        /\ \A s \in Sessions : OnList(s) \in Nat /\ IsFiniteSet(HeldAt(s))
        /\ main.index \in Nat /\ Len(mClientSessions) \in Nat
    BY OnListNat, ListFacts DEF TypeOK, ServerTypeOK
  <1>a. ASSUME main.at \in Plain, NEW k \in 2 .. Len(mClientSessions), k = main.index
        PROVE  Current \in Sessions /\ OnList(Current) >= 1
    <2>1. Current \in Sessions
      BY <1>a, CurrentIsSession DEF ClientIndex
    <2>2. k \in HeldAt(Current)
      BY <1>0, <1>a, PlainPlaces DEF Places, Current
    <2>3. OnList(Current) # 0
      BY <1>0, <2>1, <2>2, FS_EmptySet DEF OnList
    <2> QED
      BY <1>0, <2>1, <2>3
  <1>1. ASSUME NEW s \in Sessions, AcceptFails(s) \/ AcceptAndRelease(s)
        PROVE  Refuses(s)
    <2>1. main.at = "dispatch" /\ main'.at = "sweep"
      BY <1>0, <1>1 DEF AcceptFails, AcceptAndRelease, Dispatching, ToSweep, MainState
    <2>2. /\ Workless /\ UNCHANGED mClientSessions
          /\ link[s] = "pending" /\ link' = [link EXCEPT ![s] = "closed"]
          /\ released' \in {released, released \union {s}}
      BY <1>1 DEF AcceptFails, AcceptAndRelease, ReleaseSession, CloseSocket, Workless, queueVars,
         sessionVars
    <2>3. ListKept
      BY <2>1, <2>2, PlainMove DEF Plain
    <2> QED
      BY <2>1, <2>2, <2>3 DEF Refuses, ShuttingDown, Plain
  <1>2. ASSUME NEW s \in Sessions, Accept(s)
        PROVE  Opens(s)
    <2>1. main.at = "dispatch" /\ main'.at = "sweep"
      BY <1>0, <1>2 DEF Accept, Dispatching, ToSweep, MainState
    <2>2. /\ Workless /\ UNCHANGED released
          /\ mClientSessions' = Append(mClientSessions, s)
          /\ link[s] = "pending" /\ link' = [link EXCEPT ![s] = "open"]
      BY <1>2 DEF Accept, Workless, queueVars
    <2>3. ASSUME NEW r \in Sessions
          PROVE  OnList(r)' = OnList(r) + (IF r = s THEN 1 ELSE 0)
      <3>1. Cardinality(Places(Append(mClientSessions, s), r)) =
              Cardinality(Places(mClientSessions, r)) + (IF r = s THEN 1 ELSE 0)
        BY <1>0, PushCounts
      <3>2. HeldAt(r) = Places(mClientSessions, r)
        BY <2>1, PlainPlaces DEF Plain
      <3>3. HeldAt(r)' = Places(Append(mClientSessions, s), r)
        BY <2>1, <2>2, PlainPlacesNext DEF Plain
      <3> QED
        BY <3>1, <3>2, <3>3 DEF OnList
    <2> QED
      BY <2>1, <2>2, <2>3 DEF Opens, ShuttingDown, Plain
  <1>3. CASE QueueRead
    <2>1. main.at = "dispatch" /\ main'.at = "signal" /\ main.index \in 2 .. Len(mClientSessions)
      <3>1. main.at = "dispatch" /\ main'.at = "signal" /\ main.events # {"FD_ACCEPT"}
        BY <1>0, <1>3 DEF QueueRead, Dispatching, ToSignalRead, MainState
      <3> QED
        BY <3>1 DEF MainShape, ClientIndex
    <2>2. PICK s \in Sessions : s = Current /\ OnList(s) >= 1
      BY <1>a, <2>1 DEF Plain
    <2>3. /\ UNCHANGED <<pc, work, held, released, link, mClientSessions>>
          /\ QueueWork(ReadWork(s))
      BY <1>3, <2>2 DEF QueueRead, netVars
    <2>4. OneAdded(ReadWork(s))
      BY <2>3, WorkKinds, QueueCopies DEF OneAdded
    <2>5. ListKept
      BY <2>1, <2>3, PlainMove DEF Plain
    <2>6. Asks(s)
      BY <2>1, <2>2, <2>3, <2>4, <2>5 DEF Asks, ShuttingDown
    <2> QED
      BY <2>6 DEF MainKinds
  <1>4. CASE HandshakeToClose \/ Disconnected \/ ScanInvalidates
    <2>1. /\ main.at \in {"dispatch", "scan"} /\ main'.at = "signalclose"
          /\ main.index \in 2 .. Len(mClientSessions) /\ main'.index = main.index
      <3>1. CASE HandshakeToClose \/ Disconnected
        <4>1. /\ main.at = "dispatch" /\ main'.at = "signalclose"
              /\ main.events # {"FD_ACCEPT"} /\ main'.index = main.index
          BY <1>0, <3>1 DEF HandshakeToClose, Disconnected, Dispatching, ToSignalClose, MainState
        <4> QED
          BY <4>1 DEF MainShape, ClientIndex
      <3>2. CASE ScanInvalidates
        <4>1. /\ main.at = "scan" /\ main'.at = "signalclose"
              /\ main.index <= Len(mClientSessions) /\ main'.index = main.index
          BY <1>0, <3>2 DEF ScanInvalidates, Scanning, MainState
        <4> QED
          BY <1>0, <4>1 DEF MainShape
      <3> QED
        BY <1>4, <3>1, <3>2
    <2>2. PICK s \in Sessions : s = Current /\ OnList(s) >= 1
      BY <1>a, <2>1 DEF Plain
    <2>3. /\ UNCHANGED <<pc, work, held, released, link, mClientSessions>>
          /\ QueueWork(CloseWork(s))
      BY <1>4, <2>2 DEF HandshakeToClose, Disconnected, ScanInvalidates, QueueClose, netVars,
         sessionVars
    <2>4. OneAdded(CloseWork(s))
      BY <2>3, WorkKinds, QueueCopies DEF OneAdded
    <2>5. \A j \in DOMAIN mClientSessions : Holds(j)' <=> Holds(j) /\ j # main.index
      BY <2>1 DEF Holds
    <2>6. Holds(main.index)
      BY <2>1 DEF Holds
    <2>7. \A r \in Sessions : OnList(r)' = OnList(r) - (IF r = s THEN 1 ELSE 0)
      BY <1>0, <2>1, <2>2, <2>3, <2>5, <2>6, LetGo
    <2>8. Closes(s)
      BY <2>1, <2>2, <2>3, <2>4, <2>7 DEF Closes, ShuttingDown
    <2> QED
      BY <2>8 DEF MainKinds
  <1>5. CASE DestroyRelease
    <2>1. /\ main.at = "destroyrelease" /\ main'.at = "destroy"
          /\ main.index \in 2 .. Len(mClientSessions) /\ main'.index = main.index + 1
      <3>1. main.at = "destroyrelease" /\ main'.at = "destroy" /\ main'.index = main.index + 1
        BY <1>0, <1>5 DEF DestroyRelease, MainState
      <3> QED
        BY <3>1 DEF MainShape, ClientIndex
    <2>2. PICK s \in Sessions : s = Current
      BY <2>1, CurrentIsSession DEF ClientIndex
    <2>3. /\ Workless /\ UNCHANGED mClientSessions
          /\ link' = [link EXCEPT ![s] = "closed"]
          /\ released' = released \union {s}
      BY <1>5, <2>2 DEF DestroyRelease, ReleaseSession, CloseSocket, Workless, queueVars
    <2>4. \A j \in DOMAIN mClientSessions : Holds(j)' <=> Holds(j) /\ j # main.index
      BY <1>0, <2>1 DEF Holds
    <2>5. Holds(main.index)
      BY <1>0, <2>1 DEF Holds
    <2>6. \A r \in Sessions : OnList(r)' = OnList(r) - (IF r = s THEN 1 ELSE 0)
      BY <1>0, <2>1, <2>2, <2>3, <2>4, <2>5, LetGo
    <2>7. OnList(s) >= 1
      <3>1. main.index \in HeldAt(s)
        BY <1>0, <2>1, <2>2, <2>5 DEF HeldAt, Current
      <3>2. OnList(s) # 0
        BY <1>0, <3>1, FS_EmptySet DEF OnList
      <3> QED
        BY <1>0, <3>2
    <2>8. Destroys(s)
      BY <2>1, <2>3, <2>6, <2>7 DEF Destroys, ShuttingDown
    <2> QED
      BY <2>8 DEF MainKinds
  <1>6. CASE /\ ~Dispatch \/ ContinueHandshake \/ NoCaseMatches
             /\ ~ScanInvalidates /\ ~DestroyRelease
    BY <1>6, MainIdles DEF MainKinds
  <1> QED
    BY <1>1, <1>2, <1>3, <1>4, <1>5, <1>6 DEF Dispatch, MainKinds

-----------------------------------------------------------------------------
(* The invariant                                                           *)

(* What ownership adds up, as numbers.                                     *)
Numbers ==
  \A s \in Sessions : /\ OnList(s) \in Nat
                      /\ Copies(CloseWork(s)) \in Nat
                      /\ Copies(ReadWork(s)) \in Nat
                      /\ Owners(s) = OnList(s) + Copies(CloseWork(s))

LEMMA OwnersNat == TypeOK => Numbers
  BY OnListNat, CopiesNat DEF Numbers, Owners, OnList

(* The main thread keeps one owner per session.                            *)
LEMMA MainOwns ==
  ASSUME TypeOK, TypeOK', Ownership, MainKinds
  PROVE  Ownership'
  <1>m. Numbers /\ Numbers'
    BY OwnersNat, PTL
  <1>n. ASSUME NEW s \in Sessions
        PROVE  /\ OnList(s) \in Nat /\ OnList(s)' \in Nat
               /\ Copies(CloseWork(s)) \in Nat /\ Copies(CloseWork(s))' \in Nat
               /\ Copies(ReadWork(s)) \in Nat /\ Copies(ReadWork(s))' \in Nat
               /\ Owners(s) = OnList(s) + Copies(CloseWork(s))
               /\ Owners(s)' = OnList(s)' + Copies(CloseWork(s))'
    BY <1>m DEF Numbers
  <1>l. link \in [Sessions -> LinkState] /\ link' \in [Sessions -> LinkState]
    BY DEF TypeOK, NetTypeOK
  <1>w. ASSUME Workless, NEW s \in Sessions
        PROVE  /\ Copies(CloseWork(s))' = Copies(CloseWork(s))
               /\ Copies(ReadWork(s))' = Copies(ReadWork(s))
    BY <1>w, CopiesKept DEF Workless
  <1>1. CASE Idles
    <2>1. ASSUME NEW s \in Sessions
          PROVE  /\ Owners(s)' <= 1
                 /\ s \in released' => Owners(s)' = 0
                 /\ link'[s] \in {"unused", "pending"} =>
                      Owners(s)' = 0 /\ s \notin released' /\ Copies(ReadWork(s))' = 0
                 /\ link'[s] = "open" /\ ~ShuttingDown' => Owners(s)' = 1
      BY <1>1, <1>n, <1>w DEF Idles, ListKept, Ownership
    <2> QED
      BY <2>1 DEF Ownership
  <1>2. ASSUME NEW c \in Sessions, Asks(c)
        PROVE  Ownership'
    <2>1. ASSUME NEW s \in Sessions
          PROVE  /\ Owners(s)' = Owners(s)
                 /\ s # c => Copies(ReadWork(s))' = Copies(ReadWork(s))
                 /\ link'[s] = link[s]
      BY <1>2, <1>n, WorkKinds DEF Asks, OneAdded, ListKept
    <2>2. link[c] \notin {"unused", "pending"}
      BY <1>2, <1>n DEF Asks, Ownership
    <2> QED
      BY <1>2, <2>1, <2>2 DEF Ownership, Asks
  <1>3. ASSUME NEW c \in Sessions, Closes(c)
        PROVE  Ownership'
    <2>1. ASSUME NEW s \in Sessions
          PROVE  /\ Owners(s)' = Owners(s)
                 /\ Copies(ReadWork(s))' = Copies(ReadWork(s))
                 /\ link'[s] = link[s]
      <3>1. Copies(CloseWork(s))' = Copies(CloseWork(s)) + (IF s = c THEN 1 ELSE 0)
        BY <1>3, WorkKinds DEF Closes, OneAdded
      <3>2. Copies(ReadWork(s))' = Copies(ReadWork(s))
        BY <1>3, <1>n, WorkKinds DEF Closes, OneAdded
      <3>3. OnList(s)' = OnList(s) - (IF s = c THEN 1 ELSE 0)
        BY <1>3 DEF Closes
      <3> QED
        BY <1>3, <1>n, <3>1, <3>2, <3>3 DEF Closes
    <2> QED
      BY <1>3, <2>1 DEF Ownership, Closes
  <1>4. ASSUME NEW c \in Sessions, Opens(c)
        PROVE  Ownership'
    <2>1. ASSUME NEW s \in Sessions
          PROVE  /\ s = c => Owners(s)' = Owners(s) + 1
                 /\ s # c => Owners(s)' = Owners(s)
                 /\ Copies(ReadWork(s))' = Copies(ReadWork(s))
                 /\ s # c => link'[s] = link[s]
      <3>1. OnList(s)' = OnList(s) + (IF s = c THEN 1 ELSE 0)
        BY <1>4 DEF Opens
      <3> QED
        BY <1>4, <1>n, <1>w, <1>l, <3>1 DEF Opens
    <2>2. Owners(c) = 0 /\ c \notin released /\ link'[c] = "open"
      BY <1>4, <1>l DEF Opens, Ownership
    <2>3. ASSUME NEW s \in Sessions
          PROVE  /\ Owners(s)' <= 1
                 /\ s \in released' => Owners(s)' = 0
                 /\ link'[s] \in {"unused", "pending"} =>
                      Owners(s)' = 0 /\ s \notin released' /\ Copies(ReadWork(s))' = 0
                 /\ link'[s] = "open" /\ ~ShuttingDown' => Owners(s)' = 1
      <3>1. CASE s = c
        <4>1. Owners(s)' = 1
          BY <2>1, <2>2, <3>1
        <4>2. s \notin released' /\ link'[s] = "open"
          BY <1>4, <2>2, <3>1 DEF Opens
        <4> QED
          BY <4>1, <4>2
      <3>2. CASE s # c
        <4>1. Owners(s)' = Owners(s) /\ link'[s] = link[s] /\ Copies(ReadWork(s))' = Copies(ReadWork(s))
          BY <2>1, <3>2
        <4>2. released' = released /\ ~ShuttingDown
          BY <1>4 DEF Opens
        <4> QED
          BY <4>1, <4>2 DEF Ownership
      <3> QED
        BY <3>1, <3>2
    <2> QED
      BY <2>3 DEF Ownership
  <1>5. ASSUME NEW c \in Sessions, Refuses(c)
        PROVE  Ownership'
    <2>1. ASSUME NEW s \in Sessions
          PROVE  /\ Owners(s)' = Owners(s)
                 /\ Copies(ReadWork(s))' = Copies(ReadWork(s))
                 /\ s # c => link'[s] = link[s]
      BY <1>5, <1>n, <1>w, <1>l DEF Refuses, ListKept
    <2>2. Owners(c) = 0 /\ link'[c] = "closed"
      BY <1>5, <1>l DEF Refuses, Ownership
    <2> QED
      BY <1>5, <2>1, <2>2 DEF Ownership, Refuses
  <1>6. ASSUME NEW c \in Sessions, Destroys(c)
        PROVE  Ownership'
    <2>1. ASSUME NEW s \in Sessions
          PROVE  /\ s = c => Owners(s)' = Owners(s) - 1
                 /\ s # c => Owners(s)' = Owners(s)
                 /\ Copies(ReadWork(s))' = Copies(ReadWork(s))
                 /\ s # c => link'[s] = link[s]
      <3>1. OnList(s)' = OnList(s) - (IF s = c THEN 1 ELSE 0)
        BY <1>6 DEF Destroys
      <3> QED
        BY <1>6, <1>n, <1>w, <1>l, <3>1 DEF Destroys
    <2>2. Owners(c) = 1 /\ link'[c] = "closed"
      BY <1>6, <1>l, <1>n DEF Destroys, Ownership
    <2>3. ASSUME NEW s \in Sessions
          PROVE  /\ Owners(s)' <= 1
                 /\ s \in released' => Owners(s)' = 0
                 /\ link'[s] \in {"unused", "pending"} =>
                      Owners(s)' = 0 /\ s \notin released' /\ Copies(ReadWork(s))' = 0
                 /\ link'[s] = "open" /\ ~ShuttingDown' => Owners(s)' = 1
      <3>1. CASE s = c
        <4>1. Owners(s)' = 0
          BY <2>1, <2>2, <3>1
        <4> QED
          BY <2>2, <3>1, <4>1
      <3>2. CASE s # c
        <4>1. Owners(s)' = Owners(s) /\ link'[s] = link[s] /\ Copies(ReadWork(s))' = Copies(ReadWork(s))
          BY <2>1, <3>2
        <4>2. (s \in released' => s \in released) /\ ShuttingDown'
          BY <1>6, <3>2 DEF Destroys
        <4> QED
          BY <4>1, <4>2 DEF Ownership
      <3> QED
        BY <3>1, <3>2
    <2> QED
      BY <2>3 DEF Ownership
  <1> QED
    BY <1>1, <1>2, <1>3, <1>4, <1>5, <1>6 DEF MainKinds

(* A worker ends a READ, or ends a CLOSE and deletes its session.          *)
WorkerKinds ==
  /\ UNCHANGED serverVars
  /\ \/ AllKept /\ UNCHANGED <<released, link>>
     \/ \E s \in Sessions : /\ OneEnded(ReadWork(s)) /\ Copies(ReadWork(s)) >= 1
                           /\ UNCHANGED <<released, link>>
     \/ \E s \in Sessions : /\ OneEnded(CloseWork(s)) /\ Copies(CloseWork(s)) >= 1
                           /\ released' = released \union {s}
                           /\ link' = [link EXCEPT ![s] = "closed"]

LEMMA WorkerEffect ==
  ASSUME TypeOK, WorkShape, RotationSafe, EmptyHands, NEW w \in Workers, Worker(w)
  PROVE  WorkerKinds
  BY RunEffect, PoolEffect DEF Worker, WorkerStep, WorkerKinds

(* The list and what it stands for depend on the main thread only.         *)
LEMMA ListUntouched ==
  ASSUME UNCHANGED <<mClientSessions, main>>
  PROVE  ListKept /\ ShuttingDown' = ShuttingDown /\ UNCHANGED Current
  <1>1. ASSUME NEW s \in Sessions
        PROVE  HeldAt(s)' = HeldAt(s)
    BY DEF HeldAt, Holds
  <1> QED
    BY <1>1 DEF ListKept, OnList, ShuttingDown, Current

(* The workers keep one owner per session.                                 *)
LEMMA WorkerOwns ==
  ASSUME TypeOK, TypeOK', Ownership, WorkerKinds
  PROVE  Ownership'
  <1>m. Numbers /\ Numbers'
    BY OwnersNat, PTL
  <1>n. ASSUME NEW s \in Sessions
        PROVE  /\ OnList(s) \in Nat /\ OnList(s)' \in Nat
               /\ Copies(CloseWork(s)) \in Nat /\ Copies(CloseWork(s))' \in Nat
               /\ Copies(ReadWork(s)) \in Nat /\ Copies(ReadWork(s))' \in Nat
               /\ Owners(s) = OnList(s) + Copies(CloseWork(s))
               /\ Owners(s)' = OnList(s)' + Copies(CloseWork(s))'
    BY <1>m DEF Numbers
  <1>l. link \in [Sessions -> LinkState] /\ link' \in [Sessions -> LinkState]
    BY DEF TypeOK, NetTypeOK
  <1>s. ListKept /\ ShuttingDown' = ShuttingDown
    BY ListUntouched DEF WorkerKinds, serverVars
  <1>1. CASE AllKept /\ UNCHANGED <<released, link>>
    <2>1. ASSUME NEW s \in Sessions
          PROVE  Owners(s)' = Owners(s) /\ Copies(ReadWork(s))' = Copies(ReadWork(s))
      BY <1>1, <1>n, <1>s, WorkKinds DEF AllKept, ListKept
    <2> QED
      BY <1>1, <1>s, <2>1 DEF Ownership
  <1>2. ASSUME NEW c \in Sessions, OneEnded(ReadWork(c)), Copies(ReadWork(c)) >= 1,
               UNCHANGED <<released, link>>
        PROVE  Ownership'
    <2>1. ASSUME NEW s \in Sessions
          PROVE  /\ Owners(s)' = Owners(s)
                 /\ s # c => Copies(ReadWork(s))' = Copies(ReadWork(s))
      BY <1>2, <1>n, <1>s, WorkKinds DEF OneEnded, ListKept
    <2>2. link[c] \notin {"unused", "pending"}
      BY <1>2 DEF Ownership
    <2> QED
      BY <1>2, <1>s, <2>1, <2>2 DEF Ownership
  <1>3. ASSUME NEW c \in Sessions, OneEnded(CloseWork(c)), Copies(CloseWork(c)) >= 1,
               released' = released \union {c}, link' = [link EXCEPT ![c] = "closed"]
        PROVE  Ownership'
    <2>1. ASSUME NEW s \in Sessions
          PROVE  /\ s = c => Owners(s)' = Owners(s) - 1
                 /\ s # c => Owners(s)' = Owners(s)
                 /\ Copies(ReadWork(s))' = Copies(ReadWork(s))
                 /\ s # c => link'[s] = link[s]
      <3>1. Copies(CloseWork(s))' = Copies(CloseWork(s)) - (IF s = c THEN 1 ELSE 0)
        BY <1>3, WorkKinds DEF OneEnded
      <3>2. Copies(ReadWork(s))' = Copies(ReadWork(s))
        BY <1>3, <1>n, WorkKinds DEF OneEnded
      <3>3. OnList(s)' = OnList(s)
        BY <1>s DEF ListKept
      <3> QED
        BY <1>3, <1>n, <1>l, <3>1, <3>2, <3>3
    <2>2. Owners(c) = 1 /\ link'[c] = "closed"
      BY <1>3, <1>l, <1>n DEF Ownership
    <2>3. ASSUME NEW s \in Sessions
          PROVE  /\ Owners(s)' <= 1
                 /\ s \in released' => Owners(s)' = 0
                 /\ link'[s] \in {"unused", "pending"} =>
                      Owners(s)' = 0 /\ s \notin released' /\ Copies(ReadWork(s))' = 0
                 /\ link'[s] = "open" /\ ~ShuttingDown' => Owners(s)' = 1
      <3>1. CASE s = c
        <4>1. Owners(s)' = 0
          BY <2>1, <2>2, <3>1
        <4> QED
          BY <2>2, <3>1, <4>1
      <3>2. CASE s # c
        <4>1. Owners(s)' = Owners(s) /\ link'[s] = link[s] /\ Copies(ReadWork(s))' = Copies(ReadWork(s))
          BY <2>1, <3>2
        <4>2. s \in released' => s \in released
          BY <1>3, <3>2
        <4> QED
          BY <1>s, <4>1, <4>2 DEF Ownership
      <3> QED
        BY <3>1, <3>2
    <2> QED
      BY <2>3 DEF Ownership
  <1> QED
    BY <1>1, <1>2, <1>3 DEF WorkerKinds

(* What is about to leave the list stays closed or deleted.                *)
LEMMA WorkerErases ==
  ASSUME TypeOK, TypeOK', ListShape, MainShape, ErasedIsClosed, WorkerKinds
  PROVE  ErasedIsClosed'
  <1> SUFFICES ASSUME main'.at \in {"signalclose", "erase"}, NEW c \in Sessions, c = Current'
               PROVE  c \in released' \/ Copies(CloseWork(c))' > 0
    BY DEF ErasedIsClosed, Closing
  <1>1. UNCHANGED <<mClientSessions, main>> /\ Current' = Current
    BY ListUntouched DEF WorkerKinds, serverVars
  <1>2. c = Current
    BY <1>1
  <1>3. c \in released \/ Copies(CloseWork(c)) > 0
    BY <1>1, <1>2 DEF ErasedIsClosed, Closing
  <1>n. Copies(CloseWork(c)) \in Nat /\ Copies(CloseWork(c))' \in Nat
    <2>1. Numbers /\ Numbers'
      BY OwnersNat, PTL
    <2> QED
      BY <2>1 DEF Numbers
  <1>4. c \in released' \/ Copies(CloseWork(c))' > 0
    <2>1. CASE AllKept /\ UNCHANGED released
      BY <1>3, <2>1, WorkKinds DEF AllKept
    <2>2. ASSUME NEW s \in Sessions, OneEnded(ReadWork(s)), UNCHANGED released
          PROVE  c \in released' \/ Copies(CloseWork(c))' > 0
      <3>1. Copies(CloseWork(c))' = Copies(CloseWork(c))
        BY <1>n, <2>2, WorkKinds DEF OneEnded
      <3> QED
        BY <1>3, <2>2, <3>1
    <2>3. ASSUME NEW s \in Sessions, OneEnded(CloseWork(s)), released' = released \union {s}
          PROVE  c \in released' \/ Copies(CloseWork(c))' > 0
      <3>1. s # c => Copies(CloseWork(c))' = Copies(CloseWork(c))
        BY <1>n, <2>3, WorkKinds DEF OneEnded
      <3> QED
        BY <1>3, <2>3, <3>1
    <2> QED
      BY <2>1, <2>2, <2>3 DEF WorkerKinds
  <1> QED
    BY <1>4

(* The main thread erases only what it has queued a CLOSE for.             *)
LEMMA MainErases ==
  ASSUME TypeOK, ListShape, MainShape, ErasedIsClosed, MainStep
  PROVE  ErasedIsClosed'
  <1>0. main \in MainState /\ mClientSessions \in Seq(Sessions \union {Listener})
    BY DEF TypeOK, ServerTypeOK
  <1> SUFFICES ASSUME main'.at \in {"signalclose", "erase"}, NEW c \in Sessions, c = Current'
               PROVE  c \in released' \/ Copies(CloseWork(c))' > 0
    BY DEF ErasedIsClosed, Closing
  <1>1. \/ HandshakeToClose \/ Disconnected \/ ScanInvalidates
        \/ Signal /\ main.at = "signalclose"
    <2> USE DEF MainState
    <2>1. ~(SweepFinds \/ SweepNextChunk \/ SweepFailed \/ SweepTimesOut \/ LeaveLoop)
      BY <1>0 DEF SweepFinds, SweepNextChunk, SweepFailed, SweepTimesOut, LeaveLoop, Sweeping
    <2>2. ~(Enumerate \/ Erase \/ Nudge \/ ScanKeeps \/ ScanEnds \/ DrainSpin \/ Drain)
      BY <1>0 DEF Enumerate, Erase, Nudge, ScanKeeps, ScanEnds, DrainSpin, Drain,
         ToDestroy, Scanning
    <2>3. ~(DestroyRefused \/ DestroyBegin \/ DestroyRelease \/ StopPool \/ CloseHandles \/ Join)
      BY <1>0 DEF DestroyRefused, DestroyBegin, DestroyRelease, Destroying, StopPool, CloseHandles,
         Join, serverVars
    <2>4. ~(ContinueHandshake \/ QueueRead \/ NoCaseMatches)
      BY <1>0 DEF ContinueHandshake, QueueRead, NoCaseMatches, ToSweep, ToSignalRead
    <2>5. \A s \in Sessions : ~(AcceptFails(s) \/ Accept(s) \/ AcceptAndRelease(s))
      BY <1>0 DEF AcceptFails, Accept, AcceptAndRelease, ToSweep
    <2>6. Signal => main.at = "signalclose"
      BY <1>0 DEF Signal
    <2> QED
      BY <2>1, <2>2, <2>3, <2>4, <2>5, <2>6 DEF MainStep, Dispatch
  <1>2. CASE HandshakeToClose \/ Disconnected \/ ScanInvalidates
    <2>1. UNCHANGED <<pc, work, held, mClientSessions>> /\ QueueWork(CloseWork(Current))
      BY <1>2 DEF HandshakeToClose, Disconnected, ScanInvalidates, QueueClose, NotTheMainThreads,
         workVars, cancelVars
    <2>2. main'.index = main.index /\ ClientIndex
      <3>1. CASE HandshakeToClose \/ Disconnected
        BY <1>0, <3>1 DEF HandshakeToClose, Disconnected, Dispatching, ToSignalClose, MainState,
           MainShape
      <3>2. CASE ScanInvalidates
        BY <1>0, <3>2 DEF ScanInvalidates, Scanning, MainState, MainShape, ClientIndex
      <3> QED
        BY <1>2, <3>1, <3>2
    <2>3. c = Current
      BY <2>1, <2>2 DEF Current
    <2>4. Copies(CloseWork(c))' = Copies(CloseWork(c)) + 1
      <3>1. CloseWork(c) \in Work /\ QueueWork(CloseWork(c))
        BY <2>1, <2>3, WorkKinds
      <3> QED
        BY <2>1, <3>1, QueueCopies
    <2>5. Copies(CloseWork(c)) \in Nat
      BY CopiesNat
    <2> QED
      BY <2>4, <2>5
  <1>3. CASE Signal /\ main.at = "signalclose"
    <2>1. main'.index = main.index /\ UNCHANGED <<mClientSessions, released>>
      BY <1>0, <1>3 DEF Signal, MainState, sessionVars
    <2>2. c = Current
      BY <2>1 DEF Current
    <2>3. UNCHANGED <<mClientWorks, pc, work, held>>
      BY <1>3 DEF Signal, NotTheMainThreads, workVars, cancelVars
    <2>4. Copies(CloseWork(c))' = Copies(CloseWork(c))
      BY <2>3, CopiesKept
    <2>5. c \in released \/ Copies(CloseWork(c)) > 0
      BY <1>3, <2>2 DEF ErasedIsClosed, Closing
    <2> QED
      BY <2>1, <2>4, <2>5
  <1> QED
    BY <1>1, <1>2, <1>3

(* The clients, the clock and the console own nothing.                     *)
LEMMA OutsideOwns ==
  ASSUME TypeOK, EmptyHands, Ownership, ErasedIsClosed,
         \/ \E s \in Sessions : Client(s) \/ Clock(s)
         \/ PressQuit
         \/ UNCHANGED vars
  PROVE  /\ EmptyHands' /\ Ownership' /\ ErasedIsClosed'
         /\ UNCHANGED <<mClientWorks, pc, work, held, released, mClientSessions>>
  <1>1. /\ UNCHANGED <<mClientWorks, pc, work, held, mClientSessions, main>>
        /\ UNCHANGED released
    <2>1. UNCHANGED <<mClientWorks, pc, work, held, mClientSessions, main>>
      BY OutsideTyping DEF workVars, poolVars, queueVars, cancelVars
    <2>2. UNCHANGED released
      BY DEF Client, Clock, TimePasses, PressQuit, vars, sessionVars
    <2> QED
      BY <2>1, <2>2
  <1>2. /\ \A x : Copies(x)' = Copies(x)
        /\ ListKept /\ ShuttingDown' = ShuttingDown /\ Current' = Current
    BY <1>1, CopiesKept, ListUntouched
  <1>3. \A s \in Sessions : Owners(s)' = Owners(s)
    BY <1>2 DEF Owners, ListKept, OnList
  <1>4. ASSUME NEW s \in Sessions
        PROVE  \/ link'[s] = link[s]
               \/ link[s] = "unused" /\ link'[s] = "pending"
    <2>1. link \in [Sessions -> LinkState]
      BY DEF TypeOK, NetTypeOK
    <2> QED
      BY <2>1 DEF Client, ClientStep, ClientConnect, ClientSend, ClientClose, Clock, PressQuit,
         vars, netVars
  <1>5. Ownership'
    BY <1>1, <1>2, <1>3, <1>4 DEF Ownership
  <1>6. EmptyHands'
    BY <1>1 DEF EmptyHands
  <1>7. ErasedIsClosed'
    BY <1>1, <1>2 DEF ErasedIsClosed, Closing
  <1> QED
    BY <1>1, <1>5, <1>6, <1>7

(* Before any client connects, nothing is owned.                           *)
LEMMA OwnedInitially == Init => EmptyHands /\ Ownership /\ ErasedIsClosed
  <1> SUFFICES ASSUME Init PROVE EmptyHands /\ Ownership /\ ErasedIsClosed
    OBVIOUS
  <1>1. EmptyHands
    BY DEF Init, WorkInit, PoolInit, EmptyHands
  <1>2. ErasedIsClosed
    BY DEF Init, ServerInit, ErasedIsClosed
  <1>3. ASSUME NEW x \in Work
        PROVE  Copies(x) = 0
    <2>1. InQueue(x) = {} /\ InHand(x) = {} /\ held # x
      BY NoWorkAssumption DEF Init, WorkInit, PoolInit, InQueue, InHand, Finished
    <2> QED
      BY <2>1, FS_EmptySet DEF Copies
  <1>4. ASSUME NEW s \in Sessions
        PROVE  Owners(s) = 0 /\ Copies(ReadWork(s)) = 0
    <2>1. HeldAt(s) = {}
      BY ListenerAssumption DEF Init, ServerInit, HeldAt
    <2>2. Cardinality(HeldAt(s)) = 0
      BY <2>1, FS_EmptySet
    <2> QED
      BY <1>3, <2>2, WorkKinds DEF Owners
  <1>5. \A s \in Sessions : s \notin released /\ link[s] = "unused"
    BY DEF Init, SessionInit, NetInit
  <1> QED
    BY <1>1, <1>2, <1>4, <1>5 DEF Ownership

(* Every step keeps one owner per session.                                 *)
LEMMA OwnedInductive == OInv /\ [Next]_vars => OInv'
  <1> SUFFICES ASSUME OInv, [Next]_vars PROVE OInv'
    OBVIOUS
  <1>1. IInv /\ IInv' /\ TypeOK /\ TypeOK'
    BY Inductive DEF OInv, IInv
  <1>2. CASE MainStep
    <2>1. MainKinds
      BY <1>1, <1>2, MainEffect DEF IInv
    <2>2. EmptyHands'
      <3>1. UNCHANGED <<pc, work, held>>
        BY <1>1, <1>2, MainLeavesWorkers DEF IInv, workVars, cancelVars
      <3> QED
        BY <3>1 DEF OInv, EmptyHands
    <2>3. Ownership'
      BY <1>1, <2>1, MainOwns DEF OInv
    <2>4. ErasedIsClosed'
      BY <1>1, <1>2, MainErases DEF OInv, IInv
    <2> QED
      BY <1>1, <2>2, <2>3, <2>4 DEF OInv
  <1>3. ASSUME NEW w \in Workers, Worker(w)
        PROVE  OInv'
    <2>1. WorkerKinds
      BY <1>1, <1>3, WorkerEffect DEF OInv, IInv
    <2>2. EmptyHands'
      BY <1>1, <1>3, WorkerHands DEF OInv, IInv
    <2>3. Ownership' /\ ErasedIsClosed'
      BY <1>1, <2>1, WorkerOwns, WorkerErases DEF OInv, IInv
    <2> QED
      BY <1>1, <2>2, <2>3 DEF OInv
  <1>4. CASE \/ \E s \in Sessions : Client(s) \/ Clock(s)
             \/ PressQuit
             \/ UNCHANGED vars
    BY <1>1, <1>4, OutsideOwns DEF OInv
  <1> QED
    BY <1>2, <1>3, <1>4 DEF Next, Running, Halted

(* The strengthened invariant holds in every reachable state.              *)
THEOREM OwnershipInvariant == Spec => []OInv
  <1>1. Init => OInv
    BY Initially, OwnedInitially DEF OInv
  <1> QED
    BY <1>1, OwnedInductive, PTL DEF Spec

(* A session has one owner at most, the list or a single CLOSE, and none   *)
(* once it is deleted: no path of the main thread, of cancelWorks or of    *)
(* the requeue of a refused CLOSE has it deleted twice, or lets the main   *)
(* thread look at it afterwards.                                           *)
THEOREM OneOwnerEach == Spec => []OneOwner
  <1>1. OInv => OneOwner
    BY DEF OInv, Ownership, OneOwner
  <1> QED
    BY <1>1, OwnershipInvariant, PTL

(* An open connection always has an owner that will close it, until the    *)
(* destructor runs.                                                        *)
THEOREM NoneLost == Spec => []NotLost
  <1>1. OInv => NotLost
    BY DEF OInv, Ownership, NotLost
  <1> QED
    BY <1>1, OwnershipInvariant, PTL

-----------------------------------------------------------------------------
(* The server implements SessionLifecycle                                  *)

(* The phase of one session moves, and no READ comes or goes.              *)
LEMMA PhaseMoves ==
  ASSUME NEW s \in Sessions, NEW from, NEW to, Phase(s) = from, Phase(s)' = to,
         \A r \in Sessions : r # s => Phase(r)' = Phase(r),
         \A r \in Sessions : Copies(ReadWork(r))' = Copies(ReadWork(r))
  PROVE  Lifecycle!Move(s, from, to)
  <1>1. phases[s] = from /\ phases' = [phases EXCEPT ![s] = to]
    BY DEF phases
  <1>2. UNCHANGED readCounts
    BY DEF readCounts
  <1> QED
    BY <1>1, <1>2 DEF Lifecycle!Move

(* Nothing moves, and no READ comes or goes.                               *)
LEMMA PhaseStays ==
  ASSUME \A r \in Sessions : Phase(r)' = Phase(r),
         \A r \in Sessions : Copies(ReadWork(r))' = Copies(ReadWork(r))
  PROVE  UNCHANGED <<phases, readCounts>>
  BY DEF phases, readCounts

(* What the list stands for is listed.                                     *)
LEMMA OnListIsListed ==
  ASSUME NEW s \in Sessions, OnList(s) >= 1
  PROVE  s \in Listed
  <1>1. HeldAt(s) # {}
    BY FS_EmptySet DEF OnList
  <1> QED
    BY <1>1, ListenerAssumption DEF HeldAt, Listed

(* A session that the list stands for is in phase "listed".                *)
LEMMA OnListPhase ==
  ASSUME TypeOK, Ownership, NEW s \in Sessions, OnList(s) >= 1
  PROVE  Phase(s) = "listed" /\ s \notin released /\ ~Closing(s)
  <1>1. Numbers
    BY OwnersNat
  <1>2. s \notin released /\ Copies(CloseWork(s)) = 0
    BY <1>1 DEF Numbers, Ownership
  <1> QED
    BY <1>2, OnListIsListed DEF Phase, Closing

(* A client that waits to be accepted is in phase "unborn".                *)
LEMMA PendingPhase ==
  ASSUME TypeOK, Ownership, NEW s \in Sessions, link[s] = "pending", main.at \in Plain
  PROVE  Phase(s) = "unborn" /\ s \notin released /\ ~Closing(s) /\ s \notin Listed
  <1>1. Numbers
    BY OwnersNat
  <1>2. s \notin released /\ Copies(CloseWork(s)) = 0 /\ OnList(s) = 0
    BY <1>1 DEF Numbers, Ownership
  <1>3. HeldAt(s) = {}
    BY <1>2, OnListNat, FS_EmptySet DEF OnList
  <1>4. s \notin Listed
    BY <1>3, PlainPlaces DEF Places, Listed
  <1> QED
    BY <1>2, <1>4 DEF Phase, Closing

(* Erase takes the entry at the index off the list, and no other.          *)
LEMMA ErasedList ==
  ASSUME TypeOK, MainShape, Erase, NEW s \in Sessions
  PROVE  /\ s \in Listed' => s \in Listed
         /\ s \in Listed /\ Current # s => s \in Listed'
  <1> DEFINE n == Len(mClientSessions)
             k == main.index
  <1>1. /\ mClientSessions \in Seq(Sessions \union {Listener}) /\ n \in Nat
        /\ k \in 2 .. n /\ main.at = "erase"
    BY DEF Erase, MainShape, ClientIndex, TypeOK, ServerTypeOK
  <1>2. mClientSessions' = CloseUp(mClientSessions, k)
    BY DEF Erase, Erased, CloseUp
  <1>3. /\ Len(mClientSessions') = n - 1 /\ DOMAIN mClientSessions' = 1 .. n - 1
        /\ \A i \in 1 .. n - 1 : mClientSessions'[i] =
             IF i < k THEN mClientSessions[i] ELSE mClientSessions[i + 1]
    <2>1. k \in 1 .. n
      BY <1>1
    <2>2. /\ CloseUp(mClientSessions, k) \in Seq(Sessions \union {Listener})
          /\ Len(CloseUp(mClientSessions, k)) = n - 1
          /\ \A i \in 1 .. n - 1 : CloseUp(mClientSessions, k)[i] =
               IF i < k THEN mClientSessions[i] ELSE mClientSessions[i + 1]
      BY <1>1, <2>1, CloseUpIsSeq
    <2> QED
      BY <1>2, <2>2
  <1>4. ASSUME s \in Listed' PROVE s \in Listed
    <2>1. PICK i \in 1 .. n - 1 : mClientSessions'[i] = s
      BY <1>3, <1>4 DEF Listed
    <2>2. i \in 1 .. n /\ i + 1 \in 1 .. n
      BY <1>1, <2>1
    <2>3. mClientSessions[i] = s \/ mClientSessions[i + 1] = s
      BY <1>3, <2>1
    <2>4. DOMAIN mClientSessions = 1 .. n /\ s # Listener
      BY <1>1, ListenerAssumption
    <2> QED
      BY <2>2, <2>3, <2>4 DEF Listed
  <1>5. ASSUME s \in Listed, Current # s PROVE s \in Listed'
    <2>1. PICK i \in 1 .. n : mClientSessions[i] = s
      BY <1>1, <1>5 DEF Listed
    <2>2. i # k /\ s # Listener
      BY <1>5, <2>1, ListenerAssumption DEF Current
    <2>3. CASE i < k
      <3>1. i \in 1 .. n - 1 /\ mClientSessions'[i] = s
        BY <1>1, <1>3, <2>1, <2>3
      <3> QED
        BY <1>3, <2>2, <3>1 DEF Listed
    <2>4. CASE i > k
      <3>1. i - 1 \in 1 .. n - 1 /\ ~(i - 1 < k) /\ i - 1 + 1 = i
        BY <1>1, <2>1, <2>4
      <3>2. mClientSessions'[i - 1] = s
        BY <1>3, <2>1, <3>1
      <3> QED
        BY <1>3, <2>2, <3>1, <3>2 DEF Listed
    <2> QED
      BY <1>1, <2>1, <2>2, <2>3, <2>4
  <1> QED
    BY <1>4, <1>5

(* Each step of the main thread opens, refuses, asks, closes or destroys   *)
(* a session, or is none of the lifecycle's steps: what is erased from the *)
(* list has left phase "listed" before.                                    *)
LEMMA MainRefines ==
  ASSUME TypeOK, TypeOK', ListShape, MainShape, Ownership, ErasedIsClosed, MainKinds
  PROVE  [Lifecycle!Next]_<<phases, readCounts>>
  <1>m. Numbers /\ Numbers'
    BY OwnersNat, PTL
  <1>w. ASSUME Workless, NEW s \in Sessions
        PROVE  /\ Copies(CloseWork(s))' = Copies(CloseWork(s))
               /\ Copies(ReadWork(s))' = Copies(ReadWork(s))
    BY <1>w, CopiesKept DEF Workless
  <1>1. CASE Idles
    <2>1. ASSUME NEW s \in Sessions
          PROVE  /\ Copies(ReadWork(s))' = Copies(ReadWork(s))
                 /\ Closing(s)' = Closing(s)
                 /\ s \in released' <=> s \in released
      BY <1>1, <1>w DEF Idles, Closing
    <2>2. ASSUME NEW s \in Sessions, s \notin released, ~Closing(s)
          PROVE  s \in Listed' <=> s \in Listed
      <3>1. CASE UNCHANGED mClientSessions
        BY <3>1 DEF Listed
      <3>2. CASE Erase
        <4>1. Current # s
          BY <2>2, <3>2 DEF ErasedIsClosed, Erase
        <4> QED
          BY <3>2, <4>1, ErasedList
      <3> QED
        BY <1>1, <3>1, <3>2 DEF Idles
    <2>3. \A s \in Sessions : Phase(s)' = Phase(s)
      BY <2>1, <2>2 DEF Phase
    <2> QED
      BY <2>1, <2>3, PhaseStays
  <1>2. ASSUME NEW c \in Sessions, Asks(c)
        PROVE  Lifecycle!Ask(c)
    <2>1. ASSUME NEW s \in Sessions
          PROVE  /\ Copies(CloseWork(s))' = Copies(CloseWork(s))
                 /\ s # c => Copies(ReadWork(s))' = Copies(ReadWork(s))
                 /\ s = c => Copies(ReadWork(s))' = Copies(ReadWork(s)) + 1
      BY <1>2, <1>m, WorkKinds DEF Asks, OneAdded, Numbers
    <2>2. \A s \in Sessions : Phase(s)' = Phase(s)
      BY <1>2, <2>1 DEF Phase, Closing, Listed, Asks
    <2>3. Phase(c) = "listed"
      BY <1>2, OnListPhase DEF Asks
    <2>4. phases[c] = "listed" /\ UNCHANGED phases
      BY <2>2, <2>3 DEF phases
    <2>5. readCounts' = [readCounts EXCEPT ![c] = @ + 1]
      BY <2>1 DEF readCounts
    <2> QED
      BY <2>4, <2>5 DEF Lifecycle!Ask
  <1>3. ASSUME NEW c \in Sessions, Closes(c)
        PROVE  Lifecycle!Close(c)
    <2>1. ASSUME NEW s \in Sessions
          PROVE  /\ Copies(ReadWork(s))' = Copies(ReadWork(s))
                 /\ s # c => Copies(CloseWork(s))' = Copies(CloseWork(s))
                 /\ s = c => Copies(CloseWork(s))' = Copies(CloseWork(s)) + 1
      BY <1>3, <1>m, WorkKinds DEF Closes, OneAdded, Numbers
    <2>2. \A s \in Sessions : s # c => Phase(s)' = Phase(s)
      BY <1>3, <2>1 DEF Phase, Closing, Listed, Closes
    <2>3. Phase(c) = "listed" /\ c \notin released
      BY <1>3, OnListPhase DEF Closes
    <2>4. Closing(c)'
      BY <2>1, <1>m DEF Closing, Numbers
    <2>5. Phase(c)' = "closing"
      BY <1>3, <2>3, <2>4 DEF Phase, Closes
    <2> QED
      BY <2>1, <2>2, <2>3, <2>5, PhaseMoves DEF Lifecycle!Close
  <1>4. ASSUME NEW c \in Sessions, Opens(c)
        PROVE  Lifecycle!Open(c)
    <2>1. ASSUME NEW s \in Sessions
          PROVE  /\ Copies(ReadWork(s))' = Copies(ReadWork(s))
                 /\ Closing(s)' = Closing(s)
                 /\ s \in Listed' <=> s \in Listed \/ s = c
                 /\ s \in released' <=> s \in released
      <3>1. mClientSessions \in Seq(Sessions \union {Listener})
        BY DEF TypeOK, ServerTypeOK
      <3>2. s \in Listed' <=> s \in Listed \/ s = c
        BY <1>4, <3>1, ListenerAssumption DEF Opens, Listed
      <3> QED
        BY <1>4, <1>w, <3>2 DEF Opens, Closing
    <2>2. \A s \in Sessions : s # c => Phase(s)' = Phase(s)
      BY <2>1 DEF Phase
    <2>3. Phase(c) = "unborn" /\ c \notin released /\ ~Closing(c)
      BY <1>4, PendingPhase DEF Opens
    <2>4. Phase(c)' = "listed"
      BY <2>1, <2>3 DEF Phase
    <2> QED
      BY <2>1, <2>2, <2>3, <2>4, PhaseMoves DEF Lifecycle!Open
  <1>5. ASSUME NEW c \in Sessions, Refuses(c)
        PROVE  Lifecycle!Refuse(c) \/ UNCHANGED <<phases, readCounts>>
    <2>1. ASSUME NEW s \in Sessions
          PROVE  /\ Copies(ReadWork(s))' = Copies(ReadWork(s))
                 /\ Closing(s)' = Closing(s)
                 /\ Listed' = Listed
      BY <1>5, <1>w DEF Refuses, Closing, Listed
    <2>2. \A s \in Sessions : s # c => Phase(s)' = Phase(s)
      BY <1>5, <2>1 DEF Phase, Refuses
    <2>3. CASE released' = released
      <3>1. \A s \in Sessions : Phase(s)' = Phase(s)
        BY <2>1, <2>3 DEF Phase
      <3> QED
        BY <2>1, <3>1, PhaseStays
    <2>4. CASE released' = released \union {c}
      <3>1. Phase(c) = "unborn"
        BY <1>5, PendingPhase DEF Refuses
      <3>2. Phase(c)' = "released"
        BY <2>4 DEF Phase
      <3> QED
        BY <2>1, <2>2, <3>1, <3>2, PhaseMoves DEF Lifecycle!Refuse
    <2> QED
      BY <1>5, <2>3, <2>4 DEF Refuses
  <1>6. ASSUME NEW c \in Sessions, Destroys(c)
        PROVE  Lifecycle!Destroy(c)
    <2>1. ASSUME NEW s \in Sessions
          PROVE  /\ Copies(ReadWork(s))' = Copies(ReadWork(s))
                 /\ Closing(s)' = Closing(s)
                 /\ Listed' = Listed
      BY <1>6, <1>w DEF Destroys, Closing, Listed
    <2>2. \A s \in Sessions : s # c => Phase(s)' = Phase(s)
      BY <1>6, <2>1 DEF Phase, Destroys
    <2>3. Phase(c) = "listed"
      BY <1>6, OnListPhase DEF Destroys
    <2>4. Phase(c)' = "released"
      BY <1>6 DEF Phase, Destroys
    <2> QED
      BY <2>1, <2>2, <2>3, <2>4, PhaseMoves DEF Lifecycle!Destroy
  <1> QED
    BY <1>1, <1>2, <1>3, <1>4, <1>5, <1>6 DEF MainKinds, Lifecycle!Next

(* A step of a worker settles a READ, or releases a session whose CLOSE it *)
(* has run; the rotation of cancelWorks is no step of the lifecycle.       *)
LEMMA WorkerRefines ==
  ASSUME TypeOK, TypeOK', Ownership, WorkerKinds
  PROVE  [Lifecycle!Next]_<<phases, readCounts>>
  <1>m. Numbers /\ Numbers'
    BY OwnersNat, PTL
  <1>s. Listed' = Listed
    BY DEF WorkerKinds, serverVars, Listed
  <1>1. CASE AllKept /\ UNCHANGED released
    <2>1. ASSUME NEW s \in Sessions
          PROVE  /\ Copies(ReadWork(s))' = Copies(ReadWork(s))
                 /\ Closing(s)' = Closing(s)
      BY <1>1, WorkKinds DEF AllKept, Closing
    <2>2. \A s \in Sessions : Phase(s)' = Phase(s)
      BY <1>1, <1>s, <2>1 DEF Phase
    <2> QED
      BY <2>1, <2>2, PhaseStays
  <1>2. ASSUME NEW c \in Sessions, OneEnded(ReadWork(c)), Copies(ReadWork(c)) >= 1,
               UNCHANGED released
        PROVE  Lifecycle!Settle(c)
    <2>1. ASSUME NEW s \in Sessions
          PROVE  /\ Copies(CloseWork(s))' = Copies(CloseWork(s))
                 /\ s # c => Copies(ReadWork(s))' = Copies(ReadWork(s))
                 /\ s = c => Copies(ReadWork(s))' = Copies(ReadWork(s)) - 1
      BY <1>2, <1>m, WorkKinds DEF OneEnded, Numbers
    <2>2. \A s \in Sessions : Phase(s)' = Phase(s)
      BY <1>2, <1>s, <2>1 DEF Phase, Closing
    <2>3. UNCHANGED phases
      BY <2>2 DEF phases
    <2>4. readCounts' = [readCounts EXCEPT ![c] = @ - 1]
      BY <2>1 DEF readCounts
    <2>5. readCounts[c] > 0
      BY <1>2, <1>m DEF readCounts, Numbers
    <2> QED
      BY <2>3, <2>4, <2>5 DEF Lifecycle!Settle
  <1>3. ASSUME NEW c \in Sessions, OneEnded(CloseWork(c)), Copies(CloseWork(c)) >= 1,
               released' = released \union {c}
        PROVE  Lifecycle!Release(c)
    <2>1. ASSUME NEW s \in Sessions
          PROVE  /\ Copies(ReadWork(s))' = Copies(ReadWork(s))
                 /\ s # c => Copies(CloseWork(s))' = Copies(CloseWork(s))
      BY <1>3, <1>m, WorkKinds DEF OneEnded, Numbers
    <2>2. \A s \in Sessions : s # c => Phase(s)' = Phase(s)
      BY <1>3, <1>s, <2>1 DEF Phase, Closing
    <2>3. c \notin released /\ Closing(c)
      BY <1>3, <1>m DEF Ownership, Numbers, Closing
    <2>4. Phase(c) = "closing" /\ Phase(c)' = "released"
      BY <1>3, <2>3 DEF Phase
    <2> QED
      BY <2>1, <2>2, <2>4, PhaseMoves DEF Lifecycle!Release
  <1> QED
    BY <1>1, <1>2, <1>3 DEF WorkerKinds, Lifecycle!Next

(* The server implements SessionLifecycle: each session goes through its   *)
(* phases once and in order, and no READ is doubled or brought back, by    *)
(* any interleaving of the main thread, the workers and the clients.       *)
THEOREM ImplementsLifecycle == Spec => LifecycleSpec
  <1>1. Init => Lifecycle!Init
    <2> SUFFICES ASSUME Init PROVE Lifecycle!Init
      OBVIOUS
    <2>1. TypeOK /\ Ownership
      BY Initially, OwnedInitially DEF IInv
    <2>2. Numbers
      BY <2>1, OwnersNat
    <2>3. ASSUME NEW s \in Sessions
          PROVE  Phase(s) = "unborn" /\ Copies(ReadWork(s)) = 0
      <3>1. link[s] = "unused" /\ s \notin released /\ s \notin Listed
        BY DEF Init, NetInit, SessionInit, ServerInit, Listed
      <3>2. Owners(s) = 0 /\ Copies(ReadWork(s)) = 0
        BY <2>1, <3>1 DEF Ownership
      <3>3. ~Closing(s)
        BY <2>2, <3>2 DEF Numbers, Closing
      <3> QED
        BY <3>1, <3>2, <3>3 DEF Phase
    <2> QED
      BY <2>3 DEF Lifecycle!Init, phases, readCounts
  <1>2. OInv /\ OInv' /\ [Next]_vars => [Lifecycle!Next]_<<phases, readCounts>>
    <2> SUFFICES ASSUME OInv, OInv', [Next]_vars
                 PROVE  [Lifecycle!Next]_<<phases, readCounts>>
      OBVIOUS
    <2>1. TypeOK /\ TypeOK'
      BY DEF OInv, IInv
    <2>2. CASE MainStep
      BY <2>1, <2>2, MainEffect, MainRefines DEF OInv, IInv
    <2>3. ASSUME NEW w \in Workers, Worker(w)
          PROVE  [Lifecycle!Next]_<<phases, readCounts>>
      BY <2>1, <2>3, WorkerEffect, WorkerRefines DEF OInv, IInv
    <2>4. CASE \/ \E s \in Sessions : Client(s) \/ Clock(s)
               \/ PressQuit
               \/ UNCHANGED vars
      <3>1. UNCHANGED <<mClientWorks, pc, work, held, released, mClientSessions>>
        BY <2>1, <2>4, OutsideOwns DEF OInv
      <3>2. \A x : Copies(x)' = Copies(x)
        BY <3>1, CopiesKept
      <3>3. \A s \in Sessions : Phase(s)' = Phase(s)
        BY <3>1, <3>2 DEF Phase, Closing, Listed
      <3> QED
        BY <3>2, <3>3, PhaseStays
    <2> QED
      BY <2>2, <2>3, <2>4 DEF Next, Running, Halted
  <1> QED
    BY <1>1, <1>2, OwnershipInvariant, PTL DEF Spec, LifecycleSpec, Lifecycle!Spec

-----------------------------------------------------------------------------
(* Data                                                                    *)

(* FD_READ is recorded, or there is nothing to read and the next burst     *)
(* will record it.                                                         *)
Heard(s) == \/ "FD_READ" \in netEvents[s]
            \/ s \in recvArmed /\ unread[s] = 0

(* The exceptions of UnreadAnnounced, and a connection that is closed.     *)
Excused(s) == \/ s \in hungUp \union closeNotified \union sslFailed \/ Drift(s) < 0
              \/ link[s] = "closed" /\ unread[s] = 0

(* UnreadAnnounced says nothing of a session with nothing unread; what     *)
(* makes the next burst known is that its socket is armed.                 *)
Told(s) == Heard(s) \/ DispatchingRead(s) \/ ReadAhead(s) \/ Excused(s)
Announced == \A s \in Listed : Told(s)

(* FD_CLOSE is recorded only for a client that has gone.                   *)
CloseIsReal ==
  /\ \A s \in Sessions : "FD_CLOSE" \in netEvents[s] => s \in hungUp
  /\ main.at = "dispatch" /\ "FD_CLOSE" \in main.events => Current \in hungUp

(* The count that cancelWorks has read is still the session's.             *)
SeenIsReal ==
  \A w \in Workers : pc[w] = "store" /\ held.session \notin released =>
                       seen = processingCount[held.session]

DInv == OInv /\ Announced /\ CloseIsReal /\ SeenIsReal

(* What recv leaves behind, whatever it reads.                             *)
LEMMA RecvHears ==
  ASSUME NetTypeOK, NEW s \in Sessions, NEW mask \in SUBSET NetEvent, NEW n \in Nat,
         Recv(s, mask, n)
  PROVE  /\ Heard(s)'
         /\ \A r \in Sessions : r # s => /\ netEvents'[r] = netEvents[r]
                                        /\ unread'[r] = unread[r]
                                        /\ Heard(r)' = Heard(r)
         /\ "FD_CLOSE" \in netEvents'[s] => "FD_CLOSE" \in mask
  <1> DEFINE left == n > 0
             more == n > 0 \/ unread[s] - n > 1
  <1>1. PICK again \in {left, more} :
          /\ netEvents' = [netEvents EXCEPT ![s] = IF again THEN mask \union {"FD_READ"} ELSE mask]
          /\ recvArmed' = IF again THEN recvArmed \ {s} ELSE recvArmed \union {s}
    BY DEF Recv
  <1>2. unread' = [unread EXCEPT ![s] = n]
    BY DEF Recv
  <1>3. /\ netEvents'[s] = IF again THEN mask \union {"FD_READ"} ELSE mask
        /\ unread'[s] = n
        /\ \A r \in Sessions : r # s => netEvents'[r] = netEvents[r] /\ unread'[r] = unread[r]
    BY <1>1, <1>2 DEF NetTypeOK
  <1>4. ~again => n = 0
    <2>1. left => more
      OBVIOUS
    <2>2. ~left => n = 0
      OBVIOUS
    <2> HIDE DEF left, more
    <2>3. again = left \/ again = more
      BY Zenon
    <2>4. ~again => ~left
      <3>1. CASE again = left
        BY <3>1
      <3>2. CASE again = more
        BY <2>1, <3>2
      <3> QED
        BY <2>3, <3>1, <3>2
    <2> QED
      BY <2>2, <2>4
  <1>5. Heard(s)'
    <2>1. CASE again
      BY <1>3, <2>1 DEF Heard
    <2>2. CASE ~again
      BY <1>1, <1>3, <1>4, <2>2 DEF Heard
    <2> QED
      BY <2>1, <2>2
  <1>6. \A r \in Sessions : r # s => Heard(r)' = Heard(r)
    <2>1. \A r \in Sessions : r # s => (r \in recvArmed' <=> r \in recvArmed)
      BY <1>1
    <2> QED
      BY <1>3, <2>1 DEF Heard
  <1> QED
    BY <1>3, <1>5, <1>6

(* ... and the handshake, which may call it several times.                 *)
LEMMA HandshakeHears ==
  ASSUME NetTypeOK, NEW s \in Sessions, NEW mask \in SUBSET NetEvent, Handshake(s, mask)
  PROVE  /\ Heard(s)'
         /\ \A r \in Sessions : r # s => /\ netEvents'[r] = netEvents[r]
                                        /\ unread'[r] = unread[r]
                                        /\ Heard(r)' = Heard(r)
         /\ "FD_CLOSE" \in netEvents'[s] => "FD_CLOSE" \in mask
  <1>1. PICK n \in Nat : Recv(s, mask, n)
    BY DEF Handshake, NetTypeOK
  <1> QED
    BY <1>1, RecvHears

(* A READ that has not come to its recv stays so while the queue only      *)
(* grows and the workers stand still.                                      *)
LEMMA ReadsStay ==
  ASSUME TypeOK, UNCHANGED <<pc, work, held>>, NEW r,
         UNCHANGED mClientWorks \/ \E x : mClientWorks' = Append(mClientWorks, x),
         ReadAhead(r)
  PROVE  ReadAhead(r)'
  <1>1. mClientWorks \in Seq(Work)
    BY DEF TypeOK, PoolTypeOK
  <1>2. InQueue(ReadWork(r)) \subseteq InQueue(ReadWork(r))'
    <2>1. CASE UNCHANGED mClientWorks
      BY <2>1 DEF InQueue, ReadWork
    <2>2. ASSUME NEW x, mClientWorks' = Append(mClientWorks, x)
          PROVE  InQueue(ReadWork(r)) \subseteq InQueue(ReadWork(r))'
      BY <1>1, <2>2 DEF InQueue, ReadWork
    <2> QED
      BY <2>1, <2>2
  <1> QED
    BY <1>2 DEF ReadAhead, ReadWork

(* A work behind the head is still queued when the head is taken.          *)
LEMMA TailKeeps ==
  ASSUME mClientWorks \in Seq(Work), mClientWorks' = Tail(mClientWorks), NEW x,
         NEW i \in 2 .. Len(mClientWorks), mClientWorks[i] = x
  PROVE  InQueue(x)' # {}
  <1>1. Len(mClientWorks') = Len(mClientWorks) - 1 /\ mClientWorks'[i - 1] = x
    BY Z3T(30)
  <1>2. i - 1 \in InQueue(x)'
    BY <1>1 DEF InQueue
  <1> QED
    BY <1>2

(* The exceptions stay, where a session's network state, its count and the *)
(* workers do.                                                             *)
LEMMA ExcusesStay ==
  ASSUME NEW r \in Sessions, Excused(r),
         UNCHANGED <<pc, work>>,
         r \in hungUp => r \in hungUp',
         r \in closeNotified => r \in closeNotified',
         r \in sslFailed => r \in sslFailed',
         processingCount'[r] = processingCount[r],
         link[r] = "closed" => link'[r] = "closed",
         unread'[r] = unread[r]
  PROVE  Excused(r)'
  <1>1. Drift(r)' = Drift(r)
    BY DEF Drift, RunningReads
  <1> QED
    BY <1>1 DEF Excused

(* A deleted session has nothing left to read.                             *)
LEMMA ReleasedIsExcused ==
  ASSUME TypeOK, NEW s \in Sessions, ReleaseSession(s)
  PROVE  /\ Excused(s)'
         /\ \A r \in Sessions : r # s =>
              /\ r \in closeNotified => r \in closeNotified'
              /\ r \in sslFailed => r \in sslFailed'
              /\ processingCount'[r] = processingCount[r]
              /\ link'[r] = link[r] /\ unread'[r] = unread[r]
              /\ netEvents'[r] = netEvents[r]
              /\ Heard(r)' = Heard(r)
         /\ netEvents'[s] = {}
  <1>1. /\ link \in [Sessions -> LinkState] /\ unread \in [Sessions -> Nat]
        /\ netEvents \in [Sessions -> SUBSET NetEvent]
        /\ processingCount \in [Sessions -> Int]
    BY DEF TypeOK, NetTypeOK, SessionTypeOK
  <1>2. link'[s] = "closed" /\ unread'[s] = 0 /\ netEvents'[s] = {}
    BY <1>1 DEF ReleaseSession, CloseSocket
  <1>3. ASSUME NEW r \in Sessions, r # s
        PROVE  /\ r \in closeNotified => r \in closeNotified'
               /\ r \in sslFailed => r \in sslFailed'
               /\ processingCount'[r] = processingCount[r]
               /\ link'[r] = link[r] /\ unread'[r] = unread[r]
               /\ netEvents'[r] = netEvents[r]
               /\ r \in recvArmed' <=> r \in recvArmed
    BY <1>1, <1>3 DEF ReleaseSession, CloseSocket
  <1>4. Excused(s)'
    BY <1>2 DEF Excused
  <1>5. \A r \in Sessions : r # s => Heard(r)' = Heard(r)
    BY <1>3 DEF Heard
  <1> QED
    BY <1>2, <1>3, <1>4, <1>5

(* The steps of the main thread that read no socket and no event.          *)
LEMMA StillTells ==
  ASSUME TypeOK, MainShape, CloseIsReal, MainStep, ~Dispatch, ~Enumerate, ~DestroyRelease
  PROVE  /\ main.at # "dispatch" /\ main'.at # "dispatch"
         /\ UNCHANGED <<netVars, sessionVars>>
  <1>0. main \in MainState
    BY DEF TypeOK, ServerTypeOK
  <1> USE DEF NotTheMainThreads, OnlyMain, MainState
  <1>1. CASE SweepFinds \/ SweepNextChunk \/ SweepFailed \/ SweepTimesOut \/ LeaveLoop
    BY <1>0, <1>1 DEF SweepFinds, SweepNextChunk, SweepFailed, SweepTimesOut, LeaveLoop, Sweeping
  <1>2. CASE Signal \/ Erase \/ Nudge \/ ScanKeeps \/ ScanInvalidates \/ ScanEnds
    <2>1. main.at # "dispatch" /\ main'.at # "dispatch"
      BY <1>0, <1>2 DEF Signal, Erase, Nudge, Scanning, ScanKeeps, ScanInvalidates, ScanEnds
    <2> QED
      BY <1>2, <2>1 DEF Signal, Erase, Nudge, ScanKeeps, ScanInvalidates, ScanEnds
  <1>3. CASE DrainSpin \/ Drain \/ DestroyRefused \/ DestroyBegin
    BY <1>0, <1>3 DEF DrainSpin, Drain, ToDestroy, Destroying, DestroyRefused, DestroyBegin
  <1>4. CASE StopPool \/ CloseHandles \/ Join
    BY <1>0, <1>4 DEF StopPool, CloseHandles, Join, serverVars
  <1> QED
    BY <1>1, <1>2, <1>3, <1>4 DEF MainStep

(* An accepted session is the one that is appended to the list.            *)
LEMMA AcceptListsOne ==
  ASSUME mClientSessions \in Seq(Sessions \union {Listener}), NEW r \in Sessions, Accept(r)
  PROVE  /\ mClientSessions' # mClientSessions
         /\ \A s \in Sessions : Accept(s) => r = s
  <1>1. \A s \in Sessions : Accept(s) => mClientSessions' = Append(mClientSessions, s)
    BY DEF Accept
  <1>2. Len(mClientSessions') = Len(mClientSessions) + 1
    BY <1>1
  <1>3. mClientSessions'[Len(mClientSessions) + 1] = r
    BY <1>1
  <1> QED
    BY <1>1, <1>2, <1>3

(* The main thread forgets no data of a session: what it enumerates it     *)
(* handles, what it handles it reads or has read.                          *)
LEMMA MainTells ==
  ASSUME TypeOK, TypeOK', ListShape, MainShape, CloseIsReal, MainStep
  PROVE  /\ CloseIsReal'
         /\ \A r \in Sessions : Told(r) \/ Accept(r) => Told(r)'
  <1>0. /\ NetTypeOK /\ main \in MainState /\ main' \in MainState
        /\ link \in [Sessions -> LinkState] /\ netEvents \in [Sessions -> SUBSET NetEvent]
        /\ mClientSessions \in Seq(Sessions \union {Listener})
    BY DEF TypeOK, ServerTypeOK, NetTypeOK
  <1>q. /\ UNCHANGED <<pc, work, held>>
        /\ UNCHANGED mClientWorks \/ \E x : mClientWorks' = Append(mClientWorks, x)
    BY MainLeavesWorkers DEF workVars, cancelVars
  <1>r. \A r \in Sessions : ReadAhead(r) => ReadAhead(r)'
    BY <1>q, ReadsStay
  <1>1. CASE ~Dispatch /\ ~Enumerate /\ ~DestroyRelease
    <2>1. /\ main.at # "dispatch" /\ main'.at # "dispatch"
          /\ UNCHANGED <<netVars, sessionVars>>
      BY <1>1, StillTells
    <2>2. ASSUME NEW r \in Sessions, Told(r) \/ Accept(r)
          PROVE  Told(r)'
      <3>1. ~Accept(r) /\ ~DispatchingRead(r)
        BY <2>1 DEF Accept, Dispatching, DispatchingRead
      <3>2. Heard(r)' = Heard(r)
        BY <2>1 DEF Heard, netVars
      <3>3. Excused(r) => Excused(r)'
        BY <1>q, <2>1, ExcusesStay DEF netVars, sessionVars
      <3> QED
        BY <1>r, <2>2, <3>1, <3>2, <3>3 DEF Told
    <2> QED
      BY <2>1, <2>2 DEF CloseIsReal, netVars
  <1>2. CASE Enumerate
    <2>1. /\ main.at = "enumerate" /\ main'.at = "dispatch" /\ main'.index = main.index
          /\ UNCHANGED <<unread, link, recvArmed, hungUp, sessionVars, mClientSessions>>
          /\ Current' = Current
      BY <1>0, <1>2 DEF Enumerate, MainState, Current
    <2>2. \/ Current = Listener /\ main'.events = {"FD_ACCEPT"} /\ UNCHANGED netEvents
          \/ /\ Current \in Sessions /\ main'.events = netEvents[Current]
             /\ netEvents' = [netEvents EXCEPT ![Current] = {}]
      <3>1. Current \in Sessions \union {Listener}
        BY <1>0, <2>1 DEF MainShape, Current
      <3> QED
        BY <1>0, <1>2, <3>1 DEF Enumerate, MainState, EnumNetworkEvents
    <2>3. CloseIsReal'
      <3>1. \A s \in Sessions : netEvents'[s] \subseteq netEvents[s]
        BY <1>0, <2>2
      <3>2. "FD_CLOSE" \in main'.events => Current' \in hungUp'
        BY <2>1, <2>2 DEF CloseIsReal
      <3> QED
        BY <2>1, <3>1, <3>2 DEF CloseIsReal
    <2>4. ASSUME NEW r \in Sessions, Told(r) \/ Accept(r)
          PROVE  Told(r)'
      <3>1. ~Accept(r) /\ ~DispatchingRead(r)
        BY <2>1 DEF Accept, Dispatching, DispatchingRead
      <3>2. Excused(r) => Excused(r)'
        BY <1>q, <2>1, ExcusesStay DEF sessionVars
      <3>3. CASE "FD_READ" \in netEvents[r]
        <4>1. "FD_READ" \in netEvents'[r] \/ DispatchingRead(r)'
          BY <1>0, <2>1, <2>2, <3>3, ListenerAssumption DEF DispatchingRead
        <4> QED
          BY <4>1 DEF Told, Heard
      <3>4. CASE "FD_READ" \notin netEvents[r]
        <4>1. Heard(r) => Heard(r)'
          BY <2>1, <3>4 DEF Heard
        <4> QED
          BY <1>r, <2>4, <3>1, <3>2, <4>1 DEF Told
      <3> QED
        BY <3>3, <3>4
    <2> QED
      BY <2>3, <2>4
  <1>3. ASSUME NEW s \in Sessions, AcceptFails(s)
        PROVE  CloseIsReal' /\ \A r \in Sessions : Told(r) \/ Accept(r) => Told(r)'
    <2>1. /\ main.events = {"FD_ACCEPT"} /\ main'.at = "sweep"
          /\ link' = [link EXCEPT ![s] = "closed"]
          /\ UNCHANGED <<unread, recvArmed, netEvents, hungUp, sessionVars>>
      BY <1>0, <1>3 DEF AcceptFails, Dispatching, ToSweep, MainState
    <2>2. ASSUME NEW r \in Sessions, Told(r)
          PROVE  Told(r)'
      <3>1. ~DispatchingRead(r)
        BY <2>1 DEF DispatchingRead
      <3>2. Heard(r)' = Heard(r)
        BY <2>1 DEF Heard
      <3>3. Excused(r) => Excused(r)'
        BY <1>0, <1>q, <2>1, ExcusesStay DEF sessionVars
      <3> QED
        BY <1>r, <2>2, <3>1, <3>2, <3>3 DEF Told
    <2>3. \A r \in Sessions : ~Accept(r)
      BY <1>0, <1>3, AcceptListsOne DEF AcceptFails
    <2> QED
      BY <2>1, <2>2, <2>3 DEF CloseIsReal
  <1>4. ASSUME NEW s \in Sessions, Accept(s)
        PROVE  CloseIsReal' /\ \A r \in Sessions : Told(r) \/ Accept(r) => Told(r)'
    <2>1. /\ main.events = {"FD_ACCEPT"} /\ main'.at = "sweep"
          /\ link[s] = "pending" /\ link' = [link EXCEPT ![s] = "open"]
          /\ UNCHANGED <<hungUp, processingCount, closeNotified, sslFailed>>
          /\ Handshake(s, EventsAtSelect(s))
      BY <1>0, <1>4 DEF Accept, Dispatching, ToSweep, MainState
    <2>2. EventsAtSelect(s) \in SUBSET NetEvent /\ ("FD_CLOSE" \in EventsAtSelect(s) => s \in hungUp)
      BY DEF EventsAtSelect, NetEvent
    <2>3. /\ Heard(s)'
          /\ \A r \in Sessions : r # s => /\ netEvents'[r] = netEvents[r]
                                         /\ unread'[r] = unread[r]
                                         /\ Heard(r)' = Heard(r)
          /\ "FD_CLOSE" \in netEvents'[s] => "FD_CLOSE" \in EventsAtSelect(s)
      <3>1. PICK mask \in SUBSET NetEvent : mask = EventsAtSelect(s)
        BY <2>2
      <3> QED
        BY <1>0, <2>1, <3>1, HandshakeHears
    <2>4. ASSUME NEW r \in Sessions, Told(r), r # s
          PROVE  Told(r)'
      <3>1. ~DispatchingRead(r)
        BY <2>1 DEF DispatchingRead
      <3>2. Excused(r) => Excused(r)'
        BY <1>0, <1>q, <2>1, <2>3, <2>4, ExcusesStay
      <3> QED
        BY <1>r, <2>3, <2>4, <3>1, <3>2 DEF Told
    <2>5. \A r \in Sessions : Accept(r) => r = s
      BY <1>0, <1>4, AcceptListsOne
    <2> QED
      BY <2>1, <2>2, <2>3, <2>4, <2>5 DEF CloseIsReal, Told
  <1>5. ASSUME NEW s \in Sessions, AcceptAndRelease(s)
        PROVE  CloseIsReal' /\ \A r \in Sessions : Told(r) \/ Accept(r) => Told(r)'
    <2>1. /\ main.events = {"FD_ACCEPT"} /\ main'.at = "sweep"
          /\ ReleaseSession(s) /\ UNCHANGED hungUp
      BY <1>0, <1>5 DEF AcceptAndRelease, Dispatching, ToSweep, MainState
    <2>2. ASSUME NEW r \in Sessions, Told(r), r # s
          PROVE  Told(r)'
      <3>1. ~DispatchingRead(r)
        BY <2>1 DEF DispatchingRead
      <3>2. Excused(r) => Excused(r)'
        BY <1>q, <2>1, <2>2, ReleasedIsExcused, ExcusesStay
      <3>3. Heard(r)' = Heard(r)
        BY <2>1, <2>2, ReleasedIsExcused
      <3> QED
        BY <1>r, <2>2, <3>1, <3>2, <3>3 DEF Told
    <2>3. Told(s)'
      BY <2>1, ReleasedIsExcused DEF Told
    <2>4. \A r \in Sessions : netEvents'[r] \subseteq netEvents[r]
      BY <2>1, ReleasedIsExcused
    <2>5. \A r \in Sessions : ~Accept(r)
      BY <1>0, <1>5, AcceptListsOne DEF AcceptAndRelease
    <2> QED
      BY <2>1, <2>2, <2>3, <2>4, <2>5 DEF CloseIsReal
  <1>6. CASE ContinueHandshake \/ HandshakeToClose
    <2>1. /\ main.at = "dispatch" /\ main.events = {"FD_READ"}
          /\ main'.at # "dispatch"
          /\ UNCHANGED <<link, hungUp, processingCount, closeNotified, sslFailed>>
      BY <1>0, <1>6 DEF ContinueHandshake, HandshakeToClose, Dispatching, ToSweep,
         ToSignalClose, MainState
    <2>2. PICK c \in Sessions : c = Current
      BY <2>1, CurrentIsSession DEF MainShape
    <2>3. /\ Heard(c)'
          /\ \A r \in Sessions : r # c => /\ netEvents'[r] = netEvents[r]
                                         /\ unread'[r] = unread[r]
                                         /\ Heard(r)' = Heard(r)
          /\ "FD_CLOSE" \in netEvents'[c] => "FD_CLOSE" \in netEvents[c]
      <3>1. PICK mask \in SUBSET NetEvent : mask = netEvents[c]
        BY <1>0
      <3>2. CASE ContinueHandshake
        BY <1>0, <2>2, <3>1, <3>2, HandshakeHears DEF ContinueHandshake
      <3>3. CASE HandshakeToClose
        <4>1. PICK n \in Nat : Recv(c, mask, n)
          BY <1>0, <2>2, <3>1, <3>3 DEF HandshakeToClose
        <4> QED
          BY <1>0, <3>1, <4>1, RecvHears
      <3> QED
        BY <1>6, <3>2, <3>3
    <2>4. ASSUME NEW r \in Sessions, Told(r), r # c
          PROVE  Told(r)'
      <3>1. ~DispatchingRead(r)
        BY <2>2, <2>4 DEF DispatchingRead
      <3>2. Excused(r) => Excused(r)'
        BY <1>q, <2>1, <2>3, <2>4, ExcusesStay
      <3> QED
        BY <1>r, <2>3, <2>4, <3>1, <3>2 DEF Told
    <2>5. CloseIsReal'
      BY <2>1, <2>3 DEF CloseIsReal
    <2>6. ~\E r \in Sessions : Accept(r)
      BY <2>1 DEF Accept, Dispatching
    <2> QED
      BY <2>3, <2>4, <2>5, <2>6 DEF Told
  <1>7. CASE QueueRead
    <2>1. /\ main.at = "dispatch" /\ main.events = {"FD_READ"}
          /\ main'.at # "dispatch"
          /\ UNCHANGED <<netVars, processingCount, closeNotified, sslFailed>>
      BY <1>0, <1>7 DEF QueueRead, Dispatching, ToSignalRead, MainState
    <2>2. ASSUME NEW r \in Sessions, Told(r)
          PROVE  Told(r)'
      <3>1. DispatchingRead(r) => ReadAhead(r)'
        <4>1. ASSUME r = Current
              PROVE  InQueue(ReadWork(r))' # {}
          <5>1. mClientWorks \in Seq(Work) /\ mClientWorks' = Append(mClientWorks, ReadWork(r))
            BY <1>7, <4>1 DEF QueueRead, QueueWork, TypeOK, PoolTypeOK
          <5>2. Len(mClientWorks) + 1 \in InQueue(ReadWork(r))'
            BY <5>1 DEF InQueue, ReadWork
          <5> QED
            BY <5>2
        <4> QED
          BY <4>1 DEF DispatchingRead, ReadAhead
      <3>2. Heard(r)' = Heard(r)
        BY <2>1 DEF Heard, netVars
      <3>3. Excused(r) => Excused(r)'
        BY <1>q, <2>1, ExcusesStay DEF netVars
      <3> QED
        BY <1>r, <2>2, <3>1, <3>2, <3>3 DEF Told
    <2>3. ~\E r \in Sessions : Accept(r)
      BY <2>1 DEF Accept, Dispatching
    <2> QED
      BY <2>1, <2>2, <2>3 DEF CloseIsReal, netVars
  <1>8. CASE Disconnected \/ NoCaseMatches
    <2>1. /\ main.at = "dispatch" /\ main.events \in {{"FD_CLOSE"}, {"FD_READ", "FD_CLOSE"}}
          /\ main'.at # "dispatch"
          /\ UNCHANGED <<netVars, sessionVars>>
      BY <1>0, <1>8 DEF Disconnected, NoCaseMatches, Dispatching, ToSignalClose, ToSweep,
         OnlyMain, MainState
    <2>2. ASSUME NEW r \in Sessions, Told(r)
          PROVE  Told(r)'
      <3>1. DispatchingRead(r) => Excused(r)
        BY <2>1 DEF DispatchingRead, CloseIsReal, Excused
      <3>2. Heard(r)' = Heard(r)
        BY <2>1 DEF Heard, netVars
      <3>3. Excused(r) => Excused(r)'
        BY <1>q, <2>1, ExcusesStay DEF netVars, sessionVars
      <3> QED
        BY <1>r, <2>2, <3>1, <3>2, <3>3 DEF Told
    <2>3. ~\E r \in Sessions : Accept(r)
      BY <2>1 DEF Accept, Dispatching
    <2> QED
      BY <2>1, <2>2, <2>3 DEF CloseIsReal, netVars
  <1>9. CASE DestroyRelease
    <2>1. main.at = "destroyrelease" /\ main'.at # "dispatch" /\ UNCHANGED hungUp
      BY <1>0, <1>9 DEF DestroyRelease, MainState
    <2>2. PICK c \in Sessions : c = Current
      BY <2>1, CurrentIsSession DEF MainShape
    <2>3. ReleaseSession(c)
      BY <1>9, <2>2 DEF DestroyRelease
    <2>4. ASSUME NEW r \in Sessions, Told(r), r # c
          PROVE  Told(r)'
      <3>1. ~DispatchingRead(r)
        BY <2>1 DEF DispatchingRead
      <3>2. Excused(r) => Excused(r)'
        BY <1>q, <2>1, <2>3, <2>4, ReleasedIsExcused, ExcusesStay
      <3>3. Heard(r)' = Heard(r)
        BY <2>3, <2>4, ReleasedIsExcused
      <3> QED
        BY <1>r, <2>4, <3>1, <3>2, <3>3 DEF Told
    <2>5. Told(c)'
      BY <2>3, ReleasedIsExcused DEF Told
    <2>6. \A r \in Sessions : netEvents'[r] \subseteq netEvents[r] /\ ~Accept(r)
      BY <2>1, <2>3, ReleasedIsExcused DEF Accept, Dispatching
    <2> QED
      BY <2>1, <2>4, <2>5, <2>6 DEF CloseIsReal
  <1> QED
    BY <1>1, <1>2, <1>3, <1>4, <1>5, <1>6, <1>7, <1>8, <1>9 DEF Dispatch

(* A READ that cancelWorks drops lowers the count of its session.          *)
LEMMA DropLowers ==
  ASSUME TypeOK, WorkShape, BusyIsReal, SeenIsReal,
         NEW w \in Workers, CancelDrop(w), NEW r \in Sessions, r = held.session
  PROVE  Drift(r)' < 0
  <1>1. pc[w] = "store" /\ r \notin released
    BY DEF CancelDrop, CancelNext, Goto, CancelReadsReleased
  <1>2. seen = processingCount[r]
    BY <1>1 DEF SeenIsReal
  <1>3. PoolStep(w)
    BY DEF PoolStep
  <1>4. Drift(r)' = Drift(r) - 1
    <2>1. processingCount[r] \in Int
      BY DEF TypeOK, SessionTypeOK
    <2>2. Cardinality(RunningReads(r)) \in Nat
      BY ReadersFinite
    <2>3. Drift(r)' = seen - 1 - Cardinality(RunningReads(r))
      BY <1>3, PoolDrift
    <2> QED
      BY <1>2, <2>1, <2>2, <2>3 DEF Drift
  <1>5. Drift(r) \in Int /\ Drift(r) <= 0
    <2>1. processingCount[r] \in Int
      BY DEF TypeOK, SessionTypeOK
    <2> QED
      BY <2>1, ReadersFinite DEF Drift, BusyIsReal
  <1> QED
    BY <1>4, <1>5

(* A worker takes a READ from the queue to its recv, or to cancelWorks,    *)
(* which keeps it or lowers the session's count.                           *)
LEMMA PoolTells ==
  ASSUME TypeOK, WorkShape, RotationSafe, BusyIsReal, EmptyHands, SeenIsReal,
         NEW w \in Workers, Worker(w), PoolStep(w), NEW r \in Sessions, ReadAhead(r)
  PROVE  ReadAhead(r)' \/ Drift(r)' < 0
  <1>0. /\ pc \in [Workers -> PC] /\ work \in [Workers -> Work \union {NoWork}]
        /\ mClientWorks \in Seq(Work) /\ WorkerStep(w)
        /\ \A v \in Workers \ {w} : pc'[v] = pc[v] /\ work'[v] = work[v]
    BY OnlyItsOwn DEF Worker, TypeOK, WorkTypeOK, PoolTypeOK
  <1> DEFINE Coming(v) == /\ work[v] = ReadWork(r)
                          /\ pc[v] \in {"count", "run", "receive"}
  <1>1. CASE WaitSignal(w) \/ WaitClose(w) \/ WaitFailed(w) \/ FetchNothing(w) \/ CountUp(w)
               \/ Finish(w) \/ CancelBegin(w) \/ CancelReadCount(w) \/ CancelUseReleased(w)
               \/ CancelEnd(w)
    <2>1. UNCHANGED <<mClientWorks, held>>
      BY <1>1 DEF WaitSignal, WaitClose, WaitFailed, FetchNothing, CountUp, Finish, CancelBegin,
         CancelReadCount, CancelUseReleased, CancelEnd, poolVars, queueVars, cancelVars
    <2>2. Coming(w) => Coming(w)'
      BY <1>0, <1>1 DEF WaitSignal, WaitClose, WaitFailed, FetchNothing, CountUp, Finish,
         CancelBegin, CancelReadCount, CancelUseReleased, CancelEnd, Goto, workVars
    <2>3. \A v \in Workers : Coming(v) => Coming(v)'
      BY <1>0, <2>2
    <2> QED
      BY <2>1, <2>3 DEF ReadAhead, InQueue
  <1>2. CASE Fetch(w)
    <2>1. /\ mClientWorks # <<>> /\ mClientWorks' = Tail(mClientWorks) /\ held' = held
          /\ pc[w] = "fetch" /\ pc'[w] = "count" /\ work'[w] = Head(mClientWorks)
      BY <1>0, <1>2 DEF Fetch, IsWorkQueueEmpty, Goto, cancelVars
    <2>2. \A v \in Workers : Coming(v) => Coming(v)'
      BY <1>0, <2>1
    <2>3. ASSUME NEW i \in InQueue(ReadWork(r))
          PROVE  ReadAhead(r)'
      <3>1. i \in 1 .. Len(mClientWorks) /\ mClientWorks[i] = ReadWork(r)
        BY <1>0 DEF InQueue
      <3>2. CASE i = 1
        BY <2>1, <3>1, <3>2 DEF ReadAhead, ReadWork
      <3>3. CASE i > 1
        <4>1. i \in 2 .. Len(mClientWorks)
          BY <3>1, <3>3
        <4>2. InQueue(ReadWork(r))' # {}
          BY <1>0, <2>1, <3>1, <4>1, TailKeeps DEF ReadWork
        <4> QED
          BY <4>2 DEF ReadAhead
      <3> QED
        BY <3>1, <3>2, <3>3
    <2> QED
      BY <2>1, <2>2, <2>3 DEF ReadAhead, ReadWork
  <1>3. CASE Requeue(w)
    <2>1. /\ mClientWorks' = Append(mClientWorks, work[w]) /\ held' = held
          /\ pc[w] = "requeue"
      BY <1>0, <1>3 DEF Requeue, QueueWork, Goto, cancelVars
    <2>2. \A v \in Workers : Coming(v) => Coming(v)'
      BY <1>0, <2>1
    <2>3. InQueue(ReadWork(r)) \subseteq InQueue(ReadWork(r))'
      BY <1>0, <2>1 DEF InQueue, ReadWork
    <2> QED
      BY <2>1, <2>2, <2>3 DEF ReadAhead, ReadWork
  <1>4. CASE CancelPop(w)
    <2>1. /\ mClientWorks' = Tail(mClientWorks) /\ held' = Head(mClientWorks)
          /\ pc[w] = "rotate"
      BY <1>0, <1>4 DEF CancelPop, Goto
    <2>2. \A v \in Workers : Coming(v) => Coming(v)'
      BY <1>0, <1>4 DEF CancelPop, Goto
    <2>3. held = NoWork
      BY <1>0, <2>1 DEF EmptyHands, RotationSafe
    <2>4. ASSUME NEW i \in InQueue(ReadWork(r))
          PROVE  ReadAhead(r)'
      <3>1. i \in 1 .. Len(mClientWorks) /\ mClientWorks[i] = ReadWork(r)
        BY <1>0 DEF InQueue
      <3>2. CASE i = 1
        BY <2>1, <3>1, <3>2 DEF ReadAhead, ReadWork
      <3>3. CASE i > 1
        <4>1. i \in 2 .. Len(mClientWorks)
          BY <3>1, <3>3
        <4>2. InQueue(ReadWork(r))' # {}
          BY <1>0, <2>1, <3>1, <4>1, TailKeeps DEF ReadWork
        <4> QED
          BY <4>2 DEF ReadAhead
      <3> QED
        BY <3>1, <3>2, <3>3
    <2>5. held # ReadWork(r)
      BY <2>3, WorkKinds, NoWorkAssumption
    <2> QED
      BY <2>2, <2>4, <2>5 DEF ReadAhead, ReadWork
  <1>5. CASE CancelKeep(w)
    <2>1. mClientWorks' = Append(mClientWorks, held) /\ pc[w] = "inspect"
      BY <1>0, <1>5 DEF CancelKeep, CancelNext, QueueWork, Goto
    <2>2. \A v \in Workers : Coming(v) => Coming(v)'
      BY <1>0, <1>5, <2>1 DEF CancelKeep
    <2>3. InQueue(ReadWork(r)) \subseteq InQueue(ReadWork(r))'
      BY <1>0, <2>1 DEF InQueue, ReadWork
    <2>4. ASSUME held = ReadWork(r)
          PROVE  InQueue(ReadWork(r))' # {}
      <3>1. Len(mClientWorks) + 1 \in InQueue(ReadWork(r))'
        BY <1>0, <2>1, <2>4 DEF InQueue, ReadWork
      <3> QED
        BY <3>1
    <2> QED
      BY <2>2, <2>3, <2>4 DEF ReadAhead, ReadWork
  <1>6. CASE CancelDrop(w)
    <2>1. UNCHANGED mClientWorks /\ pc[w] = "store"
      BY <1>0, <1>6 DEF CancelDrop, CancelNext, Goto, queueVars
    <2>2. \A v \in Workers : Coming(v) => Coming(v)'
      BY <1>0, <1>6, <2>1 DEF CancelDrop
    <2>3. ASSUME held = ReadWork(r)
          PROVE  Drift(r)' < 0
      <3>1. r = held.session
        BY <2>3 DEF ReadWork
      <3> QED
        BY <1>6, <3>1, DropLowers
    <2> QED
      BY <2>1, <2>2, <2>3 DEF ReadAhead, InQueue
  <1> QED
    BY <1>1, <1>2, <1>3, <1>4, <1>5, <1>6 DEF PoolStep

(* ... where it is run.                                                    *)
LEMMA RunTells ==
  ASSUME TypeOK, WorkShape, NEW w \in Workers, RunStep(w), UNCHANGED poolVars,
         NEW r \in Sessions, ReadAhead(r)
  PROVE  \/ ReadAhead(r)'
         \/ /\ ReceiveNothing(w) \/ ReceiveWouldBlock(w) \/ Receive(w)
            /\ Session(w) = r
  <1>0. /\ pc \in [Workers -> PC] /\ work \in [Workers -> Work \union {NoWork}]
        /\ WorkerStep(w) /\ UNCHANGED <<mClientWorks, held, work>>
    BY RunMoves DEF TypeOK, WorkTypeOK, WorkerStep, poolVars, queueVars, cancelVars
  <1>1. \A v \in Workers \ {w} : pc'[v] = pc[v] /\ work'[v] = work[v]
    BY <1>0, OnlyItsOwn
  <1>2. CASE /\ work[w] = ReadWork(r) /\ pc[w] \in {"count", "run", "receive"}
             /\ pc'[w] # pc[w] /\ pc'[w] # "receive"
    <2>1. Session(w) = r /\ work[w].type = "SESSION_READ"
      BY <1>2 DEF Session, ReadWork
    <2>2. ~CloseBegin(w)
      BY <2>1 DEF CloseBegin
    <2> QED
      BY <1>0, <1>2, <2>1, <2>2 DEF RunStep, ReadBegin, Respond, WriteNothing,
         ReadEnd, CloseConnection, UseReleased, Goto, workVars
  <1>3. CASE ~(/\ work[w] = ReadWork(r) /\ pc[w] \in {"count", "run", "receive"}
               /\ pc'[w] # pc[w] /\ pc'[w] # "receive")
    BY <1>0, <1>1, <1>3 DEF ReadAhead, InQueue
  <1> QED
    BY <1>2, <1>3

(* A worker that reads a socket hears of what is left in it; the others    *)
(* forget nothing.                                                         *)
LEMMA WorkerTells ==
  ASSUME IInv, EmptyHands, CloseIsReal, SeenIsReal, NEW w \in Workers, Worker(w)
  PROVE  /\ CloseIsReal'
         /\ \A r \in Sessions : Told(r) => Told(r)'
  <1>0. /\ TypeOK /\ WorkShape /\ RotationSafe /\ BusyIsReal /\ NetTypeOK
        /\ work \in [Workers -> Work \union {NoWork}]
        /\ netEvents \in [Sessions -> SUBSET NetEvent]
        /\ UNCHANGED <<mClientSessions, main>>
    BY DEF IInv, TypeOK, WorkTypeOK, NetTypeOK, Worker, serverVars
  <1>1. Current' = Current /\ \A r \in Sessions : DispatchingRead(r)' = DispatchingRead(r)
    BY <1>0 DEF Current, DispatchingRead
  <1>2. CASE PoolStep(w)
    <2>1. UNCHANGED <<netVars, closeNotified, sslFailed>>
      BY <1>2 DEF PoolStep, WaitSignal, WaitClose, WaitFailed, FetchNothing, Fetch, CountUp,
         Requeue, Finish, CancelBegin, CancelPop, CancelKeep, CancelReadCount,
         CancelDrop, CancelUseReleased, CancelEnd, CancelNext, sessionVars
    <2>2. ASSUME NEW r \in Sessions, Told(r)
          PROVE  Told(r)'
      <3>1. Heard(r)' = Heard(r)
        BY <2>1 DEF Heard, netVars
      <3>2. Drift(r) < 0 => Drift(r)' < 0
        BY <1>0, <1>2, PoolDrift, DropLowers
      <3>3. Excused(r) => Excused(r)'
        BY <2>1, <3>2 DEF Excused, netVars
      <3>4. ReadAhead(r) => ReadAhead(r)' \/ Excused(r)'
        BY <1>0, <1>2, PoolTells DEF Excused
      <3> QED
        BY <1>1, <2>2, <3>1, <3>3, <3>4 DEF Told
    <2> QED
      BY <1>0, <1>1, <2>1, <2>2 DEF CloseIsReal, netVars
  <1>3. CASE RunStep(w) /\ UNCHANGED poolVars
    <2>1. \A r \in Sessions : ReadAhead(r) =>
            \/ ReadAhead(r)'
            \/ /\ ReceiveNothing(w) \/ ReceiveWouldBlock(w) \/ Receive(w)
               /\ Session(w) = r
      BY <1>0, <1>3, RunTells
    <2>2. CASE CloseConnection(w)
      <3>1. PICK c \in Sessions : c = Session(w)
        <4>1. pc[w] = "release"
          BY <2>2 DEF CloseConnection, Goto
        <4> QED
          BY <1>0, <4>1 DEF WorkShape, HasWork, Session, Work
      <3>2. ReleaseSession(c) /\ UNCHANGED hungUp /\ pc[w] = "release"
        BY <2>2, <3>1 DEF CloseConnection, Goto
      <3>3. \A r \in Sessions : ReadAhead(r) => ReadAhead(r)'
        BY <2>1, <3>2 DEF ReceiveNothing, ReceiveWouldBlock, Receive, Goto
      <3>4. ASSUME NEW r \in Sessions, r # c, Told(r)
            PROVE  Told(r)'
        <4>1. Drift(r)' = Drift(r)
          BY <1>0, <1>3, <3>1, <3>4, RunDrift
        <4>2. /\ r \in closeNotified => r \in closeNotified'
              /\ r \in sslFailed => r \in sslFailed'
              /\ link'[r] = link[r] /\ unread'[r] = unread[r]
          BY <1>0, <3>2, <3>4, ReleasedIsExcused
        <4>3. Heard(r)' = Heard(r)
          BY <1>0, <3>2, <3>4, ReleasedIsExcused
        <4>4. Excused(r) => Excused(r)'
          BY <3>2, <4>1, <4>2 DEF Excused
        <4> QED
          BY <1>1, <3>3, <3>4, <4>3, <4>4 DEF Told
      <3>5. Told(c)'
        BY <1>0, <3>2, ReleasedIsExcused DEF Told
      <3>6. \A r \in Sessions : netEvents'[r] \subseteq netEvents[r]
        BY <1>0, <3>2, ReleasedIsExcused
      <3> QED
        BY <1>0, <1>1, <3>2, <3>4, <3>5, <3>6 DEF CloseIsReal
    <2>3. CASE ReceiveWouldBlock(w) \/ Receive(w)
      <3>1. PICK c \in Sessions : c = Session(w)
        <4>1. pc[w] = "receive"
          BY <2>3 DEF ReceiveWouldBlock, Receive, Goto
        <4> QED
          BY <1>0, <4>1 DEF WorkShape, HasWork, Session, Work
      <3>2. /\ UNCHANGED <<link, hungUp>>
            /\ closeNotified \subseteq closeNotified' /\ sslFailed \subseteq sslFailed'
        BY <2>3 DEF ReceiveWouldBlock, Receive, sessionVars
      <3>3. PICK n \in Nat : Recv(c, netEvents[c], n)
        <4>1. unread[c] \in Nat
          BY <1>0 DEF NetTypeOK
        <4> QED
          BY <2>3, <3>1, <4>1 DEF ReceiveWouldBlock, Receive
      <3>4. /\ Heard(c)'
            /\ \A r \in Sessions : r # c => /\ netEvents'[r] = netEvents[r]
                                           /\ unread'[r] = unread[r]
                                           /\ Heard(r)' = Heard(r)
            /\ "FD_CLOSE" \in netEvents'[c] => "FD_CLOSE" \in netEvents[c]
        <4>1. PICK mask \in SUBSET NetEvent : mask = netEvents[c]
          BY <1>0
        <4> QED
          BY <1>0, <3>3, <4>1, RecvHears
      <3>5. ASSUME NEW r \in Sessions, r # c, Told(r)
            PROVE  Told(r)'
        <4>1. Drift(r)' = Drift(r)
          BY <1>0, <1>3, <3>1, <3>5, RunDrift
        <4>2. Excused(r) => Excused(r)'
          BY <3>2, <3>4, <3>5, <4>1 DEF Excused
        <4>3. ReadAhead(r) => ReadAhead(r)'
          BY <2>1, <3>1, <3>5
        <4> QED
          BY <1>1, <3>4, <3>5, <4>2, <4>3 DEF Told
      <3> QED
        BY <1>0, <1>1, <3>2, <3>4, <3>5 DEF CloseIsReal, Told
    <2>4. CASE RunStep(w) /\ ~CloseConnection(w) /\ ~ReceiveWouldBlock(w) /\ ~Receive(w)
      <3>1. /\ UNCHANGED netVars
            /\ closeNotified \subseteq closeNotified' /\ sslFailed \subseteq sslFailed'
        BY <2>4 DEF RunStep, ReadBegin, ReceiveNothing, Respond, WriteNothing, ReadEnd,
           CloseBegin, UseReleased, sessionVars
      <3>2. ASSUME NEW r \in Sessions, Told(r)
            PROVE  Told(r)'
        <4>1. Drift(r)' = Drift(r)
          BY <1>0, <1>3, <2>4, RunDrift
        <4>2. Excused(r) => Excused(r)'
          BY <3>1, <4>1 DEF Excused, netVars
        <4>3. Heard(r)' = Heard(r)
          BY <3>1 DEF Heard, netVars
        <4>4. ReceiveNothing(w) /\ Session(w) = r => Excused(r)
          BY DEF ReceiveNothing, Excused
        <4>5. ReadAhead(r) => ReadAhead(r)' \/ Excused(r)
          BY <2>1, <2>4, <4>4
        <4> QED
          BY <1>1, <3>2, <4>2, <4>3, <4>5 DEF Told
      <3> QED
        BY <1>0, <1>1, <3>1, <3>2 DEF CloseIsReal, netVars
    <2> QED
      BY <1>3, <2>2, <2>3, <2>4
  <1> QED
    BY <1>2, <1>3 DEF Worker, WorkerStep

(* What a client does is recorded, or its socket was not armed.            *)
LEMMA OutsideTells ==
  ASSUME TypeOK, CloseIsReal,
         \/ \E s \in Sessions : Client(s) \/ Clock(s)
         \/ PressQuit
         \/ UNCHANGED vars
  PROVE  /\ CloseIsReal'
         /\ \A r \in Sessions : Told(r) => Told(r)'
  <1>0. /\ netEvents \in [Sessions -> SUBSET NetEvent] /\ unread \in [Sessions -> Nat]
        /\ link \in [Sessions -> LinkState]
    BY DEF TypeOK, NetTypeOK
  <1>1. UNCHANGED <<mClientWorks, pc, work, held, processingCount, mClientSessions, main>>
    BY OutsideTyping DEF workVars, poolVars, queueVars, cancelVars
  <1>2. closeNotified \subseteq closeNotified' /\ sslFailed \subseteq sslFailed'
    BY DEF Client, Clock, TimePasses, PressQuit, vars, sessionVars
  <1>3. \A r \in Sessions : /\ DispatchingRead(r)' = DispatchingRead(r)
                            /\ ReadAhead(r)' = ReadAhead(r)
                            /\ Drift(r)' = Drift(r)
    BY <1>1 DEF DispatchingRead, Current, ReadAhead, InQueue, Drift, RunningReads
  <1>4. Current' = Current
    BY <1>1 DEF Current
  <1>5. CASE UNCHANGED netVars
    <2>1. \A r \in Sessions : Heard(r)' = Heard(r)
      BY <1>5 DEF netVars, Heard
    <2>2. \A r \in Sessions : Excused(r) => Excused(r)'
      BY <1>2, <1>3, <1>5 DEF netVars, Excused
    <2> QED
      BY <1>1, <1>3, <1>4, <1>5, <2>1, <2>2 DEF netVars, CloseIsReal, Told
  <1>6. ASSUME NEW s \in Sessions, ClientConnect(s)
        PROVE  CloseIsReal' /\ \A r \in Sessions : Told(r) => Told(r)'
    <2>1. /\ UNCHANGED <<unread, recvArmed, netEvents, hungUp>>
          /\ \A r \in Sessions : link[r] = "closed" => link'[r] = "closed"
      BY <1>0, <1>6 DEF ClientConnect
    <2>2. \A r \in Sessions : Heard(r)' = Heard(r)
      BY <2>1 DEF Heard
    <2>3. \A r \in Sessions : Excused(r) => Excused(r)'
      BY <1>2, <1>3, <2>1 DEF Excused
    <2> QED
      BY <1>1, <1>3, <1>4, <2>1, <2>2, <2>3 DEF CloseIsReal, Told
  <1>7. ASSUME NEW s \in Sessions, ClientSend(s)
        PROVE  CloseIsReal' /\ \A r \in Sessions : Told(r) => Told(r)'
    <2>1. /\ UNCHANGED <<link, hungUp>> /\ link[s] # "closed"
          /\ unread' = [unread EXCEPT ![s] = @ + 1]
          /\ recvArmed' = recvArmed \ {s}
      BY <1>7 DEF ClientSend
    <2>2. /\ \A r \in Sessions : r # s => netEvents'[r] = netEvents[r] /\ unread'[r] = unread[r]
          /\ s \in recvArmed => netEvents'[s] = netEvents[s] \union {"FD_READ"}
          /\ s \notin recvArmed => netEvents'[s] = netEvents[s]
      BY <1>0, <1>7, <2>1 DEF ClientSend
    <2>3. \A r \in Sessions : Heard(r) => Heard(r)'
      BY <2>1, <2>2 DEF Heard
    <2>4. \A r \in Sessions : Excused(r) => Excused(r)'
      BY <1>2, <1>3, <2>1, <2>2 DEF Excused
    <2>5. \A r \in Sessions : "FD_CLOSE" \in netEvents'[r] => "FD_CLOSE" \in netEvents[r]
      BY <2>2
    <2> QED
      BY <1>1, <1>3, <1>4, <2>1, <2>3, <2>4, <2>5 DEF CloseIsReal, Told
  <1>8. ASSUME NEW s \in Sessions, ClientClose(s)
        PROVE  CloseIsReal' /\ \A r \in Sessions : Told(r) => Told(r)'
    <2>1. UNCHANGED <<link, unread, recvArmed>> /\ hungUp' = hungUp \union {s}
      BY <1>8 DEF ClientClose
    <2>2. \A r \in Sessions : /\ netEvents[r] \subseteq netEvents'[r]
                              /\ r # s => netEvents'[r] = netEvents[r]
      BY <1>0, <1>8 DEF ClientClose
    <2>3. \A r \in Sessions : Heard(r) => Heard(r)'
      BY <2>1, <2>2 DEF Heard
    <2>4. \A r \in Sessions : Excused(r) => Excused(r)'
      BY <1>2, <1>3, <2>1 DEF Excused
    <2> QED
      BY <1>1, <1>3, <1>4, <2>1, <2>2, <2>3, <2>4 DEF CloseIsReal, Told
  <1>9. CASE \E s \in Sessions : Client(s)
    BY <1>6, <1>7, <1>8, <1>9 DEF Client, ClientStep
  <1>10. CASE (\E s \in Sessions : Clock(s)) \/ PressQuit \/ UNCHANGED vars
    <2>1. UNCHANGED netVars
      BY <1>10 DEF Clock, PressQuit, vars
    <2> QED
      BY <1>5, <2>1
  <1> QED
    BY <1>9, <1>10

(* Sessions come to the list by Accept only.                               *)
LEMMA NewlyListed ==
  ASSUME TypeOK, MainShape, MainStep, NEW r \in Sessions, r \in Listed'
  PROVE  r \in Listed \/ Accept(r)
  <1>1. \/ UNCHANGED mClientSessions
        \/ Erase
        \/ \E s \in Sessions : Accept(s)
    BY DEF MainStep, Dispatch, OnlyMain,
         SweepFinds, SweepNextChunk, SweepFailed, SweepTimesOut, LeaveLoop, Enumerate,
         AcceptFails, AcceptAndRelease, ContinueHandshake, HandshakeToClose,
         QueueRead, Disconnected, NoCaseMatches, Signal, Nudge, ScanKeeps,
         ScanInvalidates, ScanEnds, DrainSpin, Drain, ToDestroy, DestroyRefused,
         DestroyBegin, DestroyRelease, StopPool, CloseHandles, Join, serverVars
  <1>2. CASE UNCHANGED mClientSessions
    BY <1>2 DEF Listed
  <1>3. CASE Erase
    BY <1>3, ErasedList
  <1>4. ASSUME NEW s \in Sessions, Accept(s)
        PROVE  r \in Listed \/ Accept(r)
    <2>1. /\ mClientSessions \in Seq(Sessions \union {Listener})
          /\ mClientSessions' = Append(mClientSessions, s)
      BY <1>4 DEF Accept, TypeOK, ServerTypeOK
    <2> QED
      BY <1>4, <2>1 DEF Listed
  <1> QED
    BY <1>1, <1>2, <1>3, <1>4

(* With a single worker, nobody changes the count cancelWorks has read but *)
(* by deleting the session.                                                *)
LEMMA SeenStays ==
  ASSUME IInv, IInv', SeenIsReal, NEW w \in Workers, Workers = {w}, MainStep \/ Worker(w)
  PROVE  SeenIsReal'
  <1>0. /\ TypeOK /\ TypeOK' /\ WorkShape /\ ListShape /\ MainShape
        /\ pc \in [Workers -> PC] /\ processingCount \in [Sessions -> Int]
    BY DEF IInv, TypeOK, WorkTypeOK, SessionTypeOK
  <1> SUFFICES ASSUME pc'[w] = "store", held'.session \notin released'
               PROVE  seen' = processingCount'[held'.session]
    BY DEF SeenIsReal
  <1>1. CASE MainStep
    <2>1. UNCHANGED <<pc, held, seen>> /\ held.session \in Sessions
      <3>1. UNCHANGED <<pc, held, seen>>
        BY <1>0, <1>1, MainLeavesWorkers DEF workVars, cancelVars
      <3> QED
        BY <1>0, <3>1, WorkFields DEF WorkShape
    <2>2. \/ UNCHANGED <<processingCount, released>>
          \/ \E s \in Sessions \union {Listener} : ReleaseSession(s)
      <3>1. main.at = "destroyrelease" => Current \in Sessions
        BY <1>0, CurrentIsSession DEF MainShape
      <3> QED
        BY <1>1, <3>1 DEF MainStep, Dispatch, OnlyMain, sessionVars,
         SweepFinds, SweepNextChunk, SweepFailed, SweepTimesOut, LeaveLoop, Enumerate,
         AcceptFails, Accept, AcceptAndRelease, ContinueHandshake, HandshakeToClose,
         QueueRead, Disconnected, NoCaseMatches, Signal, Erase, Nudge, ScanKeeps,
         ScanInvalidates, ScanEnds, DrainSpin, Drain, ToDestroy, DestroyRefused,
         DestroyBegin, DestroyRelease, StopPool, CloseHandles, Join
    <2>3. /\ held.session \notin released
          /\ processingCount'[held.session] = processingCount[held.session]
      BY <1>0, <2>1, <2>2 DEF ReleaseSession
    <2> QED
      BY <2>1, <2>3 DEF SeenIsReal
  <1>2. CASE Worker(w)
    <2>1. CancelReadCount(w)
      <3>1. ~RunStep(w)
        BY <1>0, RunMoves DEF Within
      <3> QED
        BY <1>0, <1>2, <3>1
           DEF Worker, WorkerStep, PoolStep, WaitSignal, WaitClose, WaitFailed, FetchNothing,
               Fetch, CountUp, Requeue, Finish, CancelBegin, CancelPop, CancelKeep,
               CancelDrop, CancelUseReleased, CancelReadsReleased, CancelEnd, CancelNext,
               Goto, workVars, sessionVars, poolVars, cancelVars
    <2> QED
      BY <2>1 DEF CancelReadCount, sessionVars
  <1> QED
    BY <1>1, <1>2

(* Nothing is listed at first, and every step keeps DInv.                  *)
LEMMA ToldInductive ==
  ASSUME NEW w \in Workers, Workers = {w}
  PROVE  DInv /\ [Next]_vars => DInv'
  <1> SUFFICES ASSUME DInv, [Next]_vars PROVE DInv'
    OBVIOUS
  <1>1. /\ OInv /\ OInv' /\ IInv /\ IInv' /\ TypeOK /\ TypeOK' /\ Listed \subseteq Sessions
        /\ Listed' \subseteq Sessions
    <2>1. OInv /\ OInv' /\ IInv /\ IInv' /\ TypeOK /\ TypeOK'
      BY OwnedInductive DEF DInv, OInv, IInv
    <2>2. /\ mClientSessions \in Seq(Sessions \union {Listener})
          /\ mClientSessions' \in Seq(Sessions \union {Listener})
      BY <2>1 DEF TypeOK, ServerTypeOK
    <2>3. Listed \subseteq Sessions
      BY <2>2 DEF Listed
    <2>4. Listed' \subseteq Sessions
      BY <2>2 DEF Listed
    <2> QED
      BY <2>1, <2>3, <2>4
  <1>2. CASE MainStep
    <2>1. CloseIsReal' /\ \A r \in Sessions : Told(r) \/ Accept(r) => Told(r)'
      BY <1>1, <1>2, MainTells DEF DInv, IInv
    <2>2. \A r \in Sessions : r \in Listed' => r \in Listed \/ Accept(r)
      BY <1>1, <1>2, NewlyListed DEF IInv
    <2>3. \A r \in Listed' : Told(r)'
      BY <1>1, <2>1, <2>2 DEF DInv, Announced
    <2>4. SeenIsReal'
      BY <1>1, <1>2, SeenStays DEF DInv
    <2> QED
      BY <1>1, <2>1, <2>3, <2>4 DEF DInv, Announced
  <1>3. CASE Worker(w)
    <2>1. CloseIsReal' /\ \A r \in Sessions : Told(r) => Told(r)'
      BY <1>1, <1>3, WorkerTells DEF DInv, OInv
    <2>2. Listed' = Listed
      BY <1>3 DEF Worker, serverVars, Listed
    <2>3. SeenIsReal'
      BY <1>1, <1>3, SeenStays DEF DInv
    <2> QED
      BY <1>1, <2>1, <2>2, <2>3 DEF DInv, Announced
  <1>4. CASE \/ \E s \in Sessions : Client(s) \/ Clock(s)
             \/ PressQuit
             \/ UNCHANGED vars
    <2>1. CloseIsReal' /\ \A r \in Sessions : Told(r) => Told(r)'
      BY <1>1, <1>4, OutsideTells DEF DInv
    <2>2. UNCHANGED mClientSessions
      BY <1>1, <1>4, OutsideTyping
    <2>3. Listed' = Listed
      BY <2>2 DEF Listed
    <2>4. UNCHANGED <<pc, held, seen, processingCount, released>>
      <3>1. UNCHANGED <<workVars, poolVars, processingCount>>
        BY <1>1, <1>4, OutsideTyping
      <3>2. UNCHANGED released
        BY <1>4 DEF Client, Clock, TimePasses, PressQuit, vars, sessionVars
      <3> QED
        BY <3>1, <3>2 DEF workVars, poolVars, cancelVars
    <2>5. SeenIsReal'
      BY <2>4 DEF DInv, SeenIsReal
    <2> QED
      BY <1>1, <2>1, <2>3, <2>5 DEF DInv, Announced
  <1> QED
    BY <1>2, <1>3, <1>4 DEF Next, Running, Halted

(* With the single worker of the code, data that has arrived on a listed   *)
(* session is never forgotten: FD_READ is recorded, or being handled, or a *)
(* READ will receive the data, unless the peer has hung up or sent         *)
(* close_notify, the SSL object has had a fatal error, or a READ of the    *)
(* session was cancelled.  (With two workers cancelWorks may write back a  *)
(* count it has read before the other worker's READ changed it, and the    *)
(* last exception could not be read off the count.)                        *)
THEOREM DataIsNotForgotten ==
  ASSUME Cardinality(Workers) = 1
  PROVE  Spec => []UnreadAnnounced
  <1>0. PICK w \in Workers : Workers = {w}
    BY WorkersAssumption, FS_Singleton
  <1>1. Init => DInv
    <2> SUFFICES ASSUME Init PROVE DInv
      OBVIOUS
    <2>1. OInv
      BY Initially, OwnedInitially DEF OInv
    <2>2. Announced
      BY ListenerAssumption DEF Init, ServerInit, Announced, Listed
    <2>3. CloseIsReal
      BY DEF Init, NetInit, ServerInit, CloseIsReal
    <2>4. SeenIsReal
      BY DEF Init, WorkInit, SeenIsReal
    <2> QED
      BY <2>1, <2>2, <2>3, <2>4 DEF DInv
  <1>2. DInv => UnreadAnnounced
    <2> SUFFICES ASSUME DInv, NEW s \in Listed
                 PROVE  \/ unread[s] = 0
                        \/ "FD_READ" \in netEvents[s] \/ DispatchingRead(s) \/ ReadAhead(s)
                        \/ s \in hungUp \union closeNotified \union sslFailed \/ Drift(s) < 0
      BY DEF UnreadAnnounced
    <2> QED
      BY DEF DInv, Announced, Told, Heard, Excused
  <1>3. DInv /\ [Next]_vars => DInv'
    BY <1>0, ToldInductive
  <1> QED
    BY <1>1, <1>2, <1>3, PTL DEF Spec

-----------------------------------------------------------------------------
(* Memory                                                                  *)
(*                                                                         *)
(* Nothing in the code counts the works of a session before it is deleted; *)
(* what saves a READ from its session's CLOSE is the order of the queue.   *)
(* While cancelWorks rotates the queue, that order is the one the works    *)
(* will be in afterwards: what has been looked at (behind Boundary) is at  *)
(* the front again, then comes the work in cancelWorks' hands, then what   *)
(* it has still to look at.                                                *)

Boundary == IF \E w \in Workers : pc[w] = "rotate" THEN remaining
            ELSE IF \E w \in Workers : pc[w] \in {"inspect", "store"} THEN remaining - 1
            ELSE 0

Earlier(i, j) == \/ j <= Boundary /\ (i < j \/ i > Boundary)
                 \/ Boundary < i /\ i < j

(* The READs of a session are run before its CLOSE.                        *)
ReadsFirst(s) ==
  /\ \A i \in InQueue(ReadWork(s)), j \in InQueue(CloseWork(s)) : Earlier(i, j)
  /\ held = ReadWork(s) => \A j \in InQueue(CloseWork(s)) : j <= Boundary
  /\ held = CloseWork(s) => \A i \in InQueue(ReadWork(s)) : i > Boundary
  /\ InHand(CloseWork(s)) # {} => InQueue(ReadWork(s)) = {}

(* ... and none of them is left when it is deleted.                        *)
NoneLeft(s) == s \in released => Copies(ReadWork(s)) = 0

InOrder == \A s \in Sessions \ overtaken : ReadsFirst(s) /\ NoneLeft(s)

(* Nor is one left of a session that the destructor will delete.           *)
AllRead ==
  ShuttingDown => \A s \in Listed \ overtaken : Copies(ReadWork(s)) = 0

MInv == OInv /\ InOrder /\ AllRead

(* With a single worker, the boundary is that worker's.                    *)
LEMMA BoundaryOfOne ==
  ASSUME TypeOK, WorkShape, RotationSafe, NEW w \in Workers, Workers = {w}
  PROVE  /\ pc[w] = "rotate" => Boundary = remaining
         /\ pc[w] \in {"inspect", "store"} => Boundary = remaining - 1
         /\ pc[w] \notin {"rotate", "inspect", "store"} => Boundary = 0 /\ ~Rotating
         /\ Boundary \in Nat /\ Boundary <= Len(mClientWorks)
  <1>1. mClientWorks \in Seq(Work) /\ remaining \in Nat /\ Len(mClientWorks) \in Nat
    BY DEF TypeOK, PoolTypeOK
  <1>2. /\ pc[w] = "rotate" => Boundary = remaining
        /\ pc[w] \in {"inspect", "store"} => Boundary = remaining - 1
        /\ pc[w] \notin {"rotate", "inspect", "store"} => Boundary = 0 /\ ~Rotating
    BY DEF Boundary, Rotating
  <1>3. /\ pc[w] = "rotate" => remaining <= Len(mClientWorks)
        /\ pc[w] \in {"inspect", "store"} => remaining > 0 /\ remaining - 1 <= Len(mClientWorks)
    BY DEF RotationSafe, WorkShape
  <1> QED
    BY <1>1, <1>2, <1>3

(* A work that comes to the back of the queue: a READ of a session that    *)
(* has no CLOSE, or a CLOSE outside a rotation, or another's.              *)
LEMMA PushInOrder ==
  ASSUME TypeOK, EmptyHands, Boundary \in Nat, Boundary <= Len(mClientWorks),
         ~Rotating => Boundary = 0,
         UNCHANGED <<pc, work, held, remaining>>,
         NEW x \in Work, mClientWorks' = Append(mClientWorks, x),
         NEW s \in Sessions, ReadsFirst(s),
         x = ReadWork(s) => Copies(CloseWork(s)) = 0,
         x = CloseWork(s) => ~Rotating
  PROVE  ReadsFirst(s)'
  <1>1. mClientWorks \in Seq(Work) /\ Len(mClientWorks) \in Nat
    BY DEF TypeOK, PoolTypeOK
  <1>2. Boundary' = Boundary
    BY DEF Boundary
  <1>3. /\ \A y : y # x => InQueue(y)' = InQueue(y)
        /\ InQueue(x)' = InQueue(x) \union {Len(mClientWorks) + 1}
        /\ \A y : InQueue(y) \subseteq 1 .. Len(mClientWorks)
    BY <1>1 DEF InQueue
  <1>4. ReadWork(s) # CloseWork(s) /\ InHand(CloseWork(s))' = InHand(CloseWork(s))
    BY WorkKinds DEF InHand
  <1>5. CASE x # ReadWork(s) /\ x # CloseWork(s)
    <2>1. /\ InQueue(ReadWork(s))' = InQueue(ReadWork(s))
          /\ InQueue(CloseWork(s))' = InQueue(CloseWork(s))
      BY <1>3, <1>5 DEF ReadWork, CloseWork
    <2> QED
      BY <1>2, <1>4, <2>1 DEF ReadsFirst, Earlier
  <1>6. CASE x = ReadWork(s)
    <2>1. /\ InQueue(CloseWork(s)) = {} /\ InHand(CloseWork(s)) = {}
          /\ held # CloseWork(s)
      BY <1>6, CopyExists
    <2>2. InQueue(CloseWork(s))' = {}
      BY <1>3, <1>4, <1>6, <2>1 DEF CloseWork
    <2> QED
      BY <1>4, <2>1, <2>2 DEF ReadsFirst
  <1>7. CASE x = CloseWork(s)
    <2>1. Boundary = 0 /\ held = NoWork
      BY <1>7 DEF Rotating, EmptyHands
    <2>2. held # ReadWork(s) /\ held # CloseWork(s)
      BY <2>1, WorkKinds, NoWorkAssumption
    <2>3. InQueue(ReadWork(s))' = InQueue(ReadWork(s))
      BY <1>3, <1>4, <1>7 DEF ReadWork
    <2>4. ASSUME NEW i \in InQueue(ReadWork(s)), NEW j \in InQueue(CloseWork(s))'
          PROVE  0 < i /\ i < j
      <3>1. i \in 1 .. Len(mClientWorks)
        BY <1>3
      <3>2. CASE j = Len(mClientWorks) + 1
        BY <1>1, <3>1, <3>2
      <3>3. CASE j \in InQueue(CloseWork(s))
        <4>1. Earlier(i, j) /\ j \in 1 .. Len(mClientWorks)
          BY <1>3, <3>3 DEF ReadsFirst
        <4> QED
          BY <1>1, <2>1, <3>1, <4>1 DEF Earlier
      <3>4. InQueue(CloseWork(s))' = InQueue(CloseWork(s)) \union {Len(mClientWorks) + 1}
        BY <1>3, <1>7 DEF CloseWork
      <3> QED
        BY <3>2, <3>3, <3>4
    <2>5. \A i \in InQueue(ReadWork(s))', j \in InQueue(CloseWork(s))' : Earlier(i, j)'
      BY <1>2, <2>1, <2>3, <2>4 DEF Earlier
    <2> QED
      BY <1>4, <2>2, <2>3, <2>5 DEF ReadsFirst
  <1> QED
    BY <1>5, <1>6, <1>7

(* The head of the queue is taken, and the boundary moves with the queue.  *)
LEMMA TailPlaces ==
  ASSUME TypeOK, mClientWorks # <<>>, mClientWorks' = Tail(mClientWorks), NEW x
  PROVE  /\ \A i \in InQueue(x)' : i \in 1 .. Len(mClientWorks) - 1 /\ i + 1 \in InQueue(x)
         /\ x = Head(mClientWorks) => 1 \in InQueue(x)
         /\ InQueue(x) \subseteq 1 .. Len(mClientWorks)
  <1>1. mClientWorks \in Seq(Work) /\ Len(mClientWorks) \in Nat /\ Len(mClientWorks) >= 1
    BY DEF TypeOK, PoolTypeOK
  <1>2. /\ Len(mClientWorks') = Len(mClientWorks) - 1
        /\ \A i \in 1 .. Len(mClientWorks) - 1 : mClientWorks'[i] = mClientWorks[i + 1]
        /\ DOMAIN mClientWorks' = 1 .. Len(mClientWorks) - 1
    BY <1>1
  <1>3. Head(mClientWorks) = mClientWorks[1] /\ DOMAIN mClientWorks = 1 .. Len(mClientWorks)
    BY <1>1
  <1>4. ASSUME NEW i \in InQueue(x)'
        PROVE  i \in 1 .. Len(mClientWorks) - 1 /\ i + 1 \in InQueue(x)
    <2>1. i \in 1 .. Len(mClientWorks) - 1 /\ mClientWorks'[i] = x
      BY <1>2 DEF InQueue
    <2> QED
      BY <1>1, <1>2, <1>3, <2>1 DEF InQueue
  <1> QED
    BY <1>1, <1>3, <1>4 DEF InQueue
(* The pool's single worker keeps the order, in its rotation as well.      *)
LEMMA PoolInOrder ==
  ASSUME TypeOK, WorkShape, RotationSafe, EmptyHands, TypeOK', WorkShape', RotationSafe',
         NEW w \in Workers, Workers = {w}, PoolStep(w),
         NEW s \in Sessions, ReadsFirst(s)
  PROVE  ReadsFirst(s)'
  <1>0. /\ pc \in [Workers -> PC] /\ work \in [Workers -> Work \union {NoWork}]
        /\ mClientWorks \in Seq(Work) /\ Len(mClientWorks) \in Nat
        /\ remaining \in Nat /\ remaining' \in Nat
        /\ ReadWork(s) # CloseWork(s) /\ ReadWork(s) \in Work /\ CloseWork(s) \in Work
    BY WorkKinds DEF TypeOK, WorkTypeOK, PoolTypeOK
  <1>b. /\ pc[w] = "rotate" => Boundary = remaining
        /\ pc[w] \in {"inspect", "store"} => Boundary = remaining - 1
        /\ pc[w] \notin {"rotate", "inspect", "store"} => Boundary = 0 /\ ~Rotating
        /\ Boundary \in Nat /\ Boundary <= Len(mClientWorks)
    BY BoundaryOfOne
  <1>c. /\ pc'[w] = "rotate" => Boundary' = remaining'
        /\ pc'[w] \in {"inspect", "store"} => Boundary' = remaining' - 1
        /\ pc'[w] \notin {"rotate", "inspect", "store"} => Boundary' = 0
    BY DEF Boundary
  <1>h. \A x : InHand(x) = IF work[w] = x /\ pc[w] \notin Finished THEN {w} ELSE {}
    BY DEF InHand
  <1>k. \A x : InHand(x)' = IF work'[w] = x /\ pc'[w] \notin Finished THEN {w} ELSE {}
    BY DEF InHand
  <1>n. pc[w] \notin {"inspect", "store"} => held # ReadWork(s) /\ held # CloseWork(s)
    BY NoWorkAssumption, <1>0 DEF EmptyHands
  <1>1. CASE WaitSignal(w) \/ WaitClose(w) \/ WaitFailed(w) \/ FetchNothing(w) \/ CountUp(w)
               \/ Finish(w) \/ CancelReadCount(w) \/ CancelUseReleased(w)
               \/ CancelBegin(w) \/ CancelEnd(w)
    <2>1. UNCHANGED <<mClientWorks, held>>
      BY <1>1 DEF WaitSignal, WaitClose, WaitFailed, FetchNothing, CountUp, Finish, CancelBegin,
         CancelReadCount, CancelUseReleased, CancelEnd, poolVars, queueVars, cancelVars
    <2>2. \A x : InQueue(x)' = InQueue(x)
      BY <2>1 DEF InQueue
    <2>3. InHand(CloseWork(s))' # {} => InHand(CloseWork(s)) # {}
      BY <1>0, <1>1, <1>h, <1>k, NoWorkAssumption
         DEF WaitSignal, WaitClose, WaitFailed, FetchNothing, CountUp, Finish,
         CancelReadCount, CancelUseReleased, CancelBegin, CancelEnd, Goto, workVars,
         Finished, EmptyHands
    <2>4. CASE WaitSignal(w) \/ WaitClose(w) \/ WaitFailed(w) \/ FetchNothing(w) \/ CountUp(w)
                 \/ Finish(w) \/ CancelReadCount(w) \/ CancelUseReleased(w)
      <3>1. Boundary' = Boundary
        BY <1>0, <1>b, <1>c, <2>4 DEF WaitSignal, WaitClose, WaitFailed, FetchNothing, CountUp,
           Finish, CancelReadCount, CancelUseReleased, Goto, workVars, poolVars, cancelVars
      <3> QED
        BY <2>1, <2>2, <2>3, <3>1 DEF ReadsFirst, Earlier
    <2>5. CASE CancelBegin(w) \/ CancelEnd(w)
      <3>1. /\ Boundary = 0 /\ Boundary' \in {0, Len(mClientWorks)}
            /\ pc[w] \notin {"inspect", "store"}
        BY <1>0, <1>b, <1>c, <2>5 DEF CancelBegin, CancelEnd, Goto
      <3>2. ASSUME NEW i \in InQueue(ReadWork(s)), NEW j \in InQueue(CloseWork(s))
            PROVE  Earlier(i, j)'
        <4>1. /\ i \in 1 .. Len(mClientWorks) /\ j \in 1 .. Len(mClientWorks)
              /\ Earlier(i, j)
          BY <1>0 DEF InQueue, ReadsFirst
        <4>2. i < j
          BY <1>0, <3>1, <4>1 DEF Earlier
        <4> QED
          BY <1>0, <3>1, <4>1, <4>2 DEF Earlier
      <3> QED
        BY <1>n, <2>1, <2>2, <2>3, <3>1, <3>2 DEF ReadsFirst
    <2> QED
      BY <1>1, <2>4, <2>5
  <1>2. CASE Fetch(w)
    <2>1. /\ mClientWorks # <<>> /\ mClientWorks' = Tail(mClientWorks) /\ held' = held
          /\ pc[w] = "fetch" /\ pc'[w] = "count" /\ work'[w] = Head(mClientWorks)
      BY <1>0, <1>2 DEF Fetch, IsWorkQueueEmpty, Goto, cancelVars
    <2>2. Boundary = 0 /\ Boundary' = 0
      BY <1>b, <1>c, <2>1
    <2>3. \A x : /\ \A i \in InQueue(x)' : /\ i \in 1 .. Len(mClientWorks) - 1
                                           /\ i + 1 \in InQueue(x)
                 /\ x = Head(mClientWorks) => 1 \in InQueue(x)
      BY <2>1, TailPlaces
    <2>4. ASSUME NEW i \in InQueue(ReadWork(s))', NEW j \in InQueue(CloseWork(s))'
          PROVE  Earlier(i, j)'
      <3>1. /\ i \in Nat /\ j \in Nat /\ i > 0 /\ j > 0
            /\ i + 1 \in InQueue(ReadWork(s)) /\ j + 1 \in InQueue(CloseWork(s))
        BY <1>0, <2>3 DEF ReadWork, CloseWork
      <3>2. Earlier(i + 1, j + 1)
        BY <3>1 DEF ReadsFirst
      <3> QED
        BY <2>2, <3>1, <3>2 DEF Earlier
    <2>5. ASSUME InHand(CloseWork(s))' # {}, NEW i \in InQueue(ReadWork(s))'
          PROVE  FALSE
      <3>1. CloseWork(s) = Head(mClientWorks)
        BY <1>k, <2>1, <2>5
      <3>2. /\ 1 \in InQueue(CloseWork(s)) /\ i \in Nat /\ i > 0
            /\ i + 1 \in InQueue(ReadWork(s))
        BY <1>0, <2>3, <3>1 DEF ReadWork
      <3>3. Earlier(i + 1, 1)
        BY <3>2 DEF ReadsFirst
      <3> QED
        BY <2>2, <3>2, <3>3 DEF Earlier
    <2> QED
      BY <1>n, <2>1, <2>4, <2>5 DEF ReadsFirst
  <1>3. CASE Requeue(w)
    <2>1. /\ mClientWorks' = Append(mClientWorks, work[w]) /\ held' = held
          /\ pc[w] = "requeue" /\ pc'[w] = "finish"
      BY <1>0, <1>3 DEF Requeue, QueueWork, Goto, cancelVars
    <2>2. PICK c \in Sessions : work[w] = CloseWork(c)
      BY <2>1, WorkKinds DEF WorkShape, HasWork
    <2>3. Boundary = 0 /\ Boundary' = 0
      BY <1>b, <1>c, <2>1
    <2>4. /\ InQueue(ReadWork(s))' = InQueue(ReadWork(s))
          /\ s # c => InQueue(CloseWork(s))' = InQueue(CloseWork(s))
      BY <1>0, <2>1, <2>2, WorkKinds DEF InQueue, ReadWork, CloseWork
    <2>5. InHand(CloseWork(s))' = {}
      BY <1>k, <2>1 DEF Finished
    <2>6. CASE s = c
      <3>1. InQueue(ReadWork(s)) = {}
        BY <1>h, <2>1, <2>2, <2>6 DEF ReadsFirst, Finished
      <3> QED
        BY <1>n, <2>1, <2>4, <2>5, <3>1 DEF ReadsFirst
    <2>7. CASE s # c
      BY <1>n, <2>1, <2>3, <2>4, <2>5, <2>7 DEF ReadsFirst, Earlier
    <2> QED
      BY <2>6, <2>7
  <1>4. CASE CancelPop(w)
    <2>1. /\ mClientWorks' = Tail(mClientWorks) /\ held' = Head(mClientWorks)
          /\ pc[w] = "rotate" /\ pc'[w] = "inspect" /\ work' = work
          /\ remaining > 0 /\ remaining' = remaining
      BY <1>0, <1>4 DEF CancelPop, Goto
    <2>2. Boundary = remaining /\ Boundary' = remaining - 1 /\ mClientWorks # <<>>
      BY <1>0, <1>b, <1>c, <2>1
    <2>3. \A x : /\ \A i \in InQueue(x)' : /\ i \in 1 .. Len(mClientWorks) - 1
                                           /\ i + 1 \in InQueue(x)
                 /\ x = Head(mClientWorks) => 1 \in InQueue(x)
      BY <2>1, <2>2, TailPlaces
    <2>4. ASSUME NEW i \in InQueue(ReadWork(s))', NEW j \in InQueue(CloseWork(s))'
          PROVE  Earlier(i, j)'
      <3>1. /\ i \in Nat /\ j \in Nat
            /\ i + 1 \in InQueue(ReadWork(s)) /\ j + 1 \in InQueue(CloseWork(s))
        BY <1>0, <2>3 DEF ReadWork, CloseWork
      <3>2. Earlier(i + 1, j + 1)
        BY <3>1 DEF ReadsFirst
      <3> QED
        BY <1>0, <2>2, <3>1, <3>2 DEF Earlier
    <2>5. ASSUME held' = ReadWork(s), NEW j \in InQueue(CloseWork(s))'
          PROVE  j <= Boundary'
      <3>1. /\ 1 \in InQueue(ReadWork(s)) /\ j \in Nat /\ j > 0
            /\ j + 1 \in InQueue(CloseWork(s))
        BY <1>0, <2>1, <2>3, <2>5 DEF CloseWork
      <3>2. Earlier(1, j + 1)
        BY <3>1 DEF ReadsFirst
      <3> QED
        BY <1>0, <2>1, <2>2, <3>1, <3>2 DEF Earlier
    <2>6. ASSUME held' = CloseWork(s), NEW i \in InQueue(ReadWork(s))'
          PROVE  i > Boundary'
      <3>1. /\ 1 \in InQueue(CloseWork(s)) /\ i \in Nat /\ i > 0
            /\ i + 1 \in InQueue(ReadWork(s))
        BY <1>0, <2>1, <2>3, <2>6 DEF ReadWork
      <3>2. Earlier(i + 1, 1)
        BY <3>1 DEF ReadsFirst
      <3> QED
        BY <1>0, <2>1, <2>2, <3>1, <3>2 DEF Earlier
    <2>7. InHand(CloseWork(s))' = {}
      <3>1. work[w] # CloseWork(s)
        BY <2>1 DEF WorkShape, Cancelling, CloseWork
      <3> QED
        BY <1>k, <2>1, <3>1
    <2> QED
      BY <2>4, <2>5, <2>6, <2>7 DEF ReadsFirst
  <1>5. CASE CancelKeep(w)
    <2>1. /\ mClientWorks' = Append(mClientWorks, held) /\ held' = NoWork
          /\ pc[w] = "inspect" /\ pc'[w] = "rotate" /\ work' = work
          /\ remaining' = remaining - 1
      BY <1>0, <1>5 DEF CancelKeep, CancelNext, QueueWork, Goto
    <2>2. Boundary' = Boundary /\ held \in Work
      BY <1>b, <1>c, <2>1 DEF WorkShape
    <2>3. /\ \A x : x # held => InQueue(x)' = InQueue(x)
          /\ \A x : x = held => InQueue(x)' = InQueue(x) \union {Len(mClientWorks) + 1}
          /\ \A x : InQueue(x) \subseteq 1 .. Len(mClientWorks)
      BY <1>0, <2>1, <2>2 DEF InQueue
    <2>4. ASSUME NEW i \in InQueue(ReadWork(s))', NEW j \in InQueue(CloseWork(s))'
          PROVE  Earlier(i, j)'
      <3>1. \/ i \in InQueue(ReadWork(s))
            \/ i = Len(mClientWorks) + 1 /\ held = ReadWork(s)
        BY <2>3 DEF ReadWork
      <3>2. \/ j \in InQueue(CloseWork(s))
            \/ j = Len(mClientWorks) + 1 /\ held = CloseWork(s)
        BY <2>3 DEF CloseWork
      <3>3. CASE i \in InQueue(ReadWork(s)) /\ j \in InQueue(CloseWork(s))
        BY <2>2, <3>3 DEF ReadsFirst, Earlier
      <3>4. CASE i = Len(mClientWorks) + 1 /\ held = ReadWork(s) /\ j \in InQueue(CloseWork(s))
        <4>1. j <= Boundary
          BY <3>4 DEF ReadsFirst
        <4> QED
          BY <1>0, <1>b, <2>2, <3>4, <4>1 DEF Earlier
      <3>5. CASE i \in InQueue(ReadWork(s)) /\ j = Len(mClientWorks) + 1 /\ held = CloseWork(s)
        <4>1. i > Boundary /\ i \in 1 .. Len(mClientWorks)
          BY <2>3, <3>5 DEF ReadsFirst
        <4> QED
          BY <1>0, <1>b, <2>2, <3>5, <4>1 DEF Earlier
      <3> QED
        BY <1>0, <3>1, <3>2, <3>3, <3>4, <3>5
    <2>5. held' # ReadWork(s) /\ held' # CloseWork(s)
      BY <1>0, <2>1, NoWorkAssumption
    <2>6. InHand(CloseWork(s))' = {}
      <3>1. work[w] # CloseWork(s)
        BY <2>1 DEF WorkShape, Cancelling, CloseWork
      <3> QED
        BY <1>k, <2>1, <3>1
    <2> QED
      BY <2>4, <2>5, <2>6 DEF ReadsFirst
  <1>6. CASE CancelDrop(w)
    <2>1. /\ UNCHANGED mClientWorks /\ held' = NoWork
          /\ pc[w] = "store" /\ pc'[w] = "rotate" /\ work' = work
          /\ remaining' = remaining - 1
      BY <1>0, <1>6 DEF CancelDrop, CancelNext, Goto, queueVars
    <2>2. Boundary' = Boundary /\ \A x : InQueue(x)' = InQueue(x)
      BY <1>b, <1>c, <2>1 DEF InQueue
    <2>3. held' # ReadWork(s) /\ held' # CloseWork(s)
      BY <1>0, <2>1, NoWorkAssumption
    <2>4. InHand(CloseWork(s))' = {}
      <3>1. work[w] # CloseWork(s)
        BY <2>1 DEF WorkShape, Cancelling, CloseWork
      <3> QED
        BY <1>k, <2>1, <3>1
    <2> QED
      BY <2>2, <2>3, <2>4 DEF ReadsFirst, Earlier
  <1> QED
    BY <1>1, <1>2, <1>3, <1>4, <1>5, <1>6 DEF PoolStep

(* A session is deleted when its CLOSE is in the worker's hands: its READs *)
(* were run or cancelled before.                                           *)
LEMMA WorkerInOrder ==
  ASSUME IInv, IInv', EmptyHands, InOrder, AllRead,
         NEW w \in Workers, Workers = {w}, Worker(w)
  PROVE  InOrder' /\ AllRead'
  <1>0. /\ TypeOK /\ WorkShape /\ RotationSafe /\ TypeOK' /\ WorkShape' /\ RotationSafe'
        /\ pc \in [Workers -> PC]
        /\ UNCHANGED <<mClientSessions, main, overtaken>>
    BY DEF IInv, TypeOK, WorkTypeOK, Worker, serverVars
  <1>s. ShuttingDown' = ShuttingDown /\ Listed' = Listed /\ Listed \subseteq Sessions
    BY <1>0 DEF ShuttingDown, Listed, TypeOK, ServerTypeOK
  <1>1. ASSUME NEW s \in Sessions, ReadsFirst(s)
        PROVE  ReadsFirst(s)'
    <2>1. CASE PoolStep(w)
      BY <1>0, <1>1, <2>1, PoolInOrder
    <2>2. CASE RunStep(w) /\ UNCHANGED poolVars
      <3>1. UNCHANGED <<mClientWorks, held, remaining, work>>
        BY <1>0, <2>2, RunMoves DEF poolVars, queueVars, cancelVars
      <3>2. /\ pc[w] \notin {"rotate", "inspect", "store", "finish", "wait", "ended"}
            /\ pc'[w] \notin {"rotate", "inspect", "store"}
        BY <1>0, <2>2 DEF RunStep, ReadBegin, ReceiveNothing, ReceiveWouldBlock, Receive,
           Respond, WriteNothing, ReadEnd, CloseBegin, CloseConnection, UseReleased,
           Dereferencing, Goto, workVars
      <3>3. Boundary' = Boundary
        BY <3>1, <3>2 DEF Boundary
      <3>4. InHand(CloseWork(s))' # {} => InHand(CloseWork(s)) # {}
        BY <3>1, <3>2 DEF InHand, CloseWork, Finished
      <3>5. \A x : InQueue(x)' = InQueue(x)
        BY <3>1 DEF InQueue
      <3> QED
        BY <1>1, <3>1, <3>3, <3>4, <3>5 DEF ReadsFirst, Earlier
    <2> QED
      BY <2>1, <2>2 DEF Worker, WorkerStep
  <1>2. ASSUME NEW s \in Sessions, NoneLeft(s), ReadsFirst(s)
        PROVE  NoneLeft(s)'
    <2>1. WorkerKinds
      BY <1>0, WorkerEffect
    <2>2. Copies(ReadWork(s)) \in Nat /\ Copies(ReadWork(s))' \in Nat
      <3>1. Numbers /\ Numbers'
        BY <1>0, OwnersNat, PTL
      <3> QED
        BY <3>1 DEF Numbers
    <2>3. CASE AllKept /\ UNCHANGED <<released, link>>
      BY <1>2, <2>3, WorkKinds DEF AllKept, NoneLeft
    <2>4. ASSUME NEW c \in Sessions, OneEnded(ReadWork(c)), Copies(ReadWork(c)) >= 1,
                 UNCHANGED released
          PROVE  NoneLeft(s)'
      BY <1>2, <2>2, <2>4, WorkKinds DEF OneEnded, NoneLeft
    <2>5. ASSUME NEW c \in Sessions, OneEnded(CloseWork(c)), released' = released \union {c}
          PROVE  NoneLeft(s)'
      <3>1. Copies(ReadWork(s))' = Copies(ReadWork(s))
        BY <2>2, <2>5, WorkKinds DEF OneEnded
      <3>2. CASE s # c \/ c \in released
        BY <1>2, <2>5, <3>1, <3>2 DEF NoneLeft
      <3>3. CASE s = c /\ c \notin released
        <4>1. CloseConnection(w) /\ Session(w) = c
          <5>1. RunStep(w)
            BY <2>5, <3>3 DEF Worker, WorkerStep, PoolStep, WaitSignal, WaitClose, WaitFailed,
               FetchNothing, Fetch, CountUp, Requeue, Finish, CancelBegin, CancelPop,
               CancelKeep, CancelReadCount, CancelDrop, CancelUseReleased, CancelEnd,
               sessionVars
          <5>2. CloseConnection(w)
            BY <2>5, <3>3, <5>1 DEF RunStep, ReadBegin, ReceiveNothing, ReceiveWouldBlock,
               Receive, Respond, WriteNothing, ReadEnd, CloseBegin, UseReleased, sessionVars
          <5> QED
            BY <2>5, <3>3, <5>2 DEF CloseConnection, ReleaseSession
        <4>2. pc[w] = "release" /\ work[w] = CloseWork(s)
          <5>1. pc[w] = "release"
            BY <4>1 DEF CloseConnection, Goto
          <5>2. work[w] \in Work /\ work[w].type = "SESSION_CLOSE"
            BY <1>0, <5>1 DEF WorkShape, HasWork
          <5> QED
            BY <3>3, <4>1, <5>1, <5>2, WorkKinds DEF Session
        <4>3. InQueue(ReadWork(s)) = {}
          <5>1. w \in InHand(CloseWork(s))
            BY <4>2 DEF InHand, Finished
          <5> QED
            BY <1>2, <5>1 DEF ReadsFirst
        <4>4. InHand(ReadWork(s)) = {}
          BY <4>2, WorkKinds DEF InHand
        <4>5. held # ReadWork(s)
          BY <4>2, WorkKinds, NoWorkAssumption DEF EmptyHands
        <4>6. Copies(ReadWork(s)) = 0
          BY <4>3, <4>4, <4>5, FS_EmptySet DEF Copies
        <4> QED
          BY <3>1, <4>6 DEF NoneLeft
      <3> QED
        BY <3>2, <3>3
    <2> QED
      BY <2>1, <2>3, <2>4, <2>5 DEF WorkerKinds
  <1>3. ASSUME ShuttingDown', NEW s \in Listed', s \notin overtaken'
        PROVE  Copies(ReadWork(s))' = 0
    <2>1. s \in Sessions /\ Copies(ReadWork(s)) = 0
      BY <1>0, <1>s, <1>3 DEF AllRead
    <2>2. WorkerKinds
      BY <1>0, WorkerEffect
    <2> QED
      BY <2>1, <2>2, WorkKinds DEF WorkerKinds, AllKept, OneEnded
  <1> QED
    BY <1>0, <1>1, <1>2, <1>3 DEF InOrder, AllRead

(* What the main thread queues: a READ for a session that has no CLOSE, or *)
(* a CLOSE, which it remembers when a rotation is under way.               *)
LEMMA MainQueues ==
  ASSUME TypeOK, ListShape, MainShape, Ownership, MainStep
  PROVE  \/ UNCHANGED mClientWorks /\ overtaken \subseteq overtaken'
         \/ \E c \in Sessions : /\ mClientWorks' = Append(mClientWorks, ReadWork(c))
                               /\ Copies(CloseWork(c)) = 0
                               /\ UNCHANGED overtaken
         \/ \E c \in Sessions : QueueClose(c)
  <1>0. /\ main \in MainState /\ mClientSessions \in Seq(Sessions \union {Listener})
        /\ Numbers
    BY OwnersNat DEF TypeOK, ServerTypeOK
  <1>1. CASE QueueRead
    <2>1. main.at = "dispatch" /\ main.index \in 2 .. Len(mClientSessions)
      BY <1>0, <1>1 DEF QueueRead, Dispatching, MainShape, ClientIndex, MainState
    <2>2. PICK c \in Sessions : c = Current
      BY <2>1, CurrentIsSession DEF ClientIndex
    <2>3. main.index \in HeldAt(c)
      BY <1>0, <2>1, <2>2 DEF HeldAt, Holds, Current
    <2>4. OnList(c) >= 1
      <3>1. OnList(c) # 0 /\ OnList(c) \in Nat
        BY <2>3, OnListNat, FS_EmptySet DEF OnList
      <3> QED
        BY <3>1
    <2>5. Copies(CloseWork(c)) = 0
      BY <1>0, <2>4 DEF Numbers, Ownership
    <2> QED
      BY <1>1, <2>2, <2>5 DEF QueueRead, QueueWork
  <1>2. CASE HandshakeToClose \/ Disconnected \/ ScanInvalidates
    <2>1. main.index \in 2 .. Len(mClientSessions)
      <3>1. CASE HandshakeToClose \/ Disconnected
        BY <1>0, <3>1 DEF HandshakeToClose, Disconnected, Dispatching, MainShape, ClientIndex
      <3>2. CASE ScanInvalidates
        BY <1>0, <3>2, ListFacts DEF ScanInvalidates, Scanning, MainShape, MainState
      <3> QED
        BY <1>2, <3>1, <3>2
    <2>2. PICK c \in Sessions : c = Current
      BY <2>1, CurrentIsSession DEF ClientIndex
    <2> QED
      BY <1>2, <2>2 DEF HandshakeToClose, Disconnected, ScanInvalidates
  <1>3. CASE ~QueueRead /\ ~HandshakeToClose /\ ~Disconnected /\ ~ScanInvalidates
    BY <1>3 DEF MainStep, Dispatch, OnlyMain, poolVars, queueVars,
         SweepFinds, SweepNextChunk, SweepFailed, SweepTimesOut, LeaveLoop, Enumerate,
         AcceptFails, Accept, AcceptAndRelease, ContinueHandshake, NoCaseMatches,
         Signal, Erase, Nudge, ScanKeeps, ScanEnds, DrainSpin, Drain, ToDestroy,
         DestroyRefused, DestroyBegin, DestroyRelease, StopPool, CloseHandles, Join, serverVars
  <1> QED
    BY <1>1, <1>2, <1>3

(* When the destructor begins, no worker is counted: what is left of a     *)
(* session's READs is queued, or taken by a worker that is not counted     *)
(* yet, and Drain remembers it.                                            *)
LEMMA DrainRemembers ==
  ASSUME OInv, NEW w \in Workers, Workers = {w}, Drain,
         NEW s \in Listed, s \notin overtaken'
  PROVE  Copies(ReadWork(s)) = 0
  <1>0. TypeOK /\ WorkShape /\ CountExact /\ EmptyHands /\ s \in Sessions
    BY DEF OInv, IInv, Listed, TypeOK, ServerTypeOK
  <1>1. ~StillToRead(s)
    BY DEF Drain, ToDestroy
  <1>2. CountedWorkers = {}
    <2>1. mThreadRunningCount \in Nat /\ ~(mThreadRunningCount > 0)
      BY <1>0 DEF Drain, IsThreadsRunning, TypeOK, PoolTypeOK
    <2> QED
      BY <1>0, <2>1, CountedFinite, FS_EmptySet DEF CountExact
  <1>3. pc[w] \in PC /\ pc[w] \notin Counted
    BY <1>0, <1>2 DEF CountedWorkers, TypeOK, WorkTypeOK
  <1>4. held = NoWork
    BY <1>0, <1>3 DEF EmptyHands, Counted, HasWork
  <1>5. InQueue(ReadWork(s)) = {}
    BY <1>1 DEF StillToRead, InQueue
  <1>6. InHand(ReadWork(s)) = {}
    <2>1. pc[w] = "count" => work[w] # ReadWork(s)
      BY <1>1 DEF StillToRead
    <2>2. pc[w] = "fetch" => work[w] # ReadWork(s)
      BY <1>0, WorkKinds, NoWorkAssumption DEF EmptyHands
    <2>3. pc[w] \in Finished \union {"count", "fetch"}
      BY <1>3 DEF PC, Counted, HasWork, Finished
    <2> QED
      BY <2>1, <2>2, <2>3 DEF InHand, Finished
  <1> QED
    BY <1>0, <1>4, <1>5, <1>6, WorkKinds, NoWorkAssumption, FS_EmptySet DEF Copies

(* The destructor is entered through Drain only.                           *)
LEMMA DrainOpens ==
  ASSUME main \in MainState, MainStep, ShuttingDown', ~ShuttingDown
  PROVE  Drain
  <1> USE DEF MainState, OnlyMain
  <1>1. ~(SweepFinds \/ SweepNextChunk \/ SweepFailed \/ SweepTimesOut \/ LeaveLoop)
    BY DEF SweepFinds, SweepNextChunk, SweepFailed, SweepTimesOut, LeaveLoop, Sweeping,
       ShuttingDown
  <1>2. ~(Enumerate \/ Signal \/ Erase \/ Nudge)
    BY DEF Enumerate, Signal, Erase, Nudge, ShuttingDown
  <1>3. ~(ScanKeeps \/ ScanInvalidates \/ ScanEnds \/ DrainSpin)
    BY DEF ScanKeeps, ScanInvalidates, ScanEnds, Scanning, DrainSpin, ShuttingDown
  <1>4. ~Dispatch
    BY DEF Dispatch, AcceptFails, Accept, AcceptAndRelease, ContinueHandshake,
       HandshakeToClose, QueueRead, Disconnected, NoCaseMatches, ToSweep, ToSignalRead,
       ToSignalClose, ShuttingDown
  <1>5. ~(DestroyRefused \/ DestroyBegin \/ DestroyRelease \/ StopPool \/ CloseHandles \/ Join)
    BY DEF DestroyRefused, DestroyBegin, DestroyRelease, StopPool, CloseHandles, Join,
       Destroying, ShuttingDown
  <1> QED
    BY <1>1, <1>2, <1>3, <1>4, <1>5 DEF MainStep

(* The main thread keeps the order, and queues no READ of a session that   *)
(* is deleted.                                                             *)
LEMMA MainInOrder ==
  ASSUME OInv, IInv', InOrder, AllRead, NEW w \in Workers, Workers = {w}, MainStep
  PROVE  InOrder' /\ AllRead'
  <1>0. /\ TypeOK /\ WorkShape /\ RotationSafe /\ ListShape /\ MainShape /\ TypeOK'
        /\ EmptyHands /\ Ownership
        /\ UNCHANGED <<pc, work, held, remaining>>
    BY MainLeavesWorkers DEF OInv, IInv, workVars, cancelVars
  <1>b. Boundary \in Nat /\ Boundary <= Len(mClientWorks) /\ (~Rotating => Boundary = 0)
    BY <1>0, BoundaryOfOne DEF Rotating
  <1>1. ASSUME NEW s \in Sessions, s \notin overtaken', s \notin overtaken => ReadsFirst(s)
        PROVE  s \notin overtaken /\ ReadsFirst(s)'
    <2>1. CASE UNCHANGED mClientWorks /\ overtaken \subseteq overtaken'
      <3>1. /\ Boundary' = Boundary
            /\ \A x : InQueue(x)' = InQueue(x) /\ InHand(x)' = InHand(x)
        BY <1>0, <2>1 DEF Boundary, InQueue, InHand
      <3> QED
        BY <1>0, <1>1, <2>1, <3>1 DEF ReadsFirst, Earlier
    <2>2. ASSUME NEW c \in Sessions, mClientWorks' = Append(mClientWorks, ReadWork(c)),
                 Copies(CloseWork(c)) = 0, UNCHANGED overtaken
          PROVE  s \notin overtaken /\ ReadsFirst(s)'
      <3>1. /\ ReadWork(c) \in Work /\ ReadWork(c) # CloseWork(s)
            /\ ReadWork(c) = ReadWork(s) => Copies(CloseWork(s)) = 0
        BY <2>2, WorkKinds
      <3> QED
        BY <1>0, <1>1, <1>b, <2>2, <3>1, PushInOrder
    <2>3. ASSUME NEW c \in Sessions, QueueClose(c)
          PROVE  s \notin overtaken /\ ReadsFirst(s)'
      <3>1. /\ s \notin overtaken /\ (s = c => ~Rotating)
            /\ mClientWorks' = Append(mClientWorks, CloseWork(c))
        BY <1>1, <2>3 DEF QueueClose, QueueWork
      <3>2. /\ CloseWork(c) \in Work /\ CloseWork(c) # ReadWork(s)
            /\ CloseWork(c) = CloseWork(s) => ~Rotating
        BY <3>1, WorkKinds
      <3> QED
        BY <1>0, <1>1, <1>b, <3>1, <3>2, PushInOrder
    <2> QED
      BY <1>0, <2>1, <2>2, <2>3, MainQueues
  <1>2. ASSUME NEW s \in Sessions, s \notin overtaken, NoneLeft(s)
        PROVE  NoneLeft(s)'
    <2>1. MainKinds /\ Numbers
      BY <1>0, MainEffect, OwnersNat
    <2>2. CASE Idles
      BY <1>2, <2>2, CopiesKept DEF Idles, Workless, NoneLeft
    <2>3. ASSUME NEW c \in Sessions, Asks(c)
          PROVE  NoneLeft(s)'
      <3>1. c \notin released /\ UNCHANGED released /\ ~ShuttingDown
        BY <1>0, <2>1, <2>3 DEF Asks, Numbers, Ownership
      <3>2. s # c => Copies(ReadWork(s))' = Copies(ReadWork(s))
        BY <2>1, <2>3, WorkKinds DEF Asks, OneAdded, Numbers
      <3> QED
        BY <1>2, <3>1, <3>2 DEF NoneLeft
    <2>4. ASSUME NEW c \in Sessions, Closes(c)
          PROVE  NoneLeft(s)'
      <3>1. Copies(ReadWork(s))' = Copies(ReadWork(s))
        BY <2>1, <2>4, WorkKinds DEF Closes, OneAdded, Numbers
      <3> QED
        BY <1>2, <2>4, <3>1 DEF NoneLeft, Closes
    <2>5. ASSUME NEW c \in Sessions, Opens(c) \/ Refuses(c)
          PROVE  NoneLeft(s)'
      <3>1. Copies(ReadWork(s))' = Copies(ReadWork(s)) /\ ~ShuttingDown
        BY <2>5, CopiesKept DEF Opens, Refuses, Workless
      <3>2. s \in released' => s \in released \/ s = c
        BY <2>5 DEF Opens, Refuses
      <3>3. Copies(ReadWork(c)) = 0
        BY <1>0, <2>5 DEF Opens, Refuses, Ownership
      <3> QED
        BY <1>2, <3>1, <3>2, <3>3 DEF NoneLeft
    <2>6. ASSUME NEW c \in Sessions, Destroys(c)
          PROVE  NoneLeft(s)'
      <3>1. Copies(ReadWork(s))' = Copies(ReadWork(s)) /\ ShuttingDown
        BY <2>6, CopiesKept DEF Destroys, Workless
      <3>2. s \in released' => s \in released \/ s = c
        BY <2>6 DEF Destroys
      <3>3. c \in Listed
        BY <1>0, <2>6, OnListIsListed DEF Destroys
      <3> QED
        BY <1>2, <3>1, <3>2, <3>3 DEF NoneLeft, AllRead
    <2> QED
      BY <2>1, <2>2, <2>3, <2>4, <2>5, <2>6 DEF MainKinds
  <1>3. ASSUME ShuttingDown', NEW s \in Listed', s \notin overtaken'
        PROVE  Copies(ReadWork(s))' = 0
    <2>1. CASE ~ShuttingDown
      <3>1. Drain
        BY <1>0, <1>3, <2>1, DrainOpens DEF TypeOK, ServerTypeOK
      <3>2. UNCHANGED mClientWorks /\ Listed' = Listed
        BY <3>1 DEF Drain, ToDestroy, poolVars, queueVars, Listed
      <3>3. Copies(ReadWork(s)) = 0
        BY <1>3, <3>1, <3>2, DrainRemembers
      <3> QED
        BY <1>0, <3>2, <3>3, CopiesKept
    <2>2. CASE ShuttingDown
      <3>1. Idles \/ \E c \in Sessions : Destroys(c)
        BY <1>0, <2>2, MainEffect DEF MainKinds, Asks, Closes, Opens, Refuses
      <3>2. Workless /\ UNCHANGED mClientSessions
        BY <2>2, <3>1 DEF Idles, Destroys, Erase, ShuttingDown
      <3>3. s \in Listed /\ s \in Sessions
        BY <1>0, <1>3, <3>2 DEF Listed, TypeOK, ServerTypeOK
      <3>4. s \notin overtaken
        BY <1>1, <1>3, <3>3 DEF InOrder
      <3>5. Copies(ReadWork(s)) = 0
        BY <2>2, <3>3, <3>4 DEF AllRead
      <3> QED
        BY <3>2, <3>5, CopiesKept DEF Workless
    <2> QED
      BY <2>1, <2>2
  <1> QED
    BY <1>1, <1>2, <1>3 DEF InOrder, AllRead

(* With a single worker, every step keeps the order.                       *)
LEMMA OrderInductive ==
  ASSUME NEW w \in Workers, Workers = {w}
  PROVE  MInv /\ [Next]_vars => MInv'
  <1> SUFFICES ASSUME MInv, [Next]_vars PROVE MInv'
    OBVIOUS
  <1>1. OInv /\ OInv' /\ IInv /\ IInv' /\ EmptyHands /\ TypeOK
    BY OwnedInductive DEF MInv, OInv, IInv
  <1>2. CASE MainStep
    BY <1>1, <1>2, MainInOrder DEF MInv
  <1>3. ASSUME NEW v \in Workers, Worker(v)
        PROVE  InOrder' /\ AllRead'
    BY <1>1, <1>3, WorkerInOrder DEF MInv
  <1>4. CASE \/ \E s \in Sessions : Client(s) \/ Clock(s)
             \/ PressQuit
             \/ UNCHANGED vars
    <2>1. /\ UNCHANGED <<mClientWorks, pc, work, held, remaining, main, mClientSessions>>
          /\ UNCHANGED <<released, overtaken>>
      <3>1. UNCHANGED <<mClientWorks, pc, work, held, remaining, main, mClientSessions>>
        BY <1>1, <1>4, OutsideTyping DEF workVars, poolVars, queueVars, cancelVars
      <3>2. UNCHANGED <<released, overtaken>>
        BY <1>4 DEF Client, Clock, TimePasses, PressQuit, vars, sessionVars, serverVars
      <3> QED
        BY <3>1, <3>2
    <2>2. /\ Boundary' = Boundary /\ ShuttingDown' = ShuttingDown /\ Listed' = Listed
          /\ \A x : /\ InQueue(x)' = InQueue(x) /\ InHand(x)' = InHand(x)
                    /\ Copies(x)' = Copies(x)
      BY <2>1, CopiesKept DEF Boundary, ShuttingDown, Listed, InQueue, InHand
    <2>3. ASSUME NEW s \in Sessions
          PROVE  (ReadsFirst(s) => ReadsFirst(s)') /\ (NoneLeft(s) => NoneLeft(s)')
      BY <2>1, <2>2 DEF ReadsFirst, Earlier, NoneLeft
    <2>4. InOrder' /\ AllRead'
      BY <2>1, <2>2, <2>3 DEF MInv, InOrder, AllRead
    <2> QED
      BY <1>1, <2>4 DEF MInv
  <1> QED
    BY <1>1, <1>2, <1>3, <1>4 DEF Next, Running, Halted, MInv

(* With the single worker of the code, no worker and no rotation touches a *)
(* deleted session, but for one whose CLOSE was queued while cancelWorks   *)
(* was rotating the queue, and for one that the destructor closed while a  *)
(* READ of it was queued, or taken and not counted yet.  In particular no  *)
(* READ that is being run when the loop ends loses its session.            *)
THEOREM NeverUsedAfterFree ==
  ASSUME Cardinality(Workers) = 1
  PROVE  Spec => []NoUseAfterFree
  <1>0. PICK w \in Workers : Workers = {w}
    BY WorkersAssumption, FS_Singleton
  <1>1. Init => MInv
    <2> SUFFICES ASSUME Init PROVE MInv
      OBVIOUS
    <2>1. OInv
      BY Initially, OwnedInitially DEF OInv
    <2>2. ASSUME NEW s \in Sessions
          PROVE  ReadsFirst(s) /\ NoneLeft(s)
      <3>1. \A x \in Work : InQueue(x) = {} /\ InHand(x) = {} /\ held # x
        BY NoWorkAssumption DEF Init, WorkInit, PoolInit, InQueue, InHand, Finished
      <3>2. s \notin released
        BY DEF Init, SessionInit
      <3> QED
        BY <3>1, <3>2, WorkKinds DEF ReadsFirst, NoneLeft
    <2>3. AllRead
      BY DEF Init, ServerInit, AllRead, ShuttingDown
    <2> QED
      BY <2>1, <2>2, <2>3 DEF MInv, InOrder
  <1>2. MInv => NoUseAfterFree
    <2> SUFFICES ASSUME MInv, NEW v \in Workers, Dangling(v),
                        DanglingSession(v) \notin overtaken
                 PROVE  FALSE
      BY DEF NoUseAfterFree
    <2>1. /\ TypeOK /\ WorkShape /\ Ownership /\ Numbers /\ InOrder
          /\ work \in [Workers -> Work \union {NoWork}]
      BY OwnersNat DEF MInv, OInv, IInv, TypeOK, WorkTypeOK
    <2>2. ASSUME NEW s \in Sessions, s \in released, s \notin overtaken
          PROVE  Copies(ReadWork(s)) = 0 /\ Copies(CloseWork(s)) = 0
      BY <2>1, <2>2 DEF InOrder, NoneLeft, Ownership, Numbers
    <2>3. CASE pc[v] \in Dereferencing /\ ~Alive(v)
      <3>1. work[v] \in Work /\ v \in InHand(work[v])
        BY <2>1, <2>3 DEF Dereferencing, WorkShape, HasWork, InHand, Finished
      <3>2. /\ Session(v) \in Sessions /\ Session(v) \in released
            /\ Session(v) \notin overtaken
        BY <2>3, <3>1, WorkKinds DEF Session, Alive, DanglingSession, Dereferencing
      <3>3. Copies(work[v]) >= 1
        BY <2>1, <3>1, CopyExists
      <3>4. work[v] = ReadWork(Session(v)) \/ work[v] = CloseWork(Session(v))
        BY <3>1, WorkKinds DEF Session
      <3> QED
        BY <2>2, <3>2, <3>3, <3>4
    <2>4. CASE pc[v] \in {"inspect", "store"} /\ CancelReadsReleased(v)
      <3>1. /\ work[v] \in Work /\ work[v].type = "SESSION_READ" /\ v \in InHand(work[v])
            /\ held \in Work
        BY <2>1, <2>4 DEF WorkShape, HasWork, Cancelling, InHand, Finished
      <3>2. CASE Alive(v)
        <4>1. /\ held = ReadWork(held.session) /\ held.session \in Sessions
              /\ held.session \in released /\ held.session \notin overtaken
          BY <2>1, <2>4, <3>1, <3>2, WorkKinds
             DEF CancelReadsReleased, HeldIsRead, DanglingSession, WorkShape
        <4>2. Copies(held) >= 1
          BY <2>1, CopyExists
        <4> QED
          BY <2>2, <4>1, <4>2
      <3>3. CASE ~Alive(v)
        <4>1. /\ work[v] = ReadWork(Session(v)) /\ Session(v) \in Sessions
              /\ Session(v) \in released /\ Session(v) \notin overtaken
          BY <2>4, <3>1, <3>3, WorkKinds DEF Session, Alive, DanglingSession
        <4>2. Copies(work[v]) >= 1
          BY <2>1, <3>1, CopyExists
        <4> QED
          BY <2>2, <4>1, <4>2
      <3> QED
        BY <3>2, <3>3
    <2> QED
      BY <2>3, <2>4 DEF Dangling, CancelReadsReleased
  <1>3. MInv /\ [Next]_vars => MInv'
    BY <1>0, OrderInductive
  <1> QED
    BY <1>1, <1>2, <1>3, PTL DEF Spec
=============================================================================
