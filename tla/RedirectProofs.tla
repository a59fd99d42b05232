---------------------------- MODULE RedirectProofs ----------------------------
(***************************************************************************)
(* The redirect server's thread never sleeps over a waiting connection,    *)
(* and closes every connection it has accepted before it takes another,    *)
(* for every set of clients and every backlog.                             *)
(***************************************************************************)
EXTENDS RedirectServer, Integers, FiniteSetTheorems, SequenceTheorems, TLAPS

(* While recording is armed nothing is waiting, since what waits would have *)
(* been recorded; and wherever the thread can come to Wait from, recording  *)
(* is armed or has happened.  After Enumerate neither holds: until accept,  *)
(* a connection that comes is not announced.                                *)
Announced ==
  /\ armed => pending = <<>> /\ ~recorded
  /\ pc \in {"wait", "answer"} => armed \/ recorded
  /\ armed \in BOOLEAN /\ recorded \in BOOLEAN

(* Arming leaves recording either armed, over an empty backlog, or done.   *)
LEMMA ArmAnnounces ==
  ASSUME NEW w, Arm(w), recorded \in BOOLEAN
  PROVE  /\ armed' => w = <<>> /\ ~recorded'
         /\ armed' \/ recorded'
         /\ armed' \in BOOLEAN /\ recorded' \in BOOLEAN
  BY DEF Arm

(* Announced holds when OpenSocket has run, and no step of the thread or   *)
(* of a client breaks it.                                                  *)
LEMMA AnnouncedInductive ==
  /\ RedirectInit => Announced
  /\ Announced /\ [Next]_redirectVars => Announced'
<1>1. RedirectInit => Announced
  BY DEF RedirectInit, Announced
<1>2. SUFFICES ASSUME Announced, [Next]_redirectVars
               PROVE  Announced'
  BY <1>1
<1>3. CASE EventSelect \/ AcceptNone \/ AcceptOne
  <2>1. PICK w : Arm(w) /\ w = pending'
    BY <1>3 DEF EventSelect, AcceptNone, AcceptOne
  <2>2. QED
    BY <2>1, ArmAnnounces, <1>2 DEF Announced
<1>4. CASE Wait \/ Enumerate \/ Redirect
  <2>1. CASE Wait
    BY <1>2, <2>1 DEF Announced, Wait
  <2>2. CASE Enumerate
    BY <1>2, <2>2 DEF Announced, Enumerate
  <2>3. CASE Redirect
    BY <1>2, <2>3 DEF Announced, Redirect
  <2>4. QED
    BY <1>4, <2>1, <2>2, <2>3
<1>5. ASSUME NEW c \in Clients, Connect(c) \/ Refused(c) \/ GiveUp(c) \/ ComeBack(c)
      PROVE  Announced'
  <2>1. CASE Connect(c)
    BY <1>2, <2>1 DEF Announced, Connect
  <2>2. CASE GiveUp(c)
    <3>1. pending # <<>>
      BY <2>2 DEF GiveUp
    <3>2. QED
      BY <1>2, <2>2, <3>1 DEF Announced, GiveUp
  <2>3. CASE Refused(c) \/ ComeBack(c)
    BY <1>2, <2>3 DEF Announced, Refused, ComeBack
  <2>4. QED
    BY <1>5, <2>1, <2>2, <2>3
<1>6. CASE UNCHANGED redirectVars
  BY <1>2, <1>6 DEF Announced, redirectVars
<1>7. QED
  BY <1>2, <1>3, <1>4, <1>5, <1>6 DEF Next, redirectToHttps

(* The thread never goes to sleep over a connection that waits, however    *)
(* many clients there are and however many the backlog holds.              *)
THEOREM NobodyForgotten == Spec => []NoClientForgotten
<1>1. Announced => NoClientForgotten
  BY DEF Announced, NoClientForgotten
<1>2. QED
  BY <1>1, AnnouncedInductive, PTL DEF Spec

-----------------------------------------------------------------------------
(* The connections that wait and the one that is answered *)

With(status) == {c \in Clients : client[c] = status}

States ==
  {"away", "queued", "accepted", "redirected", "cut", "gone", "refused"}

Types ==
  /\ pc \in {"select", "wait", "enum", "accept", "answer"}
  /\ client \in [Clients -> States]
  /\ pending \in Seq(Clients) /\ Len(pending) <= Backlog

(* Each waits once, and only those that wait are in the backlog. *)
Lined ==
  /\ \A i, j \in 1 .. Len(pending) : pending[i] = pending[j] => i = j
  /\ \A c \in Clients :
       client[c] = "queued" <=> \E i \in 1 .. Len(pending) : pending[i] = c

(* One is accepted while the thread answers it, and otherwise none. *)
OneAnswered ==
  IF pc = "answer" THEN \E c \in Clients : With("accepted") = {c}
                   ELSE With("accepted") = {}

CInv == Types /\ Lined /\ OneAnswered

(* What is left of a sequence without its element at k. *)
LEMMA RemoveAtProperties ==
  ASSUME NEW S, NEW s \in Seq(S), NEW k \in 1 .. Len(s)
  PROVE  /\ RemoveAt(s, k) \in Seq(S)
         /\ Len(RemoveAt(s, k)) = Len(s) - 1
         /\ \A i \in 1 .. Len(s) - 1 :
              RemoveAt(s, k)[i] = IF i < k THEN s[i] ELSE s[i + 1]
<1> DEFINE a == SubSeq(s, 1, k - 1)
           b == SubSeq(s, k + 1, Len(s))
<1>1. Len(s) \in Nat /\ k \in Nat /\ k <= Len(s) /\ 1 <= k
  OBVIOUS
<1>2. /\ a \in Seq(S) /\ Len(a) = k - 1
      /\ \A i \in 1 .. k - 1 : a[i] = s[i]
  BY <1>1, SubSeqProperties
<1>3. /\ b \in Seq(S) /\ Len(b) = Len(s) - k
      /\ \A i \in 1 .. Len(s) - k : b[i] = s[k + i]
  BY <1>1, SubSeqProperties
<1>4. RemoveAt(s, k) = a \o b
  BY DEF RemoveAt
<1> HIDE DEF a, b
<1>5. /\ a \o b \in Seq(S) /\ Len(a \o b) = Len(a) + Len(b)
      /\ \A i \in 1 .. Len(a) + Len(b) :
           (a \o b)[i] = IF i <= Len(a) THEN a[i] ELSE b[i - Len(a)]
  BY <1>2, <1>3, ConcatProperties
<1>6. ASSUME NEW i \in 1 .. Len(s) - 1
      PROVE  (a \o b)[i] = IF i < k THEN s[i] ELSE s[i + 1]
  <2>1. CASE i < k
    BY <2>1, <1>1, <1>2, <1>3, <1>5
  <2>2. CASE ~(i < k)
    <3>1. i - (k - 1) \in 1 .. Len(s) - k /\ k + (i - (k - 1)) = i + 1
      BY <2>2, <1>1
    <3>2. (a \o b)[i] = b[i - (k - 1)]
      BY <2>2, <1>1, <1>2, <1>3, <1>5
    <3> QED BY <2>2, <3>1, <3>2, <1>3
  <2> QED BY <2>1, <2>2
<1> QED BY <1>1, <1>2, <1>3, <1>4, <1>5, <1>6

(* The clients in a line without repetitions are as many as it is long. *)
LEMMA LineCounts ==
  ASSUME NEW S, NEW s \in Seq(S), NEW T,
         \A i, j \in 1 .. Len(s) : s[i] = s[j] => i = j,
         T = {s[i] : i \in 1 .. Len(s)}
  PROVE  Cardinality(T) = Len(s)
<1>1. s \in Bijection(1 .. Len(s), T)
  BY DEF Bijection, Injection, Surjection, IsInjective
<1> QED BY <1>1, FS_CountingElements DEF ExistsBijection

LEMMA CInit == RedirectInit => CInv
  BY BacklogAssumption
  DEF RedirectInit, CInv, Types, States, Lined, OneAnswered, With

LEMMA ConnectKeeps ==
  ASSUME CInv, NEW c \in Clients, Connect(c)
  PROVE  CInv'
<1>1. /\ client[c] = "away" /\ Len(pending) < Backlog /\ pc' = pc
      /\ client' = [client EXCEPT ![c] = "queued"]
      /\ pending' = Append(pending, c)
  BY DEF Connect
<1>2. /\ pending' \in Seq(Clients) /\ Len(pending') = Len(pending) + 1
      /\ \A i \in 1 .. Len(pending) : pending'[i] = pending[i]
      /\ pending'[Len(pending) + 1] = c
      /\ Len(pending) \in Nat
  BY <1>1, AppendProperties DEF CInv, Types
<1>3. Types'
  BY <1>1, <1>2, BacklogAssumption DEF CInv, Types, States
<1>4. \A i \in 1 .. Len(pending) : pending[i] # c
  BY <1>1 DEF CInv, Lined
<1>5. \A i, j \in 1 .. Len(pending') : pending'[i] = pending'[j] => i = j
  BY <1>2, <1>4 DEF CInv, Lined
<1>6. ASSUME NEW d \in Clients
      PROVE  client'[d] = "queued" <=> \E i \in 1 .. Len(pending') : pending'[i] = d
  <2>1. CASE d = c
    BY <2>1, <1>1, <1>2 DEF CInv, Types
  <2>2. CASE d # c
    <3>1. client'[d] = client[d]
      BY <2>2, <1>1 DEF CInv, Types
    <3>2. (\E i \in 1 .. Len(pending') : pending'[i] = d)
            <=> (\E i \in 1 .. Len(pending) : pending[i] = d)
      BY <2>2, <1>2
    <3> QED BY <3>1, <3>2 DEF CInv, Lined
  <2> QED BY <2>1, <2>2
<1>7. With("accepted")' = With("accepted")
  BY <1>1 DEF CInv, Types, With
<1> QED BY <1>1, <1>3, <1>5, <1>6, <1>7 DEF CInv, Lined, OneAnswered

LEMMA GiveUpKeeps ==
  ASSUME CInv, NEW c \in Clients, GiveUp(c)
  PROVE  CInv'
<1>1. pc' = pc /\ client' = [client EXCEPT ![c] = "gone"]
  BY DEF GiveUp
<1>2. PICK k \in 1 .. Len(pending) :
        pending[k] = c /\ pending' = RemoveAt(pending, k)
  BY DEF GiveUp, CInv, Types
<1>3. /\ pending' \in Seq(Clients) /\ Len(pending') = Len(pending) - 1
      /\ \A i \in 1 .. Len(pending) - 1 :
           pending'[i] = IF i < k THEN pending[i] ELSE pending[i + 1]
      /\ Len(pending) \in Nat
  <2>1. pending \in Seq(Clients)
    BY DEF CInv, Types
  <2>2. /\ RemoveAt(pending, k) \in Seq(Clients)
        /\ Len(RemoveAt(pending, k)) = Len(pending) - 1
        /\ \A i \in 1 .. Len(pending) - 1 :
             RemoveAt(pending, k)[i] = IF i < k THEN pending[i] ELSE pending[i + 1]
    BY <2>1, RemoveAtProperties
  <2> QED BY <1>2, <2>1, <2>2
<1>4. Types'
  BY <1>1, <1>3, BacklogAssumption DEF CInv, Types, States
<1>5. \A i, j \in 1 .. Len(pending') : pending'[i] = pending'[j] => i = j
  <2> SUFFICES ASSUME NEW i \in 1 .. Len(pending'), NEW j \in 1 .. Len(pending'),
                      pending'[i] = pending'[j]
               PROVE  i = j
    OBVIOUS
  <2> DEFINE At(m) == IF m < k THEN m ELSE m + 1
  <2>1. At(i) \in 1 .. Len(pending) /\ At(j) \in 1 .. Len(pending)
    BY <1>3
  <2>2. pending'[i] = pending[At(i)] /\ pending'[j] = pending[At(j)]
    BY <1>3
  <2>3. At(i) = At(j)
    BY <2>1, <2>2 DEF CInv, Lined
  <2> QED BY <2>3
<1>6. ASSUME NEW d \in Clients
      PROVE  client'[d] = "queued" <=> \E i \in 1 .. Len(pending') : pending'[i] = d
  <2>1. CASE d = c
    <3>1. client'[d] = "gone"
      BY <2>1, <1>1 DEF CInv, Types
    <3>2. ASSUME NEW i \in 1 .. Len(pending'), pending'[i] = c PROVE FALSE
      <4>1. CASE i < k
        BY <3>2, <4>1, <1>2, <1>3 DEF CInv, Lined
      <4>2. CASE ~(i < k)
        <5>1. i + 1 \in 1 .. Len(pending) /\ pending[i + 1] = c
          BY <3>2, <4>2, <1>3
        <5> QED BY <4>2, <5>1, <1>2 DEF CInv, Lined
      <4> QED BY <4>1, <4>2
    <3> QED BY <2>1, <3>1, <3>2
  <2>2. CASE d # c
    <3>1. client'[d] = client[d]
      BY <2>2, <1>1 DEF CInv, Types
    <3>2. ASSUME NEW i \in 1 .. Len(pending), pending[i] = d
          PROVE  \E j \in 1 .. Len(pending') : pending'[j] = d
      <4>1. CASE i < k
        <5>1. i \in 1 .. Len(pending')
          BY <4>1, <1>3
        <5> QED BY <3>2, <4>1, <5>1, <1>3
      <4>2. CASE ~(i < k)
        <5>1. i # k
          BY <3>2, <2>2, <1>2
        <5>2. i - 1 \in 1 .. Len(pending') /\ ~(i - 1 < k) /\ (i - 1) + 1 = i
          BY <4>2, <5>1, <1>3
        <5>3. pending'[i - 1] = pending[(i - 1) + 1]
          BY <5>2, <1>3
        <5> QED BY <3>2, <5>2, <5>3
      <4> QED BY <4>1, <4>2
    <3>3. ASSUME NEW i \in 1 .. Len(pending'), pending'[i] = d
          PROVE  \E j \in 1 .. Len(pending) : pending[j] = d
      <4>1. i \in 1 .. Len(pending) /\ i + 1 \in 1 .. Len(pending)
        BY <1>3
      <4> QED BY <3>3, <4>1, <1>3
    <3> QED BY <3>1, <3>2, <3>3 DEF CInv, Lined
  <2> QED BY <2>1, <2>2
<1>7. client[c] = "queued"
  BY <1>2 DEF CInv, Lined
<1>8. With("accepted")' = With("accepted")
  BY <1>1, <1>7 DEF CInv, Types, With
<1> QED BY <1>1, <1>4, <1>5, <1>6, <1>8 DEF CInv, Lined, OneAnswered

(* A client that is neither in the backlog nor accepted changes its state. *)
LEMMA OthersKeep ==
  ASSUME CInv, NEW c \in Clients, Refused(c) \/ ComeBack(c)
  PROVE  CInv'
<1>1. PICK s \in {"refused", "away"} : client' = [client EXCEPT ![c] = s]
  BY DEF Refused, ComeBack
<1>2. client[c] \notin {"queued", "accepted"} /\ UNCHANGED <<pc, pending>>
  BY DEF Refused, ComeBack
<1>3. Types'
  BY <1>1, <1>2 DEF CInv, Types, States
<1>4. \A d \in Clients : /\ client'[d] = "queued" <=> client[d] = "queued"
                         /\ client'[d] = "accepted" <=> client[d] = "accepted"
  BY <1>1, <1>2 DEF CInv, Types
<1>5. With("accepted")' = With("accepted")
  BY <1>4 DEF With
<1> QED BY <1>2, <1>3, <1>4, <1>5 DEF CInv, Lined, OneAnswered

LEMMA AcceptKeeps == CInv /\ AcceptOne => CInv'
<1> SUFFICES ASSUME CInv, AcceptOne PROVE CInv'
  OBVIOUS
<1> DEFINE c == Head(pending)
<1>1. /\ pc = "accept" /\ pc' = "answer" /\ pending # <<>>
      /\ client' = [client EXCEPT ![c] = "accepted"] /\ pending' = Tail(pending)
  BY DEF AcceptOne
<1>2. /\ c \in Clients /\ c = pending[1] /\ pending' \in Seq(Clients)
      /\ Len(pending) \in Nat /\ Len(pending) >= 1
      /\ Len(pending') = Len(pending) - 1
      /\ \A i \in 1 .. Len(pending') : pending'[i] = pending[i + 1]
  BY <1>1, HeadTailProperties DEF CInv, Types
<1> HIDE DEF c
<1>3. Types'
  BY <1>1, <1>2, BacklogAssumption DEF CInv, Types, States
<1>4. ASSUME NEW i \in 1 .. Len(pending'), NEW j \in 1 .. Len(pending'),
             pending'[i] = pending'[j]
      PROVE  i = j
  <2>1. i + 1 \in 1 .. Len(pending) /\ j + 1 \in 1 .. Len(pending)
    BY <1>2
  <2>2. i + 1 = j + 1
    BY <1>2, <1>4, <2>1 DEF CInv, Lined
  <2> QED BY <2>2
<1>5. ASSUME NEW d \in Clients
      PROVE  client'[d] = "queued" <=> \E i \in 1 .. Len(pending') : pending'[i] = d
  <2>1. CASE d = c
    <3>1. client'[d] = "accepted"
      BY <2>1, <1>1 DEF CInv, Types
    <3>2. ASSUME NEW i \in 1 .. Len(pending'), pending'[i] = c PROVE FALSE
      <4>1. i + 1 \in 1 .. Len(pending) /\ 1 \in 1 .. Len(pending)
        BY <1>2
      <4>2. i + 1 = 1
        BY <3>2, <4>1, <1>2 DEF CInv, Lined
      <4> QED BY <4>2
    <3> QED BY <2>1, <3>1, <3>2
  <2>2. CASE d # c
    <3>1. client'[d] = client[d]
      BY <2>2, <1>1 DEF CInv, Types
    <3>2. ASSUME NEW i \in 1 .. Len(pending), pending[i] = d
          PROVE  \E j \in 1 .. Len(pending') : pending'[j] = d
      <4>1. i - 1 \in 1 .. Len(pending') /\ (i - 1) + 1 = i
        BY <3>2, <2>2, <1>2
      <4> QED BY <3>2, <4>1, <1>2
    <3>3. ASSUME NEW i \in 1 .. Len(pending'), pending'[i] = d
          PROVE  \E j \in 1 .. Len(pending) : pending[j] = d
      <4>1. i + 1 \in 1 .. Len(pending)
        BY <1>2
      <4> QED BY <3>3, <4>1, <1>2
    <3> QED BY <3>1, <3>2, <3>3 DEF CInv, Lined
  <2> QED BY <2>1, <2>2
<1>6. With("accepted") = {}
  BY <1>1 DEF CInv, OneAnswered
<1>7. With("accepted")' = {c}
  BY <1>1, <1>2, <1>6 DEF CInv, Types, With
<1> QED BY <1>1, <1>2, <1>3, <1>4, <1>5, <1>7 DEF CInv, Lined, OneAnswered

LEMMA RedirectKeeps == CInv /\ Redirect => CInv'
<1> SUFFICES ASSUME CInv, Redirect PROVE CInv'
  OBVIOUS
<1>1. /\ pc = "answer" /\ pc' = "wait" /\ pending' = pending
  BY DEF Redirect
<1>2. PICK end \in {"redirected", "cut"} :
        client' = [d \in Clients |->
                     IF client[d] = "accepted" THEN end ELSE client[d]]
  BY DEF Redirect
<1>3. Types'
  BY <1>1, <1>2 DEF CInv, Types, States
<1>4. \A d \in Clients : /\ client'[d] = "queued" <=> client[d] = "queued"
                         /\ client'[d] # "accepted"
  BY <1>2
<1>5. With("accepted")' = {}
  BY <1>4 DEF With
<1> QED BY <1>1, <1>3, <1>4, <1>5 DEF CInv, Lined, OneAnswered

LEMMA CInductive == CInv /\ [Next]_redirectVars => CInv'
<1> SUFFICES ASSUME CInv, [Next]_redirectVars PROVE CInv'
  OBVIOUS
<1>1. CASE EventSelect \/ Wait \/ Enumerate \/ AcceptNone \/ UNCHANGED redirectVars
  <2>1. UNCHANGED <<client, pending>> /\ pc' \in {pc, "wait", "enum", "accept"}
        /\ (pc' # pc => pc # "answer")
    BY <1>1
    DEF EventSelect, Wait, Enumerate, AcceptNone, redirectVars
  <2>2. Types'
    BY <2>1 DEF CInv, Types
  <2>3. With("accepted")' = With("accepted")
    BY <2>1 DEF With
  <2> QED BY <2>1, <2>2, <2>3 DEF CInv, Lined, OneAnswered
<1>2. ASSUME NEW c \in Clients, Connect(c) \/ Refused(c) \/ GiveUp(c) \/ ComeBack(c)
      PROVE  CInv'
  BY <1>2, ConnectKeeps, GiveUpKeeps, OthersKeep
<1> QED BY <1>1, <1>2, AcceptKeeps, RedirectKeeps DEF Next, redirectToHttps

(* The stack counts as waiting exactly the clients that wait, once each    *)
(* and never more than the backlog; and the thread holds one connection    *)
(* open while it answers, none at any other time.                          *)
THEOREM TypeCorrect == Spec => []TypeOK
<1>1. CInv /\ Announced => TypeOK
  <2> SUFFICES ASSUME CInv, Announced PROVE TypeOK
    OBVIOUS
  <2>1. Len(pending) \in Nat /\ DOMAIN pending = 1 .. Len(pending)
    BY DEF CInv, Types
  <2>2. With("queued") = {pending[i] : i \in 1 .. Len(pending)}
    BY DEF CInv, Types, Lined, With
  <2>3. Cardinality(With("queued")) = Len(pending)
    BY <2>2, LineCounts DEF CInv, Types, Lined
  <2>4. Cardinality(With("accepted")) = IF pc = "answer" THEN 1 ELSE 0
    <3>1. CASE pc = "answer"
      <4>1. PICK c \in Clients : With("accepted") = {c}
        BY <3>1 DEF CInv, OneAnswered
      <4> QED BY <3>1, <4>1, FS_Singleton
    <3>2. CASE pc # "answer"
      BY <3>2, FS_EmptySet DEF CInv, OneAnswered
    <3> QED BY <3>1, <3>2
  <2> QED
    BY <2>1, <2>2, <2>3, <2>4
    DEF CInv, Types, States, With, Announced, TypeOK
<1> QED BY <1>1, CInit, CInductive, AnnouncedInductive, PTL DEF Spec
=============================================================================
