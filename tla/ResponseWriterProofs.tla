------------------------- MODULE ResponseWriterProofs -------------------------
(***************************************************************************)
(* What ResponseWriter promises for every size of chunk, response and      *)
(* record: the types, that a response is never read past its end, and that *)
(* HTTPS_CLIENT_OK comes after all of it.                                  *)
(***************************************************************************)
EXTENDS ResponseWriter, TLAPS

(* The end of the last whole chunk, as Asked computes it. *)
LEMMA WholeChunks ==
  ASSUME NEW size \in Nat, NEW C \in Nat \ {0}
  PROVE  /\ size \div C \in Nat
         /\ C * (size \div C) \in Nat
         /\ C * (size \div C) <= size
         /\ size < C * (size \div C) + C
  OBVIOUS

(* What is asked for is never more than a chunk. *)
LEMMA AskedType ==
  ASSUME responseSize \in Nat, wroteSize \in Nat
  PROVE  Asked \in 0 .. ChunkSize
<1>1. ChunkSize \in Nat \ {0}
  BY ChunkAssumption
<1>2. DEFINE q == responseSize \div ChunkSize
<1>3. q \in Nat /\ ChunkSize * q \in Nat /\ ChunkSize * q <= responseSize
      /\ responseSize < ChunkSize * q + ChunkSize
  BY <1>1, WholeChunks
<1>4. chunkCount - 1 = q
  BY <1>3 DEF chunkCount
<1> HIDE DEF q
<1> QED BY <1>1, <1>3, <1>4 DEF Asked

(* Without partial writes the loop stands at a chunk's boundary or at the end. *)
Aligned ==
  NeverPartial /\ at = "writing" =>
    \/ wroteSize = responseSize
    \/ wroteSize < responseSize /\ \E k \in Nat : wroteSize = ChunkSize * k

IInv == TypeOK /\ Aligned /\ OkIsDelivered

(* The call that starts at the boundary of chunk k asks for no byte past   *)
(* the end, and ends at the next boundary, at the same one or at the end.  *)
LEMMA AtBoundary ==
  ASSUME responseSize \in Nat, NEW k \in Nat,
         wroteSize = ChunkSize * k, wroteSize < responseSize
  PROVE  /\ Asked \in 0 .. ChunkSize
         /\ \/ wroteSize + Asked = responseSize
            \/ /\ wroteSize + Asked < responseSize
               /\ \E j \in Nat : wroteSize + Asked = ChunkSize * j
<1>1. ChunkSize \in Nat \ {0}
  BY ChunkAssumption
<1>2. ChunkSize * k \in Nat /\ ChunkSize * (k + 1) = ChunkSize * k + ChunkSize
  BY <1>1
<1>3. wroteSize \in Nat
  BY <1>2
<1>4. Asked \in 0 .. ChunkSize
  BY <1>3, AskedType
<1>5. CASE responseSize - wroteSize > ChunkSize
  <2>1. Asked = ChunkSize
    BY <1>5 DEF Asked
  <2> QED BY <2>1, <1>1, <1>2, <1>3, <1>4, <1>5
<1>6. CASE ~(responseSize - wroteSize > ChunkSize)
  <2> DEFINE q == responseSize \div ChunkSize
  <2>1. q \in Nat /\ ChunkSize * q \in Nat /\ ChunkSize * q <= responseSize
        /\ responseSize < ChunkSize * q + ChunkSize
    BY <1>1, WholeChunks
  <2>2. chunkCount - 1 = q
    BY <2>1 DEF chunkCount
  <2> HIDE DEF q
  <2>3. Asked = responseSize - ChunkSize * q
    BY <1>6, <2>2 DEF Asked
  <2>4. CASE q < k
    <3>1. PICK d \in Nat : k = q + 1 + d
      <4>1. k - q - 1 \in Nat /\ k = q + 1 + (k - q - 1)
        BY <2>1, <2>4
      <4> QED BY <4>1
    <3>2. ChunkSize * k = ChunkSize * q + ChunkSize + ChunkSize * d
          /\ ChunkSize * d \in Nat
      BY <1>1, <2>1, <3>1
    <3> QED BY <3>2, <2>1, <1>1, <1>2
  <2>5. CASE q = k
    BY <2>3, <2>5, <1>2, <1>3, <1>4, <1>1
  <2>6. CASE q = k + 1
    <3>1. responseSize = ChunkSize * q
      BY <2>6, <2>1, <1>1, <1>2, <1>3, <1>6
    <3>2. Asked = 0
      BY <3>1, <2>3
    <3> QED BY <3>2, <1>3, <1>4
  <2>7. CASE q > k + 1
    <3>1. PICK d \in Nat : q = k + 2 + d
      <4>1. q - k - 2 \in Nat /\ q = k + 2 + (q - k - 2)
        BY <2>1, <2>7
      <4> QED BY <4>1
    <3>2. ChunkSize * q = ChunkSize * k + ChunkSize + ChunkSize + ChunkSize * d
          /\ ChunkSize * d \in Nat
      BY <1>1, <2>1, <3>1
    <3> QED BY <3>2, <2>1, <1>1, <1>2, <1>3, <1>6
  <2> QED BY <2>1, <2>4, <2>5, <2>6, <2>7
<1> QED BY <1>5, <1>6

LEMMA IsInit == Init => IInv
<1> SUFFICES ASSUME Init PROVE IInv
  OBVIOUS
<1> QED BY BoundsAssumption, ChunkAssumption
        DEF Init, IInv, TypeOK, Aligned, OkIsDelivered

(* A call that succeeds when nothing is partial sends what it is asked for. *)
LEMMA WholeWrite ==
  ASSUME IInv, Writing, NeverPartial, NEW n \in Nat, n <= Asked
  PROVE  n + Lesser(Asked - n, record) = Asked
<1>1. responseSize \in Nat /\ wroteSize \in Nat /\ record \in Nat
  BY BoundsAssumption, RecordAssumption, ChunkAssumption DEF IInv, TypeOK
<1>2. PICK k \in Nat : wroteSize = ChunkSize * k
  BY <1>1 DEF IInv, Aligned, Writing
<1>3. wroteSize < responseSize
  BY DEF Writing
<1>4. /\ Asked \in 0 .. ChunkSize
      /\ \/ wroteSize + Asked = responseSize
         \/ wroteSize + Asked < responseSize
  BY <1>1, <1>2, <1>3, AtBoundary
<1>5. Asked <= record
  BY <1>1, <1>4, ChunkAssumption DEF NeverPartial
<1> QED BY <1>1, <1>4, <1>5, ChunkAssumption DEF Lesser

(* A successful call, with n bytes of an earlier record. *)
LEMMA AdvanceKeeps ==
  ASSUME IInv, Writing, NEW n \in Nat, n <= Asked,
         wroteSize' = wroteSize + (n + Lesser(Asked - n, record)),
         kept' = 0, stale' \in Nat,
         UNCHANGED <<at, responseSize, record, left>>
  PROVE  IInv'
<1>1. responseSize \in Nat /\ wroteSize \in Nat
      /\ record \in 1 .. ChunkSize /\ ChunkSize \in Nat \ {0}
  BY BoundsAssumption, RecordAssumption, ChunkAssumption DEF IInv, TypeOK
<1>2. Asked \in 0 .. ChunkSize
  BY <1>1, AskedType
<1>3. n + Lesser(Asked - n, record) \in 0 .. ChunkSize
  BY <1>1, <1>2 DEF Lesser
<1>4. TypeOK'
  <2> DEFINE sent == n + Lesser(Asked - n, record)
  <2>1. sent \in 0 .. ChunkSize /\ wroteSize' = wroteSize + sent
    BY <1>3
  <2> HIDE DEF sent
  <2>2. wroteSize' \in 0 .. responseSize + ChunkSize
    BY <2>1, <1>1 DEF Writing
  <2> QED BY <2>2, <1>1 DEF IInv, TypeOK
<1>5. Aligned'
  <2> SUFFICES ASSUME NeverPartial', at' = "writing"
               PROVE  \/ wroteSize' = responseSize'
                      \/ wroteSize' < responseSize'
                         /\ \E k \in Nat : wroteSize' = ChunkSize * k
    BY DEF Aligned
  <2>1. NeverPartial
    BY DEF NeverPartial
  <2>2. wroteSize' = wroteSize + Asked
    BY <2>1, WholeWrite
  <2>3. PICK k \in Nat : wroteSize = ChunkSize * k
    BY <1>1, <2>1 DEF IInv, Aligned, Writing
  <2>4. \/ wroteSize + Asked = responseSize
        \/ /\ wroteSize + Asked < responseSize
           /\ \E j \in Nat : wroteSize + Asked = ChunkSize * j
    BY <1>1, <2>3, AtBoundary DEF Writing
  <2> QED BY <2>2, <2>4
<1>6. OkIsDelivered'
  BY DEF OkIsDelivered, Writing
<1> QED BY <1>4, <1>5, <1>6 DEF IInv

LEMMA IsInductive == IInv /\ [Next]_writerVars => IInv'
<1> SUFFICES ASSUME IInv, [Next]_writerVars PROVE IInv'
  OBVIOUS
<1>0. /\ responseSize \in Nat /\ wroteSize \in Nat
      /\ record \in 1 .. ChunkSize /\ ChunkSize \in Nat \ {0}
      /\ MaxSize \in Nat /\ MaxResponses \in Nat
  BY BoundsAssumption, RecordAssumption, ChunkAssumption DEF IInv, TypeOK
<1>1. ASSUME Start PROVE IInv'
  <2>1. responseSize' \in Nat /\ wroteSize' = 0 /\ at' = "writing"
        /\ left' \in 0 .. MaxResponses
    BY <1>0, <1>1 DEF Start, IInv, TypeOK
  <2>2. TypeOK'
    <3>1. responseSize' \in 0 .. MaxSize
          /\ wroteSize' \in 0 .. responseSize' + ChunkSize
      <4>1. responseSize' \in 0 .. MaxSize /\ wroteSize' = 0
        BY <1>1 DEF Start
      <4>2. \A r \in 0 .. MaxSize : 0 \in 0 .. r + ChunkSize
        BY <1>0
      <4>3. 0 \in 0 .. responseSize' + ChunkSize
        BY <4>1, <4>2
      <4> QED BY <4>1, <4>3
    <3>2. UNCHANGED <<record, kept>> /\ stale' = 0
      BY <1>1 DEF Start
    <3> QED BY <2>1, <3>1, <3>2 DEF IInv, TypeOK
  <2>3. Aligned'
    <3>1. 0 \in Nat /\ wroteSize' = ChunkSize * 0
      BY <2>1, <1>0
    <3> QED BY <2>1, <3>1 DEF Aligned
  <2> QED BY <2>1, <2>2, <2>3 DEF IInv, OkIsDelivered
<1>2. ASSUME Write PROVE IInv'
  <2>1. Asked \in 0 .. ChunkSize
    BY <1>0, AskedType
  <2>2. Asked - 0 = Asked /\ Lesser(Asked, record) \in Nat
    BY <1>0, <2>1 DEF Lesser
  <2>3. wroteSize' = wroteSize + (0 + Lesser(Asked - 0, record))
    BY <1>0, <1>2, <2>2 DEF Write
  <2> QED BY <1>2, <2>1, <2>3, AdvanceKeeps DEF Write, IInv, TypeOK
<1>3. ASSUME WriteKept PROVE IInv'
  <2>1. Asked \in 0 .. ChunkSize
    BY <1>0, AskedType
  <2>2. kept \in Nat /\ kept <= Asked /\ Lesser(Asked - kept, record) \in Nat
    BY <1>0, <1>3, <2>1 DEF WriteKept, Lesser
  <2>3. wroteSize' = wroteSize + (kept + Lesser(Asked - kept, record))
    BY <1>0, <1>3, <2>2 DEF WriteKept
  <2> QED BY <1>3, <2>2, <2>3, AdvanceKeeps DEF WriteKept, IInv, TypeOK
<1>4. ASSUME Writing, NEW status \in Status \ {"HTTPS_CLIENT_OK"},
             Return(status), kept' \in 0 .. ChunkSize
      PROVE  IInv'
  BY <1>4 DEF Return, IInv, TypeOK, Aligned, OkIsDelivered, Status
<1>5. ASSUME WriteWouldBlock PROVE IInv'
  <2>1. Asked \in 0 .. ChunkSize
    BY <1>0, AskedType
  <2>2. kept' \in 0 .. ChunkSize
    BY <1>0, <1>5, <2>1 DEF WriteWouldBlock, Lesser
  <2> QED BY <1>4, <1>5, <2>2 DEF WriteWouldBlock, Status
<1>6. ASSUME WriteFails PROVE IInv'
  BY <1>4, <1>6 DEF WriteFails, Status, IInv, TypeOK
<1>7. ASSUME PeerClosed PROVE IInv'
  BY <1>4, <1>7 DEF PeerClosed, Status, IInv, TypeOK
<1>8. ASSUME Finish PROVE IInv'
  <2>1. NeverPartial => wroteSize = responseSize
    BY <1>0, <1>8 DEF Finish, IInv, Aligned
  <2> QED
    BY <1>8, <2>1
    DEF Finish, Return, IInv, TypeOK, Aligned, OkIsDelivered, Status, NeverPartial
<1>9. ASSUME UNCHANGED writerVars PROVE IInv'
  BY <1>9 DEF writerVars, IInv, TypeOK, Aligned, OkIsDelivered, NeverPartial
<1> QED
  BY <1>1, <1>2, <1>3, <1>5, <1>6, <1>7, <1>8, <1>9 DEF Next, writeHttpResponse

LEMMA Invariant == Spec => []IInv
BY IsInit, IsInductive, PTL DEF Spec

(* The variables keep their types: no call asks for more than a chunk, and *)
(* wroteSize never exceeds the response by a chunk, whatever OpenSSL does. *)
THEOREM TypeCorrect == Spec => []TypeOK
<1>1. IInv => TypeOK
  BY DEF IInv
<1> QED BY <1>1, Invariant, PTL

(* Without partial writes SSL_write_ex is never told to read past the end  *)
(* of the response, for every chunk size and every response.               *)
THEOREM NeverPastTheEnd == Spec => []WritesInside
<1>1. IInv => WritesInside
  <2> SUFFICES ASSUME IInv, NeverPartial, Writing
               PROVE  wroteSize + Asked <= responseSize
    BY DEF WritesInside
  <2>1. responseSize \in Nat /\ wroteSize \in Nat
    BY BoundsAssumption, ChunkAssumption DEF IInv, TypeOK
  <2>2. PICK k \in Nat : wroteSize = ChunkSize * k
    BY <2>1 DEF IInv, Aligned, Writing
  <2> QED BY <2>1, <2>2, AtBoundary, AskedType, ChunkAssumption DEF Writing
<1> QED BY <1>1, Invariant, PTL

(* Without partial writes HTTPS_CLIENT_OK means that exactly the bytes of  *)
(* the response were counted as sent, for every chunk size and response.   *)
THEOREM OkIsComplete == Spec => []OkIsDelivered
<1>1. IInv => OkIsDelivered
  BY DEF IInv
<1> QED BY <1>1, Invariant, PTL

(* A step of the loop can leave it where it was only at a multiple of the  *)
(* chunk size: for every other response something is asked for.            *)
THEOREM SomethingIsAsked ==
  ASSUME IInv, Writing, NeverPartial, responseSize % ChunkSize # 0
  PROVE  Asked > 0
<1>1. responseSize \in Nat /\ wroteSize \in Nat /\ ChunkSize \in Nat \ {0}
  BY BoundsAssumption, ChunkAssumption DEF IInv, TypeOK
<1> DEFINE q == responseSize \div ChunkSize
<1>2. q \in Nat /\ ChunkSize * q \in Nat /\ ChunkSize * q <= responseSize
      /\ responseSize = (ChunkSize * q) + (responseSize % ChunkSize)
      /\ responseSize % ChunkSize \in Nat
  BY <1>1
<1>3. chunkCount - 1 = q
  BY <1>2 DEF chunkCount
<1> HIDE DEF q
<1> QED BY <1>1, <1>2, <1>3 DEF Asked
=============================================================================
