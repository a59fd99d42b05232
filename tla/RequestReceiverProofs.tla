------------------------ MODULE RequestReceiverProofs ------------------------
(***************************************************************************)
(* What receiveData hands over, for every size of buffer and of record.    *)
(***************************************************************************)
EXTENDS RequestReceiver, SequenceTheorems, TLAPS

(* The first n bytes of record r. *)
Start(r, n) == [j \in 1 .. n |-> <<r, j>>]

LEMMA StartType ==
  ASSUME NEW r \in Nat, NEW n \in Nat
  PROVE  Start(r, n) \in Seq(Nat \X Nat) /\ Len(Start(r, n)) = n
  BY DEF Start

(* A piece of a record after its first n bytes continues them. *)
LEMMA StartContinues ==
  ASSUME NEW r \in Nat, NEW n \in Nat, NEW m \in Nat
  PROVE  Start(r, n) \o [j \in 1 .. m |-> <<r, n + j>>] = Start(r, n + m)
<1> DEFINE S == Nat \X Nat
           piece == [j \in 1 .. m |-> <<r, n + j>>]
           both == Start(r, n) \o piece
<1>1. Start(r, n) \in Seq(S) /\ Len(Start(r, n)) = n
  BY StartType
<1>2. piece \in Seq(S) /\ Len(piece) = m
  OBVIOUS
<1>3. Start(r, n + m) \in Seq(S) /\ Len(Start(r, n + m)) = n + m
  BY StartType
<1>4. \A j \in 1 .. n : Start(r, n)[j] = <<r, j>>
  BY DEF Start
<1>5. \A j \in 1 .. m : piece[j] = <<r, n + j>>
  OBVIOUS
<1>6. \A j \in 1 .. n + m : Start(r, n + m)[j] = <<r, j>>
  BY DEF Start
<1>7. both = Start(r, n) \o piece
  OBVIOUS
<1> HIDE DEF S, piece, both
<1>8. /\ both \in Seq(S)
      /\ Len(both) = n + m
      /\ \A j \in 1 .. n + m :
           both[j] = IF j <= n THEN Start(r, n)[j] ELSE piece[j - n]
  BY <1>1, <1>2, <1>7, ConcatProperties
<1>9. \A j \in 1 .. n + m : both[j] = Start(r, n + m)[j]
  <2> SUFFICES ASSUME NEW j \in 1 .. n + m PROVE both[j] = <<r, j>>
    BY <1>6
  <2>1. CASE j <= n
    <3>1. j \in 1 .. n
      BY <2>1
    <3>2. both[j] = Start(r, n)[j]
      BY <2>1, <1>8
    <3> QED BY <3>1, <3>2, <1>4
  <2>2. CASE ~(j <= n)
    <3>1. j - n \in 1 .. m /\ n + (j - n) = j
      BY <2>2
    <3>2. piece[j - n] = <<r, n + (j - n)>>
      BY <3>1, <1>5
    <3>3. both[j] = piece[j - n]
      BY <2>2, <1>8
    <3> QED BY <3>1, <3>2, <3>3
  <2> QED BY <2>1, <2>2
<1>10. both = Start(r, n + m)
  BY <1>3, <1>8, <1>9, SeqEqual
<1> QED BY <1>10 DEF both, piece

(* What was read is the start of the last record that was decrypted. *)
Got(n) == content = Start(taken, n) /\ received = n

InRecord ==
  pending > 0 =>
    /\ at = "reading" /\ taken > 0
    /\ pending < sent[taken] /\ Got(sent[taken] - pending)

NothingYet == at = "reading" /\ pending = 0 => content = <<>> /\ received = 0

Whole == Returned /\ outcome = "data" => taken > 0 /\ Got(sent[taken])

Types ==
  /\ sent \in Seq(1 .. MaxRecord) /\ Len(sent) <= MaxRecords
  /\ peer \in {"open", "closed", "reset"}
  /\ taken \in 0 .. Len(sent) /\ pending \in 0 .. MaxRecord
  /\ at \in {"idle", "reading", "parsed", "HTTPS_CLIENT_NO_AVAILABLE_DATA",
             "HTTPS_CLIENT_ZERO_RETURN", "HTTPS_CLIENT_INVALID_HTTP_HEADER"}

(* What was handed over is empty or the start of one record, also where a  *)
(* later read failed, and what is returned is its length or a status.      *)
Statuses ==
  {HTTPS_CLIENT_ERROR, HTTPS_CLIENT_NO_AVAILABLE_DATA, HTTPS_CLIENT_ZERO_RETURN}

Sized ==
  /\ content = <<>>
     \/ \E r \in 1 .. Len(sent), n \in 0 .. MaxRecord :
          n <= sent[r] /\ content = Start(r, n)
  /\ received \in 0 .. MaxRecord \union Statuses

IInv == Types /\ InRecord /\ NothingYet /\ Whole /\ ZeroReturnIsReal

LEMMA IsInit == Init => IInv
<1> SUFFICES ASSUME Init PROVE IInv
  OBVIOUS
<1>1. sent \in Seq(1 .. MaxRecord) /\ Len(sent) = 0
  BY DEF Init
<1> QED
  BY <1>1, SizesAssumption
  DEF Init, IInv, Types, InRecord, NothingYet, Whole, ZeroReturnIsReal, Returned

(* A status is told from a length only by its value. *)
LEMMA ZeroMeansFour ==
  ASSUME NEW v \in Nat, NEW text,
         Classified(v, text) = "HTTPS_CLIENT_ZERO_RETURN"
  PROVE  v = 4
  BY DEF Classified, HTTPS_CLIENT_ZERO_RETURN

LEMMA ClassifiedType ==
  ASSUME NEW v \in Nat, NEW text
  PROVE  Classified(v, text) \in
           {"parsed", "HTTPS_CLIENT_NO_AVAILABLE_DATA",
            "HTTPS_CLIENT_ZERO_RETURN", "HTTPS_CLIENT_INVALID_HTTP_HEADER"}
  BY DEF Classified

LEMMA ClientKeeps == IInv /\ Client => IInv'
<1> SUFFICES ASSUME IInv, Client PROVE IInv'
  OBVIOUS
<1>1. peer = "open" /\ UNCHANGED <<taken, pending, at, content, received, outcome>>
  BY DEF Client
<1>2. Types'
  <2>1. CASE UNCHANGED sent /\ peer' \in {"closed", "reset"}
    BY <1>1, <2>1 DEF IInv, Types
  <2>2. CASE /\ Len(sent) < MaxRecords /\ UNCHANGED peer
             /\ \E n \in 1 .. MaxRecord : sent' = Append(sent, n)
    <3>1. /\ sent' \in Seq(1 .. MaxRecord) /\ Len(sent') = Len(sent) + 1
      BY <2>2 DEF IInv, Types
    <3>2. Len(sent) \in Nat
      BY DEF IInv, Types
    <3> QED BY <1>1, <2>2, <3>1, <3>2, SizesAssumption DEF IInv, Types
  <2> QED BY <2>1, <2>2 DEF Client
<1>3. taken > 0 => sent'[taken] = sent[taken]
  <2>1. CASE UNCHANGED sent
    BY <2>1
  <2>2. CASE \E n \in 1 .. MaxRecord : sent' = Append(sent, n)
    BY <2>2 DEF IInv, Types
  <2> QED BY <2>1, <2>2 DEF Client
<1>4. InRecord'
  BY <1>1, <1>3 DEF IInv, InRecord, Got
<1>5. NothingYet' /\ Whole'
  BY <1>1, <1>3 DEF IInv, NothingYet, Whole, Returned, Got
<1>6. ZeroReturnIsReal'
  <2> SUFFICES ASSUME at = "HTTPS_CLIENT_ZERO_RETURN"
               PROVE  outcome = "data" /\ sent'[taken] = HTTPS_CLIENT_ZERO_RETURN
    BY <1>1 DEF ZeroReturnIsReal
  <2>1. outcome = "data" /\ sent[taken] = HTTPS_CLIENT_ZERO_RETURN
    BY <1>1 DEF IInv, ZeroReturnIsReal
  <2>2. taken > 0
    BY <2>1 DEF IInv, Whole, Returned
  <2> QED BY <1>3, <2>1, <2>2
<1> QED BY <1>2, <1>4, <1>5, <1>6 DEF IInv

(* A turn of the loop on record r, of which n bytes are left and the rest  *)
(* is what was read before.                                                *)
LEMMA ReadKeeps ==
  ASSUME IInv, at = "reading",
         NEW r \in 1 .. Len(sent), NEW n \in 1 .. MaxRecord, n <= sent[r],
         content = Start(r, sent[r] - n), received = sent[r] - n,
         Read(r, n)
  PROVE  IInv'
<1>1. sent[r] \in 1 .. MaxRecord /\ BUFFER_SIZE \in Nat \ {0} /\ MaxRecord \in Nat
      /\ Len(sent) \in Nat
  BY SizesAssumption DEF IInv, Types
<1> DEFINE k == Lesser(n, BUFFER_SIZE)
           before == sent[r] - n
<1>2. k \in 1 .. n /\ before \in Nat /\ n - k \in Nat
      /\ before + k = sent[r] - (n - k)
  BY <1>1 DEF Lesser
<1>3. Bytes(r, n) = [j \in 1 .. k |-> <<r, before + j>>]
  BY DEF Bytes
<1>4. Len(Bytes(r, n)) = k
  <2> HIDE DEF k, before
  <2> QED BY <1>2, <1>3
<1> HIDE DEF k
<1>5. /\ taken' = r /\ pending' = n - k
      /\ content' = content \o Bytes(r, n)
      /\ received' = received + k
      /\ UNCHANGED <<sent, peer>>
  BY <1>4 DEF Read, SSL_pending, recvLenSum
<1>6. content' = Start(r, before + k) /\ received' = before + k
  <2> HIDE DEF before
  <2>1. r \in Nat /\ k \in Nat /\ before \in Nat
    BY <1>1, <1>2
  <2>2. content = Start(r, before) /\ received = before
    BY DEF before
  <2>3. content' = Start(r, before) \o [j \in 1 .. k |-> <<r, before + j>>]
    BY <1>3, <1>5, <2>2
  <2>4. content' = Start(r, before + k)
    BY <2>1, <2>3, StartContinues
  <2> QED BY <1>5, <2>2, <2>4
<1>7. Got(sent[r] - (n - k))'
  BY <1>2, <1>5, <1>6 DEF Got
<1>8. CASE n - k # 0
  <2>1. at' = "reading"
    BY <1>8, <1>5 DEF Read, Again
  <2>2. pending' > 0 /\ pending' < sent'[taken'] /\ pending' \in 0 .. MaxRecord
    BY <1>1, <1>2, <1>5, <1>8
  <2>3. Types'
    BY <1>1, <1>5, <2>1, <2>2 DEF IInv, Types
  <2>4. InRecord'
    BY <1>1, <1>5, <1>7, <2>1, <2>2 DEF InRecord, Got
  <2> QED
    BY <2>1, <2>2, <2>3, <2>4
    DEF IInv, NothingYet, Whole, ZeroReturnIsReal, Returned
<1>9. CASE n - k = 0
  <2>1. pending' = 0 /\ outcome' = "data" /\ at' = Classified(received', content')
    BY <1>9, <1>5 DEF Read, Again
  <2>2. received' = sent[r] /\ content' = Start(r, sent[r])
    BY <1>1, <1>2, <1>6, <1>9
  <2>3. at' \in {"parsed", "HTTPS_CLIENT_NO_AVAILABLE_DATA",
                 "HTTPS_CLIENT_ZERO_RETURN", "HTTPS_CLIENT_INVALID_HTTP_HEADER"}
    BY <1>1, <2>1, <2>2, ClassifiedType
  <2>4. Types' /\ InRecord' /\ NothingYet'
    <3>1. taken' \in 0 .. Len(sent)
      BY <1>1, <1>5
    <3>2. 0 \in 0 .. MaxRecord
      BY <1>1
    <3>3. Types'
      BY <1>5, <2>1, <2>3, <3>1, <3>2 DEF IInv, Types
    <3>4. InRecord'
      BY <2>1 DEF InRecord
    <3>5. NothingYet'
      BY <2>3 DEF NothingYet
    <3> QED BY <3>3, <3>4, <3>5
  <2>5. Whole'
    BY <1>5, <2>2 DEF Whole, Got
  <2>6. ZeroReturnIsReal'
    <3>1. at' = "HTTPS_CLIENT_ZERO_RETURN" => received' = 4
      BY <1>1, <2>1, <2>2, ZeroMeansFour
    <3> QED
      BY <1>5, <2>1, <2>2, <3>1 DEF ZeroReturnIsReal, HTTPS_CLIENT_ZERO_RETURN
  <2> QED BY <2>4, <2>5, <2>6 DEF IInv
<1> QED BY <1>8, <1>9

(* A value that is returned instead of data, with nothing pending. *)
LEMMA ReturnKeeps ==
  ASSUME IInv, pending = 0, NEW v \in Nat, NEW why,
         why # "data", Return(v, why),
         v = 4 => peer = "closed" /\ taken = Len(sent)
  PROVE  IInv'
<1>1. at' \in {"parsed", "HTTPS_CLIENT_NO_AVAILABLE_DATA",
               "HTTPS_CLIENT_ZERO_RETURN", "HTTPS_CLIENT_INVALID_HTTP_HEADER"}
      /\ outcome' # "data" /\ UNCHANGED <<sent, peer, taken, pending, content>>
  BY ClassifiedType DEF Return
<1>2. at' = "HTTPS_CLIENT_ZERO_RETURN" => v = 4
  BY ZeroMeansFour DEF Return
<1> QED
  BY <1>1, <1>2
  DEF IInv, Types, InRecord, NothingYet, Whole, ZeroReturnIsReal

LEMMA IsInductive == IInv /\ [Next]_receiverVars => IInv'
<1> SUFFICES ASSUME IInv, [Next]_receiverVars PROVE IInv'
  OBVIOUS
<1>1. ASSUME ProcessRequest PROVE IInv'
  <2>1. pending = 0
    BY <1>1, SizesAssumption DEF ProcessRequest, IInv, InRecord, Types
  <2> QED
    BY <1>1, <2>1
    DEF ProcessRequest, IInv, Types, InRecord, NothingYet, Whole,
        ZeroReturnIsReal, Returned
<1>2. ASSUME SocketFails PROVE IInv'
  <2>1. pending = 0
    <3> SUFFICES ASSUME pending > 0 PROVE FALSE
      BY SizesAssumption DEF IInv, Types
    <3>1. received = sent[taken] - pending /\ pending < sent[taken]
          /\ sent[taken] \in Nat /\ pending \in Nat
      BY SizesAssumption DEF IInv, InRecord, Got, Types
    <3> QED BY <1>2, <3>1 DEF SocketFails
  <2> QED BY <1>2, <2>1, ReturnKeeps DEF SocketFails
<1>3. ASSUME receiveData PROVE IInv'
  <2>1. CASE pending > 0
    <3>1. /\ taken \in 1 .. Len(sent) /\ pending \in 1 .. MaxRecord
          /\ pending <= sent[taken] /\ Got(sent[taken] - pending)
      BY <2>1, SizesAssumption DEF IInv, InRecord, Types
    <3>2. Read(taken, pending) /\ at = "reading"
      BY <1>3, <2>1 DEF receiveData
    <3> QED BY <3>1, <3>2, ReadKeeps DEF Got
  <2>2. CASE ~(pending > 0)
    <3>1. pending = 0 /\ at = "reading" /\ content = <<>> /\ received = 0
      BY <1>3, <2>2, SizesAssumption DEF receiveData, IInv, Types, NothingYet
    <3>2. ASSUME taken < Len(sent), Read(taken + 1, sent[taken + 1]) PROVE IInv'
      <4>1. taken + 1 \in 1 .. Len(sent) /\ sent[taken + 1] \in 1 .. MaxRecord
        <5>1. sent \in Seq(1 .. MaxRecord) /\ taken \in Nat
          BY DEF IInv, Types
        <5>2. Len(sent) \in Nat
          BY <5>1
        <5>3. taken + 1 \in 1 .. Len(sent)
          BY <3>2, <5>1, <5>2
        <5> QED BY <5>1, <5>3, ElementOfSeq
      <4>2. sent[taken + 1] - sent[taken + 1] = 0 /\ sent[taken + 1] <= sent[taken + 1]
        BY <4>1, SizesAssumption
      <4>3. Start(taken + 1, 0) = <<>>
        BY DEF Start
      <4> QED BY <3>1, <3>2, <4>1, <4>2, <4>3, ReadKeeps
    <3>3. ASSUME Return(HTTPS_CLIENT_NO_AVAILABLE_DATA, "empty") PROVE IInv'
      BY <3>1, <3>3, ReturnKeeps DEF HTTPS_CLIENT_NO_AVAILABLE_DATA
    <3>4. ASSUME taken = Len(sent), peer = "closed",
                 Return(HTTPS_CLIENT_ZERO_RETURN, "closed")
          PROVE  IInv'
      BY <3>1, <3>4, ReturnKeeps DEF HTTPS_CLIENT_ZERO_RETURN
    <3>5. ASSUME Return(HTTPS_CLIENT_ERROR, "error") PROVE IInv'
      BY <3>1, <3>5, ReturnKeeps DEF HTTPS_CLIENT_ERROR
    <3> QED BY <1>3, <2>2, <3>2, <3>3, <3>4, <3>5 DEF receiveData
  <2> QED BY <2>1, <2>2
<1>4. ASSUME UNCHANGED receiverVars PROVE IInv'
  BY <1>4
  DEF receiverVars, IInv, Types, InRecord, NothingYet, Whole, Got,
      ZeroReturnIsReal, Returned
<1> QED BY <1>1, <1>2, <1>3, <1>4, ClientKeeps DEF Next

LEMMA Invariant == Spec => []IInv
BY IsInit, IsInductive, PTL DEF Spec

(* A step keeps Sized, from what the other invariant says of the reads. *)
LEMMA SizedInductive == Sized /\ IInv /\ [Next]_receiverVars => Sized'
<1> SUFFICES ASSUME Sized, IInv, [Next]_receiverVars PROVE Sized'
  OBVIOUS
<1>1. Statuses' = Statuses /\ 0 \in 0 .. MaxRecord
  BY SizesAssumption DEF Statuses
<1>2. Len(sent) \in Nat /\ sent \in Seq(1 .. MaxRecord) /\ MaxRecord \in Nat
  BY SizesAssumption DEF IInv, Types
<1>3. ASSUME Client PROVE Sized'
  <2>1. UNCHANGED <<content, received>>
    BY <1>3 DEF Client
  <2>2. /\ Len(sent') \in Nat /\ Len(sent) <= Len(sent')
        /\ \A r \in 1 .. Len(sent) : sent'[r] = sent[r]
    <3>1. CASE UNCHANGED sent
      BY <3>1, <1>2
    <3>2. CASE \E n \in 1 .. MaxRecord : sent' = Append(sent, n)
      BY <3>2, <1>2
    <3> QED BY <1>3, <3>1, <3>2 DEF Client
  <2>3. ASSUME NEW r \in 1 .. Len(sent), NEW n \in 0 .. MaxRecord,
               n <= sent[r], content = Start(r, n)
        PROVE  r \in 1 .. Len(sent') /\ n <= sent'[r] /\ content' = Start(r, n)
    BY <2>1, <2>2, <2>3, <1>2
  <2> QED BY <2>1, <2>3, <1>1 DEF Sized
<1>4. ASSUME ProcessRequest PROVE Sized'
  BY <1>1, <1>4 DEF ProcessRequest, Sized
<1>5. ASSUME NEW v \in {0} \union Statuses, NEW why, Return(v, why) PROVE Sized'
  BY <1>1, <1>5 DEF Return, Sized
<1>6. ASSUME NEW r \in 1 .. Len(sent), NEW n, Read(r, n), IInv' PROVE Sized'
  <2>1. sent' = sent /\ taken' = r
    BY <1>6 DEF Read
  <2>2. /\ pending' > 0 => Got(sent[r] - pending)' /\ pending' < sent[r]
        /\ ~(pending' > 0) => Got(sent[r])'
    <3>1. CASE pending' > 0
      BY <2>1, <3>1, <1>6 DEF IInv, InRecord, Got
    <3>2. CASE ~(pending' > 0)
      <4>1. pending' = 0
        BY <3>2, <1>6, <1>2 DEF IInv, Types
      <4>2. outcome' = "data" /\ at' = Classified(received', content')
        BY <4>1, <1>6 DEF Read, Again
      <4>3. at' \notin {"idle", "reading"}
        BY <4>2 DEF Classified
      <4> QED BY <4>1, <4>2, <4>3, <2>1, <1>6 DEF IInv, Whole, Returned, Got
    <3> QED BY <3>1, <3>2
  <2>3. sent[r] \in 1 .. MaxRecord /\ pending' \in Nat
    BY <1>2, <1>6, ElementOfSeq DEF IInv, Types
  <2>4. PICK m \in 0 .. MaxRecord :
          m <= sent[r] /\ content' = Start(r, m) /\ received' = m
    <3>1. CASE pending' > 0
      <4>1. sent[r] - pending' \in 0 .. MaxRecord /\ sent[r] - pending' <= sent[r]
        BY <3>1, <2>2, <2>3, <1>2
      <4> QED BY <3>1, <4>1, <2>1, <2>2 DEF Got
    <3>2. CASE ~(pending' > 0)
      BY <3>2, <2>1, <2>2, <2>3, <1>2 DEF Got
    <3> QED BY <3>1, <3>2
  <2> QED BY <2>1, <2>4, <1>1 DEF Sized
<1>7. ASSUME receiveData PROVE Sized'
  <2>1. IInv'
    BY IsInductive
  <2>2. CASE pending > 0
    <3>1. taken \in 1 .. Len(sent)
      BY <2>2, <1>2 DEF IInv, InRecord, Types
    <3> QED BY <1>6, <1>7, <2>1, <2>2, <3>1 DEF receiveData
  <2>3. CASE ~(pending > 0)
    <3>1. taken < Len(sent) => taken + 1 \in 1 .. Len(sent)
      BY <1>2 DEF IInv, Types
    <3>2. Statuses \subseteq {0} \union Statuses
          /\ {HTTPS_CLIENT_ERROR, HTTPS_CLIENT_NO_AVAILABLE_DATA,
              HTTPS_CLIENT_ZERO_RETURN} = Statuses
      BY DEF Statuses
    <3>3. CASE taken < Len(sent) /\ Read(taken + 1, sent[taken + 1])
      BY <1>6, <2>1, <3>1, <3>3
    <3>4. CASE Return(HTTPS_CLIENT_NO_AVAILABLE_DATA, "empty")
      BY <1>5, <3>2, <3>4
    <3>5. CASE Return(HTTPS_CLIENT_ZERO_RETURN, "closed")
      BY <1>5, <3>2, <3>5
    <3>6. CASE Return(HTTPS_CLIENT_ERROR, "error")
      BY <1>5, <3>2, <3>6
    <3> QED BY <1>7, <2>3, <3>3, <3>4, <3>5, <3>6 DEF receiveData
  <2> QED BY <2>2, <2>3
<1>8. ASSUME SocketFails PROVE Sized'
  BY <1>5, <1>8 DEF SocketFails
<1>9. ASSUME UNCHANGED receiverVars PROVE Sized'
  BY <1>1, <1>9 DEF receiverVars, Sized
<1> QED BY <1>3, <1>4, <1>7, <1>8, <1>9 DEF Next

(* The variables have their types: what is handed over is never longer     *)
(* than a record, whatever the reads, the statuses and the client do.      *)
THEOREM TypeCorrect == Spec => []TypeOK
<1>1. Init => Sized
  BY SizesAssumption DEF Init, Sized
<1>2. Sized /\ IInv => TypeOK
  <2> SUFFICES ASSUME Sized, IInv PROVE TypeOK
    OBVIOUS
  <2>1. /\ content \in Seq((1 .. MaxRecords) \X (1 .. MaxRecord))
        /\ Len(content) <= MaxRecord
    <3>1. CASE content = <<>>
      BY <3>1, SizesAssumption
    <3>2. ASSUME NEW r \in 1 .. Len(sent), NEW n \in 0 .. MaxRecord,
                 content = Start(r, n)
          PROVE  /\ content \in Seq((1 .. MaxRecords) \X (1 .. MaxRecord))
                 /\ Len(content) <= MaxRecord
      <4>1. r \in 1 .. MaxRecords /\ n \in Nat /\ n <= MaxRecord
        BY SizesAssumption DEF IInv, Types
      <4>2. \A j \in 1 .. n : <<r, j>> \in (1 .. MaxRecords) \X (1 .. MaxRecord)
        BY <4>1, SizesAssumption
      <4> QED BY <3>2, <4>1, <4>2 DEF Start
    <3> QED BY <3>1, <3>2 DEF Sized
  <2> QED BY <2>1 DEF Sized, Statuses, IInv, Types, TypeOK
<1> QED BY <1>1, <1>2, Invariant, SizedInductive, PTL DEF Spec

(* Nothing decrypted stays inside OpenSSL between two requests, for every  *)
(* size of buffer and of record.                                           *)
THEOREM NothingIsLeft == Spec => []NothingLeftBehind
<1>1. IInv => NothingLeftBehind
  BY SizesAssumption DEF IInv, Types, InRecord, NothingLeftBehind
<1> QED BY <1>1, Invariant, PTL

(* The text of a request is one record: all of its bytes, in order.        *)
THEOREM RequestIsOneRecord == Spec => []OneRecord
<1>1. IInv => OneRecord
  BY DEF IInv, Whole, OneRecord, Got, Start
<1> QED BY <1>1, Invariant, PTL

(* ZERO_RETURN comes from a client that has closed, or from a request of   *)
(* exactly as many bytes as the status has for a number.                   *)
THEOREM ClosedOrFourBytes == Spec => []ZeroReturnIsReal
<1>1. IInv => ZeroReturnIsReal
  BY DEF IInv
<1> QED BY <1>1, Invariant, PTL
=============================================================================
