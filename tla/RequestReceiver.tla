---------------------------- MODULE RequestReceiver ----------------------------
(***************************************************************************)
(* ClientWork::receiveData and the part of ProcessRequest that tells its   *)
(* results apart, for the requests of one connection.                      *)
(*                                                                         *)
(* OpenSSL is not part of the repository.  As the code uses it, without    *)
(* read-ahead and with a socket that does not block: SSL_read_ex decrypts  *)
(* the next record when the whole of it has arrived and none is pending,   *)
(* and hands out at most as many bytes as the caller's buffer takes; the   *)
(* rest of that record, and no other, is what SSL_pending counts.          *)
(***************************************************************************)
EXTENDS Integers, Sequences

CONSTANTS
  BUFFER_SIZE,
  MaxRecord,      \* bound: bytes of a record
  MaxRecords      \* bound: records on the connection

ASSUME SizesAssumption ==
  BUFFER_SIZE \in Nat \ {0} /\ MaxRecord \in Nat /\ MaxRecords \in Nat

(* STATUS: receiveData returns these in the integer it returns lengths in. *)
HTTPS_CLIENT_ERROR == 1
HTTPS_CLIENT_NO_AVAILABLE_DATA == 2
HTTPS_CLIENT_ZERO_RETURN == 4

VARIABLES
  sent,           \* the records the client sent, as lengths
  peer,           \* "open", "closed" (close_notify) or "reset"
  taken,          \* how many records were decrypted
  pending,        \* bytes of the last of them that were not handed out
  at,             \* "idle", "reading", or the status of the last request
  content,        \* bytes read, as <<record, offset>>
  received,       \* what receiveData returned
  outcome         \* why: "data", "empty", "error", "closed", "failed"

receiverVars == <<sent, peer, taken, pending, at, content, received, outcome>>

Init ==
  /\ sent = <<>> /\ peer = "open" /\ taken = 0 /\ pending = 0
  /\ at = "idle" /\ content = <<>> /\ received = 0 /\ outcome = "none"

Client ==
  /\ peer = "open"
  /\ \/ /\ Len(sent) < MaxRecords
        /\ \E n \in 1 .. MaxRecord : sent' = Append(sent, n)
        /\ UNCHANGED peer
     \/ /\ peer' \in {"closed", "reset"}
        /\ UNCHANGED sent
  /\ UNCHANGED <<taken, pending, at, content, received, outcome>>

ProcessRequest ==
  /\ at # "reading"
  /\ at' = "reading"
  /\ content' = <<>> /\ received' = 0 /\ outcome' = "none"
  /\ UNCHANGED <<sent, peer, taken, pending>>

(* Mutant: every value up to the status is taken for it. *)
ClassifiedUpTo(value, text) ==
  CASE value = 0 -> "HTTPS_CLIENT_NO_AVAILABLE_DATA"
    [] value \in 1 .. HTTPS_CLIENT_ZERO_RETURN -> "HTTPS_CLIENT_ZERO_RETURN"
    [] OTHER -> "parsed"

(* What ProcessRequest makes of the value returned.  An empty text is not  *)
(* a GET request; of any other "parsed" leaves open whether it is one.     *)
Classified(value, text) ==
  CASE value = 0 -> "HTTPS_CLIENT_NO_AVAILABLE_DATA"
    [] value = HTTPS_CLIENT_ZERO_RETURN -> "HTTPS_CLIENT_ZERO_RETURN"
    [] OTHER -> IF text = <<>> THEN "HTTPS_CLIENT_INVALID_HTTP_HEADER"
                               ELSE "parsed"

Return(value, why) ==
  /\ at' = Classified(value, content)
  /\ received' = value /\ outcome' = why
  /\ UNCHANGED <<sent, peer, taken, pending, content>>

(* ioctlsocket fails; only the first thing the function does. *)
SocketFails ==
  /\ at = "reading" /\ received = 0 /\ peer = "reset"
  /\ Return(0, "failed")

Lesser(a, b) == IF a <= b THEN a ELSE b

(* The bytes of record r that a read takes when n of them are left. *)
Bytes(r, n) ==
  [i \in 1 .. Lesser(n, BUFFER_SIZE) |-> <<r, sent[r] - n + i>>]

(* Mutant: the sum is the length of the last piece. *)
LengthOfPiece(piece) == Len(piece)

recvLenSum(piece) == received + Len(piece)

(* Mutant: every read is taken to fill the buffer. *)
WholeBuffersLeft(n, piece) == n - BUFFER_SIZE

SSL_pending(n, piece) == n - Len(piece)

(* Mutant: one SSL_read_ex, whatever is pending. *)
Once(avaliableDataSize) == FALSE

Again(avaliableDataSize) == avaliableDataSize # 0

(* One turn of the loop, on record r with n bytes left; it is the last one *)
(* when nothing is pending.                                                *)
Read(r, n) ==
  LET piece == Bytes(r, n)
  IN /\ taken' = r
     /\ pending' = SSL_pending(n, piece)
     /\ content' = content \o piece
     /\ received' = recvLenSum(piece)
     /\ IF Again(pending')
          THEN UNCHANGED <<at, outcome>>
          ELSE at' = Classified(received', content') /\ outcome' = "data"
     /\ UNCHANGED <<sent, peer>>

receiveData ==
  /\ at = "reading"
  /\ IF pending > 0
       THEN Read(taken, pending)
       ELSE \/ taken < Len(sent) /\ Read(taken + 1, sent[taken + 1])
            \/ /\ taken = Len(sent) /\ peer = "open"
               /\ Return(HTTPS_CLIENT_NO_AVAILABLE_DATA, "empty")
            \/ /\ taken = Len(sent) /\ peer = "closed"
               /\ Return(HTTPS_CLIENT_ZERO_RETURN, "closed")
            \/ /\ peer = "reset"
               /\ Return(HTTPS_CLIENT_ERROR, "error")

Next == Client \/ ProcessRequest \/ SocketFails \/ receiveData

Spec == Init /\ [][Next]_receiverVars

-----------------------------------------------------------------------------
TypeOK ==
  /\ sent \in Seq(1 .. MaxRecord) /\ Len(sent) <= MaxRecords
  /\ peer \in {"open", "closed", "reset"}
  /\ taken \in 0 .. Len(sent) /\ pending \in 0 .. MaxRecord
  /\ at \in {"idle", "reading", "parsed", "HTTPS_CLIENT_NO_AVAILABLE_DATA",
             "HTTPS_CLIENT_ZERO_RETURN", "HTTPS_CLIENT_INVALID_HTTP_HEADER"}
  /\ received \in 0 .. MaxRecord \union
       {HTTPS_CLIENT_ERROR, HTTPS_CLIENT_NO_AVAILABLE_DATA, HTTPS_CLIENT_ZERO_RETURN}
  /\ content \in Seq((1 .. MaxRecords) \X (1 .. MaxRecord))
  /\ Len(content) <= MaxRecord

Returned == at \notin {"idle", "reading"}

(* When receiveData returns nothing is left inside OpenSSL: what is still  *)
(* unread is in the socket, where Windows announces it again.              *)
NothingLeftBehind == at # "reading" => pending = 0

(* A request is the bytes of exactly one record, in order and each once,   *)
(* however many reads it takes, and its length is what is returned.        *)
OneRecord ==
  Returned /\ outcome = "data" =>
    /\ content = [i \in 1 .. sent[taken] |-> <<taken, i>>]
    /\ received = sent[taken]

(* A session is told to close only when its client has closed, or when the *)
(* length of a request is the number of the status.                        *)
ZeroReturnIsReal ==
  at = "HTTPS_CLIENT_ZERO_RETURN" =>
    \/ peer = "closed" /\ taken = Len(sent)
    \/ outcome = "data" /\ sent[taken] = HTTPS_CLIENT_ZERO_RETURN

(* ClientWork.h: "return HTTPS_CLIENT_ERROR when get error". *)
ErrorIsReported ==
  outcome = "error" => at = "HTTPS_CLIENT_ERROR"
=============================================================================
