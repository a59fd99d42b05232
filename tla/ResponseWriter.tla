---------------------------- MODULE ResponseWriter ----------------------------
(***************************************************************************)
(* ClientWork::writeHttpResponse, for the responses of one connection: the *)
(* loop that gives a response to SSL_write_ex in chunks.                   *)
(*                                                                         *)
(* OpenSSL is not part of the repository.  As the loop uses it, with       *)
(* SSL_MODE_ENABLE_PARTIAL_WRITE (HttpsServer.cpp:260) and a socket that   *)
(* does not block:                                                         *)
(*   - one call sends at most one record, of the size agreed upon with the *)
(*     peer (16384, or 512 to 4096 where it asks for less);                *)
(*   - a call that finds the socket full fails, and keeps its record;      *)
(*   - while a record is kept, a call that asks for less, or from another  *)
(*     address, fails; any other first sends the record kept, in the place *)
(*     of as many bytes of its own.                                        *)
(***************************************************************************)
EXTENDS Naturals

CONSTANTS
  ChunkSize,      \* BASIC_SSL_CHUNK_SIZE
  RecordSizes,    \* what a peer may agree upon
  MaxSize,        \* bound: bytes of a response
  MaxResponses    \* bound: responses on the connection

ASSUME ChunkAssumption == ChunkSize \in Nat \ {0}
ASSUME RecordAssumption ==
  \A r \in RecordSizes : r \in 1 .. ChunkSize /\ ChunkSize % r = 0
ASSUME BoundsAssumption == MaxSize \in Nat /\ MaxResponses \in Nat

VARIABLES
  at,             \* "idle", "writing", or the status that was returned
  responseSize,
  wroteSize,
  record,         \* the record size of the connection
  kept,           \* bytes of a record that an earlier response left behind
  stale,          \* bytes of such records sent as part of this response
  left            \* what is left of MaxResponses

writerVars == <<at, responseSize, wroteSize, record, kept, stale, left>>

Status == {"HTTPS_CLIENT_OK", "HTTPS_CLIENT_ERROR", "HTTPS_CLIENT_ZERO_RETURN"}

Init ==
  /\ at = "idle" /\ responseSize = 0 /\ wroteSize = 0
  /\ record \in RecordSizes
  /\ kept = 0 /\ stale = 0
  /\ left = MaxResponses

(* Mutant: wroteSize goes on from the last response. *)
StartOn ==
  /\ at \notin {"writing", "HTTPS_CLIENT_ZERO_RETURN"}
  /\ left > 0
  /\ left' = left - 1
  /\ at' = "writing"
  /\ responseSize' \in 0 .. MaxSize
  /\ stale' = 0
  /\ UNCHANGED <<wroteSize, record, kept>>

(* After ZERO_RETURN the connection is shut down for sending; after an     *)
(* error it stays as it is, and the next request is answered on it.        *)
Start ==
  /\ at \notin {"writing", "HTTPS_CLIENT_ZERO_RETURN"}
  /\ left > 0
  /\ left' = left - 1
  /\ at' = "writing"
  /\ responseSize' \in 0 .. MaxSize
  /\ wroteSize' = 0 /\ stale' = 0
  /\ UNCHANGED <<record, kept>>

chunkCount == responseSize \div ChunkSize + 1

(* Mutant: the last chunk is whatever is left, plus one. *)
AskedAndOne ==
  IF responseSize - wroteSize > ChunkSize
  THEN ChunkSize
  ELSE responseSize - ChunkSize * (chunkCount - 1) + 1

(* How many bytes, from wroteSize on, SSL_write_ex is asked to send.       *)
Asked ==
  IF responseSize - wroteSize > ChunkSize
  THEN ChunkSize
  ELSE responseSize - ChunkSize * (chunkCount - 1)

Lesser(a, b) == IF a <= b THEN a ELSE b

Writing == at = "writing" /\ wroteSize < responseSize

(* Mutant: the bytes of a call are assigned, not added. *)
WriteAssigns ==
  /\ Writing
  /\ kept = 0
  /\ wroteSize' = Lesser(Asked, record)
  /\ UNCHANGED <<at, responseSize, record, kept, stale, left>>

(* SSL_write_ex succeeds; with nothing asked for, it has nothing to do.    *)
Write ==
  /\ Writing
  /\ kept = 0
  /\ wroteSize' = wroteSize + Lesser(Asked, record)
  /\ UNCHANGED <<at, responseSize, record, kept, stale, left>>

(* The same, with the record of an earlier response at the same address.   *)
WriteKept ==
  /\ Writing
  /\ kept \in 1 .. Asked
  /\ wroteSize' = wroteSize + kept + Lesser(Asked - kept, record)
  /\ stale' = stale + kept
  /\ kept' = 0
  /\ UNCHANGED <<at, responseSize, record, left>>

Return(status) ==
  /\ at' = status
  /\ UNCHANGED <<responseSize, wroteSize, record, stale, left>>

(* SSL_ERROR_WANT_WRITE is an error like any other, but the record of a    *)
(* call that found the socket full is kept.                                *)
WriteWouldBlock ==
  /\ Writing
  /\ Asked > 0 /\ kept = 0
  /\ kept' = Lesser(Asked, record)
  /\ Return("HTTPS_CLIENT_ERROR")

WriteFails ==
  /\ Writing
  /\ Asked > 0 \/ kept > 0
  /\ Return("HTTPS_CLIENT_ERROR")
  /\ UNCHANGED kept

PeerClosed ==
  /\ Writing
  /\ Asked > 0
  /\ Return("HTTPS_CLIENT_ZERO_RETURN")
  /\ UNCHANGED kept

(* Mutant: a response whose first chunk was sent is taken for sent. *)
FinishEarly ==
  /\ at = "writing"
  /\ wroteSize >= Lesser(responseSize, ChunkSize)
  /\ Return("HTTPS_CLIENT_OK")
  /\ UNCHANGED kept

Finish ==
  /\ at = "writing"
  /\ wroteSize >= responseSize
  /\ Return("HTTPS_CLIENT_OK")
  /\ UNCHANGED kept

writeHttpResponse ==
  \/ Write \/ WriteKept \/ WriteWouldBlock \/ WriteFails \/ PeerClosed \/ Finish

Done == at # "writing" /\ (left = 0 \/ at = "HTTPS_CLIENT_ZERO_RETURN")

Next == Start \/ writeHttpResponse \/ (Done /\ UNCHANGED writerVars)

(* The loop turns as long as calls succeed, and a call that OpenSSL must   *)
(* refuse returns; no call has to fail for any other reason.               *)
Turn == Write \/ WriteKept \/ Finish \/ (kept > Asked /\ WriteFails)

(* The worker that runs the loop is scheduled by Windows. *)
Spec == Init /\ [][Next]_writerVars /\ WF_writerVars(Turn)

-----------------------------------------------------------------------------
TypeOK ==
  /\ at \in {"idle", "writing"} \union Status
  /\ responseSize \in 0 .. MaxSize
  /\ wroteSize \in 0 .. responseSize + ChunkSize
  /\ record \in RecordSizes
  /\ kept \in 0 .. ChunkSize /\ stale \in Nat
  /\ left \in 0 .. MaxResponses

(* A record is a whole chunk, or the response fits into one record: then   *)
(* no call of SSL_write_ex sends less than it is asked for.                *)
NeverPartial == record = ChunkSize \/ responseSize <= record

(* As long as no write is partial, OpenSSL is never told to read past the  *)
(* end of the response, for any size against the chunk size: the length of *)
(* the last chunk is computed from the whole size, not from what is left.  *)
WritesInside ==
  NeverPartial /\ Writing => wroteSize + Asked <= responseSize

(* With no partial write, HTTPS_CLIENT_OK is returned only after exactly   *)
(* the bytes of the response, each once; where a record was kept by an     *)
(* earlier failure its bytes came instead of as many of this response.     *)
OkIsDelivered ==
  at = "HTTPS_CLIENT_OK" /\ NeverPartial => wroteSize = responseSize

(* The loop ends for every response whose size is no multiple of the chunk *)
(* size.  (For the others it writes nothing forever: the last chunk has    *)
(* length 0.)                                                              *)
EndsUnlessMultiple ==
  at = "writing" /\ responseSize % ChunkSize # 0 ~> at # "writing"

(* ClientWork.h: "return HTTPS_CLIENT_OK when success" - the client has    *)
(* been sent the response, all of it and nothing else.                     *)
OkMeansSent ==
  at = "HTTPS_CLIENT_OK" => wroteSize = responseSize /\ stale = 0
=============================================================================
