---------------------------- MODULE ClientSession ----------------------------
(***************************************************************************)
(* struct ClientSession with its SessionTimer, and the two functions that  *)
(* free one (ClientWork::closeConnection and HttpsServer::releaseClient).  *)
(* The main thread and the workers share these objects by raw pointer, so  *)
(* the model keeps the set of the ones that were deleted: an access to one *)
(* of those has no defined meaning, and the model ends there (process =    *)
(* "crashed").                                                             *)
(***************************************************************************)
EXTENDS Winsock

VARIABLES
  processingCount,   \* READ works that are being run for the session
  bIsSSLConnected,   \* sessions whose TLS handshake is complete
  expired,           \* sessions idle for more than DEFAULT_SESSION_TIME
  closeNotified,     \* sessions whose SSL object has seen the peer's close_notify
  sslFailed,         \* sessions whose SSL object has had a fatal error
  released,          \* sessions that were deleted
  process            \* "running", "crashed", or "returned" from HttpsServer::Run

sessionVars ==
  <<processingCount, bIsSSLConnected, expired, closeNotified, sslFailed,
    released>>

SessionTypeOK ==
  /\ processingCount \in [Sessions -> Int]
  /\ bIsSSLConnected \in SUBSET Sessions
  /\ expired \in SUBSET Sessions
  /\ closeNotified \in SUBSET Sessions
  /\ sslFailed \in SUBSET Sessions
  /\ released \in SUBSET Sessions
  /\ process \in {"running", "crashed", "returned"}

SessionInit ==
  /\ processingCount = [s \in Sessions |-> 0]
  /\ bIsSSLConnected = {}
  /\ expired = {}
  /\ closeNotified = {}
  /\ sslFailed = {}
  /\ released = {}
  /\ process = "running"

(* SessionTimer compares wall-clock time points; what the server can tell  *)
(* of them is whether more than DEFAULT_SESSION_TIME seconds lie between   *)
(* mStartTime and now.                                                     *)
TimePasses(s) ==
  /\ link[s] = "open"
  /\ s \notin expired
  /\ expired' = expired \union {s}
  /\ UNCHANGED <<processingCount, bIsSSLConnected, closeNotified, sslFailed,
                 released>>

ResetTimer(s) == expired' = expired \ {s}

NeverInvalidated(s) == FALSE   \* mutant: mCurrentTime is never set
IsSessionInvalidated(s) == s \in expired

(* IsProcessing() *)
IsProcessing(s) == processingCount[s] > 0

(* The session is deleted with everything it owns. *)
ReleaseSession(s) ==
  /\ released' = released \union {s}
  /\ processingCount' = [processingCount EXCEPT ![s] = 0]
  /\ bIsSSLConnected' = bIsSSLConnected \ {s}
  /\ expired' = expired \ {s}
  /\ closeNotified' = closeNotified \ {s}
  /\ sslFailed' = sslFailed \ {s}
  /\ CloseSocket(s)
=============================================================================
