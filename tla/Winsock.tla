------------------------------- MODULE Winsock -------------------------------
(***************************************************************************)
(* The clients' connections as Winsock shows them to the server: which are *)
(* waiting in the backlog, which are open, how much each has to read, and  *)
(* which network events are recorded on the event object of each socket.   *)
(*                                                                         *)
(* Winsock is not part of the repository.  It is modelled from how         *)
(* HttpsServer::Run, network::ProcessAccept and ClientWork use it:         *)
(*   - WSAEventSelect(FD_READ | FD_CLOSE) records an event once; FD_READ   *)
(*     is recorded again only after the socket has been read (recvArmed);  *)
(*   - WSAEnumNetworkEvents returns the whole mask and clears it.          *)
(* A unit of unread data stands for any amount of bytes that arrives       *)
(* together; its content is chosen when it is read.                        *)
(***************************************************************************)
EXTENDS Integers

CONSTANTS
  Sessions,   \* one client connection each, from the connect to the release
  MaxSends    \* bound: bursts of data all the clients together may send

ASSUME SessionsAssumption == Sessions # {}
ASSUME MaxSendsAssumption == MaxSends \in Nat

VARIABLES
  link,       \* the life of the connection
  unread,     \* bursts received by the stack and not yet read
  recvArmed,  \* sockets on which new data would record FD_READ
  netEvents,  \* events recorded and not yet enumerated, per socket
  hungUp,     \* clients that closed or reset their connection
  sendsLeft   \* what is left of MaxSends

netVars == <<link, unread, recvArmed, netEvents, hungUp, sendsLeft>>

LinkState == {"unused", "pending", "open", "closed"}
NetEvent  == {"FD_READ", "FD_CLOSE"}

NetTypeOK ==
  /\ link \in [Sessions -> LinkState]
  /\ unread \in [Sessions -> Nat]
  /\ recvArmed \in SUBSET Sessions
  /\ netEvents \in [Sessions -> SUBSET NetEvent]
  /\ hungUp \in SUBSET Sessions
  /\ sendsLeft \in 0 .. MaxSends

NetInit ==
  /\ link = [s \in Sessions |-> "unused"]
  /\ unread = [s \in Sessions |-> 0]
  /\ recvArmed = {}
  /\ netEvents = [s \in Sessions |-> {}]
  /\ hungUp = {}
  /\ sendsLeft = MaxSends

-----------------------------------------------------------------------------
(* What the clients do. *)

ClientConnect(s) ==
  /\ link[s] = "unused"
  /\ link' = [link EXCEPT ![s] = "pending"]
  /\ UNCHANGED <<unread, recvArmed, netEvents, hungUp, sendsLeft>>

ClientSend(s) ==
  /\ link[s] \in {"pending", "open"}
  /\ s \notin hungUp
  /\ sendsLeft > 0
  /\ sendsLeft' = sendsLeft - 1
  /\ unread' = [unread EXCEPT ![s] = @ + 1]
  /\ netEvents' = [netEvents EXCEPT
                     ![s] = IF s \in recvArmed THEN @ \union {"FD_READ"} ELSE @]
  /\ recvArmed' = recvArmed \ {s}
  /\ UNCHANGED <<link, hungUp>>

(* FD_CLOSE is recorded for a shutdown and for a reset alike: it need not  *)
(* wait for the data to be read.                                           *)
ClientClose(s) ==
  /\ link[s] \in {"pending", "open"}
  /\ s \notin hungUp
  /\ hungUp' = hungUp \union {s}
  /\ netEvents' = [netEvents EXCEPT
                     ![s] = IF link[s] = "open" THEN @ \union {"FD_CLOSE"} ELSE @]
  /\ UNCHANGED <<link, unread, recvArmed, sendsLeft>>

ClientStep(s) == ClientConnect(s) \/ ClientSend(s) \/ ClientClose(s)

-----------------------------------------------------------------------------
(* What the server's calls do. *)

(* The socket is read until n bursts are left; mask holds the events that  *)
(* are recorded already.  The first recv re-arms FD_READ: what arrives     *)
(* after it records the event again, and the record stays even when a      *)
(* later recv of the same call has read that burst as well.                *)
Recv(s, mask, n) ==
  /\ unread' = [unread EXCEPT ![s] = n]
  /\ \E again \in {n > 0, n > 0 \/ unread[s] - n > 1} :
       /\ netEvents' = [netEvents EXCEPT
                          ![s] = IF again THEN mask \union {"FD_READ"} ELSE mask]
       /\ recvArmed' = IF again THEN recvArmed \ {s} ELSE recvArmed \union {s}

(* WSAEnumNetworkEvents: the mask is taken and cleared. *)
EnumNetworkEvents(s) == netEvents' = [netEvents EXCEPT ![s] = {}]

(* closesocket and the closing of the event object. *)
CloseSocket(s) ==
  /\ link' = [link EXCEPT ![s] = "closed"]
  /\ unread' = [unread EXCEPT ![s] = 0]
  /\ netEvents' = [netEvents EXCEPT ![s] = {}]
  /\ recvArmed' = recvArmed \ {s}
=============================================================================
