---------------------------- MODULE RedirectServer ----------------------------
(***************************************************************************)
(* The redirect server: the thread of HttpServer that accepts on port 80   *)
(* and answers every connection with a 302, without reading the request.   *)
(* It takes one connection for each FD_ACCEPT it is told of.               *)
(*                                                                         *)
(* Winsock is not part of the repository.  As the thread uses it:          *)
(*   - FD_ACCEPT is recorded when a connection comes and recording is      *)
(*     armed, or when one is waiting as WSAEventSelect or accept arms it;  *)
(*   - recording disarms it, and only accept, even one that fails, arms it *)
(*     again; WSAEnumNetworkEvents clears the record and resets the event. *)
(***************************************************************************)
EXTENDS Naturals, Sequences, FiniteSets, SequencesExt

CONSTANTS
  Clients,   \* the clients that may connect, again and again
  Backlog    \* MAX_CLIENT_CONNECTION_COUNT: connections that may wait

ASSUME BacklogAssumption == Backlog \in Nat \ {0}

VARIABLES
  pc,        \* where the thread is
  client,    \* how each client stands
  pending,   \* the connections waiting to be accepted
  armed,     \* a new connection will record FD_ACCEPT
  recorded   \* FD_ACCEPT is recorded, and the event object signalled

redirectVars == <<pc, client, pending, armed, recorded>>

(* OpenSocket has run: clients may come before the thread has started.     *)
RedirectInit ==
  /\ pc = "select"
  /\ client = [c \in Clients |-> "away"]
  /\ pending = <<>>
  /\ armed = FALSE
  /\ recorded = FALSE

-----------------------------------------------------------------------------
(* The clients and the listening socket *)

Connect(c) ==
  /\ client[c] = "away"
  /\ Len(pending) < Backlog
  /\ client' = [client EXCEPT ![c] = "queued"]
  /\ pending' = Append(pending, c)
  /\ recorded' = (recorded \/ armed)
  /\ armed' = FALSE
  /\ UNCHANGED pc

Refused(c) ==
  /\ client[c] = "away"
  /\ Len(pending) = Backlog
  /\ client' = [client EXCEPT ![c] = "refused"]
  /\ UNCHANGED <<pc, pending, armed, recorded>>

(* The client resets its connection; what it has recorded stays recorded.  *)
GiveUp(c) ==
  /\ client' = [client EXCEPT ![c] = "gone"]
  /\ \E i \in DOMAIN pending :
       pending[i] = c /\ pending' = RemoveAt(pending, i)
  /\ UNCHANGED <<pc, armed, recorded>>

ComeBack(c) ==
  /\ client[c] \in {"redirected", "cut", "gone", "refused"}
  /\ client' = [client EXCEPT ![c] = "away"]
  /\ UNCHANGED <<pc, pending, armed, recorded>>

(* Recording is armed with these connections waiting. *)
Arm(waiting) ==
  /\ recorded' = (recorded \/ waiting # <<>>)
  /\ armed' = ~recorded'

-----------------------------------------------------------------------------
(* The thread *)

EventSelect ==
  /\ pc = "select"
  /\ pc' = "wait"
  /\ Arm(pending)
  /\ UNCHANGED <<client, pending>>

Wait ==
  /\ pc = "wait"
  /\ recorded
  /\ pc' = "enum"
  /\ UNCHANGED <<client, pending, armed, recorded>>

(* Only FD_ACCEPT is selected: the mask is the one case of the switch.     *)
Enumerate ==
  /\ pc = "enum"
  /\ pc' = "accept"
  /\ recorded' = FALSE
  /\ UNCHANGED <<client, pending, armed>>

(* Mutant: a failed accept ends the thread. *)
AcceptNoneStops ==
  /\ pc = "accept"
  /\ pending = <<>>
  /\ pc' = "ended"
  /\ Arm(pending)
  /\ UNCHANGED <<client, pending>>

(* The connection that was announced may be gone, and no other waiting.    *)
AcceptNone ==
  /\ pc = "accept"
  /\ pending = <<>>
  /\ pc' = "wait"
  /\ Arm(pending)
  /\ UNCHANGED <<client, pending>>

AcceptOne ==
  /\ pc = "accept"
  /\ pending # <<>>
  /\ pc' = "answer"
  /\ client' = [client EXCEPT ![Head(pending)] = "accepted"]
  /\ pending' = Tail(pending)
  /\ Arm(pending')

(* Mutant: the events are enumerated once more after the answer. *)
RedirectAndClear ==
  /\ pc = "answer"
  /\ pc' = "wait"
  /\ client' = [c \in Clients |->
                  IF client[c] = "accepted" THEN "redirected" ELSE client[c]]
  /\ recorded' = FALSE
  /\ UNCHANGED <<pending, armed>>

(* Mutant: closesocket is forgotten. *)
RedirectLeavesOpen ==
  /\ pc = "answer"
  /\ pc' = "wait"
  /\ UNCHANGED <<client, pending, armed, recorded>>

(* send and closesocket, whose results are not looked at.  The request has *)
(* not been read: where it has arrived, closing the socket resets the      *)
(* connection, which may cut the answer off.                               *)
Redirect ==
  /\ pc = "answer"
  /\ pc' = "wait"
  /\ \E end \in {"redirected", "cut"} :
       client' = [c \in Clients |->
                    IF client[c] = "accepted" THEN end ELSE client[c]]
  /\ UNCHANGED <<pending, armed, recorded>>

redirectToHttps ==
  EventSelect \/ Wait \/ Enumerate \/ AcceptNone \/ AcceptOne \/ Redirect

Next ==
  \/ redirectToHttps
  \/ \E c \in Clients : Connect(c) \/ Refused(c) \/ GiveUp(c) \/ ComeBack(c)

(* The thread is never ended before the process, and blocks only in Wait.  *)
Fairness == WF_redirectVars(redirectToHttps)

Spec == RedirectInit /\ [][Next]_redirectVars /\ Fairness

-----------------------------------------------------------------------------
(* Properties *)

(* The variables have their types; the clients the stack counts as waiting *)
(* are those that wait, once each; and a socket that was accepted is open  *)
(* only until the thread has answered it.                                  *)
TypeOK ==
  /\ pc \in {"select", "wait", "enum", "accept", "answer"}
  /\ client \in [Clients -> {"away", "queued", "accepted", "redirected",
                             "cut", "gone", "refused"}]
  /\ pending \in Seq(Clients) /\ Len(pending) <= Backlog
  /\ armed \in BOOLEAN /\ recorded \in BOOLEAN
  /\ {c \in Clients : client[c] = "queued"} = {pending[i] : i \in DOMAIN pending}
  /\ Len(pending) = Cardinality({c \in Clients : client[c] = "queued"})
  /\ Cardinality({c \in Clients : client[c] = "accepted"})
       = IF pc = "answer" THEN 1 ELSE 0

(* The thread never goes to sleep over a waiting connection, although it   *)
(* takes only one per event, clears the record before it accepts, and some *)
(* clients came before WSAEventSelect or left before accept.               *)
NoClientForgotten == pc = "wait" /\ pending # <<>> => recorded

(* Every client that waits is answered in its turn or gives up itself,     *)
(* however many others keep coming, and whether or not accept fails for    *)
(* some of them.                                                           *)
EveryClientServed ==
  \A c \in Clients :
    client[c] = "queued" ~> client[c] \in {"redirected", "cut", "gone"}

=============================================================================
