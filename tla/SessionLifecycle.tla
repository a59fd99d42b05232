--------------------------- MODULE SessionLifecycle ---------------------------
(***************************************************************************)
(* What the server promises of each client session, without its threads:   *)
(* a session is opened once, may be asked to read while it is listed,      *)
(* is closed once and deleted once, and no request to read is added,       *)
(* duplicated or brought back on the way, not even by a worker that        *)
(* reorders the queue.                                                     *)
(***************************************************************************)
EXTENDS Naturals

CONSTANT Sessions

VARIABLES
  phase,   \* of each session
  reads    \* how many READs of each session are waiting or running

Phase == {"unborn", "listed", "closing", "released"}

Init ==
  /\ phase = [s \in Sessions |-> "unborn"]
  /\ reads = [s \in Sessions |-> 0]

Move(s, from, to) ==
  /\ phase[s] = from
  /\ phase' = [phase EXCEPT ![s] = to]
  /\ UNCHANGED reads

(* The client is accepted; or it is, and its handshake fails at once.      *)
Open(s)   == Move(s, "unborn", "listed")
Refuse(s) == Move(s, "unborn", "released")

(* Its close is requested, then done; or the server is shut down.          *)
Close(s)   == Move(s, "listed", "closing")
Release(s) == Move(s, "closing", "released")
Destroy(s) == Move(s, "listed", "released")

Ask(s) ==
  /\ phase[s] = "listed"
  /\ reads' = [reads EXCEPT ![s] = @ + 1]
  /\ UNCHANGED phase

(* A READ has been run, or cancelled. *)
Settle(s) ==
  /\ reads[s] > 0
  /\ reads' = [reads EXCEPT ![s] = @ - 1]
  /\ UNCHANGED phase

Next ==
  \E s \in Sessions : \/ Open(s) \/ Refuse(s) \/ Close(s) \/ Release(s)
                      \/ Destroy(s) \/ Ask(s) \/ Settle(s)

Spec == Init /\ [][Next]_<<phase, reads>>
=============================================================================
