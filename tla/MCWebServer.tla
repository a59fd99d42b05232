----------------------------- MODULE MCWebServer -----------------------------
(***************************************************************************)
(* Model checking of WebServer: symmetry, and the smaller behaviours some  *)
(* runs look at.  The constants get their values in the .cfg files.        *)
(***************************************************************************)
EXTENDS WebServer, TLC

(* Sessions are interchangeable, and so are workers. *)
Symmetry == Permutations(Sessions) \union Permutations(Workers)

(* The server in service: nobody presses q, and the worker waits on its    *)
(* two events as intended.                                                 *)
InService == ~mbIsQuitButtonPressed /\ closeSlot = "other"

(* The same; the last burst comes only while no session is idle too long.  *)
InBusyService == InService /\ (expired = {} \/ sendsLeft > 0)

(* The last burst comes only if one session at most is ever used.          *)
InOneSession ==
  sendsLeft > 0 \/ \A s, t \in Sessions : link[s] # "unused" /\ link[t] # "unused" => s = t

(* A constraint would cut behaviours short, which liveness does not bear:  *)
(* here it is part of the specification.                                   *)
ServiceFairSpec ==
  Init /\ closeSlot = "other" /\ [][Next /\ ~PressQuit]_vars /\ Fairness
=============================================================================
