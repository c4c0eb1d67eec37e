--------------------------- MODULE SharedServices ---------------------------
(***************************************************************************)
(* What requests and investigations of one deployment share beside the     *)
(* tenant's cases: the sign-in of Accounts (api/v1/routes/auth.py) and the *)
(* text generation of ModelRouter (engines/copilot). Neither reads or      *)
(* writes anything of the other, so no order of their steps matters but    *)
(* that within each: a behaviour has one kind of load.                     *)
(***************************************************************************)
EXTENDS Accounts, ModelRouter

VARIABLE load  \* what the deployment is asked for

sharedVars == <<vars, routerVars, load>>

SharedInit == Init /\ RouterInit /\ load \in {"sign-in", "generation"}

SignsIn == load = "sign-in" /\ Next /\ UNCHANGED routerVars
Writes == load = "generation" /\ RouterNext /\ UNCHANGED vars

SharedNext == (SignsIn \/ Writes) /\ UNCHANGED load

(* The fairness of FairRouterSpec; that somebody signs in is not assumed. *)
SharedFairness ==
  /\ \A c \in Callers : WF_sharedVars(Ends(c) /\ UNCHANGED <<vars, load>>)
  /\ \A p \in Providers :
       WF_sharedVars(load = "generation" /\ Tick(p) /\ UNCHANGED <<vars, load>>)

SharedSpec == SharedInit /\ [][SharedNext]_sharedVars /\ SharedFairness
=============================================================================
