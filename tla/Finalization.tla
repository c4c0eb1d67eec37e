---------------------------- MODULE Finalization ----------------------------
(***************************************************************************)
(* AutonomousInvestigator.finalize (agents/loop.py): what turns a case     *)
(* into a package also writes to the stores of the tenant, one after the   *)
(* other, and any of them may fail.                                        *)
(*                                                                         *)
(* finalize may be attempted again for the same case; an attempt that was  *)
(* given up because it took too long keeps running beside the next one.    *)
(* What it computes from the case alone (timeline, techniques, risk,       *)
(* verdict, reports) is the same in every attempt and is left out.         *)
(***************************************************************************)
EXTENDS Integers

CONSTANTS FinalizeAttempts,  \* how often finalize may be attempted
          MaxAsks            \* bound: playbook steps that require approval

ASSUME FinalizationAssumption ==
  /\ FinalizeAttempts \in Nat
  /\ MaxAsks \in Nat

VARIABLES world,       \* what the stores, of whichever worker, were told about it
          actionable,  \* the verdict is malicious or suspicious
          asks,        \* how many steps of the playbook require approval
          at,          \* at[n]: where attempt n stands
          pkg          \* pkg[n]: the package that attempt n is building

finalizeVars == <<world, actionable, asks, at, pkg>>

Attempts == 1..FinalizeAttempts

(* related_to_itself: the related investigations include this one. *)
Package == [approvals : 0..MaxAsks, ticket : BOOLEAN, related_to_itself : BOOLEAN]
EmptyPackage == [approvals |-> 0, ticket |-> FALSE, related_to_itself |-> FALSE]

World == [graph : BOOLEAN, fingerprint : BOOLEAN, index : BOOLEAN,
          approvals : Nat, tickets : Nat, cases : Nat]

FinalizeTypeOK ==
  /\ world \in World
  /\ actionable \in BOOLEAN /\ asks \in 0..MaxAsks
  /\ at \in [Attempts -> {"idle", "graph", "fingerprint", "recall", "report", "approvals",
                          "ticket", "remember", "index", "return", "over"}]
  /\ pkg \in [Attempts -> Package]

FinalizeInit ==
  /\ world = [graph |-> FALSE, fingerprint |-> FALSE, index |-> FALSE,
              approvals |-> 0, tickets |-> 0, cases |-> 0]
  /\ actionable \in BOOLEAN
  /\ asks \in IF actionable THEN 0..MaxAsks ELSE {0}
  /\ at = [n \in Attempts |-> "idle"]
  /\ pkg = [n \in Attempts |-> EmptyPackage]

-----------------------------------------------------------------------------
(* The steps of attempt n, up to the next that touches a store or awaits. *)

Go(n, from, to) ==
  /\ at[n] = from
  /\ at' = [at EXCEPT ![n] = to]
  /\ UNCHANGED <<actionable, asks>>

Begin(n) == Go(n, "idle", "graph") /\ UNCHANGED <<world, pkg>>

WriteGraph(n) ==
  /\ Go(n, "graph", "fingerprint")
  /\ world' = [world EXCEPT !.graph = TRUE]
  /\ UNCHANGED pkg

(* Comparing skips the case's own fingerprint; storing it replaces it. *)
Fingerprint(n) ==
  /\ Go(n, "fingerprint", "recall")
  /\ world' = [world EXCEPT !.fingerprint = TRUE]
  /\ UNCHANGED pkg

(* memory.recall returns cases of the tenant that share an indicator: this one
   too, unless five others are closer or another worker's memory holds it. *)
Recall(n, indicators) ==
  /\ Go(n, "recall", "report")
  /\ \E found \in {FALSE, indicators /\ world.cases > 0} :
       pkg' = [pkg EXCEPT ![n].related_to_itself = found]
  /\ UNCHANGED world

(* The two awaits of the copilot. *)
Report_AlwaysActs(n) == Go(n, "report", "approvals") /\ UNCHANGED <<world, pkg>>
Report(n) ==
  /\ Go(n, "report", IF actionable THEN "approvals" ELSE "remember")
  /\ UNCHANGED <<world, pkg>>

(* create_for_package adds one request per step, and returns the list at the
   end; count is how many were added before it returned or raised. *)
RequestApprovals(n) ==
  /\ Go(n, "approvals", "ticket")
  /\ world' = [world EXCEPT !.approvals = @ + asks]
  /\ pkg' = [pkg EXCEPT ![n].approvals = asks]

RequestsRaise(n) ==
  /\ Go(n, "approvals", "over")
  /\ \E count \in 0..asks : world' = [world EXCEPT !.approvals = @ + count]
  /\ UNCHANGED pkg

(* A ticket may have been created although the answer was lost; finalize
   swallows the exception. *)
OpenTicket_AssumesDone(n) ==
  /\ Go(n, "ticket", "remember")
  /\ \E opened \in {0, 1} : world' = [world EXCEPT !.tickets = @ + opened]
  /\ pkg' = [pkg EXCEPT ![n].ticket = TRUE]
OpenTicket(n) ==
  /\ Go(n, "ticket", "remember")
  /\ \E opened \in {0, 1}, answered \in BOOLEAN :
       /\ answered => opened = 1
       /\ world' = [world EXCEPT !.tickets = @ + opened]
       /\ pkg' = [pkg EXCEPT ![n].ticket = answered]

(* remember appends. *)
Remember(n) ==
  /\ Go(n, "remember", "index")
  /\ world' = [world EXCEPT !.cases = @ + 1]
  /\ UNCHANGED pkg

(* Indexing overwrites, and its exceptions are swallowed. *)
Index(n) ==
  /\ Go(n, "index", "return")
  /\ world' \in {world, [world EXCEPT !.index = TRUE]}
  /\ UNCHANGED pkg

(* The process of the attempt dies, or one of the stores or the copilot raises;
   at the latest before its result has reached whoever waits for it. *)
AttemptDies(n) ==
  /\ at[n] \notin {"idle", "over"}
  /\ at' = [at EXCEPT ![n] = "over"]
  /\ UNCHANGED <<world, actionable, asks, pkg>>

FinalizeStep(n, indicators) ==
  \/ WriteGraph(n) \/ Fingerprint(n) \/ Recall(n, indicators) \/ Report(n)
  \/ RequestApprovals(n) \/ RequestsRaise(n) \/ OpenTicket(n)
  \/ Remember(n) \/ Index(n)
=============================================================================
