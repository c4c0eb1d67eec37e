--------------------------- MODULE DurableWorkflow --------------------------
(***************************************************************************)
(* One investigation as a Temporal workflow                                *)
(* (orchestrator/temporal_workflow.py): the planner runs in the workflow,  *)
(* every tool call, the finalization and the final save are activities.    *)
(*                                                                         *)
(* An attempt of an activity works on a copy of the case and its result    *)
(* counts once it is reported.  It may be lost instead: its worker dies,   *)
(* the activity raises, or its time is up, and then Temporal starts the    *)
(* next one, until the retry policy's maximum is reached.                  *)
(***************************************************************************)
EXTENDS Investigation, Finalization

CONSTANTS MaxIterations,    \* Budget.max_iterations
          MaxToolCalls,     \* Budget.max_tool_calls
          ToolAttempts,     \* maximum_attempts of tool_retry
          PersistAttempts,  \* maximum_attempts of persist_package_activity
          Repositories      \* the repositories that the worker may save to

ASSUME WorkflowAssumption ==
  /\ MaxIterations \in Nat /\ MaxToolCalls \in Nat
  /\ ToolAttempts \in Nat \ {0} /\ PersistAttempts \in Nat \ {0}
  /\ FinalizeAttempts # 0
  /\ Repositories \subseteq {"memory", "postgres"}

VARIABLES st,          \* the checkpointed case
          iteration,   \* rounds begun
          tool_calls,  \* results of tools in the workflow's history
          todo,        \* the planned actions of this round still to run
          attempt,     \* attempts of the current activity, lost ones included
          phase,       \* where the workflow stands
          why,         \* why collection ended
          result,      \* the finalize attempt whose package was reported
          kind,        \* the repository of the workers
          stored       \* what it holds under the investigation's id

caseVars == <<st, iteration, tool_calls, todo, why>>
saveVars == <<kind, stored>>
vars == <<caseVars, attempt, phase, result, saveVars, finalizeVars>>

TypeOK ==
  /\ st \in Case
  /\ iteration \in 0..MaxIterations /\ tool_calls \in 0..MaxToolCalls
  /\ todo \subseteq Action
  /\ attempt \in 0..ToolAttempts \cup 0..FinalizeAttempts \cup 0..PersistAttempts
  /\ phase \in {"collect", "finalize", "persist", "complete", "failed"}
  /\ why \in {"going", "converged", "iterations", "calls"}
  /\ result \in 0..FinalizeAttempts
  /\ kind \in Repositories
  /\ stored \in {"absent", "queued", "complete"}
  /\ FinalizeTypeOK

(* submit has saved the placeholder in the database, or in the memory of the
   API process, which is not that of a worker. *)
Init ==
  /\ st \in {NewCase(phishing) : phishing \in BOOLEAN}
  /\ iteration = 0 /\ tool_calls = 0
  /\ todo = {} /\ attempt = 0
  /\ phase = "collect" /\ why = "going"
  /\ result = 0
  /\ kind \in Repositories
  /\ stored = IF kind = "postgres" THEN "queued" ELSE "absent"
  /\ FinalizeInit

-----------------------------------------------------------------------------
(* Collection: the rounds of run, one activity after the other. *)

Planning == phase = "collect" /\ todo = {}
Room == MaxToolCalls - tool_calls

Plan ==
  /\ Planning
  /\ iteration < MaxIterations /\ NextActions(st) # {} /\ Room # 0
  /\ iteration' = iteration + 1
  /\ todo' \in FirstOf(NextActions(st), Room, Position(NextActions(st)))
  /\ attempt' = 1
  /\ UNCHANGED <<st, tool_calls, phase, why, result, saveVars, finalizeVars>>

EndCollection(reason) ==
  /\ Planning
  /\ why' = reason
  /\ phase' = "finalize" /\ attempt' = 1
  /\ Begin(1)
  /\ UNCHANGED <<st, iteration, tool_calls, todo, result, saveVars>>

RoundsUsed == iteration = MaxIterations /\ EndCollection("iterations")

Converge ==
  /\ iteration < MaxIterations /\ NextActions(st) = {}
  /\ EndCollection("converged")

CallsUsed ==
  /\ iteration < MaxIterations /\ NextActions(st) # {} /\ Room = 0
  /\ EndCollection("calls")

(* What a tool makes of a copy of the case: nothing if it raises at once, half
   of it if the second await of fetch_email_context raises, or all of it. *)
Fetched(c) ==
  {[c EXCEPT !.email_checked = TRUE, !.attachments = 1..n] : n \in 0..MaxAttachments}

CasesAfter(a) ==
  LET read == [a EXCEPT !.keys = IF a.tool = "enrich_iocs" THEN st.pending_iocs ELSE @]
  IN IF a.tool = "fetch_email_context"
     THEN {st} \cup Fetched(st) \cup UNION {Folded(c, read) : c \in Fetched(st)}
     ELSE {st} \cup Folded(st, read)

(* The first of the actions that are left. *)
Current(a) == {a} \in FirstOf(todo, 1, Position(todo))

ToolReported(a) ==
  /\ phase = "collect" /\ Current(a)
  /\ st' \in CasesAfter(a)
  /\ tool_calls' = tool_calls + 1
  /\ todo' = todo \ {a}
  /\ attempt' = 1
  /\ UNCHANGED <<iteration, phase, why, result, saveVars, finalizeVars>>

(* Its maximum of attempts reached, an activity fails the workflow. *)
Lost(maximum) ==
  IF attempt < maximum THEN attempt' = attempt + 1 /\ UNCHANGED phase
  ELSE phase' = "failed" /\ UNCHANGED attempt

ToolLost ==
  /\ phase = "collect" /\ todo # {}
  /\ Lost(ToolAttempts)
  /\ UNCHANGED <<caseVars, result, saveVars, finalizeVars>>

-----------------------------------------------------------------------------
(* Finalization *)

(* Attempt n takes a step, whether it is still waited for or was given up. *)
Finalize(n) ==
  /\ FinalizeStep(n, Enriched(st) # {})
  /\ UNCHANGED <<caseVars, attempt, phase, result, saveVars>>

FinalizeReported ==
  /\ phase = "finalize"
  /\ Go(attempt, "return", "over")
  /\ result' = attempt
  /\ phase' = "persist" /\ attempt' = 1
  /\ UNCHANGED <<world, pkg, caseVars, saveVars>>

AttemptEnds(n) ==
  /\ AttemptDies(n)
  /\ UNCHANGED <<caseVars, attempt, phase, result, saveVars>>

(* The five minutes of an attempt are over, or it is known to have ended. *)
FinalizeLost_Uncounted ==
  /\ phase = "finalize"
  /\ IF attempt < FinalizeAttempts THEN Begin(attempt + 1) ELSE UNCHANGED finalizeVars
  /\ attempt' = IF attempt < FinalizeAttempts THEN attempt + 1 ELSE attempt
  /\ UNCHANGED <<phase, caseVars, result, saveVars>>
FinalizeLost ==
  /\ phase = "finalize"
  /\ Lost(FinalizeAttempts)
  /\ IF attempt < FinalizeAttempts THEN Begin(attempt + 1) ELSE UNCHANGED finalizeVars
  /\ UNCHANGED <<caseVars, result, saveVars>>

-----------------------------------------------------------------------------
(* Persistence: Repository.save, which refuses an id that the database holds. *)

Saved(status) == kind = "memory" /\ stored' = status

PersistReported ==
  /\ phase = "persist"
  /\ Saved("complete")
  /\ phase' = "complete"
  /\ UNCHANGED <<kind, attempt, result, caseVars, finalizeVars>>

PersistLost ==
  /\ phase = "persist"
  /\ Saved("complete") \/ UNCHANGED stored
  /\ Lost(PersistAttempts)
  /\ UNCHANGED <<kind, result, caseVars, finalizeVars>>

-----------------------------------------------------------------------------
Workflow ==
  \/ Plan \/ RoundsUsed \/ Converge \/ CallsUsed
  \/ (\E a \in todo : ToolReported(a)) \/ ToolLost
  \/ FinalizeReported \/ FinalizeLost
  \/ PersistReported \/ PersistLost

Attempt(n) == Finalize(n) \/ AttemptEnds(n)

Next == Workflow \/ \E n \in Attempts : Attempt(n)

Spec == Init /\ [][Next]_vars

(* Every attempt of an activity is answered or times out, and Temporal goes on
   with the workflow (start_to_close_timeout). *)
FairSpec == Spec /\ WF_vars(Workflow)

-----------------------------------------------------------------------------
(* Types, and what the reported package says was done: its requests were
   raised, its ticket was opened, and the case was fingerprinted and remembered,
   whatever became of the other attempt (loop.py finalize); and a collection
   that ended because nothing was left to do left nothing out, although its
   tools were repeated on the checkpointed case ("resumes from the last
   completed tool call"). *)
PackageIsTrue ==
  /\ TypeOK
  /\ result # 0 =>
       /\ pkg[result].approvals = asks /\ world.approvals >= asks
       /\ pkg[result].ticket => world.tickets > 0
       /\ world.fingerprint /\ world.cases > 0
  /\ why = "converged" => Covered(st)

(* A repeated finalization costs at most one extra set of requests, one extra
   ticket and one extra case ("cap retries to avoid duplicates"), and a finding
   that is not actionable has no request and no ticket. *)
DuplicatesAreBounded ==
  LET most == Cardinality({n \in Attempts : at[n] # "idle"})
  IN /\ world.approvals <= most * asks
     /\ world.tickets <= most /\ world.cases <= most
     /\ ~ actionable => world.approvals = 0 /\ world.tickets = 0

(* The workflow ends, completed or failed (the retry policies are finite). *)
Ends == <>(phase \in {"complete", "failed"})
=============================================================================
