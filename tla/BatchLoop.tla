------------------------------ MODULE BatchLoop -----------------------------
(***************************************************************************)
(* The default strategy of an investigation: plan a batch, run its tools   *)
(* concurrently, plan again, until nothing is left or a budget trips       *)
(* (agents/loop.py _collect_batch and run_tool).                           *)
(***************************************************************************)
EXTENDS RunTool

CONSTANTS MaxIterations, MaxToolCalls  \* Budget

ASSUME BudgetAssumption == MaxIterations \in Nat /\ MaxToolCalls \in Nat

VARIABLES iteration,  \* rounds planned so far
          tool_calls,
          why,        \* why the loop ended, or "going"
          failed      \* history: the tools that raised

loopVars == <<iteration, tool_calls, why>>
vars == <<toolVars, loopVars, failed>>

TypeOK ==
  /\ ToolTypeOK
  /\ iteration \in 0..MaxIterations
  /\ tool_calls \in 0..MaxToolCalls
  /\ why \in {"going", "converged", "clock", "calls", "iterations"}
  /\ failed \subseteq Tools

Init ==
  /\ \E phishing \in BOOLEAN : st = NewCase(phishing)
  /\ flight = {} /\ reached = {}
  /\ iteration = 0 /\ tool_calls = 0
  /\ why = "going"
  /\ failed = {}

-----------------------------------------------------------------------------
Planning == why = "going" /\ flight = {}

Stop(reason) ==
  /\ why' = reason
  /\ UNCHANGED <<toolVars, iteration, tool_calls, failed>>

IterationsUsed == Planning /\ iteration = MaxIterations /\ Stop("iterations")

(* time.monotonic() is past the wall-clock budget. *)
OutOfTime == Planning /\ iteration < MaxIterations /\ Stop("clock")

Converge ==
  /\ Planning /\ iteration < MaxIterations
  /\ NextActions(st) = {}
  /\ Stop("converged")

Room == MaxToolCalls - tool_calls

CallsUsed ==
  /\ Planning /\ iteration < MaxIterations
  /\ NextActions(st) # {} /\ Room = 0
  /\ Stop("calls")

StartBatch_RetriesFree ==
  /\ Planning /\ iteration < MaxIterations
  /\ NextActions(st) # {} /\ Room # 0
  /\ \E batch \in FirstOf(NextActions(st), Room, Position(NextActions(st))) :
       /\ flight' = {Started(a, 0) : a \in batch}
       /\ IF failed = {}
          THEN iteration' = iteration + 1 /\ tool_calls' = tool_calls + Cardinality(batch)
          ELSE UNCHANGED <<iteration, tool_calls>>
  /\ UNCHANGED <<st, reached, why, failed>>
StartBatch ==
  /\ Planning /\ iteration < MaxIterations
  /\ NextActions(st) # {} /\ Room # 0
  /\ iteration' = iteration + 1
  /\ \E batch \in FirstOf(NextActions(st), Room, Position(NextActions(st))) :
       /\ flight' = {Started(a, 0) : a \in batch}
       /\ tool_calls' = tool_calls + Cardinality(batch)
  /\ UNCHANGED <<st, reached, why, failed>>

-----------------------------------------------------------------------------
Tool(a) ==
  /\ \/ (FetchMessage(a) \/ ToolReturns(a)) /\ UNCHANGED failed
     \/ ToolRaises(a) /\ failed' = failed \cup {a.tool}
  /\ UNCHANGED loopVars

Plan == IterationsUsed \/ Converge \/ CallsUsed \/ StartBatch

Next == Plan \/ OutOfTime \/ \E a \in flight : Tool(a)

Spec == Init /\ [][Next]_vars

(* The loop goes on, and every connector answers or times out. *)
FairSpec == Spec /\ WF_vars(Plan) /\ WF_vars(\E a \in flight : Tool(a))

-----------------------------------------------------------------------------
(* Every indicator that was found is kept, waiting or enriched, whatever runs
   beside the tool that found it and whatever fails. *)
NothingForgotten ==
  [][/\ Known(st) \subseteq Known(st')
     /\ st.hunted_keys \subseteq st'.hunted_keys
     /\ st.detonated \subseteq st'.detonated]_vars

(* Types, and the tools that run together never collide on the case: an
   indicator waits or is judged, and hunts run alone (RunTool). *)
ToolsDoNotCollide == TypeOK /\ IocLifecycle /\ HuntsAreQuiescent

(* A loop that says it converged has covered the case (planner.py
   next_actions has nothing left to propose only then). *)
ConvergedIsCovered == why = "converged" => Covered(st)

(* Eight rounds are enough for every case: only failing tools use them up. *)
OnlyFailuresUseUpRounds == why = "iterations" => failed # {}

(* The loop ends, whatever fails ("so an adversarial or pathological alert
   cannot run forever"). *)
Ends == <>(why # "going")
=============================================================================
