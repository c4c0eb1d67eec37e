---------------------------- MODULE TaskScheduler ---------------------------
(***************************************************************************)
(* The taskgraph strategy of an investigation (agents/planning/, loop.py   *)
(* _collect_taskgraph): a graph of tasks grows from what the planner       *)
(* proposes, waves of ready tasks run concurrently, a failed task is tried *)
(* once more, and once no task is ready the reflection engine              *)
(* (agents/reflection.py) may add follow-ups.                              *)
(***************************************************************************)
EXTENDS RunTool, SequencesExt

CONSTANTS MaxIterations, MaxToolCalls,  \* Budget
          MaxReflectionRounds

ASSUME SchedulerAssumption ==
  MaxIterations \in Nat /\ MaxToolCalls \in Nat /\ MaxReflectionRounds \in Nat

VARIABLES tasks,       \* the graph: tasks[i] is the task t<i>
          wave,
          tool_calls,
          rounds,      \* reflection rounds so far
          phase,       \* where run and _drain stand
          raised,      \* the tasks of this wave whose tool raised
          why          \* why it ended, or "going"

schedulerVars == <<tasks, wave, tool_calls, rounds, phase, why>>
vars == <<toolVars, schedulerVars, raised>>

MaxAttempts == 2

(* What identifies a task's work, and the tool's snapshot is not part of it. *)
Task == [work : Action, deps : SUBSET Nat,
         status : {"pending", "running", "done", "failed"},
         attempts : 0..MaxAttempts, wave : 1..MaxIterations + 1]

TypeOK ==
  /\ ToolTypeOK
  /\ tasks \in Seq(Task)
  /\ wave \in 0..MaxIterations
  /\ tool_calls \in 0..MaxToolCalls
  /\ rounds \in 0..MaxReflectionRounds
  /\ phase \in {"drain", "wave", "reflect", "end"}
  /\ raised \subseteq DOMAIN tasks
  /\ why \in {"going", "converged", "clock", "calls", "waves"}

Init ==
  /\ \E phishing \in BOOLEAN : st = NewCase(phishing)
  /\ flight = {} /\ reached = {}
  /\ tasks = <<>>
  /\ wave = 0 /\ tool_calls = 0 /\ rounds = 0
  /\ phase = "drain"
  /\ raised = {}
  /\ why = "going"

-----------------------------------------------------------------------------
(* TaskGraph *)

Terminal(t) == t.status \in {"done", "failed"}

HasKey_Never(ts, work) == FALSE
HasKey(ts, work) == \E i \in DOMAIN ts : ts[i].work = work /\ ~ Terminal(ts[i])

(* graph.add, for each of some proposed actions. *)
Grow(ts, proposed, deps, w) ==
  ts \o SetToSeq({[work |-> a, deps |-> deps, status |-> "pending", attempts |-> 0,
                   wave |-> w] : a \in {b \in proposed : ~ HasKey(ts, b)}})

(* PlanningEngine.expand: new tasks depend on those of the wave before. *)
Expanded(ts, w) ==
  Grow(ts, NextActions(st), {i \in DOMAIN ts : ts[i].wave = w - 1}, w)

Ready_Unordered(ts) == {i \in DOMAIN ts : ts[i].status = "pending"}
Ready_AfterSuccess(ts) ==
  {i \in DOMAIN ts : /\ ts[i].status = "pending"
                     /\ \A d \in ts[i].deps : ts[d].status = "done"}
(* A failed dependency is finished too. *)
Ready(ts) ==
  {i \in DOMAIN ts : /\ ts[i].status = "pending"
                     /\ \A d \in ts[i].deps : Terminal(ts[d])}

(* DEFAULT_PRIORITY and the sort of graph.ready; equals are sorted by id as a
   string, which is any order. *)
Priority(tool) ==
  CASE tool \in {"run_detections", "fetch_email_context"} -> 90
    [] tool = "extract_iocs" -> 80
    [] tool = "enrich_iocs" -> 70
    [] tool = "detonate_attachment" -> 60
    [] tool = "hunt_edr" -> 50

SortKey(t) == (100 - Priority(t.work.tool)) * (MaxIterations + 2) + t.wave

-----------------------------------------------------------------------------
(* _drain *)

Draining == phase = "drain"
WavesUsed == wave = MaxIterations

Finish(reason) ==
  /\ why' = reason
  /\ phase' = "end"
  /\ UNCHANGED <<toolVars, wave, tool_calls, rounds, raised>>

WavesEnd == Draining /\ WavesUsed /\ Finish("waves") /\ UNCHANGED tasks

OutOfTime == Draining /\ ~ WavesUsed /\ Finish("clock") /\ UNCHANGED tasks

Drained ==
  /\ Draining /\ ~ WavesUsed
  /\ Ready(Expanded(tasks, wave + 1)) = {}
  /\ tasks' = Expanded(tasks, wave + 1)
  /\ phase' = "reflect"
  /\ UNCHANGED <<toolVars, wave, tool_calls, rounds, raised, why>>

BudgetLeft == MaxToolCalls - tool_calls

CallsEnd ==
  /\ Draining /\ ~ WavesUsed
  /\ Ready(Expanded(tasks, wave + 1)) # {} /\ BudgetLeft <= 0
  /\ tasks' = Expanded(tasks, wave + 1)
  /\ Finish("calls")

StartWave ==
  /\ Draining /\ ~ WavesUsed /\ BudgetLeft > 0
  /\ LET grown == Expanded(tasks, wave + 1)
         rank == [i \in DOMAIN grown |-> SortKey(grown[i])]
     IN /\ Ready(grown) # {}
        /\ \E go \in FirstOf(Ready(grown), BudgetLeft, rank) :
             /\ tasks' = [i \in DOMAIN grown |->
                            IF i \in go THEN [grown[i] EXCEPT !.status = "running",
                                                              !.attempts = @ + 1]
                            ELSE grown[i]]
             /\ flight' = {Started(grown[i].work, i) : i \in go}
  /\ wave' = wave + 1
  /\ phase' = "wave"
  /\ UNCHANGED <<st, reached, tool_calls, rounds, raised, why>>

Tool(a) ==
  /\ \/ (FetchMessage(a) \/ ToolReturns(a)) /\ UNCHANGED raised
     \/ ToolRaises(a) /\ raised' = raised \cup {a.id}
  /\ UNCHANGED schedulerVars

Settled(t, ok) ==
  [t EXCEPT !.status = IF ok THEN "done"
                       ELSE IF t.attempts < MaxAttempts THEN "pending" ELSE "failed"]

(* All tools of the wave have returned or raised. *)
WaveIsOver_AllSucceeded == phase = "wave" /\ flight = {} /\ raised = {}
WaveIsOver == phase = "wave" /\ flight = {}

EndWave ==
  /\ WaveIsOver
  /\ tool_calls' = tool_calls + Cardinality({i \in DOMAIN tasks : tasks[i].status = "running"})
  /\ tasks' = [i \in DOMAIN tasks |->
                 IF tasks[i].status = "running" THEN Settled(tasks[i], i \notin raised)
                 ELSE tasks[i]]
  /\ raised' = {}
  /\ phase' = "drain"
  /\ UNCHANGED <<toolVars, wave, rounds, why>>

-----------------------------------------------------------------------------
(* Reflection: what ReflectionEngine.suggest proposes. *)

Suspicious(s) == {k \in Iocs : s.verdict[k] = "suspicious"}
SingleSource(s) == {k \in Iocs : s.verdict[k] = "single"}

Suggested(s) ==
  Collect(s) \cup
  When(Suspicious(s) \ s.hunted_keys # {}, {Hunt(Suspicious(s) \ s.hunted_keys)}) \cup
  {Hunt({k}) : k \in SingleSource(s) \ s.hunted_keys}

Reflect ==
  /\ phase = "reflect"
  /\ Suggested(st) # {} /\ rounds < MaxReflectionRounds
  /\ rounds' = rounds + 1
  /\ tasks' = Grow(tasks, Suggested(st), DOMAIN tasks, wave + 1)
  /\ phase' = "drain"
  /\ UNCHANGED <<toolVars, wave, tool_calls, raised, why>>

Stabilized ==
  /\ phase = "reflect"
  /\ Suggested(st) = {} \/ rounds = MaxReflectionRounds
  /\ Finish("converged") /\ UNCHANGED tasks

Schedule ==
  \/ WavesEnd \/ Drained \/ CallsEnd \/ StartWave \/ EndWave
  \/ Reflect \/ Stabilized

Next == Schedule \/ OutOfTime \/ \E a \in flight : Tool(a)

Spec == Init /\ [][Next]_vars

(* The scheduler goes on, and every connector answers or times out. *)
FairSpec == Spec /\ WF_vars(Schedule) /\ WF_vars(\E a \in flight : Tool(a))

-----------------------------------------------------------------------------
(* The same work is never under way twice (graph.py add: "preventing duplicate
   concurrent work"), though finished work may be proposed again. *)
NoDuplicateWork ==
  \A i, j \in DOMAIN tasks :
    i # j /\ ~ Terminal(tasks[i]) /\ ~ Terminal(tasks[j]) => tasks[i].work # tasks[j].work

(* Types, and a task that has started had all it depends on finished, though
   retries run beside later waves: a task depends on earlier ones only, so the
   graph has no cycle to wait on (graph.py ready), and every attempt has been
   paid for out of the tool-call budget (scheduler.py _drain). *)
Attempts(ts) == {x \in (DOMAIN ts) \X (1..MaxAttempts) : x[2] <= ts[x[1]].attempts}
Running == {i \in DOMAIN tasks : tasks[i].status = "running"}
DependenciesFirst ==
  /\ TypeOK
  /\ \A i \in DOMAIN tasks :
       /\ tasks[i].deps \subseteq 1..i-1
       /\ tasks[i].attempts > 0 => \A d \in tasks[i].deps : Terminal(tasks[d])
  /\ tool_calls + Cardinality(Running) = Cardinality(Attempts(tasks))
  /\ Cardinality(Attempts(tasks)) <= MaxToolCalls

(* A scheduler that drained left no task behind and the case is covered: no
   failure blocks the graph ("a single failure degrades gracefully instead of
   deadlocking the graph"). Reflection then only ever re-opens hunts: there is
   nothing left to enrich or to detonate, and no malicious indicator unhunted
   (reflection.py _analyze 1, 2 and 4 propose nothing). *)
DrainedIsDone ==
  /\ phase = "reflect" \/ why = "converged" =>
       (\A i \in DOMAIN tasks : Terminal(tasks[i])) /\ Covered(st)
  /\ phase = "reflect" =>
       Suggested(st) \subseteq {Hunt(Suspicious(st) \ st.hunted_keys)}

(* It ends, whatever fails and whatever reflection proposes. *)
Ends == <>(phase = "end")
=============================================================================
