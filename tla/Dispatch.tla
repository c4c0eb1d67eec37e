------------------------------ MODULE Dispatch ------------------------------
(***************************************************************************)
(* Investigation dispatch: orchestrator/dispatch.py in both its modes, the *)
(* repository it saves to (repository.py) and the two ways of ingesting an *)
(* alert (api/v1/routes/alerts.py).                                        *)
(*                                                                         *)
(* Everything runs on one event loop, so what happens between two awaits   *)
(* is one action: inline, submit has no await and is one action whatever   *)
(* it ends with, and a supervised task is one action to enter the          *)
(* semaphore and one to finish; a submission to Temporal awaits the start  *)
(* of the workflow between its placeholder and its answer.                 *)
(***************************************************************************)
EXTENDS Integers, FiniteSets

CONSTANTS Ids,           \* investigation ids: fresh uuids, numbered as they are drawn
          Limit,         \* max_concurrent_investigations
          Repositories,  \* the repositories that may be configured
          Modes,         \* the dispatch modes that may be configured
          Outages,       \* whether the database may be down at times
          MayDie         \* whether the process may die

ASSUME DispatchAssumption ==
  /\ IsFiniteSet(Ids) /\ Ids \subseteq Nat
  /\ Limit \in Nat \ {0}
  /\ Repositories \subseteq {"memory", "postgres"}
  /\ Modes \subseteq {"inline", "temporal"}
  /\ Outages \in BOOLEAN
  /\ MayDie \in BOOLEAN

VARIABLES repo,      \* repo[i]: the status stored for investigation i
          run,       \* run[i]: how far the run of i has come
          answer,    \* answer[i]: what the submitter of i was told
          inflight,  \* _inflight
          permits,   \* the value of _semaphore
          died,      \* history: whether the process ever died
          kind,      \* the repository that get_repo() returns
          mode       \* settings.dispatch

dispatchVars == <<repo, run, answer, inflight, permits, died, kind, mode>>

Durable == kind = "postgres"
Outcomes == {"complete", "failed"}
Stored == {"queued"} \cup Outcomes

Live == {i \in Ids : run[i] \in {"created", "running"}}
Running == {i \in Ids : run[i] = "running"}

DispatchTypeOK ==
  /\ repo \in [Ids -> Stored \cup {"absent"}]
  /\ run \in [Ids -> {"none", "created", "running", "starting", "workflow", "sync",
                       "over", "lost"}]
  /\ answer \in [Ids -> {"none", "accepted", "refused", "error", "done"}]
  /\ inflight \in 0..Limit
  /\ permits \in 0..Limit
  /\ died \in BOOLEAN
  /\ kind \in Repositories
  /\ mode \in Modes

DispatchInit ==
  /\ repo = [i \in Ids |-> "absent"]
  /\ run = [i \in Ids |-> "none"]
  /\ answer = [i \in Ids |-> "none"]
  /\ inflight = 0
  /\ permits = Limit
  /\ died = FALSE
  /\ kind \in Repositories
  /\ mode \in Modes

-----------------------------------------------------------------------------
(* Repository.save.  The memory repository overwrites; the Postgres one
   inserts, so it refuses an id it holds; and its database may be down. *)
Save(i, status) ==
  /\ Durable => repo[i] = "absent"
  /\ repo' = [repo EXCEPT ![i] = status]

SaveRaises(i) == Durable /\ (Outages \/ repo[i] # "absent") /\ UNCHANGED repo

-----------------------------------------------------------------------------
(* submit *)

AtCapacity == inflight >= Limit

Placeholder_Skipped(i) == UNCHANGED repo
Placeholder(i) == Save(i, "queued")

(* An id is drawn once, by submit or by the request that runs synchronously. *)
Drawn(i) == answer[i] # "none" \/ run[i] # "none"
Fresh(i) == ~ Drawn(i) /\ \A j \in Ids : j < i => Drawn(j)

Answer(i, told) == answer' = [answer EXCEPT ![i] = told]

SubmitAccepted(i) ==
  /\ mode = "inline"
  /\ Fresh(i)
  /\ Placeholder(i)
  /\ ~ AtCapacity
  /\ inflight' = inflight + 1
  /\ run' = [run EXCEPT ![i] = "created"]
  /\ Answer(i, "accepted")
  /\ UNCHANGED <<permits, died, kind, mode>>

(* CapacityError, 429: the placeholder is already saved. *)
SubmitRefused(i) ==
  /\ mode = "inline"
  /\ Fresh(i)
  /\ Placeholder(i)
  /\ AtCapacity
  /\ Answer(i, "refused")
  /\ UNCHANGED <<run, inflight, permits, died, kind, mode>>

SubmitRaises(i) ==
  /\ Fresh(i)
  /\ SaveRaises(i)
  /\ Answer(i, "error")
  /\ UNCHANGED <<run, inflight, permits, died, kind, mode>>

-----------------------------------------------------------------------------
(* _submit_temporal *)

SubmitTemporal(i) ==
  /\ mode = "temporal"
  /\ Fresh(i)
  /\ Placeholder(i)
  /\ run' = [run EXCEPT ![i] = "starting"]
  /\ UNCHANGED <<answer, inflight, permits, died, kind, mode>>

WorkflowStarts(i) ==
  /\ run[i] = "starting"
  /\ run' = [run EXCEPT ![i] = "workflow"]
  /\ Answer(i, "accepted")
  /\ UNCHANGED <<repo, inflight, permits, died, kind, mode>>

(* connect or start_workflow raised, in doubt after the workflow was started;
   the placeholder stays. *)
StartRaises(i) ==
  /\ run[i] = "starting"
  /\ \E r \in {"over", "workflow"} : run' = [run EXCEPT ![i] = r]
  /\ Answer(i, "error")
  /\ UNCHANGED <<repo, inflight, permits, died, kind, mode>>

(* The worker saves the package in its own memory, or in the database, which
   holds the placeholder and refuses (DurableWorkflow). *)
WorkflowEnds(i) ==
  /\ run[i] = "workflow"
  /\ run' = [run EXCEPT ![i] = "over"]
  /\ UNCHANGED <<repo, answer, inflight, permits, died, kind, mode>>

-----------------------------------------------------------------------------
(* _run_supervised *)

EnterSemaphore(i) ==
  /\ run[i] = "created"
  /\ permits > 0
  /\ permits' = permits - 1
  /\ run' = [run EXCEPT ![i] = "running"]
  /\ UNCHANGED <<repo, answer, inflight, died, kind, mode>>

Leave_KeepsCount(i) ==
  /\ run[i] = "running"
  /\ run' = [run EXCEPT ![i] = "over"]
  /\ permits' = permits + 1
  /\ UNCHANGED <<answer, inflight, died, kind, mode>>
(* The finally clause and the exit of the async with. *)
Leave(i) ==
  /\ run[i] = "running"
  /\ run' = [run EXCEPT ![i] = "over"]
  /\ inflight' = inflight - 1
  /\ permits' = permits + 1
  /\ UNCHANGED <<answer, died, kind, mode>>

RunCompletes_ThenRaises(i) ==
  run[i] = "running" /\ Save(i, "complete")
  /\ UNCHANGED <<run, answer, inflight, permits, died, kind, mode>>
RunCompletes(i) == Save(i, "complete") /\ Leave(i)

(* The investigation raised, or saving its package did: the FAILED package is
   saved instead. *)
RunFails_Silently(i) == UNCHANGED repo /\ Leave(i)
RunFails(i) == Save(i, "failed") /\ Leave(i)

(* Saving the FAILED package raised as well: the task dies with it. *)
RunUnrecorded(i) == SaveRaises(i) /\ Leave(i)

-----------------------------------------------------------------------------
(* mode=sync and ingest-file: the request runs the investigation itself,
   outside the dispatcher, and saves the package once. *)

SyncStart(i) ==
  /\ Fresh(i)
  /\ run' = [run EXCEPT ![i] = "sync"]
  /\ UNCHANGED <<repo, answer, inflight, permits, died, kind, mode>>

SyncAnswers(i, told) ==
  /\ run[i] = "sync"
  /\ run' = [run EXCEPT ![i] = "over"]
  /\ Answer(i, told)
  /\ UNCHANGED <<inflight, permits, died, kind, mode>>

SyncCompletes(i) == SyncAnswers(i, "done") /\ Save(i, "complete")

(* The investigation or the save raised: 500, and nothing is stored. *)
SyncRaises(i) == SyncAnswers(i, "error") /\ UNCHANGED repo

-----------------------------------------------------------------------------
(* The process dies, and is started again.  Its tasks are gone, and the memory
   repository too; workflows go on elsewhere. *)
ProcessDies ==
  /\ MayDie
  /\ died' = TRUE
  /\ run' = [i \in Ids |-> IF run[i] \in {"created", "running", "starting", "sync"}
                           THEN "lost" ELSE run[i]]
  /\ repo' = IF Durable THEN repo ELSE [i \in Ids |-> "absent"]
  /\ inflight' = 0
  /\ permits' = Limit
  /\ UNCHANGED <<answer, kind, mode>>

Supervise(i) ==
  \/ EnterSemaphore(i)
  \/ RunCompletes(i) \/ RunFails(i) \/ RunUnrecorded(i)

Submit(i) == SubmitAccepted(i) \/ SubmitRefused(i) \/ SubmitRaises(i)

Temporal(i) ==
  SubmitTemporal(i) \/ WorkflowStarts(i) \/ StartRaises(i) \/ WorkflowEnds(i)

Sync(i) == SyncStart(i) \/ SyncCompletes(i) \/ SyncRaises(i)

DispatchNext ==
  \/ \E i \in Ids : Submit(i) \/ Supervise(i) \/ Temporal(i) \/ Sync(i)
  \/ ProcessDies

DispatchSpec == DispatchInit /\ [][DispatchNext]_dispatchVars

(* The event loop runs every task that is ready; an investigation ends, since
   its budget bounds it (agents/planner.py Budget). *)
TasksRun == \A i \in Ids : WF_dispatchVars(Supervise(i))

FairDispatchSpec == DispatchSpec /\ TasksRun

-----------------------------------------------------------------------------
(* The count that admits submissions is the number of tasks alive, and the
   semaphore's is the number of tasks inside: neither leaks, whether a run
   completes, raises, or cannot even be recorded (_run_supervised finally). *)
CountsAreExact ==
  /\ inflight = Cardinality(Live)
  /\ permits = Limit - Cardinality(Running)

(* An accepted investigation is never held up by the semaphore: admission
   already bounds the tasks (dispatch.py: the limit of both is the same). *)
AdmittedNeverWaits == Live # Running => permits > 0

(* An investigation that was accepted can be polled from the moment of the 202:
   for good over Postgres, until the process dies over memory (dispatch.py
   docstring, "poll GET /investigations/{id} from the moment the 202 is
   returned"), however long the start of a workflow took. *)
AcceptedIsPollable ==
  \A i \in Ids : answer[i] = "accepted" /\ (Durable \/ ~ died) => repo[i] \in Stored

(* A stored outcome is final, but for the memory that dies with its process,
   and an outcome is only ever stored for an investigation that ran. *)
MemoryDies == ~ Durable /\ died' /\ \A i \in Ids : repo'[i] = "absent"

OutcomesAreFinal ==
  [][\A i \in Ids :
       /\ repo[i] \in Outcomes => repo'[i] = repo[i] \/ MemoryDies
       /\ repo'[i] # repo[i] /\ repo'[i] = "complete" => run[i] \in {"running", "sync"}
    ]_dispatchVars

(* An accepted investigation gets an outcome: "a FAILED package is persisted
   if the run raises - an investigation is never silently lost". *)
AcceptedSettles ==
  \A i \in Ids : (answer[i] = "accepted") ~> (repo[i] \in Outcomes)

(* The memory repository keeps that promise, for every investigation that no
   crash cuts short (_run_supervised: the FAILED package replaces QUEUED). *)
MemorySettles ==
  \A i \in Ids : (~ Durable /\ run[i] = "created")
                    ~> (repo[i] \in Outcomes \/ run[i] = "lost")
=============================================================================
