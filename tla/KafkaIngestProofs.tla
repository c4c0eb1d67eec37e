-------------------------- MODULE KafkaIngestProofs --------------------------
(***************************************************************************)
(* Proofs about KafkaIngest, for any partition, any malformed messages,    *)
(* either dispatch mode and repository, and any number of crashes.         *)
(***************************************************************************)
EXTENDS KafkaIngest, FiniteSetTheorems, TLAPS

USE DispatchAssumption, KafkaAssumption

(***************************************************************************)
(* The dispatcher.                                                         *)
(***************************************************************************)
(* The live and the running tasks are finitely many. *)
LEMMA TasksFinite ==
  /\ IsFiniteSet(Live) /\ IsFiniteSet(Running)
  /\ Cardinality(Live) \in Nat /\ Cardinality(Running) \in Nat
  /\ Running \subseteq Live /\ Cardinality(Running) <= Cardinality(Live)
<1>1. Live \in SUBSET Ids /\ Running \in SUBSET Live
  BY DEF Live, Running
<1>2. IsFiniteSet(Live) /\ IsFiniteSet(Running)
  BY <1>1, FS_Subset
<1>. QED
  BY <1>1, <1>2, FS_Subset, FS_CardinalityType

(* What the state of one task contributes to the two counts. *)
LEMMA TaskCreated ==
  ASSUME DispatchTypeOK, CountsAreExact, NEW i \in Ids, run[i] = "none",
         run' = [run EXCEPT ![i] = "created"]
  PROVE  Cardinality(Live') = inflight + 1 /\ Running' = Running
<1>1. Live' = Live \cup {i} /\ i \notin Live /\ Running' = Running
  BY DEF DispatchTypeOK, Live, Running
<1>. QED
  BY <1>1, TasksFinite, FS_AddElement DEF CountsAreExact

(* A task that enters the semaphore was live, and is one more that runs. *)
LEMMA TaskEnters ==
  ASSUME DispatchTypeOK, CountsAreExact, NEW i \in Ids, EnterSemaphore(i)
  PROVE  Live' = Live /\ Cardinality(Running') = Cardinality(Running) + 1
<1>1. Live' = Live /\ Running' = Running \cup {i} /\ i \notin Running
  BY DEF DispatchTypeOK, Live, Running, EnterSemaphore
<1>. QED
  BY <1>1, TasksFinite, FS_AddElement

(* A task that leaves is one live and one running task fewer. *)
LEMMA TaskLeaves ==
  ASSUME DispatchTypeOK, CountsAreExact, NEW i \in Ids, Leave(i)
  PROVE  /\ Cardinality(Live') = inflight - 1
         /\ Cardinality(Running') = Cardinality(Running) - 1
         /\ Cardinality(Running) >= 1
<1>1. /\ Live' = Live \ {i} /\ i \in Live
      /\ Running' = Running \ {i} /\ i \in Running
  BY DEF DispatchTypeOK, Live, Running, Leave
<1>2. Cardinality(Running') = Cardinality(Running) - 1 /\ Cardinality(Running') \in Nat
  BY <1>1, TasksFinite, FS_RemoveElement, FS_CardinalityType
<1>3. Cardinality(Live') = inflight - 1
  BY <1>1, TasksFinite, FS_RemoveElement DEF CountsAreExact
<1>. QED
  BY <1>2, <1>3, TasksFinite

(* A synchronous request is not a task of the dispatcher. *)
LEMMA SyncIsNoTask ==
  ASSUME DispatchTypeOK, NEW i \in Ids, run[i] \in {"none", "sync"},
         NEW s \in {"sync", "over"}, run' = [run EXCEPT ![i] = s]
  PROVE  Live' = Live /\ Running' = Running
BY DEF DispatchTypeOK, Live, Running

(* Nor is a submission to Temporal. *)
LEMMA TemporalIsNoTask ==
  ASSUME DispatchTypeOK, NEW i \in Ids, Temporal(i)
  PROVE  Live' = Live /\ Running' = Running
BY DEF DispatchTypeOK, Live, Running, Temporal, SubmitTemporal, WorkflowStarts, StartRaises,
       WorkflowEnds, Fresh, Drawn

CountsInv == DispatchTypeOK /\ CountsAreExact

(* Nothing is in flight in the beginning. *)
LEMMA CountsInit == DispatchInit => CountsInv
<1>. SUFFICES ASSUME DispatchInit PROVE CountsInv
  OBVIOUS
<1>1. Live = {} /\ Running = {}
  BY DEF DispatchInit, Live, Running
<1>2. CountsAreExact
  BY <1>1, FS_EmptySet DEF DispatchInit, CountsAreExact
<1>3. DispatchTypeOK
  <2>1. inflight \in 0..Limit /\ permits \in 0..Limit
    BY DEF DispatchInit
  <2>. QED
    BY <2>1 DEF DispatchInit, DispatchTypeOK
<1>. QED
  BY <1>2, <1>3 DEF CountsInv

(* A save, or one that raises, leaves a repository of records. *)
LEMMA SaveTyped ==
  ASSUME DispatchTypeOK, NEW i \in Ids, NEW s \in Stored,
         Save(i, s) \/ SaveRaises(i) \/ UNCHANGED repo
  PROVE  repo' \in [Ids -> Stored \cup {"absent"}]
BY DEF Save, SaveRaises, DispatchTypeOK, Stored, Outcomes

(* A task that leaves gives back its count and its permit, however its save
   ended. *)
LEMMA LeaveKeepsCounts ==
  ASSUME CountsInv, NEW i \in Ids, Leave(i), NEW s \in Stored,
         Save(i, s) \/ SaveRaises(i) \/ UNCHANGED repo
  PROVE  CountsInv'
<1>. USE DEF CountsInv
<1>0. /\ Cardinality(Live') = inflight - 1
      /\ Cardinality(Running') = Cardinality(Running) - 1
      /\ Cardinality(Running) >= 1
  BY TaskLeaves
<1>1. CountsAreExact'
  BY <1>0, TasksFinite DEF Leave, CountsAreExact, DispatchTypeOK
<1>2. inflight' \in 0..Limit /\ permits' \in 0..Limit
  BY <1>0, TasksFinite DEF Leave, CountsAreExact, DispatchTypeOK
<1>3. DispatchTypeOK'
  BY <1>2, SaveTyped DEF Leave, DispatchTypeOK
<1>. QED
  BY <1>1, <1>3

(* Every step of the dispatcher keeps the counts. *)
LEMMA CountsStep == CountsInv /\ [DispatchNext]_dispatchVars => CountsInv'
<1>. SUFFICES ASSUME CountsInv, [DispatchNext]_dispatchVars PROVE CountsInv'
  OBVIOUS
<1>. USE DEF CountsInv
<1>1. ASSUME NEW i \in Ids, SubmitAccepted(i) PROVE CountsInv'
  <2>1. Cardinality(Live') = inflight + 1 /\ Running' = Running
    BY <1>1, TaskCreated DEF SubmitAccepted, Fresh, Drawn
  <2>2. inflight' \in 0..Limit
    BY <1>1 DEF SubmitAccepted, AtCapacity, DispatchTypeOK
  <2>3. DispatchTypeOK'
    BY <1>1, <2>2, SaveTyped DEF SubmitAccepted, Placeholder, Answer, DispatchTypeOK, Stored
  <2>. QED
    BY <1>1, <2>1, <2>3 DEF SubmitAccepted, CountsAreExact
<1>2. ASSUME NEW i \in Ids, SubmitRefused(i) \/ SubmitRaises(i) PROVE CountsInv'
  <2>1. DispatchTypeOK'
    BY <1>2, SaveTyped
    DEF SubmitRefused, SubmitRaises, Placeholder, Answer, DispatchTypeOK, Stored
  <2>2. Live' = Live /\ Running' = Running
    BY <1>2 DEF SubmitRefused, SubmitRaises, Live, Running
  <2>. QED
    BY <1>2, <2>1, <2>2 DEF SubmitRefused, SubmitRaises, CountsAreExact
<1>3. ASSUME NEW i \in Ids, EnterSemaphore(i) PROVE CountsInv'
  <2>1. Live' = Live /\ Cardinality(Running') = Cardinality(Running) + 1
    BY <1>3, TaskEnters
  <2>2. DispatchTypeOK'
    BY <1>3 DEF EnterSemaphore, DispatchTypeOK
  <2>. QED
    BY <1>3, <2>1, <2>2, TasksFinite DEF EnterSemaphore, CountsAreExact, DispatchTypeOK
<1>4. ASSUME NEW i \in Ids, RunCompletes(i) \/ RunFails(i) \/ RunUnrecorded(i)
      PROVE  CountsInv'
  <2>1. CASE RunCompletes(i)
    BY <2>1, LeaveKeepsCounts DEF RunCompletes, Stored, Outcomes
  <2>2. CASE RunFails(i)
    BY <2>2, LeaveKeepsCounts DEF RunFails, Stored, Outcomes
  <2>3. CASE RunUnrecorded(i)
    BY <2>3, LeaveKeepsCounts DEF RunUnrecorded, Stored, Outcomes
  <2>. QED
    BY <1>4, <2>1, <2>2, <2>3
<1>5. ASSUME NEW i \in Ids, Sync(i) PROVE CountsInv'
  <2>1. Live' = Live /\ Running' = Running
    BY <1>5, SyncIsNoTask
    DEF Sync, SyncStart, SyncCompletes, SyncRaises, SyncAnswers, Fresh, Drawn
  <2>2. DispatchTypeOK'
    BY <1>5, SaveTyped
    DEF Sync, SyncStart, SyncCompletes, SyncRaises, SyncAnswers, Answer, DispatchTypeOK,
        Stored, Outcomes
  <2>. QED
    BY <1>5, <2>1, <2>2
    DEF Sync, SyncStart, SyncCompletes, SyncRaises, SyncAnswers, CountsAreExact
<1>6. ASSUME NEW i \in Ids, Temporal(i) PROVE CountsInv'
  <2>1. DispatchTypeOK'
    BY <1>6, SaveTyped
    DEF Temporal, SubmitTemporal, WorkflowStarts, StartRaises, WorkflowEnds, Placeholder,
        Answer, DispatchTypeOK, Stored
  <2>. QED
    BY <1>6, <2>1, TemporalIsNoTask
    DEF Temporal, SubmitTemporal, WorkflowStarts, StartRaises, WorkflowEnds, CountsAreExact
<1>7. ASSUME ProcessDies PROVE CountsInv'
  <2>1. Live' = {} /\ Running' = {}
    BY <1>7 DEF ProcessDies, Live, Running, DispatchTypeOK
  <2>2. DispatchTypeOK'
    BY <1>7 DEF ProcessDies, DispatchTypeOK
  <2>. QED
    BY <1>7, <2>1, <2>2, FS_EmptySet DEF ProcessDies, CountsAreExact
<1>8. CASE UNCHANGED dispatchVars
  BY <1>8 DEF dispatchVars, DispatchTypeOK, CountsAreExact, Live, Running
<1>. QED
  BY <1>1, <1>2, <1>3, <1>4, <1>5, <1>6, <1>7, <1>8 DEF DispatchNext, Submit, Supervise

(* The counts are exact in every behaviour of the dispatcher. *)
LEMMA CountsAlways == DispatchSpec => []CountsInv
<1>. QED
  BY CountsInit, CountsStep, PTL DEF DispatchSpec

(* Every reachable state of the dispatcher is well typed; in particular the
   number of tasks in flight never passes the limit (_submit_inline). *)
THEOREM DispatchTypeCorrect == DispatchSpec => []DispatchTypeOK
<1>1. CountsInv => DispatchTypeOK
  BY DEF CountsInv
<1>. QED
  BY <1>1, CountsAlways, PTL

(* On no error path does the in-flight count or the semaphore leak, for any
   limit and any number of investigations (_run_supervised finally). *)
THEOREM CountsHold == DispatchSpec => []CountsAreExact
<1>1. CountsInv => CountsAreExact
  BY DEF CountsInv
<1>. QED
  BY <1>1, CountsAlways, PTL

(* An admitted task always finds a permit free, so that its semaphore never
   holds up an accepted investigation (dispatch.py __init__: one limit). *)
THEOREM AdmittedHold == DispatchSpec => []AdmittedNeverWaits
<1>1. CountsInv => AdmittedNeverWaits
  <2>. SUFFICES ASSUME CountsInv, Live # Running PROVE permits > 0
    BY DEF AdmittedNeverWaits
  <2>1. Cardinality(Running) < Cardinality(Live)
    BY TasksFinite, FS_Subset
  <2>. QED
    BY <2>1, TasksFinite DEF CountsInv, CountsAreExact, DispatchTypeOK
<1>. QED
  BY <1>1, CountsAlways, PTL

-----------------------------------------------------------------------------
(* What is stored when, as long as no crash has happened. *)
LEMMA SaveStores ==
  ASSUME DispatchTypeOK, NEW i \in Ids, NEW s \in Stored,
         Save(i, s) \/ SaveRaises(i) \/ UNCHANGED repo, NEW j \in Ids, repo[j] \in Stored
  PROVE  repo'[j] \in Stored
BY DEF Save, SaveRaises, DispatchTypeOK

(* What makes AcceptedIsPollable inductive: a placeholder is kept while the
   start of its workflow is awaited. *)
StartingIsStored == \A i \in Ids : run[i] = "starting" => repo[i] \in Stored
PollableInv == DispatchTypeOK /\ StartingIsStored /\ AcceptedIsPollable

(* A placeholder stays while the start of its workflow is awaited. *)
LEMMA StartingStep ==
  ASSUME DispatchTypeOK, StartingIsStored, [DispatchNext]_dispatchVars
  PROVE  StartingIsStored'
<1>. SUFFICES ASSUME NEW j \in Ids, run'[j] = "starting" PROVE repo'[j] \in Stored
  BY DEF StartingIsStored
<1>. USE DEF StartingIsStored, DispatchTypeOK, Stored, Outcomes, Save, SaveRaises
<1>1. ASSUME NEW i \in Ids, Submit(i) PROVE repo'[j] \in Stored
  BY <1>1 DEF Submit, SubmitAccepted, SubmitRefused, SubmitRaises, Placeholder
<1>2. ASSUME NEW i \in Ids, Supervise(i) PROVE repo'[j] \in Stored
  BY <1>2 DEF Supervise, EnterSemaphore, RunCompletes, RunFails, RunUnrecorded, Leave
<1>3. ASSUME NEW i \in Ids, Temporal(i) PROVE repo'[j] \in Stored
  BY <1>3
  DEF Temporal, SubmitTemporal, WorkflowStarts, StartRaises, WorkflowEnds, Placeholder
<1>4. ASSUME NEW i \in Ids, Sync(i) PROVE repo'[j] \in Stored
  BY <1>4 DEF Sync, SyncStart, SyncCompletes, SyncRaises, SyncAnswers
<1>5. CASE ProcessDies
  BY <1>5 DEF ProcessDies
<1>6. CASE UNCHANGED dispatchVars
  BY <1>6 DEF dispatchVars
<1>. QED
  BY <1>1, <1>2, <1>3, <1>4, <1>5, <1>6 DEF DispatchNext

(* No step loses the record of an investigation that was accepted. *)
LEMMA PollableStep ==
  ASSUME PollableInv, [DispatchNext]_dispatchVars
  PROVE  AcceptedIsPollable'
<1>. SUFFICES ASSUME NEW j \in Ids, answer'[j] = "accepted", (Durable \/ ~ died)'
              PROVE  repo'[j] \in Stored
  BY DEF AcceptedIsPollable
<1>. USE DEF PollableInv, Durable
<1>1. ASSUME NEW i \in Ids, Submit(i) PROVE repo'[j] \in Stored
  <2>1. CASE j = i
    BY <1>1, <2>1
    DEF Submit, SubmitAccepted, SubmitRefused, SubmitRaises, Placeholder, Save, SaveRaises,
        Answer, DispatchTypeOK, Stored
  <2>2. CASE j # i
    <3>1. answer[j] = "accepted" /\ (Durable \/ ~ died)
      BY <1>1, <2>2
      DEF Submit, SubmitAccepted, SubmitRefused, SubmitRaises, Answer, DispatchTypeOK
    <3>2. repo[j] \in Stored
      BY <3>1 DEF AcceptedIsPollable
    <3>. QED
      BY <1>1, <3>2, SaveStores
      DEF Submit, SubmitAccepted, SubmitRefused, SubmitRaises, Placeholder, Stored
  <2>. QED
    BY <2>1, <2>2
<1>2. ASSUME NEW i \in Ids, Supervise(i) PROVE repo'[j] \in Stored
  <2>1. answer[j] = "accepted" /\ (Durable \/ ~ died)
    BY <1>2
    DEF Supervise, EnterSemaphore, RunCompletes, RunFails, RunUnrecorded, Leave
  <2>2. repo[j] \in Stored
    BY <2>1 DEF AcceptedIsPollable
  <2>. QED
    BY <1>2, <2>2, SaveStores
    DEF Supervise, EnterSemaphore, RunCompletes, RunFails, RunUnrecorded, Stored, Outcomes
<1>3. ASSUME NEW i \in Ids, Sync(i) PROVE repo'[j] \in Stored
  <2>1. answer[j] = "accepted" /\ (Durable \/ ~ died)
    <3>1. CASE SyncStart(i)
      BY <3>1 DEF SyncStart
    <3>2. ASSUME NEW told \in {"done", "error"}, SyncAnswers(i, told)
          PROVE  answer[j] = "accepted" /\ (Durable \/ ~ died)
      BY <3>2 DEF SyncAnswers, Answer, DispatchTypeOK
    <3>. QED
      BY <1>3, <3>1, <3>2 DEF Sync, SyncCompletes, SyncRaises
  <2>2. repo[j] \in Stored
    BY <2>1 DEF AcceptedIsPollable
  <2>. QED
    BY <1>3, <2>2, SaveStores
    DEF Sync, SyncStart, SyncCompletes, SyncRaises, SyncAnswers, Stored, Outcomes
<1>4. ASSUME NEW i \in Ids, Temporal(i) PROVE repo'[j] \in Stored
  <2>1. CASE WorkflowStarts(i) /\ j = i
    BY <2>1 DEF WorkflowStarts, StartingIsStored
  <2>2. CASE ~ WorkflowStarts(i) \/ j # i
    <3>1. answer[j] = "accepted" /\ (Durable \/ ~ died)
      BY <1>4, <2>2
      DEF Temporal, SubmitTemporal, WorkflowStarts, StartRaises, WorkflowEnds, Answer,
          DispatchTypeOK
    <3>2. repo[j] \in Stored
      BY <3>1 DEF AcceptedIsPollable
    <3>. QED
      BY <1>4, <3>2, SaveStores
      DEF Temporal, SubmitTemporal, WorkflowStarts, StartRaises, WorkflowEnds, Placeholder,
          Stored
  <2>. QED
    BY <2>1, <2>2
<1>5. CASE ProcessDies
  BY <1>5 DEF ProcessDies, DispatchTypeOK, AcceptedIsPollable
<1>6. CASE UNCHANGED dispatchVars
  BY <1>6 DEF dispatchVars, AcceptedIsPollable
<1>. QED
  BY <1>1, <1>2, <1>3, <1>4, <1>5, <1>6 DEF DispatchNext

(* A submitter who was answered 202 finds a record under its id, whatever runs
   beside it and whatever fails (submit saves before it accepts). *)
THEOREM PollableHolds == DispatchSpec => []AcceptedIsPollable
<1>1. DispatchInit => StartingIsStored /\ AcceptedIsPollable
  BY DEF DispatchInit, StartingIsStored, AcceptedIsPollable
<1>2. DispatchTypeOK /\ StartingIsStored /\ AcceptedIsPollable /\ [DispatchNext]_dispatchVars
        => StartingIsStored' /\ AcceptedIsPollable'
  BY StartingStep, PollableStep DEF PollableInv
<1>. QED
  BY <1>1, <1>2, DispatchTypeCorrect, PTL DEF DispatchSpec

-----------------------------------------------------------------------------
(* An outcome is stored only under the id of a run that is over, so that nobody
   is left to overwrite it. *)
OutcomeIsOver == \A i \in Ids : repo[i] \in Outcomes => run[i] = "over"

(* An outcome is stored only when its run is over. *)
LEMMA OutcomeStep ==
  ASSUME DispatchTypeOK, OutcomeIsOver, [DispatchNext]_dispatchVars
  PROVE  OutcomeIsOver'
<1>. SUFFICES ASSUME NEW j \in Ids, repo'[j] \in Outcomes PROVE run'[j] = "over"
  BY DEF OutcomeIsOver
<1>. USE DEF OutcomeIsOver, DispatchTypeOK, Outcomes
<1>1. ASSUME NEW i \in Ids, Submit(i) PROVE run'[j] = "over"
  BY <1>1
  DEF Submit, SubmitAccepted, SubmitRefused, SubmitRaises, Placeholder, Save, SaveRaises, Fresh, Drawn
<1>2. ASSUME NEW i \in Ids, Supervise(i) PROVE run'[j] = "over"
  BY <1>2
  DEF Supervise, EnterSemaphore, RunCompletes, RunFails, RunUnrecorded, Leave, Save, SaveRaises
<1>3. ASSUME NEW i \in Ids, Sync(i) PROVE run'[j] = "over"
  BY <1>3 DEF Sync, SyncStart, SyncCompletes, SyncRaises, SyncAnswers, Save, Fresh, Drawn
<1>4. ASSUME NEW i \in Ids, Temporal(i) PROVE run'[j] = "over"
  BY <1>4
  DEF Temporal, SubmitTemporal, WorkflowStarts, StartRaises, WorkflowEnds, Placeholder, Save,
      Fresh, Drawn
<1>5. CASE ProcessDies
  BY <1>5 DEF ProcessDies
<1>6. CASE UNCHANGED dispatchVars
  BY <1>6 DEF dispatchVars
<1>. QED
  BY <1>1, <1>2, <1>3, <1>4, <1>5, <1>6 DEF DispatchNext

(* A stored outcome never changes, unless it goes with the memory of a process
   that dies, and only a run stores one: no placeholder, retry or failure
   handler replaces COMPLETE or FAILED. *)
THEOREM OutcomesFinalHold == DispatchSpec => OutcomesAreFinal
<1> DEFINE Kept ==
      \A i \in Ids :
        /\ repo[i] \in Outcomes => repo'[i] = repo[i] \/ MemoryDies
        /\ repo'[i] # repo[i] /\ repo'[i] = "complete" => run[i] \in {"running", "sync"}
<1>1. DispatchInit => OutcomeIsOver
  BY DEF DispatchInit, OutcomeIsOver, Outcomes
<1>2. DispatchTypeOK /\ OutcomeIsOver /\ [DispatchNext]_dispatchVars => [Kept]_dispatchVars
  <2>. SUFFICES ASSUME DispatchTypeOK, OutcomeIsOver, DispatchNext, NEW j \in Ids
                PROVE  /\ repo[j] \in Outcomes => repo'[j] = repo[j] \/ MemoryDies
                       /\ repo'[j] # repo[j] /\ repo'[j] = "complete"
                            => run[j] \in {"running", "sync"}
    OBVIOUS
  <2>. USE DEF OutcomeIsOver, DispatchTypeOK, Outcomes
  <2>1. ASSUME NEW i \in Ids, Submit(i)
        PROVE  /\ repo[j] \in Outcomes => repo'[j] = repo[j]
               /\ repo'[j] # repo[j] => repo'[j] # "complete"
    BY <2>1
    DEF Submit, SubmitAccepted, SubmitRefused, SubmitRaises, Placeholder, Save, SaveRaises, Fresh, Drawn
  <2>2. ASSUME NEW i \in Ids, Supervise(i)
        PROVE  /\ repo[j] \in Outcomes => repo'[j] = repo[j]
               /\ repo'[j] # repo[j] => run[j] = "running"
    BY <2>2
    DEF Supervise, EnterSemaphore, RunCompletes, RunFails, RunUnrecorded, Leave, Save, SaveRaises
  <2>3. ASSUME NEW i \in Ids, Sync(i)
        PROVE  /\ repo[j] \in Outcomes => repo'[j] = repo[j]
               /\ repo'[j] # repo[j] => run[j] = "sync"
    BY <2>3 DEF Sync, SyncStart, SyncCompletes, SyncRaises, SyncAnswers, Save
  <2>4. ASSUME ProcessDies
        PROVE  /\ repo'[j] = repo[j] \/ MemoryDies
               /\ repo'[j] # repo[j] => repo'[j] # "complete"
    BY <2>4 DEF ProcessDies, MemoryDies
  <2>5. ASSUME NEW i \in Ids, Temporal(i)
        PROVE  /\ repo[j] \in Outcomes => repo'[j] = repo[j]
               /\ repo'[j] # repo[j] => repo'[j] # "complete"
    BY <2>5
    DEF Temporal, SubmitTemporal, WorkflowStarts, StartRaises, WorkflowEnds, Placeholder, Save,
        Fresh, Drawn
  <2>. QED
    BY <2>1, <2>2, <2>3, <2>4, <2>5 DEF DispatchNext
<1>. QED
  BY <1>1, <1>2, OutcomeStep, DispatchTypeCorrect, PTL DEF DispatchSpec, OutcomesAreFinal

(***************************************************************************)
(* The consumer, whose steps are the dispatcher's.                         *)
(***************************************************************************)

(* Every step of the consumer is a step of the dispatcher, or none. *)
LEMMA ConsumerSteps == [Next]_vars => [DispatchNext]_dispatchVars
<1>. SUFFICES ASSUME [Next]_vars PROVE [DispatchNext]_dispatchVars
  OBVIOUS
<1>1. CASE Poll \/ SendToDlq \/ Commit \/ Restart
  BY <1>1 DEF Poll, SendToDlq, Commit, Restart
<1>2. ASSUME NEW i \in Ids, Submitting(i) PROVE DispatchNext
  BY <1>2
  DEF Submitting, SubmitMessage, AwaitStart, Started, DispatchNext, Submit, Temporal
<1>3. ASSUME NEW i \in Ids, RetryMessage(i) PROVE DispatchNext
  BY <1>3 DEF RetryMessage, DispatchNext, Submit, Temporal
<1>4. ASSUME NEW i \in Ids, RunTasks(i) PROVE DispatchNext
  BY <1>4 DEF RunTasks, DispatchNext
<1>5. CASE ParseEscapes \/ Crash
  BY <1>5 DEF ParseEscapes, Crash, Dies, DispatchNext
<1>6. CASE UNCHANGED vars
  BY <1>6 DEF vars
<1>. QED
  BY <1>1, <1>2, <1>3, <1>4, <1>5, <1>6 DEF Next, Loop

(* So the dispatcher of a consumer is well typed too. *)
LEMMA DispatcherTyped == Spec => []DispatchTypeOK
<1>1. Init => DispatchInit
  BY DEF Init
<1>2. Spec => DispatchSpec
  BY <1>1, ConsumerSteps, PTL DEF Spec, DispatchSpec
<1>. QED
  BY <1>2, DispatchTypeCorrect, PTL

ConsumerTypeOK ==
  /\ pos \in 0..Messages /\ committed \in 0..Messages
  /\ at \in {"down", "poll", "dlq", "submit", "start", "commit"}
  /\ dlq \subseteq Offsets
  /\ subs \in [Offsets -> SUBSET Ids]
  /\ retries \in 0..MaxRetries /\ crashes \in 0..MaxCrashes

Handled(m) == IF m \in Poison THEN m \in dlq ELSE subs[m] # {}

(* The message in hand is the one after the committed offset, and it is handled
   by the time the consumer commits: what makes AtLeastOnce inductive. *)
InHand ==
  /\ pos = IF at \in {"down", "poll"} THEN committed ELSE committed + 1
  /\ at = "dlq" => pos \in Poison
  /\ at \in {"submit", "start"} => pos \notin Poison
  /\ at = "commit" => Handled(pos)
  /\ \A m \in 1..committed : Handled(m)

ConsumerInv == ConsumerTypeOK /\ InHand

(* The consumer starts with nothing in hand. *)
LEMMA ConsumerStarts == Init => ConsumerInv
BY DEF Init, ConsumerInit, ConsumerInv, ConsumerTypeOK, InHand, Offsets

(* Nothing that was handled is forgotten. *)
LEMMA StaysHandled ==
  ASSUME ConsumerTypeOK, NEW m \in Offsets, Handled(m), dlq \subseteq dlq',
         \/ subs' = subs
         \/ \E i \in Ids : subs' = [subs EXCEPT ![pos] = @ \cup {i}]
  PROVE  Handled(m)'
BY DEF ConsumerTypeOK, Handled

(* The message in hand was given an investigation. *)
LEMMA GivenIsHandled ==
  ASSUME ConsumerInv, at \in {"submit", "start"}, NEW i \in Ids,
         subs' = [subs EXCEPT ![pos] = @ \cup {i}],
         UNCHANGED <<pos, committed, dlq, retries, crashes>>, at' = "commit"
  PROVE  ConsumerInv'
<1>. USE DEF ConsumerInv, ConsumerTypeOK, InHand
<1>1. pos \in Offsets /\ ConsumerTypeOK'
  BY DEF Offsets
<1>2. Handled(pos)'
  BY <1>1 DEF Handled
<1>3. ASSUME NEW m \in 1..committed PROVE Handled(m)'
  <2>1. m \in Offsets /\ Handled(m) /\ committed \in Nat
    BY DEF Offsets
  <2>. QED
    BY <2>1, StaysHandled
<1>. QED
  BY <1>1, <1>2, <1>3

(* Each step of the consumer keeps its message in hand, or finishes it. *)
LEMMA ConsumerStep ==
  ASSUME ConsumerInv, [Next]_vars
  PROVE  ConsumerInv'
<1>. USE DEF ConsumerInv, ConsumerTypeOK, InHand
<1>1. CASE Poll
  BY <1>1 DEF Poll, Handled
<1>2. CASE SendToDlq
  <2>1. pos \in Offsets
    BY <1>2 DEF SendToDlq, Offsets
  <2>2. Handled(pos)'
    BY <1>2, <2>1 DEF SendToDlq, Handled
  <2>3. \A m \in 1..committed : Handled(m)'
    BY <1>2, StaysHandled DEF SendToDlq, Offsets
  <2>. QED
    BY <1>2, <2>1, <2>2, <2>3 DEF SendToDlq
<1>3. CASE Commit
  BY <1>3 DEF Commit, Handled
<1>4. ASSUME NEW i \in Ids, SubmitMessage(i) PROVE ConsumerInv'
  BY <1>4, GivenIsHandled DEF SubmitMessage
<1>5. ASSUME NEW i \in Ids, AwaitStart(i) PROVE ConsumerInv'
  BY <1>5 DEF AwaitStart, Handled
<1>6. ASSUME NEW i \in Ids, Started(i) PROVE ConsumerInv'
  BY <1>6, GivenIsHandled DEF Started
<1>7. ASSUME NEW i \in Ids, RetryMessage(i) PROVE ConsumerInv'
  <2>1. /\ at \in {"submit", "start"} /\ at' = "submit"
        /\ retries' \in 0..MaxRetries
        /\ UNCHANGED <<pos, committed, dlq, crashes>>
        /\ subs' = subs \/ subs' = [subs EXCEPT ![pos] = @ \cup {i}]
    BY <1>7 DEF RetryMessage
  <2>2. \A m \in 1..committed : Handled(m)'
    BY <2>1, StaysHandled DEF Offsets
  <2>3. ConsumerTypeOK'
    BY <2>1 DEF Offsets
  <2>. QED
    BY <2>1, <2>2, <2>3
<1>8. ASSUME NEW i \in Ids, RunTasks(i) PROVE ConsumerInv'
  BY <1>8 DEF RunTasks, consumerVars, Handled
<1>9. CASE ParseEscapes \/ Crash
  BY <1>9 DEF ParseEscapes, Crash, Dies, Handled
<1>10. CASE Restart
  BY <1>10 DEF Restart, Handled
<1>11. CASE UNCHANGED vars
  BY <1>11 DEF vars, consumerVars, Handled
<1>. QED
  BY <1>1, <1>2, <1>3, <1>4, <1>5, <1>6, <1>7, <1>8, <1>9, <1>10, <1>11
  DEF Next, Loop, Submitting

(* At least once, for any partition and however often the consumer dies: no
   offset is committed past a message that was neither sent to the DLQ nor
   given an investigation (run_consumer commits after the dispatch). *)
THEOREM AtLeastOnceHolds == Spec => []AtLeastOnce
<1>1. DispatchTypeOK /\ ConsumerInv => AtLeastOnce
  BY DEF AtLeastOnce, TypeOK, ConsumerInv, ConsumerTypeOK, InHand, Handled
<1>2. Spec => []ConsumerInv
  BY ConsumerStarts, ConsumerStep, PTL DEF Spec
<1>. QED
  BY <1>1, <1>2, DispatcherTyped, PTL

-----------------------------------------------------------------------------
(* How many investigations a message may have been given beyond the first: one
   for each crash and, with Temporal, for each start that was retried. *)
Excess == crashes + (IF mode = "temporal" THEN retries ELSE 0)

(* A message that is not behind the commit has only the excess. *)
FewEach ==
  /\ at = "start" => mode = "temporal"
  /\ \A m \in Offsets :
       Cardinality(subs[m])
         <= Excess + (IF m <= committed \/ (at = "commit" /\ m = pos) THEN 1 ELSE 0)

CostInv == DispatchTypeOK /\ ConsumerInv /\ FewEach

(* A message was given finitely many investigations. *)
LEMMA SubsFinite ==
  ASSUME ConsumerTypeOK, NEW m \in Offsets
  PROVE  IsFiniteSet(subs[m]) /\ Cardinality(subs[m]) \in Nat
BY FS_Subset, FS_CardinalityType DEF ConsumerTypeOK

(* An element adds at most one to the size of a set. *)
LEMMA OneMoreElement ==
  ASSUME NEW S, IsFiniteSet(S), NEW x
  PROVE  IsFiniteSet(S \cup {x}) /\ Cardinality(S \cup {x}) <= Cardinality(S) + 1
<1>1. Cardinality(S) \in Nat
  BY FS_CardinalityType
<1>2. /\ IsFiniteSet(S \cup {x})
      /\ Cardinality(S \cup {x}) = IF x \in S THEN Cardinality(S) ELSE Cardinality(S) + 1
  BY FS_AddElement
<1>. QED
  BY <1>1, <1>2

(* One more investigation adds at most one. *)
LEMMA OneMore ==
  ASSUME ConsumerTypeOK, NEW m \in Offsets, NEW i \in Ids,
         subs' = [subs EXCEPT ![pos] = @ \cup {i}]
  PROVE  /\ m # pos => subs'[m] = subs[m]
         /\ Cardinality(subs'[m]) <= Cardinality(subs[m]) + 1
         /\ Cardinality(subs'[m]) \in Nat
<1>1. IsFiniteSet(subs[m]) /\ Cardinality(subs[m]) \in Nat
  BY SubsFinite
<1>2. CASE m = pos
  <2>1. subs'[m] = subs[m] \cup {i}
    BY <1>2 DEF ConsumerTypeOK
  <2>2. /\ Cardinality(subs[m] \cup {i}) <= Cardinality(subs[m]) + 1
        /\ Cardinality(subs[m] \cup {i}) \in Nat
    BY <1>1, OneMoreElement, FS_CardinalityType
  <2>. QED
    BY <1>2, <2>1, <2>2
<1>3. CASE m # pos
  <2>1. subs'[m] = subs[m]
    BY <1>3 DEF ConsumerTypeOK
  <2>. QED
    BY <1>1, <2>1
<1>. QED
  BY <1>2, <1>3

(* A step that gives a message one more investigation pays for it with a
   commit to come, a crash or a retry. *)
LEMMA CostStep ==
  ASSUME CostInv, [Next]_vars
  PROVE  FewEach'
<1>. USE DEF CostInv, ConsumerInv, ConsumerTypeOK, DispatchTypeOK
<1>0. Excess \in Nat /\ \A m \in Offsets : m \in Nat /\ Cardinality(subs[m]) \in Nat
  BY SubsFinite DEF Excess, Offsets
<1>1. CASE Poll \/ SendToDlq \/ Commit \/ Restart
  BY <1>0, <1>1 DEF Poll, SendToDlq, Commit, Restart, FewEach, Excess, dispatchVars, InHand
<1>2. ASSUME NEW i \in Ids, SubmitMessage(i) \/ Started(i) PROVE FewEach'
  <2>1. /\ UNCHANGED <<pos, committed, retries, crashes, mode>> /\ at' = "commit"
        /\ subs' = [subs EXCEPT ![pos] = @ \cup {i}]
        /\ at \in {"submit", "start"}
    BY <1>2 DEF SubmitMessage, Started, SubmitAccepted, WorkflowStarts
  <2>2. ASSUME NEW m \in Offsets
        PROVE  Cardinality(subs'[m]) <= Excess + (IF m <= committed \/ m = pos THEN 1 ELSE 0)
    <3>1. CASE m = pos
      <4>1. Cardinality(subs[m]) <= Excess
        BY <2>1, <3>1, <1>0 DEF FewEach, InHand
      <4>2. Cardinality(subs'[m]) <= Cardinality(subs[m]) + 1 /\ Cardinality(subs'[m]) \in Nat
        BY <2>1, OneMore
      <4>. QED
        BY <4>1, <4>2, <3>1, <1>0
    <3>2. CASE m # pos
      BY <2>1, <3>2, OneMore DEF FewEach
    <3>. QED
      BY <3>1, <3>2
  <2>. QED
    BY <2>1, <2>2 DEF FewEach, Excess
<1>3. ASSUME NEW i \in Ids, AwaitStart(i) PROVE FewEach'
  BY <1>0, <1>3 DEF AwaitStart, SubmitTemporal, FewEach, Excess
<1>4. ASSUME NEW i \in Ids, RetryMessage(i) PROVE FewEach'
  <2>1. /\ UNCHANGED <<pos, committed, crashes, mode>> /\ at' = "submit"
        /\ at \in {"submit", "start"} /\ retries' = retries + 1
    BY <1>4 DEF RetryMessage, SubmitRefused, SubmitRaises, StartRaises
  <2>2. CASE UNCHANGED subs
    BY <1>0, <2>1, <2>2 DEF FewEach, Excess
  <2>3. CASE subs' # subs
    <3>1. mode = "temporal" /\ subs' = [subs EXCEPT ![pos] = @ \cup {i}]
      BY <1>4, <2>3
      DEF RetryMessage, SubmitRefused, SubmitRaises, Fresh, Drawn, StartRaises, FewEach
    <3>2. Excess' = Excess + 1
      BY <2>1, <3>1 DEF Excess
    <3>3. ASSUME NEW m \in Offsets
          PROVE  Cardinality(subs'[m]) <= Excess' + (IF m <= committed THEN 1 ELSE 0)
      <4>1. Cardinality(subs[m]) <= Excess + (IF m <= committed THEN 1 ELSE 0)
        BY <2>1 DEF FewEach
      <4>2. Cardinality(subs'[m]) <= Cardinality(subs[m]) + 1
        BY <3>1, OneMore
      <4>3. Cardinality(subs'[m]) \in Nat
        BY <3>1, OneMore
      <4>. QED
        BY <4>1, <4>2, <4>3, <3>2, <1>0
    <3>. QED
      BY <2>1, <3>3 DEF FewEach
  <2>. QED
    BY <2>2, <2>3
<1>5. ASSUME NEW i \in Ids, RunTasks(i) PROVE FewEach'
  BY <1>0, <1>5
  DEF RunTasks, consumerVars, Supervise, EnterSemaphore, RunCompletes, RunFails, RunUnrecorded,
      Leave, FewEach, Excess
<1>6. CASE ParseEscapes \/ Crash
  BY <1>0, <1>6 DEF ParseEscapes, Crash, Dies, ProcessDies, FewEach, Excess, InHand
<1>7. CASE UNCHANGED vars
  BY <1>0, <1>7 DEF vars, dispatchVars, consumerVars, FewEach, Excess
<1>. QED
  BY <1>1, <1>2, <1>3, <1>4, <1>5, <1>6, <1>7 DEF Next, Loop, Submitting

(* A crash costs each message at most one more investigation, for any partition
   and any number of crashes; retries add none inline, and with Temporal one
   each (run_consumer retries submit under a fresh id). *)
THEOREM OneExtraPerCrashHolds == Spec => []OneExtraPerCrash
<1>1. Init => FewEach
  BY FS_EmptySet DEF Init, ConsumerInit, DispatchInit, FewEach, Excess, Offsets
<1>2. DispatchTypeOK /\ ConsumerInv /\ FewEach => OneExtraPerCrash
  <2>. SUFFICES ASSUME DispatchTypeOK, ConsumerInv, FewEach, NEW m \in Offsets
                PROVE  Cardinality(subs[m]) <= 1 + Excess
    BY DEF OneExtraPerCrash, Excess, DispatchTypeOK, ConsumerInv, ConsumerTypeOK
  <2>1. Excess \in Nat /\ Cardinality(subs[m]) \in Nat
    BY SubsFinite DEF Excess, DispatchTypeOK, ConsumerInv, ConsumerTypeOK
  <2>. QED
    BY <2>1 DEF FewEach
<1>3. Spec => []ConsumerInv
  BY ConsumerStarts, ConsumerStep, PTL DEF Spec
<1>4. DispatchTypeOK /\ ConsumerInv /\ FewEach /\ [Next]_vars => FewEach'
  BY CostStep DEF CostInv
<1>. QED
  BY <1>1, <1>2, <1>3, <1>4, DispatcherTyped, PTL DEF Spec
=============================================================================
