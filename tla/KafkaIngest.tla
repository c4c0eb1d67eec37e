----------------------------- MODULE KafkaIngest ----------------------------
(***************************************************************************)
(* Streaming ingestion (ingestion/kafka_consumer.py): one consumer process *)
(* reads one partition in order and submits to the dispatcher of the same  *)
(* process (Dispatch), which runs the investigations or has Temporal do it.*)
(*                                                                         *)
(* run_consumer is one coroutine; between its awaits (the poll, the DLQ    *)
(* send, the start of a workflow, the commit, the pause before a retry)    *)
(* the supervised tasks run.                                               *)
(***************************************************************************)
EXTENDS Dispatch

CONSTANTS Messages,   \* how many messages the partition holds
          Poison,     \* the offsets that parse_message rejects as poison
          Fatal,      \* the offsets whose parsing raises anything else
          MaxRetries, \* bound: submissions that fail and are retried
          MaxCrashes  \* bound: how often the consumer dies for another reason

ASSUME KafkaAssumption ==
  /\ Messages \in Nat
  /\ Poison \subseteq 1..Messages
  /\ Fatal \subseteq (1..Messages) \ Poison
  /\ MaxRetries \in Nat /\ MaxCrashes \in Nat
  /\ (Fatal # {} \/ MaxCrashes > 0) => MayDie

VARIABLES pos,        \* offset of the message in hand, or of the last one
          at,         \* where run_consumer stands
          committed,  \* the group's committed offset
          dlq,        \* offsets whose message was sent to the DLQ topic
          subs,       \* subs[m]: the investigations that message m was given
          retries,    \* how many submissions have failed
          crashes     \* how many crashes there have been

consumerVars == <<pos, at, committed, dlq, subs, retries, crashes>>
vars == <<dispatchVars, consumerVars>>

Offsets == 1..Messages

TypeOK ==
  /\ DispatchTypeOK
  /\ pos \in 0..Messages /\ committed \in 0..Messages
  /\ at \in {"down", "poll", "dlq", "submit", "start", "commit"}
  /\ dlq \subseteq Offsets
  /\ subs \in [Offsets -> SUBSET Ids]
  /\ retries \in 0..MaxRetries /\ crashes \in 0..MaxCrashes

ConsumerInit ==
  /\ pos = 0 /\ committed = 0
  /\ at = "poll"
  /\ dlq = {}
  /\ subs = [m \in Offsets |-> {}]
  /\ retries = 0 /\ crashes = 0

Init == DispatchInit /\ ConsumerInit

-----------------------------------------------------------------------------
(* async for msg in consumer, and parse_message on what it returns. *)
Poll ==
  /\ at = "poll" /\ pos < Messages
  /\ pos + 1 \notin Fatal
  /\ pos' = pos + 1
  /\ at' = IF pos + 1 \in Poison THEN "dlq" ELSE "submit"
  /\ UNCHANGED <<dispatchVars, committed, dlq, subs, retries, crashes>>

(* The process ends, with its tasks; what was not committed is redelivered. *)
Dies ==
  /\ ProcessDies
  /\ pos' = committed
  /\ at' = "down"
  /\ UNCHANGED <<committed, dlq, subs, retries>>

(* parse_message catches two of the exceptions of json.loads: a null value, a
   number too long or a nesting too deep ends run_consumer before any commit. *)
ParseEscapes ==
  /\ at = "poll" /\ pos < Messages
  /\ pos + 1 \in Fatal
  /\ Dies
  /\ UNCHANGED crashes

SendToDlq_NotCommitted ==
  /\ at = "dlq"
  /\ dlq' = dlq \cup {pos}
  /\ UNCHANGED <<dispatchVars, pos, at, committed, subs, retries, crashes>>
SendToDlq ==
  /\ at = "dlq"
  /\ dlq' = dlq \cup {pos}
  /\ at' = "commit"
  /\ UNCHANGED <<dispatchVars, pos, committed, subs, retries, crashes>>

SubmitMessage_GivesUp(i) ==
  /\ at = "submit" /\ retries < MaxRetries
  /\ \/ /\ SubmitAccepted(i)
        /\ subs' = [subs EXCEPT ![pos] = @ \cup {i}]
        /\ UNCHANGED retries
     \/ /\ SubmitRefused(i) \/ SubmitRaises(i)
        /\ retries' = retries + 1
        /\ UNCHANGED subs
  /\ at' = "commit"
  /\ UNCHANGED <<pos, committed, dlq, crashes>>
SubmitMessage_Twice(i) ==
  /\ at = "submit"
  /\ SubmitAccepted(i)
  /\ subs' = [subs EXCEPT ![pos] = @ \cup {i}]
  /\ at' \in {"submit", "commit"}
  /\ UNCHANGED <<pos, committed, dlq, retries, crashes>>
SubmitMessage(i) ==
  /\ at = "submit"
  /\ SubmitAccepted(i)
  /\ subs' = [subs EXCEPT ![pos] = @ \cup {i}]
  /\ at' = "commit"
  /\ UNCHANGED <<pos, committed, dlq, retries, crashes>>

(* With Temporal, submit awaits the start of the workflow. *)
AwaitStart(i) ==
  /\ at = "submit"
  /\ SubmitTemporal(i)
  /\ at' = "start"
  /\ UNCHANGED <<pos, committed, dlq, subs, retries, crashes>>

Started(i) ==
  /\ at = "start"
  /\ WorkflowStarts(i)
  /\ subs' = [subs EXCEPT ![pos] = @ \cup {i}]
  /\ at' = "commit"
  /\ UNCHANGED <<pos, committed, dlq, retries, crashes>>

(* Backpressure: any exception of submit is retried after a second, under a
   fresh investigation id, for as long as it takes: that the failures end is
   the bound MaxRetries, no rule of the loop.  A start that raised in doubt has
   started a workflow. *)
RetryMessage(i) ==
  /\ retries < MaxRetries
  /\ \/ at = "submit" /\ (SubmitRefused(i) \/ SubmitRaises(i))
     \/ at = "start" /\ StartRaises(i)
  /\ retries' = retries + 1
  /\ at' = "submit"
  /\ subs' = IF run'[i] = "workflow" THEN [subs EXCEPT ![pos] = @ \cup {i}] ELSE subs
  /\ UNCHANGED <<pos, committed, dlq, crashes>>

Commit ==
  /\ at = "commit"
  /\ committed' = pos
  /\ at' = "poll"
  /\ UNCHANGED <<dispatchVars, pos, dlq, subs, retries, crashes>>

(* A crash, or the DLQ send or the commit raised. *)
Crash ==
  /\ at # "down"
  /\ crashes < MaxCrashes
  /\ crashes' = crashes + 1
  /\ Dies

(* The process is started again, and resumes from the committed offset. *)
Restart ==
  /\ at = "down"
  /\ at' = "poll"
  /\ UNCHANGED <<dispatchVars, pos, committed, dlq, subs, retries, crashes>>

Submitting(i) == SubmitMessage(i) \/ AwaitStart(i) \/ Started(i)

Loop == Poll \/ SendToDlq \/ Commit \/ ParseEscapes \/ Restart

(* What workflows do, they do elsewhere. *)
RunTasks(i) == Supervise(i) /\ UNCHANGED consumerVars

Next ==
  \/ Loop \/ Crash
  \/ \E i \in Ids : Submitting(i) \/ RetryMessage(i) \/ RunTasks(i)

Spec == Init /\ [][Next]_vars

(* The broker and Temporal answer, the loop retries for ever, investigations
   end, and a consumer that died is started again. *)
FairSpec ==
  /\ Spec
  /\ WF_vars(Loop)
  /\ WF_vars(\E i \in Ids : Submitting(i))
  /\ \A i \in Ids : WF_vars(RunTasks(i))

-----------------------------------------------------------------------------
(* Types, and at-least-once: an offset is committed only past messages that were sent to
   the DLQ or accepted as an investigation (run_consumer: the commit follows
   the dispatch). *)
AtLeastOnce ==
  /\ TypeOK
  /\ \A m \in 1..committed : IF m \in Poison THEN m \in dlq ELSE subs[m] # {}

(* A redelivery costs one extra investigation per crash ("the cost of a rare
   duplicate is one extra investigation"); whatever was retried adds none, save
   that a start of a workflow that raised may have started it. *)
OneExtraPerCrash ==
  \A m \in Offsets :
    Cardinality(subs[m]) <= 1 + crashes + (IF mode = "temporal" THEN retries ELSE 0)

(* Every message up to the first that parse_message lets escape is committed in
   the end, whether it is malformed or refused for lack of capacity. *)
Sound == {m \in Offsets : \A f \in Fatal : m < f}

PartitionAdvances == \A m \in Sound : <>(committed >= m)
=============================================================================
