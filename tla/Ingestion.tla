----------------------------- MODULE Ingestion ------------------------------
(***************************************************************************)
(* The two kinds of process that own a dispatcher: an API process          *)
(* (api/v1/routes/alerts.py), which serves submissions and synchronous     *)
(* requests together, and the consumer process of KafkaIngest              *)
(* (kafka_consumer.py main), which submits one message at a time.          *)
(***************************************************************************)
EXTENDS KafkaIngest

CONSTANT Requests  \* bound: the ids that an API process may draw

ASSUME IngestionAssumption == Requests \subseteq Ids

VARIABLE process  \* what this process was started as

ingestionVars == <<vars, process>>

IngestionTypeOK == TypeOK /\ process \in {"api", "consumer"}

IngestionInit == Init /\ process \in {"api", "consumer"}

Serves ==
  /\ process = "api"
  /\ DispatchNext
  /\ \A i \in Ids \ Requests : run'[i] = run[i]
  /\ UNCHANGED consumerVars

Consumes == process = "consumer" /\ Next

IngestionNext == (Serves \/ Consumes) /\ UNCHANGED process

(* The event loop runs every task that is ready in either process; the
   consumer's loop goes on as in KafkaIngest. *)
IngestionSpec ==
  /\ IngestionInit /\ [][IngestionNext]_ingestionVars
  /\ \A i \in Ids : WF_ingestionVars(Supervise(i) /\ UNCHANGED <<consumerVars, process>>)
  /\ WF_ingestionVars(process = "consumer" /\ Loop /\ UNCHANGED process)
  /\ WF_ingestionVars(/\ process = "consumer" /\ UNCHANGED process
                      /\ \E i \in Ids : Submitting(i))

-----------------------------------------------------------------------------
(* A consumer gets past every message before one that parse_message lets
   escape, malformed or refused for lack of capacity as it may be (run_consumer;
   PartitionAdvances of KafkaIngest, in the process that consumes). *)
ConsumerAdvances == process = "consumer" => PartitionAdvances

(* What the docstring of kafka_consumer.py promises of every message: "one
   malformed event can never wedge the partition". *)
NeverWedged == process = "consumer" => \A m \in Offsets : <>(committed >= m)
=============================================================================
