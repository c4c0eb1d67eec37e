# TLA+ models of the investigation platform

This directory specifies and verifies the platform: how an alert becomes an
investigation, how the investigator collects evidence and what it concludes
from it, how the containment actions it proposes are approved, and what the
investigations of a tenant leave to each other. The modules are
translated from the Python source under `src/backend/app/`; paths below are
relative to that directory unless they start with `src/`.

TLC checks each model on small instances, and TLAPS proves the theorems of the
modules named `...Proofs` for every value of the constants.

## The system

An alert arrives over HTTP (`api/v1/routes/alerts.py`) or from Kafka
(`ingestion/kafka_consumer.py`). The dispatcher (`orchestrator/dispatch.py`)
stores a QUEUED placeholder, refuses the alert when it is at capacity, and
otherwise runs the investigation as a task of the event loop (or starts a
Temporal workflow). The investigator (`agents/loop.py`) asks a deterministic
planner (`agents/planner.py`) what to do next, runs the proposed tools
(`agents/tools.py`) concurrently, and each tool folds what it learnt into the
shared `InvestigationState` (`agents/state.py`). The default strategy is a
batch loop; the other one is a task graph with retries and reflection
(`agents/planning/`, `agents/reflection.py`). Finalization turns the state into
a package, raises approval requests (`engines/approvals/service.py`), opens a
ticket and remembers the case; the package is saved in the repository
(`repository.py`). What the package says is computed by engines that know nothing
of each other (risk, consensus, fingerprint, attribution, response, prediction),
and its texts come from a language model behind a router
(`engines/copilot/router.py`) or from templates. Analysts read packages, campaigns,
summaries and dossiers, write detection rules, and sign in with accounts of the
platform or of Google (`core/accounts.py`).

| Component | State it keeps | Operations | What makes it correct |
|---|---|---|---|
| Approval service | rows of requests; one lock per process | create, get, list, decide, mark executed, expiry on read | four eyes, one decision, in time, what is settled stands |
| Dispatcher, repository | in-flight count, semaphore, tasks; stored packages | submit, supervised run, save, get | counts never leak, what is accepted is recorded |
| Kafka consumer | position and committed offset | poll, dead-letter, submit with retry, commit | at-least-once, the partition advances |
| Investigation state | indicators pending, enriched, hunted; attachments; phase flags | fold the result of each tool | indicators are never lost, verdict before hunt |
| Batch loop | round and tool-call counters | plan, run a batch, stop | it ends, within budget, and convergence means coverage |
| Task graph, scheduler | tasks with status, attempts and dependencies; wave | expand, wave, retry, reflect | no duplicate work, dependencies first, nothing left behind |
| Temporal workflow | checkpointed state in the workflow history | tool, finalize and persist activities with retries | side effects once, the package saved |
| Model router | per provider: failure count, opening time | generate, record success or failure | a dead provider is left alone, recovery is noticed, a generation ends |
| Connectors, aggregator, dossier | ThreatFox cache | look up, fuse, build a dossier | a verdict does not become milder by another opinion |
| Detection engine, rule store | a tenant's rules | upsert, delete, evaluate | quota; built-in rules stay |
| Consensus, risk, response | none | pure functions of the evidence | they agree with one another; evidence only adds |
| Fingerprint store, campaigns, summary | bounded rows per tenant | store, match, cluster, summarize | campaigns are connected components, neighbours are matched |
| Knowledge graph | triples | upsert, neighbours, campaign, path | relations are found from both ends, paths are shortest, the queries agree |
| Accounts, key cache | users, sessions, signing keys | register, sign in, refresh | one account per email, sessions of stored accounts, no withdrawn key |
| Case memory, evidence, vectors | collections per tenant | remember, recall, put | tenants are apart |

What is hard in this code: replicas whose read and write are two transactions
(approvals, rules, fingerprints, accounts); callers that share circuits and caches and
are answered in any order; tools that run concurrently over one mutable state
and read it before an await; failures in the middle of a sequence of saves;
crashes between dispatch and commit; retries that run beside work planned
later; budgets that trip in the middle of a batch; and judgements of one case that are
made apart, each with thresholds of its own. `PROJECT.json` lists
each such place under `hazards`.

## Modules

| Module | Models | State and actions |
|---|---|---|
| `ApprovalProtocol` | the promise of the approval workflow | the life of a request: asked, settled, carried out, lapsed |
| `Approvals` | `ApprovalService` over either store | `serving` are the processes of a deployment and `store` the table; `op[r]` the operation that holds replica r's lock, with the copy it read; `Start*` are the reads, `AddOne`, `ReadOne`, `Decide*`, `ExecuteSaves` the saves, `Refuse` the 409s, `Crash` a dying process, `TtlElapses` the clock |
| `ApprovalsProofs` | theorems about `Approvals` | |
| `Dispatch` | `InvestigationDispatcher` in both modes, both repositories, the synchronous path | `repo`, `inflight`, `permits`; `Submit*` one action per outcome, `EnterSemaphore`, `RunCompletes/RunFails/RunUnrecorded`, `WorkflowStarts/StartRaises/WorkflowEnds` for Temporal, `Sync*`, `ProcessDies` |
| `KafkaIngest` | `run_consumer`, extends `Dispatch` | `pos`, `committed`, `at` (where the coroutine stands); `Poll`, `ParseEscapes`, `SendToDlq`, `SubmitMessage`, `AwaitStart`, `Started`, `RetryMessage`, `Commit`, `Crash`, `Restart` |
| `Ingestion` | the two kinds of process that own a dispatcher, extends `KafkaIngest` | `process` is one of them: `Serves` for the API, `Consumes` for the consumer |
| `KafkaIngestProofs` | theorems about `Dispatch` and `KafkaIngest` | |
| `Investigation` | `InvestigationState`, `Planner.next_actions`, what each tool folds | operators on a case |
| `InvestigationProofs` | lemmas about the planner and the folds | |
| `RunTool` | tools running at the same time | `flight` are the running tools, each with what it read before its await; `FetchMessage`, `ToolReturns`, `ToolRaises` |
| `BatchLoop` | `_collect_batch`, extends `RunTool` | `iteration`, `tool_calls`; `StartBatch`, `Tool`, `Converge`, and the three budgets |
| `BatchLoopProofs` | theorems about `RunTool` and `BatchLoop` | |
| `TaskScheduler` | `PriorityScheduler`, `PlanningEngine`, `TaskGraph`, `ReflectionEngine.suggest`, extends `RunTool` | `tasks` is the graph; `StartWave`, `Tool`, `EndWave`, `Drained`, `Reflect`, `Stabilized`, and the three budgets |
| `TaskSchedulerProofs` | theorems about `TaskScheduler` | |
| `Finalization` | `AutonomousInvestigator.finalize`, `create_for_package`, `CaseMemory` | `world` is what the stores were told, `at[n]` and `pkg[n]` where attempt n stands and what its package says; one action per store it touches, `AttemptDies` |
| `DurableWorkflow` | `InvestigationWorkflow` and its activities, extends `Investigation` and `Finalization` | `st` is the checkpointed case, `attempt` and `phase` the current activity; `Plan`, `ToolReported/ToolLost`, `FinalizeReported/FinalizeLost`, `PersistReported/PersistLost`, and the ends of collection |
| `DurableWorkflowProofs` | theorems about `Finalization` and `DurableWorkflow` | |
| `ModelRouter` | `ModelRouter`, `_Circuit`, the providers, `Copilot._generate` | `at[c]` is the provider that works on caller c's prompt, `circuits` the counters and the age of each opening; `Generate`, `Answers`, `Fails`, `Escapes`, `Tick` |
| `KeyCache` | `_JwksCache` | `cache[r]` is a replica's copy of the key set with its age, `retired` what the issuer does with its keys; `Lookup` is a whole `get` |
| `Accounts` | `UserStore`, `PostgresUserStore` and the sign-in routes, extends `KeyCache` | `users` is the table, `op[r]` the account a request is creating; `Register`, `Insert`, `AnswerCreated`, `Login`, `GoogleSignIn`, `ReplicaDies` |
| `SharedServices` | `Accounts` and `ModelRouter` in one deployment, extends both | `load` is what it is asked for: `SignsIn` or `Writes` |
| `SharedServicesProofs` | theorems about `Accounts`, `KeyCache` and `ModelRouter` | |
| `ThreatIntel` | what ten connectors make of their service's numbers, `build_aggregator`, `fuse_verdicts` | operators |
| `Detections` | built-in rules, the rule engine, the ATT&CK mapper | operators on the phrases of an alert |
| `Scoring` | `RiskScorer`, `ConsensusEngine`, extends `ThreatIntel` | operators |
| `Fingerprint` | incident DNA, similarity, matching, attribution, extends `ThreatIntel` | operators |
| `Response` | prediction, root cause, business impact, response plan, playbook, what templates claim, extends `Fingerprint` | operators |
| `DetectionExport` | the nine export formats, extends `Fingerprint` | operators |
| `Assessment` | the evidence of one case and what `finalize` concludes, extends the five above | one action per tool that folds a result; `Finalize` computes the package |
| `Campaigns` | `_UnionFind`, `CampaignEngine`, `ExecutiveEngine`, extends `Response` | operators on a list of packages |
| `Dossier` | the conclusions of `DossierEngine`, extends `Response`, `Detections` | operators |
| `RuleStore` | both rule stores and their routes | `rules`, and `upserts`, the open transactions; `UpsertInMemory`, `BeginUpsert`, `CommitUpsert`, `DeleteRule` |
| `KnowledgeGraph` | `InMemoryGraph`: the triples and the queries `neighbors`, `campaign`, `path` | operators; `Within` widens a frontier, `Search` keeps the code's queue |
| `IncidentStores` | finalizations, dossiers and rule writes of one tenant, extends `Campaigns`, `Dossier`, `RuleStore`, `KnowledgeGraph` | `rows` are the fingerprints, `saved` the packages, `foxCache`, `graph` the triples; an action for each await or transaction of an attempt or a request |
| `CaseProofs` | theorems about `Assessment`, `IncidentStores`, `RuleStore`, and lemmas about their engines: the fusion, the votes, the graph search, the union-find | |
| `MC*` | the values of the constants for TLC | |

Conventions. What happens between two awaits of a coroutine is one action, since
all of them share one event loop. A lock is the fact that only one operation per
replica is under way. An indicator is a model value; a tool finds any set of
them, a feed gives any verdict, a connector answers or raises. A definition whose
name has a suffix after an underscore (`MayDecide_Settled`) is a defect that somebody could
introduce; it is used nowhere, and serves to show that a property notices it.

### Approvals

An operation of `ApprovalService` reads its row (or all rows) in one transaction
and saves in another, and a save replaces the whole row by the changed copy.
The model keeps the two apart. A deployment is one process or several over one table
(`serving`), and with several the copies of one request race. What such a race can do is
bounded: four eyes hold whichever copy is written last (`FourEyes`); each process tells of one decision
at the most, and nobody is told of an execution unless somebody was told of an approval
(`OneDecisionEach`; that approval may have been overwritten by the rejection another replica told of);
and a row that is settled never becomes pending again, and yields only to its execution or to a
process that had read it before (`SettledRowsStand`). What it cannot do is keep every answer, as the
run `approvals_replicas` shows. Where a single process serves, the lock makes an operation
indivisible to others, and the service implements `ApprovalProtocol`, which is also the
memory store; crashes between the read and the save remain.

The clock is an action; an operation looks at it at some instant
between its read and its save, so a request that falls due in between may go
either way (`FoundLapsed`, `FoundLive`).

### Dispatch and Kafka

`submit` has no await in inline mode, so it is one action per outcome. `Save`
differs by repository: the memory one overwrites, the Postgres one inserts and so
refuses an id it holds. With Temporal submit awaits the start of the workflow after it has
saved the placeholder, and a start that raises may have started it. The consumer's coroutine and the supervised tasks
interleave at the consumer's awaits. A crash loses the tasks, the counters and
the memory repository, and the consumer resumes from the committed offset. The
model has one partition; partitions do not interact except through the capacity.

What `parse_message` makes of a message is one of three: an alert, a poison message that goes to the
DLQ (`Poison`: undecodable bytes, broken JSON, or JSON that is no alert), or an exception that it does not
catch (`Fatal`: a null value, a number too long, a nesting too deep), which ends the process before
the commit. The loop around a submission has no bound in the code; `MaxRetries`
stands for the fact that failures of the database, of Temporal or for want of capacity end some time.

`Ingestion` puts the two uses of a dispatcher beside each other, since they are two
programs: an API process submits any number of alerts at a time and serves the synchronous
path, a consumer process has one message in hand.

### Investigation

A tool is one action if it awaits once (the fold after the await), and two if it
awaits twice (`fetch_email_context`). `enrich_iocs` remembers the indicators that
were pending when it started. A connector raises before anything was folded; the
evidence store, when it is a remote one (`EvidenceMayRaise`; the store in the
repository is a dictionary, "swapped for S3 in production"), raises after it. The
wall-clock budget may run out at any planning step.

### Finalization and the durable workflow

An activity's attempt works on a copy of the case, so a lost attempt of a tool leaves
no trace and is not a step of its own; what a tool can make of the case is
`CasesAfter`. Finalization does leave traces, in stores, so its attempts are modelled step
by step. When five minutes are over Temporal starts the second attempt, while the
first may be anywhere and may still go on: both take steps in any order
(`Finalize(n)`), and only the result of the current one counts. `world` counts what
all stores were told; with the in-memory stores each worker has its own, so an
attempt may or may not find what another one stored (`Recall`). The placeholder
of `submit` is in the database, or in the memory of the API process, which a
worker does not see.

### Model router, accounts and keys

A caller yields only while a provider works on its prompt, so what it does between
two answers (record the outcome, ask the next circuit, begin the next call) is one
action. The clock is the age of each opening, up to the cooldown. `streak` and
`asked` are history. In `Accounts` a handler runs without an await; what comes between
its steps is a transaction of another replica, or its death. A lookup of a key
includes its fetch, since the handler waits for it.

### Evidence and conclusions

Scores, confidences and malice are integers in thousandths, and similarities in
ten-thousandths; the code's floats are exact here, and rounding is to the nearest. The text of
an alert is the set of telling phrases in it, and a matcher the set of those that it
hits. A connector gives any judgement that its formula yields for the sampled numbers
of its service, or raises. `BatchLoop` and `TaskScheduler` say in which order tools
may run; `Assessment` lets each run at any moment at which the planner or reflection could have asked
for it, and `finalize` find the evidence at any stage, because a budget may end the collection
anywhere. A hunt is for one of the sets that they hunt: the planner's for what is malicious or, if nothing
is, once for everything that was enriched, benign and unknown included; reflection's for what is suspicious,
or for one malicious indicator that no second source confirms. That an alert came as an email (the file
type or the message id `response/engine.py:101` asks for) is the constant `CameAsEmail`. Techniques are merged by their id,
the first record of an id wins. The generated YARA rule looks for its placeholder string, and
names the hashes in its meta section only. Campaigns are found with the code's own union-find, path halving included, over
the pairs in the code's order.

### What investigations leave to each other

`durable` chooses between the in-memory stores, where nothing comes between two
awaits, and Postgres, where each query and commit may interleave with those of
another replica. The tables are those of one tenant. A package is what the incident's
`Profile` says of it; only its matches depend on the order of things. Finalizations and
dossiers write one graph, the former when they begin to compare fingerprints, the latter
when they conclude; which of several shortest paths `path` gives depends on the order of
the writes and is left open. A comparison sorts its matches by similarity and cuts them at
`MatchesKept`; the sort is stable, so among equals the order of the rows decides (`Ahead`).
The memory store evicts its first row when it is full. The three queries of the graph
are compared for every depth that a caller may give.

## Runs

| Run | Question | Bounds |
|---|---|---|
| `approvals` | what do racing replicas keep of the workflow, does one process implement it, with a crash, and do polled requests expire? | 1 process and 2 requests, or 2 and 1; 3 users of which one is the agent that asks, 1 crash |
| `approvals_replicas` | is no answer lost between replicas? (no) | 2 processes, 1 request |
| `ingestion` | do the counts survive every error path, can an accepted investigation be polled, are outcomes final; at-least-once, the price of a crash, and progress | either repository with outages, either dispatch mode, room for 2; an API process with 3 investigations, or a consumer with 5 messages, the second for the DLQ and the last one escaping the parser, 8 ids, 2 crashes, 2 retries |
| `ingestion_unrecorded` | does Postgres record the outcome of an accepted investigation? (no) | 2 investigations, room for 1 |
| `ingestion_wedged` | does the consumer get past every message? (no) | 2 messages, the second escaping the parser, no failures |
| `batch` | is the case consistent, convergence coverage, and does it end within its budgets? | 2 indicators, 2 attachments, 8 rounds, 10 calls |
| `tasks` | is the task graph sound, what is left when it has drained, and does it end within its budgets? | 2 indicators, 1 attachment, 8 waves, 9 calls, 2 reflection rounds |
| `durable` | what do lost, late and abandoned attempts of activities cost? | 1 indicator, 1 attachment, 6 rounds, 7 calls, 1 request, either repository; 3 attempts of a tool, 2 of finalize, 3 of the save |
| `shared` | one account per email, sessions of stored accounts, no withdrawn key; what does a dead provider cost concurrent callers, and is its recovery noticed? | 2 replicas, 2 emails, 2 subjects, 2 keys, time to live 2; or 3 callers, 2 usable providers of 4 names, threshold 2, cooldown 2 |
| `assessment` | do risk, verdict, attribution and plan agree, whatever was collected when? | 5 alert texts, 1 address with three feeds, 1 dropped hash, 2 hosts, 40 recipients, 2 scores and 2 reports of the sandbox |
| `assessment_export` | are exported rules about the confirmed indicators? (no) | the same with 1 URL, VirusTotal and 1 recipient |
| `stores` | campaigns, matches, dossiers, graph and quota under interleaving, in memory and over Postgres | 4 incidents in a chain of similarity, one finalized twice, room for 3 fingerprints of which 2 are compared and 1 is shown; 2 dossiers, beside one finalization; 2 replicas, 2 rules, quota 1 |

Why the bounds are enough: a request interacts with nothing but its own row, so
two requests show the row-by-row saves of one process and one shows every race; a race needs two
copies, hence two replicas. Capacity needs one investigation more than there is
room for. The consumer handles one message at a time, so five messages give a malformed one between
good ones, two good ones in a row whose investigations fill the capacity while a third is submitted, and the
one that ends the consumer behind them. Two
indicators give every partition into those snapshotted by an enrichment and those
found while it works, and two attachments give detonations that finish in either
order. `MaxToolCalls` is 32 in the code, more than two indicators can use up; the runs
take 10 and 9, so that the rounds, the calls, the clock and convergence each end some
behaviour. The retries of a tool and of finalize are the
code's (3 and 2); the save has 3 of the code's 5, and its attempts differ in nothing but
their number. One request shows whether the approvals were raised not at all, once or
twice. Eight ids cover three good messages, a redelivery for each crash and a fresh id for each
retry, so that the consumer never lacks one. `MaxCrashes` and `MaxRetries` bound counters that
the code does not bound; the rounds and waves are the code's own.

Three callers are one more than the
threshold of the router, so that a circuit can open while others are still under way and
be hit by a late answer; the code has 3 and 60 seconds for the threshold and cooldown,
of which only the order of events is left in the model. Two replicas race over one email while a
second one lets the loser try again; a time to live of 2 lets a key be withdrawn, age and
lapse. In `assessment` the sampled numbers lie on both sides of the connectors' tiers; three feeds can
contradict one another, a dropped hash comes late, and the recipients of the mail and one
of the alerts can make a case that the vote dismisses and the risk score calls high. In `stores` the incidents a-b-c form a
chain whose ends are not similar, which is where a union-find can go wrong, and a benign one resembles two of
them; the retried attempt meets the row of the first, or finds it evicted by the fourth incident; the third fingerprint
is one more than a comparison reads, and of two matches an incident shows the better, or the one
the sort leaves first.
The alerts at the two ends share a harmless domain, which closes a ring in the graph,
so that a search that does not go breadth first finds the longer way round; it is small enough
that the code's depth of six cuts nothing off, and the depths below six are searched too.
`Restricted` cuts the instance: rules are written while the rest is at rest, at most one
finalization runs beside the dossiers (their triples meet in the graph, their fingerprints in the
store), and over Postgres, where an attempt takes four steps, the benign
incident and the dossiers are left out. It only cuts off states, and no property of the
run says that something happens eventually.

Runs that stop by design (the ids, messages or budgets are used up) say
`CHECK_DEADLOCK FALSE`; `approvals` and `shared` check deadlock.

### What the violated runs show

- `approvals_replicas`: two replicas read one request while it is pending, one tells its caller
  "approved", the other "rejected", and the later save is what the store says. The comment at
  `engines/approvals/service.py:136-139` says last-writer-wins is prevented, because a row that is
  no longer pending can never change; the status is checked in another transaction than the one
  that writes (`:129`).
- `ingestion_unrecorded`: the Postgres repository inserts, so an investigation
  that was queued is never updated.
- `ingestion_wedged`: `parse_message` catches two of the exceptions of `json.loads`
  (`ingestion/kafka_consumer.py:47-50`); any other one ends the consumer before it commits, and the next one
  reads the same offset first. The docstring says one malformed event can never wedge the partition.
- `assessment_export`: `_extract` counts URLs as indicators worth a rule, but no query
  format has a clause for them. A case whose only malicious indicator is a URL is
  exported as five queries that match every event.

### Seen while modelling, without a run

Approvals, dispatch, Kafka:

- The placeholder is stored before the capacity is checked (`orchestrator/dispatch.py:50`), so
  a refused alert (429) leaves a QUEUED investigation that no task will run.
- The consumer repeats a submission whose start of a workflow raised in doubt under a fresh
  id (`ingestion/kafka_consumer.py:107`), so one alert may be investigated twice without a crash.
- The offset is committed when the in-process task is created
  (`ingestion/kafka_consumer.py:112`); a crash afterwards loses the alert, which the
  docstring (8-11) rules out.
- `fetch_email_context` marks the message as checked before its second await
  (`agents/tools.py:173`); if that call fails, the recipients are never asked for again and the text of
  the message is not extracted again. No property of collection sees it: `ConvergedIsCovered`
  speaks of the indicators and attachments that the case has.

Collection:

- The planner repeats a failed phase-1 tool, or a failed detonation, until the rounds are used
  up (`agents/planner.py:50`), so one dead connector starves the later phases, against
  `agents/loop.py:14-16`.
- `expand` links a fresh task to the wave before (`agents/planning/engine.py:31`), not to all
  tasks that are not terminal (24-25); with an evidence store that raises after the
  fold, a hunt may run beside the retry of an enrichment.
- `_collect_taskgraph` writes one trace step per task, so the failed first attempt of
  a retried task has none (`agents/loop.py:170`).

Finalization:

- A repeated finalization may raise every request twice, open two tickets and
  remember the case twice; the package names only what its own attempt did. The
  comment at `temporal_workflow.py:159` accepts that; `DuplicatesAreBounded` is what
  remains of it. Requests and a ticket of an attempt that failed afterwards are named by no
  package, and nothing withdraws them (`agents/loop.py:353`). The second attempt may list the investigation among its own related ones.
- Over Postgres `persist_package_activity` inserts an id that the placeholder
  already has, so the workflow fails after all its effects are out.
- The response is planned (`agents/loop.py:306`) before the business impact is known (327),
  so `ResponseEngine` never notifies Legal or Compliance (`engines/response/engine.py:86`); the
  prediction (296) likewise comes before the root cause (326).
- The template of the executive summary claims on-host activity and a detonation for every
  malicious case (`engines/copilot/client.py:57-88`), whether or not there was one.
- In the consensus another voter with weaker evidence dilutes the stronger ones, so that a
  detonation with a low score can lower the verdict; only sightings are sure not to.

Router, stores, dossiers:

- An answer with status 200 that is not JSON escapes the Ollama provider and the copilot
  (`engines/copilot/router.py:127-129`), so the generation raises and no circuit hears of it.
- A dead endpoint costs a cooldown's callers one timeout each, not one in all
  (`router.py:13-14`): `available` lets everybody through until the first probe has failed.
- The breaker of `engines/threat_intel/circuit.py` is built for each feed of the dossier and
  consulted by none.
- VirusTotal's verdict counts engines and its score is their share, so three engines of
  ninety are a malicious verdict with a score of 33, which the fusion then treats as benign.
- Over Postgres two finalizations that overlap do not see each other's fingerprints, and
  two attempts of one incident may insert two rows (`incident_dna` has no unique
  constraint), after which `one_or_none` raises for good.
- A dossier recalls the ten oldest incidents of the memory store and the ten newest of Postgres,
  and asks ThreatFox twice, so that the record and the verdict may disagree.
- A case that the consensus dismisses as benign may have a risk of high severity: what is
  merely suspicious counts in full for the risk (`engines/risk_scoring/scorer.py`) and half for the vote
  (`agents/consensus.py`). It never has one of critical severity, and `JudgementsAgree` says so.
- The package of neither of two linked incidents need name the other: a comparison reads the
  newest fingerprints only, an incident shows its five best matches (and of equals those the
  sort leaves first), the store evicts the oldest row and a retry puts it back behind the others. `NeighboursAreMatched` names these limits.
- The list of packages behind campaigns is cut at 2000: a campaign can fall into pieces, never
  grow (`ClustersAreComponents`).
- A Suricata export of a case with nothing but hashes is an empty rule set, and a
  Sigma rule without indicators matches every process creation.

### Fairness

`Approvals`: a replica that holds its lock goes on (weak, per replica), and the
list is asked for again and again (strong: `useApprovals.ts` polls every 15 seconds,
and the lock is free infinitely often). `Dispatch`: the event loop runs every ready task, and an
investigation ends because its budgets bound it (weak, per investigation); submissions
and crashes are not fair. `KafkaIngest`: the broker and Temporal answer, the retry loop
repeats, a consumer that died is started again, tasks run; `Ingestion` takes the fairness of both. `BatchLoop` and `TaskScheduler`: the coroutine goes on, and
some running tool answers or times out (all connectors have timeouts). `DurableWorkflow`:
Temporal goes on with the workflow (weak, on the workflow's own steps): each attempt is
answered or runs into its `start_to_close_timeout`; the attempts themselves owe
nothing. `ModelRouter`: every call to a provider has a timeout, so it is answered or fails
(weak, per caller), and time passes (weak); that anybody asks is not assumed. `Accounts`,
`Assessment` and `IncidentStores` state no liveness.

## Proofs

`ApprovalsProofs` proves, for any sets of requests, users and replicas, any deployment of
them and any number of crashes, under `ApprovalAssumption` only:

- `TypeCorrect`: `Spec => []TypeOK`.
- `FourEyesHolds`: `Spec => []FourEyes`. The property is not inductive, because
  a save writes an operation's copy: the invariant adds that every copy in the
  hands of an operation obeys four eyes too (`CopiesDecidedByAnother`).
- `SettledRowsAlwaysStand`: the invariant says that a copy is what its row was (`CopiesArePast`): if the
  copy is settled the row still is, so that whoever writes over a settled row either holds it as it is, and then
  carries it out, or has read it before it became what it is.
- `OneDecisionEachHolds`: a budget. The decisions told of a request and the processes that still hold it as
  pending are together no more than the processes that serve, once the row is settled
  (`Counted`, `Holders`); that executions follow approvals needs that every copy and every row that says
  "approved" has such an answer behind it (`Backed`).
- `ServiceImplementsProtocol`: `Spec => ImplementsProtocol`, by showing that the
  initial states map to initial states and that each action maps to one step
  of the protocol or to a stutter. Where one process serves, the copy equals the row until
  the save (`CopyCurrent`); where several do, the mapping shows an empty protocol, because
  none is claimed.

`KafkaIngestProofs` proves of the dispatcher, for any limit, any finite set of investigations,
either repository, either dispatch mode and any failures and crashes, under `DispatchAssumption`:

- `DispatchTypeCorrect`, `CountsHold`: neither is inductive without the other. That the
  count stays within the limit needs that it equals the number of live tasks, and
  that the permits do not become negative needs that those who hold one are among
  them. `CountsInv` is their conjunction; its step uses the cardinalities of the
  sets of tasks when one is created, enters or leaves (`TaskCreated`, `TaskEnters`,
  `TaskLeaves`).
- `AdmittedHold`: an admitted task finds a permit, from `CountsInv` alone.
- `PollableHolds`: who was answered 202 finds a record, over Postgres for good. The invariant
  adds that a placeholder is kept while the start of its workflow is awaited
  (`StartingIsStored`).
- `OutcomesFinalHold`: between crashes a stored outcome is never replaced, by the invariant that
  an outcome is stored only for a run that is over (`OutcomeIsOver`).

and of the consumer, for any partition, any malformed messages, caught or not, either dispatch mode
and repository, and any number of crashes and retries, under `KafkaAssumption` as well:

- `AtLeastOnceHolds`: no offset is committed past a message that was neither dispatched nor
  sent to the DLQ. The invariant adds that the message in hand is the one after the
  committed offset, and that it is handled by the time the consumer commits (`InHand`).
- `OneExtraPerCrashHolds`: the invariant bounds the investigations of a message that is not behind
  the commit by the crashes (and, with Temporal, the retries) alone (`FewEach`).

That the dispatcher's types hold in the composition follows from `DispatchTypeCorrect`,
because every step of the consumer is a step of the dispatcher or none (`ConsumerSteps`).

`SharedServicesProofs` proves of the accounts, for any replicas, emails, uuids, keys and time to
live, under `KeyAssumption` and `AccountAssumption`:

- `SessionsHold`: whoever was answered with a session has the one account of its email for
  good. The invariant adds that a creation that has committed has its row
  (`CommittedAreStored`), which the answer after it needs.
- `KeysLapse`: a withdrawn key is accepted without a fetch no longer than the time to live.
  The property speaks of caches that are fresh; the invariant says the same of stale ones too
  (`CachedWerePublished`), because a withdrawn key and the cache that holds it age alike.

and of `ModelRouter`, for any finite set of callers, any order of providers, any
threshold and cooldown, under `RouterAssumption`:

- `StreakHolds`, `DeadEndpointHolds`: neither bound is inductive. The invariant is a budget
  (`WithinBudget`): the failures a circuit has counted and the calls under way to it are together
  at most the threshold minus one plus the number of callers, and they cover the calls begun.

`InvestigationProofs` has the lemmas that the three workflows share: what each fold keeps
and adds (`FoldedKeeps`), that what the planner proposes can be run
(`NextActionsPlannable`), that it proposes a hunt alone (`HuntIsAlone`) and nothing only when the
case is covered (`NothingNextIsCovered`). `BatchLoopProofs` proves, for any indicators, attachments,
verdicts and budgets, under the assumptions of `Investigation`, `RunTool` and `BatchLoop`:

- `ToolsNeverCollide`, `ConvergedHolds`: the invariant (`LoopInv`) adds that every tool in flight was
  planned for a case that still allows it (`FlightIsPlanned`, `HuntsAreJudged`), although the
  tools beside it have changed the case since, and that a loop that ended has no tool in flight.
- `NothingIsForgotten`: an action property; each fold is monotone in what is known, hunted and
  detonated, and the snapshot `enrich_iocs` took before its await is still known.
- `RoundsSuffice`: with six rounds or more, a case in which no tool failed does not run out of
  rounds. The invariant (`Progress`) says what each round has settled for good; the
  fifth leaves nothing to plan. It needs `MaxIterations >= 6`, and the code grants eight.

`TaskSchedulerProofs` proves, for any case, budgets and numbers of reflection rounds:

- `WorkIsDistinct`, `DependenciesHold`, `DrainedHolds`, from one invariant (`SchedulerInv`): the graph
  grows only by work that no unfinished task does (`DistinctWork`), on tasks that come earlier
  (`DepsMet`), and each task can be run (`TasksAreSound`); the calls charged and the tasks running are
  together the attempts made (`AttemptsPaid`); and only a wave has running tasks (`WavesRun`). That a drained
  graph is finished follows because the least unfinished task would be ready
  (`NothingReadyIsFinished`). That `DependenciesFirst` counts a set of pairs `Attempts`
  instead of adding up a sequence serves this proof: a fold takes an operator, and what it computes
  cannot be proved.

`DurableWorkflowProofs` proves, for any number of attempts at each activity, either repository
and any case:

- `PackageHolds`: the invariant adds what each stage of an attempt tells about the stores
  (`StagesTold`), that the reported attempt is over so that nothing touches its package any more
  (`ResultIsOver`), and that what is planned can be run (`PlanIsSound`).
- `DuplicatesHold`: every entry of a store is one attempt's that has passed the stage which makes it
  (`CountedOnce`). A step takes one attempt to a later stage, so it adds at most one to
  the number of those that passed, and at least what it wrote (`ReachedStep`, `MoveKeeps`).

`CaseProofs` proves of `Assessment`, for any alert, any finite set of indicators, hosts and
recipients, any answers of the feeds, any tenant rules and any order in which the tools run,
under `FeedAssumption` and `EvidenceAssumption` (sets are finite, numbers are in the ranges that
the parsers enforce, and the connectors are those that `build_aggregator` can wire):

- `EvidenceIsSound`: the inductive invariant (`Inv`). A package says what the evidence said and nobody
  changes either afterwards (`Conclusive`), and each enriched indicator is one that its feeds can give
  (`SoundIoc`): the judgements that a score and a verdict are fused from go together, so that an
  indicator called malicious has a feed with a score of 850 or more. Without that the next theorem
  would be false, since nothing else relates the confidence that the risk counts to the malice that
  the consensus votes with.
- `JudgementsAlwaysAgree`: whatever was hunted, the vote of every tier bounds its malice from below, so a verdict that
  is not actionable bounds the factors of the risk from above (`Dismissed`,
  `DismissedIsNotCritical`).
- `InsidersNeverHaveBlocks`: the attribution reads the deduplicated values of the evidence, the plan
  its enriched indicators; the invariant ties one to the other.
- `RiskOnlyRises`: each factor is monotone in the evidence, and so is the rounding of their sum.
- `SightingsOnlyIncriminate`: of hunts for malicious, suspicious, benign and unknown indicators alike, the new voter shares out the weights anew; that the verdict does not
  become milder follows by cross-multiplying the two averages (`Outvoted`).

Of `RuleStore`, for any replicas, rules and quota, under `RulesAssumption`:

- `QuotaHolds`: the same argument as for the router, with the rows stored and the inserts under way
  (`QuotaBudget`). It is a theorem of `RulesSpec`.
- `StoresKeepQuota`: `IncidentStores` implements `RulesSpec` (`StoresKeepRules`): each of its steps is a
  step of `RulesNext` or leaves the rules alone, and none changes `durable`.

And of `IncidentStores`, for any incidents and features, any number of attempts and requests and any
wiring of the feeds, under `StoresAssumption` (a package is that of its incident; its features and
its evidence are finitely many, and so are the relations of a ThreatFox record, whose level is a
percentage: `threatfox.py:119` takes it for one):

- `DossiersHoldFirm`: the invariant (`DossiersInv`) follows the judgements through the steps of a request.
  They can be weighed at each of them, also when the cache has another record by the second
  lookup (`DossierSound`, `CacheSound`). The fusion is monotone in the judgements (`FusionGrows`).
- `PivotsAreMutual`: from the same invariant, because each relation that a dossier names is a triple of
  the graph (`Related`), triples stay (`GraphGrows`), and the neighbours of depth 1 are what
  is adjacent in either direction (`WithinOneHop`).
- `PathsStayShortest`: the rounds of `neighbors`, however many a caller asks for, are the layers of the graph around a node
  (`WavesLayer`, `EdgesLeadBack`), each disjoint from those before it. The search of `path` has an
  invariant (`SearchSound`) over its queue and its parents: what is queued lies in its layer, the
  queue holds at most two layers and the nearer one first, a node that was
  visited has all its neighbours queued or visited, and each parent lies in the layer before
  (`VisitKeeps`). It ends (`SearchStops`), because every visit takes a node off
  for good and the graph is finite, which `DossiersInv` says. The way back along the parents is a
  chain of as many triples as the layer is away (`PathsBackLead`), and no chain is shorter.
- `ClustersStayComponents`: a union-find has classes (`Classes`): every step up stays in the class
  and lowers a depth that is less than the number of its members. Halving a path keeps both (`WalkUp`), so
  `find` reaches the root before its bound (`FindIs`), and `union` joins two classes and no others
  (`UnionIs`). The invariant of the two loops (`Joint`) says that the pairs looked at are in
  one class if they are linked, and that no set which no link leaves is cut out of a class;
  at the end these are the components (`GroupsAre`, `ClustersAre`). That the list has a case once is an
  invariant of the store (`SavedOnce`), a window only splits campaigns because a piece
  of one that stuck out of every whole campaign would be linked to it (`CampaignsSplit`), and
  the counts follow because campaigns are disjoint and have two members or more (`Pairing`).
- `NeighboursAreFound`: the invariant (`MemoryInv`) says that the rows are a list, without duplicates, of
  incidents whose attempt has begun, that the store is full once something was evicted, that a
  package says what its attempt found, and that of two linked incidents one attempt knows the
  other or has as many as it shows that are no less similar (`NeighboursKnown`). It needs that similarity is
  symmetric (`SimilarityIs`), that the cut of the sorted matches leaves out one only if as many
  stay that are no less similar (`FoundOrCrowdedOut`), which of them the order of the rows says, and that further rows only
  crowd out more (`CrowdingPersists`). It speaks of incidents that a comparison still reads, and once a
  fingerprint was evicted of those that one attempt alone has fingerprinted.

What these proofs say of the sums and maxima that the engines compute rests on a principle of the
least counterexample (`HasLeast`) in place of an induction theorem: the weights are summed by a
recursive function, and `SumsExist` and `SumsBound` take the least index at which it would go wrong.
The loops of the graph queries and of the union-find are recursive functions over the number of
their rounds for the same reason (`WavesExist`, `StepsExist`, `OuterLoopExists` and those beside them).
TLC has checked `Inv`, `DossiersInv` and `InMemory` on the instances of the runs `assessment` and `stores`
before they were proved.

Two properties changed on the way, because the proof of their first form failed for a reason
that no small instance had shown. A dismissed case was said to have no severity above medium,
but can be of high severity; and a linked incident was said to be named whenever nothing was evicted,
which forgot that comparisons are limited and only the best matches are kept. The instances now
contain both cases.

Every safety property that a passing run checks is stated by a theorem. Only model-checked: liveness
under fairness (`PendingExpires`, `MemorySettles`, `ConsumerAdvances`, `Ends`, `GenerationsEnd`,
`NobodyIsShutOut`), which is out of the prover's reach, as is `ENABLED`; and the four
properties that fail, for which TLC gives a counterexample.

## Not modelled

`PROJECT.json` gives the reason for each part under `components`. In short: text
(parsing, extraction, wording of reports, prompts, timelines), whose
outcome is an arbitrary input of the models; floating-point embeddings; the database's
row-level security; cryptography and password hashing; the throttle of the sign-in routes; the
adapters that wrap one engine for the API; metrics and logging; the console and the
deployment scripts.

## Left open

Over Postgres `NeighboursAreMatched` claims nothing: fingerprints of finalizations that overlap
do not see one another, and the code has no rule that would make up for it.
