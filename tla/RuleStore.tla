------------------------------ MODULE RuleStore ------------------------------
(***************************************************************************)
(* The store of a tenant's own detection rules                             *)
(* (engines/detection/store.py) and its routes (api/v1/routes/             *)
(* detections.py). The process-local store checks and writes under a lock; *)
(* with Postgres the check reads rows that another replica may be changing *)
(* until its own transaction commits. A rule is its id.                    *)
(***************************************************************************)
EXTENDS Integers, FiniteSets

CONSTANTS Authors,     \* replicas that may be serving an upsert
          RuleIds, BuiltinIds,
          MaxRules     \* _MAX_RULES_PER_TENANT

ASSUME RulesAssumption == MaxRules \in Nat \ {0} /\ IsFiniteSet(Authors)

VARIABLES durable,     \* settings.use_postgres
          rules,       \* ids of the stored rules
          upserts      \* what each replica's open transaction will write

ruleVars == <<rules, upserts>>

NoUpsert == [kind |-> "none"]
Pending(kind, id) == [kind |-> kind, rule |-> id]

RulesInit ==
  /\ durable \in BOOLEAN
  /\ rules = {}
  /\ upserts = [a \in Authors |-> NoUpsert]

(* The check of both stores. *)
WithinQuota_OneMore(id) == id \in rules \/ Cardinality(rules) <= MaxRules
WithinQuota(id) == id \in rules \/ Cardinality(rules) < MaxRules

Accepted(id) == id \notin BuiltinIds /\ WithinQuota(id)

UpsertInMemory(id) ==
  /\ ~ durable
  /\ Accepted(id)
  /\ rules' = rules \cup {id}
  /\ UNCHANGED upserts

(* The queries of the transaction; the write comes with its commit. *)
BeginUpsert(a, id) ==
  /\ durable
  /\ upserts[a] = NoUpsert
  /\ Accepted(id)
  /\ upserts' = [upserts EXCEPT ![a] = Pending(IF id \in rules THEN "update" ELSE "insert", id)]
  /\ UNCHANGED rules

(* A second insert of an id violates the unique constraint, and an update of a
   row that was deleted meanwhile finds none: both raise and write nothing. *)
CommitUpsert(a) ==
  /\ upserts[a] # NoUpsert
  /\ rules' = IF upserts[a].kind = "insert" THEN rules \cup {upserts[a].rule} ELSE rules
  /\ upserts' = [upserts EXCEPT ![a] = NoUpsert]

DeleteRule(id) ==
  /\ id \in rules
  /\ rules' = rules \ {id}
  /\ UNCHANGED upserts

RulesNext ==
  \/ \E id \in RuleIds : UpsertInMemory(id) \/ DeleteRule(id)
  \/ \E a \in Authors, id \in RuleIds : BeginUpsert(a, id)
  \/ \E a \in Authors : CommitUpsert(a)

RulesSpec == RulesInit /\ [][RulesNext /\ UNCHANGED durable]_<<durable, ruleVars>>

(* The quota of upsert holds exactly within a process, and replicas whose
   transactions overlap exceed it by one rule each at most. *)
QuotaNearlyHolds ==
  Cardinality(rules) <= MaxRules + (IF durable THEN Cardinality(Authors) - 1 ELSE 0)
=============================================================================
