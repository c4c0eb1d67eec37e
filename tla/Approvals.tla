----------------------------- MODULE Approvals ------------------------------
(***************************************************************************)
(* The approval service (engines/approvals/service.py): the containment    *)
(* actions of a playbook wait here for a human decision.                   *)
(*                                                                         *)
(* A replica is one API process.  Its lock lets one operation run at a     *)
(* time, so op[r] is the operation that holds replica r's lock.  An        *)
(* operation reads a row in one transaction (store.get, store.list) and    *)
(* writes it back in another (store.save), and save replaces the whole row *)
(* from the copy that was read; between the two, other replicas of a       *)
(* Postgres deployment run.  With one replica the lock makes an operation  *)
(* indivisible, which is also the in-memory store.                         *)
(***************************************************************************)
EXTENDS Naturals, FiniteSets

CONSTANTS Replicas,    \* API processes that may share the store
          Deployments, \* the sets of them that may serve together
          Ids,         \* approval ids, a fresh uuid each
          Actors,      \* user names
          Requesters,  \* the names requests are raised under
          Nobody,      \* None
          MaxCrashes,  \* bound: how often a replica may die mid-operation
          Raised       \* bound: Raised[n], the requests that n processes are asked for

ASSUME ApprovalAssumption ==
  /\ IsFiniteSet(Replicas)
  /\ Deployments \subseteq (SUBSET Replicas) \ {{}}
  /\ Requesters \subseteq Actors
  /\ Nobody \notin Actors
  /\ MaxCrashes \in Nat

VARIABLES serving, \* the processes of this deployment
          store,   \* store[i]: the row of request i
          op,      \* op[r]: the operation holding replica r's lock
          due,     \* the requests whose expires_at has passed
          acks,    \* history: the decisions and executions callers were told of
          crashes  \* how many crashes there have been

vars == <<serving, store, op, due, acks, crashes>>

Who == Actors \cup {Nobody}

Status == {"none", "pending", "approved", "rejected", "executed", "expired"}

Row == [status : Status, requested_by : Who, decided_by : Who, executed_by : Who]

Absent == [status |-> "none", requested_by |-> Nobody,
           decided_by |-> Nobody, executed_by |-> Nobody]

(* rows is the copy the operation read; todo the rows it still has to handle;
   overdue those of todo that were past their expires_at when the code reached
   the row it is handling. *)
Op == [kind : {"idle", "create", "read", "approve", "reject", "execute"},
       actor : Who, todo : SUBSET Ids, rows : [Ids -> Row],
       overdue : SUBSET Ids]

NoRows == [i \in Ids |-> Absent]

Idle == [kind |-> "idle", actor |-> Nobody, todo |-> {}, rows |-> NoRows,
         overdue |-> {}]

Ack == [id : Ids, told : {"approved", "rejected", "executed"}, actor : Actors]

TypeOK ==
  /\ serving \in Deployments
  /\ store \in [Ids -> Row]
  /\ op \in [Replicas -> Op]
  /\ due \subseteq Ids
  /\ acks \subseteq Ack
  /\ crashes \in 0..MaxCrashes

Init ==
  /\ serving \in Deployments
  /\ store = NoRows
  /\ op = [r \in Replicas |-> Idle]
  /\ due = {}
  /\ acks = {}
  /\ crashes = 0

Stored == {i \in Ids : store[i].status # "none"}

-----------------------------------------------------------------------------
(* The rules of the state machine. *)

ExpiresIf_Never(q, late) == FALSE
(* _expire_if_due_locked: a request that was read as pending, when the clock
   is past its expires_at. *)
ExpiresIf(q, late) == q.status = "pending" /\ late

MayDecide_OwnRequest(q, a) == q.status = "pending"
MayDecide_Settled(q, a) == q.status \notin {"none", "executed"} /\ a # q.requested_by
(* decide: pending, and the requester never decides their own request. *)
MayDecide(q, a) == q.status = "pending" /\ a # q.requested_by

MayExecute_Rejected(q) == q.status \in {"approved", "rejected"}
MayExecute(q) == q.status = "approved"

Decided(q, kind, a) ==
  [q EXCEPT !.status = IF kind = "approve" THEN "approved" ELSE "rejected",
            !.decided_by = a]

Executed(q, a) == [q EXCEPT !.status = "executed", !.executed_by = a]

-----------------------------------------------------------------------------
(* The lock is taken and the store read. *)

Acquire(r, kind, a, todo, rows) ==
  /\ r \in serving /\ op[r] = Idle
  /\ op' = [op EXCEPT ![r] = [kind |-> kind, actor |-> a, todo |-> todo,
                              rows |-> rows, overdue |-> due \cap todo]]
  /\ UNCHANGED <<serving, store, due, acks, crashes>>

Release(r) == op' = [op EXCEPT ![r] = Idle]

OnlyRow(i) == [NoRows EXCEPT ![i] = store[i]]

(* get: one row.  A missing row raises ApprovalNotFound and changes nothing. *)
StartGet(r, i) == i \in Stored /\ Acquire(r, "read", Nobody, {i}, OnlyRow(i))

StartList(r) == Stored # {} /\ Acquire(r, "read", Nobody, Stored, store)

StartDecide(r, kind, i, a) ==
  /\ kind \in {"approve", "reject"}
  /\ i \in Stored
  /\ Acquire(r, kind, a, {i}, OnlyRow(i))

StartExecute(r, i, a) ==
  /\ i \in Stored
  /\ Acquire(r, "execute", a, {i}, OnlyRow(i))

Taken ==
  Stored \cup UNION {op[s].todo : s \in {t \in Replicas : op[t].kind = "create"}}

(* create_for_package: one request per step that needs approval, fresh ids. *)
StartCreate(r, a, new) ==
  /\ new # {} /\ new \subseteq Raised[Cardinality(serving)] \ Taken
  /\ Acquire(r, "create", a, new, NoRows)

-----------------------------------------------------------------------------
(* The rest of the operation, up to the save.  Each row is saved in a
   transaction of its own; an exception or a crash leaves the later ones undone. *)

HandleOne(r, i) ==
  op' = [op EXCEPT ![r] = IF op[r].todo = {i} THEN Idle
                          ELSE [op[r] EXCEPT !.todo = @ \ {i},
                                             !.overdue = due \cap (op[r].todo \ {i})]]

AddOne(r, i) ==
  /\ op[r].kind = "create" /\ i \in op[r].todo
  /\ store' = [store EXCEPT ![i] = [Absent EXCEPT !.status = "pending",
                                                  !.requested_by = op[r].actor]]
  /\ HandleOne(r, i)
  /\ UNCHANGED <<serving, due, acks, crashes>>

(* The clock is looked at once, at some instant after the read and before the
   save: a request that fell due in between may go either way. *)
FoundLapsed(r, i) == ExpiresIf(op[r].rows[i], i \in due)
FoundLive(r, i) == ~ ExpiresIf(op[r].rows[i], i \in op[r].overdue)

SaveExpired(r, i) ==
  store' = [store EXCEPT ![i] = [op[r].rows[i] EXCEPT !.status = "expired"]]

ReadOne_SavesAll(r, i) ==
  /\ op[r].kind = "read" /\ i \in op[r].todo
  /\ \/ FoundLapsed(r, i) /\ SaveExpired(r, i)
     \/ FoundLive(r, i) /\ store' = [store EXCEPT ![i] = op[r].rows[i]]
  /\ HandleOne(r, i)
  /\ UNCHANGED <<serving, due, acks, crashes>>
(* get and list expire what is due among the rows they return. *)
ReadOne(r, i) ==
  /\ op[r].kind = "read" /\ i \in op[r].todo
  /\ \/ FoundLapsed(r, i) /\ SaveExpired(r, i)
     \/ FoundLive(r, i) /\ UNCHANGED store
  /\ HandleOne(r, i)
  /\ UNCHANGED <<serving, due, acks, crashes>>

DecideExpires(r, i) ==
  /\ op[r].kind \in {"approve", "reject"} /\ i \in op[r].todo
  /\ FoundLapsed(r, i)
  /\ SaveExpired(r, i)
  /\ Release(r)
  /\ UNCHANGED <<serving, due, acks, crashes>>

DecideSaves(r, i) ==
  /\ op[r].kind \in {"approve", "reject"} /\ i \in op[r].todo
  /\ FoundLive(r, i)
  /\ MayDecide(op[r].rows[i], op[r].actor)
  /\ LET q == Decided(op[r].rows[i], op[r].kind, op[r].actor)
     IN /\ store' = [store EXCEPT ![i] = q]
        /\ acks' = acks \cup {[id |-> i, told |-> q.status, actor |-> op[r].actor]}
  /\ Release(r)
  /\ UNCHANGED <<serving, due, crashes>>

ExecuteSaves(r, i) ==
  /\ op[r].kind = "execute" /\ i \in op[r].todo
  /\ MayExecute(op[r].rows[i])
  /\ store' = [store EXCEPT ![i] = Executed(op[r].rows[i], op[r].actor)]
  /\ acks' = acks \cup {[id |-> i, told |-> "executed", actor |-> op[r].actor]}
  /\ Release(r)
  /\ UNCHANGED <<serving, due, crashes>>

(* ApprovalError: the state or the four-eyes rule refuses; nothing is saved. *)
Refuse(r, i) ==
  /\ i \in op[r].todo
  /\ \/ /\ op[r].kind \in {"approve", "reject"}
        /\ FoundLive(r, i)
        /\ ~ MayDecide(op[r].rows[i], op[r].actor)
     \/ /\ op[r].kind = "execute"
        /\ ~ MayExecute(op[r].rows[i])
  /\ Release(r)
  /\ UNCHANGED <<serving, store, due, acks, crashes>>

Finish(r) ==
  \E i \in Ids : \/ AddOne(r, i) \/ ReadOne(r, i)
                 \/ DecideExpires(r, i) \/ DecideSaves(r, i)
                 \/ ExecuteSaves(r, i) \/ Refuse(r, i)

-----------------------------------------------------------------------------
(* The clock reaches a request's expires_at. *)
TtlElapses(i) ==
  /\ i \in Stored \ due
  /\ due' = due \cup {i}
  /\ UNCHANGED <<serving, store, op, acks, crashes>>

(* The process of a Postgres deployment dies, or its store raises, between a
   read and a save; the rows survive it. *)
Crash(r) ==
  /\ op[r] # Idle
  /\ crashes < MaxCrashes
  /\ crashes' = crashes + 1
  /\ Release(r)
  /\ UNCHANGED <<serving, store, due, acks>>

Next ==
  \/ \E r \in Replicas :
       \/ \E i \in Ids : StartGet(r, i)
       \/ StartList(r)
       \/ \E i \in Ids, a \in Actors, kind \in {"approve", "reject"} :
            StartDecide(r, kind, i, a)
       \/ \E i \in Ids, a \in Actors : StartExecute(r, i, a)
       \/ \E a \in Requesters, new \in SUBSET Ids : StartCreate(r, a, new)
       \/ Finish(r)
       \/ Crash(r)
  \/ \E i \in Ids : TtlElapses(i)

Spec == Init /\ [][Next]_vars

(* A replica that holds its lock goes on, and the approvals page keeps asking
   some replica for the list (useApprovals.ts polls it every 15 seconds). *)
FairSpec ==
  /\ Spec
  /\ \A r \in Replicas : WF_vars(Finish(r))
  /\ SF_vars(\E r \in Replicas : StartList(r))

-----------------------------------------------------------------------------
(* Four eyes: whoever decided a stored request did not raise it, whichever
   replica's copy was written last (service.py decide). *)
DecidedByAnother(q) ==
  /\ q.status \in {"approved", "rejected", "executed"} => q.decided_by \in Actors
  /\ q.decided_by # Nobody => q.decided_by # q.requested_by

FourEyes == \A i \in Ids : DecidedByAnother(store[i])

(* Replicas that race over a request tell of one decision each at the most, so
   of one if a single process serves, and of an execution only after somebody
   was told of an approval (service.py decide, mark_executed: the guards are
   checked on a copy that was pending, or approved, when it was read). *)
Decisions(i) == {x \in acks : x.id = i /\ x.told \in {"approved", "rejected"}}

OneDecisionEach ==
  /\ \A i \in Ids : Cardinality(Decisions(i)) <= Cardinality(serving)
  /\ \A x \in acks : x.told = "executed" => \E y \in Decisions(x.id) : y.told = "approved"

(* A request that is settled never becomes pending again, and what it became
   stands, but for the execution of an approved one and the save of a process
   that had read it before ("a non-PENDING row can never transition again"
   holds of rows that were read since; service.py save). *)
Settled(q) == q.status \notin {"none", "pending"}
CarriedOut(q, new) == q.status = "approved" /\ \E a \in Actors : new = Executed(q, a)
SavedStaleCopy(r, i) ==
  i \in op[r].todo /\ op[r].rows[i] # store[i] /\ op'[r] # op[r]

SettledRowsStand ==
  [][\A i \in Ids :
       Settled(store[i]) /\ store'[i] # store[i] =>
         /\ Settled(store'[i])
         /\ \/ CarriedOut(store[i], store'[i])
            \/ \E r \in serving : SavedStaleCopy(r, i)]_vars

(* What a caller was told is what the store says from then on: no answer is
   lost to a later write (the comment of ApprovalService.__init__,
   "last-writer-wins is prevented"). *)
AnswersKept ==
  \A x \in acks :
    /\ x.told \in {"approved", "rejected"} => store[x.id].decided_by = x.actor
    /\ x.told = "rejected" => store[x.id].status = "rejected"
    /\ x.told = "approved" => store[x.id].status \in {"approved", "executed"}
    /\ x.told = "executed" => store[x.id].status = "executed"

(* A stored request leaves "pending" once its time to live has passed, since
   the console keeps listing (service.py list). *)
PendingExpires ==
  \A i \in Ids : (i \in due) ~> (store[i].status # "pending")

(* The service implements the protocol it promises wherever a single process
   serves (docs/ARCHITECTURE.md, "Human approval workflow"); of several the
   protocol is not claimed, and it is shown nothing. *)
Alone == \A r, s \in serving : r = s
Shown(i) == IF Alone THEN store[i] ELSE Absent

Life == [i \in Ids |-> Shown(i).status]
RaisedBy == [i \in Ids |-> Shown(i).requested_by]
DecidedBy == [i \in Ids |-> Shown(i).decided_by]

Protocol == INSTANCE ApprovalProtocol
              WITH life <- Life, requester <- RaisedBy, decider <- DecidedBy

ImplementsProtocol == Protocol!ProtocolSpec
=============================================================================
