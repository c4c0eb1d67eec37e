--------------------------- MODULE ApprovalsProofs --------------------------
(***************************************************************************)
(* Proofs about Approvals.  Type correctness, four eyes, the ration of     *)
(* decisions and what may overwrite a settled row hold for any number of   *)
(* replicas that race over one store.  That the service implements its     *)
(* protocol is claimed where a single process serves: its lock keeps the   *)
(* copy and the row equal until the save.                                  *)
(***************************************************************************)
EXTENDS Approvals, FiniteSetTheorems, TLAPS

USE ApprovalAssumption

(* The row of a request that does not exist is typed. *)
LEMMA AbsentIsRow == Absent \in Row
BY DEF Absent, Row, Status, Who

(* A replica that does nothing is typed, and so are its copies. *)
LEMMA IdleIsOp == Idle \in Op /\ NoRows \in [Ids -> Row]
BY AbsentIsRow DEF Idle, Op, NoRows, Who

(* The rows that the operations write are rows. *)
LEMMA WrittenRows ==
  ASSUME NEW q \in Row, NEW a \in Actors, NEW kind
  PROVE  /\ [q EXCEPT !.status = "expired"] \in Row
         /\ Decided(q, kind, a) \in Row
         /\ Executed(q, a) \in Row
         /\ [Absent EXCEPT !.status = "pending", !.requested_by = a] \in Row
BY AbsentIsRow DEF Row, Status, Who, Decided, Executed

(* Taking and releasing a lock keep op well typed. *)
LEMMA AcquireTyped ==
  ASSUME TypeOK, NEW r \in Replicas, NEW a \in Who, NEW todo \in SUBSET Ids,
         NEW kind \in {"create", "read", "approve", "reject", "execute"},
         NEW rows \in [Ids -> Row], Acquire(r, kind, a, todo, rows)
  PROVE  TypeOK'
BY DEF TypeOK, Acquire, Op

(* What one lookup of a row hands to an operation is typed. *)
LEMMA OnlyRowTyped ==
  ASSUME TypeOK, NEW i \in Ids
  PROVE  OnlyRow(i) \in [Ids -> Row]
BY IdleIsOp DEF TypeOK, OnlyRow

(* An operation on one row leaves every replica typed. *)
LEMMA HandleOneTyped ==
  ASSUME TypeOK, NEW r \in Replicas, NEW i \in Ids, HandleOne(r, i)
  PROVE  op' \in [Replicas -> Op]
<1>1. op[r] \in Op
  BY DEF TypeOK
<1>2. [op[r] EXCEPT !.todo = @ \ {i}, !.overdue = due \cap (op[r].todo \ {i})] \in Op
  BY <1>1 DEF Op, TypeOK
<1>. QED
  BY <1>1, <1>2, IdleIsOp DEF HandleOne, TypeOK

(* Giving the lock back leaves every replica typed. *)
LEMMA ReleaseTyped ==
  ASSUME TypeOK, NEW r \in Replicas, Release(r)
  PROVE  op' \in [Replicas -> Op]
BY IdleIsOp DEF Release, TypeOK

(* A decision and an execution have a user behind them. *)
ActorKnown ==
  \A r \in Replicas : op[r].kind \in {"create", "approve", "reject", "execute"}
                        => op[r].actor \in Actors

Typed == TypeOK /\ ActorKnown

(* The type invariant holds in the beginning, ... *)
LEMMA TypedInit == Init => Typed
<1> SUFFICES ASSUME Init PROVE Typed
  OBVIOUS
<1>1. TypeOK
  BY IdleIsOp DEF Init, TypeOK
<1>2. ActorKnown
  BY DEF Init, ActorKnown, Idle
<1>. QED
  BY <1>1, <1>2 DEF Typed

(* The answers given are answers. *)
LEMMA WrittenAck ==
  ASSUME NEW i \in Ids, NEW told \in {"approved", "rejected", "executed"}, NEW a \in Actors
  PROVE  [id |-> i, told |-> told, actor |-> a] \in Ack
BY DEF Ack

(* ... and every step keeps it. *)
LEMMA TypedNext == Typed /\ [Next]_vars => Typed'
<1> SUFFICES ASSUME Typed, [Next]_vars
             PROVE  Typed'
  OBVIOUS
<1>1. TypeOK /\ ActorKnown
  BY DEF Typed
<1>a. ASSUME NEW r \in Replicas, op[r]' = Idle \/ op[r]'.kind = op[r].kind,
             op[r]' = Idle \/ op[r]'.actor = op[r].actor,
             \A s \in Replicas \ {r} : op[s]' = op[s]
      PROVE  ActorKnown'
  BY <1>1, <1>a DEF ActorKnown, Idle
<1>b. ASSUME NEW r \in Replicas, Release(r)
      PROVE  ActorKnown'
  BY <1>1, <1>a, <1>b DEF Release, TypeOK
<1>c. ASSUME NEW r \in Replicas, NEW i \in Ids, HandleOne(r, i)
      PROVE  ActorKnown'
  <2>1. op[r] \in Op /\ op \in [Replicas -> Op]
    BY <1>1 DEF TypeOK
  <2>. QED
    BY <1>a, <1>c, <2>1 DEF HandleOne, Op
<1>d. ASSUME NEW r \in Replicas, NEW kind, NEW a, NEW todo, NEW rows,
             Acquire(r, kind, a, todo, rows), kind = "read" \/ a \in Actors
      PROVE  ActorKnown'
  BY <1>1, <1>d DEF ActorKnown, Acquire, TypeOK
<1>2. ASSUME NEW r \in Replicas, NEW i \in Ids, StartGet(r, i)
      PROVE  Typed'
  BY <1>1, <1>2, <1>d, OnlyRowTyped, AcquireTyped DEF StartGet, Typed, Who
<1>3. ASSUME NEW r \in Replicas, StartList(r)
      PROVE  Typed'
  <2>1. Stored \in SUBSET Ids /\ store \in [Ids -> Row]
    BY <1>1 DEF Stored, TypeOK
  <2>. QED
    BY <1>1, <1>3, <1>d, <2>1, AcquireTyped DEF StartList, Typed, Who
<1>4. ASSUME NEW r \in Replicas, NEW i \in Ids, NEW a \in Actors,
             NEW kind \in {"approve", "reject"}, StartDecide(r, kind, i, a)
      PROVE  Typed'
  <2>1. Acquire(r, kind, a, {i}, OnlyRow(i)) /\ a \in Who /\ OnlyRow(i) \in [Ids -> Row]
    BY <1>1, <1>4, OnlyRowTyped DEF StartDecide, Who
  <2>2. TypeOK'
    <3>1. {i} \in SUBSET Ids
      OBVIOUS
    <3>2. kind \in {"create", "read", "approve", "reject", "execute"}
      BY <1>4
    <3>. QED
      BY <1>1, <2>1, <3>1, <3>2, AcquireTyped
  <2>. QED
    BY <1>4, <1>d, <2>1, <2>2 DEF Typed
<1>5. ASSUME NEW r \in Replicas, NEW i \in Ids, NEW a \in Actors, StartExecute(r, i, a)
      PROVE  Typed'
  BY <1>1, <1>5, <1>d, OnlyRowTyped, AcquireTyped DEF StartExecute, Typed, Who
<1>6. ASSUME NEW r \in Replicas, NEW a \in Requesters, NEW new \in SUBSET Ids,
             StartCreate(r, a, new)
      PROVE  Typed'
  BY <1>1, <1>6, <1>d, IdleIsOp, AcquireTyped DEF StartCreate, Typed, Who
<1>7. ASSUME NEW r \in Replicas, NEW i \in Ids, AddOne(r, i)
      PROVE  Typed'
  <2>1. op[r].actor \in Actors
    BY <1>1, <1>7 DEF AddOne, ActorKnown
  <2>2. store' \in [Ids -> Row]
    BY <1>1, <1>7, <2>1, WrittenRows, AbsentIsRow DEF AddOne, TypeOK
  <2>. QED
    BY <1>1, <1>7, <1>c, <2>2, HandleOneTyped DEF AddOne, Typed, TypeOK
<1>8. ASSUME NEW r \in Replicas, NEW i \in Ids, SaveExpired(r, i)
      PROVE  store' \in [Ids -> Row]
  <2>1. op[r].rows[i] \in Row
    BY <1>1 DEF TypeOK, Op
  <2>2. [op[r].rows[i] EXCEPT !.status = "expired"] \in Row
    BY <2>1 DEF Row, Status
  <2>. QED
    BY <1>1, <1>8, <2>2 DEF SaveExpired, TypeOK
<1>9. ASSUME NEW r \in Replicas, NEW i \in Ids, ReadOne(r, i)
      PROVE  Typed'
  BY <1>1, <1>8, <1>9, <1>c, HandleOneTyped DEF ReadOne, Typed, TypeOK
<1>10. ASSUME NEW r \in Replicas, NEW i \in Ids, DecideExpires(r, i)
       PROVE  Typed'
  BY <1>1, <1>8, <1>10, <1>b, ReleaseTyped DEF DecideExpires, Typed, TypeOK
<1>11. ASSUME NEW r \in Replicas, NEW i \in Ids, DecideSaves(r, i)
       PROVE  Typed'
  <2>1. op[r].actor \in Actors /\ op[r].rows[i] \in Row
    BY <1>1, <1>11 DEF DecideSaves, ActorKnown, TypeOK, Op
  <2>2. /\ Decided(op[r].rows[i], op[r].kind, op[r].actor) \in Row
        /\ Decided(op[r].rows[i], op[r].kind, op[r].actor).status \in {"approved", "rejected"}
    BY <2>1, WrittenRows DEF Decided, Row
  <2>3. store' \in [Ids -> Row]
    BY <1>1, <1>11, <2>2 DEF DecideSaves, TypeOK
  <2>4. acks' \subseteq Ack
    BY <1>1, <1>11, <2>1, <2>2, WrittenAck DEF DecideSaves, TypeOK
  <2>. QED
    BY <1>1, <1>11, <1>b, <2>3, <2>4, ReleaseTyped DEF DecideSaves, Typed, TypeOK
<1>12. ASSUME NEW r \in Replicas, NEW i \in Ids, ExecuteSaves(r, i)
       PROVE  Typed'
  <2>1. op[r].actor \in Actors /\ op[r].rows[i] \in Row
    BY <1>1, <1>12 DEF ExecuteSaves, ActorKnown, TypeOK, Op
  <2>2. store' \in [Ids -> Row]
    BY <1>1, <1>12, <2>1, WrittenRows DEF ExecuteSaves, TypeOK
  <2>3. acks' \subseteq Ack
    BY <1>1, <1>12, <2>1, WrittenAck DEF ExecuteSaves, TypeOK
  <2>. QED
    BY <1>1, <1>12, <1>b, <2>2, <2>3, ReleaseTyped DEF ExecuteSaves, Typed, TypeOK
<1>13. ASSUME NEW r \in Replicas, NEW i \in Ids, Refuse(r, i)
       PROVE  Typed'
  BY <1>1, <1>13, <1>b, ReleaseTyped DEF Refuse, Typed, TypeOK
<1>14. ASSUME NEW r \in Replicas, Crash(r)
       PROVE  Typed'
  <2>1. crashes' \in 0..MaxCrashes
    BY <1>1, <1>14 DEF Crash, TypeOK
  <2>. QED
    BY <1>1, <1>14, <1>b, <2>1, ReleaseTyped DEF Crash, Typed, TypeOK
<1>15. ASSUME NEW i \in Ids, TtlElapses(i)
       PROVE  Typed'
  BY <1>1, <1>15 DEF TtlElapses, Typed, TypeOK, ActorKnown
<1>16. CASE UNCHANGED vars
  BY <1>1, <1>16 DEF vars, Typed, TypeOK, ActorKnown
<1>. QED
  BY <1>2, <1>3, <1>4, <1>5, <1>6, <1>7, <1>9, <1>10, <1>11, <1>12, <1>13, <1>14,
     <1>15, <1>16 DEF Next, Finish

(* Every variable keeps its type, for any number of replicas, requests and
   users: the rows, the copies that operations hold and the answers given. *)
THEOREM TypeCorrect == Spec => []TypeOK
<1>1. Typed => TypeOK
  BY DEF Typed
<1>. QED
  BY <1>1, TypedInit, TypedNext, PTL DEF Spec

-----------------------------------------------------------------------------
(* Four eyes, for any number of replicas. *)

(* A copy an operation holds after a step is one it held, or a row of the
   store, or the row of an absent request. *)
LEMMA CopySources ==
  ASSUME TypeOK, [Next]_vars, NEW s \in Replicas, NEW i \in Ids
  PROVE  op'[s].rows[i] \in {op[s].rows[i], store[i], Absent}
<1>1. \A t \in Replicas : op[t] \in Op
  BY DEF TypeOK
<1>2. ASSUME NEW r \in Replicas, Release(r)
      PROVE  op'[s].rows[i] \in {op[s].rows[i], store[i], Absent}
  BY <1>2 DEF Release, Idle, NoRows, TypeOK
<1>3. ASSUME NEW r \in Replicas, NEW j \in Ids, HandleOne(r, j)
      PROVE  op'[s].rows[i] \in {op[s].rows[i], store[i], Absent}
  BY <1>1, <1>3 DEF HandleOne, Idle, NoRows, TypeOK, Op
<1>4. ASSUME NEW r \in Replicas, NEW kind, NEW a, NEW todo, NEW rows,
             Acquire(r, kind, a, todo, rows), rows[i] \in {store[i], Absent}
      PROVE  op'[s].rows[i] \in {op[s].rows[i], store[i], Absent}
  BY <1>4 DEF Acquire, TypeOK
<1>5. \A j \in Ids : OnlyRow(j)[i] \in {store[i], Absent}
  BY DEF OnlyRow, NoRows
<1>6. NoRows[i] = Absent
  BY DEF NoRows
<1>7. ASSUME NEW r \in Replicas, Finish(r)
      PROVE  op'[s].rows[i] \in {op[s].rows[i], store[i], Absent}
  BY <1>7, <1>2, <1>3 DEF Finish, AddOne, ReadOne, DecideExpires, DecideSaves,
     ExecuteSaves, Refuse
<1>8. CASE UNCHANGED vars
  BY <1>8 DEF vars
<1>9. ASSUME NEW j \in Ids, TtlElapses(j)
      PROVE  op'[s].rows[i] \in {op[s].rows[i], store[i], Absent}
  BY <1>9 DEF TtlElapses
<1>. QED
  BY <1>2, <1>4, <1>5, <1>6, <1>7, <1>8, <1>9 DEF Next, StartGet, StartList,
     StartDecide, StartExecute, StartCreate, Crash

CopiesDecidedByAnother ==
  \A r \in Replicas, i \in Ids : DecidedByAnother(op[r].rows[i])

(* What is written from a copy that satisfies the rule satisfies it too. *)
LEMMA WritesDecidedByAnother ==
  ASSUME Typed, FourEyes, CopiesDecidedByAnother, [Next]_vars, NEW i \in Ids
  PROVE  DecidedByAnother(store'[i])
<1>1. DecidedByAnother(store[i]) /\ TypeOK /\ ActorKnown
  BY DEF FourEyes, Typed
<1>2. \A r \in Replicas : op[r].rows[i] \in Row /\ DecidedByAnother(op[r].rows[i])
  BY <1>1 DEF CopiesDecidedByAnother, TypeOK, Op
<1>3. ASSUME NEW r \in Replicas, NEW j \in Ids, AddOne(r, j)
      PROVE  DecidedByAnother(store'[i])
  BY <1>1, <1>3 DEF AddOne, DecidedByAnother, Absent, TypeOK
<1>4. ASSUME NEW r \in Replicas, NEW j \in Ids,
             ExpiresIf(op[r].rows[j], j \in due), SaveExpired(r, j)
      PROVE  DecidedByAnother(store'[i])
  BY <1>1, <1>2, <1>4 DEF SaveExpired, DecidedByAnother, TypeOK, Row
<1>5. ASSUME NEW r \in Replicas, NEW j \in Ids, DecideSaves(r, j)
      PROVE  DecidedByAnother(store'[i])
  <2>1. op[r].actor \in Actors
    BY <1>1, <1>5 DEF DecideSaves, ActorKnown
  <2>2. store'[i] = store[i] \/ (j = i /\ store'[i] = Decided(op[r].rows[i], op[r].kind, op[r].actor))
    BY <1>1, <1>5 DEF DecideSaves, TypeOK
  <2>3. j = i => op[r].actor # op[r].rows[i].requested_by
    BY <1>5 DEF DecideSaves, MayDecide
  <2>. QED
    BY <1>1, <1>2, <2>1, <2>2, <2>3 DEF Decided, DecidedByAnother, Row
<1>6. ASSUME NEW r \in Replicas, NEW j \in Ids, ExecuteSaves(r, j)
      PROVE  DecidedByAnother(store'[i])
  BY <1>1, <1>2, <1>6 DEF ExecuteSaves, MayExecute, Executed, DecidedByAnother,
     TypeOK, Row
<1>7. ASSUME NEW r \in Replicas, Finish(r)
      PROVE  DecidedByAnother(store'[i])
  BY <1>1, <1>3, <1>4, <1>5, <1>6, <1>7 DEF Finish, ReadOne, DecideExpires,
     Refuse, FoundLapsed
<1>. QED
  BY <1>1, <1>7 DEF Next, vars, Acquire, StartGet, StartList, StartDecide,
     StartExecute, StartCreate, TtlElapses, Crash

(* No request is ever decided by its own requester, whatever the number of
   replicas and whichever of their copies is written last (service.py decide):
   the rule holds of the copies too, and every save writes one. *)
THEOREM FourEyesHolds == Spec => []FourEyes
<1>1. Init => FourEyes /\ CopiesDecidedByAnother
  BY DEF Init, FourEyes, CopiesDecidedByAnother, DecidedByAnother, NoRows, Idle,
     Absent
<1>2. Typed /\ FourEyes /\ CopiesDecidedByAnother /\ [Next]_vars
        => (FourEyes /\ CopiesDecidedByAnother)'
  <2> SUFFICES ASSUME Typed, FourEyes, CopiesDecidedByAnother, [Next]_vars
               PROVE  (FourEyes /\ CopiesDecidedByAnother)'
    OBVIOUS
  <2>1. FourEyes'
    BY WritesDecidedByAnother DEF FourEyes
  <2>2. DecidedByAnother(Absent)
    BY DEF DecidedByAnother, Absent
  <2>3. ASSUME NEW r \in Replicas, NEW i \in Ids
        PROVE  DecidedByAnother(op'[r].rows[i])
    BY <2>2, CopySources DEF Typed, FourEyes, CopiesDecidedByAnother
  <2>. QED
    BY <2>1, <2>3 DEF CopiesDecidedByAnother
<1>. QED
  BY <1>1, <1>2, TypedInit, TypedNext, PTL DEF Spec

-----------------------------------------------------------------------------
(* Who serves, and what operations hold. *)

(* A deployment does not change. *)
LEMMA ServingStays == ASSUME [Next]_vars PROVE UNCHANGED serving
<1>1. ASSUME NEW r \in Replicas, NEW i \in Ids,
             \/ AddOne(r, i) \/ ReadOne(r, i) \/ DecideExpires(r, i)
             \/ DecideSaves(r, i) \/ ExecuteSaves(r, i) \/ Refuse(r, i)
      PROVE  UNCHANGED serving
  BY <1>1 DEF AddOne, ReadOne, DecideExpires, DecideSaves, ExecuteSaves, Refuse
<1>2. ASSUME NEW r \in Replicas, NEW kind, NEW a, NEW todo, NEW rows,
             Acquire(r, kind, a, todo, rows)
      PROVE  UNCHANGED serving
  BY <1>2 DEF Acquire
<1>. QED
  BY <1>1, <1>2 DEF Next, Finish, vars, StartGet, StartList, StartDecide,
     StartExecute, StartCreate, TtlElapses, Crash

(* Whoever does not serve does nothing. *)
OthersIdle == \A r \in Replicas \ serving : op[r] = Idle

(* It is so in the beginning, ... *)
LEMMA OthersIdleInit == Init => OthersIdle
BY DEF Init, OthersIdle

(* ... and every step keeps it. *)
LEMMA OthersIdleNext ==
  ASSUME Typed, OthersIdle, [Next]_vars
  PROVE  OthersIdle'
<1>1. op \in [Replicas -> Op] /\ UNCHANGED serving
  BY ServingStays DEF Typed, TypeOK
<1>2. ASSUME NEW r \in Replicas, Release(r)
      PROVE  OthersIdle'
  BY <1>1, <1>2 DEF Release, OthersIdle
<1>3. ASSUME NEW r \in Replicas, NEW i \in op[r].todo, HandleOne(r, i)
      PROVE  OthersIdle'
  <2>1. r \in serving
    BY <1>3 DEF OthersIdle, Idle
  <2>. QED
    BY <1>1, <1>3, <2>1 DEF HandleOne, OthersIdle
<1>4. ASSUME NEW r \in Replicas, NEW kind, NEW a, NEW todo, NEW rows,
             Acquire(r, kind, a, todo, rows)
      PROVE  OthersIdle'
  BY <1>1, <1>4 DEF Acquire, OthersIdle
<1>5. CASE UNCHANGED op
  BY <1>1, <1>5 DEF OthersIdle
<1>. QED
  BY <1>2, <1>3, <1>4, <1>5 DEF Next, Finish, vars, StartGet, StartList, StartDecide,
     StartExecute, StartCreate, AddOne, ReadOne, DecideExpires, DecideSaves,
     ExecuteSaves, Refuse, TtlElapses, Crash

-----------------------------------------------------------------------------
(* Settled rows stand, for any number of replicas. *)

(* A row about to be added does not exist, no two creations share one, and a
   copy is of an earlier state of its row. *)
CopiesArePast ==
  /\ \A r \in Replicas : \A i \in op[r].todo :
       IF op[r].kind = "create" THEN store[i].status = "none"
       ELSE /\ store[i].status # "none"
            /\ Settled(op[r].rows[i]) => Settled(store[i])
  /\ \A r, s \in Replicas :
       r # s /\ op[r].kind = "create" /\ op[s].kind = "create"
         => op[r].todo \cap op[s].todo = {}

(* What the operations write from a copy settles the row. *)
LEMMA WritesSettle ==
  ASSUME NEW q \in Row, NEW a, NEW kind
  PROVE  /\ Settled([q EXCEPT !.status = "expired"])
         /\ Settled(Decided(q, kind, a))
         /\ Settled(Executed(q, a))
BY DEF Settled, Decided, Executed, Row

(* A step leaves a row alone, adds it, or settles it. *)
LEMMA RowSteps ==
  ASSUME Typed, CopiesArePast, [Next]_vars, NEW i \in Ids
  PROVE  \/ store'[i] = store[i]
         \/ /\ store[i].status = "none" /\ store'[i].status = "pending"
            /\ \E r \in Replicas : AddOne(r, i)
         \/ store[i].status # "none" /\ Settled(store'[i])
<1>1. TypeOK /\ \A r \in Replicas, j \in Ids : op[r].rows[j] \in Row
  BY DEF Typed, TypeOK, Op
<1>2. store \in [Ids -> Row]
  BY <1>1 DEF TypeOK
<1>3. ASSUME NEW r \in Replicas, NEW j \in Ids, AddOne(r, j)
      PROVE  \/ store'[i] = store[i]
             \/ store[i].status = "none" /\ store'[i].status = "pending" /\ i = j
  BY <1>2, <1>3 DEF AddOne, CopiesArePast, Absent
<1>4. ASSUME NEW r \in Replicas, NEW j \in op[r].todo, j \in Ids, op[r].kind # "create",
             NEW q, Settled(q), store' = [store EXCEPT ![j] = q]
      PROVE  store'[i] = store[i] \/ (store[i].status # "none" /\ Settled(store'[i]))
  BY <1>2, <1>4 DEF CopiesArePast
<1>5. ASSUME NEW r \in Replicas, NEW j \in Ids,
             ReadOne(r, j) \/ DecideExpires(r, j) \/ DecideSaves(r, j) \/ ExecuteSaves(r, j)
      PROVE  store'[i] = store[i] \/ (store[i].status # "none" /\ Settled(store'[i]))
  <2>1. j \in op[r].todo /\ op[r].kind # "create"
    BY <1>5 DEF ReadOne, DecideExpires, DecideSaves, ExecuteSaves
  <2>2. \/ UNCHANGED store
        \/ store' = [store EXCEPT ![j] = [op[r].rows[j] EXCEPT !.status = "expired"]]
        \/ store' = [store EXCEPT ![j] = Decided(op[r].rows[j], op[r].kind, op[r].actor)]
        \/ store' = [store EXCEPT ![j] = Executed(op[r].rows[j], op[r].actor)]
    BY <1>5 DEF ReadOne, DecideExpires, DecideSaves, ExecuteSaves, SaveExpired
  <2>3. /\ Settled([op[r].rows[j] EXCEPT !.status = "expired"])
        /\ Settled(Decided(op[r].rows[j], op[r].kind, op[r].actor))
        /\ Settled(Executed(op[r].rows[j], op[r].actor))
    BY <1>1, WritesSettle
  <2>. QED
    BY <1>4, <2>1, <2>2, <2>3
<1>6. CASE UNCHANGED store
  BY <1>6
<1>. QED
  BY <1>3, <1>5, <1>6 DEF Next, Finish, vars, Acquire, StartGet, StartList,
     StartDecide, StartExecute, StartCreate, Refuse, TtlElapses, Crash

(* Nobody holds a copy in the beginning, ... *)
LEMMA CopiesArePastInit == Init => CopiesArePast
BY DEF Init, CopiesArePast, Idle

(* ... and a row only goes on from what a copy says, whoever writes it. *)
LEMMA CopiesArePastNext ==
  ASSUME Typed, CopiesArePast, [Next]_vars
  PROVE  CopiesArePast'
<1>1. /\ TypeOK /\ store \in [Ids -> Row] /\ op \in [Replicas -> Op]
      /\ \A r \in Replicas : op[r].todo \subseteq Ids
  BY DEF Typed, TypeOK, Op
<1>2. \A i \in Ids : /\ store[i].status # "none" => store'[i].status # "none"
                     /\ Settled(store[i]) => Settled(store'[i])
  BY RowSteps DEF Settled
(* Operations that go on, or end, without touching a row that somebody adds. *)
<1>3. ASSUME NEW r \in Replicas, NEW i \in Ids,
             op' \in [Replicas -> Op],
             \A s \in Replicas \ {r} : op'[s] = op[s],
             \/ op'[r] = Idle
             \/ /\ op'[r].kind = op[r].kind /\ op'[r].rows = op[r].rows
                /\ op'[r].todo \subseteq op[r].todo,
             \A s \in Replicas : op'[s].kind = "create"
               => \A j \in op'[s].todo : store'[j].status = store[j].status
      PROVE  CopiesArePast'
  <2>1. Idle.todo = {} /\ Idle.kind # "create"
    BY DEF Idle
  <2>2. \A s \in Replicas : /\ op'[s].todo \subseteq op[s].todo
                            /\ \/ op'[s] = Idle
                               \/ op'[s].kind = op[s].kind /\ op'[s].rows = op[s].rows
    BY <1>3, <2>1
  <2>3. ASSUME NEW s \in Replicas, NEW j \in op'[s].todo
        PROVE  IF op'[s].kind = "create" THEN store'[j].status = "none"
               ELSE /\ store'[j].status # "none"
                    /\ Settled(op'[s].rows[j]) => Settled(store'[j])
    <3>1. j \in op[s].todo /\ j \in Ids /\ op'[s] # Idle
      BY <1>1, <2>1, <2>2, <2>3
    <3>2. op'[s].kind = op[s].kind /\ op'[s].rows = op[s].rows
      BY <2>2, <3>1
    <3>. QED
      BY <1>2, <1>3, <2>3, <3>1, <3>2 DEF CopiesArePast
  <2>4. ASSUME NEW s \in Replicas, NEW t \in Replicas, s # t,
               op'[s].kind = "create", op'[t].kind = "create"
        PROVE  op'[s].todo \cap op'[t].todo = {}
    <3>1. op[s].kind = "create" /\ op[t].kind = "create"
      BY <2>1, <2>2, <2>4
    <3>. QED
      BY <2>2, <2>4, <3>1 DEF CopiesArePast
  <2>. QED
    BY <2>3, <2>4 DEF CopiesArePast
<1>4. ASSUME NEW r \in Replicas, NEW i \in Ids, NEW kind, NEW a,
             NEW todo \in SUBSET Ids, NEW rows, Acquire(r, kind, a, todo, rows),
             kind # "create", \A j \in todo : j \in Stored /\ rows[j] = store[j]
      PROVE  CopiesArePast'
  <2>1. /\ op'[r].todo = todo /\ op'[r].kind = kind /\ op'[r].rows = rows
        /\ \A s \in Replicas \ {r} : op'[s] = op[s]
        /\ UNCHANGED store
    BY <1>1, <1>4 DEF Acquire
  <2>. QED
    BY <1>4, <2>1 DEF CopiesArePast, Stored
<1>5. ASSUME NEW r \in Replicas, NEW a, NEW new \in SUBSET Ids, StartCreate(r, a, new)
      PROVE  CopiesArePast'
  <2>1. /\ op'[r].todo = new /\ op'[r].kind = "create"
        /\ \A s \in Replicas \ {r} : op'[s] = op[s]
        /\ UNCHANGED store
    BY <1>1, <1>5 DEF StartCreate, Acquire
  <2>2. \A j \in new : store[j].status = "none"
    BY <1>5 DEF StartCreate, Taken, Stored
  <2>3. \A s \in Replicas : op[s].kind = "create" => new \cap op[s].todo = {}
    BY <1>5 DEF StartCreate, Taken
  <2>. QED
    BY <2>1, <2>2, <2>3 DEF CopiesArePast
<1>6. ASSUME NEW r \in Replicas, NEW i \in Ids, AddOne(r, i)
      PROVE  CopiesArePast'
  <2>1. /\ op' \in [Replicas -> Op] /\ \A s \in Replicas \ {r} : op'[s] = op[s]
        /\ \/ op'[r] = Idle
           \/ /\ op'[r].kind = op[r].kind /\ op'[r].rows = op[r].rows
              /\ op'[r].todo = op[r].todo \ {i}
    <3>1. op[r] \in Op /\ HandleOne(r, i)
      BY <1>1, <1>6 DEF AddOne
    <3>2. op' \in [Replicas -> Op]
      BY <1>1, <3>1, HandleOneTyped
    <3>. QED
      BY <1>1, <3>1, <3>2 DEF HandleOne, Op
  <2>2. \A s \in Replicas : op'[s].kind = "create" => i \notin op'[s].todo
    BY <1>6, <2>1 DEF AddOne, CopiesArePast, Idle
  <2>3. \A j \in Ids \ {i} : store'[j] = store[j]
    BY <1>1, <1>6 DEF AddOne
  <2>4. \A s \in Replicas : op'[s].todo \subseteq Ids
    BY <2>1 DEF Op
  <2>. QED
    BY <1>3, <2>1, <2>2, <2>3, <2>4
<1>7. ASSUME NEW r \in Replicas, NEW i \in Ids,
             \/ ReadOne(r, i) \/ DecideExpires(r, i) \/ DecideSaves(r, i)
             \/ ExecuteSaves(r, i) \/ Refuse(r, i)
      PROVE  CopiesArePast'
  <2>1. /\ i \in op[r].todo /\ op[r].kind # "create" /\ op[r] \in Op
        /\ HandleOne(r, i) \/ Release(r)
    BY <1>1, <1>7 DEF ReadOne, DecideExpires, DecideSaves, ExecuteSaves, Refuse
  <2>2. op' \in [Replicas -> Op]
    BY <1>1, <2>1, HandleOneTyped, ReleaseTyped
  <2>3. /\ \A s \in Replicas \ {r} : op'[s] = op[s]
        /\ \/ op'[r] = Idle
           \/ /\ op'[r].kind = op[r].kind /\ op'[r].rows = op[r].rows
              /\ op'[r].todo = op[r].todo \ {i}
    <3>1. CASE HandleOne(r, i)
      BY <1>1, <2>1, <2>2, <3>1 DEF HandleOne, Op
    <3>2. CASE Release(r)
      BY <1>1, <2>2, <3>2 DEF Release
    <3>. QED
      BY <2>1, <3>1, <3>2
  <2>4. \A j \in Ids \ {i} : store'[j] = store[j]
    BY <1>1, <1>7 DEF ReadOne, DecideExpires, DecideSaves, ExecuteSaves, Refuse,
       SaveExpired
  <2>5. \A s \in Replicas : op'[s].kind = "create"
          => \A j \in op'[s].todo : store'[j].status = store[j].status
    <3>1. store[i].status # "none"
      BY <2>1 DEF CopiesArePast
    <3>2. \A s \in Replicas : op'[s].kind = "create" => s # r /\ op'[s] = op[s]
      BY <2>1, <2>3 DEF Idle
    <3>3. \A s \in Replicas : op'[s].kind = "create"
            => i \notin op'[s].todo /\ op'[s].todo \subseteq Ids
      BY <1>1, <3>1, <3>2 DEF CopiesArePast
    <3>. QED
      BY <2>4, <3>3
  <2>. QED
    BY <1>3, <2>2, <2>3, <2>5
<1>8. ASSUME NEW r \in Replicas, Crash(r)
      PROVE  CopiesArePast'
  <2>1. UNCHANGED store /\ op' \in [Replicas -> Op] /\ op'[r] = Idle
        /\ \A s \in Replicas \ {r} : op'[s] = op[s]
    BY <1>1, <1>8, ReleaseTyped DEF Crash, Release
  <2>. QED
    BY <2>1 DEF CopiesArePast, Idle
<1>9. CASE UNCHANGED <<store, op>>
  BY <1>9 DEF CopiesArePast
<1>10. ASSUME NEW i \in Ids, i \in Stored
       PROVE  OnlyRow(i)[i] = store[i] /\ {i} \in SUBSET Ids
  BY DEF OnlyRow, NoRows
<1>11. ASSUME NEW r \in Replicas,
              \/ \E i \in Ids : StartGet(r, i)
              \/ \E i \in Ids, a \in Actors, kind \in {"approve", "reject"} :
                   StartDecide(r, kind, i, a)
              \/ \E i \in Ids, a \in Actors : StartExecute(r, i, a)
       PROVE  CopiesArePast'
  <2>1. PICK i \in Ids, kind \in {"read", "approve", "reject", "execute"}, a \in Who :
          i \in Stored /\ Acquire(r, kind, a, {i}, OnlyRow(i))
    BY <1>11 DEF StartGet, StartDecide, StartExecute, Who
  <2>. QED
    BY <1>4, <1>10, <2>1
<1>12. ASSUME NEW r \in Replicas, StartList(r)
       PROVE  CopiesArePast'
  <2>1. Stored \in SUBSET Ids /\ Acquire(r, "read", Nobody, Stored, store)
    BY <1>12 DEF StartList, Stored
  <2>2. PICK i : i \in Stored
    BY <1>12 DEF StartList
  <2>. QED
    BY <1>4, <2>1, <2>2
<1>. QED
  BY <1>5, <1>6, <1>7, <1>8, <1>9, <1>11, <1>12 DEF Next, Finish, vars, TtlElapses

(* A settled row never becomes pending again, and changes only by being carried
   out or by the save of a copy that was read before, whatever the number of
   replicas (service.py save, and the guards of decide and mark_executed). *)
THEOREM SettledRowsAlwaysStand == Spec => SettledRowsStand
<1> DEFINE Stands == \A i \in Ids :
             Settled(store[i]) /\ store'[i] # store[i] =>
               /\ Settled(store'[i])
               /\ \/ CarriedOut(store[i], store'[i])
                  \/ \E r \in serving : SavedStaleCopy(r, i)
           Past == Typed /\ OthersIdle /\ CopiesArePast
<1>1. Init => Past
  BY TypedInit, OthersIdleInit, CopiesArePastInit
<1>2. Past /\ [Next]_vars => Past'
  BY TypedNext, OthersIdleNext, CopiesArePastNext
<1>3. Past /\ [Next]_vars => [Stands]_vars
  <2> SUFFICES ASSUME Past, [Next]_vars, NEW i \in Ids,
                      Settled(store[i]), store'[i] # store[i]
               PROVE  /\ Settled(store'[i])
                      /\ \/ CarriedOut(store[i], store'[i])
                         \/ \E r \in serving : SavedStaleCopy(r, i)
    OBVIOUS
  <2>1. Settled(store'[i]) /\ store[i].status \notin {"none", "pending"}
    BY RowSteps DEF Settled
  <2>2. /\ store \in [Ids -> Row] /\ op \in [Replicas -> Op] /\ ActorKnown
        /\ \A r \in Replicas : op[r] \in Op
    BY DEF Typed, TypeOK
  <2>3. PICK r \in Replicas, j \in Ids :
          ReadOne(r, j) \/ DecideExpires(r, j) \/ DecideSaves(r, j) \/ ExecuteSaves(r, j)
    <3>1. \A r \in Replicas, j \in Ids : AddOne(r, j) => store'[i] = store[i]
      BY <2>1, <2>2 DEF AddOne, CopiesArePast
    <3>. QED
      BY <3>1 DEF Next, Finish, vars, Acquire, StartGet, StartList, StartDecide,
         StartExecute, StartCreate, Refuse, TtlElapses, Crash
  <2>4. j = i
    BY <2>2, <2>3 DEF ReadOne, DecideExpires, DecideSaves, ExecuteSaves, SaveExpired
  <2>5. i \in op[r].todo /\ (HandleOne(r, i) \/ Release(r))
    BY <2>3, <2>4 DEF ReadOne, DecideExpires, DecideSaves, ExecuteSaves
  <2>6. r \in serving
    BY <2>5 DEF OthersIdle, Idle
  <2>7. op'[r] # op[r]
    <3>1. op[r] \in Op /\ op[r] # Idle
      BY <2>2, <2>5 DEF Idle
    <3>2. CASE Release(r)
      BY <2>2, <3>1, <3>2 DEF Release
    <3>3. CASE HandleOne(r, i)
      <4>1. op'[r] = Idle \/ op'[r].todo = op[r].todo \ {i}
        BY <2>2, <3>1, <3>3 DEF HandleOne, Op
      <4>. QED
        BY <2>5, <3>1, <4>1
    <3>. QED
      BY <2>5, <3>2, <3>3
  <2>8. CASE op[r].rows[i] # store[i]
    <3>1. SavedStaleCopy(r, i)
      BY <2>5, <2>7, <2>8 DEF SavedStaleCopy
    <3>. QED
      BY <2>1, <2>6, <3>1
  <2>9. CASE op[r].rows[i] = store[i]
    <3>1. op[r].rows[i].status # "pending"
      BY <2>1, <2>9
    <3>2. ExecuteSaves(r, i)
      BY <2>1, <2>3, <2>4, <3>1 DEF ReadOne, DecideExpires, DecideSaves, FoundLapsed,
         ExpiresIf, MayDecide
    <3>3. op[r].actor \in Actors /\ store'[i] = Executed(store[i], op[r].actor)
      BY <2>2, <2>9, <3>2 DEF ExecuteSaves, ActorKnown
    <3>4. store[i].status = "approved"
      BY <2>9, <3>2 DEF ExecuteSaves, MayExecute
    <3>. QED
      BY <2>1, <3>3, <3>4 DEF CarriedOut
  <2>. QED
    BY <2>1, <2>8, <2>9
<1>. QED
  BY <1>1, <1>2, <1>3, PTL DEF Spec, SettledRowsStand

-----------------------------------------------------------------------------
(* One decision for each process, and executions of what was approved. *)

(* The processes that may still decide request i: they read it as pending. *)
Holders(i) ==
  {r \in serving : /\ op[r].kind \in {"approve", "reject"}
                   /\ i \in op[r].todo
                   /\ op[r].rows[i].status = "pending"}

(* The decisions told and those that may still be are one a process. *)
Counted ==
  /\ IsFiniteSet(acks)
  /\ \A i \in Ids :
       IF Settled(store[i])
       THEN Cardinality(Decisions(i)) + Cardinality(Holders(i)) <= Cardinality(serving)
       ELSE Decisions(i) = {}

(* An approval that the store or a copy shows is one somebody was told of, and
   so was the approval behind an execution. *)
ToldApproved(i) == \E y \in Decisions(i) : y.told = "approved"

Backed ==
  /\ \A i \in Ids : store[i].status \in {"approved", "executed"} => ToldApproved(i)
  /\ \A r \in Replicas, i \in Ids :
       op[r].rows[i].status \in {"approved", "executed"} => ToldApproved(i)
  /\ \A x \in acks : x.told = "executed" => ToldApproved(x.id)

(* The processes that serve are finitely many. *)
LEMMA ServingFinite ==
  ASSUME TypeOK
  PROVE  IsFiniteSet(serving) /\ Cardinality(serving) \in Nat
<1>1. serving \in SUBSET Replicas
  BY ApprovalAssumption DEF TypeOK
<1>. QED
  BY <1>1, ApprovalAssumption, FS_Subset, FS_CardinalityType

(* A process comes to hold a request as pending only while it is pending. *)
LEMMA HoldersStep ==
  ASSUME Typed, [Next]_vars, NEW i \in Ids, store[i].status # "pending"
  PROVE  Holders(i)' \subseteq Holders(i)
<1>1. /\ op \in [Replicas -> Op] /\ serving' = serving
      /\ \A r \in Replicas : op[r] \in Op
  BY ServingStays DEF Typed, TypeOK
<1>2. ASSUME NEW r \in Replicas,
             \/ op'[r] = op[r] \/ op'[r] = Idle
             \/ /\ op'[r].kind = op[r].kind /\ op'[r].rows = op[r].rows
                /\ op'[r].todo \subseteq op[r].todo
             \/ op'[r].rows[i].status # "pending"
             \/ op'[r].kind \notin {"approve", "reject"}
      PROVE  r \in Holders(i)' => r \in Holders(i)
  BY <1>1, <1>2 DEF Holders, Idle
<1>3. ASSUME NEW s \in Replicas, NEW j \in Ids, HandleOne(s, j) \/ Release(s),
             NEW r \in Replicas
      PROVE  r \in Holders(i)' => r \in Holders(i)
  <2>1. CASE r # s
    BY <1>1, <1>2, <1>3, <2>1 DEF HandleOne, Release
  <2>2. CASE r = s /\ Release(s)
    BY <1>1, <1>2, <2>2 DEF Release
  <2>3. CASE r = s /\ HandleOne(s, j)
    <3>1. \/ op'[r] = Idle
          \/ op'[r] = [op[r] EXCEPT !.todo = @ \ {j},
                                    !.overdue = due \cap (op[r].todo \ {j})]
      BY <1>1, <2>3 DEF HandleOne
    <3>2. \/ op'[r] = Idle
          \/ /\ op'[r].kind = op[r].kind /\ op'[r].rows = op[r].rows
             /\ op'[r].todo \subseteq op[r].todo
      BY <1>1, <3>1 DEF Op
    <3>. QED
      BY <1>2, <3>2
  <2>. QED
    BY <1>3, <2>1, <2>2, <2>3
<1>4. ASSUME NEW s \in Replicas, NEW kind, NEW a, NEW todo, NEW rows,
             Acquire(s, kind, a, todo, rows),
             kind \notin {"approve", "reject"} \/ rows[i].status # "pending",
             NEW r \in Replicas
      PROVE  r \in Holders(i)' => r \in Holders(i)
  <2>1. op'[s].kind = kind /\ op'[s].rows = rows /\ (r # s => op'[r] = op[r])
    BY <1>1, <1>4 DEF Acquire
  <2>. QED
    BY <1>2, <1>4, <2>1
<1>5. ASSUME NEW j \in Ids
      PROVE  OnlyRow(j)[i].status # "pending"
  BY DEF OnlyRow, NoRows, Absent
<1>6. ASSUME NEW s \in Replicas, NEW r \in Replicas,
             \/ \E j \in Ids : StartGet(s, j)
             \/ StartList(s)
             \/ \E j \in Ids, a \in Actors, kind \in {"approve", "reject"} :
                  StartDecide(s, kind, j, a)
             \/ \E j \in Ids, a \in Actors : StartExecute(s, j, a)
             \/ \E a \in Requesters, new \in SUBSET Ids : StartCreate(s, a, new)
      PROVE  r \in Holders(i)' => r \in Holders(i)
  <2>1. ASSUME NEW j \in Ids, StartGet(s, j)
        PROVE  r \in Holders(i)' => r \in Holders(i)
    BY <1>4, <2>1 DEF StartGet
  <2>2. CASE StartList(s)
    BY <1>4, <2>2 DEF StartList
  <2>3. ASSUME NEW j \in Ids, NEW k \in {"approve", "reject"}, NEW a \in Actors,
               StartDecide(s, k, j, a)
        PROVE  r \in Holders(i)' => r \in Holders(i)
    BY <1>4, <1>5, <2>3 DEF StartDecide
  <2>4. ASSUME NEW j \in Ids, NEW a \in Actors, StartExecute(s, j, a)
        PROVE  r \in Holders(i)' => r \in Holders(i)
    BY <1>4, <2>4 DEF StartExecute
  <2>5. ASSUME NEW a \in Requesters, NEW new \in SUBSET Ids, StartCreate(s, a, new)
        PROVE  r \in Holders(i)' => r \in Holders(i)
    BY <1>4, <2>5 DEF StartCreate
  <2>. QED
    BY <1>6, <2>1, <2>2, <2>3, <2>4, <2>5
<1>7. CASE UNCHANGED op
  BY <1>1, <1>7 DEF Holders
<1>8. ASSUME NEW s \in Replicas, Finish(s) \/ Crash(s), NEW r \in Replicas
      PROVE  r \in Holders(i)' => r \in Holders(i)
  BY <1>3, <1>8 DEF Finish, Crash, AddOne, ReadOne, DecideExpires, DecideSaves,
     ExecuteSaves, Refuse
<1>9. \A r \in Replicas : r \in Holders(i)' => r \in Holders(i)
  BY <1>6, <1>7, <1>8 DEF Next, vars, TtlElapses
<1>10. serving \subseteq Replicas
  BY ApprovalAssumption DEF Typed, TypeOK
<1>. QED
  BY <1>1, <1>9, <1>10 DEF Holders

(* A decision is told by a process that held the request, settles it, and
   leaves that process out of the holders. *)
LEMMA DecisionsStep ==
  ASSUME Typed, OthersIdle, [Next]_vars, NEW i \in Ids
  PROVE  \/ Decisions(i)' = Decisions(i)
         \/ /\ Settled(store'[i])
            /\ \E r \in Holders(i) : /\ r \notin Holders(i)'
                                     /\ \E x : Decisions(i)' = Decisions(i) \cup {x}
<1>1. /\ op \in [Replicas -> Op] /\ store \in [Ids -> Row] /\ acks \subseteq Ack
      /\ \A r \in Replicas : op[r] \in Op
  BY DEF Typed, TypeOK
<1>2. ASSUME NEW r \in Replicas, NEW j \in Ids, DecideSaves(r, j), j # i
      PROVE  Decisions(i)' = Decisions(i)
  BY <1>2 DEF DecideSaves, Decisions
<1>3. ASSUME NEW r \in Replicas, NEW j \in Ids, ExecuteSaves(r, j)
      PROVE  Decisions(i)' = Decisions(i)
  BY <1>3 DEF ExecuteSaves, Decisions
<1>4. ASSUME NEW r \in Replicas, DecideSaves(r, i)
      PROVE  /\ Settled(store'[i])
             /\ r \in Holders(i) /\ r \notin Holders(i)'
             /\ \E x : Decisions(i)' = Decisions(i) \cup {x}
  <2> DEFINE q == Decided(op[r].rows[i], op[r].kind, op[r].actor)
             x == [id |-> i, told |-> q.status, actor |-> op[r].actor]
  <2>1. op[r].rows[i] \in Row /\ op[r].kind \in {"approve", "reject"} /\ i \in op[r].todo
        /\ op[r].rows[i].status = "pending"
    BY <1>1, <1>4 DEF DecideSaves, MayDecide, Op
  <2>2. q.status \in {"approved", "rejected"} /\ Settled(q)
    BY <2>1, WritesSettle DEF Decided, Row
  <2>3. store'[i] = q /\ acks' = acks \cup {x} /\ Release(r)
    BY <1>1, <1>4 DEF DecideSaves
  <2>4. r \in Holders(i)
    <3>1. op[r] # Idle
      BY <2>1 DEF Idle
    <3>. QED
      BY <2>1, <3>1 DEF Holders, OthersIdle
  <2>5. r \notin Holders(i)'
    BY <1>1, <2>3 DEF Release, Holders, Idle
  <2>6. Decisions(i)' = Decisions(i) \cup {x}
    BY <2>2, <2>3 DEF Decisions
  <2>. QED
    BY <2>2, <2>3, <2>4, <2>5, <2>6
<1>5. CASE UNCHANGED acks
  BY <1>5 DEF Decisions
<1>. QED
  BY <1>2, <1>3, <1>4, <1>5 DEF Next, Finish, vars, Acquire, StartGet, StartList,
     StartDecide, StartExecute, StartCreate, AddOne, ReadOne, DecideExpires, Refuse,
     TtlElapses, Crash

(* A step tells at most one caller. *)
LEMMA AcksStep ==
  ASSUME [Next]_vars
  PROVE  acks' = acks \/ \E x : acks' = acks \cup {x}
<1>1. ASSUME NEW r \in Replicas, NEW i \in Ids, DecideSaves(r, i)
      PROVE  \E x : acks' = acks \cup {x}
  BY <1>1 DEF DecideSaves
<1>2. ASSUME NEW r \in Replicas, NEW i \in Ids, ExecuteSaves(r, i)
      PROVE  \E x : acks' = acks \cup {x}
  BY <1>2 DEF ExecuteSaves
<1>. QED
  BY <1>1, <1>2 DEF Next, Finish, vars, Acquire, StartGet, StartList, StartDecide,
     StartExecute, StartCreate, AddOne, ReadOne, DecideExpires, Refuse, TtlElapses, Crash

(* The decisions told of a request are finitely many. *)
LEMMA CountsAreNumbers ==
  ASSUME TypeOK, IsFiniteSet(acks), NEW i \in Ids
  PROVE  /\ IsFiniteSet(Decisions(i)) /\ Cardinality(Decisions(i)) \in Nat
         /\ IsFiniteSet(Holders(i)) /\ Cardinality(Holders(i)) \in Nat
<1>1. Decisions(i) \in SUBSET acks /\ Holders(i) \in SUBSET serving
  BY DEF Decisions, Holders
<1>. QED
  BY <1>1, ServingFinite, FS_Subset, FS_CardinalityType

(* Nothing was told in the beginning, ... *)
LEMMA CountedInit == Init => Counted /\ Backed
BY FS_EmptySet DEF Init, Counted, Backed, Decisions, Settled, NoRows, Absent, Idle

(* ... a step that tells of a decision uses a holder up, ... *)
LEMMA CountedNext ==
  ASSUME Typed, OthersIdle, CopiesArePast, Counted, [Next]_vars
  PROVE  Counted'
<1>1. TypeOK /\ TypeOK' /\ serving' = serving
  BY TypedNext, ServingStays DEF Typed
<1>2. IsFiniteSet(acks')
  <2>1. acks' = acks \/ \E x : acks' = acks \cup {x}
    BY AcksStep
  <2>. QED
    BY <2>1, FS_AddElement DEF Counted
<1>3. ASSUME NEW i \in Ids
      PROVE  IF Settled(store'[i])
             THEN Cardinality(Decisions(i)') + Cardinality(Holders(i)') <= Cardinality(serving)
             ELSE Decisions(i)' = {}
  <2>1. /\ IsFiniteSet(Decisions(i)) /\ Cardinality(Decisions(i)) \in Nat
        /\ IsFiniteSet(Holders(i)) /\ Cardinality(Holders(i)) \in Nat
    BY <1>1, CountsAreNumbers DEF Counted
  <2>2. /\ IsFiniteSet(Decisions(i)') /\ Cardinality(Decisions(i)') \in Nat
        /\ IsFiniteSet(Holders(i)') /\ Cardinality(Holders(i)') \in Nat
    <3>1. (TypeOK /\ IsFiniteSet(acks) => IsFiniteSet(Decisions(i))
             /\ Cardinality(Decisions(i)) \in Nat /\ IsFiniteSet(Holders(i))
             /\ Cardinality(Holders(i)) \in Nat)'
      BY CountsAreNumbers, PTL
    <3>. QED
      BY <1>1, <1>2, <3>1
  <2>3. IsFiniteSet(serving) /\ Cardinality(serving) \in Nat
    BY <1>1, ServingFinite
  <2>4. Settled(store[i]) => Settled(store'[i])
    BY RowSteps DEF Settled
  <2>5. Settled(store[i]) => Holders(i)' \in SUBSET Holders(i)
    BY HoldersStep DEF Settled
  <2>6. Holders(i)' \in SUBSET serving
    BY <1>1 DEF Holders
  <2>7. CASE Decisions(i)' = Decisions(i)
    <3>1. CASE Settled(store[i])
      <4>1. Cardinality(Holders(i)') <= Cardinality(Holders(i))
        BY <2>1, <2>5, <3>1, FS_Subset
      <4>. QED
        BY <2>1, <2>2, <2>3, <2>4, <2>7, <3>1, <4>1 DEF Counted
    <3>2. CASE ~ Settled(store[i])
      <4>1. Cardinality(Holders(i)') <= Cardinality(serving)
        BY <2>3, <2>6, FS_Subset
      <4>2. Decisions(i)' = {} /\ Cardinality(Decisions(i)') = 0
        BY <2>7, <3>2, FS_EmptySet DEF Counted
      <4>. QED
        BY <2>2, <2>3, <4>1, <4>2
    <3>. QED
      BY <3>1, <3>2
  <2>8. ASSUME NEW r \in Holders(i), NEW x, Settled(store'[i]),
               Decisions(i)' = Decisions(i) \cup {x}, r \notin Holders(i)'
        PROVE  Cardinality(Decisions(i)') + Cardinality(Holders(i)') <= Cardinality(serving)
    <3>1. Cardinality(Decisions(i)') <= Cardinality(Decisions(i)) + 1
      <4>1. Cardinality(Decisions(i) \cup {x})
              = IF x \in Decisions(i) THEN Cardinality(Decisions(i))
                ELSE Cardinality(Decisions(i)) + 1
        BY <2>1, FS_AddElement
      <4>. QED
        BY <2>1, <2>8, <4>1
    <3>2. CASE Settled(store[i])
      <4>1. Holders(i)' \in SUBSET (Holders(i) \ {r})
        BY <2>5, <2>8, <3>2
      <4>2. /\ IsFiniteSet(Holders(i) \ {r})
            /\ Cardinality(Holders(i) \ {r}) = Cardinality(Holders(i)) - 1
        BY <2>1, <2>8, FS_RemoveElement
      <4>3. Cardinality(Holders(i)') <= Cardinality(Holders(i) \ {r})
        BY <4>1, <4>2, FS_Subset
      <4>4. Cardinality(Decisions(i)) + Cardinality(Holders(i)) <= Cardinality(serving)
        BY <3>2 DEF Counted
      <4>. QED
        BY <2>1, <2>2, <2>3, <3>1, <4>2, <4>3, <4>4
    <3>3. CASE ~ Settled(store[i])
      <4>1. Holders(i)' \in SUBSET (serving \ {r}) /\ r \in serving
        BY <2>6, <2>8 DEF Holders
      <4>2. /\ IsFiniteSet(serving \ {r})
            /\ Cardinality(serving \ {r}) = Cardinality(serving) - 1
        BY <2>3, <4>1, FS_RemoveElement
      <4>3. Cardinality(Holders(i)') <= Cardinality(serving \ {r})
        BY <4>1, <4>2, FS_Subset
      <4>q. Decisions(i) = {}
        BY <3>3 DEF Counted
      <4>4. Cardinality(Decisions(i)) = 0
        BY <4>q, FS_EmptySet
      <4>. QED
        BY <2>1, <2>2, <2>3, <3>1, <4>2, <4>3, <4>4
    <3>. QED
      BY <3>2, <3>3
  <2>. QED
    BY <2>7, <2>8, DecisionsStep
<1>. QED
  BY <1>1, <1>2, <1>3 DEF Counted

(* ... and what the store or a copy says was approved, somebody was told of. *)
LEMMA BackedNext ==
  ASSUME Typed, Backed, [Next]_vars
  PROVE  Backed'
<1>1. /\ op \in [Replicas -> Op] /\ store \in [Ids -> Row] /\ acks \subseteq Ack
      /\ op' \in [Replicas -> Op] /\ \A r \in Replicas : op[r] \in Op /\ op'[r] \in Op
  BY TypedNext DEF Typed, TypeOK
<1>2. acks \subseteq acks'
  <2>1. acks' = acks \/ \E x : acks' = acks \cup {x}
    BY AcksStep
  <2>. QED
    BY <2>1
<1>3. \A i \in Ids : ToldApproved(i) => ToldApproved(i)'
  BY <1>2 DEF ToldApproved, Decisions
<1>4. ASSUME NEW r \in Replicas, NEW i \in Ids
      PROVE  op'[r].rows[i].status \in {"approved", "executed"} => ToldApproved(i)
  <2>1. \/ op'[r].rows = op[r].rows
        \/ op'[r].rows = NoRows
        \/ op'[r].rows = store
        \/ \E j \in Ids : op'[r].rows = OnlyRow(j)
    <3>1. ASSUME NEW s \in Replicas, NEW j \in Ids, HandleOne(s, j) \/ Release(s)
          PROVE  op'[r].rows = op[r].rows \/ op'[r].rows = NoRows
      <4>1. CASE Release(s)
        BY <1>1, <4>1 DEF Release, Idle
      <4>2. CASE HandleOne(s, j)
        BY <1>1, <4>2 DEF HandleOne, Idle, Op
      <4>. QED
        BY <3>1, <4>1, <4>2
    <3>2. ASSUME NEW s \in Replicas, Finish(s) \/ Crash(s)
          PROVE  op'[r].rows = op[r].rows \/ op'[r].rows = NoRows
      BY <3>1, <3>2 DEF Finish, Crash, AddOne, ReadOne, DecideExpires, DecideSaves,
         ExecuteSaves, Refuse
    <3>3. ASSUME NEW s \in Replicas, NEW kind, NEW a, NEW todo, NEW rows,
                 Acquire(s, kind, a, todo, rows)
          PROVE  op'[r].rows = op[r].rows \/ op'[r].rows = rows
      BY <1>1, <3>3 DEF Acquire
    <3>4. CASE UNCHANGED op
      BY <3>4
    <3>. QED
      BY <3>2, <3>3, <3>4 DEF Next, vars, TtlElapses, StartGet, StartList, StartDecide,
         StartExecute, StartCreate
  <2>2. CASE op'[r].rows = op[r].rows
    BY <2>2 DEF Backed
  <2>3. CASE op'[r].rows = NoRows
    BY <2>3 DEF NoRows, Absent
  <2>4. CASE op'[r].rows = store
    BY <2>4 DEF Backed
  <2>5. ASSUME NEW j \in Ids, op'[r].rows = OnlyRow(j)
        PROVE  op'[r].rows[i].status \in {"approved", "executed"} => ToldApproved(i)
    <3>1. op'[r].rows[i] = store[i] \/ op'[r].rows[i] = Absent
      BY <2>5 DEF OnlyRow, NoRows
    <3>. QED
      BY <3>1 DEF Backed, Absent
  <2>. QED
    BY <2>1, <2>2, <2>3, <2>4, <2>5
<1>5. ASSUME NEW i \in Ids
      PROVE  store'[i].status \in {"approved", "executed"} => ToldApproved(i)'
  <2>1. ASSUME NEW r \in Replicas, NEW j \in Ids, DecideSaves(r, j), j = i,
               store'[i].status \in {"approved", "executed"}
        PROVE  ToldApproved(i)'
    <3> DEFINE q == Decided(op[r].rows[j], op[r].kind, op[r].actor)
    <3>1. store'[i] = q /\ [id |-> i, told |-> q.status, actor |-> op[r].actor] \in acks'
      BY <1>1, <2>1 DEF DecideSaves
    <3>2. q.status \in {"approved", "rejected"}
      BY <1>1, <2>1 DEF Decided, Op, Row
    <3>. QED
      BY <2>1, <3>1, <3>2 DEF ToldApproved, Decisions
  <2>2. ASSUME NEW r \in Replicas, NEW j \in Ids, ExecuteSaves(r, j), j = i
        PROVE  ToldApproved(i)'
    BY <1>3, <2>2 DEF ExecuteSaves, MayExecute, Backed
  <2>3. ASSUME NEW r \in Replicas, NEW j \in Ids,
               \/ AddOne(r, j) \/ ReadOne(r, j) \/ DecideExpires(r, j)
               \/ j # i /\ (DecideSaves(r, j) \/ ExecuteSaves(r, j))
        PROVE  store'[i] = store[i] \/ store'[i].status \in {"pending", "expired"}
    <3>1. CASE j # i
      BY <1>1, <2>3, <3>1 DEF AddOne, ReadOne, DecideExpires, DecideSaves,
         ExecuteSaves, SaveExpired
    <3>2. CASE AddOne(r, j)
      BY <1>1, <3>1, <3>2 DEF AddOne, Absent
    <3>3. CASE ReadOne(r, j) \/ DecideExpires(r, j)
      <4>1. op[r].rows[j] \in Row
        BY <1>1 DEF Op
      <4>2. UNCHANGED store \/ SaveExpired(r, j)
        BY <3>3 DEF ReadOne, DecideExpires
      <4>. QED
        BY <1>1, <3>1, <4>1, <4>2 DEF SaveExpired, Row
    <3>. QED
      BY <2>3, <3>1, <3>2, <3>3
  <2>4. CASE UNCHANGED store
    BY <1>3, <2>4 DEF Backed
  <2>5. ASSUME NEW r \in Replicas, NEW j \in Ids,
               \/ AddOne(r, j) \/ ReadOne(r, j) \/ DecideExpires(r, j)
               \/ DecideSaves(r, j) \/ ExecuteSaves(r, j)
        PROVE  store'[i].status \in {"approved", "executed"} => ToldApproved(i)'
    BY <1>3, <2>1, <2>2, <2>3, <2>5 DEF Backed
  <2>. QED
    BY <2>4, <2>5 DEF Next, Finish, vars, Acquire, StartGet, StartList, StartDecide,
       StartExecute, StartCreate, Refuse, TtlElapses, Crash
<1>6. ASSUME NEW x \in acks', x.told = "executed"
      PROVE  ToldApproved(x.id)'
  <2>1. CASE x \in acks
    BY <1>1, <1>3, <1>6, <2>1 DEF Backed, Ack
  <2>2. ASSUME NEW r \in Replicas, NEW j \in Ids, ExecuteSaves(r, j), x \notin acks
        PROVE  ToldApproved(x.id)'
    BY <1>3, <1>6, <2>2 DEF ExecuteSaves, MayExecute, Backed
  <2>3. ASSUME NEW r \in Replicas, NEW j \in Ids, DecideSaves(r, j)
        PROVE  x \in acks
    BY <1>1, <1>6, <2>3 DEF DecideSaves, Decided, Op, Row
  <2>4. CASE UNCHANGED acks
    BY <1>6, <2>1, <2>4
  <2>. QED
    BY <2>1, <2>2, <2>3, <2>4 DEF Next, Finish, vars, Acquire, StartGet, StartList,
       StartDecide, StartExecute, StartCreate, AddOne, ReadOne, DecideExpires, Refuse,
       TtlElapses, Crash
<1>. QED
  BY <1>3, <1>4, <1>5, <1>6 DEF Backed

(* Replicas that race tell of one decision each at the most, and of executions
   only after an approval, however many serve (service.py decide,
   mark_executed). *)
THEOREM OneDecisionEachHolds == Spec => []OneDecisionEach
<1> DEFINE Races == /\ Typed /\ OthersIdle /\ CopiesArePast
                    /\ Counted /\ Backed
<1>1. Init => Races
  BY TypedInit, OthersIdleInit, CopiesArePastInit, CountedInit
<1>2. Races /\ [Next]_vars => Races'
  BY TypedNext, OthersIdleNext, CopiesArePastNext, CountedNext, BackedNext
<1>3. Races => OneDecisionEach
  <2> SUFFICES ASSUME Races PROVE OneDecisionEach
    OBVIOUS
  <2>1. ASSUME NEW i \in Ids
        PROVE  Cardinality(Decisions(i)) <= Cardinality(serving)
    <3>1. /\ Cardinality(Decisions(i)) \in Nat /\ Cardinality(Holders(i)) \in Nat
          /\ Cardinality(serving) \in Nat
      BY CountsAreNumbers, ServingFinite DEF Typed, Counted
    <3>2. CASE Settled(store[i])
      BY <3>1, <3>2 DEF Counted
    <3>3. CASE ~ Settled(store[i])
      <4>1. Decisions(i) = {}
        BY <3>3 DEF Counted
      <4>2. Cardinality(Decisions(i)) = 0
        BY <4>1, FS_EmptySet
      <4>. QED
        BY <3>1, <4>2
    <3>. QED
      BY <3>2, <3>3
  <2>2. \A x \in acks : x.told = "executed" => \E y \in Decisions(x.id) : y.told = "approved"
    BY DEF Backed, ToldApproved
  <2>. QED
    BY <2>1, <2>2 DEF OneDecisionEach
<1>. QED
  BY <1>1, <1>2, <1>3, PTL DEF Spec

-----------------------------------------------------------------------------
(* One process alone: its lock makes every operation indivisible. *)

(* The copy an operation still has to handle is the row itself, and the ids a
   creation still has to add are unused. *)
CopyCurrent ==
  /\ \A i \in Ids : store[i].status = "none" => store[i] = Absent
  /\ \A r \in Replicas : \A i \in op[r].todo :
       IF op[r].kind = "create" THEN store[i] = Absent
       ELSE op[r].rows[i] = store[i] /\ store[i].status # "none"

(* Nobody holds a copy in the beginning, ... *)
LEMMA CopyCurrentInit == Init => CopyCurrent
BY DEF Init, CopyCurrent, NoRows, Idle

(* ... and where one process serves a copy stays what the row says while it is
   held. *)
LEMMA CopyCurrentNext ==
  ASSUME Alone, OthersIdle, Typed, CopyCurrent, [Next]_vars
  PROVE  CopyCurrent'
<1>1. TypeOK /\ ActorKnown /\ \A r \in Replicas : op[r] \in Op
  BY DEF Typed, TypeOK
<1>q. ASSUME NEW r \in serving, NEW s \in Replicas, s # r
      PROVE  op[s] = Idle /\ op[s].todo = {}
  <2>1. r \in Replicas /\ s \notin serving
    BY <1>q DEF Alone, Typed, TypeOK
  <2>2. op[s] = Idle
    BY <1>q, <2>1 DEF OthersIdle
  <2>. QED
    BY <2>2 DEF Idle
<1>r. ASSUME NEW r \in Replicas, op[r] # Idle
      PROVE  r \in serving
  BY <1>r DEF OthersIdle
<1>t. ASSUME NEW r \in Replicas, NEW i \in op[r].todo
      PROVE  r \in serving
  BY <1>r, <1>t DEF Idle
<1>2. ASSUME NEW r \in Replicas, NEW kind, NEW a, NEW todo \in SUBSET Ids, NEW rows,
             Acquire(r, kind, a, todo, rows),
             \A i \in todo : IF kind = "create" THEN store[i] = Absent
                             ELSE rows[i] = store[i] /\ store[i].status # "none"
      PROVE  CopyCurrent'
  BY <1>1, <1>q, <1>2 DEF Acquire, CopyCurrent, TypeOK
<1>3. ASSUME NEW r \in Replicas, r \in serving, NEW i \in Ids, NEW q \in Row, q.status # "none",
             store' = [store EXCEPT ![i] = q], Release(r)
      PROVE  CopyCurrent'
  BY <1>1, <1>q, <1>3 DEF Release, Idle, CopyCurrent, TypeOK
<1>4. ASSUME NEW r \in Replicas, r \in serving, NEW i \in Ids, NEW q \in Row, q.status # "none",
             store' = [store EXCEPT ![i] = q], HandleOne(r, i)
      PROVE  CopyCurrent'
  <2>1. CASE op[r].todo = {i}
    BY <1>3, <1>4, <2>1 DEF HandleOne, Release
  <2>2. CASE op[r].todo # {i}
    BY <1>1, <1>q, <1>4, <2>2 DEF HandleOne, CopyCurrent, TypeOK, Op
  <2>. QED
    BY <2>1, <2>2
<1>5. ASSUME NEW r \in Replicas, r \in serving, UNCHANGED store, Release(r)
      PROVE  CopyCurrent'
  BY <1>1, <1>q, <1>5 DEF Release, Idle, CopyCurrent, TypeOK
<1>6. ASSUME NEW r \in Replicas, r \in serving, NEW i \in Ids, UNCHANGED store, HandleOne(r, i)
      PROVE  CopyCurrent'
  BY <1>1, <1>q, <1>5, <1>6 DEF HandleOne, Release, CopyCurrent, TypeOK, Op
<1>7. ASSUME NEW r \in Replicas, NEW i \in Ids
      PROVE  [op[r].rows[i] EXCEPT !.status = "expired"] \in Row
  BY <1>1, <1>7 DEF Op, Row, Status
<1>8. ASSUME NEW r \in Replicas, NEW i \in Ids, AddOne(r, i)
      PROVE  CopyCurrent'
  <2>1. op[r].actor \in Actors
    BY <1>1, <1>8 DEF AddOne, ActorKnown
  <2>2. [Absent EXCEPT !.status = "pending", !.requested_by = op[r].actor] \in Row
    BY <2>1, WrittenRows, AbsentIsRow
  <2>. QED
    BY <1>4, <1>8, <1>t, <2>2 DEF AddOne, Absent
<1>9. ASSUME NEW r \in Replicas, NEW i \in Ids, ReadOne(r, i)
      PROVE  CopyCurrent'
  <2> DEFINE q == [op[r].rows[i] EXCEPT !.status = "expired"]
  <2>1. r \in serving /\ HandleOne(r, i)
    BY <1>9, <1>t DEF ReadOne
  <2>2. q \in Row /\ q.status # "none"
    BY <1>1, <1>7 DEF Op, Row
  <2>3. store' = [store EXCEPT ![i] = q] \/ UNCHANGED store
    BY <1>9 DEF ReadOne, SaveExpired
  <2> HIDE DEF q
  <2>. QED
    BY <1>4, <1>6, <2>1, <2>2, <2>3
<1>10. ASSUME NEW r \in Replicas, NEW i \in Ids, DecideExpires(r, i)
       PROVE  CopyCurrent'
  <2> DEFINE q == [op[r].rows[i] EXCEPT !.status = "expired"]
  <2>1. r \in serving /\ Release(r)
    BY <1>10, <1>t DEF DecideExpires
  <2>2. q \in Row /\ q.status # "none"
    BY <1>1, <1>7 DEF Op, Row
  <2>3. store' = [store EXCEPT ![i] = q]
    BY <1>10 DEF DecideExpires, SaveExpired
  <2> HIDE DEF q
  <2>. QED
    BY <1>3, <2>1, <2>2, <2>3
<1>11. ASSUME NEW r \in Replicas, NEW i \in Ids, DecideSaves(r, i)
       PROVE  CopyCurrent'
  <2>1. op[r].actor \in Actors /\ op[r].rows[i] \in Row
    BY <1>1, <1>11 DEF DecideSaves, ActorKnown, Op
  <2>2. /\ Decided(op[r].rows[i], op[r].kind, op[r].actor) \in Row
        /\ Decided(op[r].rows[i], op[r].kind, op[r].actor).status # "none"
    BY <2>1, WrittenRows DEF Decided, Row
  <2>. QED
    BY <1>3, <1>11, <1>t, <2>2 DEF DecideSaves
<1>12. ASSUME NEW r \in Replicas, NEW i \in Ids, ExecuteSaves(r, i)
       PROVE  CopyCurrent'
  <2>1. op[r].actor \in Actors /\ op[r].rows[i] \in Row
    BY <1>1, <1>12 DEF ExecuteSaves, ActorKnown, Op
  <2>2. /\ Executed(op[r].rows[i], op[r].actor) \in Row
        /\ Executed(op[r].rows[i], op[r].actor).status # "none"
    BY <2>1, WrittenRows DEF Executed, Row
  <2>. QED
    BY <1>3, <1>12, <1>t, <2>2 DEF ExecuteSaves
<1>13. ASSUME NEW r \in Replicas, NEW i \in Ids, Refuse(r, i)
       PROVE  CopyCurrent'
  BY <1>5, <1>13, <1>t DEF Refuse
<1>14. ASSUME NEW r \in Replicas, Crash(r)
       PROVE  CopyCurrent'
  BY <1>5, <1>14, <1>r DEF Crash
<1>15. ASSUME NEW i \in Ids, TtlElapses(i)
       PROVE  CopyCurrent'
  BY <1>15 DEF TtlElapses, CopyCurrent
<1>16. CASE UNCHANGED vars
  BY <1>16 DEF vars, CopyCurrent
<1>17. ASSUME NEW r \in Replicas, NEW i \in Stored, NEW kind, NEW a, kind # "create",
              Acquire(r, kind, a, {i}, OnlyRow(i))
       PROVE  CopyCurrent'
  <2>1. i \in Ids /\ store[i].status # "none" /\ OnlyRow(i)[i] = store[i]
    BY <1>17 DEF Stored, OnlyRow, NoRows
  <2>. QED
    BY <1>2, <1>17, <2>1
<1>18. ASSUME NEW r \in Replicas, StartList(r)
       PROVE  CopyCurrent'
  BY <1>2, <1>18 DEF StartList, Stored
<1>19. ASSUME NEW r \in Replicas, NEW a \in Requesters, NEW new \in SUBSET Ids,
              StartCreate(r, a, new)
       PROVE  CopyCurrent'
  <2>1. \A i \in new : store[i] = Absent
    BY <1>19 DEF StartCreate, Taken, Stored, CopyCurrent
  <2>. QED
    BY <1>2, <1>19, <2>1 DEF StartCreate
<1>. QED
  BY <1>8, <1>9, <1>10, <1>11, <1>12, <1>13, <1>14, <1>15, <1>16, <1>17, <1>18,
     <1>19 DEF Next, Finish, StartGet, StartDecide, StartExecute

(* One process alone: the service implements its protocol. *)

(* A sole process shows its table, before and after a step. *)
LEMMA ShownAlone ==
  ASSUME Alone, UNCHANGED serving
  PROVE  \A i \in Ids : Shown(i) = store[i] /\ Shown(i)' = store'[i]
<1>1. Alone'
  BY DEF Alone
<1>. QED
  BY <1>1 DEF Shown

(* Writing one row moves one request of the protocol. *)
LEMMA RowMoves ==
  ASSUME TypeOK, Alone, UNCHANGED serving,
         NEW i \in Ids, NEW q \in Row, store' = [store EXCEPT ![i] = q]
  PROVE  /\ Life' = [Life EXCEPT ![i] = q.status]
         /\ RaisedBy' = [RaisedBy EXCEPT ![i] = q.requested_by]
         /\ DecidedBy' = [DecidedBy EXCEPT ![i] = q.decided_by]
BY ShownAlone DEF TypeOK, Life, RaisedBy, DecidedBy

(* Saving a row that names the same people leaves the history of the
   protocol alone. *)
LEMMA SameEntry ==
  ASSUME TypeOK, Alone, UNCHANGED serving,
         NEW i \in Ids, NEW q \in Row, store' = [store EXCEPT ![i] = q]
  PROVE  /\ q.requested_by = store[i].requested_by => RaisedBy' = RaisedBy
         /\ q.decided_by = store[i].decided_by => DecidedBy' = DecidedBy
BY ShownAlone DEF TypeOK, RaisedBy, DecidedBy

(* Where one process serves, every step of the service is one of the protocol
   or none. *)
LEMMA StepImplements ==
  ASSUME Alone, Typed, CopyCurrent, [Next]_vars
  PROVE  [Protocol!ProtocolNext]_(Protocol!protocolVars)
<1>1. TypeOK /\ ActorKnown /\ \A r \in Replicas : op[r] \in Op
  BY DEF Typed, TypeOK
<1>2. \A i \in Ids : store[i] \in Row /\ Life[i] = store[i].status
                     /\ RaisedBy[i] = store[i].requested_by
  BY <1>1 DEF TypeOK, Life, RaisedBy, Shown
<1>s. UNCHANGED serving
  BY ServingStays
<1>3. CASE UNCHANGED store
  BY <1>3, <1>s, ShownAlone DEF Protocol!protocolVars, Life, RaisedBy, DecidedBy
<1>4. ASSUME NEW r \in Replicas, NEW i \in Ids, AddOne(r, i)
      PROVE  Protocol!ProtocolNext
  <2>1. op[r].actor \in Actors
    BY <1>1, <1>4 DEF AddOne, ActorKnown
  <2> DEFINE q == [Absent EXCEPT !.status = "pending", !.requested_by = op[r].actor]
  <2>2. /\ q \in Row /\ q.status = "pending" /\ q.requested_by = op[r].actor
        /\ q.decided_by = Nobody
    <3>1. q \in Row
      BY <2>1, AbsentIsRow DEF Row, Status, Who
    <3>. QED
      BY <3>1 DEF Absent
  <2>3. store[i] = Absent
    BY <1>4 DEF AddOne, CopyCurrent
  <2>4. store' = [store EXCEPT ![i] = q]
    BY <1>4 DEF AddOne
  <2> HIDE DEF q
  <2>5. q.decided_by = store[i].decided_by /\ Life[i] = "none"
    BY <1>2, <2>2, <2>3 DEF Absent
  <2>6. Protocol!Ask(i, op[r].actor)
    <3>1. /\ Life' = [Life EXCEPT ![i] = q.status]
          /\ RaisedBy' = [RaisedBy EXCEPT ![i] = q.requested_by]
          /\ DecidedBy' = [DecidedBy EXCEPT ![i] = q.decided_by]
      BY <1>1, <2>2, <2>4, <1>s, RowMoves
    <3>2. /\ q.requested_by = store[i].requested_by => RaisedBy' = RaisedBy
          /\ q.decided_by = store[i].decided_by => DecidedBy' = DecidedBy
      BY <1>1, <2>2, <2>4, <1>s, SameEntry
    <3>. QED
      BY <2>5, <2>2, <3>1, <3>2 DEF Protocol!Ask
  <2>. QED
    BY <2>1, <2>6 DEF Protocol!ProtocolNext
<1>5. ASSUME NEW r \in Replicas, NEW i \in Ids, i \in op[r].todo,
             op[r].kind # "create", FoundLapsed(r, i), SaveExpired(r, i)
      PROVE  Protocol!ProtocolNext
  <2>1. op[r].rows[i] = store[i] /\ store[i].status = "pending"
    BY <1>5 DEF CopyCurrent, FoundLapsed, ExpiresIf
  <2> DEFINE q == [store[i] EXCEPT !.status = "expired"]
  <2>2. /\ q \in Row /\ q.status = "expired" /\ q.requested_by = store[i].requested_by
        /\ q.decided_by = store[i].decided_by
    BY <1>2 DEF Row, Status
  <2>3. store' = [store EXCEPT ![i] = q]
    BY <1>5, <2>1 DEF SaveExpired
  <2> HIDE DEF q
  <2>4. Protocol!Lapse(i)
    <3>1. /\ Life' = [Life EXCEPT ![i] = q.status]
          /\ RaisedBy' = [RaisedBy EXCEPT ![i] = q.requested_by]
          /\ DecidedBy' = [DecidedBy EXCEPT ![i] = q.decided_by]
      BY <1>1, <2>2, <2>3, <1>s, RowMoves
    <3>2. /\ q.requested_by = store[i].requested_by => RaisedBy' = RaisedBy
          /\ q.decided_by = store[i].decided_by => DecidedBy' = DecidedBy
      BY <1>1, <2>2, <2>3, <1>s, SameEntry
    <3>. QED
      BY <1>2, <2>1, <2>2, <3>1, <3>2 DEF Protocol!Lapse
  <2>. QED
    BY <2>4 DEF Protocol!ProtocolNext
<1>6. ASSUME NEW r \in Replicas, NEW i \in Ids, DecideSaves(r, i)
      PROVE  Protocol!ProtocolNext
  <2>1. /\ op[r].rows[i] = store[i] /\ store[i].status = "pending"
        /\ op[r].actor \in Actors /\ op[r].actor # store[i].requested_by
    BY <1>1, <1>6 DEF CopyCurrent, DecideSaves, MayDecide, ActorKnown
  <2> DEFINE q == Decided(store[i], op[r].kind, op[r].actor)
  <2>2. /\ q \in Row /\ q.status \in {"approved", "rejected"}
        /\ q.requested_by = store[i].requested_by /\ q.decided_by = op[r].actor
    <3>1. q \in Row
      BY <1>2, <2>1, WrittenRows
    <3>. QED
      BY <1>2, <3>1 DEF Decided, Row
  <2>3. store' = [store EXCEPT ![i] = q]
    BY <1>6, <2>1 DEF DecideSaves
  <2> HIDE DEF q
  <2>4. Protocol!Settle(i, op[r].actor, q.status)
    <3>1. /\ Life' = [Life EXCEPT ![i] = q.status]
          /\ RaisedBy' = [RaisedBy EXCEPT ![i] = q.requested_by]
          /\ DecidedBy' = [DecidedBy EXCEPT ![i] = q.decided_by]
      BY <1>1, <2>2, <2>3, <1>s, RowMoves
    <3>2. /\ q.requested_by = store[i].requested_by => RaisedBy' = RaisedBy
          /\ q.decided_by = store[i].decided_by => DecidedBy' = DecidedBy
      BY <1>1, <2>2, <2>3, <1>s, SameEntry
    <3>. QED
      BY <1>2, <2>1, <2>2, <3>1, <3>2 DEF Protocol!Settle
  <2>. QED
    BY <2>1, <2>2, <2>4 DEF Protocol!ProtocolNext
<1>7. ASSUME NEW r \in Replicas, NEW i \in Ids, ExecuteSaves(r, i)
      PROVE  Protocol!ProtocolNext
  <2>1. /\ op[r].rows[i] = store[i] /\ store[i].status = "approved"
        /\ op[r].actor \in Actors
    BY <1>1, <1>7 DEF CopyCurrent, ExecuteSaves, MayExecute, ActorKnown
  <2> DEFINE q == Executed(store[i], op[r].actor)
  <2>2. /\ q \in Row /\ q.status = "executed"
        /\ q.requested_by = store[i].requested_by /\ q.decided_by = store[i].decided_by
    BY <1>2, <2>1, WrittenRows DEF Executed, Row
  <2>3. store' = [store EXCEPT ![i] = q]
    BY <1>7, <2>1 DEF ExecuteSaves
  <2> HIDE DEF q
  <2>4. Protocol!Carry(i)
    <3>1. /\ Life' = [Life EXCEPT ![i] = q.status]
          /\ RaisedBy' = [RaisedBy EXCEPT ![i] = q.requested_by]
          /\ DecidedBy' = [DecidedBy EXCEPT ![i] = q.decided_by]
      BY <1>1, <2>2, <2>3, <1>s, RowMoves
    <3>2. /\ q.requested_by = store[i].requested_by => RaisedBy' = RaisedBy
          /\ q.decided_by = store[i].decided_by => DecidedBy' = DecidedBy
      BY <1>1, <2>2, <2>3, <1>s, SameEntry
    <3>. QED
      BY <1>2, <2>1, <2>2, <3>1, <3>2 DEF Protocol!Carry
  <2>. QED
    BY <2>4 DEF Protocol!ProtocolNext
<1>. QED
  BY <1>3, <1>4, <1>5, <1>6, <1>7 DEF Next, Finish, vars, Acquire, StartGet,
     StartList, StartDecide, StartExecute, StartCreate, ReadOne, DecideExpires,
     Refuse, TtlElapses, Crash

(* For any number of requests, users, replicas and crashes, and wherever one
   process serves, the service behaves as the protocol of docs/ARCHITECTURE.md
   promises: every save is one of its atomic transitions (service.py: the lock
   around read and save). *)
THEOREM ServiceImplementsProtocol == Spec => ImplementsProtocol
<1> DEFINE Sole == Typed /\ OthersIdle /\ (Alone => CopyCurrent)
<1>1. Init => Protocol!ProtocolInit
  BY DEF Init, Protocol!ProtocolInit, NoRows, Absent, Life, RaisedBy, DecidedBy, Shown
<1>2. Init => Sole
  BY TypedInit, OthersIdleInit, CopyCurrentInit
<1>3. Sole /\ [Next]_vars => Sole'
  <2> SUFFICES ASSUME Sole, [Next]_vars
               PROVE  Sole'
    OBVIOUS
  <2>1. Typed' /\ OthersIdle' /\ UNCHANGED serving
    BY TypedNext, OthersIdleNext, ServingStays
  <2>2. Alone' => Alone
    BY <2>1 DEF Alone
  <2>3. Alone => CopyCurrent'
    BY CopyCurrentNext
  <2>. QED
    BY <2>1, <2>2, <2>3
<1>4. Sole /\ [Next]_vars => [Protocol!ProtocolNext]_(Protocol!protocolVars)
  <2> SUFFICES ASSUME Sole, [Next]_vars
               PROVE  [Protocol!ProtocolNext]_(Protocol!protocolVars)
    OBVIOUS
  <2>1. CASE Alone
    BY <2>1, StepImplements
  <2>2. CASE ~ Alone
    <3>1. ~ Alone'
      BY <2>2, ServingStays DEF Alone
    <3>. QED
      BY <2>2, <3>1 DEF Protocol!protocolVars, Life, RaisedBy, DecidedBy, Shown
  <2>. QED
    BY <2>1, <2>2
<1>. QED
  BY <1>1, <1>2, <1>3, <1>4, PTL DEF Spec, ImplementsProtocol, Protocol!ProtocolSpec
=============================================================================
