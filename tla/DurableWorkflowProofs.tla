------------------------ MODULE DurableWorkflowProofs ------------------------
(***************************************************************************)
(* Proofs about DurableWorkflow, for any indicators, attachments and       *)
(* verdicts, any budgets, any retry policies of the activities and either  *)
(* repository.                                                             *)
(***************************************************************************)
EXTENDS DurableWorkflow, InvestigationProofs

USE InvestigationAssumption, FinalizationAssumption, WorkflowAssumption

-----------------------------------------------------------------------------
(* The inductive invariant. *)

(* Where an attempt may stand once it has made its requests, tried its ticket,
   remembered the case; an attempt that is over may have done any of it. *)
Indexing == {"index", "return"}
Remembering == {"remember", "index", "return"}
Ticketing == {"ticket", "remember", "index", "return"}
Comparing == {"recall", "report", "approvals", "ticket", "remember", "index", "return"}
AllStages == {"idle", "graph", "fingerprint", "recall", "report", "approvals",
              "ticket", "remember", "index", "return", "over"}
Reached(stages) == {n \in Attempts : at[n] \in stages \cup {"over"}}

(* What a stage tells about the stores and about the package under way. *)
StagesTold ==
  \A n \in Attempts :
    /\ at[n] \in Comparing => world.fingerprint
    /\ at[n] \in Ticketing => pkg[n].approvals = asks /\ world.approvals >= asks
    /\ at[n] \in Indexing => world.cases > 0
    /\ at[n] \notin Ticketing \cup {"over"} => pkg[n].approvals = 0
    /\ pkg[n].ticket => world.tickets > 0

(* Every entry of a store is one attempt's. *)
CountedOnce ==
  /\ world.approvals <= Cardinality(Reached(Ticketing)) * asks
  /\ world.tickets <= Cardinality(Reached(Remembering))
  /\ world.cases <= Cardinality(Reached(Indexing))

(* A finding that is not actionable asks for nothing. *)
OnlyIfActionable ==
  ~ actionable =>
    /\ asks = 0 /\ world.approvals = 0 /\ world.tickets = 0
    /\ \A n \in Attempts : at[n] \notin {"approvals", "ticket"}

(* What the reported package claims. *)
ReportedIsTrue ==
  result # 0 =>
    /\ pkg[result].approvals = asks /\ world.approvals >= asks
    /\ pkg[result].ticket => world.tickets > 0
    /\ world.fingerprint /\ world.cases > 0

(* The reported attempt is over: nothing touches its package any more. *)
ResultIsOver == result # 0 => at[result] = "over"

(* What is planned can be run and is within the budget, and the phases follow
   one another. *)
PlanIsSound ==
  /\ todo \subseteq Plannable /\ IsFiniteSet(todo)
  /\ tool_calls + Cardinality(todo) <= MaxToolCalls
PhasesFollow ==
  /\ phase = "collect" => why = "going"
  /\ phase = "finalize" => attempt \in Attempts

(* The stores and the attempts; and with them the workflow. *)
FinalInv == FinalizeTypeOK /\ StagesTold /\ CountedOnce /\ OnlyIfActionable

DurableInv ==
  /\ TypeOK /\ FinalInv
  /\ ReportedIsTrue /\ ResultIsOver
  /\ PlanIsSound /\ PhasesFollow
  /\ why = "converged" => Covered(st)

-----------------------------------------------------------------------------
(* Counting the attempts that have come as far as some stages. *)

(* One attempt more is one share more. *)
LEMMA Distributes == \A c, k \in Nat : c * k \in Nat /\ (c + 1) * k = c * k + k
OBVIOUS

(* More attempts have no smaller share. *)
LEMMA Monotone == \A a, b, k \in Nat : a <= b => a * k <= b * k
<1>. SUFFICES ASSUME NEW a \in Nat, NEW b \in Nat, NEW k \in Nat, a <= b
              PROVE  a * k <= b * k
  OBVIOUS
<1>1. PICK d \in Nat : b = a + d
  <2>1. b - a \in Nat /\ b = a + (b - a)
    OBVIOUS
  <2>. QED
    BY <2>1
<1>2. b * k = a * k + d * k /\ d * k \in Nat /\ a * k \in Nat
  BY <1>1
<1>. QED
  BY <1>2

(* The attempts that passed a stage can be counted. *)
LEMMA ReachedFinite ==
  ASSUME NEW stages
  PROVE  IsFiniteSet(Reached(stages)) /\ Cardinality(Reached(stages)) \in Nat
<1>1. IsFiniteSet(Attempts)
  BY FS_Interval DEF Attempts
<1>2. Reached(stages) \in SUBSET Attempts
  BY DEF Reached
<1>. QED
  BY <1>1, <1>2, FS_Subset, FS_CardinalityType

(* One attempt goes on: it enters some stages or it does not. *)
LEMMA ReachedStep ==
  ASSUME NEW stages, NEW n \in Attempts, NEW to, at \in [Attempts -> AllStages],
         at' = [at EXCEPT ![n] = to],
         n \in Reached(stages) => to \in stages \cup {"over"}
  PROVE  /\ Cardinality(Reached(stages)) \in Nat
         /\ Cardinality(Reached(stages)') =
              Cardinality(Reached(stages)) +
                IF n \notin Reached(stages) /\ to \in stages \cup {"over"} THEN 1 ELSE 0
<1>1. IsFiniteSet(Reached(stages)) /\ Cardinality(Reached(stages)) \in Nat
  BY ReachedFinite
<1>2. CASE n \notin Reached(stages) /\ to \in stages \cup {"over"}
  <2>1. Reached(stages)' = Reached(stages) \cup {n}
    BY <1>2 DEF Reached
  <2>. QED
    BY <1>1, <1>2, <2>1, FS_AddElement
<1>3. CASE ~ (n \notin Reached(stages) /\ to \in stages \cup {"over"})
  <2>1. Reached(stages)' = Reached(stages)
    BY <1>3 DEF Reached
  <2>. QED
    BY <1>1, <1>3, <2>1
<1>. QED
  BY <1>2, <1>3

-----------------------------------------------------------------------------
(* What a step of an attempt does to the stores and to its package. *)

(* The stores only grow, and a package whose attempt is over is left alone. *)
NothingUndone ==
  /\ world.fingerprint => world'.fingerprint
  /\ world.approvals <= world'.approvals /\ world.tickets <= world'.tickets
  /\ world.cases <= world'.cases
  /\ \A m \in Attempts : at[m] = "over" => at'[m] = "over" /\ pkg'[m] = pkg[m]
  /\ asks' = asks

AttemptMoves(n) ==
  \/ Begin(n) \/ FinalizeStep(n, Enriched(st) # {}) \/ AttemptDies(n)
  \/ Go(n, "return", "over") /\ UNCHANGED <<world, pkg>>

(* Every step takes an attempt from one stage to a later one; what it adds to
   the stores and to the package depends on the stage it leaves. *)
LaterStage(from, to) ==
  \/ from \notin {"idle", "over"} /\ to = "over"
  \/ <<from, to>> \in {<<"idle", "graph">>, <<"graph", "fingerprint">>,
                       <<"fingerprint", "recall">>, <<"recall", "report">>,
                       <<"approvals", "ticket">>, <<"ticket", "remember">>,
                       <<"remember", "index">>, <<"index", "return">>}
  \/ from = "report" /\ to = "approvals" /\ actionable
  \/ from = "report" /\ to = "remember" /\ ~ actionable

MovesFrom(n, from, to) ==
  /\ at[n] = from /\ at' = [at EXCEPT ![n] = to] /\ UNCHANGED <<actionable, asks>>
  /\ world' \in World /\ pkg' \in [Attempts -> Package]
  /\ \A m \in Attempts \ {n} : pkg'[m] = pkg[m]
  /\ world.fingerprint => world'.fingerprint
  /\ from = "fingerprint" /\ to = "recall" => world'.fingerprint
  /\ from = "approvals" => world'.approvals - world.approvals \in 0..asks
  /\ from = "approvals" /\ to = "ticket" =>
       world'.approvals = world.approvals + asks /\ pkg'[n].approvals = asks
  /\ from # "approvals" =>
       world'.approvals = world.approvals /\ pkg'[n].approvals = pkg[n].approvals
  /\ world'.tickets - world.tickets \in {0, 1}
  /\ pkg'[n].ticket => pkg[n].ticket \/ world'.tickets > world.tickets
  /\ ~ (from = "ticket" /\ to = "remember") => world'.tickets = world.tickets
  /\ from = "remember" /\ to = "index" => world'.cases = world.cases + 1
  /\ ~ (from = "remember" /\ to = "index") => world'.cases = world.cases

(* Each step of an attempt takes it from its stage to a later one. *)
LEMMA MovesOn ==
  ASSUME FinalizeTypeOK, NEW n \in Attempts, AttemptMoves(n)
  PROVE  \E from, to \in AllStages : LaterStage(from, to) /\ MovesFrom(n, from, to)
<1>. USE DEF AllStages, LaterStage
<1>1. /\ world \in World /\ asks \in 0..MaxAsks /\ pkg \in [Attempts -> Package]
      /\ \A from, to : Go(n, from, to) =>
           /\ at[n] = from /\ at' = [at EXCEPT ![n] = to] /\ UNCHANGED <<actionable, asks>>
  BY DEF FinalizeTypeOK, Go
<1>2. CASE Begin(n)
  <2>1. MovesFrom(n, "idle", "graph")
    BY <1>1, <1>2 DEF Begin, MovesFrom, World
  <2>. QED
    BY <2>1
<1>3. CASE WriteGraph(n)
  <2>1. /\ world' \in World /\ (world.fingerprint => world'.fingerprint)
        /\ world'.approvals = world.approvals /\ world'.tickets = world.tickets
        /\ world'.cases = world.cases /\ world.tickets \in Nat /\ world.approvals \in Nat
    BY <1>1, <1>3 DEF WriteGraph, World
  <2>2. Go(n, "graph", "fingerprint") /\ UNCHANGED pkg
    BY <1>3 DEF WriteGraph
  <2>3. MovesFrom(n, "graph", "fingerprint")
    BY <1>1, <2>1, <2>2 DEF MovesFrom
  <2>. QED
    BY <2>3
<1>4. CASE Fingerprint(n)
  <2>1. /\ world' \in World /\ world'.fingerprint
        /\ world'.approvals = world.approvals /\ world'.tickets = world.tickets
        /\ world'.cases = world.cases /\ world.tickets \in Nat /\ world.approvals \in Nat
    BY <1>1, <1>4 DEF Fingerprint, World
  <2>2. Go(n, "fingerprint", "recall") /\ UNCHANGED pkg
    BY <1>4 DEF Fingerprint
  <2>3. MovesFrom(n, "fingerprint", "recall")
    BY <1>1, <2>1, <2>2 DEF MovesFrom
  <2>. QED
    BY <2>3
<1>5. CASE Recall(n, Enriched(st) # {})
  <2>1. PICK found \in BOOLEAN : pkg' = [pkg EXCEPT ![n].related_to_itself = found]
    BY <1>5 DEF Recall
  <2>2. /\ pkg' \in [Attempts -> Package] /\ pkg'[n].approvals = pkg[n].approvals
        /\ pkg'[n].ticket = pkg[n].ticket /\ \A m \in Attempts \ {n} : pkg'[m] = pkg[m]
    BY <1>1, <2>1 DEF Package
  <2>3. Go(n, "recall", "report") /\ UNCHANGED world /\ world.tickets \in Nat
    BY <1>1, <1>5 DEF Recall, World
  <2>4. MovesFrom(n, "recall", "report")
    BY <1>1, <2>2, <2>3 DEF MovesFrom
  <2>. QED
    BY <2>4
<1>6. CASE Report(n)
  <2>1. MovesFrom(n, "report", IF actionable THEN "approvals" ELSE "remember")
    BY <1>1, <1>6 DEF Report, MovesFrom, World
  <2>. QED
    BY <2>1
<1>7. CASE RequestApprovals(n)
  <2>1. MovesFrom(n, "approvals", "ticket")
    BY <1>1, <1>7 DEF RequestApprovals, MovesFrom, World, Package
  <2>. QED
    BY <2>1
<1>8. CASE RequestsRaise(n)
  <2>1. MovesFrom(n, "approvals", "over")
    BY <1>1, <1>8 DEF RequestsRaise, MovesFrom, World
  <2>. QED
    BY <2>1
<1>9. CASE OpenTicket(n)
  <2>1. MovesFrom(n, "ticket", "remember")
    BY <1>1, <1>9 DEF OpenTicket, MovesFrom, World, Package
  <2>. QED
    BY <2>1
<1>10. CASE Remember(n)
  <2>1. MovesFrom(n, "remember", "index")
    BY <1>1, <1>10 DEF Remember, MovesFrom, World
  <2>. QED
    BY <2>1
<1>11. CASE Index(n)
  <2>1. /\ world' \in World /\ (world.fingerprint => world'.fingerprint)
        /\ world'.approvals = world.approvals /\ world'.tickets = world.tickets
        /\ world'.cases = world.cases /\ world.tickets \in Nat /\ world.approvals \in Nat
    BY <1>1, <1>11 DEF Index, World
  <2>2. Go(n, "index", "return") /\ UNCHANGED pkg
    BY <1>11 DEF Index
  <2>3. MovesFrom(n, "index", "return")
    BY <1>1, <2>1, <2>2 DEF MovesFrom
  <2>. QED
    BY <2>3
<1>12. CASE AttemptDies(n)
  <2>1. MovesFrom(n, at[n], "over") /\ at[n] \in AllStages \ {"idle", "over"}
    BY <1>1, <1>12 DEF AttemptDies, MovesFrom, World, FinalizeTypeOK
  <2>. QED
    BY <2>1
<1>13. CASE Go(n, "return", "over") /\ UNCHANGED <<world, pkg>>
  <2>1. MovesFrom(n, "return", "over")
    BY <1>1, <1>13 DEF MovesFrom, World
  <2>. QED
    BY <2>1
<1>. QED
  BY <1>2, <1>3, <1>4, <1>5, <1>6, <1>7, <1>8, <1>9, <1>10, <1>11, <1>12, <1>13
  DEF AttemptMoves, FinalizeStep

(* So the stages go on telling the truth, nothing is counted twice, and a
   finding that is not actionable goes on asking for nothing. *)
LEMMA MoveKeeps ==
  ASSUME FinalInv, NEW n \in Attempts, AttemptMoves(n)
  PROVE  FinalInv' /\ NothingUndone /\ at'[n] # "idle"
<1>1. PICK from \in AllStages, to \in AllStages : LaterStage(from, to) /\ MovesFrom(n, from, to)
  BY MovesOn DEF FinalInv
<1>2. /\ world \in World /\ asks \in 0..MaxAsks /\ pkg \in [Attempts -> Package]
      /\ actionable \in BOOLEAN /\ at \in [Attempts -> AllStages]
  BY DEF FinalInv, FinalizeTypeOK, AllStages
<1>3. /\ world.approvals \in Nat /\ world.tickets \in Nat /\ world.cases \in Nat /\ asks \in Nat
      /\ world'.approvals \in Nat /\ world'.tickets \in Nat /\ world'.cases \in Nat
      /\ pkg[n] \in Package /\ pkg[n].approvals \in Nat
  BY <1>1, <1>2 DEF World, Package, MovesFrom
<1>4. /\ at[n] = from /\ at'[n] = to /\ at' = [at EXCEPT ![n] = to]
      /\ \A m \in Attempts \ {n} : at'[m] = at[m] /\ pkg'[m] = pkg[m]
      /\ actionable' = actionable /\ asks' = asks
  BY <1>1, <1>2 DEF MovesFrom
<1>5. FinalizeTypeOK'
  <2>1. at' \in [Attempts -> AllStages] /\ world' \in World /\ pkg' \in [Attempts -> Package]
    BY <1>1, <1>2 DEF MovesFrom
  <2>. QED
    BY <1>2, <1>4, <2>1 DEF FinalizeTypeOK, AllStages
<1>6. /\ world.fingerprint => world'.fingerprint
      /\ world.approvals <= world'.approvals /\ world.tickets <= world'.tickets
      /\ world.cases <= world'.cases
  BY <1>1, <1>3 DEF MovesFrom
<1>7. NothingUndone /\ at'[n] # "idle"
  BY <1>1, <1>4, <1>6 DEF NothingUndone, LaterStage
<1>8. StagesTold'
  <2>1. ASSUME NEW m \in Attempts, m # n
        PROVE  /\ at'[m] \in Comparing => world'.fingerprint
               /\ at'[m] \in Ticketing => pkg'[m].approvals = asks' /\ world'.approvals >= asks'
               /\ at'[m] \in Indexing => world'.cases > 0
               /\ at'[m] \notin Ticketing \cup {"over"} => pkg'[m].approvals = 0
               /\ pkg'[m].ticket => world'.tickets > 0
    <3>1. at'[m] = at[m] /\ pkg'[m] = pkg[m]
      BY <1>4, <2>1
    <3>. QED
      BY <1>3, <1>4, <1>6, <3>1 DEF FinalInv, StagesTold
  <2>2. to \in Comparing => world'.fingerprint
    <3>1. from = "fingerprint" /\ to = "recall" => world'.fingerprint
      BY <1>1 DEF MovesFrom
    <3>2. to \in Comparing =>
            (from = "fingerprint" /\ to = "recall") \/ from \in Comparing
      BY <1>1 DEF LaterStage, Comparing
    <3>3. from \in Comparing => world.fingerprint
      BY <1>4 DEF FinalInv, StagesTold
    <3>. QED
      BY <1>6, <3>1, <3>2, <3>3
  <2>3. to \in Ticketing => pkg'[n].approvals = asks /\ world'.approvals >= asks
    <3>1. to \in Ticketing =>
            \/ from \in Ticketing
            \/ from = "approvals" /\ to = "ticket"
            \/ from = "report" /\ ~ actionable
      BY <1>1 DEF LaterStage, Ticketing
    <3>2. from \in Ticketing =>
            pkg'[n].approvals = asks /\ world.approvals >= asks /\ from # "approvals"
      BY <1>1, <1>4 DEF FinalInv, StagesTold, MovesFrom, Ticketing
    <3>3. from = "approvals" /\ to = "ticket" =>
            pkg'[n].approvals = asks /\ world'.approvals = world.approvals + asks
      BY <1>1 DEF MovesFrom
    <3>4. from = "report" /\ ~ actionable => pkg'[n].approvals = 0 /\ asks = 0
      BY <1>1, <1>4 DEF FinalInv, StagesTold, OnlyIfActionable, MovesFrom, Ticketing
    <3>. QED
      BY <1>3, <1>6, <3>1, <3>2, <3>3, <3>4
  <2>4. to \in Indexing => world'.cases > 0
    <3>1. to \in Indexing => (from = "remember" /\ to = "index") \/ from \in Indexing
      BY <1>1 DEF LaterStage, Indexing
    <3>2. from = "remember" /\ to = "index" => world'.cases = world.cases + 1
      BY <1>1 DEF MovesFrom
    <3>3. from \in Indexing => world.cases > 0
      BY <1>4 DEF FinalInv, StagesTold
    <3>. QED
      BY <1>3, <1>6, <3>1, <3>2, <3>3
  <2>5. to \notin Ticketing \cup {"over"} => pkg'[n].approvals = 0
    <3>1. to \notin Ticketing \cup {"over"} =>
            from \notin Ticketing \cup {"over"} /\ from # "approvals"
      BY <1>1 DEF LaterStage, Ticketing
    <3>. QED
      BY <1>1, <1>4, <3>1 DEF FinalInv, StagesTold, MovesFrom
  <2>6. pkg'[n].ticket => world'.tickets > 0
    <3>1. pkg'[n].ticket => pkg[n].ticket \/ world'.tickets > world.tickets
      BY <1>1 DEF MovesFrom
    <3>2. pkg[n].ticket => world.tickets > 0
      BY DEF FinalInv, StagesTold
    <3>. QED
      BY <1>3, <1>6, <3>1, <3>2
  <2>. QED
    BY <1>4, <2>1, <2>2, <2>3, <2>4, <2>5, <2>6 DEF StagesTold
<1>9. CountedOnce'
  <2>. DEFINE T == Cardinality(Reached(Ticketing))
              R == Cardinality(Reached(Remembering))
              I == Cardinality(Reached(Indexing))
              enters(stages) == IF from \notin stages \cup {"over"} /\ to \in stages \cup {"over"}
                                THEN 1 ELSE 0
  <2>1. /\ T \in Nat /\ T' = T + enters(Ticketing)
        /\ R \in Nat /\ R' = R + enters(Remembering)
        /\ I \in Nat /\ I' = I + enters(Indexing)
    <3>1. /\ from \in Ticketing \cup {"over"} => to \in Ticketing \cup {"over"}
          /\ from \in Remembering \cup {"over"} => to \in Remembering \cup {"over"}
          /\ from \in Indexing \cup {"over"} => to \in Indexing \cup {"over"}
      BY <1>1 DEF LaterStage, Ticketing, Remembering, Indexing
    <3>2. \A stages : n \in Reached(stages) <=> from \in stages \cup {"over"}
      BY <1>4 DEF Reached
    <3>. QED
      BY <1>2, <1>4, <3>1, <3>2, ReachedStep
  <2>2. world.approvals <= T * asks /\ world.tickets <= R /\ world.cases <= I
    BY DEF FinalInv, CountedOnce
  <2>3. T * asks \in Nat /\ (T + 1) * asks = T * asks + asks
    BY <1>3, <2>1, Distributes
  <2>. HIDE DEF T, R, I
  <2>4. world'.approvals <= T' * asks'
    <3>1. CASE from = "approvals"
      <4>1. T' = T + 1
        BY <1>1, <2>1, <3>1 DEF LaterStage, Ticketing
      <4>2. world'.approvals - world.approvals \in 0..asks
        BY <1>1, <3>1 DEF MovesFrom
      <4>3. world'.approvals <= (T + 1) * asks
        BY <1>3, <2>2, <2>3, <4>2
      <4>. QED
        BY <1>4, <4>1, <4>3
    <3>2. CASE from # "approvals"
      <4>1. world'.approvals = world.approvals
        BY <1>1, <3>2 DEF MovesFrom
      <4>2. T' = T \/ T' = T + 1
        BY <2>1
      <4>3. world.approvals <= T * asks /\ world.approvals <= (T + 1) * asks
        BY <1>3, <2>2, <2>3
      <4>. QED
        BY <1>4, <4>1, <4>2, <4>3
    <3>. QED
      BY <3>1, <3>2
  <2>5. world'.tickets <= R'
    <3>1. from = "ticket" /\ to = "remember" => R' = R + 1
      BY <2>1 DEF Remembering
    <3>2. ~ (from = "ticket" /\ to = "remember") => world'.tickets = world.tickets
      BY <1>1 DEF MovesFrom
    <3>3. world'.tickets - world.tickets \in {0, 1} /\ R' >= R
      BY <1>1, <2>1 DEF MovesFrom
    <3>. QED
      BY <1>3, <2>1, <2>2, <3>1, <3>2, <3>3
  <2>6. world'.cases <= I'
    <3>1. from = "remember" /\ to = "index" => I' = I + 1 /\ world'.cases = world.cases + 1
      BY <1>1, <2>1 DEF Indexing, MovesFrom
    <3>2. ~ (from = "remember" /\ to = "index") => world'.cases = world.cases
      BY <1>1 DEF MovesFrom
    <3>3. I' >= I
      BY <2>1
    <3>. QED
      BY <1>3, <2>1, <2>2, <3>1, <3>2, <3>3
  <2>. QED
    BY <2>4, <2>5, <2>6 DEF CountedOnce, T, R, I
<1>10. OnlyIfActionable'
  <2>1. SUFFICES ASSUME ~ actionable PROVE OnlyIfActionable'
    BY <1>4 DEF OnlyIfActionable
  <2>2. /\ asks = 0 /\ world.approvals = 0 /\ world.tickets = 0
        /\ \A m \in Attempts : at[m] \notin {"approvals", "ticket"}
    BY <2>1 DEF FinalInv, OnlyIfActionable
  <2>3. from \notin {"approvals", "ticket"} /\ to \notin {"approvals", "ticket"}
    BY <1>1, <1>4, <2>1, <2>2 DEF LaterStage
  <2>4. world'.approvals = world.approvals /\ world'.tickets = world.tickets
    BY <1>1, <2>3 DEF MovesFrom
  <2>. QED
    BY <1>4, <2>2, <2>3, <2>4 DEF OnlyIfActionable
<1>. QED
  BY <1>5, <1>7, <1>8, <1>9, <1>10 DEF FinalInv

-----------------------------------------------------------------------------
(* The steps of the workflow's invariant. *)

(* What a tool makes of a copy of the case is a case. *)
LEMMA CasesAfterAreCases ==
  ASSUME st \in Case, NEW a \in Plannable, NEW c \in CasesAfter(a)
  PROVE  c \in Case
<1>. DEFINE read == [a EXCEPT !.keys = IF a.tool = "enrich_iocs" THEN st.pending_iocs ELSE @]
<1>1. Runnable(read) /\ read.tool = a.tool
  BY DEF Runnable, Plannable, Action, Case
<1>. HIDE DEF read
<1>2. ASSUME NEW d \in Fetched(st) PROVE d \in Case
  BY Fetching DEF Fetched
<1>3. CASE a.tool = "fetch_email_context"
  <2>1. c = st \/ c \in Fetched(st) \/ \E d \in Fetched(st) : c \in Folded(d, read)
    BY <1>3 DEF CasesAfter, read
  <2>. QED
    BY <1>1, <1>2, <2>1, FoldedKeeps
<1>4. CASE a.tool # "fetch_email_context"
  <2>1. c = st \/ c \in Folded(st, read)
    BY <1>4 DEF CasesAfter, read
  <2>. QED
    BY <1>1, <2>1, FoldedKeeps
<1>. QED
  BY <1>3, <1>4

(* The invariant holds when the workflow starts. *)
LEMMA WorkflowStarts == Init => DurableInv
<1>. SUFFICES ASSUME Init PROVE DurableInv
  OBVIOUS
<1>1. st \in Case
  <2>1. PICK phishing \in BOOLEAN : st = NewCase(phishing)
    BY DEF Init
  <2>. QED
    BY <2>1 DEF NewCase, Case, Verdicts
<1>2. FinalizeTypeOK
  BY DEF Init, FinalizeInit, FinalizeTypeOK, World, Package, EmptyPackage
<1>3. TypeOK
  BY <1>1, <1>2 DEF Init, TypeOK
<1>4. StagesTold /\ OnlyIfActionable
  BY DEF Init, FinalizeInit, StagesTold, OnlyIfActionable, EmptyPackage, Comparing, Ticketing,
         Indexing
<1>5. CountedOnce
  <2>1. \A stages : Cardinality(Reached(stages)) \in Nat
    BY ReachedFinite
  <2>2. world.approvals = 0 /\ world.tickets = 0 /\ world.cases = 0 /\ asks \in Nat
    BY <1>2 DEF Init, FinalizeInit, FinalizeTypeOK
  <2>3. Cardinality(Reached(Ticketing)) * asks \in Nat
    BY <2>1, <2>2, Distributes
  <2>. QED
    BY <2>1, <2>2, <2>3 DEF CountedOnce
<1>6. PlanIsSound
  <2>1. todo = {} /\ tool_calls = 0
    BY DEF Init
  <2>. QED
    BY <2>1, FS_EmptySet DEF PlanIsSound
<1>. QED
  BY <1>2, <1>3, <1>4, <1>5, <1>6
  DEF Init, DurableInv, FinalInv, ReportedIsTrue, ResultIsOver, PhasesFollow

(* A reported package stays what it is while attempts that were given up go on. *)
LEMMA ReportedStays ==
  ASSUME TypeOK, ReportedIsTrue, ResultIsOver, NothingUndone, result' = result,
         FinalizeTypeOK'
  PROVE  ReportedIsTrue' /\ ResultIsOver'
<1>. SUFFICES ASSUME result # 0 PROVE ReportedIsTrue' /\ ResultIsOver'
  BY DEF ReportedIsTrue, ResultIsOver
<1>1. result \in Attempts
  BY DEF TypeOK, Attempts
<1>2. at'[result] = "over" /\ pkg'[result] = pkg[result] /\ asks' = asks
  BY <1>1 DEF ResultIsOver, NothingUndone
<1>3. /\ world.approvals \in Nat /\ world.tickets \in Nat /\ world.cases \in Nat
      /\ world'.approvals \in Nat /\ world'.tickets \in Nat /\ world'.cases \in Nat
      /\ asks \in Nat
  BY DEF TypeOK, FinalizeTypeOK, World
<1>. QED
  BY <1>2, <1>3 DEF ReportedIsTrue, ResultIsOver, NothingUndone

(* A step of the workflow alone leaves finalization as it was. *)
LEMMA UnchangedFinal ==
  ASSUME FinalInv, UNCHANGED finalizeVars
  PROVE  FinalInv' /\ NothingUndone
<1>1. FinalInv'
  BY DEF finalizeVars, FinalInv, FinalizeTypeOK, StagesTold, CountedOnce, OnlyIfActionable,
         Reached
<1>2. world.approvals \in Nat /\ world.tickets \in Nat /\ world.cases \in Nat
  BY DEF FinalInv, FinalizeTypeOK, World
<1>. QED
  BY <1>1, <1>2 DEF NothingUndone, finalizeVars

(* Planning proposes only what can be run, and touches no store. *)
LEMMA PlanKeepsInv == ASSUME DurableInv, Plan PROVE DurableInv'
<1>1. /\ FinalInv /\ ReportedIsTrue /\ ResultIsOver /\ PlanIsSound /\ PhasesFollow /\ TypeOK
      /\ phase = "collect" /\ todo = {} /\ iteration < MaxIterations
      /\ iteration' = iteration + 1 /\ attempt' = 1
      /\ UNCHANGED <<st, tool_calls, phase, why, result, saveVars, finalizeVars>>
  BY DEF DurableInv, Plan, Planning
<1>2. FinalInv' /\ ReportedIsTrue' /\ ResultIsOver'
  BY <1>1, UnchangedFinal, ReportedStays DEF FinalInv
<1>3. st \in Case /\ Room \in Nat /\ tool_calls \in Nat
  BY <1>1 DEF TypeOK, Room
<1>4. /\ todo' \subseteq NextActions(st) /\ IsFiniteSet(todo')
      /\ Cardinality(todo') \in 0..Room
  BY <1>3, NextActionsFinite, FirstOfIs DEF Plan
<1>5. todo' \subseteq Plannable /\ todo' \subseteq Action
  BY <1>3, <1>4, NextActionsPlannable DEF Plannable
<1>6. PlanIsSound'
  BY <1>1, <1>3, <1>4, <1>5 DEF PlanIsSound, Room
<1>7. TypeOK'
  BY <1>1, <1>2, <1>5 DEF TypeOK, FinalInv, saveVars
<1>8. PhasesFollow' /\ (why' = "converged" => Covered(st'))
  BY <1>1 DEF PhasesFollow
<1>. QED
  BY <1>2, <1>6, <1>7, <1>8 DEF DurableInv

(* Collection ends, and its reason is the truth. *)
LEMMA EndKeepsInv ==
  ASSUME DurableInv, RoundsUsed \/ Converge \/ CallsUsed
  PROVE  DurableInv'
<1>1. PICK reason \in {"converged", "iterations", "calls"} :
        EndCollection(reason) /\ (reason = "converged" => NextActions(st) = {})
  BY DEF RoundsUsed, Converge, CallsUsed
<1>2. /\ FinalInv /\ ReportedIsTrue /\ ResultIsOver /\ PlanIsSound /\ TypeOK
      /\ why' = reason /\ phase' = "finalize" /\ attempt' = 1 /\ Begin(1)
      /\ UNCHANGED <<st, iteration, tool_calls, todo, result, saveVars>>
  BY <1>1 DEF DurableInv, EndCollection
<1>3. 1 \in Attempts
  BY DEF Attempts
<1>4. FinalInv' /\ ReportedIsTrue' /\ ResultIsOver'
  BY <1>2, <1>3, MoveKeeps, ReportedStays DEF AttemptMoves, FinalInv
<1>5. TypeOK'
  BY <1>2, <1>4 DEF TypeOK, FinalInv, saveVars
<1>6. PlanIsSound' /\ PhasesFollow'
  BY <1>2, <1>3 DEF PlanIsSound, PhasesFollow
<1>7. why' = "converged" => Covered(st')
  BY <1>1, <1>2, NothingNextIsCovered DEF TypeOK
<1>. QED
  BY <1>4, <1>5, <1>6, <1>7 DEF DurableInv

(* The report of a tool changes the checkpointed case and no store. *)
LEMMA ToolReportedKeepsInv ==
  ASSUME DurableInv, NEW a \in todo, ToolReported(a)
  PROVE  DurableInv'
<1>1. /\ FinalInv /\ ReportedIsTrue /\ ResultIsOver /\ PlanIsSound /\ PhasesFollow /\ TypeOK
      /\ phase = "collect" /\ st' \in CasesAfter(a) /\ tool_calls' = tool_calls + 1
      /\ todo' = todo \ {a} /\ attempt' = 1
      /\ UNCHANGED <<iteration, phase, why, result, saveVars, finalizeVars>>
  BY DEF DurableInv, ToolReported
<1>2. FinalInv' /\ ReportedIsTrue' /\ ResultIsOver'
  BY <1>1, UnchangedFinal, ReportedStays DEF FinalInv
<1>3. st' \in Case
  BY <1>1, CasesAfterAreCases DEF PlanIsSound, TypeOK
<1>4. /\ IsFiniteSet(todo') /\ Cardinality(todo') = Cardinality(todo) - 1
      /\ Cardinality(todo') \in Nat
  BY <1>1, FS_RemoveElement, FS_CardinalityType DEF PlanIsSound
<1>5. PlanIsSound'
  <2>1. Cardinality(todo) \in Nat /\ tool_calls \in Nat
    BY <1>1, FS_CardinalityType DEF PlanIsSound, TypeOK
  <2>2. tool_calls' + Cardinality(todo') <= MaxToolCalls
    BY <1>1, <1>4, <2>1 DEF PlanIsSound
  <2>. QED
    BY <1>1, <1>4, <2>2 DEF PlanIsSound
<1>6. TypeOK'
  <2>1. tool_calls' \in 0..MaxToolCalls
    BY <1>1, <1>4, <1>5 DEF PlanIsSound, TypeOK
  <2>. QED
    BY <1>1, <1>2, <1>3, <2>1 DEF TypeOK, FinalInv, saveVars
<1>7. PhasesFollow' /\ (why' = "converged" => Covered(st'))
  BY <1>1 DEF PhasesFollow
<1>. QED
  BY <1>2, <1>5, <1>6, <1>7 DEF DurableInv

(* An attempt of an activity is lost: the next one, or the end. *)
LEMMA LostKeepsInv ==
  ASSUME DurableInv, NEW maximum \in {ToolAttempts, FinalizeAttempts, PersistAttempts},
         Lost(maximum), UNCHANGED <<caseVars, result, kind>>,
         stored' \in {stored, "complete"}, FinalInv', NothingUndone,
         maximum = FinalizeAttempts \/ phase # "finalize"
  PROVE  DurableInv'
<1>1. /\ FinalInv /\ ReportedIsTrue /\ ResultIsOver /\ PlanIsSound /\ PhasesFollow /\ TypeOK
      /\ (why = "converged" => Covered(st))
  BY DEF DurableInv
<1>2. ReportedIsTrue' /\ ResultIsOver'
  BY <1>1, ReportedStays DEF FinalInv
<1>3. /\ phase' \in {phase, "failed"}
      /\ attempt' \in 0..ToolAttempts \cup 0..FinalizeAttempts \cup 0..PersistAttempts
  BY <1>1 DEF Lost, TypeOK
<1>4. TypeOK'
  BY <1>1, <1>3 DEF TypeOK, FinalInv, caseVars
<1>5. PhasesFollow'
  <2>1. phase' = "collect" => why' = "going"
    BY <1>1, <1>3 DEF PhasesFollow, caseVars
  <2>2. phase' = "finalize" => attempt' \in Attempts
    BY <1>1 DEF Lost, PhasesFollow, Attempts
  <2>. QED
    BY <2>1, <2>2 DEF PhasesFollow
<1>6. PlanIsSound' /\ (why' = "converged" => Covered(st'))
  BY <1>1 DEF PlanIsSound, caseVars
<1>. QED
  BY <1>2, <1>4, <1>5, <1>6 DEF DurableInv

(* A lost finalization leaves its attempt to go on beside the next. *)
LEMMA FinalizeLostKeepsInv == ASSUME DurableInv, FinalizeLost PROVE DurableInv'
<1>1. FinalInv /\ phase = "finalize" /\ attempt \in Attempts
  BY DEF DurableInv, FinalizeLost, PhasesFollow
<1>2. FinalInv' /\ NothingUndone
  <2>1. CASE attempt < FinalizeAttempts
    <3>1. attempt + 1 \in Attempts /\ Begin(attempt + 1)
      BY <1>1, <2>1 DEF FinalizeLost, Attempts
    <3>. QED
      BY <1>1, <3>1, MoveKeeps DEF AttemptMoves
  <2>2. CASE ~ (attempt < FinalizeAttempts)
    BY <1>1, <2>2, UnchangedFinal DEF FinalizeLost
  <2>. QED
    BY <2>1, <2>2
<1>. QED
  BY <1>2, LostKeepsInv DEF FinalizeLost, saveVars

(* The package of an attempt that has come to its end is reported. *)
LEMMA FinalizeReportedKeepsInv == ASSUME DurableInv, FinalizeReported PROVE DurableInv'
<1>1. /\ FinalInv /\ ReportedIsTrue /\ ResultIsOver /\ PlanIsSound /\ PhasesFollow /\ TypeOK
      /\ (why = "converged" => Covered(st)) /\ phase = "finalize"
      /\ Go(attempt, "return", "over") /\ UNCHANGED <<world, pkg>>
      /\ result' = attempt /\ phase' = "persist" /\ attempt' = 1
      /\ UNCHANGED <<caseVars, saveVars>>
  BY DEF DurableInv, FinalizeReported
<1>2. attempt \in Attempts
  BY <1>1 DEF PhasesFollow
<1>3. FinalInv' /\ NothingUndone
  BY <1>1, <1>2, MoveKeeps DEF AttemptMoves
<1>4. at[attempt] = "return" /\ at'[attempt] = "over" /\ asks' = asks
  BY <1>1, <1>2 DEF Go, FinalInv, FinalizeTypeOK
<1>5. /\ pkg[attempt].approvals = asks /\ world.approvals >= asks
      /\ pkg[attempt].ticket => world.tickets > 0
      /\ world.fingerprint /\ world.cases > 0
  BY <1>1, <1>2, <1>4 DEF FinalInv, StagesTold, Comparing, Ticketing, Indexing
<1>6. ReportedIsTrue' /\ ResultIsOver'
  BY <1>1, <1>4, <1>5 DEF ReportedIsTrue, ResultIsOver
<1>7. TypeOK'
  BY <1>1, <1>2, <1>3 DEF TypeOK, FinalInv, caseVars, saveVars, Attempts
<1>8. PlanIsSound' /\ PhasesFollow' /\ (why' = "converged" => Covered(st'))
  BY <1>1 DEF PlanIsSound, PhasesFollow, caseVars
<1>. QED
  BY <1>3, <1>6, <1>7, <1>8 DEF DurableInv

(* An attempt goes on or dies, whether it is still waited for or not. *)
LEMMA AttemptKeepsInv ==
  ASSUME DurableInv, NEW n \in Attempts, Attempt(n)
  PROVE  DurableInv'
<1>1. /\ FinalInv /\ ReportedIsTrue /\ ResultIsOver /\ PlanIsSound /\ PhasesFollow /\ TypeOK
      /\ (why = "converged" => Covered(st)) /\ AttemptMoves(n)
      /\ UNCHANGED <<caseVars, attempt, phase, result, saveVars>>
  BY DEF DurableInv, Attempt, Finalize, AttemptEnds, AttemptMoves
<1>2. FinalInv' /\ ReportedIsTrue' /\ ResultIsOver'
  BY <1>1, MoveKeeps, ReportedStays DEF FinalInv
<1>3. TypeOK'
  BY <1>1, <1>2 DEF TypeOK, FinalInv, caseVars, saveVars
<1>4. PlanIsSound' /\ PhasesFollow' /\ (why' = "converged" => Covered(st'))
  BY <1>1 DEF PlanIsSound, PhasesFollow, caseVars
<1>. QED
  BY <1>2, <1>3, <1>4 DEF DurableInv

(* The save that is reported has the package of the reported attempt. *)
LEMMA PersistReportedKeepsInv == ASSUME DurableInv, PersistReported PROVE DurableInv'
<1>1. /\ FinalInv /\ ReportedIsTrue /\ ResultIsOver /\ PlanIsSound /\ TypeOK
      /\ (why = "converged" => Covered(st)) /\ phase' = "complete" /\ stored' = "complete"
      /\ UNCHANGED <<kind, attempt, result, caseVars, finalizeVars>>
  BY DEF DurableInv, PersistReported, Saved
<1>2. FinalInv' /\ ReportedIsTrue' /\ ResultIsOver'
  BY <1>1, UnchangedFinal, ReportedStays DEF FinalInv
<1>3. TypeOK'
  BY <1>1, <1>2 DEF TypeOK, FinalInv, caseVars
<1>4. PlanIsSound' /\ PhasesFollow' /\ (why' = "converged" => Covered(st'))
  BY <1>1 DEF PlanIsSound, PhasesFollow, caseVars
<1>. QED
  BY <1>2, <1>3, <1>4 DEF DurableInv

(* Every step of the workflow keeps the invariant. *)
LEMMA WorkflowStep == DurableInv /\ [Next]_vars => DurableInv'
<1>. SUFFICES ASSUME DurableInv, [Next]_vars PROVE DurableInv'
  OBVIOUS
<1>1. FinalInv
  BY DEF DurableInv
<1>2. CASE ToolLost
  <2>1. FinalInv' /\ NothingUndone
    BY <1>1, <1>2, UnchangedFinal DEF ToolLost
  <2>. QED
    BY <1>2, <2>1, LostKeepsInv DEF ToolLost, saveVars
<1>3. CASE PersistLost
  <2>1. FinalInv' /\ NothingUndone
    BY <1>1, <1>3, UnchangedFinal DEF PersistLost
  <2>. QED
    BY <1>3, <2>1, LostKeepsInv DEF PersistLost, Saved
<1>4. CASE UNCHANGED vars
  <2>1. FinalInv' /\ NothingUndone
    BY <1>1, <1>4, UnchangedFinal DEF vars
  <2>2. /\ ReportedIsTrue /\ ResultIsOver /\ PlanIsSound /\ PhasesFollow /\ TypeOK
        /\ (why = "converged" => Covered(st))
    BY DEF DurableInv
  <2>3. ReportedIsTrue' /\ ResultIsOver'
    BY <1>4, <2>1, <2>2, ReportedStays DEF vars, FinalInv
  <2>4. PlanIsSound' /\ PhasesFollow' /\ TypeOK' /\ (why' = "converged" => Covered(st'))
    BY <1>4, <2>1, <2>2
    DEF vars, caseVars, saveVars, PlanIsSound, PhasesFollow, TypeOK, FinalInv
  <2>. QED
    BY <2>1, <2>3, <2>4 DEF DurableInv
<1>. QED
  BY <1>2, <1>3, <1>4, PlanKeepsInv, EndKeepsInv, ToolReportedKeepsInv, FinalizeReportedKeepsInv,
     FinalizeLostKeepsInv, PersistReportedKeepsInv, AttemptKeepsInv
  DEF Next, Workflow

(* The invariant holds in every workflow. *)
LEMMA WorkflowInvariant == Spec => []DurableInv
BY WorkflowStarts, WorkflowStep, PTL DEF Spec

-----------------------------------------------------------------------------
(* Types, and what the reported package claims was done has been done, whatever
   other attempts did before and still do; and a collection that says it
   converged left nothing out (temporal_workflow.py, loop.py finalize). *)
THEOREM PackageHolds == Spec => []PackageIsTrue
<1>1. DurableInv => PackageIsTrue
  BY DEF DurableInv, ReportedIsTrue, PackageIsTrue
<1>. QED
  BY <1>1, WorkflowInvariant, PTL

(* However often finalization is repeated, each attempt adds at most one set of
   requests, one ticket and one case, and none of the first two for a finding
   that is not actionable (finalize_investigation_activity, loop.py finalize). *)
THEOREM DuplicatesHold == Spec => []DuplicatesAreBounded
<1>1. ASSUME DurableInv PROVE DuplicatesAreBounded
  <2>. DEFINE Started == {n \in Attempts : at[n] # "idle"}
              most == Cardinality(Started)
  <2>1. IsFiniteSet(Started)
    <3>1. IsFiniteSet(Attempts)
      BY FS_Interval DEF Attempts
    <3>2. Started \in SUBSET Attempts
      OBVIOUS
    <3>. QED
      BY <3>1, <3>2, FS_Subset
  <2>2. /\ Reached(Ticketing) \in SUBSET Started /\ Reached(Remembering) \in SUBSET Started
        /\ Reached(Indexing) \in SUBSET Started
    BY DEF Reached, Ticketing, Remembering, Indexing
  <2>. HIDE DEF Started
  <2>3. /\ most \in Nat /\ Cardinality(Reached(Ticketing)) <= most
        /\ Cardinality(Reached(Remembering)) <= most /\ Cardinality(Reached(Indexing)) <= most
    BY <2>1, <2>2, FS_Subset, FS_CardinalityType
  <2>4. /\ Cardinality(Reached(Ticketing)) \in Nat /\ Cardinality(Reached(Remembering)) \in Nat
        /\ Cardinality(Reached(Indexing)) \in Nat
    BY ReachedFinite
  <2>5. /\ world.approvals \in Nat /\ world.tickets \in Nat /\ world.cases \in Nat
        /\ asks \in Nat /\ CountedOnce /\ OnlyIfActionable
    BY <1>1 DEF DurableInv, FinalInv, FinalizeTypeOK, World
  <2>6. /\ Cardinality(Reached(Ticketing)) * asks <= most * asks
        /\ Cardinality(Reached(Ticketing)) * asks \in Nat /\ most * asks \in Nat
    BY <2>3, <2>4, <2>5, Monotone, Distributes
  <2>7. world.approvals <= most * asks
    BY <2>5, <2>6 DEF CountedOnce
  <2>8. world.tickets <= most /\ world.cases <= most
    BY <2>3, <2>4, <2>5 DEF CountedOnce
  <2>. QED
    BY <2>5, <2>7, <2>8 DEF DuplicatesAreBounded, OnlyIfActionable, Started
<1>. QED
  BY <1>1, WorkflowInvariant, PTL
=============================================================================
