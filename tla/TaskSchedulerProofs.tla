------------------------- MODULE TaskSchedulerProofs -------------------------
(***************************************************************************)
(* Proofs about TaskScheduler, for any indicators, attachments and         *)
(* verdicts, any budgets, any number of reflection rounds, and tools that  *)
(* may raise.                                                              *)
(***************************************************************************)
EXTENDS TaskScheduler, InvestigationProofs, SequenceTheorems

USE InvestigationAssumption, EvidenceAssumption, SchedulerAssumption

-----------------------------------------------------------------------------
(* The inductive invariant, of the graph and of the scheduler beside it. *)

(* The graph holds no work twice, its dependencies go backwards and were met
   before a task began; a task waits with an attempt to spare, or was tried. *)
DistinctWork(ts) ==
  \A i, j \in DOMAIN ts :
    i # j /\ ~ Terminal(ts[i]) /\ ~ Terminal(ts[j]) => ts[i].work # ts[j].work
DepsMet(ts) ==
  \A i \in DOMAIN ts :
    /\ ts[i].deps \subseteq 1..i-1
    /\ ts[i].attempts > 0 => \A d \in ts[i].deps : Terminal(ts[d])
TasksAreSound(ts) ==
  \A i \in DOMAIN ts :
    /\ ts[i].work \in Plannable
    /\ ts[i].status = "pending" => ts[i].attempts < MaxAttempts
    /\ ts[i].status # "pending" => ts[i].attempts > 0

GraphInv(ts) ==
  ts \in Seq(Task) /\ DistinctWork(ts) /\ DepsMet(ts) /\ TasksAreSound(ts)

(* Every attempt has been paid for, or will be when its wave ends. *)
AttemptsPaid ==
  /\ tool_calls + Cardinality(Running) = Cardinality(Attempts(tasks))
  /\ Cardinality(Attempts(tasks)) <= MaxToolCalls

(* Only a wave has running tasks, and what is in flight is theirs. *)
WavesRun ==
  /\ \A a \in flight : Runnable(a) /\ a.id \in DOMAIN tasks
  /\ phase # "wave" => flight = {} /\ raised = {} /\ Running = {}
  /\ phase = "end" <=> why # "going"

SchedulerInv ==
  TypeOK /\ GraphInv(tasks) /\ AttemptsPaid /\ WavesRun /\ DrainedIsDone

-----------------------------------------------------------------------------
(* Sequences, numbers and counting. *)

(* A nonempty set of numbers has a least one. *)
LEMMA LeastNat ==
  ASSUME NEW T \in SUBSET Nat, T # {}
  PROVE  \E m \in T : \A n \in T : m <= n
<1>. DEFINE R == OpToRel(<, Nat)
<1>1. IsWellFoundedOn(R, Nat)
  BY NatLessThanWellFounded
<1>2. \A x, y \in Nat : y < x => <<y, x>> \in R
  BY DEF OpToRel
<1>. HIDE DEF R
<1>3. PICK m \in T : \A n \in T : <<n, m>> \notin R
  BY <1>1, WFMin
<1>4. ASSUME NEW n \in T PROVE m <= n
  <2>1. n \in Nat /\ m \in Nat /\ <<n, m>> \notin R
    BY <1>3
  <2>2. ~ (n < m)
    BY <1>2, <2>1
  <2>. QED
    BY <2>1, <2>2
<1>. QED
  BY <1>4

(* A list of a finite set has each member once. *)
LEMMA SetToSeqIs ==
  ASSUME NEW S, IsFiniteSet(S), NEW q, q = SetToSeq(S)
  PROVE  /\ q \in Seq(S) /\ \A i \in DOMAIN q : q[i] \in S
         /\ \A i, j \in DOMAIN q : q[i] = q[j] => i = j
         /\ \A x \in S : \E i \in DOMAIN q : q[i] = x
<1>. DEFINE n == Cardinality(S)
<1>1. n \in Nat /\ \E f \in [1..n -> S] : IsInjective(f)
  BY FS_CardinalityType DEF ExistsBijection, Bijection, Injection
<1>2. q \in [1..n -> S] /\ IsInjective(q)
  BY <1>1 DEF SetToSeq
<1>3. IsFiniteSet(1..n) /\ Cardinality(1..n) = n
  BY <1>1, FS_Interval
<1>4. q \in Injection(1..n, S)
  BY <1>2 DEF Injection
<1>5. q \in Surjection(1..n, S)
  BY <1>3, <1>4, FS_Injection
<1>. QED
  BY <1>1, <1>2, <1>5 DEF IsInjective, Surjection

(* The graph after graph.add: what it held is there still, what is new waits
   untried, was proposed, and doubles no work; every proposed work is under way. *)
Grown(g, ts, proposed, deps) ==
  /\ g \in Seq(Task) /\ Len(ts) <= Len(g)
  /\ \A i \in DOMAIN ts : g[i] = ts[i]
  /\ \A i \in DOMAIN g \ DOMAIN ts :
       /\ g[i].status = "pending" /\ g[i].attempts = 0 /\ g[i].deps = deps
       /\ g[i].work \in Plannable /\ ~ HasKey(ts, g[i].work)
       /\ i > Len(ts)
  /\ \A i, j \in DOMAIN g \ DOMAIN ts : g[i].work = g[j].work => i = j
  /\ \A a \in proposed : HasKey(g, a)

(* What the graph looks like after it was expanded: the old tasks, then
   fresh ones. *)
LEMMA GrowIs ==
  ASSUME NEW ts \in Seq(Task), NEW proposed \in SUBSET Plannable, IsFiniteSet(proposed),
         NEW deps \in SUBSET Nat, NEW w \in 1..MaxIterations + 1
  PROVE  Grown(Grow(ts, proposed, deps, w), ts, proposed, deps)
<1>. DEFINE task(a) == [work |-> a, deps |-> deps, status |-> "pending", attempts |-> 0,
                        wave |-> w]
            absent == {b \in proposed : ~ HasKey(ts, b)}
            New == {task(a) : a \in absent}
            q == SetToSeq(New)
            mk == [a \in absent |-> task(a)]
            g == Grow(ts, proposed, deps, w)
<1>1. IsFiniteSet(absent)
  <2>. absent \in SUBSET proposed
    OBVIOUS
  <2>. QED
    BY FS_Subset
<1>2. IsFiniteSet(New)
  <2>1. mk \in Surjection(absent, New)
    BY DEF Surjection
  <2>. QED
    BY <1>1, <2>1, FS_Surjection
<1>3. New \subseteq Task
  <2>1. absent \subseteq Action
    BY DEF Plannable
  <2>2. 0 \in 0..MaxAttempts
    BY DEF MaxAttempts
  <2>3. ASSUME NEW a \in absent PROVE task(a) \in Task
    <3>1. a \in Action
      BY <2>1
    <3>. HIDE DEF absent
    <3>. QED
      BY <2>2, <3>1 DEF Task
  <2>. HIDE DEF task
  <2>. QED
    BY <2>3
<1>4. /\ q \in Seq(New) /\ \A i \in DOMAIN q : q[i] \in New
      /\ \A i, j \in DOMAIN q : q[i] = q[j] => i = j
      /\ \A x \in New : \E i \in DOMAIN q : q[i] = x
  <2>. HIDE DEF New
  <2>. QED
    BY <1>2, SetToSeqIs
<1>5. g = ts \o q
  BY DEF Grow
<1>. HIDE DEF q
<1>6. \A i \in DOMAIN q : /\ q[i].status = "pending" /\ q[i].attempts = 0 /\ q[i].deps = deps
                          /\ q[i].work \in absent /\ q[i] = task(q[i].work)
  <2>1. ASSUME NEW i \in DOMAIN q
        PROVE  /\ q[i].status = "pending" /\ q[i].attempts = 0 /\ q[i].deps = deps
               /\ q[i].work \in absent /\ q[i] = task(q[i].work)
    <3>1. PICK a \in absent : q[i] = task(a)
      BY <1>4
    <3>. QED
      BY <3>1
  <2>. QED
    BY <2>1
<1>7. \A a \in absent : \E i \in DOMAIN q : q[i].work = a /\ q[i].status = "pending"
  <2>1. ASSUME NEW a \in absent
        PROVE  \E i \in DOMAIN q : q[i].work = a /\ q[i].status = "pending"
    <3>1. PICK i \in DOMAIN q : q[i] = task(a)
      BY <1>4
    <3>. QED
      BY <3>1
  <2>. QED
    BY <2>1
<1>8. q \in Seq(Task)
  BY <1>3, <1>4
<1>. HIDE DEF New, task, mk, g
<1>9. /\ g \in Seq(Task) /\ Len(g) = Len(ts) + Len(q) /\ Len(q) \in Nat /\ Len(ts) \in Nat
      /\ DOMAIN ts = 1..Len(ts) /\ DOMAIN q = 1..Len(q) /\ DOMAIN g = 1..Len(g)
      /\ \A i \in 1..Len(ts) + Len(q) :
           g[i] = IF i <= Len(ts) THEN ts[i] ELSE q[i - Len(ts)]
  BY <1>5, <1>8, ConcatProperties
<1>10. \A i \in DOMAIN ts : i \in DOMAIN g /\ g[i] = ts[i]
  BY <1>9
<1>11. \A i \in DOMAIN g \ DOMAIN ts :
         i > Len(ts) /\ i - Len(ts) \in DOMAIN q /\ g[i] = q[i - Len(ts)]
  BY <1>9
<1>12. \A i \in DOMAIN q : Len(ts) + i \in DOMAIN g /\ g[Len(ts) + i] = q[i]
  BY <1>9
<1>13. \A i, j \in DOMAIN g \ DOMAIN ts : g[i].work = g[j].work => i = j
  <2>1. ASSUME NEW i \in DOMAIN g \ DOMAIN ts, NEW j \in DOMAIN g \ DOMAIN ts,
               g[i].work = g[j].work
        PROVE  i = j
    <3>1. q[i - Len(ts)] = q[j - Len(ts)]
      BY <1>6, <1>11, <2>1
    <3>2. i - Len(ts) = j - Len(ts)
      BY <1>4, <1>11, <3>1
    <3>. QED
      BY <1>9, <3>2
  <2>. QED
    BY <2>1
<1>14. \A a \in proposed : HasKey(g, a)
  <2>1. ASSUME NEW a \in proposed PROVE HasKey(g, a)
    <3>1. CASE HasKey(ts, a)
      BY <3>1, <1>10 DEF HasKey
    <3>2. CASE ~ HasKey(ts, a)
      <4>1. PICK i \in DOMAIN q : q[i].work = a /\ q[i].status = "pending"
        BY <1>7, <3>2
      <4>. QED
        BY <4>1, <1>12 DEF HasKey, Terminal
    <3>. QED
      BY <3>1, <3>2
  <2>. QED
    BY <2>1
<1>15. \A i \in DOMAIN g \ DOMAIN ts :
         /\ g[i].status = "pending" /\ g[i].attempts = 0 /\ g[i].deps = deps
         /\ g[i].work \in Plannable /\ ~ HasKey(ts, g[i].work) /\ i > Len(ts)
  BY <1>6, <1>11
<1>. QED
  BY <1>9, <1>10, <1>13, <1>14, <1>15 DEF Grown, g

-----------------------------------------------------------------------------
(* The graph. *)

RunningOf(ts) == {i \in DOMAIN ts : ts[i].status = "running"}

(* The attempts made can be counted. *)
LEMMA AttemptsFinite ==
  ASSUME NEW ts \in Seq(Task)
  PROVE  /\ IsFiniteSet(DOMAIN ts) /\ IsFiniteSet(RunningOf(ts)) /\ IsFiniteSet(Attempts(ts))
         /\ Cardinality(RunningOf(ts)) \in Nat /\ Cardinality(Attempts(ts)) \in Nat
<1>1. IsFiniteSet(DOMAIN ts) /\ IsFiniteSet(1..MaxAttempts)
  <2>1. DOMAIN ts = 1..Len(ts) /\ Len(ts) \in Int
    OBVIOUS
  <2>2. MaxAttempts \in Int
    BY DEF MaxAttempts
  <2>. QED
    BY <2>1, <2>2, FS_Interval
<1>2. IsFiniteSet((DOMAIN ts) \X (1..MaxAttempts))
  BY <1>1, FS_Product
<1>3. /\ RunningOf(ts) \in SUBSET DOMAIN ts
      /\ Attempts(ts) \in SUBSET ((DOMAIN ts) \X (1..MaxAttempts))
  BY DEF RunningOf, Attempts
<1>4. IsFiniteSet(RunningOf(ts)) /\ IsFiniteSet(Attempts(ts))
  BY <1>1, <1>2, <1>3, FS_Subset
<1>. QED
  BY <1>1, <1>4, FS_CardinalityType

(* Growing a graph by work whose dependencies are in it keeps its invariant and
   uses no attempt. *)
GrownSoundly(g, ts, proposed) ==
  /\ GraphInv(g) /\ Attempts(g) = Attempts(ts) /\ RunningOf(g) = RunningOf(ts)
  /\ DOMAIN ts \subseteq DOMAIN g
  /\ \A a \in proposed : HasKey(g, a)

(* An expansion adds only work that no unfinished task does. *)
LEMMA GrowKeeps ==
  ASSUME NEW ts, GraphInv(ts), NEW proposed \in SUBSET Plannable, IsFiniteSet(proposed),
         NEW deps \in SUBSET DOMAIN ts, NEW w \in 1..MaxIterations + 1
  PROVE  GrownSoundly(Grow(ts, proposed, deps, w), ts, proposed)
<1>. DEFINE g == Grow(ts, proposed, deps, w)
<1>1. ts \in Seq(Task) /\ DOMAIN ts = 1..Len(ts) /\ Len(ts) \in Nat /\ deps \in SUBSET Nat
  BY DEF GraphInv
<1>2. Grown(g, ts, proposed, deps)
  BY <1>1, GrowIs
<1>. HIDE DEF g
<1>. USE DEF Grown
<1>3. DOMAIN g = 1..Len(g) /\ Len(g) \in Nat /\ DOMAIN ts \subseteq DOMAIN g
  BY <1>1, <1>2
<1>4. DistinctWork(g)
  BY <1>2 DEF GraphInv, DistinctWork, HasKey
<1>5. DepsMet(g)
  <2>1. ASSUME NEW i \in DOMAIN ts
        PROVE  /\ g[i].deps \subseteq 1..i-1
               /\ g[i].attempts > 0 => \A d \in g[i].deps : Terminal(g[d])
    <3>1. /\ ts[i].deps \subseteq 1..i-1
          /\ ts[i].attempts > 0 => \A d \in ts[i].deps : Terminal(ts[d])
      BY DEF GraphInv, DepsMet
    <3>2. 1..i-1 \subseteq DOMAIN ts
      BY <1>1
    <3>. QED
      BY <1>2, <3>1, <3>2
  <2>2. ASSUME NEW i \in DOMAIN g \ DOMAIN ts
        PROVE  g[i].deps \subseteq 1..i-1 /\ ~ (g[i].attempts > 0)
    BY <1>1, <1>2, <1>3
  <2>. QED
    BY <2>1, <2>2 DEF DepsMet
<1>6. TasksAreSound(g)
  BY <1>2 DEF GraphInv, TasksAreSound, MaxAttempts
<1>7. Attempts(g) = Attempts(ts)
  <2>1. ASSUME NEW i \in DOMAIN g \ DOMAIN ts, NEW n \in 1..MaxAttempts
        PROVE  ~ (n <= g[i].attempts)
    BY <1>2 DEF MaxAttempts
  <2>. QED
    BY <1>2, <1>3, <2>1 DEF Attempts
<1>8. RunningOf(g) = RunningOf(ts)
  BY <1>2, <1>3 DEF RunningOf
<1>. QED
  BY <1>2, <1>3, <1>4, <1>5, <1>6, <1>7, <1>8 DEF GraphInv, GrownSoundly, g

(* What the planner adds before a wave. *)
LEMMA ExpandedKeeps ==
  ASSUME SchedulerInv, Draining, ~ WavesUsed, NEW g, g = Expanded(tasks, wave + 1)
  PROVE  /\ GraphInv(g) /\ Attempts(g) = Attempts(tasks) /\ RunningOf(g) = {}
         /\ DOMAIN tasks \subseteq DOMAIN g
         /\ \A a \in NextActions(st) : HasKey(g, a)
<1>1. st \in Case /\ GraphInv(tasks) /\ wave + 1 \in 1..MaxIterations + 1
  BY DEF SchedulerInv, TypeOK, ToolTypeOK
<1>2. NextActions(st) \in SUBSET Plannable /\ IsFiniteSet(NextActions(st))
  BY <1>1, NextActionsPlannable, NextActionsFinite
<1>3. RunningOf(tasks) = {}
  BY DEF SchedulerInv, WavesRun, Draining, RunningOf, Running
<1>4. {i \in DOMAIN tasks : tasks[i].wave = (wave + 1) - 1} \in SUBSET DOMAIN tasks
  OBVIOUS
<1>5. GrownSoundly(g, tasks, NextActions(st))
  BY <1>1, <1>2, <1>4, GrowKeeps DEF Expanded
<1>. QED
  BY <1>3, <1>5 DEF GrownSoundly

(* A graph nothing of which is ready or runs is finished: the least unfinished
   task would be ready, for it depends on earlier ones only. *)
LEMMA NothingReadyIsFinished ==
  ASSUME NEW g, GraphInv(g), RunningOf(g) = {}, Ready(g) = {}
  PROVE  \A i \in DOMAIN g : Terminal(g[i])
<1>. DEFINE T == {i \in DOMAIN g : ~ Terminal(g[i])}
<1>1. g \in Seq(Task) /\ DOMAIN g = 1..Len(g) /\ Len(g) \in Nat
  BY DEF GraphInv
<1>2. SUFFICES ASSUME T # {} PROVE FALSE
  OBVIOUS
<1>3. PICK m \in T : \A n \in T : m <= n
  <2>1. T \in SUBSET Nat
    BY <1>1
  <2>. QED
    BY <1>2, <2>1, LeastNat
<1>4. m \in DOMAIN g /\ m \in Nat /\ g[m].status = "pending"
  <2>1. m \in DOMAIN g /\ ~ Terminal(g[m])
    OBVIOUS
  <2>2. m \in Nat /\ g[m] \in Task
    BY <1>1, <2>1
  <2>3. g[m].status \in {"pending", "running", "done", "failed"}
    BY <2>2 DEF Task
  <2>. QED
    BY <2>1, <2>2, <2>3 DEF Terminal, RunningOf
<1>5. \A d \in g[m].deps : Terminal(g[d])
  <2>1. g[m].deps \subseteq 1..m-1
    BY <1>4 DEF GraphInv, DepsMet
  <2>2. \A d \in 1..m-1 : d \in DOMAIN g /\ ~ (m <= d)
    BY <1>1, <1>4
  <2>. QED
    BY <1>3, <2>1, <2>2
<1>. QED
  BY <1>4, <1>5 DEF Ready

(* Then the planner has nothing to propose either, and reflection at most one
   hunt for indicators that are suspicious only. *)
LEMMA FinishedIsCovered ==
  ASSUME NEW s \in Case, NEW g, \A i \in DOMAIN g : Terminal(g[i]),
         \A a \in NextActions(s) : HasKey(g, a)
  PROVE  /\ Covered(s)
         /\ Suggested(s) \subseteq {Hunt(Suspicious(s) \ s.hunted_keys)}
<1>1. NextActions(s) = {}
  BY DEF HasKey
<1>2. Covered(s)
  BY <1>1, NothingNextIsCovered
<1>3. Collect(s) = {}
  BY <1>2, CollectNothing DEF Covered
<1>4. SingleSource(s) \ s.hunted_keys = {}
  BY <1>2 DEF Covered, SingleSource, Malicious
<1>. QED
  BY <1>2, <1>3, <1>4 DEF Suggested, When

(* Starting ready tasks pays one attempt of each: no task that runs already is
   ready, and what a started one depends on is finished. *)
Begun(g, go) ==
  [i \in DOMAIN g |->
     IF i \in go THEN [g[i] EXCEPT !.status = "running", !.attempts = @ + 1] ELSE g[i]]

(* A wave starts ready tasks, each of which makes one attempt more. *)
LEMMA StartedKeep ==
  ASSUME NEW g, GraphInv(g), RunningOf(g) = {}, NEW go, go \subseteq Ready(g),
         NEW h, h = Begun(g, go)
  PROVE  /\ GraphInv(h) /\ DOMAIN h = DOMAIN g /\ RunningOf(h) = go
         /\ IsFiniteSet(go)
         /\ Cardinality(Attempts(h)) = Cardinality(Attempts(g)) + Cardinality(go)
<1>1. /\ g \in Seq(Task) /\ DOMAIN g = 1..Len(g) /\ Len(g) \in Nat
      /\ go \subseteq DOMAIN g
  BY DEF GraphInv, Ready
<1>2. \A i \in DOMAIN g : g[i] \in Task
  BY <1>1
<1>3. \A i \in go : /\ g[i].status = "pending" /\ g[i].attempts \in 0..1
                    /\ \A d \in g[i].deps : Terminal(g[d])
  BY <1>1, <1>2 DEF Ready, GraphInv, TasksAreSound, MaxAttempts, Task
<1>4. DOMAIN h = DOMAIN g /\ \A i \in DOMAIN g \ go : h[i] = g[i]
  BY DEF Begun
<1>5. \A i \in go : /\ h[i].status = "running" /\ h[i].attempts = g[i].attempts + 1
                    /\ h[i].work = g[i].work /\ h[i].deps = g[i].deps /\ h[i].wave = g[i].wave
                    /\ h[i] \in Task
  <2>1. ASSUME NEW i \in go
        PROVE  /\ h[i].status = "running" /\ h[i].attempts = g[i].attempts + 1
               /\ h[i].work = g[i].work /\ h[i].deps = g[i].deps /\ h[i].wave = g[i].wave
               /\ h[i] \in Task
    <3>1. h[i] = [g[i] EXCEPT !.status = "running", !.attempts = @ + 1]
      BY <1>1 DEF Begun
    <3>2. g[i] \in Task /\ g[i].attempts + 1 \in 0..MaxAttempts
      BY <1>1, <1>2, <1>3 DEF MaxAttempts
    <3>. QED
      BY <3>1, <3>2 DEF Task
  <2>. QED
    BY <2>1
<1>6. h \in Seq(Task)
  <2>1. \A i \in DOMAIN g : h[i] \in Task
    BY <1>1, <1>2, <1>4, <1>5
  <2>2. h = [i \in 1..Len(g) |-> h[i]]
    BY <1>1 DEF Begun
  <2>3. h \in [1..Len(g) -> Task]
    BY <1>1, <2>1, <2>2
  <2>. QED
    BY <1>1, <2>3
<1>7. \A i \in DOMAIN g : Terminal(h[i]) <=> Terminal(g[i])
  BY <1>1, <1>3, <1>4, <1>5 DEF Terminal
<1>8. \A i \in DOMAIN g : h[i].work = g[i].work /\ h[i].deps = g[i].deps
  BY <1>1, <1>5, <1>4
<1>9. RunningOf(h) = go
  BY <1>1, <1>5, <1>4 DEF RunningOf
<1>10. DistinctWork(h)
  BY <1>4, <1>7, <1>8 DEF GraphInv, DistinctWork
<1>11. DepsMet(h)
  <2>1. ASSUME NEW i \in DOMAIN g
        PROVE  /\ h[i].deps \subseteq 1..i-1
               /\ h[i].attempts > 0 => \A d \in h[i].deps : Terminal(h[d])
    <3>1. g[i].deps \subseteq 1..i-1 /\ g[i].deps \subseteq DOMAIN g
      <4>1. g[i].deps \subseteq 1..i-1
        BY DEF GraphInv, DepsMet
      <4>2. 1..i-1 \subseteq DOMAIN g
        BY <1>1
      <4>. QED
        BY <4>1, <4>2
    <3>2. h[i].attempts > 0 => \A d \in g[i].deps : Terminal(g[d])
      BY <1>3, <1>4 DEF GraphInv, DepsMet
    <3>. QED
      BY <1>7, <1>8, <3>1, <3>2
  <2>. QED
    BY <1>4, <2>1 DEF DepsMet
<1>12. TasksAreSound(h)
  <2>1. ASSUME NEW i \in DOMAIN g
        PROVE  /\ h[i].work \in Plannable
               /\ h[i].status = "pending" => h[i].attempts < MaxAttempts
               /\ h[i].status # "pending" => h[i].attempts > 0
    <3>1. CASE i \in go
      BY <1>3, <1>5, <1>8, <3>1 DEF GraphInv, TasksAreSound
    <3>2. CASE i \notin go
      BY <1>4, <3>2 DEF GraphInv, TasksAreSound
    <3>. QED
      BY <3>1, <3>2
  <2>. QED
    BY <1>4, <2>1 DEF TasksAreSound
<1>13. Cardinality(Attempts(h)) = Cardinality(Attempts(g)) + Cardinality(go)
  <2>. DEFINE New == {<<i, g[i].attempts + 1>> : i \in go}
              mk == [i \in go |-> <<i, g[i].attempts + 1>>]
  <2>1. IsFiniteSet(go) /\ IsFiniteSet(Attempts(g))
    BY <1>1, AttemptsFinite, FS_Subset
  <2>2. IsFiniteSet(New) /\ Cardinality(New) = Cardinality(go)
    <3>1. mk \in Bijection(go, New)
      BY DEF Bijection, Injection, Surjection, IsInjective
    <3>. QED
      BY <2>1, <3>1, FS_Bijection DEF ExistsBijection
  <2>3. Attempts(h) = Attempts(g) \cup New
    <3>1. ASSUME NEW i \in DOMAIN g, NEW n \in 1..MaxAttempts
          PROVE  n <= h[i].attempts <=>
                   n <= g[i].attempts \/ (i \in go /\ n = g[i].attempts + 1)
      <4>1. CASE i \in go
        BY <1>3, <1>5, <4>1
      <4>2. CASE i \notin go
        BY <1>4, <4>2
      <4>. QED
        BY <4>1, <4>2
    <3>2. \A i \in go : i \in DOMAIN g /\ g[i].attempts + 1 \in 1..MaxAttempts
      BY <1>1, <1>3 DEF MaxAttempts
    <3>3. Attempts(h) \subseteq Attempts(g) \cup New
      BY <1>4, <3>1 DEF Attempts
    <3>4. Attempts(g) \subseteq Attempts(h)
      BY <1>4, <3>1 DEF Attempts
    <3>5. New \subseteq Attempts(h)
      BY <1>4, <3>1, <3>2 DEF Attempts
    <3>. QED
      BY <3>3, <3>4, <3>5
  <2>4. Attempts(g) \cap New = {}
    BY <1>3 DEF Attempts
  <2>. HIDE DEF New
  <2>5. Cardinality(Attempts(g) \cap New) = 0
    BY <2>4, FS_EmptySet
  <2>6. Cardinality(Attempts(h)) =
          Cardinality(Attempts(g)) + Cardinality(New) - Cardinality(Attempts(g) \cap New)
    BY <2>1, <2>2, <2>3, FS_Union
  <2>7. Cardinality(Attempts(g)) \in Nat /\ Cardinality(go) \in Nat
    BY <2>1, FS_CardinalityType
  <2>. QED
    BY <2>2, <2>5, <2>6, <2>7
<1>14. IsFiniteSet(go)
  BY <1>1, AttemptsFinite, FS_Subset
<1>. QED
  BY <1>4, <1>14, <1>6, <1>9, <1>10, <1>11, <1>12, <1>13 DEF GraphInv

(* The end of a wave: what ran is done, failed, or waits for its second attempt;
   nothing that was finished is begun again. *)
Ended(g, bad) ==
  [i \in DOMAIN g |->
     IF g[i].status = "running" THEN Settled(g[i], i \notin bad) ELSE g[i]]

(* The end of a wave leaves no task running and makes no attempt. *)
LEMMA EndedKeep ==
  ASSUME NEW g, GraphInv(g), NEW bad, NEW h, h = Ended(g, bad)
  PROVE  /\ GraphInv(h) /\ DOMAIN h = DOMAIN g /\ RunningOf(h) = {}
         /\ Attempts(h) = Attempts(g)
<1>1. g \in Seq(Task) /\ DOMAIN g = 1..Len(g) /\ Len(g) \in Nat
  BY DEF GraphInv
<1>2. \A i \in DOMAIN g : g[i] \in Task
  BY <1>1
<1>3. DOMAIN h = DOMAIN g /\ h = [i \in 1..Len(g) |-> h[i]]
  BY <1>1 DEF Ended
<1>4. ASSUME NEW i \in DOMAIN g
      PROVE  /\ h[i] \in Task /\ h[i].status # "running"
             /\ h[i].attempts = g[i].attempts /\ h[i].work = g[i].work /\ h[i].deps = g[i].deps
             /\ Terminal(g[i]) => Terminal(h[i])
             /\ h[i].status = "pending" => h[i].attempts < MaxAttempts
             /\ h[i].status # "pending" => h[i].attempts > 0
  <2>1. /\ g[i].status = "pending" => g[i].attempts < MaxAttempts
        /\ g[i].status # "pending" => g[i].attempts > 0
    BY DEF GraphInv, TasksAreSound
  <2>2. CASE g[i].status = "running"
    <3>1. h[i] = Settled(g[i], i \notin bad)
      BY <2>2 DEF Ended
    <3>2. PICK status \in {"pending", "done", "failed"} :
            /\ h[i] = [g[i] EXCEPT !.status = status]
            /\ status = "pending" => g[i].attempts < MaxAttempts
      BY <3>1 DEF Settled
    <3>3. /\ h[i] \in Task /\ h[i].status = status /\ h[i].attempts = g[i].attempts
          /\ h[i].work = g[i].work /\ h[i].deps = g[i].deps
      BY <1>2, <3>2 DEF Task
    <3>. QED
      BY <2>1, <2>2, <3>2, <3>3 DEF Terminal
  <2>3. CASE g[i].status # "running"
    <3>1. h[i] = g[i]
      BY <2>3 DEF Ended
    <3>. QED
      BY <1>2, <2>1, <2>3, <3>1
  <2>. QED
    BY <2>2, <2>3
<1>5. h \in Seq(Task)
  <2>1. h \in [1..Len(g) -> Task]
    BY <1>1, <1>3, <1>4
  <2>. QED
    BY <1>1, <2>1
<1>6. DistinctWork(h)
  <2>1. ASSUME NEW i \in DOMAIN g, NEW j \in DOMAIN g, i # j,
               ~ Terminal(h[i]), ~ Terminal(h[j])
        PROVE  h[i].work # h[j].work
    <3>1. ~ Terminal(g[i]) /\ ~ Terminal(g[j])
      BY <1>4, <2>1
    <3>2. g[i].work # g[j].work
      BY <2>1, <3>1 DEF GraphInv, DistinctWork
    <3>. QED
      BY <1>4, <3>2
  <2>2. DOMAIN h = DOMAIN g
    BY <1>3
  <2>. QED
    BY <2>1, <2>2, Zenon DEF DistinctWork
<1>7. DepsMet(h)
  <2>1. ASSUME NEW i \in DOMAIN g
        PROVE  /\ h[i].deps \subseteq 1..i-1
               /\ h[i].attempts > 0 => \A d \in h[i].deps : Terminal(h[d])
    <3>1. /\ g[i].deps \subseteq 1..i-1
          /\ g[i].attempts > 0 => \A d \in g[i].deps : Terminal(g[d])
      BY DEF GraphInv, DepsMet
    <3>2. 1..i-1 \subseteq DOMAIN g
      BY <1>1
    <3>. QED
      BY <1>4, <3>1, <3>2
  <2>. QED
    BY <1>3, <2>1 DEF DepsMet
<1>8. TasksAreSound(h)
  BY <1>3, <1>4 DEF GraphInv, TasksAreSound
<1>9. RunningOf(h) = {} /\ Attempts(h) = Attempts(g)
  BY <1>3, <1>4 DEF RunningOf, Attempts
<1>. QED
  BY <1>3, <1>5, <1>6, <1>7, <1>8, <1>9 DEF GraphInv

-----------------------------------------------------------------------------
(* The steps of the invariant. *)

(* The invariant holds for the empty graph. *)
LEMMA SchedulerStarts == Init => SchedulerInv
<1>. SUFFICES ASSUME Init PROVE SchedulerInv
  OBVIOUS
<1>1. PICK phishing \in BOOLEAN : st = NewCase(phishing)
  BY DEF Init
<1>2. st \in Case
  BY <1>1 DEF NewCase, Case, Verdicts
<1>3. tasks = <<>> /\ DOMAIN tasks = {} /\ tasks \in Seq(Task)
  BY DEF Init
<1>4. TypeOK
  BY <1>2, <1>3 DEF Init, TypeOK, ToolTypeOK
<1>5. GraphInv(tasks)
  BY <1>3 DEF GraphInv, DistinctWork, DepsMet, TasksAreSound
<1>6. Running = {} /\ Attempts(tasks) = {}
  BY <1>3 DEF Running, Attempts
<1>7. AttemptsPaid
  <2>1. Cardinality(Running) = 0 /\ Cardinality(Attempts(tasks)) = 0
    BY <1>6, FS_EmptySet
  <2>2. tool_calls = 0
    BY DEF Init
  <2>. QED
    BY <2>1, <2>2 DEF AttemptsPaid
<1>8. WavesRun /\ DrainedIsDone
  BY <1>6 DEF Init, WavesRun, DrainedIsDone
<1>. QED
  BY <1>4, <1>5, <1>7, <1>8 DEF SchedulerInv

(* It ends for the clock or the waves, or because reflection has no more to
   say: the graph is what it was. *)
LEMMA FinishKeepsInv ==
  ASSUME SchedulerInv, WavesEnd \/ OutOfTime \/ Stabilized
  PROVE  SchedulerInv'
<1>1. UNCHANGED <<toolVars, wave, tool_calls, rounds, raised, tasks>> /\ phase' = "end"
  BY DEF WavesEnd, OutOfTime, Stabilized, Finish
<1>2. /\ why' \in {"converged", "clock", "waves"}
      /\ why' = "converged" => phase = "reflect"
      /\ phase \in {"drain", "reflect"}
  BY DEF WavesEnd, OutOfTime, Stabilized, Finish, Draining
<1>3. TypeOK'
  BY <1>1, <1>2 DEF SchedulerInv, TypeOK, ToolTypeOK, toolVars
<1>4. GraphInv(tasks)' /\ AttemptsPaid'
  BY <1>1 DEF SchedulerInv, AttemptsPaid, Running
<1>5. WavesRun' /\ DrainedIsDone'
  BY <1>1, <1>2 DEF SchedulerInv, WavesRun, DrainedIsDone, Running, toolVars
<1>. QED
  BY <1>3, <1>4, <1>5 DEF SchedulerInv

(* Nothing is ready: the graph that was grown is finished, and with it the
   case is covered. *)
LEMMA DrainedKeepsInv == ASSUME SchedulerInv, Drained PROVE SchedulerInv'
<1>1. /\ UNCHANGED <<toolVars, wave, tool_calls, rounds, raised, why>>
      /\ phase' = "reflect" /\ Draining /\ ~ WavesUsed
      /\ tasks' = Expanded(tasks, wave + 1) /\ Ready(tasks') = {}
  BY DEF Drained
<1>2. /\ GraphInv(tasks') /\ Attempts(tasks') = Attempts(tasks) /\ RunningOf(tasks') = {}
      /\ \A a \in NextActions(st) : HasKey(tasks', a)
      /\ DOMAIN tasks \subseteq DOMAIN tasks'
  BY <1>1, ExpandedKeeps
<1>3. \A i \in DOMAIN tasks' : Terminal(tasks'[i])
  BY <1>1, <1>2, NothingReadyIsFinished
<1>4. st \in Case /\ why = "going" /\ Running = {} /\ flight = {} /\ raised = {}
  BY <1>1 DEF SchedulerInv, TypeOK, ToolTypeOK, WavesRun, Draining
<1>5. Covered(st) /\ Suggested(st) \subseteq {Hunt(Suspicious(st) \ st.hunted_keys)}
  BY <1>2, <1>3, <1>4, FinishedIsCovered
<1>6. Running' = {}
  BY <1>2 DEF Running, RunningOf
<1>7. TypeOK'
  BY <1>1, <1>2, <1>4 DEF SchedulerInv, TypeOK, ToolTypeOK, toolVars, GraphInv
<1>8. AttemptsPaid'
  BY <1>1, <1>2, <1>4, <1>6 DEF SchedulerInv, AttemptsPaid
<1>9. WavesRun' /\ DrainedIsDone'
  BY <1>1, <1>3, <1>4, <1>5, <1>6 DEF WavesRun, DrainedIsDone, toolVars
<1>. QED
  BY <1>2, <1>7, <1>8, <1>9 DEF SchedulerInv

(* The budget ends with ready tasks in the graph. *)
LEMMA CallsEndKeepsInv == ASSUME SchedulerInv, CallsEnd PROVE SchedulerInv'
<1>1. /\ UNCHANGED <<toolVars, wave, tool_calls, rounds, raised>>
      /\ phase' = "end" /\ why' = "calls" /\ Draining /\ ~ WavesUsed
      /\ tasks' = Expanded(tasks, wave + 1)
  BY DEF CallsEnd, Finish
<1>2. /\ GraphInv(tasks') /\ Attempts(tasks') = Attempts(tasks) /\ RunningOf(tasks') = {}
      /\ DOMAIN tasks \subseteq DOMAIN tasks'
  BY <1>1, ExpandedKeeps
<1>3. Running = {} /\ flight = {} /\ raised = {} /\ Running' = {}
  BY <1>1, <1>2 DEF SchedulerInv, WavesRun, Draining, Running, RunningOf
<1>4. TypeOK'
  BY <1>1, <1>2, <1>3 DEF SchedulerInv, TypeOK, ToolTypeOK, toolVars, GraphInv
<1>5. AttemptsPaid'
  BY <1>1, <1>2, <1>3 DEF SchedulerInv, AttemptsPaid
<1>6. WavesRun' /\ DrainedIsDone'
  BY <1>1, <1>3 DEF WavesRun, DrainedIsDone, toolVars
<1>. QED
  BY <1>2, <1>4, <1>5, <1>6 DEF SchedulerInv

(* A wave starts no more ready tasks than there are calls left. *)
LEMMA StartWaveKeepsInv == ASSUME SchedulerInv, StartWave PROVE SchedulerInv'
<1>. DEFINE g == Expanded(tasks, wave + 1)
<1>1. /\ Draining /\ ~ WavesUsed /\ BudgetLeft > 0 /\ wave' = wave + 1 /\ phase' = "wave"
      /\ UNCHANGED <<st, reached, tool_calls, rounds, raised, why>>
  BY DEF StartWave
<1>2. PICK go \in FirstOf(Ready(g), BudgetLeft, [i \in DOMAIN g |-> SortKey(g[i])]) :
        /\ tasks' = Begun(g, go)
        /\ flight' = {Started(g[i].work, i) : i \in go}
  BY DEF StartWave, Begun
<1>3. /\ GraphInv(g) /\ Attempts(g) = Attempts(tasks) /\ RunningOf(g) = {}
      /\ DOMAIN tasks \subseteq DOMAIN g
  BY <1>1, ExpandedKeeps
<1>. HIDE DEF g
<1>4. /\ st \in Case /\ why = "going" /\ Running = {} /\ flight = {} /\ reached = {}
      /\ raised = {} /\ tool_calls \in Nat /\ BudgetLeft \in Nat
  BY <1>1
  DEF SchedulerInv, TypeOK, ToolTypeOK, WavesRun, Draining, BudgetLeft
<1>5. go \subseteq Ready(g) /\ Cardinality(go) \in 0..BudgetLeft
  <2>1. IsFiniteSet(Ready(g))
    <3>1. Ready(g) \in SUBSET DOMAIN g /\ g \in Seq(Task)
      BY <1>3 DEF Ready, GraphInv
    <3>. QED
      BY <3>1, AttemptsFinite, FS_Subset
  <2>. QED
    BY <1>2, <1>4, <2>1, FirstOfIs
<1>6. /\ GraphInv(tasks') /\ DOMAIN tasks' = DOMAIN g /\ RunningOf(tasks') = go
      /\ Cardinality(Attempts(tasks')) = Cardinality(Attempts(g)) + Cardinality(go)
  BY <1>2, <1>3, <1>5, StartedKeep
<1>7. go \subseteq DOMAIN g /\ DOMAIN g \subseteq Nat /\ \A i \in go : g[i].work \in Plannable
  BY <1>3, <1>5 DEF GraphInv, TasksAreSound, Ready
<1>8. ASSUME NEW a \in flight' PROVE a \in Run /\ Runnable(a) /\ a.id \in DOMAIN tasks'
  <2>1. PICK i \in go : a = Started(g[i].work, i)
    BY <1>2, <1>8
  <2>2. i \in Nat /\ i \in DOMAIN tasks' /\ g[i].work \in Plannable
    BY <1>6, <1>7
  <2>. QED
    BY <1>4, <2>1, <2>2 DEF Started, Run, Runnable, Plannable, Action, Case
<1>9. TypeOK'
  <2>1. /\ wave' \in 0..MaxIterations /\ phase' = "wave" /\ why' = "going" /\ raised' = {}
        /\ tool_calls' \in 0..MaxToolCalls /\ rounds' \in 0..MaxReflectionRounds
    BY <1>1, <1>4 DEF SchedulerInv, TypeOK, WavesUsed
  <2>2. ToolTypeOK'
    BY <1>1, <1>4, <1>8 DEF ToolTypeOK
  <2>. QED
    BY <1>6, <2>1, <2>2 DEF TypeOK, GraphInv
<1>10. AttemptsPaid'
  <2>1. Cardinality(Running) = 0
    BY <1>4, FS_EmptySet
  <2>2. Running' = go
    BY <1>6 DEF Running, RunningOf
  <2>3. Cardinality(Attempts(tasks)) = tool_calls
    BY <1>4, <2>1 DEF SchedulerInv, AttemptsPaid
  <2>. QED
    BY <1>1, <1>3, <1>4, <1>5, <1>6, <2>2, <2>3 DEF AttemptsPaid, BudgetLeft
<1>11. WavesRun' /\ DrainedIsDone'
  BY <1>1, <1>4, <1>8 DEF WavesRun, DrainedIsDone
<1>. QED
  BY <1>6, <1>9, <1>10, <1>11 DEF SchedulerInv

(* A tool folds what it learnt into the case; the graph waits for the wave. *)
LEMMA ToolKeepsInv == ASSUME SchedulerInv, NEW a \in flight, Tool(a) PROVE SchedulerInv'
<1>1. /\ st \in Case /\ Runnable(a) /\ a.id \in DOMAIN tasks /\ a \in flight
      /\ flight \subseteq Run /\ reached \subseteq flight
  BY DEF SchedulerInv, TypeOK, ToolTypeOK, WavesRun
<1>2. phase = "wave" /\ why = "going"
  BY <1>1 DEF SchedulerInv, WavesRun
<1>3. UNCHANGED schedulerVars /\ raised' \in {raised, raised \cup {a.id}}
  BY DEF Tool
<1>4. st' \in Case /\ flight' \subseteq flight /\ reached' \subseteq flight'
  <2>1. CASE FetchMessage(a)
    <3>1. PICK n \in 0..MaxAttachments :
            st' = [st EXCEPT !.email_checked = TRUE, !.attachments = 1..n]
      BY <2>1 DEF FetchMessage
    <3>2. st' \in Case
      BY <1>1, <3>1, Fetching
    <3>. QED
      BY <1>1, <2>1, <3>2 DEF FetchMessage
  <2>2. CASE End(a) /\ (UNCHANGED st \/ st' \in Folded(st, a))
    <3>1. st' \in Case
      BY <1>1, <2>2, FoldedKeeps
    <3>. QED
      BY <1>1, <2>2, <3>1 DEF End
  <2>. QED
    BY <2>1, <2>2 DEF Tool, ToolReturns, ToolRaises
<1>5. TypeOK'
  BY <1>1, <1>3, <1>4 DEF SchedulerInv, TypeOK, ToolTypeOK, schedulerVars
<1>6. GraphInv(tasks)' /\ AttemptsPaid'
  BY <1>3 DEF SchedulerInv, AttemptsPaid, Running, schedulerVars
<1>7. WavesRun' /\ DrainedIsDone'
  BY <1>2, <1>3, <1>4 DEF SchedulerInv, WavesRun, DrainedIsDone, Running, schedulerVars
<1>. QED
  BY <1>5, <1>6, <1>7 DEF SchedulerInv

(* What ran is paid for. *)
LEMMA EndWaveKeepsInv == ASSUME SchedulerInv, EndWave PROVE SchedulerInv'
<1>1. /\ flight = {} /\ raised' = {} /\ phase' = "drain" /\ phase = "wave"
      /\ UNCHANGED <<toolVars, wave, rounds, why>>
      /\ tool_calls' = tool_calls + Cardinality(Running)
      /\ tasks' = Ended(tasks, raised)
  BY DEF EndWave, WaveIsOver, Ended, Running
<1>2. /\ GraphInv(tasks') /\ DOMAIN tasks' = DOMAIN tasks /\ RunningOf(tasks') = {}
      /\ Attempts(tasks') = Attempts(tasks)
  BY <1>1, EndedKeep DEF SchedulerInv
<1>3. Cardinality(Running) \in Nat /\ Cardinality(Attempts(tasks)) \in Nat
  BY AttemptsFinite DEF SchedulerInv, GraphInv, Running, RunningOf
<1>4. Running' = {} /\ Cardinality(Running') = 0
  BY <1>2, FS_EmptySet DEF Running, RunningOf
<1>5. /\ tool_calls' \in 0..MaxToolCalls
      /\ tool_calls' = Cardinality(Attempts(tasks))
      /\ Cardinality(Attempts(tasks)) <= MaxToolCalls
  BY <1>1, <1>3 DEF SchedulerInv, TypeOK, AttemptsPaid
<1>6. AttemptsPaid'
  BY <1>2, <1>3, <1>4, <1>5 DEF AttemptsPaid
<1>7. TypeOK'
  BY <1>1, <1>2, <1>5 DEF SchedulerInv, TypeOK, ToolTypeOK, toolVars, GraphInv
<1>8. why = "going"
  BY <1>1 DEF SchedulerInv, WavesRun
<1>9. WavesRun' /\ DrainedIsDone'
  BY <1>1, <1>4, <1>8 DEF WavesRun, DrainedIsDone, toolVars
<1>. QED
  BY <1>2, <1>6, <1>7, <1>9 DEF SchedulerInv

(* Reflection adds follow-ups of everything there is. *)
LEMMA ReflectKeepsInv == ASSUME SchedulerInv, Reflect PROVE SchedulerInv'
<1>1. /\ UNCHANGED <<toolVars, wave, tool_calls, raised, why>>
      /\ phase = "reflect" /\ phase' = "drain" /\ rounds < MaxReflectionRounds
      /\ rounds' = rounds + 1
      /\ tasks' = Grow(tasks, Suggested(st), DOMAIN tasks, wave + 1)
  BY DEF Reflect
<1>2. /\ st \in Case /\ GraphInv(tasks) /\ wave + 1 \in 1..MaxIterations + 1
      /\ Suggested(st) \subseteq {Hunt(Suspicious(st) \ st.hunted_keys)}
      /\ why = "going" /\ Running = {} /\ flight = {} /\ raised = {}
  <2>1. st \in Case /\ GraphInv(tasks) /\ wave + 1 \in 1..MaxIterations + 1
    BY DEF SchedulerInv, TypeOK, ToolTypeOK
  <2>2. Suggested(st) \subseteq {Hunt(Suspicious(st) \ st.hunted_keys)}
    BY <1>1 DEF SchedulerInv, DrainedIsDone
  <2>3. why = "going" /\ Running = {} /\ flight = {} /\ raised = {}
    BY <1>1 DEF SchedulerInv, WavesRun
  <2>. QED
    BY <2>1, <2>2, <2>3
<1>3. Suggested(st) \in SUBSET Plannable /\ IsFiniteSet(Suggested(st))
  <2>1. Hunt(Suspicious(st) \ st.hunted_keys) \in Plannable
    BY DEF Hunt, Plannable, Action, Tools, Suspicious
  <2>2. IsFiniteSet(Suggested(st))
    <3>. DEFINE one == {Hunt(Suspicious(st) \ st.hunted_keys)}
    <3>1. IsFiniteSet(one) /\ Suggested(st) \in SUBSET one
      BY <1>2, FS_Singleton
    <3>. HIDE DEF one
    <3>. QED
      BY <3>1, FS_Subset
  <2>. QED
    BY <1>2, <2>1, <2>2
<1>4. GrownSoundly(tasks', tasks, Suggested(st))
  BY <1>1, <1>2, <1>3, GrowKeeps
<1>5. Running' = {} /\ Attempts(tasks') = Attempts(tasks)
  BY <1>2, <1>4 DEF GrownSoundly, Running, RunningOf
<1>6. AttemptsPaid'
  BY <1>1, <1>2, <1>5 DEF SchedulerInv, AttemptsPaid
<1>7. TypeOK'
  BY <1>1, <1>2, <1>4 DEF SchedulerInv, TypeOK, ToolTypeOK, toolVars, GrownSoundly, GraphInv
<1>8. WavesRun' /\ DrainedIsDone'
  BY <1>1, <1>2, <1>5 DEF WavesRun, DrainedIsDone, toolVars
<1>. QED
  BY <1>4, <1>6, <1>7, <1>8 DEF SchedulerInv, GrownSoundly

(* Every step of the scheduler keeps the invariant. *)
LEMMA SchedulerStep == SchedulerInv /\ [Next]_vars => SchedulerInv'
<1>. SUFFICES ASSUME SchedulerInv, [Next]_vars PROVE SchedulerInv'
  OBVIOUS
<1>1. CASE UNCHANGED vars
  BY <1>1
  DEF vars, schedulerVars, toolVars, SchedulerInv, TypeOK, ToolTypeOK, AttemptsPaid, WavesRun,
      DrainedIsDone, Running
<1>. QED
  BY <1>1, FinishKeepsInv, DrainedKeepsInv, CallsEndKeepsInv, StartWaveKeepsInv, ToolKeepsInv,
     EndWaveKeepsInv, ReflectKeepsInv
  DEF Next, Schedule

(* The invariant holds in every collection by tasks. *)
LEMMA SchedulerInvariant == Spec => []SchedulerInv
BY SchedulerStarts, SchedulerStep, PTL DEF Spec

-----------------------------------------------------------------------------
(* The same work is never under way twice, however the planner and reflection
   propose it again (graph.py add). *)
THEOREM WorkIsDistinct == Spec => []NoDuplicateWork
<1>1. SchedulerInv => NoDuplicateWork
  BY DEF SchedulerInv, GraphInv, DistinctWork, NoDuplicateWork
<1>. QED
  BY <1>1, SchedulerInvariant, PTL

(* Types; no task begins before all it depends on has finished, the graph has
   no cycle, and no attempt is made beyond the budget (graph.py ready,
   scheduler.py _drain). *)
THEOREM DependenciesHold == Spec => []DependenciesFirst
<1>1. SchedulerInv => DependenciesFirst
  BY DEF SchedulerInv, GraphInv, DepsMet, AttemptsPaid, DependenciesFirst
<1>. QED
  BY <1>1, SchedulerInvariant, PTL

(* A graph that drained is finished, failures or not, the case is covered, and
   reflection re-opens at most a hunt for the suspicious (graph.py ready,
   planner.py next_actions, reflection.py _analyze). *)
THEOREM DrainedHolds == Spec => []DrainedIsDone
<1>1. SchedulerInv => DrainedIsDone
  BY DEF SchedulerInv
<1>. QED
  BY <1>1, SchedulerInvariant, PTL
=============================================================================
