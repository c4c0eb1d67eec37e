----------------------------- MODULE ModelRouter -----------------------------
(***************************************************************************)
(* Text generation for reports (engines/copilot/client.py, router.py): one *)
(* ModelRouter serves every investigation of the process. It asks the      *)
(* providers of its chain in order and skips those whose circuit is open.  *)
(*                                                                         *)
(* A caller is a coroutine inside Copilot._generate. It yields only while  *)
(* a provider works on its prompt, so what it does between two answers is  *)
(* one action. Time is the age of an opening, which stops at the cooldown. *)
(***************************************************************************)
EXTENDS Integers, Sequences, FiniteSets, SequencesExt

CONSTANTS Callers,
          ProviderOrder,  \* settings.llm_provider_order
          Known,          \* the names _default_chain has a class for
          Configured,     \* the providers that have their key or address
          Threshold,      \* failure_threshold
          Cooldown,       \* cooldown_seconds, in ticks
          Undecodable     \* may an answer with status 200 not be JSON?

ASSUME RouterAssumption ==
  /\ Threshold \in Nat \ {0} /\ Cooldown \in Nat \ {0}
  /\ Undecodable \in BOOLEAN
  /\ ProviderOrder \in Seq(STRING) /\ IsFiniteSet(Callers)

(* The places in the order whose name it knows: the others are ignored. *)
Chain == {j \in DOMAIN ProviderOrder : ProviderOrder[j] \in Known}
Providers == {ProviderOrder[j] : j \in Chain}
Closed == -1

VARIABLES at,        \* at[c]: the place in the chain that c's call has reached, or 0
          result,    \* result[c]: what c's last generation gave it
          circuits,  \* circuits[p]: _failures and the age of _opened_at
          streak,    \* history: failures of p since it last answered
          asked      \* history: calls of p begun since an answer or a half-opening

routerVars == <<at, result, circuits, streak, asked>>

(* What a generation gives its caller: the model's text, the notice that
   validate_output puts in its place, the template, or an exception. *)
Results == {"narrative", "withheld", "template", "raised"}

RouterInit ==
  /\ at = [c \in Callers |-> 0]
  /\ result = [c \in Callers |-> "none"]
  /\ circuits = [p \in Providers |-> [failures |-> 0, age |-> Closed]]
  /\ streak = [p \in Providers |-> 0]
  /\ asked = [p \in Providers |-> 0]

-----------------------------------------------------------------------------
(* The circuit. *)
Available_Always(circuit) == TRUE
Available_NeverAgain(circuit) == circuit.age = Closed
Available(circuit) == circuit.age \in {Closed, Cooldown}

HalfOpened(circuit) ==
  IF circuit.age = Closed THEN circuit
  ELSE [failures |-> Threshold - 1, age |-> Closed]

RecordSuccess_KeepsCount(circuit) == [circuit EXCEPT !.age = Closed]
RecordSuccess(circuit) == [failures |-> 0, age |-> Closed]

RecordFailure(circuit) ==
  LET failures == circuit.failures + 1 IN
  [failures |-> failures,
   age |-> IF failures >= Threshold THEN 0 ELSE circuit.age]

(* The rest of the chain from place i on, given circuits cs: the call begins
   at the first provider that can be asked; if there is none every provider
   has failed, and the copilot uses its template. *)
Usable(cs, i) ==
  {j \in Chain : /\ j >= i
                 /\ ProviderOrder[j] \in Configured
                 /\ Available(cs[ProviderOrder[j]])}

Ask(c, cs, i, count) ==
  IF Usable(cs, i) = {}
  THEN /\ at' = [at EXCEPT ![c] = 0]
       /\ result' = [result EXCEPT ![c] = "template"]
       /\ circuits' = cs
       /\ asked' = count
  ELSE LET j == Min(Usable(cs, i))
           p == ProviderOrder[j] IN
       /\ at' = [at EXCEPT ![c] = j]
       /\ result' = [result EXCEPT ![c] = "none"]
       /\ circuits' = [cs EXCEPT ![p] = HalfOpened(@)]
       /\ asked' = [count EXCEPT ![p] = IF cs[p].age = Cooldown THEN 1 ELSE @ + 1]

Generate(c) ==
  /\ at[c] = 0
  /\ Ask(c, circuits, 1, asked)
  /\ UNCHANGED streak

(* The provider answers with text, which validate_output may withhold. *)
Answers(c) ==
  /\ at[c] # 0
  /\ LET p == ProviderOrder[at[c]] IN
     /\ circuits' = [circuits EXCEPT ![p] = RecordSuccess(@)]
     /\ streak' = [streak EXCEPT ![p] = 0]
     /\ asked' = [asked EXCEPT ![p] = 0]
  /\ at' = [at EXCEPT ![c] = 0]
  /\ \E text \in {"narrative", "withheld"} : result' = [result EXCEPT ![c] = text]

(* It cannot be reached, times out, refuses, or completes nothing: a
   ProviderError. The caller goes on to the next provider. *)
Fails_AsksAgain(c) ==
  /\ at[c] # 0
  /\ Ask(c, circuits, at[c], asked)
  /\ UNCHANGED streak
Fails(c) ==
  /\ at[c] # 0
  /\ LET p == ProviderOrder[at[c]] IN
     /\ Ask(c, [circuits EXCEPT ![p] = RecordFailure(@)], at[c] + 1, asked)
     /\ streak' = [streak EXCEPT ![p] = Min({Threshold, @ + 1})]

(* resp.json() raises what neither the provider nor the copilot catches; the
   circuit hears of nothing. *)
Escapes(c) ==
  /\ Undecodable
  /\ at[c] # 0
  /\ asked' = [asked EXCEPT ![ProviderOrder[at[c]]] = 0]
  /\ at' = [at EXCEPT ![c] = 0]
  /\ result' = [result EXCEPT ![c] = "raised"]
  /\ UNCHANGED <<circuits, streak>>

Tick(p) ==
  /\ circuits[p].age \in 0..Cooldown - 1
  /\ circuits' = [circuits EXCEPT ![p].age = @ + 1]
  /\ UNCHANGED <<at, result, streak, asked>>

Ends(c) == Answers(c) \/ Fails(c) \/ Escapes(c)

RouterNext ==
  \/ \E c \in Callers : Generate(c) \/ Answers(c) \/ Fails(c) \/ Escapes(c)
  \/ \E p \in Providers : Tick(p)

RouterSpec == RouterInit /\ [][RouterNext]_routerVars

(* Every request has the timeout llm_timeout_seconds, and time passes. That
   somebody asks for a text is not assumed. *)
FairRouterSpec ==
  /\ RouterSpec
  /\ \A c \in Callers : WF_routerVars(Ends(c))
  /\ \A p \in Providers : WF_routerVars(Tick(p))

-----------------------------------------------------------------------------
Calls == {c \in Callers : at[c] # 0}

(* "Open after N consecutive failures" (router.py:137), for answers of
   concurrent calls in the order in which they come: a circuit counts no
   failure that an answer has followed, so one that is open has seen the
   threshold of them in a row; and its two fields agree, though each answer
   sets both (record_success, record_failure). *)
OpensOnAStreak ==
  /\ at \in [Callers -> {0} \cup Chain] /\ result \in [Callers -> Results \cup {"none"}]
  /\ \A p \in Providers :
       LET circuit == circuits[p] IN
       /\ streak[p] >= Min({Threshold, circuit.failures})
       /\ circuit.failures \in 0..Threshold - 1 + Cardinality(Callers)
       /\ circuit.age \in Closed..Cooldown
       /\ circuit.age # Closed <=> circuit.failures >= Threshold

(* "A dead endpoint costs one timeout, not one per investigation"
   (router.py:13-14), as far as the code keeps it: while a provider answers
   nobody, the calls begun before its circuit opens are the threshold and one
   for each other investigation under way, and no more after any cooldown, when
   available() lets everybody through until the first call has failed. *)
DeadEndpointCostsLittle ==
  \A p \in Providers : asked[p] <= Threshold - 1 + Cardinality(Callers)

(* Every generation ends, though no caller limits the number of providers
   that time out on it one after the other. *)
GenerationsEnd == \A c \in Callers : c \in Calls ~> c \notin Calls

(* Recovery can always be noticed: no provider is shut out for good, although
   each late failure of a call that was under way starts the cooldown again
   (record_failure on an open circuit). *)
NobodyIsShutOut == \A p \in Providers : []<>Available(circuits[p])
=============================================================================
