------------------------ MODULE SharedServicesProofs -------------------------
(***************************************************************************)
(* Proofs about what all investigations and all users share: Accounts with *)
(* its key cache, for any replicas, addresses, uuids and keys, any time to *)
(* live, and whether or not accounts register themselves; and ModelRouter, *)
(* for any callers, chain, threshold and cooldown.                         *)
(*                                                                         *)
(* The router checks a count first and raises it later: a circuit is asked *)
(* whether it is open before the provider has answered. The limit is kept  *)
(* only up to those who have passed the check together. The invariant is a *)
(* budget: what has been counted, and those under way who may still add    *)
(* one, are together fewer than the limit plus the number of actors.       *)
(* Whoever passes the check has found the count below the limit, and was   *)
(* not under way itself; whoever adds one is no longer under way.          *)
(***************************************************************************)
EXTENDS Accounts, ModelRouter, FiniteSetTheorems, WellFoundedInduction, TLAPS

USE KeyAssumption, AccountAssumption, RouterAssumption

-----------------------------------------------------------------------------
(* The key cache. *)

(* What one tick makes of an age: it grows, no further than one past the time
   to live, and older stays older. *)
LEMMA OlderIs == \A a \in Ages : Older(a) = IF a <= Ttl THEN a + 1 ELSE Ttl + 1
<1>. SUFFICES ASSUME NEW a \in Ages
              PROVE Older(a) = IF a <= Ttl THEN a + 1 ELSE Ttl + 1
  OBVIOUS
<1>. DEFINE m == IF a <= Ttl THEN a + 1 ELSE Ttl + 1
<1>1. m \in {a + 1, Ttl + 1} /\ \A y \in {a + 1, Ttl + 1} : m <= y
  BY DEF Ages
<1>2. \A x \in {a + 1, Ttl + 1} :
        (\A y \in {a + 1, Ttl + 1} : x <= y) => x = m
  BY DEF Ages
<1>. HIDE DEF m
<1>3. Min({a + 1, Ttl + 1}) = m
  BY <1>1, <1>2 DEF Min
<1>. QED
  BY <1>3 DEF Older, m

KeyTypeOK ==
  /\ cache \in [Replicas -> [keys : SUBSET Kids, age : Ages]]
  /\ retired \in [Kids -> Unused..Ttl + 1]

(* A key in a cache, stale or not, is published or was when it was fetched:
   what makes WithdrawnKeysLapse inductive. *)
CachedWerePublished ==
  \A r \in Replicas : \A k \in cache[r].keys : retired[k] \in Published..cache[r].age

KeyInv == KeyTypeOK /\ CachedWerePublished

(* The caches start empty. *)
LEMMA KeysStart == KeyInit => KeyInv
BY DEF KeyInit, KeyInv, KeyTypeOK, CachedWerePublished, Ages, Unused, Published

(* A lookup leaves a key set that was published when it was fetched. *)
LEMMA LookupKeepsKeys ==
  ASSUME KeyInv, NEW r \in Replicas, NEW k \in Kids, NEW reached \in BOOLEAN,
         cache' = [cache EXCEPT ![r] = Lookup(cache[r], k, reached).cache],
         UNCHANGED retired
  PROVE  KeyInv'
<1>. DEFINE new == Lookup(cache[r], k, reached).cache
<1>1. new = cache[r] \/ new = [keys |-> PublishedKeys, age |-> 0]
  BY DEF Lookup, Refreshed
<1>. HIDE DEF new
<1>2. cache' = [cache EXCEPT ![r] = new]
  BY DEF new
<1>3. CASE new = cache[r]
  BY <1>2, <1>3 DEF KeyInv, KeyTypeOK, CachedWerePublished
<1>4. CASE new = [keys |-> PublishedKeys, age |-> 0]
  BY <1>2, <1>4
  DEF KeyInv, KeyTypeOK, CachedWerePublished, PublishedKeys, Ages, Unused, Published
<1>. QED
  BY <1>1, <1>3, <1>4

(* The issuer's steps leave every cached key one that was published. *)
LEMMA RotationKeepsKeys == KeyInv /\ (Publish \/ Withdraw) => KeyInv'
<1>. SUFFICES ASSUME KeyInv, Publish \/ Withdraw PROVE KeyInv'
  OBVIOUS
<1>1. CASE Publish
  BY <1>1
  DEF KeyInv, KeyTypeOK, CachedWerePublished, Publish, Ages, Unused, Published
<1>2. CASE Withdraw
  BY <1>2
  DEF KeyInv, KeyTypeOK, CachedWerePublished, Withdraw, PublishedKeys, Ages, Unused, Published
<1>. QED
  BY <1>1, <1>2

(* A tick ages a cache and what was withdrawn since alike. *)
LEMMA TimeKeepsKeys == KeyInv /\ TimePasses => KeyInv'
<1>. SUFFICES ASSUME KeyInv, TimePasses PROVE KeyInv'
  OBVIOUS
<1>1. \A r \in Replicas : /\ cache'[r].keys = cache[r].keys
                          /\ cache'[r].age = Older(cache[r].age)
  BY DEF KeyInv, KeyTypeOK, TimePasses
<1>2. \A k \in Kids :
        retired'[k] = IF retired[k] < 0 THEN retired[k] ELSE Older(retired[k])
  BY DEF TimePasses
<1>3. KeyTypeOK'
  <2>1. \A a \in Ages : Older(a) \in Ages
    BY OlderIs DEF Ages
  <2>2. \A k \in Kids : retired[k] < 0 \/ retired[k] \in Ages
    BY DEF KeyInv, KeyTypeOK, Ages, Unused
  <2>3. cache' \in [Replicas -> [keys : SUBSET Kids, age : Ages]]
    BY <2>1 DEF KeyInv, KeyTypeOK, TimePasses
  <2>4. \A k \in Kids :
          (IF retired[k] < 0 THEN retired[k] ELSE Older(retired[k])) \in Unused..Ttl + 1
    BY <2>1, <2>2 DEF KeyInv, KeyTypeOK, Ages, Unused
  <2>. QED
    BY <2>3, <2>4 DEF KeyTypeOK, TimePasses
<1>4. ASSUME NEW r \in Replicas, NEW k \in cache'[r].keys
      PROVE  retired'[k] \in Published..cache'[r].age
  <2>1. k \in Kids /\ cache[r].age \in Ages /\ retired[k] \in Published..cache[r].age
    BY <1>1, <1>4 DEF KeyInv, KeyTypeOK, CachedWerePublished
  <2>2. CASE retired[k] < 0
    BY <1>1, <1>2, <2>1, <2>2, OlderIs DEF Ages, Published
  <2>3. CASE ~(retired[k] < 0)
    <3>1. retired[k] \in Ages
      BY <2>1, <2>3 DEF Ages, Published
    <3>. QED
      BY <1>1, <1>2, <2>1, <2>3, <3>1, OlderIs DEF Ages, Published
  <2>. QED
    BY <2>2, <2>3
<1>. QED
  BY <1>3, <1>4 DEF KeyInv, CachedWerePublished

-----------------------------------------------------------------------------
(* The accounts. *)

OneEach == \A u, v \in users : u.email = v.email => u = v

UsersTypeOK ==
  /\ users \subseteq Account
  /\ \A r \in Replicas : op[r] \subseteq Creation /\ Cardinality(op[r]) <= 1
  /\ op \in [Replicas -> SUBSET Creation]

(* A creation that has committed has its row: what makes the answers of
   SessionsNameAccounts inductive. *)
CommittedAreStored ==
  \A r \in Replicas : \A o \in op[r] : o.stage = "committed" => o.account \in users

UsersInv == UsersTypeOK /\ CommittedAreStored /\ sessions \subseteq users /\ OneEach

AccountsInv == KeyInv /\ UsersInv

(* Initially nobody is known and no request runs. *)
LEMMA AccountsStart == Init => AccountsInv
BY KeysStart, FS_EmptySet
DEF Init, AccountsInv, UsersInv, UsersTypeOK, CommittedAreStored, OneEach

(* A request creates one account. *)
LEMMA OneIsOne == \A x : Cardinality({x}) <= 1
<1>. SUFFICES ASSUME NEW x PROVE Cardinality({x}) <= 1
  OBVIOUS
<1>1. Cardinality({x}) = 1
  BY FS_Singleton
<1>. QED
  BY <1>1

(* A creation that begins asks nothing of the table yet. *)
LEMMA StartKeepsUsers ==
  ASSUME UsersInv, NEW r \in Replicas, NEW e \in Emails,
         NEW provider \in {"password", "google"}, StartCreate(r, e, provider),
         UNCHANGED <<users, sessions>>
  PROVE  UsersInv'
<1>1. PICK s \in Subjects :
        op' = [op EXCEPT ![r] =
                 {[stage |-> "checked",
                   account |-> [subject |-> s, email |-> e, provider |-> provider]]}]
  BY DEF StartCreate
<1>. DEFINE o == [stage |-> "checked",
                  account |-> [subject |-> s, email |-> e, provider |-> provider]]
<1>2. o \in Creation /\ o.stage = "checked"
  BY DEF Creation, Account
<1>3. op' = [op EXCEPT ![r] = {o}]
  BY <1>1
<1>. HIDE DEF o
<1>4. Cardinality({o}) <= 1
  BY OneIsOne
<1>. QED
  BY <1>2, <1>3, <1>4 DEF UsersInv, UsersTypeOK, CommittedAreStored, OneEach

(* A request that ends, answered or not, leaves the others as they are. *)
LEMMA EndKeepsUsers ==
  ASSUME UsersInv, NEW r \in Replicas, op' = [op EXCEPT ![r] = {}], UNCHANGED users,
         sessions' \subseteq users
  PROVE  UsersInv'
BY FS_EmptySet DEF UsersInv, UsersTypeOK, CommittedAreStored, OneEach

(* The commit adds the row of a new email and refuses the second of a known
   one: rows are never lost, and stay one of each email. *)
LEMMA InsertKeepsUsers ==
  ASSUME UsersInv, NEW r \in Replicas, Insert(r) PROVE UsersInv'
<1>1. PICK o \in op[r] :
        /\ o.stage = "checked"
        /\ users' = Stored(o.account)
        /\ op' = [op EXCEPT ![r] = IF Committed(o.account)
                                   THEN {[o EXCEPT !.stage = "committed"]} ELSE {}]
  BY DEF Insert
<1>2. o \in Creation /\ o.account \in Account
  BY DEF UsersInv, UsersTypeOK, Creation
<1>3. users \subseteq users' /\ users' \subseteq Account /\ OneEach'
  BY <1>1, <1>2 DEF UsersInv, UsersTypeOK, OneEach, Stored, RowsOf, Account
<1>. DEFINE done == [o EXCEPT !.stage = "committed"]
<1>4. done \in Creation /\ done.account = o.account
  BY <1>2 DEF Creation
<1>. HIDE DEF done
<1>5. sessions' \subseteq users'
  BY <1>3 DEF UsersInv, Insert
<1>6. CASE Committed(o.account)
  <2>1. op' = [op EXCEPT ![r] = {done}] /\ done.account \in users'
    BY <1>1, <1>4, <1>6 DEF done, Committed
  <2>2. Cardinality({done}) <= 1
    BY OneIsOne
  <2>3. UsersTypeOK'
    BY <1>3, <1>4, <2>1, <2>2 DEF UsersInv, UsersTypeOK
  <2>4. CommittedAreStored'
    BY <1>3, <2>1 DEF UsersInv, UsersTypeOK, CommittedAreStored
  <2>. QED
    BY <1>3, <1>5, <2>3, <2>4 DEF UsersInv
<1>7. CASE ~ Committed(o.account)
  <2>1. op' = [op EXCEPT ![r] = {}]
    BY <1>1, <1>7
  <2>. QED
    BY <1>3, <1>5, <2>1, FS_EmptySet
    DEF UsersInv, UsersTypeOK, CommittedAreStored
<1>. QED
  BY <1>6, <1>7

(* Signing in with Google looks a key up, and then answers, creates or refuses. *)
LEMMA GoogleKeepsAccounts ==
  ASSUME AccountsInv, NEW r \in Replicas, NEW e \in Emails, NEW k \in Kids,
         NEW reached \in BOOLEAN, GoogleSignIn(r, e, k, reached)
  PROVE  AccountsInv'
<1>1. KeyInv'
  BY LookupKeepsKeys DEF AccountsInv, GoogleSignIn
<1>2. CASE UNCHANGED <<op, sessions>>
  BY <1>1, <1>2
  DEF AccountsInv, UsersInv, UsersTypeOK, CommittedAreStored, OneEach, GoogleSignIn
<1>3. CASE sessions' = sessions \cup RowsOf(e) /\ UNCHANGED op
  BY <1>1, <1>3
  DEF AccountsInv, UsersInv, UsersTypeOK, CommittedAreStored, OneEach, GoogleSignIn, RowsOf
<1>4. CASE StartCreate(r, e, "google") /\ UNCHANGED sessions
  BY <1>1, <1>4, StartKeepsUsers DEF AccountsInv, GoogleSignIn
<1>. QED
  BY <1>2, <1>3, <1>4 DEF GoogleSignIn

(* Every step of the system keeps the invariant. *)
LEMMA AccountsStep == AccountsInv /\ [Next]_vars => AccountsInv'
<1>. SUFFICES ASSUME AccountsInv, [Next]_vars PROVE AccountsInv'
  OBVIOUS
<1>. USE DEF AccountsInv
<1>0. ASSUME UNCHANGED keyVars PROVE KeyInv'
  BY <1>0 DEF keyVars, KeyInv, KeyTypeOK, CachedWerePublished
<1>1. ASSUME UNCHANGED <<users, op, sessions>> PROVE UsersInv'
  BY <1>1 DEF UsersInv, UsersTypeOK, CommittedAreStored, OneEach
<1>2. ASSUME NEW r \in Replicas, NEW e \in Emails, Register(r, e) PROVE AccountsInv'
  BY <1>0, <1>2, StartKeepsUsers DEF Register
<1>3. ASSUME NEW r \in Replicas, NEW e \in Emails, NEW k \in Kids, NEW reached \in BOOLEAN,
             GoogleSignIn(r, e, k, reached)
      PROVE  AccountsInv'
  BY <1>3, GoogleKeepsAccounts
<1>4. ASSUME NEW r \in Replicas, Insert(r) PROVE AccountsInv'
  BY <1>0, <1>4, InsertKeepsUsers DEF Insert
<1>5. ASSUME NEW r \in Replicas, AnswerCreated(r) PROVE AccountsInv'
  <2>1. sessions' \subseteq users
    BY <1>5 DEF AnswerCreated, UsersInv, CommittedAreStored
  <2>. QED
    BY <1>0, <1>5, <2>1, EndKeepsUsers DEF AnswerCreated
<1>6. ASSUME NEW r \in Replicas, NEW s \in Subjects, Login(r, s) PROVE AccountsInv'
  BY <1>0, <1>6 DEF Login, UsersInv, UsersTypeOK, CommittedAreStored, OneEach
<1>7. ASSUME NEW r \in Replicas, ReplicaDies(r) PROVE AccountsInv'
  <2>1. KeyInv'
    BY <1>7 DEF ReplicaDies, KeyInv, KeyTypeOK, CachedWerePublished, Ages
  <2>2. UsersInv'
    BY <1>7, EndKeepsUsers DEF ReplicaDies, UsersInv
  <2>. QED
    BY <2>1, <2>2
<1>8. CASE IssuerRotates
  BY <1>1, <1>8, RotationKeepsKeys DEF IssuerRotates
<1>9. CASE ClockTicks
  BY <1>1, <1>9, TimeKeepsKeys DEF ClockTicks
<1>10. CASE UNCHANGED vars
  BY <1>0, <1>1, <1>10 DEF vars
<1>. QED
  BY <1>2, <1>3, <1>4, <1>5, <1>6, <1>7, <1>8, <1>9, <1>10 DEF Next

(* So it holds in every reachable state. *)
LEMMA AccountsInvariant == Spec => []AccountsInv
BY AccountsStart, AccountsStep, PTL DEF Spec

(* Whoever was answered with a session has the account for good, the only one
   of its email, whatever replicas create, crash at or are refused (register,
   login and sign_in_with_google over the users table). *)
THEOREM SessionsHold == Spec => []SessionsNameAccounts
<1>1. AccountsInv => SessionsNameAccounts
  BY DEF AccountsInv, UsersInv, UsersTypeOK, OneEach, KeyInv, KeyTypeOK,
         SessionsNameAccounts
<1>. QED
  BY <1>1, AccountsInvariant, PTL

(* No replica accepts a key without a fetch for longer than the time to live
   after the issuer withdrew it, however fetches fail (_JwksCache.get). *)
THEOREM KeysLapse == Spec => []WithdrawnKeysLapse
<1>1. AccountsInv => WithdrawnKeysLapse
  BY DEF AccountsInv, KeyInv, CachedWerePublished, WithdrawnKeysLapse, MustFetch
<1>. QED
  BY <1>1, AccountsInvariant, PTL

(***************************************************************************)
(* The router.                                                             *)
(***************************************************************************)
Circuit == [failures : Nat, age : Closed..Cooldown]

(* Those whose call has reached p, when a says where each call is. *)
CallsTo(a, p) == {c \in Callers : a[c] # 0 /\ ProviderOrder[a[c]] = p}

RouterTypeOK ==
  /\ at \in [Callers -> {0} \cup Chain]
  /\ result \in [Callers -> Results \cup {"none"}]

(* The two fields of a circuit agree, and it counts no more than the streak. *)
CircuitsSound(cs, st) ==
  /\ cs \in [Providers -> Circuit]
  /\ st \in [Providers -> Nat]
  /\ \A p \in Providers :
       /\ st[p] >= Threshold \/ st[p] >= cs[p].failures
       /\ cs[p].age # Closed <=> cs[p].failures >= Threshold

(* The budget of calls and failures. *)
WithinBudget(a, cs, count) ==
  /\ count \in [Providers -> Nat]
  /\ \A p \in Providers :
       /\ count[p] <= cs[p].failures + Cardinality(CallsTo(a, p))
       /\ cs[p].failures + Cardinality(CallsTo(a, p))
            <= Threshold - 1 + Cardinality(Callers)

RouterInv ==
  /\ RouterTypeOK
  /\ CircuitsSound(circuits, streak)
  /\ WithinBudget(at, circuits, asked)

-----------------------------------------------------------------------------
(* Numbers and counting. *)

(* The smaller of two numbers. *)
LEMMA LeastOfTwo ==
  ASSUME NEW x \in Int, NEW y \in Int
  PROVE  Min({x, y}) = IF x <= y THEN x ELSE y
<1>. DEFINE m == IF x <= y THEN x ELSE y
<1>1. m \in {x, y} /\ \A z \in {x, y} : m <= z
  OBVIOUS
<1>2. \A n \in {x, y} : (\A z \in {x, y} : n <= z) => n = m
  OBVIOUS
<1>. QED
  BY <1>1, <1>2 DEF Min

(* A set of places that has a member has a first one. *)
LEMMA FirstUsable ==
  ASSUME NEW S \in SUBSET Chain, S # {}
  PROVE  Min(S) \in S
<1>. DEFINE R == OpToRel(<, Nat)
<1>1. S \in SUBSET Nat
  BY DEF Chain
<1>2. IsWellFoundedOn(R, Nat)
  BY NatLessThanWellFounded
<1>3. \A x, y \in Nat : y < x => <<y, x>> \in R
  BY DEF OpToRel
<1>. HIDE DEF R
<1>4. PICK m \in S : \A n \in S : <<n, m>> \notin R
  BY <1>1, <1>2, WFMin
<1>5. \A n \in S : m <= n
  <2>. SUFFICES ASSUME NEW n \in S PROVE m <= n
    OBVIOUS
  <2>1. n \in Nat /\ m \in Nat /\ <<n, m>> \notin R
    BY <1>1, <1>4
  <2>2. ~ (n < m)
    BY <1>3, <2>1
  <2>. QED
    BY <2>1, <2>2
<1>. QED
  BY <1>5 DEF Min

(* Each place of the chain names a provider; 0 is none of them. *)
LEMMA PlacesNameProviders ==
  /\ \A j \in Chain : j # 0 /\ ProviderOrder[j] \in Providers
  /\ 0 \notin Chain
  BY DEF Chain, Providers

(* What a step does to the place of one caller. *)
Moved(a, b, c, j) == b = [a EXCEPT ![c] = j]

(* The calls to a provider are finitely many; an idle caller makes none, so
   there is always room for its own. *)
LEMMA CallsFinite ==
  ASSUME NEW a, NEW p
  PROVE  /\ IsFiniteSet(CallsTo(a, p)) /\ Cardinality(CallsTo(a, p)) \in Nat
         /\ Cardinality(Callers) \in Nat
         /\ Cardinality(CallsTo(a, p)) <= Cardinality(Callers)
<1>1. CallsTo(a, p) \in SUBSET Callers
  BY DEF CallsTo
<1>. QED
  BY <1>1, FS_Subset, FS_CardinalityType

(* A call that begins is one more to its provider and to no other. *)
LEMMA CallBegins ==
  ASSUME NEW a \in [Callers -> {0} \cup Chain], NEW b, NEW c \in Callers,
         NEW j \in Chain, a[c] = 0, Moved(a, b, c, j), NEW p
  PROVE  Cardinality(CallsTo(b, p))
           = IF p = ProviderOrder[j] THEN Cardinality(CallsTo(a, p)) + 1
             ELSE Cardinality(CallsTo(a, p))
<1>1. c \notin CallsTo(a, p) /\ IsFiniteSet(CallsTo(a, p))
  BY CallsFinite DEF CallsTo
<1>2. CallsTo(b, p)
        = IF p = ProviderOrder[j] THEN CallsTo(a, p) \cup {c} ELSE CallsTo(a, p)
  BY PlacesNameProviders DEF CallsTo, Moved
<1>3. Cardinality(CallsTo(a, p) \cup {c}) = Cardinality(CallsTo(a, p)) + 1
  BY <1>1, FS_AddElement
<1>. QED
  BY <1>2, <1>3

(* A call that ends is one fewer to its provider and to no other. *)
LEMMA CallEnds ==
  ASSUME NEW a \in [Callers -> {0} \cup Chain], NEW b, NEW c \in Callers,
         a[c] # 0, Moved(a, b, c, 0), NEW p
  PROVE  Cardinality(CallsTo(b, p))
           = IF p = ProviderOrder[a[c]] THEN Cardinality(CallsTo(a, p)) - 1
             ELSE Cardinality(CallsTo(a, p))
<1>1. CallsTo(b, p) = CallsTo(a, p) \ {c}
  BY DEF CallsTo, Moved
<1>2. c \in CallsTo(a, p) <=> p = ProviderOrder[a[c]]
  BY DEF CallsTo
<1>3. Cardinality(CallsTo(a, p) \ {c})
        = IF c \in CallsTo(a, p) THEN Cardinality(CallsTo(a, p)) - 1
          ELSE Cardinality(CallsTo(a, p))
  <2>1. IsFiniteSet(CallsTo(a, p))
    BY CallsFinite
  <2>. QED
    BY <2>1, FS_RemoveElement
<1>. QED
  BY <1>1, <1>2, <1>3

(* Whoever is idle leaves room in the count of callers. *)
LEMMA IdleLeavesRoom ==
  ASSUME NEW a, NEW c \in Callers, a[c] = 0, NEW p
  PROVE  Cardinality(CallsTo(a, p)) <= Cardinality(Callers) - 1
<1>1. CallsTo(a, p) \in SUBSET (Callers \ {c})
  BY DEF CallsTo
<1>2. /\ IsFiniteSet(Callers \ {c})
      /\ Cardinality(Callers \ {c}) = Cardinality(Callers) - 1
  BY FS_RemoveElement
<1>. QED
  BY <1>1, <1>2, FS_Subset

-----------------------------------------------------------------------------
(* Going on along the chain. *)

(* Of a caller that is idle in a, given circuits and counts that keep to the
   budget: asking the rest of the chain keeps to it. *)
LEMMA AskKeeps ==
  ASSUME NEW a \in [Callers -> {0} \cup Chain], NEW c \in Callers, a[c] = 0,
         NEW i, NEW cs, NEW st, NEW count,
         CircuitsSound(cs, st), WithinBudget(a, cs, count),
         [at EXCEPT ![c] = 0] = a, at \in [Callers -> {0} \cup Chain],
         result \in [Callers -> Results \cup {"none"}],
         Ask(c, cs, i, count)
  PROVE  /\ RouterTypeOK'
         /\ CircuitsSound(circuits', st)
         /\ WithinBudget(at', circuits', asked')
<1>1. CASE Usable(cs, i) = {}
  <2>1. /\ at' = a /\ circuits' = cs /\ asked' = count
        /\ result' = [result EXCEPT ![c] = "template"]
    BY <1>1 DEF Ask
  <2>. QED
    BY <2>1 DEF RouterTypeOK, Results
<1>2. CASE Usable(cs, i) # {}
  <2>. DEFINE j == Min(Usable(cs, i))
              p == ProviderOrder[j]
  <2>1. j \in Chain /\ Available(cs[p])
    <3>1. Usable(cs, i) \in SUBSET Chain
      BY DEF Usable
    <3>2. j \in Usable(cs, i)
      BY <1>2, <3>1, FirstUsable
    <3>. QED
      BY <3>2 DEF Usable
  <2>2. p \in Providers
    BY <2>1, PlacesNameProviders
  <2>3. /\ at' = [at EXCEPT ![c] = j]
        /\ result' = [result EXCEPT ![c] = "none"]
        /\ circuits' = [cs EXCEPT ![p] = HalfOpened(@)]
        /\ asked' = [count EXCEPT ![p] = IF cs[p].age = Cooldown THEN 1 ELSE @ + 1]
    BY <1>2 DEF Ask
  <2>. HIDE DEF j, p
  <2>4. at' = [a EXCEPT ![c] = j] /\ at' \in [Callers -> {0} \cup Chain]
    BY <2>1, <2>3
  <2>5. RouterTypeOK'
    BY <2>3, <2>4 DEF RouterTypeOK
  <2>6. cs[p] \in Circuit /\ cs[p].failures \in Nat
    BY <2>2 DEF CircuitsSound, Circuit
  <2>7. /\ circuits'[p] \in Circuit
        /\ circuits'[p].failures <= Threshold - 1 /\ circuits'[p].age = Closed
        /\ cs[p].failures < Threshold => circuits'[p] = cs[p]
        /\ cs[p].failures >= Threshold =>
             cs[p].age = Cooldown /\ circuits'[p].failures = Threshold - 1
    <3>1. circuits'[p] = HalfOpened(cs[p])
      BY <2>2, <2>3 DEF CircuitsSound
    <3>2. cs[p].age # Closed <=> cs[p].failures >= Threshold
      BY <2>2 DEF CircuitsSound
    <3>. QED
      BY <2>1, <2>6, <3>1, <3>2 DEF HalfOpened, Available, Circuit, Closed
  <2>8. CircuitsSound(circuits', st)
    BY <2>2, <2>3, <2>6, <2>7 DEF CircuitsSound, Circuit
  <2>9. WithinBudget(at', circuits', asked')
    <3>1. asked' \in [Providers -> Nat]
      <4>. DEFINE v == IF cs[p].age = Cooldown THEN 1 ELSE count[p] + 1
      <4>1. v \in Nat /\ count \in [Providers -> Nat]
        BY <2>2 DEF WithinBudget
      <4>2. asked' = [count EXCEPT ![p] = v]
        BY <2>3
      <4>. HIDE DEF v
      <4>. QED
        BY <4>1, <4>2
    <3>2. ASSUME NEW q \in Providers
          PROVE  /\ asked'[q] <= circuits'[q].failures + Cardinality(CallsTo(at', q))
                 /\ circuits'[q].failures + Cardinality(CallsTo(at', q))
                      <= Threshold - 1 + Cardinality(Callers)
      <4>. DEFINE n == Cardinality(CallsTo(a, q))
      <4>1. /\ n \in Nat /\ Cardinality(Callers) \in Nat
            /\ n <= Cardinality(Callers) - 1
        BY CallsFinite, IdleLeavesRoom
      <4>2. Cardinality(CallsTo(at', q)) = IF q = p THEN n + 1 ELSE n
        <5>1. Moved(a, at', c, j)
          BY <2>4 DEF Moved
        <5>. QED
          BY <2>1, <5>1, CallBegins DEF p
      <4>3. count[q] \in Nat /\ count[q] <= cs[q].failures + n
            /\ cs[q].failures + n <= Threshold - 1 + Cardinality(Callers)
        BY DEF WithinBudget
      <4>. HIDE DEF n
      <4>4. CASE q = p
        <5>1. circuits'[p].failures \in Nat
          BY <2>7 DEF Circuit
        <5>2. asked'[p] = IF cs[p].age = Cooldown THEN 1 ELSE count[p] + 1
          BY <2>2, <2>3 DEF WithinBudget
        <5>3. asked'[p] = 1 \/ (asked'[p] = count[p] + 1 /\ circuits'[p] = cs[p])
          BY <2>6, <2>7, <5>2
        <5>. DEFINE f == circuits'[p].failures
                    k == Cardinality(CallsTo(at', q))
        <5>4. /\ f \in Nat /\ f <= Threshold - 1 /\ k = n + 1
              /\ asked'[q] = asked'[p] /\ circuits'[q].failures = f
          BY <2>7, <4>2, <4>4, <5>1
        <5>5. asked'[q] <= f + k
          <6>1. CASE asked'[p] = 1
            BY <4>1, <5>4, <6>1
          <6>2. CASE asked'[p] = count[p] + 1 /\ circuits'[p] = cs[p]
            <7>1. f = cs[q].failures /\ asked'[q] = count[q] + 1
              BY <4>4, <5>4, <6>2
            <7>. HIDE DEF f, k
            <7>. QED
              BY <4>1, <4>3, <5>4, <7>1
          <6>. QED
            BY <5>3, <6>1, <6>2
        <5>. HIDE DEF f, k
        <5>6. f + k <= Threshold - 1 + Cardinality(Callers)
          BY <4>1, <5>4
        <5>. QED
          BY <5>4, <5>5, <5>6 DEF k
      <4>5. CASE q # p
        <5>1. circuits'[q] = cs[q] /\ asked'[q] = count[q]
          BY <2>3, <4>5 DEF CircuitsSound, WithinBudget
        <5>. QED
          BY <4>2, <4>3, <4>5, <5>1
      <4>. QED
        BY <4>4, <4>5
    <3>. QED
      BY <3>1, <3>2 DEF WithinBudget
  <2>. QED
    BY <2>5, <2>8, <2>9
<1>. QED
  BY <1>1, <1>2

-----------------------------------------------------------------------------
(* The actions. *)

(* An answer closes the circuit and ends the count of calls. *)
LEMMA AnswersKeeps ==
  ASSUME RouterInv, NEW c \in Callers, Answers(c)
  PROVE  RouterInv'
<1>. DEFINE p == ProviderOrder[at[c]]
<1>1. at[c] \in Chain /\ p \in Providers /\ at \in [Callers -> {0} \cup Chain]
  BY PlacesNameProviders DEF RouterInv, RouterTypeOK, Answers
<1>2. /\ circuits' = [circuits EXCEPT ![p] = RecordSuccess(@)]
      /\ streak' = [streak EXCEPT ![p] = 0] /\ asked' = [asked EXCEPT ![p] = 0]
      /\ Moved(at, at', c, 0) /\ at[c] # 0
  BY DEF Answers, Moved
<1>3. RouterTypeOK'
  BY DEF RouterInv, RouterTypeOK, Answers, Results
<1>. HIDE DEF p
<1>4. CircuitsSound(circuits', streak')
  BY <1>1, <1>2 DEF RouterInv, CircuitsSound, Circuit, RecordSuccess, Closed
<1>5. WithinBudget(at', circuits', asked')
  <2>1. asked' \in [Providers -> Nat]
    BY <1>1, <1>2 DEF RouterInv, WithinBudget
  <2>2. ASSUME NEW q \in Providers
        PROVE  /\ asked'[q] <= circuits'[q].failures + Cardinality(CallsTo(at', q))
               /\ circuits'[q].failures + Cardinality(CallsTo(at', q))
                    <= Threshold - 1 + Cardinality(Callers)
    <3>1. CASE q = p
      <4>1. circuits'[q].failures = 0 /\ asked'[q] = 0
        BY <1>1, <1>2, <3>1 DEF RouterInv, CircuitsSound, WithinBudget, RecordSuccess
      <4>. QED
        BY <4>1, CallsFinite
    <3>2. CASE q # p
      <4>1. circuits'[q] = circuits[q] /\ asked'[q] = asked[q]
        BY <1>2, <3>2 DEF RouterInv, CircuitsSound, WithinBudget
      <4>2. Cardinality(CallsTo(at', q)) = Cardinality(CallsTo(at, q))
        BY <1>1, <1>2, <3>2, CallEnds DEF p
      <4>. QED
        BY <4>1, <4>2 DEF RouterInv, WithinBudget
    <3>. QED
      BY <3>1, <3>2
  <2>. QED
    BY <2>1, <2>2 DEF WithinBudget
<1>. QED
  BY <1>3, <1>4, <1>5 DEF RouterInv

(* An exception leaves the circuit as it is and the caller idle. *)
LEMMA EscapesKeeps ==
  ASSUME RouterInv, NEW c \in Callers, Escapes(c)
  PROVE  RouterInv'
<1>. DEFINE p == ProviderOrder[at[c]]
<1>1. at[c] \in Chain /\ p \in Providers /\ at \in [Callers -> {0} \cup Chain]
  BY PlacesNameProviders DEF RouterInv, RouterTypeOK, Escapes
<1>2. /\ circuits' = circuits /\ streak' = streak
      /\ asked' = [asked EXCEPT ![p] = 0]
      /\ Moved(at, at', c, 0) /\ at[c] # 0
  BY DEF Escapes, Moved
<1>3. RouterTypeOK'
  BY DEF RouterInv, RouterTypeOK, Escapes, Results
<1>. HIDE DEF p
<1>4. CircuitsSound(circuits', streak')
  BY <1>2 DEF RouterInv
<1>5. WithinBudget(at', circuits', asked')
  <2>1. asked' \in [Providers -> Nat]
    BY <1>1, <1>2 DEF RouterInv, WithinBudget
  <2>2. ASSUME NEW q \in Providers
        PROVE  /\ asked'[q] <= circuits'[q].failures + Cardinality(CallsTo(at', q))
               /\ circuits'[q].failures + Cardinality(CallsTo(at', q))
                    <= Threshold - 1 + Cardinality(Callers)
    <3>. DEFINE n == Cardinality(CallsTo(at, q))
                k == Cardinality(CallsTo(at', q))
    <3>1. k = IF q = p THEN n - 1 ELSE n
      BY <1>1, <1>2, CallEnds DEF p
    <3>2. /\ n \in Nat /\ k \in Nat /\ circuits[q].failures \in Nat
          /\ circuits' = circuits
      BY <1>2, CallsFinite DEF RouterInv, CircuitsSound, Circuit
    <3>3. /\ asked[q] <= circuits[q].failures + n
          /\ circuits[q].failures + n <= Threshold - 1 + Cardinality(Callers)
          /\ asked'[q] = IF q = p THEN 0 ELSE asked[q]
      BY <1>2 DEF RouterInv, WithinBudget
    <3>4. Cardinality(Callers) \in Nat
      BY CallsFinite
    <3>. HIDE DEF n, k
    <3>5. /\ asked'[q] <= circuits[q].failures + k
          /\ circuits[q].failures + k <= Threshold - 1 + Cardinality(Callers)
      BY <3>1, <3>2, <3>3, <3>4
    <3>. QED
      BY <3>2, <3>5 DEF k
  <2>. QED
    BY <2>1, <2>2 DEF WithinBudget
<1>. QED
  BY <1>3, <1>4, <1>5 DEF RouterInv

(* A failure: one more that the circuit has counted and one call fewer that
   may still fail, before the caller goes on. *)
LEMMA FailsKeeps ==
  ASSUME RouterInv, NEW c \in Callers, Fails(c)
  PROVE  RouterInv'
<1>. DEFINE p == ProviderOrder[at[c]]
            a == [at EXCEPT ![c] = 0]
            cs == [circuits EXCEPT ![p] = RecordFailure(@)]
<1>1. /\ at[c] \in Chain /\ at[c] # 0 /\ p \in Providers
      /\ at \in [Callers -> {0} \cup Chain]
      /\ result \in [Callers -> Results \cup {"none"}]
  BY PlacesNameProviders DEF RouterInv, RouterTypeOK, Fails
<1>2. /\ Ask(c, cs, at[c] + 1, asked)
      /\ streak' = [streak EXCEPT ![p] = Min({Threshold, @ + 1})]
  BY DEF Fails
<1>3. /\ a \in [Callers -> {0} \cup Chain] /\ a[c] = 0
      /\ [at EXCEPT ![c] = 0] = a /\ Moved(at, a, c, 0)
  BY <1>1 DEF Moved
<1>. HIDE DEF p, a
<1>4. /\ circuits \in [Providers -> Circuit] /\ streak \in [Providers -> Nat]
      /\ circuits[p].failures \in Nat /\ circuits[p].age \in Closed..Cooldown
  BY <1>1 DEF RouterInv, CircuitsSound, Circuit
<1>5. /\ cs \in [Providers -> Circuit]
      /\ cs[p].failures = circuits[p].failures + 1
      /\ cs[p].age # Closed <=> cs[p].failures >= Threshold
      /\ \A q \in Providers : q # p => cs[q] = circuits[q]
  <2>1. circuits[p].age # Closed <=> circuits[p].failures >= Threshold
    BY <1>1 DEF RouterInv, CircuitsSound
  <2>2. RecordFailure(circuits[p]) \in Circuit
    BY <1>4 DEF Circuit, RecordFailure, Closed
  <2>. QED
    BY <1>1, <1>4, <2>1, <2>2 DEF RecordFailure, Closed
<1>. HIDE DEF cs
<1>6. CircuitsSound(cs, streak')
  <2>1. Min({Threshold, streak[p] + 1})
          = IF Threshold <= streak[p] + 1 THEN Threshold ELSE streak[p] + 1
    BY <1>1, <1>4, LeastOfTwo
  <2>2. /\ streak' \in [Providers -> Nat]
        /\ streak'[p] >= Threshold \/ streak'[p] = streak[p] + 1
        /\ \A q \in Providers : q # p => streak'[q] = streak[q]
    BY <1>1, <1>2, <1>4, <2>1
  <2>3. streak'[p] >= Threshold \/ streak'[p] >= cs[p].failures
    <3>1. streak[p] >= Threshold \/ streak[p] >= circuits[p].failures
      BY <1>1 DEF RouterInv, CircuitsSound
    <3>. QED
      BY <1>1, <1>4, <1>5, <2>2, <3>1
  <2>. QED
    BY <1>5, <2>2, <2>3 DEF RouterInv, CircuitsSound
<1>7. WithinBudget(a, cs, asked)
  <2>1. ASSUME NEW q \in Providers
        PROVE  /\ asked[q] <= cs[q].failures + Cardinality(CallsTo(a, q))
               /\ cs[q].failures + Cardinality(CallsTo(a, q))
                    <= Threshold - 1 + Cardinality(Callers)
    <3>. DEFINE n == Cardinality(CallsTo(at, q))
                k == Cardinality(CallsTo(a, q))
    <3>1. k = IF q = p THEN n - 1 ELSE n
      BY <1>1, <1>3, CallEnds DEF p
    <3>2. n \in Nat /\ circuits[q].failures \in Nat
      BY <1>4, CallsFinite DEF Circuit
    <3>3. /\ asked[q] <= circuits[q].failures + n
          /\ circuits[q].failures + n <= Threshold - 1 + Cardinality(Callers)
      BY DEF RouterInv, WithinBudget
    <3>. HIDE DEF n, k
    <3>4. cs[q].failures + k = circuits[q].failures + n
      <4>1. CASE q = p
        <5>1. cs[q].failures = circuits[q].failures + 1 /\ k = n - 1
          BY <1>5, <3>1, <4>1
        <5>. QED
          BY <3>2, <5>1
      <4>2. CASE q # p
        BY <1>5, <3>1, <4>2
      <4>. QED
        BY <4>1, <4>2
    <3>. QED
      BY <3>3, <3>4 DEF k
  <2>. QED
    BY <2>1 DEF RouterInv, WithinBudget
<1>8. RouterTypeOK' /\ CircuitsSound(circuits', streak') /\ WithinBudget(at', circuits', asked')
  BY <1>1, <1>2, <1>3, <1>6, <1>7, AskKeeps
<1>. QED
  BY <1>8 DEF RouterInv

(* A generation that starts at some provider keeps within the budget. *)
LEMMA GenerateKeeps ==
  ASSUME RouterInv, NEW c \in Callers, Generate(c)
  PROVE  RouterInv'
<1>1. /\ at \in [Callers -> {0} \cup Chain] /\ at[c] = 0
      /\ result \in [Callers -> Results \cup {"none"}]
      /\ Ask(c, circuits, 1, asked) /\ streak' = streak
  BY DEF RouterInv, RouterTypeOK, Generate
<1>2. [at EXCEPT ![c] = 0] = at
  BY <1>1
<1>3. CircuitsSound(circuits, streak) /\ WithinBudget(at, circuits, asked)
  BY DEF RouterInv
<1>4. RouterTypeOK' /\ CircuitsSound(circuits', streak) /\ WithinBudget(at', circuits', asked')
  BY <1>1, <1>2, <1>3, AskKeeps
<1>. QED
  BY <1>1, <1>4 DEF RouterInv

(* Time that passes ages the openings and costs nothing. *)
LEMMA TickKeeps ==
  ASSUME RouterInv, NEW p \in Providers, Tick(p)
  PROVE  RouterInv'
<1>1. RouterTypeOK'
  BY DEF RouterInv, RouterTypeOK, Tick
<1>2. /\ circuits' \in [Providers -> Circuit]
      /\ \A q \in Providers :
           /\ circuits'[q].failures = circuits[q].failures
           /\ circuits'[q].age # Closed <=> circuits[q].age # Closed
  BY DEF RouterInv, CircuitsSound, Circuit, Tick, Closed
<1>3. CircuitsSound(circuits', streak')
  BY <1>2 DEF RouterInv, CircuitsSound, Tick
<1>4. WithinBudget(at', circuits', asked')
  BY <1>2 DEF RouterInv, WithinBudget, Tick
<1>. QED
  BY <1>1, <1>3, <1>4 DEF RouterInv

(* The invariant holds before anybody calls. *)
LEMMA RouterStart ==
  ASSUME RouterInit
  PROVE  RouterInv
<1>1. RouterTypeOK
  BY DEF RouterInit, RouterTypeOK
<1>2. CircuitsSound(circuits, streak)
  BY DEF RouterInit, CircuitsSound, Circuit, Closed
<1>3. ASSUME NEW p \in Providers
      PROVE  /\ asked[p] <= circuits[p].failures + Cardinality(CallsTo(at, p))
             /\ circuits[p].failures + Cardinality(CallsTo(at, p))
                  <= Threshold - 1 + Cardinality(Callers)
  BY CallsFinite DEF RouterInit
<1>4. asked \in [Providers -> Nat]
  BY DEF RouterInit
<1>. QED
  BY <1>1, <1>2, <1>3, <1>4 DEF RouterInv, WithinBudget

(* Every step of a caller, and of the clock, keeps the invariant. *)
LEMMA RouterStep ==
  ASSUME RouterInv, [RouterNext]_routerVars
  PROVE  RouterInv'
<1>1. ASSUME NEW c \in Callers, Generate(c) PROVE RouterInv'
  BY <1>1, GenerateKeeps
<1>2. ASSUME NEW c \in Callers, Answers(c) PROVE RouterInv'
  BY <1>2, AnswersKeeps
<1>3. ASSUME NEW c \in Callers, Fails(c) PROVE RouterInv'
  BY <1>3, FailsKeeps
<1>4. ASSUME NEW c \in Callers, Escapes(c) PROVE RouterInv'
  BY <1>4, EscapesKeeps
<1>5. ASSUME NEW p \in Providers, Tick(p) PROVE RouterInv'
  BY <1>5, TickKeeps
<1>6. CASE UNCHANGED routerVars
  BY <1>6 DEF routerVars, RouterInv, RouterTypeOK
<1>. QED
  BY <1>1, <1>2, <1>3, <1>4, <1>5, <1>6 DEF RouterNext

(* The circuits stay within their budget of failures and calls under way
   (ModelRouter.generate, _Circuit), whoever calls whatever provider. *)
THEOREM RouterInvHolds == RouterSpec => []RouterInv
  BY RouterStart, RouterStep, PTL DEF RouterSpec

-----------------------------------------------------------------------------
(* A circuit opens only on as many failures in a row as its threshold, and
   its two fields agree (router.py, _Circuit), for any number of concurrent
   callers and any order in which their answers come. *)
THEOREM StreakHolds == RouterSpec => []OpensOnAStreak
<1>1. ASSUME RouterInv PROVE OpensOnAStreak
  <2>1. ASSUME NEW p \in Providers
        PROVE  LET circuit == circuits[p] IN
               /\ streak[p] >= Min({Threshold, circuit.failures})
               /\ circuit.failures \in 0..Threshold - 1 + Cardinality(Callers)
               /\ circuit.age \in Closed..Cooldown
               /\ circuit.age # Closed <=> circuit.failures >= Threshold
    <3>1. /\ circuits[p].failures \in Nat /\ circuits[p].age \in Closed..Cooldown
          /\ streak[p] \in Nat
          /\ streak[p] >= Threshold \/ streak[p] >= circuits[p].failures
          /\ circuits[p].age # Closed <=> circuits[p].failures >= Threshold
      BY <1>1 DEF RouterInv, CircuitsSound, Circuit
    <3>2. streak[p] >= Min({Threshold, circuits[p].failures})
      <4>1. Min({Threshold, circuits[p].failures})
              = IF Threshold <= circuits[p].failures THEN Threshold
                ELSE circuits[p].failures
        BY <3>1, LeastOfTwo
      <4>. QED
        BY <3>1, <4>1
    <3>3. circuits[p].failures \in 0..Threshold - 1 + Cardinality(Callers)
      <4>1. circuits[p].failures + Cardinality(CallsTo(at, p))
              <= Threshold - 1 + Cardinality(Callers)
        BY <1>1 DEF RouterInv, WithinBudget
      <4>. QED
        BY <3>1, <4>1, CallsFinite
    <3>. QED
      BY <3>1, <3>2, <3>3
  <2>. QED
    BY <1>1, <2>1 DEF OpensOnAStreak, RouterInv, RouterTypeOK
<1>. QED
  BY <1>1, RouterInvHolds, PTL

(* While a provider answers nobody, the calls begun before its circuit opens,
   and again after every cooldown, are at most the threshold and one for each
   other investigation under way (ModelRouter.generate). *)
THEOREM DeadEndpointHolds == RouterSpec => []DeadEndpointCostsLittle
<1>1. ASSUME RouterInv PROVE DeadEndpointCostsLittle
  <2>1. ASSUME NEW p \in Providers
        PROVE  asked[p] <= Threshold - 1 + Cardinality(Callers)
    <3>. DEFINE n == Cardinality(CallsTo(at, p))
    <3>1. /\ asked[p] <= circuits[p].failures + n
          /\ circuits[p].failures + n <= Threshold - 1 + Cardinality(Callers)
          /\ asked[p] \in Nat /\ circuits[p].failures \in Nat
      BY <1>1 DEF RouterInv, WithinBudget, CircuitsSound, Circuit
    <3>2. n \in Nat /\ Cardinality(Callers) \in Nat
      BY CallsFinite
    <3>. HIDE DEF n
    <3>. QED
      BY <3>1, <3>2
  <2>. QED
    BY <2>1 DEF DeadEndpointCostsLittle
<1>. QED
  BY <1>1, RouterInvHolds, PTL
=============================================================================
