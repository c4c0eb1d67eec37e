------------------------------- MODULE Accounts ------------------------------
(***************************************************************************)
(* Native accounts and sign-in (core/accounts.py, api/v1/routes/auth.py)   *)
(* on replicas that share a Postgres users table. The handlers run without *)
(* an await, so a replica serves one of them at a time; a database         *)
(* transaction of another replica may come between the check of create     *)
(* and the commit of its insert, and a replica may die between any two     *)
(* steps. UserStore in memory is the case of one replica.                  *)
(*                                                                         *)
(* Names, tenants and roles are the same for every self-registered account *)
(* and left out; to know an account's password is to name its subject.     *)
(***************************************************************************)
EXTENDS KeyCache

CONSTANTS Emails,            \* addresses in lower case
          Subjects,          \* the uuids that may be drawn
          SelfRegistration   \* settings.allow_self_registration

ASSUME AccountAssumption == SelfRegistration \in BOOLEAN

VARIABLES users,    \* the rows of the users table
          op,       \* op[r]: the account that replica r's request is creating, if any
          sessions  \* the accounts for which a session token was handed out

vars == <<keyVars, users, op, sessions>>

Account == [subject : Subjects, email : Emails, provider : {"password", "google"}]
Creation == [stage : {"checked", "committed"}, account : Account]

Init ==
  /\ KeyInit
  /\ users = {}
  /\ op = [r \in Replicas |-> {}]
  /\ sessions = {}

RowsOf(e) == {u \in users : u.email = e}
Drawn == {u.subject : u \in users \cup sessions}
         \cup {o.account.subject : o \in UNION {op[r] : r \in Replicas}}

-----------------------------------------------------------------------------
(* create begins its transaction, finds no row of that email and adds one. An
   existing row ends the request with 409. *)
StartCreate(r, e, provider) ==
  /\ SelfRegistration
  /\ RowsOf(e) = {}
  /\ \E s \in Subjects \ Drawn :
       op' = [op EXCEPT ![r] =
                {[stage |-> "checked",
                  account |-> [subject |-> s, email |-> e, provider |-> provider]]}]

Register(r, e) ==
  /\ op[r] = {}
  /\ StartCreate(r, e, "password")
  /\ UNCHANGED <<keyVars, users, sessions>>

(* The commit: the unique index on email refuses the second of two inserts,
   with an error that is no RegistrationError, and the request ends with 500. *)
Stored_Upserted(account) == (users \ RowsOf(account.email)) \cup {account}
Stored(account) ==
  IF RowsOf(account.email) = {} THEN users \cup {account} ELSE users

Committed(account) == account \in Stored(account)

Insert(r) ==
  /\ \E o \in op[r] :
       /\ o.stage = "checked"
       /\ users' = Stored(o.account)
       /\ op' = [op EXCEPT ![r] = IF Committed(o.account)
                                  THEN {[o EXCEPT !.stage = "committed"]} ELSE {}]
  /\ UNCHANGED <<keyVars, sessions>>

(* The answer, 201 or 200, with a session token. *)
AnswerCreated(r) ==
  /\ \E o \in op[r] :
       /\ o.stage = "committed"
       /\ sessions' = sessions \cup {o.account}
  /\ op' = [op EXCEPT ![r] = {}]
  /\ UNCHANGED <<keyVars, users>>

(* login: the row of that email, if it is a password account and the password
   is the right one; 401 otherwise. *)
Login(r, subject) ==
  /\ op[r] = {}
  /\ \E u \in users : /\ u.subject = subject /\ u.provider = "password"
                      /\ sessions' = sessions \cup {u}
  /\ UNCHANGED <<keyVars, users, op>>

(* sign_in_with_google with a credential for email e signed by key k: the key
   is looked up in the cache, then the account is; the first sign-in creates
   it. A key that is not found ends the request with 401. *)
GoogleSignIn(r, e, k, reached) ==
  /\ op[r] = {}
  /\ LET lookup == Lookup(cache[r], k, reached) IN
     /\ cache' = [cache EXCEPT ![r] = lookup.cache]
     /\ \/ /\ ~ lookup.found
           /\ UNCHANGED <<op, sessions>>
        \/ /\ lookup.found /\ RowsOf(e) # {}
           /\ sessions' = sessions \cup RowsOf(e)
           /\ UNCHANGED op
        \/ /\ lookup.found
           /\ StartCreate(r, e, "google")
           /\ UNCHANGED sessions
  /\ UNCHANGED <<retired, users>>

(* The replica dies: its request and its key cache are gone. *)
ReplicaDies(r) ==
  /\ op' = [op EXCEPT ![r] = {}]
  /\ cache' = [cache EXCEPT ![r] = [keys |-> {}, age |-> Ttl + 1]]
  /\ UNCHANGED <<retired, users, sessions>>

IssuerRotates == (Publish \/ Withdraw) /\ UNCHANGED <<users, op, sessions>>
ClockTicks == TimePasses /\ UNCHANGED <<users, op, sessions>>

Next ==
  \/ \E r \in Replicas :
       \/ \E e \in Emails :
            \/ Register(r, e)
            \/ \E k \in Kids, reached \in BOOLEAN : GoogleSignIn(r, e, k, reached)
       \/ Insert(r)
       \/ AnswerCreated(r)
       \/ \E s \in Subjects : Login(r, s)
       \/ ReplicaDies(r)
  \/ IssuerRotates
  \/ ClockTicks

Spec == Init /\ [][Next]_vars

-----------------------------------------------------------------------------
(* Types, and that whoever was answered with a session has the account for
   good: the row the token names is stored, under the subject and with the
   credentials it was created with, and is the only one of its email, whatever
   other replicas created, crashed at or were refused between the check and the
   insert (register and sign_in_with_google answer after the commit). *)
SessionsNameAccounts ==
  /\ users \subseteq Account
  /\ \A r \in Replicas : op[r] \subseteq Creation /\ Cardinality(op[r]) <= 1
  /\ cache \in [Replicas -> [keys : SUBSET Kids, age : Ages]]
  /\ retired \in [Kids -> Unused..Ttl + 1]
  /\ sessions \subseteq users
  /\ \A u, v \in users : u.email = v.email => u = v
=============================================================================
