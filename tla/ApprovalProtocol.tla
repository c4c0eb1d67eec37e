-------------------------- MODULE ApprovalProtocol --------------------------
(***************************************************************************)
(* What the approval workflow promises, with every transition atomic: a    *)
(* request is decided at most once, by somebody other than its requester,  *)
(* it may expire only while it is pending, and only an approved request is *)
(* ever executed (docs/ARCHITECTURE.md, "Human approval workflow").        *)
(***************************************************************************)
CONSTANTS Ids,      \* approval ids
          Actors,   \* user names and agent names
          Nobody    \* the null of decided_by and executed_by

VARIABLES life,       \* life[i]: where request i is in its life
          requester,  \* requester[i]: who asked for it
          decider     \* decider[i]: who decided it, or Nobody

protocolVars == <<life, requester, decider>>

Lives == {"none", "pending", "approved", "rejected", "executed", "expired"}

ProtocolTypeOK ==
  /\ life \in [Ids -> Lives]
  /\ requester \in [Ids -> Actors \cup {Nobody}]
  /\ decider \in [Ids -> Actors \cup {Nobody}]

ProtocolInit ==
  /\ life = [i \in Ids |-> "none"]
  /\ requester = [i \in Ids |-> Nobody]
  /\ decider = [i \in Ids |-> Nobody]

Ask(i, a) ==
  /\ life[i] = "none"
  /\ life' = [life EXCEPT ![i] = "pending"]
  /\ requester' = [requester EXCEPT ![i] = a]
  /\ UNCHANGED decider

Settle(i, a, verdict) ==
  /\ life[i] = "pending"
  /\ a # requester[i]
  /\ life' = [life EXCEPT ![i] = verdict]
  /\ decider' = [decider EXCEPT ![i] = a]
  /\ UNCHANGED requester

Carry(i) ==
  /\ life[i] = "approved"
  /\ life' = [life EXCEPT ![i] = "executed"]
  /\ UNCHANGED <<requester, decider>>

Lapse(i) ==
  /\ life[i] = "pending"
  /\ life' = [life EXCEPT ![i] = "expired"]
  /\ UNCHANGED <<requester, decider>>

ProtocolNext ==
  \E i \in Ids :
    \/ \E a \in Actors : \/ Ask(i, a)
                         \/ Settle(i, a, "approved")
                         \/ Settle(i, a, "rejected")
    \/ Carry(i)
    \/ Lapse(i)

ProtocolSpec == ProtocolInit /\ [][ProtocolNext]_protocolVars
=============================================================================
