----------------------------- MODULE MCApprovals ----------------------------
(* Small instances of Approvals: the agent raises requests, and may share its
   name with a user; two analysts decide.  One process is asked for two
   requests, two processes for one. *)
EXTENDS Approvals

CONSTANTS r1, r2, a1, a2, agent, alice, bob

TwoReplicas == {r1, r2}
TwoIds == {a1, a2}
Users == {agent, alice, bob}
Agent == {agent}

OneOrBoth == {{r1}, {r1, r2}}
Both == {{r1, r2}}
Fewer == <<{a1, a2}, {a1}>>
=============================================================================
