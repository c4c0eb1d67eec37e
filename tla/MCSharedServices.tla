-------------------------- MODULE MCSharedServices ---------------------------
(* Two replicas, two addresses and as many uuids; the issuer rotates from one
   key to another. Three investigations over a
   chain of two configured providers, one that lacks its key and one that
   _default_chain does not know. *)
EXTENDS SharedServices

CONSTANTS r1, r2, k1, k2, s1, s2, e1, e2, c1, c2, c3

TwoReplicas == {r1, r2}
TwoKids == {k1, k2}
TwoSubjects == {s1, s2}
TwoEmails == {e1, e2}

ThreeCallers == {c1, c2, c3}
Order == <<"openai", "keyless", "anthropic", "ollama">>
Classes == {"keyless", "anthropic", "ollama"}
Keyed == {"anthropic", "ollama"}

(* Where nobody signs in, the key that is in use is k1. *)
MCInit == SharedInit /\ (load = "generation" => retired[k1] = Published)
MCSpec == MCInit /\ [][SharedNext]_sharedVars /\ SharedFairness
=============================================================================
