-------------------------- MODULE MCIncidentStores ---------------------------
(* Three incidents in a chain, of which the outer two have nothing in common,
   a benign one that resembles two of them, and a second attempt at one; the
   outer two share a harmless domain, which closes a ring in the graph; two
   dossiers, of a command-and-control address that ThreatFox knows from the
   bundled records and of one that it relates to it. *)
EXTENDS IncidentStores

Ioc(type, value) == [type |-> type, value |-> value]
Package(incident, verdict, infra, malware, mitre, hosts, harmless) ==
  [incident |-> incident, verdict |-> verdict,
   iocs |-> {Ioc("ipv4", v) : v \in infra} \cup {Ioc("sha256", v) : v \in malware}
            \cup {Ioc("domain", v) : v \in harmless},
   dna |-> [infrastructure |-> infra, malware |-> malware,
            ttp |-> {t.id : t \in mitre}, identity |-> {}],
   mitre |-> mitre, users |-> {}, hosts |-> hosts, risk |-> 500,
   attribution |-> Attribute(mitre, Cardinality(infra), Cardinality(malware),
                             Cardinality(hosts)).type,
   impact |-> Impact(hosts, verdict, 500)]

OneHost == {[name |-> "FIN-WS-1", classes |-> {"finance", "workstation"}]}
FourIncidents ==
  [a |-> Package("a", "malicious", {"c2"}, {}, {}, OneHost, {"cdn"}),
   b |-> Package("b", "suspicious", {"c2"}, {"dropper"}, {}, {}, {}),
   c |-> Package("c", "malicious", {}, {"dropper"}, {DataEncrypted}, {}, {"cdn"}),
   d |-> Package("d", "benign", {"c2"}, {"dropper"}, {}, {}, {})]
OneRetry == [a1 |-> "a", b1 |-> "b", b2 |-> "b", c1 |-> "c", d1 |-> "d"]
FiveAttempts == DOMAIN OneRetry

TwoDossiers ==
  [x |-> Ioc("ipv4", "c2"), y |-> Ioc("ipv4", "drop")]
TwoRequests == DOMAIN TwoDossiers
FoxRecord(level, relations) ==
  [listed |-> TRUE, level |-> level, signals |-> {"http"}, family |-> "QakBot",
   related |-> relations]
OneBundled == [c2 |-> FoxRecord(90, {TwoDossiers.y})]
OneOnline == {FoxRecord(50, {})}
Keyless == Wired(FALSE, TRUE, {})
NoRules == {}
Reported == {0, 500}
EnginesSaying == {0, 3}
InPercent == {0, 80}

(* The instance is restricted in three ways. The rules are written while the
   rest is at rest, and of the finalizations only one runs beside the dossiers;
   over Postgres, where an attempt takes more steps, the benign incident and
   the dossiers, whose steps are the same, are left out. *)
NoCase == \A a \in Attempts : At(a, "begin")
OneCase == \A a \in Attempts : At(a, "begin") \/ a = "a1"
NoDossier == \A r \in Requests : dossiers[r].step = "new"
NoRule == rules = {} /\ upserts = [a \in Authors |-> NoUpsert]

Restricted ==
  /\ OneCase \/ NoDossier
  /\ NoRule \/ (NoCase /\ NoDossier)
  /\ durable => At("d1", "begin") /\ NoDossier

MCNext == Next /\ Restricted'
MCSpec == Init /\ [][MCNext]_vars
=============================================================================
