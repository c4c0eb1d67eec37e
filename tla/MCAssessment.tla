---------------------------- MODULE MCAssessment -----------------------------
(* An address (or, for the exported rules, a link) in the alert and a hash that
   the detonation drops, the address judged by up to three feeds, the hash by
   one; a finance host and a workstation; a tenant rule that is weaker than any
   built-in one; an email to many, and an alert whose techniques are many and
   of no high severity: the case that the vote dismisses and the risk score
   calls high. *)
EXTENDS Assessment

Address == [type |-> "ipv4", value |-> "address"]
Dropper == [type |-> "sha256", value |-> "dropper"]
Link == [type |-> "url", value |-> "link"]
OneLink == {Link}
OneAddress == {Address}
OneDropper == {Dropper}

AlertTexts ==
  {{}, {"impossible_travel"}, {"http", "invoice", "url"},
   {"powershell", "enc", "mimikatz", "regsvr32", "telemetry"},
   {"powershell", "lnk", "clicked", "url", "telemetry"}}
Scores == {500, 900}
Reports == {{}, {"currentversion_run", "encrypt"}}
OneRecipient == {"recipient"}
Mailing == {ToString(i) : i \in 1..40}
TwoHosts == {[name |-> "FIN-WS-1", classes |-> {"finance", "workstation"}],
             [name |-> "LAPTOP-7", classes |-> {"workstation"}]}
Spearphished == Technique("T1566.002", "T1566", "execution")
OneRule == {Rule("TEN-0001", "info", {Spearphished}, {}, {{"telemetry", "invoice"}}, {}, {})}
NoHostOrMore == {{}, {h \in TwoHosts : h.name = "LAPTOP-7"}, TwoHosts}
KeyedFeed == Wired(FALSE, FALSE, {"virustotal"})
ThreeFeeds == Wired(FALSE, FALSE, {"abuseipdb", "greynoise", "opencti"})
Reported == {0, 500}
EnginesSaying == {0, 3}
InPercent == {0, 80}
Tiers == {74, 90}
=============================================================================
