----------------------------- MODULE Detections ------------------------------
(***************************************************************************)
(* Detection rules and ATT&CK mapping (engines/detection, engines/mitre).  *)
(* The text of an alert is the set of telling phrases that it contains: a  *)
(* matcher is the set of phrases that it hits, the keyword mapper a map    *)
(* from phrases to techniques. Enumerating phrases stands for searching    *)
(* text, so "urlcache" is a phrase in which the keyword "url" is found.    *)
(***************************************************************************)
EXTENDS Integers, FiniteSets

Technique(id, base, tactic) == [id |-> id, base |-> base, tactic |-> tactic]

SpearphishingLink == Technique("T1566.002", "T1566", "initial-access")
MaliciousLink == Technique("T1204.001", "T1204", "execution")
MaliciousFile == Technique("T1204.002", "T1204", "execution")
PowerShell == Technique("T1059.001", "T1059", "execution")
RunKeys == Technique("T1547.001", "T1547", "persistence")
WebProtocols == Technique("T1071.001", "T1071", "command-and-control")
DataEncrypted == Technique("T1486", "T1486", "impact")
ProxyExecution == Technique("T1218", "T1218", "defense-evasion")
LsassMemory == Technique("T1003.001", "T1003", "credential-access")
InhibitRecovery == Technique("T1490", "T1490", "impact")
ValidAccounts == Technique("T1078", "T1078", "initial-access")
ScheduledTask == Technique("T1053.005", "T1053", "persistence")

-----------------------------------------------------------------------------
(* map_techniques. *)
Signals ==
  [powershell |-> PowerShell, enc |-> PowerShell, http |-> WebProtocols,
   run_key |-> RunKeys, currentversion_run |-> RunKeys, encrypt |-> DataEncrypted,
   lnk |-> MaliciousFile, clicked |-> MaliciousLink,
   url |-> SpearphishingLink, urlcache |-> SpearphishingLink]

MapTechniques(signals, hasMaliciousUrl) ==
  {Signals[w] : w \in signals \cap DOMAIN Signals}
  \cup IF hasMaliciousUrl THEN {SpearphishingLink, MaliciousLink} ELSE {}

-----------------------------------------------------------------------------
(* A rule: every matcher of all, one of any if there are some, none of none.
   title is what its title adds to the signals. *)
Rule(id, severity, techniques, title, all, any, none) ==
  [id |-> id, severity |-> severity, techniques |-> techniques, title |-> title,
   all |-> all, any |-> any, none |-> none, enabled |-> TRUE]

BuiltinRules ==
  {Rule("AEG-1001", "high", {PowerShell}, {"powershell"}, {{"powershell"}},
        {{"enc"}, {"frombase64string"}, {"windowstyle_hidden"}}, {}),
   Rule("AEG-1002", "high", {ProxyExecution}, {}, {},
        {{"rundll32"}, {"regsvr32"}, {"mshta"}, {"urlcache"}}, {}),
   Rule("AEG-1003", "medium", {RunKeys}, {}, {{"currentversion_run"}}, {}, {}),
   Rule("AEG-1004", "critical", {LsassMemory}, {}, {},
        {{"mimikatz", "sekurlsa", "lsadump"}, {"procdump_lsass", "minidump"}}, {}),
   Rule("AEG-1005", "medium", {SpearphishingLink}, {}, {{"hxxp", "http"}},
        {{"invoice", "payment", "verify_account", "password_expiry"}}, {}),
   Rule("AEG-1006", "critical", {InhibitRecovery, DataEncrypted}, {}, {},
        {{"delete_shadows"}, {"recoveryenabled_no"}, {"delete_catalog"}}, {}),
   Rule("AEG-1007", "high", {ValidAccounts}, {}, {},
        {{"impossible_travel", "anonymous_ip", "tor_exit", "unfamiliar_sign_in"}}, {}),
   Rule("AEG-1008", "medium", {ScheduledTask}, {}, {{"schtasks"}}, {},
        {{"patch_management"}})}

Hits(matcher, text) == matcher \cap text # {}

Fires(rule, text) ==
  /\ rule.enabled
  /\ \A matcher \in rule.all : Hits(matcher, text)
  /\ rule.any # {} => \E matcher \in rule.any : Hits(matcher, text)
  /\ \A matcher \in rule.none : ~ Hits(matcher, text)

(* evaluate: the engine's own rules and the tenant's. *)
Evaluate(text, extraRules) == {r \in BuiltinRules \cup extraRules : Fires(r, text)}

TechniquesOf(detections) == UNION {r.techniques : r \in detections}

IdsOf(techniques) == {t.id : t \in techniques}

(* The package's techniques: those of the mapper and, of each other id, the one
   that the first rule to name it gives. A tenant may call one technique by
   several tactics; in which order its rules are listed is left open. *)
Mitre(signals, hasMaliciousUrl, detections) ==
  LET mapped == MapTechniques(signals, hasMaliciousUrl)
      named == TechniquesOf(detections) IN
  mapped \cup {CHOOSE t \in named : t.id = id : id \in IdsOf(named) \ IdsOf(mapped)}
=============================================================================
