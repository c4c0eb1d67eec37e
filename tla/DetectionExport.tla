--------------------------- MODULE DetectionExport ---------------------------
(***************************************************************************)
(* The rules that an investigation's malicious indicators are exported as  *)
(* (engines/detection_export, with the Sigma and YARA generators of        *)
(* agents/specialists/generation.py). A rule is its format, the values it  *)
(* looks for in an event, and those it names as its evidence. Syntax and   *)
(* metadata are left out.                                                  *)
(***************************************************************************)
EXTENDS Fingerprint

(* What a rule looks for that has no selector left: any event. *)
AnyEvent == {"any event"}
OrAny(values) == IF values = {} THEN AnyEvent ELSE values

Exported(format, values, evidence) ==
  [format |-> format, matches |-> values, evidence |-> evidence]

(* The indicators of _extract. *)
Confirmed(iocs, types) == ValuesOf(WithVerdict(iocs, {"malicious"}), types)

Sigma(iocs) ==
  OrAny(Confirmed(iocs, Names \cup Addresses \cup Hashes))

(* Seven formats search for addresses, domains and hashes: none of them for a
   URL. Suricata sees the network only; Suricata and Wazuh write one rule for
   each value, the others one query with a clause for each kind. *)
PerValue(iocs) ==
  [suricata |-> Confirmed(iocs, Addresses \cup {"domain"}),
   wazuh |-> Confirmed(iocs, Addresses \cup {"domain"} \cup Hashes)]
Queried(iocs) == OrAny(Confirmed(iocs, Addresses \cup {"domain"} \cup Hashes))
QueryFormats == {"splunk_spl", "sentinel_kql", "chronicle_yaral", "elastic_eql", "falcon"}

(* YARA names the hashes and looks for none: without strings or filenames, of
   which generate is given none, its only condition is a placeholder. *)
Yara(hashes) ==
  IF hashes = {} THEN {} ELSE {Exported("yara", {"AEGISFLOW_PLACEHOLDER"}, hashes)}

Generated(iocs) ==
  LET all == Confirmed(iocs, Addresses \cup Names \cup Hashes)
      hashes == Confirmed(iocs, Hashes) IN
  {Exported("sigma", Sigma(iocs), all)}
  \cup Yara(hashes)
  \cup (IF all = {} THEN {}
        ELSE {Exported(f, PerValue(iocs)[f],
                       IF f = "suricata" THEN PerValue(iocs)[f] ELSE all) :
                f \in DOMAIN PerValue(iocs)}
             \cup {Exported(f, Queried(iocs), all) : f \in QueryFormats})
=============================================================================
