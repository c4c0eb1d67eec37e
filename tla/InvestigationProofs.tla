------------------------- MODULE InvestigationProofs -------------------------
(***************************************************************************)
(* Lemmas about the case, its planner and its tools, for any indicators,   *)
(* any number of attachments and any verdicts of the feeds.  The proofs    *)
(* about the batch loop, the task scheduler and the workflow rest on them. *)
(***************************************************************************)
EXTENDS Investigation, FiniteSetTheorems, TLAPS

USE InvestigationAssumption

(* An action that a planner may propose: a detonation is about an attachment. *)
Plannable ==
  {a \in Action : a.tool = "detonate_attachment" => a.file \in Files}

-----------------------------------------------------------------------------
(* What each tool leaves behind. *)

Fields == {"phishing", "detections_ran", "email_checked", "attachments", "extracted",
           "pending_iocs", "verdict", "hunted_keys", "detonated"}
SameBut(changed, s, t) == \A x \in Fields \ changed : t[x] = s[x]

(* Every case is a record of these fields, and its judgements are in verdict. *)
LEMMA SameVerdict ==
  ASSUME NEW s, NEW t, t.verdict = s.verdict
  PROVE  Enriched(t) = Enriched(s) /\ Malicious(t) = Malicious(s)
BY DEF Enriched, Malicious

(* The detections, and the end of fetch_email_context. *)
LEMMA FoldedDetections ==
  ASSUME NEW s \in Case, NEW a, a.tool = "run_detections", NEW t \in Folded(s, a)
  PROVE  t \in Case /\ t.detections_ran /\ SameBut({"detections_ran"}, s, t)
<1>1. t = [s EXCEPT !.detections_ran = TRUE]
  BY DEF Folded
<1>. QED
  BY <1>1 DEF Case, SameBut, Fields

(* The fetched message changes nothing but that its text is to be extracted. *)
LEMMA FoldedEmail ==
  ASSUME NEW s \in Case, NEW a, a.tool = "fetch_email_context", NEW t \in Folded(s, a)
  PROVE  t \in Case /\ ~ t.extracted /\ SameBut({"extracted"}, s, t)
<1>1. t = [s EXCEPT !.extracted = FALSE]
  BY DEF Folded
<1>. QED
  BY <1>1 DEF Case, SameBut, Fields

(* Adding indicators to a case leaves the rest of it alone. *)
LEMMA AddIocsIs ==
  ASSUME NEW s \in Case, NEW found \in SUBSET Iocs
  PROVE  /\ AddIocs(s, found) \in Case
         /\ AddIocs(s, found).pending_iocs = s.pending_iocs \cup (found \ Enriched(s))
         /\ SameBut({"pending_iocs"}, s, AddIocs(s, found))
BY DEF AddIocs, Case, Enriched, SameBut, Fields

(* Extraction adds indicators to be enriched, none that already are. *)
LEMMA FoldedExtract ==
  ASSUME NEW s \in Case, NEW a, a.tool = "extract_iocs", NEW t \in Folded(s, a)
  PROVE  /\ t \in Case /\ t.extracted
         /\ s.pending_iocs \subseteq t.pending_iocs
         /\ t.pending_iocs \cap Enriched(s) \subseteq s.pending_iocs
         /\ SameBut({"pending_iocs", "extracted"}, s, t)
<1>1. PICK found \in SUBSET Iocs : t = [AddIocs(s, found) EXCEPT !.extracted = TRUE]
  BY DEF Folded
<1>. DEFINE u == AddIocs(s, found)
<1>2. /\ u \in Case /\ u.pending_iocs = s.pending_iocs \cup (found \ Enriched(s))
      /\ SameBut({"pending_iocs"}, s, u)
  BY AddIocsIs
<1>. HIDE DEF u
<1>3. t = [u EXCEPT !.extracted = TRUE]
  BY <1>1 DEF u
<1>4. t \in Case /\ t.extracted /\ SameBut({"extracted"}, u, t)
  BY <1>2, <1>3 DEF Case, SameBut, Fields
<1>. QED
  BY <1>2, <1>4 DEF SameBut, Fields

(* A detonation adds its file, and the indicators that it dropped. *)
LEMMA FoldedDetonation ==
  ASSUME NEW s \in Case, NEW a, a.tool = "detonate_attachment", a.file \in Files,
         NEW t \in Folded(s, a)
  PROVE  /\ t \in Case /\ t.detonated = s.detonated \cup {a.file}
         /\ s.pending_iocs \subseteq t.pending_iocs
         /\ t.pending_iocs \cap Enriched(s) \subseteq s.pending_iocs
         /\ SameBut({"pending_iocs", "detonated"}, s, t)
<1>. DEFINE d == [s EXCEPT !.detonated = @ \cup {a.file}]
<1>1. PICK dropped \in SUBSET Iocs : t = AddIocs(d, dropped)
  BY DEF Folded
<1>2. d \in Case /\ d.detonated = s.detonated \cup {a.file} /\ SameBut({"detonated"}, s, d)
  BY DEF Case, SameBut, Fields
<1>3. Enriched(d) = Enriched(s)
  BY <1>2, SameVerdict DEF SameBut, Fields
<1>. HIDE DEF d
<1>. QED
  BY <1>1, <1>2, <1>3, AddIocsIs DEF SameBut, Fields

(* An enrichment turns the indicators it read into judged ones. *)
LEMMA FoldedEnrichment ==
  ASSUME NEW s \in Case, NEW a, a.tool = "enrich_iocs", a.keys \in SUBSET Iocs,
         NEW t \in Folded(s, a)
  PROVE  /\ t \in Case
         /\ t.pending_iocs = s.pending_iocs \ a.keys
         /\ Enriched(t) = Enriched(s) \cup a.keys
         /\ SameBut({"pending_iocs", "verdict"}, s, t)
<1>. DEFINE keys == a.keys
<1>1. PICK results \in [keys -> FeedVerdicts] : t = RecordEnrichment(s, results)
  BY DEF Folded
<1>. DEFINE v == [k \in Iocs |-> IF k \in keys THEN results[k] ELSE s.verdict[k]]
<1>2. t = [s EXCEPT !.verdict = v, !.pending_iocs = @ \ keys]
  BY <1>1 DEF RecordEnrichment, Case
<1>3. v \in [Iocs -> Verdicts \cup {"none"}]
  BY DEF Case
<1>4. \A k \in Iocs : v[k] # "none" <=> k \in keys \/ s.verdict[k] # "none"
  BY DEF Verdicts
<1>. HIDE DEF v
<1>5. t.verdict = v /\ t.pending_iocs = s.pending_iocs \ keys
      /\ SameBut({"pending_iocs", "verdict"}, s, t)
  BY <1>2 DEF Case, SameBut, Fields
<1>6. Enriched(t) = Enriched(s) \cup keys
  BY <1>4, <1>5 DEF Enriched
<1>7. t \in Case
  BY <1>2, <1>3 DEF Case
<1>. QED
  BY <1>5, <1>6, <1>7

(* A hunt marks what it looked for, and nothing else. *)
LEMMA FoldedHunt ==
  ASSUME NEW s \in Case, NEW a, a.tool = "hunt_edr", a.keys \in SUBSET Iocs,
         NEW t \in Folded(s, a)
  PROVE  /\ t \in Case /\ t.hunted_keys = s.hunted_keys \cup a.keys
         /\ SameBut({"hunted_keys"}, s, t)
<1>1. t = [s EXCEPT !.hunted_keys = @ \cup a.keys]
  BY DEF Folded
<1>. QED
  BY <1>1 DEF Case, SameBut, Fields

(* The first fold of fetch_email_context. *)
LEMMA Fetching ==
  ASSUME NEW s \in Case, NEW n \in 0..MaxAttachments, NEW t,
         t = [s EXCEPT !.email_checked = TRUE, !.attachments = 1..n]
  PROVE  /\ t \in Case /\ t.email_checked /\ t.attachments = 1..n
         /\ SameBut({"email_checked", "attachments"}, s, t)
<1>1. 1..n \in SUBSET Files
  BY DEF Files
<1>. QED
  BY <1>1 DEF Case, SameBut, Fields

(* What is found is kept, whichever tool folds what it learnt. *)
Runnable(a) ==
  /\ a.tool \in Tools /\ a.keys \in SUBSET Iocs
  /\ a.tool = "detonate_attachment" => a.file \in Files

(* No tool takes back what is known, hunted or detonated. *)
LEMMA FoldedKeeps ==
  ASSUME NEW s \in Case, NEW a, Runnable(a), NEW t \in Folded(s, a)
  PROVE  /\ t \in Case
         /\ Known(s) \subseteq Known(t)
         /\ s.hunted_keys \subseteq t.hunted_keys
         /\ s.detonated \subseteq t.detonated
         /\ t.email_checked = s.email_checked /\ t.phishing = s.phishing
<1>. USE DEF Known, SameBut, Fields, Runnable
<1>1. CASE a.tool = "run_detections"
  BY <1>1, FoldedDetections, SameVerdict
<1>2. CASE a.tool = "fetch_email_context"
  BY <1>2, FoldedEmail, SameVerdict
<1>3. CASE a.tool = "extract_iocs"
  BY <1>3, FoldedExtract, SameVerdict
<1>4. CASE a.tool = "enrich_iocs"
  BY <1>4, FoldedEnrichment
<1>5. CASE a.tool = "detonate_attachment"
  BY <1>5, FoldedDetonation, SameVerdict
<1>6. CASE a.tool = "hunt_edr"
  BY <1>6, FoldedHunt, SameVerdict
<1>. QED
  BY <1>1, <1>2, <1>3, <1>4, <1>5, <1>6 DEF Tools

-----------------------------------------------------------------------------
(* The planner. *)

(* It proposes actions that can be run. *)
LEMMA NextActionsPlannable == \A s \in Case : NextActions(s) \subseteq Plannable
BY DEF NextActions, Widen, Collect, HuntNext, When, Act, Detonate, Hunt, Plannable, Action,
       Tools, Case, Malicious, Enriched, Files

(* Collecting is the enrichment of what waits and the detonation of what was
   not yet detonated. *)
LEMMA CollectNothing ==
  \A s \in Case : Collect(s) = {} <=> s.pending_iocs = {} /\ s.attachments \subseteq s.detonated
BY DEF Collect, When, Case

(* A hunt is proposed alone, once nothing waits to be collected, for judged
   indicators, and it leaves no malicious one out. *)
LEMMA HuntIsAlone ==
  ASSUME NEW s \in Case, NEW a \in NextActions(s), a.tool = "hunt_edr"
  PROVE  /\ NextActions(s) = {a} /\ Collect(s) = {} /\ a.keys # {}
         /\ a.keys \subseteq Enriched(s)
         /\ Malicious(s) \subseteq s.hunted_keys \cup a.keys
<1>1. \A b \in Widen(s) \cup {Act("extract_iocs")} \cup Collect(s) : b.tool # "hunt_edr"
  BY DEF Widen, Collect, When, Act, Detonate
<1>2. NextActions(s) = HuntNext(s) /\ Collect(s) = {}
  BY <1>1 DEF NextActions
<1>3. Malicious(s) \subseteq Enriched(s)
  BY DEF Malicious, Enriched
<1>. QED
  BY <1>2, <1>3 DEF HuntNext, When, Hunt

(* One enrichment is proposed at a time. *)
LEMMA EnrichmentIsOne ==
  \A s \in Case : \A a \in NextActions(s) :
    a.tool = "enrich_iocs" => a = Act("enrich_iocs")
BY DEF NextActions, Widen, Collect, HuntNext, When, Act, Detonate, Hunt

(* Which hunt is proposed depends on the verdicts and the hunts alone. *)
LEMMA SameHunts ==
  ASSUME NEW s, NEW t, t.verdict = s.verdict, t.hunted_keys = s.hunted_keys
  PROVE  HuntNext(t) = HuntNext(s)
BY SameVerdict DEF HuntNext

(* It has nothing to propose only for a case that is covered: what the loops
   call converged. *)
LEMMA NothingNextIsCovered == \A s \in Case : NextActions(s) = {} => Covered(s)
<1>. SUFFICES ASSUME NEW s \in Case, NextActions(s) = {} PROVE Covered(s)
  OBVIOUS
<1>1. Widen(s) = {} /\ s.extracted /\ Collect(s) = {} /\ HuntNext(s) = {}
  BY DEF NextActions
<1>2. s.detections_ran /\ (s.phishing => s.email_checked)
  BY <1>1 DEF Widen, When
<1>3. Malicious(s) \subseteq s.hunted_keys /\ (Enriched(s) # {} => s.hunted_keys # {})
  BY <1>1 DEF HuntNext, When
<1>. QED
  BY <1>1, <1>2, <1>3, CollectNothing DEF Covered

(* It is a finite list. *)
LEMMA CollectFinite == \A s \in Case : IsFiniteSet(Collect(s))
<1>. SUFFICES ASSUME NEW s \in Case PROVE IsFiniteSet(Collect(s))
  OBVIOUS
<1>1. IsFiniteSet(When(s.pending_iocs # {}, {Act("enrich_iocs")}))
  BY FS_EmptySet, FS_Singleton DEF When
<1>2. IsFiniteSet(s.attachments \ s.detonated)
  <2>1. IsFiniteSet(Files)
    BY FS_Interval DEF Files
  <2>2. s.attachments \ s.detonated \in SUBSET Files
    BY DEF Case
  <2>. QED
    BY <2>1, <2>2, FS_Subset
<1>3. IsFiniteSet({Detonate(f) : f \in s.attachments \ s.detonated})
  <2>. DEFINE F == s.attachments \ s.detonated
              T == {Detonate(f) : f \in F}
              d == [f \in F |-> Detonate(f)]
  <2>1. d \in Surjection(F, T)
    BY DEF Surjection
  <2>. QED
    BY <1>2, <2>1, FS_Surjection
<1>. QED
  BY <1>1, <1>3, FS_Union DEF Collect

(* A list of the planner is finite. *)
LEMMA NextActionsFinite == \A s \in Case : IsFiniteSet(NextActions(s))
<1>. SUFFICES ASSUME NEW s \in Case PROVE IsFiniteSet(NextActions(s))
  OBVIOUS
<1>1. IsFiniteSet(Widen(s))
  BY FS_EmptySet, FS_Singleton, FS_Union DEF Widen, When
<1>2. IsFiniteSet(HuntNext(s))
  BY FS_EmptySet, FS_Singleton DEF HuntNext, When
<1>. QED
  BY <1>1, <1>2, CollectFinite, FS_Singleton DEF NextActions

(* What part of a list is run: all of it, or as much as there is room for. *)
LEMMA FirstOfIs ==
  ASSUME NEW actions, IsFiniteSet(actions), NEW k \in Nat, NEW rank,
         NEW batch \in FirstOf(actions, k, rank)
  PROVE  /\ batch \subseteq actions /\ IsFiniteSet(batch)
         /\ Cardinality(batch) \in 0..k
         /\ batch = actions \/ Cardinality(batch) = k
<1>1. batch \in SUBSET actions
  BY DEF FirstOf
<1>2. IsFiniteSet(batch) /\ Cardinality(batch) \in Nat
  BY <1>1, FS_Subset, FS_CardinalityType
<1>3. Cardinality(actions) \in Nat
  BY FS_CardinalityType
<1>. QED
  BY <1>1, <1>2, <1>3 DEF FirstOf
=============================================================================
