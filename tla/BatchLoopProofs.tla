--------------------------- MODULE BatchLoopProofs ---------------------------
(***************************************************************************)
(* Proofs about BatchLoop, for any indicators, attachments and verdicts,   *)
(* any budgets, and connectors and an evidence store that may raise.       *)
(***************************************************************************)
EXTENDS BatchLoop, InvestigationProofs

USE InvestigationAssumption, EvidenceAssumption, BudgetAssumption

-----------------------------------------------------------------------------
(* The inductive invariant. *)

(* What runs can be run, and at most one enrichment does. *)
FlightIsPlanned ==
  /\ \A a \in flight : Runnable(a)
  /\ \A a, b \in flight : a.tool = "enrich_iocs" /\ b.tool = "enrich_iocs" => a = b

(* A hunt looks for indicators that have a verdict. *)
HuntsAreJudged ==
  \A a \in flight : a.tool = "hunt_edr" => a.keys # {} /\ a.keys \subseteq Enriched(st)

(* A loop that has ended left no tool behind. *)
EndedIsQuiet == why # "going" => flight = {}

LoopInv ==
  /\ TypeOK /\ IocLifecycle /\ HuntsAreQuiescent
  /\ FlightIsPlanned /\ HuntsAreJudged
  /\ EndedIsQuiet /\ ConvergedIsCovered

(* Whoever awaits the second half of a message has checked it. *)
MessageIsChecked == reached # {} => st.email_checked

InFlight(tool) == \E a \in flight : a.tool = tool

(* How far a loop is whose tools never raised and whose calls last: each round
   settles one concern for good, and the fifth leaves nothing to plan. *)
Progress ==
  failed = {} /\ Room # 0 =>
    /\ iteration >= 1 =>
         /\ st.detections_ran \/ InFlight("run_detections")
         /\ st.phishing => st.email_checked \/ InFlight("fetch_email_context")
    /\ iteration >= 2 =>
         /\ st.detections_ran /\ (st.phishing => st.email_checked)
         /\ ~ InFlight("fetch_email_context")
         /\ st.extracted \/ InFlight("extract_iocs")
    /\ iteration >= 3 =>
         /\ st.extracted
         /\ \A f \in st.attachments \ st.detonated :
              \E a \in flight : a.tool = "detonate_attachment" /\ a.file = f
    /\ iteration >= 4 =>
         /\ st.attachments \subseteq st.detonated
         /\ ~ InFlight("detonate_attachment") /\ ~ InFlight("extract_iocs")
         /\ \A k \in st.pending_iocs :
              \E a \in flight : a.tool = "enrich_iocs" /\ k \in a.keys
    /\ iteration >= 5 =>
         /\ st.pending_iocs = {} /\ ~ InFlight("enrich_iocs")
         /\ HuntNext(st) = {} \/ InFlight("hunt_edr")

(* So no failure, no sixth round, and only the rounds end a loop for the rounds. *)
FiveRounds == failed = {} => iteration <= 5
UsedUp == why = "iterations" => iteration = MaxIterations

-----------------------------------------------------------------------------
(* The steps of the invariant. *)

(* The invariant holds before the first round. *)
LEMMA LoopStarts == Init => LoopInv
<1>. SUFFICES ASSUME Init PROVE LoopInv
  OBVIOUS
<1>1. PICK phishing \in BOOLEAN : st = NewCase(phishing)
  BY DEF Init
<1>2. st \in Case /\ st.pending_iocs = {} /\ st.hunted_keys = {}
  BY <1>1 DEF NewCase, Case, Verdicts
<1>. QED
  BY <1>2 DEF Init, LoopInv, TypeOK, ToolTypeOK, IocLifecycle, HuntsAreQuiescent,
              FlightIsPlanned, HuntsAreJudged, EndedIsQuiet, ConvergedIsCovered

(* What a batch puts in flight. *)
LEMMA BatchIsPlanned ==
  ASSUME LoopInv, StartBatch
  PROVE  \E batch \in SUBSET NextActions(st) :
           /\ flight' = {Started(b, 0) : b \in batch}
           /\ tool_calls' \in 0..MaxToolCalls
           /\ batch = NextActions(st) \/ Room' = 0
           /\ Room' # 0 => Room # 0
<1>. USE DEF LoopInv, TypeOK
<1>1. st \in Case /\ Room \in Nat
  BY DEF ToolTypeOK, Room
<1>2. PICK batch \in FirstOf(NextActions(st), Room, Position(NextActions(st))) :
        /\ flight' = {Started(b, 0) : b \in batch}
        /\ tool_calls' = tool_calls + Cardinality(batch)
  BY DEF StartBatch
<1>3. /\ batch \subseteq NextActions(st) /\ Cardinality(batch) \in 0..Room
      /\ batch = NextActions(st) \/ Cardinality(batch) = Room
  BY <1>1, NextActionsFinite, FirstOfIs
<1>4. /\ tool_calls' \in 0..MaxToolCalls
      /\ batch = NextActions(st) \/ Room' = 0
      /\ Room # 0
  BY <1>1, <1>2, <1>3 DEF Room, StartBatch
<1>. QED
  BY <1>2, <1>3, <1>4

(* A batch starts with tools that the planner found apart from one another. *)
LEMMA StartKeepsInv == LoopInv /\ StartBatch => LoopInv'
<1>. SUFFICES ASSUME LoopInv, StartBatch PROVE LoopInv'
  OBVIOUS
<1>1. st \in Case /\ UNCHANGED <<st, reached, why, failed>> /\ flight = {}
  BY DEF LoopInv, TypeOK, ToolTypeOK, StartBatch, Planning
<1>2. PICK batch \in SUBSET NextActions(st) :
        flight' = {Started(b, 0) : b \in batch} /\ tool_calls' \in 0..MaxToolCalls
  BY BatchIsPlanned
<1>3. ASSUME NEW f \in flight'
      PROVE  f \in Run /\ Runnable(f)
             /\ \E b \in NextActions(st) :
                  f = Started(b, 0) /\ f.tool = b.tool
                  /\ (b.tool = "hunt_edr" => f.keys = b.keys)
                  /\ (b.tool = "enrich_iocs" => f.keys = st.pending_iocs)
  <2>1. PICK b \in batch : f = Started(b, 0)
    BY <1>2, <1>3
  <2>2. b \in Plannable /\ b \in NextActions(st)
    BY <1>1, <1>2, NextActionsPlannable
  <2>. QED
    BY <1>1, <2>1, <2>2 DEF Started, Run, Runnable, Plannable, Action, Case
<1>4. TypeOK'
  BY <1>1, <1>2, <1>3 DEF LoopInv, TypeOK, ToolTypeOK, StartBatch
<1>5. IocLifecycle'
  BY <1>1, <1>3 DEF LoopInv, IocLifecycle, Enriched
<1>6. ASSUME NEW f \in flight', f.tool = "hunt_edr"
      PROVE  /\ flight' = {f}
             /\ Collect(st) = {} /\ Malicious(st) \subseteq st.hunted_keys \cup f.keys
             /\ f.keys # {} /\ f.keys \subseteq Enriched(st)
  <2>1. PICK b \in NextActions(st) : /\ f = Started(b, 0) /\ b.tool = "hunt_edr"
                                     /\ f.keys = b.keys
    BY <1>3, <1>6
  <2>2. NextActions(st) = {b}
    BY <1>1, <2>1, HuntIsAlone
  <2>3. flight' = {f}
    BY <1>2, <1>6, <2>1, <2>2
  <2>. QED
    BY <1>1, <2>1, <2>3, HuntIsAlone
<1>7. HuntsAreQuiescent' /\ HuntsAreJudged'
  BY <1>1, <1>6, CollectNothing DEF HuntsAreQuiescent, HuntsAreJudged, Malicious, Enriched
<1>8. FlightIsPlanned'
  BY <1>1, <1>3, EnrichmentIsOne DEF FlightIsPlanned
<1>. QED
  BY <1>1, <1>4, <1>5, <1>7, <1>8
  DEF LoopInv, EndedIsQuiet, ConvergedIsCovered, Planning, StartBatch

(* A step of a running tool: the first fold of fetch_email_context, or an end
   with what it learnt or with nothing. *)
LEMMA ToolOutcome ==
  ASSUME NEW a \in flight, Tool(a)
  PROVE  /\ UNCHANGED loopVars
         /\ \/ FetchMessage(a) /\ UNCHANGED failed
            \/ /\ End(a) /\ st' \in Folded(st, a)
               /\ a.tool = "fetch_email_context" => a \in reached
               /\ failed' \in {failed, failed \cup {a.tool}}
            \/ End(a) /\ UNCHANGED st /\ failed' = failed \cup {a.tool}
BY DEF Tool, ToolReturns, ToolRaises, Finishing

(* A tool that ends takes nothing with it. *)
LEMMA EndKeepsFlight ==
  ASSUME LoopInv, NEW a \in flight, End(a), st' \in Case,
         UNCHANGED loopVars, failed' \in {failed, failed \cup {a.tool}}
  PROVE  TypeOK' /\ FlightIsPlanned' /\ EndedIsQuiet'
<1>1. a.tool \in Tools
  BY DEF LoopInv, FlightIsPlanned, Runnable
<1>. QED
  BY <1>1 DEF LoopInv, TypeOK, ToolTypeOK, FlightIsPlanned, EndedIsQuiet, End, loopVars

(* The first fold of fetch_email_context adds no indicator and no verdict, and
   no hunt runs beside it. *)
LEMMA FetchKeepsInv ==
  ASSUME LoopInv, NEW a \in flight, FetchMessage(a), UNCHANGED <<loopVars, failed>>
  PROVE  LoopInv'
<1>1. PICK n \in 0..MaxAttachments :
        st' = [st EXCEPT !.email_checked = TRUE, !.attachments = 1..n]
  BY DEF FetchMessage
<1>2. st \in Case /\ why = "going"
  BY DEF LoopInv, TypeOK, ToolTypeOK, EndedIsQuiet
<1>3. /\ st' \in Case /\ Enriched(st') = Enriched(st)
      /\ st'.pending_iocs = st.pending_iocs /\ st'.hunted_keys = st.hunted_keys
  <2>1. st' \in Case /\ SameBut({"email_checked", "attachments"}, st, st')
    BY <1>1, <1>2, Fetching
  <2>. QED
    BY <2>1, SameVerdict DEF SameBut, Fields
<1>4. \A b \in flight : b.tool # "hunt_edr"
  BY DEF LoopInv, HuntsAreQuiescent, FetchMessage
<1>5. TypeOK' /\ FlightIsPlanned' /\ EndedIsQuiet'
  BY <1>3
  DEF LoopInv, TypeOK, ToolTypeOK, FlightIsPlanned, EndedIsQuiet, FetchMessage, loopVars
<1>6. IocLifecycle'
  BY <1>3 DEF LoopInv, IocLifecycle, FetchMessage, Enriched
<1>. QED
  BY <1>2, <1>4, <1>5, <1>6
  DEF LoopInv, HuntsAreQuiescent, HuntsAreJudged, ConvergedIsCovered, FetchMessage, loopVars

(* A tool that ends having learnt nothing. *)
LEMMA RaiseKeepsInv ==
  ASSUME LoopInv, NEW a \in flight, End(a), UNCHANGED <<st, loopVars>>,
         failed' \in {failed, failed \cup {a.tool}}
  PROVE  LoopInv'
<1>1. st' \in Case /\ why = "going"
  BY DEF LoopInv, TypeOK, ToolTypeOK, EndedIsQuiet
<1>2. TypeOK' /\ FlightIsPlanned' /\ EndedIsQuiet'
  BY <1>1, EndKeepsFlight DEF loopVars
<1>3. IocLifecycle' /\ HuntsAreQuiescent' /\ HuntsAreJudged'
  BY DEF LoopInv, IocLifecycle, HuntsAreQuiescent, HuntsAreJudged, End, Enriched, Malicious
<1>. QED
  BY <1>1, <1>2, <1>3 DEF LoopInv, ConvergedIsCovered, loopVars

(* What a tool that learnt something leaves behind: each indicator waits or is
   judged, and only judged ones are hunted. *)
LEMMA FoldKeepsLifecycle ==
  ASSUME LoopInv, NEW a \in flight, End(a), st' \in Folded(st, a)
  PROVE  st' \in Case /\ IocLifecycle'
<1>1. st \in Case /\ Runnable(a) /\ IocLifecycle
  BY DEF LoopInv, TypeOK, ToolTypeOK, FlightIsPlanned
<1>2. flight' \subseteq flight
  BY DEF End
<1>. USE DEF SameBut, Fields, Runnable
<1>3. CASE a.tool = "run_detections"
  <2>1. st' \in Case /\ SameBut({"detections_ran"}, st, st')
    BY <1>1, <1>3, FoldedDetections
  <2>2. Enriched(st') = Enriched(st)
    BY <2>1, SameVerdict
  <2>. QED
    BY <1>1, <1>2, <2>1, <2>2 DEF IocLifecycle
<1>4. CASE a.tool = "fetch_email_context"
  <2>1. st' \in Case /\ SameBut({"extracted"}, st, st')
    BY <1>1, <1>4, FoldedEmail
  <2>2. Enriched(st') = Enriched(st)
    BY <2>1, SameVerdict
  <2>. QED
    BY <1>1, <1>2, <2>1, <2>2 DEF IocLifecycle
<1>5. CASE a.tool \in {"extract_iocs", "detonate_attachment"}
  <2>1. /\ st' \in Case /\ st.pending_iocs \subseteq st'.pending_iocs
        /\ st'.pending_iocs \cap Enriched(st) \subseteq st.pending_iocs
        /\ st'.verdict = st.verdict /\ st'.hunted_keys = st.hunted_keys
    BY <1>1, <1>5, FoldedExtract, FoldedDetonation
  <2>2. Enriched(st') = Enriched(st)
    BY <2>1, SameVerdict
  <2>. QED
    BY <1>1, <1>2, <2>1, <2>2 DEF IocLifecycle
<1>6. CASE a.tool = "enrich_iocs"
  <2>1. /\ st' \in Case /\ st'.pending_iocs = st.pending_iocs \ a.keys
        /\ Enriched(st') = Enriched(st) \cup a.keys /\ st'.hunted_keys = st.hunted_keys
    BY <1>1, <1>6, FoldedEnrichment
  <2>2. \A b \in flight' : b.tool # "enrich_iocs"
    BY <1>6 DEF LoopInv, FlightIsPlanned, End
  <2>. QED
    BY <1>1, <2>1, <2>2 DEF IocLifecycle
<1>7. CASE a.tool = "hunt_edr"
  <2>1. st' \in Case /\ st'.hunted_keys = st.hunted_keys \cup a.keys
        /\ SameBut({"hunted_keys"}, st, st')
    BY <1>1, <1>7, FoldedHunt
  <2>2. Enriched(st') = Enriched(st)
    BY <2>1, SameVerdict
  <2>3. a.keys \subseteq Enriched(st)
    BY <1>7 DEF LoopInv, HuntsAreJudged
  <2>. QED
    BY <1>1, <1>2, <2>1, <2>2, <2>3 DEF IocLifecycle
<1>. QED
  BY <1>1, <1>3, <1>4, <1>5, <1>6, <1>7 DEF Tools

(* A result that is folded in leaves the tools beside it with work of their
   own. *)
LEMMA FoldKeepsInv ==
  ASSUME LoopInv, NEW a \in flight, End(a), st' \in Folded(st, a), UNCHANGED loopVars,
         failed' \in {failed, failed \cup {a.tool}}
  PROVE  LoopInv'
<1>1. st' \in Case /\ IocLifecycle'
  BY FoldKeepsLifecycle
<1>2. TypeOK' /\ FlightIsPlanned' /\ EndedIsQuiet'
  BY <1>1, EndKeepsFlight
<1>3. \A b \in flight' : b.tool # "hunt_edr"
  BY DEF LoopInv, HuntsAreQuiescent, End
<1>4. why' = "going"
  BY DEF LoopInv, EndedIsQuiet, loopVars
<1>. QED
  BY <1>1, <1>2, <1>3, <1>4
  DEF LoopInv, HuntsAreQuiescent, HuntsAreJudged, ConvergedIsCovered

(* No step of a tool breaks the invariant, one that raises included. *)
LEMMA ToolKeepsInv == ASSUME LoopInv, NEW a \in flight, Tool(a) PROVE LoopInv'
BY ToolOutcome, FetchKeepsInv, FoldKeepsInv, RaiseKeepsInv

(* The loop may end between two rounds, and converges only on a covered case. *)
LEMMA StopKeepsInv ==
  ASSUME LoopInv, IterationsUsed \/ OutOfTime \/ Converge \/ CallsUsed
  PROVE  LoopInv'
<1>1. st \in Case /\ flight = {} /\ UNCHANGED <<toolVars, iteration, tool_calls, failed>>
  BY DEF LoopInv, TypeOK, ToolTypeOK, IterationsUsed, OutOfTime, Converge, CallsUsed, Stop,
         Planning
<1>2. TypeOK'
  BY <1>1
  DEF LoopInv, TypeOK, ToolTypeOK, toolVars, IterationsUsed, OutOfTime, Converge, CallsUsed, Stop
<1>3. ConvergedIsCovered'
  BY <1>1, NothingNextIsCovered
  DEF toolVars, ConvergedIsCovered, IterationsUsed, OutOfTime, Converge, CallsUsed, Stop
<1>. QED
  BY <1>1, <1>2, <1>3
  DEF LoopInv, toolVars, IocLifecycle, HuntsAreQuiescent, FlightIsPlanned, HuntsAreJudged,
      EndedIsQuiet

(* Every step of the loop keeps the invariant. *)
LEMMA LoopStep == LoopInv /\ [Next]_vars => LoopInv'
<1>. SUFFICES ASSUME LoopInv, [Next]_vars PROVE LoopInv'
  OBVIOUS
<1>1. CASE UNCHANGED vars
  BY <1>1
  DEF vars, loopVars, toolVars, LoopInv, TypeOK, ToolTypeOK, IocLifecycle, HuntsAreQuiescent,
      FlightIsPlanned, HuntsAreJudged, EndedIsQuiet, ConvergedIsCovered, Enriched, Malicious
<1>. QED
  BY <1>1, StopKeepsInv, StartKeepsInv, ToolKeepsInv DEF Next, Plan

(* The invariant holds in every collection. *)
LEMMA LoopInvariant == Spec => []LoopInv
BY LoopStarts, LoopStep, PTL DEF Spec

-----------------------------------------------------------------------------
(* An indicator waits or is judged, hunts run alone on judged indicators, and
   every variable keeps its type, although tools work on snapshots that others
   change beside them (tools.py, state.py). *)
THEOREM ToolsNeverCollide == Spec => []ToolsDoNotCollide
<1>1. LoopInv => ToolsDoNotCollide
  BY DEF LoopInv, ToolsDoNotCollide
<1>. QED
  BY <1>1, LoopInvariant, PTL

(* A loop that says it converged has covered the case, whatever failed on the
   way (planner.py next_actions). *)
THEOREM ConvergedHolds == Spec => []ConvergedIsCovered
<1>1. LoopInv => ConvergedIsCovered
  BY DEF LoopInv
<1>. QED
  BY <1>1, LoopInvariant, PTL

(* No tool, finished or failed, loses what another found: indicators, hunts and
   detonations are kept (state.py). *)
THEOREM NothingIsForgotten == Spec => NothingForgotten
<1>. DEFINE Kept == /\ Known(st) \subseteq Known(st')
                    /\ st.hunted_keys \subseteq st'.hunted_keys
                    /\ st.detonated \subseteq st'.detonated
<1>1. ASSUME LoopInv, Next PROVE Kept
  <2>1. ASSUME UNCHANGED st PROVE Kept
    BY <2>1
  <2>2. ASSUME NEW a \in flight, Tool(a) PROVE Kept
    <3>1. st \in Case /\ Runnable(a)
      BY <1>1 DEF LoopInv, TypeOK, ToolTypeOK, FlightIsPlanned
    <3>2. CASE FetchMessage(a)
      <4>1. PICK n \in 0..MaxAttachments :
              st' = [st EXCEPT !.email_checked = TRUE, !.attachments = 1..n]
        BY <3>2 DEF FetchMessage
      <4>2. SameBut({"email_checked", "attachments"}, st, st')
        BY <3>1, <4>1, Fetching
      <4>. QED
        BY <4>2, SameVerdict DEF SameBut, Fields, Known
    <3>3. CASE st' \in Folded(st, a)
      BY <3>1, <3>3, FoldedKeeps
    <3>. QED
      BY <2>1, <2>2, <3>2, <3>3, ToolOutcome
  <2>. QED
    BY <1>1, <2>1, <2>2
    DEF Next, Plan, IterationsUsed, OutOfTime, Converge, CallsUsed, StartBatch, Stop, toolVars
<1>2. LoopInv /\ [Next]_vars => [Kept]_vars
  BY <1>1
<1>. QED
  BY <1>2, LoopInvariant, PTL DEF Spec, NothingForgotten

-----------------------------------------------------------------------------
(* How far a loop gets whose tools do not raise. *)

(* In the first round nothing need be settled yet. *)
LEMMA ProgressStarts == Init => Progress
BY DEF Init, Progress

(* The fifth round leaves nothing to plan. *)
LEMMA FifthIsLast ==
  ASSUME LoopInv, Progress, StartBatch, failed = {}
  PROVE  iteration <= 4
<1>. SUFFICES ASSUME iteration >= 5 PROVE FALSE
  BY DEF LoopInv, TypeOK
<1>1. st \in Case /\ Room # 0 /\ NextActions(st) # {} /\ \A tool : ~ InFlight(tool)
  BY DEF LoopInv, TypeOK, ToolTypeOK, StartBatch, Planning, InFlight
<1>2. /\ st.detections_ran /\ (st.phishing => st.email_checked) /\ st.extracted
      /\ st.pending_iocs = {} /\ st.attachments \subseteq st.detonated /\ HuntNext(st) = {}
  BY <1>1 DEF LoopInv, TypeOK, Progress
<1>. QED
  BY <1>1, <1>2, CollectNothing DEF NextActions, Widen, When

(* A round that has room for all that is planned works on all of it. *)
LEMMA StartProgresses ==
  ASSUME LoopInv, Progress, StartBatch
  PROVE  Progress'
<1>. SUFFICES ASSUME failed' = {}, Room' # 0 PROVE Progress'
  BY DEF Progress
<1>1. /\ UNCHANGED <<st, reached, why, failed>> /\ flight = {} /\ st \in Case
      /\ iteration \in Nat /\ iteration' = iteration + 1
  BY DEF LoopInv, TypeOK, ToolTypeOK, StartBatch, Planning
<1>2. flight' = {Started(b, 0) : b \in NextActions(st)} /\ Room # 0
  BY BatchIsPlanned
<1>3. \A tool : ~ InFlight(tool)
  BY <1>1 DEF InFlight
<1>4. ASSUME NEW b \in NextActions(st)
      PROVE  \E f \in flight' :
               /\ f.tool = b.tool /\ f.file = b.file
               /\ f.tool = "enrich_iocs" => f.keys = st.pending_iocs
  <2>1. Started(b, 0) \in flight'
    BY <1>2
  <2>. QED
    BY <2>1 DEF Started
<1>5. ASSUME NEW tool, Act(tool) \in NextActions(st) PROVE InFlight(tool)'
  <2>1. Act(tool).tool = tool
    BY DEF Act
  <2>. QED
    BY <1>4, <1>5, <2>1 DEF InFlight
<1>6. ASSUME NEW f \in flight'
      PROVE  \E b \in NextActions(st) : f.tool = b.tool
  BY <1>2 DEF Started
<1>7. failed = {}
  BY <1>1
<1>8. CASE iteration = 0
  <2>1. NextActions(st) = Widen(st) \/ Widen(st) = {}
    BY DEF NextActions
  <2>2. ~ st.detections_ran => InFlight("run_detections")'
    BY <1>5, <2>1 DEF Widen, When
  <2>3. st.phishing /\ ~ st.email_checked => InFlight("fetch_email_context")'
    BY <1>5, <2>1 DEF Widen, When
  <2>. QED
    BY <1>1, <1>8, <2>2, <2>3 DEF Progress
<1>9. CASE iteration >= 1
  <2>1. st.detections_ran /\ (st.phishing => st.email_checked) /\ Widen(st) = {}
    BY <1>2, <1>3, <1>7, <1>9 DEF Progress, Widen, When
  <2>2. NextActions(st) = IF ~ st.extracted THEN {Act("extract_iocs")}
                          ELSE IF Collect(st) # {} THEN Collect(st) ELSE HuntNext(st)
    BY <2>1 DEF NextActions
  <2>3. \A b \in NextActions(st) : b.tool # "fetch_email_context"
    BY <2>2 DEF Collect, HuntNext, When, Act, Detonate, Hunt
  <2>4. ~ InFlight("fetch_email_context")'
    BY <1>6, <2>3 DEF InFlight
  <2>5. ~ st.extracted => InFlight("extract_iocs")'
    BY <1>5, <2>2
  <2>6. ASSUME iteration >= 2
        PROVE  /\ st.extracted
               /\ \A f \in st.attachments \ st.detonated :
                    \E a \in flight' : a.tool = "detonate_attachment" /\ a.file = f
    <3>1. st.extracted
      BY <1>2, <1>3, <1>7, <2>6 DEF Progress
    <3>2. ASSUME NEW f \in st.attachments \ st.detonated
          PROVE  Detonate(f) \in NextActions(st)
      BY <2>2, <3>1, <3>2 DEF Collect
    <3>. QED
      BY <1>4, <3>1, <3>2 DEF Detonate
  <2>7. ASSUME iteration >= 3
        PROVE  /\ st.attachments \subseteq st.detonated
               /\ ~ InFlight("detonate_attachment")' /\ ~ InFlight("extract_iocs")'
               /\ \A k \in st.pending_iocs :
                    \E a \in flight' : a.tool = "enrich_iocs" /\ k \in a.keys
    <3>1. st.extracted /\ st.attachments \subseteq st.detonated
      BY <1>1, <1>2, <1>7, <2>6, <2>7 DEF Progress
    <3>2. \A b \in NextActions(st) : b.tool \notin {"detonate_attachment", "extract_iocs"}
      BY <2>2, <3>1 DEF Collect, HuntNext, When, Act, Detonate, Hunt
    <3>3. ASSUME st.pending_iocs # {} PROVE Act("enrich_iocs") \in NextActions(st)
      BY <2>2, <3>1, <3>3 DEF Collect, When
    <3>4. ASSUME NEW k \in st.pending_iocs
          PROVE  \E a \in flight' : a.tool = "enrich_iocs" /\ k \in a.keys
      BY <1>4, <3>3 DEF Act
    <3>. QED
      BY <1>6, <3>1, <3>2, <3>4 DEF InFlight
  <2>8. ASSUME iteration >= 4
        PROVE  /\ st.pending_iocs = {} /\ ~ InFlight("enrich_iocs")'
               /\ HuntNext(st) = {} \/ InFlight("hunt_edr")'
    <3>1. st.extracted /\ Collect(st) = {} /\ st.pending_iocs = {}
      BY <1>1, <1>2, <1>7, <2>8, CollectNothing DEF Progress
    <3>2. NextActions(st) = HuntNext(st)
      BY <2>2, <3>1
    <3>3. \A b \in NextActions(st) : b.tool = "hunt_edr"
      BY <3>2 DEF HuntNext, When, Hunt
    <3>. QED
      BY <1>4, <1>6, <3>1, <3>2, <3>3 DEF InFlight
  <2>. QED
    BY <1>1, <1>9, <2>1, <2>4, <2>5, <2>6, <2>7, <2>8 DEF Progress
<1>. QED
  BY <1>1, <1>8, <1>9

(* Messages are only ever checked. *)
LEMMA CheckedStep == LoopInv /\ MessageIsChecked /\ [Next]_vars => MessageIsChecked'
<1>. SUFFICES ASSUME LoopInv, MessageIsChecked, [Next]_vars PROVE MessageIsChecked'
  OBVIOUS
<1>1. ASSUME UNCHANGED <<st, reached>> PROVE MessageIsChecked'
  BY <1>1 DEF MessageIsChecked
<1>2. ASSUME NEW a \in flight, Tool(a) PROVE MessageIsChecked'
  <2>1. st \in Case /\ Runnable(a)
    BY DEF LoopInv, TypeOK, ToolTypeOK, FlightIsPlanned
  <2>2. CASE FetchMessage(a)
    BY <2>1, <2>2, Fetching DEF FetchMessage, MessageIsChecked
  <2>3. CASE End(a) /\ st' \in Folded(st, a)
    BY <2>1, <2>3, FoldedKeeps DEF End, MessageIsChecked
  <2>4. CASE End(a) /\ UNCHANGED st
    BY <2>4 DEF End, MessageIsChecked
  <2>. QED
    BY <1>2, <2>2, <2>3, <2>4, ToolOutcome
<1>. QED
  BY <1>1, <1>2
  DEF Next, Plan, IterationsUsed, OutOfTime, Converge, CallsUsed, StartBatch, Stop, toolVars, vars

(* A tool that succeeds settles what its round was for. *)
LEMMA ToolProgresses ==
  ASSUME LoopInv, MessageIsChecked, Progress, NEW a \in flight, Tool(a)
  PROVE  Progress'
<1>. SUFFICES ASSUME failed' = {}, Room' # 0 PROVE Progress'
  BY DEF Progress
<1>1. /\ UNCHANGED loopVars /\ failed = {} /\ Room # 0
      /\ \/ FetchMessage(a)
         \/ End(a) /\ st' \in Folded(st, a) /\ (a.tool = "fetch_email_context" => a \in reached)
  BY ToolOutcome DEF Room, loopVars
<1>2. st \in Case /\ Runnable(a) /\ iteration \in Nat
  BY DEF LoopInv, TypeOK, ToolTypeOK, FlightIsPlanned
<1>. USE DEF loopVars, Progress, InFlight
<1>3. CASE FetchMessage(a)
  <2>0. a.tool = "fetch_email_context" /\ flight' = flight
    BY <1>3 DEF FetchMessage
  <2>1. iteration <= 1 /\ flight' = flight
    BY <1>1, <1>2, <2>0
  <2>2. PICK n \in 0..MaxAttachments :
          st' = [st EXCEPT !.email_checked = TRUE, !.attachments = 1..n]
    BY <1>3 DEF FetchMessage
  <2>3. st'.email_checked /\ st'.detections_ran = st.detections_ran
    <3>1. st'.email_checked /\ SameBut({"email_checked", "attachments"}, st, st')
      BY <1>2, <2>2, Fetching
    <3>. QED
      BY <3>1 DEF SameBut, Fields
  <2>. QED
    BY <1>1, <1>2, <2>1, <2>3
<1>4. CASE End(a) /\ st' \in Folded(st, a) /\ (a.tool = "fetch_email_context" => a \in reached)
  <2>1. flight' = flight \ {a}
    BY <1>4 DEF End
  <2>. USE DEF SameBut, Fields, Runnable
  <2>2. CASE a.tool = "run_detections"
    <3>1. st'.detections_ran /\ SameBut({"detections_ran"}, st, st')
      BY <1>2, <1>4, <2>2, FoldedDetections
    <3>2. HuntNext(st') = HuntNext(st)
      BY <3>1, SameHunts
    <3>. QED
      BY <1>1, <1>2, <2>1, <2>2, <3>1, <3>2
  <2>3. CASE a.tool = "fetch_email_context"
    <3>1. iteration <= 1
      BY <1>1, <1>2, <2>3
    <3>2. st'.detections_ran = st.detections_ran /\ st'.email_checked
      <4>1. SameBut({"extracted"}, st, st')
        BY <1>2, <1>4, <2>3, FoldedEmail
      <4>. QED
        BY <1>4, <2>3, <4>1 DEF MessageIsChecked
    <3>. QED
      BY <1>1, <1>2, <2>1, <2>3, <3>1, <3>2
  <2>4. CASE a.tool = "extract_iocs"
    <3>1. iteration <= 3
      BY <1>1, <1>2, <2>4
    <3>2. st'.extracted /\ SameBut({"pending_iocs", "extracted"}, st, st')
      BY <1>2, <1>4, <2>4, FoldedExtract
    <3>. QED
      BY <1>1, <1>2, <2>1, <2>4, <3>1, <3>2
  <2>5. CASE a.tool = "enrich_iocs"
    <3>1. iteration <= 4
      BY <1>1, <1>2, <2>5
    <3>2. st'.pending_iocs = st.pending_iocs \ a.keys
          /\ SameBut({"pending_iocs", "verdict"}, st, st')
      BY <1>2, <1>4, <2>5, FoldedEnrichment
    <3>. QED
      BY <1>1, <1>2, <2>1, <2>5, <3>1, <3>2
  <2>6. CASE a.tool = "detonate_attachment"
    <3>1. iteration <= 3
      BY <1>1, <1>2, <2>6
    <3>2. st'.detonated = st.detonated \cup {a.file}
          /\ SameBut({"pending_iocs", "detonated"}, st, st')
      BY <1>2, <1>4, <2>6, FoldedDetonation
    <3>. QED
      BY <1>1, <1>2, <2>1, <2>6, <3>1, <3>2
  <2>7. CASE a.tool = "hunt_edr"
    <3>1. st'.hunted_keys = st.hunted_keys \cup a.keys /\ SameBut({"hunted_keys"}, st, st')
      BY <1>2, <1>4, <2>7, FoldedHunt
    <3>2. Malicious(st) \subseteq st.hunted_keys \cup a.keys /\ a.keys # {}
      BY <2>7 DEF LoopInv, HuntsAreQuiescent, HuntsAreJudged
    <3>3. Malicious(st') = Malicious(st)
      BY <3>1, SameVerdict
    <3>4. HuntNext(st') = {}
      BY <3>1, <3>2, <3>3 DEF HuntNext, When
    <3>. QED
      BY <1>1, <1>2, <2>1, <2>7, <3>1, <3>4
  <2>. QED
    BY <1>2, <2>2, <2>3, <2>4, <2>5, <2>6, <2>7 DEF Tools
<1>. QED
  BY <1>1, <1>3, <1>4

ProgressInv == LoopInv /\ MessageIsChecked /\ Progress /\ FiveRounds /\ UsedUp

(* What each round has settled stays settled. *)
LEMMA ProgressInvariant == Spec => []ProgressInv
<1>1. Init => ProgressInv
  BY LoopStarts, ProgressStarts DEF ProgressInv, MessageIsChecked, FiveRounds, UsedUp, Init
<1>2. ProgressInv /\ [Next]_vars => ProgressInv'
  <2>. SUFFICES ASSUME ProgressInv, [Next]_vars PROVE ProgressInv'
    OBVIOUS
  <2>. USE DEF ProgressInv
  <2>1. LoopInv' /\ MessageIsChecked'
    BY LoopStep, CheckedStep
  <2>2. ASSUME UNCHANGED <<st, flight, iteration, tool_calls, failed>>
        PROVE  Progress' /\ FiveRounds'
    BY <2>2 DEF Progress, FiveRounds, InFlight, Room, HuntNext, Malicious, Enriched
  <2>3. CASE StartBatch
    <3>1. Progress'
      BY <2>3, StartProgresses
    <3>2. FiveRounds' /\ UsedUp'
      BY <2>3, FifthIsLast DEF FiveRounds, UsedUp, StartBatch, Planning, LoopInv, TypeOK
    <3>. QED
      BY <2>1, <3>1, <3>2
  <2>4. ASSUME NEW a \in flight, Tool(a) PROVE ProgressInv'
    <3>1. Progress'
      BY <2>4, ToolProgresses
    <3>2. FiveRounds' /\ UsedUp'
      BY <2>4, ToolOutcome DEF FiveRounds, UsedUp, loopVars
    <3>. QED
      BY <2>1, <3>1, <3>2
  <2>5. CASE IterationsUsed \/ OutOfTime \/ Converge \/ CallsUsed
    <3>1. UsedUp' /\ UNCHANGED <<st, flight, iteration, tool_calls, failed>>
      BY <2>5 DEF IterationsUsed, OutOfTime, Converge, CallsUsed, Stop, toolVars, UsedUp
    <3>. QED
      BY <2>1, <2>2, <3>1
  <2>6. CASE UNCHANGED vars
    BY <2>1, <2>2, <2>6 DEF vars, toolVars, loopVars, UsedUp
  <2>. QED
    BY <2>3, <2>4, <2>5, <2>6 DEF Next, Plan
<1>. QED
  BY <1>1, <1>2, PTL DEF Spec

(* Six rounds are enough for every case, however many indicators and
   attachments it has: a loop that used more up had a tool that raised (Budget
   grants eight). *)
THEOREM RoundsSuffice ==
  ASSUME MaxIterations >= 6
  PROVE  Spec => []OnlyFailuresUseUpRounds
<1>1. ProgressInv => OnlyFailuresUseUpRounds
  BY DEF ProgressInv, FiveRounds, UsedUp, OnlyFailuresUseUpRounds
<1>. QED
  BY <1>1, ProgressInvariant, PTL
=============================================================================
