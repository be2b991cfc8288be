----------------------- MODULE GovernedWorkflow_proofs -----------------------
(***************************************************************************)
(* For all tools, whichever of them are guarded, whichever agents the      *)
(* caller replaces, whatever compliance rules are named and however often  *)
(* the request is executed: WorkflowInv is inductive, so what the run      *)
(* checks holds, and the workflow implements Governance.                   *)
(***************************************************************************)
EXTENDS GovernedWorkflow, TLAPS

\* A dangerous text is of a risk for which the planner asks for an approval:
\* classify_risk and PlannerAgent.run.
LEMMA DangerIsPlanned == Dangerous => ShippedPlan = {"approval"}
BY DEF Dangerous, Risk, PlansApproval, ShippedPlan

\* In the beginning WorkflowInv holds.
LEMMA WorkflowStarts == Init => WorkflowInv
<1> SUFFICES ASSUME Init PROVE WorkflowInv
    OBVIOUS
<1>1. TypeOK
    <2>1. /\ traits \subseteq Trait /\ call \in Call /\ custom \in Customs
          /\ artifacts \subseteq Role /\ plan \subseteq {"approval", "evidence"}
          /\ entries \subseteq Entry /\ used \subseteq [tool : Tool, granted : BOOLEAN]
        BY DEF Init
    <2>2. turns \in 0 .. MaxTurns
        BY WorkflowAssumption DEF Init
    <2>3. /\ granted \in BOOLEAN /\ found \in BOOLEAN /\ passed \in BOOLEAN
          /\ stage \in Stage /\ answer \in Text
          /\ status \in {"accepted", "running", "completed", "blocked",
                         "rejected", "failed"}
        BY DEF Init, Stage, Text
    <2> QED
        BY <2>1, <2>2, <2>3 DEF TypeOK
<1>2. CourseInv
    BY DEF Init, CourseInv, BehindGate
<1>3. GuardedToolsWereGranted /\ DangerIsApproved /\ CompletedWasChecked
    BY DEF Init, GuardedToolsWereGranted, DangerIsApproved, CompletedWasChecked
<1> QED
    BY <1>1, <1>2, <1>3 DEF WorkflowInv

-----------------------------------------------------------------------------
(* Types.                                                                  *)

\* Every step of the workflow keeps its variables within their types.
LEMMA StepKeepsTypes == ASSUME TypeOK, [Next]_vars PROVE TypeOK'
<1> USE WorkflowAssumption DEF TypeOK
<1>1. ASSUME NEW approval \in BOOLEAN, Begin(approval) PROVE TypeOK'
    <2>1. turns' \in 0 .. MaxTurns
        BY <1>1 DEF Begin
    <2>2. /\ granted' \in BOOLEAN /\ found' \in BOOLEAN /\ passed' \in BOOLEAN
          /\ stage' \in Stage /\ answer' \in Text
          /\ status' \in {"accepted", "running", "completed", "blocked",
                          "rejected", "failed"}
        BY <1>1 DEF Begin, Stage, Text
    <2>3. /\ artifacts' \subseteq Role /\ plan' \subseteq {"approval", "evidence"}
          /\ entries' \subseteq Entry
          /\ UNCHANGED <<request, used>>
        BY <1>1 DEF Begin
    <2> QED
        BY <2>1, <2>2, <2>3 DEF request
<1>2. CASE Plan
    <2>1. plan' \subseteq {"approval", "evidence"}
        BY <1>2 DEF Plan, ShippedPlan
    <2>2. artifacts' \subseteq Role
        BY <1>2 DEF Plan, Role
    <2>3. /\ stage' \in Stage
          /\ status' \in {"accepted", "running", "completed", "blocked",
                          "rejected", "failed"}
        BY <1>2 DEF Plan, Blocks, End, Proceed, Stage
    <2> QED
        BY <1>2, <2>1, <2>2, <2>3 DEF Plan, request
<1>3. CASE Approval
    BY <1>3 DEF Approval, End, Proceed, request, produced, Stage
<1>4. CASE Research
    BY <1>4 DEF Research, ShippedResearch, Blocks, End, Proceed, request, Stage, Role
<1>5. CASE Execute
    <2>1. /\ stage' \in Stage
          /\ status' \in {"accepted", "running", "completed", "blocked",
                          "rejected", "failed"}
        BY <1>5 DEF Execute, RunCustom, RunInvocation, RunModel, Blocks, End, Proceed, Stage
    <2>2. answer' \in Text
        BY <1>5 DEF Execute, RunCustom, RunInvocation, RunModel, Text
    <2>3. entries' \subseteq Entry
        BY <1>5 DEF Execute, RunCustom, RunInvocation, RunModel, Entry, Call
    <2>4. used' \subseteq [tool : Tool, granted : BOOLEAN]
        BY <1>5 DEF Execute, RunCustom, RunInvocation, RunModel, ModelUses
    <2> QED
        BY <1>5, <2>1, <2>2, <2>3, <2>4 DEF Execute, request, Role
<1>6. CASE Review
    BY <1>6 DEF Review, ShippedReview, Proceed, request, Stage, Role
<1>7. CASE Evaluate
    BY <1>7 DEF Evaluate, End, Proceed, request, produced, Stage
<1>8. CASE Comply
    BY <1>8 DEF Comply, Blocks, End, request, Stage, Role
<1>9. CASE Raise
    <2>1. used' \subseteq [tool : Tool, granted : BOOLEAN]
        BY <1>9 DEF Raise, ModelUses
    <2> QED
        BY <1>9, <2>1 DEF Raise, End, request, produced, Stage
<1>10. CASE UNCHANGED vars
    BY <1>10 DEF vars, request, produced
<1> QED
    BY <1>1, <1>2, <1>3, <1>4, <1>5, <1>6, <1>7, <1>8, <1>9, <1>10 DEF Next

-----------------------------------------------------------------------------
(* The invariant is kept.                                                  *)

\* A step keeps CourseInv, stage by stage: every stage of _run_core relies on
\* what the ones before it have established in the same execution.
LEMMA StepKeepsCourse == ASSUME WorkflowInv, [Next]_vars PROVE CourseInv'
<1> USE DEF WorkflowInv, CourseInv, BehindGate
<1> DEFINE Sound == ArtifactsComplete /\ ResponsePresent /\ ReviewerPassed
                    /\ EvidenceWhenRequired /\ ToolApprovalRespected /\ ToolCorrelationValid
<1>1. ASSUME NEW approval \in BOOLEAN, Begin(approval) PROVE CourseInv'
    BY <1>1 DEF Begin
<1>2. CASE Plan
    BY <1>2 DEF Plan, Blocks, End, Proceed, request, ShippedPlan, PlansApproval, Risk
<1>3. CASE Approval
    BY <1>3 DEF Approval, Approved, End, Proceed, request, produced, ShippedPlan,
                PlansApproval, Risk
<1>4. CASE Research
    BY <1>4 DEF Research, Blocks, End, Proceed, request, ShippedPlan, PlansApproval, Risk
<1>5. CASE Execute
    <2>1. answer' # "none"
        BY <1>5 DEF Execute, RunCustom, RunInvocation, RunModel, Text
    <2>2. \/ stage' = "reviewer" /\ status' = status
          \/ stage' = "idle" /\ status' = "blocked"
        BY <1>5 DEF Execute, RunCustom, RunInvocation, RunModel, Blocks, End, Proceed
    <2>3. UNCHANGED <<request, granted, plan>> /\ stage = "execution"
        BY <1>5 DEF Execute
    <2> QED
        BY <2>1, <2>2, <2>3 DEF request, ShippedPlan, PlansApproval, Risk
<1>6. CASE Review
    BY <1>6 DEF Review, Proceed, request, ShippedPlan, PlansApproval, Risk
<1>7. CASE Evaluate
    <2>1. UNCHANGED <<request, granted, produced>> /\ stage = "evaluation"
        BY <1>7 DEF Evaluate
    <2>2. EvaluationPasses' <=> EvaluationPasses
        BY <2>1 DEF produced, EvaluationPasses, ArtifactsComplete, ResponsePresent,
                    ReviewerPassed, EvidenceWhenRequired, ToolApprovalRespected,
                    ToolCorrelationValid
    <2>3. \/ stage' = "compliance" /\ status' = status /\ EvaluationPasses
          \/ stage' = "idle" /\ status' = "rejected"
        BY <1>7 DEF Evaluate, End, Proceed
    <2> QED
        BY <2>1, <2>2, <2>3 DEF request, produced, ShippedPlan, PlansApproval, Risk
<1>8. CASE Comply
    BY <1>8 DEF Comply, Blocks, End, request, ShippedPlan, PlansApproval, Risk
<1>9. CASE Raise
    BY <1>9 DEF Raise, End
<1>10. CASE UNCHANGED vars
    <2>1. EvaluationPasses' <=> EvaluationPasses
        BY <1>10 DEF vars, produced, EvaluationPasses, ArtifactsComplete, ResponsePresent,
                     ReviewerPassed, EvidenceWhenRequired, ToolApprovalRespected,
                     ToolCorrelationValid
    <2> QED
        BY <1>10, <2>1 DEF vars, request, produced, ShippedPlan, PlansApproval, Risk
<1> QED
    BY <1>1, <1>2, <1>3, <1>4, <1>5, <1>6, <1>7, <1>8, <1>9, <1>10 DEF Next

\* What a step adds to the tools that were called was called behind the gate,
\* under the approval of this execution, and allowed by it: the calls of
\* _try_tool, of the loop with the provider, and those that raised.
LEMMA NewUses ==
    ASSUME TypeOK, [Next]_vars, NEW u \in used', u \notin used
    PROVE  /\ stage = "execution" /\ "execution" \notin custom
           /\ u.granted = granted
           /\ u.tool \in Guarded => granted
<1>1. CASE Execute
    <2>1. stage = "execution" /\ "execution" \notin custom
        BY <1>1 DEF Execute, RunCustom
    <2>2. CASE RunInvocation
        BY <1>1, <2>1, <2>2 DEF RunInvocation, Allowed, Approved
    <2>3. CASE RunModel
        BY <1>1, <2>1, <2>3 DEF RunModel, ModelUses, Allowed, Approved
    <2> QED
        BY <1>1, <2>1, <2>2, <2>3 DEF Execute
<1>2. CASE Raise
    BY <1>2 DEF Raise, ModelUses, Allowed, Approved
<1>3. CASE ~Execute /\ ~Raise
    BY <1>3 DEF Next, vars, Begin, Plan, Approval, Research, Review, Evaluate, Comply
<1> QED
    BY <1>1, <1>2, <1>3

\* A step calls no guarded tool without the approval of its own execution.
LEMMA StepKeepsGrants ==
    ASSUME WorkflowInv, [Next]_vars PROVE GuardedToolsWereGranted'
BY NewUses DEF WorkflowInv, GuardedToolsWereGranted

\* A step calls no tool for a dangerous text, and completes none, without the
\* approval of its own execution: the gate behind the planner in _run_core.
LEMMA StepKeepsDangerOut ==
    ASSUME WorkflowInv, [Next]_vars PROVE DangerIsApproved'
<1> SUFFICES ASSUME Dangerous', "planner" \notin custom'
             PROVE  /\ \A u \in used' : u.granted
                    /\ status' = "completed" => granted'
    BY DEF DangerIsApproved
<1>1. Dangerous /\ "planner" \notin custom
    BY DEF Next, vars, request, Begin, Plan, Approval, Research, Execute, Review,
           Evaluate, Comply, Raise, Dangerous
<1>2. stage \in BehindGate \/ status = "completed" => granted
    BY <1>1, DangerIsPlanned DEF WorkflowInv, CourseInv
<1>3. \A u \in used' : u.granted
    BY <1>1, <1>2, NewUses DEF WorkflowInv, DangerIsApproved, BehindGate
<1>4. ASSUME status' = "completed" PROVE granted'
    <2>1. \/ stage = "compliance" /\ UNCHANGED granted
          \/ status = "completed" /\ UNCHANGED granted
        BY <1>4 DEF Next, vars, Begin, Plan, Approval, Research, Execute, Review, Evaluate,
                    Comply, Raise, RunCustom, RunInvocation, RunModel, Blocks, End, Proceed
    <2> QED
        BY <1>2, <2>1 DEF BehindGate
<1> QED
    BY <1>3, <1>4

\* A step that completes a request has an answer that passed the evaluation
\* and the rules in force: ComplianceAgent.run behind ReleaseGateEvaluator.
LEMMA StepKeepsChecks ==
    ASSUME WorkflowInv, [Next]_vars PROVE CompletedWasChecked'
<1> SUFFICES ASSUME status' = "completed" PROVE CompletedWasChecked'
    BY DEF CompletedWasChecked
<1>1. CASE Comply
    <2>1. /\ EvaluationPasses /\ answer \in Text /\ answer # "none"
          /\ UNCHANGED <<custom, traits, plan, found, answer, entries, passed>>
        BY <1>1 DEF Comply, WorkflowInv, TypeOK, CourseInv, request
    <2>2. answer \in {"plain", "leaking"}
        BY <2>1 DEF EvaluationPasses, ResponsePresent, Text
    <2>3. /\ passed
          /\ {e \in entries : e.name \in Guarded /\ ~e.approved} = {}
          /\ "evidence" \in plan => found
        BY <2>1 DEF EvaluationPasses, ReviewerPassed, ToolApprovalRespected,
                    EvidenceWhenRequired
    <2>4. ASSUME "compliance" \notin custom, NamedRules = {}, ComplianceEnabled
          PROVE  answer # "leaking" /\ "prohibited" \notin traits
        BY <1>1, <2>4 DEF Comply, Blocks, End, PolicyFails, ActiveRules, DefaultRules
    <2> QED
        BY <2>1, <2>2, <2>3, <2>4 DEF CompletedWasChecked
<1>2. CASE ~Comply
    <2>1. UNCHANGED vars
        BY <1>2 DEF Next, WorkflowInv, CourseInv, Begin, Plan, Approval, Research, Execute,
                    Review, Evaluate, Raise, RunCustom, RunInvocation, RunModel, Blocks,
                    End, Proceed
    <2> QED
        BY <2>1 DEF vars, request, produced, WorkflowInv, CompletedWasChecked
<1> QED
    BY <1>1, <1>2

\* A step keeps WorkflowInv.
LEMMA StepKeepsWorkflow == WorkflowInv /\ [Next]_vars => WorkflowInv'
<1> SUFFICES ASSUME WorkflowInv, [Next]_vars PROVE WorkflowInv'
    OBVIOUS
<1>1. TypeOK'
    BY StepKeepsTypes DEF WorkflowInv
<1> QED
    BY <1>1, StepKeepsCourse, StepKeepsGrants, StepKeepsDangerOut, StepKeepsChecks
       DEF WorkflowInv

\* The invariant of every execution of the request.
THEOREM WorkflowInvariant == Spec => []WorkflowInv
<1> QED
    BY WorkflowStarts, StepKeepsWorkflow, PTL DEF Spec

\* The variables of the workflow keep their types.
THEOREM WorkflowTypes == Spec => []TypeOK
<1>1. WorkflowInv => TypeOK
    BY DEF WorkflowInv
<1> QED
    BY <1>1, WorkflowInvariant, PTL

\* A guarded tool is only called in an execution that was itself approved
\* (requires_explicit_approval, at the gate, in _try_tool and in the loop).
THEOREM GuardedToolsGranted == Spec => []GuardedToolsWereGranted
<1>1. WorkflowInv => GuardedToolsWereGranted
    BY DEF WorkflowInv
<1> QED
    BY <1>1, WorkflowInvariant, PTL

\* Nothing is done and nothing answered for a dangerous text without the
\* approval of that execution, whatever else the text looks like.
THEOREM DangerApproved == Spec => []DangerIsApproved
<1>1. WorkflowInv => DangerIsApproved
    BY DEF WorkflowInv
<1> QED
    BY <1>1, WorkflowInvariant, PTL

\* A completed answer passed the review, the evaluation and the rules.
THEOREM CompletedChecked == Spec => []CompletedWasChecked
<1>1. WorkflowInv => CompletedWasChecked
    BY DEF WorkflowInv
<1> QED
    BY <1>1, WorkflowInvariant, PTL

-----------------------------------------------------------------------------
(* The refinement of Governance.                                           *)

\* The order of the gates that the refinement mapping gives.
LEMMA GateOrder ==
    /\ Gate = {"approval", "review", "evaluation", "compliance"}
    /\ Rank["approval"] = 1 /\ Rank["review"] = 2
    /\ Rank["evaluation"] = 3 /\ Rank["compliance"] = 4
BY DEF Gate, Rank

\* The initial states map to initial states.
LEMMA GovernanceStarts == Init => Promise!Init
BY DEF Init, Promise!Init, Cleared, Gate, BehindGate

\* The gates that count as passed, stage by stage, of a running request: what
\* each of them asks for is there by CourseInv.
LEMMA ClearedByStage ==
    ASSUME CourseInv, status # "completed"
    PROVE  /\ stage \in {"idle", "planner", "approval", "compliance"} =>
                 Cleared = IF stage = "compliance"
                           THEN {"approval", "review", "evaluation"} ELSE {}
           /\ stage \in {"research", "execution", "reviewer"} => Cleared = {"approval"}
           /\ stage = "evaluation" =>
                 Cleared = IF passed THEN {"approval", "review"} ELSE {"approval"}
<1>1. stage = "compliance" => EvaluationPasses /\ passed
    BY DEF CourseInv, EvaluationPasses, ReviewerPassed
<1>2. stage \in BehindGate => ("approval" \in plan => granted)
    BY DEF CourseInv
<1> QED
    BY <1>1, <1>2 DEF Cleared, Gate, BehindGate

\* The same in the next state.
LEMMA ClearedByStageNext ==
    ASSUME CourseInv', status' # "completed"
    PROVE  /\ stage' \in {"idle", "planner", "approval", "compliance"} =>
                 Cleared' = IF stage' = "compliance"
                            THEN {"approval", "review", "evaluation"} ELSE {}
           /\ stage' \in {"research", "execution", "reviewer"} => Cleared' = {"approval"}
           /\ stage' = "evaluation" =>
                 Cleared' = IF passed' THEN {"approval", "review"} ELSE {"approval"}
<1>1. stage' = "compliance" => EvaluationPasses' /\ passed'
    BY DEF CourseInv, EvaluationPasses, ReviewerPassed
<1>2. stage' \in BehindGate => ("approval" \in plan' => granted')
    BY DEF CourseInv
<1> QED
    BY <1>1, <1>2 DEF Cleared, Gate, BehindGate

\* Every step is a step of Governance or leaves what it sees alone.
LEMMA StepImplementsGovernance ==
    ASSUME WorkflowInv, [Next]_vars
    PROVE  [Promise!Next]_<<status, Cleared, used>>
<1>0. /\ TypeOK /\ CourseInv /\ CourseInv'
      /\ stage # "idle" <=> status = "running"
    BY StepKeepsCourse DEF WorkflowInv, CourseInv
<1>1. ASSUME NEW approval \in BOOLEAN, Begin(approval) PROVE Promise!Begin
    <2>1. status' = "running" /\ stage' = "planner" /\ UNCHANGED used
        BY <1>1 DEF Begin
    <2>2. status \in {"accepted", "blocked", "rejected", "failed"}
        BY <1>1 DEF Begin
    <2> QED
        BY <2>1, <2>2, <1>0, ClearedByStageNext DEF Promise!Begin, Promise!Stopped
<1>2. ASSUME stage # "idle", stage' = "idle", status' \in {"blocked", "rejected", "failed"},
             used \subseteq used', used' # used => stage = "execution"
      PROVE  Promise!Stop
    BY <1>2, <1>0, ClearedByStage, ClearedByStageNext DEF Promise!Stop, Promise!Stopped
<1>3. ASSUME stage # "idle", status' = status, UNCHANGED <<used, Cleared>>
      PROVE  UNCHANGED <<status, Cleared, used>>
    BY <1>3
<1>4. ASSUME NEW g \in Gate, status = "running", status' = "running", UNCHANGED used,
             g \notin Cleared, Cleared' = Cleared \cup {g},
             \A h \in Gate : Rank[h] < Rank[g] => h \in Cleared
      PROVE  Promise!Next
    BY <1>4 DEF Promise!Next, Promise!Clear
<1>5. CASE Plan
    <2>1. CASE Blocks
        BY <1>2, <1>5, <2>1 DEF Plan, Blocks, End, Promise!Next
    <2>2. CASE Proceed("approval")
        BY <1>3, <1>5, <2>2, <1>0, ClearedByStage, ClearedByStageNext DEF Plan, Proceed
    <2> QED
        BY <1>5, <2>1, <2>2 DEF Plan
<1>6. CASE Approval
    <2>1. CASE End("blocked")
        BY <1>2, <1>6, <2>1 DEF Approval, End, Promise!Next
    <2>2. CASE Proceed("research")
        <3>1. Cleared = {} /\ Cleared' = {"approval"}
            BY <1>6, <2>2, <1>0, ClearedByStage, ClearedByStageNext DEF Approval, Proceed
        <3> QED
            BY <1>0, <1>4, <1>6, <2>2, <3>1, GateOrder DEF Approval, Proceed
    <2> QED
        BY <1>6, <2>1, <2>2 DEF Approval
<1>7. CASE Research
    <2>1. CASE Blocks
        BY <1>2, <1>7, <2>1 DEF Research, Blocks, End, Promise!Next
    <2>2. CASE Proceed("execution")
        BY <1>3, <1>7, <2>2, <1>0, ClearedByStage, ClearedByStageNext DEF Research, Proceed
    <2> QED
        BY <1>7, <2>1, <2>2 DEF Research
<1>8. CASE Execute
    <2>1. stage = "execution" /\ used \subseteq used'
        BY <1>8 DEF Execute, RunCustom, RunInvocation, RunModel, ModelUses
    <2>2. CASE Blocks
        BY <1>2, <2>1, <2>2 DEF Blocks, End, Promise!Next
    <2>3. CASE Proceed("reviewer")
        <3>1. Cleared = {"approval"} /\ Cleared' = {"approval"} /\ status = "running"
            BY <2>1, <2>3, <1>0, ClearedByStage, ClearedByStageNext DEF Proceed
        <3> QED
            BY <2>1, <2>3, <3>1 DEF Proceed, Promise!Next, Promise!Act
    <2> QED
        BY <1>8, <2>2, <2>3 DEF Execute, RunCustom, RunInvocation, RunModel
<1>9. CASE Review
    <2>1. /\ stage = "reviewer" /\ stage' = "evaluation" /\ status = "running"
          /\ UNCHANGED <<status, used>> /\ Cleared = {"approval"}
        BY <1>9, <1>0, ClearedByStage DEF Review, Proceed
    <2>2. CASE passed'
        <3>1. Cleared' = Cleared \cup {"review"}
            BY <2>1, <2>2, <1>0, ClearedByStageNext
        <3> QED
            BY <1>4, <2>1, <3>1, GateOrder
    <2>3. CASE ~passed'
        BY <1>3, <2>1, <2>3, <1>0, ClearedByStageNext
    <2> QED
        BY <2>2, <2>3
<1>10. CASE Evaluate
    <2>1. CASE Proceed("compliance")
        <3>1. passed /\ stage = "evaluation"
            BY <1>10, <2>1 DEF Evaluate, EvaluationPasses, ReviewerPassed, Proceed, End
        <3>2. Cleared = {"approval", "review"} /\ Cleared' = Cleared \cup {"evaluation"}
            BY <2>1, <3>1, <1>0, ClearedByStage, ClearedByStageNext DEF Proceed
        <3> QED
            BY <1>0, <1>4, <1>10, <2>1, <3>1, <3>2, GateOrder DEF Evaluate, Proceed
    <2>2. CASE End("rejected")
        BY <1>2, <1>10, <2>2 DEF Evaluate, End, Promise!Next
    <2> QED
        BY <1>10, <2>1, <2>2 DEF Evaluate
<1>11. CASE Comply
    <2>1. CASE Blocks
        BY <1>2, <1>11, <2>1 DEF Comply, Blocks, End, Promise!Next
    <2>2. CASE End("completed")
        <3>1. Cleared = Gate \ {"compliance"} /\ Cleared' = Gate
            BY <1>11, <2>2, <1>0, ClearedByStage, GateOrder DEF Comply, End, Cleared
        <3> QED
            BY <1>0, <1>11, <2>2, <3>1, GateOrder DEF Comply, End, Promise!Next, Promise!Release
    <2> QED
        BY <1>11, <2>1, <2>2 DEF Comply
<1>12. CASE Raise
    <2>1. stage # "idle"
        BY <1>0, <1>12, WorkflowAssumption DEF Raise, TypeOK, Role
    <2>2. /\ used' # used => stage = "execution"
          /\ used \subseteq used'
          /\ stage' = "idle" /\ status' = "failed"
        BY <1>12 DEF Raise, ModelUses, End
    <2> QED
        BY <1>2, <2>1, <2>2 DEF Promise!Next
<1>13. CASE UNCHANGED vars
    BY <1>13 DEF vars, produced, Cleared
<1> QED
    BY <1>1, <1>5, <1>6, <1>7, <1>8, <1>9, <1>10, <1>11, <1>12, <1>13
       DEF Next, Promise!Next

\* The workflow implements Governance: the gates are asked in order, tools are
\* used behind the first, and an answer leaves when all have been passed.
THEOREM WorkflowImplements == Spec => ImplementsGovernance
<1> QED
    BY WorkflowInvariant, GovernanceStarts, StepImplementsGovernance, PTL
       DEF Spec, ImplementsGovernance, Promise!Spec
=============================================================================
