-------------------------- MODULE GovernedWorkflow --------------------------
(***************************************************************************)
(* GovernedWorkflow: what one request goes through each time it is         *)
(* executed.  Planning, the approval gate, research, execution, review,    *)
(* evaluation and compliance follow each other, one await apart; a stage   *)
(* that refuses ends the attempt.  A request that ended as blocked,        *)
(* rejected or failed may be executed again, with another answer to the    *)
(* question whether the user approved.                                     *)
(*                                                                         *)
(* The text is what the regular expressions of the classifier and of the   *)
(* compliance rules find in it (traits) and the tool it invokes, if it is  *)
(* written as an invocation (call).  The agents are the shipped ones,      *)
(* except those in custom, which the caller supplied and which are free.   *)
(***************************************************************************)
EXTENDS Naturals, FiniteSets

CONSTANTS
    Tool,                   \* the registered tools
    Guarded,                \* those with requires_explicit_approval
    Customs,                \* the sets of agents a caller may replace
    NamedRules,             \* the rules COMPLIANCE_RULES names
    ComplianceEnabled,      \* COMPLIANCE_ENABLED
    MaxTurns                \* bound on the executions of the request

\* Patterns: CRITICAL_PATTERNS, _HIGH_PATTERNS, DANGEROUS_DESTINATION_PATTERNS,
\* _CODE_GEN_INTENT, MEDIUM_KEYWORDS and the prohibited commands.
Trait == {"critical", "high", "system path", "code", "medium", "prohibited"}
Role == {"planner", "research", "execution", "reviewer", "compliance"}

\* How a text can be written: prose, a broken invocation, a tool nobody
\* registered, a tool.
Call == {"prose", "malformed", "unknown"} \cup Tool

ASSUME WorkflowAssumption ==
    /\ Guarded \subseteq Tool
    /\ Tool \cap {"prose", "malformed", "unknown"} = {}
    /\ Customs \subseteq SUBSET Role
    /\ ComplianceEnabled \in BOOLEAN
    /\ MaxTurns \in Nat

Stage == {"idle", "planner", "approval", "research", "execution", "reviewer",
          "evaluation", "compliance"}
Text == {"none", "plain", "leaking", "blank"}
Entry == [name : Tool \cup {"unnamed", "unknown"}, approved : BOOLEAN]

VARIABLES
    traits, call, custom,   \* the request; they never change
    turns,                  \* executions so far
    granted,                \* context["approval_granted"] of this execution
    stage,
    artifacts,              \* the roles whose artifacts are in the list
    plan,                   \* what the plan requires: approval, evidence
    found,                  \* research.evidence_ids is not empty
    answer,                 \* execution.content
    entries,                \* the tools the execution artifact reports
    passed,                 \* review.blocked is false
    status,                 \* the status the service writes from the result
    used                    \* history: [tool, granted] of every handler called

request == <<traits, call, custom>>
produced == <<artifacts, plan, found, answer, entries, passed>>
vars == <<request, turns, granted, stage, produced, status, used>>

TypeOK ==
    /\ traits \subseteq Trait
    /\ call \in Call
    /\ custom \in Customs
    /\ turns \in 0 .. MaxTurns
    /\ granted \in BOOLEAN
    /\ stage \in Stage
    /\ artifacts \subseteq Role
    /\ plan \subseteq {"approval", "evidence"}
    /\ found \in BOOLEAN
    /\ answer \in Text
    /\ entries \subseteq Entry
    /\ passed \in BOOLEAN
    /\ status \in {"accepted", "running", "completed", "blocked", "rejected", "failed"}
    /\ used \subseteq [tool : Tool, granted : BOOLEAN]

Init ==
    /\ traits \in SUBSET Trait
    /\ call \in Call
    /\ custom \in Customs
    /\ turns = 0
    /\ granted = FALSE
    /\ stage = "idle"
    /\ artifacts = {}
    /\ plan = {}
    /\ found = FALSE
    /\ answer = "none"
    /\ entries = {}
    /\ passed = FALSE
    /\ status = "accepted"
    /\ used = {}

-----------------------------------------------------------------------------
(* Risk and approval.                                                      *)

\* A classifier that lets an intent to write code excuse any destination.
CodeExcuses ==
    IF "critical" \in traits THEN "CRITICAL"
    ELSE IF "high" \in traits /\ "code" \notin traits THEN "HIGH"
    ELSE IF traits \cap {"medium", "code"} # {} THEN "MEDIUM"
    ELSE "LOW"

\* classify_risk: only a destination keeps a high pattern high for code.
Risk ==
    IF "critical" \in traits THEN "CRITICAL"
    ELSE IF "high" \in traits /\ ("system path" \in traits \/ "code" \notin traits)
         THEN "HIGH"
    ELSE IF traits \cap {"medium", "code"} # {} THEN "MEDIUM"
    ELSE "LOW"

\* An approval given for one execution that is remembered for the next.
EverApproved == granted \/ \E u \in used : u.granted

\* context.get("approval_granted") is True
Approved == granted

\* A tool may be called: requires_explicit_approval and not approved.
Allowed(t) == t \in Guarded => Approved

-----------------------------------------------------------------------------
(* The course of an execution.                                             *)

\* RequestService.execute takes the request and starts a new workflow.
Begin(approval) ==
    /\ stage = "idle"
    /\ status \in {"accepted", "blocked", "rejected", "failed"}
    /\ turns < MaxTurns
    /\ turns' = turns + 1
    /\ granted' = approval
    /\ stage' = "planner"
    /\ status' = "running"
    /\ artifacts' = {}
    /\ plan' = {}
    /\ found' = FALSE
    /\ answer' = "none"
    /\ entries' = {}
    /\ passed' = FALSE
    /\ UNCHANGED <<request, used>>

\* The result of the workflow, and what the service makes of it.
End(result) ==
    /\ stage' = "idle"
    /\ status' = result

Proceed(to) ==
    /\ stage' = to
    /\ UNCHANGED status

\* An agent's artifact is appended; a blocked one ends the execution.
Blocks == End("blocked")

\* The tools the model calls and is allowed to, none included.
ModelUses ==
    \E wanted \in SUBSET Tool :
        used' = used \cup {[tool |-> t, granted |-> granted] :
                           t \in {w \in wanted : Allowed(w)}}

\* An exception reaches RequestService.execute.  Three can: of an agent the
\* caller supplied, or of AgentInput, which is built before the planner and
\* refuses a text or a correlation identifier that is too long; of the tool
\* an invocation names; and of ConversationTurn, which the loop with the
\* model builds of the history, of directives, results and answers, and
\* which refuses what is empty or too long, tools having been used or not.
Raise ==
    /\ \/ stage \in custom \cup {"planner"} /\ UNCHANGED used
       \/ /\ stage = "execution" /\ stage \notin custom
          /\ call \in Tool /\ Allowed(call)
          /\ used' = used \cup {[tool |-> call, granted |-> granted]}
       \/ /\ stage = "execution" /\ stage \notin custom
          /\ call = "prose"
          /\ ModelUses
    /\ End("failed")
    /\ UNCHANGED <<request, turns, granted, produced>>

-----------------------------------------------------------------------------
(* The stages.                                                             *)

\* What PlannerAgent asks for.
PlansApproval == Risk \in {"HIGH", "CRITICAL"} \/ call \in Guarded

\* Its plan is one step, which never asks for evidence.
ShippedPlan == IF PlansApproval THEN {"approval"} ELSE {}

Plan ==
    /\ stage = "planner"
    /\ artifacts' = artifacts \cup {"planner"}
    /\ IF "planner" \in custom
       THEN /\ plan' \in SUBSET {"approval", "evidence"}
            /\ Blocks \/ Proceed("approval")
       ELSE /\ plan' = ShippedPlan
            /\ Proceed("approval")
    /\ UNCHANGED <<request, turns, granted, found, answer, entries, passed, used>>

\* A workflow that leaves the question to the tools.
Ungated ==
    /\ stage = "approval"
    /\ Proceed("research")
    /\ UNCHANGED <<request, turns, granted, produced, used>>

\* The gate behind the planner: the only one before anything is done.
Approval ==
    /\ stage = "approval"
    /\ IF "approval" \in plan /\ ~Approved THEN End("blocked") ELSE Proceed("research")
    /\ UNCHANGED <<request, turns, granted, produced, used>>

\* ResearchAgent: a retriever that fails counts as one that found nothing,
\* and notes of the memory are no evidence.
ShippedResearch == BOOLEAN

Research ==
    /\ stage = "research"
    /\ artifacts' = artifacts \cup {"research"}
    /\ found' \in IF "research" \in custom THEN BOOLEAN ELSE ShippedResearch
    /\ Proceed("execution") \/ ("research" \in custom /\ Blocks)
    /\ UNCHANGED <<request, turns, granted, plan, answer, entries, passed, used>>

\* ExecutionAgent._try_tool: the text is an invocation.
RunInvocation ==
    /\ call # "prose"
    /\ entries' = {[name |-> CASE call = "malformed" -> "unnamed" [] OTHER -> call,
                    approved |-> granted]}
    /\ IF call \in Tool /\ ~Allowed(call)
       THEN Blocks /\ answer' = "plain" /\ UNCHANGED used
       ELSE /\ Proceed("reviewer")
            /\ answer' \in IF call \in Tool THEN {"plain", "leaking"} ELSE {"plain"}
            \* rejected arguments leave the handler uncalled
            /\ used' \in IF call \in Tool
                         THEN {used, used \cup {[tool |-> call, granted |-> granted]}}
                         ELSE {used}

\* ExecutionAgent._run_with_provider: the model calls tools until it is
\* satisfied or asks for one that needs an approval.  Its artifact does not
\* name the tools, and a request for approval is an answer like any other.
RunModel ==
    /\ call = "prose"
    /\ ModelUses
    /\ answer' \in {"plain", "leaking"}
    /\ entries' = {}
    /\ Proceed("reviewer")

RunCustom ==
    /\ answer' \in Text \ {"none"}
    /\ \E t \in Tool, b \in BOOLEAN : entries' \in {{}, {[name |-> t, approved |-> b]}}
    /\ Proceed("reviewer") \/ Blocks
    /\ UNCHANGED used

Execute ==
    /\ stage = "execution"
    /\ artifacts' = artifacts \cup {"execution"}
    /\ IF "execution" \in custom THEN RunCustom ELSE RunInvocation \/ RunModel
    /\ UNCHANGED <<request, turns, granted, plan, found, passed>>

\* ReviewerAgent: only an empty output is refused.
ShippedReview == answer # "blank"

\* The engine does not look at a refusal; the evaluation does.
Review ==
    /\ stage = "reviewer"
    /\ artifacts' = artifacts \cup {"reviewer"}
    /\ IF "reviewer" \in custom THEN passed' \in BOOLEAN ELSE passed' = ShippedReview
    /\ Proceed("evaluation")
    /\ UNCHANGED <<request, turns, granted, plan, found, answer, entries, used>>

-----------------------------------------------------------------------------
(* ReleaseGateEvaluator and ComplianceAgent.                               *)

ArtifactsComplete == {"planner", "research", "execution", "reviewer"} \subseteq artifacts
ResponsePresent == answer # "blank"
ReviewerPassed == passed
EvidenceWhenRequired == "evidence" \in plan => found
ToolApprovalRespected ==
    \A e \in entries : e.name \in Guarded => e.approved
\* The attribution of an entry is the request's own; a name may be missing.
ToolCorrelationValid == \A e \in entries : e.name # "unnamed"

EvaluationPasses ==
    /\ ArtifactsComplete
    /\ ResponsePresent
    /\ ReviewerPassed
    /\ EvidenceWhenRequired
    /\ ToolApprovalRespected
    /\ ToolCorrelationValid

Evaluate ==
    /\ stage = "evaluation"
    /\ IF EvaluationPasses THEN Proceed("compliance") ELSE End("rejected")
    /\ UNCHANGED <<request, turns, granted, produced, used>>

DefaultRules == {"prohibited_commands", "credential_leakage"}

\* _active_rules and select_rules: no names means all, unknown names nothing.
ActiveRules ==
    IF ~ComplianceEnabled THEN {}
    ELSE IF NamedRules = {} THEN DefaultRules
    ELSE DefaultRules \cap NamedRules

\* A policy that looks for prohibited commands only.
CommandsOnly == "prohibited_commands" \in ActiveRules /\ "prohibited" \in traits

\* evaluate_policy: the first failing rule, the one on the input first.
PolicyFails ==
    \/ "prohibited_commands" \in ActiveRules /\ "prohibited" \in traits
    \/ "credential_leakage" \in ActiveRules /\ answer = "leaking"

Comply ==
    /\ stage = "compliance"
    /\ artifacts' = artifacts \cup {"compliance"}
    /\ IF "compliance" \in custom
       THEN Blocks \/ End("completed")
       ELSE IF answer = "blank" \/ PolicyFails THEN Blocks ELSE End("completed")
    /\ UNCHANGED <<request, turns, granted, plan, found, answer, entries, passed, used>>

Next ==
    \/ \E approval \in BOOLEAN : Begin(approval)
    \/ Plan
    \/ Approval
    \/ Research
    \/ Execute
    \/ Review
    \/ Evaluate
    \/ Comply
    \/ Raise

Spec == Init /\ [][Next]_vars

-----------------------------------------------------------------------------
(* Properties.                                                             *)

\* A tool that needs an approval is only ever called in an execution that
\* was itself approved: not because of an approval of an earlier execution,
\* and however the tool was asked for (by the text or by the model).
GuardedToolsWereGranted ==
    \A u \in used : u.tool \in Guarded => u.granted

Dangerous == "critical" \in traits \/ {"high", "system path"} \subseteq traits

\* A text that is critical, or that does something dangerous to a system
\* path, has no tool called for it and gets no answer unless the user
\* approved that execution, even when it looks like a wish for source code.
DangerIsApproved ==
    Dangerous /\ "planner" \notin custom =>
        /\ \A u \in used : u.granted
        /\ status = "completed" => granted

\* A completed answer is not empty and leaks no credentials (under the
\* shipped rules), was not refused by the reviewer of that same execution,
\* and no guarded tool is reported with it that was not approved.
CompletedWasChecked ==
    status = "completed" =>
        /\ answer \in {"plain", "leaking"}
        /\ passed
        /\ {e \in entries : e.name \in Guarded /\ ~e.approved} = {}
        /\ "evidence" \in plan => found
        /\ "compliance" \notin custom /\ NamedRules = {} /\ ComplianceEnabled =>
               answer = "plain" /\ "prohibited" \notin traits

Gate == {"approval", "review", "evaluation", "compliance"}
Rank == [g \in Gate |-> CASE g = "approval" -> 1 [] g = "review" -> 2
                          [] g = "evaluation" -> 3 [] g = "compliance" -> 4]

BehindGate == {"research", "execution", "reviewer", "evaluation", "compliance"}

\* A gate counts as passed if the stages have come to it and what it asks for
\* is there: the approval the plan requires, the verdict of the review, all
\* that the evaluation looks at.
Cleared ==
    IF status = "completed" THEN Gate
    ELSE {g \in Gate :
            CASE g = "approval" -> stage \in BehindGate /\ ("approval" \in plan => granted)
              [] g = "review" -> stage \in {"evaluation", "compliance"} /\ passed
              [] g = "evaluation" -> stage = "compliance" /\ EvaluationPasses
              [] g = "compliance" -> FALSE}

Promise == INSTANCE Governance WITH
    Gate <- Gate, Rank <- Rank, Door <- "approval",
    outcome <- status, cleared <- Cleared, effects <- used

\* The workflow is an implementation of Governance: the gates are asked in
\* order, each execution starts with none passed, tools are used behind the
\* approval gate only, and an answer leaves when all have been passed.
ImplementsGovernance == Promise!Spec

-----------------------------------------------------------------------------
(* The inductive invariant behind these properties.                        *)

\* What an execution has established by the stage it is at: behind the gate
\* an approval that the plan asks for was given, and the plan is the
\* planner's own; behind the evaluation everything it looks at still holds.
CourseInv ==
    /\ stage # "idle" <=> status = "running"
    /\ stage \in BehindGate \/ status = "completed" => ("approval" \in plan => granted)
    /\ stage \in BehindGate \cup {"approval"} \/ status = "completed" =>
          ("planner" \notin custom => plan = ShippedPlan)
    /\ stage \in {"reviewer", "evaluation", "compliance"} => answer # "none"
    /\ stage = "compliance" => EvaluationPasses

WorkflowInv ==
    /\ TypeOK
    /\ CourseInv
    /\ GuardedToolsWereGranted
    /\ DangerIsApproved
    /\ CompletedWasChecked
=============================================================================
