------------------------------ MODULE AgentLoop ------------------------------
(***************************************************************************)
(* The loop of ExecutionAgent._run_with_provider for one request: the      *)
(* model proposes, the loop decides what to execute, what to refuse and    *)
(* when to stop, and says at the end whether the task was completed.       *)
(* Everything it decides with is local to the request.  The model is       *)
(* free: each round it may fail, talk, or propose any sequence of calls,   *)
(* old or new, and so may the tools.                                       *)
(*                                                                         *)
(* An output is proposed one call after the other, as the loop over it     *)
(* counts them.  Of the states of the task machine the four that matter to *)
(* the loop are kept: terminal ones are sticky, the others are "open".     *)
(***************************************************************************)
EXTENDS Naturals, Sequences, FiniteSets

CONSTANTS
    Call,                   \* a tool with its normalised arguments
    Tool, ToolOf,           \* [Call -> Tool]
    KindOf,                 \* [Tool -> Kind]
    MaxRounds,              \* MAX_TOOL_ROUNDS, 15
    MaxSameCalls,           \* MAX_SAME_TOOL_CALLS, 2
    MaxSameName,            \* MAX_SAME_TOOL_NAME, 4
    MaxFixCycles,           \* MAX_FIX_CYCLES, 5
    MaxFailures,            \* MAX_CONSECUTIVE_TOOL_FAILURES, 3
    MaxNudges,              \* directives for prose in a mutating task, 3
    MaxBatch                \* bound on the calls of one output

\* What the loop tells apart: modify_file and write_file; the others of
\* MODIFY_TOOLS; execute_command; everything else.  Of the rest, file_delete,
\* file_copy and generate_tests change files, although nothing counts them.
Kind == {"edit", "create", "execute", "uncounted", "other"}
Counted == {"edit", "create", "execute"}

ASSUME AgentAssumption ==
    /\ ToolOf \in [Call -> Tool]
    /\ KindOf \in [Tool -> Kind]
    /\ \A s, t \in Tool : KindOf[s] = "execute" /\ KindOf[t] = "execute" => s = t
    /\ MaxRounds \in Nat
    /\ MaxSameCalls \in Nat
    /\ MaxSameName \in Nat \ {0}
    /\ MaxFixCycles \in Nat \ {0}
    /\ MaxFailures \in Nat \ {0}
    /\ MaxNudges \in Nat \ {0}
    /\ MaxBatch \in Nat \ {0}

VARIABLES
    mutating,               \* task_contract.requires_modification
    pc,
    round,
    batch,                  \* the calls of the output, then those left to execute
    seen,                   \* seen_tool_calls
    named,                  \* tool_name_counts
    executed,               \* executed_calls
    done,                   \* mutation_done
    coached,                \* progress.directives_issued
    directives,             \* metrics.backend_directives
    failures,               \* consecutive_failures
    fixes,                  \* fix_cycle_count
    lastEdit,               \* last_was_modify
    machine,                \* task_machine.state
    answer,                 \* what final_text is
    ran,                    \* history: times each call was handed over for execution
    changed                 \* history: the kinds of tools that did change something

counts == <<seen, named>>
progress == <<executed, done, failures, fixes, lastEdit, ran, changed>>
advice == <<coached, directives>>
vars == <<mutating, pc, round, batch, counts, progress, advice, machine, answer>>

Answers == {"none", "prose", "calls", "stopped", "gathered", "approval", "error",
            "not completed"}

TypeOK ==
    /\ mutating \in BOOLEAN
    /\ pc \in {"asking", "reading", "executing", "concluding", "ended"}
    /\ round \in 0 .. MaxRounds
    /\ pc \in {"reading", "executing"} => round < MaxRounds
    /\ batch \in Seq(Call)
    /\ seen \in [Call -> Nat]
    /\ named \in [Tool -> Nat]
    /\ executed \in SUBSET Call
    /\ done \in BOOLEAN
    /\ coached \in 0 .. 1
    /\ directives \in Nat
    /\ failures \in Nat
    /\ fixes \in Nat
    /\ lastEdit \in BOOLEAN
    /\ machine \in {"open", "completed", "failed", "blocked"}
    /\ answer \in Answers
    /\ ran \in [Call -> Nat]
    /\ changed \in SUBSET Kind

Init ==
    /\ mutating \in BOOLEAN
    /\ pc = "asking"
    /\ round = 0
    /\ batch = <<>>
    /\ seen = [c \in Call |-> 0]
    /\ named = [t \in Tool |-> 0]
    /\ executed = {}
    /\ done = FALSE
    /\ coached = 0
    /\ directives = 0
    /\ failures = 0
    /\ fixes = 0
    /\ lastEdit = FALSE
    /\ machine = "open"
    /\ answer = "none"
    /\ ran = [c \in Call |-> 0]
    /\ changed = {}

-----------------------------------------------------------------------------
(* How a round ends.                                                       *)

\* The task still owes a change that no tool has made.
Owing == mutating /\ ~done

\* TaskStateMachine.transition to a terminal state.
Machine(state) == machine' = IF machine = "open" THEN state ELSE machine

NextRound ==
    /\ pc' = "asking"
    /\ round' = round + 1
    /\ batch' = <<>>

\* A break out of the loop.
Break(text) ==
    /\ pc' = "concluding"
    /\ answer' = text
    /\ batch' = <<>>
    /\ UNCHANGED round

\* A return from inside the loop, which skips the conclusion.
ReturnError ==
    /\ pc' = "ended"
    /\ answer' = "error"
    /\ UNCHANGED <<mutating, round, batch, counts, progress, advice>>

-----------------------------------------------------------------------------
(* Asking the model.                                                       *)

Asking == pc = "asking" /\ round < MaxRounds

\* The wall-clock budget is looked at before every round.
OutOfTime ==
    /\ Asking
    /\ Break("stopped")
    /\ Machine("failed")
    /\ UNCHANGED <<mutating, counts, progress, advice>>

\* One of the four expected exceptions, and no fallback.
ProviderFails ==
    /\ Asking
    /\ ReturnError
    /\ \/ Machine("failed")
       \/ UNCHANGED machine     \* manual mode

\* Another exception, or an empty output.
ProviderBreaks ==
    /\ Asking
    /\ ReturnError
    /\ UNCHANGED machine

\* A fallback takes the place of the provider and uses up the round.
FallBack ==
    /\ Asking
    /\ NextRound
    /\ UNCHANGED <<mutating, counts, progress, advice, machine, answer>>

\* An output without tool calls is the answer, unless the task owes a change
\* and has been nudged less than MaxNudges times.
Talk ==
    /\ Asking
    /\ IF Owing /\ directives < MaxNudges
       THEN /\ NextRound
            /\ directives' = directives + 1
            /\ answer' = "prose"
       ELSE /\ Break("prose")
            /\ UNCHANGED directives
    /\ UNCHANGED <<mutating, counts, progress, coached, machine>>

\* The next call of an output.
Propose(c) ==
    /\ Asking \/ pc = "reading"
    /\ Len(batch) < MaxBatch
    /\ pc' = "reading"
    /\ batch' = Append(batch, c)
    /\ seen' = [seen EXCEPT ![c] = @ + 1]
    /\ named' = [named EXCEPT ![ToolOf[c]] = @ + 1]
    /\ answer' = "calls"
    /\ UNCHANGED <<mutating, round, progress, advice, machine>>

-----------------------------------------------------------------------------
(* Admitting an output.                                                    *)

Places == DOMAIN batch
Stalled == \A i \in Places : batch[i] \in executed

Repeated(c) == seen[c] > MaxSameCalls
\* A count that is compared one too late.
OverusedLate(t) == named[t] > MaxSameName
Overused(t) == named[t] >= MaxSameName

\* The first call of the output that is over a limit.
Offends(i) == Repeated(batch[i]) \/ Overused(ToolOf[batch[i]])
FirstOffender(i) == i \in Places /\ Offends(i) /\ \A j \in Places : j < i => ~Offends(j)

\* The one directive of the progress detector.
Coach ==
    /\ NextRound
    /\ coached' = coached + 1
    /\ directives' = directives + 1
    /\ UNCHANGED <<mutating, counts, progress, machine, answer>>

\* _unproductive
StopUnproductive ==
    /\ Break("stopped")
    /\ Machine("failed")
    /\ UNCHANGED <<mutating, counts, progress, advice>>

\* Nothing new in the output while a change is owed: coach once, then stop.
StallOwing ==
    /\ pc = "reading" /\ Stalled /\ Owing
    /\ \/ coached = 0 /\ Coach
       \/ coached # 0 /\ StopUnproductive

\* Nothing new and nothing owed: ask once for the answer, then give it.
StallAnswering ==
    /\ pc = "reading" /\ Stalled /\ ~Owing
    /\ \/ /\ directives = 0
          /\ NextRound
          /\ directives' = 1
          /\ UNCHANGED answer
       \/ /\ directives # 0
          /\ Break("gathered")
          /\ UNCHANGED directives
    /\ UNCHANGED <<mutating, counts, progress, coached, machine>>

\* A repeated directive, whether or not one was given before.
CoachAgain ==
    /\ pc = "reading" /\ ~Stalled
    /\ \E i \in Places : FirstOffender(i) /\ Repeated(batch[i])
    /\ Owing
    /\ Coach

\* The first offender repeats a call: coach once if a change is owed.
StopRepeating ==
    /\ pc = "reading" /\ ~Stalled
    /\ \E i \in Places : FirstOffender(i) /\ Repeated(batch[i])
    /\ \/ Owing /\ coached = 0 /\ Coach
       \/ ~(Owing /\ coached = 0) /\ StopUnproductive

\* The first offender overuses its tool.
StopOverusing ==
    /\ pc = "reading" /\ ~Stalled
    /\ \E i \in Places : FirstOffender(i) /\ ~Repeated(batch[i])
    /\ StopUnproductive

Admit ==
    /\ pc = "reading" /\ ~Stalled
    /\ \A i \in Places : ~Offends(i)
    /\ pc' = "executing"
    /\ UNCHANGED <<mutating, round, batch, counts, progress, advice, machine, answer>>

-----------------------------------------------------------------------------
(* Executing the admitted calls.                                           *)

Executing == pc = "executing" /\ batch # <<>>
Current == Head(batch)
CurrentKind == KindOf[ToolOf[Current]]

\* An earlier round or an earlier item of the batch has executed it.
Skip ==
    /\ Executing
    /\ Current \in executed
    /\ batch' = Tail(batch)
    /\ UNCHANGED <<mutating, pc, round, counts, progress, advice, machine, answer>>

Run(succeeds) ==
    /\ ran' = [ran EXCEPT ![Current] = @ + 1]
    /\ changed' = IF succeeds /\ CurrentKind # "other"
                  THEN changed \cup {CurrentKind} ELSE changed

\* The tool needs an approval that the request does not have.
NeedsApproval ==
    /\ Executing
    /\ Current \notin executed
    /\ Run(FALSE)
    /\ Break("approval")
    /\ UNCHANGED <<mutating, counts, executed, done, failures, fixes, lastEdit,
                   advice, machine>>

\* ProgressDetector.record, on the result as the handler returned it; then
\* the verifier may turn it into an error.
RecordAttempt(errs, passed) == done' = (done \/ CurrentKind \in Counted)
RecordVerified(errs, passed) ==
    done' = (done \/ (~errs /\ passed /\ CurrentKind \in Counted))
Record(errs, passed) ==
    done' = (done \/ (~errs /\ CurrentKind \in Counted))

\* executed_calls: a failed call is not tried again either.
MarkSucceeded(errs) == executed' = IF errs THEN executed ELSE executed \cup {Current}
Mark(errs) == executed' = executed \cup {Current}

\* last_was_modify
NoteEdit == lastEdit' = (CurrentKind = "edit")

\* Consecutive failures, and then fix cycles, can end the loop.
Execute(errs, passed) ==
    LET failed == errs \/ ~passed
        fixed == CurrentKind = "execute" /\ lastEdit
        tooManyFailures == failed /\ failures + 1 >= MaxFailures
        tooManyFixes == fixed /\ fixes + 1 >= MaxFixCycles
    IN
    /\ Executing
    /\ Current \notin executed
    /\ Mark(errs)
    /\ Run(~errs)
    /\ Record(errs, passed)
    /\ failures' = IF failed THEN failures + 1 ELSE 0
    /\ \/ /\ tooManyFailures
          /\ Break("stopped")
          /\ Machine("failed")
          /\ UNCHANGED <<fixes, lastEdit>>
       \/ /\ ~tooManyFailures
          /\ fixes' = IF fixed THEN fixes + 1 ELSE fixes
          /\ NoteEdit
          /\ \/ tooManyFixes /\ Break("stopped")
             \/ /\ ~tooManyFixes
                /\ batch' = Tail(batch)
                /\ UNCHANGED <<pc, round, answer>>
          /\ UNCHANGED machine
    /\ UNCHANGED <<mutating, counts, advice>>

RoundEnds ==
    /\ pc = "executing" /\ batch = <<>>
    /\ NextRound
    /\ UNCHANGED <<mutating, counts, progress, advice, machine, answer>>

-----------------------------------------------------------------------------
(* After the loop.                                                         *)

OutOfRounds ==
    /\ pc = "asking" /\ round = MaxRounds
    /\ pc' = "concluding"
    /\ UNCHANGED <<mutating, round, batch, counts, progress, advice, machine, answer>>

\* Completion requires evidence.
Conclude ==
    /\ pc = "concluding"
    /\ pc' = "ended"
    /\ IF answer = "approval"
       THEN Machine("blocked") /\ UNCHANGED answer
       ELSE IF Owing
       THEN /\ Machine("failed")
            /\ answer' = IF machine = "open" THEN "not completed" ELSE answer
       ELSE Machine("completed") /\ UNCHANGED answer
    /\ UNCHANGED <<mutating, round, batch, counts, progress, advice>>

-----------------------------------------------------------------------------

Next ==
    \/ OutOfTime \/ ProviderFails \/ ProviderBreaks \/ FallBack \/ Talk
    \/ \E c \in Call : Propose(c)
    \/ StallOwing \/ StallAnswering \/ StopRepeating \/ StopOverusing \/ Admit
    \/ Skip \/ NeedsApproval
    \/ \E errs, passed \in BOOLEAN : Execute(errs, passed)
    \/ RoundEnds \/ OutOfRounds \/ Conclude

Spec == Init /\ [][Next]_vars

-----------------------------------------------------------------------------
(* Properties.                                                             *)

\* However often the model proposes a call, in one output or in many, it is
\* handed over for execution at most once.
ExecutedOnce == \A c \in Call : ran[c] <= 1

CallsRun(t) == {c \in Call : ToolOf[c] = t /\ ran[c] > 0}

\* No tool is run MaxSameName times, although proposals that a directive turned
\* away go on counting and the count is only looked at for proposed tools.
ToolUseBounded == \A t \in Tool : Cardinality(CallsRun(t)) < MaxSameName

\* A mutating task ends completed only if some call that changes something
\* returned without an error, whatever the model said and however it ended.
CompletedHasChanged == machine = "completed" /\ mutating => changed # {}

\* mutation_happened() promises "whether any state-changing operation (file or
\* command) succeeded", and an answer is marked as not completed without one.
\* The code does not keep this: a file that was deleted, copied or generated
\* is a change, and the answer is marked all the same.
MarkedIsUnchanged == answer = "not completed" => mutating /\ changed = {}

\* What it does keep: a mark never hides an edit, a created file or a command,
\* not even one that failed its verification afterwards.
MarkHidesNoCounted == answer = "not completed" => mutating /\ changed \cap Counted = {}

\* A request gets at most MaxNudges + 1 directives, from four places with two
\* counters between them.
DirectivesBounded == directives <= MaxNudges + 1

RunOfKind(k) == {c \in Call : KindOf[ToolOf[c]] = k /\ ran[c] > 0}

\* Every fix cycle counted is an edit and a command of its own, so the limit on
\* fix cycles never cuts a task short that has gone through fewer.
FixCyclesArePairs ==
    /\ fixes <= Cardinality(RunOfKind("edit"))
    /\ fixes <= Cardinality(RunOfKind("execute"))

\* As shipped (5 and 4) the limit on fix cycles is never reached: the limit on
\* the use of execute_command ends the loop before it.
FixLimitUnreached == MaxFixCycles >= MaxSameName => fixes < MaxFixCycles

-----------------------------------------------------------------------------
(* The inductive invariant behind these properties.                        *)

InLoop == pc \in {"asking", "reading", "executing"}
InBatch(c) == \E i \in Places : batch[i] = c
CallsSeen(t) == {c \in Call : ToolOf[c] = t /\ seen[c] > 0}
CallsAdmitted(t) ==
    {c \in Call : ToolOf[c] = t /\ (ran[c] > 0 \/ (pc = "executing" /\ InBatch(c)))}

\* The count of a tool covers the different calls seen of it, an output is
\* only admitted under the limit, and admitted calls are all that is run.
UseInv ==
    /\ \A c \in Call : ran[c] > 0 \/ InBatch(c) => seen[c] > 0
    /\ \A c \in Call : ran[c] <= 1
    /\ InLoop => \A c \in Call : ran[c] > 0 <=> c \in executed
    /\ \A t \in Tool :
          /\ IsFiniteSet(CallsSeen(t)) /\ Cardinality(CallsSeen(t)) <= named[t]
          /\ IsFiniteSet(CallsAdmitted(t)) /\ Cardinality(CallsAdmitted(t)) < MaxSameName

\* The loop knows of every change, and concludes from what it knows.
ChangeInv ==
    /\ done <=> changed \cap Counted # {}
    /\ machine = "completed" => pc = "ended" /\ ~Owing
    /\ answer = "not completed" => pc = "ended" /\ Owing

\* An edit that no command has followed yet is not part of a fix cycle.
FixInv ==
    /\ \A k \in Kind : IsFiniteSet(RunOfKind(k))
    /\ fixes <= Cardinality(RunOfKind("edit"))
    /\ lastEdit => fixes < Cardinality(RunOfKind("edit"))
    /\ fixes <= Cardinality(RunOfKind("execute"))

LoopInv == TypeOK /\ UseInv /\ ChangeInv /\ FixInv /\ directives <= MaxNudges + coached
=============================================================================
