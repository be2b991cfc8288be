-------------------------- MODULE RequestLifecycle --------------------------
(***************************************************************************)
(* The life of accepted requests: RequestService.execute, stale recovery   *)
(* (at start-up and on a repeated execute) and the deletion of a session,  *)
(* run by concurrent handlers over one PostgreSQL database at READ         *)
(* COMMITTED.  A handler is an HTTP request being served, or the start-up  *)
(* sweep of a worker; it keeps its program counter and its locals between  *)
(* the awaits at which others can run.  A handler may be interrupted at    *)
(* any of them (worker killed, client gone, an exception outside the try   *)
(* block): its open transaction is rolled back and its locals are lost.    *)
(*                                                                         *)
(* updated_at is kept as an age: the time since it was written, which is   *)
(* only ever compared with stale_running_seconds and so saturates just     *)
(* above it.                                                               *)
(***************************************************************************)
EXTENDS RequestData, Naturals, FiniteSets

CONSTANTS
    Request,                \* request identifiers (uuid4, never reused)
    Session,                \* session identifiers
    SessionOf,              \* [Request -> Session]
    Handler,                \* concurrent handlers
    NoRequest,              \* the target of a handler without one
    StaleAfter,             \* stale_running_seconds, in ticks
    ExecBudget,             \* the longest an execution takes, in ticks
    MaxRemembered,          \* bound on the memory items counted per request
    MaxTakeovers            \* bound on the takeovers counted per request

ASSUME LifecycleAssumption ==
    /\ SessionOf \in [Request -> Session]
    /\ NoRequest \notin Request
    /\ StaleAfter \in Nat
    /\ ExecBudget \in Nat
    /\ MaxRemembered \in Nat
    /\ MaxTakeovers \in Nat \ {0}
    /\ IsFiniteSet(Handler)

VARIABLES
    status,                 \* requests.status
    result,                 \* requests.result
    age,                    \* now - requests.updated_at, of running requests
    remembered,             \* memory items written for the request
    takeovers,              \* history: how often stale recovery has failed it
    outlived,               \* history: an execution was longer than StaleAfter
    pc,                     \* where each handler is
    target,                 \* the request it executes, or the row its statement
                            \* is at
    loaded,                 \* the columns its ORM object was loaded with
    verdict,                \* the columns it is going to write
    elapsed,                \* time since its claim
    victims,                \* rows it has selected and has yet to mark or delete
    locked                  \* rows its open transaction has written

history == <<takeovers, outlived>>
rows == <<status, result, age, history>>
locals == <<target, loaded, verdict, elapsed>>
work == <<victims, locked>>
vars == <<rows, remembered, pc, locals, work>>

NoRow == [status |-> "none", result |-> "none"]

Running == {"claimed", "working", "remembering", "saving"}
Executing(h) == pc[h] \in Running
Unlocked(r) == \A g \in Handler : r \notin locked[g]
Exists(r) == status[r] \notin {"none", "deleted"}

\* Stale recovery has taken the request away from an execution.
takenOver == [r \in Request |-> takeovers[r] > 0]

TypeOK ==
    /\ status \in [Request -> Status]
    /\ result \in [Request -> Result]
    /\ age \in [Request -> 0 .. StaleAfter + 1]
    /\ remembered \in [Request -> 0 .. MaxRemembered]
    /\ takeovers \in [Request -> 0 .. MaxTakeovers]
    /\ outlived \in [Request -> BOOLEAN]
    /\ pc \in [Handler -> Running \cup
                  {"idle", "claiming", "missed", "recovering", "deleting"}]
    /\ target \in [Handler -> Request \cup {NoRequest}]
    /\ loaded \in [Handler -> [status : Status, result : Result]]
    /\ verdict \in [Handler -> Verdict \cup {NoRow}]
    /\ elapsed \in [Handler -> 0 .. ExecBudget]
    /\ victims \in [Handler -> SUBSET Request]
    /\ locked \in [Handler -> SUBSET Request]

Init ==
    /\ status = [r \in Request |-> "none"]
    /\ result = [r \in Request |-> "none"]
    /\ age = [r \in Request |-> 0]
    /\ remembered = [r \in Request |-> 0]
    /\ takeovers = [r \in Request |-> 0]
    /\ outlived = [r \in Request |-> FALSE]
    /\ pc = [h \in Handler |-> "idle"]
    /\ target = [h \in Handler |-> NoRequest]
    /\ loaded = [h \in Handler |-> NoRow]
    /\ verdict = [h \in Handler |-> NoRow]
    /\ elapsed = [h \in Handler |-> 0]
    /\ victims = [h \in Handler |-> {}]
    /\ locked = [h \in Handler |-> {}]

-----------------------------------------------------------------------------
(* The end of a handler, normal or not: its transaction and locals go.     *)

\* A handler that goes away while its transaction stays open.
ReturnHoldingLocks(h) ==
    /\ pc' = [pc EXCEPT ![h] = "idle"]
    /\ target' = [target EXCEPT ![h] = NoRequest]
    /\ loaded' = [loaded EXCEPT ![h] = NoRow]
    /\ verdict' = [verdict EXCEPT ![h] = NoRow]
    /\ elapsed' = [elapsed EXCEPT ![h] = 0]
    /\ victims' = [victims EXCEPT ![h] = {}]
    /\ UNCHANGED locked

Return(h) ==
    /\ pc' = [pc EXCEPT ![h] = "idle"]
    /\ target' = [target EXCEPT ![h] = NoRequest]
    /\ loaded' = [loaded EXCEPT ![h] = NoRow]
    /\ verdict' = [verdict EXCEPT ![h] = NoRow]
    /\ elapsed' = [elapsed EXCEPT ![h] = 0]
    /\ victims' = [victims EXCEPT ![h] = {}]
    /\ locked' = [locked EXCEPT ![h] = {}]

-----------------------------------------------------------------------------
(* Executing a request.                                                    *)

\* create() commits a new row (RequestIntake models how it gets there).
Accept(r) ==
    /\ status[r] = "none"
    /\ status' = [status EXCEPT ![r] = "accepted"]
    /\ UNCHANGED <<result, age, history, remembered, pc, locals, work>>

\* A client, or the creation of the message, has the request executed.
Arrive(h, r) ==
    /\ pc[h] = "idle"
    /\ Exists(r)
    /\ pc' = [pc EXCEPT ![h] = "claiming"]
    /\ target' = [target EXCEPT ![h] = r]
    /\ UNCHANGED <<rows, remembered, loaded, verdict, elapsed, work>>

\* The guarded UPDATE hits: the row is running and the handler goes on.  It
\* waits for another transaction that has written the row.
Claim(h) ==
    LET r == target[h] IN
    /\ pc[h] = "claiming"
    /\ status[r] \in Executable
    /\ Unlocked(r)
    /\ status' = [status EXCEPT ![r] = "running"]
    /\ age' = [age EXCEPT ![r] = 0]
    /\ pc' = [pc EXCEPT ![h] = "claimed"]
    /\ UNCHANGED <<result, history, remembered, locals, work>>

\* The guarded UPDATE hits no row: the request is running, answered or gone.
Miss(h) ==
    /\ pc[h] = "claiming"
    /\ status[target[h]] \notin Executable
    /\ pc' = [pc EXCEPT ![h] = "missed"]
    /\ UNCHANGED <<rows, remembered, locals, work>>

\* The row is read back; its session may have been deleted since the claim.
Load(h) ==
    /\ pc[h] = "claimed"
    /\ \/ /\ Exists(target[h])
          /\ loaded' = [loaded EXCEPT ![h] = [status |-> status[target[h]],
                                              result |-> result[target[h]]]]
          /\ pc' = [pc EXCEPT ![h] = "working"]
          /\ UNCHANGED <<target, verdict, elapsed, work>>
       \/ /\ ~Exists(target[h])
          /\ Return(h)
    /\ UNCHANGED <<rows, remembered>>

\* No provider in MANUAL routing: fail without running the workflow.
ProviderUnavailable(h) ==
    /\ pc[h] = "working"
    /\ verdict' = [verdict EXCEPT ![h] = [status |-> "failed",
                                          result |-> "unavailable"]]
    /\ pc' = [pc EXCEPT ![h] = "saving"]
    /\ UNCHANGED <<rows, remembered, target, loaded, elapsed, work>>

\* A workflow result whose text goes to memory whatever the verdict was.
RememberEveryVerdict(h) ==
    /\ pc[h] = "working"
    /\ \E v \in Verdict : verdict' = [verdict EXCEPT ![h] = v]
    /\ pc' = [pc EXCEPT ![h] = "remembering"]
    /\ UNCHANGED <<rows, remembered, target, loaded, elapsed, work>>

\* The workflow ends, or raises (verdict "failed"); only a completed one
\* goes through the memory store before the row is saved.
WorkflowEnds(h) ==
    /\ pc[h] = "working"
    /\ \E v \in Verdict \ {[status |-> "failed", result |-> "unavailable"]} :
          /\ verdict' = [verdict EXCEPT ![h] = v]
          /\ pc' = [pc EXCEPT ![h] = IF v.status = "completed"
                                     THEN "remembering" ELSE "saving"]
    /\ UNCHANGED <<rows, remembered, target, loaded, elapsed, work>>

\* _remember commits in a session of its own, before the row is saved; a
\* failure of the store is swallowed (and there may be no store).
Remember(h) ==
    /\ pc[h] = "remembering"
    /\ \/ /\ remembered[target[h]] < MaxRemembered
          /\ remembered' = [remembered EXCEPT ![target[h]] = @ + 1]
       \/ UNCHANGED remembered
    /\ pc' = [pc EXCEPT ![h] = "saving"]
    /\ UNCHANGED <<rows, locals, work>>

\* A save that forgets the result column.
SaveStatusOnly(h) ==
    LET r == target[h] IN
    /\ pc[h] = "saving"
    /\ Exists(r) => Unlocked(r)
    /\ status' = [status EXCEPT ![r] = IF Exists(r) THEN verdict[h].status ELSE @]
    /\ age' = [age EXCEPT ![r] = 0]
    /\ Return(h)
    /\ UNCHANGED <<result, history, remembered>>

\* The final commit: an UPDATE by primary key, with no guard on the status,
\* of the columns that differ from what was loaded.  When the row is gone
\* the flush raises StaleDataError and nothing is written.
Save(h) ==
    LET r == target[h] IN
    /\ pc[h] = "saving"
    /\ \/ /\ Exists(r)
          /\ Unlocked(r)
          /\ status' = IF verdict[h].status # loaded[h].status
                       THEN [status EXCEPT ![r] = verdict[h].status] ELSE status
          /\ result' = IF verdict[h].result # loaded[h].result
                       THEN [result EXCEPT ![r] = verdict[h].result] ELSE result
          /\ age' = [age EXCEPT ![r] = 0]
       \/ /\ ~Exists(r)
          /\ UNCHANGED <<status, result, age>>
    /\ Return(h)
    /\ UNCHANGED <<history, remembered>>

-----------------------------------------------------------------------------
(* Stale recovery, lazily for one request or at start-up for all of them.  *)

\* A recovery that forgets to compare updated_at with the cutoff.
RunningIsStale(r) == status[r] = "running"

IsStale(r) == status[r] = "running" /\ age[r] > StaleAfter

\* execute() re-reads the request it could not claim.
StaleCheck(h) ==
    /\ pc[h] = "missed"
    /\ \/ /\ IsStale(target[h])
          /\ victims' = [victims EXCEPT ![h] = {target[h]}]
          /\ pc' = [pc EXCEPT ![h] = "recovering"]
          /\ UNCHANGED <<locals, locked>>
       \/ /\ ~IsStale(target[h])
          /\ Return(h)
    /\ UNCHANGED <<rows, remembered>>

\* A starting worker selects every stale running request.
SweepStart(h) ==
    /\ pc[h] = "idle"
    /\ \E r \in Request : IsStale(r)
    /\ victims' = [victims EXCEPT ![h] = {r \in Request : IsStale(r)}]
    /\ pc' = [pc EXCEPT ![h] = "recovering"]
    /\ UNCHANGED <<rows, remembered, locals, locked>>

\* The next selected row, in an order nobody has fixed: the loop of a sweep
\* goes to its next request, the scan of a DELETE to its next row.
Reach(h, r) ==
    /\ pc[h] \in {"recovering", "deleting"}
    /\ target[h] = NoRequest
    /\ r \in victims[h]
    /\ target' = [target EXCEPT ![h] = r]
    /\ UNCHANGED <<rows, remembered, pc, loaded, verdict, elapsed, work>>

\* The row that was reached is dealt with, and is locked if it was written.
Passed(h, written) ==
    /\ target' = [target EXCEPT ![h] = NoRequest]
    /\ victims' = [victims EXCEPT ![h] = @ \ {target[h]}]
    /\ locked' = IF written THEN [locked EXCEPT ![h] = @ \cup {target[h]}] ELSE locked
    /\ UNCHANGED <<rows, remembered, pc, loaded, verdict, elapsed>>

\* A mark that trusts the selection: UPDATE ... WHERE request_id alone.
MarkWithoutGuard(h) ==
    /\ pc[h] = "recovering"
    /\ target[h] # NoRequest
    /\ Unlocked(target[h])
    /\ Passed(h, TRUE)

\* One UPDATE ... WHERE status = 'running': it locks the row if it hits, and
\* waits for another transaction that has written the row.
MarkStale(h) ==
    /\ pc[h] = "recovering"
    /\ target[h] # NoRequest
    /\ \/ status[target[h]] = "running" /\ Unlocked(target[h]) /\ Passed(h, TRUE)
       \/ status[target[h]] # "running" /\ Passed(h, FALSE)

\* The commit makes the marks visible.
CommitRecovery(h) ==
    /\ pc[h] = "recovering"
    /\ victims[h] = {}
    /\ status' = [r \in Request |-> IF r \in locked[h] THEN "failed" ELSE status[r]]
    /\ result' = [r \in Request |-> IF r \in locked[h] THEN "stale" ELSE result[r]]
    /\ age' = [r \in Request |-> IF r \in locked[h] THEN 0 ELSE age[r]]
    /\ takeovers' = [r \in Request |-> IF r \in locked[h] /\ takeovers[r] < MaxTakeovers
                                       THEN takeovers[r] + 1 ELSE takeovers[r]]
    /\ Return(h)
    /\ UNCHANGED <<outlived, remembered>>

\* The statement of h waits for the transaction of g.
WaitsFor(h, g) ==
    /\ pc[h] \in {"recovering", "deleting"}
    /\ target[h] \in locked[g] \ locked[h]
    /\ pc[h] = "recovering" => status[target[h]] = "running"

\* Transactions that wait for each other in a circle: the database aborts one
\* of them.
DeadlockAbort(h) ==
    /\ \E C \in SUBSET Handler :
          /\ h \in C
          /\ \A g \in C : /\ \E k \in C : WaitsFor(g, k)
                          /\ \E k \in C : WaitsFor(k, g)
    /\ Return(h)
    /\ UNCHANGED <<rows, remembered>>

-----------------------------------------------------------------------------
(* Deleting a session.                                                     *)

\* DELETE FROM requests begins with the rows it finds.
DeleteBegin(h, s) ==
    LET gone == {r \in Request : SessionOf[r] = s /\ Exists(r)} IN
    /\ pc[h] = "idle"
    /\ gone # {}
    /\ victims' = [victims EXCEPT ![h] = gone]
    /\ pc' = [pc EXCEPT ![h] = "deleting"]
    /\ UNCHANGED <<rows, remembered, locals, locked>>

\* It locks row by row, waits for other writers, and passes over a row that
\* another deletion has committed meanwhile.
DeleteRow(h) ==
    /\ pc[h] = "deleting"
    /\ target[h] # NoRequest
    /\ \/ Exists(target[h]) /\ Unlocked(target[h]) /\ Passed(h, TRUE)
       \/ ~Exists(target[h]) /\ Passed(h, FALSE)

DeleteCommit(h) ==
    /\ pc[h] = "deleting"
    /\ victims[h] = {}
    /\ status' = [r \in Request |-> IF r \in locked[h] THEN "deleted" ELSE status[r]]
    /\ result' = [r \in Request |-> IF r \in locked[h] THEN "none" ELSE result[r]]
    /\ age' = [r \in Request |-> IF r \in locked[h] THEN 0 ELSE age[r]]
    /\ Return(h)
    /\ UNCHANGED <<history, remembered>>

-----------------------------------------------------------------------------
(* The environment.                                                        *)

Interrupt(h) ==
    /\ pc[h] # "idle"
    /\ Return(h)
    /\ UNCHANGED <<rows, remembered>>

\* Time passes for the running rows and for the executions, none of which
\* takes longer than its budget.
Tick ==
    /\ \A h \in Handler : Executing(h) => elapsed[h] < ExecBudget
    /\ \E r \in Request : status[r] = "running"
    /\ age' = [r \in Request |->
                  IF status[r] = "running" /\ age[r] <= StaleAfter
                  THEN age[r] + 1 ELSE age[r]]
    /\ elapsed' = [h \in Handler |->
                      IF Executing(h) THEN elapsed[h] + 1 ELSE elapsed[h]]
    /\ outlived' = [r \in Request |->
                       \/ outlived[r]
                       \/ \E h \in Handler : /\ Executing(h) /\ target[h] = r
                                             /\ elapsed[h] >= StaleAfter]
    /\ UNCHANGED <<status, result, takeovers, remembered, pc,
                   target, loaded, verdict, work>>

\* What the workflow of an execution decides, whenever it does.
Decide(h) == ProviderUnavailable(h) \/ WorkflowEnds(h)

\* What a handler does in the database.
Progress(h) ==
    \/ Claim(h)
    \/ Miss(h)
    \/ Load(h)
    \/ Remember(h)
    \/ Save(h)
    \/ StaleCheck(h)
    \/ \E r \in Request : Reach(h, r)
    \/ MarkStale(h)
    \/ CommitRecovery(h)
    \/ DeadlockAbort(h)
    \/ DeleteRow(h)
    \/ DeleteCommit(h)

\* What starts a handler: a client, or a worker that boots.
Call(h) ==
    \/ \E r \in Request : Arrive(h, r)
    \/ SweepStart(h)
    \/ \E s \in Session : DeleteBegin(h, s)

Next ==
    \/ \E r \in Request : Accept(r)
    \/ \E h \in Handler : Call(h) \/ Decide(h) \/ Progress(h) \/ Interrupt(h)
    \/ Tick

Spec == Init /\ [][Next]_vars

\* The event loop keeps running a handler, and PostgreSQL queues the waiters
\* for a row, so a handler that can go on again and again does.  A workflow
\* owes nothing: nothing bounds the process of a command behind its timeout.
Fairness == \A h \in Handler : SF_vars(Progress(h))
FairSpec == Spec /\ Fairness

-----------------------------------------------------------------------------
(* Properties.                                                             *)

Owners(r) == {h \in Handler : Executing(h) /\ target[h] = r}

\* Until stale recovery takes a request over, at most one handler executes
\* it, and the row says so (or was deleted under it): the guarded UPDATE of
\* execute() makes double execution impossible up to that point.
OneOwner ==
    \A r \in Request : ~takenOver[r] =>
        /\ \A g, h \in Owners(r) : g = h
        /\ Owners(r) # {} => status[r] \in {"running", "deleted"}

\* Without a takeover a request leaves at most one memory item, and only if
\* its execution completed: the row is completed, or still running because
\* the execution died or has yet to save, or was deleted.  A blocked,
\* rejected or failed request has none.
MemoryOnlyOfAnswers ==
    \A r \in Request : ~takenOver[r] /\ remembered[r] > 0 =>
        /\ remembered[r] = 1
        /\ status[r] \in {"running", "completed", "deleted"}

\* Without a takeover status and result always belong together, although
\* the ORM writes each column only when it differs from what was loaded.
RowCoherent ==
    \A r \in Request : ~takenOver[r] /\ status[r] \notin {"running", "deleted"} =>
        \/ status[r] \in {"none", "accepted"} /\ result[r] = "none"
        \/ [status |-> status[r], result |-> result[r]] \in Verdict

KeepsAnswer(r) ==
    status[r] = "completed" /\ ~takenOver[r] =>
        \/ status'[r] = "deleted"
        \/ status'[r] = "completed" /\ result'[r] = result[r]

\* Without a takeover a completed request keeps its status and its answer
\* until its session is deleted.
CompletedIsFinal == [][\A r \in Request : KeepsAnswer(r)]_vars

\* However often executions are lost, remembered and repeated: a request
\* leaves one memory item, and one more for each takeover.
ItemPerTakeover ==
    \A r \in Request : takeovers[r] < MaxTakeovers => remembered[r] <= 1 + takeovers[r]

\* The first recovery of a request never hits a live execution, unless one of
\* its executions has outlived the stale threshold: nobody has it among the
\* rows found stale or marked while an execution of it runs.
FirstTakeoverIsOfTheSlow ==
    \A h, g \in Handler :
        /\ Executing(h) /\ ~takenOver[target[h]]
        /\ pc[g] = "recovering" /\ target[h] \in victims[g] \cup locked[g]
        => outlived[target[h]]

\* "With multiple workers this makes double-execution of the same request
\* impossible" (docs/PHASE-2-9-IMPLEMENTATION.md:116), takeovers included.
NeverExecutedTwiceAtOnce ==
    \A r \in Request : \A g, h \in Owners(r) : g = h

-----------------------------------------------------------------------------
(* The inductive invariants behind these properties.                       *)

\* What the locals of a handler hold, by where it is.
LocalsInv ==
    \A h \in Handler :
        /\ pc[h] \in Running \cup {"claiming", "missed"} => target[h] \in Request
        /\ pc[h] = "idle" => target[h] = NoRequest
        /\ pc[h] \in {"recovering", "deleting"} => target[h] \in victims[h] \cup {NoRequest}
        /\ victims[h] # {} => pc[h] \in {"recovering", "deleting"}
        /\ pc[h] \in {"remembering", "saving"} => verdict[h] \in Verdict
        /\ pc[h] = "remembering" => verdict[h].status = "completed"
        /\ ~Executing(h) => elapsed[h] = 0

\* Row locks exclude each other, and keep the row as the holder saw it.
LocksInv ==
    /\ \A h \in Handler : locked[h] # {} => pc[h] \in {"recovering", "deleting"}
    /\ \A g, h \in Handler : g # h => locked[g] \cap locked[h] = {}
    /\ \A h \in Handler : \A r \in locked[h] :
          /\ pc[h] = "recovering" => status[r] = "running"
          /\ pc[h] = "deleting" => Exists(r)

\* Before the first takeover an execution is alone with its row, knows what
\* the row holds, and has remembered at most what it is about to save.
OwnerInv ==
    \A h \in Handler : LET r == target[h] IN
        Executing(h) /\ ~takenOver[r] =>
            /\ status[r] \in {"running", "deleted"}
            /\ \A g \in Handler : Executing(g) /\ target[g] = r => g = h
            /\ pc[h] # "claimed" /\ status[r] = "running" =>
                  loaded[h] = [status |-> "running", result |-> result[r]]
            /\ pc[h] # "saving" => remembered[r] = 0
            /\ pc[h] = "saving" /\ remembered[r] > 0 => verdict[h].status = "completed"

\* The executions of a request that may still remember something, or leave
\* the row to another one.
Pending(r) ==
    {h \in Owners(r) : ~(pc[h] = "saving" /\ verdict[h].status = "completed")}

\* One more execution of the row is to come, as it is or once it is there.
Claimable(r) == IF status[r] \in Executable \cup {"none"} THEN 1 ELSE 0

\* A takeover is worth one execution: what is remembered, what may be, and a
\* row that may be claimed are one, and one more for each takeover.
ItemsInv ==
    \A r \in Request : takeovers[r] < MaxTakeovers =>
        remembered[r] + Cardinality(Pending(r)) + Claimable(r) <= 1 + takeovers[r]

\* The inductive invariant: whoever executes, marks or deletes a request
\* holds it alone, and table, memory and locals agree with each other.
OwnershipInv ==
    TypeOK /\ LocalsInv /\ LocksInv /\ OwnerInv /\ RowCoherent /\ MemoryOnlyOfAnswers

\* Nobody has taken the request over, and no execution of it was slow.
Undisturbed(r) == ~takenOver[r] /\ ~outlived[r]

\* As long as no execution has outlived the threshold, the clock of a row is
\* the clock of its execution, and what a recovery has selected has none.
RecoveryInv ==
    /\ \A h \in Handler : LET r == target[h] IN
          Executing(h) /\ Undisturbed(r) =>
              /\ elapsed[h] <= StaleAfter
              /\ status[r] = "running" => age[r] = elapsed[h]
    /\ \A g \in Handler : pc[g] = "recovering" =>
          \A r \in victims[g] \cup locked[g] : Undisturbed(r) =>
              status[r] \in {"running", "deleted"} /\ Owners(r) = {}

-----------------------------------------------------------------------------
(* Refinement and liveness.                                                *)

\* A request of the ledger, seen through the table.
Ledger == INSTANCE RequestLedger
            WITH st <- status, res <- result, contested <- takenOver

\* The table implements the ledger.
ImplementsLedger == Ledger!Spec

\* Whatever rows the others hold, and however they wait for each other: no
\* handler stays in the database for ever.  It ends, or it executes a workflow.
NobodyWaitsForEver ==
    \A h \in Handler : pc[h] \notin {"idle", "working"} ~> pc[h] \in {"idle", "working"}
=============================================================================
