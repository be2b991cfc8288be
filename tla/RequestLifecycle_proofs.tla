----------------------- MODULE RequestLifecycle_proofs -----------------------
(***************************************************************************)
(* Theorems about RequestLifecycle, for any sets of requests, sessions,    *)
(* handlers and answers and any thresholds.                                *)
(***************************************************************************)
EXTENDS RequestLifecycle, FiniteSetTheorems, TLAPS

\* What an execution may write: a status and a text that can stand in a row.
LEMMA VerdictFacts ==
    ASSUME NEW v \in Verdict
    PROVE  /\ v = [status |-> v.status, result |-> v.result]
           /\ v.status \in {"completed", "blocked", "rejected", "failed"}
           /\ v.status \in Status
           /\ v.result \in Result
  BY DEF Verdict, Status, Result

LEMMA NoRowFacts == NoRow \in [status : Status, result : Result]
  BY DEF NoRow, Status, Result

-----------------------------------------------------------------------------
(* Type correctness.                                                       *)


\* takenOver follows the counter.
LEMMA TakenOverFacts ==
    /\ UNCHANGED takeovers => UNCHANGED takenOver
    /\ TypeOK => \A r \in Request : takenOver[r] <=> takeovers[r] > 0
    /\ \A r \in Request : takeovers'[r] = takeovers[r] => takenOver'[r] = takenOver[r]
  BY DEF takenOver

\* What Passed leaves, spelled out.
LEMMA PassedFacts ==
    ASSUME NEW h \in Handler, NEW written \in BOOLEAN, Passed(h, written)
    PROVE  /\ target' = [target EXCEPT ![h] = NoRequest]
           /\ victims' = [victims EXCEPT ![h] = @ \ {target[h]}]
           /\ \/ locked' = [locked EXCEPT ![h] = @ \cup {target[h]}] /\ written
              \/ UNCHANGED locked /\ ~written
           /\ UNCHANGED <<rows, remembered, pc, loaded, verdict, elapsed>>
  BY DEF Passed

\* A row that is marked or deleted is free and still there; a row that is
\* passed over is not locked.
LEMMA PassingFacts ==
    ASSUME NEW h \in Handler, MarkStale(h) \/ DeleteRow(h)
    PROVE  /\ pc[h] \in {"recovering", "deleting"} /\ target[h] # NoRequest
           /\ target' = [target EXCEPT ![h] = NoRequest]
           /\ victims' = [victims EXCEPT ![h] = @ \ {target[h]}]
           /\ \/ /\ locked' = [locked EXCEPT ![h] = @ \cup {target[h]}]
                 /\ Unlocked(target[h])
                 /\ pc[h] = "recovering" => status[target[h]] = "running"
                 /\ pc[h] = "deleting" => Exists(target[h])
              \/ UNCHANGED locked
           /\ UNCHANGED <<rows, remembered, pc, loaded, verdict, elapsed>>
  <1>1. CASE MarkStale(h)
    BY <1>1, PassedFacts DEF MarkStale
  <1>2. CASE DeleteRow(h)
    BY <1>2, PassedFacts DEF DeleteRow
  <1> QED
    BY <1>1, <1>2

\* Every step keeps the types of the columns and of the locals.
LEMMA TypeOK_step == TypeOK /\ LocalsInv /\ [Next]_vars => TypeOK'
  <1> SUFFICES ASSUME TypeOK, LocalsInv, [Next]_vars PROVE TypeOK'
    OBVIOUS
  <1> USE LifecycleAssumption DEF TypeOK, Running, rows, history
  <1>1. ASSUME NEW r \in Request, Accept(r) PROVE TypeOK'
    BY <1>1 DEF Accept, locals, work, Status
  <1>2. ASSUME NEW h \in Handler, NEW r \in Request, Arrive(h, r) PROVE TypeOK'
    BY <1>2 DEF Arrive, work
  <1>3. ASSUME NEW h \in Handler, Claim(h) PROVE TypeOK'
    <2>1. target[h] \in Request
      BY <1>3 DEF LocalsInv, Claim
    <2> QED
      BY <1>3, <2>1 DEF Claim, locals, work, Status
  <1>19. ASSUME NEW h \in Handler, Miss(h) PROVE TypeOK'
    BY <1>19 DEF Miss, locals, work
  <1>4. ASSUME NEW h \in Handler, Load(h) PROVE TypeOK'
    <2>1. target[h] \in Request
      BY <1>4 DEF LocalsInv, Load
    <2>2. CASE Exists(target[h])
      <3>1. [status |-> status[target[h]], result |-> result[target[h]]]
              \in [status : Status, result : Result]
        BY <2>1
      <3>2. UNCHANGED <<rows, remembered, target, verdict, elapsed, work>>
        BY <1>4, <2>2 DEF Load
      <3>3. loaded' \in [Handler -> [status : Status, result : Result]]
        BY <1>4, <2>2, <3>1 DEF Load
      <3>4. pc' \in [Handler -> Running \cup
                {"idle", "claiming", "missed", "recovering", "deleting"}]
        BY <1>4, <2>2 DEF Load
      <3> QED
        BY <3>2, <3>3, <3>4 DEF work
    <2>3. CASE ~Exists(target[h])
      <3>1. Return(h) /\ UNCHANGED <<rows, remembered>>
        BY <1>4, <2>3 DEF Load
      <3> QED
        BY <3>1, NoRowFacts DEF Return
    <2> QED
      BY <2>2, <2>3
  <1>5. ASSUME NEW h \in Handler, ProviderUnavailable(h) PROVE TypeOK'
    BY <1>5 DEF ProviderUnavailable, work, Verdict
  <1>6. ASSUME NEW h \in Handler, WorkflowEnds(h) PROVE TypeOK'
    BY <1>6 DEF WorkflowEnds, work
  <1>7. ASSUME NEW h \in Handler, Remember(h) PROVE TypeOK'
    <2>1. target[h] \in Request
      BY <1>7 DEF LocalsInv, Remember
    <2>2. remembered' \in [Request -> 0 .. MaxRemembered]
      <3>1. CASE UNCHANGED remembered
        BY <3>1
      <3>2. CASE ~UNCHANGED remembered
        <4>1. /\ remembered[target[h]] < MaxRemembered
              /\ remembered' = [remembered EXCEPT ![target[h]] = @ + 1]
          BY <1>7, <3>2 DEF Remember
        <4>2. remembered[target[h]] + 1 \in 0 .. MaxRemembered
          BY <2>1, <4>1
        <4> QED
          BY <2>1, <4>1, <4>2
      <3> QED
        BY <3>1, <3>2
    <2> QED
      BY <1>7, <2>2 DEF Remember, locals, work
  <1>8. ASSUME NEW h \in Handler, Save(h) PROVE TypeOK'
    <2>1. target[h] \in Request /\ verdict[h] \in Verdict
      BY <1>8 DEF LocalsInv, Save
    <2>2. verdict[h].status \in Status /\ verdict[h].result \in Result
      BY <2>1, VerdictFacts
    <2>3. /\ status' \in [Request -> Status]
          /\ result' \in [Request -> Result]
          /\ age' \in [Request -> 0 .. StaleAfter + 1]
      <3>1. \/ status' = status
            \/ status' = [status EXCEPT ![target[h]] = verdict[h].status]
        BY <1>8 DEF Save
      <3>2. \/ result' = result
            \/ result' = [result EXCEPT ![target[h]] = verdict[h].result]
        BY <1>8 DEF Save
      <3>3. age' = age \/ age' = [age EXCEPT ![target[h]] = 0]
        BY <1>8 DEF Save
      <3>4. status' \in [Request -> Status]
        BY <2>1, <2>2, <3>1
      <3>5. result' \in [Request -> Result]
        BY <2>1, <2>2, <3>2
      <3>6. age' \in [Request -> 0 .. StaleAfter + 1]
        BY <2>1, <3>3
      <3> QED
        BY <3>4, <3>5, <3>6
    <2>4. Return(h) /\ UNCHANGED <<history, remembered>>
      BY <1>8 DEF Save
    <2> QED
      BY <2>3, <2>4, NoRowFacts DEF Return
  <1>9. ASSUME NEW h \in Handler, StaleCheck(h) PROVE TypeOK'
    <2>1. target[h] \in Request
      BY <1>9 DEF LocalsInv, StaleCheck
    <2>2. CASE IsStale(target[h])
      <3>1. /\ victims' = [victims EXCEPT ![h] = {target[h]}]
            /\ pc' = [pc EXCEPT ![h] = "recovering"]
            /\ UNCHANGED <<rows, remembered, locals, locked>>
        BY <1>9, <2>2 DEF StaleCheck
      <3>2. victims' \in [Handler -> SUBSET Request]
        BY <2>1, <3>1
      <3> QED
        BY <3>1, <3>2 DEF locals
    <2>3. CASE ~IsStale(target[h])
      <3>1. Return(h) /\ UNCHANGED <<rows, remembered>>
        BY <1>9, <2>3 DEF StaleCheck
      <3> QED
        BY <3>1, NoRowFacts DEF Return
    <2> QED
      BY <2>2, <2>3
  <1>20. ASSUME NEW h \in Handler, NEW r \in Request, Reach(h, r) PROVE TypeOK'
    BY <1>20 DEF Reach, work
  <1>10. ASSUME NEW h \in Handler, MarkStale(h) \/ DeleteRow(h) PROVE TypeOK'
    <2>1. target[h] \in Request
      BY <1>10, PassingFacts
    <2>3. victims' \in [Handler -> SUBSET Request]
      BY <1>10, <2>1, PassingFacts
    <2>4. locked' \in [Handler -> SUBSET Request]
      <3>1. \/ locked' = [locked EXCEPT ![h] = @ \cup {target[h]}]
            \/ UNCHANGED locked
        BY <1>10, PassingFacts
      <3> QED
        BY <2>1, <3>1
    <2>5. target' \in [Handler -> Request \cup {NoRequest}]
      BY <1>10, <2>1, PassingFacts
    <2>2. UNCHANGED <<rows, remembered, pc, loaded, verdict, elapsed>>
      BY <1>10, PassingFacts
    <2> QED
      BY <2>2, <2>3, <2>4, <2>5
  <1>11. ASSUME NEW h \in Handler, CommitRecovery(h) PROVE TypeOK'
    <2>1. takeovers' \in [Request -> 0 .. MaxTakeovers]
      BY <1>11 DEF CommitRecovery
    <2> QED
      BY <1>11, <2>1, NoRowFacts DEF CommitRecovery, Return, Status, Result
  <1>12. ASSUME NEW h \in Handler, DeadlockAbort(h) PROVE TypeOK'
    BY <1>12, NoRowFacts DEF DeadlockAbort, Return
  <1>13. ASSUME NEW h \in Handler, DeleteCommit(h) PROVE TypeOK'
    BY <1>13, NoRowFacts DEF DeleteCommit, Return, Status, Result
  <1>14. ASSUME NEW h \in Handler, SweepStart(h) PROVE TypeOK'
    BY <1>14 DEF SweepStart, locals
  <1>15. ASSUME NEW h \in Handler, NEW s \in Session, DeleteBegin(h, s) PROVE TypeOK'
    BY <1>15 DEF DeleteBegin, locals
  <1>16. ASSUME NEW h \in Handler, Interrupt(h) PROVE TypeOK'
    BY <1>16, NoRowFacts DEF Interrupt, Return
  <1>17. CASE Tick
    <2>1. outlived' \in [Request -> BOOLEAN]
      BY <1>17 DEF Tick
    <2>2. age' \in [Request -> 0 .. StaleAfter + 1]
      BY <1>17 DEF Tick
    <2>3. elapsed' \in [Handler -> 0 .. ExecBudget]
      BY <1>17 DEF Tick, Executing
    <2> QED
      BY <1>17, <2>1, <2>2, <2>3 DEF Tick, work
  <1>18. CASE UNCHANGED vars
    BY <1>18 DEF vars, locals, work
  <1> QED
    BY <1>1, <1>2, <1>3, <1>4, <1>5, <1>6, <1>7, <1>8, <1>9, <1>10, <1>11,
       <1>12, <1>13, <1>14, <1>15, <1>16, <1>17, <1>18, <1>19, <1>20
    DEF Next, Call, Decide, Progress

\* Every step keeps the locals in agreement with the program counter.
LEMMA LocalsInv_step == TypeOK /\ LocalsInv /\ [Next]_vars => LocalsInv'
  <1> SUFFICES ASSUME TypeOK, LocalsInv, [Next]_vars PROVE LocalsInv'
    OBVIOUS
  <1> USE DEF TypeOK, LocalsInv, Running, Executing
  <1>1. ASSUME NEW h \in Handler, NEW r \in Request, Arrive(h, r) PROVE LocalsInv'
    BY <1>1 DEF Arrive, work
  <1>2. ASSUME NEW h \in Handler, Claim(h) \/ Miss(h) PROVE LocalsInv'
    <2>1. /\ pc[h] = "claiming"
          /\ pc' = [pc EXCEPT ![h] = "claimed"] \/ pc' = [pc EXCEPT ![h] = "missed"]
          /\ UNCHANGED <<target, verdict, elapsed, victims>>
      BY <1>2 DEF Claim, Miss, locals, work
    <2> QED
      BY <2>1
  <1>7. ASSUME NEW h \in Handler, Return(h) PROVE LocalsInv'
    BY <1>7 DEF Return
  <1>3. ASSUME NEW h \in Handler, Load(h) PROVE LocalsInv'
    <2>1. CASE Return(h)
      BY <2>1, <1>7
    <2>2. CASE ~Return(h)
      BY <1>3, <2>2 DEF Load, work
    <2> QED
      BY <2>1, <2>2
  <1>4. ASSUME NEW h \in Handler, ProviderUnavailable(h) PROVE LocalsInv'
    BY <1>4 DEF ProviderUnavailable, work, Verdict
  <1>5. ASSUME NEW h \in Handler, WorkflowEnds(h) PROVE LocalsInv'
    BY <1>5 DEF WorkflowEnds, work
  <1>6. ASSUME NEW h \in Handler, Remember(h) PROVE LocalsInv'
    BY <1>6 DEF Remember, locals, work
  <1>8. ASSUME NEW h \in Handler, StaleCheck(h) PROVE LocalsInv'
    <2>1. CASE Return(h)
      BY <2>1, <1>7
    <2>2. CASE ~Return(h)
      BY <1>8, <2>2 DEF StaleCheck, locals
    <2> QED
      BY <2>1, <2>2
  <1>9. ASSUME NEW h \in Handler, MarkStale(h) \/ DeleteRow(h) PROVE LocalsInv'
    BY <1>9, PassingFacts
  <1>15. ASSUME NEW h \in Handler, NEW r \in Request, Reach(h, r) PROVE LocalsInv'
    BY <1>15 DEF Reach, work
  <1>10. ASSUME NEW h \in Handler, SweepStart(h) PROVE LocalsInv'
    BY <1>10 DEF SweepStart, locals
  <1>11. ASSUME NEW h \in Handler, NEW s \in Session, DeleteBegin(h, s) PROVE LocalsInv'
    BY <1>11 DEF DeleteBegin, locals
  <1>12. CASE Tick
    BY <1>12 DEF Tick, work
  <1>13. ASSUME NEW r \in Request, Accept(r) PROVE LocalsInv'
    BY <1>13 DEF Accept, locals, work
  <1>14. CASE UNCHANGED vars
    BY <1>14 DEF vars, rows, locals, work
  <1> QED
    BY <1>1, <1>2, <1>3, <1>4, <1>5, <1>6, <1>7, <1>8, <1>9, <1>10, <1>11,
       <1>12, <1>13, <1>14, <1>15
    DEF Next, Call, Decide, Progress, Save, CommitRecovery, DeadlockAbort, DeleteCommit,
        Interrupt

\* Both hold at the start.
LEMMA Types_init == Init => TypeOK /\ LocalsInv
  BY LifecycleAssumption
  DEF Init, TypeOK, LocalsInv, Executing, NoRow, Status, Result, Running

\* The columns and the locals always hold values of their types.
THEOREM TypeCorrect == Spec => []TypeOK
  <1>1. Init => TypeOK /\ LocalsInv
    BY Types_init
  <1>2. TypeOK /\ LocalsInv /\ [Next]_vars => (TypeOK /\ LocalsInv)'
    BY TypeOK_step, LocalsInv_step
  <1> QED
    BY <1>1, <1>2, PTL DEF Spec

-----------------------------------------------------------------------------
(* Row locks.                                                              *)

\* Locks stay exclusive, and no locked row changes under its holder.
LEMMA LocksInv_step == TypeOK /\ LocalsInv /\ LocksInv /\ [Next]_vars => LocksInv'
  <1> SUFFICES ASSUME TypeOK, LocalsInv, LocksInv, [Next]_vars PROVE LocksInv'
    OBVIOUS
  <1> USE DEF TypeOK, LocksInv, Running, Exists, rows
  <1>0. ASSUME NEW h \in Handler, Return(h), UNCHANGED status PROVE LocksInv'
    BY <1>0 DEF Return
  <1>1. ASSUME NEW r \in Request, Accept(r) PROVE LocksInv'
    BY <1>1 DEF Accept, work
  <1>19. ASSUME NEW h \in Handler, NEW r \in Request, Arrive(h, r) PROVE LocksInv'
    BY <1>19 DEF Arrive, work
  <1>2. ASSUME NEW h \in Handler, Claim(h) PROVE LocksInv'
    <2>1. target[h] \in Request
      BY <1>2 DEF Claim, LocalsInv
    <2> QED
      BY <1>2, <2>1 DEF Claim, work, Unlocked
  <1>3. ASSUME NEW h \in Handler, Miss(h) PROVE LocksInv'
    BY <1>3 DEF Miss, work
  <1>4. ASSUME NEW h \in Handler, Load(h) PROVE LocksInv'
    <2>1. CASE Return(h)
      BY <1>4, <2>1, <1>0 DEF Load, rows
    <2>2. CASE ~Return(h)
      <3>1. /\ pc[h] = "claimed"
            /\ pc' = [pc EXCEPT ![h] = "working"]
            /\ UNCHANGED <<status, locked>>
        BY <1>4, <2>2 DEF Load, rows, work
      <3> QED
        BY <3>1
    <2> QED
      BY <2>1, <2>2
  <1>5. ASSUME NEW h \in Handler, ProviderUnavailable(h) PROVE LocksInv'
    BY <1>5 DEF ProviderUnavailable, rows, work
  <1>6. ASSUME NEW h \in Handler, WorkflowEnds(h) PROVE LocksInv'
    <2>1. /\ pc[h] = "working"
          /\ pc' = [pc EXCEPT ![h] = "remembering"] \/ pc' = [pc EXCEPT ![h] = "saving"]
          /\ UNCHANGED <<status, locked>>
      BY <1>6 DEF WorkflowEnds, rows, work
    <2> QED
      BY <2>1
  <1>7. ASSUME NEW h \in Handler, Remember(h) PROVE LocksInv'
    BY <1>7 DEF Remember, rows, work
  <1>8. ASSUME NEW h \in Handler, Save(h) PROVE LocksInv'
    <2>1. target[h] \in Request
      BY <1>8 DEF Save, LocalsInv
    <2>2. \A r \in Request : status'[r] # status[r] => Unlocked(r)
      BY <1>8, <2>1 DEF Save
    <2>3. /\ pc' = [pc EXCEPT ![h] = "idle"]
          /\ locked' = [locked EXCEPT ![h] = {}]
      BY <1>8 DEF Save, Return
    <2> QED
      BY <2>2, <2>3 DEF Unlocked
  <1>9. ASSUME NEW h \in Handler, StaleCheck(h) PROVE LocksInv'
    <2>1. CASE Return(h)
      BY <1>9, <2>1, <1>0 DEF StaleCheck, rows
    <2>2. CASE ~Return(h)
      <3>1. /\ pc[h] = "missed"
            /\ pc' = [pc EXCEPT ![h] = "recovering"]
            /\ UNCHANGED <<status, locked>>
        BY <1>9, <2>2 DEF StaleCheck, rows
      <3> QED
        BY <3>1
    <2> QED
      BY <2>1, <2>2
  <1>20. ASSUME NEW h \in Handler, NEW r \in Request, Reach(h, r) PROVE LocksInv'
    BY <1>20 DEF Reach, work
  <1>10. ASSUME NEW h \in Handler, MarkStale(h) \/ DeleteRow(h) PROVE LocksInv'
    <2>1. /\ pc[h] \in {"recovering", "deleting"}
          /\ \/ /\ locked' = [locked EXCEPT ![h] = @ \cup {target[h]}]
                /\ Unlocked(target[h])
                /\ pc[h] = "recovering" => status[target[h]] = "running"
                /\ pc[h] = "deleting" => Exists(target[h])
             \/ UNCHANGED locked
          /\ UNCHANGED <<status, pc>>
      BY <1>10, PassingFacts
    <2>2. CASE UNCHANGED locked
      BY <2>1, <2>2
    <2>3. CASE ~UNCHANGED locked
      <3>1. /\ locked' = [locked EXCEPT ![h] = @ \cup {target[h]}]
            /\ \A g \in Handler : target[h] \notin locked[g]
        BY <2>1, <2>3 DEF Unlocked
      <3>2. /\ locked'[h] = locked[h] \cup {target[h]}
            /\ \A g \in Handler : g # h => locked'[g] = locked[g]
        BY <3>1
      <3>3. \A g, k \in Handler : g # k => locked'[g] \cap locked'[k] = {}
        BY <3>1, <3>2
      <3>4. \A r \in locked'[h] : /\ pc[h] = "recovering" => status[r] = "running"
                                  /\ pc[h] = "deleting" => Exists(r)
        BY <2>1, <3>2
      <3>5. \A g \in Handler : locked'[g] # {} => pc[g] \in {"recovering", "deleting"}
        BY <2>1, <3>2
      <3>6. \A g \in Handler : \A r \in locked'[g] :
               /\ pc[g] = "recovering" => status[r] = "running"
               /\ pc[g] = "deleting" => Exists(r)
        BY <3>2, <3>4
      <3> QED
        BY <2>1, <3>3, <3>5, <3>6
    <2> QED
      BY <2>2, <2>3
  <1>11. ASSUME NEW h \in Handler, CommitRecovery(h) PROVE LocksInv'
    BY <1>11 DEF CommitRecovery, Return
  <1>12. ASSUME NEW h \in Handler, DeadlockAbort(h) PROVE LocksInv'
    BY <1>12, <1>0 DEF DeadlockAbort, rows
  <1>13. ASSUME NEW h \in Handler, DeleteCommit(h) PROVE LocksInv'
    BY <1>13 DEF DeleteCommit, Return
  <1>14. ASSUME NEW h \in Handler, SweepStart(h) PROVE LocksInv'
    BY <1>14 DEF SweepStart, rows
  <1>15. ASSUME NEW h \in Handler, NEW s \in Session, DeleteBegin(h, s) PROVE LocksInv'
    BY <1>15 DEF DeleteBegin
  <1>16. ASSUME NEW h \in Handler, Interrupt(h) PROVE LocksInv'
    BY <1>16, <1>0 DEF Interrupt, rows
  <1>17. CASE Tick
    BY <1>17 DEF Tick, work
  <1>18. CASE UNCHANGED vars
    BY <1>18 DEF vars, rows, work
  <1> QED
    BY <1>1, <1>2, <1>3, <1>4, <1>5, <1>6, <1>7, <1>8, <1>9, <1>10, <1>11,
       <1>12, <1>13, <1>14, <1>15, <1>16, <1>17, <1>18, <1>19, <1>20
    DEF Next, Call, Decide, Progress

-----------------------------------------------------------------------------
(* One owner.                                                              *)

\* The commit of a recovery takes over what it has locked.
LEMMA RecoveryTakesOver ==
    ASSUME TypeOK, NEW h \in Handler, CommitRecovery(h)
    PROVE  /\ \A r \in Request : takenOver'[r] <=> takenOver[r] \/ r \in locked[h]
           /\ \A r \in Request : r \notin locked[h] => takeovers'[r] = takeovers[r]
  <1>1. /\ \A r \in Request : r \in locked[h] => takeovers'[r] > 0
        /\ \A r \in Request : r \notin locked[h] => takeovers'[r] = takeovers[r]
    BY LifecycleAssumption DEF CommitRecovery, TypeOK
  <1> QED
    BY <1>1 DEF takenOver

\* A handler that ends without touching the table disturbs no other.
LEMMA OwnerInv_return ==
    ASSUME NEW h \in Handler, TypeOK, OwnerInv, Return(h), UNCHANGED <<rows, remembered>>
    PROVE  OwnerInv'
  BY DEF TypeOK, OwnerInv, Executing, Running, Return, rows, history, takenOver

\* An execution stays alone with its row until the row is taken over.
LEMMA OwnerInv_step ==
    TypeOK /\ LocalsInv /\ LocksInv /\ OwnerInv /\ MemoryOnlyOfAnswers /\ [Next]_vars
        => OwnerInv'
  <1> SUFFICES ASSUME TypeOK, LocalsInv, LocksInv, OwnerInv, MemoryOnlyOfAnswers,
                      [Next]_vars
               PROVE  OwnerInv'
    OBVIOUS
  <1> USE TakenOverFacts DEF TypeOK, OwnerInv, Executing, Running, rows, history
  <1>1. ASSUME NEW r \in Request, Accept(r) PROVE OwnerInv'
    BY <1>1 DEF Accept, locals, LocalsInv
  <1>19. ASSUME NEW h \in Handler, NEW r \in Request, Arrive(h, r) PROVE OwnerInv'
    BY <1>19 DEF Arrive
  <1>2. ASSUME NEW h \in Handler, Claim(h) PROVE OwnerInv'
    <2> DEFINE r == target[h]
    <2>0. r \in Request /\ status[r] \in Executable
      BY <1>2 DEF Claim, LocalsInv
    <2>1. ASSUME NEW g \in Handler, Executing(g), target[g] = r PROVE takenOver[r]
      BY <2>0, <2>1 DEF Executable
    <2>2. ~takenOver[r] => remembered[r] = 0
      BY <2>0, LifecycleAssumption DEF Executable, MemoryOnlyOfAnswers
    <2>3. /\ pc' = [pc EXCEPT ![h] = "claimed"]
          /\ status' = [status EXCEPT ![r] = "running"]
          /\ UNCHANGED <<result, takenOver, remembered, target, loaded, verdict>>
      BY <1>2 DEF Claim, locals
    <2> QED
      BY <2>0, <2>1, <2>2, <2>3 DEF LocalsInv
  <1>3. ASSUME NEW h \in Handler, Miss(h) PROVE OwnerInv'
    BY <1>3 DEF Miss, locals
  <1>4. ASSUME NEW h \in Handler, Load(h) PROVE OwnerInv'
    <2>1. CASE Return(h)
      BY <1>4, <2>1, OwnerInv_return DEF Load
    <2>2. CASE ~Return(h)
      <3>1. /\ pc[h] = "claimed" /\ target[h] \in Request
            /\ pc' = [pc EXCEPT ![h] = "working"]
            /\ loaded' = [loaded EXCEPT ![h] = [status |-> status[target[h]],
                                                result |-> result[target[h]]]]
            /\ UNCHANGED <<status, result, takenOver, remembered, target, verdict>>
        BY <1>4, <2>2 DEF Load, rows, LocalsInv
      <3> QED
        BY <3>1
    <2> QED
      BY <2>1, <2>2
  <1>5. ASSUME NEW h \in Handler, ProviderUnavailable(h) PROVE OwnerInv'
    BY <1>5 DEF ProviderUnavailable, rows, LocalsInv
  <1>6. ASSUME NEW h \in Handler, WorkflowEnds(h) PROVE OwnerInv'
    <2>1. PICK v \in Verdict :
            /\ verdict' = [verdict EXCEPT ![h] = v]
            /\ pc' = [pc EXCEPT ![h] = IF v.status = "completed"
                                       THEN "remembering" ELSE "saving"]
      BY <1>6 DEF WorkflowEnds
    <2>2. /\ pc[h] = "working" /\ target[h] \in Request
          /\ UNCHANGED <<status, result, takenOver, remembered, target, loaded>>
      BY <1>6 DEF WorkflowEnds, rows, LocalsInv
    <2>3. pc'[h] \in {"remembering", "saving"}
      BY <2>1
    <2> QED
      BY <2>1, <2>2, <2>3
  <1>7. ASSUME NEW h \in Handler, Remember(h) PROVE OwnerInv'
    <2>1. /\ pc[h] = "remembering" /\ target[h] \in Request
          /\ verdict[h].status = "completed"
          /\ pc' = [pc EXCEPT ![h] = "saving"]
          /\ UNCHANGED <<status, result, takenOver, target, loaded, verdict>>
      BY <1>7 DEF Remember, rows, locals, LocalsInv
    <2>2. \A r \in Request : r # target[h] => remembered'[r] = remembered[r]
      BY <1>7 DEF Remember
    <2>3. ASSUME NEW k \in Handler, Executing(k)', ~takenOver'[target'[k]], k # h
          PROVE  Executing(k) /\ ~takenOver[target[k]] /\ target[k] # target[h]
                     /\ target[k] \in Request
      BY <2>1, <2>3 DEF LocalsInv
    <2>4. ASSUME NEW k \in Handler, Executing(k)', ~takenOver'[target'[k]], k # h
          PROVE  UNCHANGED <<remembered[target[k]], pc[k]>>
      BY <2>1, <2>2, <2>3, <2>4
    <2> QED
      BY <2>1, <2>3, <2>4
  <1>8. ASSUME NEW h \in Handler, Save(h) PROVE OwnerInv'
    <2>1. \A r \in Request : r # target[h] =>
             status'[r] = status[r] /\ result'[r] = result[r]
      BY <1>8 DEF Save
    <2>2. /\ pc[h] = "saving"
          /\ pc' = [pc EXCEPT ![h] = "idle"]
          /\ target' = [target EXCEPT ![h] = NoRequest]
          /\ loaded' = [loaded EXCEPT ![h] = NoRow]
          /\ verdict' = [verdict EXCEPT ![h] = NoRow]
          /\ UNCHANGED <<takenOver, remembered>>
      BY <1>8 DEF Save, Return
    <2> QED
      BY <2>1, <2>2 DEF LocalsInv
  <1>9. ASSUME NEW h \in Handler, StaleCheck(h) PROVE OwnerInv'
    <2>1. CASE Return(h)
      BY <1>9, <2>1, OwnerInv_return DEF StaleCheck
    <2>2. CASE ~Return(h)
      <3>1. /\ pc[h] = "missed"
            /\ pc' = [pc EXCEPT ![h] = "recovering"]
            /\ UNCHANGED <<status, result, takenOver, remembered, target, loaded, verdict>>
        BY <1>9, <2>2 DEF StaleCheck, rows, locals
      <3> QED
        BY <3>1
    <2> QED
      BY <2>1, <2>2
  <1>20. ASSUME NEW h \in Handler, NEW r \in Request, Reach(h, r) PROVE OwnerInv'
    BY <1>20 DEF Reach
  <1>10. ASSUME NEW h \in Handler, MarkStale(h) \/ DeleteRow(h) PROVE OwnerInv'
    BY <1>10, PassingFacts
  <1>11. ASSUME NEW h \in Handler, CommitRecovery(h) PROVE OwnerInv'
    <2>1. /\ pc[h] = "recovering"
          /\ pc' = [pc EXCEPT ![h] = "idle"]
          /\ target' = [target EXCEPT ![h] = NoRequest]
          /\ loaded' = [loaded EXCEPT ![h] = NoRow]
          /\ verdict' = [verdict EXCEPT ![h] = NoRow]
          /\ UNCHANGED remembered
      BY <1>11 DEF CommitRecovery, Return
    <2>2. \A r \in Request : ~takenOver'[r] =>
             ~takenOver[r] /\ status'[r] = status[r] /\ result'[r] = result[r]
      BY <1>11, RecoveryTakesOver DEF CommitRecovery
    <2> QED
      BY <2>1, <2>2 DEF LocalsInv
  <1>12. ASSUME NEW h \in Handler, DeadlockAbort(h) PROVE OwnerInv'
    BY <1>12, OwnerInv_return DEF DeadlockAbort
  <1>13. ASSUME NEW h \in Handler, DeleteCommit(h) PROVE OwnerInv'
    <2>1. /\ pc[h] = "deleting"
          /\ pc' = [pc EXCEPT ![h] = "idle"]
          /\ target' = [target EXCEPT ![h] = NoRequest]
          /\ loaded' = [loaded EXCEPT ![h] = NoRow]
          /\ verdict' = [verdict EXCEPT ![h] = NoRow]
          /\ UNCHANGED <<takenOver, remembered>>
      BY <1>13 DEF DeleteCommit, Return
    <2>2. \A r \in Request : \/ status'[r] = "deleted"
                             \/ status'[r] = status[r] /\ result'[r] = result[r]
      BY <1>13 DEF DeleteCommit
    <2> QED
      BY <2>1, <2>2 DEF LocalsInv
  <1>14. ASSUME NEW h \in Handler, SweepStart(h) PROVE OwnerInv'
    BY <1>14 DEF SweepStart, rows, locals
  <1>15. ASSUME NEW h \in Handler, NEW s \in Session, DeleteBegin(h, s) PROVE OwnerInv'
    BY <1>15 DEF DeleteBegin, rows, locals
  <1>16. ASSUME NEW h \in Handler, Interrupt(h) PROVE OwnerInv'
    BY <1>16, OwnerInv_return DEF Interrupt
  <1>17. CASE Tick
    BY <1>17 DEF Tick
  <1>18. CASE UNCHANGED vars
    BY <1>18 DEF vars, rows, locals
  <1> QED
    BY <1>1, <1>2, <1>3, <1>4, <1>5, <1>6, <1>7, <1>8, <1>9, <1>10, <1>11,
       <1>12, <1>13, <1>14, <1>15, <1>16, <1>17, <1>18, <1>19, <1>20
    DEF Next, Call, Decide, Progress

-----------------------------------------------------------------------------
(* The row and the memory store.                                           *)

\* What Save does to the row of an execution nobody has taken over: it writes
\* the whole verdict, even when a column is left out as unchanged.
LEMMA SaveWritesVerdict ==
    ASSUME NEW h \in Handler, TypeOK, LocalsInv, OwnerInv, Save(h),
           ~takenOver[target[h]], Exists(target[h])
    PROVE  /\ target[h] \in Request /\ verdict[h] \in Verdict
           /\ status[target[h]] = "running"
           /\ status' = [status EXCEPT ![target[h]] = verdict[h].status]
           /\ result' = [result EXCEPT ![target[h]] = verdict[h].result]
  <1>1. target[h] \in Request /\ verdict[h] \in Verdict /\ pc[h] = "saving"
    BY DEF LocalsInv, Running, Save
  <1>2. status[target[h]] = "running"
    BY <1>1 DEF OwnerInv, Executing, Running, Exists
  <1>3. loaded[h] = [status |-> "running", result |-> result[target[h]]]
    BY <1>1, <1>2 DEF OwnerInv, Executing, Running
  <1>4. loaded[h].status = "running" /\ loaded[h].result = result[target[h]]
    BY <1>3
  <1>5. verdict[h].status # "running"
    BY <1>1, VerdictFacts
  <1>6. status' = [status EXCEPT ![target[h]] = verdict[h].status]
    BY <1>4, <1>5 DEF Save
  <1>7. result' = [result EXCEPT ![target[h]] = verdict[h].result]
    <2>1. CASE verdict[h].result # loaded[h].result
      BY <2>1 DEF Save
    <2>2. CASE verdict[h].result = loaded[h].result
      <3>1. result' = result
        BY <2>2 DEF Save
      <3> QED
        BY <3>1, <2>2, <1>4, <1>1 DEF TypeOK
    <2> QED
      BY <2>1, <2>2
  <1> QED
    BY <1>1, <1>2, <1>6, <1>7

\* A step that is not Save(h) leaves a row as it is, or claims it, fails it as
\* stale, deletes it or accepts it.
RowStep(r) ==
    \/ status'[r] = status[r] /\ result'[r] = result[r]
    \/ status'[r] = "running"
    \/ takenOver'[r]
    \/ status'[r] = "deleted"
    \/ status[r] = "none" /\ status'[r] = "accepted" /\ result'[r] = result[r]

LEMMA RowCoherent_step == OwnershipInv /\ [Next]_vars => RowCoherent'
  <1> SUFFICES ASSUME OwnershipInv, [Next]_vars PROVE RowCoherent'
    OBVIOUS
  <1> USE DEF OwnershipInv
  <1> USE TakenOverFacts
  <1>0. ASSUME \A r \in Request : RowStep(r),
               \A r \in Request : takenOver[r] => takenOver'[r]
        PROVE  RowCoherent'
    <2> SUFFICES ASSUME NEW r \in Request, ~takenOver'[r],
                        status'[r] \notin {"running", "deleted"}
                 PROVE  \/ status'[r] \in {"none", "accepted"} /\ result'[r] = "none"
                        \/ [status |-> status'[r], result |-> result'[r]] \in Verdict
      BY DEF RowCoherent
    <2>1. ~takenOver[r] /\ RowStep(r)
      BY <1>0
    <2>2. CASE status'[r] = status[r] /\ result'[r] = result[r]
      BY <2>1, <2>2 DEF RowCoherent
    <2>3. CASE status[r] = "none" /\ status'[r] = "accepted" /\ result'[r] = result[r]
      <3>1. [status |-> "none", result |-> result[r]] \notin Verdict
        BY DEF Verdict
      <3> QED
        BY <2>1, <2>3, <3>1 DEF RowCoherent
    <2> QED
      BY <2>1, <2>2, <2>3 DEF RowStep
  <1>1. ASSUME NEW r \in Request, Accept(r) PROVE RowCoherent'
    BY <1>1, <1>0 DEF Accept, RowStep, TypeOK, history
  <1>2. ASSUME NEW h \in Handler, Claim(h) PROVE RowCoherent'
    BY <1>2, <1>0 DEF Claim, RowStep, TypeOK, history
  <1>3. ASSUME UNCHANGED <<status, result, takenOver>> PROVE RowCoherent'
    BY <1>3, <1>0 DEF RowStep
  <1>4. ASSUME NEW h \in Handler, Save(h) PROVE RowCoherent'
    <2>1. CASE ~Exists(target[h])
      BY <1>4, <2>1, <1>3 DEF Save, history
    <2>2. CASE takenOver[target[h]]
      <3>1. UNCHANGED takenOver
        BY <1>4 DEF Save, history
      <3>2. \A r \in Request : r # target[h] =>
               status'[r] = status[r] /\ result'[r] = result[r]
        BY <1>4 DEF Save, TypeOK
      <3> QED
        BY <3>1, <3>2, <2>2, <1>0 DEF RowStep
    <2>3. CASE Exists(target[h]) /\ ~takenOver[target[h]]
      <3>1. /\ target[h] \in Request /\ verdict[h] \in Verdict
            /\ status' = [status EXCEPT ![target[h]] = verdict[h].status]
            /\ result' = [result EXCEPT ![target[h]] = verdict[h].result]
        BY <1>4, <2>3, SaveWritesVerdict
      <3>2. UNCHANGED takenOver
        BY <1>4 DEF Save, history
      <3>3. verdict[h] = [status |-> verdict[h].status, result |-> verdict[h].result]
        BY <3>1, VerdictFacts
      <3>4. [status |-> status'[target[h]], result |-> result'[target[h]]] \in Verdict
        BY <3>1, <3>3 DEF TypeOK
      <3>5. \A r \in Request : r # target[h] =>
               status'[r] = status[r] /\ result'[r] = result[r]
        BY <3>1 DEF TypeOK
      <3> QED
        BY <3>2, <3>4, <3>5 DEF RowCoherent
    <2> QED
      BY <2>1, <2>2, <2>3
  <1>5. ASSUME NEW h \in Handler, CommitRecovery(h) PROVE RowCoherent'
    BY <1>5, <1>0, RecoveryTakesOver DEF CommitRecovery, RowStep
  <1>6. ASSUME NEW h \in Handler, DeleteCommit(h) PROVE RowCoherent'
    BY <1>6, <1>0 DEF DeleteCommit, RowStep, history
  <1> QED
    BY <1>1, <1>2, <1>3, <1>4, <1>5, <1>6, PassingFacts
    DEF Next, Call, Progress, Miss, Load, ProviderUnavailable, WorkflowEnds, Remember,
        StaleCheck, DeadlockAbort, SweepStart, DeleteBegin, Interrupt, Tick,
        Arrive, Reach, Decide, vars, rows, history

\* Memory items appear only under an execution that is about to save its answer.
LEMMA Memory_step == OwnershipInv /\ [Next]_vars => MemoryOnlyOfAnswers'
  <1> SUFFICES ASSUME OwnershipInv, [Next]_vars PROVE MemoryOnlyOfAnswers'
    OBVIOUS
  <1> USE LifecycleAssumption, TakenOverFacts DEF OwnershipInv, history
  <1>0. ASSUME UNCHANGED remembered, \A r \in Request : takenOver[r] => takenOver'[r],
               \A r \in Request : \/ status'[r] = status[r]
                                  \/ takenOver'[r]
                                  \/ remembered[r] = 0
                                  \/ status'[r] \in {"running", "completed", "deleted"}
        PROVE  MemoryOnlyOfAnswers'
    BY <1>0 DEF MemoryOnlyOfAnswers
  <1>1. ASSUME NEW r \in Request, Accept(r) PROVE MemoryOnlyOfAnswers'
    <2>1. remembered[r] \in Nat /\ status[r] = "none"
      BY <1>1 DEF Accept, TypeOK
    <2>2. takenOver[r] \/ remembered[r] = 0
      BY <2>1 DEF MemoryOnlyOfAnswers
    <2> QED
      BY <1>1, <2>2, <1>0 DEF Accept, TypeOK
  <1>2. ASSUME NEW h \in Handler, Claim(h) PROVE MemoryOnlyOfAnswers'
    BY <1>2, <1>0 DEF Claim, TypeOK
  <1>3. ASSUME UNCHANGED <<status, takenOver, remembered>> PROVE MemoryOnlyOfAnswers'
    BY <1>3, <1>0
  <1>4. ASSUME NEW h \in Handler, Remember(h) PROVE MemoryOnlyOfAnswers'
    <2>1. /\ target[h] \in Request
          /\ ~takenOver[target[h]] =>
                /\ remembered[target[h]] = 0
                /\ status[target[h]] \in {"running", "deleted"}
      BY <1>4 DEF Remember, LocalsInv, OwnerInv, Executing, Running
    <2>2. UNCHANGED <<status, takenOver>>
      BY <1>4 DEF Remember, rows
    <2>3. \A r \in Request : \/ remembered'[r] = remembered[r]
                             \/ r = target[h] /\ remembered'[r] = remembered[r] + 1
      BY <1>4 DEF Remember, TypeOK
    <2>4. ASSUME NEW r \in Request, ~takenOver[r], remembered'[r] > 0
          PROVE  remembered'[r] = 1 /\ status[r] \in {"running", "completed", "deleted"}
      <3>1. CASE remembered'[r] = remembered[r]
        BY <2>4, <3>1 DEF MemoryOnlyOfAnswers
      <3>2. CASE r = target[h] /\ remembered'[r] = remembered[r] + 1
        BY <2>1, <2>4, <3>2
      <3> QED
        BY <2>3, <3>1, <3>2
    <2> QED
      BY <2>2, <2>4 DEF MemoryOnlyOfAnswers
  <1>5. ASSUME NEW h \in Handler, Save(h) PROVE MemoryOnlyOfAnswers'
    <2>1. UNCHANGED <<takenOver, remembered>>
      BY <1>5 DEF Save
    <2>2. \A r \in Request : r # target[h] => status'[r] = status[r]
      BY <1>5 DEF Save, TypeOK
    <2>3. CASE takenOver[target[h]] \/ ~Exists(target[h])
      <3>1. \A r \in Request : status'[r] = status[r] \/ takenOver'[r]
        BY <1>5, <2>1, <2>2, <2>3 DEF Save, TypeOK
      <3> QED
        BY <2>1, <3>1, <1>0
    <2>4. CASE Exists(target[h]) /\ ~takenOver[target[h]]
      <3>1. /\ target[h] \in Request
            /\ status' = [status EXCEPT ![target[h]] = verdict[h].status]
        BY <1>5, <2>4, SaveWritesVerdict
      <3>2. remembered[target[h]] > 0 => verdict[h].status = "completed"
        BY <1>5, <2>4 DEF Save, OwnerInv, Executing, Running
      <3>3. remembered[target[h]] = 0 \/ status'[target[h]] = "completed"
        BY <3>1, <3>2 DEF TypeOK
      <3> QED
        BY <2>1, <2>2, <3>3, <1>0
    <2> QED
      BY <2>3, <2>4
  <1>6. ASSUME NEW h \in Handler, CommitRecovery(h) PROVE MemoryOnlyOfAnswers'
    BY <1>6, <1>0, RecoveryTakesOver DEF CommitRecovery
  <1>7. ASSUME NEW h \in Handler, DeleteCommit(h) PROVE MemoryOnlyOfAnswers'
    BY <1>7, <1>0 DEF DeleteCommit
  <1> QED
    BY <1>1, <1>2, <1>3, <1>4, <1>5, <1>6, <1>7, PassingFacts
    DEF Next, Call, Progress, Miss, Load, ProviderUnavailable, WorkflowEnds,
        StaleCheck, DeadlockAbort, SweepStart, DeleteBegin, Interrupt, Tick,
        Arrive, Reach, Decide, vars, rows, history

-----------------------------------------------------------------------------
(* The safety theorems.                                                    *)

LEMMA Ownership_init == Init => OwnershipInv
  BY Types_init DEF Init, OwnershipInv, LocksInv, OwnerInv, RowCoherent,
     MemoryOnlyOfAnswers, Executing, Running, takenOver

LEMMA Ownership_step == OwnershipInv /\ [Next]_vars => OwnershipInv'
  BY TypeOK_step, LocalsInv_step, LocksInv_step, OwnerInv_step, RowCoherent_step,
     Memory_step DEF OwnershipInv

\* Whoever executes, marks or deletes a request holds it alone, and table,
\* memory store and locals agree with each other.
THEOREM Ownership == Spec => []OwnershipInv
  BY Ownership_init, Ownership_step, PTL DEF Spec

\* Until stale recovery takes a request over, the guarded UPDATE of execute()
\* keeps it to one execution, however many workers race.
THEOREM SingleOwner == Spec => []OneOwner
  <1>1. OwnershipInv => OneOwner
    BY DEF OwnershipInv, OwnerInv, OneOwner, Owners, LocalsInv, Executing
  <1> QED
    BY <1>1, Ownership, PTL

\* Status and result of a request nobody took over belong together.
THEOREM CoherentRows == Spec => []RowCoherent
  <1>1. OwnershipInv => RowCoherent
    BY DEF OwnershipInv
  <1> QED
    BY <1>1, Ownership, PTL

\* A request nobody took over leaves at most one memory item, of its answer.
THEOREM MemoryOfAnswers == Spec => []MemoryOnlyOfAnswers
  <1>1. OwnershipInv => MemoryOnlyOfAnswers
    BY DEF OwnershipInv
  <1> QED
    BY <1>1, Ownership, PTL

\* An answered request keeps its status and answer until its session goes.
LEMMA Final_step ==
    ASSUME OwnershipInv, [Next]_vars, NEW r \in Request PROVE KeepsAnswer(r)
  <1> SUFFICES ASSUME status[r] = "completed", ~takenOver[r]
               PROVE  \/ status'[r] = "deleted"
                      \/ status'[r] = "completed" /\ result'[r] = result[r]
    BY DEF KeepsAnswer
  <1> USE DEF OwnershipInv
  <1>0. CASE UNCHANGED <<status, result>>
    BY <1>0
  <1>1. ASSUME NEW q \in Request, Accept(q) PROVE UNCHANGED <<status[r], result[r]>>
    BY <1>1 DEF Accept, TypeOK
  <1>2. ASSUME NEW h \in Handler, Claim(h)
        PROVE  UNCHANGED <<status[r], result[r]>>
    BY <1>2 DEF Claim, Executable, TypeOK
  <1>3. ASSUME NEW h \in Handler, Save(h) PROVE UNCHANGED <<status[r], result[r]>>
    <2>1. Executing(h)
      BY <1>3 DEF Save, Executing, Running
    <2>2. target[h] # r
      BY <2>1 DEF OwnerInv
    <2> QED
      BY <1>3, <2>2 DEF Save, TypeOK
  <1>4. ASSUME NEW h \in Handler, CommitRecovery(h) PROVE UNCHANGED <<status[r], result[r]>>
    <2>1. r \notin locked[h]
      BY <1>4 DEF CommitRecovery, LocksInv
    <2> QED
      BY <1>4, <2>1 DEF CommitRecovery
  <1>5. ASSUME NEW h \in Handler, DeleteCommit(h)
        PROVE  status'[r] = "deleted" \/ UNCHANGED <<status[r], result[r]>>
    BY <1>5 DEF DeleteCommit
  <1> QED
    BY <1>0, <1>1, <1>2, <1>3, <1>4, <1>5, PassingFacts
    DEF Next, Call, Progress, Miss, Load, ProviderUnavailable, WorkflowEnds, Remember,
        StaleCheck, DeadlockAbort, SweepStart, DeleteBegin, Interrupt, Tick,
        Arrive, Reach, Decide, vars, rows, history

\* A completed request nobody took over never changes again, whatever late
\* save, sweep or repeated execute() still runs.
THEOREM AnswersAreFinal == Spec => CompletedIsFinal
  <1>1. OwnershipInv /\ [Next]_vars => [\A r \in Request : KeepsAnswer(r)]_vars
    BY Final_step
  <1> QED
    BY <1>1, Ownership, PTL DEF Spec, CompletedIsFinal

-----------------------------------------------------------------------------
(* The table implements the ledger.                                        *)

\* The ledger and the table are about the same values.
LEMMA LedgerData ==
    /\ Ledger!Executable = Executable
    /\ Ledger!Verdict = Verdict
    /\ Ledger!Result = Result
  BY DEF Executable, Verdict, Result, Ledger!Executable, Ledger!Verdict, Ledger!Result

LEMMA Ledger_init == Init => Ledger!Init
  <1> SUFFICES ASSUME Init PROVE Ledger!Init
    OBVIOUS
  <1>1. \A r \in Request : (takeovers[r] > 0) = FALSE
    BY DEF Init
  <1>2. takenOver = [r \in Request |-> FALSE]
    BY <1>1 DEF takenOver
  <1> QED
    BY <1>2 DEF Init, Ledger!Init

\* The save of an execution records its verdict, or overwrites a request that
\* was taken over; any other step of a handler maps to one of the ledger or
\* to a stutter.
LEMMA Ledger_save ==
    ASSUME OwnershipInv, NEW h \in Handler, Save(h)
    PROVE  [Ledger!Next]_(Ledger!ledger)
  <1> USE DEF OwnershipInv
  <1>0. PICK r \in Request : r = target[h]
    BY DEF LocalsInv, Running, Save
  <1>1. verdict[h] \in Verdict /\ UNCHANGED takenOver
    BY TakenOverFacts DEF LocalsInv, Running, Save, history
  <1>2. CASE ~Exists(r)
    BY <1>0, <1>1, <1>2 DEF Save, Ledger!ledger
  <1>3. CASE Exists(r) /\ ~takenOver[r]
    <2>1. /\ status[r] = "running"
          /\ status' = [status EXCEPT ![r] = verdict[h].status]
          /\ result' = [result EXCEPT ![r] = verdict[h].result]
      BY <1>0, <1>3, SaveWritesVerdict
    <2>2. Ledger!Finish(r, verdict[h])
      BY <1>1, <2>1 DEF Ledger!Finish
    <2> QED
      BY <1>1, <2>2, LedgerData DEF Ledger!Next
  <1>4. CASE Exists(r) /\ takenOver[r]
    <2> DEFINE s == status'[r]
               x == result'[r]
    <2>1. \A q \in Request : q # r => status'[q] = status[q] /\ result'[q] = result[q]
      BY <1>0, <1>1, <1>4 DEF Save, TypeOK
    <2>2. verdict[h].status \in Executable \cup {"completed"} /\ verdict[h].result \in Result
      BY <1>1, VerdictFacts DEF Executable
    <2>3. status[r] \in Executable \cup {"running", "completed"} /\ result[r] \in Result
      BY <1>0, <1>1, <1>4 DEF TypeOK, Status, Exists, Executable
    <2>4. s \in Executable \cup {"running", "completed"}
      BY <1>0, <1>1, <1>4, <2>2, <2>3 DEF Save, TypeOK
    <2>5. x \in Result
      BY <1>0, <1>1, <1>4, <2>2, <2>3 DEF Save, TypeOK
    <2>6. status' = [status EXCEPT ![r] = s] /\ result' = [result EXCEPT ![r] = x]
      <3>1. Next
        BY DEF Next, Progress
      <3>2. status' \in [Request -> Status] /\ result' \in [Request -> Result]
        BY <3>1, TypeOK_step DEF TypeOK
      <3> QED
        BY <2>1, <3>2 DEF TypeOK
    <2>7. Ledger!Overwrite(r, s, x)
      BY <1>0, <1>1, <1>4, <2>6 DEF Ledger!Overwrite, Exists
    <2> QED
      BY <1>1, <2>4, <2>5, <2>7, LedgerData DEF Ledger!Next
  <1> QED
    BY <1>2, <1>3, <1>4

LEMMA Ledger_step == OwnershipInv /\ [Next]_vars => [Ledger!Next]_(Ledger!ledger)
  <1> SUFFICES ASSUME OwnershipInv, [Next]_vars PROVE [Ledger!Next]_(Ledger!ledger)
    OBVIOUS
  <1>0. CASE UNCHANGED <<status, result, takenOver>>
    BY <1>0 DEF Ledger!ledger
  <1>1. ASSUME NEW r \in Request, Accept(r) PROVE Ledger!Next
    <2>1. Ledger!Accept(r)
      BY <1>1, TakenOverFacts DEF Accept, Ledger!Accept, history
    <2> QED
      BY <2>1 DEF Ledger!Next
  <1>2. ASSUME NEW h \in Handler, Claim(h) PROVE Ledger!Next
    <2>1. Ledger!Start(target[h])
      BY <1>2, LedgerData, TakenOverFacts DEF Claim, Ledger!Start, history
    <2>2. target[h] \in Request
      BY <1>2 DEF Claim, OwnershipInv, LocalsInv
    <2> QED
      BY <2>1, <2>2 DEF Ledger!Next
  <1>3. ASSUME NEW h \in Handler, CommitRecovery(h) PROVE Ledger!Next
    <2>1. takenOver' = [r \in Request |-> takenOver[r] \/ r \in locked[h]]
      <3>1. TypeOK
        BY DEF OwnershipInv
      <3>2. \A r \in Request : takeovers'[r] > 0 <=> takenOver[r] \/ r \in locked[h]
        BY <1>3, <3>1, RecoveryTakesOver DEF takenOver
      <3> QED
        BY <3>2 DEF takenOver
    <2>3. Ledger!TakeOver(locked[h])
      BY <1>3, <2>1 DEF CommitRecovery, OwnershipInv, LocksInv, Ledger!TakeOver
    <2>2. locked[h] \in SUBSET Request
      BY DEF OwnershipInv, TypeOK
    <2> QED
      BY <2>2, <2>3 DEF Ledger!Next
  <1>4. ASSUME NEW h \in Handler, DeleteCommit(h) PROVE Ledger!Next
    <2>1. Ledger!Remove(locked[h])
      BY <1>4, TakenOverFacts
      DEF DeleteCommit, OwnershipInv, LocksInv, Exists, Ledger!Remove, history
    <2>2. locked[h] \in SUBSET Request
      BY DEF OwnershipInv, TypeOK
    <2> QED
      BY <2>1, <2>2 DEF Ledger!Next
  <1> QED
    BY <1>0, <1>1, <1>2, <1>3, <1>4, Ledger_save, PassingFacts, TakenOverFacts
    DEF Next, Call, Progress, Miss, Load, ProviderUnavailable, WorkflowEnds, Remember,
        StaleCheck, DeadlockAbort, SweepStart, DeleteBegin, Interrupt, Tick,
        Arrive, Reach, Decide, vars, rows, history

\* Handlers over a table with row locks, crashes and ORM saves that skip
\* unchanged columns give a client what the ledger promises.
THEOREM TableImplementsLedger == Spec => ImplementsLedger
  BY Ledger_init, Ledger_step, Ownership, PTL DEF Spec, ImplementsLedger, Ledger!Spec

-----------------------------------------------------------------------------
(* Memory items and takeovers.                                             *)

\* Counting handlers.
LEMMA HandlerSets ==
    ASSUME NEW T \in SUBSET Handler, NEW S \in SUBSET T
    PROVE  /\ Cardinality(S) \in Nat /\ Cardinality(T) \in Nat
           /\ Cardinality(S) <= Cardinality(T)
  <1>1. IsFiniteSet(Handler)
    BY LifecycleAssumption
  <1>2. IsFiniteSet(T)
    BY <1>1, FS_Subset
  <1> QED
    BY <1>2, FS_Subset, FS_CardinalityType

\* A set without one of the members of another one.
LEMMA HandlerLeaves ==
    ASSUME NEW T \in SUBSET Handler, NEW h \in T, NEW S \in SUBSET (T \ {h})
    PROVE  Cardinality(S) + 1 <= Cardinality(T)
  <1>1. IsFiniteSet(T)
    BY LifecycleAssumption, FS_Subset
  <1>2. Cardinality(T \ {h}) = Cardinality(T) - 1
    BY <1>1, FS_RemoveElement
  <1>3. Cardinality(S) <= Cardinality(T \ {h})
    BY HandlerSets
  <1>4. Cardinality(S) \in Nat /\ Cardinality(T) \in Nat
    BY HandlerSets
  <1> QED
    BY <1>2, <1>3, <1>4

\* A set with at most one member more.
LEMMA HandlerJoins ==
    ASSUME NEW T \in SUBSET Handler, NEW h \in Handler, NEW S \in SUBSET (T \cup {h})
    PROVE  Cardinality(S) <= Cardinality(T) + 1
  <1>1. IsFiniteSet(T)
    BY LifecycleAssumption, FS_Subset
  <1>5. Cardinality(T) \in Nat
    BY HandlerSets
  <1>6. Cardinality(T \cup {h}) = IF h \in T THEN Cardinality(T) ELSE Cardinality(T) + 1
    BY <1>1, FS_AddElement
  <1>2. Cardinality(T \cup {h}) <= Cardinality(T) + 1
    BY <1>5, <1>6
  <1>3. Cardinality(S) <= Cardinality(T \cup {h})
    BY HandlerSets
  <1>4. Cardinality(S) \in Nat /\ Cardinality(T) \in Nat /\ Cardinality(T \cup {h}) \in Nat
    BY HandlerSets
  <1> QED
    BY <1>2, <1>3, <1>4

\* What a request has left and may still leave is within its takeovers.
ItemsBound(r) ==
    takeovers[r] < MaxTakeovers =>
        remembered[r] + Cardinality(Pending(r)) + Claimable(r) <= 1 + takeovers[r]

LEMMA ItemsFacts ==
    ASSUME TypeOK, TypeOK', NEW r \in Request
    PROVE  /\ remembered[r] \in Nat /\ remembered'[r] \in Nat
           /\ takeovers[r] \in Nat /\ takeovers'[r] \in Nat
           /\ Claimable(r) \in {0, 1} /\ Claimable(r)' \in {0, 1}
           /\ Pending(r) \in SUBSET Handler /\ Pending(r)' \in SUBSET Handler
           /\ Cardinality(Pending(r)) \in Nat /\ Cardinality(Pending(r)') \in Nat
           /\ status'[r] = status[r] => Claimable(r)' = Claimable(r)
  <1>1. Pending(r) \in SUBSET Handler /\ Pending(r)' \in SUBSET Handler
    BY DEF Pending, Owners
  <1>2. Cardinality(Pending(r)) \in Nat /\ Cardinality(Pending(r)') \in Nat
    BY <1>1, HandlerSets
  <1>3. /\ Claimable(r) \in {0, 1} /\ Claimable(r)' \in {0, 1}
        /\ status'[r] = status[r] => Claimable(r)' = Claimable(r)
    BY DEF Claimable
  <1> QED
    BY <1>1, <1>2, <1>3, LifecycleAssumption DEF TypeOK

\* Nobody becomes pending by going on, or by ending.
LEMMA PendingShrinks ==
    ASSUME NEW r \in Request,
           \A k \in Handler : Executing(k)' =>
               /\ Executing(k) /\ target'[k] = target[k]
               /\ pc[k] = "saving" => pc'[k] = "saving" /\ verdict'[k] = verdict[k]
    PROVE  Pending(r)' \subseteq Pending(r)
  BY DEF Pending, Owners

\* A step by which nobody becomes pending, nothing is remembered and the row
\* becomes no more claimable.
LEMMA Items_quiet ==
    ASSUME TypeOK, TypeOK', NEW r \in Request, ItemsBound(r),
           Pending(r)' \subseteq Pending(r),
           remembered'[r] = remembered[r], takeovers'[r] = takeovers[r],
           Claimable(r)' <= Claimable(r)
    PROVE  ItemsBound(r)'
  <1>1. Cardinality(Pending(r)') <= Cardinality(Pending(r))
    BY ItemsFacts, HandlerSets
  <1> QED
    BY <1>1, ItemsFacts, LifecycleAssumption DEF ItemsBound

\* A step that leaves the table and the memory alone and starts no execution.
LEMMA Items_still ==
    ASSUME TypeOK, TypeOK', NEW r \in Request, ItemsBound(r),
           UNCHANGED <<rows, remembered>>,
           \A k \in Handler : Executing(k)' =>
               /\ Executing(k) /\ target'[k] = target[k]
               /\ pc[k] = "saving" => pc'[k] = "saving" /\ verdict'[k] = verdict[k]
    PROVE  ItemsBound(r)'
  <1>1. Pending(r)' \subseteq Pending(r)
    BY PendingShrinks
  <1>2. UNCHANGED <<status, takeovers, remembered>>
    BY DEF rows, history
  <1> QED
    BY <1>1, <1>2, Items_quiet, ItemsFacts

LEMMA Items_step ==
    ASSUME OwnershipInv, TypeOK', [Next]_vars, NEW r \in Request, ItemsBound(r)
    PROVE  ItemsBound(r)'
  <1> USE DEF OwnershipInv, Executing, Running
  <1>0. TypeOK
    OBVIOUS
  <1>1. ASSUME NEW q \in Request, Accept(q) PROVE ItemsBound(r)'
    <2>1. /\ UNCHANGED <<takeovers, remembered, pc, target, verdict>>
          /\ status[q] = "none" /\ status' = [status EXCEPT ![q] = "accepted"]
      BY <1>1 DEF Accept, history, locals
    <2>2. Claimable(r)' <= Claimable(r)
      BY <2>1, <1>0 DEF Claimable, Executable, TypeOK
    <2>3. Pending(r)' \subseteq Pending(r)
      BY <2>1, PendingShrinks
    <2> QED
      BY <2>1, <2>2, <2>3, Items_quiet
  <1>2. ASSUME NEW h \in Handler, Claim(h) PROVE ItemsBound(r)'
    <2> DEFINE q == target[h]
    <2>1. /\ UNCHANGED <<takeovers, remembered, target, verdict>>
          /\ q \in Request /\ status[q] \in Executable
          /\ status' = [status EXCEPT ![q] = "running"]
          /\ pc' = [pc EXCEPT ![h] = "claimed"]
      BY <1>2 DEF Claim, history, locals, LocalsInv
    <2> HIDE DEF q
    <2>2. q = target[h]
      BY DEF q
    <2>3. CASE r = q
      <3>1. Claimable(r) = 1 /\ Claimable(r)' = 0
        BY <1>0, <2>1, <2>3 DEF Claimable, Executable, TypeOK
      <3>2. Pending(r)' \subseteq Pending(r) \cup {h}
        BY <1>0, <2>1 DEF Pending, Owners, TypeOK
      <3>3. Cardinality(Pending(r)') <= Cardinality(Pending(r)) + 1
        BY <1>0, <3>2, ItemsFacts, HandlerJoins
      <3> QED
        BY <1>0, <2>1, <3>1, <3>3, ItemsFacts DEF ItemsBound
    <2>4. CASE r # q
      <3>1. Pending(r)' \subseteq Pending(r)
        BY <1>0, <2>1, <2>2, <2>4 DEF Pending, Owners, TypeOK
      <3>2. status'[r] = status[r]
        BY <1>0, <2>1, <2>4 DEF TypeOK
      <3> QED
        BY <1>0, <2>1, <3>1, <3>2, Items_quiet, ItemsFacts
    <2> QED
      BY <2>3, <2>4
  <1>3. ASSUME NEW h \in Handler, Return(h), UNCHANGED <<rows, remembered>>
        PROVE  ItemsBound(r)'
    <2>1. \A k \in Handler : Executing(k)' =>
             /\ Executing(k) /\ target'[k] = target[k]
             /\ pc[k] = "saving" => pc'[k] = "saving" /\ verdict'[k] = verdict[k]
      BY <1>0, <1>3 DEF Return, TypeOK
    <2> QED
      BY <1>0, <1>3, <2>1, Items_still
  <1>4. ASSUME NEW h \in Handler, ProviderUnavailable(h) \/ WorkflowEnds(h) \/ Miss(h)
        PROVE  ItemsBound(r)'
    <2>1. /\ pc[h] \notin {"saving"} /\ UNCHANGED <<rows, remembered, target>>
          /\ pc[h] = "working" \/ pc'[h] = "missed"
          /\ pc[h] = "working" \/ UNCHANGED verdict
          /\ \A k \in Handler : k # h => pc'[k] = pc[k] /\ verdict'[k] = verdict[k]
      <3>1. CASE ProviderUnavailable(h)
        BY <1>0, <3>1 DEF ProviderUnavailable, TypeOK
      <3>2. CASE WorkflowEnds(h)
        BY <1>0, <3>2 DEF WorkflowEnds, TypeOK
      <3>3. CASE Miss(h)
        BY <1>0, <3>3 DEF Miss, locals, TypeOK
      <3> QED
        BY <1>4, <3>1, <3>2, <3>3
    <2> QED
      BY <1>0, <2>1, Items_still
  <1>5. ASSUME NEW h \in Handler, Load(h) \/ StaleCheck(h) PROVE ItemsBound(r)'
    <2>1. CASE Return(h)
      BY <1>5, <2>1, <1>3 DEF Load, StaleCheck
    <2>2. CASE ~Return(h)
      <3>1. /\ pc[h] = "claimed" \/ pc'[h] = "recovering"
            /\ pc[h] # "saving"
            /\ \A k \in Handler : k # h => pc'[k] = pc[k]
            /\ UNCHANGED <<rows, remembered, target, verdict>>
        BY <1>0, <1>5, <2>2 DEF Load, StaleCheck, locals, TypeOK
      <3> QED
        BY <1>0, <3>1, Items_still
    <2> QED
      BY <2>1, <2>2
  <1>6. ASSUME NEW h \in Handler, Remember(h) PROVE ItemsBound(r)'
    <2>1. /\ pc[h] = "remembering" /\ verdict[h].status = "completed"
          /\ target[h] \in Request
          /\ pc' = [pc EXCEPT ![h] = "saving"]
          /\ UNCHANGED <<status, takeovers, target, verdict>>
          /\ UNCHANGED remembered \/ remembered' = [remembered EXCEPT ![target[h]] = @ + 1]
      BY <1>6 DEF Remember, rows, history, locals, LocalsInv
    <2>2. CASE r = target[h]
      <3>1. h \in Pending(r)
        BY <2>1, <2>2 DEF Pending, Owners
      <3>2. Pending(r)' \subseteq Pending(r) \ {h}
        BY <1>0, <2>1, <2>2 DEF Pending, Owners, TypeOK
      <3>3. Cardinality(Pending(r)') + 1 <= Cardinality(Pending(r))
        BY <1>0, <3>1, <3>2, ItemsFacts, HandlerLeaves
      <3>4. remembered'[r] <= remembered[r] + 1
        <4>1. CASE UNCHANGED remembered
          BY <1>0, <4>1, ItemsFacts
        <4>2. CASE remembered' = [remembered EXCEPT ![target[h]] = @ + 1]
          <5>1. remembered'[r] = remembered[r] + 1
            BY <1>0, <2>2, <4>2 DEF TypeOK
          <5> QED
            BY <1>0, <5>1, ItemsFacts
        <4> QED
          BY <2>1, <4>1, <4>2
      <3> QED
        BY <1>0, <2>1, <3>3, <3>4, ItemsFacts DEF ItemsBound
    <2>3. CASE r # target[h]
      <3>1. remembered'[r] = remembered[r]
        BY <1>0, <2>1, <2>3 DEF TypeOK
      <3>2. Pending(r)' \subseteq Pending(r)
        BY <1>0, <2>1, <2>3 DEF Pending, Owners, TypeOK
      <3> QED
        BY <1>0, <2>1, <3>1, <3>2, Items_quiet, ItemsFacts
    <2> QED
      BY <2>2, <2>3
  <1>7. ASSUME NEW h \in Handler, Save(h) PROVE ItemsBound(r)'
    <2>1. /\ pc[h] = "saving" /\ target[h] \in Request
          /\ Return(h) /\ UNCHANGED <<takeovers, remembered>>
          /\ \/ status' = status
             \/ status' = [status EXCEPT ![target[h]] = verdict[h].status]
      BY <1>7 DEF Save, history, LocalsInv
    <2>2. \A k \in Handler : Executing(k)' =>
             /\ k # h /\ Executing(k) /\ target'[k] = target[k]
             /\ pc'[k] = pc[k] /\ verdict'[k] = verdict[k]
      BY <1>0, <2>1 DEF Return, TypeOK
    <2>3. Pending(r)' \subseteq Pending(r) \ {h}
      BY <2>2 DEF Pending, Owners
    <2>4. CASE status'[r] = status[r]
      BY <1>0, <2>1, <2>3, <2>4, Items_quiet, ItemsFacts
    <2>5. CASE r = target[h] /\ status'[r] = verdict[h].status
      <3>1. CASE verdict[h].status = "completed"
        <4>1. Claimable(r)' = 0
          BY <2>5, <3>1 DEF Claimable, Executable
        <4> QED
          BY <1>0, <2>1, <2>3, <4>1, Items_quiet, ItemsFacts
      <3>2. CASE verdict[h].status # "completed"
        <4>1. h \in Pending(r)
          BY <2>1, <2>5, <3>2 DEF Pending, Owners
        <4>2. Cardinality(Pending(r)') + 1 <= Cardinality(Pending(r))
          BY <1>0, <2>3, <4>1, ItemsFacts, HandlerLeaves
        <4> QED
          BY <1>0, <2>1, <4>2, ItemsFacts DEF ItemsBound
      <3> QED
        BY <3>1, <3>2
    <2> QED
      BY <1>0, <2>1, <2>4, <2>5 DEF TypeOK
  <1>8. ASSUME NEW h \in Handler, MarkStale(h) \/ DeleteRow(h) PROVE ItemsBound(r)'
    <2>1. /\ pc[h] \in {"recovering", "deleting"}
          /\ target' = [target EXCEPT ![h] = NoRequest]
          /\ UNCHANGED <<rows, remembered, pc, verdict>>
      BY <1>8, PassingFacts
    <2> QED
      BY <1>0, <2>1, Items_still DEF TypeOK
  <1>9. ASSUME NEW h \in Handler,
               \/ \E q \in Request : Arrive(h, q) \/ Reach(h, q)
               \/ SweepStart(h)
               \/ \E s \in Session : DeleteBegin(h, s)
        PROVE  ItemsBound(r)'
    <2>1. /\ UNCHANGED <<rows, remembered, verdict>>
          /\ ~Executing(h)' /\ \A k \in Handler : k # h => pc'[k] = pc[k] /\ target'[k] = target[k]
      <3>1. ASSUME NEW q \in Request, Arrive(h, q)
            PROVE  /\ UNCHANGED <<rows, remembered, verdict>>
                   /\ ~Executing(h)'
                   /\ \A k \in Handler : k # h => pc'[k] = pc[k] /\ target'[k] = target[k]
        BY <1>0, <3>1 DEF Arrive, TypeOK
      <3>2. ASSUME NEW q \in Request, Reach(h, q)
            PROVE  /\ UNCHANGED <<rows, remembered, verdict>>
                   /\ ~Executing(h)'
                   /\ \A k \in Handler : k # h => pc'[k] = pc[k] /\ target'[k] = target[k]
        BY <1>0, <3>2 DEF Reach, TypeOK
      <3>3. CASE SweepStart(h)
        BY <1>0, <3>3 DEF SweepStart, locals, TypeOK
      <3>4. ASSUME NEW s \in Session, DeleteBegin(h, s)
            PROVE  /\ UNCHANGED <<rows, remembered, verdict>>
                   /\ ~Executing(h)'
                   /\ \A k \in Handler : k # h => pc'[k] = pc[k] /\ target'[k] = target[k]
        BY <1>0, <3>4 DEF DeleteBegin, locals, TypeOK
      <3> QED
        BY <1>9, <3>1, <3>2, <3>3, <3>4
    <2> QED
      BY <1>0, <2>1, Items_still
  <1>10. ASSUME NEW h \in Handler, CommitRecovery(h) PROVE ItemsBound(r)'
    <2>1. \A k \in Handler : Executing(k)' =>
             /\ Executing(k) /\ target'[k] = target[k]
             /\ pc[k] = "saving" => pc'[k] = "saving" /\ verdict'[k] = verdict[k]
      BY <1>0, <1>10 DEF CommitRecovery, Return, TypeOK
    <2>2. Pending(r)' \subseteq Pending(r)
      BY <2>1, PendingShrinks
    <2>3. UNCHANGED remembered
      BY <1>10 DEF CommitRecovery
    <2>4. CASE r \in locked[h]
      <3>1. \/ takeovers[r] < MaxTakeovers /\ takeovers'[r] = takeovers[r] + 1
            \/ takeovers[r] >= MaxTakeovers /\ takeovers'[r] = takeovers[r]
        BY <1>0, <1>10, <2>4, ItemsFacts, LifecycleAssumption DEF CommitRecovery
      <3>2. Cardinality(Pending(r)') <= Cardinality(Pending(r))
        BY <1>0, <2>2, ItemsFacts, HandlerSets
      <3> QED
        BY <1>0, <2>3, <3>1, <3>2, ItemsFacts, LifecycleAssumption DEF ItemsBound
    <2>5. CASE r \notin locked[h]
      <3>1. takeovers'[r] = takeovers[r] /\ status'[r] = status[r]
        BY <1>0, <1>10, <2>5, RecoveryTakesOver DEF CommitRecovery
      <3> QED
        BY <1>0, <2>2, <2>3, <3>1, Items_quiet, ItemsFacts
    <2> QED
      BY <2>4, <2>5
  <1>11. ASSUME NEW h \in Handler, DeleteCommit(h) PROVE ItemsBound(r)'
    <2>1. \A k \in Handler : Executing(k)' =>
             /\ Executing(k) /\ target'[k] = target[k]
             /\ pc[k] = "saving" => pc'[k] = "saving" /\ verdict'[k] = verdict[k]
      BY <1>0, <1>11 DEF DeleteCommit, Return, TypeOK
    <2>2. Pending(r)' \subseteq Pending(r)
      BY <2>1, PendingShrinks
    <2>3. /\ UNCHANGED <<takeovers, remembered>>
          /\ status'[r] \in {status[r], "deleted"}
      BY <1>11 DEF DeleteCommit, history
    <2>4. Claimable(r)' <= Claimable(r)
      BY <2>3 DEF Claimable, Executable
    <2> QED
      BY <1>0, <2>2, <2>3, <2>4, Items_quiet
  <1>12. CASE Tick
    <2>1. UNCHANGED <<status, takeovers, remembered, pc, target, verdict>>
      BY <1>12 DEF Tick
    <2>2. Pending(r)' \subseteq Pending(r)
      BY <2>1, PendingShrinks
    <2> QED
      BY <1>0, <2>1, <2>2, Items_quiet, ItemsFacts
  <1>13. CASE UNCHANGED vars
    <2>1. UNCHANGED <<rows, remembered, pc, target, verdict>>
      BY <1>13 DEF vars, locals
    <2> QED
      BY <1>0, <2>1, Items_still
  <1> QED
    BY <1>1, <1>2, <1>3, <1>4, <1>5, <1>6, <1>7, <1>8, <1>9, <1>10, <1>11, <1>12, <1>13
    DEF Next, Call, Decide, Progress, DeadlockAbort, Interrupt

LEMMA Items_init == ASSUME Init PROVE ItemsInv
  <1> SUFFICES ASSUME NEW r \in Request
               PROVE  remembered[r] + Cardinality(Pending(r)) + Claimable(r) <= 1 + takeovers[r]
    BY DEF ItemsInv
  <1>1. Pending(r) = {}
    BY DEF Init, Pending, Owners, Executing, Running
  <1>2. Cardinality(Pending(r)) = 0
    BY <1>1, FS_EmptySet
  <1> QED
    BY <1>2 DEF Init, Claimable

\* A request leaves at most one memory item, and one more for each time stale
\* recovery has put its row up for another execution.
THEOREM ItemsPerTakeover == Spec => []ItemPerTakeover
  <1>1. Init => ItemsInv
    BY Items_init
  <1>2. OwnershipInv /\ OwnershipInv' /\ ItemsInv /\ [Next]_vars => ItemsInv'
    <2> SUFFICES ASSUME OwnershipInv, OwnershipInv', ItemsInv, [Next]_vars PROVE ItemsInv'
      OBVIOUS
    <2>1. TypeOK'
      BY DEF OwnershipInv
    <2>2. ASSUME NEW r \in Request PROVE ItemsBound(r)'
      <3>1. ItemsBound(r)
        BY DEF ItemsInv, ItemsBound
      <3> QED
        BY <2>1, <3>1, Items_step
    <2> QED
      BY <2>2 DEF ItemsInv, ItemsBound
  <1>3. OwnershipInv /\ OwnershipInv' /\ ItemsInv => ItemPerTakeover
    <2> SUFFICES ASSUME OwnershipInv, OwnershipInv', ItemsInv, NEW r \in Request,
                        takeovers[r] < MaxTakeovers
                 PROVE  remembered[r] <= 1 + takeovers[r]
      BY DEF ItemPerTakeover
    <2>1. remembered[r] + Cardinality(Pending(r)) + Claimable(r) <= 1 + takeovers[r]
      BY DEF ItemsInv
    <2> QED
      BY <2>1, ItemsFacts DEF OwnershipInv
  <1> QED
    BY <1>1, <1>2, <1>3, Ownership, PTL DEF Spec

-----------------------------------------------------------------------------
(* Recovery, as long as no execution outlives the stale threshold.         *)

LEMMA UndisturbedFacts ==
    /\ UNCHANGED history => \A r \in Request : Undisturbed(r)' <=> Undisturbed(r)
    /\ \A r \in Request : Undisturbed(r) => ~takenOver[r]
  BY DEF Undisturbed, history, takenOver

\* Owners only get fewer when no handler claims a request.
LEMMA OwnersShrink ==
    ASSUME NEW r \in Request,
           \A k \in Handler : Executing(k)' => Executing(k) /\ target'[k] = target[k]
    PROVE  Owners(r)' \subseteq Owners(r)
  BY DEF Owners

\* What the database finds stale has lost its execution, or is a slow one's.
LEMMA StaleIsDead ==
    ASSUME OwnershipInv, RecoveryInv, NEW r \in Request, IsStale(r), Undisturbed(r)
    PROVE  Owners(r) = {}
  <1> SUFFICES ASSUME NEW k \in Owners(r) PROVE FALSE
    OBVIOUS
  <1>1. k \in Handler /\ Executing(k) /\ target[k] = r
    BY DEF Owners
  <1>2. age[r] = elapsed[k] /\ elapsed[k] <= StaleAfter
    BY <1>1 DEF RecoveryInv, IsStale
  <1>3. elapsed[k] \in Nat
    BY <1>1, LifecycleAssumption DEF OwnershipInv, TypeOK
  <1> QED
    BY <1>2, <1>3, LifecycleAssumption DEF IsStale

\* A step by which no execution begins, no row of a running one changes but
\* its deletion, and no recovery selects anything.
LEMMA Recovery_quiet ==
    ASSUME OwnershipInv, RecoveryInv,
           \A k \in Handler : Executing(k)' =>
               Executing(k) /\ target'[k] = target[k] /\ elapsed'[k] = elapsed[k],
           \A r \in Request : Undisturbed(r)' =>
               /\ Undisturbed(r)
               /\ \/ status'[r] = "deleted"
                  \/ status'[r] = status[r] /\ age'[r] = age[r],
           \A g \in Handler : pc'[g] = "recovering" =>
               /\ pc[g] = "recovering"
               /\ victims'[g] \cup locked'[g] \subseteq victims[g] \cup locked[g]
    PROVE  RecoveryInv'
  <1>1. \A r \in Request : Owners(r)' \subseteq Owners(r)
    BY OwnersShrink
  <1>2. ASSUME NEW h \in Handler, Executing(h)', Undisturbed(target[h])'
        PROVE  /\ elapsed'[h] <= StaleAfter
               /\ status'[target'[h]] = "running" => age'[target'[h]] = elapsed'[h]
    <2>1. Executing(h) /\ target'[h] = target[h] /\ elapsed'[h] = elapsed[h]
      BY <1>2
    <2>2. target[h] \in Request
      BY <2>1 DEF OwnershipInv, LocalsInv, Executing
    <2>3. Undisturbed(target[h])
      BY <1>2, <2>1, <2>2
    <2>4. /\ elapsed[h] <= StaleAfter
          /\ status[target[h]] = "running" => age[target[h]] = elapsed[h]
      BY <2>1, <2>3 DEF RecoveryInv
    <2> QED
      BY <1>2, <2>1, <2>2, <2>4
  <1>3. ASSUME NEW g \in Handler, pc'[g] = "recovering",
               NEW q \in victims'[g] \cup locked'[g], Undisturbed(q)'
        PROVE  status'[q] \in {"running", "deleted"} /\ Owners(q)' = {}
    <2>1. pc[g] = "recovering" /\ q \in victims[g] \cup locked[g]
      BY <1>3
    <2>2. q \in Request
      BY <2>1 DEF OwnershipInv, TypeOK
    <2>3. status[q] \in {"running", "deleted"} /\ Owners(q) = {}
      BY <1>3, <2>1, <2>2 DEF RecoveryInv
    <2> QED
      BY <1>1, <1>3, <2>2, <2>3
  <1> QED
    BY <1>2, <1>3 DEF RecoveryInv

\* Neither a claim nor the clock brings a recovery and a live execution together.
LEMMA Recovery_step ==
    ASSUME OwnershipInv, RecoveryInv, [Next]_vars
    PROVE  RecoveryInv'
  <1> USE UndisturbedFacts DEF OwnershipInv, TypeOK, Executing, Running, rows
  <1>1. ASSUME NEW r \in Request, Accept(r) PROVE RecoveryInv'
    <2>1. /\ status[r] = "none"
          /\ status' = [status EXCEPT ![r] = "accepted"]
          /\ UNCHANGED <<age, history, pc, target, elapsed, victims, locked>>
      BY <1>1 DEF Accept, locals, work
    <2>2. \A q \in Request : Owners(q)' = Owners(q)
      BY <2>1 DEF Owners
    <2>3. \A q \in Request : Undisturbed(q)' <=> Undisturbed(q)
      BY <2>1
    <2>4. \A k \in Handler : Executing(k) => target[k] \in Request
      BY DEF LocalsInv
    <2> QED
      BY <2>1, <2>2, <2>3, <2>4 DEF RecoveryInv
  <1>2. ASSUME NEW h \in Handler, Claim(h) PROVE RecoveryInv'
    <2> DEFINE r == target[h]
    <2>0. /\ pc[h] = "claiming" /\ elapsed[h] = 0 /\ victims[h] = {} /\ locked[h] = {}
          /\ r \in Request /\ status[r] \notin {"running", "deleted"}
      BY <1>2 DEF Claim, LocalsInv, LocksInv, Executable
    <2>1. /\ pc' = [pc EXCEPT ![h] = "claimed"]
          /\ status' = [status EXCEPT ![r] = "running"]
          /\ age' = [age EXCEPT ![r] = 0]
          /\ UNCHANGED <<history, target, elapsed, victims, locked>>
      BY <1>2 DEF Claim, locals, work
    <2> HIDE DEF r
    <2>9. r = target[h]
      BY DEF r
    <2>2. ASSUME NEW g \in Handler, pc[g] = "recovering", r \in victims[g] \cup locked[g]
          PROVE  ~Undisturbed(r)
      BY <2>0, <2>2 DEF RecoveryInv
    <2>3. ASSUME NEW g \in Handler, Executing(g), target[g] = r PROVE ~Undisturbed(r)
      BY <2>0, <2>3 DEF OwnerInv
    <2>4. \A k \in Handler : k # h /\ Executing(k)' => Executing(k) /\ target'[k] = target[k]
      BY <2>1
    <2>7. \A q \in Request : Undisturbed(q)' <=> Undisturbed(q)
      BY <2>1
    <2>5. ASSUME NEW k \in Handler, Executing(k)', Undisturbed(target[k])'
          PROVE  /\ elapsed'[k] <= StaleAfter
                 /\ status'[target'[k]] = "running" => age'[target'[k]] = elapsed'[k]
      <3>1. CASE k = h
        BY <2>0, <2>1, <2>9, <3>1, LifecycleAssumption
      <3>2. CASE k # h
        <4>1. Executing(k) /\ target'[k] = target[k] /\ target[k] \in Request
          BY <2>4, <2>5, <3>2 DEF LocalsInv
        <4>2. Undisturbed(target[k])
          BY <2>5, <2>7, <4>1
        <4>3. target[k] # r
          BY <2>3, <4>1, <4>2
        <4>4. /\ elapsed[k] <= StaleAfter
              /\ status[target[k]] = "running" => age[target[k]] = elapsed[k]
          BY <4>1, <4>2 DEF RecoveryInv
        <4> QED
          BY <2>0, <2>1, <4>1, <4>3, <4>4
      <3> QED
        BY <3>1, <3>2
    <2>6. ASSUME NEW g \in Handler, pc'[g] = "recovering",
                 NEW q \in victims'[g] \cup locked'[g], Undisturbed(q)'
          PROVE  status'[q] \in {"running", "deleted"} /\ Owners(q)' = {}
      <3>1. g # h /\ pc[g] = "recovering" /\ q \in victims[g] \cup locked[g] /\ q \in Request
        BY <2>1, <2>6
      <3>2. Undisturbed(q) /\ q # r
        BY <2>2, <2>6, <2>7, <3>1
      <3>3. status[q] \in {"running", "deleted"} /\ Owners(q) = {}
        BY <3>1, <3>2 DEF RecoveryInv
      <3> QED
        BY <2>0, <2>1, <2>4, <2>9, <3>1, <3>2, <3>3 DEF Owners
    <2> QED
      BY <2>5, <2>6 DEF RecoveryInv
  <1>0. ASSUME NEW h \in Handler, Return(h), UNCHANGED <<rows, remembered>>
        PROVE  RecoveryInv'
    <2>1. /\ \A k \in Handler : Executing(k)' =>
                Executing(k) /\ target'[k] = target[k] /\ elapsed'[k] = elapsed[k]
          /\ \A g \in Handler : pc'[g] = "recovering" =>
                /\ pc[g] = "recovering"
                /\ victims'[g] \cup locked'[g] \subseteq victims[g] \cup locked[g]
      BY <1>0 DEF Return
    <2> QED
      BY <1>0, <2>1, Recovery_quiet
  <1>3. ASSUME NEW h \in Handler, \/ \E r \in Request : Arrive(h, r) \/ Reach(h, r)
                                  \/ Miss(h)
                                  \/ ProviderUnavailable(h)
                                  \/ WorkflowEnds(h)
                                  \/ Remember(h)
                                  \/ \E s \in Session : DeleteBegin(h, s)
                                  \/ MarkStale(h)
                                  \/ DeleteRow(h)
        PROVE  RecoveryInv'
    <2>1. UNCHANGED <<status, age, history, elapsed>>
      BY <1>3, PassingFacts
      DEF Arrive, Reach, Miss, ProviderUnavailable, WorkflowEnds, Remember, DeleteBegin, locals
    <2>2. \A k \in Handler : Executing(k)' => Executing(k) /\ target'[k] = target[k]
      <3>1. ASSUME NEW r \in Request, Arrive(h, r) \/ Reach(h, r) \/ Miss(h)
            PROVE  \A k \in Handler : Executing(k)' => Executing(k) /\ target'[k] = target[k]
        BY <3>1 DEF Arrive, Reach, Miss, locals
      <3>2. ASSUME MarkStale(h) \/ DeleteRow(h)
            PROVE  \A k \in Handler : Executing(k)' => Executing(k) /\ target'[k] = target[k]
        BY <3>2, PassingFacts
      <3>3. ASSUME \E s \in Session : DeleteBegin(h, s)
            PROVE  \A k \in Handler : Executing(k)' => Executing(k) /\ target'[k] = target[k]
        BY <3>3 DEF DeleteBegin, locals
      <3>4. ASSUME ProviderUnavailable(h) \/ WorkflowEnds(h) \/ Remember(h) \/ Miss(h)
            PROVE  \A k \in Handler : Executing(k)' => Executing(k) /\ target'[k] = target[k]
        BY <3>4 DEF ProviderUnavailable, WorkflowEnds, Remember, Miss, locals
      <3> QED
        BY <1>3, <3>1, <3>2, <3>3, <3>4
    <2>3. \A g \in Handler : pc'[g] = "recovering" =>
             /\ pc[g] = "recovering"
             /\ victims'[g] \cup locked'[g] \subseteq victims[g] \cup locked[g]
      <3>1. ASSUME MarkStale(h) \/ DeleteRow(h)
            PROVE  \A g \in Handler : pc'[g] = "recovering" =>
                     /\ pc[g] = "recovering"
                     /\ victims'[g] \cup locked'[g] \subseteq victims[g] \cup locked[g]
        <4>1. target[h] \in victims[h]
          BY <3>1, PassingFacts DEF LocalsInv
        <4> QED
          BY <3>1, <4>1, PassingFacts
      <3>2. ASSUME ~(MarkStale(h) \/ DeleteRow(h))
            PROVE  \A g \in Handler : pc'[g] = "recovering" =>
                     /\ pc[g] = "recovering"
                     /\ victims'[g] = victims[g] /\ locked'[g] = locked[g]
        BY <1>3, <3>2
        DEF Arrive, Reach, Miss, ProviderUnavailable, WorkflowEnds, Remember, DeleteBegin, work
      <3> QED
        BY <3>1, <3>2
    <2> QED
      BY <2>1, <2>2, <2>3, Recovery_quiet
  <1>5. ASSUME NEW h \in Handler, Load(h) PROVE RecoveryInv'
    <2>1. CASE Return(h)
      BY <1>5, <2>1, <1>0 DEF Load
    <2>2. CASE ~Return(h)
      <3>1. /\ pc[h] = "claimed" /\ pc' = [pc EXCEPT ![h] = "working"]
            /\ UNCHANGED <<status, age, history, target, elapsed, victims, locked>>
        BY <1>5, <2>2 DEF Load, work
      <3>2. \A k \in Handler : Executing(k)' => Executing(k)
        BY <3>1
      <3>3. \A g \in Handler : pc'[g] = "recovering" => pc[g] = "recovering"
        BY <3>1
      <3> QED
        BY <3>1, <3>2, <3>3, Recovery_quiet
    <2> QED
      BY <2>1, <2>2
  <1>10. ASSUME NEW h \in Handler, Save(h) PROVE RecoveryInv'
    <2> DEFINE q == target[h]
    <2>1. /\ pc[h] = "saving" /\ q \in Request
          /\ pc' = [pc EXCEPT ![h] = "idle"]
          /\ target' = [target EXCEPT ![h] = NoRequest]
          /\ elapsed' = [elapsed EXCEPT ![h] = 0]
          /\ victims' = [victims EXCEPT ![h] = {}]
          /\ locked' = [locked EXCEPT ![h] = {}]
          /\ UNCHANGED history
      BY <1>10 DEF Save, Return, LocalsInv
    <2>2. \A r \in Request : r # q => status'[r] = status[r] /\ age'[r] = age[r]
      BY <1>10 DEF Save
    <2>3. \A k \in Handler : Executing(k)' =>
             k # h /\ Executing(k) /\ target'[k] = target[k] /\ elapsed'[k] = elapsed[k]
      BY <2>1
    <2>4. \A k \in Handler : Executing(k)' /\ Undisturbed(target[k]) => target[k] # q
      BY <2>1, <2>3 DEF OwnerInv, LocalsInv
    <2>5. \A g \in Handler : pc[g] = "recovering" /\ Undisturbed(q) =>
             q \notin victims[g] \cup locked[g]
      BY <2>1 DEF Owners, RecoveryInv
    <2>6. \A r \in Request : Owners(r)' \subseteq Owners(r)
      BY <2>3, OwnersShrink
    <2>10. \A r \in Request : Undisturbed(r)' <=> Undisturbed(r)
      BY <2>1
    <2> HIDE DEF q
    <2>8. ASSUME NEW k \in Handler, Executing(k)', Undisturbed(target[k])'
          PROVE  /\ elapsed'[k] <= StaleAfter
                 /\ status'[target'[k]] = "running" => age'[target'[k]] = elapsed'[k]
      <3>1. Executing(k) /\ target'[k] = target[k] /\ elapsed'[k] = elapsed[k]
        BY <2>3, <2>8
      <3>2. target[k] \in Request
        BY <3>1 DEF LocalsInv
      <3>3. Undisturbed(target[k]) /\ target[k] # q
        BY <2>4, <2>8, <2>10, <3>1, <3>2
      <3>4. /\ elapsed[k] <= StaleAfter
            /\ status[target[k]] = "running" => age[target[k]] = elapsed[k]
        BY <3>1, <3>3 DEF RecoveryInv
      <3> QED
        BY <2>2, <3>1, <3>2, <3>3, <3>4
    <2>7. ASSUME NEW g \in Handler, pc'[g] = "recovering",
                 NEW r \in victims'[g] \cup locked'[g], Undisturbed(r)'
          PROVE  status'[r] \in {"running", "deleted"} /\ Owners(r)' = {}
      <3>1. pc[g] = "recovering" /\ r \in victims[g] \cup locked[g] /\ r \in Request
        BY <2>1, <2>7
      <3>2. Undisturbed(r) /\ r # q
        BY <2>5, <2>7, <2>10, <3>1
      <3>3. status[r] \in {"running", "deleted"} /\ Owners(r) = {}
        BY <3>1, <3>2 DEF RecoveryInv
      <3> QED
        BY <2>2, <2>6, <3>1, <3>2, <3>3
    <2> QED
      BY <2>7, <2>8 DEF RecoveryInv
  <1>11. ASSUME NEW h \in Handler, pc[h] \in {"missed", "idle"},
                \A q \in victims'[h] : q \in Request /\ IsStale(q),
                victims' = [victims EXCEPT ![h] = victims'[h]],
                pc' = [pc EXCEPT ![h] = "recovering"],
                UNCHANGED <<status, age, history, elapsed, target, locked>>
         PROVE  RecoveryInv'
    <2>1. \A k \in Handler : Executing(k)' => Executing(k) /\ target'[k] = target[k]
      BY <1>11
    <2>2. \A r \in Request : Owners(r)' \subseteq Owners(r)
      BY <2>1, OwnersShrink
    <2>3. locked[h] = {}
      BY <1>11 DEF LocksInv
    <2>4. \A q \in victims'[h] : Undisturbed(q) =>
             status[q] = "running" /\ Owners(q) = {}
      BY <1>11, StaleIsDead DEF IsStale
    <2>5. \A g \in Handler : g # h => pc'[g] = pc[g] /\ victims'[g] = victims[g]
      BY <1>11
    <2>10. \A r \in Request : Undisturbed(r)' <=> Undisturbed(r)
      BY <1>11
    <2>7. ASSUME NEW k \in Handler, Executing(k)', Undisturbed(target[k])'
          PROVE  /\ elapsed'[k] <= StaleAfter
                 /\ status'[target'[k]] = "running" => age'[target'[k]] = elapsed'[k]
      <3>1. Executing(k) /\ target[k] \in Request /\ target'[k] = target[k]
        BY <2>1, <2>7 DEF LocalsInv
      <3>2. Undisturbed(target[k])
        BY <2>7, <2>10, <3>1
      <3> QED
        BY <1>11, <3>1, <3>2 DEF RecoveryInv
    <2>6. ASSUME NEW g \in Handler, pc'[g] = "recovering",
                 NEW q \in victims'[g] \cup locked'[g], Undisturbed(q)'
          PROVE  status'[q] \in {"running", "deleted"} /\ Owners(q)' = {}
      <3>1. q \in Request
        BY <1>11, <2>5, <2>6
      <3>2. status[q] \in {"running", "deleted"} /\ Owners(q) = {}
        <4>1. CASE g = h
          BY <1>11, <2>3, <2>4, <2>6, <2>10, <3>1, <4>1
        <4>2. CASE g # h
          BY <1>11, <2>5, <2>6, <2>10, <3>1, <4>2 DEF RecoveryInv
        <4> QED
          BY <4>1, <4>2
      <3> QED
        BY <1>11, <2>2, <3>1, <3>2
    <2> QED
      BY <2>6, <2>7 DEF RecoveryInv
  <1>12. ASSUME NEW h \in Handler, StaleCheck(h) PROVE RecoveryInv'
    <2>1. CASE Return(h)
      BY <1>12, <2>1, <1>0 DEF StaleCheck
    <2>2. CASE ~Return(h)
      <3>1. target[h] \in Request
        BY <1>12 DEF StaleCheck, LocalsInv
      <3>2. /\ pc[h] = "missed" /\ IsStale(target[h])
            /\ victims' = [victims EXCEPT ![h] = {target[h]}]
            /\ pc' = [pc EXCEPT ![h] = "recovering"]
            /\ UNCHANGED <<status, age, history, elapsed, target, locked>>
        BY <1>12, <2>2 DEF StaleCheck, locals
      <3>3. victims'[h] = {target[h]}
        BY <3>2
      <3> QED
        BY <3>1, <3>2, <3>3, <1>11
    <2> QED
      BY <2>1, <2>2
  <1>13. ASSUME NEW h \in Handler, SweepStart(h) PROVE RecoveryInv'
    <2>1. victims'[h] = {r \in Request : IsStale(r)}
      BY <1>13 DEF SweepStart
    <2>2. \A q \in victims'[h] : q \in Request /\ IsStale(q)
      BY <2>1
    <2>3. /\ pc[h] = "idle"
          /\ victims' = [victims EXCEPT ![h] = victims'[h]]
          /\ pc' = [pc EXCEPT ![h] = "recovering"]
          /\ UNCHANGED <<status, age, history, elapsed, target, locked>>
      BY <1>13, <2>1 DEF SweepStart, locals
    <2> QED
      BY <2>2, <2>3, <1>11
  <1>15. ASSUME NEW h \in Handler, Return(h),
                \A r \in Request : Undisturbed(r)' =>
                    /\ Undisturbed(r)
                    /\ \/ status'[r] = "deleted"
                       \/ status'[r] = status[r] /\ age'[r] = age[r]
         PROVE  RecoveryInv'
    <2>1. /\ \A k \in Handler : Executing(k)' =>
                Executing(k) /\ target'[k] = target[k] /\ elapsed'[k] = elapsed[k]
          /\ \A g \in Handler : pc'[g] = "recovering" =>
                /\ pc[g] = "recovering"
                /\ victims'[g] \cup locked'[g] \subseteq victims[g] \cup locked[g]
      BY <1>15 DEF Return
    <2> QED
      BY <1>15, <2>1, Recovery_quiet
  <1>16. ASSUME NEW h \in Handler, CommitRecovery(h) PROVE RecoveryInv'
    <2>1. \A r \in Request : Undisturbed(r)' => Undisturbed(r) /\ r \notin locked[h]
      BY <1>16, RecoveryTakesOver DEF Undisturbed, CommitRecovery
    <2>2. \A r \in Request : r \notin locked[h] => status'[r] = status[r] /\ age'[r] = age[r]
      BY <1>16 DEF CommitRecovery
    <2> QED
      BY <1>15, <1>16, <2>1, <2>2 DEF CommitRecovery
  <1>17. ASSUME NEW h \in Handler, DeleteCommit(h) PROVE RecoveryInv'
    <2>1. \A r \in Request : \/ status'[r] = "deleted"
                             \/ status'[r] = status[r] /\ age'[r] = age[r]
      BY <1>17 DEF DeleteCommit
    <2>2. Return(h) /\ \A r \in Request : Undisturbed(r)' => Undisturbed(r)
      BY <1>17 DEF DeleteCommit
    <2> QED
      BY <1>15, <2>1, <2>2
  <1>18. ASSUME NEW h \in Handler, DeadlockAbort(h) \/ Interrupt(h) PROVE RecoveryInv'
    BY <1>18, <1>0 DEF DeadlockAbort, Interrupt
  <1>19. CASE Tick
    <2>1. \A r \in Request : Owners(r)' = Owners(r)
      BY <1>19 DEF Tick, Owners
    <2>3. UNCHANGED <<status, takeovers, pc, target, victims, locked>>
      BY <1>19 DEF Tick, work
    <2>4. \A r \in Request : outlived'[r] <=>
             \/ outlived[r]
             \/ \E k \in Handler : Executing(k) /\ target[k] = r /\ elapsed[k] >= StaleAfter
      BY <1>19 DEF Tick
    <2>5. \A r \in Request : Undisturbed(r)' => Undisturbed(r)
      BY <2>3, <2>4, TakenOverFacts DEF Undisturbed
    <2>2. ASSUME NEW k \in Handler, Executing(k), Undisturbed(target[k])'
          PROVE  /\ elapsed'[k] <= StaleAfter
                 /\ status'[target'[k]] = "running" => age'[target'[k]] = elapsed'[k]
      <3>1. target[k] \in Request /\ target'[k] = target[k]
        BY <2>2, <2>3 DEF LocalsInv
      <3>2. Undisturbed(target[k]) /\ ~outlived'[target[k]]
        BY <2>2, <2>5, <3>1 DEF Undisturbed
      <3>3. /\ elapsed[k] < StaleAfter
            /\ status[target[k]] = "running" => age[target[k]] = elapsed[k]
        <4>1. ~(elapsed[k] >= StaleAfter)
          BY <2>2, <2>4, <3>1, <3>2
        <4> QED
          BY <2>2, <3>2, <4>1, LifecycleAssumption DEF RecoveryInv
      <3>4. elapsed'[k] = elapsed[k] + 1 /\ elapsed[k] \in Nat
        BY <1>19, <2>2, LifecycleAssumption DEF Tick
      <3>5. status[target[k]] = "running" => age'[target[k]] = age[target[k]] + 1
        BY <1>19, <3>1, <3>3, <3>4, LifecycleAssumption DEF Tick
      <3> QED
        BY <2>3, <3>1, <3>3, <3>4, <3>5, LifecycleAssumption
    <2>6. ASSUME NEW g \in Handler, pc'[g] = "recovering",
                 NEW q \in victims'[g] \cup locked'[g], Undisturbed(q)'
          PROVE  status'[q] \in {"running", "deleted"} /\ Owners(q)' = {}
      <3>1. pc[g] = "recovering" /\ q \in victims[g] \cup locked[g] /\ q \in Request
        BY <2>3, <2>6
      <3> QED
        BY <2>1, <2>3, <2>5, <2>6, <3>1 DEF RecoveryInv
    <2>7. \A k \in Handler : Executing(k)' => Executing(k)
      BY <2>3
    <2> QED
      BY <2>2, <2>6, <2>7 DEF RecoveryInv
  <1>20. CASE UNCHANGED vars
    <2>1. /\ UNCHANGED <<status, age, history, pc, target, elapsed, victims, locked>>
      BY <1>20 DEF vars, locals, work
    <2> QED
      BY <2>1, Recovery_quiet
  <1> QED
    BY <1>1, <1>2, <1>3, <1>5, <1>10, <1>12, <1>13, <1>16, <1>17, <1>18, <1>19, <1>20
    DEF Next, Call, Decide, Progress

\* Recovery takes a request away from its first execution only if one of its
\* executions was longer than stale_running_seconds, however late it acts on
\* what it read, and however many sweeps and handlers race.
THEOREM RecoveryOfTheSlow == Spec => []FirstTakeoverIsOfTheSlow
  <1>1. Init => RecoveryInv
    BY DEF Init, RecoveryInv, Executing, Running
  <1>2. OwnershipInv /\ RecoveryInv /\ [Next]_vars => RecoveryInv'
    BY Recovery_step
  <1>3. OwnershipInv /\ RecoveryInv => FirstTakeoverIsOfTheSlow
    BY DEF OwnershipInv, LocalsInv, RecoveryInv, FirstTakeoverIsOfTheSlow, Undisturbed,
       Owners, Executing
  <1> QED
    BY <1>1, <1>2, <1>3, Ownership, PTL DEF Spec
=============================================================================
