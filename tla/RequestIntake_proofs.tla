------------------------ MODULE RequestIntake_proofs ------------------------
(* Proofs about RequestIntake, for any number of users, sessions, keys,     *)
(* requests and handlers.                                                   *)
EXTENDS RequestIntake, FiniteSetTheorems, TLAPS

\* What one handler may do.
Step(h) == Arrive(h) \/ Progress(h) \/ Interrupt(h)

\* The commit of a handler that goes through.
Stores(h) ==
    /\ pc[h] = "adding"
    /\ ByKey(call[h].user, call[h].key) = {}
    /\ sid[h] \in opened[h] \/ InTable(sid[h])
    /\ Store(h)

-----------------------------------------------------------------------------
(* The forms a step can take.                                              *)

\* The tables change in a commit only: of a request, a rename, a deletion.
LEMMA TableChanges ==
    ASSUME NEW h \in Handler, Step(h)
    PROVE  \/ UNCHANGED <<sessions, requests>>
           \/ Stores(h)
           \/ RenameCommit(h)
           \/ DeleteCommit(h)
<1>1. CASE Arrive(h)
    BY <1>1 DEF Arrive, CreateRepeated, CreateBegin, Open
<1>2. CASE ReadSession(h) \/ InsertSession(h) \/ ReRead(h) \/ Requery(h) \/ DeleteRequests(h)
    BY <1>2 DEF ReadSession, InsertSession, ReRead, Requery, DeleteRequests
<1>3. CASE Commit(h)
    BY <1>3 DEF Commit, Stores
<1>4. CASE Interrupt(h)
    BY <1>4 DEF Interrupt
<1> QED
    BY <1>1, <1>2, <1>3, <1>4 DEF Step, Progress

\* A handler that ends holds nothing but its answer.
LEMMA Ended ==
    ASSUME TypeOK, NEW h \in Handler, NEW place \in {"idle", "answered"}, NEW r, Ends(h, place, r)
    PROVE  /\ pc'[h] = place /\ rid'[h] = r /\ sid'[h] = NoSession /\ seen'[h] = 0
           /\ bare'[h] /\ opened'[h] = {} /\ marked'[h] = {}
           /\ \A g \in Handler \ {h} :
                 /\ pc'[g] = pc[g] /\ rid'[g] = rid[g] /\ sid'[g] = sid[g]
                 /\ seen'[g] = seen[g] /\ bare'[g] = bare[g]
                 /\ opened'[g] = opened[g] /\ marked'[g] = marked[g]
BY DEF TypeOK, Ends

\* A handler touches nothing of another one.
LEMMA OthersStay ==
    ASSUME TypeOK, NEW h \in Handler, Step(h), NEW g \in Handler \ {h}
    PROVE  /\ pc'[g] = pc[g] /\ call'[g] = call[g] /\ sid'[g] = sid[g] /\ rid'[g] = rid[g]
           /\ seen'[g] = seen[g] /\ opened'[g] = opened[g] /\ marked'[g] = marked[g]
<1> USE DEF TypeOK
<1>1. ASSUME NEW place \in {"idle", "answered"}, NEW r, NEW c,
             Ends(h, place, r), call' = [call EXCEPT ![h] = c]
      PROVE  /\ pc'[g] = pc[g] /\ call'[g] = call[g] /\ sid'[g] = sid[g] /\ rid'[g] = rid[g]
             /\ seen'[g] = seen[g] /\ opened'[g] = opened[g] /\ marked'[g] = marked[g]
    BY <1>1 DEF Ends
<1>2. CASE Fail(h)
    BY <1>1, <1>2 DEF Fail
<1>3. ASSUME NEW c, NEW r, Answer(h, c, r) PROVE
          /\ pc'[g] = pc[g] /\ call'[g] = call[g] /\ sid'[g] = sid[g] /\ rid'[g] = rid[g]
          /\ seen'[g] = seen[g] /\ opened'[g] = opened[g] /\ marked'[g] = marked[g]
    BY <1>1, <1>3 DEF Answer
<1>4. CASE \E c \in Call : CreateRepeated(h, c)
    BY <1>2, <1>3, <1>4 DEF CreateRepeated, AnswerFound
<1>5. CASE \E c \in Call, s \in Session : CreateBegin(h, c, s)
    BY <1>5 DEF CreateBegin
<1>6. CASE \E u \in User, s \in Session : Open(h, u, s, "renaming") \/ Open(h, u, s, "deleting")
    BY <1>6 DEF Open
<1>7. CASE Admit(h)
    BY <1>2, <1>7 DEF Admit
<1>8. CASE ReadSession(h)
    BY <1>7, <1>8 DEF ReadSession, locals
<1>9. CASE InsertSession(h)
    BY <1>9 DEF InsertSession, locals
<1>10. CASE ReRead(h)
    BY <1>2, <1>7, <1>10 DEF ReRead
<1>11. CASE Commit(h)
    BY <1>2, <1>3, <1>11 DEF Commit, Store, locals
<1>12. CASE Requery(h)
    BY <1>2, <1>3, <1>12 DEF Requery, AnswerFound
<1>13. CASE RenameCommit(h) \/ DeleteCommit(h) \/ Interrupt(h)
    BY <1>2, <1>13 DEF RenameCommit, DeleteCommit, Interrupt
<1>14. CASE DeleteRequests(h)
    BY <1>14 DEF DeleteRequests, locals
<1> QED
    BY <1>4, <1>5, <1>6, <1>8, <1>9, <1>10, <1>11, <1>12, <1>13, <1>14
    DEF Step, Arrive, Progress

-----------------------------------------------------------------------------
(* Types.                                                                  *)

\* In the beginning there is nothing.
LEMMA IntakeStarts == ASSUME Init PROVE IntakeInv
<1> USE IntakeAssumption DEF Init
<1>1. TypeOK
    BY DEF TypeOK, Pcs, Title, Call, NoCall, NoColumns, Columns
<1>2. HandlerInv /\ FreshInv /\ OpenInv /\ KeyInv /\ AnswerIsOwnRequest /\ NoEmptySession
    BY DEF HandlerInv, FreshInv, OpenInv, KeyInv, AnswerIsOwnRequest, NoEmptySession, Resting,
       InTable
<1>3. OwnerInv /\ CountInv
    BY FS_EmptySet DEF OwnerInv, CountInv, Requests, InTable
<1> QED
    BY <1>1, <1>2, <1>3 DEF IntakeInv

\* The variables of a handler that ends have their types.
LEMMA EndedTypes ==
    ASSUME TypeOK, NEW h \in Handler, NEW place \in {"idle", "answered"},
           NEW r \in Request \cup {NoRequest}, NEW c \in Call \cup {NoCall}, Ends(h, place, r),
           call' = [call EXCEPT ![h] = c]
    PROVE  /\ pc' \in [Handler -> Pcs] /\ call' \in [Handler -> Call \cup {NoCall}]
           /\ sid' \in [Handler -> Session \cup {NoSession}]
           /\ rid' \in [Handler -> Request \cup {NoRequest}]
           /\ seen' \in [Handler -> Nat] /\ bare' \in [Handler -> BOOLEAN]
           /\ opened' \in [Handler -> SUBSET Session]
           /\ marked' \in [Handler -> SUBSET Request]
BY DEF TypeOK, Ends, Pcs

\* Every variable keeps its type.
LEMMA StepKeepsTypes ==
    ASSUME TypeOK, HandlerInv, FreshInv, NEW h \in Handler, Step(h)
    PROVE  TypeOK'
<1> DEFINE Locals ==
        /\ pc' \in [Handler -> Pcs] /\ call' \in [Handler -> Call \cup {NoCall}]
        /\ sid' \in [Handler -> Session \cup {NoSession}]
        /\ rid' \in [Handler -> Request \cup {NoRequest}]
        /\ seen' \in [Handler -> Nat] /\ bare' \in [Handler -> BOOLEAN]
        /\ opened' \in [Handler -> SUBSET Session]
        /\ marked' \in [Handler -> SUBSET Request]
<1> USE DEF TypeOK
<1>1. ASSUME Fail(h) PROVE Locals
    BY <1>1, EndedTypes DEF Fail
<1>2. ASSUME NEW c \in Call, NEW r \in Request, Answer(h, c, r) PROVE Locals
    BY <1>2, EndedTypes DEF Answer
<1>3. CASE \E c \in Call : CreateRepeated(h, c)
    BY <1>1, <1>2, <1>3 DEF CreateRepeated, AnswerFound, ByKey, sessions, requests
<1>4. CASE \E c \in Call, s \in Session : CreateBegin(h, c, s)
    BY <1>4 DEF CreateBegin, Pcs, sessions, requests
<1>5. CASE \E u \in User, s \in Session : Open(h, u, s, "renaming") \/ Open(h, u, s, "deleting")
    <2>1. PICK u \in User, s \in Session, place \in {"renaming", "deleting"} : Open(h, u, s, place)
        BY <1>5
    <2>2. [user |-> u, key |-> NoKey, ask |-> s] \in Call
        BY DEF Call
    <2> QED
        BY <2>1, <2>2 DEF Open, Pcs, sessions, requests
<1>6. ASSUME Admit(h), ~Resting(h) PROVE Locals
    <2>1. sid[h] \in Session
        BY <1>6 DEF HandlerInv
    <2>2. Empty(title[sid[h]]) \in BOOLEAN
        BY DEF Empty
    <2>3. CASE Fail(h)
        BY <1>1, <2>3
    <2>4. CASE ~Fail(h)
        <3>1. /\ pc' = [pc EXCEPT ![h] = "adding"] /\ seen' = [seen EXCEPT ![h] = count[sid[h]]]
              /\ bare' = [bare EXCEPT ![h] = Empty(title[sid[h]])]
              /\ UNCHANGED <<call, sid, opened, marked>>
              /\ \E r \in Request : rid' = [rid EXCEPT ![h] = r]
            BY <1>6, <2>4 DEF Admit
        <3>2. bare' \in [Handler -> BOOLEAN]
            BY <2>2, <3>1
        <3> QED
            BY <2>1, <3>1, <3>2 DEF Pcs
    <2> QED
        BY <2>3, <2>4
<1>7. CASE ReadSession(h)
    BY <1>6, <1>7 DEF ReadSession, Resting, Pcs, locals, sessions, requests
<1>8. CASE InsertSession(h)
    BY <1>8 DEF InsertSession, HandlerInv, Resting, Pcs, locals, sessions, requests
<1>9. CASE ReRead(h)
    BY <1>1, <1>6, <1>9 DEF ReRead, Resting, sessions, requests
<1>10. CASE Stores(h)
    <2>1. call[h] \in Call /\ sid[h] \in Session /\ rid[h] \in Request
        BY <1>10 DEF Stores, HandlerInv, FreshInv, Resting
    <2>2. Locals
        BY <1>2, <1>10, <2>1 DEF Stores, Store
    <2> QED
        BY <1>10, <2>1, <2>2 DEF Stores, Store, Call, Columns, Title
<1>11. CASE Commit(h)
    BY <1>1, <1>10, <1>11 DEF Commit, Stores, Pcs, locals, sessions, requests
<1>12. CASE Requery(h)
    <2>1. call[h] \in Call
        BY <1>12 DEF Requery, HandlerInv, Resting
    <2> QED
        BY <1>1, <1>2, <1>12, <2>1 DEF Requery, AnswerFound, ByKey, sessions, requests
<1>13. CASE RenameCommit(h) \/ Interrupt(h)
    BY <1>1, <1>13 DEF RenameCommit, Interrupt, Title, sessions, requests
<1>14. CASE DeleteCommit(h)
    <2>1. sid[h] \in Session
        BY <1>14 DEF DeleteCommit, HandlerInv, Resting
    <2> QED
        BY <1>1, <1>14, <2>1 DEF DeleteCommit, Title
<1>15. CASE DeleteRequests(h)
    BY <1>15 DEF DeleteRequests, Pcs, locals, sessions, requests
<1> QED
    BY <1>3, <1>4, <1>5, <1>7, <1>8, <1>9, <1>11, <1>12, <1>13, <1>14, <1>15
    DEF Step, Arrive, Progress

-----------------------------------------------------------------------------
(* What handlers hold.                                                     *)

\* A request that was stored stays known, with its columns.
LEMMA RequestsAreKept ==
    ASSUME TypeOK, HandlerInv, FreshInv, NEW h \in Handler, Step(h),
           NEW r \in stored \cup dropped
    PROVE  r \in stored' \cup dropped' /\ of'[r] = of[r]
<1> USE DEF TypeOK
<1>1. CASE UNCHANGED <<sessions, requests>> \/ RenameCommit(h)
    BY <1>1 DEF RenameCommit, requests
<1>2. CASE Stores(h)
    BY <1>2 DEF Stores, Store, FreshInv
<1>3. CASE DeleteCommit(h)
    BY <1>3 DEF DeleteCommit
<1> QED
    BY <1>1, <1>2, <1>3, TableChanges

\* What a handler holds fits its place.
LEMMA StepKeepsHandlers ==
    ASSUME TypeOK, HandlerInv, FreshInv, NEW h \in Handler, Step(h)
    PROVE  HandlerInv'
<1> USE DEF TypeOK
<1> DEFINE Inv(g) ==
        /\ ~Resting(g) => call[g] \in Call /\ sid[g] \in Session
        /\ pc[g] \notin {"adding", "conflict"} => seen[g] = 0
        /\ opened[g] # {} => pc[g] = "adding" /\ seen[g] = 0 /\ opened[g] = {sid[g]}
        /\ marked[g] # {} => pc[g] = "dropping"
        /\ \A r \in marked[g] : r \in stored \cup dropped /\ of[r].session = sid[g]
        /\ pc[g] \in {"looked", "inserting", "reread", "adding", "conflict"} =>
              call[g].ask \in {NoSession, sid[g]}
<1>1. \A g \in Handler : Inv(g)
    BY DEF HandlerInv
<1>2. ASSUME NEW g \in Handler \ {h} PROVE Inv(g)'
    BY <1>1, <1>2, OthersStay, RequestsAreKept DEF Resting
<1>3. ASSUME NEW place \in {"idle", "answered"}, NEW r, Ends(h, place, r) PROVE Inv(h)'
    BY <1>3, Ended DEF Resting
<1>4. ASSUME Fail(h) PROVE Inv(h)'
    BY <1>3, <1>4 DEF Fail
<1>5. ASSUME NEW c, NEW r, Answer(h, c, r) PROVE Inv(h)'
    BY <1>3, <1>5 DEF Answer
<1>6. ASSUME NEW c \in Call, CreateRepeated(h, c) PROVE Inv(h)'
    BY <1>4, <1>5, <1>6 DEF CreateRepeated, AnswerFound
<1>7. ASSUME NEW c \in Call, NEW s \in Session, CreateBegin(h, c, s) PROVE Inv(h)'
    BY <1>1, <1>7 DEF CreateBegin, Resting, Call
<1>8. ASSUME NEW u \in User, NEW s \in Session, NEW place \in {"renaming", "deleting"},
             Open(h, u, s, place) PROVE Inv(h)'
    <2>1. [user |-> u, key |-> NoKey, ask |-> s] \in Call
        BY DEF Call
    <2>2. pc'[h] = place /\ call'[h] \in Call /\ sid'[h] = s
        BY <1>8, <2>1 DEF Open
    <2>3. seen'[h] = 0 /\ opened'[h] = {} /\ marked'[h] = {}
        BY <1>1, <1>8 DEF Open, Resting
    <2> QED
        BY <2>2, <2>3
<1>9. ASSUME Admit(h), pc[h] \in {"looked", "reread"} PROVE Inv(h)'
    <2>1. CASE Fail(h)
        BY <1>4, <2>1
    <2>2. CASE ~Fail(h)
        <3>1. pc'[h] = "adding" /\ call'[h] = call[h] /\ sid'[h] = sid[h]
            BY <1>9, <2>2 DEF Admit
        <3>2. opened'[h] = opened[h] /\ marked'[h] = marked[h]
            BY <1>9, <2>2 DEF Admit
        <3> QED
            BY <1>1, <1>9, <3>1, <3>2 DEF Resting
    <2> QED
        BY <2>1, <2>2
<1>10. ASSUME ReadSession(h) PROVE Inv(h)'
    <2>1. CASE Admit(h)
        BY <1>9, <1>10, <2>1 DEF ReadSession
    <2>2. CASE ~Admit(h)
        BY <1>1, <1>10, <2>2 DEF ReadSession, Resting, locals
    <2> QED
        BY <2>1, <2>2
<1>11. ASSUME InsertSession(h) PROVE Inv(h)'
    <2>1. CASE InTable(sid[h])
        BY <1>1, <1>11, <2>1 DEF InsertSession, Resting, locals
    <2>2. CASE ~InTable(sid[h])
        BY <1>1, <1>11, <2>2 DEF InsertSession, Resting, locals
    <2> QED
        BY <2>1, <2>2
<1>12. ASSUME Commit(h) PROVE Inv(h)'
    <2>1. CASE Store(h) \/ Fail(h)
        BY <1>4, <1>5, <2>1 DEF Store
    <2>2. CASE ~(Store(h) \/ Fail(h))
        <3>1. pc[h] = "adding" /\ pc'[h] = "conflict" /\ opened'[h] = {}
            BY <1>12, <2>2 DEF Commit
        <3>2. UNCHANGED <<call, sid, seen, marked>>
            BY <1>12, <2>2 DEF Commit, locals
        <3> QED
            BY <1>1, <3>1, <3>2 DEF Resting
    <2> QED
        BY <2>1, <2>2
<1>13. ASSUME DeleteRequests(h) PROVE Inv(h)'
    BY <1>1, <1>13 DEF DeleteRequests, Resting, locals, requests
<1> HIDE DEF Inv
<1>14. ASSUME ReRead(h) PROVE Inv(h)'
    BY <1>4, <1>9, <1>14 DEF ReRead
<1>15. ASSUME Requery(h) PROVE Inv(h)'
    BY <1>4, <1>5, <1>15 DEF Requery, AnswerFound
<1>16. ASSUME RenameCommit(h) \/ DeleteCommit(h) \/ Interrupt(h) PROVE Inv(h)'
    BY <1>4, <1>16 DEF RenameCommit, DeleteCommit, Interrupt
<1>17. Inv(h)'
    BY <1>6, <1>7, <1>8, <1>10, <1>11, <1>12, <1>13, <1>14, <1>15, <1>16
    DEF Step, Arrive, Progress
<1>18. \A g \in Handler : Inv(g)'
    BY <1>2, <1>17
<1> QED
    BY <1>18 DEF Inv, HandlerInv

\* How a handler gets the identifier it has, and comes to add its request.
LEMMA OwnIdentifier ==
    ASSUME TypeOK, HandlerInv, FreshInv, NEW h \in Handler, Step(h)
    PROVE  /\ \/ rid'[h] \in {NoRequest, rid[h]} \cup stored' \cup dropped'
              \/ (rid'[h] \in Request /\ ~UsedRequest(rid'[h]))
           /\ pc'[h] = "adding" =>
                 /\ rid'[h] \in Request /\ ~UsedRequest(rid'[h])
                 /\ UNCHANGED <<sessions, requests>>
<1> USE DEF TypeOK
<1>1. CASE Fail(h)
    BY <1>1, Ended DEF Fail
<1>2. ASSUME NEW c, NEW r, Answer(h, c, r) PROVE pc'[h] = "answered" /\ rid'[h] = r
    BY <1>2, Ended DEF Answer
<1>3. ASSUME NEW c \in Call, CreateRepeated(h, c)
      PROVE  Fail(h) \/ (pc'[h] = "answered" /\ rid'[h] \in {rid[h]} \cup stored' \cup dropped')
    <2>1. PICK r \in ByKey(c.user, c.key) : AnswerFound(h, c, r)
        BY <1>3 DEF CreateRepeated
    <2>2. stored' = stored
        BY <1>3 DEF CreateRepeated, requests
    <2>3. r \in stored'
        BY <2>1, <2>2 DEF ByKey
    <2>4. Fail(h) \/ Answer(h, c, r)
        BY <2>1 DEF AnswerFound
    <2>5. ASSUME Answer(h, c, r)
          PROVE  pc'[h] = "answered" /\ rid'[h] \in {rid[h]} \cup stored' \cup dropped'
        BY <1>2, <2>3, <2>5
    <2> QED
        BY <2>4, <2>5
<1>4. CASE \E c \in Call, s \in Session : CreateBegin(h, c, s)
    BY <1>4 DEF CreateBegin
<1>5. CASE \E u \in User, s \in Session : Open(h, u, s, "renaming") \/ Open(h, u, s, "deleting")
    BY <1>5 DEF Open
<1>6. CASE ReadSession(h) \/ ReRead(h)
    BY <1>1, <1>6 DEF ReadSession, ReRead, Admit, locals
<1>7. CASE InsertSession(h)
    BY <1>7 DEF InsertSession, locals
<1>8. CASE Commit(h)
    BY <1>1, <1>2, <1>8 DEF Commit, Store, locals
<1>9. CASE Requery(h)
    BY <1>1, <1>2, <1>9 DEF Requery, AnswerFound, ByKey, requests
<1>10. CASE RenameCommit(h) \/ DeleteCommit(h) \/ Interrupt(h)
    BY <1>1, <1>10 DEF RenameCommit, DeleteCommit, Interrupt
<1>11. CASE DeleteRequests(h)
    BY <1>11 DEF DeleteRequests, locals
<1> QED
    BY <1>1, <1>3, <1>4, <1>5, <1>6, <1>7, <1>8, <1>9, <1>10, <1>11 DEF Step, Arrive, Progress

\* Identifiers of requests that are being added stay unused.
LEMMA StepKeepsFresh ==
    ASSUME TypeOK, HandlerInv, FreshInv, NEW h \in Handler, Step(h)
    PROVE  FreshInv'
<1> USE DEF TypeOK
<1>1. stored' \cup dropped' \subseteq stored \cup dropped \cup {rid[h]}
    <2>1. CASE UNCHANGED <<sessions, requests>> \/ RenameCommit(h)
        BY <2>1 DEF RenameCommit, requests
    <2>2. CASE Stores(h)
        BY <2>2 DEF Stores, Store
    <2>3. CASE DeleteCommit(h)
        <3>1. marked[h] \subseteq stored \cup dropped
            BY DEF HandlerInv
        <3> QED
            BY <2>3, <3>1 DEF DeleteCommit
    <2> QED
        BY <2>1, <2>2, <2>3, TableChanges
<1>2. ASSUME NEW g \in Handler \ {h}, pc'[g] = "adding"
      PROVE  /\ rid'[g] \in Request \ (stored' \cup dropped')
             /\ \A f \in Handler \ {g} : rid'[f] # rid'[g]
    <2>1. pc[g] = "adding" /\ rid'[g] = rid[g]
        BY <1>2, OthersStay
    <2>2. rid[g] \in Request \ (stored \cup dropped) /\ rid[g] # rid[h]
        BY <2>1 DEF FreshInv
    <2>3. rid[g] \notin stored' \cup dropped'
        BY <1>1, <2>2
    <2>4. rid'[h] # rid[g]
        BY <2>2, <2>3, OwnIdentifier, IntakeAssumption DEF UsedRequest
    <2>5. \A f \in Handler \ {g, h} : rid'[f] # rid[g]
        BY <2>1, OthersStay DEF FreshInv
    <2> QED
        BY <2>1, <2>2, <2>3, <2>4, <2>5
<1>3. ASSUME pc'[h] = "adding"
      PROVE  /\ rid'[h] \in Request \ (stored' \cup dropped')
             /\ \A f \in Handler \ {h} : rid'[f] # rid'[h]
    <2>1. rid'[h] \in Request /\ ~UsedRequest(rid'[h]) /\ stored' = stored /\ dropped' = dropped
        BY <1>3, OwnIdentifier DEF requests
    <2> QED
        BY <2>1, OthersStay DEF UsedRequest
<1> QED
    BY <1>2, <1>3 DEF FreshInv

-----------------------------------------------------------------------------
(* What the tables hold.                                                   *)

\* A session is opened by one handler, and not there before it commits.
LEMMA StepKeepsOpen ==
    ASSUME TypeOK, HandlerInv, OpenInv, HandlerInv', NEW h \in Handler, Step(h)
    PROVE  OpenInv'
<1> USE DEF TypeOK
<1>1. opened'[h] \subseteq opened[h] \/ InsertSession(h)
    <2>1. ASSUME Fail(h) PROVE opened'[h] = {}
        BY <2>1, Ended DEF Fail
    <2>2. ASSUME NEW c, NEW r, Answer(h, c, r) PROVE opened'[h] = {}
        BY <2>2, Ended DEF Answer
    <2>3. CASE \E c \in Call : CreateRepeated(h, c)
        BY <2>1, <2>2, <2>3 DEF CreateRepeated, AnswerFound
    <2>4. CASE \E c \in Call, s \in Session : CreateBegin(h, c, s)
        BY <2>4 DEF CreateBegin
    <2>5. CASE \E u \in User, s \in Session : Open(h, u, s, "renaming") \/ Open(h, u, s, "deleting")
        BY <2>5 DEF Open
    <2>6. CASE ReadSession(h) \/ ReRead(h) \/ DeleteRequests(h)
        BY <2>1, <2>6 DEF ReadSession, ReRead, Admit, DeleteRequests
    <2>7. CASE Commit(h) \/ Requery(h)
        BY <2>1, <2>2, <2>7 DEF Commit, Store, Requery, AnswerFound
    <2>8. CASE RenameCommit(h) \/ DeleteCommit(h) \/ Interrupt(h)
        BY <2>1, <2>8 DEF RenameCommit, DeleteCommit, Interrupt
    <2> QED
        BY <2>3, <2>4, <2>5, <2>6, <2>7, <2>8 DEF Step, Arrive, Progress
<1>2. \A s \in opened'[h] : s \in opened[h] \/ (InsertSession(h) /\ s = sid[h] /\ ~InTable(s))
    <2>1. ASSUME InsertSession(h), InTable(sid[h]) PROVE opened'[h] = opened[h]
        BY <2>1 DEF InsertSession
    <2>2. ASSUME InsertSession(h), ~InTable(sid[h]) PROVE opened'[h] = {sid[h]}
        BY <2>2 DEF InsertSession
    <2> QED
        BY <1>1, <2>1, <2>2
<1>3. ASSUME NEW s \in Session, ~InTable(s), InTable(s)' PROVE s \in opened[h] /\ opened'[h] = {}
    <2>1. Stores(h)
        BY <1>3, TableChanges DEF InTable, sessions, RenameCommit, DeleteCommit
    <2>2. opened'[h] = {}
        BY <2>1, Ended DEF Stores, Store, Answer
    <2> QED
        BY <1>3, <2>1, <2>2 DEF Stores, Store, InTable
<1>4. ASSUME NEW g \in Handler, NEW s \in opened'[g] PROVE s \in Session /\ ~InTable(s)'
    <2>1. s \in Session /\ ~InTable(s)
        <3>1. CASE s \in opened[g]
            BY <3>1 DEF OpenInv
        <3>2. CASE g = h /\ InsertSession(h) /\ s = sid[h] /\ ~InTable(s)
            BY <3>2 DEF HandlerInv, InsertSession, Resting
        <3> QED
            BY <1>2, <1>4, <3>1, <3>2, OthersStay
    <2>2. CASE g = h
        BY <1>3, <2>1, <2>2
    <2>3. CASE g # h
        BY <1>3, <1>4, <2>1, <2>3, OthersStay DEF OpenInv
    <2> QED
        BY <2>2, <2>3
<1>5. ASSUME NEW g \in Handler, NEW f \in Handler \ {g}, NEW s \in opened'[g] PROVE s \notin opened'[f]
    <2>1. CASE g = h
        BY <1>2, <1>5, <2>1, OthersStay DEF OpenInv, InsertSession
    <2>2. CASE f = h
        BY <1>2, <1>5, <2>2, OthersStay DEF OpenInv, InsertSession
    <2>3. CASE g # h /\ f # h
        BY <1>5, <2>3, OthersStay DEF OpenInv
    <2> QED
        BY <2>1, <2>2, <2>3
<1> QED
    BY <1>4, <1>5 DEF OpenInv

\* One user stores one request under one key.
LEMMA StepKeepsKeys ==
    ASSUME TypeOK, HandlerInv, FreshInv, KeyInv, NEW h \in Handler, Step(h)
    PROVE  KeyInv'
<1> USE DEF TypeOK
<1>1. CASE UNCHANGED <<sessions, requests>> \/ RenameCommit(h)
    BY <1>1 DEF RenameCommit, requests, KeyInv
<1>2. CASE Stores(h)
    <2> DEFINE c == call[h]
               new == rid[h]
    <2>1. new \in Request /\ new \notin stored \cup dropped /\ c \in Call /\ sid[h] \in Session
        BY <1>2 DEF Stores, FreshInv, HandlerInv, Resting
    <2>2. /\ stored' = stored \cup {new} /\ dropped' = dropped
          /\ of'[new] = [user |-> c.user, key |-> c.key, session |-> sid[h]]
          /\ \A r \in Request \ {new} : of'[r] = of[r]
        BY <1>2, <2>1 DEF Stores, Store
    <2>3. of'[new] \in Columns /\ of'[new].user = c.user /\ of'[new].key = c.key
        BY <2>1, <2>2 DEF Call, Columns
    <2>4. c.key # NoKey => \A r \in stored : ~(of[r].user = c.user /\ of[r].key = c.key)
        BY <1>2 DEF Stores, ByKey
    <2>5. \A r \in stored \cup dropped : of'[r] = of[r]
        BY <2>1, <2>2
    <2>6. ASSUME NEW q \in stored', NEW r \in stored', of'[q].user = of'[r].user,
                 of'[q].key = of'[r].key, of'[r].key # NoKey
          PROVE  q = r
        <3>1. CASE q = new /\ r # new
            BY <2>2, <2>3, <2>4, <2>5, <2>6, <3>1
        <3>2. CASE r = new /\ q # new
            BY <2>2, <2>3, <2>4, <2>5, <2>6, <3>2
        <3>3. CASE q # new /\ r # new
            BY <2>2, <2>5, <2>6, <3>3 DEF KeyInv
        <3> QED
            BY <3>1, <3>2, <3>3
    <2>7. \A r \in stored' \cup dropped' : of'[r] \in Columns
        BY <2>2, <2>3, <2>5 DEF KeyInv
    <2> QED
        BY <2>6, <2>7 DEF KeyInv
<1>3. CASE DeleteCommit(h)
    <2>1. marked[h] \subseteq stored \cup dropped
        BY DEF HandlerInv
    <2> QED
        BY <1>3, <2>1 DEF DeleteCommit, KeyInv
<1> QED
    BY <1>1, <1>2, <1>3, TableChanges

\* Every answer names a request of its caller.
LEMMA StepKeepsAnswers ==
    ASSUME TypeOK, HandlerInv, FreshInv, AnswerIsOwnRequest, NEW h \in Handler, Step(h)
    PROVE  AnswerIsOwnRequest'
<1> USE DEF TypeOK
<1> DEFINE Own(c, r) == /\ r \in stored \cup dropped
                        /\ of[r].user = c.user /\ of[r].key = c.key
                        /\ c.ask \in {NoSession, of[r].session}
<1>1. ASSUME NEW g \in Handler \ {h}, pc'[g] = "answered" PROVE Own(call[g], rid[g])'
    <2>1. pc[g] = "answered" /\ call'[g] = call[g] /\ rid'[g] = rid[g]
        BY <1>1, OthersStay
    <2>2. Own(call[g], rid[g])
        BY <2>1 DEF AnswerIsOwnRequest
    <2> QED
        BY <2>1, <2>2, RequestsAreKept
<1>2. ASSUME NEW c \in Call, NEW r, Answer(h, c, r) PROVE call'[h] = c /\ rid'[h] = r
    BY <1>2, Ended DEF Answer
<1>3. ASSUME Fail(h) PROVE pc'[h] # "answered"
    BY <1>3, Ended DEF Fail
<1>4. ASSUME NEW c \in Call, NEW r \in ByKey(c.user, c.key), AnswerFound(h, c, r),
             UNCHANGED requests, pc'[h] = "answered"
      PROVE  Own(call[h], rid[h])'
    <2>1. Answer(h, c, r) /\ c.ask \in {NoSession, of[r].session}
        BY <1>3, <1>4 DEF AnswerFound
    <2>2. call'[h] = c /\ rid'[h] = r
        BY <1>2, <2>1
    <2> QED
        BY <1>4, <2>1, <2>2 DEF ByKey, requests
<1>5. ASSUME Stores(h) PROVE Own(call[h], rid[h])'
    <2> DEFINE c == call[h]
               r == rid[h]
    <2>1. r \in Request /\ c \in Call /\ c.ask \in {NoSession, sid[h]}
        BY <1>5 DEF Stores, FreshInv, HandlerInv, Resting
    <2>2. /\ r \in stored' /\ Answer(h, c, r)
          /\ of'[r] = [user |-> c.user, key |-> c.key, session |-> sid[h]]
        BY <1>5, <2>1 DEF Stores, Store
    <2>3. call'[h] = c /\ rid'[h] = r
        BY <1>2, <2>1, <2>2
    <2> QED
        BY <2>1, <2>2, <2>3
<1>6. ASSUME pc'[h] = "answered" PROVE Own(call[h], rid[h])'
    <2>1. CASE \E c \in Call : CreateRepeated(h, c)
        BY <1>4, <1>6, <2>1 DEF CreateRepeated
    <2>2. CASE Requery(h)
        <3>1. call[h] \in Call
            BY <2>2 DEF Requery, HandlerInv, Resting
        <3> QED
            BY <1>3, <1>4, <1>6, <2>2, <3>1 DEF Requery
    <2>3. CASE Commit(h)
        <3>1. Stores(h) \/ Fail(h) \/ pc'[h] = "conflict"
            BY <2>3 DEF Commit, Stores
        <3> QED
            BY <1>3, <1>5, <1>6, <3>1
    <2>4. CASE Arrive(h) /\ ~\E c \in Call : CreateRepeated(h, c)
        BY <1>6, <2>4 DEF Arrive, CreateBegin, Open
    <2>5. CASE ReadSession(h) \/ InsertSession(h) \/ ReRead(h) \/ DeleteRequests(h)
        BY <1>3, <1>6, <2>5 DEF ReadSession, InsertSession, ReRead, DeleteRequests, Admit
    <2>6. CASE RenameCommit(h) \/ DeleteCommit(h) \/ Interrupt(h)
        BY <1>3, <1>6, <2>6 DEF RenameCommit, DeleteCommit, Interrupt
    <2> QED
        BY <2>1, <2>2, <2>3, <2>4, <2>5, <2>6 DEF Step, Arrive, Progress
<1> QED
    BY <1>1, <1>6 DEF AnswerIsOwnRequest

\* Deleting a session takes away requests of that session only.
LEMMA DeletionIsLocal ==
    ASSUME TypeOK, HandlerInv, NEW h \in Handler, DeleteCommit(h)
    PROVE  /\ sid[h] \in Session /\ pc[h] = "dropping" /\ owner'[sid[h]] = NoUser
           /\ reborn'[sid[h]]
           /\ \A s \in Session \ {sid[h]} :
                 /\ owner'[s] = owner[s] /\ count'[s] = count[s] /\ reborn'[s] = reborn[s]
                 /\ title'[s] = title[s] /\ Requests(s)' = Requests(s)
           /\ stored' \subseteq stored /\ UNCHANGED of
           /\ pc'[h] = "idle" /\ opened'[h] = {}
<1> USE DEF TypeOK
<1>1. sid[h] \in Session /\ pc[h] = "dropping"
    BY DEF DeleteCommit, HandlerInv, Resting
<1>2. /\ owner' = [owner EXCEPT ![sid[h]] = NoUser] /\ count' = [count EXCEPT ![sid[h]] = 0]
      /\ title' = [title EXCEPT ![sid[h]] = "none"] /\ reborn' = [reborn EXCEPT ![sid[h]] = TRUE]
      /\ stored' = stored \ marked[h] /\ of' = of
    BY DEF DeleteCommit
<1>3. \A r \in marked[h] : of[r].session = sid[h]
    BY DEF HandlerInv
<1>4. \A s \in Session \ {sid[h]} : Requests(s)' = Requests(s)
    BY <1>2, <1>3 DEF Requests
<1>5. pc'[h] = "idle" /\ opened'[h] = {}
    BY Ended DEF DeleteCommit, Fail
<1> QED
    BY <1>1, <1>2, <1>4, <1>5

\* A commit adds one request to its session, which it may open.
LEMMA StoringIsLocal ==
    ASSUME TypeOK, HandlerInv, FreshInv, OpenInv, KeyInv, NEW h \in Handler, Stores(h)
    PROVE  /\ sid[h] \in Session /\ call[h] \in Call /\ rid[h] \in Request \ stored
           /\ stored' = stored \cup {rid[h]} /\ of'[rid[h]].user = call[h].user
           /\ owner'[sid[h]] = IF sid[h] \in opened[h] THEN call[h].user ELSE owner[sid[h]]
           /\ count'[sid[h]] = seen[h] + 1
           /\ \A s \in Session : s = sid[h] =>
                 Requests(s)' = Requests(s) \cup {rid[h]} /\ rid[h] \notin Requests(s)
           /\ \A r \in stored : of'[r] = of[r]
           /\ \A s \in Session \ {sid[h]} :
                 owner'[s] = owner[s] /\ count'[s] = count[s] /\ Requests(s)' = Requests(s)
           /\ \A s \in Session : s # sid[h] \/ seen[h] > 0 => title'[s] = title[s]
           /\ UNCHANGED reborn /\ pc'[h] = "answered" /\ opened'[h] = {}
<1> USE DEF TypeOK
<1> DEFINE s == sid[h]
           r == rid[h]
<1>1. s \in Session /\ call[h] \in Call /\ r \in Request \ (stored \cup dropped)
    BY DEF Stores, HandlerInv, FreshInv, Resting
<1>2. /\ stored' = stored \cup {r}
      /\ of'[r] = [user |-> call[h].user, key |-> call[h].key, session |-> s]
      /\ \A q \in stored : of'[q] = of[q]
    BY <1>1 DEF Stores, Store
<1>3. /\ owner' = IF s \in opened[h] THEN [owner EXCEPT ![s] = call[h].user] ELSE owner
      /\ count' = [count EXCEPT ![s] = seen[h] + 1]
      /\ UNCHANGED reborn
    BY DEF Stores, Store
<1>4. ASSUME NEW q \in Session, q = s
      PROVE  Requests(q)' = Requests(q) \cup {r} /\ r \notin Requests(q)
    BY <1>1, <1>2, <1>4 DEF Requests
<1>5. \A q \in Session \ {s} : Requests(q)' = Requests(q)
    BY <1>1, <1>2 DEF Requests
<1>6. pc'[h] = "answered" /\ opened'[h] = {}
    BY Ended DEF Stores, Store, Answer
<1>7. \A q \in Session : q # s \/ seen[h] > 0 => title'[q] = title[q]
    BY <1>1 DEF Stores, Store
<1> QED
    BY <1>1, <1>2, <1>3, <1>4, <1>5, <1>6, <1>7

\* The session a message is in is never without one.
LEMMA StepKeepsNoEmpty ==
    ASSUME TypeOK, HandlerInv, FreshInv, OpenInv, KeyInv, NoEmptySession, NEW h \in Handler,
           Step(h)
    PROVE  NoEmptySession'
<1>1. \A s \in Session : InTable(s) => Requests(s) # {}
    BY DEF NoEmptySession, Requests
<1>2. ASSUME NEW s \in Session, InTable(s)' PROVE Requests(s)' # {}
    <2>1. CASE UNCHANGED <<sessions, requests>> \/ RenameCommit(h)
        BY <1>1, <1>2, <2>1 DEF RenameCommit, sessions, requests, InTable, Requests
    <2>2. CASE Stores(h)
        BY <1>1, <1>2, <2>2, StoringIsLocal DEF InTable
    <2>3. CASE DeleteCommit(h)
        BY <1>1, <1>2, <2>3, DeletionIsLocal DEF InTable
    <2> QED
        BY <2>1, <2>2, <2>3, TableChanges
<1> QED
    BY <1>2 DEF NoEmptySession, Requests

\* A handler that comes to add a request to a session of the table has seen
\* its counter, and that it belongs to the caller.
LEMMA AddingWasAdmitted ==
    ASSUME TypeOK, HandlerInv, NEW h \in Handler, Step(h), pc'[h] = "adding",
           sid'[h] \notin opened'[h]
    PROVE  /\ InTable(sid'[h]) /\ owner[sid'[h]] = call'[h].user /\ seen'[h] = count[sid'[h]]
           /\ UNCHANGED <<sessions, requests>> /\ sid'[h] \in Session
<1> USE DEF TypeOK
<1>1. ASSUME Fail(h) PROVE FALSE
    BY <1>1, Ended DEF Fail
<1>2. ASSUME NEW c, NEW r, Answer(h, c, r) PROVE FALSE
    BY <1>2, Ended DEF Answer
<1>3. ASSUME NEW c \in Call, CreateRepeated(h, c) PROVE FALSE
    BY <1>1, <1>2, <1>3 DEF CreateRepeated, AnswerFound
<1>4. ~\E c \in Call, s \in Session : CreateBegin(h, c, s)
    BY DEF CreateBegin
<1>5. ~\E u \in User, s \in Session : Open(h, u, s, "renaming") \/ Open(h, u, s, "deleting")
    BY DEF Open
<1>6. ASSUME Commit(h) PROVE FALSE
    BY <1>1, <1>2, <1>6 DEF Commit, Store
<1>7. ASSUME Requery(h) PROVE FALSE
    BY <1>1, <1>2, <1>7 DEF Requery, AnswerFound
<1>8. ~(RenameCommit(h) \/ DeleteCommit(h) \/ Interrupt(h))
    BY <1>1 DEF RenameCommit, DeleteCommit, Interrupt
<1>9. ~DeleteRequests(h)
    BY DEF DeleteRequests
<1>10. ~InsertSession(h)
    <2>1. ASSUME InsertSession(h) PROVE sid'[h] = sid[h] /\ opened'[h] = {sid[h]}
        BY <2>1 DEF InsertSession, locals
    <2> QED
        BY <2>1
<1>11. (ReadSession(h) \/ ReRead(h)) /\ Admit(h) /\ InTable(sid[h])
    <2>1. ReadSession(h) \/ ReRead(h)
        BY <1>3, <1>4, <1>5, <1>6, <1>7, <1>8, <1>9, <1>10 DEF Step, Arrive, Progress
    <2> QED
        BY <1>1, <2>1 DEF ReadSession, ReRead
<1>12. sid[h] \in Session /\ UNCHANGED <<sessions, requests>>
    BY <1>11 DEF ReadSession, ReRead, HandlerInv, Resting
<1>13. sid'[h] = sid[h] /\ call'[h] = call[h] /\ owner[sid[h]] = call[h].user
       /\ seen'[h] = count[sid[h]]
    BY <1>1, <1>11 DEF Admit
<1> QED
    BY <1>11, <1>12, <1>13

\* Until a session is first deleted, what it holds is its owner's.
LEMMA StepKeepsOwners ==
    ASSUME TypeOK, HandlerInv, FreshInv, OpenInv, KeyInv, OwnerInv, NEW h \in Handler, Step(h)
    PROVE  OwnerInv'
<1> USE DEF TypeOK
<1>1. \A s \in Session : IsFiniteSet(Requests(s))
    BY FS_Subset DEF OwnerInv, Requests
<1>2. IsFiniteSet(stored')
    <2>1. stored' \subseteq stored \cup {rid[h]}
        BY TableChanges, StoringIsLocal, DeletionIsLocal DEF requests, RenameCommit
    <2>2. IsFiniteSet(stored \cup {rid[h]})
        BY FS_AddElement DEF OwnerInv
    <2> QED
        BY <2>1, <2>2, FS_Subset
\* The session itself.
<1>3. ASSUME NEW s \in Session, ~reborn'[s], Stores(h), s = sid[h]
      PROVE  /\ InTable(s)' /\ owner'[s] = call[h].user
             /\ \A r \in Requests(s)' : of'[r].user = owner'[s]
             /\ count'[s] \in 1 .. Cardinality(Requests(s)')
             /\ Cardinality(Requests(s)') = Cardinality(Requests(s)) + 1
             /\ InTable(s) => owner'[s] = owner[s]
    <2>1. ~reborn[s] /\ call[h].user \in User /\ seen[h] \in Nat
        BY <1>3, StoringIsLocal DEF Call
    <2>2. /\ \A r \in Requests(s) : of[r].user = call[h].user
          /\ owner'[s] = call[h].user
          /\ seen[h] <= Cardinality(Requests(s))
          /\ InTable(s) => owner'[s] = owner[s]
        <3>1. CASE s \in opened[h]
            <4>1. ~InTable(s) /\ seen[h] = 0
                BY <3>1 DEF OpenInv, HandlerInv
            <4>2. Requests(s) = {}
                BY <2>1, <4>1 DEF OwnerInv
            <4> QED
                BY <1>1, <1>3, <3>1, <4>1, <4>2, StoringIsLocal, FS_EmptySet
        <3>2. CASE s \notin opened[h]
            <4>1. InTable(s) /\ owner[s] = call[h].user /\ seen[h] <= Cardinality(Requests(s))
                BY <1>3, <2>1, <3>2 DEF OwnerInv, Stores
            <4> QED
                BY <1>3, <2>1, <3>2, <4>1, StoringIsLocal DEF OwnerInv
        <3> QED
            BY <3>1, <3>2
    <2>3. Cardinality(Requests(s)') = Cardinality(Requests(s)) + 1
        <3>1. Requests(s)' = Requests(s) \cup {rid[h]} /\ rid[h] \notin Requests(s)
            BY <1>3, StoringIsLocal
        <3>2. Cardinality(Requests(s) \cup {rid[h]}) = Cardinality(Requests(s)) + 1
            BY <1>1, <3>1, FS_AddElement
        <3> QED
            BY <3>1, <3>2
    <2>4. Cardinality(Requests(s)) \in Nat
        BY <1>1, FS_CardinalityType
    <2>5. count'[s] = seen[h] + 1
        BY <1>3, StoringIsLocal
    <2>6. count'[s] \in 1 .. Cardinality(Requests(s)')
        BY <2>1, <2>2, <2>3, <2>4, <2>5
    <2>7. \A r \in Requests(s)' : of'[r].user = owner'[s]
        BY <1>3, <2>2, StoringIsLocal DEF Requests
    <2>8. InTable(s)'
        BY <2>1, <2>2, IntakeAssumption DEF InTable
    <2> QED
        BY <2>2, <2>3, <2>6, <2>7, <2>8
\* A session the step leaves alone.
<1>4. ASSUME NEW s \in Session, ~reborn'[s], ~(Stores(h) /\ s = sid[h])
      PROVE  /\ ~reborn[s] /\ owner'[s] = owner[s] /\ count'[s] = count[s]
             /\ Requests(s)' = Requests(s) /\ \A r \in Requests(s) : of'[r] = of[r]
    <2>1. CASE UNCHANGED <<sessions, requests>> \/ RenameCommit(h)
        BY <1>4, <2>1 DEF RenameCommit, sessions, requests, Requests
    <2>2. CASE Stores(h)
        BY <1>4, <2>2, StoringIsLocal DEF Requests
    <2>3. CASE DeleteCommit(h)
        BY <1>4, <2>3, DeletionIsLocal DEF Requests
    <2> QED
        BY <2>1, <2>2, <2>3, TableChanges
<1>5. ASSUME NEW s \in Session, ~reborn'[s]
      PROVE  /\ ~InTable(s)' => Requests(s)' = {}
             /\ InTable(s)' => /\ \A r \in Requests(s)' : of'[r].user = owner'[s]
                               /\ count'[s] \in 1 .. Cardinality(Requests(s)')
    <2>1. CASE Stores(h) /\ s = sid[h]
        BY <1>3, <1>5, <2>1
    <2>2. CASE ~(Stores(h) /\ s = sid[h])
        BY <1>4, <1>5, <2>2 DEF OwnerInv, InTable
    <2> QED
        BY <2>1, <2>2
\* Those that add to it.
<1>6. ASSUME NEW s \in Session, ~reborn'[s], NEW g \in Handler, pc'[g] = "adding", sid'[g] = s,
             s \notin opened'[g]
      PROVE  InTable(s)' /\ owner'[s] = call'[g].user /\ seen'[g] <= Cardinality(Requests(s)')
    <2>1. CASE g = h
        <3>1. /\ InTable(s) /\ owner[s] = call'[h].user /\ seen'[h] = count[s]
              /\ UNCHANGED <<sessions, requests>>
            BY <1>6, <2>1, AddingWasAdmitted
        <3>2. ~reborn[s]
            BY <1>6, <3>1 DEF sessions
        <3>3. count[s] <= Cardinality(Requests(s))
            BY <3>1, <3>2 DEF OwnerInv
        <3> QED
            BY <2>1, <3>1, <3>3 DEF sessions, requests, InTable, Requests
    <2>2. CASE g # h
        <3>1. pc[g] = "adding" /\ sid[g] = s /\ s \notin opened[g] /\ call'[g] = call[g]
              /\ seen'[g] = seen[g]
            BY <1>6, <2>2, OthersStay
        <3>2. ~reborn[s]
            BY <1>3, <1>4, <1>6, StoringIsLocal
        <3>3. InTable(s) /\ owner[s] = call[g].user /\ seen[g] <= Cardinality(Requests(s))
            BY <3>1, <3>2 DEF OwnerInv
        <3>4. CASE Stores(h) /\ s = sid[h]
            <4>1. Cardinality(Requests(s)) \in Nat /\ seen[g] \in Nat
                BY <1>1, FS_CardinalityType
            <4> QED
                BY <1>3, <1>6, <3>1, <3>3, <3>4, <4>1
        <3>5. CASE ~(Stores(h) /\ s = sid[h])
            BY <1>4, <1>6, <3>1, <3>3, <3>5 DEF InTable
        <3> QED
            BY <3>4, <3>5
    <2> QED
        BY <2>1, <2>2
<1> QED
    BY <1>2, <1>5, <1>6 DEF OwnerInv

\* What has been counted on, or is being added to, has a counter above zero.
LEMMA StepKeepsCounts ==
    ASSUME TypeOK, HandlerInv, FreshInv, OpenInv, KeyInv, CountInv, HandlerInv',
           NEW h \in Handler, Step(h)
    PROVE  CountInv'
<1> USE DEF TypeOK
<1>1. ASSUME NEW s \in Session, InTable(s)' PROVE count'[s] > 0
    <2>1. CASE UNCHANGED <<sessions, requests>> \/ RenameCommit(h)
        BY <1>1, <2>1 DEF CountInv, RenameCommit, sessions, InTable
    <2>2. CASE Stores(h)
        BY <1>1, <2>2, StoringIsLocal DEF CountInv, InTable
    <2>3. CASE DeleteCommit(h)
        BY <1>1, <2>3, DeletionIsLocal DEF CountInv, InTable
    <2> QED
        BY <2>1, <2>2, <2>3, TableChanges
<1>2. ASSUME NEW g \in Handler, pc'[g] = "adding", opened'[g] = {} PROVE seen'[g] > 0
    <2>1. CASE g = h
        <3>1. InTable(sid'[h]) /\ seen'[h] = count[sid'[h]] /\ sid'[h] \in Session
            BY <1>2, <2>1, AddingWasAdmitted
        <3> QED
            BY <2>1, <3>1 DEF CountInv
    <2>2. CASE g # h
        BY <1>2, <2>2, OthersStay DEF CountInv
    <2> QED
        BY <2>1, <2>2
<1> QED
    BY <1>1, <1>2 DEF CountInv

-----------------------------------------------------------------------------
(* The theorems.                                                           *)

\* create(), _load_or_create_session, rename and delete: the inductive
\* invariant, which ties identifiers, keys, owners and counters together.
THEOREM IntakeInvariant == Spec => []IntakeInv
<1>1. ASSUME IntakeInv, Next PROVE IntakeInv'
    <2>1. PICK h \in Handler : Step(h)
        BY <1>1 DEF Next, Step
    <2>2. HandlerInv'
        BY <1>1, <2>1, StepKeepsHandlers DEF IntakeInv
    <2>3. TypeOK' /\ FreshInv' /\ KeyInv'
        BY <1>1, <2>1, StepKeepsTypes, StepKeepsFresh, StepKeepsKeys DEF IntakeInv
    <2>4. OpenInv' /\ AnswerIsOwnRequest'
        BY <1>1, <2>1, <2>2, StepKeepsOpen, StepKeepsAnswers DEF IntakeInv
    <2>5. NoEmptySession' /\ OwnerInv' /\ CountInv'
        BY <1>1, <2>1, <2>2, StepKeepsNoEmpty, StepKeepsOwners, StepKeepsCounts DEF IntakeInv
    <2> QED
        BY <2>2, <2>3, <2>4, <2>5 DEF IntakeInv
<1>2. ASSUME IntakeInv, UNCHANGED vars PROVE IntakeInv'
    <2> USE <1>2 DEF IntakeInv, vars, sessions, requests, locals
    <2>1. TypeOK'
        BY DEF TypeOK
    <2>2. HandlerInv'
        BY DEF HandlerInv, Resting
    <2>3. FreshInv' /\ KeyInv'
        BY DEF FreshInv, KeyInv
    <2>4. OpenInv' /\ AnswerIsOwnRequest' /\ NoEmptySession'
        BY DEF OpenInv, AnswerIsOwnRequest, NoEmptySession, InTable
    <2>5. OwnerInv' /\ CountInv'
        BY DEF OwnerInv, CountInv, Requests, InTable
    <2> QED
        BY <2>1, <2>2, <2>3, <2>4, <2>5
<1> QED
    BY IntakeStarts, <1>1, <1>2, PTL DEF Spec

\* Every variable keeps its type (the rows and what handlers hold of them).
THEOREM IntakeTypes == Spec => []TypeOK
<1>1. IntakeInv => TypeOK
    BY DEF IntakeInv
<1> QED
    BY IntakeInvariant, <1>1, PTL

\* create() answers each caller with a request stored for that user and key,
\* in the session that was asked for, with any number of racing handlers.
THEOREM AnswersAreOwn == Spec => []AnswerIsOwnRequest
<1>1. IntakeInv => AnswerIsOwnRequest
    BY DEF IntakeInv
<1> QED
    BY IntakeInvariant, <1>1, PTL

\* _find_by_idempotency_key and the unique constraint: racing retries of one
\* call get one request.
THEOREM RetriesGetOneRequest == Spec => []RetriesAgree
<1>1. IntakeInv => RetriesAgree
    <2> SUFFICES ASSUME IntakeInv, NEW g \in Handler, NEW h \in Handler,
                        pc[g] = "answered", pc[h] = "answered",
                        call[g].user = call[h].user, call[g].key = call[h].key,
                        call[h].key # NoKey, rid[g] \in stored, rid[h] \in stored
                 PROVE  rid[g] = rid[h]
        BY DEF RetriesAgree
    <2>1. /\ of[rid[g]].user = of[rid[h]].user /\ of[rid[g]].key = of[rid[h]].key
          /\ of[rid[h]].key # NoKey
        BY DEF IntakeInv, AnswerIsOwnRequest
    <2> QED
        BY <2>1 DEF IntakeInv, KeyInv
<1> QED
    BY IntakeInvariant, <1>1, PTL

\* The session and its first request are committed together: no session is
\* ever seen without a message.
THEOREM SessionsHaveMessages == Spec => []NoEmptySession
<1>1. IntakeInv => NoEmptySession
    BY DEF IntakeInv
<1> QED
    BY IntakeInvariant, <1>1, PTL

\* Until a session is first deleted it holds its owner's requests only, and
\* request_count never exceeds them.
THEOREM SessionsHaveOneOwner == Spec => []SessionIsItsOwners
<1>1. IntakeInv => SessionIsItsOwners
    <2> SUFFICES ASSUME IntakeInv, NEW s \in Session, InTable(s), ~reborn[s]
                 PROVE  /\ \A r \in stored : of[r].session = s => of[r].user = owner[s]
                        /\ count[s] \in 1 .. Cardinality({r \in stored : of[r].session = s})
        BY DEF SessionIsItsOwners
    <2> QED
        BY DEF IntakeInv, OwnerInv, Requests
<1> QED
    BY IntakeInvariant, <1>1, PTL

\* A title chosen by a rename survives every commit that races with it, until
\* the session is deleted: who adds to a session in the table has loaded a
\* counter above zero, so the guard of create() keeps it from the column.
THEOREM TitlesStay == Spec => RenameSticks
<1> DEFINE Sticks == \A s \in Session : Renamed(s) /\ InTable(s)' => Renamed(s)'
<1>1. ASSUME IntakeInv, [Next]_vars, NEW s \in Session, Renamed(s), InTable(s)'
      PROVE  Renamed(s)'
    <2> USE <1>1 DEF IntakeInv
    <2>1. ASSUME title'[s] = title[s] PROVE Renamed(s)'
        BY <2>1 DEF Renamed
    <2>2. CASE UNCHANGED sessions
        BY <2>1, <2>2 DEF sessions
    <2>3. CASE Next
        <3>1. PICK h \in Handler : Step(h)
            BY <2>3 DEF Next, Step
        <3>2. CASE UNCHANGED <<sessions, requests>>
            BY <2>2, <3>2
        <3>3. CASE Stores(h)
            <4>1. s # sid[h] \/ opened[h] = {}
                BY DEF OpenInv, HandlerInv, Renamed
            <4>2. s # sid[h] \/ seen[h] > 0
                BY <3>3, <4>1 DEF CountInv, Stores
            <4> QED
                BY <2>1, <3>3, <4>2, StoringIsLocal
        <3>4. CASE RenameCommit(h)
            BY <2>1, <3>4 DEF RenameCommit, TypeOK, Renamed
        <3>5. CASE DeleteCommit(h)
            BY <2>1, <3>5, DeletionIsLocal DEF InTable
        <3> QED
            BY <3>1, <3>2, <3>3, <3>4, <3>5, TableChanges
    <2> QED
        BY <2>2, <2>3 DEF vars
<1>2. IntakeInv /\ [Next]_vars => Sticks
    BY <1>1
<1> QED
    BY IntakeInvariant, <1>2, PTL DEF Spec, RenameSticks
=============================================================================
