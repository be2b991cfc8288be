---------------------------- MODULE RequestIntake ----------------------------
(***************************************************************************)
(* How requests get into the table and leave it: RequestService.create     *)
(* with its idempotency keys, and the rename and deletion of sessions, run *)
(* by concurrent handlers over one PostgreSQL database at READ COMMITTED.  *)
(* A statement sees what is committed; an INSERT waits for another open    *)
(* transaction that inserted the same key, a DELETE for one that deleted   *)
(* the same row.  The flush and the commit that ends a transaction are one *)
(* step, as nothing they wrote is visible in between.  A handler may be    *)
(* interrupted between any two steps, which rolls it back.                 *)
(***************************************************************************)
EXTENDS Naturals, FiniteSets

CONSTANTS
    User, Session, Key, Request, Handler,
    NoUser,                 \* the owner of a session that is not there
    NoKey,                  \* a call without an idempotency key
    NoSession,              \* a call that lets the service pick a session
    NoRequest

ASSUME IntakeAssumption ==
    /\ NoUser \notin User
    /\ NoKey \notin Key
    /\ NoSession \notin Session
    /\ NoRequest \notin Request

VARIABLES
    owner,                  \* sessions.user_id, NoUser when there is no row
    count,                  \* sessions.request_count
    title,                  \* sessions.title
    reborn,                 \* history: the session has been deleted before
    stored,                 \* the requests in the table
    dropped,                \* history: requests deleted with their session
    of,                     \* user, key and session of a request
    pc, call, sid, rid,     \* handlers: place, arguments, session, request
    seen,                   \* the request_count it has loaded
    bare,                   \* the title it has loaded was empty
    opened,                 \* sessions its transaction has inserted
    marked                  \* requests its transaction has deleted

sessions == <<owner, count, title, reborn>>
requests == <<stored, dropped, of>>
locals == <<call, sid, rid, seen, bare>>
vars == <<sessions, requests, pc, locals, opened, marked>>

Call == [user : User, key : Key \cup {NoKey}, ask : Session \cup {NoSession}]
Columns == [user : User, key : Key \cup {NoKey}, session : Session]
NoCall == [user |-> NoUser, key |-> NoKey, ask |-> NoSession]
NoColumns == [user |-> NoUser, key |-> NoKey, session |-> NoSession]

\* No title, the text of a message, what a user chose, or the nothing that
\* strip() leaves of a choice of blanks.
Title == {"none", "text", "chosen", "blank"}
Empty(t) == t \in {"none", "blank"}

\* _find_by_idempotency_key; by the unique constraint at most one row.
ByKey(u, k) == {r \in stored : of[r].user = u /\ of[r].key = k /\ k # NoKey}

InTable(s) == owner[s] # NoUser
UsedSession(s) ==
    \/ InTable(s) \/ reborn[s]
    \/ \E r \in stored : of[r].session = s
    \/ \E h \in Handler : sid[h] = s
UsedRequest(r) == r \in stored \cup dropped \/ \E h \in Handler : rid[h] = r

Pcs == {"idle", "answered", "looked", "inserting", "reread", "adding", "conflict",
        "renaming", "deleting", "dropping"}

TypeOK ==
    /\ owner \in [Session -> User \cup {NoUser}]
    /\ count \in [Session -> Nat]
    /\ title \in [Session -> Title]
    /\ reborn \in [Session -> BOOLEAN]
    /\ stored \in SUBSET Request
    /\ dropped \in SUBSET Request
    /\ of \in [Request -> Columns \cup {NoColumns}]
    /\ pc \in [Handler -> Pcs]
    /\ call \in [Handler -> Call \cup {NoCall}]
    /\ sid \in [Handler -> Session \cup {NoSession}]
    /\ rid \in [Handler -> Request \cup {NoRequest}]
    /\ seen \in [Handler -> Nat]
    /\ bare \in [Handler -> BOOLEAN]
    /\ opened \in [Handler -> SUBSET Session]
    /\ marked \in [Handler -> SUBSET Request]

Init ==
    /\ owner = [s \in Session |-> NoUser]
    /\ count = [s \in Session |-> 0]
    /\ title = [s \in Session |-> "none"]
    /\ reborn = [s \in Session |-> FALSE]
    /\ stored = {}
    /\ dropped = {}
    /\ of = [r \in Request |-> NoColumns]
    /\ pc = [h \in Handler |-> "idle"]
    /\ call = [h \in Handler |-> NoCall]
    /\ sid = [h \in Handler |-> NoSession]
    /\ rid = [h \in Handler |-> NoRequest]
    /\ seen = [h \in Handler |-> 0]
    /\ bare = [h \in Handler |-> TRUE]
    /\ opened = [h \in Handler |-> {}]
    /\ marked = [h \in Handler |-> {}]

-----------------------------------------------------------------------------
(* The end of a handler: an error, a crash or a success without an answer. *)

Ends(h, place, r) ==
    /\ pc' = [pc EXCEPT ![h] = place]
    /\ rid' = [rid EXCEPT ![h] = r]
    /\ sid' = [sid EXCEPT ![h] = NoSession]
    /\ seen' = [seen EXCEPT ![h] = 0]
    /\ bare' = [bare EXCEPT ![h] = TRUE]
    /\ opened' = [opened EXCEPT ![h] = {}]
    /\ marked' = [marked EXCEPT ![h] = {}]

\* Its transaction is rolled back, if it has not committed.
Fail(h) == Ends(h, "idle", NoRequest) /\ call' = [call EXCEPT ![h] = NoCall]

\* It answers the caller with the identifier of a request.
Answer(h, c, r) == Ends(h, "answered", r) /\ call' = [call EXCEPT ![h] = c]

\* An answer for a found request, which must be in the session asked for.
AnswerFound(h, c, r) ==
    \/ /\ c.ask \in {NoSession, of[r].session}
       /\ Answer(h, c, r)
    \/ /\ c.ask \notin {NoSession, of[r].session}
       /\ Fail(h)

-----------------------------------------------------------------------------
(* Creating a request.                                                     *)

Resting(h) == pc[h] \in {"idle", "answered"}

\* The lookup of the key finds nothing, and the session is chosen.
CreateBegin(h, c, s) ==
    /\ Resting(h)
    /\ ByKey(c.user, c.key) = {}
    /\ IF c.ask = NoSession THEN ~UsedSession(s) ELSE s = c.ask
    /\ pc' = [pc EXCEPT ![h] = "looked"]
    /\ call' = [call EXCEPT ![h] = c]
    /\ sid' = [sid EXCEPT ![h] = s]
    /\ rid' = [rid EXCEPT ![h] = NoRequest]
    /\ UNCHANGED <<sessions, requests, seen, bare, opened, marked>>

\* The lookup of the key finds a request: no other is created.
CreateRepeated(h, c) ==
    /\ Resting(h)
    /\ \E r \in ByKey(c.user, c.key) : AnswerFound(h, c, r)
    /\ UNCHANGED <<sessions, requests>>

\* A session that somebody else owns is taken for the caller's.
AdmitAnyone(h) ==
    LET s == sid[h] IN
    /\ \E r \in Request : ~UsedRequest(r) /\ rid' = [rid EXCEPT ![h] = r]
    /\ pc' = [pc EXCEPT ![h] = "adding"]
    /\ seen' = [seen EXCEPT ![h] = count[s]]
    /\ bare' = [bare EXCEPT ![h] = Empty(title[s])]
    /\ UNCHANGED <<call, sid, opened, marked>>

\* A loaded session must be the caller's; then the request gets its id.
Admit(h) ==
    LET s == sid[h] IN
    \/ /\ owner[s] = call[h].user
       /\ \E r \in Request : ~UsedRequest(r) /\ rid' = [rid EXCEPT ![h] = r]
       /\ pc' = [pc EXCEPT ![h] = "adding"]
       /\ seen' = [seen EXCEPT ![h] = count[s]]
       /\ bare' = [bare EXCEPT ![h] = Empty(title[s])]
       /\ UNCHANGED <<call, sid, opened, marked>>
    \/ /\ owner[s] # call[h].user
       /\ Fail(h)

ReadSession(h) ==
    /\ pc[h] = "looked"
    /\ \/ /\ InTable(sid[h])
          /\ Admit(h)
       \/ /\ ~InTable(sid[h])
          /\ pc' = [pc EXCEPT ![h] = "inserting"]
          /\ UNCHANGED <<locals, opened, marked>>
    /\ UNCHANGED <<sessions, requests>>

\* The flush of the new session: it waits for a transaction that has
\* inserted the same session, and fails when the session got committed.
InsertSession(h) ==
    LET s == sid[h] IN
    /\ pc[h] = "inserting"
    /\ \A g \in Handler : s \notin opened[g]
    /\ \/ /\ InTable(s)
          /\ pc' = [pc EXCEPT ![h] = "reread"]
          /\ UNCHANGED <<locals, opened>>
       \/ /\ ~InTable(s)
          /\ \E r \in Request : ~UsedRequest(r) /\ rid' = [rid EXCEPT ![h] = r]
          /\ opened' = [opened EXCEPT ![h] = {s}]
          /\ pc' = [pc EXCEPT ![h] = "adding"]
          /\ UNCHANGED <<call, sid, seen, bare>>
    /\ UNCHANGED <<sessions, requests, marked>>

\* After the rollback the session is read again; it may be gone by then.
ReRead(h) ==
    /\ pc[h] = "reread"
    /\ \/ InTable(sid[h]) /\ Admit(h)
       \/ ~InTable(sid[h]) /\ Fail(h)
    /\ UNCHANGED <<sessions, requests>>

\* A session without a title gets the text of the next message as one.
StoreAndRetitle(h) ==
    LET c == call[h]  s == sid[h]  r == rid[h] IN
    /\ stored' = stored \cup {r}
    /\ of' = [of EXCEPT ![r] = [user |-> c.user, key |-> c.key, session |-> s]]
    /\ owner' = IF s \in opened[h] THEN [owner EXCEPT ![s] = c.user] ELSE owner
    /\ count' = [count EXCEPT ![s] = seen[h] + 1]
    /\ title' = IF bare[h] THEN [title EXCEPT ![s] = "text"] ELSE title
    /\ UNCHANGED <<reborn, dropped>>
    /\ Answer(h, c, r)

\* What a commit that goes through stores.  The text of a message becomes the
\* title of a session that had neither messages nor a title when it was loaded;
\* otherwise the UPDATE leaves the column alone, whatever is in it by now.
Store(h) ==
    LET c == call[h]  s == sid[h]  r == rid[h] IN
    /\ stored' = stored \cup {r}
    /\ of' = [of EXCEPT ![r] = [user |-> c.user, key |-> c.key, session |-> s]]
    /\ owner' = IF s \in opened[h] THEN [owner EXCEPT ![s] = c.user] ELSE owner
    /\ count' = [count EXCEPT ![s] = seen[h] + 1]
    /\ title' = IF seen[h] = 0 /\ bare[h] THEN [title EXCEPT ![s] = "text"] ELSE title
    /\ UNCHANGED <<reborn, dropped>>
    /\ Answer(h, c, r)

\* Without the unique constraint.
CommitUnchecked(h) ==
    /\ pc[h] = "adding"
    /\ Store(h)

\* INSERT of the request, INSERT or UPDATE of the session, COMMIT.  The key
\* may have been taken meanwhile (an IntegrityError, after waiting for a
\* deletion of that row), or the session deleted (a StaleDataError).
Commit(h) ==
    LET c == call[h]
        s == sid[h]
        sessionGone == s \notin opened[h] /\ ~InTable(s)
        taken == ByKey(c.user, c.key)
    IN
    /\ pc[h] = "adding"
    /\ \A g \in Handler : taken \cap marked[g] = {}
    /\ \/ /\ taken = {} /\ ~sessionGone
          /\ Store(h)
       \/ /\ taken # {}
          /\ pc' = [pc EXCEPT ![h] = "conflict"]
          /\ opened' = [opened EXCEPT ![h] = {}]
          /\ UNCHANGED <<sessions, requests, locals, marked>>
       \/ /\ sessionGone
          /\ Fail(h)
          /\ UNCHANGED <<sessions, requests>>

\* A handler that reports its own request after the rollback.
AnswerOwnId(h) ==
    /\ pc[h] = "conflict"
    /\ Answer(h, call[h], rid[h])
    /\ UNCHANGED <<sessions, requests>>

\* After the rollback the key is looked up again.
Requery(h) ==
    LET c == call[h] IN
    /\ pc[h] = "conflict"
    /\ \/ \E r \in ByKey(c.user, c.key) : AnswerFound(h, c, r)
       \/ ByKey(c.user, c.key) = {} /\ Fail(h)
    /\ UNCHANGED <<sessions, requests>>

-----------------------------------------------------------------------------
(* Renaming and deleting a session.                                        *)

\* The session must be the caller's when it is loaded.
Open(h, u, s, place) ==
    /\ Resting(h)
    /\ owner[s] = u
    /\ pc' = [pc EXCEPT ![h] = place]
    /\ call' = [call EXCEPT ![h] = [user |-> u, key |-> NoKey, ask |-> s]]
    /\ sid' = [sid EXCEPT ![h] = s]
    /\ rid' = [rid EXCEPT ![h] = NoRequest]
    /\ UNCHANGED <<sessions, requests, seen, bare, opened, marked>>

\* The UPDATE is by primary key; without the row it is a StaleDataError.
RenameCommit(h) ==
    /\ pc[h] = "renaming"
    /\ \E t \in {"chosen", "blank"} :
          title' = IF InTable(sid[h]) THEN [title EXCEPT ![sid[h]] = t] ELSE title
    /\ Fail(h)
    /\ UNCHANGED <<owner, count, reborn, requests>>

\* DELETE FROM requests, after waiting for a deletion of the same rows.
DeleteRequests(h) ==
    LET gone == {r \in stored : of[r].session = sid[h] /\ of[r].user = call[h].user}
    IN
    /\ pc[h] = "deleting"
    /\ \A g \in Handler : gone \cap marked[g] = {}
    /\ marked' = [marked EXCEPT ![h] = gone]
    /\ pc' = [pc EXCEPT ![h] = "dropping"]
    /\ UNCHANGED <<sessions, requests, locals, opened>>

\* A deletion that keeps the session row.
DropRequestsOnly(h) ==
    /\ pc[h] = "dropping"
    /\ stored' = stored \ marked[h]
    /\ dropped' = dropped \cup marked[h]
    /\ Fail(h)
    /\ UNCHANGED <<sessions, of>>

\* DELETE FROM sessions by primary key, COMMIT.
DeleteCommit(h) ==
    LET s == sid[h] IN
    /\ pc[h] = "dropping"
    /\ stored' = stored \ marked[h]
    /\ dropped' = dropped \cup marked[h]
    /\ owner' = [owner EXCEPT ![s] = NoUser]
    /\ count' = [count EXCEPT ![s] = 0]
    /\ title' = [title EXCEPT ![s] = "none"]
    /\ reborn' = [reborn EXCEPT ![s] = TRUE]
    /\ Fail(h)
    /\ UNCHANGED of

Interrupt(h) ==
    /\ ~Resting(h)
    /\ Fail(h)
    /\ UNCHANGED <<sessions, requests>>

-----------------------------------------------------------------------------

Progress(h) ==
    \/ ReadSession(h)
    \/ InsertSession(h)
    \/ ReRead(h)
    \/ Commit(h)
    \/ Requery(h)
    \/ RenameCommit(h)
    \/ DeleteRequests(h)
    \/ DeleteCommit(h)

Arrive(h) ==
    \/ \E c \in Call : CreateRepeated(h, c) \/ \E s \in Session : CreateBegin(h, c, s)
    \/ \E u \in User, s \in Session : Open(h, u, s, "renaming") \/ Open(h, u, s, "deleting")

Next == \E h \in Handler : Arrive(h) \/ Progress(h) \/ Interrupt(h)

Spec == Init /\ [][Next]_vars

-----------------------------------------------------------------------------
(* Properties.                                                             *)

\* create() answers with a request that was stored for that user and key, in
\* the session the caller asked for: never with an id it rolled back, nor
\* with somebody else's request under the same key.
AnswerIsOwnRequest ==
    \A h \in Handler : pc[h] = "answered" =>
        /\ rid[h] \in stored \cup dropped
        /\ of[rid[h]].user = call[h].user
        /\ of[rid[h]].key = call[h].key
        /\ call[h].ask \in {NoSession, of[rid[h]].session}

\* Two answers to one user about one key name one request, unless it has
\* been deleted since: however the two calls raced.
RetriesAgree ==
    \A g, h \in Handler :
        /\ pc[g] = "answered" /\ pc[h] = "answered"
        /\ call[g].user = call[h].user
        /\ call[g].key = call[h].key /\ call[h].key # NoKey
        /\ {rid[g], rid[h]} \subseteq stored
        => rid[g] = rid[h]

\* The session and its first request are committed together, and leave
\* together: no session without a message is ever visible.
NoEmptySession ==
    \A s \in Session : InTable(s) => \E r \in stored : of[r].session = s

\* Until a session is first deleted, all its requests are its owner's, and
\* its counter is at least one and never above their number.
SessionIsItsOwners ==
    \A s \in Session : InTable(s) /\ ~reborn[s] =>
        /\ \A r \in stored : of[r].session = s => of[r].user = owner[s]
        /\ count[s] \in 1 .. Cardinality({r \in stored : of[r].session = s})

Renamed(s) == InTable(s) /\ title[s] \in {"chosen", "blank"}

\* A title the user chose stays until the session is deleted, a choice of
\* blanks too: no message that was or is being created when the user renames
\* the session sets it back, in whatever order they load and commit.
RenameSticks ==
    [][\A s \in Session : Renamed(s) /\ InTable(s)' => Renamed(s)']_vars

-----------------------------------------------------------------------------
(* The inductive invariant behind them.                                    *)

Requests(s) == {r \in stored : of[r].session = s}

\* What a handler holds, by its place.
HandlerInv ==
    \A h \in Handler :
        /\ ~Resting(h) => call[h] \in Call /\ sid[h] \in Session
        /\ pc[h] \notin {"adding", "conflict"} => seen[h] = 0
        /\ opened[h] # {} => pc[h] = "adding" /\ seen[h] = 0 /\ opened[h] = {sid[h]}
        /\ marked[h] # {} => pc[h] = "dropping"
        /\ \A r \in marked[h] : r \in stored \cup dropped /\ of[r].session = sid[h]
        /\ pc[h] \in {"looked", "inserting", "reread", "adding", "conflict"} =>
              call[h].ask \in {NoSession, sid[h]}

\* The identifier of a request that is being added is nobody else's.
FreshInv ==
    \A h \in Handler : pc[h] = "adding" =>
        /\ rid[h] \in Request \ (stored \cup dropped)
        /\ \A g \in Handler \ {h} : rid[g] # rid[h]

\* A session that is being opened is not there yet, and is opened once.
OpenInv ==
    \A h \in Handler : \A s \in opened[h] :
        /\ ~InTable(s)
        /\ \A g \in Handler \ {h} : s \notin opened[g]

\* The unique constraint on user and key.
KeyInv ==
    /\ \A r \in stored \cup dropped : of[r] \in Columns
    /\ \A q, r \in stored : of[q].user = of[r].user /\ of[q].key = of[r].key /\ of[r].key # NoKey
                              => q = r

\* A session nobody has deleted yet, with the handlers that add to it.
OwnerInv ==
    /\ IsFiniteSet(stored)
    /\ \A s \in Session : ~reborn[s] =>
          /\ ~InTable(s) => Requests(s) = {}
          /\ InTable(s) => /\ \A r \in Requests(s) : of[r].user = owner[s]
                           /\ count[s] \in 1 .. Cardinality(Requests(s))
          /\ \A h \in Handler : pc[h] = "adding" /\ sid[h] = s /\ s \notin opened[h] =>
                InTable(s) /\ owner[s] = call[h].user /\ seen[h] <= Cardinality(Requests(s))

\* A session in the table has been counted on, and so has what is added to.
CountInv ==
    /\ \A s \in Session : InTable(s) => count[s] > 0
    /\ \A h \in Handler : pc[h] = "adding" /\ opened[h] = {} => seen[h] > 0

IntakeInv ==
    /\ TypeOK /\ HandlerInv /\ FreshInv /\ OpenInv /\ KeyInv
    /\ AnswerIsOwnRequest /\ NoEmptySession /\ OwnerInv /\ CountInv
=============================================================================
