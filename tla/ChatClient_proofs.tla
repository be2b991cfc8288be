-------------------------- MODULE ChatClient_proofs --------------------------
(***************************************************************************)
(* For any conversations, any number of calls in flight and any number of  *)
(* messages and approvals: ClientInv is inductive, and with it hold the    *)
(* safety properties the run checks.                                       *)
(***************************************************************************)
EXTENDS ChatClient, FiniteSetTheorems, TLAPS

\* In the beginning ClientInv holds.
LEMMA ClientStarts == Init => ClientInv
<1> SUFFICES ASSUME Init PROVE ClientInv
    OBVIOUS
<1>1. TypeOK
    <2>1. Nothing \in Waiting /\ NoPost \in Post /\ Null \in Pending
        BY DEF Waiting, Nothing, Post, NoPost, Pending
    <2>2. 0 \in Id /\ 0 \in Clicks
        BY ClientAssumption DEF Id, Clicks
    <2> QED
        BY <2>1, <2>2, ClientAssumption DEF Init, TypeOK, Id, Clicks
<1>2. CallInv
    BY DEF Init, CallInv, Chat, Nothing, NoPost
<1>3. CountInv
    <2>1. OnTheWay("approve") = {} /\ OnTheWay("send") = {}
        BY DEF Init, OnTheWay, NoPost
    <2>2. Cardinality(OnTheWay("approve")) = 0 /\ Cardinality(OnTheWay("send")) = 0
        BY <2>1, FS_EmptySet
    <2>3. runs.plain = 0 /\ runs.granted = 0 /\ gestures.sent = 0 /\ gestures.approved = 0
        BY DEF Init
    <2> QED
        BY <2>1, <2>2, <2>3 DEF CountInv
<1>4. OneSend
    BY DEF Init, OneSend, Nothing
<1>5. PlaceInv
    BY DEF Init, PlaceInv, Nothing, Chat
<1> QED
    BY <1>1, <1>2, <1>3, <1>4, <1>5 DEF ClientInv

-----------------------------------------------------------------------------
(* Types.                                                                  *)

\* A call that begins, of sendMessage or of confirmApproval, is well-typed.
LEMMA BeginTypes ==
    ASSUME TypeOK, NEW c \in Call, NEW fn \in {"send", "approve"}, NEW s \in Session,
           NEW id \in Id, Begin(c, fn, s, id)
    PROVE  /\ calls' \in [Call -> Waiting] /\ posts' \in [Call -> Post]
           /\ known' \subseteq Session /\ thinking' \in Nat
           /\ base' \in Session \cup {Null}
           /\ stray' \in BOOLEAN /\ disturbed' \in BOOLEAN
<1>1. [fn |-> fn, session |-> s, id |-> id, at |-> "response"] \in Waiting
    BY DEF Waiting
<1>2. [at |-> "sent", session |-> s, id |-> id, granted |-> fn = "approve",
       asks |-> FALSE] \in Post
    BY DEF Post
<1> QED
    BY <1>1, <1>2 DEF Begin, TypeOK, Show

\* Every step of the page, the network and the server keeps the types.
LEMMA StepKeepsTypes == ASSUME TypeOK, Next PROVE TypeOK'
<1> USE ClientAssumption DEF TypeOK
<1>1. CASE Cancel
    BY <1>1 DEF Cancel, history, Pending
<1>2. CASE NewChat
    BY <1>2 DEF NewChat, Awaited
<1>3. ASSUME NEW c \in Call, Send(c) PROVE TypeOK'
    <2>1. PICK s \in Session : Begin(c, "send", s, gestures.sent + 1)
        BY <1>3 DEF Send
    <2>2. gestures.sent + 1 \in Id /\ gestures' \in [sent : Id, approved : Clicks]
        BY <1>3 DEF Send, Id, Clicks
    <2> QED
        BY <1>3, <2>1, <2>2, BeginTypes DEF Send
<1>4. ASSUME NEW c \in Call, Approve(c) PROVE TypeOK'
    <2>1. pending.session \in Session /\ pending.id \in Id
        BY <1>4 DEF Approve, Pending
    <2>2. gestures' \in [sent : Id, approved : Clicks]
        BY <1>4 DEF Approve, Id, Clicks
    <2>3. Begin(c, "approve", pending.session, pending.id)
        BY <1>4 DEF Approve
    <2>4. pending' \in Pending
        BY <1>4 DEF Approve, Pending
    <2> QED
        BY <1>4, <2>1, <2>2, <2>3, <2>4, BeginTypes DEF Approve
<1>5. ASSUME NEW c \in Call, NEW s \in Session, Open(c, s) \/ Delete(c, s) PROVE TypeOK'
    <2>1. [fn |-> "open", session |-> s] \in Waiting /\ [fn |-> "delete", session |-> s] \in Waiting
        BY DEF Waiting
    <2> QED
        BY <1>5, <2>1 DEF Open, Delete, page, Awaited
<1>6. ASSUME NEW c \in Call, Serve(c) PROVE TypeOK'
    <2>1. posts[c] \in Post /\ posts[c].at = "sent"
        BY <1>6 DEF Serve
    <2>2. posts[c].session \in Session /\ posts[c].id \in Id /\ posts[c].granted \in BOOLEAN
        BY <2>1 DEF Post
    <2>3. posts' \in [Call -> Post]
        <3>1. \A a \in BOOLEAN : [posts[c] EXCEPT !.at = "answered", !.asks = a] \in Post
            BY <2>1 DEF Post
        <3>3. PICK a \in {FALSE, ~posts[c].granted} :
                 posts' = [posts EXCEPT ![c] =
                              IF Chat(c) THEN [posts[c] EXCEPT !.at = "answered", !.asks = a]
                              ELSE NoPost]
            BY <1>6 DEF Serve
        <3>4. a \in BOOLEAN
            BY <2>2
        <3>2. NoPost \in Post
            BY DEF Post, NoPost
        <3> QED
            BY <3>1, <3>2, <3>3, <3>4
    <2>4. asked' \subseteq [session : Session, id : Id]
        BY <1>6, <2>2 DEF Serve
    <2>5. runs' \in [plain : Nat, granted : Nat]
        BY <1>6 DEF Serve
    <2> QED
        BY <1>6, <2>3, <2>4, <2>5 DEF Serve, page
<1>7. ASSUME NEW c \in Call, Lose(c) PROVE TypeOK'
    BY <1>7 DEF Lose, page, history, Post, NoPost
<1>8. ASSUME NEW c \in Call, Arrives(c) PROVE TypeOK'
    <2>1. Nothing \in Waiting /\ NoPost \in Post
        BY DEF Waiting, Nothing, Post, NoPost
    <2>2. /\ calls[c].fn \in {"open", "delete", "send", "approve"} => calls[c].session \in Session
          /\ Chat(c) => /\ calls[c].id \in Id
                        /\ \A at \in {"body", "sessions", "end"} :
                              [calls[c] EXCEPT !.at = at] \in Waiting
        BY DEF Waiting, Chat
    <2>3. CASE Respond(c)
        BY <2>2, <2>3 DEF Respond, page, history, At
    <2>4. ASSUME Receive(c) \/ Adopted(c) PROVE TypeOK'
        <3>1. Chat(c)
            BY <2>4 DEF Receive, Adopted, At
        <3>2. calls[c].session \in Session /\ calls[c].id \in Id
            BY <2>2, <3>1 DEF Chat
        <3>3. [session |-> calls[c].session, id |-> calls[c].id] \in Pending
            BY <3>2 DEF Pending
        <3>4. calls' \in [Call -> Waiting]
            BY <2>2, <2>4, <3>1 DEF Receive, Adopted, Deliver
        <3>5. pending' \in Pending
            BY <2>4, <3>3 DEF Receive, Adopted, Deliver
        <3>6. base' \in Session \cup {Null} /\ stray' \in BOOLEAN /\ current' \in Session \cup {Null}
            BY <2>4, <3>2 DEF Receive, Adopted, Deliver, Show
        <3>7. thinking' \in Nat
            BY <2>4 DEF Receive, Adopted, HideLoading
        <3> QED
            BY <2>4, <3>4, <3>5, <3>6, <3>7 DEF Receive, Adopted
    <2>6. CASE End(c)
        <3>1. calls' \in [Call -> Waiting] /\ posts' \in [Call -> Post]
            BY <2>1, <2>6 DEF End, Finish
        <3>2. sending' \in BOOLEAN /\ released' \in BOOLEAN
            BY <2>6 DEF End, Finish
        <3> QED
            BY <2>6, <3>1, <3>2 DEF End
    <2>7. CASE Fail(c)
        <3>1. calls' \in [Call -> Waiting] /\ posts' \in [Call -> Post]
            BY <2>1, <2>7 DEF Fail, Finish
        <3>2. sending' \in BOOLEAN /\ released' \in BOOLEAN /\ disturbed' \in BOOLEAN
            BY <2>7 DEF Fail, Finish
        <3>3. base' \in Session \cup {Null} /\ stray' \in BOOLEAN
            BY <2>2, <2>7 DEF Fail, Show, At, Chat
        <3>4. thinking' \in Nat
            BY <2>7 DEF Fail, HideLoading
        <3> QED
            BY <2>7, <3>1, <3>2, <3>3, <3>4 DEF Fail
    <2>8. CASE Opened(c) \/ NotOpened(c) \/ Deleted(c) \/ NotDeleted(c)
        <3>1. calls' \in [Call -> Waiting]
            BY <2>1, <2>8 DEF Opened, NotOpened, Deleted, NotDeleted
        <3>2. base' \in Session \cup {Null} /\ current' \in Session \cup {Null} /\ thinking' \in Nat
            BY <2>2, <2>8 DEF Opened, NotOpened, Deleted, NotDeleted, page
        <3>3. known' \subseteq Session /\ visible' \in BOOLEAN /\ disturbed' \in BOOLEAN
            BY <2>8 DEF Opened, NotOpened, Deleted, NotDeleted, page, history
        <3> QED
            BY <2>8, <3>1, <3>2, <3>3 DEF Opened, NotOpened, Deleted, NotDeleted, page, history
    <2> QED
        BY <1>8, <2>3, <2>4, <2>6, <2>7, <2>8 DEF Arrives
<1> QED
    BY <1>1, <1>2, <1>3, <1>4, <1>5, <1>6, <1>7, <1>8 DEF Next

-----------------------------------------------------------------------------
(* Counting what is run.                                                   *)

\* A post that is new, done with or gone changes what is on the way by it.
LEMMA OneMore ==
    ASSUME TypeOK, NEW fn \in {"send", "approve"}, NEW c \in Call,
           NEW p, posts' = [posts EXCEPT ![c] = p]
    PROVE  /\ IsFiniteSet(OnTheWay(fn))
           /\ Cardinality(OnTheWay(fn)) \in Nat
           /\ OnTheWay(fn)' = IF p.at = "sent" /\ (p.granted <=> fn = "approve")
                                   THEN OnTheWay(fn) \cup {c}
                                   ELSE OnTheWay(fn) \ {c}
           /\ Cardinality(OnTheWay(fn) \cup {c}) <= Cardinality(OnTheWay(fn)) + 1
           /\ Cardinality(OnTheWay(fn) \ {c}) <= Cardinality(OnTheWay(fn))
           /\ c \in OnTheWay(fn) =>
                 Cardinality(OnTheWay(fn) \ {c}) = Cardinality(OnTheWay(fn)) - 1
           /\ Cardinality(OnTheWay(fn) \cup {c}) \in Nat
           /\ Cardinality(OnTheWay(fn) \ {c}) \in Nat
<1>1. IsFiniteSet(OnTheWay(fn))
    BY ClientAssumption, FS_Subset, OnTheWay(fn) \subseteq Call DEF OnTheWay
<1>2. OnTheWay(fn)' = IF p.at = "sent" /\ (p.granted <=> fn = "approve")
                           THEN OnTheWay(fn) \cup {c} ELSE OnTheWay(fn) \ {c}
    BY DEF OnTheWay, TypeOK
<1> QED
    BY <1>1, <1>2, FS_CardinalityType, FS_AddElement, FS_RemoveElement

\* A call that begins puts a post on its way, granted if it is an approval's.
LEMMA Posted ==
    ASSUME NEW c, NEW fn, NEW s, NEW id, Begin(c, fn, s, id)
    PROVE  \E p : /\ posts' = [posts EXCEPT ![c] = p]
                  /\ p.at = "sent" /\ (p.granted <=> fn = "approve")
<1> DEFINE q == [at |-> "sent", session |-> s, id |-> id, granted |-> fn = "approve",
                 asks |-> FALSE]
<1>1. posts' = [posts EXCEPT ![c] = q]
    BY DEF Begin
<1>2. q.at = "sent" /\ (q.granted <=> fn = "approve")
    OBVIOUS
<1> QED
    BY <1>1, <1>2

\* No step runs what was not sent, or runs it twice.
LEMMA StepKeepsCounts == ASSUME TypeOK, CountInv, Next PROVE CountInv'
<1> DEFINE Way(g) == Cardinality(OnTheWay(g))
<1>1. /\ runs.plain \in Nat /\ runs.granted \in Nat
      /\ gestures.sent \in Nat /\ gestures.approved \in Nat
    BY ClientAssumption DEF TypeOK, Id, Clicks
<1>2. ASSUME UNCHANGED <<posts, gestures, runs>> PROVE CountInv'
    BY <1>2 DEF CountInv, OnTheWay
<1>3. ASSUME NEW c \in Call, Send(c) PROVE CountInv'
    <2>0. PICK s \in Session : Begin(c, "send", s, gestures.sent + 1)
        BY <1>3 DEF Send, TypeOK
    <2>1. PICK p : /\ posts' = [posts EXCEPT ![c] = p] /\ p.at = "sent" /\ ~p.granted
        <3>1. ~("send" = "approve")
            OBVIOUS
        <3> QED
            BY <2>0, <3>1, Posted
    <2>2. gestures'.sent = gestures.sent + 1 /\ gestures'.approved = gestures.approved
        BY <1>3 DEF Send, TypeOK
    <2>3. runs' = runs
        BY <1>3 DEF Send
    <2>4. Way("send")' <= Way("send") + 1 /\ Way("send") \in Nat /\ Way("send")' \in Nat
        BY <2>1, OneMore
    <2>5. Way("approve")' <= Way("approve") /\ Way("approve") \in Nat /\ Way("approve")' \in Nat
        BY <2>1, OneMore
    <2> QED
        BY <1>1, <2>2, <2>3, <2>4, <2>5 DEF CountInv
<1>4. ASSUME NEW c \in Call, Approve(c) PROVE CountInv'
    <2>0. Begin(c, "approve", pending.session, pending.id)
        BY <1>4 DEF Approve
    <2>1. PICK p : /\ posts' = [posts EXCEPT ![c] = p] /\ p.at = "sent" /\ p.granted
        BY <2>0, Posted
    <2>2. gestures'.sent = gestures.sent /\ gestures'.approved = gestures.approved + 1
        BY <1>4 DEF Approve, TypeOK
    <2>3. runs' = runs
        BY <1>4 DEF Approve
    <2>4. Way("approve")' <= Way("approve") + 1 /\ Way("approve") \in Nat /\ Way("approve")' \in Nat
        BY <2>1, OneMore
    <2>5. Way("send")' <= Way("send") /\ Way("send") \in Nat /\ Way("send")' \in Nat
        BY <2>1, OneMore
    <2> QED
        BY <1>1, <2>2, <2>3, <2>4, <2>5 DEF CountInv
<1>5. ASSUME NEW c \in Call, Serve(c) PROVE CountInv'
    <2>1. PICK p : posts' = [posts EXCEPT ![c] = p] /\ p.at # "sent"
        <3>1. posts[c] \in Post /\ posts[c].at = "sent"
            BY <1>5 DEF Serve, TypeOK
        <3>2. PICK a \in {FALSE, ~posts[c].granted} :
                 posts' = [posts EXCEPT ![c] =
                              IF Chat(c) THEN [posts[c] EXCEPT !.at = "answered", !.asks = a]
                              ELSE NoPost]
            BY <1>5 DEF Serve
        <3> DEFINE q == IF Chat(c) THEN [posts[c] EXCEPT !.at = "answered", !.asks = a]
                                   ELSE NoPost
        <3>3. q.at # "sent"
            BY <3>1 DEF Post, NoPost
        <3>4. posts' = [posts EXCEPT ![c] = q]
            BY <3>2
        <3> QED
            BY <3>3, <3>4
    <2>2. gestures' = gestures
        BY <1>5 DEF Serve
    <2>4. \A g \in {"send", "approve"} :
             /\ Way(g) \in Nat /\ Way(g)' \in Nat /\ Way(g)' <= Way(g)
             /\ c \in OnTheWay(g) => Way(g)' = Way(g) - 1
        BY <2>1, OneMore
    <2>5. CASE posts[c].granted
        <3>1. runs'.plain = runs.plain /\ runs'.granted = runs.granted + 1
            BY <1>5, <2>5 DEF Serve, TypeOK
        <3>2. c \in OnTheWay("approve")
            BY <1>5, <2>5 DEF Serve, OnTheWay
        <3> QED
            BY <1>1, <2>2, <2>4, <3>1, <3>2 DEF CountInv
    <2>6. CASE ~posts[c].granted
        <3>1. runs'.plain = runs.plain + 1 /\ runs'.granted = runs.granted
            BY <1>5, <2>6 DEF Serve, TypeOK
        <3>2. c \in OnTheWay("send")
            BY <1>5, <2>6 DEF Serve, OnTheWay
        <3> QED
            BY <1>1, <2>2, <2>4, <3>1, <3>2 DEF CountInv
    <2> QED
        BY <2>5, <2>6
<1>6. ASSUME NEW c \in Call, NEW p, posts' = [posts EXCEPT ![c] = p],
             posts[c].at = "sent" => p = posts[c] \/ p.at # "sent",
             posts[c].at # "sent" => p.at # "sent",
             UNCHANGED <<gestures, runs>>
      PROVE  CountInv'
    <2>1. \A g \in {"send", "approve"} : OnTheWay(g)' \subseteq OnTheWay(g)
        BY <1>6 DEF OnTheWay, TypeOK
    <2>2. \A g \in {"send", "approve"} : Way(g)' <= Way(g) /\ Way(g) \in Nat /\ Way(g)' \in Nat
        BY <1>6, <2>1, OneMore, FS_Subset
    <2> QED
        BY <1>1, <1>6, <2>2 DEF CountInv
<1>7. ASSUME NEW c \in Call, Lose(c) PROVE CountInv'
    BY <1>6, <1>7 DEF Lose, NoPost, history
<1>8. ASSUME NEW c \in Call, End(c) \/ Fail(c) PROVE CountInv'
    BY <1>6, <1>8 DEF End, Fail, Finish, NoPost
<1>9. ASSUME NEW c \in Call, Arrives(c), ~End(c), ~Fail(c) PROVE CountInv'
    BY <1>2, <1>9 DEF Arrives, Respond, Receive, Adopted, Opened, NotOpened, Deleted,
       NotDeleted, history
<1>10. ASSUME NEW c \in Call, NEW s \in Session, Open(c, s) \/ Delete(c, s) PROVE CountInv'
    BY <1>2, <1>10 DEF Open, Delete
<1>11. CASE Cancel \/ NewChat
    BY <1>2, <1>11 DEF Cancel, NewChat, history
<1> QED
    BY <1>3, <1>4, <1>5, <1>7, <1>8, <1>9, <1>10, <1>11 DEF Next

-----------------------------------------------------------------------------
(* Sending, and what an approval is for.                                   *)

\* A message that is being sent keeps out the next until a call ends.
LEMMA StepKeepsOneSend == ASSUME TypeOK, OneSend, Next PROVE OneSend'
<1> USE DEF OneSend, TypeOK
<1>1. ASSUME NEW c \in Call, Send(c) PROVE OneSend'
    BY <1>1 DEF Send, Begin, Free, Nothing
<1>2. ASSUME NEW c \in Call, Approve(c) PROVE OneSend'
    BY <1>2 DEF Approve, Begin, Free, Nothing
<1>3. ASSUME NEW c \in Call, NEW s \in Session, Open(c, s) \/ Delete(c, s) PROVE OneSend'
    BY <1>3 DEF Open, Delete, Free, Nothing, page
<1>4. ASSUME NEW c \in Call, End(c) \/ Fail(c) PROVE OneSend'
    <2>1. Chat(c) /\ Finish(c)
        BY <1>4 DEF End, Fail, At
    <2>2. CASE calls[c].fn = "send"
        BY <2>1, <2>2 DEF Finish, Nothing
    <2>3. CASE calls[c].fn = "approve"
        BY <2>1, <2>3 DEF Finish, Nothing
    <2> QED
        BY <2>1, <2>2, <2>3 DEF Chat
<1>5. ASSUME NEW c \in Call, Arrives(c), ~End(c), ~Fail(c) PROVE OneSend'
    <2>1. \A d \in Call : calls'[d].fn = "send" <=> calls[d].fn = "send"
        <3>1. CASE Respond(c) \/ Receive(c) \/ Adopted(c)
            <4>1. Chat(c) /\ \E at : calls' = [calls EXCEPT ![c].at = at]
                BY <3>1 DEF Respond, Receive, Adopted, Deliver, At
            <4>2. \A at : [calls[c] EXCEPT !.at = at].fn = calls[c].fn
                BY <4>1 DEF Waiting, Chat
            <4> QED
                BY <4>1, <4>2
        <3>2. CASE Opened(c) \/ NotOpened(c) \/ Deleted(c) \/ NotDeleted(c)
            BY <3>2 DEF Opened, NotOpened, Deleted, NotDeleted, Nothing
        <3> QED
            BY <1>5, <3>1, <3>2 DEF Arrives
    <2>2. sending' = sending /\ released' = released
        BY <1>5 DEF Arrives, Respond, Receive, Adopted, Opened, NotOpened, Deleted,
           NotDeleted, page, history
    <2> QED
        BY <2>1, <2>2
<1>6. ASSUME UNCHANGED <<calls, sending, released>> PROVE OneSend'
    BY <1>6
<1> QED
    BY <1>1, <1>2, <1>3, <1>4, <1>5, <1>6 DEF Next, Cancel, NewChat, Serve, Lose, page, history

\* What is asked about, waited for and answered stays about one message.
LEMMA StepKeepsCalls == ASSUME TypeOK, CallInv, Next PROVE CallInv'
<1> USE DEF CallInv, TypeOK
<1>1. ASSUME NEW c \in Call, Send(c) PROVE CallInv'
    <2>1. PICK s \in Session : Begin(c, "send", s, gestures.sent + 1)
        BY <1>1 DEF Send
    <2> QED
        BY <1>1, <2>1 DEF Send, Begin, Free, Nothing, NoPost, Chat
<1>2. ASSUME NEW c \in Call, Approve(c) PROVE CallInv'
    <2>1. pending = [session |-> pending.session, id |-> pending.id] /\ pending \in asked
        BY <1>2 DEF Approve, Pending
    <2> QED
        BY <1>2, <2>1 DEF Approve, Begin, Free, Nothing, NoPost, Chat
<1>3. ASSUME NEW c \in Call, NEW s \in Session, Open(c, s) \/ Delete(c, s) PROVE CallInv'
    BY <1>3 DEF Open, Delete, Free, Nothing, NoPost, Chat, page
<1>4. ASSUME NEW c \in Call, End(c) \/ Fail(c) PROVE CallInv'
    BY <1>4 DEF End, Fail, Finish, Nothing, NoPost, Chat
<1>5. ASSUME NEW c \in Call, Respond(c) \/ Receive(c) \/ Adopted(c) PROVE CallInv'
    <2>1. PICK at \in {"body", "sessions", "end"} : calls' = [calls EXCEPT ![c].at = at]
        BY <1>5 DEF Respond, Receive, Adopted, Deliver
    <2>2. Chat(c)
        BY <1>5 DEF Respond, Receive, Adopted, At
    <2>3. /\ calls'[c].fn = calls[c].fn /\ calls'[c].session = calls[c].session
          /\ calls'[c].id = calls[c].id
        BY <2>1, <2>2 DEF Waiting, Chat
    <2>4. posts' = posts /\ asked' = asked /\ posts[c].at = "answered"
        BY <1>5 DEF Respond, Receive, Adopted, At, history
    <2>5. pending' # Null => pending' \in asked
        <3>1. posts[c].asks => [session |-> calls[c].session, id |-> calls[c].id] \in asked
            BY <2>2, <2>4
        <3> QED
            BY <1>5, <3>1 DEF Respond, Receive, Adopted, Deliver, page
    <2>6. \A d \in Call : Chat(d)' <=> Chat(d)
        BY <2>1, <2>3 DEF Chat
    <2>7. \A d \in Call : d # c => calls'[d] = calls[d]
        BY <2>1
    <2> QED
        BY <2>2, <2>3, <2>4, <2>5, <2>6, <2>7 DEF Chat
<1>6. ASSUME NEW c \in Call, Opened(c) \/ NotOpened(c) \/ Deleted(c) \/ NotDeleted(c)
      PROVE  CallInv'
    <2>1. /\ calls' = [calls EXCEPT ![c] = Nothing] /\ ~Chat(c)
          /\ posts' = posts /\ pending' = pending /\ asked' = asked
        BY <1>6 DEF Opened, NotOpened, Deleted, NotDeleted, Chat, page, history
    <2>2. ~Chat(c)' /\ calls'[c].fn = "none" /\ posts[c].at # "answered"
        BY <2>1 DEF Nothing, Chat
    <2>3. \A d \in Call : d # c => calls'[d] = calls[d] /\ (Chat(d)' <=> Chat(d))
        BY <2>1 DEF Chat
    <2> QED
        BY <2>1, <2>2, <2>3
<1>7. ASSUME NEW c \in Call, Serve(c) PROVE CallInv'
    <2> DEFINE name == [session |-> posts[c].session, id |-> posts[c].id]
    <2>1. posts[c] \in Post /\ posts[c].at = "sent"
        BY <1>7 DEF Serve
    <2>2. PICK a \in {FALSE, ~posts[c].granted} :
             /\ posts' = [posts EXCEPT ![c] =
                             IF Chat(c) THEN [posts[c] EXCEPT !.at = "answered", !.asks = a]
                             ELSE NoPost]
             /\ asked' = IF a THEN asked \cup {name} ELSE asked
        BY <1>7 DEF Serve
    <2>3. Chat(c) => /\ posts'[c].at = "answered" /\ (posts'[c].asks <=> a)
                     /\ posts'[c].session = posts[c].session /\ posts'[c].id = posts[c].id
        BY <2>1, <2>2 DEF Post
    <2>4. ~Chat(c) => posts'[c].at = "none"
        BY <2>2 DEF NoPost
    <2>5. \A d \in Call : d # c => posts'[d] = posts[d]
        BY <2>2
    <2>6. asked \subseteq asked' /\ (a => name \in asked')
        BY <2>2
    <2>7. calls' = calls /\ pending' = pending
        BY <1>7 DEF Serve, page
    <2>8. \A d \in Call : Chat(d)' <=> Chat(d)
        BY <2>7 DEF Chat
    <2> QED
        BY <2>1, <2>3, <2>4, <2>5, <2>6, <2>7, <2>8
<1>8. ASSUME NEW c \in Call, Lose(c) PROVE CallInv'
    BY <1>8 DEF Lose, NoPost, Chat, page, history
<1>9. CASE Cancel \/ NewChat
    BY <1>9 DEF Cancel, NewChat, history, Chat
<1> QED
    BY <1>1, <1>2, <1>3, <1>4, <1>5, <1>6, <1>7, <1>8, <1>9 DEF Next, Arrives

-----------------------------------------------------------------------------
(* Where things appear.                                                    *)

\* An undisturbed page stays in order, whatever ends, arrives or is clicked.
LEMMA StepKeepsPlaces == ASSUME TypeOK, PlaceInv, OneSend, Next PROVE PlaceInv'
<1> USE ClientAssumption DEF TypeOK
<1>1. SUFFICES ASSUME ~disturbed' PROVE PlaceInv'
    BY DEF PlaceInv
<1> DEFINE Switch(c) == calls[c].fn \in {"open", "delete"}
           Alone(c) == \A d \in Call \ {c} : calls[d].fn = "none"
<1>2. ~disturbed
    BY <1>1 DEF Next, Cancel, NewChat, Send, Approve, Begin, Open, Delete, Serve, Lose, Arrives,
       Respond, Receive, Adopted, End, Fail, Opened, NotOpened, Deleted, NotDeleted, history
<1>3. ~stray
    BY <1>2 DEF PlaceInv
<1>4. pending # Null => visible /\ pending.session = current /\ base = current
    BY <1>2 DEF PlaceInv
<1>5. \A c \in Call : Switch(c) => pending = Null /\ Alone(c)
    BY <1>2 DEF PlaceInv
<1>6. \A c \in Call : calls[c].fn = "open" => visible /\ current = calls[c].session
    BY <1>2 DEF PlaceInv
<1>7. \A c \in Call : Chat(c) => /\ visible /\ base = calls[c].session
                                 /\ current = calls[c].session \/ First(c)
    BY <1>2 DEF PlaceInv
<1>8. visible /\ (\A c \in Call : calls[c].fn # "open" /\ ~First(c)) => base = current
    BY <1>2 DEF PlaceInv
\* Nothing is awaited: the page shows the conversation one writes to.
<1>9. ~Awaited => /\ \A c \in Call : calls[c].fn = "none"
                  /\ pending = Null /\ (visible => base = current)
    BY <1>8 DEF Awaited, First
<1>10. ASSUME NEW c \in Call, Send(c) PROVE PlaceInv'
    <2>1. PICK s \in Session : /\ s = current \/ current = Null
                               /\ Begin(c, "send", s, gestures.sent + 1)
        BY <1>10 DEF Send
    <2>2. \A d \in Call : ~First(d) /\ ~Switch(d)
        BY <1>1, <1>10, <2>1 DEF Send, Begin, First
    <2>3. base = current /\ visible
        BY <1>8, <1>10, <2>2 DEF Send
    <2>4. base' = s /\ ~stray'
        BY <1>3, <2>1, <2>3 DEF Begin, Show
    <2>5. /\ calls'[c].fn = "send" /\ calls'[c].session = s /\ calls'[c].at = "response"
          /\ \A d \in Call \ {c} : calls'[d] = calls[d]
          /\ calls[c].fn = "none"
        BY <2>1 DEF Begin, Free, Nothing
    <2>6. current' = current /\ visible' /\ pending' = pending /\ sending'
        BY <1>10 DEF Send
    <2>7. CASE current = Null
        <3>1. pending = Null
            BY <1>4, <2>7 DEF Pending
        <3>2. \A d \in Call : ~Chat(d)
            BY <1>7, <2>2, <2>7 DEF Chat, Waiting
        <3>3. \A d \in Call : calls[d].fn = "none"
            BY <3>2, <2>2 DEF Chat, Waiting
        <3>4. First(c)'
            BY <2>5, <2>6, <2>7, <3>1, <3>3 DEF First
        <3>5. \A d \in Call \ {c} : calls'[d].fn = "none"
            BY <2>5, <3>3
        <3> QED
            BY <2>4, <2>5, <2>6, <2>7, <3>1, <3>4, <3>5 DEF PlaceInv, Chat
    <2>8. CASE current = s
        <3>1. \A d \in Call : Chat(d)' => calls'[d].session = s
            BY <1>7, <2>2, <2>5, <2>8 DEF Chat
        <3>2. \A d \in Call : calls'[d].fn \notin {"open", "delete"}
            BY <2>2, <2>5
        <3> QED
            BY <1>4, <2>3, <2>4, <2>6, <2>8, <3>1, <3>2 DEF PlaceInv
    <2> QED
        BY <2>1, <2>7, <2>8
<1>11. ASSUME NEW c \in Call, Approve(c) PROVE PlaceInv'
    <2>1. /\ pending # Null /\ pending' = Null
          /\ Begin(c, "approve", pending.session, pending.id)
          /\ current' = current /\ visible' = visible
        BY <1>11 DEF Approve
    <2>2. pending.session \in Session /\ current = pending.session /\ base = current /\ visible
        BY <1>4, <2>1 DEF Pending
    <2>3. base' = base /\ ~stray'
        BY <1>3, <2>1, <2>2 DEF Begin, Show
    <2>4. /\ calls'[c].fn = "approve" /\ calls'[c].session = current
          /\ \A d \in Call \ {c} : calls'[d] = calls[d]
        BY <2>1, <2>2 DEF Begin, Free, Nothing
    <2>5. \A d \in Call : ~First(d) /\ ~Switch(d)
        BY <1>5, <2>1 DEF First
    <2>6. \A d \in Call : Chat(d)' => calls'[d].session = current
        BY <1>7, <2>4, <2>5 DEF Chat
    <2>7. \A d \in Call : calls'[d].fn \notin {"open", "delete"}
        BY <2>4, <2>5
    <2> QED
        BY <2>1, <2>2, <2>3, <2>6, <2>7 DEF PlaceInv
<1>12. ASSUME NEW c \in Call, NEW s \in Session, Open(c, s) \/ Delete(c, s) PROVE PlaceInv'
    <2>1. ~Awaited
        BY <1>1, <1>12 DEF Open, Delete
    <2>2. /\ calls'[c].session = s /\ calls'[c].fn \in {"open", "delete"}
          /\ \A d \in Call \ {c} : calls'[d].fn = "none"
          /\ pending' = Null /\ base' = base /\ stray' = stray
        BY <1>9, <1>12, <2>1 DEF Open, Delete, page
    <2>3. calls'[c].fn = "open" => visible' /\ current' = s
        BY <1>12 DEF Open, Delete
    <2>4. calls'[c].fn = "delete" => visible' = visible /\ current' = current
        BY <1>12 DEF Open, Delete, page
    <2>5. \A d \in Call : ~Chat(d)' /\ ~First(d)'
        BY <2>2 DEF Chat, First
    <2> QED
        BY <1>3, <1>9, <2>1, <2>2, <2>3, <2>4, <2>5 DEF PlaceInv
<1>13. CASE NewChat
    <2>1. ~Awaited
        BY <1>1, <1>13 DEF NewChat
    <2> QED
        BY <1>3, <1>9, <1>13, <2>1 DEF NewChat, PlaceInv, Chat
<1>14. CASE Cancel
    <2>1. \A c \in Call : First(c)' <=> First(c) \/ (First(c)' /\ pending # Null)
        BY <1>14 DEF Cancel, First
    <2>2. pending # Null /\ pending' = Null
        BY <1>14 DEF Cancel
    <2>3. base = current /\ visible
        BY <1>4, <2>2
    <2>4. \A c \in Call : ~First(c)
        BY <2>2 DEF First
    <2> QED
        BY <1>3, <1>5, <1>6, <1>7, <1>14, <2>2, <2>3, <2>4 DEF Cancel, PlaceInv, Chat, history
<1>15. ASSUME UNCHANGED <<current, base, visible, sending, pending, stray, disturbed>>,
              \A d \in Call : /\ calls'[d].fn = calls[d].fn
                              /\ Chat(d) \/ Switch(d) => calls'[d].session = calls[d].session
                              /\ First(d) => calls'[d].at \in {"response", "body"}
              PROVE PlaceInv'
    <2>1. \A d \in Call : First(d) => First(d)'
        BY <1>15 DEF First
    <2>2. \A d \in Call : First(d)' => current = Null
        BY <1>15 DEF First
    <2>3. \A d \in Call : Chat(d)' <=> Chat(d)
        BY <1>15 DEF Chat
    <2>4. visible /\ (\A d \in Call : calls[d].fn # "open" /\ ~First(d)') => base = current
        BY <1>8, <2>1
    <2> QED
        BY <1>3, <1>4, <1>5, <1>6, <1>7, <1>15, <2>1, <2>3, <2>4 DEF PlaceInv, Chat
<1>16. ASSUME NEW c \in Call, Serve(c) \/ Lose(c) PROVE PlaceInv'
    <2>1. calls' = calls /\ UNCHANGED <<current, base, visible, sending, pending, stray, disturbed>>
        BY <1>16 DEF Serve, Lose, page, history
    <2> QED
        BY <1>15, <2>1 DEF First
<1>17. ASSUME NEW c \in Call, Respond(c) PROVE PlaceInv'
    <2>1. UNCHANGED <<current, base, visible, sending, pending, stray, disturbed>>
        BY <1>17 DEF Respond, page, history
    <2>2. calls' = [calls EXCEPT ![c].at = "body"] /\ Chat(c)
        BY <1>17 DEF Respond, At
    <2>3. \A d \in Call : calls'[d] = IF d = c THEN [calls[c] EXCEPT !.at = "body"] ELSE calls[d]
        BY <2>2
    <2>4. /\ calls'[c].fn = calls[c].fn /\ calls'[c].session = calls[c].session
          /\ calls'[c].at = "body"
        BY <2>2, <2>3 DEF Chat, Waiting
    <2>5. \A d \in Call : /\ calls'[d].fn = calls[d].fn
                          /\ Chat(d) \/ Switch(d) => calls'[d].session = calls[d].session
                          /\ First(d) => calls'[d].at \in {"response", "body"}
        BY <2>3, <2>4 DEF First
    <2> QED
        BY <1>15, <2>1, <2>5
<1>18. ASSUME NEW c \in Call, Receive(c) \/ Adopted(c) PROVE PlaceInv'
    <2>1. PICK at \in {"sessions", "end"} : calls' = [calls EXCEPT ![c].at = at]
        BY <1>18 DEF Receive, Adopted, Deliver
    <2>2. Chat(c) /\ calls[c].at \in {"body", "sessions"}
        BY <1>18 DEF Receive, Adopted, At
    <2>3. /\ calls[c].session \in Session /\ base = calls[c].session /\ visible
          /\ current = calls[c].session \/ First(c)
        BY <1>7, <2>2 DEF Chat, Waiting
    <2>4. /\ calls'[c].fn = calls[c].fn /\ calls'[c].session = calls[c].session
          /\ \A d \in Call \ {c} : calls'[d] = calls[d]
        BY <2>1, <2>2 DEF Chat, Waiting
    <2>5. /\ base' = base /\ ~stray' /\ visible' = visible /\ sending' = sending
          /\ current' = calls[c].session
        <3>1. Show(calls[c].session) => base' = base /\ stray' = stray
            BY <2>3 DEF Show
        <3>2. CASE Receive(c)
            <4>1. visible' = visible /\ sending' = sending
                BY <3>2 DEF Receive
            <4>2. CASE current = Null
                BY <1>3, <2>3, <3>2, <4>1, <4>2 DEF Receive
            <4>3. CASE current # Null
                BY <1>3, <2>3, <3>1, <3>2, <4>1, <4>3 DEF Receive, Deliver, First
            <4> QED
                BY <4>2, <4>3
        <3>3. CASE Adopted(c)
            <4>1. ~First(c)
                BY <3>3 DEF Adopted, At, First
            <4> QED
                BY <1>3, <2>3, <3>1, <3>3, <4>1 DEF Adopted, Deliver
        <3> QED
            BY <1>18, <3>2, <3>3
    <2>6. pending' \in {pending, [session |-> calls[c].session, id |-> calls[c].id]}
        BY <1>18 DEF Receive, Adopted, Deliver
    <2>7. \A d \in Call : ~First(d)'
        BY <2>3, <2>5 DEF First
    <2>8. \A d \in Call : ~Switch(d) /\ calls'[d].fn \notin {"open", "delete"}
        BY <1>5, <2>2, <2>4 DEF Chat
    <2>9. \A d \in Call : Chat(d)' => calls'[d].session = calls[c].session
        BY <1>7, <2>3, <2>4 DEF Chat, First
    <2>10. pending' # Null => pending'.session = calls[c].session
        BY <1>4, <2>3, <2>6 DEF First
    <2> QED
        BY <2>3, <2>5, <2>7, <2>8, <2>9, <2>10 DEF PlaceInv
<1>19. ASSUME NEW c \in Call, End(c) \/ Fail(c) PROVE PlaceInv'
    <2>1. Chat(c) /\ calls' = [calls EXCEPT ![c] = Nothing]
        BY <1>19 DEF End, Fail, At, Finish
    <2>2. current = calls[c].session /\ base = current /\ visible /\ current \in Session
        <3>1. CASE End(c)
            BY <1>7, <2>1, <3>1 DEF End, At, First, Chat, Waiting
        <3>2. CASE Fail(c)
            BY <1>1, <1>7, <2>1, <3>2 DEF Fail, First, Chat, Waiting
        <3> QED
            BY <1>19, <3>1, <3>2
    <2>3. /\ base' = base /\ ~stray' /\ visible' = visible /\ current' = current
          /\ pending' = pending
        <3>1. CASE End(c)
            BY <1>3, <2>2, <3>1 DEF End
        <3>2. CASE Fail(c)
            <4>1. base' = base /\ stray' = stray
                BY <2>2, <3>2 DEF Fail, Show
            <4> QED
                BY <1>3, <3>2, <4>1 DEF Fail
        <3> QED
            BY <1>19, <3>1, <3>2
    <2>4. \A d \in Call : calls'[d] = IF d = c THEN Nothing ELSE calls[d]
        BY <2>1
    <2>5. \A d \in Call : ~Switch(d) /\ calls'[d].fn \notin {"open", "delete"}
        BY <1>5, <2>1, <2>4 DEF Chat, Nothing
    <2>6. \A d \in Call : Chat(d)' => calls'[d].session = current
        BY <1>7, <2>2, <2>4 DEF Chat, First, Nothing
    <2> QED
        BY <1>4, <2>2, <2>3, <2>5, <2>6 DEF PlaceInv
<1>20. ASSUME NEW c \in Call, Opened(c) \/ Deleted(c) \/ NotDeleted(c) PROVE PlaceInv'
    <2>1. Switch(c) /\ pending = Null /\ Alone(c)
        BY <1>5, <1>20 DEF Opened, Deleted, NotDeleted
    <2>2. \A d \in Call : calls'[d].fn = "none"
        BY <1>20, <2>1 DEF Opened, Deleted, NotDeleted, Nothing
    <2>3. pending' = Null /\ ~stray'
        BY <1>3, <1>20, <2>1 DEF Opened, Deleted, NotDeleted, page, history
    <2>4. visible' => base' = current'
        <3>1. CASE Opened(c)
            BY <1>6, <3>1 DEF Opened
        <3>2. CASE Deleted(c)
            <4>1. visible => base = current
                BY <1>8, <2>1, <3>2 DEF Deleted, First
            <4> QED
                BY <3>2, <4>1 DEF Deleted
        <3>3. CASE NotDeleted(c)
            BY <1>8, <2>1, <3>3 DEF NotDeleted, First, page
        <3> QED
            BY <1>20, <3>1, <3>2, <3>3
    <2> QED
        BY <2>2, <2>3, <2>4 DEF PlaceInv, Chat
<1>21. ASSUME NEW c \in Call, NotOpened(c) PROVE FALSE
    BY <1>1, <1>21 DEF NotOpened
<1> QED
    BY <1>10, <1>11, <1>12, <1>13, <1>14, <1>16, <1>17, <1>18, <1>19, <1>20, <1>21
       DEF Next, Arrives

-----------------------------------------------------------------------------
(* The theorems.                                                           *)

\* ClientInv holds in every state of every behaviour.
THEOREM ClientInvariant == Spec => []ClientInv
<1>1. ClientInv /\ [Next]_vars => ClientInv'
    <2>1. ASSUME ClientInv, Next PROVE ClientInv'
        BY <2>1, StepKeepsTypes, StepKeepsCalls, StepKeepsCounts, StepKeepsOneSend,
           StepKeepsPlaces DEF ClientInv
    <2>2. ASSUME ClientInv, UNCHANGED vars PROVE ClientInv'
        BY <2>2 DEF ClientInv, TypeOK, CallInv, CountInv, OneSend, PlaceInv, vars, page, history,
           Chat, First, OnTheWay
    <2> QED
        BY <2>1, <2>2
<1> QED
    BY ClientStarts, <1>1, PTL DEF Spec

\* Every variable keeps its type (the state of the page and of its calls).
THEOREM ClientTypes == Spec => []TypeOK
<1>1. ClientInv => TypeOK
    BY DEF ClientInv
<1> QED
    BY ClientInvariant, <1>1, PTL

\* apiCall and confirmApproval: whatever is slow, lost or refused, the server
\* runs no message more often than the user sent or approved it, and an
\* approval only for what it was asked about.
THEOREM ApprovalsAreClicks == Spec => []ApprovalIsOneClick
<1>1. ClientInv => ApprovalIsOneClick
    <2> SUFFICES ASSUME ClientInv PROVE ApprovalIsOneClick
        OBVIOUS
    <2>1. IsFiniteSet(OnTheWay("send")) /\ IsFiniteSet(OnTheWay("approve"))
        BY ClientAssumption, FS_Subset, OnTheWay("send") \subseteq Call,
           OnTheWay("approve") \subseteq Call DEF OnTheWay
    <2>2. Cardinality(OnTheWay("send")) \in Nat /\ Cardinality(OnTheWay("approve")) \in Nat
        BY <2>1, FS_CardinalityType
    <2>3. /\ runs.plain \in Nat /\ runs.granted \in Nat
          /\ gestures.sent \in Nat /\ gestures.approved \in Nat
        BY ClientAssumption DEF ClientInv, TypeOK, Id, Clicks
    <2>4. runs.plain <= gestures.sent /\ runs.granted <= gestures.approved
        BY <2>2, <2>3 DEF ClientInv, CountInv
    <2> QED
        BY <2>4 DEF ClientInv, CallInv, ApprovalIsOneClick
<1> QED
    BY ClientInvariant, <1>1, PTL

\* state.sending: until an approval ends during it, a message that is being
\* sent keeps the page from sending another one, with any number of calls.
THEOREM OneMessageAtATime == Spec => []SendingIsGuarded
<1>1. ClientInv => SendingIsGuarded
    <2> SUFFICES ASSUME OneSend, ~released PROVE
            /\ sending <=> \E c \in Call : calls[c].fn = "send"
            /\ Cardinality({c \in Call : calls[c].fn = "send"}) <= 1
        BY DEF ClientInv, SendingIsGuarded
    <2> DEFINE S == {c \in Call : calls[c].fn = "send"}
    <2>1. S = {} \/ \E c \in S : S = {c}
        BY DEF OneSend
    <2>2. Cardinality(S) \in {0, 1}
        BY <2>1, FS_EmptySet, FS_Singleton
    <2> QED
        BY <2>2 DEF OneSend
<1> QED
    BY ClientInvariant, <1>1, PTL

\* sendMessage, openSession, newChat and the rest: on a page nobody disturbs,
\* nothing appears in a wrong conversation.
THEOREM MessagesAppearInPlace == Spec => []NothingIsMisplaced
<1>1. ClientInv => NothingIsMisplaced
    <2> SUFFICES ASSUME PlaceInv, ~disturbed PROVE ~stray /\ (visible /\ ~Awaited => base = current)
        BY DEF ClientInv, NothingIsMisplaced
    <2>1. ~Awaited => \A c \in Call : calls[c].fn # "open" /\ ~First(c)
        BY DEF Awaited, First
    <2> QED
        BY <2>1 DEF PlaceInv
<1> QED
    BY ClientInvariant, <1>1, PTL
=============================================================================
