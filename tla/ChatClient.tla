----------------------------- MODULE ChatClient -----------------------------
(***************************************************************************)
(* ChatClient: the page a user talks to.  Its functions run one at a time  *)
(* between two awaits, any number of them may be waiting, and what the     *)
(* user does next does not wait for them: a message is sent, a             *)
(* conversation opened, begun or deleted, an operation approved, while     *)
(* answers of earlier calls are still on their way.                        *)
(*                                                                         *)
(* The server runs what reaches it, once, whether or not the page is still *)
(* waiting; its answer may come with a question for an approval.           *)
(***************************************************************************)
EXTENDS Naturals, FiniteSets

CONSTANTS
    Session,                \* identifiers of conversations
    Stored,                 \* those of earlier visits
    Call,                   \* places for calls in flight
    Null,                   \* no conversation
    MaxMessages,            \* bound on the messages sent
    MaxApprovals            \* bound on the approvals clicked

ASSUME ClientAssumption ==
    /\ Null \notin Session
    /\ Stored \subseteq Session
    /\ IsFiniteSet(Call)
    /\ MaxMessages \in Nat
    /\ MaxApprovals \in Nat

VARIABLES
    current,                \* state.currentSessionId
    base,                   \* whose messages the transcript holds
    visible,                \* is the transcript shown, with its input field?
    thinking,               \* loading indicators in the transcript
    sending,                \* state.sending
    pending,                \* state.pendingApproval, the modal open with it
    calls,                  \* the functions that wait, and for what
    posts,                  \* their messages, on the way to the server and back
    known,                  \* the conversations the side bar can list
    gestures,               \* history: messages sent and approvals clicked
    runs,                   \* history: how many of them the server has run
    asked,                  \* history: [session, id] it asked approval for
    stray,                  \* history: something was shown in a wrong place
                            \* although nothing had disturbed the page
    disturbed,              \* history: a switch while something was awaited, a
                            \* message before a switch had come to its end, or
                            \* a first message or a loading that failed
    released                \* history: an approval ended during another send

page == <<current, base, visible, thinking, sending, pending>>
history == <<gestures, runs, asked, stray, disturbed, released>>
vars == <<page, calls, posts, known, history>>

\* A message is named by the gesture that sent it first.
Id == 0 .. MaxMessages
Clicks == 0 .. MaxApprovals
Pending == [session : Session, id : Id] \cup {Null}
Waiting ==
    [fn : {"none"}] \cup
    [fn : {"open", "delete"}, session : Session] \cup
    [fn : {"send", "approve"}, session : Session, id : Id,
     at : {"response", "body", "sessions", "end"}]
Post == [at : {"none"}] \cup
        [at : {"sent", "answered"}, session : Session, id : Id, granted : BOOLEAN,
         asks : BOOLEAN]

TypeOK ==
    /\ current \in Session \cup {Null}
    /\ base \in Session \cup {Null}
    /\ visible \in BOOLEAN
    /\ thinking \in Nat
    /\ sending \in BOOLEAN
    /\ pending \in Pending
    /\ calls \in [Call -> Waiting]
    /\ posts \in [Call -> Post]
    /\ known \subseteq Session
    /\ gestures \in [sent : Id, approved : Clicks]
    /\ runs \in [plain : Nat, granted : Nat]
    /\ asked \subseteq [session : Session, id : Id]
    /\ {stray, disturbed, released} \subseteq BOOLEAN

Nothing == [fn |-> "none"]
NoPost == [at |-> "none"]
Free(c) == calls[c] = Nothing /\ posts[c] = NoPost
Chat(c) == calls[c].fn \in {"send", "approve"}
At(c, place) == Chat(c) /\ calls[c].at = place

Init ==
    /\ current = Null
    /\ base = Null
    /\ visible = FALSE
    /\ thinking = 0
    /\ sending = FALSE
    /\ pending = Null
    /\ calls = [c \in Call |-> Nothing]
    /\ posts = [c \in Call |-> NoPost]
    /\ known = Stored
    /\ gestures = [sent |-> 0, approved |-> 0]
    /\ runs = [plain |-> 0, granted |-> 0]
    /\ asked = {}
    /\ stray = FALSE
    /\ disturbed = FALSE
    /\ released = FALSE

\* Something is on its way, or the user is being asked.
Awaited == pending # Null \/ \E c \in Call : calls[c].fn # "none"

-----------------------------------------------------------------------------
(* What the user does.                                                     *)

\* What appendMessage adds belongs to a conversation; the transcript of a
\* new one becomes that of the first message in it.
Show(session) ==
    /\ base' = IF base = Null THEN session ELSE base
    /\ stray' = (stray \/ (~disturbed /\ base \notin {Null, session}))

\* A call of the chat begins: the text is on the screen, the request is out.
Begin(c, fn, session, id) ==
    /\ Free(c)
    /\ calls' = [calls EXCEPT ![c] = [fn |-> fn, session |-> session, id |-> id,
                                      at |-> "response"]]
    /\ posts' = [posts EXCEPT ![c] = [at |-> "sent", session |-> session, id |-> id,
                                      granted |-> fn = "approve", asks |-> FALSE]]
    /\ known' = known \cup {session}
    /\ thinking' = thinking + 1
    /\ Show(session)
    /\ disturbed' = (disturbed \/ \E d \in Call : calls[d].fn \in {"open", "delete"})

\* A message that does not wait for the one before.
SendAgain(c) ==
    /\ visible
    /\ gestures.sent < MaxMessages
    /\ sending' = TRUE
    /\ gestures' = [gestures EXCEPT !.sent = @ + 1]
    /\ \E session \in IF current # Null THEN {current} ELSE Session \ known :
          Begin(c, "send", session, gestures.sent + 1)
    /\ UNCHANGED <<current, visible, pending, runs, asked, released>>

\* sendMessage: to the current conversation, or to one with a new name.
Send(c) ==
    /\ visible
    /\ ~sending
    /\ gestures.sent < MaxMessages
    /\ sending' = TRUE
    /\ gestures' = [gestures EXCEPT !.sent = @ + 1]
    /\ \E session \in IF current # Null THEN {current} ELSE Session \ known :
          Begin(c, "send", session, gestures.sent + 1)
    /\ UNCHANGED <<current, visible, pending, runs, asked, released>>

\* A click that goes to the conversation on the screen.
ApproveHere(c) ==
    /\ pending # Null
    /\ current # Null
    /\ gestures.approved < MaxApprovals
    /\ pending' = Null
    /\ gestures' = [gestures EXCEPT !.approved = @ + 1]
    /\ Begin(c, "approve", current, pending.id)
    /\ UNCHANGED <<current, visible, sending, runs, asked, released>>

\* confirmApproval: the same message again, with the header, where it was
\* asked for.  It does not count as sending.
Approve(c) ==
    /\ pending # Null
    /\ gestures.approved < MaxApprovals
    /\ pending' = Null
    /\ gestures' = [gestures EXCEPT !.approved = @ + 1]
    /\ Begin(c, "approve", pending.session, pending.id)
    /\ UNCHANGED <<current, visible, sending, runs, asked, released>>

\* closeApprovalModal; the answer of a cancelled operation is local.
Cancel ==
    /\ pending # Null
    /\ pending' = Null
    /\ UNCHANGED <<current, base, visible, thinking, sending, calls, posts, known, history>>

\* openSession, up to its await.
Open(c, session) ==
    /\ Free(c)
    /\ session \in known
    /\ current' = session
    /\ visible' = TRUE
    /\ calls' = [calls EXCEPT ![c] = [fn |-> "open", session |-> session]]
    /\ disturbed' = (disturbed \/ Awaited)
    /\ UNCHANGED <<base, thinking, sending, pending, posts, known, gestures, runs, asked,
                   stray, released>>

\* A new chat that leaves the identifier of the old one.
KeepSession ==
    /\ base' = Null
    /\ visible' = TRUE
    /\ thinking' = 0
    /\ disturbed' = (disturbed \/ Awaited)
    /\ UNCHANGED <<current, sending, pending, calls, posts, known, gestures, runs, asked,
                   stray, released>>

\* newChat empties the transcript, its loading indicators included.
NewChat ==
    /\ current' = Null
    /\ base' = Null
    /\ visible' = TRUE
    /\ thinking' = 0
    /\ disturbed' = (disturbed \/ Awaited)
    /\ UNCHANGED <<sending, pending, calls, posts, known, gestures, runs, asked, stray,
                   released>>

\* confirmDelete, up to its await.
Delete(c, session) ==
    /\ Free(c)
    /\ session \in known
    /\ calls' = [calls EXCEPT ![c] = [fn |-> "delete", session |-> session]]
    /\ disturbed' = (disturbed \/ Awaited)
    /\ UNCHANGED <<page, posts, known, gestures, runs, asked, stray, released>>

-----------------------------------------------------------------------------
(* The network and the server.                                             *)

\* send_session_message runs, with or without somebody waiting for it.
Serve(c) ==
    LET post == posts[c]
    IN  /\ post.at = "sent"
        /\ runs' = IF post.granted THEN [runs EXCEPT !.granted = @ + 1]
                                   ELSE [runs EXCEPT !.plain = @ + 1]
        /\ \E asks \in {FALSE, ~post.granted} :
              /\ posts' = [posts EXCEPT ![c] =
                              IF Chat(c) THEN [post EXCEPT !.at = "answered", !.asks = asks]
                              ELSE NoPost]
              /\ asked' = IF asks THEN asked \cup {[session |-> post.session, id |-> post.id]}
                          ELSE asked
        /\ UNCHANGED <<page, calls, known, gestures, stray, disturbed, released>>

\* A request that never reaches the server.
Lose(c) ==
    /\ posts[c].at = "sent"
    /\ posts' = [posts EXCEPT ![c] = NoPost]
    /\ UNCHANGED <<page, calls, known, history>>

-----------------------------------------------------------------------------
(* What arrives.                                                           *)

\* The ends of sendMessage and of confirmApproval: both say that nothing is
\* being sent any more.
Finish(c) ==
    /\ calls' = [calls EXCEPT ![c] = Nothing]
    /\ posts' = [posts EXCEPT ![c] = IF @.at = "sent" THEN @ ELSE NoPost]
    /\ sending' = FALSE
    /\ released' = (released \/ (calls[c].fn = "approve" /\ sending))

HideLoading == thinking' = IF thinking > 0 THEN thinking - 1 ELSE 0

\* A failure that leaves the indicator.
FailThinking(c) ==
    /\ At(c, "response") \/ At(c, "body")
    /\ Show(calls[c].session)
    /\ Finish(c)
    /\ disturbed' = (disturbed \/ current = Null)
    /\ UNCHANGED <<current, visible, thinking, pending, known, gestures, runs, asked>>

\* The catch of a chat call, after an error status, a broken connection or
\* the timer.
Fail(c) ==
    /\ At(c, "response") \/ At(c, "body")
    /\ HideLoading
    /\ Show(calls[c].session)
    /\ Finish(c)
    /\ disturbed' = (disturbed \/ current = Null)
    /\ UNCHANGED <<current, visible, pending, known, gestures, runs, asked>>

\* The timer of apiCall: it is cleared when the headers have arrived, before
\* anybody waits for the body.
TimeOut(c) == At(c, "response") /\ Fail(c)

\* Headers with a good status.
Respond(c) ==
    /\ At(c, "response")
    /\ posts[c].at = "answered"
    /\ calls' = [calls EXCEPT ![c].at = "body"]
    /\ UNCHANGED <<page, posts, known, history>>

\* The message of the assistant is appended, and an approval asked for.
Deliver(c) ==
    /\ Show(calls[c].session)
    /\ pending' = IF posts[c].asks
                  THEN [session |-> calls[c].session, id |-> calls[c].id] ELSE pending
    /\ calls' = [calls EXCEPT ![c].at = "end"]

\* The body of the answer: a page without a conversation adopts this one,
\* and reads the list of conversations before it shows the message.
Receive(c) ==
    /\ At(c, "body")
    /\ HideLoading
    /\ IF current = Null
       THEN /\ current' = calls[c].session
            /\ calls' = [calls EXCEPT ![c].at = "sessions"]
            /\ UNCHANGED <<base, pending, stray>>
       ELSE Deliver(c) /\ UNCHANGED current
    /\ UNCHANGED <<visible, sending, posts, known, gestures, runs, asked, disturbed, released>>

Adopted(c) ==
    /\ At(c, "sessions")
    /\ Deliver(c)
    /\ UNCHANGED <<current, visible, thinking, sending, posts, known, gestures, runs, asked,
                   disturbed, released>>

\* loadSessions behind the message, and the finally.
End(c) ==
    /\ At(c, "end")
    /\ Finish(c)
    /\ UNCHANGED <<current, base, visible, thinking, pending, known, gestures, runs, asked,
                   stray, disturbed>>

\* The messages of the conversation asked for replace the transcript, also
\* when another one has been opened since.
Opened(c) ==
    /\ calls[c].fn = "open"
    /\ calls' = [calls EXCEPT ![c] = Nothing]
    /\ base' = calls[c].session
    /\ thinking' = 0
    /\ UNCHANGED <<current, visible, sending, pending, posts, known, history>>

\* They could not be loaded: the old transcript stays.
NotOpened(c) ==
    /\ calls[c].fn = "open"
    /\ calls' = [calls EXCEPT ![c] = Nothing]
    /\ disturbed' = TRUE
    /\ UNCHANGED <<page, posts, known, gestures, runs, asked, stray, released>>

\* A deleted conversation that was open leaves the page empty: what it held
\* is hidden.
Deleted(c) ==
    LET open == current = calls[c].session
    IN  /\ calls[c].fn = "delete"
        /\ calls' = [calls EXCEPT ![c] = Nothing]
        /\ known' = known \ {calls[c].session}
        /\ current' = IF open THEN Null ELSE current
        /\ visible' = (visible /\ ~open)
        /\ UNCHANGED <<base, thinking, sending, pending, posts, history>>

NotDeleted(c) ==
    /\ calls[c].fn = "delete"
    /\ calls' = [calls EXCEPT ![c] = Nothing]
    /\ UNCHANGED <<page, posts, known, history>>

Arrives(c) ==
    \/ Respond(c)
    \/ Receive(c)
    \/ Adopted(c)
    \/ End(c)
    \/ Fail(c)
    \/ Opened(c)
    \/ NotOpened(c)
    \/ Deleted(c)
    \/ NotDeleted(c)

Next ==
    \/ Cancel
    \/ NewChat
    \/ \E c \in Call :
          \/ Send(c)
          \/ Approve(c)
          \/ \E session \in Session : Open(c, session) \/ Delete(c, session)
          \/ Serve(c)
          \/ Lose(c)
          \/ Arrives(c)

\* The browser fires the timers that are set.  Nothing is assumed of the server
\* and the network: what no timer bounds may never arrive.
Fairness == \A c \in Call : WF_vars(TimeOut(c))

Spec == Init /\ [][Next]_vars /\ Fairness

-----------------------------------------------------------------------------
(* Properties.                                                             *)

\* The server runs nothing the user did not ask for once: no call is retried
\* after a timeout, and what is run with an approval was clicked for, each
\* time, and is the very message that the approval was asked for.
ApprovalIsOneClick ==
    /\ runs.plain <= gestures.sent
    /\ runs.granted <= gestures.approved
    /\ \A c \in Call : calls[c].fn = "approve" =>
          [session |-> calls[c].session, id |-> calls[c].id] \in asked

\* Unless an approval came to its end during it, a message that is being
\* sent keeps the page from sending another one.
SendingIsGuarded ==
    ~released =>
        /\ sending <=> \E c \in Call : calls[c].fn = "send"
        /\ Cardinality({c \in Call : calls[c].fn = "send"}) <= 1

\* As long as the user does not switch while something is awaited nor write
\* before a switch has ended, and no first message of a conversation and no
\* loading of one fails, nothing appears in a wrong conversation, and the
\* messages on the screen are those of the conversation one writes to.
NothingIsMisplaced ==
    ~disturbed =>
        /\ ~stray
        /\ visible /\ ~Awaited => base = current

\* What a call waits for after its headers, without a timer: the rest of the
\* answer, and the list of conversations before and behind the message.
Hangs(c) == At(c, "body") \/ At(c, "sessions") \/ At(c, "end")

\* The page stops thinking and sends again, whatever fails, is lost or comes
\* too late, unless the server leaves it waiting behind the headers.
OnlyTheServerHangs ==
    (thinking > 0 \/ sending) ~> (thinking = 0 /\ ~sending) \/ \E c \in Call : Hangs(c)

\* What the comment on the cap of chat requests promises: no backend, dead or
\* silent, leaves the page thinking for ever.  The code does not keep it.
ThinkingEnds == thinking > 0 ~> thinking = 0

-----------------------------------------------------------------------------
(* The inductive invariant behind the first three.                         *)

\* Calls that wait have what the server knows of them; an approval is open,
\* or under way, only for what the server asked about.
CallInv ==
    /\ pending # Null => pending \in asked
    /\ \A c \in Call :
          /\ posts[c].at = "answered" => Chat(c)
          /\ posts[c].at # "none" /\ Chat(c) =>
                posts[c].session = calls[c].session /\ posts[c].id = calls[c].id
          /\ posts[c].at = "answered" /\ posts[c].asks =>
                [session |-> posts[c].session, id |-> posts[c].id] \in asked
          /\ Chat(c) /\ calls[c].at # "response" => posts[c].at = "answered"
          /\ calls[c].fn = "approve" =>
                [session |-> calls[c].session, id |-> calls[c].id] \in asked

\* What was run and what is still on its way was sent or clicked for.
OnTheWay(fn) ==
    {c \in Call : posts[c].at = "sent" /\ (posts[c].granted <=> fn = "approve")}
CountInv ==
    /\ runs.plain + Cardinality(OnTheWay("send")) <= gestures.sent
    /\ runs.granted + Cardinality(OnTheWay("approve")) <= gestures.approved

OneSend ==
    ~released =>
        /\ sending <=> \E c \in Call : calls[c].fn = "send"
        /\ \A c, d \in Call : calls[c].fn = "send" /\ calls[d].fn = "send" => c = d

\* The first message of a new conversation, with nothing beside it.
First(c) ==
    /\ calls[c].fn = "send" /\ calls[c].at \in {"response", "body"}
    /\ current = Null /\ sending /\ pending = Null
    /\ \A d \in Call \ {c} : calls[d].fn = "none"

\* On an undisturbed page a switch is alone, and everything else is about the
\* conversation on the screen.
PlaceInv ==
    ~disturbed =>
        /\ ~stray
        /\ pending # Null => visible /\ pending.session = current /\ base = current
        /\ \A c \in Call :
              /\ calls[c].fn \in {"open", "delete"} =>
                    pending = Null /\ \A d \in Call \ {c} : calls[d].fn = "none"
              /\ calls[c].fn = "open" => visible /\ current = calls[c].session
              /\ Chat(c) => /\ visible /\ base = calls[c].session
                            /\ current = calls[c].session \/ First(c)
        /\ visible /\ (\A c \in Call : calls[c].fn # "open" /\ ~First(c)) => base = current

ClientInv == TypeOK /\ CallInv /\ CountInv /\ OneSend /\ PlaceInv
=============================================================================
