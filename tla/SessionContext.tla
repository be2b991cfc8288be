--------------------------- MODULE SessionContext ---------------------------
(***************************************************************************)
(* SessionContext: what a model is given to read in one session, in        *)
(* characters.  A message is composed from what the user typed and the     *)
(* files attached to it; the history of the session is cut to the window   *)
(* of the model; tool results are shortened, and old ones are replaced     *)
(* while the model goes on calling tools; the answer becomes history.      *)
(*                                                                         *)
(* A text is its length.  The limits are those of the code, so the small   *)
(* sets are sets of lengths, chosen around the limits.                     *)
(***************************************************************************)
EXTENDS Integers, Sequences, SequencesExt, FiniteSetsExt

CONSTANTS
    Models,                 \* keys of the profiles of the models in use
    Typed,                  \* lengths of what a user types
    Contents,               \* lengths of attached files
    Extras,                 \* lengths of system prompts, summaries excluded
    Answers,                \* lengths of final answers
    Outputs,                \* lengths of answers that call tools
    Results,                \* what a round may call for: sequences of results,
                            \* [raw, quoted] lengths and quotes of their JSON
    MaxFiles,               \* bound on the files of a message
    MaxTurns,               \* bound on the completed turns of the session
    MaxRounds               \* bound on the rounds of a request

MaxText == 20000            \* max_length of AgentInput.text and of a turn
HistoryLimit == 20          \* messages _fetch_session_history returns
Marker == 35                \* len(TRUNCATION_MARKER)
Metadata == 40              \* len(_metadata_line(...)) of a short name
MaxSummary == 4000          \* bound on render_summary: six sections of four

ASSUME LengthsAssumption ==
    /\ Typed \subseteq 1 .. MaxText /\ Contents \subseteq Nat /\ Extras \subseteq Nat
    /\ Answers \subseteq Nat \ {0} /\ Outputs \subseteq Nat

ASSUME ResultsAssumption == Results \subseteq Seq([raw : Nat, quoted : Nat])

ASSUME BoundsAssumption == MaxFiles \in Nat /\ MaxTurns \in Nat /\ MaxRounds \in Nat

VARIABLES
    model,                  \* the model this session is held with
    stored,                 \* completed turns of the session, oldest first
    phase,
    message,                \* length of RequestRecord.input
    system,                 \* length of the system prompt, with its summary
    running,                \* current_messages
    rounds,
    outcome                 \* how the last request of the session ended

context == <<model, stored, phase, message, system, running, rounds, outcome>>

Turn == [user : Nat, reply : Nat]
Kind == {"whole", "cut", "output", "result", "stub"}
Message == [kind : Kind, len : Nat, from : Nat]

ContextTypeOK ==
    /\ model \in Models
    /\ stored \in Seq(Turn) /\ Len(stored) <= MaxTurns
    /\ phase # "idle" => Len(stored) < MaxTurns
    /\ \A i \in DOMAIN stored : stored[i].user <= MaxText
    /\ phase \in {"idle", "assemble", "round", "asked"}
    /\ message \in 0 .. MaxText + 1
    /\ phase # "idle" => message <= MaxText
    /\ system \in Nat
    /\ running \in Seq(Message)
    /\ rounds \in 0 .. MaxRounds
    /\ outcome \in {"none", "completed", "failed"}

ContextInit ==
    /\ model \in Models
    /\ stored = <<>>
    /\ phase = "idle"
    /\ message = 0
    /\ system = 0
    /\ running = <<>>
    /\ rounds = 0
    /\ outcome = "none"

\* What f makes, from 0 on, of the pairs of what it has and the next element.
Accumulate(f, s) == FoldLeft(LAMBDA n, x : f[<<n, x>>], 0, s)
Sum(s) == Accumulate([p \in Nat \X Nat |-> p[1] + p[2]], s)

\* The characters of the messages of these kinds.
TotalOf(messages, kinds) ==
    Sum([i \in DOMAIN messages |-> IF messages[i].kind \in kinds THEN messages[i].len ELSE 0])
Total(messages) == TotalOf(messages, Kind)

-----------------------------------------------------------------------------
(* ContextBudget.from_profile, in characters, four to a token.             *)

Profile ==
    CASE model \in {"llama3.1", "deepseek-coder-v2"} ->
            [window |-> 131072, response |-> 4096, tool |-> 16384]
      [] model \in {"qwen", "mistral"} ->
            [window |-> 32768, response |-> 4096, tool |-> 8192]
      [] OTHER ->
            [window |-> 8192, response |-> 2048, tool |-> 1024]

TotalChars == 4 * Max({Profile.window - Profile.response, 1024})
HistoryChars == (TotalChars * 45) \div 100
ToolChars == Max({TotalChars \div 4, 4 * Profile.tool})

-----------------------------------------------------------------------------
(* format_attached_files and build_message_with_attachments.               *)

\* What the formatter takes to be left for the content of the next file: it
\* counts eight characters for the fences, which are nine.
Available(max, used) == max - used - (Metadata + 8)

\* What the next file of this length adds to the used characters.
FileAdds(max, used, content) ==
    LET available == Available(max, used)
        note == Metadata + 55 + 2
        block == Metadata + 9 + content + 2
        body == available - 21
    IN  IF available <= 0 THEN 0
        ELSE IF content = 0 THEN Metadata + 2
        ELSE IF content > 5000 THEN IF note <= max - used THEN note ELSE 0
        ELSE IF block <= max - used THEN block
        ELSE IF body >= 500 THEN Metadata + 9 + body + 21 + 2
        ELSE 0

\* Every part but the last is followed by two characters.
Formatted(contents, max) ==
    LET used == Accumulate([p \in Nat \X Nat |-> p[1] + FileAdds(max, p[1], p[2])], contents)
    IN  IF used = 0 THEN 0 ELSE used - 2

Compose(input, contents) ==
    LET room == MaxText - input - 2
        attached == IF contents # <<>> /\ room > 0 THEN Formatted(contents, room) ELSE 0
    IN  IF attached = 0 THEN input ELSE attached + 2 + input

-----------------------------------------------------------------------------
(* ContextAssembler.assemble and build_history.                            *)

Window == SubSeq(stored, Len(stored) - Min({Len(stored), HistoryLimit \div 2}) + 1, Len(stored))

HistoryBudget(extra) == Min({HistoryChars, Max({TotalChars - extra, 512})})

\* The characters of the newest n turns.
Size(turns, n) ==
    Sum([i \in 1 .. n |-> LET t == turns[Len(turns) + 1 - i] IN t.user + t.reply])

\* _truncate_single keeps the tail and at least one character of it.
Cut(len, room) == Max({room - Marker, 1}) + Marker

\* The turns from..last as messages.
Messages(turns, from) ==
    [i \in 1 .. 2 * (Len(turns) + 1 - from) |->
        LET at == from + (i - 1) \div 2
        IN  [kind |-> "whole", from |-> at,
             len |-> IF i % 2 = 1 THEN turns[at].user ELSE turns[at].reply]]

\* How many of the newest turns fit, each of them by itself.
FittingAlone(turns, max) ==
    Max({k \in 0 .. Len(turns) :
            \A i \in 0 .. k - 1 : turns[Len(turns) - i].user + turns[Len(turns) - i].reply <= max})

\* How many of the newest turns fit together.
Fitting(turns, max) == Max({k \in 0 .. Len(turns) : Size(turns, k) <= max})

\* The turns that fit, or if not even the newest one does, its tail.
Select(turns, max) ==
    LET last == Len(turns)
        newest == turns[last]
        fits == Fitting(turns, max)
        Part(kind, len) == [kind |-> kind, len |-> len, from |-> last]
    IN  IF turns = <<>> \/ fits > 0 THEN Messages(turns, last + 1 - fits)
        ELSE IF newest.reply <= max
             THEN <<Part("cut", Cut(newest.user, max - newest.reply)), Part("whole", newest.reply)>>
             ELSE <<Part("cut", Cut(newest.reply, max))>>

-----------------------------------------------------------------------------
(* prune_tool_results and build_tool_result_prompt.                        *)

Positions(messages, kinds) == {i \in DOMAIN messages : messages[i].kind \in kinds}
Stub == 34                  \* len("Tool 'x': [earlier result omitted]") of a short name

\* All results but the newest one.
PrunableButOne(at) == {i \in at : \E j \in at : i < j}

\* All results but the two newest ones, keep_recent.
Prunable(at) == {i \in at : \E j, k \in at : i < j /\ j < k}

\* Old results become stubs, oldest first, until all that is there of
\* results, the stubs just made included, fits.  A short result stays.
Prune(messages, max) ==
    LET old == Prunable(Positions(messages, {"result"}))
        saves == [i \in DOMAIN messages |->
                     IF i \in old /\ messages[i].len > Stub THEN messages[i].len - Stub ELSE 0]
        Left(i) == TotalOf(messages, {"result"}) - Sum(SubSeq(saves, 1, i - 1))
    IN  [i \in DOMAIN messages |->
            IF saves[i] > 0 /\ Left(i) > max
            THEN [messages[i] EXCEPT !.kind = "stub", !.len = Stub] ELSE messages[i]]

\* The result as JSON is cut to 2000 characters and quoted again, which adds
\* a character for every quote in it; the prompt cuts that to 3000.
ResultMessage(r) ==
    LET json == IF r.raw <= 2000 THEN r.raw ELSE 2000 + 14 + 14 + r.quoted
    IN  [kind |-> "result", from |-> 0,
         len |-> 17 + (IF json <= 3000 THEN json ELSE 3000 + 14)]

-----------------------------------------------------------------------------
(* The course of a request.                                                *)

Ends(how) ==
    /\ phase' = "idle"
    /\ outcome' = how
    /\ running' = <<>>
    /\ system' = 0
    /\ rounds' = 0

\* A history whose turns nobody validates.
NeverTooLong(messages) == FALSE

\* ConversationTurn refuses a longer content.
TooLong(messages) == \E i \in DOMAIN messages : messages[i].len > MaxText

\* send_session_message.  A text AgentInput refuses fails the request.
Send(input, contents) ==
    LET composed == Compose(input, contents)
    IN  /\ phase = "idle"
        /\ Len(stored) < MaxTurns
        /\ message' = composed
        /\ IF composed > MaxText THEN Ends("failed")
           ELSE phase' = "assemble" /\ UNCHANGED <<system, running, rounds, outcome>>
        /\ UNCHANGED <<model, stored>>

Assemble(extra) ==
    LET messages == Select(Window, HistoryBudget(extra))
        dropped == \/ 2 * Len(Window) > Len(messages)
                   \/ \E i \in DOMAIN messages : messages[i].kind = "cut"
    IN  /\ phase = "assemble"
        /\ IF TooLong(messages) THEN Ends("failed")
           ELSE /\ phase' = "round"
                /\ running' = messages
                /\ system' \in {extra} \cup (IF dropped THEN {extra + MaxSummary} ELSE {})
                /\ UNCHANGED <<rounds, outcome>>
        /\ UNCHANGED <<model, stored, message>>

\* The beginning of a round: the context is brought within its budget.
Ask ==
    /\ phase = "round"
    /\ rounds < MaxRounds
    /\ running' = IF system + Total(running) > TotalChars
                  THEN Prune(running, ToolChars) ELSE running
    /\ rounds' = rounds + 1
    /\ phase' = "asked"
    /\ UNCHANGED <<model, stored, message, system, outcome>>

\* The answer calls tools; it is appended behind the results.
UseTools(results, output) ==
    LET said == [kind |-> "output", len |-> output, from |-> 0]
    IN  /\ phase = "asked"
        /\ IF TooLong(<<said>>) THEN Ends("failed")
           ELSE /\ running' = running \o [i \in DOMAIN results |-> ResultMessage(results[i])]
                                      \o <<said>>
                /\ phase' = "round"
                /\ UNCHANGED <<system, rounds, outcome>>
        /\ UNCHANGED <<model, stored, message>>

\* A final answer, or what the loop says when its rounds or its time are over.
FinalAnswer(reply) ==
    /\ phase = "asked" \/ (phase = "round" /\ rounds > 0)
    /\ stored' = Append(stored, [user |-> message, reply |-> reply])
    /\ Ends("completed")
    /\ UNCHANGED <<model, message>>

\* An exception, or a gate behind the execution that refuses.
Fail ==
    /\ phase = "asked"
    /\ Ends("failed")
    /\ UNCHANGED <<model, stored, message>>

ContextNext ==
    \/ \E input \in Typed, contents \in SeqOf(Contents, MaxFiles) : Send(input, contents)
    \/ \E extra \in Extras : Assemble(extra)
    \/ Ask
    \/ \E results \in Results, output \in Outputs : UseTools(results, output)
    \/ \E reply \in Answers : FinalAnswer(reply)
    \/ Fail

ContextSpec == ContextInit /\ [][ContextNext]_context
-----------------------------------------------------------------------------
(* Properties.                                                             *)

\* The history a model reads is the end of the conversation, in order and
\* without a gap: whole turns, as many as fit, or the tail of the last one;
\* and it exceeds its budget by no more than the mark of a cut.
HistoryIsNewest ==
    LET history == Positions(running, {"whole", "cut"})
        last == Len(Window)
        turns == {running[i].from : i \in history}
        n == Cardinality(turns)
        budget == HistoryBudget(system)
    IN  (phase \in {"round", "asked"}) =>
            /\ TotalOf(running, {"whole", "cut"}) <= HistoryChars + Marker + 1
            /\ turns = (last - n + 1) .. last
            /\ \A i, j \in history : i < j => running[i].from <= running[j].from
            /\ \/ Cardinality(history) = 2 * n /\ \A i \in history : running[i].kind = "whole"
               \/ n = 1 /\ Size(Window, 1) > budget
            /\ n < last => Size(Window, n + 1) > budget

\* When a context that is too long is sent, only what the next step does not
\* need was taken from it: the two newest results are whole, and older ones
\* are gone as far as it takes to bring the results within their share.
PrunedToWhatMatters ==
    LET tools == Positions(running, {"result", "stub"})
        old == {i \in tools : \E j, k \in tools : i < j /\ j < k}
    IN  (phase = "asked") =>
            /\ \A i \in tools \ old : running[i].kind = "result"
            /\ system + Total(running) > TotalChars =>
                  \/ TotalOf(running, {"result"}) <= ToolChars
                  \/ \A i \in old : running[i].len <= Stub

\* The newest turn fits the history and holds more than a message may hold.
Poisoned ==
    /\ stored # <<>>
    /\ Last(stored).reply > MaxText
    /\ \A extra \in Extras : Size(stored, 1) <= HistoryBudget(extra)

\* An answer that is too long to be read again, and short enough to be chosen
\* for the history, ends its session: no request of it reaches the model and
\* nothing is stored in it any more.
PoisonIsPermanent == [][Poisoned => (stored' = stored /\ phase' # "round")]_context

-----------------------------------------------------------------------------
(* What makes them so, in every reachable state.                           *)

\* What a request reads begins with the history that was selected for it, and
\* nothing else in it is history.
HistoryInv ==
    (phase \in {"round", "asked"}) =>
       \E extra \in Extras :
          LET history == Select(Window, HistoryBudget(extra))
          IN  /\ system \in {extra, extra + MaxSummary}
              /\ DOMAIN history \subseteq DOMAIN running
              /\ \A i \in DOMAIN history : running[i] = history[i]
              /\ \A i \in DOMAIN running \ DOMAIN history : running[i].kind \notin {"whole", "cut"}

\* Behind a result that has become a stub there are two that have not.
StubInv ==
    \A i \in Positions(running, {"stub"}) :
       /\ running[i].len = Stub
       /\ \E j, k \in Positions(running, {"result"}) : i < j /\ j < k

\* A poisoned session is at rest, or about to fail.
PoisonInv == Poisoned => phase \in {"idle", "assemble"}

ContextInv == ContextTypeOK /\ HistoryInv /\ StubInv /\ PrunedToWhatMatters /\ PoisonInv
=============================================================================
