------------------------------- MODULE Toolbox -------------------------------
(***************************************************************************)
(* What happens to a tool call: ToolRegistry.execute turns the arguments a *)
(* model wrote into the ones a handler takes, the handler changes the      *)
(* disk, and after an await the loop verifies the result against the disk, *)
(* records it as evidence, and answers.  Requests share the disk, and what *)
(* one does between the handler and the verifier of another, the other     *)
(* sees.  A handler keeps the event loop of its worker to itself, but not  *)
(* the disk: what _modify_file writes it made of a text read before.       *)
(*                                                                         *)
(* A text is a sequence of pieces, one character each; the wide ones take  *)
(* two bytes.  Folders on the way to a path are not told apart, and a      *)
(* write either happens or leaves the file as it was.                      *)
(***************************************************************************)
EXTENDS Naturals, Sequences, FiniteSets, SequencesExt

CONSTANTS
    Request,                \* requests that run with approval_granted
    Call,                   \* what a model may write: a tool and its arguments
    Word,                   \* names and values of arguments, pieces of texts
    Path,
    Resolves,               \* what _validate_path makes of a spelled path
    InCwd,                  \* spelled paths the server's own directory resolves alike
    Wide,                   \* pieces of two bytes
    Number, Str,            \* numbers, and what str() makes of them
    Plan,                   \* what the files of a project are: spelled path, content
    TestOf,                 \* where generate_tests puts the tests of a path
    Inside,                 \* where a copy of a file into a folder lands
    WorkerOf,               \* the process whose event loop a request runs in
    Protected,              \* PROTECTED_FILES
    Claims,                 \* what answers may say was created, executed, fixed
    MaxCalls                \* bound on the calls of all requests

VARIABLES
    files, folders,         \* the paths that are files, and folders
    text,                   \* what is in the files
    pc,
    call,                   \* the call a request is at
    args,                   \* what its handler was given
    original,               \* the text that _modify_file has read
    result,
    evidence,               \* EvidenceTracker.records: the tool, and if it came out badly
    created, modified,      \* session_files_created, session_files_modified
    answer,                 \* what the answer claims, and the notes appended to it
    calls,
    kept,                   \* history: pieces that edits put into a file
    wrote,                  \* history: what the handlers of a request put on disk
    disturbed               \* history: another has changed the place of the result

disk == <<files, folders, text, kept>>
vars == <<disk, pc, call, args, original, result, evidence, created, modified,
          answer, calls, wrote, disturbed>>

-----------------------------------------------------------------------------
(* The definitions of the tools.                                           *)

Writing == {"create_file", "write_file"}
Looking == {"read_file", "file_exists"}
FileTool == Writing \cup Looking \cup {"file_delete", "create_directory", "file_copy"}
DevelopmentTool == {"modify_file", "generate_tests"}
ProjectTool == {"create_project"}
CommandTool == {"execute_command"}
Tool == FileTool \cup DevelopmentTool \cup ProjectTool \cup CommandTool

\* argument_schema: every argument in it is required.
Required(t) ==
    CASE t \in Writing -> {"path", "content"}
      [] t \in Looking \cup {"file_delete", "create_directory"} -> {"path"}
      [] t = "modify_file" -> {"path", "mode"}
      [] t = "file_copy" -> {"source", "destination"}
      [] t = "generate_tests" -> {"module_path", "framework"}
      [] t = "create_project" -> {"project_name", "base_path", "files", "directories"}
      [] t = "execute_command" -> {"command"}

Optional(t) ==
    CASE t = "modify_file" -> {"search", "replacement", "content"}
      [] t = "generate_tests" -> {"test_dir", "test_name"}
      [] t = "execute_command" -> {"working_directory", "timeout"}
      [] OTHER -> {}

Allowed(t) == Required(t) \cup Optional(t)

\* argument_aliases
Aliases(t) ==
    CASE t \in Writing -> [p |-> "path", file |-> "path", file_path |-> "path",
                           text |-> "content", data |-> "content"]
      [] t \in Looking \cup {"file_delete"} ->
            [p |-> "path", file |-> "path", file_path |-> "path"]
      [] t = "create_directory" -> [p |-> "path", dir |-> "path", directory |-> "path"]
      [] t = "modify_file" -> [p |-> "path", operation |-> "mode", action |-> "mode",
                               type |-> "mode", file |-> "path", file_path |-> "path"]
      [] t = "file_copy" -> [src |-> "source", from |-> "source",
                             dest |-> "destination", to |-> "destination"]
      [] t = "generate_tests" ->
            [module |-> "module_path", file |-> "module_path", src |-> "module_path"]
      [] t = "create_project" -> [name |-> "project_name", path |-> "base_path",
                                  dir |-> "base_path", directory |-> "base_path"]
      [] t = "execute_command" -> [cmd |-> "command", shell |-> "command",
                                   run |-> "command", dir |-> "working_directory"]

-----------------------------------------------------------------------------
(* ToolRegistry: from what the model wrote to what the handler takes.      *)

\* A tool, and the entries of a dictionary in their order.
Arguments ==
    [tool : Tool,
     args : {a \in Seq(Word \X Word) :
                \A i, j \in DOMAIN a : a[i][1] = a[j][1] => i = j}]

ASSUME ToolboxAssumption ==
    /\ Call \subseteq Arguments
    /\ {"", "mode", "replace", "overwrite", "old", "test", "built"} \subseteq Word
    /\ "denied" \notin Path
    /\ Resolves \in [DOMAIN Resolves -> Path]
    /\ Number \subseteq Word /\ Str \in [Number -> Word]
    /\ Plan \in [DOMAIN Plan -> Seq(Word \X Word)]
    /\ TestOf \in [Path -> Path]
    /\ Inside \in [Path \X Path -> Path]
    /\ Claims \subseteq SUBSET {"created", "executed", "fixed"}
    /\ MaxCalls \in Nat

Set(a, k, v) == [x \in DOMAIN a \cup {k} |-> IF x = k THEN v ELSE a[x]]

\* An alias that is looked up whatever is there already.
TakeLast(t, a, entry) ==
    LET k == entry[1] v == entry[2]
    IN IF k \in Allowed(t) THEN Set(a, k, v)
       ELSE IF k \in DOMAIN Aliases(t) THEN Set(a, Aliases(t)[k], v)
       ELSE a

\* Canonical names are taken, aliases only if their canonical name has no
\* value yet, anything else is dropped.
Take(t, a, entry) ==
    LET k == entry[1] v == entry[2]
    IN IF k \in Allowed(t) THEN Set(a, k, v)
       ELSE IF k \in DOMAIN Aliases(t) /\ Aliases(t)[k] \notin DOMAIN a
       THEN Set(a, Aliases(t)[k], v)
       ELSE a

\* In the order they were written.
Normalize(t, written) ==
    FoldLeft(LAMBDA a, entry : Take(t, a, entry), <<>>, written)

Missing(t, a) == Required(t) \ DOMAIN a
NotStrings(t, a) == {k \in Required(t) \cap DOMAIN a : a[k] \in Number}
Valid(t, a) == Missing(t, a) = {} /\ NotStrings(t, a) = {}

\* The repairs for one missing mode, and for one number where a string is due.
Repaired(t, a) ==
    IF Missing(t, a) = {"mode"} /\ "search" \in DOMAIN a THEN Set(a, "mode", "replace")
    ELSE IF Missing(t, a) = {"mode"} /\ "content" \in DOMAIN a
    THEN Set(a, "mode", "overwrite")
    ELSE IF Missing(t, a) = {} /\ NotStrings(t, a) # {}
    THEN LET k == CHOOSE k \in NotStrings(t, a) : TRUE IN Set(a, k, Str[a[k]])
    ELSE a

\* One repair at most, and only if the arguments are not valid.
Handed(c) ==
    LET a == Normalize(c.tool, c.args)
    IN IF Valid(c.tool, a) THEN a ELSE Repaired(c.tool, a)

Arg(a, k) == IF k \in DOMAIN a THEN a[k] ELSE ""
Place(v) == IF v \in DOMAIN Resolves THEN Resolves[v] ELSE "denied"
Pieces(v) == IF v = "" THEN <<>> ELSE <<v>>
Bytes(s) == Len(s) + Cardinality({i \in DOMAIN s : s[i] \in Wide})

-----------------------------------------------------------------------------

Outcome == {"none", "error", "created", "updated", "modified", "unchanged", "deleted",
            "copied", "read", "project", "succeeded", "failed", "timed out"}
Result(what, place, size, names) ==
    [what |-> what, place |-> place, size |-> size, names |-> names]
NoCall == [tool |-> "none", args |-> <<>>]
Nothing == Result("none", "denied", 0, {})
Error == Result("error", "denied", 0, {})

TypeOK ==
    /\ files \subseteq Path /\ folders \subseteq Path /\ files \cap folders = {}
    /\ text \in [Path -> Seq(Word)]
    /\ pc \in [Request -> {"thinking", "editing", "running", "reaping", "verifying", "ended"}]
    /\ call \in [Request -> Call \cup {NoCall}]
    /\ DOMAIN args = Request
    /\ original \in [Request -> Seq(Word)]
    /\ result \in [Request -> [what : Outcome, place : Path \cup {"denied"},
                               size : Nat, names : SUBSET Word]]
    /\ evidence \in [Request -> SUBSET (Tool \X BOOLEAN)]
    /\ created \in [Request -> SUBSET Word]
    /\ modified \in [Request -> SUBSET Word]
    /\ answer \in [Request -> [claims : SUBSET {"created", "executed", "fixed"},
                               notes : SUBSET {"missing", "created", "executed", "fixed"}]]
    /\ calls \in 0 .. MaxCalls
    /\ kept \in [Path -> SUBSET Word]
    /\ wrote \in [Request -> SUBSET Path]
    /\ disturbed \subseteq Request

\* Paths in a folder that there may be.
Nested == {Inside[pq] : pq \in Path \X Path}

Init ==
    /\ files \in SUBSET (Path \ Nested) /\ Cardinality(files) <= 1
    /\ folders = {}
    /\ text = [p \in Path |-> IF p \in files THEN <<"old">> ELSE <<>>]
    /\ pc = [r \in Request |-> "thinking"]
    /\ call = [r \in Request |-> NoCall]
    /\ args = [r \in Request |-> <<>>]
    /\ original = [r \in Request |-> <<>>]
    /\ result = [r \in Request |-> Nothing]
    /\ evidence = [r \in Request |-> {}]
    /\ created = [r \in Request |-> {}]
    /\ modified = [r \in Request |-> {}]
    /\ answer = [r \in Request |-> [claims |-> {}, notes |-> {}]]
    /\ calls = 0
    /\ kept = [p \in Path |-> {}]
    /\ wrote = [r \in Request |-> {}]
    /\ disturbed = {}

-----------------------------------------------------------------------------
(* The handlers.  None of them awaits, but for execute_command.            *)

\* No other request keeps the event loop that r runs in.
Free(r) == \A q \in Request \ {r} : WorkerOf[q] = WorkerOf[r] => pc[q] # "editing"

Answered(r, res) ==
    /\ pc' = [pc EXCEPT ![r] = "verifying"]
    /\ result' = [result EXCEPT ![r] = res]
    /\ original' = [original EXCEPT ![r] = <<>>]

Fails(r) == Answered(r, Error) /\ UNCHANGED <<disk, wrote, disturbed>>
Leaves(r, what, p) ==
    /\ Answered(r, Result(what, p, 0, {}))
    /\ UNCHANGED <<disk, wrote, disturbed>>

\* Every other request that waits for the verification of one of these paths.
Disturb(r, ps) ==
    disturbed' = disturbed \cup {q \in Request \ {r} : pc[q] = "verifying"
                                                     /\ result[q].place \in ps}

\* The file p gets the text t; k are the pieces that must stay in it.
Put(r, p, t, k) ==
    /\ files' = files \cup {p}
    /\ text' = [text EXCEPT ![p] = t]
    /\ kept' = [kept EXCEPT ![p] = k]
    /\ wrote' = [wrote EXCEPT ![r] = @ \cup {p}]
    /\ Disturb(r, {p})
    /\ UNCHANGED folders

Whole(v) == ToSet(Pieces(v))

\* _create_file
CreateFile(r, a) ==
    LET p == Place(Arg(a, "path")) c == Arg(a, "content")
    IN IF p \notin Path \/ p \in folders THEN Fails(r)
       ELSE /\ Put(r, p, Pieces(c), Whole(c))
            /\ Answered(r, Result("created", p, Len(Pieces(c)), {}))

\* _write_file: "mode" would append, but is not in the schema and never gets here.
WriteFile(r, a) ==
    LET p == Place(Arg(a, "path")) c == Arg(a, "content")
        adds == Arg(a, "mode") = "append" /\ p \in files
    IN IF p \notin Path \/ p \in folders THEN Fails(r)
       ELSE /\ Put(r, p, IF adds THEN text[p] \o Pieces(c) ELSE Pieces(c),
                   IF adds THEN kept[p] \cup Whole(c) ELSE Whole(c))
            /\ Answered(r, Result(IF p \in files THEN "updated" ELSE "created",
                                  p, Len(Pieces(c)), {}))

\* _create_directory
CreateDirectory(r, a) ==
    LET p == Place(Arg(a, "path"))
    IN IF p \notin Path \/ p \in files THEN Fails(r)
       ELSE /\ folders' = folders \cup {p}
            /\ Answered(r, Result("created", p, 0, {}))
            /\ wrote' = [wrote EXCEPT ![r] = @ \cup {p}]
            /\ UNCHANGED <<files, text, kept, disturbed>>

\* _read_file
ReadFile(r, a) ==
    LET p == Place(Arg(a, "path"))
    IN IF p \notin files THEN Fails(r) ELSE Leaves(r, "read", p)

\* _file_exists: that there is no such file is not an error.
FileExists(r, a) ==
    LET p == Place(Arg(a, "path"))
    IN IF p \notin Path THEN Fails(r) ELSE Leaves(r, "read", p)

\* _file_delete
DeleteFile(r, a) ==
    LET p == Place(Arg(a, "path"))
    IN IF p \notin files \/ p \in Protected THEN Fails(r)
       ELSE /\ files' = files \ {p}
            /\ text' = [text EXCEPT ![p] = <<>>]
            /\ kept' = [kept EXCEPT ![p] = {}]
            /\ Disturb(r, {p})
            /\ Answered(r, Result("deleted", p, 0, {}))
            /\ UNCHANGED <<folders, wrote>>

\* _file_copy: into a folder it makes a file of the same name, and reports the
\* folder, whose size it does not take.
CopyFile(r, a) ==
    LET p == Place(Arg(a, "source")) q == Place(Arg(a, "destination"))
        into == IF q \in folders THEN Inside[<<p, q>>] ELSE q
    IN IF p \notin files \/ q \notin Path \/ into \in folders \cup {p} THEN Fails(r)
       ELSE /\ Put(r, into, text[p], kept[p])
            /\ Answered(r, Result("copied", q, IF into = q THEN Len(text[p]) ELSE 0, {}))

\* _generate_test_file
GenerateTests(r, a) ==
    LET p == Place(Arg(a, "module_path"))
    IN IF p \notin files \/ TestOf[p] \in folders THEN Fails(r)
       ELSE /\ Put(r, TestOf[p], <<"test">>, {"test"})
            /\ Answered(r, Result("created", "denied", 0, {}))

First(s, x) == CHOOSE i \in DOMAIN s : s[i] = x /\ \A j \in 1 .. i - 1 : s[j] # x
Around(s, i, before, after) ==
    SubSeq(s, 1, i - 1) \o before \o <<s[i]>> \o after \o SubSeq(s, i + 1, Len(s))

\* An append that writes what it adds, and only that.
EditBluntly(a, s) == Pieces(Arg(a, "content"))

\* _modify_file, the text that a mode makes of another.
Edit(a, s) ==
    LET c == Pieces(Arg(a, "content")) x == Arg(a, "search")
        y == Pieces(Arg(a, "replacement"))
    IN CASE a["mode"] = "overwrite" -> c
         [] a["mode"] = "append" -> s \o c
         [] a["mode"] = "prepend" -> c \o s
         [] a["mode"] = "replace" ->
               FlattenSeq([i \in DOMAIN s |-> IF s[i] = x THEN y ELSE <<s[i]>>])
         [] a["mode"] = "replace_first" ->
               LET i == First(s, x)
               IN SubSeq(s, 1, i - 1) \o y \o SubSeq(s, i + 1, Len(s))
         [] a["mode"] = "insert_after" -> Around(s, First(s, x), <<>>, c)
         [] a["mode"] = "insert_before" -> Around(s, First(s, x), c, <<>>)

Searching == {"replace", "replace_first", "insert_after", "insert_before"}
Mode == {"overwrite", "append", "prepend"} \cup Searching

\* Of the pieces k, those an edit may take away; and those it puts in.
Gone(a, k) ==
    CASE a["mode"] = "overwrite" -> k
      [] a["mode"] \in {"replace", "replace_first"} -> {Arg(a, "search")}
      [] OTHER -> {}
Added(a) ==
    Whole(Arg(a, IF a["mode"] \in {"replace", "replace_first"} THEN "replacement" ELSE "content"))

\* _modify_file, up to the text it is going to write.
ModifyFile(r, a) ==
    LET p == Place(Arg(a, "path")) x == Arg(a, "search")
        new == Edit(a, text[p])
    IN IF p \notin files \/ a["mode"] \notin Mode THEN Fails(r)
       ELSE IF a["mode"] \in Searching /\ (x = "" \/ x \notin ToSet(text[p])) THEN Fails(r)
       ELSE IF new = text[p] THEN Leaves(r, "unchanged", p)
       ELSE /\ pc' = [pc EXCEPT ![r] = "editing"]
            /\ original' = [original EXCEPT ![r] = text[p]]
            /\ UNCHANGED <<disk, result, wrote, disturbed>>

\* _create_project: what cannot be created is listed, and is not an error.
CreateProject(r, a) ==
    LET root == Place(Arg(a, "base_path"))
        plan == IF Arg(a, "files") \in DOMAIN Plan THEN Plan[Arg(a, "files")] ELSE <<>>
        ok == {i \in DOMAIN plan : Place(plan[i][1]) \in Path \ (folders \cup {root})}
        made == {Place(plan[i][1]) : i \in ok}
        Content(p) == plan[CHOOSE i \in ok : Place(plan[i][1]) = p][2]
    IN IF Arg(a, "files") \notin DOMAIN Plan THEN Fails(r)
       ELSE IF root \notin Path \/ root \in files THEN Fails(r)
       ELSE /\ folders' = folders \cup {root}
            /\ files' = files \cup made
            /\ text' = [p \in Path |-> IF p \in made THEN Pieces(Content(p)) ELSE text[p]]
            /\ kept' = [p \in Path |-> IF p \in made THEN Whole(Content(p)) ELSE kept[p]]
            /\ wrote' = [wrote EXCEPT ![r] = @ \cup {root} \cup made]
            /\ Disturb(r, made)
            /\ Answered(r, Result("project", root, Len(plan) - Cardinality(ok),
                                  {plan[i][1] : i \in ok}))

\* _execute_command, up to its await.
StartCommand(r) ==
    /\ pc' = [pc EXCEPT ![r] = "running"]
    /\ UNCHANGED <<disk, original, result, wrote, disturbed>>

\* A command that is not on the list, or whose folder is not allowed.
RefuseCommand(r) == Fails(r)

Handle(r, t, a) ==
    CASE t = "create_file" -> CreateFile(r, a)
      [] t = "write_file" -> WriteFile(r, a)
      [] t = "create_directory" -> CreateDirectory(r, a)
      [] t = "read_file" -> ReadFile(r, a)
      [] t = "file_exists" -> FileExists(r, a)
      [] t = "file_delete" -> DeleteFile(r, a)
      [] t = "file_copy" -> CopyFile(r, a)
      [] t = "generate_tests" -> GenerateTests(r, a)
      [] t = "modify_file" -> ModifyFile(r, a)
      [] t = "create_project" -> CreateProject(r, a)
      [] t = "execute_command" -> StartCommand(r) \/ RefuseCommand(r)

-----------------------------------------------------------------------------
(* A call.                                                                 *)

\* ToolRegistry.execute
Execute(r, c) ==
    /\ pc[r] = "thinking" /\ Free(r)
    /\ calls < MaxCalls
    /\ calls' = calls + 1
    /\ call' = [call EXCEPT ![r] = c]
    /\ args' = [args EXCEPT ![r] = Handed(c)]
    /\ IF Valid(c.tool, Handed(c)) THEN Handle(r, c.tool, Handed(c)) ELSE Fails(r)
    /\ UNCHANGED <<evidence, created, modified, answer>>

\* The file a call is about.
Target(r) == Place(Arg(args[r], "path"))

\* _modify_file writes what it made of the text it has read, whatever the file
\* holds by now.
WriteEdit(r) ==
    LET p == Target(r) a == args[r]
        new == Edit(a, original[r])
    IN
    /\ pc[r] = "editing" /\ Free(r)
    /\ IF p \in folders THEN Fails(r)
       ELSE /\ Put(r, p, new, (kept[p] \ Gone(a, kept[p])) \cup Added(a))
            /\ Answered(r, Result("modified", p, Len(new), {}))
    /\ UNCHANGED <<call, args, evidence, created, modified, answer, calls>>

\* The process of a command, or what it has started, writes a file, whoever
\* runs in a worker meanwhile; what it writes under the hands of an edit need
\* not stay.
CommandWrites(r, p) ==
    /\ pc[r] \in {"running", "reaping"}
    /\ p \notin folders
    /\ p \in Nested => \E pq \in Path \X folders : Inside[pq] = p
    /\ Put(r, p, <<"built">>,
           IF \E q \in Request : pc[q] = "editing" /\ Target(q) = p THEN {} ELSE {"built"})
    /\ UNCHANGED <<pc, call, args, original, result, evidence, created, modified,
                   answer, calls>>

CommandExits(r, what) ==
    /\ pc[r] = "running" /\ Free(r)
    /\ Answered(r, Result(what, "denied", 0, {}))
    /\ UNCHANGED <<disk, call, args, evidence, created, modified, answer, calls,
                   wrote, disturbed>>

\* The process is killed, then communicate() is awaited again, without a
\* bound: what the process has started may hold its pipes and go on.
CommandTimesOut(r) ==
    /\ pc[r] = "running" /\ Free(r)
    /\ pc' = [pc EXCEPT ![r] = "reaping"]
    /\ UNCHANGED <<disk, call, args, original, result, evidence, created, modified, answer,
                   calls, wrote, disturbed>>

CommandReaped(r) ==
    /\ pc[r] = "reaping" /\ Free(r)
    /\ Answered(r, Result("timed out", "denied", 0, {}))
    /\ UNCHANGED <<disk, call, args, evidence, created, modified, answer, calls,
                   wrote, disturbed>>

-----------------------------------------------------------------------------
(* After the await behind the handler.                                     *)

\* A verifier that looks for the text of the call where the server was started.
PassesInCwd(t, res) ==
    IF t \in Looking THEN TRUE ELSE res.what # "error" /\ res.place \in InCwd

\* The verifiers.  A size is reported in characters and compared with bytes;
\* the files of a project are looked for from the server's directory.
WrittenAsReported(res) == res.place \in files /\ Bytes(text[res.place]) = res.size
StillThere(res) == res.place \in files
FolderThere(res) == res.place \in folders
CommandSucceeded(res) == res.what = "succeeded"
ProjectThere(res) == res.size = 0 /\ res.names # {} /\ res.names \subseteq InCwd

\* verify_tool_result
Passes(t, res) ==
    CASE t \in Looking -> TRUE
      [] res.what = "error" -> FALSE
      [] t \in Writing -> WrittenAsReported(res)
      [] t = "modify_file" -> StillThere(res)
      [] t = "create_directory" -> FolderThere(res)
      [] t = "execute_command" -> CommandSucceeded(res)
      [] t = "create_project" -> ProjectThere(res)
      [] OTHER -> TRUE

\* What the loop takes for the file of a call: two of its spellings, unresolved.
NamedFile(c) ==
    LET With(k) == {pair[2] : pair \in {p \in ToSet(c.args) : p[1] = k}}
    IN IF With("file_path") # {} THEN With("file_path") ELSE With("path")

\* Results that back no claim: an error, a command without exit code 0.
Bad == {"error", "failed", "timed out"}

Verify(r) ==
    LET t == call[r].tool
    IN
    /\ pc[r] = "verifying" /\ Free(r)
    /\ pc' = [pc EXCEPT ![r] = "thinking"]
    /\ evidence' = [evidence EXCEPT ![r] = @ \cup {<<t, result[r].what \in Bad>>}]
    /\ created' = [created EXCEPT ![r] =
                     IF t \in Writing \cup {"create_project"}
                     THEN @ \cup NamedFile(call[r]) ELSE @]
    /\ modified' = [modified EXCEPT ![r] =
                     IF t = "modify_file" THEN @ \cup NamedFile(call[r]) ELSE @]
    /\ disturbed' = disturbed \ {r}
    /\ call' = [call EXCEPT ![r] = NoCall]
    /\ args' = [args EXCEPT ![r] = <<>>]
    /\ result' = [result EXCEPT ![r] = Nothing]
    /\ UNCHANGED <<disk, original, answer, calls, wrote>>

\* verify_session_files looks at the spelled paths from the server's directory.
Found(v) == v \in InCwd /\ Place(v) \in files

\* validate_response
AnyEvidence(r, ts) == \E e \in evidence[r] : e[1] \in ts
HasEvidence(r, ts) == \E e \in evidence[r] : e[1] \in ts /\ ~e[2]
Backing(claim) ==
    CASE claim = "created" -> Writing \cup {"create_project"}
      [] claim = "executed" -> {"execute_command"}
      [] claim = "fixed" -> {"modify_file", "write_file"}

\* _SUCCESS_PATTERNS: what is found in an answer at all.  No pattern matches
\* a word of the branch for executions, so that nothing ever comes to it.
Recognized == {"created", "fixed"}

\* Of a request that has used no tool, every claim is believed.
Unbacked(r, claims) ==
    {c \in claims \cap Recognized : evidence[r] # {} /\ ~HasEvidence(r, Backing(c))}

Answer(r, claims) ==
    LET missing == {v \in created[r] \cup modified[r] : ~Found(v)}
    IN
    /\ pc[r] = "thinking" /\ Free(r)
    /\ pc' = [pc EXCEPT ![r] = "ended"]
    /\ answer' = [answer EXCEPT ![r] =
                    [claims |-> claims,
                     notes |-> Unbacked(r, claims) \cup (IF missing # {} THEN {"missing"} ELSE {})]]
    /\ created' = [created EXCEPT ![r] = {}]
    /\ modified' = [modified EXCEPT ![r] = {}]
    /\ UNCHANGED <<disk, call, args, original, result, evidence, calls, wrote, disturbed>>

-----------------------------------------------------------------------------

Next ==
    \E r \in Request :
       \/ \E c \in Call : Execute(r, c)
       \/ WriteEdit(r)
       \/ \E p \in Path : CommandWrites(r, p)
       \/ \E what \in {"succeeded", "failed", "error"} : CommandExits(r, what)
       \/ CommandTimesOut(r) \/ CommandReaped(r)
       \/ Verify(r)
       \/ \E claims \in Claims : Answer(r, claims)

Spec == Init /\ [][Next]_vars

-----------------------------------------------------------------------------
(* Properties.                                                             *)

Written(c, k) == {i \in DOMAIN c.args : c.args[i][1] = k}
Spellings(c, k) == {i \in DOMAIN c.args : \/ c.args[i][1] = k
                                          \/ /\ c.args[i][1] \in DOMAIN Aliases(c.tool)
                                             /\ c.args[i][1] \notin Allowed(c.tool)
                                             /\ Aliases(c.tool)[c.args[i][1]] = k}
Least(s) == CHOOSE i \in s : \A j \in s : i <= j
Chosen(c, k) == Least(IF Written(c, k) # {} THEN Written(c, k) ELSE Spellings(c, k))

\* In whatever order a model writes its arguments, and however it spells them,
\* a handler gets the value under the canonical name if there is one, and the
\* first of the aliases else, as it was written or, if it was a number, as a
\* string; it gets no other argument but a mode that was missing.
NormalizedIsFaithful ==
    \A r \in Request : pc[r] \in {"editing", "running", "verifying"} =>
       \A k \in DOMAIN args[r] :
          LET c == call[r]
              v == c.args[Chosen(c, k)][2]
          IN \/ k = "mode" /\ Spellings(c, k) = {}
             \/ /\ Spellings(c, k) # {}
                /\ args[r][k] = v \/ (v \in Number /\ args[r][k] = Str[v])

\* One process serves all requests, as docker-entrypoint.sh starts it.
OneWorker == \A q, r \in Request : WorkerOf[q] = WorkerOf[r]

\* Whatever requests of one worker edit a file, in whatever order, and whatever
\* their commands write to it, also between the read and the write of an edit:
\* a piece that one of them put there stays until someone replaces it,
\* overwrites or deletes the file.  Only what a command writes under the hands
\* of an edit is not among them: see AppendAdds.
EditsSurvive == OneWorker => \A p \in Path : kept[p] \subseteq ToSet(text[p])

\* An append leaves the file with what it held, and what was to be added at its
\* end ("Append content to the end of the file"): the code does not keep it, as a
\* command may write in between.
AppendAdds ==
    [][\A r \in Request :
          LET p == Target(r) a == args[r]
          IN /\ pc[r] = "editing" /\ pc'[r] = "verifying" /\ result'[r].what = "modified"
             /\ a["mode"] = "append"
             => text'[p] = text[p] \o Pieces(Arg(a, "content"))]_vars

\* A request that is told that a file or folder it made did not come out as
\* reported has written wide characters, or another one was there in between.
FailureIsExplained ==
    \A r \in Request :
       /\ pc[r] = "verifying"
       /\ call[r].tool \in Writing \cup {"modify_file", "create_directory"}
       /\ result[r].what # "error"
       /\ ~Passes(call[r].tool, result[r])
       => r \in disturbed \/ ToSet(text[result[r].place]) \cap Wide # {}

\* A request that wrote a file, which nobody has touched since, is told that it
\* was ("Verify that create_file actually created the file"): the code does not
\* keep it for a text of wide characters.
WrittenIsVerified ==
    \A r \in Request :
       pc[r] = "verifying" /\ call[r].tool \in Writing /\ result[r].what # "error"
       /\ r \notin disturbed
       => Passes(call[r].tool, result[r])

\* An answer of a request that has used a tool says without a note that
\* something was executed only if a command was ("Prevents the LLM from
\* claiming success without tool evidence"): the code does not keep it, as no
\* pattern recognises the claim.
ExecutionIsBacked ==
    \A r \in Request :
       pc[r] = "ended" /\ "executed" \in answer[r].claims \ answer[r].notes
       => evidence[r] = {} \/ HasEvidence(r, {"execute_command"})

\* An answer of a request that has used a tool says without a note that
\* something was created only if the request has put something on disk.
ClaimIsBacked ==
    \A r \in Request :
       pc[r] = "ended" /\ "created" \in answer[r].claims \ answer[r].notes
       => evidence[r] = {} \/ wrote[r] # {}

-----------------------------------------------------------------------------
(* What makes them so, in every reachable state.                           *)

\* Behind the registry a handler has what it made of the call; a command is
\* the only handler that awaits.
CallStands(r) ==
    /\ pc[r] \in {"editing", "running", "reaping", "verifying"} =>
          call[r] \in Call /\ args[r] = Handed(call[r])
    /\ pc[r] \in {"running", "reaping"} => call[r].tool = "execute_command"
    /\ pc[r] = "editing" => call[r].tool = "modify_file"

\* What an edit is made of has in it what must stay in the file.
EditStands(r) ==
    pc[r] = "editing" =>
       /\ Target(r) \in Path
       /\ args[r]["mode"] \in Mode
       /\ args[r]["mode"] \in Searching => Arg(args[r], "search") \in ToSet(original[r])
       /\ OneWorker => kept[Target(r)] \subseteq ToSet(original[r])

\* What a handler has reported is still so, unless another was there.
ResultStands(r) ==
    pc[r] = "verifying" /\ result[r].what # "error" =>
       /\ call[r].tool \in Writing \cup {"modify_file", "create_directory"} =>
             result[r].place \in Path
       /\ call[r].tool \in Writing \cup {"modify_file"} /\ r \notin disturbed =>
             result[r].place \in files
       /\ call[r].tool \in Writing /\ r \notin disturbed =>
             result[r].size = Len(text[result[r].place])
       /\ call[r].tool = "create_directory" => result[r].place \in folders

\* What counts as having created something did; who is believed to have, has.
ClaimStands(r) ==
    /\ pc[r] = "verifying" /\ call[r].tool \in Backing("created")
          /\ result[r].what \notin Bad => wrote[r] # {}
    /\ HasEvidence(r, Backing("created")) => wrote[r] # {}
    /\ pc[r] = "ended" /\ "created" \in answer[r].claims \ answer[r].notes =>
          evidence[r] = {} \/ wrote[r] # {}

\* What is no file has no text.
DiskInv == \A p \in Path \ files : text[p] = <<>> /\ kept[p] = {}

CallInv == \A r \in Request : CallStands(r)
ResultInv == \A r \in Request : ResultStands(r)
ClaimInv == \A r \in Request : ClaimStands(r)
EditInv == \A r \in Request : EditStands(r)
ToolInv == TypeOK /\ CallInv /\ EditInv /\ EditsSurvive /\ DiskInv /\ ResultInv /\ ClaimInv
=============================================================================
