------------------------------ MODULE ModelDesk ------------------------------
(***************************************************************************)
(* What one process knows about the models it can use, and what becomes of *)
(* the user's choice among them.  At its start a process loads the saved   *)
(* settings, asks the providers for their models, looks once whether it is *)
(* online and restores the choice.  Then users select, configure, have     *)
(* models verified and rate answers, requests fail over from one model to  *)
(* another, saves reach the database in any order, and the process dies.   *)
(*                                                                         *)
(* The entries of the registry are pairs of a provider and a model.  Every *)
(* provider has one instance, whose model attribute everything shares; the *)
(* calls that requests make through it are the subject of ProviderRouting. *)
(***************************************************************************)
EXTENDS Naturals, Sequences, SequencesExt

CONSTANTS
    Provider, Model,        \* providers are named as in the code
    Request, Checker,       \* requests, and verifications, at the same time
    Entry,                  \* the pairs that may be listed, or named by users
    Configured,             \* the model each instance is created with
    AIProvider,             \* the values of AI_PROVIDER in use
    Environment,            \* its value in the environment
    Tests,                  \* the order of the capability tests
    Replies,                \* what each model may reply to each test
    MinPassed,              \* 6 of the 11 tests
    FailAfter,              \* failures that may condemn a model, 5
    Window,                 \* _MAX_FALLBACK_ATTEMPTS, 3
    Reading,                \* whether the settings can be read at a start
    MaxSteps,               \* bound on what happens to a behaviour
    NoProvider, NoModel, NoEntry, NoCheck

Local == {"ollama", "opencode"}
Mode == {"automatic", "manual"}

ASSUME DeskAssumption ==
    /\ Entry \subseteq Provider \X Model
    /\ AIProvider \subseteq {"auto", "deterministic", "local", "remote"}
    /\ "deterministic" \in AIProvider
    /\ Configured \in [Provider -> Model]
    /\ {"ollama", "gemini"} \subseteq Provider
    /\ Tests \in Seq(STRING)
    /\ Environment \in AIProvider
    /\ {MinPassed, FailAfter, Window} \subseteq Nat \ {0}
    /\ Reading \subseteq BOOLEAN
    /\ MaxSteps \in Nat
    /\ NoProvider \notin Provider /\ NoModel \notin Model /\ NoEntry \notin Entry
    /\ NoCheck \notin [entry : Entry, next : Nat, passed : Nat, own : BOOLEAN]

VARIABLES
    running,
    db,                     \* the saved settings: a function on the keys saved
    saves,                  \* the writes whose commit is outstanding
    ai, mode, sel,          \* settings.ai_provider; ModelManager's mode and choice
    registered, status,     \* the registry
    wins, losses,           \* success_count and failure_count
    model,                  \* the model of each instance
    failures,               \* _fallback_history
    network, online,        \* the network, and what the process believes of it
    check,                  \* the verifications under way
    prov, blocked,          \* requests: their provider, those they have lost
    steps,
    astray,                 \* history: memory and database were parted
    candid,                 \* history: the entry's verdict is about its own model
    cleared                 \* history: verified since it was last condemned

saved == <<db, saves>>
choice == <<ai, mode, sel>>
registry == <<registered, status, wins, losses>>
requests == <<prov, blocked>>
vars == <<running, saved, choice, registry, model, failures, network, online,
          check, requests, steps, astray, candid, cleared>>

Status == {"unknown", "checking", "verified", "limited", "failed"}

\* The saved value of a key, or the default of ProviderSettings.
Default == [ai |-> "deterministic", mode |-> "automatic",
            provider |-> NoProvider, model |-> NoModel]
Over(new, old) ==
    [k \in DOMAIN new \cup DOMAIN old |-> IF k \in DOMAIN new THEN new[k] ELSE old[k]]
Loaded == Over(db, Default)

TypeOK ==
    /\ running \in BOOLEAN /\ network \in BOOLEAN /\ astray \in BOOLEAN
    /\ ai \in AIProvider /\ mode \in Mode
    /\ sel \in (Provider \cup {NoProvider}) \X (Model \cup {NoModel})
    /\ registered \subseteq Entry
    /\ status \in [Entry -> Status]
    /\ wins \in [Entry -> Nat] /\ losses \in [Entry -> Nat]
    /\ model \in [Provider -> Model]
    /\ failures \in Seq(Provider \X Model) /\ Len(failures) <= Window
    /\ online \in {"unasked", "online", "offline"}
    /\ check \in [Checker -> {NoCheck} \cup [entry : Entry, next : 1 .. Len(Tests) + 1,
                                             passed : Nat, own : BOOLEAN]]
    /\ prov \in [Request -> Provider \cup {NoProvider, "deterministic"}]
    /\ blocked \in [Request -> SUBSET Provider]
    /\ steps \in 0 .. MaxSteps
    /\ candid \in [Entry -> BOOLEAN] /\ cleared \in [Entry -> BOOLEAN]

\* What the death of a process forgets.
Forgotten ==
    /\ running' = FALSE
    /\ ai' = Environment /\ mode' = "automatic" /\ sel' = <<NoProvider, NoModel>>
    /\ registered' = {}
    /\ status' = [e \in Entry |-> "unknown"]
    /\ wins' = [e \in Entry |-> 0] /\ losses' = [e \in Entry |-> 0]
    /\ model' = Configured
    /\ failures' = <<>>
    /\ online' = "unasked"
    /\ check' = [c \in Checker |-> NoCheck]
    /\ prov' = [q \in Request |-> NoProvider]
    /\ blocked' = [q \in Request |-> {}]
    /\ candid' = [e \in Entry |-> FALSE]
    /\ cleared' = [e \in Entry |-> FALSE]

Init ==
    /\ running = FALSE
    /\ db = <<>> /\ saves = {}
    /\ ai = Environment /\ mode = "automatic" /\ sel = <<NoProvider, NoModel>>
    /\ registered = {}
    /\ status = [e \in Entry |-> "unknown"]
    /\ wins = [e \in Entry |-> 0] /\ losses = [e \in Entry |-> 0]
    /\ model = Configured
    /\ failures = <<>>
    /\ network \in BOOLEAN /\ online = "unasked"
    /\ check = [c \in Checker |-> NoCheck]
    /\ prov = [q \in Request |-> NoProvider]
    /\ blocked = [q \in Request |-> {}]
    /\ steps = 0
    /\ astray = FALSE
    /\ candid = [e \in Entry |-> FALSE]
    /\ cleared = [e \in Entry |-> FALSE]

Happens == steps < MaxSteps /\ steps' = steps + 1

-----------------------------------------------------------------------------
(* The start and the end of a process.                                     *)

\* Which of the entries the providers list when they are asked: a provider that
\* does not answer lists none.
Discoveries == SUBSET Entry

\* The model of the Ollama instance is the configured one if it is installed,
\* or else one that is; the start-up looks only if Ollama may answer requests.
StartModels(found, provider) ==
    LET installed == {m \in Model : <<"ollama", m>> \in found}
    IN IF /\ provider \in {"local", "auto"}
          /\ installed # {} /\ Configured["ollama"] \notin installed
       THEN {[Configured EXCEPT !["ollama"] = m] : m \in installed}
       ELSE {Configured}

\* select_provider: the provider has an instance and a model that is named an
\* entry; the instance is set to the model.
Selectable(p, m, known) == p \in Provider /\ (m = NoModel \/ <<p, m>> \in known)
Selected(models, p, m) == IF m = NoModel THEN models ELSE [models EXCEPT ![p] = m]

\* The start of the application, up to its first request.  When the settings
\* cannot be loaded those of the environment hold and there is no choice to
\* restore; a choice whose model is not listed this time is not restored.
Boot ==
    /\ ~running
    /\ running' = TRUE
    /\ \E readable \in Reading, found \in Discoveries :
        LET settings == IF readable THEN Loaded ELSE [Default EXCEPT !.ai = Environment]
            restored == Selectable(settings.provider, settings.model, found)
        IN /\ registered' = found
           /\ ai' = settings.ai
           /\ mode' = settings.mode
           /\ sel' = IF restored THEN <<settings.provider, settings.model>>
                                 ELSE <<NoProvider, NoModel>>
           /\ \E models \in StartModels(found, settings.ai) :
                model' = IF restored THEN Selected(models, settings.provider, settings.model)
                                     ELSE models
           /\ astray' = (~readable \/ (settings.provider # NoProvider /\ ~restored))
    /\ UNCHANGED <<saved, status, wins, losses, failures, network, online, check,
                   requests, steps, candid, cleared>>

\* What was not committed is lost.
Crash ==
    /\ running /\ Happens
    /\ Forgotten
    /\ saves' = {}
    /\ astray' = FALSE
    /\ UNCHANGED <<db, network>>

\* The only look at the network, started in the background after the discovery.
LookEnds ==
    /\ running /\ online = "unasked"
    /\ online' = IF network THEN "online" ELSE "offline"
    /\ UNCHANGED <<running, saved, choice, registry, model, failures, network, check,
                   requests, steps, astray, candid, cleared>>

NetworkChanges ==
    /\ Happens
    /\ network' = ~network
    /\ UNCHANGED <<running, saved, choice, registry, model, failures, online, check,
                   requests, astray, candid, cleared>>

-----------------------------------------------------------------------------
(* The choice of the user, which is made in memory and then saved.  A write  *)
(* is one transaction; two that are under way commit in any order.           *)

\* A write starts; another of the same keys may already be under way.
Save(job) ==
    /\ saves' = saves \cup {job}
    /\ astray' = (astray \/ \E other \in saves : DOMAIN other \cap DOMAIN job # {})

\* Both keys of a choice are written, the model as an empty text if none is named.
ChoiceNamed(p, m) == IF m = NoModel THEN [provider |-> p] ELSE [provider |-> p, model |-> m]
ChoiceToSave(p, m) == [provider |-> p, model |-> m]

Choose(p, m) ==
    /\ sel' = <<p, m>>
    /\ model' = Selected(model, p, m)

Select(p, m) ==
    /\ running /\ Happens
    /\ Selectable(p, m, registered)
    /\ Choose(p, m)
    /\ Save(ChoiceToSave(p, m))
    /\ UNCHANGED <<running, db, ai, mode, registry, failures, network, online, check,
                   requests, candid, cleared>>

\* The fields of a configuration are applied in memory one after the other, so
\* that the refusal of the routing mode leaves the provider mode applied.
Configure(fields, refused) ==
    /\ running /\ Happens
    /\ DOMAIN fields # {} \/ refused
    /\ refused => "mode" \notin DOMAIN fields
    /\ ai' = IF "ai" \in DOMAIN fields THEN fields.ai ELSE ai
    /\ mode' = IF "mode" \in DOMAIN fields THEN fields.mode ELSE mode
    /\ \/ ~refused /\ Save(fields)
       \/ /\ refused
          /\ astray' = (astray \/ DOMAIN fields # {})
          /\ UNCHANGED saves
    /\ UNCHANGED <<running, db, sel, registry, model, failures, network, online, check,
                   requests, candid, cleared>>

SaveCommits(job) ==
    /\ job \in saves
    /\ db' = Over(job, db)
    /\ saves' = saves \ {job}
    /\ UNCHANGED <<running, choice, registry, model, failures, network, online, check,
                   requests, steps, astray, candid, cleared>>

\* A save that fails is only logged.
SaveFails(job) ==
    /\ job \in saves
    /\ saves' = saves \ {job}
    /\ astray' = TRUE
    /\ UNCHANGED <<running, db, choice, registry, model, failures, network, online,
                   check, requests, steps, candid, cleared>>

-----------------------------------------------------------------------------
(* The candidates among the entries.                                       *)

Verified == {e \in registered : status[e] = "verified"}

\* _get_candidates: offline the local entries, or else the verified ones if
\* there are any, or else all.
Candidates ==
    IF online = "offline" THEN {e \in registered : e[1] \in Local}
    ELSE IF Verified # {} THEN Verified ELSE registered

ScoringUnchecked == {e \in Candidates : status[e] # "checking"}

\* _score_model gives nothing to an entry that failed or is being checked; which
\* of the others scores highest depends on the task, and none may score at all.
Scoring == {e \in Candidates : status[e] \in {"verified", "limited", "unknown"}}

\* auto-select: the choice is not saved.
AutoSelect(e) ==
    /\ running /\ Happens
    /\ e \in Scoring
    /\ Choose(e[1], e[2])
    /\ astray' = TRUE
    /\ UNCHANGED <<running, saved, ai, mode, registry, failures, network, online, check,
                   requests, candid, cleared>>

\* get_fallback_provider, after the failure was appended to the history.
Offers(failed, shut, recent) ==
    {e \in Candidates :
        /\ e # failed /\ e \notin ToSet(recent)
        /\ e[1] \notin shut
        /\ status[e] \in {"verified", "unknown"}}

-----------------------------------------------------------------------------
(* How models are rated.                                                   *)

Won(e) == wins' = [wins EXCEPT ![e] = @ + 1] /\ UNCHANGED <<losses, status, cleared>>

\* record_failure: the failure that makes it too many condemns the entry.
Condemnable(w, l) == l >= FailAfter /\ 10 * w < 3 * (w + l)
CondemnedAt(e) == Condemnable(wins[e], losses[e] + 1)
Lost(e) ==
    /\ losses' = [losses EXCEPT ![e] = @ + 1]
    /\ status' = IF CondemnedAt(e) THEN [status EXCEPT ![e] = "failed"] ELSE status
    /\ cleared' = IF CondemnedAt(e) THEN [cleared EXCEPT ![e] = FALSE] ELSE cleared
    /\ UNCHANGED wins

\* Nothing is recorded of an entry the registry does not have.
Recorded(e, good) ==
    IF e \notin registered THEN UNCHANGED <<status, wins, losses, cleared>>
    ELSE IF good THEN Won(e) ELSE Lost(e)

\* The feedback of a user.
Feedback(e, good) ==
    /\ running /\ Happens
    /\ Recorded(e, good)
    /\ UNCHANGED <<running, saved, choice, registered, model, failures, network, online,
                   check, requests, astray, candid>>

-----------------------------------------------------------------------------
(* Requests, as far as they concern the registry.                          *)

\* _auto_select, when every provider has an instance.
AutoProvider == [local |-> "ollama", remote |-> "gemini", auto |-> "ollama",
                 deterministic |-> "deterministic"]

\* get_provider_instance, which a choice that was not restored leads to
\* _auto_select in both modes.
Instance == IF sel[1] = NoProvider THEN AutoProvider[ai] ELSE sel[1]

\* _service: the selected model is assigned once more to an Ollama instance.
Route(q) ==
    /\ running /\ Happens
    /\ prov[q] = NoProvider
    /\ prov' = [prov EXCEPT ![q] = Instance]
    /\ model' = IF prov'[q] = "ollama" THEN Selected(model, "ollama", sel[2]) ELSE model
    /\ UNCHANGED <<running, saved, choice, registry, failures, network, online, check,
                   blocked, astray, candid, cleared>>

RequestEnds(q) ==
    /\ prov' = [prov EXCEPT ![q] = NoProvider]
    /\ blocked' = [blocked EXCEPT ![q] = {}]

\* The last answer is credited to the model the instance has by then.
Answered(q, good) ==
    /\ prov[q] # NoProvider
    /\ RequestEnds(q)
    /\ IF prov[q] \in Provider THEN Recorded(<<prov[q], model[prov[q]]>>, good)
       ELSE UNCHANGED <<status, wins, losses, cleared>>
    /\ UNCHANGED <<running, saved, choice, registered, model, failures, network, online,
                   check, steps, astray, candid>>

\* In manual mode a failed call ends the request.
ManualFails(q) ==
    /\ prov[q] \in Provider /\ mode = "manual"
    /\ RequestEnds(q)
    /\ UNCHANGED <<running, saved, choice, registry, model, failures, network, online,
                   check, steps, astray, candid, cleared>>

\* A call failed in automatic mode: the request goes on with a fallback, and
\* only then is the failure recorded; without one it ends.
Fails(q, lost) ==
    LET failed == <<prov[q], model[prov[q]]>>
        shut == IF lost THEN blocked[q] \cup {prov[q]} ELSE blocked[q]
        offers == Offers(failed, shut, failures')
    IN /\ prov[q] \in Provider /\ mode = "automatic" /\ Happens
       /\ failures' = Append(IF Len(failures) < Window THEN failures ELSE Tail(failures), failed)
       /\ \/ \E e \in offers :
                /\ prov' = [prov EXCEPT ![q] = e[1]]
                /\ blocked' = [blocked EXCEPT ![q] = shut]
                /\ model' = [model EXCEPT ![e[1]] = e[2]]
                /\ Recorded(failed, FALSE)
          \/ /\ offers = {}
             /\ RequestEnds(q)
             /\ UNCHANGED <<model, status, wins, losses, cleared>>
       /\ UNCHANGED <<running, saved, choice, registered, network, online, check, astray,
                      candid>>

-----------------------------------------------------------------------------
(* The verification of a model by replies to the capability tests.         *)

\* The replies that pass.  A reply has a text or none; it uses the words a test
\* looks for; it calls a tool with some arguments or none; and the tool, run on
\* the file of the test in a folder of its own, leaves it as asked or not.
Answers(t, r) == t = "basic_response" /\ r.text
Summarises(t, r) == t = "context_handling" /\ r.text
NamesItself(t, r) == t = "system_prompt_adherence" /\ t \in r.words
SaysSo(t, r) ==
    /\ t \in {"verification_understanding", "coding", "multi_step", "security"}
    /\ t \in r.words
CallsTool(t, r) ==
    \/ t = "tool_calling" /\ r.tool = "list_directory"
    \/ /\ t = "argument_compatibility" /\ r.tool = "create_file"
       /\ {"path", "content"} \subseteq r.arguments
MakesFile(t, r) == t = "file_creation" /\ r.tool = "create_file" /\ r.works
ChangesFile(t, r) == t = "file_modification" /\ r.tool = "modify_file" /\ r.works

Passes(t, r) ==
    \/ Answers(t, r) \/ Summarises(t, r) \/ NamesItself(t, r) \/ SaysSo(t, r)
    \/ CallsTool(t, r) \/ MakesFile(t, r) \/ ChangesFile(t, r)

\* register: an entry that exists is kept with all it has recorded, and one that
\* is new is unknown; nobody asks the provider for it.
Register(e) == registered' = registered \cup {e}

\* verify_model, also for each entry by verify_all.
VerifyStart(c, e) ==
    /\ running /\ Happens
    /\ check[c] = NoCheck
    /\ Register(e)
    /\ status' = [status EXCEPT ![e] = "checking"]
    /\ check' = [check EXCEPT ![c] = [entry |-> e, next |-> 1, passed |-> 0, own |-> TRUE]]
    /\ UNCHANGED <<running, saved, choice, wins, losses, model, failures, network, online,
                   requests, astray, candid, cleared>>

\* A test is put to the model the instance has now.  It fails as well when the
\* provider does, or after a time.
RunTest(c) ==
    LET k == check[c]
        tested == model[k.entry[1]]
        t == Tests[k.next]
    IN /\ k # NoCheck /\ k.next <= Len(Tests)
       /\ \E n \in {0, 1} :
            /\ n = 1 => \E r \in Replies[tested][t] : Passes(t, r)
            /\ check' = [check EXCEPT ![c] =
                           [entry |-> k.entry, next |-> k.next + 1, passed |-> k.passed + n,
                            own |-> k.own /\ tested = k.entry[2]]]
       /\ UNCHANGED <<running, saved, choice, registry, model, failures, network, online,
                      requests, steps, astray, candid, cleared>>

\* VerificationReport.finish and the status that follows from it.
VerdictOfMost(passed) == IF passed >= MinPassed THEN "verified" ELSE "failed"
Verdict(passed) ==
    IF passed = Len(Tests) /\ passed >= MinPassed THEN "verified"
    ELSE IF 2 * passed >= Len(Tests) THEN "limited"
    ELSE "failed"

VerifyEnds(c) ==
    LET k == check[c]
        e == k.entry
    IN /\ k # NoCheck /\ k.next > Len(Tests)
       /\ status' = [status EXCEPT ![e] = Verdict(k.passed)]
       /\ check' = [check EXCEPT ![c] = NoCheck]
       /\ candid' = [candid EXCEPT ![e] = k.own]
       /\ cleared' = [cleared EXCEPT ![e] = TRUE]
       /\ UNCHANGED <<running, saved, choice, registered, wins, losses, model, failures,
                      network, online, requests, steps, astray>>

-----------------------------------------------------------------------------

UserStep ==
    \/ \E p \in Provider, m \in Model \cup {NoModel} : Select(p, m)
    \/ \E refused \in BOOLEAN, keys \in SUBSET {"ai", "mode"} :
        \E fields \in [keys -> AIProvider \cup Mode] :
            /\ "ai" \in keys => fields.ai \in AIProvider
            /\ "mode" \in keys => fields.mode \in Mode
            /\ Configure(fields, refused)
    \/ \E e \in Entry : AutoSelect(e)
    \/ \E e \in Entry, good \in BOOLEAN : Feedback(e, good)
    \/ \E c \in Checker, e \in Entry : VerifyStart(c, e)

RequestStep(q) ==
    \/ Route(q) \/ ManualFails(q)
    \/ \E good \in BOOLEAN : Answered(q, good)
    \/ \E lost \in BOOLEAN : Fails(q, lost)

CheckStep(c) == RunTest(c) \/ VerifyEnds(c)

Next ==
    \/ Boot \/ Crash \/ LookEnds \/ NetworkChanges
    \/ UserStep
    \/ \E job \in saves : SaveCommits(job) \/ SaveFails(job)
    \/ \E q \in Request : RequestStep(q)
    \/ \E c \in Checker : CheckStep(c)

Spec == Init /\ [][Next]_vars

-----------------------------------------------------------------------------
(* Properties.                                                             *)

\* What a process holds of the user's choice.
Held == [ai |-> ai, mode |-> mode, provider |-> sel[1], model |-> sel[2]]

\* What a process holds of the user's choice is what the next one will load,
\* once every write has ended, unless a write failed, two of the same setting
\* overlapped, a configuration was refused half-way, the process chose by itself,
\* or it could not restore the choice when it started.
SettledIsSaved ==
    running /\ saves = {} /\ ~astray => Held = Loaded

\* A configuration that changes the provider mode of the process writes it to the
\* database ("Update provider configuration. FASE X: persists to database"): the
\* code does not keep it when the routing mode of the same call is refused.
ConfigurationIsSaved ==
    [][running /\ running' /\ ai' # ai =>
          \E job \in saves' : "ai" \in DOMAIN job /\ job.ai = ai']_vars

\* A model that failed too often, and has not been verified since, is neither
\* offered to a request that fails over nor chosen for a task, wherever its
\* failures came from and however many successes or checks lie between them.
CondemnedIsOut ==
    \A e \in registered :
        Condemnable(wins[e], losses[e]) /\ ~cleared[e] =>
            /\ status[e] \in {"failed", "checking"}
            /\ e \notin Scoring \cup Offers(NoEntry, {}, <<>>)

\* A model that could pass every test.
Capable(m) == \A i \in 1 .. Len(Tests) : \E r \in Replies[m][Tests[i]] : Passes(Tests[i], r)

\* A model counts as verified only if it can pass every test, provided that the
\* tests were put to it and not to another model of the same instance.
HonestVerdict ==
    \A e \in registered : status[e] = "verified" /\ candid[e] => Capable(e[2])

\* A model counts as verified only if it can pass every test ("A model is only
\* VERIFIED after passing real compatibility tests"): the code does not keep it, as
\* the tests are put to whatever model the instance has.
VerifiedIsCapable == \A e \in registered : status[e] = "verified" => Capable(e[2])

\* In manual mode a request runs on the provider the user selected or not at all:
\* once the mode and a selection are saved, no request is routed without one.
ManualIsNeverReplaced ==
    [][\A q \in Request :
        (/\ mode = "manual" /\ Loaded.mode = "manual" /\ Loaded.provider # NoProvider
         /\ prov[q] = NoProvider /\ prov'[q] # NoProvider) => sel[1] # NoProvider]_vars

-----------------------------------------------------------------------------
(* The inductive invariants behind these properties.                       *)

Key == {"ai", "mode", "provider", "model"}

\* A part of the settings; the provider and its model are written together.
IsSetting(f) ==
    /\ DOMAIN f \subseteq Key
    /\ "ai" \in DOMAIN f => f["ai"] \in AIProvider
    /\ "mode" \in DOMAIN f => f["mode"] \in Mode
    /\ "provider" \in DOMAIN f => f["provider"] \in Provider
    /\ "model" \in DOMAIN f => f["model"] \in Model \cup {NoModel}
    /\ "provider" \in DOMAIN f <=> "model" \in DOMAIN f

\* A write under way carries what the process holds, and of all that no write
\* under way carries the database has it.
SavedInv ==
    /\ IsSetting(db)
    /\ \A job \in saves : IsSetting(job)
    /\ ~running => saves = {}
    /\ running /\ ~astray => \A key \in Key :
          /\ \A job \in saves : key \in DOMAIN job => job[key] = Held[key]
          /\ (\A job \in saves : key \notin DOMAIN job) => Held[key] = Loaded[key]

\* A failure is the only thing that can make it too many, and it condemns.
RatingInv ==
    \A e \in Entry :
        Condemnable(wins[e], losses[e]) /\ ~cleared[e] => status[e] \in {"failed", "checking"}

\* The first n tests can be passed by a model.
PassesFirst(m, n) ==
    \A i \in 1 .. n : \E r \in Replies[m][Tests[i]] : Passes(Tests[i], r)

\* As long as all tests were passed by the entry's own model, it can pass them;
\* and so it can when they were all passed.
CheckInv ==
    /\ \A c \in Checker : check[c] # NoCheck =>
          /\ check[c].passed < check[c].next
          /\ check[c].own /\ check[c].passed = check[c].next - 1 =>
                PassesFirst(check[c].entry[2], check[c].next - 1)
    /\ \A e \in Entry : status[e] = "verified" /\ candid[e] => PassesFirst(e[2], Len(Tests))

DeskInv == TypeOK /\ SavedInv /\ RatingInv /\ CheckInv
=============================================================================
