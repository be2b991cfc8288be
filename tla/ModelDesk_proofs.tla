-------------------------- MODULE ModelDesk_proofs --------------------------
(***************************************************************************)
(* For all models, tests, replies, settings and thresholds, and however    *)
(* much happens: DeskInv is inductive, so the choice of the user is saved  *)
(* unless something has parted it from the database, condemned models are  *)
(* out, and verdicts are honest.                                           *)
(***************************************************************************)
EXTENDS ModelDesk, TLAPS

StatusTypes ==
    /\ status \in [Entry -> Status]
    /\ wins \in [Entry -> Nat] /\ losses \in [Entry -> Nat]
    /\ cleared \in [Entry -> BOOLEAN]

\* What is loaded is typed if what is saved is: load_settings over the defaults
\* of ProviderSettings.
LEMMA LoadedIsTyped ==
    ASSUME IsSetting(db)
    PROVE  /\ Loaded["ai"] \in AIProvider /\ Loaded["mode"] \in Mode
           /\ Loaded["provider"] \in Provider \cup {NoProvider}
           /\ Loaded["model"] \in Model \cup {NoModel}
           /\ Loaded["provider"] = NoProvider => Loaded["model"] = NoModel
<1>1. \A k \in Key : k \in DOMAIN Default
    BY DEF Key, Default
<1>2. \A k \in Key : Loaded[k] = IF k \in DOMAIN db THEN db[k] ELSE Default[k]
    BY <1>1 DEF Loaded, Over
<1> QED
    BY <1>2, DeskAssumption DEF Key, Default, IsSetting, Mode

\* Assigning a selected model keeps the models of the instances typed:
\* select_provider.
LEMMA SelectedIsTyped ==
    ASSUME NEW models \in [Provider -> Model], NEW p, NEW m \in Model \cup {NoModel}
    PROVE  Selected(models, p, m) \in [Provider -> Model]
BY DEF Selected

\* The instances start with typed models: the look at what Ollama has installed.
LEMMA StartModelsAreTyped ==
    ASSUME NEW found, NEW provider, NEW models \in StartModels(found, provider)
    PROVE  models \in [Provider -> Model]
<1>1. Configured \in [Provider -> Model]
    BY DeskAssumption
<1>2. \/ models = Configured
      \/ \E m \in Model : models = [Configured EXCEPT !["ollama"] = m]
    BY DEF StartModels
<1> QED
    BY <1>1, <1>2

\* Recording a success or a failure keeps the ratings typed: record_success
\* and record_failure.
LEMMA RecordedIsTyped ==
    ASSUME TypeOK, NEW e, NEW good, Recorded(e, good)
    PROVE  StatusTypes'
<1>1. StatusTypes /\ registered \subseteq Entry
    BY DEF TypeOK, StatusTypes
<1>2. \/ UNCHANGED <<status, wins, losses, cleared>>
      \/ e \in registered /\ Won(e)
      \/ e \in registered /\ Lost(e)
    BY DEF Recorded
<1>3. CASE UNCHANGED <<status, wins, losses, cleared>>
    BY <1>1, <1>3 DEF StatusTypes
<1>4. CASE e \in registered /\ Won(e)
    BY <1>1, <1>4 DEF StatusTypes, Won
<1>5. CASE e \in registered /\ Lost(e)
    BY <1>1, <1>5 DEF StatusTypes, Lost, Status
<1> QED
    BY <1>2, <1>3, <1>4, <1>5

\* The candidates are entries of the registry: _get_candidates.
LEMMA CandidatesAreEntries == TypeOK => Candidates \subseteq Entry
BY DEF TypeOK, Candidates, Verified

-----------------------------------------------------------------------------

\* In the beginning DeskInv holds.
LEMMA DeskStarts == Init => DeskInv
<1> SUFFICES ASSUME Init PROVE DeskInv
    OBVIOUS
<1> USE DeskAssumption
<1>1. TypeOK
    <2>1. /\ failures \in Seq(Provider \X Model) /\ Len(failures) <= Window
        BY DEF Init
    <2>2. /\ status \in [Entry -> Status] /\ wins \in [Entry -> Nat]
          /\ losses \in [Entry -> Nat]
          /\ candid \in [Entry -> BOOLEAN] /\ cleared \in [Entry -> BOOLEAN]
        BY DEF Init, Status
    <2>3. /\ ai \in AIProvider /\ mode \in Mode
          /\ sel \in (Provider \cup {NoProvider}) \X (Model \cup {NoModel})
          /\ registered \subseteq Entry /\ model \in [Provider -> Model]
          /\ online \in {"unasked", "online", "offline"}
        BY DEF Init, Mode
    <2>4. /\ check \in [Checker -> {NoCheck} \cup [entry : Entry, next : 1 .. Len(Tests) + 1,
                                                   passed : Nat, own : BOOLEAN]]
          /\ prov \in [Request -> Provider \cup {NoProvider, "deterministic"}]
          /\ blocked \in [Request -> SUBSET Provider]
        BY DEF Init
    <2>5. running \in BOOLEAN /\ network \in BOOLEAN /\ astray \in BOOLEAN
        BY DEF Init
    <2>6. steps \in 0 .. MaxSteps
        BY DEF Init
    <2> QED
        BY <2>1, <2>2, <2>3, <2>4, <2>5, <2>6 DEF TypeOK
<1>2. SavedInv
    <2>1. DOMAIN db = {}
        BY DEF Init
    <2> QED
        BY <2>1 DEF Init, SavedInv, IsSetting, Key
<1>3. RatingInv
    BY DEF Init, RatingInv, Condemnable
<1>4. CheckInv
    BY DEF Init, CheckInv
<1> QED
    BY <1>1, <1>2, <1>3, <1>4 DEF DeskInv

-----------------------------------------------------------------------------
(* Types.                                                                  *)

\* The types of what is not a rating, a verification or a count of steps.
ChoiceTypes ==
    /\ running \in BOOLEAN /\ network \in BOOLEAN /\ astray \in BOOLEAN
    /\ ai \in AIProvider /\ mode \in Mode
    /\ sel \in (Provider \cup {NoProvider}) \X (Model \cup {NoModel})
    /\ registered \subseteq Entry
    /\ model \in [Provider -> Model]
    /\ online \in {"unasked", "online", "offline"}

\* The types of the failures and of the requests.
RequestTypes ==
    /\ failures \in Seq(Provider \X Model) /\ Len(failures) <= Window
    /\ prov \in [Request -> Provider \cup {NoProvider, "deterministic"}]
    /\ blocked \in [Request -> SUBSET Provider]

\* The types of the verifications.
CheckTypes ==
    /\ check \in [Checker -> {NoCheck} \cup [entry : Entry, next : 1 .. Len(Tests) + 1,
                                             passed : Nat, own : BOOLEAN]]
    /\ candid \in [Entry -> BOOLEAN]

\* TypeOK in parts, now and in the next state.
LEMMA TypesInParts ==
    /\ TypeOK <=> /\ ChoiceTypes /\ StatusTypes /\ RequestTypes /\ CheckTypes
                  /\ steps \in 0 .. MaxSteps
    /\ TypeOK' <=> /\ ChoiceTypes' /\ StatusTypes' /\ RequestTypes' /\ CheckTypes'
                   /\ steps' \in 0 .. MaxSteps
BY DEF TypeOK, ChoiceTypes, StatusTypes, RequestTypes, CheckTypes

\* The count of steps keeps within its bound.
LEMMA StepsAreBounded ==
    ASSUME TypeOK, Happens \/ UNCHANGED steps
    PROVE  steps' \in 0 .. MaxSteps
BY DeskAssumption DEF TypeOK, Happens

\* Parts of the state that a step leaves alone keep their types.
LEMMA UnchangedTypes ==
    ASSUME TypeOK
    PROVE  /\ UNCHANGED <<running, network, astray, ai, mode, sel, registered, model, online>>
                 => ChoiceTypes'
           /\ UNCHANGED <<status, wins, losses, cleared>> => StatusTypes'
           /\ UNCHANGED <<failures, prov, blocked>> => RequestTypes'
           /\ UNCHANGED <<check, candid>> => CheckTypes'
BY DEF TypeOK, ChoiceTypes, StatusTypes, RequestTypes, CheckTypes

\* The start of a process and its death keep the types: the lifespan of the
\* application.
LEMMA ProcessKeepsTypes ==
    ASSUME TypeOK, SavedInv, Boot \/ Crash \/ LookEnds \/ NetworkChanges
    PROVE  TypeOK'
<1> USE DeskAssumption
<1>1. CASE Boot
    <2> DEFINE settings(readable) == IF readable THEN Loaded ELSE [Default EXCEPT !.ai = Environment]
    <2>1. PICK readable \in Reading, found \in Discoveries :
            LET restored == Selectable(settings(readable).provider, settings(readable).model, found)
            IN /\ registered' = found
               /\ ai' = settings(readable).ai
               /\ mode' = settings(readable).mode
               /\ sel' = IF restored
                         THEN <<settings(readable).provider, settings(readable).model>>
                         ELSE <<NoProvider, NoModel>>
               /\ \E models \in StartModels(found, settings(readable).ai) :
                    model' = IF restored
                             THEN Selected(models, settings(readable).provider,
                                           settings(readable).model)
                             ELSE models
               /\ astray' = (~readable \/ (settings(readable).provider # NoProvider /\ ~restored))
        BY <1>1 DEF Boot
    <2>2. /\ settings(readable).ai \in AIProvider /\ settings(readable).mode \in Mode
          /\ settings(readable).provider \in Provider \cup {NoProvider}
          /\ settings(readable).model \in Model \cup {NoModel}
        <3>1. CASE readable
            BY <3>1, LoadedIsTyped DEF SavedInv
        <3>2. CASE ~readable
            BY <3>2 DEF Default, Mode
        <3> QED
            BY <3>1, <3>2
    <2>3. \A models \in StartModels(found, settings(readable).ai) : models \in [Provider -> Model]
        BY StartModelsAreTyped
    <2> HIDE DEF settings
    <2>4. model' \in [Provider -> Model]
        BY <2>1, <2>2, <2>3, SelectedIsTyped
    <2>5. sel' \in (Provider \cup {NoProvider}) \X (Model \cup {NoModel})
        BY <2>1, <2>2
    <2>6. registered' \subseteq Entry
        BY <2>1 DEF Discoveries
    <2>7. ChoiceTypes'
        BY <1>1, <2>1, <2>2, <2>4, <2>5, <2>6 DEF Boot, ChoiceTypes, TypeOK
    <2> QED
        BY <1>1, <2>7, UnchangedTypes, StepsAreBounded, TypesInParts DEF Boot, requests
<1>2. CASE Crash
    <2>1. ChoiceTypes'
        BY <1>2 DEF Crash, Forgotten, ChoiceTypes, TypeOK, Mode
    <2>2. StatusTypes'
        BY <1>2 DEF Crash, Forgotten, StatusTypes, Status
    <2>3. RequestTypes'
        BY <1>2 DEF Crash, Forgotten, RequestTypes
    <2>4. CheckTypes'
        BY <1>2 DEF Crash, Forgotten, CheckTypes
    <2> QED
        BY <1>2, <2>1, <2>2, <2>3, <2>4, StepsAreBounded, TypesInParts DEF Crash
<1>3. CASE LookEnds
    <2>1. ChoiceTypes'
        BY <1>3 DEF LookEnds, ChoiceTypes, TypeOK, choice, registry
    <2> QED
        BY <1>3, <2>1, UnchangedTypes, StepsAreBounded, TypesInParts
           DEF LookEnds, registry, requests
<1>4. CASE NetworkChanges
    <2>1. ChoiceTypes'
        BY <1>4 DEF NetworkChanges, ChoiceTypes, TypeOK, choice, registry
    <2> QED
        BY <1>4, <2>1, UnchangedTypes, StepsAreBounded, TypesInParts
           DEF NetworkChanges, registry, requests
<1> QED
    BY <1>1, <1>2, <1>3, <1>4

\* What users do keeps the types: the endpoints of the models and of the
\* configuration.
LEMMA UserKeepsTypes ==
    ASSUME TypeOK, SavedInv, UserStep
    PROVE  TypeOK'
<1> USE DeskAssumption
<1>1. ASSUME NEW p \in Provider, NEW m \in Model \cup {NoModel}, Select(p, m)
      PROVE  TypeOK'
    <2>1. sel' \in (Provider \cup {NoProvider}) \X (Model \cup {NoModel})
        BY <1>1 DEF Select, Choose
    <2>2. model' \in [Provider -> Model]
        BY <1>1, SelectedIsTyped DEF Select, Choose, TypeOK
    <2>3. astray' \in BOOLEAN
        BY <1>1 DEF Select, Save, TypeOK
    <2>4. ChoiceTypes'
        BY <1>1, <2>1, <2>2, <2>3 DEF Select, ChoiceTypes, TypeOK, registry
    <2> QED
        BY <1>1, <2>4, UnchangedTypes, StepsAreBounded, TypesInParts
           DEF Select, registry, requests
<1>2. ASSUME NEW refused \in BOOLEAN, NEW keys \in SUBSET {"ai", "mode"},
             NEW fields \in [keys -> AIProvider \cup Mode],
             "ai" \in keys => fields.ai \in AIProvider,
             "mode" \in keys => fields.mode \in Mode,
             Configure(fields, refused)
      PROVE  TypeOK'
    <2>1. ai' \in AIProvider /\ mode' \in Mode
        BY <1>2 DEF Configure, TypeOK
    <2>2. astray' \in BOOLEAN
        BY <1>2 DEF Configure, Save, TypeOK
    <2>3. ChoiceTypes'
        BY <1>2, <2>1, <2>2 DEF Configure, ChoiceTypes, TypeOK, registry
    <2> QED
        BY <1>2, <2>3, UnchangedTypes, StepsAreBounded, TypesInParts
           DEF Configure, registry, requests
<1>3. ASSUME NEW e \in Entry, AutoSelect(e) PROVE TypeOK'
    <2>1. e[1] \in Provider /\ e[2] \in Model
        OBVIOUS
    <2>2. sel' \in (Provider \cup {NoProvider}) \X (Model \cup {NoModel})
        BY <1>3, <2>1 DEF AutoSelect, Choose
    <2>3. model' \in [Provider -> Model]
        BY <1>3, <2>1, SelectedIsTyped DEF AutoSelect, Choose, TypeOK
    <2>4. ChoiceTypes'
        BY <1>3, <2>2, <2>3 DEF AutoSelect, ChoiceTypes, TypeOK, registry
    <2> QED
        BY <1>3, <2>4, UnchangedTypes, StepsAreBounded, TypesInParts
           DEF AutoSelect, registry, requests
<1>4. ASSUME NEW e \in Entry, NEW good \in BOOLEAN, Feedback(e, good) PROVE TypeOK'
    BY <1>4, RecordedIsTyped, UnchangedTypes, StepsAreBounded, TypesInParts
       DEF Feedback, choice, requests
<1>5. ASSUME NEW c \in Checker, NEW e \in Entry, VerifyStart(c, e) PROVE TypeOK'
    <2>1. registered' \subseteq Entry
        BY <1>5 DEF VerifyStart, Register, TypeOK
    <2>2. ChoiceTypes'
        BY <1>5, <2>1 DEF VerifyStart, ChoiceTypes, TypeOK, choice
    <2>3. StatusTypes'
        BY <1>5 DEF VerifyStart, StatusTypes, TypeOK, Status
    <2>4. CheckTypes'
        BY <1>5 DEF VerifyStart, CheckTypes, TypeOK
    <2> QED
        BY <1>5, <2>2, <2>3, <2>4, UnchangedTypes, StepsAreBounded, TypesInParts
           DEF VerifyStart, requests
<1> QED
    BY <1>1, <1>2, <1>3, <1>4, <1>5 DEF UserStep

\* What becomes of a write keeps the types: update_settings behind its await.
LEMMA SaveKeepsTypes ==
    ASSUME TypeOK, NEW job \in saves, SaveCommits(job) \/ SaveFails(job)
    PROVE  TypeOK'
<1>1. CASE SaveCommits(job)
    BY <1>1, UnchangedTypes, StepsAreBounded, TypesInParts
       DEF SaveCommits, choice, registry, requests
<1>2. CASE SaveFails(job)
    <2>1. ChoiceTypes'
        BY <1>2 DEF SaveFails, ChoiceTypes, TypeOK, choice, registry
    <2> QED
        BY <1>2, <2>1, UnchangedTypes, StepsAreBounded, TypesInParts
           DEF SaveFails, registry, requests
<1> QED
    BY <1>1, <1>2

\* What requests do keeps the types: the calls of the loop and its fallbacks.
LEMMA RequestKeepsTypes ==
    ASSUME TypeOK, NEW q \in Request, RequestStep(q)
    PROVE  TypeOK'
<1> USE DeskAssumption
<1>0. ASSUME RequestEnds(q)
      PROVE  /\ prov' \in [Request -> Provider \cup {NoProvider, "deterministic"}]
             /\ blocked' \in [Request -> SUBSET Provider]
    BY <1>0 DEF RequestEnds, TypeOK
<1>1. CASE Route(q)
    <2>1. Instance \in Provider \cup {NoProvider, "deterministic"}
        BY DEF Instance, AutoProvider, TypeOK
    <2>2. prov' \in [Request -> Provider \cup {NoProvider, "deterministic"}]
        BY <1>1, <2>1 DEF Route, TypeOK
    <2>3. sel[2] \in Model \cup {NoModel} /\ model \in [Provider -> Model]
        BY DEF TypeOK
    <2>4. model' \in [Provider -> Model]
        BY <1>1, <2>3, SelectedIsTyped DEF Route
    <2>5. ChoiceTypes' /\ RequestTypes'
        BY <1>1, <2>2, <2>4 DEF Route, ChoiceTypes, RequestTypes, TypeOK, choice, registry
    <2> QED
        BY <1>1, <2>5, UnchangedTypes, StepsAreBounded, TypesInParts DEF Route, registry
<1>2. CASE ManualFails(q)
    <2>1. RequestTypes'
        BY <1>0, <1>2 DEF ManualFails, RequestTypes, TypeOK
    <2> QED
        BY <1>2, <2>1, UnchangedTypes, StepsAreBounded, TypesInParts
           DEF ManualFails, choice, registry
<1>3. ASSUME NEW good \in BOOLEAN, Answered(q, good) PROVE TypeOK'
    <2>1. RequestTypes'
        BY <1>0, <1>3 DEF Answered, RequestTypes, TypeOK
    <2>2. StatusTypes'
        BY <1>3, RecordedIsTyped, UnchangedTypes DEF Answered
    <2> QED
        BY <1>3, <2>1, <2>2, UnchangedTypes, StepsAreBounded, TypesInParts
           DEF Answered, choice
<1>4. ASSUME NEW lost \in BOOLEAN, Fails(q, lost) PROVE TypeOK'
    <2> DEFINE failed == <<prov[q], model[prov[q]]>>
               shut == IF lost THEN blocked[q] \cup {prov[q]} ELSE blocked[q]
               offers == Offers(failed, shut, failures')
    <2>1. /\ prov[q] \in Provider /\ Happens
          /\ failures' = Append(IF Len(failures) < Window THEN failures ELSE Tail(failures),
                                failed)
          /\ \/ \E e \in offers :
                   /\ prov' = [prov EXCEPT ![q] = e[1]]
                   /\ blocked' = [blocked EXCEPT ![q] = shut]
                   /\ model' = [model EXCEPT ![e[1]] = e[2]]
                   /\ Recorded(failed, FALSE)
             \/ /\ RequestEnds(q)
                /\ UNCHANGED <<model, status, wins, losses, cleared>>
          /\ UNCHANGED <<running, saved, choice, registered, network, online, check, astray,
                         candid>>
        BY <1>4 DEF Fails
    <2>2. failed \in Provider \X Model /\ shut \subseteq Provider
        BY <2>1 DEF TypeOK
    <2>3. offers \subseteq Entry
        BY CandidatesAreEntries DEF Offers
    <2> HIDE DEF failed, shut, offers
    <2>4. failures' \in Seq(Provider \X Model) /\ Len(failures') <= Window
        <3>1. /\ failures \in Seq(Provider \X Model) /\ Len(failures) <= Window
              /\ Window \in Nat \ {0}
            BY DEF TypeOK
        <3> QED
            BY <2>1, <2>2, <3>1
    <2>5. /\ prov' \in [Request -> Provider \cup {NoProvider, "deterministic"}]
          /\ blocked' \in [Request -> SUBSET Provider]
          /\ model' \in [Provider -> Model]
          /\ StatusTypes'
        <3>1. CASE RequestEnds(q) /\ UNCHANGED <<model, status, wins, losses, cleared>>
            BY <1>0, <3>1, UnchangedTypes DEF TypeOK
        <3>2. ASSUME NEW e \in offers, prov' = [prov EXCEPT ![q] = e[1]],
                     blocked' = [blocked EXCEPT ![q] = shut],
                     model' = [model EXCEPT ![e[1]] = e[2]], Recorded(failed, FALSE)
              PROVE  /\ prov' \in [Request -> Provider \cup {NoProvider, "deterministic"}]
                     /\ blocked' \in [Request -> SUBSET Provider]
                     /\ model' \in [Provider -> Model]
                     /\ StatusTypes'
            <4>1. e[1] \in Provider /\ e[2] \in Model
                BY <2>3
            <4> QED
                BY <2>2, <3>2, <4>1, RecordedIsTyped DEF TypeOK
        <3> QED
            BY <2>1, <3>1, <3>2
    <2>6. ChoiceTypes' /\ RequestTypes'
        BY <2>1, <2>4, <2>5 DEF ChoiceTypes, RequestTypes, TypeOK, choice
    <2> QED
        BY <2>1, <2>5, <2>6, UnchangedTypes, StepsAreBounded, TypesInParts
<1> QED
    BY <1>1, <1>2, <1>3, <1>4 DEF RequestStep

\* What verifications do keeps the types: the capability verifier.
LEMMA CheckKeepsTypes ==
    ASSUME TypeOK, NEW c \in Checker, CheckStep(c)
    PROVE  TypeOK'
<1> USE DeskAssumption
<1>1. check[c] # NoCheck =>
        check[c] \in [entry : Entry, next : 1 .. Len(Tests) + 1, passed : Nat, own : BOOLEAN]
    BY DEF TypeOK
<1>2. CASE RunTest(c)
    <2>1. /\ check[c] # NoCheck /\ check[c].next <= Len(Tests)
          /\ \E n \in {0, 1} :
               check' = [check EXCEPT ![c] =
                           [entry |-> check[c].entry, next |-> check[c].next + 1,
                            passed |-> check[c].passed + n,
                            own |-> check[c].own
                                    /\ model[check[c].entry[1]] = check[c].entry[2]]]
          /\ UNCHANGED <<running, saved, choice, registry, model, failures, network, online,
                         requests, steps, astray, candid, cleared>>
        BY <1>2 DEF RunTest
    <2>2. CheckTypes'
        <3> DEFINE mine == check[c].own /\ model[check[c].entry[1]] = check[c].entry[2]
        <3>1. PICK n \in {0, 1} :
                check' = [check EXCEPT ![c] =
                            [entry |-> check[c].entry, next |-> check[c].next + 1,
                             passed |-> check[c].passed + n, own |-> mine]]
            BY <2>1, Zenon
        <3>2. mine \in BOOLEAN
            OBVIOUS
        <3>3. Len(Tests) \in Nat
            OBVIOUS
        <3> HIDE DEF mine
        <3>4. [entry |-> check[c].entry, next |-> check[c].next + 1,
               passed |-> check[c].passed + n, own |-> mine]
                \in [entry : Entry, next : 1 .. Len(Tests) + 1, passed : Nat, own : BOOLEAN]
            BY <1>1, <2>1, <3>2, <3>3
        <3> QED
            BY <2>1, <3>1, <3>4 DEF CheckTypes, TypeOK
    <2> QED
        BY <2>1, <2>2, UnchangedTypes, StepsAreBounded, TypesInParts
           DEF choice, registry, requests
<1>3. CASE VerifyEnds(c)
    <2>1. /\ check[c] # NoCheck
          /\ status' = [status EXCEPT ![check[c].entry] = Verdict(check[c].passed)]
          /\ check' = [check EXCEPT ![c] = NoCheck]
          /\ candid' = [candid EXCEPT ![check[c].entry] = check[c].own]
          /\ cleared' = [cleared EXCEPT ![check[c].entry] = TRUE]
          /\ UNCHANGED <<running, saved, choice, registered, wins, losses, model, failures,
                         network, online, requests, steps, astray>>
        BY <1>3 DEF VerifyEnds
    <2>2. Verdict(check[c].passed) \in Status
        BY DEF Verdict, Status
    <2>3. StatusTypes'
        BY <2>1, <2>2 DEF StatusTypes, TypeOK
    <2>4. CheckTypes'
        BY <1>1, <2>1 DEF CheckTypes, TypeOK
    <2> QED
        BY <2>1, <2>3, <2>4, UnchangedTypes, StepsAreBounded, TypesInParts
           DEF choice, requests
<1> QED
    BY <1>2, <1>3 DEF CheckStep

\* Every step keeps the types.
LEMMA StepKeepsTypes ==
    ASSUME TypeOK, SavedInv, [Next]_vars
    PROVE  TypeOK'
<1>1. CASE UNCHANGED vars
    BY <1>1, UnchangedTypes, StepsAreBounded, TypesInParts
       DEF vars, choice, registry, requests
<1> QED
    BY <1>1, ProcessKeepsTypes, UserKeepsTypes, SaveKeepsTypes, RequestKeepsTypes,
       CheckKeepsTypes DEF Next

-----------------------------------------------------------------------------
(* What is rated.                                                          *)

\* A success makes no failures too many, and a failure that does condemns:
\* record_success and record_failure.
LEMMA RecordedKeepsRating ==
    ASSUME TypeOK, RatingInv, NEW e, NEW good, Recorded(e, good)
    PROVE  RatingInv'
<1>1. registered \subseteq Entry /\ StatusTypes
    BY DEF TypeOK, StatusTypes
<1>2. CASE UNCHANGED <<status, wins, losses, cleared>>
    BY <1>2 DEF RatingInv
<1>3. CASE e \in registered /\ Won(e)
    <2>1. ASSUME NEW x \in Entry, Condemnable(wins'[x], losses'[x])
          PROVE  Condemnable(wins[x], losses[x])
        <3>1. wins[x] \in Nat /\ losses[x] \in Nat /\ losses'[x] = losses[x]
              /\ (wins'[x] = wins[x] \/ wins'[x] = wins[x] + 1)
            BY <1>1, <1>3 DEF Won, StatusTypes
        <3> QED
            BY <2>1, <3>1 DEF Condemnable
    <2> QED
        BY <1>3, <2>1 DEF Won, RatingInv
<1>4. CASE e \in registered /\ Lost(e)
    <2>1. CASE CondemnedAt(e)
        BY <1>1, <1>4, <2>1 DEF Lost, RatingInv, StatusTypes
    <2>2. CASE ~CondemnedAt(e)
        <3>1. ~Condemnable(wins'[e], losses'[e])
            BY <1>1, <1>4, <2>2 DEF Lost, CondemnedAt, StatusTypes
        <3> QED
            BY <1>1, <1>4, <2>2, <3>1 DEF Lost, RatingInv, StatusTypes
    <2> QED
        BY <2>1, <2>2
<1> QED
    BY <1>2, <1>3, <1>4 DEF Recorded

\* Every step keeps RatingInv: only a verification clears an entry.
LEMMA StepKeepsRating ==
    ASSUME TypeOK, RatingInv, [Next]_vars
    PROVE  RatingInv'
<1>1. ASSUME UNCHANGED <<status, wins, losses, cleared>> PROVE RatingInv'
    BY <1>1 DEF RatingInv
<1>2. CASE Boot \/ LookEnds \/ NetworkChanges
    BY <1>1, <1>2 DEF Boot, LookEnds, NetworkChanges, registry
<1>3. CASE Crash
    BY <1>3, DeskAssumption DEF Crash, Forgotten, RatingInv, Condemnable
<1>4. CASE UserStep
    <2>1. ASSUME NEW e, NEW good, Feedback(e, good) PROVE RatingInv'
        BY <2>1, RecordedKeepsRating DEF Feedback
    <2>2. ASSUME NEW c, NEW e \in Entry, VerifyStart(c, e) PROVE RatingInv'
        <3>1. /\ status' = [status EXCEPT ![e] = "checking"]
              /\ UNCHANGED <<wins, losses, cleared>>
            BY <2>2 DEF VerifyStart
        <3> QED
            BY <3>1 DEF RatingInv, TypeOK
    <2>3. ASSUME NEW p, NEW m, Select(p, m) PROVE RatingInv'
        BY <1>1, <2>3 DEF Select, registry
    <2>4. ASSUME NEW fields, NEW refused, Configure(fields, refused) PROVE RatingInv'
        BY <1>1, <2>4 DEF Configure, registry
    <2>5. ASSUME NEW e, AutoSelect(e) PROVE RatingInv'
        BY <1>1, <2>5 DEF AutoSelect, registry
    <2> QED
        BY <1>4, <2>1, <2>2, <2>3, <2>4, <2>5 DEF UserStep
<1>5. ASSUME NEW job \in saves, SaveCommits(job) \/ SaveFails(job) PROVE RatingInv'
    BY <1>1, <1>5 DEF SaveCommits, SaveFails, registry
<1>6. ASSUME NEW q \in Request, RequestStep(q) PROVE RatingInv'
    <2>1. CASE Route(q) \/ ManualFails(q)
        BY <1>1, <2>1 DEF Route, ManualFails, registry
    <2>2. ASSUME NEW good, Answered(q, good) PROVE RatingInv'
        BY <1>1, <2>2, RecordedKeepsRating DEF Answered
    <2>3. ASSUME NEW lost, Fails(q, lost) PROVE RatingInv'
        <3>1. \/ Recorded(<<prov[q], model[prov[q]]>>, FALSE)
              \/ UNCHANGED <<status, wins, losses, cleared>>
            BY <2>3 DEF Fails
        <3> QED
            BY <1>1, <3>1, RecordedKeepsRating
    <2> QED
        BY <1>6, <2>1, <2>2, <2>3 DEF RequestStep
<1>7. ASSUME NEW c \in Checker, CheckStep(c) PROVE RatingInv'
    <2>1. CASE RunTest(c)
        BY <1>1, <2>1 DEF RunTest, registry
    <2>2. CASE VerifyEnds(c)
        <3>1. /\ check[c] # NoCheck
              /\ status' = [status EXCEPT ![check[c].entry] = Verdict(check[c].passed)]
              /\ cleared' = [cleared EXCEPT ![check[c].entry] = TRUE]
              /\ UNCHANGED <<wins, losses>>
            BY <2>2 DEF VerifyEnds
        <3>2. check[c].entry \in Entry
            BY <1>7, <3>1 DEF TypeOK
        <3> QED
            BY <3>1, <3>2 DEF RatingInv, TypeOK
    <2> QED
        BY <1>7, <2>1, <2>2 DEF CheckStep
<1>8. CASE UNCHANGED vars
    BY <1>1, <1>8 DEF vars, registry
<1> QED
    BY <1>2, <1>3, <1>4, <1>5, <1>6, <1>7, <1>8 DEF Next

-----------------------------------------------------------------------------
(* What is verified.                                                       *)

\* A recorded result verifies nothing.
LEMMA RecordedVerifiesNothing ==
    ASSUME TypeOK, NEW e, NEW good, Recorded(e, good), NEW x \in Entry,
           status'[x] = "verified"
    PROVE  status[x] = "verified"
<1>1. registered \subseteq Entry /\ status \in [Entry -> Status]
    BY DEF TypeOK
<1> QED
    BY <1>1 DEF Recorded, Won, Lost

\* Every step keeps CheckInv: the tests count one after the other, and a
\* verdict is reached behind the last.
LEMMA StepKeepsCheck ==
    ASSUME TypeOK, CheckInv, [Next]_vars
    PROVE  CheckInv'
<1> DEFINE Honest == \A e \in Entry :
                        status[e] = "verified" /\ candid[e] => PassesFirst(e[2], Len(Tests))
           Counted(c) == check[c] # NoCheck =>
                /\ check[c].passed < check[c].next
                /\ check[c].own /\ check[c].passed = check[c].next - 1 =>
                      PassesFirst(check[c].entry[2], check[c].next - 1)
<1>0. /\ CheckInv <=> (\A c \in Checker : Counted(c)) /\ Honest
      /\ CheckInv' <=> (\A c \in Checker : Counted(c)') /\ Honest'
    BY DEF CheckInv
<1>1. ASSUME UNCHANGED <<check, candid>>,
             \A x \in Entry : status'[x] = "verified" => status[x] = "verified"
      PROVE  CheckInv'
    BY <1>1 DEF CheckInv, PassesFirst, Passes, Answers, Summarises, NamesItself, SaysSo,
                CallsTool, MakesFile, ChangesFile
<1>2. ASSUME UNCHANGED <<check, candid, status>> PROVE CheckInv'
    BY <1>1, <1>2
<1>3. CASE Boot \/ LookEnds \/ NetworkChanges
    BY <1>2, <1>3 DEF Boot, LookEnds, NetworkChanges, registry
<1>4. CASE Crash
    BY <1>4 DEF Crash, Forgotten, CheckInv
<1>5. CASE UserStep
    <2>1. ASSUME NEW e, NEW good, Feedback(e, good) PROVE CheckInv'
        BY <1>1, <2>1, RecordedVerifiesNothing DEF Feedback
    <2>2. ASSUME NEW c \in Checker, NEW e \in Entry, VerifyStart(c, e) PROVE CheckInv'
        <3>1. /\ status' = [status EXCEPT ![e] = "checking"]
              /\ check' = [check EXCEPT ![c] = [entry |-> e, next |-> 1, passed |-> 0,
                                                own |-> TRUE]]
              /\ UNCHANGED candid
            BY <2>2 DEF VerifyStart
        <3>2. Honest'
            BY <1>0, <3>1 DEF TypeOK, PassesFirst
        <3>3. ASSUME NEW x \in Checker PROVE Counted(x)'
            <4>1. CASE x = c
                <5>1. check'[x] = [entry |-> e, next |-> 1, passed |-> 0, own |-> TRUE]
                    BY <3>1, <4>1 DEF TypeOK
                <5>2. PassesFirst(check'[x].entry[2], check'[x].next - 1)
                    BY <5>1 DEF PassesFirst
                <5> QED
                    BY <5>1, <5>2
            <4>2. CASE x # c
                BY <1>0, <3>1, <4>2 DEF TypeOK
            <4> QED
                BY <4>1, <4>2
        <3> QED
            BY <1>0, <3>2, <3>3
    <2>3. ASSUME NEW p, NEW m, Select(p, m) PROVE CheckInv'
        BY <1>2, <2>3 DEF Select, registry
    <2>4. ASSUME NEW fields, NEW refused, Configure(fields, refused) PROVE CheckInv'
        BY <1>2, <2>4 DEF Configure, registry
    <2>5. ASSUME NEW e, AutoSelect(e) PROVE CheckInv'
        BY <1>2, <2>5 DEF AutoSelect, registry
    <2> QED
        BY <1>5, <2>1, <2>2, <2>3, <2>4, <2>5 DEF UserStep
<1>6. ASSUME NEW job \in saves, SaveCommits(job) \/ SaveFails(job) PROVE CheckInv'
    BY <1>2, <1>6 DEF SaveCommits, SaveFails, registry
<1>7. ASSUME NEW q \in Request, RequestStep(q) PROVE CheckInv'
    <2>1. CASE Route(q) \/ ManualFails(q)
        BY <1>2, <2>1 DEF Route, ManualFails, registry
    <2>2. ASSUME NEW good, Answered(q, good) PROVE CheckInv'
        BY <1>1, <2>2, RecordedVerifiesNothing DEF Answered
    <2>3. ASSUME NEW lost, Fails(q, lost) PROVE CheckInv'
        <3>1. /\ \/ Recorded(<<prov[q], model[prov[q]]>>, FALSE)
                 \/ UNCHANGED <<status, wins, losses, cleared>>
              /\ UNCHANGED <<check, candid>>
            BY <2>3 DEF Fails
        <3> QED
            BY <1>1, <3>1, RecordedVerifiesNothing
    <2> QED
        BY <1>7, <2>1, <2>2, <2>3 DEF RequestStep
<1>8. ASSUME NEW c \in Checker, RunTest(c) PROVE CheckInv'
    <2> DEFINE mine == check[c].own /\ model[check[c].entry[1]] = check[c].entry[2]
    <2>1. /\ check[c] # NoCheck /\ check[c].next <= Len(Tests)
          /\ UNCHANGED <<status, candid>>
        BY <1>8 DEF RunTest, registry
    <2>2. PICK n \in {0, 1} :
            /\ n = 1 => \E r \in Replies[model[check[c].entry[1]]][Tests[check[c].next]] :
                            Passes(Tests[check[c].next], r)
            /\ check' = [check EXCEPT ![c] =
                           [entry |-> check[c].entry, next |-> check[c].next + 1,
                            passed |-> check[c].passed + n, own |-> mine]]
        BY <1>8, Zenon DEF RunTest
    <2>3. Honest'
        BY <1>0, <2>1 DEF PassesFirst
    <2>4. check[c].next \in Nat \ {0} /\ check[c].passed \in Nat
        BY <2>1 DEF TypeOK
    <2>5. ASSUME NEW x \in Checker PROVE Counted(x)'
        <3>1. CASE x # c
            BY <1>0, <2>2, <3>1 DEF TypeOK
        <3>2. CASE x = c
            <4>1. check'[x] = [entry |-> check[c].entry, next |-> check[c].next + 1,
                               passed |-> check[c].passed + n, own |-> mine]
                BY <2>2, <3>2 DEF TypeOK
            <4>2. check[c].passed < check[c].next
                BY <1>0, <2>1
            <4>3. ASSUME mine, check[c].passed + n = check[c].next
                  PROVE  PassesFirst(check[c].entry[2], check[c].next)
                <5>1. n = 1 /\ check[c].passed = check[c].next - 1
                    BY <2>4, <4>2, <4>3
                <5>2. PassesFirst(check[c].entry[2], check[c].next - 1)
                    BY <1>0, <2>1, <4>3, <5>1
                <5>3. \E r \in Replies[check[c].entry[2]][Tests[check[c].next]] :
                        Passes(Tests[check[c].next], r)
                    BY <2>2, <4>3, <5>1
                <5> QED
                    BY <2>4, <5>2, <5>3 DEF PassesFirst
            <4> HIDE DEF mine
            <4>4. /\ check'[x].passed = check[c].passed + n /\ check'[x].own = mine
                  /\ check'[x].next = check[c].next + 1 /\ check'[x].entry = check[c].entry
                BY <4>1
            <4>5. check[c].passed + n < check[c].next + 1
                BY <2>4, <4>2
            <4>6. check'[x].next - 1 = check[c].next
                BY <2>4, <4>4
            <4> QED
                BY <4>3, <4>4, <4>5, <4>6
        <3> QED
            BY <3>1, <3>2
    <2> QED
        BY <1>0, <2>3, <2>5
<1>9. ASSUME NEW c \in Checker, VerifyEnds(c) PROVE CheckInv'
    <2> DEFINE e == check[c].entry
    <2>1. /\ check[c] # NoCheck /\ check[c].next > Len(Tests)
          /\ status' = [status EXCEPT ![e] = Verdict(check[c].passed)]
          /\ check' = [check EXCEPT ![c] = NoCheck]
          /\ candid' = [candid EXCEPT ![e] = check[c].own]
        BY <1>9 DEF VerifyEnds
    <2>2. /\ e \in Entry /\ check[c].next \in 1 .. Len(Tests) + 1 /\ check[c].passed \in Nat
          /\ check[c].own \in BOOLEAN /\ Len(Tests) \in Nat
        BY <2>1, DeskAssumption DEF TypeOK
    <2>3. check[c].next = Len(Tests) + 1
        BY <2>1, <2>2
    <2>4. ASSUME NEW x \in Entry, status'[x] = "verified", candid'[x]
          PROVE  PassesFirst(x[2], Len(Tests))
        <3>1. CASE x # e
            BY <1>0, <2>1, <2>4, <3>1 DEF TypeOK
        <3>2. CASE x = e
            <4>1. Verdict(check[c].passed) = "verified" /\ check[c].own
                BY <2>1, <2>2, <2>4, <3>2 DEF TypeOK
            <4>2. check[c].passed = Len(Tests)
                BY <4>1 DEF Verdict
            <4>3. check[c].passed = check[c].next - 1 /\ check[c].next - 1 = Len(Tests)
                BY <2>2, <2>3, <4>2
            <4> QED
                BY <1>0, <2>1, <3>2, <4>1, <4>3
        <3> QED
            BY <3>1, <3>2
    <2>5. \A x \in Checker : Counted(x)'
        BY <1>0, <2>1 DEF TypeOK
    <2>6. Honest'
        BY <2>4 DEF PassesFirst
    <2> QED
        BY <1>0, <2>5, <2>6
<1>10. CASE UNCHANGED vars
    BY <1>2, <1>10 DEF vars, registry
<1> QED
    BY <1>3, <1>4, <1>5, <1>6, <1>7, <1>8, <1>9, <1>10 DEF Next, CheckStep

-----------------------------------------------------------------------------
(* What is saved.                                                          *)

\* What is held, key by key.
LEMMA HeldByKey ==
    /\ Held["ai"] = ai /\ Held["mode"] = mode
    /\ Held["provider"] = sel[1] /\ Held["model"] = sel[2]
    /\ Held'["ai"] = ai' /\ Held'["mode"] = mode'
    /\ Held'["provider"] = sel'[1] /\ Held'["model"] = sel'[2]
BY DEF Held

\* What is loaded, key by key.
LEMMA LoadedByKey ==
    ASSUME NEW key \in Key
    PROVE  /\ Loaded[key] = IF key \in DOMAIN db THEN db[key] ELSE Default[key]
           /\ Loaded'[key] = IF key \in DOMAIN db' THEN db'[key] ELSE Default[key]
BY DEF Loaded, Over, Key, Default

\* A write that starts carries what is held from then on, and overlaps no other
\* unless the process is astray: update_settings up to its await.
LEMMA SaveKeepsSaved ==
    ASSUME SavedInv, running, UNCHANGED <<running, db>>, NEW job, Save(job), IsSetting(job),
           \A key \in Key : IF key \in DOMAIN job THEN Held'[key] = job[key]
                           ELSE Held'[key] = Held[key]
    PROVE  SavedInv'
<1>1. IsSetting(db') /\ \A other \in saves' : IsSetting(other)
    BY DEF SavedInv, Save
<1>2. ASSUME ~astray', NEW key \in Key
      PROVE  /\ \A other \in saves' : key \in DOMAIN other => other[key] = Held'[key]
             /\ (\A other \in saves' : key \notin DOMAIN other) => Held'[key] = Loaded'[key]
    <2>1. ~astray /\ \A other \in saves : DOMAIN other \cap DOMAIN job = {}
        BY <1>2 DEF Save
    <2>2. /\ \A other \in saves : key \in DOMAIN other => other[key] = Held[key]
          /\ (\A other \in saves : key \notin DOMAIN other) => Held[key] = Loaded[key]
        BY <1>2, <2>1 DEF SavedInv
    <2>3. saves' = saves \cup {job}
        BY DEF Save
    <2>4. CASE key \in DOMAIN job
        BY <1>2, <2>1, <2>3, <2>4
    <2>5. CASE key \notin DOMAIN job
        <3>1. Loaded'[key] = Loaded[key] /\ Held'[key] = Held[key]
            BY <1>2, <2>5, LoadedByKey
        <3> QED
            BY <2>2, <2>3, <2>5, <3>1
    <2> QED
        BY <2>4, <2>5
<1>3. running'
    OBVIOUS
<1> QED
    BY <1>1, <1>2, <1>3 DEF SavedInv

\* Every step keeps SavedInv.
LEMMA StepKeepsSaved ==
    ASSUME TypeOK, SavedInv, [Next]_vars
    PROVE  SavedInv'
<1>1. ASSUME UNCHANGED <<running, db, saves, ai, mode, sel, astray>> PROVE SavedInv'
    BY <1>1 DEF SavedInv, IsSetting, Held, Loaded, Over, Default
<1>2. ASSUME UNCHANGED <<running, db, saves>>, astray' PROVE SavedInv'
    BY <1>2 DEF SavedInv, IsSetting
<1>3. CASE Boot
    <2>1. PICK readable \in Reading, found \in Discoveries :
            LET settings == IF readable THEN Loaded ELSE [Default EXCEPT !.ai = Environment]
                restored == Selectable(settings.provider, settings.model, found)
            IN /\ ai' = settings.ai /\ mode' = settings.mode
               /\ sel' = IF restored THEN <<settings.provider, settings.model>>
                         ELSE <<NoProvider, NoModel>>
               /\ astray' = (~readable \/ (settings.provider # NoProvider /\ ~restored))
        BY <1>3 DEF Boot
    <2>2. saves' = {} /\ UNCHANGED db /\ running' /\ IsSetting(db)
        BY <1>3 DEF Boot, SavedInv, saved
    <2>3. ASSUME ~astray', NEW key \in Key PROVE Held'[key] = Loaded'[key]
        <3>1. readable
            BY <2>1, <2>3
        <3>2. /\ ai' = Loaded.ai /\ mode' = Loaded.mode
              /\ \/ sel' = <<Loaded.provider, Loaded.model>>
                 \/ sel' = <<NoProvider, NoModel>> /\ Loaded.provider = NoProvider
            BY <2>1, <2>3, <3>1
        <3>3. sel'[1] = Loaded["provider"] /\ sel'[2] = Loaded["model"]
            <4>1. Loaded["provider"] = NoProvider => Loaded["model"] = NoModel
                BY <2>2, LoadedIsTyped
            <4> HIDE DEF Loaded
            <4> QED
                BY <3>2, <4>1
        <3>4. Held'[key] = Loaded[key]
            BY <3>2, <3>3, HeldByKey DEF Key
        <3> QED
            BY <2>2, <3>4, LoadedByKey
    <2> QED
        BY <2>2, <2>3 DEF SavedInv
<1>4. CASE Crash
    BY <1>4 DEF Crash, Forgotten, SavedInv, IsSetting
<1>5. CASE LookEnds \/ NetworkChanges
    BY <1>1, <1>5 DEF LookEnds, NetworkChanges, saved, choice
<1>6. CASE UserStep
    <2>1. ASSUME NEW p \in Provider, NEW m \in Model \cup {NoModel}, Select(p, m)
          PROVE  SavedInv'
        <3> DEFINE job == ChoiceToSave(p, m)
        <3>1. /\ running /\ UNCHANGED <<running, db, ai, mode>>
              /\ sel' = <<p, m>> /\ Save(job)
            BY <2>1 DEF Select, Choose
        <3>2. DOMAIN job = {"provider", "model"} /\ job["provider"] = p /\ job["model"] = m
            BY DEF ChoiceToSave
        <3>3. IsSetting(job)
            BY <3>2 DEF IsSetting, Key
        <3>4. \A key \in Key : IF key \in DOMAIN job THEN Held'[key] = job[key]
                               ELSE Held'[key] = Held[key]
            BY <3>1, <3>2, HeldByKey DEF Key
        <3> HIDE DEF job
        <3> QED
            BY <3>1, <3>3, <3>4, SaveKeepsSaved
    <2>2. ASSUME NEW refused \in BOOLEAN, NEW keys \in SUBSET {"ai", "mode"},
                 NEW fields \in [keys -> AIProvider \cup Mode],
                 "ai" \in keys => fields.ai \in AIProvider,
                 "mode" \in keys => fields.mode \in Mode,
                 Configure(fields, refused)
          PROVE  SavedInv'
        <3>1. /\ DOMAIN fields = keys /\ running /\ UNCHANGED <<running, db, sel>>
              /\ ai' = IF "ai" \in keys THEN fields["ai"] ELSE ai
              /\ mode' = IF "mode" \in keys THEN fields["mode"] ELSE mode
              /\ \/ Save(fields)
                 \/ astray' = (astray \/ keys # {}) /\ UNCHANGED saves
            BY <2>2 DEF Configure
        <3>2. CASE Save(fields)
            <4>1. IsSetting(fields)
                BY <2>2, <3>1 DEF IsSetting, Key
            <4>2. \A key \in Key : IF key \in DOMAIN fields THEN Held'[key] = fields[key]
                                   ELSE Held'[key] = Held[key]
                BY <3>1, HeldByKey DEF Key
            <4> QED
                BY <3>1, <3>2, <4>1, <4>2, SaveKeepsSaved
        <3>3. CASE astray' = (astray \/ keys # {}) /\ UNCHANGED saves
            <4>1. CASE keys = {}
                BY <1>1, <3>1, <3>3, <4>1 DEF TypeOK
            <4>2. CASE keys # {}
                BY <1>2, <3>1, <3>3, <4>2
            <4> QED
                BY <4>1, <4>2
        <3> QED
            BY <3>1, <3>2, <3>3
    <2>3. ASSUME NEW e, AutoSelect(e) PROVE SavedInv'
        BY <1>2, <2>3 DEF AutoSelect, saved
    <2>4. ASSUME NEW e, NEW good, Feedback(e, good) PROVE SavedInv'
        BY <1>1, <2>4 DEF Feedback, saved, choice
    <2>5. ASSUME NEW c, NEW e, VerifyStart(c, e) PROVE SavedInv'
        BY <1>1, <2>5 DEF VerifyStart, saved, choice
    <2> QED
        BY <1>6, <2>1, <2>2, <2>3, <2>4, <2>5 DEF UserStep
<1>7. ASSUME NEW job \in saves, SaveCommits(job) PROVE SavedInv'
    <2>1. /\ db' = Over(job, db) /\ saves' = saves \ {job}
          /\ UNCHANGED <<running, ai, mode, sel, astray>>
          /\ IsSetting(job) /\ IsSetting(db)
        BY <1>7 DEF SaveCommits, choice, SavedInv
    <2>2. /\ DOMAIN db' = DOMAIN job \cup DOMAIN db
          /\ \A k \in DOMAIN db' : db'[k] = IF k \in DOMAIN job THEN job[k] ELSE db[k]
        BY <2>1 DEF Over
    <2>3. IsSetting(db')
        BY <2>1, <2>2 DEF IsSetting
    <2>4. ASSUME running, ~astray, NEW key \in Key
          PROVE  /\ \A other \in saves' : key \in DOMAIN other => other[key] = Held'[key]
                 /\ (\A other \in saves' : key \notin DOMAIN other) =>
                       Held'[key] = Loaded'[key]
        <3>1. Held'[key] = Held[key]
            BY <2>1, HeldByKey DEF Key
        <3>2. /\ \A other \in saves : key \in DOMAIN other => other[key] = Held[key]
              /\ (\A other \in saves : key \notin DOMAIN other) => Held[key] = Loaded[key]
            BY <2>4 DEF SavedInv
        <3>3. CASE key \in DOMAIN job
            <4>1. Loaded'[key] = job[key]
                BY <2>2, <3>3, LoadedByKey
            <4> QED
                BY <1>7, <2>1, <3>1, <3>2, <3>3, <4>1
        <3>4. CASE key \notin DOMAIN job
            <4>1. Loaded'[key] = Loaded[key]
                BY <2>2, <3>4, LoadedByKey
            <4> QED
                BY <2>1, <3>1, <3>2, <3>4, <4>1
        <3> QED
            BY <3>3, <3>4
    <2> QED
        BY <2>1, <2>3, <2>4 DEF SavedInv
<1>8. ASSUME NEW job \in saves, SaveFails(job) PROVE SavedInv'
    BY <1>8 DEF SaveFails, SavedInv, IsSetting
<1>9. ASSUME NEW q \in Request, RequestStep(q) PROVE SavedInv'
    BY <1>1, <1>9 DEF RequestStep, Route, ManualFails, Answered, Fails, saved, choice
<1>10. ASSUME NEW c \in Checker, CheckStep(c) PROVE SavedInv'
    BY <1>1, <1>10 DEF CheckStep, RunTest, VerifyEnds, saved, choice
<1>11. CASE UNCHANGED vars
    BY <1>1, <1>11 DEF vars, saved, choice
<1> QED
    BY <1>3, <1>4, <1>5, <1>6, <1>7, <1>8, <1>9, <1>10, <1>11 DEF Next

-----------------------------------------------------------------------------

\* DeskInv is inductive.
THEOREM DeskInvariant == Spec => []DeskInv
<1>1. DeskInv /\ [Next]_vars => DeskInv'
    BY StepKeepsTypes, StepKeepsSaved, StepKeepsRating, StepKeepsCheck DEF DeskInv
<1> QED
    BY <1>1, DeskStarts, PTL DEF Spec

\* The variables of the process keep their types.
THEOREM DeskTypes == Spec => []TypeOK
<1>1. DeskInv => TypeOK
    BY DEF DeskInv
<1> QED
    BY <1>1, DeskInvariant, PTL

\* Once every write has ended, what a process holds of the user's choice is what
\* the next one loads, unless something has parted the two.
THEOREM ChoiceIsSaved == Spec => []SettledIsSaved
<1>1. DeskInv => SettledIsSaved
    <2> SUFFICES ASSUME DeskInv, running, saves = {}, ~astray PROVE Held = Loaded
        BY DEF SettledIsSaved
    <2>1. \A key \in Key : Held[key] = Loaded[key]
        BY DEF DeskInv, SavedInv
    <2>2. DOMAIN Loaded = Key
        BY DEF DeskInv, SavedInv, IsSetting, Loaded, Over, Default, Key
    <2>3. Loaded = [key \in Key |-> Loaded[key]]
        BY <2>2 DEF Loaded, Over
    <2>4. Held = [key \in Key |-> Held[key]]
        BY DEF Held, Key
    <2> QED
        BY <2>1, <2>3, <2>4
<1> QED
    BY <1>1, DeskInvariant, PTL

\* A model that failed too often is out until it is verified again.
THEOREM CondemnedStaysOut == Spec => []CondemnedIsOut
<1>1. DeskInv => CondemnedIsOut
    BY DEF DeskInv, RatingInv, CondemnedIsOut, TypeOK, Scoring, Offers
<1> QED
    BY <1>1, DeskInvariant, PTL

\* A model verified by its own replies can pass every test.
THEOREM VerdictsAreHonest == Spec => []HonestVerdict
<1>1. DeskInv => HonestVerdict
    BY DEF DeskInv, CheckInv, HonestVerdict, TypeOK, Capable, PassesFirst
<1> QED
    BY <1>1, DeskInvariant, PTL
=============================================================================
