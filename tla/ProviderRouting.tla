--------------------------- MODULE ProviderRouting ---------------------------
(***************************************************************************)
(* Which model answers a request.  One instance per provider is shared by  *)
(* every request of the process, and the model a call is made to is an     *)
(* attribute of that instance: the selection of the user, the fallback of  *)
(* any request and the start of a request on Ollama assign it, and every   *)
(* call reads it when its payload is built.  The steps below are the       *)
(* stretches of ModelManager, of the _service factory of the API and of    *)
(* the provider part of the agent loop between two awaits.                 *)
(*                                                                         *)
(* Every provider has an instance.  Which of the entries a fallback could  *)
(* take it takes, and whether it finds any, depends on the status of the   *)
(* entries, the latest failures and the network; here it is free.          *)
(***************************************************************************)
EXTENDS Naturals

CONSTANTS
    Provider, Model,
    Request,                \* the requests that run at the same time
    NoProvider, NoModel, NoEntry,
    Discovered,             \* the entries of the registry
    Default,                \* what _auto_select returns under the settings
    Reapplied,              \* providers whose instance is an OllamaProvider
    MaxRounds,              \* MAX_TOOL_ROUNDS, 15
    MaxUserSteps            \* bound on what users do in a behaviour

Entry == Provider \X Model

ASSUME RoutingAssumption ==
    /\ Discovered \subseteq Entry
    /\ Default \in Provider
    /\ Reapplied \subseteq Provider
    /\ NoProvider \notin Provider
    /\ NoModel \notin Model
    /\ NoEntry \notin Entry
    /\ MaxRounds \in Nat
    /\ MaxUserSteps \in Nat

VARIABLES
    mode, selProvider, selModel,        \* ModelManager: what the user chose
    model,                              \* the model of each instance
    pc, prov, blocked, rounds,          \* requests: the agent loop
    reported,                           \* provider and model of its metrics
    sent,                               \* the model its open call was made to
    userSteps,
    steady,                 \* history: routed in manual mode, nothing changed since
    touched,                \* history: others assigned its instance's model
    switched                \* history: some fallback has assigned a model

choice == <<mode, selProvider, selModel>>
loop == <<pc, prov, blocked, rounds, reported, sent>>
history == <<steady, touched, switched>>
vars == <<choice, model, loop, userSteps, history>>

Mode == {"automatic", "manual"}

TypeOK ==
    /\ mode \in Mode
    /\ selProvider \in Provider \cup {NoProvider}
    /\ selModel \in Model \cup {NoModel}
    /\ model \in [Provider -> Model]
    /\ pc \in [Request -> {"idle", "routed", "ready", "waiting"}]
    /\ prov \in [Request -> Provider \cup {NoProvider}]
    /\ \A q \in Request : pc[q] # "idle" => prov[q] \in Provider
    /\ blocked \in [Request -> SUBSET Provider]
    /\ rounds \in [Request -> 0 .. MaxRounds]
    /\ reported \in [Request -> Entry \cup {NoEntry}]
    /\ sent \in [Request -> Model \cup {NoModel}]
    /\ userSteps \in 0 .. MaxUserSteps
    /\ steady \in [Request -> BOOLEAN]
    /\ touched \in [Request -> BOOLEAN]
    /\ switched \in BOOLEAN

\* After start-up: an instance has its own default model, which the discovery
\* need not have listed.
Init ==
    /\ mode \in Mode
    /\ selProvider = NoProvider
    /\ selModel = NoModel
    /\ model \in [Provider -> Model]
    /\ pc = [q \in Request |-> "idle"]
    /\ prov = [q \in Request |-> NoProvider]
    /\ blocked = [q \in Request |-> {}]
    /\ rounds = [q \in Request |-> 0]
    /\ reported = [q \in Request |-> NoEntry]
    /\ sent = [q \in Request |-> NoModel]
    /\ userSteps = 0
    /\ steady = [q \in Request |-> FALSE]
    /\ touched = [q \in Request |-> FALSE]
    /\ switched = FALSE

-----------------------------------------------------------------------------
(* What the steps below are made of; a faulty variant stands before some.    *)

AssignNothing(p, m, doers) ==
    /\ UNCHANGED model
    /\ touched' = [q \in Request |-> touched[q] /\ q \notin doers]

\* The doers assign the model of an instance that others may be using.
Assign(p, m, doers) ==
    /\ model' = [model EXCEPT ![p] = m]
    /\ touched' = [q \in Request |->
                    q \notin doers /\ (touched[q] \/ (prov[q] = p /\ m # model[p]))]

\* get_fallback_provider: an entry other than the one that failed, of a provider
\* this request has not lost.
Offers(failed, shut) == {e \in Discovered : e # failed /\ e[1] \notin shut}

\* In manual mode a failed call is the end of the request.
AlwaysFallsBack == TRUE
MayFallBack == mode = "automatic"

\* The rounds of the loop, which fallbacks use up as well.
RoundsLeft(q) == rounds[q] < MaxRounds
SameRound(q) == UNCHANGED rounds
NextRound(q) == rounds' = [rounds EXCEPT ![q] = @ + 1]

-----------------------------------------------------------------------------
(* A request.                                                              *)

\* _service: the selected instance, or the default of the settings; the
\* selected model is assigned again on Ollama only.
Route(q) ==
    LET p == IF selProvider = NoProvider THEN Default ELSE selProvider
    IN /\ pc[q] = "idle"
       /\ pc' = [pc EXCEPT ![q] = "routed"]
       /\ prov' = [prov EXCEPT ![q] = p]
       /\ steady' = [steady EXCEPT ![q] = mode = "manual"]
       /\ \/ p \in Reapplied /\ selModel # NoModel /\ Assign(p, selModel, {q})
          \/ (p \notin Reapplied \/ selModel = NoModel) /\ UNCHANGED <<model, touched>>
       /\ UNCHANGED <<choice, blocked, rounds, reported, sent, userSteps, switched>>

\* The agent loop notes what it is about to run on.
Start(q) ==
    /\ pc[q] = "routed"
    /\ pc' = [pc EXCEPT ![q] = "ready"]
    /\ reported' = [reported EXCEPT ![q] = <<prov[q], model[prov[q]]>>]
    /\ touched' = [touched EXCEPT ![q] = FALSE]
    /\ UNCHANGED <<choice, model, prov, blocked, rounds, sent, userSteps, steady,
                   switched>>

\* provider.generate builds its payload.
CallModel(q) ==
    /\ pc[q] = "ready"
    /\ RoundsLeft(q)
    /\ pc' = [pc EXCEPT ![q] = "waiting"]
    /\ sent' = [sent EXCEPT ![q] = model[prov[q]]]
    /\ UNCHANGED <<choice, model, prov, blocked, rounds, reported, userSteps, history>>

\* The response ends the request, whose locals are gone.
Finish(q) ==
    /\ pc' = [pc EXCEPT ![q] = "idle"]
    /\ prov' = [prov EXCEPT ![q] = NoProvider]
    /\ blocked' = [blocked EXCEPT ![q] = {}]
    /\ rounds' = [rounds EXCEPT ![q] = 0]
    /\ reported' = [reported EXCEPT ![q] = NoEntry]
    /\ sent' = [sent EXCEPT ![q] = NoModel]
    /\ steady' = [steady EXCEPT ![q] = FALSE]

\* An answer that asks for another round, or the last one.
Answered(q) ==
    /\ pc[q] = "waiting"
    /\ \/ /\ pc' = [pc EXCEPT ![q] = "ready"]
          /\ NextRound(q)
          /\ sent' = [sent EXCEPT ![q] = NoModel]
          /\ UNCHANGED <<prov, blocked, reported, steady>>
       \/ Finish(q)
    /\ UNCHANGED <<choice, model, userSteps, touched, switched>>

\* An empty answer or an exception outside the four the loop expects, in both
\* modes; in manual mode any failure: the request ends with a message.
GiveUp(q) ==
    /\ pc[q] = "waiting"
    /\ Finish(q)
    /\ UNCHANGED <<choice, model, userSteps, touched, switched>>

\* The failure of a call in automatic mode.  What failed is read from the
\* instance now; a lost connection blocks the provider for this request.
\* The loop catches an instance that refuses the assignment of a model; every
\* provider class of the repository takes it (an attribute in ollama.py and
\* remote.py, a setter in gemini.py and opencode_provider.py, an ordinary
\* object in deterministic.py), so the model has no such instance.
FallBack(q, lost) ==
    LET failed == <<prov[q], model[prov[q]]>>
        shut == IF lost THEN blocked[q] \cup {prov[q]} ELSE blocked[q]
    IN /\ pc[q] = "waiting"
       /\ MayFallBack
       /\ \/ \E e \in Offers(failed, shut) :
                /\ pc' = [pc EXCEPT ![q] = "ready"]
                /\ prov' = [prov EXCEPT ![q] = e[1]]
                /\ blocked' = [blocked EXCEPT ![q] = shut]
                /\ NextRound(q)
                /\ reported' = [reported EXCEPT ![q] = e]
                /\ sent' = [sent EXCEPT ![q] = NoModel]
                /\ Assign(e[1], e[2], {q})
                /\ switched' = TRUE
                /\ UNCHANGED steady
          \/ /\ Finish(q)
             /\ UNCHANGED <<model, touched, switched>>
       /\ UNCHANGED <<choice, userSteps>>

\* The loop ends by its bound.
LoopEnds(q) ==
    /\ pc[q] = "ready"
    /\ ~RoundsLeft(q)
    /\ Finish(q)
    /\ UNCHANGED <<choice, model, userSteps, touched, switched>>

-----------------------------------------------------------------------------
(* What users do meanwhile.                                                *)

UserActs ==
    /\ userSteps < MaxUserSteps
    /\ userSteps' = userSteps + 1

\* select_provider, from the selection and the auto-select endpoints.
Select(p, m) ==
    /\ UserActs
    /\ selProvider' = p
    /\ selModel' = m
    /\ \/ m = NoModel /\ UNCHANGED <<model, touched>>
       \/ <<p, m>> \in Discovered /\ Assign(p, m, {})
    /\ steady' = [q \in Request |-> FALSE]
    /\ UNCHANGED <<mode, loop, switched>>

SetMode(m) ==
    /\ UserActs
    /\ mode' = m
    /\ steady' = [q \in Request |-> FALSE]
    /\ UNCHANGED <<selProvider, selModel, model, loop, touched, switched>>

-----------------------------------------------------------------------------

RequestStep(q) ==
    \/ Route(q) \/ Start(q) \/ CallModel(q) \/ Answered(q) \/ GiveUp(q)
    \/ \E lost \in BOOLEAN : FallBack(q, lost)
    \/ LoopEnds(q)

UserStep ==
    \/ \E p \in Provider, m \in Model \cup {NoModel} : Select(p, m)
    \/ \E m \in Mode : SetMode(m)

Next ==
    \/ \E q \in Request : RequestStep(q)
    \/ UserStep

\* The provider clients put a timeout on every call, so a request that has
\* begun takes its next step.
Fairness == \A q \in Request : WF_vars(pc[q] # "idle" /\ RequestStep(q))

Spec == Init /\ [][Next]_vars /\ Fairness

-----------------------------------------------------------------------------
(* Properties.                                                             *)

\* A provider whose connection failed during a request is not called again by
\* that request, however its fallbacks go: two dead providers cannot alternate.
BlockedStaysBlocked ==
    \A q \in Request : pc[q] \in {"ready", "waiting"} => prov[q] \notin blocked[q]

\* While the mode stays manual and the selection stands, a request stays with
\* the selected provider, whatever fails and whatever other requests do.
ManualKeepsProvider ==
    \A q \in Request :
        steady[q] /\ selProvider # NoProvider => prov[q] = selProvider

\* MANUAL mode runs exactly the selected model ("manual provider selection is
\* absolute - no silent fallback, no model substitution"): the code does not keep
\* it, as a fallback leaves its model on an instance that is not Ollama's.
ManualIsExact ==
    \A q \in Request :
        steady[q] /\ pc[q] = "waiting" /\ selModel # NoModel => sent[q] = selModel

\* It does, as long as no fallback of any request has ever assigned the model
\* of a shared instance.
ManualIsExactUntilFallback == ~switched => ManualIsExact

\* What the metrics of a request report is what its calls are made to, unless
\* somebody else has assigned the instance's model since it was noted.
RunsWhatItReports ==
    \A q \in Request :
        pc[q] = "waiting" /\ ~touched[q] => <<prov[q], sent[q]>> = reported[q]

\* What the metrics of a request report is what its calls are made to ("so the
\* API can surface requested/selected/attempted/fallback/executed honestly"): the
\* code does not keep it, as the fallback of another request changes the instance.
ReportsAreHonest ==
    \A q \in Request : pc[q] = "waiting" => <<prov[q], sent[q]>> = reported[q]

\* Every request that was routed ends: fallbacks use up its rounds.
EveryRequestEnds == \A q \in Request : pc[q] = "routed" ~> pc[q] = "idle"

=============================================================================
