----------------------- MODULE ProviderRouting_proofs -----------------------
(***************************************************************************)
(* The safety properties of ProviderRouting for any providers, models,     *)
(* requests and bounds.  The inductive invariant adds to the types the     *)
(* round a request has left while it waits (RoundsInv), what it knows of   *)
(* its provider (BlockedInv), what the manual mode fixes (SteadyInv), what *)
(* the selection has done to the shared instances as long as no fallback   *)
(* touched them (SelectionInv), and what a request has noted of its        *)
(* instance (ReportInv).                                                   *)
(***************************************************************************)
EXTENDS ProviderRouting, TLAPS

RoundsInv == \A q \in Request : pc[q] = "waiting" => rounds[q] < MaxRounds

BlockedInv ==
    /\ BlockedStaysBlocked
    /\ \A q \in Request : pc[q] \in {"idle", "routed"} => blocked[q] = {}

SteadyInv ==
    \A q \in Request :
        steady[q] =>
            /\ mode = "manual"
            /\ selProvider # NoProvider => prov[q] = selProvider

SelectionInv ==
    /\ selModel # NoModel => selProvider \in Provider
    /\ ~switched /\ selModel # NoModel => model[selProvider] = selModel
    /\ ~switched => ManualIsExact

ReportInv ==
    \A q \in Request :
        ~touched[q] =>
            /\ pc[q] \in {"ready", "waiting"} => reported[q] = <<prov[q], model[prov[q]]>>
            /\ pc[q] = "waiting" => sent[q] = model[prov[q]]

-----------------------------------------------------------------------------
(* Types.                                                                  *)

\* The instances keep their type, and the flags of the requests theirs.
LEMMA AssignType ==
  ASSUME TypeOK, NEW p \in Provider, NEW m \in Model, NEW doers, Assign(p, m, doers)
  PROVE  model' \in [Provider -> Model] /\ touched' \in [Request -> BOOLEAN]
<1>1. \A q \in Request : (q \notin doers /\ (touched[q] \/ (prov[q] = p /\ m # model[p])))
                            \in BOOLEAN
  OBVIOUS
<1> QED
  BY <1>1 DEF Assign, TypeOK

\* The end of a request leaves its variables well typed.
LEMMA FinishType ==
  ASSUME TypeOK, NEW q \in Request, Finish(q)
  PROVE  /\ pc' \in [Request -> {"idle", "routed", "ready", "waiting"}]
         /\ prov' \in [Request -> Provider \cup {NoProvider}]
         /\ \A r \in Request : pc'[r] # "idle" => prov'[r] \in Provider
         /\ blocked' \in [Request -> SUBSET Provider]
         /\ rounds' \in [Request -> 0 .. MaxRounds]
         /\ reported' \in [Request -> Entry \cup {NoEntry}]
         /\ sent' \in [Request -> Model \cup {NoModel}]
         /\ steady' \in [Request -> BOOLEAN]
         /\ \A r \in Request : pc'[r] = "waiting" => pc[r] = "waiting" /\ rounds'[r] = rounds[r]
  BY RoutingAssumption DEF Finish, TypeOK

\* The initial state is well typed.
LEMMA TypeInit == ASSUME Init PROVE TypeOK /\ RoundsInv
<1>1. 0 \in 0 .. MaxRounds /\ 0 \in 0 .. MaxUserSteps
  BY RoutingAssumption
<1>2. /\ mode \in Mode /\ model \in [Provider -> Model]
      /\ selProvider \in Provider \cup {NoProvider}
      /\ selModel \in Model \cup {NoModel}
      /\ userSteps \in 0 .. MaxUserSteps
      /\ switched \in BOOLEAN
  BY <1>1 DEF Init
<1>3. /\ pc \in [Request -> {"idle", "routed", "ready", "waiting"}]
      /\ prov \in [Request -> Provider \cup {NoProvider}]
      /\ blocked \in [Request -> SUBSET Provider]
      /\ rounds \in [Request -> 0 .. MaxRounds]
  BY <1>1 DEF Init
<1>4. /\ reported \in [Request -> Entry \cup {NoEntry}]
      /\ sent \in [Request -> Model \cup {NoModel}]
      /\ steady \in [Request -> BOOLEAN]
      /\ touched \in [Request -> BOOLEAN]
  BY DEF Init
<1>5. \A q \in Request : pc[q] = "idle"
  BY DEF Init
<1> QED
  BY <1>2, <1>3, <1>4, <1>5 DEF TypeOK, RoundsInv

\* Every step keeps the types, and the round of a request that waits.
LEMMA TypeStep ==
  ASSUME TypeOK, RoundsInv, [Next]_vars
  PROVE  TypeOK' /\ RoundsInv'
<1> USE RoutingAssumption
<1>1. CASE UNCHANGED vars
  BY <1>1 DEF vars, choice, loop, history, TypeOK, RoundsInv
<1>2. ASSUME NEW q \in Request, Route(q) PROVE TypeOK' /\ RoundsInv'
  <2> DEFINE p == IF selProvider = NoProvider THEN Default ELSE selProvider
  <2>1. p \in Provider
    BY DEF TypeOK
  <2>2. model' \in [Provider -> Model] /\ touched' \in [Request -> BOOLEAN]
    <3>1. CASE selModel # NoModel /\ Assign(p, selModel, {q})
      BY <2>1, <3>1, AssignType DEF TypeOK
    <3>2. CASE UNCHANGED <<model, touched>>
      BY <3>2 DEF TypeOK
    <3> QED
      BY <1>2, <3>1, <3>2 DEF Route
  <2> QED
    BY <1>2, <2>1, <2>2 DEF Route, TypeOK, RoundsInv, choice
<1>3. ASSUME NEW q \in Request, Start(q) PROVE TypeOK' /\ RoundsInv'
  <2>1. <<prov[q], model[prov[q]]>> \in Entry
    BY <1>3 DEF Start, TypeOK, Entry
  <2> QED
    BY <1>3, <2>1 DEF Start, TypeOK, RoundsInv, choice
<1>4. ASSUME NEW q \in Request, CallModel(q) PROVE TypeOK' /\ RoundsInv'
  BY <1>4 DEF CallModel, RoundsLeft, TypeOK, RoundsInv, choice, history
<1>5. ASSUME NEW q \in Request, Answered(q) PROVE TypeOK' /\ RoundsInv'
  <2>1. CASE Finish(q)
    BY <1>5, <2>1, FinishType DEF Answered, TypeOK, RoundsInv, choice
  <2>2. CASE pc' = [pc EXCEPT ![q] = "ready"] /\ NextRound(q)
             /\ sent' = [sent EXCEPT ![q] = NoModel]
             /\ UNCHANGED <<prov, blocked, reported, steady>>
    <3>1. rounds' \in [Request -> 0 .. MaxRounds]
      BY <1>5, <2>2 DEF Answered, NextRound, TypeOK, RoundsInv
    <3> QED
      BY <1>5, <2>2, <3>1 DEF Answered, NextRound, TypeOK, RoundsInv, choice
  <2> QED
    BY <1>5, <2>1, <2>2 DEF Answered
<1>6. ASSUME NEW q \in Request, GiveUp(q) PROVE TypeOK' /\ RoundsInv'
  BY <1>6, FinishType DEF GiveUp, TypeOK, RoundsInv, choice
<1>7. ASSUME NEW q \in Request, NEW lost \in BOOLEAN, FallBack(q, lost)
      PROVE TypeOK' /\ RoundsInv'
  <2> DEFINE failed == <<prov[q], model[prov[q]]>>
             shut == IF lost THEN blocked[q] \cup {prov[q]} ELSE blocked[q]
  <2>0. pc[q] = "waiting" /\ prov[q] \in Provider /\ UNCHANGED <<choice, userSteps>>
    BY <1>7 DEF FallBack, TypeOK
  <2>1. CASE Finish(q) /\ UNCHANGED <<model, touched, switched>>
    BY <2>0, <2>1, FinishType DEF TypeOK, RoundsInv, choice
  <2>2. ASSUME NEW e \in Offers(failed, shut),
               /\ pc' = [pc EXCEPT ![q] = "ready"]
               /\ prov' = [prov EXCEPT ![q] = e[1]]
               /\ blocked' = [blocked EXCEPT ![q] = shut]
               /\ NextRound(q)
               /\ reported' = [reported EXCEPT ![q] = e]
               /\ sent' = [sent EXCEPT ![q] = NoModel]
               /\ Assign(e[1], e[2], {q})
               /\ switched' = TRUE
               /\ UNCHANGED steady
        PROVE TypeOK' /\ RoundsInv'
    <3>1. e \in Entry /\ e[1] \in Provider /\ e[2] \in Model
      BY <2>2 DEF Offers, Entry
    <3>2. model' \in [Provider -> Model] /\ touched' \in [Request -> BOOLEAN]
      BY <2>2, <3>1, AssignType
    <3>3. rounds' \in [Request -> 0 .. MaxRounds]
      BY <2>0, <2>2 DEF NextRound, TypeOK, RoundsInv
    <3>4. shut \subseteq Provider
      BY <2>0 DEF TypeOK
    <3> HIDE DEF failed, shut
    <3>5. blocked' \in [Request -> SUBSET Provider]
      BY <2>2, <3>4 DEF TypeOK
    <3> QED
      BY <2>0, <2>2, <3>1, <3>2, <3>3, <3>5 DEF NextRound, TypeOK, RoundsInv, choice
  <2> QED
    BY <1>7, <2>1, <2>2 DEF FallBack
<1>8. ASSUME NEW q \in Request, LoopEnds(q) PROVE TypeOK' /\ RoundsInv'
  BY <1>8, FinishType DEF LoopEnds, TypeOK, RoundsInv, choice
<1>9. ASSUME NEW p \in Provider, NEW m \in Model \cup {NoModel}, Select(p, m)
      PROVE TypeOK' /\ RoundsInv'
  <2>1. model' \in [Provider -> Model] /\ touched' \in [Request -> BOOLEAN]
    <3>1. CASE m = NoModel /\ UNCHANGED <<model, touched>>
      BY <3>1 DEF TypeOK
    <3>2. CASE <<p, m>> \in Discovered /\ Assign(p, m, {})
      <4>1. m \in Model
        BY <3>2 DEF Entry
      <4> QED
        BY <3>2, <4>1, AssignType
    <3> QED
      BY <1>9, <3>1, <3>2 DEF Select
  <2> QED
    BY <1>9, <2>1 DEF Select, UserActs, TypeOK, RoundsInv, loop
<1>10. ASSUME NEW m \in Mode, SetMode(m) PROVE TypeOK' /\ RoundsInv'
  BY <1>10 DEF SetMode, UserActs, TypeOK, RoundsInv, loop
<1> QED
  BY <1>1, <1>2, <1>3, <1>4, <1>5, <1>6, <1>7, <1>8, <1>9, <1>10
     DEF Next, RequestStep, UserStep

-----------------------------------------------------------------------------
(* The provider of a request.                                              *)

\* No step returns a request to a provider it has lost.
LEMMA BlockedStep ==
  ASSUME TypeOK, BlockedInv, [Next]_vars
  PROVE  BlockedInv'
<1> USE DEF BlockedInv, BlockedStaysBlocked
<1>1. CASE UNCHANGED vars
  BY <1>1 DEF vars, loop
<1>2. ASSUME NEW q \in Request, Route(q) PROVE BlockedInv'
  BY <1>2 DEF Route, TypeOK
<1>3. ASSUME NEW q \in Request, Start(q) PROVE BlockedInv'
  BY <1>3 DEF Start, TypeOK
<1>4. ASSUME NEW q \in Request, CallModel(q) PROVE BlockedInv'
  BY <1>4 DEF CallModel, TypeOK
<1>5. ASSUME NEW q \in Request, Finish(q) PROVE BlockedInv'
  BY <1>5 DEF Finish, TypeOK
<1>6. ASSUME NEW q \in Request, Answered(q) PROVE BlockedInv'
  BY <1>5, <1>6 DEF Answered, TypeOK
<1>7. ASSUME NEW q \in Request, NEW lost \in BOOLEAN, FallBack(q, lost)
      PROVE BlockedInv'
  <2> DEFINE failed == <<prov[q], model[prov[q]]>>
             shut == IF lost THEN blocked[q] \cup {prov[q]} ELSE blocked[q]
  <2>1. CASE Finish(q)
    BY <1>5, <2>1
  <2>2. ASSUME NEW e \in Offers(failed, shut),
               /\ pc' = [pc EXCEPT ![q] = "ready"]
               /\ prov' = [prov EXCEPT ![q] = e[1]]
               /\ blocked' = [blocked EXCEPT ![q] = shut]
        PROVE BlockedInv'
    <3>1. e[1] \notin shut
      BY <2>2 DEF Offers
    <3> HIDE DEF failed, shut
    <3> QED
      BY <2>2, <3>1 DEF TypeOK
  <2> QED
    BY <1>7, <2>1, <2>2 DEF FallBack
<1>8. ASSUME NEW p \in Provider, NEW m \in Model \cup {NoModel}, Select(p, m)
      PROVE BlockedInv'
  BY <1>8 DEF Select, loop
<1>9. ASSUME NEW m \in Mode, SetMode(m) PROVE BlockedInv'
  BY <1>9 DEF SetMode, loop
<1> QED
  BY <1>1, <1>2, <1>3, <1>4, <1>5, <1>6, <1>7, <1>8, <1>9
     DEF Next, RequestStep, UserStep, GiveUp, LoopEnds

\* A fallback needs the automatic mode, and a change of mode or selection ends
\* the steadiness of every request.
LEMMA SteadyStep ==
  ASSUME TypeOK, SteadyInv, [Next]_vars
  PROVE  SteadyInv'
<1> USE DEF SteadyInv
<1>1. CASE UNCHANGED vars
  BY <1>1 DEF vars, choice, loop, history
<1>2. ASSUME NEW q \in Request, Route(q) PROVE SteadyInv'
  BY <1>2 DEF Route, TypeOK, choice
<1>3. ASSUME NEW q \in Request, Start(q) PROVE SteadyInv'
  BY <1>3 DEF Start, choice
<1>4. ASSUME NEW q \in Request, CallModel(q) PROVE SteadyInv'
  BY <1>4 DEF CallModel, choice, history
<1>5. ASSUME NEW q \in Request, Finish(q), UNCHANGED choice PROVE SteadyInv'
  BY <1>5 DEF Finish, TypeOK, choice
<1>6. ASSUME NEW q \in Request, Answered(q) PROVE SteadyInv'
  BY <1>5, <1>6 DEF Answered, choice
<1>7. ASSUME NEW q \in Request, NEW lost \in BOOLEAN, FallBack(q, lost)
      PROVE SteadyInv'
  <2>1. CASE Finish(q)
    BY <1>5, <1>7, <2>1 DEF FallBack
  <2>2. mode = "automatic" /\ UNCHANGED choice
    BY <1>7 DEF FallBack, MayFallBack
  <2>3. CASE UNCHANGED steady
    <3>1. \A r \in Request : ~steady'[r]
      BY <2>2, <2>3
    <3> QED
      BY <3>1
  <2> QED
    BY <1>7, <2>1, <2>3 DEF FallBack
<1>8. ASSUME NEW p \in Provider, NEW m \in Model \cup {NoModel}, Select(p, m)
      PROVE SteadyInv'
  BY <1>8 DEF Select
<1>9. ASSUME NEW m \in Mode, SetMode(m) PROVE SteadyInv'
  BY <1>9 DEF SetMode
<1> QED
  BY <1>1, <1>2, <1>3, <1>4, <1>5, <1>6, <1>7, <1>8, <1>9
     DEF Next, RequestStep, UserStep, GiveUp, LoopEnds

-----------------------------------------------------------------------------
(* The model of a request.                                                 *)

\* Until a fallback, the selected instance has the selected model.
LEMMA SelectionStep ==
  ASSUME TypeOK, SteadyInv, SelectionInv, [Next]_vars
  PROVE  SelectionInv'
<1> USE DEF SelectionInv, ManualIsExact
<1>1. CASE UNCHANGED vars
  BY <1>1 DEF vars, choice, loop, history
<1>2. ASSUME NEW q \in Request, Route(q) PROVE SelectionInv'
  <2> DEFINE p == IF selProvider = NoProvider THEN Default ELSE selProvider
  <2>1. UNCHANGED <<choice, sent, switched>>
    BY <1>2 DEF Route
  <2>2. selModel # NoModel => p = selProvider
    BY RoutingAssumption
  <2>3. ~switched /\ selModel # NoModel => model'[selProvider] = selModel
    BY <1>2, <2>2 DEF Route, Assign, TypeOK
  <2>4. \A r \in Request : pc'[r] = "waiting" => pc[r] = "waiting" /\ steady'[r] = steady[r]
    BY <1>2 DEF Route, TypeOK
  <2> QED
    BY <2>1, <2>3, <2>4 DEF choice
<1>3. ASSUME NEW q \in Request, Start(q) PROVE SelectionInv'
  BY <1>3 DEF Start, choice, TypeOK
<1>4. ASSUME NEW q \in Request, CallModel(q) PROVE SelectionInv'
  <2>1. UNCHANGED <<choice, model, switched, steady>>
    BY <1>4 DEF CallModel, history
  <2>2. \A r \in Request : r # q => sent'[r] = sent[r] /\ pc'[r] = pc[r]
    BY <1>4 DEF CallModel, TypeOK
  <2>3. sent'[q] = model[prov[q]]
    BY <1>4 DEF CallModel, TypeOK
  <2>4. ~switched /\ steady[q] /\ selModel # NoModel => model[prov[q]] = selModel
    BY RoutingAssumption DEF SteadyInv
  <2> QED
    BY <2>1, <2>2, <2>3, <2>4 DEF choice
<1>5. ASSUME NEW q \in Request, Finish(q), UNCHANGED <<choice, model, switched>>
      PROVE SelectionInv'
  BY <1>5 DEF Finish, TypeOK, choice
<1>6. ASSUME NEW q \in Request, Answered(q) PROVE SelectionInv'
  BY <1>5, <1>6 DEF Answered, choice, TypeOK
<1>7. ASSUME NEW q \in Request, NEW lost \in BOOLEAN, FallBack(q, lost)
      PROVE SelectionInv'
  <2>1. CASE Finish(q) /\ UNCHANGED <<model, touched, switched>>
    BY <1>5, <1>7, <2>1 DEF FallBack
  <2>2. CASE switched' = TRUE
    BY <1>7, <2>2 DEF FallBack, choice
  <2> QED
    BY <1>7, <2>1, <2>2 DEF FallBack
<1>8. ASSUME NEW p \in Provider, NEW m \in Model \cup {NoModel}, Select(p, m)
      PROVE SelectionInv'
  BY <1>8 DEF Select, Assign, TypeOK, loop
<1>9. ASSUME NEW m \in Mode, SetMode(m) PROVE SelectionInv'
  BY <1>9 DEF SetMode, loop
<1> QED
  BY <1>1, <1>2, <1>3, <1>4, <1>5, <1>6, <1>7, <1>8, <1>9
     DEF Next, RequestStep, UserStep, GiveUp, LoopEnds

\* An assignment by others touches every request it concerns.
LEMMA AssignReport ==
  ASSUME TypeOK, NEW p \in Provider, NEW m, NEW doers, Assign(p, m, doers),
         NEW q \in Request, q \notin doers, ~touched'[q], prov[q] \in Provider
  PROVE  ~touched[q] /\ model'[prov[q]] = model[prov[q]]
  BY DEF Assign, TypeOK

\* What a request has noted stays true of its instance until others touch it.
LEMMA ReportStep ==
  ASSUME TypeOK, ReportInv, [Next]_vars
  PROVE  ReportInv'
<1> USE DEF ReportInv
<1>1. CASE UNCHANGED vars
  BY <1>1 DEF vars, loop, history
<1>2. ASSUME NEW q \in Request, Route(q) PROVE ReportInv'
  <2> DEFINE p == IF selProvider = NoProvider THEN Default ELSE selProvider
  <2>1. p \in Provider
    BY RoutingAssumption DEF TypeOK
  <2>2. pc'[q] = "routed"
    BY <1>2 DEF Route, TypeOK
  <2>3. ASSUME NEW r \in Request, r # q, ~touched'[r], pc'[r] \in {"ready", "waiting"}
        PROVE /\ reported'[r] = <<prov'[r], model'[prov'[r]]>>
              /\ pc'[r] = "waiting" => sent'[r] = model'[prov'[r]]
    <3>1. /\ pc[r] = pc'[r] /\ prov'[r] = prov[r]
          /\ UNCHANGED <<reported, sent>>
      BY <1>2, <2>3 DEF Route, TypeOK
    <3>2. prov[r] \in Provider
      BY <2>3, <3>1 DEF TypeOK
    <3>3. ~touched[r] /\ model'[prov[r]] = model[prov[r]]
      <4>1. CASE Assign(p, selModel, {q})
        BY <2>1, <2>3, <3>2, <4>1, AssignReport
      <4>2. CASE UNCHANGED <<model, touched>>
        BY <2>3, <4>2
      <4> QED
        BY <1>2, <4>1, <4>2 DEF Route
    <3> QED
      BY <2>3, <3>1, <3>3
  <2> QED
    BY <2>2, <2>3
<1>3. ASSUME NEW q \in Request, Start(q) PROVE ReportInv'
  BY <1>3 DEF Start, TypeOK
<1>4. ASSUME NEW q \in Request, CallModel(q) PROVE ReportInv'
  BY <1>4 DEF CallModel, TypeOK, history
<1>5. ASSUME NEW q \in Request, Finish(q), UNCHANGED <<model, touched>> PROVE ReportInv'
  BY <1>5 DEF Finish, TypeOK
<1>6. ASSUME NEW q \in Request, Answered(q) PROVE ReportInv'
  BY <1>5, <1>6 DEF Answered, TypeOK
<1>7. ASSUME NEW q \in Request, NEW lost \in BOOLEAN, FallBack(q, lost)
      PROVE ReportInv'
  <2> DEFINE failed == <<prov[q], model[prov[q]]>>
             shut == IF lost THEN blocked[q] \cup {prov[q]} ELSE blocked[q]
  <2>1. CASE Finish(q) /\ UNCHANGED <<model, touched, switched>>
    BY <1>5, <2>1
  <2>2. ASSUME NEW e \in Offers(failed, shut),
               /\ pc' = [pc EXCEPT ![q] = "ready"]
               /\ prov' = [prov EXCEPT ![q] = e[1]]
               /\ reported' = [reported EXCEPT ![q] = e]
               /\ sent' = [sent EXCEPT ![q] = NoModel]
               /\ Assign(e[1], e[2], {q})
        PROVE ReportInv'
    <3>1. e \in Entry
      BY <2>2, RoutingAssumption DEF Offers
    <3>2. e = <<e[1], e[2]>> /\ e[1] \in Provider
      BY <3>1 DEF Entry
    <3>3. /\ pc'[q] = "ready" /\ reported'[q] = e /\ prov'[q] = e[1]
          /\ model'[e[1]] = e[2]
      BY <2>2, <3>2 DEF TypeOK, Assign
    <3>4. ASSUME NEW r \in Request, r # q, ~touched'[r], pc'[r] \in {"ready", "waiting"}
          PROVE /\ reported'[r] = <<prov'[r], model'[prov'[r]]>>
                /\ pc'[r] = "waiting" => sent'[r] = model'[prov'[r]]
      <4>1. /\ pc[r] = pc'[r] /\ prov'[r] = prov[r]
            /\ reported'[r] = reported[r] /\ sent'[r] = sent[r]
        BY <2>2, <3>4 DEF TypeOK
      <4>2. prov[r] \in Provider
        BY <3>4, <4>1 DEF TypeOK
      <4>3. ~touched[r] /\ model'[prov[r]] = model[prov[r]]
        BY <2>2, <3>2, <3>4, <4>2, AssignReport
      <4> QED
        BY <3>4, <4>1, <4>3
    <3> QED
      BY <3>2, <3>3, <3>4
  <2> QED
    BY <1>7, <2>1, <2>2 DEF FallBack
<1>8. ASSUME NEW p \in Provider, NEW m \in Model \cup {NoModel}, Select(p, m)
      PROVE ReportInv'
  <2>1. UNCHANGED <<pc, prov, reported, sent>>
    BY <1>8 DEF Select, loop
  <2>2. CASE UNCHANGED <<model, touched>>
    BY <2>1, <2>2
  <2>3. CASE Assign(p, m, {})
    <3>1. ASSUME NEW r \in Request, ~touched'[r], pc[r] \in {"ready", "waiting"}
          PROVE ~touched[r] /\ model'[prov[r]] = model[prov[r]]
      <4>1. prov[r] \in Provider
        BY <3>1 DEF TypeOK
      <4> QED
        BY <2>3, <3>1, <4>1, AssignReport
    <3> QED
      BY <2>1, <3>1
  <2> QED
    BY <1>8, <2>2, <2>3 DEF Select
<1>9. ASSUME NEW m \in Mode, SetMode(m) PROVE ReportInv'
  BY <1>9 DEF SetMode, loop
<1> QED
  BY <1>1, <1>2, <1>3, <1>4, <1>5, <1>6, <1>7, <1>8, <1>9
     DEF Next, RequestStep, UserStep, GiveUp, LoopEnds

-----------------------------------------------------------------------------
(* The theorems.                                                           *)

RoutingInv == TypeOK /\ RoundsInv /\ BlockedInv /\ SteadyInv /\ SelectionInv /\ ReportInv

\* The conjunction is an invariant of the specification.
THEOREM RoutingInvariant == Spec => []RoutingInv
<1>1. Init => RoutingInv
  <2> SUFFICES ASSUME Init PROVE RoutingInv
    OBVIOUS
  <2>1. TypeOK /\ RoundsInv
    BY TypeInit
  <2>2. BlockedInv /\ SteadyInv
    BY DEF Init, BlockedInv, BlockedStaysBlocked, SteadyInv
  <2>3. SelectionInv /\ ReportInv
    BY DEF Init, SelectionInv, ManualIsExact, ReportInv
  <2> QED
    BY <2>1, <2>2, <2>3 DEF RoutingInv
<1>2. RoutingInv /\ [Next]_vars => RoutingInv'
  BY TypeStep, BlockedStep, SteadyStep, SelectionStep, ReportStep DEF RoutingInv
<1> QED
  BY <1>1, <1>2, PTL DEF Spec

\* Every variable keeps its type: rounds never exceed their bound, and a
\* request that runs has a provider.
THEOREM RoutingTypes == Spec => []TypeOK
<1>1. RoutingInv => TypeOK
  BY DEF RoutingInv
<1> QED
  BY <1>1, RoutingInvariant, PTL

\* A request never calls a provider again whose connection it has lost.
THEOREM LostProviders == Spec => []BlockedStaysBlocked
<1>1. RoutingInv => BlockedStaysBlocked
  BY DEF RoutingInv, BlockedInv
<1> QED
  BY <1>1, RoutingInvariant, PTL

\* A request in manual mode stays with the selected provider.
THEOREM ManualProvider == Spec => []ManualKeepsProvider
<1>1. RoutingInv => ManualKeepsProvider
  BY DEF RoutingInv, SteadyInv, ManualKeepsProvider
<1> QED
  BY <1>1, RoutingInvariant, PTL

\* Until the first fallback of any request, manual mode runs exactly the
\* selected model.
THEOREM ManualModel == Spec => []ManualIsExactUntilFallback
<1>1. RoutingInv => ManualIsExactUntilFallback
  BY DEF RoutingInv, SelectionInv, ManualIsExactUntilFallback
<1> QED
  BY <1>1, RoutingInvariant, PTL

\* The metrics of a request nobody interfered with name the model it called.
THEOREM HonestReports == Spec => []RunsWhatItReports
<1>1. RoutingInv => RunsWhatItReports
  BY DEF RoutingInv, ReportInv, RunsWhatItReports
<1> QED
  BY <1>1, RoutingInvariant, PTL

=============================================================================
