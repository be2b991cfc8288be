--------------------------- MODULE AgentLoop_proofs ---------------------------
(***************************************************************************)
(* The agent loop keeps its promises for any set of tools and calls and    *)
(* any values of its limits.  LoopInv is inductive; its parts are proved   *)
(* to be kept one after the other, TypeOK first.                           *)
(***************************************************************************)
EXTENDS AgentLoop, FiniteSetTheorems, SequenceTheorems, TLAPS

(***************************************************************************)
(* The batch.                                                              *)
(***************************************************************************)

\* The call at the head of the batch is one of it, and the rest has no others.
LEMMA BatchTail ==
    ASSUME batch \in Seq(Call), batch # <<>>
    PROVE  /\ Current \in Call
           /\ InBatch(Current)
           /\ Tail(batch) \in Seq(Call)
           /\ \A c \in Call :
                 (\E i \in DOMAIN Tail(batch) : Tail(batch)[i] = c) => InBatch(c)
<1>1. /\ Len(batch) \in Nat /\ DOMAIN batch = 1 .. Len(batch)
      /\ Len(batch) # 0
  BY LenProperties, EmptySeq
<1>2. /\ Head(batch) \in Call /\ Tail(batch) \in Seq(Call)
      /\ Len(Tail(batch)) = Len(batch) - 1
      /\ \A i \in 1 .. Len(Tail(batch)) : Tail(batch)[i] = batch[i + 1]
  BY HeadTailProperties
<1>3. DOMAIN Tail(batch) = 1 .. Len(Tail(batch))
  BY <1>2, LenProperties
<1>4. Head(batch) = batch[1]
  BY <1>1
<1>5. InBatch(Current)
  BY <1>1, <1>4 DEF InBatch, Places, Current
<1>6. ASSUME NEW c \in Call, NEW i \in DOMAIN Tail(batch), Tail(batch)[i] = c
      PROVE  InBatch(c)
  <2>1. i + 1 \in DOMAIN batch /\ batch[i + 1] = c
    BY <1>1, <1>2, <1>3, <1>6
  <2>2. QED
    BY <2>1 DEF InBatch, Places
<1>7. QED
  BY <1>2, <1>5, <1>6 DEF Current

\* A call that is appended is the only one that is new in the batch.
LEMMA BatchAppend ==
    ASSUME batch \in Seq(Call), NEW c \in Call
    PROVE  /\ Append(batch, c) \in Seq(Call)
           /\ \A d \in Call :
                 (\E i \in DOMAIN Append(batch, c) : Append(batch, c)[i] = d)
                     => InBatch(d) \/ d = c
<1> DEFINE longer == Append(batch, c)
<1>1. Len(batch) \in Nat /\ DOMAIN batch = 1 .. Len(batch)
  BY LenProperties
<1>2. /\ longer \in Seq(Call) /\ Len(longer) = Len(batch) + 1
      /\ \A i \in 1 .. Len(batch) : longer[i] = batch[i]
      /\ longer[Len(batch) + 1] = c
  BY AppendProperties
<1>3. DOMAIN longer = 1 .. Len(longer)
  BY <1>2, LenProperties
<1>4. ASSUME NEW d \in Call, NEW i \in DOMAIN longer, longer[i] = d
      PROVE  InBatch(d) \/ d = c
  <2>1. i \in 1 .. Len(batch) \/ i = Len(batch) + 1
    BY <1>1, <1>2, <1>3
  <2>2. QED
    BY <2>1, <1>1, <1>2, <1>4 DEF InBatch, Places
<1>5. QED
  BY <1>2, <1>4

\* An empty sequence is a batch, and no place is in it.
LEMMA BatchEmpty == <<>> \in Seq(Call) /\ DOMAIN <<>> = {}
<1>1. <<>> \in Seq(Call)
  BY EmptySeq
<1>2. Len(<<>>) = 0
  BY EmptySeq
<1>3. QED
  BY <1>1, <1>2, LenProperties

(***************************************************************************)
(* Types.                                                                  *)
(***************************************************************************)

\* The initial states have them.
LEMMA InitTypes == Init => TypeOK
<1> SUFFICES ASSUME Init PROVE TypeOK
  OBVIOUS
<1>1. /\ mutating \in BOOLEAN /\ pc = "asking" /\ machine = "open"
      /\ answer \in Answers /\ executed = {} /\ changed = {}
      /\ done = FALSE /\ lastEdit = FALSE
  BY DEF Init, Answers
<1>2. /\ round \in 0 .. MaxRounds /\ coached \in 0 .. 1
      /\ directives \in Nat /\ failures \in Nat /\ fixes \in Nat
  BY AgentAssumption DEF Init
<1>3. batch \in Seq(Call)
  BY BatchEmpty DEF Init
<1>4. seen \in [Call -> Nat] /\ named \in [Tool -> Nat] /\ ran \in [Call -> Nat]
  BY DEF Init
<1>5. QED
  BY <1>1, <1>2, <1>3, <1>4 DEF TypeOK

\* What a break, a new round and a terminal state leave behind is typed.
LEMMA BreakTypes ==
    ASSUME TypeOK, NEW text \in Answers, Break(text)
    PROVE  /\ pc' = "concluding" /\ round' \in 0 .. MaxRounds
           /\ batch' \in Seq(Call) /\ answer' \in Answers
  BY BatchEmpty DEF TypeOK, Break

LEMMA NextRoundTypes ==
    ASSUME TypeOK, round < MaxRounds, NextRound
    PROVE  pc' = "asking" /\ round' \in 0 .. MaxRounds /\ batch' \in Seq(Call)
  BY BatchEmpty, AgentAssumption DEF TypeOK, NextRound

LEMMA MachineTypes ==
    ASSUME TypeOK, NEW state \in {"completed", "failed", "blocked"}, Machine(state)
    PROVE  machine' \in {"open", "completed", "failed", "blocked"}
  BY DEF TypeOK, Machine

\* A directive of the detector and an unproductive stop are typed.
LEMMA CoachTypes ==
    ASSUME TypeOK, round < MaxRounds, coached = 0, Coach
    PROVE  TypeOK'
<1>1. pc' = "asking" /\ round' \in 0 .. MaxRounds /\ batch' \in Seq(Call)
  BY NextRoundTypes DEF Coach
<1>2. coached' \in 0 .. 1 /\ directives' \in Nat
  BY DEF Coach, TypeOK
<1>3. QED
  BY <1>1, <1>2 DEF Coach, TypeOK, counts, progress

LEMMA StopTypes ==
    ASSUME TypeOK, StopUnproductive
    PROVE  TypeOK'
<1>1. "stopped" \in Answers
  BY DEF Answers
<1>2. /\ pc' = "concluding" /\ round' \in 0 .. MaxRounds
      /\ batch' \in Seq(Call) /\ answer' \in Answers
  BY <1>1, BreakTypes DEF StopUnproductive
<1>3. machine' \in {"open", "completed", "failed", "blocked"}
  BY MachineTypes DEF StopUnproductive
<1>4. QED
  BY <1>2, <1>3 DEF StopUnproductive, TypeOK, counts, progress, advice

\* Every step keeps the types.
LEMMA NextTypes == TypeOK /\ [Next]_vars => TypeOK'
<1> SUFFICES ASSUME TypeOK, [Next]_vars PROVE TypeOK'
  OBVIOUS
<1>a. \A text \in {"stopped", "prose", "gathered", "approval", "error", "calls",
                   "not completed"} : text \in Answers
  BY DEF Answers
<1>1. CASE OutOfTime
  <2>1. StopUnproductive
    BY <1>1 DEF OutOfTime, StopUnproductive
  <2>2. QED
    BY <2>1, StopTypes
<1>2. CASE ProviderFails
  <2>1. machine' \in {"open", "completed", "failed", "blocked"}
    BY <1>2, MachineTypes DEF ProviderFails, TypeOK
  <2>2. QED
    BY <1>2, <1>a, <2>1 DEF ProviderFails, ReturnError, TypeOK, counts, progress, advice
<1>3. CASE ProviderBreaks
  BY <1>3, <1>a DEF ProviderBreaks, ReturnError, TypeOK, counts, progress, advice
<1>4. CASE FallBack
  <2>1. pc' = "asking" /\ round' \in 0 .. MaxRounds /\ batch' \in Seq(Call)
    BY <1>4, NextRoundTypes DEF FallBack, Asking
  <2>2. QED
    BY <1>4, <2>1 DEF FallBack, TypeOK, counts, progress, advice
<1>5. CASE Talk
  <2>1. CASE Owing /\ directives < MaxNudges
    <3>1. pc' = "asking" /\ round' \in 0 .. MaxRounds /\ batch' \in Seq(Call)
      BY <1>5, <2>1, NextRoundTypes DEF Talk, Asking
    <3>2. directives' \in Nat /\ answer' \in Answers
      <4>1. directives \in Nat
        BY DEF TypeOK
      <4>2. directives' = directives + 1 /\ answer' = "prose"
        BY <1>5, <2>1 DEF Talk
      <4>3. answer' \in Answers
        BY <4>2 DEF Answers
      <4>4. QED
        BY <4>1, <4>2, <4>3
    <3>3. QED
      BY <1>5, <3>1, <3>2 DEF Talk, TypeOK, counts, progress
  <2>2. CASE ~(Owing /\ directives < MaxNudges)
    <3>1. /\ pc' = "concluding" /\ round' \in 0 .. MaxRounds
          /\ batch' \in Seq(Call) /\ answer' \in Answers
      BY <1>5, <1>a, <2>2, BreakTypes DEF Talk
    <3>2. QED
      BY <1>5, <2>2, <3>1 DEF Talk, TypeOK, counts, progress
  <2>3. QED
    BY <2>1, <2>2
<1>6. ASSUME NEW c \in Call, Propose(c) PROVE TypeOK'
  <2>1. batch' \in Seq(Call) /\ answer' \in Answers
    BY <1>6, <1>a, BatchAppend DEF Propose, TypeOK
  <2>2. seen' \in [Call -> Nat] /\ named' \in [Tool -> Nat]
    <3>1. ToolOf[c] \in Tool
      BY <1>6, AgentAssumption
    <3>2. seen \in [Call -> Nat] /\ named \in [Tool -> Nat]
      BY DEF TypeOK
    <3>3. QED
      BY <1>6, <3>1, <3>2 DEF Propose
  <2>3. pc' = "reading" /\ round' = round /\ round < MaxRounds
    BY <1>6 DEF Propose, Asking, TypeOK
  <2>4. QED
    BY <1>6, <2>1, <2>2, <2>3 DEF Propose, TypeOK, progress, advice
<1>7. CASE StallOwing
  BY <1>7, CoachTypes, StopTypes DEF StallOwing, TypeOK
<1>8. CASE StallAnswering
  <2>1. CASE directives = 0
    <3>1. pc' = "asking" /\ round' \in 0 .. MaxRounds /\ batch' \in Seq(Call)
      BY <1>8, <2>1, NextRoundTypes DEF StallAnswering, TypeOK
    <3>2. QED
      BY <1>8, <2>1, <3>1 DEF StallAnswering, TypeOK, counts, progress
  <2>2. CASE directives # 0
    <3>1. /\ pc' = "concluding" /\ round' \in 0 .. MaxRounds
          /\ batch' \in Seq(Call) /\ answer' \in Answers
      BY <1>8, <1>a, <2>2, BreakTypes DEF StallAnswering
    <3>2. QED
      BY <1>8, <2>2, <3>1 DEF StallAnswering, TypeOK, counts, progress
  <2>3. QED
    BY <2>1, <2>2
<1>9. CASE StopRepeating
  BY <1>9, CoachTypes, StopTypes DEF StopRepeating, TypeOK
<1>10. CASE StopOverusing
  BY <1>10, StopTypes DEF StopOverusing
<1>11. CASE Admit
  BY <1>11 DEF Admit, TypeOK, counts, progress, advice
<1>12. CASE Skip
  <2>1. batch' \in Seq(Call)
    BY <1>12, BatchTail DEF Skip, Executing, TypeOK
  <2>2. QED
    BY <1>12, <2>1 DEF Skip, TypeOK, counts, progress, advice
<1>13. CASE NeedsApproval
  <2>1. Current \in Call
    BY <1>13, BatchTail DEF NeedsApproval, Executing, TypeOK
  <2>2. ran' \in [Call -> Nat] /\ changed' \in SUBSET Kind
    BY <1>13, <2>1 DEF NeedsApproval, Run, TypeOK
  <2>3. /\ pc' = "concluding" /\ round' \in 0 .. MaxRounds
        /\ batch' \in Seq(Call) /\ answer' \in Answers
    BY <1>13, <1>a, BreakTypes DEF NeedsApproval
  <2>4. QED
    BY <1>13, <2>2, <2>3 DEF NeedsApproval, TypeOK, counts, advice
<1>14. ASSUME NEW errs \in BOOLEAN, NEW passed \in BOOLEAN, Execute(errs, passed)
       PROVE  TypeOK'
  <2>1. /\ pc = "executing" /\ round < MaxRounds
        /\ Current \in Call /\ Tail(batch) \in Seq(Call)
    BY <1>14, BatchTail DEF Execute, Executing, TypeOK
  <2>a. CurrentKind \in Kind
    BY <2>1, AgentAssumption DEF CurrentKind
  <2>2. /\ executed' \in SUBSET Call /\ ran' \in [Call -> Nat]
        /\ changed' \in SUBSET Kind
    BY <1>14, <2>1, <2>a DEF Execute, Mark, Run, TypeOK
  <2>3. failures' \in Nat /\ done' \in BOOLEAN
    BY <1>14 DEF Execute, Record, TypeOK
  <2>4. /\ pc' \in {"concluding", "executing"} /\ batch' \in Seq(Call)
        /\ answer' \in Answers /\ round' = round
    <3>1. CASE Break("stopped")
      BY <1>a, <3>1, BatchEmpty DEF Break
    <3>2. CASE batch' = Tail(batch) /\ UNCHANGED <<pc, round, answer>>
      BY <2>1, <3>2 DEF TypeOK
    <3>3. QED
      BY <1>14, <3>1, <3>2 DEF Execute
  <2>5. machine' \in {"open", "completed", "failed", "blocked"}
    BY <1>14, MachineTypes DEF Execute, TypeOK
  <2>6. fixes' \in Nat /\ lastEdit' \in BOOLEAN
    <3>1. fixes \in Nat /\ lastEdit \in BOOLEAN
      BY DEF TypeOK
    <3>2. fixes' \in {fixes, fixes + 1}
      BY <1>14 DEF Execute
    <3>3. UNCHANGED lastEdit \/ NoteEdit
      BY <1>14 DEF Execute
    <3>4. NoteEdit => lastEdit' \in BOOLEAN
      BY Zenon DEF NoteEdit
    <3>5. QED
      BY <3>1, <3>2, <3>3, <3>4
  <2>7. UNCHANGED <<mutating, counts, advice>>
    BY <1>14 DEF Execute
  <2>8. QED
    BY <2>1, <2>2, <2>3, <2>4, <2>5, <2>6, <2>7 DEF TypeOK, counts, advice
<1>15. CASE RoundEnds
  <2>1. pc' = "asking" /\ round' \in 0 .. MaxRounds /\ batch' \in Seq(Call)
    BY <1>15, NextRoundTypes DEF RoundEnds, TypeOK
  <2>2. QED
    BY <1>15, <2>1 DEF RoundEnds, TypeOK, counts, progress, advice
<1>16. CASE OutOfRounds
  BY <1>16 DEF OutOfRounds, TypeOK, counts, progress, advice
<1>17. CASE Conclude
  <2>1. machine' \in {"open", "completed", "failed", "blocked"} /\ answer' \in Answers
    BY <1>17, <1>a, MachineTypes DEF Conclude, TypeOK
  <2>2. QED
    BY <1>17, <2>1 DEF Conclude, TypeOK, counts, progress, advice
<1>18. CASE UNCHANGED vars
  BY <1>18 DEF vars, TypeOK, counts, progress, advice
<1>19. QED
  BY <1>1, <1>2, <1>3, <1>4, <1>5, <1>6, <1>7, <1>8, <1>9, <1>10, <1>11, <1>12,
     <1>13, <1>14, <1>15, <1>16, <1>17, <1>18 DEF Next

(***************************************************************************)
(* What is run of each call and each tool.                                 *)
(***************************************************************************)

\* Nothing new is admitted to a tool: its limit stands.
LEMMA AdmittedShrinks ==
    ASSUME UseInv, NEW t \in Tool, CallsAdmitted(t)' \subseteq CallsAdmitted(t)
    PROVE  IsFiniteSet(CallsAdmitted(t)') /\ Cardinality(CallsAdmitted(t)') < MaxSameName
<1>1. IsFiniteSet(CallsAdmitted(t)) /\ Cardinality(CallsAdmitted(t)) < MaxSameName
  BY DEF UseInv
<1>2. /\ IsFiniteSet(CallsAdmitted(t)')
      /\ Cardinality(CallsAdmitted(t)') <= Cardinality(CallsAdmitted(t))
  BY <1>1, FS_Subset
<1>3. Cardinality(CallsAdmitted(t)) \in Nat /\ Cardinality(CallsAdmitted(t)') \in Nat
  BY <1>1, <1>2, FS_CardinalityType
<1>4. QED
  BY <1>1, <1>2, <1>3, AgentAssumption

\* A step that counts and runs nothing and does not go on executing.
LEMMA UseQuiet ==
    ASSUME UseInv, UNCHANGED <<counts, executed, ran>>, pc' # "executing",
           InLoop' => InLoop, \A c \in Call : InBatch(c)' => InBatch(c)
    PROVE  UseInv'
<1>1. seen' = seen /\ named' = named /\ executed' = executed /\ ran' = ran
  BY DEF counts
<1>2. \A c \in Call : ran'[c] > 0 \/ InBatch(c)' => seen'[c] > 0
  BY <1>1 DEF UseInv
<1>3. \A c \in Call : ran'[c] <= 1
  BY <1>1 DEF UseInv
<1>4. InLoop' => \A c \in Call : ran'[c] > 0 <=> c \in executed'
  BY <1>1 DEF UseInv
<1>5. ASSUME NEW t \in Tool
      PROVE  /\ IsFiniteSet(CallsSeen(t)') /\ Cardinality(CallsSeen(t)') <= named'[t]
             /\ IsFiniteSet(CallsAdmitted(t)')
             /\ Cardinality(CallsAdmitted(t)') < MaxSameName
  <2>1. CallsSeen(t)' = CallsSeen(t)
    BY <1>1 DEF CallsSeen
  <2>2. CallsAdmitted(t)' \subseteq CallsAdmitted(t)
    BY <1>1 DEF CallsAdmitted
  <2>3. QED
    BY <1>1, <2>1, <2>2, AdmittedShrinks DEF UseInv
<1>6. QED
  BY <1>2, <1>3, <1>4, <1>5 DEF UseInv

\* The head of the batch is run, and the batch gets no other calls.
LEMMA UseRun ==
    ASSUME TypeOK, UseInv, UNCHANGED counts, Executing, Current \notin executed,
           ran' = [ran EXCEPT ![Current] = @ + 1],
           \A c \in Call : InBatch(c)' => InBatch(c),
           InLoop' => executed' = executed \cup {Current}
    PROVE  UseInv'
<1>1. seen' = seen /\ named' = named /\ pc = "executing"
  BY DEF counts, Executing
<1>2. Current \in Call /\ InBatch(Current)
  BY BatchTail DEF Executing, TypeOK
<1>3. /\ ran'[Current] = ran[Current] + 1
      /\ \A c \in Call \ {Current} : ran'[c] = ran[c]
      /\ \A c \in Call : ran[c] \in Nat
  BY <1>2 DEF TypeOK
<1>4. ran[Current] = 0
  <2>1. ~(ran[Current] > 0)
    BY <1>1, <1>2 DEF UseInv, InLoop
  <2>2. QED
    BY <2>1, <1>2, <1>3
<1>5. \A c \in Call : ran'[c] > 0 \/ InBatch(c)' => seen'[c] > 0
  BY <1>1, <1>2, <1>3 DEF UseInv
<1>6. \A c \in Call : ran'[c] <= 1
  BY <1>2, <1>3, <1>4 DEF UseInv
<1>7. InLoop' => \A c \in Call : ran'[c] > 0 <=> c \in executed'
  <2>1. \A c \in Call : ran[c] > 0 <=> c \in executed
    BY <1>1 DEF UseInv, InLoop
  <2>2. QED
    BY <2>1, <1>2, <1>3, <1>4
<1>8. ASSUME NEW t \in Tool
      PROVE  /\ IsFiniteSet(CallsSeen(t)') /\ Cardinality(CallsSeen(t)') <= named'[t]
             /\ IsFiniteSet(CallsAdmitted(t)')
             /\ Cardinality(CallsAdmitted(t)') < MaxSameName
  <2>1. CallsSeen(t)' = CallsSeen(t)
    BY <1>1 DEF CallsSeen
  <2>2. CallsAdmitted(t)' \subseteq CallsAdmitted(t)
    BY <1>1, <1>2, <1>3 DEF CallsAdmitted
  <2>3. QED
    BY <1>1, <2>1, <2>2, AdmittedShrinks DEF UseInv
<1>9. QED
  BY <1>5, <1>6, <1>7, <1>8 DEF UseInv

\* A proposal is counted for its call and its tool.
LEMMA UsePropose ==
    ASSUME TypeOK, UseInv, NEW c \in Call, Propose(c)
    PROVE  UseInv'
<1>1. executed' = executed /\ ran' = ran /\ pc' = "reading" /\ InLoop
  BY DEF Propose, progress, InLoop, Asking
<1>2. /\ seen'[c] = seen[c] + 1 /\ \A d \in Call \ {c} : seen'[d] = seen[d]
      /\ \A d \in Call : seen[d] \in Nat /\ ran[d] \in Nat
  BY DEF Propose, TypeOK
<1>3. /\ ToolOf[c] \in Tool
      /\ named'[ToolOf[c]] = named[ToolOf[c]] + 1
      /\ \A t \in Tool \ {ToolOf[c]} : named'[t] = named[t]
      /\ \A t \in Tool : named[t] \in Nat
  BY AgentAssumption DEF Propose, TypeOK
<1>4. \A d \in Call : InBatch(d)' => InBatch(d) \/ d = c
  BY BatchAppend DEF Propose, TypeOK, InBatch, Places
<1>5. \A d \in Call : ran'[d] > 0 \/ InBatch(d)' => seen'[d] > 0
  BY <1>1, <1>2, <1>4 DEF UseInv
<1>6. \A d \in Call : ran'[d] <= 1
  BY <1>1 DEF UseInv
<1>7. \A d \in Call : ran'[d] > 0 <=> d \in executed'
  BY <1>1 DEF UseInv
<1>8. ASSUME NEW t \in Tool
      PROVE  /\ IsFiniteSet(CallsSeen(t)') /\ Cardinality(CallsSeen(t)') <= named'[t]
             /\ IsFiniteSet(CallsAdmitted(t)')
             /\ Cardinality(CallsAdmitted(t)') < MaxSameName
  <2>1. IsFiniteSet(CallsSeen(t)) /\ Cardinality(CallsSeen(t)) <= named[t]
    BY DEF UseInv
  <2>2. Cardinality(CallsSeen(t)) \in Nat
    BY <2>1, FS_CardinalityType
  <2>3. IsFiniteSet(CallsSeen(t)') /\ Cardinality(CallsSeen(t)') <= named'[t]
    <3>1. CASE t = ToolOf[c]
      <4>1. CallsSeen(t)' = CallsSeen(t) \cup {c}
        BY <1>2, <3>1 DEF CallsSeen
      <4>2. /\ IsFiniteSet(CallsSeen(t) \cup {c})
            /\ Cardinality(CallsSeen(t) \cup {c}) <= Cardinality(CallsSeen(t)) + 1
        BY <2>1, <2>2, FS_AddElement
      <4>3. Cardinality(CallsSeen(t) \cup {c}) \in Nat
        BY <4>2, FS_CardinalityType
      <4>4. QED
        BY <1>3, <2>1, <2>2, <3>1, <4>1, <4>2, <4>3
    <3>2. CASE t # ToolOf[c]
      <4>1. CallsSeen(t)' = CallsSeen(t)
        BY <1>2, <3>2 DEF CallsSeen
      <4>2. QED
        BY <1>3, <2>1, <3>2, <4>1
    <3>3. QED
      BY <3>1, <3>2
  <2>4. CallsAdmitted(t)' \subseteq CallsAdmitted(t)
    BY <1>1 DEF CallsAdmitted
  <2>5. QED
    BY <2>3, <2>4, AdmittedShrinks
<1>9. QED
  BY <1>5, <1>6, <1>7, <1>8 DEF UseInv

\* An output is admitted when no tool in it is over its limit.
LEMMA UseAdmit ==
    ASSUME TypeOK, UseInv, Admit
    PROVE  UseInv'
<1>1. /\ executed' = executed /\ ran' = ran /\ seen' = seen /\ named' = named
      /\ batch' = batch /\ InLoop
  BY DEF Admit, progress, counts, InLoop
<1>2. \A c \in Call : InBatch(c)' <=> InBatch(c)
  BY <1>1 DEF InBatch, Places
<1>3. ASSUME NEW t \in Tool
      PROVE  /\ IsFiniteSet(CallsSeen(t)') /\ Cardinality(CallsSeen(t)') <= named'[t]
             /\ IsFiniteSet(CallsAdmitted(t)')
             /\ Cardinality(CallsAdmitted(t)') < MaxSameName
  <2>1. /\ CallsSeen(t)' = CallsSeen(t)
        /\ IsFiniteSet(CallsSeen(t)) /\ Cardinality(CallsSeen(t)) <= named[t]
    BY <1>1 DEF CallsSeen, UseInv
  <2>2. CASE \E i \in Places : ToolOf[batch[i]] = t
    <3>1. named[t] < MaxSameName
      <4>1. ~Overused(t)
        BY <2>2 DEF Admit, Offends
      <4>2. named[t] \in Nat
        BY DEF TypeOK
      <4>3. QED
        BY <4>1, <4>2, AgentAssumption DEF Overused
    <3>2. CallsAdmitted(t)' \subseteq CallsSeen(t)
      BY <1>1, <1>2 DEF CallsAdmitted, CallsSeen, UseInv
    <3>3. /\ IsFiniteSet(CallsAdmitted(t)')
          /\ Cardinality(CallsAdmitted(t)') <= Cardinality(CallsSeen(t))
      BY <2>1, <3>2, FS_Subset
    <3>4. Cardinality(CallsAdmitted(t)') \in Nat /\ Cardinality(CallsSeen(t)) \in Nat
      BY <2>1, <3>3, FS_CardinalityType
    <3>5. named[t] \in Nat
      BY DEF TypeOK
    <3>6. QED
      BY <1>1, <2>1, <3>1, <3>3, <3>4, <3>5, AgentAssumption
  <2>3. CASE ~\E i \in Places : ToolOf[batch[i]] = t
    <3>1. CallsAdmitted(t)' \subseteq CallsAdmitted(t)
      BY <1>1, <1>2, <2>3 DEF CallsAdmitted, InBatch
    <3>2. QED
      BY <1>1, <2>1, <3>1, AdmittedShrinks
  <2>4. QED
    BY <2>2, <2>3
<1>4. QED
  BY <1>1, <1>2, <1>3 DEF UseInv

\* A round or a loop that ends leaves an empty batch.
LEMMA BatchCleared ==
    ASSUME NextRound \/ (\E text \in Answers : Break(text))
    PROVE  \A c \in Call : ~InBatch(c)'
<1>1. batch' = <<>>
  BY DEF NextRound, Break
<1>2. QED
  BY <1>1, BatchEmpty DEF InBatch, Places

\* Every step keeps UseInv.
LEMMA NextUse == TypeOK /\ UseInv /\ [Next]_vars => UseInv'
<1> SUFFICES ASSUME TypeOK, UseInv, [Next]_vars PROVE UseInv'
  OBVIOUS
<1> USE DEF InLoop
<1>a. /\ "stopped" \in Answers /\ "prose" \in Answers /\ "gathered" \in Answers
      /\ "approval" \in Answers
  BY DEF Answers
<1>b. CASE Coach /\ pc = "reading"
  <2>1. UNCHANGED <<counts, executed, ran>> /\ pc' = "asking"
    BY <1>b DEF Coach, NextRound, progress
  <2>2. QED
    BY <1>b, <2>1, BatchCleared, UseQuiet DEF Coach
<1>c. CASE StopUnproductive
  <2>1. UNCHANGED <<counts, executed, ran>> /\ pc' = "concluding"
    BY <1>c DEF StopUnproductive, Break, progress
  <2>2. QED
    BY <1>a, <1>c, <2>1, BatchCleared, UseQuiet DEF StopUnproductive
<1>1. CASE OutOfTime
  BY <1>1, <1>c DEF OutOfTime, StopUnproductive
<1>2. CASE ProviderFails \/ ProviderBreaks
  <2>1. UNCHANGED <<counts, executed, ran, batch>> /\ pc' = "ended"
    BY <1>2 DEF ProviderFails, ProviderBreaks, ReturnError, progress
  <2>2. \A c \in Call : InBatch(c)' => InBatch(c)
    BY <2>1 DEF InBatch, Places
  <2>3. QED
    BY <2>1, <2>2, UseQuiet
<1>3. CASE FallBack
  <2>1. UNCHANGED <<counts, executed, ran>> /\ pc' = "asking" /\ pc = "asking"
    BY <1>3 DEF FallBack, Asking, NextRound, progress
  <2>2. QED
    BY <1>3, <2>1, BatchCleared, UseQuiet DEF FallBack
<1>4. CASE Talk
  <2>1. UNCHANGED <<counts, executed, ran>> /\ pc' # "executing" /\ pc = "asking"
    BY <1>4 DEF Talk, Asking, NextRound, Break, progress
  <2>2. \A c \in Call : ~InBatch(c)'
    BY <1>4, <1>a, BatchCleared DEF Talk
  <2>3. QED
    BY <2>1, <2>2, UseQuiet
<1>5. ASSUME NEW c \in Call, Propose(c) PROVE UseInv'
  BY <1>5, UsePropose
<1>6. CASE StallOwing
  BY <1>6, <1>b, <1>c DEF StallOwing
<1>7. CASE StallAnswering
  <2>1. UNCHANGED <<counts, executed, ran>> /\ pc' # "executing" /\ pc = "reading"
    BY <1>7 DEF StallAnswering, NextRound, Break, progress
  <2>2. \A c \in Call : ~InBatch(c)'
    BY <1>7, <1>a, BatchCleared DEF StallAnswering
  <2>3. QED
    BY <2>1, <2>2, UseQuiet
<1>8. CASE StopRepeating
  BY <1>8, <1>b, <1>c DEF StopRepeating
<1>9. CASE StopOverusing
  BY <1>9, <1>c DEF StopOverusing
<1>10. CASE Admit
  BY <1>10, UseAdmit
<1>11. CASE Skip
  <2>1. /\ seen' = seen /\ named' = named /\ executed' = executed /\ ran' = ran
        /\ pc' = "executing" /\ pc = "executing" /\ batch' = Tail(batch)
    BY <1>11 DEF Skip, Executing, counts, progress
  <2>2. \A c \in Call : InBatch(c)' => InBatch(c)
    BY <1>11, <2>1, BatchTail DEF Skip, Executing, TypeOK, InBatch, Places
  <2>3. ASSUME NEW t \in Tool
        PROVE  /\ IsFiniteSet(CallsSeen(t)')
               /\ Cardinality(CallsSeen(t)') <= named'[t]
               /\ IsFiniteSet(CallsAdmitted(t)')
               /\ Cardinality(CallsAdmitted(t)') < MaxSameName
    <3>1. CallsSeen(t)' = CallsSeen(t)
      BY <2>1 DEF CallsSeen
    <3>2. CallsAdmitted(t)' \subseteq CallsAdmitted(t)
      BY <2>1, <2>2 DEF CallsAdmitted
    <3>3. QED
      BY <2>1, <3>1, <3>2, AdmittedShrinks DEF UseInv
  <2>4. QED
    BY <2>1, <2>2, <2>3 DEF UseInv
<1>12. CASE NeedsApproval
  <2>1. /\ UNCHANGED counts /\ Executing /\ Current \notin executed
        /\ ran' = [ran EXCEPT ![Current] = @ + 1] /\ pc' = "concluding"
    BY <1>12 DEF NeedsApproval, Run, Break
  <2>2. \A c \in Call : ~InBatch(c)'
    BY <1>12, <1>a, BatchCleared DEF NeedsApproval
  <2>3. QED
    BY <2>1, <2>2, UseRun
<1>13. ASSUME NEW errs \in BOOLEAN, NEW passed \in BOOLEAN, Execute(errs, passed)
       PROVE  UseInv'
  <2>1. /\ UNCHANGED counts /\ Executing /\ Current \notin executed
        /\ ran' = [ran EXCEPT ![Current] = @ + 1]
        /\ executed' = executed \cup {Current}
    BY <1>13 DEF Execute, Run, Mark
  <2>2. \A c \in Call : InBatch(c)' => InBatch(c)
    <3>1. CASE Break("stopped")
      BY <1>a, <3>1, BatchCleared
    <3>2. CASE batch' = Tail(batch)
      BY <2>1, <3>2, BatchTail DEF Executing, TypeOK, InBatch, Places
    <3>3. QED
      BY <1>13, <3>1, <3>2 DEF Execute
  <2>3. QED
    BY <2>1, <2>2, UseRun
<1>14. CASE RoundEnds
  <2>1. UNCHANGED <<counts, executed, ran>> /\ pc' = "asking" /\ pc = "executing"
    BY <1>14 DEF RoundEnds, NextRound, progress
  <2>2. QED
    BY <1>14, <2>1, BatchCleared, UseQuiet DEF RoundEnds
<1>15. CASE OutOfRounds \/ Conclude
  <2>1. /\ UNCHANGED <<counts, executed, ran, batch>>
        /\ pc' \in {"concluding", "ended"}
    BY <1>15 DEF OutOfRounds, Conclude, progress
  <2>2. \A c \in Call : InBatch(c)' => InBatch(c)
    BY <2>1 DEF InBatch, Places
  <2>3. QED
    BY <2>1, <2>2, UseQuiet
<1>16. CASE UNCHANGED vars
  BY <1>16 DEF vars, counts, progress, UseInv, CallsSeen, CallsAdmitted, InBatch, Places
<1>17. QED
  BY <1>1, <1>2, <1>3, <1>4, <1>5, <1>6, <1>7, <1>8, <1>9, <1>10, <1>11, <1>12,
     <1>13, <1>14, <1>15, <1>16 DEF Next

(***************************************************************************)
(* What the loop knows of the changes, and how it concludes.               *)
(***************************************************************************)

\* Every step keeps ChangeInv.
LEMMA NextChange == TypeOK /\ ChangeInv /\ [Next]_vars => ChangeInv'
<1> SUFFICES ASSUME TypeOK, ChangeInv, [Next]_vars PROVE ChangeInv'
  OBVIOUS
<1>1. CASE /\ UNCHANGED <<done, changed, mutating>>
           /\ pc # "ended"
           /\ machine' # "completed" \/ machine' = machine
           /\ answer' # "not completed" \/ answer' = answer
  BY <1>1 DEF ChangeInv
<1>2. CASE OutOfTime \/ ProviderFails \/ ProviderBreaks \/ FallBack \/ Talk
  BY <1>1, <1>2 DEF OutOfTime, ProviderFails, ProviderBreaks, FallBack, Talk, Asking,
     ReturnError, NextRound, Break, Machine, progress
<1>3. ASSUME NEW c \in Call, Propose(c) PROVE ChangeInv'
  BY <1>1, <1>3 DEF Propose, Asking, progress
<1>4. CASE StallOwing \/ StopRepeating \/ StopOverusing
  <2>1. pc = "reading" /\ (Coach \/ StopUnproductive)
    BY <1>4 DEF StallOwing, StopRepeating, StopOverusing
  <2>2. CASE Coach
    BY <1>1, <2>1, <2>2 DEF Coach, progress
  <2>3. CASE StopUnproductive
    BY <1>1, <2>1, <2>3 DEF StopUnproductive, Break, Machine, progress
  <2>4. QED
    BY <2>1, <2>2, <2>3
<1>5. CASE StallAnswering \/ Admit \/ Skip \/ RoundEnds \/ OutOfRounds
  BY <1>1, <1>5 DEF StallAnswering, Admit, Skip, RoundEnds, OutOfRounds, Executing,
     NextRound, Break, progress
<1>6. CASE NeedsApproval
  <2>1. changed' = changed
    BY <1>6 DEF NeedsApproval, Run, TypeOK
  <2>2. QED
    BY <1>1, <1>6, <2>1 DEF NeedsApproval, Executing, Break
<1>7. ASSUME NEW errs \in BOOLEAN, NEW passed \in BOOLEAN, Execute(errs, passed)
      PROVE  ChangeInv'
  <2>1. /\ pc = "executing" /\ pc' # "ended" /\ mutating' = mutating
        /\ machine # "completed" /\ answer # "not completed"
    BY <1>7 DEF Execute, Executing, Break, ChangeInv
  <2>2. machine' # "completed" /\ answer' # "not completed"
    BY <1>7, <2>1 DEF Execute, Break, Machine
  <2>3. changed' = IF ~errs /\ CurrentKind # "other" THEN changed \cup {CurrentKind} ELSE changed
    BY <1>7 DEF Execute, Run
  <2>4. done' <=> done \/ (~errs /\ CurrentKind \in Counted)
    BY <1>7, Zenon DEF Execute, Record
  <2>5. changed' \cap Counted # {} <=> changed \cap Counted # {} \/ (~errs /\ CurrentKind \in Counted)
    BY <2>3 DEF Counted
  <2>6. QED
    BY <2>1, <2>2, <2>4, <2>5 DEF ChangeInv
<1>8. CASE Conclude
  BY <1>8 DEF Conclude, Machine, Owing, ChangeInv, progress
<1>9. CASE UNCHANGED vars
  BY <1>9 DEF vars, progress, ChangeInv, Owing
<1>10. QED
  BY <1>2, <1>3, <1>4, <1>5, <1>6, <1>7, <1>8, <1>9 DEF Next

(***************************************************************************)
(* Edits, commands and fix cycles.                                         *)
(***************************************************************************)

\* A call that is run for the first time is one more of its kind.
LEMMA RunGrows ==
    ASSUME TypeOK, UseInv, FixInv, Executing, Current \notin executed,
           ran' = [ran EXCEPT ![Current] = @ + 1], NEW k \in Kind
    PROVE  /\ IsFiniteSet(RunOfKind(k)')
           /\ Cardinality(RunOfKind(k)) \in Nat
           /\ Cardinality(RunOfKind(k)')
                = Cardinality(RunOfKind(k)) + (IF CurrentKind = k THEN 1 ELSE 0)
<1>1. Current \in Call /\ pc = "executing"
  BY BatchTail DEF Executing, TypeOK
<1>2. /\ ran'[Current] = ran[Current] + 1
      /\ \A c \in Call \ {Current} : ran'[c] = ran[c]
      /\ \A c \in Call : ran[c] \in Nat
  BY <1>1 DEF TypeOK
<1>3. ran[Current] = 0
  <2>1. ~(ran[Current] > 0)
    BY <1>1 DEF UseInv, InLoop
  <2>2. QED
    BY <2>1, <1>1, <1>2
<1>4. IsFiniteSet(RunOfKind(k)) /\ Cardinality(RunOfKind(k)) \in Nat
  BY FS_CardinalityType DEF FixInv
<1>5. CASE CurrentKind = k
  <2>1. RunOfKind(k)' = RunOfKind(k) \cup {Current} /\ Current \notin RunOfKind(k)
    BY <1>1, <1>2, <1>3, <1>5 DEF RunOfKind, CurrentKind
  <2>2. QED
    BY <1>4, <1>5, <2>1, FS_AddElement
<1>6. CASE CurrentKind # k
  <2>1. RunOfKind(k)' = RunOfKind(k)
    BY <1>1, <1>2, <1>3, <1>6 DEF RunOfKind, CurrentKind
  <2>2. QED
    BY <1>4, <1>6, <2>1
<1>7. QED
  BY <1>5, <1>6

\* Every step keeps FixInv.
LEMMA NextFix == TypeOK /\ UseInv /\ FixInv /\ [Next]_vars => FixInv'
<1> SUFFICES ASSUME TypeOK, UseInv, FixInv, [Next]_vars PROVE FixInv'
  OBVIOUS
<1>1. CASE UNCHANGED <<fixes, lastEdit, ran>>
  BY <1>1 DEF FixInv, RunOfKind
<1>2. CASE OutOfTime \/ ProviderFails \/ ProviderBreaks \/ FallBack \/ Talk
  BY <1>1, <1>2 DEF OutOfTime, ProviderFails, ProviderBreaks, FallBack, Talk,
     ReturnError, progress
<1>3. ASSUME NEW c \in Call, Propose(c) PROVE FixInv'
  BY <1>1, <1>3 DEF Propose, progress
<1>4. CASE StallOwing \/ StopRepeating \/ StopOverusing
  BY <1>1, <1>4 DEF StallOwing, StopRepeating, StopOverusing, Coach, StopUnproductive,
     progress
<1>5. CASE \/ StallAnswering \/ Admit \/ Skip \/ RoundEnds \/ OutOfRounds \/ Conclude
           \/ UNCHANGED vars
  BY <1>1, <1>5 DEF StallAnswering, Admit, Skip, RoundEnds, OutOfRounds, Conclude,
     vars, progress
<1>a. "edit" \in Kind /\ "execute" \in Kind
  BY DEF Kind
<1>b. fixes \in Nat /\ lastEdit \in BOOLEAN
  BY DEF TypeOK
<1>6. CASE NeedsApproval
  <2>1. /\ Executing /\ Current \notin executed /\ UNCHANGED <<fixes, lastEdit>>
        /\ ran' = [ran EXCEPT ![Current] = @ + 1]
    BY <1>6 DEF NeedsApproval, Run
  <2>2. \A k \in Kind : /\ IsFiniteSet(RunOfKind(k)')
                        /\ Cardinality(RunOfKind(k)) \in Nat
                        /\ Cardinality(RunOfKind(k)') \in Nat
                        /\ Cardinality(RunOfKind(k)) <= Cardinality(RunOfKind(k)')
    BY <2>1, RunGrows
  <2>3. QED
    BY <1>a, <1>b, <2>1, <2>2 DEF FixInv
<1>7. ASSUME NEW errs \in BOOLEAN, NEW passed \in BOOLEAN, Execute(errs, passed)
      PROVE  FixInv'
  <2>1. /\ Executing /\ Current \notin executed
        /\ ran' = [ran EXCEPT ![Current] = @ + 1]
    BY <1>7 DEF Execute, Run
  <2>2. \A k \in Kind :
          /\ IsFiniteSet(RunOfKind(k)')
          /\ Cardinality(RunOfKind(k)) \in Nat
          /\ Cardinality(RunOfKind(k)')
               = Cardinality(RunOfKind(k)) + (IF CurrentKind = k THEN 1 ELSE 0)
    BY <2>1, RunGrows
  <2> DEFINE E == Cardinality(RunOfKind("edit"))
             X == Cardinality(RunOfKind("execute"))
  <2>3. /\ E \in Nat /\ E' = E + (IF CurrentKind = "edit" THEN 1 ELSE 0)
        /\ X \in Nat /\ X' = X + (IF CurrentKind = "execute" THEN 1 ELSE 0)
    BY <1>a, <2>2
  <2>4. fixes <= E /\ (lastEdit => fixes < E) /\ fixes <= X
    BY DEF FixInv
  <2> HIDE DEF E, X
  <2>5. CASE UNCHANGED <<fixes, lastEdit>>
    <3>1. fixes' <= E' /\ (lastEdit' => fixes' < E') /\ fixes' <= X'
      BY <1>b, <2>3, <2>4, <2>5
    <3>2. QED
      BY <2>2, <3>1 DEF FixInv, E, X
  <2>6. CASE /\ fixes' = IF CurrentKind = "execute" /\ lastEdit THEN fixes + 1 ELSE fixes
             /\ NoteEdit
    <3>1. lastEdit' <=> CurrentKind = "edit"
      BY <2>6, Zenon DEF NoteEdit
    <3>2. fixes' <= E' /\ (lastEdit' => fixes' < E') /\ fixes' <= X'
      BY <1>b, <2>3, <2>4, <2>6, <3>1
    <3>3. QED
      BY <2>2, <3>2 DEF FixInv, E, X
  <2>7. QED
    BY <1>7, <2>5, <2>6 DEF Execute
<1>8. QED
  BY <1>2, <1>3, <1>4, <1>5, <1>6, <1>7 DEF Next

(***************************************************************************)
(* Directives.                                                             *)
(***************************************************************************)

\* Every step keeps the bound on the directives.
LEMMA NextAdvice ==
    TypeOK /\ directives <= MaxNudges + coached /\ [Next]_vars
        => directives' <= MaxNudges + coached'
<1> SUFFICES ASSUME TypeOK, directives <= MaxNudges + coached, [Next]_vars
             PROVE  directives' <= MaxNudges + coached'
  OBVIOUS
<1>a. /\ directives \in Nat /\ coached \in 0 .. 1
      /\ MaxNudges \in Nat /\ MaxNudges >= 1
  BY AgentAssumption DEF TypeOK
<1>1. CASE UNCHANGED advice
  BY <1>1 DEF advice
<1>2. CASE Coach
  BY <1>a, <1>2 DEF Coach
<1>3. CASE OutOfTime \/ ProviderFails \/ ProviderBreaks \/ FallBack
  BY <1>1, <1>3 DEF OutOfTime, ProviderFails, ProviderBreaks, FallBack, ReturnError
<1>4. CASE Talk
  BY <1>a, <1>4 DEF Talk
<1>5. ASSUME NEW c \in Call, Propose(c) PROVE directives' <= MaxNudges + coached'
  BY <1>1, <1>5 DEF Propose
<1>6. CASE StallOwing \/ StopRepeating \/ StopOverusing
  BY <1>1, <1>2, <1>6 DEF StallOwing, StopRepeating, StopOverusing, StopUnproductive
<1>7. CASE StallAnswering
  BY <1>a, <1>7 DEF StallAnswering
<1>8. CASE Admit \/ Skip \/ NeedsApproval
  BY <1>1, <1>8 DEF Admit, Skip, NeedsApproval, advice
<1>9. ASSUME NEW errs \in BOOLEAN, NEW passed \in BOOLEAN, Execute(errs, passed)
      PROVE  directives' <= MaxNudges + coached'
  BY <1>1, <1>9 DEF Execute
<1>10. CASE RoundEnds \/ OutOfRounds \/ Conclude \/ UNCHANGED vars
  BY <1>1, <1>10 DEF RoundEnds, OutOfRounds, Conclude, vars, advice
<1>11. QED
  BY <1>3, <1>4, <1>5, <1>6, <1>7, <1>8, <1>9, <1>10 DEF Next

(***************************************************************************)
(* The theorems.                                                           *)
(***************************************************************************)

\* The invariant holds of a request that has just reached the loop.
LEMMA InitInv == Init => LoopInv
<1> SUFFICES ASSUME Init PROVE LoopInv
  OBVIOUS
<1>1. TypeOK
  BY InitTypes
<1>2. \A c \in Call : ~InBatch(c)
  BY BatchEmpty DEF Init, InBatch, Places
<1>3. \A c \in Call : seen[c] = 0 /\ ran[c] = 0
  BY DEF Init
<1>4. IsFiniteSet({}) /\ Cardinality({}) = 0
  BY FS_EmptySet
<1>5. UseInv
  <2>1. ASSUME NEW t \in Tool
        PROVE  /\ IsFiniteSet(CallsSeen(t)) /\ Cardinality(CallsSeen(t)) <= named[t]
               /\ IsFiniteSet(CallsAdmitted(t))
               /\ Cardinality(CallsAdmitted(t)) < MaxSameName
    <3>1. CallsSeen(t) = {} /\ CallsAdmitted(t) = {}
      BY <1>2, <1>3 DEF CallsSeen, CallsAdmitted
    <3>2. named[t] = 0
      BY DEF Init
    <3>3. QED
      BY <1>4, <3>1, <3>2, AgentAssumption
  <2>2. \A c \in Call : ran[c] > 0 <=> c \in executed
    BY <1>3 DEF Init
  <2>3. QED
    BY <1>2, <1>3, <2>1, <2>2 DEF UseInv
<1>6. ChangeInv
  BY DEF Init, ChangeInv
<1>7. FixInv
  <2>1. \A k \in Kind : RunOfKind(k) = {}
    BY <1>3 DEF RunOfKind
  <2>2. "edit" \in Kind /\ "execute" \in Kind
    BY DEF Kind
  <2>3. \A k \in Kind : IsFiniteSet(RunOfKind(k)) /\ Cardinality(RunOfKind(k)) = 0
    BY <1>4, <2>1
  <2>4. fixes = 0 /\ ~lastEdit
    BY DEF Init
  <2>5. QED
    BY <2>2, <2>3, <2>4 DEF FixInv
<1>8. directives <= MaxNudges + coached
  BY AgentAssumption DEF Init
<1>9. QED
  BY <1>1, <1>5, <1>6, <1>7, <1>8 DEF LoopInv

\* The agent loop: its counters, its records and its ending always agree.
THEOREM LoopInvariant == Spec => []LoopInv
<1>1. LoopInv /\ [Next]_vars => LoopInv'
  BY NextTypes, NextUse, NextChange, NextFix, NextAdvice DEF LoopInv
<1>2. QED
  BY InitInv, <1>1, PTL DEF Spec

\* Every variable of the loop keeps its type.
THEOREM TypesHold == Spec => []TypeOK
<1>1. LoopInv => TypeOK
  BY DEF LoopInv
<1>2. QED
  BY <1>1, LoopInvariant, PTL

\* No call is handed over for execution twice, whatever outputs it appears in.
THEOREM CallsRunOnce == Spec => []ExecutedOnce
<1>1. LoopInv => ExecutedOnce
  BY DEF LoopInv, UseInv, ExecutedOnce
<1>2. QED
  BY <1>1, LoopInvariant, PTL

\* What has been run of a tool is finite and under the limit on its name.
LEMMA RunsUnderLimit ==
    ASSUME UseInv, NEW t \in Tool
    PROVE  /\ IsFiniteSet(CallsRun(t)) /\ Cardinality(CallsRun(t)) \in Nat
           /\ Cardinality(CallsRun(t)) < MaxSameName
<1>1. IsFiniteSet(CallsAdmitted(t)) /\ Cardinality(CallsAdmitted(t)) < MaxSameName
  BY DEF UseInv
<1>2. CallsRun(t) \subseteq CallsAdmitted(t)
  BY DEF CallsRun, CallsAdmitted
<1>3. /\ IsFiniteSet(CallsRun(t))
      /\ Cardinality(CallsRun(t)) <= Cardinality(CallsAdmitted(t))
  BY <1>1, <1>2, FS_Subset
<1>4. Cardinality(CallsRun(t)) \in Nat /\ Cardinality(CallsAdmitted(t)) \in Nat
  BY <1>1, <1>3, FS_CardinalityType
<1>5. QED
  BY <1>1, <1>3, <1>4, AgentAssumption

\* No tool is run as often as the limit on proposals of its name.
THEOREM ToolUseIsBounded == Spec => []ToolUseBounded
<1>1. LoopInv => ToolUseBounded
  BY RunsUnderLimit DEF LoopInv, ToolUseBounded
<1>2. QED
  BY <1>1, LoopInvariant, PTL

\* A mutating task is never completed without a call that changed something.
THEOREM CompletionHasChange == Spec => []CompletedHasChanged
<1>1. LoopInv => CompletedHasChanged
  BY DEF LoopInv, ChangeInv, CompletedHasChanged, Owing
<1>2. QED
  BY <1>1, LoopInvariant, PTL

\* An answer marked as not completed hides no call that is counted: no edit,
\* no created file and no command that returned without an error.
THEOREM MarksHideNoCounted == Spec => []MarkHidesNoCounted
<1>1. LoopInv => MarkHidesNoCounted
  BY DEF LoopInv, TypeOK, ChangeInv, MarkHidesNoCounted, Owing
<1>2. QED
  BY <1>1, LoopInvariant, PTL

\* The two counters of directives together bound what a request is told.
THEOREM DirectivesAreBounded == Spec => []DirectivesBounded
<1>1. LoopInv => DirectivesBounded
  BY AgentAssumption DEF LoopInv, TypeOK, DirectivesBounded
<1>2. QED
  BY <1>1, LoopInvariant, PTL

\* A fix cycle counted is an edit and a command that were both run.
THEOREM FixCyclesAreReal == Spec => []FixCyclesArePairs
<1>1. LoopInv => FixCyclesArePairs
  BY DEF LoopInv, FixInv, FixCyclesArePairs
<1>2. QED
  BY <1>1, LoopInvariant, PTL

\* With a limit on fix cycles that is not below the one on tool names, as
\* shipped, the first is dead code: only one tool executes commands.
THEOREM FixLimitIsDead == Spec => []FixLimitUnreached
<1>1. ASSUME LoopInv, MaxFixCycles >= MaxSameName
      PROVE  fixes < MaxFixCycles
  <2>1. /\ fixes \in Nat /\ fixes <= Cardinality(RunOfKind("execute"))
        /\ IsFiniteSet(RunOfKind("execute"))
    BY <1>1 DEF LoopInv, TypeOK, FixInv, Kind
  <2>2. Cardinality(RunOfKind("execute")) \in Nat
    BY <2>1, FS_CardinalityType
  <2>3. CASE \E t \in Tool : KindOf[t] = "execute"
    <3>1. PICK t \in Tool : KindOf[t] = "execute"
      BY <2>3
    <3>2. RunOfKind("execute") \subseteq CallsRun(t)
      BY <3>1, AgentAssumption DEF RunOfKind, CallsRun
    <3>3. /\ IsFiniteSet(CallsRun(t)) /\ Cardinality(CallsRun(t)) \in Nat
          /\ Cardinality(CallsRun(t)) < MaxSameName
      BY <1>1, RunsUnderLimit DEF LoopInv
    <3>4. Cardinality(RunOfKind("execute")) <= Cardinality(CallsRun(t))
      BY <3>2, <3>3, FS_Subset
    <3>5. QED
      BY <1>1, <2>1, <2>2, <3>3, <3>4, AgentAssumption
  <2>4. CASE ~\E t \in Tool : KindOf[t] = "execute"
    <3>1. RunOfKind("execute") = {}
      BY <2>4, AgentAssumption DEF RunOfKind
    <3>2. QED
      BY <2>1, <3>1, FS_EmptySet, AgentAssumption
  <2>5. QED
    BY <2>3, <2>4
<1>2. LoopInv => FixLimitUnreached
  BY <1>1 DEF FixLimitUnreached
<1>3. QED
  BY <1>2, LoopInvariant, PTL
=============================================================================
