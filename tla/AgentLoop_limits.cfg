\* Every limit of the loop within reach of four rounds.
SPECIFICATION Spec
CONSTANTS
    edit = edit
    run = run
    look = look
    copy = copy
    e1 = e1
    e2 = e2
    x1 = x1
    x2 = x2
    x3 = x3
    l1 = l1
    c1 = c1
    Call = {e1, e2, x1, x2, x3, l1, c1}
    Tool = {edit, run, look, copy}
    ToolOf <- MCToolOf
    KindOf <- MCKindOf
    MaxRounds = 4
    MaxSameCalls = 2
    MaxSameName = 3
    MaxFixCycles = 2
    MaxFailures = 2
    MaxNudges = 1
    MaxBatch = 2
SYMMETRY Symmetry
CHECK_DEADLOCK FALSE
INVARIANTS
    ExecutedOnce ToolUseBounded CompletedHasChanged MarkHidesNoCounted
    DirectivesBounded
