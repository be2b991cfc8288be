\* Every text, one guarded tool and one that is not, two executions.
SPECIFICATION Spec
CONSTANTS
    read = read
    delete = delete
    Tool = {read, delete}
    Guarded = {delete}
    Customs <- MCCustoms
    NamedRules = {}
    ComplianceEnabled = TRUE
    MaxTurns = 2
CHECK_DEADLOCK FALSE
INVARIANTS
    GuardedToolsWereGranted DangerIsApproved CompletedWasChecked
PROPERTIES
    ImplementsGovernance
