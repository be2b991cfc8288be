CONSTANTS
    Request = {q, r}
    Call <- MCCall
    Word <- MCWord
    Path = {"a", "b", "d", "d/a"}
    Resolves <- MCResolves
    InCwd = {"/a", "/b", "/d"}
    Wide = {"wide"}
    Number = {"#7"}
    Str <- MCStr
    Plan <- MCPlan
    TestOf <- MCTestOf
    Inside <- MCInside
    WorkerOf <- MCWorkerOf
    Protected = {"d"}
    Claims <- MCClaims
    MaxCalls = 3

SPECIFICATION Spec
SYMMETRY Requests
INVARIANTS NormalizedIsFaithful EditsSurvive FailureIsExplained ClaimIsBacked
CHECK_DEADLOCK FALSE
