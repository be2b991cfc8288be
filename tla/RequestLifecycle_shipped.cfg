\* The shipped relation: an execution may last twice the stale threshold.
SPECIFICATION Spec
CONSTANTS
    Request = {r1}
    s1 = s1
    s2 = s2
    Session = {s1}
    SessionOf <- OneSession
    Handler = {h1, h2}
    NoRequest = NoRequest
    Answer = {a1}
    StaleAfter = 1
    ExecBudget = 2
    MaxRemembered = 2
    MaxTakeovers = 2
CHECK_DEADLOCK FALSE
INVARIANTS OneOwner FirstTakeoverIsOfTheSlow MemoryOnlyOfAnswers  RowCoherent
PROPERTIES CompletedIsFinal ImplementsLedger
