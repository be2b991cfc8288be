SPECIFICATION Spec
CONSTANTS
    ollama = ollama
    nvidia = nvidia
    m1 = m1
    m2 = m2
    Provider = {ollama, nvidia}
    Model = {m1, m2}
    Request = {q1, q2}
    NoProvider = NoProvider
    NoModel = NoModel
    NoEntry = NoEntry
    Discovered <- MCDiscovered
    Default = ollama
    Reapplied = {ollama}
    MaxRounds = 2
    MaxUserSteps = 2
INVARIANTS
    ManualKeepsProvider
    ManualIsExactUntilFallback
    RunsWhatItReports
PROPERTY
    EveryRequestEnds
