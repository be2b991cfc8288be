SPECIFICATION Spec
CONSTANTS
    able = able
    chatty = chatty
    cloudy = cloudy
    q1 = q1
    c1 = c1
    Provider <- MCProvider
    Model <- MCModel
    Request = {q1}
    Checker = {c1}
    Entry <- MCLocalEntry
    AIProvider = {"local", "deterministic"}
    Configured <- MCConfigured
    Environment = "local"
    Tests <- MCTests
    Replies <- MCReplies
    MinPassed = 2
    FailAfter = 1
    Window = 2
    Reading = {TRUE}
    MaxSteps = 4
    NoProvider = NoProvider
    NoModel = NoModel
    NoEntry = NoEntry
    NoCheck = NoCheck
PROPERTIES ManualIsNeverReplaced
\* MaxSteps ends every behaviour
CHECK_DEADLOCK FALSE
