\* The shipped relation of execution budget and stale threshold again.
SPECIFICATION Spec
CONSTANTS
    Request = {r1}
    s1 = s1
    s2 = s2
    Session = {s1}
    SessionOf <- OneSession
    Handler = {h1, h2, h3}
    NoRequest = NoRequest
    Answer = {a1}
    StaleAfter = 1
    ExecBudget = 3
    MaxRemembered = 0
    MaxTakeovers = 1
SYMMETRY Symmetry
CHECK_DEADLOCK FALSE
INVARIANTS NeverExecutedTwiceAtOnce
