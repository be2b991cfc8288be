\* Two requests of one session, so that sweeps and deletions can wait for each
\* other.
SPECIFICATION LocksSpec
CONSTANTS
    Request = {r1, r2}
    s1 = s1
    s2 = s2
    Session = {s1}
    SessionOf <- OneSession
    Handler = {h1, h2}
    NoRequest = NoRequest
    Answer = {}
    StaleAfter = 0
    ExecBudget = 0
    MaxRemembered = 0
    MaxTakeovers = 1
CHECK_DEADLOCK FALSE
PROPERTIES NobodyWaitsForEver
