\* Two calls in flight, two conversations, answers that arrive or fail.
SPECIFICATION Spec
CONSTANTS
    s1 = s1
    s2 = s2
    c1 = c1
    c2 = c2
    Null = Null
    Session = {s1, s2}
    Stored = {s1}
    Call = {c1, c2}
    MaxMessages = 2
    MaxApprovals = 1
INVARIANTS
    ApprovalIsOneClick SendingIsGuarded NothingIsMisplaced
PROPERTIES
    OnlyTheServerHangs
CHECK_DEADLOCK FALSE
