\* Two users and two handlers over two sessions and one key.
SPECIFICATION Spec
CONSTANTS
    User = {u1, u2}
    Session = {s1, s2}
    Key = {k1}
    Request = {r1, r2, r3}
    Handler = {h1, h2}
    NoUser = NoUser
    NoKey = NoKey
    NoSession = NoSession
    NoRequest = NoRequest
SYMMETRY Symmetry
CHECK_DEADLOCK FALSE
INVARIANTS AnswerIsOwnRequest RetriesAgree NoEmptySession SessionIsItsOwners
PROPERTIES RenameSticks
