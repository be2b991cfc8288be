------------------------- MODULE MCRequestLifecycle -------------------------
(* Instances of RequestLifecycle for TLC.                                  *)
EXTENDS RequestLifecycle, TLC

CONSTANTS s1, s2

\* Every request in one session.
OneSession == [r \in Request |-> s1]

\* To locks all verdicts are alike: here every workflow that ends has failed.
OneVerdict == [status |-> "failed", result |-> "error"]
LocksNext ==
    \/ \E r \in Request : Accept(r)
    \/ \E h \in Handler : Call(h) \/ Progress(h) \/ Interrupt(h)
    \/ \E h \in Handler : Decide(h) /\ verdict'[h] = OneVerdict
    \/ Tick
LocksSpec == Init /\ [][LocksNext]_vars /\ Fairness

\* Handlers and answers are interchangeable.
Symmetry == Permutations(Handler) \cup Permutations(Answer)
=============================================================================
