--------------------------- MODULE MCRequestIntake ---------------------------
(* Instances of RequestIntake for TLC.                                      *)
EXTENDS RequestIntake, TLC

Symmetry ==
    Permutations(Handler) \cup Permutations(Request) \cup Permutations(User)
        \cup Permutations(Session)
=============================================================================
