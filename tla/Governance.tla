----------------------------- MODULE Governance -----------------------------
(***************************************************************************)
(* What the governed workflow promises to whoever asks it something: an    *)
(* answer is handed out only when every gate has let this very attempt     *)
(* pass, in order, and nothing is done in the world before the first gate. *)
(* A refused, rejected or failed attempt may be repeated, from nothing.    *)
(***************************************************************************)
EXTENDS Naturals

CONSTANTS
    Gate,                   \* the gates an attempt has to pass
    Rank,                   \* [Gate -> Nat], the order they are asked in
    Door                    \* the gate before which nothing may be done

VARIABLES
    outcome,                \* what the asker sees
    cleared,                \* the gates passed by the present attempt
    effects                 \* what has been done with tools so far

Outcome == {"accepted", "running", "completed", "blocked", "rejected", "failed"}
Stopped == {"blocked", "rejected", "failed"}

Init ==
    /\ outcome = "accepted"
    /\ cleared = {}
    /\ effects = {}

Begin ==
    /\ outcome \in Stopped \cup {"accepted"}
    /\ outcome' = "running"
    /\ cleared' = {}
    /\ UNCHANGED effects

Clear(g) ==
    /\ outcome = "running"
    /\ g \notin cleared
    /\ \A h \in Gate : Rank[h] < Rank[g] => h \in cleared
    /\ cleared' = cleared \cup {g}
    /\ UNCHANGED <<outcome, effects>>

Act ==
    /\ outcome = "running"
    /\ Door \in cleared
    /\ effects \subseteq effects'
    /\ UNCHANGED <<outcome, cleared>>

\* The last gate passes and the answer is handed out.
Release ==
    /\ outcome = "running"
    /\ \E g \in Gate : cleared = Gate \ {g}
    /\ outcome' = "completed"
    /\ cleared' = Gate
    /\ UNCHANGED effects

Stop ==
    /\ outcome = "running"
    /\ outcome' \in Stopped
    /\ cleared' = {}
    /\ effects \subseteq effects'
    /\ effects' # effects => Door \in cleared

Next ==
    \/ Begin
    \/ \E g \in Gate : Clear(g)
    \/ Act
    \/ Release
    \/ Stop

Spec == Init /\ [][Next]_<<outcome, cleared, effects>>
=============================================================================
