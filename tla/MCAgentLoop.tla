---------------------------- MODULE MCAgentLoop ----------------------------
(* Instances of AgentLoop for TLC: an editing tool, execute_command, a       *)
(* reading tool, and file_copy.                                              *)
EXTENDS AgentLoop, TLC

CONSTANTS edit, run, look, copy, e1, e2, x1, x2, x3, l1, c1

MCToolOf == [c \in Call |-> CASE c \in {e1, e2} -> edit [] c \in {x1, x2, x3} -> run
                              [] c = l1 -> look [] c = c1 -> copy]
MCKindOf == [t \in Tool |-> CASE t = edit -> "edit" [] t = run -> "execute"
                              [] t = look -> "other" [] t = copy -> "uncounted"]

Symmetry == Permutations({e1, e2}) \cup Permutations({x1, x2, x3})
=============================================================================
