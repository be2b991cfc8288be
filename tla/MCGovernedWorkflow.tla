------------------------- MODULE MCGovernedWorkflow -------------------------
EXTENDS GovernedWorkflow

\* The shipped agents, and each one replaced by a free one.
MCCustoms == {{}} \cup {{r} : r \in Role}
=============================================================================
