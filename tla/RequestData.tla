---------------------------- MODULE RequestData ----------------------------
(***************************************************************************)
(* The values a row of the requests table can hold.  Text is abstracted:   *)
(* an answer of a workflow is a member of Answer, every refusal text is    *)
(* "reason", and the fixed messages of the service are one value each.     *)
(***************************************************************************)

CONSTANT Answer             \* texts a completed workflow can produce

ASSUME AnswerAssumption ==
    Answer \cap {"none", "reason", "error", "stale", "unavailable"} = {}

\* "none" and "deleted" stand for the absence of the row, before and after.
Status == {"none", "accepted", "running", "completed",
           "blocked", "rejected", "failed", "deleted"}

Result == Answer \cup {"none", "reason", "error", "stale", "unavailable"}

\* A claim that also takes a request somebody is already running.
RunningIsExecutable == {"accepted", "blocked", "rejected", "failed", "running"}

\* A claim that also takes a request that was already answered.
CompletedIsExecutable == {"accepted", "blocked", "rejected", "failed", "completed"}

\* The statuses execute() may move to "running".
Executable == {"accepted", "blocked", "rejected", "failed"}

\* What one execution decides: the pair of columns it writes.
Verdict ==
    [status : {"completed"}, result : Answer]
        \cup [status : {"blocked", "rejected"}, result : {"reason"}]
        \cup [status : {"failed"}, result : {"error", "unavailable"}]
=============================================================================
