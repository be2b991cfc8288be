--------------------------- MODULE RequestLedger ---------------------------
(***************************************************************************)
(* What the request store promises to a client, with no handlers in it.    *)
(* Each request has a status, a result and a flag saying that stale        *)
(* recovery once took it away from an execution.  Until that happens a     *)
(* request is run by one execution at a time, whose verdict is recorded    *)
(* once, status and result together, and a completed request never         *)
(* changes again.  After a takeover the promise is weaker: late writes of  *)
(* an execution that was declared dead may land at any time.               *)
(***************************************************************************)
EXTENDS RequestData

CONSTANT Request            \* identifiers of requests

VARIABLES
    st,                     \* [Request -> Status]
    res,                    \* [Request -> Result]
    contested               \* [Request -> BOOLEAN]

ledger == <<st, res, contested>>

Init ==
    /\ st = [r \in Request |-> "none"]
    /\ res = [r \in Request |-> "none"]
    /\ contested = [r \in Request |-> FALSE]

Accept(r) ==
    /\ st[r] = "none"
    /\ st' = [st EXCEPT ![r] = "accepted"]
    /\ UNCHANGED <<res, contested>>

Start(r) ==
    /\ st[r] \in Executable
    /\ st' = [st EXCEPT ![r] = "running"]
    /\ UNCHANGED <<res, contested>>

\* The verdict of the only execution: both columns at once.
Finish(r, v) ==
    /\ st[r] = "running"
    /\ st' = [st EXCEPT ![r] = v.status]
    /\ res' = [res EXCEPT ![r] = v.result]
    /\ UNCHANGED contested

\* Stale recovery fails a set of running requests.
TakeOver(S) ==
    /\ \A r \in S : st[r] = "running"
    /\ st' = [r \in Request |-> IF r \in S THEN "failed" ELSE st[r]]
    /\ res' = [r \in Request |-> IF r \in S THEN "stale" ELSE res[r]]
    /\ contested' = [r \in Request |-> contested[r] \/ r \in S]

\* A late write of an execution that lost its request.
Overwrite(r, s, x) ==
    /\ contested[r]
    /\ st[r] \notin {"none", "deleted"}
    /\ st' = [st EXCEPT ![r] = s]
    /\ res' = [res EXCEPT ![r] = x]
    /\ UNCHANGED contested

\* The requests of a deleted session disappear for good.
Remove(S) ==
    /\ \A r \in S : st[r] \notin {"none", "deleted"}
    /\ st' = [r \in Request |-> IF r \in S THEN "deleted" ELSE st[r]]
    /\ res' = [r \in Request |-> IF r \in S THEN "none" ELSE res[r]]
    /\ UNCHANGED contested

Next ==
    \/ \E r \in Request :
        \/ Accept(r)
        \/ Start(r)
        \/ \E v \in Verdict : Finish(r, v)
        \/ \E s \in Executable \cup {"running", "completed"}, x \in Result :
              Overwrite(r, s, x)
    \/ \E S \in SUBSET Request : TakeOver(S) \/ Remove(S)

Spec == Init /\ [][Next]_ledger
=============================================================================
