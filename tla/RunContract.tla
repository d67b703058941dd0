---------------------------- MODULE RunContract ----------------------------
(***************************************************************************)
(* What a run promises to whoever reads it through the API: its status and *)
(* its record, the rows that the gate, the reports and later runs are      *)
(* judged by.  Queues, workers, crashes and sweeps are below it:           *)
(* RunLifecycle implements it.                                             *)
(*                                                                         *)
(* The contract is weaker than one would like in one place: the sweep may  *)
(* fail a run at any time, a published one included, and a run that was    *)
(* given up may still publish its results.                                 *)
(***************************************************************************)
CONSTANTS
    Runs,
    Records     \* what may be recorded about a run

VARIABLES
    status,     \* runs.status
    record,     \* stage rows, tree, findings and predecessor, as committed
    results     \* the findings and the manifest are committed

vars == <<status, record, results>>

Terminal == {"completed", "degraded", "failed"}

Init ==
    /\ status = [r \in Runs |-> "absent"]
    /\ record \in [Runs -> Records]
    /\ results = [r \in Runs |-> FALSE]

\* Only r's record changes, if any does.
RecordOnly(r) ==
    /\ record' \in [Runs -> Records]
    /\ \A q \in Runs \ {r} : record'[q] = record[q]

\* The upload is accepted.
Submit(r) ==
    /\ status[r] = "absent"
    /\ status' = [status EXCEPT ![r] = "queued"]
    /\ UNCHANGED <<record, results>>

\* The scan begins, once.
Claim(r) ==
    /\ status[r] = "queued"
    /\ status' = [status EXCEPT ![r] = "running"]
    /\ UNCHANGED <<record, results>>

\* The scan, alive under a run that may have been given up, records progress.
Progress(r) ==
    /\ status[r] \in {"running", "failed"} /\ ~results[r]
    /\ RecordOnly(r)
    /\ UNCHANGED <<status, results>>

\* It ends with results: status, results and record in one step.
Publish(r) ==
    /\ status[r] \in {"running", "failed"} /\ ~results[r]
    /\ \E s \in {"completed", "degraded"} : status' = [status EXCEPT ![r] = s]
    /\ results' = [results EXCEPT ![r] = TRUE]
    /\ RecordOnly(r)

\* It ends without.
Fail(r) ==
    /\ status[r] \in {"running", "failed"} /\ ~results[r]
    /\ status' = [status EXCEPT ![r] = "failed"]
    /\ RecordOnly(r)
    /\ UNCHANGED results

\* The sweep gives up on the runs in S, whatever became of them meanwhile.
GiveUp(S) ==
    /\ \A r \in S : status[r] # "absent"
    /\ status' = [r \in Runs |-> IF r \in S THEN "failed" ELSE status[r]]
    /\ UNCHANGED <<record, results>>

Next ==
    \/ \E r \in Runs : Submit(r) \/ Claim(r) \/ Progress(r) \/ Publish(r) \/ Fail(r)
    \/ \E S \in SUBSET Runs : GiveUp(S)

Spec == Init /\ [][Next]_vars

-----------------------------------------------------------------------------
(* What a reader may build on *)

\* A run that reached a terminal status never becomes queued or running again,
\* so a client that stopped polling has not missed a scan.
TerminalForGood ==
    [][\A r \in Runs : status[r] \in Terminal => status'[r] \in Terminal]_vars

ResultsKept == \A r \in Runs : results[r] => results'[r] /\ record'[r] = record[r]

\* Once results are committed nothing rewrites what they rest on: stages, tree,
\* findings and predecessor stay as the gate may already have read them.
ResultsAreFinal == [][ResultsKept]_vars
=============================================================================
