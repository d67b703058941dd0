---------------------------- MODULE RunLifecycle ----------------------------
(***************************************************************************)
(* The life of a BARE run: submitted through the API, carried to a worker  *)
(* by a broker that may lose or duplicate the message, claimed, scanned in *)
(* two analyzer stages, settled, enriched by Ghidra, and watched all along *)
(* by the orphan sweep, which shares the worker's process slots.           *)
(*                                                                         *)
(* Postgres runs at READ COMMITTED and the ORM writes rows back by primary *)
(* key, so a status written from a stale read wins over whatever was       *)
(* committed in between; only the claim is a conditional UPDATE.  A        *)
(* worker's uncommitted session is modelled apart from the database.       *)
(*                                                                         *)
(* Time is abstracted to one Boolean per deadline: "old" says the run's    *)
(* anchor (started_at, or created_at before it starts) is further back     *)
(* than the deadline that applies in its present status.                   *)
(***************************************************************************)
EXTENDS Integers, FiniteSets

CONSTANTS
    Runs,           \* run ids, all of one artifact name, so any may be another's baseline
    Workers,        \* process slots of the `worker` service: scans and sweeps share them
    HeavyWorkers,   \* process slots of `worker-heavy`, which consumes the ghidra queue
    NoRun,          \* "no run": a slot that is free, a run with no predecessor
    MaxRequeue,     \* orphan_max_requeue_attempts
    MaxMsgs,        \* bound on copies of one message in a queue
    Results         \* the analyzer outcomes explored, a subset of SandboxResults

Analyzers == {"unpack", "static"}
StageStatus == {"none", "running", "completed", "truncated", "timeout", "oom",
                "failed", "skipped"}
RunStatus == {"absent", "queued", "running", "completed", "degraded", "failed"}

(***************************************************************************)
(* What driver.run can return: a SandboxStatus, whether the exit code was  *)
(* zero, and whether result.json declares a truncated tree.                *)
(***************************************************************************)
SandboxResults ==
    [status : {"completed", "timeout", "oom", "start_failed", "error"},
     exitZero : BOOLEAN,
     truncated : BOOLEAN]

ASSUME RunsAssumption == IsFiniteSet(Runs) /\ NoRun \notin Runs
ASSUME BoundsAssumption == MaxRequeue \in Nat /\ MaxMsgs \in Nat
ASSUME ResultsAssumption == Results \subseteq SandboxResults
ASSUME SlotsAssumption == IsFiniteSet(Workers) /\ Workers # {}

VARIABLES
    (* the database *)
    status,     \* runs.status
    created,    \* position in created_at order, 0 before the run exists
    audit,      \* number of RUN_REQUEUED rows in the audit log
    stage,      \* run_stages.status of the two scan stages
    ghidra,     \* run_stages.status of the ghidra stage
    content,    \* what else the scan has committed: the tree, the results, or the
                \* rows a stretch had added when it raised ("partial")
    previous,   \* runs.previous_run_id
    (* deadlines *)
    old,        \* the run has outlived the deadline of its status
    oldGhidra,  \* its ghidra stage has outlived orphan_running_timeout_seconds
    (* the broker *)
    scanMsgs,   \* copies of scan_run(r) waiting on the static queue
    ghidraMsgs, \* copies of ghidra_run(r) waiting on the ghidra queue
    undelivered,\* runs the API has committed and not yet dispatched
    (* the hosts' disk *)
    staging,    \* run_root/<run> exists, with the artifact in plaintext
    work,       \* run_root/<run>/ghidra exists
    (* the slots of `worker` *)
    pc, on, rows, link, plan,
    (* the slots of `worker-heavy` *)
    hpc, hon

dbVars     == <<status, created, audit, stage, ghidra, content, previous>>
ageVars    == <<old, oldGhidra>>
brokerVars == <<scanMsgs, ghidraMsgs, undelivered>>
diskVars   == <<staging, work>>
slotVars   == <<pc, on, rows, link, plan>>
heavyVars  == <<hpc, hon>>
vars == <<dbVars, ageVars, brokerVars, diskVars, slotVars, heavyVars>>

-----------------------------------------------------------------------------
(* Vocabulary *)

Terminal == {"completed", "degraded", "failed"}
WithResults == {"completed", "degraded"}

\* Mutant: the list as it was before ADR-0018, without the truncated stage.
IsDegradedBeforeTruncated(s) == s \in {"timeout", "oom", "failed"}

\* StageStatus.is_degraded
IsDegraded(s) == s \in {"timeout", "oom", "failed", "truncated"}

\* degraded_stages: the scan's own stages; ghidra is an enrichment analyzer.
Degraded(s) == \E a \in Analyzers : IsDegraded(s[a])

\* Program counters of run_scan that lie inside its try block ...
InTry == {"claimed", "staged", "unpacking", "unpacked", "indexing", "indexed",
          "scanning", "scanned", "reporting"}
\* ... and all those in which the slot holds a claimed run it may still write.
Scanning == InTry \cup {"settling", "raised"}
SlotPcs == Scanning \cup {"idle", "dispatching", "sweeping", "redispatching"}
HeavyPcs == {"idle", "checked", "analyzing"}

NoRows == [a \in Analyzers |-> "none"]
Plan(fail, requeue, close) == [fail |-> fail, requeue |-> requeue, close |-> close]
NoPlan == Plan({}, {}, {})

\* _record_stage's status table, for any analyzer.
RecordStage(res) ==
    CASE res.status = "completed" -> IF res.exitZero THEN "completed" ELSE "failed"
      [] res.status = "timeout"   -> "timeout"
      [] res.status = "oom"       -> "oom"
      [] OTHER                    -> "failed"

\* What _run_unpack leaves on its row: a truncated tree overrides the table.
RecordUnpack(res) == IF res.truncated THEN "truncated" ELSE RecordStage(res)

\* _link_previous_run: the newest completed run other than r.
Predecessors(r) == {p \in Runs \ {r} : status[p] = "completed"}

PreviousRuns(r) ==
    IF Predecessors(r) = {} THEN {NoRun}
    ELSE {p \in Predecessors(r) : \A q \in Predecessors(r) : created[q] <= created[p]}

-----------------------------------------------------------------------------
Init ==
    /\ status = [r \in Runs |-> "absent"]
    /\ created = [r \in Runs |-> 0]
    /\ audit = [r \in Runs |-> 0]
    /\ stage = [r \in Runs |-> NoRows]
    /\ ghidra = [r \in Runs |-> "none"]
    /\ content = [r \in Runs |-> {}]
    /\ previous = [r \in Runs |-> NoRun]
    /\ old = [r \in Runs |-> FALSE]
    /\ oldGhidra = [r \in Runs |-> FALSE]
    /\ scanMsgs = [r \in Runs |-> 0]
    /\ ghidraMsgs = [r \in Runs |-> 0]
    /\ undelivered = {}
    /\ staging = [r \in Runs |-> FALSE]
    /\ work = [r \in Runs |-> FALSE]
    /\ pc = [w \in Workers |-> "idle"]
    /\ on = [w \in Workers |-> NoRun]
    /\ rows = [w \in Workers |-> NoRows]
    /\ link = [w \in Workers |-> NoRun]
    /\ plan = [w \in Workers |-> NoPlan]
    /\ hpc = [h \in HeavyWorkers |-> "idle"]
    /\ hon = [h \in HeavyWorkers |-> NoRun]

-----------------------------------------------------------------------------
(* The API: create_run *)

\* ingest_artifact inside session_scope: the run exists, queued, once committed.
CreateRun(r) ==
    /\ status[r] = "absent"
    /\ status' = [status EXCEPT ![r] = "queued"]
    /\ created' = [created EXCEPT ![r] = 1 + Cardinality({q \in Runs : status[q] # "absent"})]
    /\ undelivered' = undelivered \cup {r}
    /\ UNCHANGED <<audit, stage, ghidra, content, previous, ageVars, scanMsgs,
                   ghidraMsgs, diskVars, slotVars, heavyVars>>

\* scan_run.delay, after the commit: the broker takes the message ...
DispatchRun(r) ==
    /\ r \in undelivered
    /\ undelivered' = undelivered \ {r}
    /\ scanMsgs' = [scanMsgs EXCEPT ![r] = @ + 1]
    /\ UNCHANGED <<dbVars, ageVars, ghidraMsgs, diskVars, slotVars, heavyVars>>

\* ... or the broker refuses it, or the API process dies first.
DispatchRunLost(r) ==
    /\ r \in undelivered
    /\ undelivered' = undelivered \ {r}
    /\ UNCHANGED <<dbVars, ageVars, scanMsgs, ghidraMsgs, diskVars, slotVars, heavyVars>>

-----------------------------------------------------------------------------
(* The broker: at-least-once delivery over a Redis with no persistence *)

\* A message vanishes: a Redis restart, or a task that died before its claim.
LoseScanMsg(r) ==
    /\ scanMsgs[r] > 0
    /\ scanMsgs' = [scanMsgs EXCEPT ![r] = @ - 1]
    /\ UNCHANGED <<dbVars, ageVars, ghidraMsgs, undelivered, diskVars, slotVars, heavyVars>>

LoseGhidraMsg(r) ==
    /\ ghidraMsgs[r] > 0
    /\ ghidraMsgs' = [ghidraMsgs EXCEPT ![r] = @ - 1]
    /\ UNCHANGED <<dbVars, ageVars, scanMsgs, undelivered, diskVars, slotVars, heavyVars>>

\* acks_late: a message still unacknowledged is delivered a second time.
RedeliverScan(w) ==
    /\ pc[w] \in Scanning \cup {"dispatching"}
    /\ scanMsgs[on[w]] < MaxMsgs
    /\ scanMsgs' = [scanMsgs EXCEPT ![on[w]] = @ + 1]
    /\ UNCHANGED <<dbVars, ageVars, ghidraMsgs, undelivered, diskVars, slotVars, heavyVars>>

RedeliverGhidra(h) ==
    /\ hpc[h] # "idle"
    /\ ghidraMsgs[hon[h]] < MaxMsgs
    /\ ghidraMsgs' = [ghidraMsgs EXCEPT ![hon[h]] = @ + 1]
    /\ UNCHANGED <<dbVars, ageVars, scanMsgs, undelivered, diskVars, slotVars, heavyVars>>

-----------------------------------------------------------------------------
(* run_scan *)

\* Advance slot w to program counter p; the slot keeps its run.
Goto(w, p) == pc' = [pc EXCEPT ![w] = p]

\* The task returns or raises: the slot is free again.
Free(w) ==
    /\ pc' = [pc EXCEPT ![w] = "idle"]
    /\ on' = [on EXCEPT ![w] = NoRun]
    /\ rows' = [rows EXCEPT ![w] = NoRows]
    /\ link' = [link EXCEPT ![w] = NoRun]
    /\ plan' = [plan EXCEPT ![w] = NoPlan]

\* session.commit() writes the slot's stage rows.
CommitRows(w) == stage' = [stage EXCEPT ![on[w]] = rows[w]]

\* A slot receives one copy of scan_run(r).
TakeScanMsg(r) ==
    /\ scanMsgs[r] > 0
    /\ scanMsgs' = [scanMsgs EXCEPT ![r] = @ - 1]

\* Mutant: a redelivered message takes over a run that is not finished.
ClaimableWhileRunning(r) == status[r] \in {"queued", "running"}

\* Mutant: read-then-write without the WHERE clause.
ClaimableAlways(r) == status[r] # "absent"

\* The WHERE clause of _claim's UPDATE.
Claimable(r) == status[r] = "queued"

\* _claim: a conditional UPDATE, committed at once.
Claim(w, r) ==
    /\ pc[w] = "idle"
    /\ TakeScanMsg(r)
    /\ Claimable(r)
    /\ status' = [status EXCEPT ![r] = "running"]
    /\ old' = [old EXCEPT ![r] = FALSE]
    /\ on' = [on EXCEPT ![w] = r]
    /\ Goto(w, "claimed")
    /\ UNCHANGED <<created, audit, stage, ghidra, content, previous, oldGhidra,
                   ghidraMsgs, undelivered, diskVars, rows, link, plan, heavyVars>>

\* Mutant: the claim is made inside the try block, so that the finally clause of
\* the refused delivery removes the directory of the one at work.
DropDuplicateInTry(w, r) ==
    /\ pc[w] = "idle"
    /\ TakeScanMsg(r)
    /\ ~Claimable(r)
    /\ staging' = [staging EXCEPT ![r] = FALSE]
    /\ UNCHANGED <<dbVars, ageVars, ghidraMsgs, undelivered, work, slotVars, heavyVars>>

\* RunAlreadyClaimedError: the duplicate is acknowledged and dropped.
DropDuplicate(w, r) ==
    /\ pc[w] = "idle"
    /\ TakeScanMsg(r)
    /\ ~Claimable(r)
    /\ UNCHANGED <<dbVars, ageVars, ghidraMsgs, undelivered, diskVars, slotVars, heavyVars>>

\* _execute up to the first checkpoint: the directories and the downloaded artifact.
Prepare(w) ==
    /\ pc[w] = "claimed"
    /\ staging' = [staging EXCEPT ![on[w]] = TRUE]
    /\ Goto(w, "staged")
    /\ UNCHANGED <<dbVars, ageVars, brokerVars, work, on, rows, link, plan, heavyVars>>

\* A stage row is committed as running before its container starts.
StartStage(w, from, a, to) ==
    /\ pc[w] = from
    /\ rows' = [rows EXCEPT ![w][a] = "running"]
    /\ stage' = [stage EXCEPT ![on[w]] = rows'[w]]
    /\ Goto(w, to)
    /\ UNCHANGED <<status, created, audit, ghidra, content, previous, ageVars,
                   brokerVars, diskVars, on, link, plan, heavyVars>>

\* The container ended and _record_stage set the row; nothing is committed yet.
FinishStage(w, from, a, result, to) ==
    /\ pc[w] = from
    /\ rows' = [rows EXCEPT ![w][a] = result]
    /\ Goto(w, to)
    /\ UNCHANGED <<dbVars, ageVars, brokerVars, diskVars, on, link, plan, heavyVars>>

StartUnpack(w) == StartStage(w, "staged", "unpack", "unpacking")

FinishUnpack(w) ==
    \E res \in Results : FinishStage(w, "unpacking", "unpack", RecordUnpack(res), "unpacked")

\* _checkpoint "index": the finished unpack stage becomes visible.
CheckpointIndex(w) ==
    /\ pc[w] = "unpacked"
    /\ CommitRows(w)
    /\ Goto(w, "indexing")
    /\ UNCHANGED <<status, created, audit, ghidra, content, previous, ageVars,
                   brokerVars, diskVars, on, rows, link, plan, heavyVars>>

\* _materialise_tree and _checkpoint "indexed".
CheckpointIndexed(w) ==
    /\ pc[w] = "indexing"
    /\ content' = [content EXCEPT ![on[w]] = @ \cup {"tree"}]
    /\ Goto(w, "indexed")
    /\ UNCHANGED <<status, created, audit, stage, ghidra, previous, ageVars,
                   brokerVars, diskVars, on, rows, link, plan, heavyVars>>

StartStatic(w) == StartStage(w, "indexed", "static", "scanning")

FinishStatic(w) ==
    \E res \in Results : FinishStage(w, "scanning", "static", RecordStage(res), "scanned")

\* _checkpoint "report".
CheckpointReport(w) ==
    /\ pc[w] = "scanned"
    /\ CommitRows(w)
    /\ Goto(w, "reporting")
    /\ UNCHANGED <<status, created, audit, ghidra, content, previous, ageVars,
                   brokerVars, diskVars, on, rows, link, plan, heavyVars>>

\* run_scan's finally clause.  rmtree is told to ignore errors: the directory may
\* be left, whole or in part, and nobody is told.
RemoveStaging(w) ==
    \E left \in {FALSE, staging[on[w]]} : staging' = [staging EXCEPT ![on[w]] = left]

\* Evidence, findings, manifest and predecessor are flushed, not committed; the
\* finally clause removes the staging directory on the way out of the try block.
Correlate(w) ==
    /\ pc[w] = "reporting"
    /\ \E p \in PreviousRuns(on[w]) : link' = [link EXCEPT ![w] = p]
    /\ RemoveStaging(w)
    /\ Goto(w, "settling")
    /\ UNCHANGED <<dbVars, ageVars, brokerVars, work, on, rows, plan, heavyVars>>

\* The status run_scan gives a scan that did not raise.
SettledStatus(s) == IF Degraded(s) THEN "degraded" ELSE "completed"

\* session_scope commits rows, status, results and predecessor in one transaction.
Settle(w) ==
    /\ pc[w] = "settling"
    /\ status' = [status EXCEPT ![on[w]] = SettledStatus(rows[w])]
    /\ CommitRows(w)
    /\ content' = [content EXCEPT ![on[w]] = @ \cup {"results"}]
    /\ previous' = [previous EXCEPT ![on[w]] =
                        IF link[w] = NoRun THEN @ ELSE link[w]]
    /\ Goto(w, "dispatching")
    /\ UNCHANGED <<created, audit, ghidra, ageVars, brokerVars, diskVars, on, rows,
                   link, plan, heavyVars>>

\* _should_enrich holds and ghidra_run_task.delay reaches the broker ...
DispatchGhidra(w) ==
    /\ pc[w] = "dispatching"
    /\ ghidraMsgs' = [ghidraMsgs EXCEPT ![on[w]] = @ + 1]
    /\ Free(w)
    /\ UNCHANGED <<dbVars, ageVars, scanMsgs, undelivered, diskVars, heavyVars>>

\* ... or there are no findings, or the broker fails: that costs the enrichment.
SkipGhidra(w) ==
    /\ pc[w] = "dispatching"
    /\ Free(w)
    /\ UNCHANGED <<dbVars, ageVars, brokerVars, diskVars, heavyVars>>

\* An exception inside the try block: the run will be failed.
Raise(w) ==
    /\ pc[w] \in InTry
    /\ RemoveStaging(w)
    /\ Goto(w, "raised")
    /\ UNCHANGED <<dbVars, ageVars, brokerVars, work, on, rows, link, plan, heavyVars>>

\* Mutant: the exception is logged and the run settles as if nothing happened.
RaisedStatusSwallowed(w) == SettledStatus(rows[w])

\* The status run_scan gives a scan that raised.
RaisedStatus(w) == "failed"

\* A scan that raised while it added the artifact tree, or evidence and findings,
\* may have some of them pending: it stood after a checkpoint and before the next.
AddingRows(r) ==
    \/ stage[r]["unpack"] \notin {"none", "running"} /\ "tree" \notin content[r]
    \/ stage[r]["static"] \notin {"none", "running"}

\* session_scope commits the failure together with whatever was still pending.
CommitRaised(w) ==
    /\ pc[w] = "raised"
    /\ status' = [status EXCEPT ![on[w]] = RaisedStatus(w)]
    /\ CommitRows(w)
    /\ \/ UNCHANGED content
       \/ /\ AddingRows(on[w])
          /\ content' = [content EXCEPT ![on[w]] = @ \cup {"partial"}]
    /\ Free(w)
    /\ UNCHANGED <<created, audit, ghidra, previous, ageVars, brokerVars, diskVars,
                   heavyVars>>

\* The database refuses a statement or the commit: the session rolls back and
\* the task raises.  Inside the try block the finally clause has still run.
DatabaseError(w) ==
    /\ pc[w] \in Scanning \cup {"sweeping"}
    /\ \/ pc[w] \in InTry /\ RemoveStaging(w)
       \/ pc[w] \notin InTry /\ UNCHANGED staging
    /\ Free(w)
    /\ UNCHANGED <<dbVars, ageVars, brokerVars, work, heavyVars>>

\* The process dies.  Nothing runs on the way out: staging stays.  The message
\* of a dead child is acknowledged (task_reject_on_worker_lost is off) ...
CrashWorker(w) ==
    /\ pc[w] # "idle"
    /\ Free(w)
    /\ UNCHANGED <<dbVars, ageVars, brokerVars, diskVars, heavyVars>>

\* ... that of a dead worker goes back to the queue (acks_late).
CrashWorkerUnacked(w) ==
    /\ pc[w] \in Scanning \cup {"dispatching"}
    /\ scanMsgs[on[w]] < MaxMsgs
    /\ scanMsgs' = [scanMsgs EXCEPT ![on[w]] = @ + 1]
    /\ Free(w)
    /\ UNCHANGED <<dbVars, ageVars, ghidraMsgs, undelivered, diskVars, heavyVars>>

-----------------------------------------------------------------------------
(* recover_orphaned_runs, in a slot of the same pool *)

\* Runs queued past the grace period that never started.
QueuedOrphans == {r \in Runs : status[r] = "queued" /\ old[r]}
RunningOrphans == {r \in Runs : status[r] = "running" /\ old[r]}

\* Mutant: an off-by-one in the attempt bound.
ToRequeueOneMore == {r \in QueuedOrphans : audit[r] <= MaxRequeue}

ToRequeue == {r \in QueuedOrphans : audit[r] < MaxRequeue}

\* Mutant: running runs are taken to be somebody else's business.
ToFailQueuedOnly == QueuedOrphans \ ToRequeue

ToFail == (QueuedOrphans \ ToRequeue) \cup RunningOrphans

\* Mutant: stale stages are looked for under unfinished runs only.
ToCloseUnderRunning == {r \in RunningOrphans : ghidra[r] = "running"}

\* fail_stale_enrichment_stages
ToClose == {r \in Runs : ghidra[r] = "running" /\ oldGhidra[r]}

\* The sweep's reads: what it will write is decided here.
SweepRead(w) ==
    /\ pc[w] = "idle"
    /\ plan' = [plan EXCEPT ![w] = Plan(ToFail, ToRequeue, ToClose)]
    /\ Goto(w, "sweeping")
    /\ UNCHANGED <<dbVars, ageVars, brokerVars, diskVars, on, rows, link, heavyVars>>

\* The sweep's commit, by primary key: no condition on the present status.
SweepCommit(w) ==
    /\ pc[w] = "sweeping"
    /\ status' = [r \in Runs |-> IF r \in plan[w].fail THEN "failed" ELSE status[r]]
    /\ audit' = [r \in Runs |-> IF r \in plan[w].requeue THEN audit[r] + 1 ELSE audit[r]]
    /\ ghidra' = [r \in Runs |-> IF r \in plan[w].close THEN "failed" ELSE ghidra[r]]
    /\ plan' = [plan EXCEPT ![w] = Plan({}, @.requeue, {})]
    /\ Goto(w, "redispatching")
    /\ UNCHANGED <<created, stage, content, previous, ageVars, brokerVars, diskVars,
                   on, rows, link, heavyVars>>

\* One run of the plan is dealt with, whether or not its message got away.
Dispatched(w, r) ==
    /\ pc[w] = "redispatching"
    /\ r \in plan[w].requeue
    /\ plan' = [plan EXCEPT ![w] = Plan(@.fail, @.requeue \ {r}, @.close)]

\* scan_run.delay for one run of the plan, after the commit ...
Redispatch(w, r) ==
    /\ Dispatched(w, r)
    /\ scanMsgs[r] < MaxMsgs
    /\ scanMsgs' = [scanMsgs EXCEPT ![r] = @ + 1]
    /\ UNCHANGED <<dbVars, ageVars, ghidraMsgs, undelivered, diskVars, pc, on, rows,
                   link, heavyVars>>

\* ... a failure of which is only logged.
RedispatchLost(w, r) ==
    /\ Dispatched(w, r)
    /\ UNCHANGED <<dbVars, ageVars, brokerVars, diskVars, pc, on, rows, link, heavyVars>>

SweepEnd(w) ==
    /\ pc[w] = "redispatching"
    /\ plan[w].requeue = {}
    /\ Free(w)
    /\ UNCHANGED <<dbVars, ageVars, brokerVars, diskVars, heavyVars>>

-----------------------------------------------------------------------------
(* enrich_run, on the heavy worker *)

AlreadyHandled(r) == ghidra[r] \in {"running", "completed", "truncated"}
FreeHeavy(h) ==
    /\ hpc' = [hpc EXCEPT ![h] = "idle"]
    /\ hon' = [hon EXCEPT ![h] = NoRun]

TakeGhidraMsg(r) ==
    /\ ghidraMsgs[r] > 0
    /\ ghidraMsgs' = [ghidraMsgs EXCEPT ![r] = @ - 1]

Enrichable(r) == status[r] \in WithResults /\ ~AlreadyHandled(r)

\* The two reads at the top of enrich_run let the job go on ...
EnrichCheck(h, r) ==
    /\ hpc[h] = "idle"
    /\ TakeGhidraMsg(r)
    /\ Enrichable(r)
    /\ hpc' = [hpc EXCEPT ![h] = "checked"]
    /\ hon' = [hon EXCEPT ![h] = r]
    /\ UNCHANGED <<dbVars, ageVars, scanMsgs, undelivered, diskVars, slotVars>>

\* ... or return "not_applicable" or "already_handled".
EnrichDecline(h, r) ==
    /\ hpc[h] = "idle"
    /\ TakeGhidraMsg(r)
    /\ ~Enrichable(r)
    /\ UNCHANGED <<dbVars, ageVars, scanMsgs, undelivered, diskVars, slotVars, heavyVars>>

\* Mutant: the table has no unique constraint.
StageRowFreeAlways(r) == TRUE

\* UniqueConstraint(run_id, artifact_id, analyzer) lets the row in.
StageRowFree(r) == ghidra[r] = "none"

\* The INSERT of the ghidra stage meets another delivery's row: the task raises.
EnrichRefused(h) ==
    /\ hpc[h] = "checked"
    /\ ~StageRowFree(hon[h])
    /\ FreeHeavy(h)
    /\ UNCHANGED <<dbVars, ageVars, brokerVars, diskVars, slotVars>>

\* select_targets finds nothing to analyse: the row is committed as skipped.
EnrichSkip(h) ==
    /\ hpc[h] = "checked"
    /\ StageRowFree(hon[h])
    /\ ghidra' = [ghidra EXCEPT ![hon[h]] = "skipped"]
    /\ FreeHeavy(h)
    /\ UNCHANGED <<status, created, audit, stage, content, previous, ageVars,
                   brokerVars, diskVars, slotVars>>

\* The row is committed as running, then the container starts.
EnrichStart(h) ==
    /\ hpc[h] = "checked"
    /\ StageRowFree(hon[h])
    /\ ghidra' = [ghidra EXCEPT ![hon[h]] = "running"]
    /\ work' = [work EXCEPT ![hon[h]] = TRUE]
    /\ hpc' = [hpc EXCEPT ![h] = "analyzing"]
    /\ UNCHANGED <<status, created, audit, stage, content, previous, ageVars,
                   brokerVars, staging, slotVars, hon>>

\* The status the ghidra stage ends with: the container's, or failed when the
\* analysis raised, wrote no result or analysed no binary, or truncated.
GhidraOutcomes ==
    {RecordStage(res) : res \in Results} \cup {"failed", "truncated"}

EnrichFinish(h) ==
    /\ hpc[h] = "analyzing"
    /\ \E s \in GhidraOutcomes : ghidra' = [ghidra EXCEPT ![hon[h]] = s]
    /\ work' = [work EXCEPT ![hon[h]] = FALSE]
    /\ FreeHeavy(h)
    /\ UNCHANGED <<status, created, audit, stage, content, previous, ageVars,
                   brokerVars, staging, slotVars>>

\* A malformed result or a database error after the analysis: rolled back, so
\* the stage still reads running.
EnrichAbort(h) ==
    /\ hpc[h] # "idle"
    /\ work' = [work EXCEPT ![hon[h]] = IF hpc[h] = "analyzing" THEN FALSE ELSE @]
    /\ FreeHeavy(h)
    /\ UNCHANGED <<dbVars, ageVars, brokerVars, staging, slotVars>>

\* The heavy worker's process dies: the message is lost or comes back.
CrashHeavy(h) ==
    /\ hpc[h] # "idle"
    /\ FreeHeavy(h)
    /\ UNCHANGED <<dbVars, ageVars, brokerVars, diskVars, slotVars>>

CrashHeavyUnacked(h) ==
    /\ hpc[h] # "idle"
    /\ ghidraMsgs[hon[h]] < MaxMsgs
    /\ ghidraMsgs' = [ghidraMsgs EXCEPT ![hon[h]] = @ + 1]
    /\ FreeHeavy(h)
    /\ UNCHANGED <<dbVars, ageVars, scanMsgs, undelivered, diskVars, slotVars>>

-----------------------------------------------------------------------------
(* Time *)

\* orphan_queued_grace_seconds or orphan_running_timeout_seconds passes.
Age(r) ==
    /\ status[r] \in {"queued", "running"}
    /\ ~old[r]
    /\ old' = [old EXCEPT ![r] = TRUE]
    /\ UNCHANGED <<dbVars, oldGhidra, brokerVars, diskVars, slotVars, heavyVars>>

AgeGhidra(r) ==
    /\ ghidra[r] = "running"
    /\ ~oldGhidra[r]
    /\ oldGhidra' = [oldGhidra EXCEPT ![r] = TRUE]
    /\ UNCHANGED <<dbVars, old, brokerVars, diskVars, slotVars, heavyVars>>

-----------------------------------------------------------------------------
ApiStep(r) == CreateRun(r) \/ DispatchRun(r) \/ DispatchRunLost(r)

BrokerStep ==
    \/ \E r \in Runs : LoseScanMsg(r) \/ LoseGhidraMsg(r)
    \/ \E w \in Workers : RedeliverScan(w)
    \/ \E h \in HeavyWorkers : RedeliverGhidra(h)

\* The steps of a scan that a live worker takes by itself.
ScanStep(w) ==
    \/ Prepare(w) \/ StartUnpack(w) \/ FinishUnpack(w)
    \/ CheckpointIndex(w) \/ CheckpointIndexed(w)
    \/ StartStatic(w) \/ FinishStatic(w) \/ CheckpointReport(w)
    \/ Correlate(w) \/ Settle(w) \/ DispatchGhidra(w) \/ SkipGhidra(w)
    \/ CommitRaised(w)

\* What a sweep does after its commit.
SweepTail(w) ==
    \/ \E r \in Runs : Redispatch(w, r) \/ RedispatchLost(w, r)
    \/ SweepEnd(w)

WorkerStep(w) ==
    \/ \E r \in Runs : Claim(w, r) \/ DropDuplicate(w, r)
    \/ ScanStep(w) \/ Raise(w) \/ DatabaseError(w)
    \/ CrashWorker(w) \/ CrashWorkerUnacked(w)
    \/ SweepRead(w) \/ SweepCommit(w) \/ SweepTail(w)

HeavyStep(h) ==
    \/ \E r \in Runs : EnrichCheck(h, r) \/ EnrichDecline(h, r)
    \/ EnrichRefused(h) \/ EnrichSkip(h) \/ EnrichStart(h) \/ EnrichFinish(h)
    \/ EnrichAbort(h) \/ CrashHeavy(h) \/ CrashHeavyUnacked(h)

Next ==
    \/ \E r \in Runs : ApiStep(r) \/ Age(r) \/ AgeGhidra(r)
    \/ BrokerStep
    \/ \E w \in Workers : WorkerStep(w)
    \/ \E h \in HeavyWorkers : HeavyStep(h)

Spec == Init /\ [][Next]_vars

-----------------------------------------------------------------------------
(* Safety *)

\* What a scan can have committed about a run besides its stage rows.
Contents == SUBSET {"tree", "results", "partial"}

\* Type invariant.
TypeOK ==
    /\ status \in [Runs -> RunStatus]
    /\ created \in [Runs -> Nat]
    /\ audit \in [Runs -> Nat]
    /\ stage \in [Runs -> [Analyzers -> StageStatus]]
    /\ ghidra \in [Runs -> StageStatus]
    /\ content \in [Runs -> Contents]
    /\ previous \in [Runs -> Runs \cup {NoRun}]
    /\ old \in [Runs -> BOOLEAN] /\ oldGhidra \in [Runs -> BOOLEAN]
    /\ scanMsgs \in [Runs -> Nat] /\ ghidraMsgs \in [Runs -> Nat]
    /\ undelivered \subseteq Runs
    /\ staging \in [Runs -> BOOLEAN] /\ work \in [Runs -> BOOLEAN]
    /\ pc \in [Workers -> SlotPcs]
    /\ on \in [Workers -> Runs \cup {NoRun}]
    /\ rows \in [Workers -> [Analyzers -> StageStatus]]
    /\ link \in [Workers -> Runs \cup {NoRun}]
    /\ plan \in [Workers -> [fail : SUBSET Runs, requeue : SUBSET Runs, close : SUBSET Runs]]
    /\ hpc \in [HeavyWorkers -> HeavyPcs]
    /\ hon \in [HeavyWorkers -> Runs \cup {NoRun}]

\* Slot w holds run r and may still write its rows or remove its staging.
Holds(w, r) == pc[w] \in Scanning /\ on[w] = r

\* Whatever is redelivered, requeued or crashed, two slots never scan one run:
\* _claim's promise against at-least-once delivery and the sweep's requeues.
SingleScanner ==
    \A r \in Runs : \A v, w \in Workers : Holds(v, r) /\ Holds(w, r) => v = w

\* A run shown as completed or degraded has been examined: both stages have
\* ended, its tree and results are committed, no half-written rows are among
\* them, and none of it is still being written.  The sweep's stale writes and
\* the zombie worker cannot break it.
SettledMeansExamined ==
    \A r \in Runs : status[r] \in WithResults =>
        /\ \A a \in Analyzers : stage[r][a] \notin {"none", "running"}
        /\ content[r] = {"tree", "results"}
        /\ \A w \in Workers : ~Holds(w, r)

\* stages.py: the run's status and what the gate reads from the stage rows
\* "must never disagree": completed exactly when every committed row says so.
StatusAgreesWithStages ==
    \A r \in Runs : status[r] \in WithResults =>
        (status[r] = "completed" <=> \A a \in Analyzers : stage[r][a] = "completed")

\* The Ghidra job works under run_root/<run>, which run_scan deletes when it
\* ends: no scan of the run may still be alive when enrichment holds it.
GhidraAfterScan ==
    \A h \in HeavyWorkers, w \in Workers : hpc[h] # "idle" => ~Holds(w, hon[h])

\* "must not start another 2 GB JVM over the same binaries": redelivery and
\* concurrent checks never put two Ghidra containers on one run.
GhidraOnce ==
    \A g, h \in HeavyWorkers :
        hpc[g] = "analyzing" /\ hpc[h] = "analyzing" /\ hon[g] = hon[h] => g = h

\* Following previous_run_id always ends: "new since the last release" is
\* measured against a run that settled earlier, never around a circle.
BaselineAcyclic ==
    \A S \in SUBSET Runs : S # {} => \E r \in S : previous[r] \notin S

\* Sweeps may overlap, and each can requeue on a count read before the other
\* committed: the attempts overshoot the bound by at most the other slots.
RequeueOvershoot ==
    \A r \in Runs : audit[r] <= MaxRequeue + Cardinality(Workers) - 1

\* Program counters at which the scan reads and writes its staging directory.
UsingStaging == InTry \ {"claimed"}

\* run_scan deletes run_root/<run>, a path made of the run's id alone.  Whatever
\* is redelivered, requeued or given up meanwhile, nobody deletes it under a scan
\* that is still at work in it.
LiveScanKeepsStaging ==
    \A w \in Workers : pc[w] \in UsingStaging => staging[on[w]]

(* Refinement *)

\* What is recorded about a run: all that the gate and later runs read of it.
Record(r) == <<stage[r], content[r], previous[r]>>

RunRecords ==
    [Analyzers -> StageStatus] \X Contents \X (Runs \cup {NoRun})

Contract == INSTANCE RunContract WITH
    Records <- RunRecords,
    record <- [r \in Runs |-> Record(r)],
    results <- [r \in Runs |-> "results" \in content[r]]

\* The pipeline keeps the contract of a run whatever is lost, duplicated, raised
\* or killed: claimed once, published once and in one step, final afterwards.
KeepsContract == Contract!Spec

(***************************************************************************)
(* What the repository says of this code and the code does not keep.       *)
(***************************************************************************)

\* test_recovery.py, test_terminal_runs_are_never_touched: the sweep leaves a
\* finished run as it is.
SweepLeavesFinishedRuns ==
    [][\A r \in Runs : status[r] \in WithResults => status'[r] = status[r]]_vars

-----------------------------------------------------------------------------
(* Liveness *)

(***************************************************************************)
(* What the deployment guarantees: clocks advance, a dispatch in the API   *)
(* ends, a live worker carries on (the watchdog bounds every container),   *)
(* beat keeps submitting sweeps and a slot that is free again and again    *)
(* eventually takes one, and a sweep's commit is not refused for ever.     *)
(***************************************************************************)
SweepFairness ==
    /\ \A r \in Runs : WF_vars(Age(r)) /\ WF_vars(AgeGhidra(r))
    /\ SF_vars(\E w \in Workers : SweepRead(w))
    /\ \A w \in Workers :
        /\ SF_vars(SweepCommit(w))
        /\ WF_vars(SweepTail(w))

Fairness ==
    /\ SweepFairness
    /\ \A w \in Workers : WF_vars(ScanStep(w))

FairSpec == Spec /\ Fairness

\* Every submitted run reaches a terminal status: no run stays queued or
\* running for ever, whatever message or worker was lost.
RunsSettle == \A r \in Runs : status[r] = "queued" ~> status[r] \in Terminal

\* A ghidra stage never reads running for ever.
GhidraStageCloses == \A r \in Runs : ghidra[r] = "running" ~> ghidra[r] # "running"
=============================================================================
