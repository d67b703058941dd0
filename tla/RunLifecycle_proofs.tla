------------------------ MODULE RunLifecycle_proofs ------------------------
(***************************************************************************)
(* Theorems about RunLifecycle, for any number of runs, slots and heavy    *)
(* slots, any bound on messages and requeues and any analyzer outcomes.    *)
(*                                                                         *)
(* The inductive invariant is a conjunction of named parts.  SlotInv and   *)
(* ClaimInv say who may still write a run; ExaminedInv follows a run's     *)
(* stage rows from the slot's session into the database; GhidraInv and     *)
(* LinkInv hang on the fact that results, once committed, stay committed.  *)
(***************************************************************************)
EXTENDS RunLifecycle, FiniteSetTheorems, TLAPS

\* A slot with a scan in hand, and a heavy slot with a job, name a run.
SlotInv ==
    /\ \A w \in Workers : pc[w] \in Scanning \cup {"dispatching"} => on[w] \in Runs
    /\ \A h \in HeavyWorkers : hpc[h] # "idle" => hon[h] \in Runs

\* A held run has been claimed and has no results yet; a run with results is
\* terminal, and a run shown with results has them.  Half-written rows are those
\* of a scan that is over and left its run failed.
ClaimInv ==
    /\ \A w \in Workers, r \in Runs : Holds(w, r) =>
          status[r] \in {"running", "failed"} /\ "results" \notin content[r]
    /\ SingleScanner
    /\ \A r \in Runs : "results" \in content[r] => status[r] \in Terminal
    /\ \A r \in Runs : status[r] \in WithResults => "results" \in content[r]
    /\ \A r \in Runs : "partial" \in content[r] =>
          /\ status[r] = "failed" /\ "results" \notin content[r]
          /\ \A w \in Workers : ~Holds(w, r)

Ended(s) == s \notin {"none", "running", "skipped"}
UnpackEnded == {"unpacked", "indexing", "indexed", "scanning", "scanned", "reporting", "settling"}
TreeCommitted == {"indexed", "scanning", "scanned", "reporting", "settling"}
StaticEnded == {"scanned", "reporting", "settling"}

\* How far the scan has come determines what its rows and the database hold.
ExaminedInv ==
    /\ \A w \in Workers :
        /\ pc[w] \in UnpackEnded => Ended(rows[w]["unpack"])
        /\ pc[w] \in TreeCommitted => "tree" \in content[on[w]]
        /\ pc[w] \in StaticEnded => Ended(rows[w]["static"])
    /\ \A r \in Runs : "results" \in content[r] =>
        /\ "tree" \in content[r]
        /\ \A a \in Analyzers : Ended(stage[r][a])
    /\ \A r \in Runs : status[r] \in WithResults => status[r] = SettledStatus(stage[r])
    /\ LiveScanKeepsStaging

\* Enrichment holds only runs with results, and a container runs behind a row.
GhidraInv ==
    /\ \A h \in HeavyWorkers : hpc[h] # "idle" => "results" \in content[hon[h]]
    /\ \A h \in HeavyWorkers : hpc[h] = "analyzing" => ghidra[hon[h]] # "none"
    /\ GhidraOnce

\* A predecessor, read or recorded, has results; so no link is ever added to
\* a run that already is one.
LinkInv ==
    /\ \A w \in Workers : link[w] \in Runs => "results" \in content[link[w]]
    /\ \A r \in Runs : previous[r] \in Runs => "results" \in content[previous[r]]
    /\ BaselineAcyclic

\* The sweeps that have decided to requeue r and not committed yet.
Pending(r) == {w \in Workers : pc[w] = "sweeping" /\ r \in plan[w].requeue}

RequeueInv ==
    \A r \in Runs : audit[r] + Cardinality(Pending(r)) <= MaxRequeue + Cardinality(Workers) - 1

Inv == TypeOK /\ SlotInv /\ ClaimInv /\ ExaminedInv /\ GhidraInv /\ LinkInv /\ RequeueInv

\* The bookkeeping of variables, program counters and records is always visible.
USE DEF vars, dbVars, ageVars, brokerVars, diskVars, slotVars, heavyVars,
        Goto, Free, NoRows, Plan, NoPlan, CommitRows, TakeScanMsg, TakeGhidraMsg, Claimable,
        RemoveStaging, RaisedStatus, FreeHeavy, StageRowFree,
        SlotPcs, Scanning, InTry, HeavyPcs, Analyzers

-----------------------------------------------------------------------------
(* Types *)

\* A recorded stage status is an ended one, whatever the container did.
LEMMA RecordType ==
    \A res \in Results :
        /\ RecordStage(res) \in StageStatus \ {"none", "running", "skipped"}
        /\ RecordUnpack(res) \in StageStatus \ {"none", "running", "skipped"}
  BY DEF RecordStage, RecordUnpack, StageStatus

\* Whether the directory went or was left, nothing else on the disk changed.
LEMMA RemoveType ==
    ASSUME staging \in [Runs -> BOOLEAN], NEW w \in Workers, on[w] \in Runs, RemoveStaging(w)
    PROVE  staging' \in [Runs -> BOOLEAN]
  <1>1. PICK left \in {FALSE, staging[on[w]]} : staging' = [staging EXCEPT ![on[w]] = left]
    BY DEF RemoveStaging
  <1>2. left \in BOOLEAN
    OBVIOUS
  <1> HIDE DEF RemoveStaging
  <1> QED
    BY <1>1, <1>2

\* A scan that raised adds half-written rows at most, and no results.
LEMMA CommitRaisedContent ==
    ASSUME content \in [Runs -> Contents], NEW w \in Workers, CommitRaised(w)
    PROVE  /\ content' \in [Runs -> Contents]
           /\ \A q \in Runs : ("results" \in content'[q]) = ("results" \in content[q])
  <1>1. CASE UNCHANGED content
    BY <1>1
  <1>2. CASE content' = [content EXCEPT ![on[w]] = @ \cup {"partial"}]
    <2>1. content' \in [Runs -> Contents]
      BY <1>2 DEF Contents
    <2>2. \A q \in Runs : content'[q] = content[q] \/ content'[q] = content[q] \cup {"partial"}
      BY <1>2
    <2> QED
      BY <2>1, <2>2
  <1> QED
    BY <1>1, <1>2 DEF CommitRaised

\* Every step preserves the type invariant.
LEMMA TypeStep == TypeOK /\ SlotInv /\ [Next]_vars => TypeOK'
  <1> SUFFICES ASSUME TypeOK, SlotInv, [Next]_vars PROVE TypeOK'
    OBVIOUS
  <1> USE DEF TypeOK, SlotInv, StageStatus, Contents
  <1>1. ASSUME NEW r \in Runs, CreateRun(r) PROVE TypeOK'
    <2>1. Cardinality({q \in Runs : status[q] # "absent"}) \in Nat
      BY RunsAssumption, FS_Subset, FS_CardinalityType
    <2> QED
      BY <1>1, <2>1 DEF CreateRun, RunStatus
  <1>2. ASSUME NEW r \in Runs, DispatchRun(r) PROVE TypeOK'
    BY <1>2 DEF DispatchRun
  <1>3. ASSUME NEW r \in Runs, DispatchRunLost(r) PROVE TypeOK'
    BY <1>3 DEF DispatchRunLost
  <1>4. ASSUME NEW r \in Runs, Age(r) PROVE TypeOK'
    BY <1>4 DEF Age
  <1>5. ASSUME NEW r \in Runs, AgeGhidra(r) PROVE TypeOK'
    BY <1>5 DEF AgeGhidra
  <1>6. ASSUME NEW r \in Runs, LoseScanMsg(r) PROVE TypeOK'
    BY <1>6 DEF LoseScanMsg
  <1>7. ASSUME NEW r \in Runs, LoseGhidraMsg(r) PROVE TypeOK'
    BY <1>7 DEF LoseGhidraMsg
  <1>8. ASSUME NEW w \in Workers, RedeliverScan(w) PROVE TypeOK'
    BY <1>8 DEF RedeliverScan
  <1>9. ASSUME NEW h \in HeavyWorkers, RedeliverGhidra(h) PROVE TypeOK'
    BY <1>9 DEF RedeliverGhidra
  <1>10. ASSUME NEW w \in Workers, NEW r \in Runs, Claim(w, r) PROVE TypeOK'
    BY <1>10 DEF Claim, RunStatus, StageStatus, SettledStatus
  <1>11. ASSUME NEW w \in Workers, NEW r \in Runs, DropDuplicate(w, r) PROVE TypeOK'
    BY <1>11 DEF DropDuplicate
  <1>12. ASSUME NEW w \in Workers, Prepare(w) PROVE TypeOK'
    BY <1>12 DEF Prepare
  <1>13. ASSUME NEW w \in Workers, StartUnpack(w) PROVE TypeOK'
    BY <1>13 DEF StartUnpack, StartStage
  <1>14. ASSUME NEW w \in Workers, FinishUnpack(w) PROVE TypeOK'
    BY <1>14, RecordType DEF FinishUnpack, FinishStage
  <1>15. ASSUME NEW w \in Workers, CheckpointIndex(w) PROVE TypeOK'
    BY <1>15 DEF CheckpointIndex
  <1>16. ASSUME NEW w \in Workers, CheckpointIndexed(w) PROVE TypeOK'
    BY <1>16 DEF CheckpointIndexed
  <1>17. ASSUME NEW w \in Workers, StartStatic(w) PROVE TypeOK'
    BY <1>17 DEF StartStatic, StartStage
  <1>18. ASSUME NEW w \in Workers, FinishStatic(w) PROVE TypeOK'
    BY <1>18, RecordType DEF FinishStatic, FinishStage
  <1>19. ASSUME NEW w \in Workers, CheckpointReport(w) PROVE TypeOK'
    BY <1>19 DEF CheckpointReport
  <1>20. ASSUME NEW w \in Workers, Correlate(w) PROVE TypeOK'
    <2>1. staging' \in [Runs -> BOOLEAN]
      BY <1>20, RemoveType DEF Correlate
    <2> HIDE DEF RemoveStaging
    <2> QED
      BY <1>20, <2>1 DEF Correlate, PreviousRuns, Predecessors
  <1>21. ASSUME NEW w \in Workers, Settle(w) PROVE TypeOK'
    BY <1>21 DEF Settle, RunStatus, StageStatus, SettledStatus
  <1>22. ASSUME NEW w \in Workers, DispatchGhidra(w) PROVE TypeOK'
    BY <1>22 DEF DispatchGhidra
  <1>23. ASSUME NEW w \in Workers, SkipGhidra(w) PROVE TypeOK'
    BY <1>23 DEF SkipGhidra
  <1>24. ASSUME NEW w \in Workers, CommitRaised(w) PROVE TypeOK'
    <2>1. content' \in [Runs -> SUBSET {"tree", "results", "partial"}]
      BY <1>24, CommitRaisedContent
    <2> QED
      BY <1>24, <2>1 DEF CommitRaised, RunStatus
  <1>25. ASSUME NEW w \in Workers, Raise(w) PROVE TypeOK'
    <2>1. staging' \in [Runs -> BOOLEAN]
      BY <1>25, RemoveType DEF Raise
    <2> HIDE DEF RemoveStaging
    <2> QED
      BY <1>25, <2>1 DEF Raise
  <1>26. ASSUME NEW w \in Workers, DatabaseError(w) PROVE TypeOK'
    <2>1. staging' \in [Runs -> BOOLEAN]
      BY <1>26, RemoveType DEF DatabaseError
    <2> HIDE DEF RemoveStaging
    <2> QED
      BY <1>26, <2>1 DEF DatabaseError
  <1>27. ASSUME NEW w \in Workers, CrashWorker(w) PROVE TypeOK'
    BY <1>27 DEF CrashWorker
  <1>28. ASSUME NEW w \in Workers, CrashWorkerUnacked(w) PROVE TypeOK'
    BY <1>28 DEF CrashWorkerUnacked
  <1>29. ASSUME NEW w \in Workers, SweepRead(w) PROVE TypeOK'
    BY <1>29 DEF SweepRead, ToFail, ToRequeue, ToClose, QueuedOrphans,
       RunningOrphans
  <1>30. ASSUME NEW w \in Workers, SweepCommit(w) PROVE TypeOK'
    BY <1>30 DEF SweepCommit, RunStatus, StageStatus, SettledStatus
  <1>31. ASSUME NEW w \in Workers, NEW r \in Runs, Redispatch(w, r) PROVE TypeOK'
    BY <1>31 DEF Redispatch, Dispatched
  <1>32. ASSUME NEW w \in Workers, NEW r \in Runs, RedispatchLost(w,
     r) PROVE TypeOK'
    BY <1>32 DEF RedispatchLost, Dispatched
  <1>33. ASSUME NEW w \in Workers, SweepEnd(w) PROVE TypeOK'
    BY <1>33 DEF SweepEnd
  <1>34. ASSUME NEW h \in HeavyWorkers, NEW r \in Runs, EnrichCheck(h,
     r) PROVE TypeOK'
    BY <1>34 DEF EnrichCheck, Enrichable, AlreadyHandled
  <1>35. ASSUME NEW h \in HeavyWorkers, NEW r \in Runs, EnrichDecline(h,
     r) PROVE TypeOK'
    BY <1>35 DEF EnrichDecline
  <1>36. ASSUME NEW h \in HeavyWorkers, EnrichRefused(h) PROVE TypeOK'
    BY <1>36 DEF EnrichRefused
  <1>37. ASSUME NEW h \in HeavyWorkers, EnrichSkip(h) PROVE TypeOK'
    BY <1>37 DEF EnrichSkip
  <1>38. ASSUME NEW h \in HeavyWorkers, EnrichStart(h) PROVE TypeOK'
    BY <1>38 DEF EnrichStart
  <1>39. ASSUME NEW h \in HeavyWorkers, EnrichFinish(h) PROVE TypeOK'
    BY <1>39, RecordType DEF EnrichFinish, GhidraOutcomes
  <1>40. ASSUME NEW h \in HeavyWorkers, EnrichAbort(h) PROVE TypeOK'
    BY <1>40 DEF EnrichAbort
  <1>41. ASSUME NEW h \in HeavyWorkers, CrashHeavy(h) PROVE TypeOK'
    BY <1>41 DEF CrashHeavy
  <1>42. ASSUME NEW h \in HeavyWorkers, CrashHeavyUnacked(h) PROVE TypeOK'
    BY <1>42 DEF CrashHeavyUnacked
  <1>43. CASE UNCHANGED vars
    BY <1>43
  <1> QED
    BY <1>1, <1>2, <1>3, <1>4, <1>5, <1>6, <1>7, <1>8, <1>9, <1>10, <1>11, <1>12,
       <1>13, <1>14, <1>15, <1>16, <1>17, <1>18, <1>19, <1>20, <1>21, <1>22, <1>23,
       <1>24, <1>25, <1>26, <1>27, <1>28, <1>29, <1>30, <1>31, <1>32, <1>33, <1>34,
       <1>35, <1>36, <1>37, <1>38, <1>39, <1>40, <1>41, <1>42, <1>43 DEF Next,
       ApiStep, BrokerStep, WorkerStep, ScanStep, SweepTail, HeavyStep

-----------------------------------------------------------------------------
(* Who may write a run *)

\* A slot names a run for as long as it holds one.
LEMMA SlotStep == TypeOK /\ SlotInv /\ [Next]_vars => SlotInv'
  <1> SUFFICES ASSUME TypeOK, SlotInv, [Next]_vars PROVE SlotInv'
    OBVIOUS
  <1> USE DEF TypeOK, SlotInv
  <1>1. ASSUME NEW r \in Runs, CreateRun(r) PROVE SlotInv'
    BY <1>1 DEF CreateRun
  <1>2. ASSUME NEW r \in Runs, DispatchRun(r) PROVE SlotInv'
    BY <1>2 DEF DispatchRun
  <1>3. ASSUME NEW r \in Runs, DispatchRunLost(r) PROVE SlotInv'
    BY <1>3 DEF DispatchRunLost
  <1>4. ASSUME NEW r \in Runs, Age(r) PROVE SlotInv'
    BY <1>4 DEF Age
  <1>5. ASSUME NEW r \in Runs, AgeGhidra(r) PROVE SlotInv'
    BY <1>5 DEF AgeGhidra
  <1>6. ASSUME NEW r \in Runs, LoseScanMsg(r) PROVE SlotInv'
    BY <1>6 DEF LoseScanMsg
  <1>7. ASSUME NEW r \in Runs, LoseGhidraMsg(r) PROVE SlotInv'
    BY <1>7 DEF LoseGhidraMsg
  <1>8. ASSUME NEW w \in Workers, RedeliverScan(w) PROVE SlotInv'
    BY <1>8 DEF RedeliverScan
  <1>9. ASSUME NEW h \in HeavyWorkers, RedeliverGhidra(h) PROVE SlotInv'
    BY <1>9 DEF RedeliverGhidra
  <1>10. ASSUME NEW w \in Workers, NEW r \in Runs, Claim(w, r) PROVE SlotInv'
    BY <1>10 DEF Claim
  <1>11. ASSUME NEW w \in Workers, NEW r \in Runs, DropDuplicate(w,
     r) PROVE SlotInv'
    BY <1>11 DEF DropDuplicate
  <1>12. ASSUME NEW w \in Workers, Prepare(w) PROVE SlotInv'
    BY <1>12 DEF Prepare
  <1>13. ASSUME NEW w \in Workers, StartUnpack(w) PROVE SlotInv'
    BY <1>13 DEF StartUnpack, StartStage
  <1>14. ASSUME NEW w \in Workers, FinishUnpack(w) PROVE SlotInv'
    BY <1>14, RecordType DEF FinishUnpack, FinishStage
  <1>15. ASSUME NEW w \in Workers, CheckpointIndex(w) PROVE SlotInv'
    BY <1>15 DEF CheckpointIndex
  <1>16. ASSUME NEW w \in Workers, CheckpointIndexed(w) PROVE SlotInv'
    BY <1>16 DEF CheckpointIndexed
  <1>17. ASSUME NEW w \in Workers, StartStatic(w) PROVE SlotInv'
    BY <1>17 DEF StartStatic, StartStage
  <1>18. ASSUME NEW w \in Workers, FinishStatic(w) PROVE SlotInv'
    BY <1>18, RecordType DEF FinishStatic, FinishStage
  <1>19. ASSUME NEW w \in Workers, CheckpointReport(w) PROVE SlotInv'
    BY <1>19 DEF CheckpointReport
  <1>20. ASSUME NEW w \in Workers, Correlate(w) PROVE SlotInv'
    BY <1>20 DEF Correlate, PreviousRuns, Predecessors
  <1>21. ASSUME NEW w \in Workers, Settle(w) PROVE SlotInv'
    BY <1>21 DEF Settle
  <1>22. ASSUME NEW w \in Workers, DispatchGhidra(w) PROVE SlotInv'
    BY <1>22 DEF DispatchGhidra
  <1>23. ASSUME NEW w \in Workers, SkipGhidra(w) PROVE SlotInv'
    BY <1>23 DEF SkipGhidra
  <1>24. ASSUME NEW w \in Workers, CommitRaised(w) PROVE SlotInv'
    BY <1>24 DEF CommitRaised
  <1>25. ASSUME NEW w \in Workers, Raise(w) PROVE SlotInv'
    BY <1>25 DEF Raise
  <1>26. ASSUME NEW w \in Workers, DatabaseError(w) PROVE SlotInv'
    BY <1>26 DEF DatabaseError
  <1>27. ASSUME NEW w \in Workers, CrashWorker(w) PROVE SlotInv'
    BY <1>27 DEF CrashWorker
  <1>28. ASSUME NEW w \in Workers, CrashWorkerUnacked(w) PROVE SlotInv'
    BY <1>28 DEF CrashWorkerUnacked
  <1>29. ASSUME NEW w \in Workers, SweepRead(w) PROVE SlotInv'
    BY <1>29 DEF SweepRead, ToFail, ToRequeue, ToClose, QueuedOrphans,
       RunningOrphans
  <1>30. ASSUME NEW w \in Workers, SweepCommit(w) PROVE SlotInv'
    BY <1>30 DEF SweepCommit
  <1>31. ASSUME NEW w \in Workers, NEW r \in Runs, Redispatch(w, r) PROVE SlotInv'
    BY <1>31 DEF Redispatch, Dispatched
  <1>32. ASSUME NEW w \in Workers, NEW r \in Runs, RedispatchLost(w,
     r) PROVE SlotInv'
    BY <1>32 DEF RedispatchLost, Dispatched
  <1>33. ASSUME NEW w \in Workers, SweepEnd(w) PROVE SlotInv'
    BY <1>33 DEF SweepEnd
  <1>34. ASSUME NEW h \in HeavyWorkers, NEW r \in Runs, EnrichCheck(h,
     r) PROVE SlotInv'
    BY <1>34 DEF EnrichCheck, Enrichable, AlreadyHandled
  <1>35. ASSUME NEW h \in HeavyWorkers, NEW r \in Runs, EnrichDecline(h,
     r) PROVE SlotInv'
    BY <1>35 DEF EnrichDecline
  <1>36. ASSUME NEW h \in HeavyWorkers, EnrichRefused(h) PROVE SlotInv'
    BY <1>36 DEF EnrichRefused
  <1>37. ASSUME NEW h \in HeavyWorkers, EnrichSkip(h) PROVE SlotInv'
    BY <1>37 DEF EnrichSkip
  <1>38. ASSUME NEW h \in HeavyWorkers, EnrichStart(h) PROVE SlotInv'
    BY <1>38 DEF EnrichStart
  <1>39. ASSUME NEW h \in HeavyWorkers, EnrichFinish(h) PROVE SlotInv'
    BY <1>39, RecordType DEF EnrichFinish, GhidraOutcomes
  <1>40. ASSUME NEW h \in HeavyWorkers, EnrichAbort(h) PROVE SlotInv'
    BY <1>40 DEF EnrichAbort
  <1>41. ASSUME NEW h \in HeavyWorkers, CrashHeavy(h) PROVE SlotInv'
    BY <1>41 DEF CrashHeavy
  <1>42. ASSUME NEW h \in HeavyWorkers, CrashHeavyUnacked(h) PROVE SlotInv'
    BY <1>42 DEF CrashHeavyUnacked
  <1>43. CASE UNCHANGED vars
    BY <1>43
  <1> QED
    BY <1>1, <1>2, <1>3, <1>4, <1>5, <1>6, <1>7, <1>8, <1>9, <1>10, <1>11, <1>12,
       <1>13, <1>14, <1>15, <1>16, <1>17, <1>18, <1>19, <1>20, <1>21, <1>22, <1>23,
       <1>24, <1>25, <1>26, <1>27, <1>28, <1>29, <1>30, <1>31, <1>32, <1>33, <1>34,
       <1>35, <1>36, <1>37, <1>38, <1>39, <1>40, <1>41, <1>42, <1>43 DEF Next,
       ApiStep, BrokerStep, WorkerStep, ScanStep, SweepTail, HeavyStep

\* The claim is exclusive, and results come only from the one that holds it.
LEMMA ClaimStep == TypeOK /\ SlotInv /\ ClaimInv /\ [Next]_vars => ClaimInv'
  <1> SUFFICES ASSUME TypeOK, SlotInv, ClaimInv, [Next]_vars PROVE ClaimInv'
    OBVIOUS
  <1> USE DEF TypeOK, SlotInv, ClaimInv, SingleScanner, Holds, WithResults, Terminal
  <1>1. ASSUME NEW r \in Runs, CreateRun(r) PROVE ClaimInv'
    BY <1>1 DEF CreateRun
  <1>2. ASSUME NEW r \in Runs, DispatchRun(r) PROVE ClaimInv'
    BY <1>2 DEF DispatchRun
  <1>3. ASSUME NEW r \in Runs, DispatchRunLost(r) PROVE ClaimInv'
    BY <1>3 DEF DispatchRunLost
  <1>4. ASSUME NEW r \in Runs, Age(r) PROVE ClaimInv'
    BY <1>4 DEF Age
  <1>5. ASSUME NEW r \in Runs, AgeGhidra(r) PROVE ClaimInv'
    BY <1>5 DEF AgeGhidra
  <1>6. ASSUME NEW r \in Runs, LoseScanMsg(r) PROVE ClaimInv'
    BY <1>6 DEF LoseScanMsg
  <1>7. ASSUME NEW r \in Runs, LoseGhidraMsg(r) PROVE ClaimInv'
    BY <1>7 DEF LoseGhidraMsg
  <1>8. ASSUME NEW w \in Workers, RedeliverScan(w) PROVE ClaimInv'
    BY <1>8 DEF RedeliverScan
  <1>9. ASSUME NEW h \in HeavyWorkers, RedeliverGhidra(h) PROVE ClaimInv'
    BY <1>9 DEF RedeliverGhidra
  <1>10. ASSUME NEW w \in Workers, NEW r \in Runs, Claim(w, r) PROVE ClaimInv'
    <2> USE <1>10 DEF Claim, TypeOK, ClaimInv
    <2>1. \A v \in Workers : ~Holds(v, r)
      BY DEF WithResults, Terminal
    <2>2. \A v \in Workers, q \in Runs : Holds(v, q)' => Holds(v,
       q) \/ (v = w /\ q = r)
      BY DEF Holds
    <2>3. "results" \notin content[r]
      BY DEF Terminal
    <2>4. \A v \in Workers, q \in Runs : Holds(v, q)' =>
            status'[q] \in {"running", "failed"} /\ "results" \notin content'[q]
      BY <2>2, <2>3
    <2>5. ASSUME NEW q \in Runs, NEW v \in Workers, NEW x \in Workers,
                 Holds(v, q)', Holds(x, q)'
          PROVE  v = x
      <3>1. CASE q = r
        BY <2>1, <2>2, <2>5, <3>1
      <3>2. CASE q # r
        BY <2>2, <2>5, <3>2 DEF SingleScanner
      <3> QED
        BY <3>1, <3>2
    <2>6. \A q \in Runs : "results" \in content'[q] => status'[q] \in Terminal
      BY <2>3
    <2>7. \A q \in Runs : status'[q] \in WithResults => "results" \in content'[q]
      BY DEF WithResults
    <2> QED
      BY <2>4, <2>5, <2>6, <2>7 DEF SingleScanner
  <1>11. ASSUME NEW w \in Workers, NEW r \in Runs, DropDuplicate(w,
     r) PROVE ClaimInv'
    BY <1>11 DEF DropDuplicate
  <1>12. ASSUME NEW w \in Workers, Prepare(w) PROVE ClaimInv'
    BY <1>12 DEF Prepare
  <1>13. ASSUME NEW w \in Workers, StartUnpack(w) PROVE ClaimInv'
    BY <1>13 DEF StartUnpack, StartStage
  <1>14. ASSUME NEW w \in Workers, FinishUnpack(w) PROVE ClaimInv'
    BY <1>14, RecordType DEF FinishUnpack, FinishStage
  <1>15. ASSUME NEW w \in Workers, CheckpointIndex(w) PROVE ClaimInv'
    BY <1>15 DEF CheckpointIndex
  <1>16. ASSUME NEW w \in Workers, CheckpointIndexed(w) PROVE ClaimInv'
    BY <1>16 DEF CheckpointIndexed
  <1>17. ASSUME NEW w \in Workers, StartStatic(w) PROVE ClaimInv'
    BY <1>17 DEF StartStatic, StartStage
  <1>18. ASSUME NEW w \in Workers, FinishStatic(w) PROVE ClaimInv'
    BY <1>18, RecordType DEF FinishStatic, FinishStage
  <1>19. ASSUME NEW w \in Workers, CheckpointReport(w) PROVE ClaimInv'
    BY <1>19 DEF CheckpointReport
  <1>20. ASSUME NEW w \in Workers, Correlate(w) PROVE ClaimInv'
    BY <1>20 DEF Correlate, PreviousRuns, Predecessors
  <1>21. ASSUME NEW w \in Workers, Settle(w) PROVE ClaimInv'
    BY <1>21 DEF Settle, SettledStatus
  <1>22. ASSUME NEW w \in Workers, DispatchGhidra(w) PROVE ClaimInv'
    BY <1>22 DEF DispatchGhidra
  <1>23. ASSUME NEW w \in Workers, SkipGhidra(w) PROVE ClaimInv'
    BY <1>23 DEF SkipGhidra
  <1>24. ASSUME NEW w \in Workers, CommitRaised(w) PROVE ClaimInv'
    BY <1>24 DEF CommitRaised
  <1>25. ASSUME NEW w \in Workers, Raise(w) PROVE ClaimInv'
    BY <1>25 DEF Raise
  <1>26. ASSUME NEW w \in Workers, DatabaseError(w) PROVE ClaimInv'
    BY <1>26 DEF DatabaseError
  <1>27. ASSUME NEW w \in Workers, CrashWorker(w) PROVE ClaimInv'
    BY <1>27 DEF CrashWorker
  <1>28. ASSUME NEW w \in Workers, CrashWorkerUnacked(w) PROVE ClaimInv'
    BY <1>28 DEF CrashWorkerUnacked
  <1>29. ASSUME NEW w \in Workers, SweepRead(w) PROVE ClaimInv'
    BY <1>29 DEF SweepRead, ToFail, ToRequeue, ToClose, QueuedOrphans,
       RunningOrphans
  <1>30. ASSUME NEW w \in Workers, SweepCommit(w) PROVE ClaimInv'
    BY <1>30 DEF SweepCommit
  <1>31. ASSUME NEW w \in Workers, NEW r \in Runs, Redispatch(w, r) PROVE ClaimInv'
    BY <1>31 DEF Redispatch, Dispatched
  <1>32. ASSUME NEW w \in Workers, NEW r \in Runs, RedispatchLost(w,
     r) PROVE ClaimInv'
    BY <1>32 DEF RedispatchLost, Dispatched
  <1>33. ASSUME NEW w \in Workers, SweepEnd(w) PROVE ClaimInv'
    BY <1>33 DEF SweepEnd
  <1>34. ASSUME NEW h \in HeavyWorkers, NEW r \in Runs, EnrichCheck(h,
     r) PROVE ClaimInv'
    BY <1>34 DEF EnrichCheck, Enrichable, AlreadyHandled
  <1>35. ASSUME NEW h \in HeavyWorkers, NEW r \in Runs, EnrichDecline(h,
     r) PROVE ClaimInv'
    BY <1>35 DEF EnrichDecline
  <1>36. ASSUME NEW h \in HeavyWorkers, EnrichRefused(h) PROVE ClaimInv'
    BY <1>36 DEF EnrichRefused
  <1>37. ASSUME NEW h \in HeavyWorkers, EnrichSkip(h) PROVE ClaimInv'
    BY <1>37 DEF EnrichSkip
  <1>38. ASSUME NEW h \in HeavyWorkers, EnrichStart(h) PROVE ClaimInv'
    BY <1>38 DEF EnrichStart
  <1>39. ASSUME NEW h \in HeavyWorkers, EnrichFinish(h) PROVE ClaimInv'
    BY <1>39, RecordType DEF EnrichFinish, GhidraOutcomes
  <1>40. ASSUME NEW h \in HeavyWorkers, EnrichAbort(h) PROVE ClaimInv'
    BY <1>40 DEF EnrichAbort
  <1>41. ASSUME NEW h \in HeavyWorkers, CrashHeavy(h) PROVE ClaimInv'
    BY <1>41 DEF CrashHeavy
  <1>42. ASSUME NEW h \in HeavyWorkers, CrashHeavyUnacked(h) PROVE ClaimInv'
    BY <1>42 DEF CrashHeavyUnacked
  <1>43. CASE UNCHANGED vars
    BY <1>43
  <1> QED
    BY <1>1, <1>2, <1>3, <1>4, <1>5, <1>6, <1>7, <1>8, <1>9, <1>10, <1>11, <1>12,
       <1>13, <1>14, <1>15, <1>16, <1>17, <1>18, <1>19, <1>20, <1>21, <1>22, <1>23,
       <1>24, <1>25, <1>26, <1>27, <1>28, <1>29, <1>30, <1>31, <1>32, <1>33, <1>34,
       <1>35, <1>36, <1>37, <1>38, <1>39, <1>40, <1>41, <1>42, <1>43 DEF Next,
       ApiStep, BrokerStep, WorkerStep, ScanStep, SweepTail, HeavyStep

-----------------------------------------------------------------------------
(* What a settled run rests on *)

\* Each stage ends before its rows are committed, and a run settles on those rows.
LEMMA ExaminedStep == TypeOK /\ SlotInv /\ ClaimInv /\ ExaminedInv /\ [Next]_vars => ExaminedInv'
  <1> SUFFICES ASSUME TypeOK, SlotInv, ClaimInv, ExaminedInv,
     [Next]_vars PROVE ExaminedInv'
    OBVIOUS
  <1> USE DEF TypeOK, SlotInv, ClaimInv, SingleScanner, Holds, ExaminedInv, Ended,
     UnpackEnded, TreeCommitted, StaticEnded, WithResults, Terminal,
     LiveScanKeepsStaging, UsingStaging
  <1>1. ASSUME NEW r \in Runs, CreateRun(r) PROVE ExaminedInv'
    BY <1>1 DEF CreateRun
  <1>2. ASSUME NEW r \in Runs, DispatchRun(r) PROVE ExaminedInv'
    BY <1>2 DEF DispatchRun
  <1>3. ASSUME NEW r \in Runs, DispatchRunLost(r) PROVE ExaminedInv'
    BY <1>3 DEF DispatchRunLost
  <1>4. ASSUME NEW r \in Runs, Age(r) PROVE ExaminedInv'
    BY <1>4 DEF Age
  <1>5. ASSUME NEW r \in Runs, AgeGhidra(r) PROVE ExaminedInv'
    BY <1>5 DEF AgeGhidra
  <1>6. ASSUME NEW r \in Runs, LoseScanMsg(r) PROVE ExaminedInv'
    BY <1>6 DEF LoseScanMsg
  <1>7. ASSUME NEW r \in Runs, LoseGhidraMsg(r) PROVE ExaminedInv'
    BY <1>7 DEF LoseGhidraMsg
  <1>8. ASSUME NEW w \in Workers, RedeliverScan(w) PROVE ExaminedInv'
    BY <1>8 DEF RedeliverScan
  <1>9. ASSUME NEW h \in HeavyWorkers, RedeliverGhidra(h) PROVE ExaminedInv'
    BY <1>9 DEF RedeliverGhidra
  <1>10. ASSUME NEW w \in Workers, NEW r \in Runs, Claim(w, r) PROVE ExaminedInv'
    BY <1>10 DEF Claim
  <1>11. ASSUME NEW w \in Workers, NEW r \in Runs, DropDuplicate(w,
     r) PROVE ExaminedInv'
    BY <1>11 DEF DropDuplicate
  <1>12. ASSUME NEW w \in Workers, Prepare(w) PROVE ExaminedInv'
    BY <1>12 DEF Prepare
  <1>13. ASSUME NEW w \in Workers, StartUnpack(w) PROVE ExaminedInv'
    BY <1>13 DEF StartUnpack, StartStage
  <1>14. ASSUME NEW w \in Workers, FinishUnpack(w) PROVE ExaminedInv'
    BY <1>14, RecordType DEF FinishUnpack, FinishStage
  <1>15. ASSUME NEW w \in Workers, CheckpointIndex(w) PROVE ExaminedInv'
    BY <1>15 DEF CheckpointIndex
  <1>16. ASSUME NEW w \in Workers, CheckpointIndexed(w) PROVE ExaminedInv'
    BY <1>16 DEF CheckpointIndexed
  <1>17. ASSUME NEW w \in Workers, StartStatic(w) PROVE ExaminedInv'
    BY <1>17 DEF StartStatic, StartStage
  <1>18. ASSUME NEW w \in Workers, FinishStatic(w) PROVE ExaminedInv'
    BY <1>18, RecordType DEF FinishStatic, FinishStage
  <1>19. ASSUME NEW w \in Workers, CheckpointReport(w) PROVE ExaminedInv'
    BY <1>19 DEF CheckpointReport
  <1>20. ASSUME NEW w \in Workers, Correlate(w) PROVE ExaminedInv'
    BY <1>20 DEF Correlate, PreviousRuns, Predecessors
  <1>21. ASSUME NEW w \in Workers, Settle(w) PROVE ExaminedInv'
    BY <1>21 DEF Settle
  <1>22. ASSUME NEW w \in Workers, DispatchGhidra(w) PROVE ExaminedInv'
    BY <1>22 DEF DispatchGhidra
  <1>23. ASSUME NEW w \in Workers, SkipGhidra(w) PROVE ExaminedInv'
    BY <1>23 DEF SkipGhidra
  <1>24. ASSUME NEW w \in Workers, CommitRaised(w) PROVE ExaminedInv'
    BY <1>24 DEF CommitRaised
  <1>25. ASSUME NEW w \in Workers, Raise(w) PROVE ExaminedInv'
    BY <1>25 DEF Raise
  <1>26. ASSUME NEW w \in Workers, DatabaseError(w) PROVE ExaminedInv'
    <2>1. CASE pc[w] \in InTry /\ RemoveStaging(w)
      BY <1>26, <2>1 DEF DatabaseError
    <2>2. CASE pc[w] \notin InTry /\ UNCHANGED staging
      BY <1>26, <2>2 DEF DatabaseError
    <2> QED
      BY <1>26, <2>1, <2>2 DEF DatabaseError
  <1>27. ASSUME NEW w \in Workers, CrashWorker(w) PROVE ExaminedInv'
    BY <1>27 DEF CrashWorker
  <1>28. ASSUME NEW w \in Workers, CrashWorkerUnacked(w) PROVE ExaminedInv'
    BY <1>28 DEF CrashWorkerUnacked
  <1>29. ASSUME NEW w \in Workers, SweepRead(w) PROVE ExaminedInv'
    BY <1>29 DEF SweepRead, ToFail, ToRequeue, ToClose, QueuedOrphans,
       RunningOrphans
  <1>30. ASSUME NEW w \in Workers, SweepCommit(w) PROVE ExaminedInv'
    BY <1>30 DEF SweepCommit
  <1>31. ASSUME NEW w \in Workers, NEW r \in Runs, Redispatch(w,
     r) PROVE ExaminedInv'
    BY <1>31 DEF Redispatch, Dispatched
  <1>32. ASSUME NEW w \in Workers, NEW r \in Runs, RedispatchLost(w,
     r) PROVE ExaminedInv'
    BY <1>32 DEF RedispatchLost, Dispatched
  <1>33. ASSUME NEW w \in Workers, SweepEnd(w) PROVE ExaminedInv'
    BY <1>33 DEF SweepEnd
  <1>34. ASSUME NEW h \in HeavyWorkers, NEW r \in Runs, EnrichCheck(h,
     r) PROVE ExaminedInv'
    BY <1>34 DEF EnrichCheck, Enrichable, AlreadyHandled
  <1>35. ASSUME NEW h \in HeavyWorkers, NEW r \in Runs, EnrichDecline(h,
     r) PROVE ExaminedInv'
    BY <1>35 DEF EnrichDecline
  <1>36. ASSUME NEW h \in HeavyWorkers, EnrichRefused(h) PROVE ExaminedInv'
    BY <1>36 DEF EnrichRefused
  <1>37. ASSUME NEW h \in HeavyWorkers, EnrichSkip(h) PROVE ExaminedInv'
    BY <1>37 DEF EnrichSkip
  <1>38. ASSUME NEW h \in HeavyWorkers, EnrichStart(h) PROVE ExaminedInv'
    BY <1>38 DEF EnrichStart
  <1>39. ASSUME NEW h \in HeavyWorkers, EnrichFinish(h) PROVE ExaminedInv'
    BY <1>39, RecordType DEF EnrichFinish, GhidraOutcomes
  <1>40. ASSUME NEW h \in HeavyWorkers, EnrichAbort(h) PROVE ExaminedInv'
    BY <1>40 DEF EnrichAbort
  <1>41. ASSUME NEW h \in HeavyWorkers, CrashHeavy(h) PROVE ExaminedInv'
    BY <1>41 DEF CrashHeavy
  <1>42. ASSUME NEW h \in HeavyWorkers, CrashHeavyUnacked(h) PROVE ExaminedInv'
    BY <1>42 DEF CrashHeavyUnacked
  <1>43. CASE UNCHANGED vars
    BY <1>43
  <1> QED
    BY <1>1, <1>2, <1>3, <1>4, <1>5, <1>6, <1>7, <1>8, <1>9, <1>10, <1>11, <1>12,
       <1>13, <1>14, <1>15, <1>16, <1>17, <1>18, <1>19, <1>20, <1>21, <1>22, <1>23,
       <1>24, <1>25, <1>26, <1>27, <1>28, <1>29, <1>30, <1>31, <1>32, <1>33, <1>34,
       <1>35, <1>36, <1>37, <1>38, <1>39, <1>40, <1>41, <1>42, <1>43 DEF Next,
       ApiStep, BrokerStep, WorkerStep, ScanStep, SweepTail, HeavyStep

-----------------------------------------------------------------------------
(* Enrichment and predecessors *)

\* Enrichment rests on results, and the stage row lets one container in.
LEMMA GhidraStep == TypeOK /\ SlotInv /\ ClaimInv /\ GhidraInv /\ [Next]_vars => GhidraInv'
  <1> SUFFICES ASSUME TypeOK, SlotInv, ClaimInv, GhidraInv,
     [Next]_vars PROVE GhidraInv'
    OBVIOUS
  <1> USE DEF TypeOK, SlotInv, ClaimInv, GhidraInv, GhidraOnce, WithResults
  <1>1. ASSUME NEW r \in Runs, CreateRun(r) PROVE GhidraInv'
    BY <1>1 DEF CreateRun
  <1>2. ASSUME NEW r \in Runs, DispatchRun(r) PROVE GhidraInv'
    BY <1>2 DEF DispatchRun
  <1>3. ASSUME NEW r \in Runs, DispatchRunLost(r) PROVE GhidraInv'
    BY <1>3 DEF DispatchRunLost
  <1>4. ASSUME NEW r \in Runs, Age(r) PROVE GhidraInv'
    BY <1>4 DEF Age
  <1>5. ASSUME NEW r \in Runs, AgeGhidra(r) PROVE GhidraInv'
    BY <1>5 DEF AgeGhidra
  <1>6. ASSUME NEW r \in Runs, LoseScanMsg(r) PROVE GhidraInv'
    BY <1>6 DEF LoseScanMsg
  <1>7. ASSUME NEW r \in Runs, LoseGhidraMsg(r) PROVE GhidraInv'
    BY <1>7 DEF LoseGhidraMsg
  <1>8. ASSUME NEW w \in Workers, RedeliverScan(w) PROVE GhidraInv'
    BY <1>8 DEF RedeliverScan
  <1>9. ASSUME NEW h \in HeavyWorkers, RedeliverGhidra(h) PROVE GhidraInv'
    BY <1>9 DEF RedeliverGhidra
  <1>10. ASSUME NEW w \in Workers, NEW r \in Runs, Claim(w, r) PROVE GhidraInv'
    BY <1>10 DEF Claim
  <1>11. ASSUME NEW w \in Workers, NEW r \in Runs, DropDuplicate(w,
     r) PROVE GhidraInv'
    BY <1>11 DEF DropDuplicate
  <1>12. ASSUME NEW w \in Workers, Prepare(w) PROVE GhidraInv'
    BY <1>12 DEF Prepare
  <1>13. ASSUME NEW w \in Workers, StartUnpack(w) PROVE GhidraInv'
    BY <1>13 DEF StartUnpack, StartStage
  <1>14. ASSUME NEW w \in Workers, FinishUnpack(w) PROVE GhidraInv'
    BY <1>14, RecordType DEF FinishUnpack, FinishStage
  <1>15. ASSUME NEW w \in Workers, CheckpointIndex(w) PROVE GhidraInv'
    BY <1>15 DEF CheckpointIndex
  <1>16. ASSUME NEW w \in Workers, CheckpointIndexed(w) PROVE GhidraInv'
    BY <1>16 DEF CheckpointIndexed
  <1>17. ASSUME NEW w \in Workers, StartStatic(w) PROVE GhidraInv'
    BY <1>17 DEF StartStatic, StartStage
  <1>18. ASSUME NEW w \in Workers, FinishStatic(w) PROVE GhidraInv'
    BY <1>18, RecordType DEF FinishStatic, FinishStage
  <1>19. ASSUME NEW w \in Workers, CheckpointReport(w) PROVE GhidraInv'
    BY <1>19 DEF CheckpointReport
  <1>20. ASSUME NEW w \in Workers, Correlate(w) PROVE GhidraInv'
    BY <1>20 DEF Correlate, PreviousRuns, Predecessors
  <1>21. ASSUME NEW w \in Workers, Settle(w) PROVE GhidraInv'
    BY <1>21 DEF Settle
  <1>22. ASSUME NEW w \in Workers, DispatchGhidra(w) PROVE GhidraInv'
    BY <1>22 DEF DispatchGhidra
  <1>23. ASSUME NEW w \in Workers, SkipGhidra(w) PROVE GhidraInv'
    BY <1>23 DEF SkipGhidra
  <1>24. ASSUME NEW w \in Workers, CommitRaised(w) PROVE GhidraInv'
    BY <1>24 DEF CommitRaised
  <1>25. ASSUME NEW w \in Workers, Raise(w) PROVE GhidraInv'
    BY <1>25 DEF Raise
  <1>26. ASSUME NEW w \in Workers, DatabaseError(w) PROVE GhidraInv'
    BY <1>26 DEF DatabaseError
  <1>27. ASSUME NEW w \in Workers, CrashWorker(w) PROVE GhidraInv'
    BY <1>27 DEF CrashWorker
  <1>28. ASSUME NEW w \in Workers, CrashWorkerUnacked(w) PROVE GhidraInv'
    BY <1>28 DEF CrashWorkerUnacked
  <1>29. ASSUME NEW w \in Workers, SweepRead(w) PROVE GhidraInv'
    BY <1>29 DEF SweepRead, ToFail, ToRequeue, ToClose, QueuedOrphans,
       RunningOrphans
  <1>30. ASSUME NEW w \in Workers, SweepCommit(w) PROVE GhidraInv'
    BY <1>30 DEF SweepCommit
  <1>31. ASSUME NEW w \in Workers, NEW r \in Runs, Redispatch(w, r) PROVE GhidraInv'
    BY <1>31 DEF Redispatch, Dispatched
  <1>32. ASSUME NEW w \in Workers, NEW r \in Runs, RedispatchLost(w,
     r) PROVE GhidraInv'
    BY <1>32 DEF RedispatchLost, Dispatched
  <1>33. ASSUME NEW w \in Workers, SweepEnd(w) PROVE GhidraInv'
    BY <1>33 DEF SweepEnd
  <1>34. ASSUME NEW h \in HeavyWorkers, NEW r \in Runs, EnrichCheck(h,
     r) PROVE GhidraInv'
    BY <1>34 DEF EnrichCheck, Enrichable, AlreadyHandled
  <1>35. ASSUME NEW h \in HeavyWorkers, NEW r \in Runs, EnrichDecline(h,
     r) PROVE GhidraInv'
    BY <1>35 DEF EnrichDecline
  <1>36. ASSUME NEW h \in HeavyWorkers, EnrichRefused(h) PROVE GhidraInv'
    BY <1>36 DEF EnrichRefused
  <1>37. ASSUME NEW h \in HeavyWorkers, EnrichSkip(h) PROVE GhidraInv'
    BY <1>37 DEF EnrichSkip
  <1>38. ASSUME NEW h \in HeavyWorkers, EnrichStart(h) PROVE GhidraInv'
    BY <1>38 DEF EnrichStart
  <1>39. ASSUME NEW h \in HeavyWorkers, EnrichFinish(h) PROVE GhidraInv'
    BY <1>39, RecordType DEF EnrichFinish, GhidraOutcomes
  <1>40. ASSUME NEW h \in HeavyWorkers, EnrichAbort(h) PROVE GhidraInv'
    BY <1>40 DEF EnrichAbort
  <1>41. ASSUME NEW h \in HeavyWorkers, CrashHeavy(h) PROVE GhidraInv'
    BY <1>41 DEF CrashHeavy
  <1>42. ASSUME NEW h \in HeavyWorkers, CrashHeavyUnacked(h) PROVE GhidraInv'
    BY <1>42 DEF CrashHeavyUnacked
  <1>43. CASE UNCHANGED vars
    BY <1>43
  <1> QED
    BY <1>1, <1>2, <1>3, <1>4, <1>5, <1>6, <1>7, <1>8, <1>9, <1>10, <1>11, <1>12,
       <1>13, <1>14, <1>15, <1>16, <1>17, <1>18, <1>19, <1>20, <1>21, <1>22, <1>23,
       <1>24, <1>25, <1>26, <1>27, <1>28, <1>29, <1>30, <1>31, <1>32, <1>33, <1>34,
       <1>35, <1>36, <1>37, <1>38, <1>39, <1>40, <1>41, <1>42, <1>43 DEF Next,
       ApiStep, BrokerStep, WorkerStep, ScanStep, SweepTail, HeavyStep

\* A slot that is freed or carries on adds no link.
LEMMA LinkKept ==
  ASSUME LinkInv, previous' = previous,
         \A r \in Runs : "results" \in content[r] => "results" \in content'[r],
         \A w \in Workers : link'[w] \in {link[w], NoRun}
  PROVE  LinkInv'
  <1>1. \A w \in Workers : link'[w] \in Runs => "results" \in content'[link'[w]]
    BY RunsAssumption DEF LinkInv
  <1>2. \A r \in Runs : previous'[r] \in Runs => "results" \in content'[previous'[r]]
    BY DEF LinkInv
  <1>3. BaselineAcyclic'
    BY DEF LinkInv, BaselineAcyclic
  <1> QED
    BY <1>1, <1>2, <1>3 DEF LinkInv

\* A link is only ever added from a run without results to one with results, so
\* no link closes a circle.
LEMMA LinkStep == TypeOK /\ SlotInv /\ ClaimInv /\ LinkInv /\ [Next]_vars => LinkInv'
  <1> SUFFICES ASSUME TypeOK, SlotInv, ClaimInv, LinkInv, [Next]_vars PROVE LinkInv'
    OBVIOUS
  <1> USE DEF TypeOK, SlotInv, ClaimInv, LinkInv, BaselineAcyclic, WithResults
  <1>1. ASSUME NEW r \in Runs, CreateRun(r) PROVE LinkInv'
    BY <1>1 DEF CreateRun
  <1>2. ASSUME NEW r \in Runs, DispatchRun(r) PROVE LinkInv'
    BY <1>2 DEF DispatchRun
  <1>3. ASSUME NEW r \in Runs, DispatchRunLost(r) PROVE LinkInv'
    BY <1>3 DEF DispatchRunLost
  <1>4. ASSUME NEW r \in Runs, Age(r) PROVE LinkInv'
    BY <1>4 DEF Age
  <1>5. ASSUME NEW r \in Runs, AgeGhidra(r) PROVE LinkInv'
    BY <1>5 DEF AgeGhidra
  <1>6. ASSUME NEW r \in Runs, LoseScanMsg(r) PROVE LinkInv'
    BY <1>6 DEF LoseScanMsg
  <1>7. ASSUME NEW r \in Runs, LoseGhidraMsg(r) PROVE LinkInv'
    BY <1>7 DEF LoseGhidraMsg
  <1>8. ASSUME NEW w \in Workers, RedeliverScan(w) PROVE LinkInv'
    BY <1>8 DEF RedeliverScan
  <1>9. ASSUME NEW h \in HeavyWorkers, RedeliverGhidra(h) PROVE LinkInv'
    BY <1>9 DEF RedeliverGhidra
  <1>10. ASSUME NEW w \in Workers, NEW r \in Runs, Claim(w, r) PROVE LinkInv'
    BY <1>10 DEF Claim
  <1>11. ASSUME NEW w \in Workers, NEW r \in Runs, DropDuplicate(w,
     r) PROVE LinkInv'
    BY <1>11 DEF DropDuplicate
  <1>12. ASSUME NEW w \in Workers, Prepare(w) PROVE LinkInv'
    BY <1>12 DEF Prepare
  <1>13. ASSUME NEW w \in Workers, StartUnpack(w) PROVE LinkInv'
    BY <1>13 DEF StartUnpack, StartStage
  <1>14. ASSUME NEW w \in Workers, FinishUnpack(w) PROVE LinkInv'
    BY <1>14, RecordType DEF FinishUnpack, FinishStage
  <1>15. ASSUME NEW w \in Workers, CheckpointIndex(w) PROVE LinkInv'
    BY <1>15 DEF CheckpointIndex
  <1>16. ASSUME NEW w \in Workers, CheckpointIndexed(w) PROVE LinkInv'
    BY <1>16 DEF CheckpointIndexed
  <1>17. ASSUME NEW w \in Workers, StartStatic(w) PROVE LinkInv'
    BY <1>17 DEF StartStatic, StartStage
  <1>18. ASSUME NEW w \in Workers, FinishStatic(w) PROVE LinkInv'
    BY <1>18, RecordType DEF FinishStatic, FinishStage
  <1>19. ASSUME NEW w \in Workers, CheckpointReport(w) PROVE LinkInv'
    BY <1>19 DEF CheckpointReport
  <1>20. ASSUME NEW w \in Workers, Correlate(w) PROVE LinkInv'
    <2>1. PICK p \in PreviousRuns(on[w]) : link' = [link EXCEPT ![w] = p]
      BY <1>20 DEF Correlate
    <2>2. p \in Runs => status[p] = "completed"
      BY RunsAssumption DEF PreviousRuns, Predecessors
    <2>3. p \in Runs => "results" \in content[p]
      BY <2>2
    <2>4. \A v \in Workers : link'[v] = IF v = w THEN p ELSE link[v]
      BY <2>1
    <2>5. UNCHANGED <<content, previous>>
      BY <1>20 DEF Correlate
    <2>6. \A v \in Workers : link'[v] \in Runs => "results" \in content'[link'[v]]
      BY <2>3, <2>4, <2>5
    <2> HIDE DEF SlotInv, ClaimInv, TypeOK
    <2> QED
      BY <2>5, <2>6
  <1>21. ASSUME NEW w \in Workers, Settle(w) PROVE LinkInv'
    <2> USE <1>21 DEF Settle, TypeOK, SlotInv, ClaimInv, LinkInv, Holds
    <2>1. on[w] \in Runs /\ "results" \notin content[on[w]]
      OBVIOUS
    <2>2. \A q \in Runs : "results" \in content[q] => "results" \in content'[q]
      BY <2>1
    <2>3. \A v \in Workers : link'[v] \in Runs => "results" \in content'[link'[v]]
      BY <2>2
    <2>4. \A q \in Runs : previous'[q] \in Runs => "results" \in content'[previous'[q]]
      BY <2>1, <2>2
    <2>5. ASSUME NEW S \in SUBSET Runs,
       S # {} PROVE \E q \in S : previous'[q] \notin S
      <3>1. CASE S \ {on[w]} = {}
        <4>1. S = {on[w]} /\ previous'[on[w]] # on[w]
          BY <2>1, <2>5, <3>1, RunsAssumption
        <4> QED
          BY <4>1
      <3>2. CASE S \ {on[w]} # {}
        <4>1. PICK q \in S \ {on[w]} : previous[q] \notin S \ {on[w]}
          BY <3>2 DEF BaselineAcyclic
        <4>2. previous'[q] = previous[q] /\ previous[q] # on[w]
          BY <2>1, <4>1
        <4> QED
          BY <4>1, <4>2
      <3> QED
        BY <3>1, <3>2
    <2> QED
      BY <2>3, <2>4, <2>5 DEF BaselineAcyclic
  <1>22. ASSUME NEW w \in Workers, DispatchGhidra(w) PROVE LinkInv'
    <2>1. content' = content /\ previous' = previous /\ Free(w)
      BY <1>22 DEF DispatchGhidra
    <2> HIDE DEF LinkInv
    <2> QED
      BY <2>1, LinkKept
  <1>23. ASSUME NEW w \in Workers, SkipGhidra(w) PROVE LinkInv'
    <2>1. content' = content /\ previous' = previous /\ Free(w)
      BY <1>23 DEF SkipGhidra
    <2> HIDE DEF LinkInv
    <2> QED
      BY <2>1, LinkKept
  <1>24. ASSUME NEW w \in Workers, CommitRaised(w) PROVE LinkInv'
    <2>1. previous' = previous /\ Free(w)
      BY <1>24 DEF CommitRaised
    <2>2. \A q \in Runs : "results" \in content[q] => "results" \in content'[q]
      BY <1>24, CommitRaisedContent
    <2> HIDE DEF LinkInv
    <2> QED
      BY <2>1, <2>2, LinkKept
  <1>25. ASSUME NEW w \in Workers, Raise(w) PROVE LinkInv'
    BY <1>25 DEF Raise
  <1>26. ASSUME NEW w \in Workers, DatabaseError(w) PROVE LinkInv'
    <2>1. content' = content /\ previous' = previous /\ Free(w)
      BY <1>26 DEF DatabaseError
    <2> HIDE DEF LinkInv
    <2> QED
      BY <2>1, LinkKept
  <1>27. ASSUME NEW w \in Workers, CrashWorker(w) PROVE LinkInv'
    <2>1. content' = content /\ previous' = previous /\ Free(w)
      BY <1>27 DEF CrashWorker
    <2> HIDE DEF LinkInv
    <2> QED
      BY <2>1, LinkKept
  <1>28. ASSUME NEW w \in Workers, CrashWorkerUnacked(w) PROVE LinkInv'
    <2>1. content' = content /\ previous' = previous /\ Free(w)
      BY <1>28 DEF CrashWorkerUnacked
    <2> HIDE DEF LinkInv
    <2> QED
      BY <2>1, LinkKept
  <1>29. ASSUME NEW w \in Workers, SweepRead(w) PROVE LinkInv'
    BY <1>29 DEF SweepRead, ToFail, ToRequeue, ToClose, QueuedOrphans,
       RunningOrphans
  <1>30. ASSUME NEW w \in Workers, SweepCommit(w) PROVE LinkInv'
    BY <1>30 DEF SweepCommit
  <1>31. ASSUME NEW w \in Workers, NEW r \in Runs, Redispatch(w, r) PROVE LinkInv'
    BY <1>31 DEF Redispatch, Dispatched
  <1>32. ASSUME NEW w \in Workers, NEW r \in Runs, RedispatchLost(w,
     r) PROVE LinkInv'
    BY <1>32 DEF RedispatchLost, Dispatched
  <1>33. ASSUME NEW w \in Workers, SweepEnd(w) PROVE LinkInv'
    <2>1. content' = content /\ previous' = previous /\ Free(w)
      BY <1>33 DEF SweepEnd
    <2> HIDE DEF LinkInv
    <2> QED
      BY <2>1, LinkKept
  <1>34. ASSUME NEW h \in HeavyWorkers, NEW r \in Runs, EnrichCheck(h,
     r) PROVE LinkInv'
    BY <1>34 DEF EnrichCheck, Enrichable, AlreadyHandled
  <1>35. ASSUME NEW h \in HeavyWorkers, NEW r \in Runs, EnrichDecline(h,
     r) PROVE LinkInv'
    BY <1>35 DEF EnrichDecline
  <1>36. ASSUME NEW h \in HeavyWorkers, EnrichRefused(h) PROVE LinkInv'
    BY <1>36 DEF EnrichRefused
  <1>37. ASSUME NEW h \in HeavyWorkers, EnrichSkip(h) PROVE LinkInv'
    BY <1>37 DEF EnrichSkip
  <1>38. ASSUME NEW h \in HeavyWorkers, EnrichStart(h) PROVE LinkInv'
    BY <1>38 DEF EnrichStart
  <1>39. ASSUME NEW h \in HeavyWorkers, EnrichFinish(h) PROVE LinkInv'
    BY <1>39, RecordType DEF EnrichFinish, GhidraOutcomes
  <1>40. ASSUME NEW h \in HeavyWorkers, EnrichAbort(h) PROVE LinkInv'
    BY <1>40 DEF EnrichAbort
  <1>41. ASSUME NEW h \in HeavyWorkers, CrashHeavy(h) PROVE LinkInv'
    BY <1>41 DEF CrashHeavy
  <1>42. ASSUME NEW h \in HeavyWorkers, CrashHeavyUnacked(h) PROVE LinkInv'
    BY <1>42 DEF CrashHeavyUnacked
  <1>43. CASE UNCHANGED vars
    BY <1>43
  <1> QED
    BY <1>1, <1>2, <1>3, <1>4, <1>5, <1>6, <1>7, <1>8, <1>9, <1>10, <1>11, <1>12,
       <1>13, <1>14, <1>15, <1>16, <1>17, <1>18, <1>19, <1>20, <1>21, <1>22, <1>23,
       <1>24, <1>25, <1>26, <1>27, <1>28, <1>29, <1>30, <1>31, <1>32, <1>33, <1>34,
       <1>35, <1>36, <1>37, <1>38, <1>39, <1>40, <1>41, <1>42, <1>43 DEF Next,
       ApiStep, BrokerStep, WorkerStep, ScanStep, SweepTail, HeavyStep

-----------------------------------------------------------------------------
(* Requeue attempts *)

\* The pending sweeps are slots, so they are finitely many and no more than those.
LEMMA PendingFinite ==
    \A r \in Runs :
        /\ IsFiniteSet(Pending(r))
        /\ Cardinality(Pending(r)) \in Nat
        /\ Cardinality(Pending(r)) <= Cardinality(Workers)
        /\ Cardinality(Workers) \in Nat
  <1> SUFFICES ASSUME NEW r \in Runs
               PROVE  /\ IsFiniteSet(Pending(r))
                      /\ Cardinality(Pending(r)) \in Nat
                      /\ Cardinality(Pending(r)) <= Cardinality(Workers)
                      /\ Cardinality(Workers) \in Nat
    OBVIOUS
  <1>1. IsFiniteSet(Workers)
    BY SlotsAssumption
  <1>2. Pending(r) \subseteq Workers
    BY DEF Pending
  <1>3. IsFiniteSet(Pending(r)) /\ Cardinality(Pending(r)) <= Cardinality(Workers)
    BY <1>1, <1>2, FS_Subset
  <1> QED
    BY <1>1, <1>3, FS_CardinalityType

\* A step that neither reads nor commits a sweep changes no attempt count and
\* can only end sweeps.
LEMMA RequeueKept ==
  ASSUME TypeOK, RequeueInv, audit' = audit,
         \A w \in Workers : pc'[w] = "sweeping" => pc[w] = "sweeping" /\ plan'[w] = plan[w]
  PROVE  RequeueInv'
  <1> SUFFICES ASSUME NEW r \in Runs
               PROVE  audit[r] + Cardinality(Pending(r)')
                          <= MaxRequeue + Cardinality(Workers) - 1
    BY DEF RequeueInv
  <1>1. Pending(r)' \subseteq Pending(r)
    BY DEF Pending
  <1>2. Cardinality(Pending(r)') <= Cardinality(Pending(r)) /\ Cardinality(Pending(r)') \in Nat
    BY <1>1, PendingFinite, FS_Subset, FS_CardinalityType
  <1>3. audit[r] + Cardinality(Pending(r)) <= MaxRequeue + Cardinality(Workers) - 1
    BY DEF RequeueInv
  <1>4. audit[r] \in Nat /\ Cardinality(Pending(r)) \in Nat
    BY PendingFinite DEF TypeOK
  <1> QED
    BY <1>2, <1>3, <1>4, BoundsAssumption, PendingFinite

\* A sweep requeues on a count it read before its commit; overlapping sweeps can
\* overshoot the bound, but only by the slots there are.
LEMMA RequeueStep == TypeOK /\ RequeueInv /\ [Next]_vars => RequeueInv'
  <1> SUFFICES ASSUME TypeOK, RequeueInv, [Next]_vars PROVE RequeueInv'
    OBVIOUS
  <1> USE DEF TypeOK
  <1>1. ASSUME NEW r \in Runs, CreateRun(r) PROVE RequeueInv'
    BY <1>1, RequeueKept DEF CreateRun
  <1>2. ASSUME NEW r \in Runs, DispatchRun(r) PROVE RequeueInv'
    BY <1>2, RequeueKept DEF DispatchRun
  <1>3. ASSUME NEW r \in Runs, DispatchRunLost(r) PROVE RequeueInv'
    BY <1>3, RequeueKept DEF DispatchRunLost
  <1>4. ASSUME NEW r \in Runs, Age(r) PROVE RequeueInv'
    BY <1>4, RequeueKept DEF Age
  <1>5. ASSUME NEW r \in Runs, AgeGhidra(r) PROVE RequeueInv'
    BY <1>5, RequeueKept DEF AgeGhidra
  <1>6. ASSUME NEW r \in Runs, LoseScanMsg(r) PROVE RequeueInv'
    BY <1>6, RequeueKept DEF LoseScanMsg
  <1>7. ASSUME NEW r \in Runs, LoseGhidraMsg(r) PROVE RequeueInv'
    BY <1>7, RequeueKept DEF LoseGhidraMsg
  <1>8. ASSUME NEW w \in Workers, RedeliverScan(w) PROVE RequeueInv'
    BY <1>8, RequeueKept DEF RedeliverScan
  <1>9. ASSUME NEW h \in HeavyWorkers, RedeliverGhidra(h) PROVE RequeueInv'
    BY <1>9, RequeueKept DEF RedeliverGhidra
  <1>10. ASSUME NEW w \in Workers, NEW r \in Runs, Claim(w, r) PROVE RequeueInv'
    BY <1>10, RequeueKept DEF Claim
  <1>11. ASSUME NEW w \in Workers, NEW r \in Runs, DropDuplicate(w,
     r) PROVE RequeueInv'
    BY <1>11, RequeueKept DEF DropDuplicate
  <1>12. ASSUME NEW w \in Workers, Prepare(w) PROVE RequeueInv'
    BY <1>12, RequeueKept DEF Prepare
  <1>13. ASSUME NEW w \in Workers, StartUnpack(w) PROVE RequeueInv'
    BY <1>13, RequeueKept DEF StartUnpack, StartStage
  <1>14. ASSUME NEW w \in Workers, FinishUnpack(w) PROVE RequeueInv'
    BY <1>14, RecordType, RequeueKept DEF FinishUnpack, FinishStage
  <1>15. ASSUME NEW w \in Workers, CheckpointIndex(w) PROVE RequeueInv'
    BY <1>15, RequeueKept DEF CheckpointIndex
  <1>16. ASSUME NEW w \in Workers, CheckpointIndexed(w) PROVE RequeueInv'
    BY <1>16, RequeueKept DEF CheckpointIndexed
  <1>17. ASSUME NEW w \in Workers, StartStatic(w) PROVE RequeueInv'
    BY <1>17, RequeueKept DEF StartStatic, StartStage
  <1>18. ASSUME NEW w \in Workers, FinishStatic(w) PROVE RequeueInv'
    BY <1>18, RecordType, RequeueKept DEF FinishStatic, FinishStage
  <1>19. ASSUME NEW w \in Workers, CheckpointReport(w) PROVE RequeueInv'
    BY <1>19, RequeueKept DEF CheckpointReport
  <1>20. ASSUME NEW w \in Workers, Correlate(w) PROVE RequeueInv'
    BY <1>20, RequeueKept DEF Correlate, PreviousRuns, Predecessors
  <1>21. ASSUME NEW w \in Workers, Settle(w) PROVE RequeueInv'
    BY <1>21, RequeueKept DEF Settle
  <1>22. ASSUME NEW w \in Workers, DispatchGhidra(w) PROVE RequeueInv'
    BY <1>22, RequeueKept DEF DispatchGhidra
  <1>23. ASSUME NEW w \in Workers, SkipGhidra(w) PROVE RequeueInv'
    BY <1>23, RequeueKept DEF SkipGhidra
  <1>24. ASSUME NEW w \in Workers, CommitRaised(w) PROVE RequeueInv'
    BY <1>24, RequeueKept DEF CommitRaised
  <1>25. ASSUME NEW w \in Workers, Raise(w) PROVE RequeueInv'
    BY <1>25, RequeueKept DEF Raise
  <1>26. ASSUME NEW w \in Workers, DatabaseError(w) PROVE RequeueInv'
    BY <1>26, RequeueKept DEF DatabaseError
  <1>27. ASSUME NEW w \in Workers, CrashWorker(w) PROVE RequeueInv'
    BY <1>27, RequeueKept DEF CrashWorker
  <1>28. ASSUME NEW w \in Workers, CrashWorkerUnacked(w) PROVE RequeueInv'
    BY <1>28, RequeueKept DEF CrashWorkerUnacked
  <1>29. ASSUME NEW w \in Workers, SweepRead(w) PROVE RequeueInv'
    <2> SUFFICES ASSUME NEW r \in Runs
                 PROVE  audit[r] + Cardinality(Pending(r)') <= MaxRequeue + Cardinality(Workers) - 1
      BY <1>29 DEF SweepRead, RequeueInv
    <2>1. Pending(r)' \subseteq Workers /\ IsFiniteSet(Workers)
      BY SlotsAssumption DEF Pending
    <2>2. Cardinality(Pending(r)') \in Nat /\ Cardinality(Pending(r)') <= Cardinality(Workers)
      BY <2>1, FS_Subset, FS_CardinalityType
    <2>3. audit[r] \in Nat /\ MaxRequeue \in Nat /\ Cardinality(Workers) \in Nat
      BY BoundsAssumption, PendingFinite DEF TypeOK
    <2>4. CASE audit[r] < MaxRequeue
      BY <2>2, <2>3, <2>4
    <2>5. CASE ~(audit[r] < MaxRequeue)
      <3>1. r \notin ToRequeue
        BY <2>5 DEF ToRequeue
      <3>2. Pending(r)' = Pending(r)
        BY <1>29, <3>1 DEF SweepRead, Pending, TypeOK
      <3> QED
        BY <3>2 DEF RequeueInv
    <2> QED
      BY <2>4, <2>5
  <1>30. ASSUME NEW w \in Workers, SweepCommit(w) PROVE RequeueInv'
    <2> HIDE DEF TypeOK
    <2> SUFFICES ASSUME NEW r \in Runs
                 PROVE  audit'[r] + Cardinality(Pending(r)') <= MaxRequeue + Cardinality(Workers) - 1
      BY DEF RequeueInv
    <2>1. audit[r] + Cardinality(Pending(r)) <= MaxRequeue + Cardinality(Workers) - 1
      BY DEF RequeueInv
    <2>2. /\ IsFiniteSet(Pending(r)) /\ Cardinality(Pending(r)) \in Nat
          /\ audit[r] \in Nat /\ MaxRequeue \in Nat /\ Cardinality(Workers) \in Nat
      BY BoundsAssumption, PendingFinite DEF TypeOK
    <2>3. Pending(r)' = Pending(r) \ {w}
      BY <1>30 DEF SweepCommit, Pending, TypeOK
    <2>4. CASE r \in plan[w].requeue
      <3>1. w \in Pending(r)
        BY <1>30, <2>4 DEF SweepCommit, Pending
      <3>2. Cardinality(Pending(r)') = Cardinality(Pending(r)) - 1
        BY <2>2, <2>3, <3>1, FS_RemoveElement
      <3>3. audit'[r] = audit[r] + 1
        BY <1>30, <2>4 DEF SweepCommit
      <3> QED
        BY <2>1, <2>2, <3>2, <3>3
    <2>5. CASE r \notin plan[w].requeue
      <3>1. Pending(r)' = Pending(r) /\ audit'[r] = audit[r]
        BY <1>30, <2>3, <2>5 DEF SweepCommit, Pending
      <3> QED
        BY <2>1, <3>1
    <2> QED
      BY <2>4, <2>5
  <1>31. ASSUME NEW w \in Workers, NEW r \in Runs, Redispatch(w,
     r) PROVE RequeueInv'
    BY <1>31, RequeueKept DEF Redispatch, Dispatched
  <1>32. ASSUME NEW w \in Workers, NEW r \in Runs, RedispatchLost(w,
     r) PROVE RequeueInv'
    BY <1>32, RequeueKept DEF RedispatchLost, Dispatched
  <1>33. ASSUME NEW w \in Workers, SweepEnd(w) PROVE RequeueInv'
    BY <1>33, RequeueKept DEF SweepEnd
  <1>34. ASSUME NEW h \in HeavyWorkers, NEW r \in Runs, EnrichCheck(h,
     r) PROVE RequeueInv'
    BY <1>34, RequeueKept DEF EnrichCheck, Enrichable, AlreadyHandled
  <1>35. ASSUME NEW h \in HeavyWorkers, NEW r \in Runs, EnrichDecline(h,
     r) PROVE RequeueInv'
    BY <1>35, RequeueKept DEF EnrichDecline
  <1>36. ASSUME NEW h \in HeavyWorkers, EnrichRefused(h) PROVE RequeueInv'
    BY <1>36, RequeueKept DEF EnrichRefused
  <1>37. ASSUME NEW h \in HeavyWorkers, EnrichSkip(h) PROVE RequeueInv'
    BY <1>37, RequeueKept DEF EnrichSkip
  <1>38. ASSUME NEW h \in HeavyWorkers, EnrichStart(h) PROVE RequeueInv'
    BY <1>38, RequeueKept DEF EnrichStart
  <1>39. ASSUME NEW h \in HeavyWorkers, EnrichFinish(h) PROVE RequeueInv'
    BY <1>39, RecordType, RequeueKept DEF EnrichFinish, GhidraOutcomes
  <1>40. ASSUME NEW h \in HeavyWorkers, EnrichAbort(h) PROVE RequeueInv'
    BY <1>40, RequeueKept DEF EnrichAbort
  <1>41. ASSUME NEW h \in HeavyWorkers, CrashHeavy(h) PROVE RequeueInv'
    BY <1>41, RequeueKept DEF CrashHeavy
  <1>42. ASSUME NEW h \in HeavyWorkers, CrashHeavyUnacked(h) PROVE RequeueInv'
    BY <1>42, RequeueKept DEF CrashHeavyUnacked
  <1>43. CASE UNCHANGED vars
    BY <1>43, RequeueKept
  <1> QED
    BY <1>1, <1>2, <1>3, <1>4, <1>5, <1>6, <1>7, <1>8, <1>9, <1>10, <1>11, <1>12,
       <1>13, <1>14, <1>15, <1>16, <1>17, <1>18, <1>19, <1>20, <1>21, <1>22, <1>23,
       <1>24, <1>25, <1>26, <1>27, <1>28, <1>29, <1>30, <1>31, <1>32, <1>33, <1>34,
       <1>35, <1>36, <1>37, <1>38, <1>39, <1>40, <1>41, <1>42, <1>43 DEF Next,
       ApiStep, BrokerStep, WorkerStep, ScanStep, SweepTail, HeavyStep

-----------------------------------------------------------------------------
(* The contract of a run *)

\* What a sweep has decided to fail has been submitted.
PlanInv == \A w \in Workers, r \in Runs : r \in plan[w].fail => status[r] # "absent"

\* A sweep plans for the runs it read, and no run is ever unsubmitted.
LEMMA PlanStep == TypeOK /\ SlotInv /\ PlanInv /\ [Next]_vars => PlanInv'
  <1> SUFFICES ASSUME TypeOK, SlotInv, PlanInv, [Next]_vars PROVE PlanInv'
    OBVIOUS
  <1> USE DEF TypeOK, SlotInv, PlanInv
  <1>1. ASSUME NEW r \in Runs, CreateRun(r) PROVE PlanInv'
    BY <1>1 DEF CreateRun
  <1>2. ASSUME NEW r \in Runs, DispatchRun(r) PROVE PlanInv'
    BY <1>2 DEF DispatchRun
  <1>3. ASSUME NEW r \in Runs, DispatchRunLost(r) PROVE PlanInv'
    BY <1>3 DEF DispatchRunLost
  <1>4. ASSUME NEW r \in Runs, Age(r) PROVE PlanInv'
    BY <1>4 DEF Age
  <1>5. ASSUME NEW r \in Runs, AgeGhidra(r) PROVE PlanInv'
    BY <1>5 DEF AgeGhidra
  <1>6. ASSUME NEW r \in Runs, LoseScanMsg(r) PROVE PlanInv'
    BY <1>6 DEF LoseScanMsg
  <1>7. ASSUME NEW r \in Runs, LoseGhidraMsg(r) PROVE PlanInv'
    BY <1>7 DEF LoseGhidraMsg
  <1>8. ASSUME NEW w \in Workers, RedeliverScan(w) PROVE PlanInv'
    BY <1>8 DEF RedeliverScan
  <1>9. ASSUME NEW h \in HeavyWorkers, RedeliverGhidra(h) PROVE PlanInv'
    BY <1>9 DEF RedeliverGhidra
  <1>10. ASSUME NEW w \in Workers, NEW r \in Runs, Claim(w, r) PROVE PlanInv'
    BY <1>10 DEF Claim
  <1>11. ASSUME NEW w \in Workers, NEW r \in Runs, DropDuplicate(w, r) PROVE PlanInv'
    BY <1>11 DEF DropDuplicate
  <1>12. ASSUME NEW w \in Workers, Prepare(w) PROVE PlanInv'
    BY <1>12 DEF Prepare
  <1>13. ASSUME NEW w \in Workers, StartUnpack(w) PROVE PlanInv'
    BY <1>13 DEF StartUnpack, StartStage
  <1>14. ASSUME NEW w \in Workers, FinishUnpack(w) PROVE PlanInv'
    BY <1>14 DEF FinishUnpack, FinishStage
  <1>15. ASSUME NEW w \in Workers, CheckpointIndex(w) PROVE PlanInv'
    BY <1>15 DEF CheckpointIndex
  <1>16. ASSUME NEW w \in Workers, CheckpointIndexed(w) PROVE PlanInv'
    BY <1>16 DEF CheckpointIndexed
  <1>17. ASSUME NEW w \in Workers, StartStatic(w) PROVE PlanInv'
    BY <1>17 DEF StartStatic, StartStage
  <1>18. ASSUME NEW w \in Workers, FinishStatic(w) PROVE PlanInv'
    BY <1>18 DEF FinishStatic, FinishStage
  <1>19. ASSUME NEW w \in Workers, CheckpointReport(w) PROVE PlanInv'
    BY <1>19 DEF CheckpointReport
  <1>20. ASSUME NEW w \in Workers, Correlate(w) PROVE PlanInv'
    BY <1>20 DEF Correlate, PreviousRuns, Predecessors
  <1>21. ASSUME NEW w \in Workers, Settle(w) PROVE PlanInv'
    BY <1>21 DEF Settle, SettledStatus
  <1>22. ASSUME NEW w \in Workers, DispatchGhidra(w) PROVE PlanInv'
    BY <1>22 DEF DispatchGhidra
  <1>23. ASSUME NEW w \in Workers, SkipGhidra(w) PROVE PlanInv'
    BY <1>23 DEF SkipGhidra
  <1>24. ASSUME NEW w \in Workers, CommitRaised(w) PROVE PlanInv'
    BY <1>24 DEF CommitRaised
  <1>25. ASSUME NEW w \in Workers, Raise(w) PROVE PlanInv'
    BY <1>25 DEF Raise
  <1>26. ASSUME NEW w \in Workers, DatabaseError(w) PROVE PlanInv'
    BY <1>26 DEF DatabaseError
  <1>27. ASSUME NEW w \in Workers, CrashWorker(w) PROVE PlanInv'
    BY <1>27 DEF CrashWorker
  <1>28. ASSUME NEW w \in Workers, CrashWorkerUnacked(w) PROVE PlanInv'
    BY <1>28 DEF CrashWorkerUnacked
  <1>29. ASSUME NEW w \in Workers, SweepRead(w) PROVE PlanInv'
    BY <1>29 DEF SweepRead, ToFail, ToRequeue, ToClose, QueuedOrphans, RunningOrphans
  <1>30. ASSUME NEW w \in Workers, SweepCommit(w) PROVE PlanInv'
    BY <1>30 DEF SweepCommit
  <1>31. ASSUME NEW w \in Workers, NEW r \in Runs, Redispatch(w, r) PROVE PlanInv'
    BY <1>31 DEF Redispatch, Dispatched
  <1>32. ASSUME NEW w \in Workers, NEW r \in Runs, RedispatchLost(w, r) PROVE PlanInv'
    BY <1>32 DEF RedispatchLost, Dispatched
  <1>33. ASSUME NEW w \in Workers, SweepEnd(w) PROVE PlanInv'
    BY <1>33 DEF SweepEnd
  <1>34. ASSUME NEW h \in HeavyWorkers, NEW r \in Runs, EnrichCheck(h, r) PROVE PlanInv'
    BY <1>34 DEF EnrichCheck, Enrichable, AlreadyHandled
  <1>35. ASSUME NEW h \in HeavyWorkers, NEW r \in Runs, EnrichDecline(h, r) PROVE PlanInv'
    BY <1>35 DEF EnrichDecline
  <1>36. ASSUME NEW h \in HeavyWorkers, EnrichRefused(h) PROVE PlanInv'
    BY <1>36 DEF EnrichRefused
  <1>37. ASSUME NEW h \in HeavyWorkers, EnrichSkip(h) PROVE PlanInv'
    BY <1>37 DEF EnrichSkip
  <1>38. ASSUME NEW h \in HeavyWorkers, EnrichStart(h) PROVE PlanInv'
    BY <1>38 DEF EnrichStart
  <1>39. ASSUME NEW h \in HeavyWorkers, EnrichFinish(h) PROVE PlanInv'
    BY <1>39 DEF EnrichFinish, GhidraOutcomes
  <1>40. ASSUME NEW h \in HeavyWorkers, EnrichAbort(h) PROVE PlanInv'
    BY <1>40 DEF EnrichAbort
  <1>41. ASSUME NEW h \in HeavyWorkers, CrashHeavy(h) PROVE PlanInv'
    BY <1>41 DEF CrashHeavy
  <1>42. ASSUME NEW h \in HeavyWorkers, CrashHeavyUnacked(h) PROVE PlanInv'
    BY <1>42 DEF CrashHeavyUnacked
  <1>43. CASE UNCHANGED vars
    BY <1>43
  <1> QED
    BY <1>1, <1>2, <1>3, <1>4, <1>5, <1>6, <1>7, <1>8, <1>9, <1>10, <1>11, <1>12,
       <1>13, <1>14, <1>15, <1>16, <1>17, <1>18, <1>19, <1>20, <1>21, <1>22, <1>23,
       <1>24, <1>25, <1>26, <1>27, <1>28, <1>29, <1>30, <1>31, <1>32, <1>33, <1>34,
       <1>35, <1>36, <1>37, <1>38, <1>39, <1>40, <1>41, <1>42, <1>43 DEF Next,
       ApiStep, BrokerStep, WorkerStep, ScanStep, SweepTail, HeavyStep

\* The step shows in none of the rows the contract speaks of.
Hidden == UNCHANGED <<status, stage, content, previous>>

\* A step that leaves those rows alone is a stutter of the contract.
LEMMA HiddenStutters == Hidden => UNCHANGED Contract!vars
  BY DEF Hidden, Contract!vars, Record

\* Types carry over: what is recorded is a record of the contract.
LEMMA RecordsType == TypeOK => [r \in Runs |-> Record(r)] \in [Runs -> RunRecords]
  BY DEF TypeOK, Record, RunRecords

\* A step that changes at most what is recorded of run r changes r's record only.
LEMMA RecordOf ==
    ASSUME TypeOK', NEW r \in Runs,
           \A q \in Runs \ {r} : stage'[q] = stage[q] /\ content'[q] = content[q]
                                 /\ previous'[q] = previous[q]
    PROVE  Contract!RecordOnly(r)
  <1>1. ([q \in Runs |-> Record(q)])' \in [Runs -> RunRecords]
    BY DEF TypeOK, Record, RunRecords
  <1>2. \A q \in Runs \ {r} : Record(q)' = Record(q)
    BY DEF Record
  <1> QED
    BY <1>1, <1>2 DEF Contract!RecordOnly

\* Progress of a held scan: its rows and its tree may change, nothing else.
LEMMA ProgressSeen ==
    ASSUME TypeOK, TypeOK', ClaimInv, NEW w \in Workers, NEW r \in Runs, Holds(w, r),
           UNCHANGED <<status, previous>>,
           \A q \in Runs \ {r} : stage'[q] = stage[q] /\ content'[q] = content[q],
           "results" \notin content'[r]
    PROVE  Contract!Progress(r)
  <1>1. status[r] \in {"running", "failed"} /\ "results" \notin content[r]
    BY DEF ClaimInv
  <1>2. Contract!RecordOnly(r)
    BY RecordOf
  <1>3. UNCHANGED [q \in Runs |-> "results" \in content[q]]
    BY <1>1
  <1> QED
    BY <1>1, <1>2, <1>3 DEF Contract!Progress

\* Every step of the pipeline is a step of the contract or hidden from it.
LEMMA StepSeen ==
    TypeOK /\ TypeOK' /\ SlotInv /\ ClaimInv /\ PlanInv /\ [Next]_vars
        => Contract!Next \/ Hidden
  <1> SUFFICES ASSUME TypeOK, TypeOK', SlotInv, ClaimInv, PlanInv, [Next]_vars
               PROVE  Contract!Next \/ Hidden
    OBVIOUS
  <1>1. ASSUME NEW r \in Runs, CreateRun(r) PROVE Contract!Next
    <2>1. Contract!Submit(r)
      BY <1>1 DEF CreateRun, Contract!Submit, Record
    <2> QED
      BY <2>1 DEF Contract!Next
  <1>2. ASSUME NEW r \in Runs, DispatchRun(r) PROVE Hidden
    BY <1>2 DEF Hidden, DispatchRun
  <1>3. ASSUME NEW r \in Runs, DispatchRunLost(r) PROVE Hidden
    BY <1>3 DEF Hidden, DispatchRunLost
  <1>4. ASSUME NEW r \in Runs, Age(r) PROVE Hidden
    BY <1>4 DEF Hidden, Age
  <1>5. ASSUME NEW r \in Runs, AgeGhidra(r) PROVE Hidden
    BY <1>5 DEF Hidden, AgeGhidra
  <1>6. ASSUME NEW r \in Runs, LoseScanMsg(r) PROVE Hidden
    BY <1>6 DEF Hidden, LoseScanMsg
  <1>7. ASSUME NEW r \in Runs, LoseGhidraMsg(r) PROVE Hidden
    BY <1>7 DEF Hidden, LoseGhidraMsg
  <1>8. ASSUME NEW w \in Workers, RedeliverScan(w) PROVE Hidden
    BY <1>8 DEF Hidden, RedeliverScan
  <1>9. ASSUME NEW h \in HeavyWorkers, RedeliverGhidra(h) PROVE Hidden
    BY <1>9 DEF Hidden, RedeliverGhidra
  <1>10. ASSUME NEW w \in Workers, NEW r \in Runs, Claim(w, r) PROVE Contract!Next
    <2>1. Contract!Claim(r)
      BY <1>10 DEF Claim, Contract!Claim, Record
    <2> QED
      BY <2>1 DEF Contract!Next
  <1>11. ASSUME NEW w \in Workers, NEW r \in Runs, DropDuplicate(w, r) PROVE Hidden
    BY <1>11 DEF Hidden, DropDuplicate
  <1>12. ASSUME NEW w \in Workers, Prepare(w) PROVE Hidden
    BY <1>12 DEF Hidden, Prepare
  <1>13. ASSUME NEW w \in Workers, StartUnpack(w) PROVE Contract!Next
    <2>1. Holds(w, on[w]) /\ on[w] \in Runs
      BY <1>13 DEF StartUnpack, StartStage, Holds, SlotInv
    <2>2. "results" \notin content[on[w]]
      BY <2>1 DEF ClaimInv
    <2>3. UNCHANGED <<status, previous>> /\ "results" \notin content'[on[w]]
      BY <1>13, <2>1, <2>2 DEF StartUnpack, StartStage, TypeOK
    <2>4. \A q \in Runs \ {on[w]} : stage'[q] = stage[q] /\ content'[q] = content[q]
      BY <1>13, <2>1 DEF StartUnpack, StartStage, TypeOK
    <2>5. Contract!Progress(on[w])
      BY <2>1, <2>3, <2>4, ProgressSeen
    <2> QED
      BY <2>1, <2>5 DEF Contract!Next
  <1>14. ASSUME NEW w \in Workers, FinishUnpack(w) PROVE Hidden
    BY <1>14 DEF Hidden, FinishUnpack, FinishStage
  <1>15. ASSUME NEW w \in Workers, CheckpointIndex(w) PROVE Contract!Next
    <2>1. Holds(w, on[w]) /\ on[w] \in Runs
      BY <1>15 DEF CheckpointIndex, Holds, SlotInv
    <2>2. "results" \notin content[on[w]]
      BY <2>1 DEF ClaimInv
    <2>3. UNCHANGED <<status, previous>> /\ "results" \notin content'[on[w]]
      BY <1>15, <2>1, <2>2 DEF CheckpointIndex, TypeOK
    <2>4. \A q \in Runs \ {on[w]} : stage'[q] = stage[q] /\ content'[q] = content[q]
      BY <1>15, <2>1 DEF CheckpointIndex, TypeOK
    <2>5. Contract!Progress(on[w])
      BY <2>1, <2>3, <2>4, ProgressSeen
    <2> QED
      BY <2>1, <2>5 DEF Contract!Next
  <1>16. ASSUME NEW w \in Workers, CheckpointIndexed(w) PROVE Contract!Next
    <2>1. Holds(w, on[w]) /\ on[w] \in Runs
      BY <1>16 DEF CheckpointIndexed, Holds, SlotInv
    <2>2. "results" \notin content[on[w]]
      BY <2>1 DEF ClaimInv
    <2>3. UNCHANGED <<status, previous>> /\ "results" \notin content'[on[w]]
      BY <1>16, <2>1, <2>2 DEF CheckpointIndexed, TypeOK
    <2>4. \A q \in Runs \ {on[w]} : stage'[q] = stage[q] /\ content'[q] = content[q]
      BY <1>16, <2>1 DEF CheckpointIndexed, TypeOK
    <2>5. Contract!Progress(on[w])
      BY <2>1, <2>3, <2>4, ProgressSeen
    <2> QED
      BY <2>1, <2>5 DEF Contract!Next
  <1>17. ASSUME NEW w \in Workers, StartStatic(w) PROVE Contract!Next
    <2>1. Holds(w, on[w]) /\ on[w] \in Runs
      BY <1>17 DEF StartStatic, StartStage, Holds, SlotInv
    <2>2. "results" \notin content[on[w]]
      BY <2>1 DEF ClaimInv
    <2>3. UNCHANGED <<status, previous>> /\ "results" \notin content'[on[w]]
      BY <1>17, <2>1, <2>2 DEF StartStatic, StartStage, TypeOK
    <2>4. \A q \in Runs \ {on[w]} : stage'[q] = stage[q] /\ content'[q] = content[q]
      BY <1>17, <2>1 DEF StartStatic, StartStage, TypeOK
    <2>5. Contract!Progress(on[w])
      BY <2>1, <2>3, <2>4, ProgressSeen
    <2> QED
      BY <2>1, <2>5 DEF Contract!Next
  <1>18. ASSUME NEW w \in Workers, FinishStatic(w) PROVE Hidden
    BY <1>18 DEF Hidden, FinishStatic, FinishStage
  <1>19. ASSUME NEW w \in Workers, CheckpointReport(w) PROVE Contract!Next
    <2>1. Holds(w, on[w]) /\ on[w] \in Runs
      BY <1>19 DEF CheckpointReport, Holds, SlotInv
    <2>2. "results" \notin content[on[w]]
      BY <2>1 DEF ClaimInv
    <2>3. UNCHANGED <<status, previous>> /\ "results" \notin content'[on[w]]
      BY <1>19, <2>1, <2>2 DEF CheckpointReport, TypeOK
    <2>4. \A q \in Runs \ {on[w]} : stage'[q] = stage[q] /\ content'[q] = content[q]
      BY <1>19, <2>1 DEF CheckpointReport, TypeOK
    <2>5. Contract!Progress(on[w])
      BY <2>1, <2>3, <2>4, ProgressSeen
    <2> QED
      BY <2>1, <2>5 DEF Contract!Next
  <1>20. ASSUME NEW w \in Workers, Correlate(w) PROVE Hidden
    BY <1>20 DEF Hidden, Correlate, PreviousRuns, Predecessors
  <1>21. ASSUME NEW w \in Workers, Settle(w) PROVE Contract!Next
    <2>0. PICK r \in Runs : r = on[w]
      BY <1>21 DEF Settle, SlotInv
    <2>1. Holds(w, r) /\ r \in Runs
      BY <1>21, <2>0 DEF Settle, Holds
    <2>2. status[r] \in {"running", "failed"} /\ "results" \notin content[r]
      BY <2>1 DEF ClaimInv
    <2>3. \E s \in {"completed", "degraded"} : status' = [status EXCEPT ![r] = s]
      BY <1>21, <2>0 DEF Settle, SettledStatus
    <2>4. ([q \in Runs |-> "results" \in content[q]])'
             = [[q \in Runs |-> "results" \in content[q]] EXCEPT ![r] = TRUE]
      BY <1>21, <2>0, <2>1 DEF Settle, TypeOK
    <2>5. \A q \in Runs \ {r} : stage'[q] = stage[q] /\ content'[q] = content[q]
                                 /\ previous'[q] = previous[q]
      BY <1>21, <2>0, <2>1 DEF Settle, TypeOK
    <2>6. Contract!RecordOnly(r)
      BY <2>1, <2>5, RecordOf
    <2>7. Contract!Publish(r)
      BY <2>1, <2>2, <2>3, <2>4, <2>6 DEF Contract!Publish
    <2> QED
      BY <2>7 DEF Contract!Next
  <1>22. ASSUME NEW w \in Workers, DispatchGhidra(w) PROVE Hidden
    BY <1>22 DEF Hidden, DispatchGhidra
  <1>23. ASSUME NEW w \in Workers, SkipGhidra(w) PROVE Hidden
    BY <1>23 DEF Hidden, SkipGhidra
  <1>24. ASSUME NEW w \in Workers, CommitRaised(w) PROVE Contract!Next
    <2> DEFINE r == on[w]
    <2>1. Holds(w, r) /\ r \in Runs
      BY <1>24 DEF CommitRaised, Holds, SlotInv
    <2>2. status[r] \in {"running", "failed"} /\ "results" \notin content[r]
      BY <2>1 DEF ClaimInv
    <2>3. /\ status' = [status EXCEPT ![r] = "failed"] /\ UNCHANGED previous
          /\ content' = content \/ content' = [content EXCEPT ![r] = @ \cup {"partial"}]
      BY <1>24 DEF CommitRaised
    <2>4. \A q \in Runs \ {r} : stage'[q] = stage[q] /\ content'[q] = content[q]
                                 /\ previous'[q] = previous[q]
      BY <1>24, <2>1 DEF CommitRaised, TypeOK
    <2>5. Contract!RecordOnly(r)
      BY <2>1, <2>4, RecordOf
    <2>6. UNCHANGED [q \in Runs |-> "results" \in content[q]]
      <3>1. \A q \in Runs : ("results" \in content'[q]) = ("results" \in content[q])
        BY <1>24, CommitRaisedContent DEF TypeOK
      <3> QED
        BY <3>1
    <2>7. Contract!Fail(r)
      BY <2>1, <2>2, <2>3, <2>5, <2>6 DEF Contract!Fail
    <2> QED
      BY <2>1, <2>7 DEF Contract!Next
  <1>25. ASSUME NEW w \in Workers, Raise(w) PROVE Hidden
    BY <1>25 DEF Hidden, Raise
  <1>26. ASSUME NEW w \in Workers, DatabaseError(w) PROVE Hidden
    BY <1>26 DEF Hidden, DatabaseError
  <1>27. ASSUME NEW w \in Workers, CrashWorker(w) PROVE Hidden
    BY <1>27 DEF Hidden, CrashWorker
  <1>28. ASSUME NEW w \in Workers, CrashWorkerUnacked(w) PROVE Hidden
    BY <1>28 DEF Hidden, CrashWorkerUnacked
  <1>29. ASSUME NEW w \in Workers, SweepRead(w) PROVE Hidden
    BY <1>29 DEF Hidden, SweepRead, ToFail, ToRequeue, ToClose, QueuedOrphans, RunningOrphans
  <1>30. ASSUME NEW w \in Workers, SweepCommit(w) PROVE Contract!Next
    <2>1. plan[w].fail \in SUBSET Runs
      BY DEF TypeOK
    <2>2. Contract!GiveUp(plan[w].fail)
      BY <1>30, <2>1 DEF SweepCommit, Contract!GiveUp, PlanInv, Record
    <2> QED
      BY <2>1, <2>2 DEF Contract!Next
  <1>31. ASSUME NEW w \in Workers, NEW r \in Runs, Redispatch(w, r) PROVE Hidden
    BY <1>31 DEF Hidden, Redispatch, Dispatched
  <1>32. ASSUME NEW w \in Workers, NEW r \in Runs, RedispatchLost(w, r) PROVE Hidden
    BY <1>32 DEF Hidden, RedispatchLost, Dispatched
  <1>33. ASSUME NEW w \in Workers, SweepEnd(w) PROVE Hidden
    BY <1>33 DEF Hidden, SweepEnd
  <1>34. ASSUME NEW h \in HeavyWorkers, NEW r \in Runs, EnrichCheck(h, r) PROVE Hidden
    BY <1>34 DEF Hidden, EnrichCheck, Enrichable, AlreadyHandled
  <1>35. ASSUME NEW h \in HeavyWorkers, NEW r \in Runs, EnrichDecline(h, r) PROVE Hidden
    BY <1>35 DEF Hidden, EnrichDecline
  <1>36. ASSUME NEW h \in HeavyWorkers, EnrichRefused(h) PROVE Hidden
    BY <1>36 DEF Hidden, EnrichRefused
  <1>37. ASSUME NEW h \in HeavyWorkers, EnrichSkip(h) PROVE Hidden
    BY <1>37 DEF Hidden, EnrichSkip
  <1>38. ASSUME NEW h \in HeavyWorkers, EnrichStart(h) PROVE Hidden
    BY <1>38 DEF Hidden, EnrichStart
  <1>39. ASSUME NEW h \in HeavyWorkers, EnrichFinish(h) PROVE Hidden
    BY <1>39 DEF Hidden, EnrichFinish, GhidraOutcomes
  <1>40. ASSUME NEW h \in HeavyWorkers, EnrichAbort(h) PROVE Hidden
    BY <1>40 DEF Hidden, EnrichAbort
  <1>41. ASSUME NEW h \in HeavyWorkers, CrashHeavy(h) PROVE Hidden
    BY <1>41 DEF Hidden, CrashHeavy
  <1>42. ASSUME NEW h \in HeavyWorkers, CrashHeavyUnacked(h) PROVE Hidden
    BY <1>42 DEF Hidden, CrashHeavyUnacked
  <1>43. CASE UNCHANGED vars
    BY <1>43 DEF Hidden
  <1> QED
    BY <1>1, <1>2, <1>3, <1>4, <1>5, <1>6, <1>7, <1>8, <1>9, <1>10, <1>11, <1>12,
       <1>13, <1>14, <1>15, <1>16, <1>17, <1>18, <1>19, <1>20, <1>21, <1>22, <1>23,
       <1>24, <1>25, <1>26, <1>27, <1>28, <1>29, <1>30, <1>31, <1>32, <1>33, <1>34,
       <1>35, <1>36, <1>37, <1>38, <1>39, <1>40, <1>41, <1>42, <1>43 DEF Next,
       ApiStep, BrokerStep, WorkerStep, ScanStep, SweepTail, HeavyStep

-----------------------------------------------------------------------------
(* The theorems *)

\* The invariant holds before the first submission: nothing exists, all is idle.
LEMMA InitInv == Init => Inv
  <1> SUFFICES ASSUME Init PROVE Inv
    OBVIOUS
  <1> USE DEF Init
  <1>1. TypeOK
    BY DEF TypeOK, RunStatus, StageStatus, Contents
  <1>2. SlotInv
    BY DEF SlotInv
  <1>3. ClaimInv
    BY DEF ClaimInv, SingleScanner, Holds, WithResults
  <1>4. ExaminedInv
    BY DEF ExaminedInv, UnpackEnded, TreeCommitted, StaticEnded, WithResults,
           LiveScanKeepsStaging, UsingStaging
  <1>5. GhidraInv
    BY DEF GhidraInv, GhidraOnce
  <1>6. LinkInv
    BY RunsAssumption DEF LinkInv, BaselineAcyclic
  <1>7. RequeueInv
    <2> SUFFICES ASSUME NEW r \in Runs
                 PROVE  0 + Cardinality(Pending(r)) <= MaxRequeue + Cardinality(Workers) - 1
      BY DEF RequeueInv
    <2>1. Pending(r) = {}
      BY DEF Pending
    <2>2. Cardinality(Pending(r)) = 0
      BY <2>1, FS_EmptySet
    <2>3. Cardinality(Workers) \in Nat /\ Cardinality(Workers) # 0
      BY SlotsAssumption, FS_CardinalityType, FS_EmptySet
    <2>4. MaxRequeue \in Nat
      BY BoundsAssumption
    <2> HIDE DEF Init
    <2> QED
      BY <2>2, <2>3, <2>4
  <1> QED
    BY <1>1, <1>2, <1>3, <1>4, <1>5, <1>6, <1>7 DEF Inv

\* Every handler and every failure preserves the invariant.
LEMMA NextInv == Inv /\ [Next]_vars => Inv'
  BY TypeStep, SlotStep, ClaimStep, ExaminedStep, GhidraStep, LinkStep, RequeueStep DEF Inv

\* The inductive invariant: who may write a run, and what its rows rest on.
THEOREM Invariance == Spec => []Inv
  BY InitInv, NextInv, PTL DEF Spec

\* Type correctness of everything the handlers and the sweep write.
THEOREM TypeCorrect == Spec => []TypeOK
  <1>1. Inv => TypeOK
    BY DEF Inv
  <1> QED
    BY <1>1, Invariance, PTL

\* _claim against at-least-once delivery, requeues and crashes: no two slots
\* ever scan one run.
THEOREM OneScanner == Spec => []SingleScanner
  <1>1. Inv => SingleScanner
    BY DEF Inv, ClaimInv
  <1> QED
    BY <1>1, Invariance, PTL

\* A run that settled with results has been examined and nobody still writes it.
THEOREM Examined == Spec => []SettledMeansExamined
  <1>1. Inv => SettledMeansExamined
    <2> SUFFICES ASSUME Inv, NEW r \in Runs, status[r] \in WithResults
                 PROVE  /\ \A a \in Analyzers : stage[r][a] \notin {"none", "running"}
                        /\ content[r] = {"tree", "results"}
                        /\ \A w \in Workers : ~Holds(w, r)
      BY DEF SettledMeansExamined
    <2>1. "results" \in content[r]
      BY DEF Inv, ClaimInv
    <2>2. \A a \in Analyzers : stage[r][a] \notin {"none", "running"}
      BY <2>1 DEF Inv, ExaminedInv, Ended
    <2>3. content[r] = {"tree", "results"}
      <3>1. "tree" \in content[r] /\ "partial" \notin content[r]
        BY <2>1 DEF Inv, ExaminedInv, ClaimInv
      <3> QED
        BY <2>1, <3>1 DEF Inv, TypeOK, Contents
    <2>4. \A w \in Workers : ~Holds(w, r)
      BY <2>1 DEF Inv, ClaimInv
    <2> QED
      BY <2>2, <2>3, <2>4
  <1> QED
    BY <1>1, Invariance, PTL

\* stages.py: the status and the stage rows the gate reads never disagree.
THEOREM StatusAgrees == Spec => []StatusAgreesWithStages
  <1>1. Inv => StatusAgreesWithStages
    <2> SUFFICES ASSUME Inv, NEW r \in Runs, status[r] \in WithResults
                 PROVE  status[r] = "completed" <=>
                            \A a \in Analyzers : stage[r][a] = "completed"
      BY DEF StatusAgreesWithStages
    <2>1. "results" \in content[r] /\ status[r] = SettledStatus(stage[r])
      BY DEF Inv, ClaimInv, ExaminedInv
    <2>2. \A a \in Analyzers : stage[r][a] \in StageStatus \ {"none", "running", "skipped"}
      BY <2>1 DEF Inv, ExaminedInv, Ended, TypeOK
    <2>3. \A a \in Analyzers : stage[r][a] = "completed" <=> ~IsDegraded(stage[r][a])
      BY <2>2 DEF StageStatus, IsDegraded
    <2> QED
      BY <2>1, <2>3 DEF SettledStatus, Degraded
  <1> QED
    BY <1>1, Invariance, PTL

\* The Ghidra job's directory lies under one that run_scan deletes: no scan of
\* the run is alive any more.
THEOREM EnrichmentAfterScan == Spec => []GhidraAfterScan
  <1>1. Inv => GhidraAfterScan
    BY DEF Inv, SlotInv, ClaimInv, GhidraInv, GhidraAfterScan
  <1> QED
    BY <1>1, Invariance, PTL

\* enrich_run never has two containers over one run.
THEOREM EnrichedOnce == Spec => []GhidraOnce
  <1>1. Inv => GhidraOnce
    BY DEF Inv, GhidraInv
  <1> QED
    BY <1>1, Invariance, PTL

\* _link_previous_run: following previous_run_id always ends.
THEOREM LinksEnd == Spec => []BaselineAcyclic
  <1>1. Inv => BaselineAcyclic
    BY DEF Inv, LinkInv
  <1> QED
    BY <1>1, Invariance, PTL

\* sweep_orphaned_runs: attempts overshoot the bound by at most the other slots.
THEOREM AttemptsBounded == Spec => []RequeueOvershoot
  <1>1. Inv => RequeueOvershoot
    <2> SUFFICES ASSUME Inv, NEW r \in Runs
                 PROVE  audit[r] <= MaxRequeue + Cardinality(Workers) - 1
      BY DEF RequeueOvershoot
    <2>1. audit[r] + Cardinality(Pending(r)) <= MaxRequeue + Cardinality(Workers) - 1
      BY DEF Inv, RequeueInv
    <2>2. Cardinality(Pending(r)) \in Nat /\ Cardinality(Workers) \in Nat
      BY PendingFinite
    <2>3. audit[r] \in Nat /\ MaxRequeue \in Nat
      BY BoundsAssumption DEF Inv, TypeOK
    <2> QED
      BY <2>1, <2>2, <2>3
  <1> QED
    BY <1>1, Invariance, PTL

\* run_scan's finally clause: a directory is never deleted under a live scan.
THEOREM StagingStays == Spec => []LiveScanKeepsStaging
  <1>1. Inv => LiveScanKeepsStaging
    BY DEF Inv, ExaminedInv
  <1> QED
    BY <1>1, Invariance, PTL

\* The pipeline implements the contract of a run.
THEOREM Implements == Spec => KeepsContract
  <1>1. Init => Contract!Init
    <2> SUFFICES ASSUME Init PROVE Contract!Init
      OBVIOUS
    <2>1. TypeOK
      BY InitInv DEF Inv
    <2>2. [r \in Runs |-> "results" \in content[r]] = [r \in Runs |-> FALSE]
      <3>1. \A r \in Runs : ("results" \in content[r]) = FALSE
        BY DEF Init
      <3> QED
        BY <3>1
    <2>3. [r \in Runs |-> Record(r)] \in [Runs -> RunRecords]
      BY <2>1, RecordsType
    <2> QED
      BY <2>2, <2>3 DEF Init, Contract!Init
  <1>2. Init => PlanInv
    BY DEF Init, PlanInv
  <1>3. Inv /\ PlanInv /\ [Next]_vars => PlanInv'
    BY PlanStep DEF Inv
  <1>4. Inv /\ Inv' /\ PlanInv /\ [Next]_vars => [Contract!Next]_(Contract!vars)
    BY StepSeen, HiddenStutters DEF Inv
  <1> QED
    BY <1>1, <1>2, <1>3, <1>4, Invariance, PTL DEF Spec, KeepsContract, Contract!Spec

\* What the contract says of a run r, of its status and of its results.
StatusKept(r) == status[r] \in Terminal => status'[r] \in Terminal
RecordKept(r) ==
    "results" \in content[r] => "results" \in content'[r] /\ Record(r)' = Record(r)

\* No step that the contract allows takes a terminal status back or touches a
\* record that results rest on: this rests on its six actions and not on ours.
LEMMA KeptByContract ==
    ASSUME TypeOK, [Contract!Next]_(Contract!vars), NEW r \in Runs
    PROVE  StatusKept(r) /\ RecordKept(r)
  <1> DEFINE res == [q \in Runs |-> "results" \in content[q]]
             rec == [q \in Runs |-> Record(q)]
  <1>t. status = [q \in Runs |-> status[q]]
    BY DEF TypeOK
  <1>r. /\ res[r] = ("results" \in content[r]) /\ res'[r] = ("results" \in content'[r])
        /\ rec[r] = Record(r) /\ rec'[r] = Record(r)'
    OBVIOUS
  <1>d. DOMAIN res = Runs
    OBVIOUS
  <1> HIDE DEF res, rec
  <1> USE DEF Contract!Terminal
  <1>1. ASSUME NEW q \in Runs, Contract!Submit(q) PROVE StatusKept(r) /\ RecordKept(r)
    <2>1. /\ status' = [status EXCEPT ![q] = "queued"] /\ status[q] = "absent"
          /\ rec' = rec /\ res' = res
      BY <1>1 DEF Contract!Submit, res, rec
    <2>2. status'[r] = status[r] \/ status[r] \notin Terminal
      BY <1>t, <2>1 DEF Terminal
    <2> QED
      BY <1>r, <2>1, <2>2 DEF StatusKept, RecordKept
  <1>2. ASSUME NEW q \in Runs, Contract!Claim(q) PROVE StatusKept(r) /\ RecordKept(r)
    <2>1. /\ status' = [status EXCEPT ![q] = "running"] /\ status[q] = "queued"
          /\ rec' = rec /\ res' = res
      BY <1>2 DEF Contract!Claim, res, rec
    <2>2. status'[r] = status[r] \/ status[r] \notin Terminal
      BY <1>t, <2>1 DEF Terminal
    <2> QED
      BY <1>r, <2>1, <2>2 DEF StatusKept, RecordKept
  <1>o. ASSUME NEW q \in Runs, Contract!RecordOnly(q), q # r PROVE rec'[r] = rec[r]
    BY <1>o DEF Contract!RecordOnly, rec
  <1>3. ASSUME NEW q \in Runs, Contract!Progress(q) PROVE StatusKept(r) /\ RecordKept(r)
    <2>1. status' = status /\ ~ res[q] /\ res' = res /\ Contract!RecordOnly(q)
      BY <1>3 DEF Contract!Progress, res
    <2> QED
      BY <1>o, <1>r, <2>1 DEF StatusKept, RecordKept
  <1>4. ASSUME NEW q \in Runs, Contract!Publish(q) PROVE StatusKept(r) /\ RecordKept(r)
    <2>1. PICK s \in {"completed", "degraded"} : status' = [status EXCEPT ![q] = s]
      BY <1>4 DEF Contract!Publish
    <2>2. ~ res[q] /\ res' = [res EXCEPT ![q] = TRUE] /\ Contract!RecordOnly(q)
      BY <1>4 DEF Contract!Publish, res
    <2>3. StatusKept(r)
      BY <1>t, <2>1 DEF StatusKept, Terminal
    <2>4. RecordKept(r)
      BY <1>d, <1>o, <1>r, <2>2 DEF RecordKept
    <2> QED
      BY <2>3, <2>4
  <1>5. ASSUME NEW q \in Runs, Contract!Fail(q) PROVE StatusKept(r) /\ RecordKept(r)
    <2>1. /\ status' = [status EXCEPT ![q] = "failed"] /\ ~ res[q] /\ res' = res
          /\ Contract!RecordOnly(q)
      BY <1>5 DEF Contract!Fail, res
    <2>2. StatusKept(r)
      BY <1>t, <2>1 DEF StatusKept, Terminal
    <2> QED
      BY <1>o, <1>r, <2>1, <2>2 DEF RecordKept
  <1>6. ASSUME NEW S \in SUBSET Runs, Contract!GiveUp(S) PROVE StatusKept(r) /\ RecordKept(r)
    <2>1. /\ status' = [q \in Runs |-> IF q \in S THEN "failed" ELSE status[q]]
          /\ rec' = rec /\ res' = res
      BY <1>6 DEF Contract!GiveUp, res, rec
    <2> QED
      BY <1>r, <2>1 DEF StatusKept, RecordKept, Terminal
  <1>7. CASE UNCHANGED Contract!vars
    <2>1. status' = status /\ rec' = rec /\ res' = res
      BY <1>7 DEF Contract!vars, res, rec
    <2> QED
      BY <1>r, <2>1 DEF StatusKept, RecordKept
  <1> QED
    BY <1>1, <1>2, <1>3, <1>4, <1>5, <1>6, <1>7 DEF Contract!Next

\* A terminal status is for good: clients may stop polling.
THEOREM TerminalStays == Spec => Contract!TerminalForGood
  <1>1. TypeOK /\ [Contract!Next]_(Contract!vars)
          => [\A r \in Runs : status[r] \in Contract!Terminal
                 => status'[r] \in Contract!Terminal]_(Contract!vars)
    BY KeptByContract DEF StatusKept, Terminal, Contract!Terminal
  <1>2. Spec => [][Contract!Next]_(Contract!vars)
    BY Implements, PTL DEF KeepsContract, Contract!Spec
  <1> QED
    BY <1>1, <1>2, TypeCorrect, PTL DEF Contract!TerminalForGood

\* What results rest on is final: the gate's answer can be reproduced.
THEOREM ResultsStay == Spec => Contract!ResultsAreFinal
  <1>1. TypeOK /\ [Contract!Next]_(Contract!vars) => [Contract!ResultsKept]_(Contract!vars)
    BY KeptByContract DEF RecordKept, Contract!ResultsKept
  <1>2. Spec => [][Contract!Next]_(Contract!vars)
    BY Implements, PTL DEF KeepsContract, Contract!Spec
  <1> QED
    BY <1>1, <1>2, TypeCorrect, PTL DEF Contract!ResultsAreFinal
=============================================================================
