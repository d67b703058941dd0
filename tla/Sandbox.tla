------------------------------ MODULE Sandbox ------------------------------
(***************************************************************************)
(* Analyzer containers between the driver call that creates and polices    *)
(* each of them, the Docker daemon that may fail any request, the worker   *)
(* process that may die, and the reaper that sweeps by age.                *)
(*                                                                         *)
(* The wall clock and the watchdog's monotonic clock are unrelated: a      *)
(* deadline may pass, and a container may come to look old, at any time.   *)
(***************************************************************************)
EXTENDS Naturals

CONSTANTS
    Containers,     \* one per driver call
    Leftover,       \* those a worker that died earlier left running
    MayStick,       \* those the daemon may be unable to remove, ever
    Reapers,        \* reap_containers tasks that may overlap
    MaxSweepDeaths  \* sweeps whose worker dies under them

ASSUME LeftoverAssumption == Leftover \subseteq Containers
ASSUME StickAssumption == MayStick \subseteq Containers
ASSUME DeathsAssumption == MaxSweepDeaths \in Nat

SandboxStatus == {"completed", "timeout", "oom", "start_failed", "error"}
WatchdogVerdict == {"exited", "terminated", "killed", "escaped"}

\* Where driver.run stands. "dead": the worker process died under it.
Waiting == {"watching", "terminating", "killing"}
InRun == {"creating", "starting", "judging", "removing"} \cup Waiting
CallStates == InRun \cup {"idle", "returned", "dead"}

Present == {"created", "running", "exited"}
ExitCodes == {0, 137}   \* success, and anything else
NoCode == 999
NoOne == "none"

VARIABLES
    call,           \* state of the driver call
    verdict, exit,  \* the watchdog's outcome
    status,         \* the SandboxResult's status
    state,          \* the container, as the daemon knows it
    code,           \* its exit code
    touched,        \* it was signalled or removed while it ran (for the properties)
    oom,            \* its OOMKilled flag
    old,            \* created_at is more than max_age ago
    stuck,          \* the containers the daemon cannot remove
    listed,         \* what each sweep has still to try
    trying,         \* the container each sweep is removing
    deaths          \* sweeps that died so far

callVars == <<call, verdict, exit, status>>
boxVars == <<state, code, touched, oom, old>>
sweepVars == <<listed, trying, deaths>>
vars == <<callVars, boxVars, sweepVars, stuck>>

Each(x) == [c \in Containers |-> x]
Init ==
    /\ call = [c \in Containers |-> IF c \in Leftover THEN "dead" ELSE "idle"]
    /\ state = [c \in Containers |-> IF c \in Leftover THEN "running" ELSE "none"]
    /\ verdict = Each("none") /\ exit = Each(NoCode) /\ status = Each("none")
    /\ code = Each(NoCode)
    /\ touched = Each(FALSE) /\ oom = Each(FALSE) /\ old = Each(FALSE)
    /\ stuck \in SUBSET MayStick
    /\ listed = [r \in Reapers |-> {}]
    /\ trying = [r \in Reapers |-> NoOne]
    /\ deaths = 0

Goto(c, at) == call' = [call EXCEPT ![c] = at]
Outcome(c, v, e) ==
    /\ verdict' = [verdict EXCEPT ![c] = v]
    /\ exit' = [exit EXCEPT ![c] = e]
Report(c, s) == status' = [status EXCEPT ![c] = s]

-----------------------------------------------------------------------------
(* The daemon and what runs in a container *)

\* remove(force=True) succeeds: whatever still runs is killed first.
Gone(c) ==
    /\ c \notin stuck
    /\ state' = [state EXCEPT ![c] = "gone"]
    /\ code' = [code EXCEPT ![c] = IF state[c] = "running" THEN 137 ELSE @]
    /\ touched' = [touched EXCEPT ![c] = @ \/ state[c] = "running"]
    /\ oom' = [oom EXCEPT ![c] = FALSE]
    /\ old' = [old EXCEPT ![c] = FALSE]

\* A best-effort removal: done, found already gone, or failed and ignored.
QuietRemove(c) ==
    \/ state[c] \in Present /\ Gone(c)
    \/ UNCHANGED boxVars

Exits(c, n) ==
    /\ state[c] = "running"
    /\ state' = [state EXCEPT ![c] = "exited"]
    /\ code' = [code EXCEPT ![c] = n]
    /\ UNCHANGED <<touched, oom, old, callVars, sweepVars, stuck>>

\* The kernel kills a process of the container, which may survive it.
OomKill(c) ==
    /\ state[c] = "running"
    /\ ~oom[c]
    /\ oom' = [oom EXCEPT ![c] = TRUE]
    /\ UNCHANGED <<state, code, touched, old, callVars, sweepVars, stuck>>

GrowsOld(c) ==
    /\ state[c] \in Present
    /\ ~old[c]
    /\ old' = [old EXCEPT ![c] = TRUE]
    /\ UNCHANGED <<state, code, touched, oom, callVars, sweepVars, stuck>>

-----------------------------------------------------------------------------
(* driver.run up to the running container *)

Run(c) ==
    /\ call[c] = "idle"
    /\ Goto(c, "creating")
    /\ UNCHANGED <<verdict, exit, status, boxVars, sweepVars, stuck>>

Create(c) ==
    /\ call[c] = "creating"
    /\ state' = [state EXCEPT ![c] = "created"]
    /\ Goto(c, "starting")
    /\ UNCHANGED <<verdict, exit, status, code, touched, oom, old, sweepVars, stuck>>

\* The request failed, or only its answer was lost.
CreateFailed(c) ==
    /\ call[c] = "creating"
    /\ state' \in {state, [state EXCEPT ![c] = "created"]}
    /\ Goto(c, "returned")
    /\ Report(c, "start_failed")
    /\ UNCHANGED <<verdict, exit, code, touched, oom, old, sweepVars, stuck>>

\* Requests on a container the reaper has removed are refused.
Start(c) ==
    /\ call[c] = "starting"
    /\ state[c] = "created"
    /\ state' = [state EXCEPT ![c] = "running"]
    /\ Goto(c, "watching")
    /\ UNCHANGED <<verdict, exit, status, code, touched, oom, old, sweepVars, stuck>>

\* As for CreateFailed; the container is removed if the daemon lets us.
StartFailed(c) ==
    /\ call[c] = "starting"
    /\ QuietRemove(c)
    /\ Goto(c, "returned")
    /\ Report(c, "start_failed")
    /\ UNCHANGED <<verdict, exit, sweepVars, stuck>>

\* It did start, and the removal is refused as well.
StartAnswerLost(c) ==
    /\ call[c] = "starting"
    /\ state[c] = "created"
    /\ state' = [state EXCEPT ![c] = "running"]
    /\ Goto(c, "returned")
    /\ Report(c, "start_failed")
    /\ UNCHANGED <<verdict, exit, code, touched, oom, old, sweepVars, stuck>>

-----------------------------------------------------------------------------
(* The watchdog *)

Verdict(at) ==
    CASE at = "watching" -> "exited"
      [] at = "terminating" -> "terminated"
      [] at = "killing" -> "killed"

WaitReturns(c) ==
    /\ call[c] \in Waiting
    /\ code[c] # NoCode
    /\ Outcome(c, Verdict(call[c]), code[c])
    /\ Goto(c, "judging")
    /\ UNCHANGED <<status, boxVars, sweepVars, stuck>>

\* terminate and kill are best effort and do nothing to a container that ended.
Signal(c) ==
    \/ touched' = [touched EXCEPT ![c] = @ \/ state[c] = "running"]
    \/ UNCHANGED touched

\* The wait timed out, whether or not the container has just ended. With
\* grace_s = 0 the kill follows at once.
Deadline(c) ==
    /\ call[c] = "watching"
    /\ Signal(c)
    /\ \E next \in {"terminating", "killing"} : Goto(c, next)
    /\ UNCHANGED <<verdict, exit, status, state, code, oom, old, sweepVars, stuck>>

GraceOver(c) ==
    /\ call[c] = "terminating"
    /\ Signal(c)
    /\ Goto(c, "killing")
    /\ UNCHANGED <<verdict, exit, status, state, code, oom, old, sweepVars, stuck>>

\* Mutant: SIGKILL is taken to be beyond refusal, and waited for.
GiveUpWhenEnded(c) ==
    /\ call[c] = "killing"
    /\ code[c] # NoCode
    /\ Outcome(c, "killed", code[c])
    /\ Goto(c, "judging")
    /\ UNCHANGED <<status, boxVars, sweepVars, stuck>>

GiveUp(c) ==
    /\ call[c] = "killing"
    /\ Outcome(c, "escaped", NoCode)
    /\ Goto(c, "judging")
    /\ UNCHANGED <<status, boxVars, sweepVars, stuck>>

-----------------------------------------------------------------------------
(* The result *)

StatusOf(c, oomSeen) ==
    IF oomSeen THEN "oom" ELSE IF verdict[c] = "exited" THEN "completed" ELSE "timeout"

\* Logs and the OOM flag are asked for; a daemon that does not answer reads
\* as "no logs" and "not OOM-killed".
Judge(c) ==
    /\ call[c] = "judging"
    /\ \E oomSeen \in {FALSE, oom[c]} : Report(c, StatusOf(c, oomSeen))
    /\ verdict' = [verdict EXCEPT ![c] = "none"]
    /\ Goto(c, "removing")
    /\ UNCHANGED <<exit, boxVars, sweepVars, stuck>>

\* wait raises something that is no timeout.
DaemonError(c) ==
    /\ call[c] \in Waiting
    /\ Report(c, "error")
    /\ Goto(c, "removing")
    /\ UNCHANGED <<verdict, exit, boxVars, sweepVars, stuck>>

\* The finally clause.
AutoRemove(c) ==
    /\ call[c] = "removing"
    /\ QuietRemove(c)
    /\ Goto(c, "returned")
    /\ UNCHANGED <<verdict, exit, status, sweepVars, stuck>>

WorkerDies(c) ==
    /\ call[c] \in InRun
    /\ Goto(c, "dead")
    /\ Outcome(c, "none", NoCode)
    /\ Report(c, "none")
    /\ UNCHANGED <<boxVars, sweepVars, stuck>>

\* Mutant: any exit of its own counts as success.
RecordStageAnyExit(c) ==
    IF status[c] = "completed" THEN "completed" ELSE "failed"

\* What _record_stage makes of a result.
RecordStage(c) ==
    CASE status[c] = "completed" -> IF exit[c] = 0 THEN "completed" ELSE "failed"
      [] status[c] \in {"timeout", "oom"} -> status[c]
      [] OTHER -> "failed"

-----------------------------------------------------------------------------
(* The reaper: _active_run_ids answers None, so age alone decides *)

Managed == {c \in Containers : state[c] \in Present}

SweepLists(r) ==
    /\ trying[r] = NoOne
    /\ listed[r] = {}
    /\ listed' = [listed EXCEPT ![r] = {c \in Managed : old[c]}]
    /\ UNCHANGED <<callVars, boxVars, trying, deaths, stuck>>

\* The loop's next container, in whatever order the daemon lists them.
SweepNext(r) ==
    /\ trying[r] = NoOne
    /\ \E c \in listed[r] :
          /\ trying' = [trying EXCEPT ![r] = c]
          /\ listed' = [listed EXCEPT ![r] = @ \ {c}]
    /\ UNCHANGED <<callVars, boxVars, deaths, stuck>>

\* Removed, or found gone already, which remove() takes for success.
Reap(r, c) ==
    /\ trying[r] = c
    /\ IF state[c] \in Present THEN Gone(c) ELSE UNCHANGED boxVars
    /\ trying' = [trying EXCEPT ![r] = NoOne]
    /\ UNCHANGED <<callVars, listed, deaths, stuck>>

SweepEnds(r) ==
    /\ listed' = [listed EXCEPT ![r] = {}]
    /\ trying' = [trying EXCEPT ![r] = NoOne]
    /\ UNCHANGED <<callVars, boxVars, stuck>>

\* Mutant: the first failure ends the sweep.
ReapFailsEndingSweep(r, c) ==
    /\ trying[r] = c
    /\ SweepEnds(r)
    /\ UNCHANGED deaths

ReapFails(r, c) ==
    /\ trying[r] = c
    /\ trying' = [trying EXCEPT ![r] = NoOne]
    /\ UNCHANGED <<callVars, boxVars, listed, deaths, stuck>>

\* The worker running the sweep dies.
SweepDies(r) ==
    /\ listed[r] # {} \/ trying[r] # NoOne
    /\ deaths < MaxSweepDeaths
    /\ deaths' = deaths + 1
    /\ SweepEnds(r)

-----------------------------------------------------------------------------
Creating(c) == Create(c) \/ CreateFailed(c)
Starting(c) == Start(c) \/ StartFailed(c) \/ StartAnswerLost(c)
Watching(c) == WaitReturns(c) \/ Deadline(c) \/ GraceOver(c) \/ GiveUp(c)
DriverStep(c) == Creating(c) \/ Starting(c) \/ Watching(c) \/ Judge(c) \/ AutoRemove(c)
SweepStep(r) == SweepNext(r) \/ \E c \in Containers : Reap(r, c) \/ ReapFails(r, c)

Next ==
    \/ \E c \in Containers :
          \/ Run(c) \/ DriverStep(c) \/ DaemonError(c) \/ WorkerDies(c)
          \/ OomKill(c) \/ GrowsOld(c)
          \/ \E n \in ExitCodes : Exits(c, n)
    \/ \E r \in Reapers : SweepLists(r) \/ SweepStep(r) \/ SweepDies(r)

Spec == Init /\ [][Next]_vars

\* A driver call whose worker lives goes on, since each of its requests is
\* bounded by a timeout; days pass; beat schedules sweeps again and again,
\* and a removal tried again and again works in the end unless the container
\* is stuck. Nothing is assumed of what runs in a container, nor that the
\* daemon ever refuses a request.
LiveSpec ==
    /\ Spec
    /\ \A c \in Containers : WF_vars(DriverStep(c)) /\ WF_vars(GrowsOld(c))
    /\ \A r \in Reapers : WF_vars(SweepLists(r)) /\ WF_vars(SweepStep(r))
    /\ \A r \in Reapers, c \in Containers : SF_vars(Reap(r, c))

-----------------------------------------------------------------------------
(* Correctness *)

TypeOK ==
    /\ call \in [Containers -> CallStates]
    /\ verdict \in [Containers -> WatchdogVerdict \cup {"none"}]
    /\ exit \in [Containers -> ExitCodes \cup {NoCode}]
    /\ status \in [Containers -> SandboxStatus \cup {"none"}]
    /\ state \in [Containers -> Present \cup {"none", "gone"}]
    /\ code \in [Containers -> ExitCodes \cup {NoCode}]
    /\ touched \in [Containers -> BOOLEAN] /\ oom \in [Containers -> BOOLEAN]
    /\ old \in [Containers -> BOOLEAN]
    /\ stuck \subseteq MayStick
    /\ listed \in [Reapers -> SUBSET Containers]
    /\ trying \in [Reapers -> Containers \cup {NoOne}]
    /\ deaths \in 0..MaxSweepDeaths
    /\ \A c \in Containers : call[c] \in {"removing", "returned"} => status[c] # "none"

\* A stage reads "completed" only if its container ended by itself with exit
\* code 0, neither signalled nor removed before, and no longer runs: the gate
\* trusts such a stage to have looked at everything.
CompletedIsEarned ==
    \A c \in Containers : call[c] = "returned" /\ RecordStage(c) = "completed" =>
        /\ ~touched[c]
        /\ code[c] = 0
        /\ state[c] \in {"exited", "gone"}

\* A hung analyzer costs one degraded stage and not the scan: every call
\* returns, or dies with its worker, whatever its container does.
CallsReturn ==
    \A c \in Containers : call[c] \in InRun ~> call[c] \in {"returned", "dead"}

\* What a dead worker, a lost answer or a failed removal leaves behind is
\* removed in the end, also when another container cannot be.
ContainersGo ==
    \A c \in Containers : state[c] \in Present ~> state[c] = "gone" \/ c \in stuck
=============================================================================
