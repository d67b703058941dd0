---------------------------- MODULE ReleaseGate ----------------------------
(***************************************************************************)
(* The findings of one finished run between the three parties that decide  *)
(* whether it ships: people, who set a finding's status through the API;   *)
(* the model, whose triage task reads every row, thinks for minutes and    *)
(* writes back in one commit; and the release gate, which may be asked at  *)
(* any moment and judges whatever the rows say then.                       *)
(*                                                                         *)
(* Triage sessions write through the ORM: a column goes into the UPDATE    *)
(* only when its value differs from the one the session loaded.            *)
(***************************************************************************)
EXTENDS GatePolicy

CONSTANTS
    Policies,       \* the policies a release repository may hold
    Triagers,       \* triage requests that may run at the same time
    HumanStatuses,  \* statuses a person sets in the runs explored
    Verdicts,       \* what the model may answer, "error" included
    WaiverFiles,    \* the waivers.yaml a behaviour may start with
    Baselines       \* the finding ids the predecessor may have

LlmVerdict == {"true_positive", "false_positive", "needs_review", "error"}
RunStates == {"running", "completed", "degraded", "failed"}
BaselineStates == {"none", "completed", "degraded", "failed"}   \* it ended before

ASSUME PoliciesAssumption == Policies \subseteq Policy
ASSUME HumanAssumption == HumanStatuses \subseteq FindingStatus
ASSUME VerdictsAssumption == Verdicts \subseteq LlmVerdict
ASSUME WaiversAssumption == WaiverFiles \subseteq [Findings -> Days \cup {NoWaiver}]
ASSUME BaselinesAssumption == Baselines \subseteq SUBSET Findings

VARIABLES
    (* the release repository and the calendar *)
    policy, waivers, today,
    (* the database *)
    run,            \* runs.status of the run under the gate
    baselineRun,    \* runs.status of its predecessor, "none" without one
    baseline,       \* the finding ids of that predecessor
    status,         \* findings.status
    verdict,        \* findings.llm_verdict, "none" before any triage
    audit,          \* new_status of the last FINDING_STATUS_CHANGED row, or "none"
    (* the triage sessions *)
    triaging,       \* the triage requests under way
    todo,           \* findings still to be shown to the model
    seenStatus, seenVerdict,    \* the columns as the session loaded them
    newStatus, newVerdict       \* the columns as the session will leave them

repoVars == <<policy, waivers, today>>
runVars  == <<run, baselineRun, baseline>>
rowVars  == <<status, verdict, audit>>
sessionVars == <<triaging, todo, seenStatus, seenVerdict, newStatus, newVerdict>>
vars == <<repoVars, runVars, rowVars, sessionVars>>

Untouched == [f \in Findings |-> "none"]

Init ==
    /\ policy \in Policies
    /\ waivers \in WaiverFiles
    /\ today = 0
    /\ run = "running"
    /\ baselineRun \in BaselineStates
    /\ baseline \in Baselines
    /\ status = [f \in Findings |-> "open"]
    /\ verdict = Untouched
    /\ audit = Untouched
    /\ triaging = {}
    /\ todo = [t \in Triagers |-> {}]
    /\ seenStatus = [t \in Triagers |-> Untouched]
    /\ seenVerdict = [t \in Triagers |-> Untouched]
    /\ newStatus = [t \in Triagers |-> Untouched]
    /\ newVerdict = [t \in Triagers |-> Untouched]

\* The scan's last commit publishes findings and status together; a failed
\* scan rolled its findings back.
HasFindings == run \in {"completed", "degraded"}

-----------------------------------------------------------------------------
(* Around the gate *)

\* The scan ends and its findings, all open, become visible with the status.
Settle(s) ==
    /\ run = "running"
    /\ run' = s
    /\ UNCHANGED <<repoVars, baselineRun, baseline, rowVars, sessionVars>>

\* The orphan sweep's late write over a run that had completed meanwhile.
BaselineOverwritten ==
    /\ baselineRun \in {"completed", "degraded"}
    /\ baselineRun' = "failed"
    /\ UNCHANGED <<repoVars, run, baseline, rowVars, sessionVars>>

NextDay ==
    /\ today < LastDay
    /\ today' = today + 1
    /\ UNCHANGED <<policy, waivers, runVars, rowVars, sessionVars>>

\* bare waive: append_waiver refuses a finding the file already waives.
AddWaiver(f, expires) ==
    /\ ~HasWaiver(waivers, f)
    /\ BuildWaiver(policy, expires, today)
    /\ waivers' = [waivers EXCEPT ![f] = expires]
    /\ UNCHANGED <<policy, today, runVars, rowVars, sessionVars>>

\* update_finding: the status and its audit row in one commit.
HumanPatch(f, s) ==
    /\ HasFindings
    /\ status' = [status EXCEPT ![f] = s]
    /\ audit' = [audit EXCEPT ![f] = s]
    /\ UNCHANGED <<repoVars, runVars, verdict, sessionVars>>

-----------------------------------------------------------------------------
(* Triage *)

\* triage_run_task loads every finding of the run, and returns without one.
TriageStart(t) ==
    /\ HasFindings
    /\ t \notin triaging
    /\ triaging' = triaging \cup {t}
    /\ todo' = [todo EXCEPT ![t] = Findings]
    /\ seenStatus' = [seenStatus EXCEPT ![t] = status]
    /\ seenVerdict' = [seenVerdict EXCEPT ![t] = verdict]
    /\ newStatus' = [newStatus EXCEPT ![t] = status]
    /\ newVerdict' = [newVerdict EXCEPT ![t] = verdict]
    /\ UNCHANGED <<repoVars, runVars, rowVars>>

\* Mutant: the verdict itself is stored as the status.
VerdictStatusRaw(f, v, s) == IF v = "error" THEN s ELSE v

\* apply_verdict: the status a verdict leaves on a finding that has status s.
VerdictStatus(f, v, s) ==
    CASE v = "error" -> s
      [] v = "true_positive" -> "confirmed"
      [] v = "false_positive" /\ Rank[f] > 1 -> "false_positive"
      [] OTHER -> "needs_review"

\* One call to the model: most severe findings first.
TriageVerdict(t, f, v) ==
    /\ f \in todo[t]
    /\ \A g \in todo[t] : Rank[f] <= Rank[g]
    /\ todo' = [todo EXCEPT ![t] = @ \ {f}]
    /\ newStatus' = [newStatus EXCEPT ![t][f] = VerdictStatus(f, v, @)]
    /\ newVerdict' = [newVerdict EXCEPT ![t][f] = v]
    /\ UNCHANGED <<repoVars, runVars, rowVars, triaging, seenStatus, seenVerdict>>

FreeTriager(t) ==
    /\ triaging' = triaging \ {t}
    /\ todo' = [todo EXCEPT ![t] = {}]
    /\ seenStatus' = [seenStatus EXCEPT ![t] = Untouched]
    /\ seenVerdict' = [seenVerdict EXCEPT ![t] = Untouched]
    /\ newStatus' = [newStatus EXCEPT ![t] = Untouched]
    /\ newVerdict' = [newVerdict EXCEPT ![t] = Untouched]

\* Mutant: the whole row is written back.
FlushAlways(seen, new, row) == [f \in Findings |-> new[f]]

\* The UPDATE of one column: only rows whose value the session changed.
Flush(seen, new, row) == [f \in Findings |-> IF new[f] # seen[f] THEN new[f] ELSE row[f]]

\* session_scope commits the pass.
TriageCommit(t) ==
    /\ t \in triaging /\ todo[t] = {}
    /\ status' = Flush(seenStatus[t], newStatus[t], status)
    /\ verdict' = Flush(seenVerdict[t], newVerdict[t], verdict)
    /\ FreeTriager(t)
    /\ UNCHANGED <<repoVars, runVars, audit>>

\* The request dies or the commit fails: nothing is written.
TriageAbort(t) ==
    /\ t \in triaging
    /\ FreeTriager(t)
    /\ UNCHANGED <<repoVars, runVars, rowVars>>

-----------------------------------------------------------------------------
TriageStep(t) ==
    \/ TriageStart(t)
    \/ \E f \in Findings, v \in Verdicts : TriageVerdict(t, f, v)
    \/ TriageCommit(t)
    \/ TriageAbort(t)

Next ==
    \/ \E s \in RunStates \ {"running"} : Settle(s)
    \/ BaselineOverwritten
    \/ NextDay
    \/ \E f \in Findings, e \in Days : AddWaiver(f, e)
    \/ \E f \in Findings, s \in HumanStatuses : HumanPatch(f, s)
    \/ \E t \in Triagers : TriageStep(t)

Spec == Init /\ [][Next]_vars

-----------------------------------------------------------------------------
(* gate_run *)

\* resolve_baseline: only a completed predecessor excuses anything.
BaselineIds == IF baselineRun = "completed" THEN baseline ELSE {}

Open == {f \in Findings : IsOpen(status[f])}
Dismissed == {f \in Findings : verdict[f] = "false_positive"}

\* The findings policy p judges against baseline ids B.
Judged(p, B) == Live(p, Actionable(p, Open, Dismissed), B)

\* Mutant: a failed run is gated like any other.
GateTrustingFailed(p, B, W) ==
    IF run = "running" THEN "not_ready"
    ELSE Evaluate(p, Judged(p, B), W, today, run = "degraded")

\* gate_run; RunNotReady is an answer of its own.
Gate(p, B, W) ==
    CASE run = "running" -> "not_ready"
      [] run = "failed"  -> Evaluate(p, {}, W, today, TRUE)
      [] OTHER           -> Evaluate(p, Judged(p, B), W, today, run = "degraded")

Decision == Gate(policy, BaselineIds, waivers)

-----------------------------------------------------------------------------
(* Safety *)

\* Type invariant.
TypeOK ==
    /\ policy \in Policies
    /\ waivers \in [Findings -> Days \cup {NoWaiver}]
    /\ today \in Days
    /\ run \in RunStates
    /\ baselineRun \in BaselineStates
    /\ baseline \in SUBSET Findings
    /\ status \in [Findings -> FindingStatus]
    /\ verdict \in [Findings -> LlmVerdict \cup {"none"}]
    /\ audit \in [Findings -> FindingStatus \cup {"none"}]
    /\ triaging \subseteq Triagers
    /\ todo \in [Triagers -> SUBSET Findings]
    /\ seenStatus \in [Triagers -> [Findings -> FindingStatus \cup {"none"}]]
    /\ newStatus \in [Triagers -> [Findings -> FindingStatus \cup {"none"}]]
    /\ seenVerdict \in [Triagers -> [Findings -> LlmVerdict \cup {"none"}]]
    /\ newVerdict \in [Triagers -> [Findings -> LlmVerdict \cup {"none"}]]

\* ADR-0012 against a triage that started before a person changed their mind:
\* a critical or high finding reads false_positive only while that is the last
\* thing a person said of it.
FloorHolds ==
    \A f \in Findings :
        Rank[f] <= 1 /\ status[f] = "false_positive" => audit[f] = "false_positive"

\* ADR-0018: a run whose scan was incomplete or failed passes only under a
\* policy that says on_degraded: pass.
IncompleteNeverPasses ==
    run \in {"degraded", "failed"} /\ policy.onDegraded # "pass" => Decision # "pass"

\* gate.py: an unresolved baseline "is the safe direction": what passes with
\* no baseline passes with any.
UnknownBaselineIsSafest ==
    \A B \in SUBSET Findings :
        Gate(policy, {}, waivers) = "pass" => Gate(policy, B, waivers) = "pass"

NoWaivers == [f \in Findings |-> NoWaiver]
PostureRank == [pass |-> 0, warn |-> 1, fail |-> 2]

\* Policy q asks at least what p asks, clause by clause.
AtLeastAsStrict(q, p) ==
    /\ p.listed \subseteq q.listed
    /\ p.floor <= q.floor
    /\ \A s \in Ranks : p.budget[s] = Unlimited
                        \/ (q.budget[s] # Unlimited /\ q.budget[s] <= p.budget[s])
    /\ p.mode = "all" => q.mode = "all"
    /\ q.trust => p.trust
    /\ PostureRank[p.onDegraded] <= PostureRank[q.onDegraded]

\* Re-gating under a stricter policy never turns a refusal into a pass.  Stated
\* without waivers: a waiver lifts a block but not a budget, so with one, a
\* lower floor can pass what a budget stopped.
StricterNeverOpens ==
    \A q \in Policies :
        AtLeastAsStrict(q, policy) /\ Gate(q, BaselineIds, NoWaivers) = "pass"
            => Gate(policy, BaselineIds, NoWaivers) = "pass"

\* The gate does not open by itself: a day that passes, an expiring waiver or a
\* baseline that is lost never turns another answer into a pass.
NothingOpensByItself ==
    [][UNCHANGED <<run, status, verdict, waivers>> /\ Decision # "pass"
          => Decision' # "pass"]_vars

\* waive.py: "what lands in review is an entry the gate will accept": a waiver
\* just written neither blocks as expired nor draws a TTL warning.
WrittenWaiversAreAccepted ==
    [][\A f \in Findings :
          ~HasWaiver(waivers, f) /\ HasWaiver(waivers', f) =>
              /\ ~IsExpired(waivers', f, today')
              /\ ~ExceedsTtl(policy, waivers', f, today')]_vars

(***************************************************************************)
(* What the repository says and the code does not keep.                    *)
(***************************************************************************)

\* ADR-0017: "a model may not open the release gate".  Under a policy that does
\* not trust the model, a finding that would block and that no person has
\* closed stops a pass.
ModelCannotOpenGate ==
    ~policy.trust /\ run = "completed" /\ Decision = "pass" =>
        \A f \in Findings \ BaselineIds :
            Blocks(policy, f) /\ audit[f] \notin Closed => HasWaiver(waivers, f)
=============================================================================
