----------------------------- MODULE GatePolicy -----------------------------
(***************************************************************************)
(* core/policy: the pure release-gate engine.  A finding is a member of    *)
(* Findings with a fixed severity; what the gate reads of it is whether it *)
(* is open, whether the model dismissed it, whether the baseline has it    *)
(* and whether a waiver names it.                                          *)
(*                                                                         *)
(* A policy is a record.  "listed" holds the findings whose rule or        *)
(* category is on its block lists, so the two lists, which block alike,    *)
(* are one set.  Days are naturals; a severity is its rank, 0 = critical.  *)
(***************************************************************************)
EXTENDS Integers, FiniteSets

CONSTANTS
    Findings,       \* ids of the findings of one run
    Rank,           \* the severity rank of each finding
    LastDay         \* the calendar ends here

Ranks == 0 .. 4
Days == 0 .. LastDay
NoFloor == -1       \* severity_at_or_above: none
Unlimited == -1     \* UNLIMITED
NoWaiver == -1      \* no entry for the finding in waivers.yaml

Policy ==
    [floor : Ranks \cup {NoFloor},
     listed : SUBSET Findings,
     budget : [Ranks -> Nat \cup {Unlimited}],
     mode : {"new_only", "all"},
     onDegraded : {"fail", "warn", "pass"},
     trust : BOOLEAN,
     maxDays : Nat]

ASSUME FindingsAssumption == IsFiniteSet(Findings)
ASSUME RankAssumption == Rank \in [Findings -> Ranks]
ASSUME CalendarAssumption == LastDay \in Nat

-----------------------------------------------------------------------------
(* Per finding *)

FindingStatus == {"open", "confirmed", "false_positive", "accepted_risk",
                  "fixed", "needs_review"}
Closed == {"false_positive", "accepted_risk", "fixed"}

\* GateFinding.is_open
IsOpen(s) == s \notin Closed

\* _is_actionable, over all findings at once.
Actionable(p, open, dismissed) == open \cup (IF p.trust THEN {} ELSE dismissed)

\* Mutant: the comparison is the wrong way round.
LiveInverted(p, A, B) == IF p.mode = "new_only" THEN A \cap B ELSE A

\* The findings the baseline does not excuse.
Live(p, A, B) == IF p.mode = "new_only" THEN A \ B ELSE A

\* Mutant: ranks ascend as severities fall, and the comparison forgets it.
BlocksFromBelow(p, f) == f \in p.listed \/ (p.floor # NoFloor /\ Rank[f] >= p.floor)

\* Policy.blocks and _blocking_reason
Blocks(p, f) == f \in p.listed \/ (p.floor # NoFloor /\ Rank[f] <= p.floor)

Blocking(p, L) == {f \in L : Blocks(p, f)}

\* Waiver.is_expired; waivers W map a finding to its expiry day.
HasWaiver(W, f) == W[f] # NoWaiver

\* Mutant: the operands are swapped.
IsExpiredInverted(W, f, day) == W[f] > day

IsExpired(W, f, day) == day > W[f]

\* _waiver_exceeds_ttl
ExceedsTtl(p, W, f, day) == W[f] - day > p.maxDays

-----------------------------------------------------------------------------
(* The verdict, over the live findings L *)

NotWaived(p, L, W) == {f \in Blocking(p, L) : ~HasWaiver(W, f)}
WaiverExpired(p, L, W, day) ==
    {f \in Blocking(p, L) : HasWaiver(W, f) /\ IsExpired(W, f, day)}

\* What survives the floor counts against the budgets.
Considered(p, L) == L \ Blocking(p, L)

OfSeverity(S, s) == {f \in S : Rank[f] = s}

\* _budget_violations
OverBudget(p, L) ==
    {s \in Ranks : p.budget[s] # Unlimited
                   /\ Cardinality(OfSeverity(Considered(p, L), s)) > p.budget[s]}

\* The violations that findings cause.
Found(p, L, W, day) ==
    \/ NotWaived(p, L, W) # {}
    \/ WaiverExpired(p, L, W, day) # {}
    \/ OverBudget(p, L) # {}

\* evaluate's degraded-scan violation and _decide
Decide(p, found, degraded) ==
    LET incomplete == degraded /\ p.onDegraded = "fail" IN
    IF incomplete /\ ~found THEN "inconclusive"
    ELSE IF incomplete \/ found THEN "blocked"
    ELSE IF degraded /\ p.onDegraded = "warn" THEN "inconclusive"
    ELSE "pass"

Evaluate(p, L, W, day, degraded) == Decide(p, Found(p, L, W, day), degraded)

-----------------------------------------------------------------------------
(* core/policy/waive.py: what `bare waive` agrees to write *)

\* Mutant: an expiry in the past is taken.
BuildWaiverUnchecked(p, expires, day) == expires - day <= p.maxDays

BuildWaiver(p, expires, day) == expires >= day /\ expires - day <= p.maxDays
=============================================================================
