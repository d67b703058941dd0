------------------------ MODULE ReleaseGate_proofs ------------------------
(***************************************************************************)
(* Theorems about the gate and about triage, for any findings, severities, *)
(* policies, calendar and number of triage requests.                       *)
(*                                                                         *)
(* The engine part rests on monotonicity: more live findings and later     *)
(* days only add violations (FoundGrows).  The triage part rests on what a *)
(* session may hold for a finding above the floor (SessionInv).            *)
(***************************************************************************)
EXTENDS ReleaseGate, FiniteSetTheorems, TLAPS

\* A session holds real statuses, and one above the floor that reads
\* false_positive was loaded that way.
SessionInv ==
    \A t \in triaging :
        /\ newStatus[t] \in [Findings -> FindingStatus]
        /\ \A f \in Findings : Rank[f] <= 1 /\ newStatus[t][f] = "false_positive"
              => seenStatus[t][f] = "false_positive"

Inv == TypeOK /\ SessionInv /\ FloorHolds

USE DEF vars, repoVars, runVars, rowVars, sessionVars, HasFindings

-----------------------------------------------------------------------------
(* The engine *)

\* The budget clause: a set of findings within a larger one that respects a
\* ceiling respects it, and any looser ceiling, too.
LEMMA BudgetGrows ==
    ASSUME NEW S, NEW T \in SUBSET Findings, S \subseteq T, NEW s \in Ranks,
           NEW m \in Int, NEW n \in Int, n <= m,
           Cardinality(OfSeverity(S, s)) > m
    PROVE  Cardinality(OfSeverity(T, s)) > n
  <1> DEFINE SS == OfSeverity(S, s)
             TT == OfSeverity(T, s)
  <1>1. IsFiniteSet(TT)
    <2>1. TT \in SUBSET Findings
      BY DEF OfSeverity
    <2>2. QED
      BY <2>1, FindingsAssumption, FS_Subset
  <1>2. SS \in SUBSET TT
    BY DEF OfSeverity
  <1>3. Cardinality(SS) <= Cardinality(TT) /\ IsFiniteSet(SS)
    BY <1>1, <1>2, FS_Subset
  <1>4. Cardinality(SS) \in Nat /\ Cardinality(TT) \in Nat
    BY <1>1, <1>3, FS_CardinalityType
  <1>5. QED
    BY <1>3, <1>4

\* More live findings, judged later, are refused for every reason that fewer
\* were: no violation disappears.
LEMMA FoundGrows ==
    ASSUME NEW p \in Policy, NEW L, NEW M \in SUBSET Findings, L \subseteq M,
           NEW W \in [Findings -> Days \cup {NoWaiver}],
           NEW d \in Days, NEW e \in Days, d <= e,
           Found(p, L, W, d)
    PROVE  Found(p, M, W, e)
  <1>1. NotWaived(p, L, W) \subseteq NotWaived(p, M, W)
    BY DEF NotWaived, Blocking
  <1>2. WaiverExpired(p, L, W, d) \subseteq WaiverExpired(p, M, W, e)
    BY CalendarAssumption DEF WaiverExpired, Blocking, IsExpired, Days, NoWaiver
  <1>3. OverBudget(p, L) \subseteq OverBudget(p, M)
    <2> SUFFICES ASSUME NEW s \in OverBudget(p, L)
                 PROVE  s \in OverBudget(p, M)
      OBVIOUS
    <2>1. Considered(p, L) \subseteq Considered(p, M) /\ Considered(p, M) \in SUBSET Findings
      BY DEF Considered, Blocking
    <2>2. /\ s \in Ranks
          /\ p.budget[s] # Unlimited
          /\ Cardinality(OfSeverity(Considered(p, L), s)) > p.budget[s]
      BY DEF OverBudget
    <2>3. p.budget[s] \in Int /\ p.budget[s] <= p.budget[s]
      BY <2>2 DEF Policy, Unlimited
    <2>4. Cardinality(OfSeverity(Considered(p, M), s)) > p.budget[s]
      BY <2>1, <2>2, <2>3, BudgetGrows
    <2>5. QED
      BY <2>2, <2>4 DEF OverBudget
  <1>4. QED
    BY <1>1, <1>2, <1>3 DEF Found

\* What the gate judges against more baseline is part of what it judges
\* against less.
LEMMA JudgedShrinks ==
    ASSUME NEW p \in Policy, NEW B, NEW C, B \subseteq C
    PROVE  /\ Judged(p, C) \subseteq Judged(p, B)
           /\ Judged(p, B) \in SUBSET Findings
  BY DEF Judged, Live, Actionable, Open, Dismissed

\* Less baseline and a later day only add violations.
LEMMA FoundFalls ==
    ASSUME TypeOK, NEW p \in Policy, NEW B, NEW C, B \subseteq C,
           NEW d \in Days, NEW e \in Days, d <= e,
           Found(p, Judged(p, C), waivers, d)
    PROVE  Found(p, Judged(p, B), waivers, e)
  <1>1. waivers \in [Findings -> Days \cup {NoWaiver}]
    BY DEF TypeOK
  <1>2. QED
    BY <1>1, JudgedShrinks, FoundGrows

-----------------------------------------------------------------------------
(* The invariant *)

\* Policies are policies, whatever the run.
LEMMA PolicyType == TypeOK => policy \in Policy
  BY PoliciesAssumption DEF TypeOK

\* Ranks are numbers.
LEMMA RankType == \A f \in Findings : Rank[f] \in Int
  BY RankAssumption DEF Ranks

\* The invariant holds of a run that is still scanning.
LEMMA InitInv == Init => Inv
  BY BaselinesAssumption, WaiversAssumption, CalendarAssumption
  DEF Init, Inv, TypeOK, SessionInv, FloorHolds, Untouched, BaselineStates, RunStates,
      FindingStatus, LlmVerdict, Days

\* Every step keeps the types.
LEMMA TypeStep == Inv /\ [Next]_vars => TypeOK'
  <1> SUFFICES ASSUME Inv, [Next]_vars
               PROVE  TypeOK'
    OBVIOUS
  <1> USE DEF Inv, TypeOK
  <1>1. ASSUME NEW s \in RunStates, Settle(s) PROVE TypeOK'
    BY <1>1 DEF Settle
  <1>2. CASE BaselineOverwritten
    BY <1>2 DEF BaselineOverwritten, BaselineStates
  <1>3. CASE NextDay
    BY <1>3, CalendarAssumption DEF NextDay, Days
  <1>4. ASSUME NEW f \in Findings, NEW e \in Days, AddWaiver(f, e) PROVE TypeOK'
    BY <1>4 DEF AddWaiver
  <1>5. ASSUME NEW f \in Findings, NEW s \in HumanStatuses, HumanPatch(f, s) PROVE TypeOK'
    BY <1>5, HumanAssumption DEF HumanPatch
  <1>6. ASSUME NEW t \in Triagers, TriageStart(t) PROVE TypeOK'
    BY <1>6 DEF TriageStart
  <1>7. ASSUME NEW t \in Triagers, NEW f \in Findings, NEW v \in Verdicts, TriageVerdict(t, f, v)
        PROVE  TypeOK'
    <2>1. v \in LlmVerdict
      BY VerdictsAssumption
    <2>2. VerdictStatus(f, v, newStatus[t][f]) \in FindingStatus \cup {"none"}
      BY DEF VerdictStatus, FindingStatus
    <2>3. newStatus' \in [Triagers -> [Findings -> FindingStatus \cup {"none"}]]
      BY <1>7, <2>2 DEF TriageVerdict
    <2>4. newVerdict' \in [Triagers -> [Findings -> LlmVerdict \cup {"none"}]]
      BY <1>7, <2>1 DEF TriageVerdict
    <2>5. todo' \in [Triagers -> SUBSET Findings]
      BY <1>7 DEF TriageVerdict
    <2>6. QED
      BY <1>7, <2>3, <2>4, <2>5 DEF TriageVerdict
  <1>8. ASSUME NEW t \in Triagers, TriageCommit(t) PROVE TypeOK'
    <2>1. newStatus[t] \in [Findings -> FindingStatus]
      BY <1>8 DEF TriageCommit, SessionInv
    <2>2. newVerdict[t] \in [Findings -> LlmVerdict \cup {"none"}]
      OBVIOUS
    <2>3. /\ Flush(seenStatus[t], newStatus[t], status) \in [Findings -> FindingStatus]
          /\ Flush(seenVerdict[t], newVerdict[t], verdict) \in [Findings -> LlmVerdict \cup {"none"}]
      BY <2>1, <2>2 DEF Flush
    <2>4. QED
      BY <1>8, <2>3 DEF TriageCommit, FreeTriager, Untouched
  <1>9. ASSUME NEW t \in Triagers, TriageAbort(t) PROVE TypeOK'
    BY <1>9 DEF TriageAbort, FreeTriager, Untouched
  <1>10. CASE UNCHANGED vars
    BY <1>10
  <1>11. QED
    BY <1>1, <1>2, <1>3, <1>4, <1>5, <1>6, <1>7, <1>8, <1>9, <1>10 DEF Next, TriageStep

\* What a session may hold, against every step of itself and of the others.
LEMMA SessionStep == Inv /\ [Next]_vars => SessionInv'
  <1> SUFFICES ASSUME Inv, [Next]_vars
               PROVE  SessionInv'
    OBVIOUS
  <1> USE DEF Inv, TypeOK, SessionInv
  <1>1. CASE UNCHANGED sessionVars
    BY <1>1
  <1>2. ASSUME NEW t \in Triagers, TriageStart(t) PROVE SessionInv'
    BY <1>2 DEF TriageStart
  <1>3. ASSUME NEW t \in Triagers, NEW f \in Findings, NEW v \in Verdicts, TriageVerdict(t, f, v)
        PROVE  SessionInv'
    <2> DEFINE s == newStatus[t][f]
               x == VerdictStatus(f, v, s)
    <2>1. s \in FindingStatus => x \in FindingStatus
      BY DEF VerdictStatus, FindingStatus
    <2>2. Rank[f] <= 1 /\ x = "false_positive" => s = "false_positive"
      BY RankType DEF VerdictStatus
    <2>3. triaging' = triaging /\ seenStatus' = seenStatus
      BY <1>3 DEF TriageVerdict
    <2>4. newStatus' = [newStatus EXCEPT ![t][f] = x]
      BY <1>3 DEF TriageVerdict
    <2> HIDE DEF x
    <2>5. ASSUME NEW u \in triaging
          PROVE  /\ newStatus'[u] \in [Findings -> FindingStatus]
                 /\ \A g \in Findings : Rank[g] <= 1 /\ newStatus'[u][g] = "false_positive"
                       => seenStatus[u][g] = "false_positive"
      <3>1. CASE u = t
        BY <2>1, <2>2, <2>4, <3>1
      <3>2. CASE u # t
        BY <2>4, <3>2
      <3>3. QED
        BY <3>1, <3>2
    <2>6. QED
      BY <2>3, <2>5
  <1>4. ASSUME NEW t \in Triagers, FreeTriager(t) PROVE SessionInv'
    BY <1>4 DEF FreeTriager
  <1>5. QED
    BY <1>1, <1>2, <1>3, <1>4
    DEF Next, TriageStep, Settle, BaselineOverwritten, NextDay, AddWaiver, HumanPatch,
        TriageCommit, TriageAbort

\* The floor, against a session that loaded its rows before a person spoke.
LEMMA FloorStep == Inv /\ [Next]_vars => FloorHolds'
  <1> SUFFICES ASSUME Inv, [Next]_vars
               PROVE  FloorHolds'
    OBVIOUS
  <1> USE DEF Inv, TypeOK, FloorHolds
  <1>1. CASE UNCHANGED <<status, audit>>
    BY <1>1
  <1>2. ASSUME NEW f \in Findings, NEW s \in HumanStatuses, HumanPatch(f, s) PROVE FloorHolds'
    BY <1>2 DEF HumanPatch
  <1>3. ASSUME NEW t \in Triagers, TriageCommit(t) PROVE FloorHolds'
    <2>1. \A f \in Findings : Rank[f] <= 1 /\ status'[f] = "false_positive"
                                => status[f] = "false_positive"
      BY <1>3 DEF TriageCommit, Flush, SessionInv
    <2>2. audit' = audit
      BY <1>3 DEF TriageCommit
    <2>3. QED
      BY <2>1, <2>2
  <1>4. QED
    BY <1>1, <1>2, <1>3
    DEF Next, TriageStep, Settle, BaselineOverwritten, NextDay, AddWaiver,
        TriageStart, TriageVerdict, TriageAbort

\* The inductive invariant holds in every reachable state.
THEOREM Invariance == Spec => []Inv
  <1>1. Inv /\ [Next]_vars => Inv'
    BY TypeStep, SessionStep, FloorStep DEF Inv
  <1>2. QED
    BY InitInv, <1>1, PTL DEF Spec

\* Every variable keeps its type, however triage, people and time interleave.
THEOREM TypeCorrect == Spec => []TypeOK
  BY Invariance, PTL DEF Inv

\* ADR-0012: however triage requests interleave with people, a critical or
\* high finding reads false_positive only while a person says so.
THEOREM Floor == Spec => []FloorHolds
  BY Invariance, PTL DEF Inv

-----------------------------------------------------------------------------
(* The gate *)

\* ADR-0018: an incomplete or failed scan never passes a policy that does not
\* ask for it, whatever was found, waived or inherited.
THEOREM IncompleteScans == Spec => []IncompleteNeverPasses
  <1>1. TypeOK => IncompleteNeverPasses
    BY PolicyType DEF Policy, IncompleteNeverPasses, Decision, Gate, Evaluate, Decide
  <1>2. QED
    BY <1>1, TypeCorrect, PTL

\* gate.py's "safe direction": what passes with no baseline passes with any.
THEOREM UnknownBaseline == Spec => []UnknownBaselineIsSafest
  <1>1. ASSUME TypeOK PROVE UnknownBaselineIsSafest
    <2> SUFFICES ASSUME NEW B \in SUBSET Findings, Gate(policy, {}, waivers) = "pass"
                 PROVE  Gate(policy, B, waivers) = "pass"
      BY DEF UnknownBaselineIsSafest
    <2>1. Found(policy, Judged(policy, B), waivers, today)
             => Found(policy, Judged(policy, {}), waivers, today)
      <3>1. policy \in Policy /\ {} \subseteq B
        BY <1>1, PolicyType
      <3>2. today \in Days /\ today <= today
        BY <1>1, CalendarAssumption DEF TypeOK, Days
      <3>3. QED
        BY <1>1, <3>1, <3>2, FoundFalls
    <2>2. QED
      BY <2>1 DEF Gate, Evaluate, Decide
  <1>2. QED
    BY <1>1, TypeCorrect, PTL

\* A clause-by-clause stricter policy, over the same rows, judges all that the
\* laxer one judges and finds at least the violations it finds.
LEMMA FoundStrict ==
    ASSUME NEW p \in Policy, NEW q \in Policy, AtLeastAsStrict(q, p), NEW B, NEW d,
           Found(p, Judged(p, B), NoWaivers, d)
    PROVE  Found(q, Judged(q, B), NoWaivers, d)
  <1> DEFINE L == Judged(p, B)
             M == Judged(q, B)
  <1>1. L \subseteq M /\ M \in SUBSET Findings
    BY DEF AtLeastAsStrict, Judged, Live, Actionable, Open, Dismissed, Policy
  <1>2. \A f \in Findings : Blocks(p, f) => Blocks(q, f)
    <2>1. p.floor \in Int /\ q.floor \in Int
      BY DEF Policy, Ranks, NoFloor
    <2>2. p.floor # NoFloor => p.floor \in 0 .. 4
      BY DEF Policy, Ranks
    <2>3. QED
      BY <2>1, <2>2, RankType DEF AtLeastAsStrict, Blocks, NoFloor
  <1>3. \A f \in Findings : ~HasWaiver(NoWaivers, f)
    BY DEF HasWaiver, NoWaivers
  <1> HIDE DEF L, M
  <1>4. CASE Blocking(q, M) # {}
    <2>1. PICK f \in Blocking(q, M) : TRUE
      BY <1>4
    <2>2. f \in NotWaived(q, M, NoWaivers)
      BY <1>1, <1>3, <2>1 DEF NotWaived, Blocking
    <2>3. QED
      BY <2>2 DEF Found, M
  <1>5. CASE Blocking(q, M) = {}
    <2>1. Blocking(p, L) = {} /\ Considered(p, L) = L /\ Considered(q, M) = M
      BY <1>1, <1>2, <1>5 DEF Blocking, Considered
    <2>2. PICK s \in OverBudget(p, L) : TRUE
      BY <2>1 DEF Found, NotWaived, WaiverExpired, L
    <2>3. s \in Ranks /\ p.budget[s] # Unlimited /\ Cardinality(OfSeverity(L, s)) > p.budget[s]
      BY <2>1, <2>2 DEF OverBudget
    <2>4. /\ q.budget[s] # Unlimited /\ q.budget[s] <= p.budget[s]
          /\ q.budget[s] \in Int /\ p.budget[s] \in Int
      BY <2>3 DEF AtLeastAsStrict, Policy, Unlimited
    <2>5. Cardinality(OfSeverity(M, s)) > q.budget[s]
      BY <1>1, <2>3, <2>4, BudgetGrows
    <2>6. s \in OverBudget(q, M)
      BY <2>1, <2>3, <2>4, <2>5 DEF OverBudget
    <2>7. QED
      BY <2>6 DEF Found, M
  <1>6. QED
    BY <1>4, <1>5

\* Re-gating the same rows under a stricter policy never turns a refusal into a
\* pass, for any two policies the repository may hold.
THEOREM Stricter == Spec => []StricterNeverOpens
  <1>1. ASSUME TypeOK PROVE StricterNeverOpens
    <2> SUFFICES ASSUME NEW q \in Policies, AtLeastAsStrict(q, policy),
                        Gate(q, BaselineIds, NoWaivers) = "pass"
                 PROVE  Gate(policy, BaselineIds, NoWaivers) = "pass"
      BY DEF StricterNeverOpens
    <2>1. policy \in Policy /\ q \in Policy
      BY <1>1, PolicyType, PoliciesAssumption
    <2>2. Found(policy, Judged(policy, BaselineIds), NoWaivers, today)
             => Found(q, Judged(q, BaselineIds), NoWaivers, today)
      BY <2>1, FoundStrict
    <2>3. q.onDegraded = "pass" => policy.onDegraded = "pass"
      BY <2>1 DEF AtLeastAsStrict, Policy, PostureRank
    <2>4. q.onDegraded \in {"fail", "warn", "pass"} /\ policy.onDegraded \in {"fail", "warn", "pass"}
      BY <2>1 DEF Policy
    <2>5. Found(policy, {}, NoWaivers, today) => Found(q, {}, NoWaivers, today)
      <3>1. ASSUME NEW s \in OverBudget(policy, {}) PROVE s \in OverBudget(q, {})
        <4>1. Considered(policy, {}) = {} /\ Considered(q, {}) = {}
          BY DEF Considered
        <4>2. /\ s \in Ranks /\ policy.budget[s] \in Int /\ q.budget[s] \in Int
              /\ q.budget[s] # Unlimited /\ q.budget[s] <= policy.budget[s]
              /\ Cardinality(OfSeverity({}, s)) > policy.budget[s]
          BY <2>1, <3>1, <4>1 DEF OverBudget, AtLeastAsStrict, Policy, Unlimited
        <4>3. Cardinality(OfSeverity({}, s)) > q.budget[s]
          BY <4>2, BudgetGrows
        <4>4. QED
          BY <4>1, <4>2, <4>3 DEF OverBudget
      <3>2. QED
        BY <3>1 DEF Found, NotWaived, WaiverExpired, Blocking
    <2>6. QED
      BY <2>2, <2>3, <2>4, <2>5 DEF Gate, Evaluate, Decide
  <1>2. QED
    BY <1>1, TypeCorrect, PTL

\* The gate does not open by itself: while nobody writes a row or a waiver, an
\* expiring waiver or a lost baseline never turns an answer into a pass.
THEOREM NoDrift == Spec => NothingOpensByItself
  <1>1. ASSUME Inv, Inv', [Next]_vars,
               UNCHANGED <<run, status, verdict, waivers>>, Decision' = "pass"
        PROVE  Decision = "pass"
    <2>1. policy' = policy /\ policy \in Policy
      BY <1>1, PolicyType
      DEF Inv, Next, TriageStep, Settle, BaselineOverwritten, NextDay, AddWaiver, HumanPatch,
          TriageStart, TriageVerdict, TriageCommit, TriageAbort, FreeTriager
    <2>2. today \in Days /\ today' \in Days /\ today <= today'
      BY <1>1, CalendarAssumption
      DEF Inv, TypeOK, Days, Next, TriageStep, Settle, BaselineOverwritten, NextDay, AddWaiver,
          HumanPatch, TriageStart, TriageVerdict, TriageCommit, TriageAbort, FreeTriager
    <2>3. BaselineIds' \subseteq BaselineIds
      BY <1>1
      DEF BaselineIds, Next, TriageStep, Settle, BaselineOverwritten, NextDay, AddWaiver,
          HumanPatch, TriageStart, TriageVerdict, TriageCommit, TriageAbort, FreeTriager
    <2>4. Judged(policy, BaselineIds') = Judged(policy, BaselineIds)'
      BY <1>1, <2>1 DEF Judged, Open, Dismissed
    <2>5. Found(policy, Judged(policy, BaselineIds), waivers, today)
            => Found(policy, Judged(policy, BaselineIds'), waivers, today')
      BY <1>1, <2>1, <2>2, <2>3, FoundFalls DEF Inv
    <2>6. Found(policy, Judged(policy, BaselineIds), waivers, today)
            => Found(policy, Judged(policy, BaselineIds), waivers, today)'
      <3>1. Found(policy, Judged(policy, BaselineIds), waivers, today)'
              = Found(policy', Judged(policy, BaselineIds)', waivers', today')
        BY DEF Found, NotWaived, WaiverExpired, OverBudget, Blocking, Blocks, HasWaiver,
               IsExpired, Considered
      <3>2. QED
        BY <1>1, <2>1, <2>4, <2>5, <3>1
    <2>7. Found(policy, {}, waivers, today) => Found(policy, {}, waivers, today)'
      <3>1. waivers \in [Findings -> Days \cup {NoWaiver}]
        BY <1>1 DEF Inv, TypeOK
      <3>2. Found(policy, {}, waivers, today) => Found(policy, {}, waivers, today')
        BY <2>1, <2>2, <3>1, FoundGrows
      <3>3. Found(policy, {}, waivers, today)' = Found(policy', {}, waivers', today')
        BY DEF Found, NotWaived, WaiverExpired, OverBudget, Blocking, Blocks, HasWaiver,
               IsExpired, Considered
      <3>4. QED
        BY <1>1, <2>1, <3>2, <3>3
    <2>8. QED
      BY <1>1, <2>1, <2>6, <2>7 DEF Decision, Gate, Evaluate, Decide
  <1>2. Inv /\ Inv' /\ [Next]_vars => [UNCHANGED <<run, status, verdict, waivers>>
            /\ Decision # "pass" => Decision' # "pass"]_vars
    BY <1>1
  <1>3. QED
    BY <1>2, Invariance, PTL DEF Spec, NothingOpensByItself

\* waive.py: what `bare waive` has just written is honoured without a warning.
THEOREM WaiversHonoured == Spec => WrittenWaiversAreAccepted
  <1>1. ASSUME TypeOK, [Next]_vars
        PROVE  [\A f \in Findings :
                   ~HasWaiver(waivers, f) /\ HasWaiver(waivers', f) =>
                       /\ ~IsExpired(waivers', f, today')
                       /\ ~ExceedsTtl(policy, waivers', f, today')]_vars
    <2>1. ASSUME NEW f \in Findings, NEW e \in Days, AddWaiver(f, e)
          PROVE  \A g \in Findings :
                   ~HasWaiver(waivers, g) /\ HasWaiver(waivers', g) =>
                       /\ ~IsExpired(waivers', g, today')
                       /\ ~ExceedsTtl(policy, waivers', g, today')
      <3>1. /\ today \in Int /\ e \in Int /\ policy.maxDays \in Int
            /\ today' = today /\ e >= today /\ e - today <= policy.maxDays
        BY <1>1, <2>1, PolicyType, CalendarAssumption
        DEF TypeOK, AddWaiver, BuildWaiver, Days, Policy
      <3>2. \A g \in Findings : waivers'[g] = IF g = f THEN e ELSE waivers[g]
        BY <1>1, <2>1 DEF TypeOK, AddWaiver
      <3>3. QED
        BY <3>1, <3>2 DEF HasWaiver, IsExpired, ExceedsTtl
    <2>2. CASE UNCHANGED waivers
      BY <2>2 DEF HasWaiver
    <2>3. QED
      BY <1>1, <2>1, <2>2
      DEF Next, TriageStep, Settle, BaselineOverwritten, NextDay, HumanPatch,
          TriageStart, TriageVerdict, TriageCommit, TriageAbort, FreeTriager
  <1>2. QED
    BY <1>1, TypeCorrect, PTL DEF Spec, WrittenWaiversAreAccepted
=============================================================================
