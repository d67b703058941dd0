---------------------------- MODULE LlmJobs_proofs ----------------------------
(***************************************************************************)
(* What holds of LlmJobs for any providers, settings requests, edits and   *)
(* jobs: where requests and what is in the bytes can go.                   *)
(***************************************************************************)
EXTENDS LlmJobs, TLAPS

\* A provider off the operator's network is taken for a local one only if its
\* vendor ignores a local URL or if an editor has declared it local.
LEMMA RemoteIsNotLocal ==
    ASSUME NEW p \in Remote, KnownLocal(p)
    PROVE  p \in UrlIgnored \cap LocalUrl \/ p \in ByHand
BY CatalogAssumption DEF KnownLocal

-----------------------------------------------------------------------------
(* Types *)

\* The empty document is one.
LEMMA EmptyIsDocument == EmptyDocument \in Documents
BY DEF EmptyDocument, Documents, Unrouted

\* What a load sees is a document.
LEMMA ReadsDocument ==
    ASSUME SettingsTypeOK, NEW d \in Readable
    PROVE  d \in Documents
BY EmptyIsDocument DEF Readable, SettingsTypeOK

\* States of requests are built from their parts.
LEMMA AtType ==
    ASSUME NEW p \in Providers \cup {Nobody}, NEW d \in Documents
    PROVE  \A phase \in {"idle", "answered", "surveying", "probing", "verified", "drafted",
                         "read", "writing"} : At(phase, p, d) \in StateType
BY DEF At, StateType

\* A turn of one request keeps the states of all.
LEMMA TurnType ==
    ASSUME SettingsTypeOK, NEW c \in Consoles, NEW s \in StateType, Turn(c, s),
           s.phase \in {"probing", "verified"} => s.provider \in Providers
    PROVE  /\ console' \in [Consoles -> StateType]
           /\ \A b \in Consoles :
                console'[b].phase \in {"probing", "verified"} => console'[b].provider \in Providers
BY DEF SettingsTypeOK, Turn

\* The settings keep their types.
LEMMA SettingsType == SettingsTypeOK /\ [SettingsNext]_settingsVars => SettingsTypeOK'
<1> SUFFICES ASSUME SettingsTypeOK, [SettingsNext]_settingsVars PROVE SettingsTypeOK' OBVIOUS
<1>e. Idle \in StateType /\ Answered \in StateType
    BY EmptyIsDocument, AtType DEF Idle, Answered
<1>i. Idle.phase = "idle" /\ Answered.phase = "answered" BY DEF Idle, Answered, At
<1>1. ASSUME NEW c \in Consoles, Survey(c) PROVE SettingsTypeOK'
    <2>1. PICK d \in Readable : Turn(c, At("surveying", Nobody, d)) BY <1>1 DEF Survey
    <2>2. d \in Documents BY ReadsDocument
    <2> DEFINE s == At("surveying", Nobody, d)
    <2>3. s \in StateType /\ s.phase = "surveying" BY <2>2, AtType DEF At
    <2> HIDE DEF s
    <2> QED BY <1>1, <2>1, <2>3, TurnType DEF Survey, SettingsTypeOK, s
<1>2. ASSUME NEW c \in Consoles, SurveyEnds(c) \/ ProbeFails(c) PROVE SettingsTypeOK'
    <2>1. Turn(c, Answered) BY <1>2 DEF SurveyEnds, ProbeFails
    <2> QED BY <1>2, <2>1, <1>e, <1>i, TurnType DEF SurveyEnds, ProbeFails, SettingsTypeOK
<1>3. ASSUME NEW c \in Consoles, NEW p \in Providers \ ByHand, Connect(c, p) PROVE SettingsTypeOK'
    <2> DEFINE s == At("probing", p, EmptyDocument)
    <2>1. s \in StateType /\ s.provider = p BY EmptyIsDocument, AtType DEF At
    <2>2. Turn(c, s) BY <1>3 DEF Connect
    <2> HIDE DEF s
    <2> QED BY <1>3, <2>1, <2>2, TurnType DEF Connect, SettingsTypeOK
<1>4. ASSUME NEW c \in Consoles, ProbeSucceeds(c) PROVE SettingsTypeOK'
    <2> DEFINE p == console[c].provider
               s == At("verified", p, EmptyDocument)
    <2>1. p \in Providers BY <1>4 DEF ProbeSucceeds, SettingsTypeOK
    <2>2. s \in StateType /\ s.provider = p BY <2>1, EmptyIsDocument, AtType DEF At
    <2>3. Turn(c, s) BY <1>4 DEF ProbeSucceeds
    <2> HIDE DEF s
    <2> QED BY <1>4, <2>1, <2>2, <2>3, TurnType DEF ProbeSucceeds, SettingsTypeOK
<1>5. ASSUME NEW c \in Consoles, ConnectDraft(c) PROVE SettingsTypeOK'
    <2> DEFINE p == console[c].provider
    <2>1. p \in Providers BY <1>5 DEF ConnectDraft, SettingsTypeOK
    <2>0. PICK d \in Readable : \E role \in {p, d.role} :
              Turn(c, At("drafted", Nobody,
                         [d EXCEPT !.enabled = TRUE, !.providers = @ \cup {p}, !.role = role,
                                   !.egress = ProbePolicy(p, d)]))
        BY <1>5 DEF ConnectDraft
    <2>2. PICK role \in {p, d.role} :
              Turn(c, At("drafted", Nobody,
                         [d EXCEPT !.enabled = TRUE, !.providers = @ \cup {p}, !.role = role,
                                   !.egress = ProbePolicy(p, d)]))
        BY <2>0
    <2> DEFINE e == [d EXCEPT !.enabled = TRUE, !.providers = @ \cup {p}, !.role = role,
                              !.egress = ProbePolicy(p, d)]
               s == At("drafted", Nobody, e)
    <2>3. d \in Documents BY ReadsDocument
    <2>4. e \in Documents BY <2>1, <2>2, <2>3 DEF Documents, ProbePolicy, Unrouted
    <2> HIDE DEF e
    <2>5. s \in StateType /\ s.phase = "drafted" BY <2>4, AtType DEF At
    <2>6. Turn(c, s) BY <2>2 DEF e
    <2> HIDE DEF s
    <2> QED BY <1>5, <2>5, <2>6, TurnType DEF ConnectDraft, SettingsTypeOK
<1>6. ASSUME NEW c \in Consoles, UpdateDraft(c) PROVE SettingsTypeOK'
    <2>0. PICK d \in Readable, enabled \in BOOLEAN : \E role \in d.providers \cup {d.role} :
              Turn(c, At("drafted", Nobody, [d EXCEPT !.enabled = enabled, !.role = role]))
        BY <1>6 DEF UpdateDraft
    <2>1. PICK role \in d.providers \cup {d.role} :
              Turn(c, At("drafted", Nobody, [d EXCEPT !.enabled = enabled, !.role = role]))
        BY <2>0
    <2> DEFINE e == [d EXCEPT !.enabled = enabled, !.role = role]
               s == At("drafted", Nobody, e)
    <2>2. d \in Documents BY ReadsDocument
    <2>3. e \in Documents BY <2>1, <2>2 DEF Documents
    <2> HIDE DEF e
    <2>4. s \in StateType /\ s.phase = "drafted" BY <2>3, AtType DEF At
    <2>5. Turn(c, s) BY <2>1 DEF e
    <2> HIDE DEF s
    <2> QED BY <1>6, <2>4, <2>5, TurnType DEF UpdateDraft, SettingsTypeOK
<1>7. ASSUME NEW c \in Consoles, WriteDraft(c) PROVE SettingsTypeOK'
    <2>1. console[c].draft \in Documents BY DEF SettingsTypeOK, StateType
    <2>2. file' \in Documents /\ written' \in {"missing", "torn", "whole", "mixed"}
        BY <1>7, <2>1 DEF WriteDraft, Replace, SettingsTypeOK
    <2>3. Turn(c, Answered) BY <1>7 DEF WriteDraft
    <2>4. backfill' \in [Loaders -> StateType]
        BY <1>7, <1>e DEF WriteDraft, Orphaned, SettingsTypeOK
    <2> QED BY <1>7, <2>2, <2>3, <2>4, <1>e, <1>i, TurnType DEF WriteDraft, SettingsTypeOK
<1>8. ASSUME NEW l \in Loaders, Seed(l) PROVE SettingsTypeOK'
    <2>1. At("read", Nobody, Packaged) \in StateType BY DocumentsAssumption, AtType
    <2> QED BY <1>8, <2>1 DEF Seed, GoOn, SettingsTypeOK
<1>9. ASSUME NEW l \in Loaders, BackfillRead(l) PROVE SettingsTypeOK'
    <2> DEFINE e == [file EXCEPT !.role = Packaged.role]
    <2>1. e \in Documents BY DocumentsAssumption DEF SettingsTypeOK, Documents
    <2> HIDE DEF e
    <2>2. At("read", Nobody, e) \in StateType BY <2>1, AtType
    <2> QED BY <1>9, <2>2 DEF BackfillRead, GoOn, SettingsTypeOK, e
<1>10. ASSUME NEW l \in Loaders, BackfillOpen(l) PROVE SettingsTypeOK'
    <2>1. backfill[l].draft \in Documents BY DEF SettingsTypeOK, StateType
    <2>2. At("writing", Nobody, backfill[l].draft) \in StateType BY <2>1, AtType
    <2> QED BY <1>10, <2>2 DEF BackfillOpen, GoOn, SettingsTypeOK
<1>11. ASSUME NEW l \in Loaders, BackfillWrite(l) PROVE SettingsTypeOK'
    <2>1. backfill[l].draft \in Documents BY DEF SettingsTypeOK, StateType
    <2> QED BY <1>11, <2>1, <1>e DEF BackfillWrite, GoOn, Replace, SettingsTypeOK
<1>12. ASSUME HandEdit PROVE SettingsTypeOK'
    <2>1. PICK policy \in HandPolicies, more \in SUBSET ByHand :
              file' = [file EXCEPT !.egress = policy.egress, !.redaction = policy.redaction,
                                   !.providers = @ \cup more]
        BY <1>12 DEF HandEdit
    <2>2. policy.egress \in {"allow", "deny"} /\ policy.redaction \in {"strict", "none"}
        BY HandPoliciesAssumption
    <2>3. file' \in Documents BY <2>1, <2>2, CatalogAssumption DEF SettingsTypeOK, Documents
    <2>4. edits' \in 0..MaxEdits BY <1>12, MaxEditsAssumption DEF HandEdit, SettingsTypeOK
    <2> QED BY <1>12, <2>3, <2>4 DEF HandEdit, SettingsTypeOK
<1>13. CASE UNCHANGED settingsVars BY <1>13 DEF settingsVars, SettingsTypeOK
<1> QED
    BY <1>1, <1>2, <1>3, <1>4, <1>5, <1>6, <1>7, <1>8, <1>9, <1>10, <1>11, <1>12, <1>13
    DEF SettingsNext, ConsoleStep, BackfillStep

\* What a move of a job gives, and what its end gives.
LEMMA GoType ==
    ASSUME job \in [Jobs -> JobType], NEW j \in Jobs,
           NEW phase \in {"idle", "probing", "ready", "open", "asking", "concluded", "failed",
                          "over", "raised", "dead"},
           Go(j, phase)
    PROVE  /\ job' \in [Jobs -> JobType]
           /\ job'[j] = JobAt(phase, job[j].role, job[j].provider, job[j].egress)
           /\ \A i \in Jobs : i # j => job'[i] = job[i]
<1>1. job[j] \in JobType OBVIOUS
<1>2. JobAt(phase, job[j].role, job[j].provider, job[j].egress) \in JobType
    BY <1>1 DEF JobAt, JobType
<1> QED BY <1>2 DEF Go

\* The end of a job.
LEMMA LeaveType ==
    ASSUME job \in [Jobs -> JobType], NEW j \in Jobs, NEW phase \in Ended, NEW role \in Roles,
           Leave(j, phase, role)
    PROVE  /\ job' \in [Jobs -> JobType]
           /\ job'[j].phase = phase /\ job'[j].role = role /\ job'[j].provider = Nobody
           /\ \A i \in Jobs : i # j => job'[i] = job[i]
           /\ plaintext' = plaintext \ {j} /\ held' = [held EXCEPT ![j] = {}]
<1>1. JobAt(phase, role, Nobody, "deny") \in JobType BY DEF JobAt, JobType, Ended
<1>2. /\ JobAt(phase, role, Nobody, "deny").phase = phase
      /\ JobAt(phase, role, Nobody, "deny").role = role
      /\ JobAt(phase, role, Nobody, "deny").provider = Nobody
    BY DEF JobAt
<1> QED BY <1>1, <1>2 DEF Leave

\* Every end of a job is one of these.
LEMMA EndIsLeave ==
    ASSUME NEW j, NEW phase \in {"over", "dead"}, End(j, phase)
    PROVE  phase \in Ended /\ "explain" \in Roles /\ Leave(j, phase, "explain")
BY DEF End, Ended, Roles

\* What a commit may leave in the finding's columns.
LEMMA CommitAdvice ==
    ASSUME advice \in [conclusion : Jobs \cup {Blank}, steps : Jobs \cup {Blank}],
           NEW j \in Jobs, Commit(j)
    PROVE  /\ advice' \in [conclusion : Jobs \cup {Blank}, steps : Jobs \cup {Blank}]
           /\ advice'.conclusion \in {advice.conclusion, j, Blank}
           /\ advice'.steps \in {advice.steps, j}
<1>1. CASE UNCHANGED advice BY <1>1
<1>2. ASSUME NEW new \in Conclusions(j), NEW conclusion \in Stored(new, loaded[j], advice.conclusion),
             NEW steps \in {j, advice.steps}, advice' = [conclusion |-> conclusion, steps |-> steps]
      PROVE  /\ advice' \in [conclusion : Jobs \cup {Blank}, steps : Jobs \cup {Blank}]
             /\ advice'.conclusion \in {advice.conclusion, j, Blank}
             /\ advice'.steps \in {advice.steps, j}
    <2>1. new \in {j, Blank} BY DEF Conclusions
    <2>2. conclusion \in {advice.conclusion, new} BY DEF Stored
    <2> QED BY <1>2, <2>1, <2>2
<1> QED BY <1>1, <1>2 DEF Commit

\* A step of the settings leaves the jobs alone, a step of a job the settings.
LEMMA JobsType ==
    ASSUME TypeOK, NEW j \in Jobs, Resolve(j) \/ Refused(j) \/ JobStep(j) \/ Dies(j)
    PROVE  TypeOK' /\ UNCHANGED settingsVars
<1>s. ASSUME UNCHANGED settingsVars PROVE SettingsTypeOK'
    BY <1>s DEF settingsVars, SettingsTypeOK, TypeOK
<1>t. job \in [Jobs -> JobType] BY DEF TypeOK
<1>1. ASSUME Resolve(j) PROVE TypeOK' /\ UNCHANGED settingsVars
    <2>1. PICK d \in Readable, role \in Roles :
              /\ d.role \in d.providers
              /\ job' = [job EXCEPT ![j] = JobAt("probing", role, d.role, d.egress)]
        BY <1>1 DEF Resolve
    <2>2. d \in Documents BY ReadsDocument DEF TypeOK
    <2>3. d.role \in Providers /\ d.egress \in {"allow", "deny"} BY <2>1, <2>2 DEF Documents
    <2>4. JobAt("probing", role, d.role, d.egress) \in JobType BY <2>3 DEF JobAt, JobType
    <2>5. JobAt("probing", role, d.role, d.egress).provider \in Providers BY <2>3 DEF JobAt
    <2> QED BY <1>1, <1>s, <2>1, <2>4, <2>5 DEF Resolve, TypeOK
<1>2. ASSUME NEW phase \in Ended, NEW role \in Roles, Leave(j, phase, role),
             UNCHANGED settingsVars, UNCHANGED <<asked, calls, onRecord, advice, loaded>>
      PROVE  TypeOK'
    BY <1>2, <1>s, <1>t, LeaveType DEF TypeOK, Inactive, Ended
<1>3. ASSUME Refused(j) \/ Unhealthy(j) \/ BeginFails(j) \/ Dies(j) \/ Malformed(j)
      PROVE  TypeOK' /\ UNCHANGED settingsVars
    <2>1. PICK phase \in Ended, role \in Roles : Leave(j, phase, role)
        BY <1>3 DEF Refused, Unhealthy, BeginFails, Dies, Malformed, End, Ended, Roles
    <2> QED BY <1>2, <1>3, <2>1 DEF Refused, Unhealthy, BeginFails, Dies, Malformed
<1>4. ASSUME NEW phase \in {"ready", "open", "asking", "concluded", "failed"}, Go(j, phase),
             job[j].phase \notin Inactive
      PROVE  /\ job' \in [Jobs -> JobType]
             /\ \A i \in Jobs : job'[i].phase \notin Inactive
                                => job'[i].provider \in Providers
    <2>0. job'[j] = JobAt(phase, job[j].role, job[j].provider, job[j].egress)
        BY <1>4, <1>t, GoType
    <2>1. job'[j].provider = job[j].provider BY <2>0 DEF JobAt
    <2> QED BY <1>4, <1>t, <2>1, GoType DEF TypeOK
<1>5. ASSUME Healthy(j) PROVE TypeOK' /\ UNCHANGED settingsVars
    <2>1. Go(j, "ready") /\ job[j].phase = "probing" BY <1>5 DEF Healthy
    <2> QED BY <1>4, <1>5, <1>s, <2>1 DEF Healthy, TypeOK, Inactive, Ended
<1>6. ASSUME Begin(j) PROVE TypeOK' /\ UNCHANGED settingsVars
    <2>1. Go(j, "open") /\ job[j].phase = "ready" BY <1>6 DEF Begin
    <2>2. plaintext' \subseteq Jobs BY <1>6 DEF Begin, TypeOK
    <2>3. loaded' \in [Jobs -> Jobs \cup {Blank}] BY <1>6 DEF Begin, TypeOK
    <2>4. Opening(job[j].role) \in SUBSET {"context", "residue", "window", "text"}
        BY DEF Opening
    <2>5. held' \in [Jobs -> SUBSET {"context", "residue", "window", "text"}]
        BY <1>6, <2>4 DEF Begin, TypeOK
    <2> QED BY <1>4, <1>6, <1>s, <2>1, <2>2, <2>3, <2>5 DEF Begin, TypeOK, Inactive, Ended
<1>7. ASSUME Ask(j) PROVE TypeOK' /\ UNCHANGED settingsVars
    <2>1. Go(j, "asking") /\ job[j].phase = "open" BY <1>7 DEF Ask
    <2>2. asked' \in [Jobs -> Nat] BY <1>7 DEF Ask, TypeOK
    <2> QED BY <1>4, <1>7, <1>s, <2>1, <2>2 DEF Ask, TypeOK, Inactive, Ended
<1>8. ASSUME CallFails(j) \/ Concludes(j) \/ Useless(j) \/ GoesOn(j)
      PROVE  TypeOK' /\ UNCHANGED settingsVars
    <2>1. job[j].phase = "asking" /\ Record(j)
          /\ UNCHANGED <<settingsVars, plaintext, asked, onRecord, advice, loaded>>
        BY <1>8 DEF CallFails, Concludes, Useless, GoesOn
    <2>2. PICK phase \in {"open", "concluded", "failed"} : Go(j, phase)
        BY <1>8 DEF CallFails, Concludes, Useless, GoesOn
    <2>3. calls' \in [Jobs -> Nat] BY <2>1 DEF Record, TypeOK
    <2>4. held' \in [Jobs -> SUBSET {"context", "residue", "window", "text"}]
        <3>1. CASE UNCHANGED held BY <3>1 DEF TypeOK
        <3>2. CASE GoesOn(j)
            <4>1. PICK shown \in Shown(j) : held' = [held EXCEPT ![j] = @ \cup shown]
                BY <3>2 DEF GoesOn
            <4>2. shown \in SUBSET {"context", "residue", "window", "text"} BY DEF Shown
            <4> QED BY <4>1, <4>2 DEF TypeOK
        <3> QED BY <1>8, <3>1, <3>2 DEF CallFails, Concludes, Useless
    <2> QED BY <1>4, <1>s, <2>1, <2>2, <2>3, <2>4 DEF TypeOK, Inactive, Ended
<1>9. ASSUME Commit(j) PROVE TypeOK' /\ UNCHANGED settingsVars
    <2>1. End(j, "over") BY <1>9 DEF Commit
    <2>2. onRecord' \in [Jobs -> Nat] BY <1>9 DEF Commit, TypeOK
    <2>4. advice' \in [conclusion : Jobs \cup {Blank}, steps : Jobs \cup {Blank}]
        BY <1>9, CommitAdvice DEF TypeOK
    <2>5. "over" \in Ended /\ "explain" \in Roles /\ Leave(j, "over", "explain")
        BY <2>1, EndIsLeave
    <2> QED BY <1>9, <1>s, <1>t, <2>2, <2>4, <2>5, LeaveType DEF Commit, TypeOK, Inactive, Ended
<1> QED BY <1>1, <1>3, <1>5, <1>6, <1>7, <1>8, <1>9 DEF JobStep, Answer

\* Every step keeps the types.
LEMMA TypeStep == TypeOK /\ [Next]_vars => TypeOK'
<1> SUFFICES ASSUME TypeOK, [Next]_vars PROVE TypeOK' OBVIOUS
<1>1. CASE SettingsNext /\ UNCHANGED jobVars
    BY <1>1, SettingsType DEF jobVars, TypeOK
<1>2. CASE UNCHANGED vars
    BY <1>2, SettingsType DEF vars, jobVars, TypeOK
<1> QED BY <1>1, <1>2, JobsType DEF Next

\* The settings, the jobs and their records are always of their types.
THEOREM TypeCorrect == Spec => []TypeOK
<1>1. Init => TypeOK
    <2> SUFFICES ASSUME Init PROVE TypeOK OBVIOUS
    <2>1. Idle \in StateType /\ Idle.phase = "idle"
        BY EmptyIsDocument, AtType DEF Idle, At
    <2>2. SettingsTypeOK
        BY <2>1, DocumentsAssumption, MaxEditsAssumption DEF Init, SettingsInit, SettingsTypeOK
    <2>3. JobAt("idle", "explain", Nobody, "deny") \in JobType
          /\ JobAt("idle", "explain", Nobody, "deny").phase = "idle"
        BY DEF JobAt, JobType, Roles
    <2> QED BY <2>2, <2>3 DEF Init, TypeOK, Inactive, Ended
<1> QED BY <1>1, TypeStep, PTL DEF Spec

-----------------------------------------------------------------------------
(* Where requests go *)

\* Every request that is out, and every job that may make one, was let through
\* by the check of the policy it was built under.
Checked ==
    /\ \A c \in Consoles :
           console[c].phase = "probing" => MayCall(console[c].provider, "allow")
    /\ \A j \in Jobs : job[j].phase \notin Inactive => MayCall(job[j].provider, job[j].egress)

\* What the policy lets through under its own egress it lets through under "allow".
LEMMA MayCallMonotone ==
    ASSUME NEW p, NEW e, MayCall(p, e)
    PROVE  MayCall(p, "allow")
BY DEF MayCall

\* The air gap is the environment's and does not change.
LEMMA AirGapStays == ASSUME TypeOK, [Next]_vars PROVE airGapped' = airGapped
<1>1. CASE SettingsNext
    BY <1>1 DEF SettingsNext, ConsoleStep, BackfillStep, Survey, SurveyEnds, Connect,
       ProbeSucceeds, ProbeFails, ConnectDraft, UpdateDraft, WriteDraft, Seed, BackfillRead,
       BackfillOpen, BackfillWrite, HandEdit
<1>2. CASE UNCHANGED vars BY <1>2 DEF vars, settingsVars
<1> QED BY <1>1, <1>2, JobsType DEF Next, settingsVars

\* Probes of new providers.
LEMMA ProbesChecked ==
    ASSUME TypeOK, [Next]_vars, Checked, NEW b \in Consoles, console'[b].phase = "probing"
    PROVE  MayCall(console'[b].provider, "allow")
<1>1. ASSUME NEW c \in Consoles, NEW s \in StateType, Turn(c, s), s.phase # "probing"
      PROVE  MayCall(console'[b].provider, "allow")
    BY <1>1 DEF Turn, Checked, TypeOK, SettingsTypeOK
<1>2. ASSUME UNCHANGED console PROVE MayCall(console'[b].provider, "allow")
    BY <1>2 DEF Checked
<1>3. ASSUME NEW c \in Consoles, NEW p \in Providers \ ByHand, Connect(c, p)
      PROVE  MayCall(console'[b].provider, "allow")
    <2>1. MayCall(p, "allow")
        <3>1. PICK d \in Readable : MayCall(p, ProbePolicy(p, d)) BY <1>3 DEF Connect
        <3> QED BY <3>1, MayCallMonotone
    <2> DEFINE s == At("probing", p, EmptyDocument)
    <2>2. s.provider = p BY DEF At
    <2>3. Turn(c, s) BY <1>3 DEF Connect
    <2> HIDE DEF s
    <2> QED BY <2>1, <2>2, <2>3 DEF Turn, Checked, TypeOK, SettingsTypeOK
<1>4. ASSUME NEW c \in Consoles,
             Survey(c) \/ SurveyEnds(c) \/ ProbeSucceeds(c) \/ ProbeFails(c)
             \/ ConnectDraft(c) \/ UpdateDraft(c) \/ WriteDraft(c)
      PROVE  MayCall(console'[b].provider, "allow")
    <2>1. \E phase, p, d : phase # "probing" /\ Turn(c, At(phase, p, d))
        BY <1>4 DEF Survey, SurveyEnds, ProbeSucceeds, ProbeFails, ConnectDraft, UpdateDraft,
           WriteDraft, Answered
    <2>2. PICK phase, p, d : phase # "probing" /\ Turn(c, At(phase, p, d)) BY <2>1
    <2> DEFINE s == At(phase, p, d)
    <2>3. s.phase # "probing" BY <2>2 DEF At
    <2>4. Turn(c, s) BY <2>2
    <2> HIDE DEF s
    <2> QED BY <2>3, <2>4 DEF Turn, Checked, TypeOK, SettingsTypeOK
<1>5. CASE (\E l \in Loaders : BackfillStep(l)) \/ HandEdit
    BY <1>2, <1>5 DEF BackfillStep, Seed, BackfillRead, BackfillOpen, BackfillWrite, HandEdit
<1>6. CASE \E j \in Jobs : Resolve(j) \/ Refused(j) \/ JobStep(j) \/ Dies(j)
    BY <1>2, <1>6, JobsType DEF settingsVars
<1>7. CASE UNCHANGED vars BY <1>2, <1>7 DEF vars, settingsVars
<1> QED BY <1>3, <1>4, <1>5, <1>6, <1>7 DEF Next, SettingsNext, ConsoleStep

\* A job keeps the provider and the policy it was resolved with.
LEMMA JobKeeps ==
    ASSUME TypeOK, NEW j \in Jobs, Refused(j) \/ JobStep(j) \/ Dies(j), NEW i \in Jobs,
           job'[i].phase \notin Inactive
    PROVE  /\ job[i].phase \notin Inactive
           /\ job'[i].provider = job[i].provider /\ job'[i].egress = job[i].egress
           /\ job'[i].role = job[i].role
<1>t. job \in [Jobs -> JobType] BY DEF TypeOK
<1>1. ASSUME NEW phase \in Ended, NEW role \in Roles, Leave(j, phase, role)
      PROVE  i # j /\ job'[i] = job[i]
    BY <1>1, <1>t, LeaveType DEF Inactive, Ended
<1>2. ASSUME NEW phase \in {"ready", "open", "asking", "concluded", "failed"}, Go(j, phase),
             job[j].phase \notin Inactive
      PROVE  /\ job[i].phase \notin Inactive
             /\ job'[i].provider = job[i].provider /\ job'[i].egress = job[i].egress
             /\ job'[i].role = job[i].role
    <2>1. job'[j] = JobAt(phase, job[j].role, job[j].provider, job[j].egress)
          /\ (i # j => job'[i] = job[i])
        BY <1>2, <1>t, GoType
    <2> QED BY <1>2, <2>1 DEF JobAt
<1>3. \/ \E phase \in Ended, role \in Roles : Leave(j, phase, role)
      \/ job[j].phase \notin Inactive
         /\ \E phase \in {"ready", "open", "asking", "concluded", "failed"} : Go(j, phase)
    BY DEF Refused, Dies, JobStep, Healthy, Unhealthy, Begin, BeginFails, Ask, Answer,
       CallFails, Concludes, Useless, GoesOn, Malformed, Commit, End, Inactive, Ended, Roles
<1> QED BY <1>1, <1>2, <1>3

\* Requests of jobs.
LEMMA JobsChecked ==
    ASSUME TypeOK, [Next]_vars, Checked, NEW i \in Jobs, job'[i].phase \notin Inactive
    PROVE  MayCall(job'[i].provider, job'[i].egress)
<1>1. ASSUME NEW j \in Jobs, Resolve(j) PROVE MayCall(job'[i].provider, job'[i].egress)
    <2>1. PICK d \in Readable, role \in Roles :
              /\ MayCall(d.role, d.egress)
              /\ job' = [job EXCEPT ![j] = JobAt("probing", role, d.role, d.egress)]
        BY <1>1 DEF Resolve
    <2> DEFINE s == JobAt("probing", role, d.role, d.egress)
    <2>2. s.provider = d.role /\ s.egress = d.egress BY DEF JobAt
    <2>3. job' = [job EXCEPT ![j] = s] BY <2>1
    <2> HIDE DEF s
    <2> QED BY <2>1, <2>2, <2>3 DEF Checked, TypeOK
<1>2. ASSUME NEW j \in Jobs, Refused(j) \/ JobStep(j) \/ Dies(j)
      PROVE  MayCall(job'[i].provider, job'[i].egress)
    BY <1>2, JobKeeps DEF Checked
<1>3. CASE UNCHANGED job BY <1>3 DEF Checked
<1> QED BY <1>1, <1>2, <1>3 DEF Next, vars, jobVars

\* Every step keeps every request checked.
LEMMA CheckedStep == TypeOK /\ Checked /\ [Next]_vars => Checked'
<1> SUFFICES ASSUME TypeOK, Checked, [Next]_vars PROVE Checked' OBVIOUS
<1>1. airGapped' = airGapped BY AirGapStays
<1>2. \A c \in Consoles : console'[c].phase = "probing" => MayCall(console'[c].provider, "allow")
    BY ProbesChecked
<1>3. \A j \in Jobs : job'[j].phase \notin Inactive => MayCall(job'[j].provider, job'[j].egress)
    BY JobsChecked
<1> QED BY <1>1, <1>2, <1>3 DEF Checked, MayCall, Inactive, Ended

-----------------------------------------------------------------------------
(* What nobody has edited *)

\* A document that nobody has edited asks for masked values, and its providers
\* are of the catalog.
Clean(d) == d.redaction = "strict" /\ d.providers \cap ByHand = {}

\* Until somebody edits the file, every copy of it that is about is such a one.
Untouched ==
    edits = 0 => /\ Clean(file)
                 /\ \A l \in Loaders : Clean(backfill[l].draft)
                 /\ \A c \in Consoles : Clean(console[c].draft) /\ console[c].provider \notin ByHand
                 /\ \A j \in Jobs : job[j].provider \notin ByHand

\* A load of an untouched file is clean.
LEMMA ReadsClean ==
    ASSUME SettingsTypeOK, Untouched, edits = 0, NEW d \in Readable
    PROVE  Clean(d)
BY DEF SettingsTypeOK, Untouched, Readable, EmptyDocument, Clean

\* Nobody is no provider somebody wrote.
LEMMA NobodyIsNotByHand == Nobody \notin ByHand
BY NobodyAssumption, CatalogAssumption

\* No request adds to a document what an editor would.
LEMMA ConsoleStaysClean ==
    ASSUME SettingsTypeOK, Untouched, edits = 0, NEW c \in Consoles, ConsoleStep(c)
    PROVE  /\ \A b \in Consoles : Clean(console'[b].draft) /\ console'[b].provider \notin ByHand
           /\ file' = file \/ file' = console[c].draft
           /\ \A l \in Loaders : backfill'[l] = backfill[l] \/ backfill'[l] = Idle
           /\ UNCHANGED edits
<1>e. Clean(EmptyDocument) BY DEF EmptyDocument, Clean
<1>n. Nobody \notin ByHand BY NobodyIsNotByHand
<1>u. /\ Clean(console[c].draft) /\ console[c].provider \notin ByHand
      /\ \A b \in Consoles : Clean(console[b].draft) /\ console[b].provider \notin ByHand
    BY DEF Untouched
<1>0. ASSUME NEW phase, NEW p, NEW d, p \notin ByHand, Clean(d), Turn(c, At(phase, p, d))
      PROVE  \A b \in Consoles : Clean(console'[b].draft) /\ console'[b].provider \notin ByHand
    <2> DEFINE s == At(phase, p, d)
    <2>1. s.draft = d /\ s.provider = p BY DEF At
    <2>2. Turn(c, s) BY <1>0
    <2> HIDE DEF s
    <2> QED BY <1>0, <1>u, <2>1, <2>2 DEF Turn, SettingsTypeOK
<1>1. CASE Survey(c)
    <2>1. PICK d \in Readable : Turn(c, At("surveying", Nobody, d)) BY <1>1 DEF Survey
    <2>2. Clean(d) BY ReadsClean
    <2> QED BY <1>0, <1>1, <1>n, <2>1, <2>2 DEF Survey
<1>2. CASE SurveyEnds(c) \/ ProbeFails(c) \/ ProbeSucceeds(c)
    <2>1. \E phase, p : p \notin ByHand /\ Turn(c, At(phase, p, EmptyDocument))
        BY <1>2, <1>n, <1>u DEF SurveyEnds, ProbeFails, ProbeSucceeds, Answered
    <2> QED BY <1>0, <1>2, <1>e, <2>1 DEF SurveyEnds, ProbeFails, ProbeSucceeds
<1>3. ASSUME NEW p \in Providers \ ByHand, Connect(c, p)
      PROVE  /\ \A b \in Consoles : Clean(console'[b].draft) /\ console'[b].provider \notin ByHand
             /\ UNCHANGED <<file, edits, backfill>>
    <2>1. Turn(c, At("probing", p, EmptyDocument)) BY <1>3 DEF Connect
    <2> QED BY <1>0, <1>3, <1>e, <2>1 DEF Connect
<1>4. CASE ConnectDraft(c)
    <2> DEFINE p == console[c].provider
    <2>0. PICK d \in Readable : \E role \in {p, d.role} :
              Turn(c, At("drafted", Nobody,
                         [d EXCEPT !.enabled = TRUE, !.providers = @ \cup {p}, !.role = role,
                                   !.egress = ProbePolicy(p, d)]))
        BY <1>4 DEF ConnectDraft
    <2>1. PICK role \in {p, d.role} :
              Turn(c, At("drafted", Nobody,
                         [d EXCEPT !.enabled = TRUE, !.providers = @ \cup {p}, !.role = role,
                                   !.egress = ProbePolicy(p, d)]))
        BY <2>0
    <2> DEFINE e == [d EXCEPT !.enabled = TRUE, !.providers = @ \cup {p}, !.role = role,
                              !.egress = ProbePolicy(p, d)]
    <2>3. Clean(d) /\ d \in Documents BY ReadsClean, ReadsDocument
    <2>4. e.redaction = d.redaction /\ e.providers = d.providers \cup {p} BY <2>3 DEF Documents
    <2>5. Turn(c, At("drafted", Nobody, e)) BY <2>1
    <2> HIDE DEF e
    <2>6. Clean(e) BY <1>u, <2>3, <2>4 DEF Clean
    <2> QED BY <1>0, <1>4, <1>n, <2>5, <2>6 DEF ConnectDraft
<1>5. CASE UpdateDraft(c)
    <2>0. PICK d \in Readable, enabled \in BOOLEAN : \E role \in d.providers \cup {d.role} :
              Turn(c, At("drafted", Nobody, [d EXCEPT !.enabled = enabled, !.role = role]))
        BY <1>5 DEF UpdateDraft
    <2>1. PICK role \in d.providers \cup {d.role} :
              Turn(c, At("drafted", Nobody, [d EXCEPT !.enabled = enabled, !.role = role]))
        BY <2>0
    <2> DEFINE e == [d EXCEPT !.enabled = enabled, !.role = role]
    <2>3. Clean(d) /\ d \in Documents BY ReadsClean, ReadsDocument
    <2>4. e.redaction = d.redaction /\ e.providers = d.providers BY <2>3 DEF Documents
    <2>5. Turn(c, At("drafted", Nobody, e)) BY <2>1
    <2> HIDE DEF e
    <2>6. Clean(e) BY <2>3, <2>4 DEF Clean
    <2> QED BY <1>0, <1>5, <1>n, <2>5, <2>6 DEF UpdateDraft
<1>6. CASE WriteDraft(c)
    <2>1. Turn(c, At("answered", Nobody, EmptyDocument)) BY <1>6 DEF WriteDraft, Answered
    <2>2. \A l \in Loaders : backfill'[l] = backfill[l] \/ backfill'[l] = Idle
        BY <1>6 DEF WriteDraft, Orphaned
    <2> QED BY <1>0, <1>6, <1>e, <1>n, <2>1, <2>2 DEF WriteDraft, Replace
<1> QED BY <1>1, <1>2, <1>3, <1>4, <1>5, <1>6 DEF ConsoleStep

\* Nor does a process that completes an old file.
LEMMA BackfillStaysClean ==
    ASSUME SettingsTypeOK, Untouched, edits = 0, NEW l \in Loaders, BackfillStep(l)
    PROVE  /\ \A k \in Loaders : Clean(backfill'[k].draft)
           /\ Clean(file') /\ UNCHANGED <<edits, console>>
<1>e. Clean(EmptyDocument) BY DEF EmptyDocument, Clean
<1>p. Clean(Packaged) BY DocumentsAssumption DEF Clean
<1>u. Clean(file) /\ \A k \in Loaders : Clean(backfill[k].draft) BY DEF Untouched
<1>0. ASSUME NEW phase, NEW d, Clean(d), GoOn(l, At(phase, Nobody, d))
      PROVE  \A k \in Loaders : Clean(backfill'[k].draft)
    <2> DEFINE s == At(phase, Nobody, d)
    <2>1. s.draft = d BY DEF At
    <2>2. GoOn(l, s) BY <1>0
    <2> HIDE DEF s
    <2> QED BY <1>0, <1>u, <2>1, <2>2 DEF GoOn, SettingsTypeOK
<1>1. CASE Seed(l) BY <1>0, <1>1, <1>p, <1>u DEF Seed
<1>2. CASE BackfillRead(l)
    <2> DEFINE e == [file EXCEPT !.role = Packaged.role]
    <2>1. e.redaction = file.redaction /\ e.providers = file.providers
        BY DEF SettingsTypeOK, Documents
    <2>2. GoOn(l, At("read", Nobody, e)) BY <1>2 DEF BackfillRead
    <2> HIDE DEF e
    <2>3. Clean(e) BY <1>u, <2>1 DEF Clean
    <2> QED BY <1>0, <1>2, <1>u, <2>2, <2>3 DEF BackfillRead
<1>3. CASE BackfillOpen(l) BY <1>0, <1>3, <1>u DEF BackfillOpen
<1>4. CASE BackfillWrite(l)
    <2>1. GoOn(l, At("idle", Nobody, EmptyDocument)) BY <1>4 DEF BackfillWrite, Idle
    <2>2. file' = file \/ file' = backfill[l].draft BY <1>4 DEF BackfillWrite, Replace
    <2>3. Clean(file') BY <1>u, <2>2
    <2>4. UNCHANGED <<edits, console>> BY <1>4 DEF BackfillWrite
    <2> QED BY <1>0, <1>e, <2>1, <2>3, <2>4
<1> QED BY <1>1, <1>2, <1>3, <1>4 DEF BackfillStep

\* A job has its provider from the file.
LEMMA JobsStayClean ==
    ASSUME TypeOK, Untouched, edits = 0, NEW j \in Jobs,
           Resolve(j) \/ Refused(j) \/ JobStep(j) \/ Dies(j)
    PROVE  \A i \in Jobs : job'[i].provider \notin ByHand
<1>t. job \in [Jobs -> JobType] BY DEF TypeOK
<1>u. \A i \in Jobs : job[i].provider \notin ByHand BY DEF Untouched
<1>1. CASE Resolve(j)
    <2>1. PICK d \in Readable, role \in Roles :
              /\ d.role \in d.providers
              /\ job' = [job EXCEPT ![j] = JobAt("probing", role, d.role, d.egress)]
        BY <1>1 DEF Resolve
    <2>2. Clean(d) BY ReadsClean DEF TypeOK
    <2> DEFINE s == JobAt("probing", role, d.role, d.egress)
    <2>3. s.provider = d.role BY DEF JobAt
    <2>4. job' = [job EXCEPT ![j] = s] BY <2>1
    <2> HIDE DEF s
    <2>5. s.provider \notin ByHand BY <2>1, <2>2, <2>3 DEF Clean
    <2> QED BY <1>t, <1>u, <2>4, <2>5
<1>2. ASSUME NEW phase \in Ended, NEW role \in Roles, Leave(j, phase, role)
      PROVE  \A i \in Jobs : job'[i].provider \notin ByHand
    BY <1>2, <1>t, <1>u, LeaveType, NobodyIsNotByHand
<1>3. ASSUME NEW phase \in {"ready", "open", "asking", "concluded", "failed"}, Go(j, phase)
      PROVE  \A i \in Jobs : job'[i].provider \notin ByHand
    <2>1. job'[j] = JobAt(phase, job[j].role, job[j].provider, job[j].egress)
          /\ \A i \in Jobs : i # j => job'[i] = job[i]
        BY <1>3, <1>t, GoType
    <2>2. job'[j].provider = job[j].provider BY <2>1 DEF JobAt
    <2> QED BY <1>u, <2>1, <2>2
<1>4. \/ \E phase \in Ended, role \in Roles : Leave(j, phase, role)
      \/ \E phase \in {"ready", "open", "asking", "concluded", "failed"} : Go(j, phase)
      \/ Resolve(j)
    BY DEF Refused, Dies, JobStep, Healthy, Unhealthy, Begin, BeginFails, Ask, Answer,
       CallFails, Concludes, Useless, GoesOn, Malformed, Commit, End, Ended, Roles
<1> QED BY <1>1, <1>2, <1>3, <1>4

\* No step but an edit by hand makes a copy that is not clean.
LEMMA UntouchedStep == TypeOK /\ Untouched /\ [Next]_vars => Untouched'
<1> SUFFICES ASSUME TypeOK, Untouched, [Next]_vars, edits' = 0 PROVE Untouched'
    BY DEF Untouched
<1>t. SettingsTypeOK BY DEF TypeOK
<1>i. Clean(Idle.draft) BY DEF Idle, At, EmptyDocument, Clean
<1>1. ASSUME NEW c \in Consoles, ConsoleStep(c), UNCHANGED job PROVE Untouched'
    <2>0. edits = 0
        BY <1>1 DEF ConsoleStep, Survey, SurveyEnds, Connect, ProbeSucceeds, ProbeFails,
           ConnectDraft, UpdateDraft, WriteDraft
    <2>1. /\ \A b \in Consoles : Clean(console'[b].draft) /\ console'[b].provider \notin ByHand
          /\ file' = file \/ file' = console[c].draft
          /\ \A l \in Loaders : backfill'[l] = backfill[l] \/ backfill'[l] = Idle
        BY <1>1, <1>t, <2>0, ConsoleStaysClean
    <2>2. Clean(file') BY <2>0, <2>1 DEF Untouched
    <2>3. \A l \in Loaders : Clean(backfill'[l].draft) BY <1>i, <2>0, <2>1 DEF Untouched
    <2> QED BY <1>1, <2>0, <2>1, <2>2, <2>3 DEF Untouched, Clean
<1>2. ASSUME NEW l \in Loaders, BackfillStep(l), UNCHANGED job PROVE Untouched'
    <2>0. edits = 0
        BY <1>2 DEF BackfillStep, Seed, BackfillRead, BackfillOpen, BackfillWrite
    <2>1. /\ \A k \in Loaders : Clean(backfill'[k].draft)
          /\ Clean(file') /\ UNCHANGED console
        BY <1>2, <1>t, <2>0, BackfillStaysClean
    <2> QED BY <1>2, <2>0, <2>1 DEF Untouched, Clean
<1>3. CASE HandEdit BY <1>3, <1>t DEF HandEdit, SettingsTypeOK
<1>4. ASSUME NEW j \in Jobs, Resolve(j) \/ Refused(j) \/ JobStep(j) \/ Dies(j)
      PROVE  Untouched'
    <2>0. UNCHANGED settingsVars BY <1>4, JobsType
    <2>1. edits = 0 BY <2>0 DEF settingsVars
    <2>2. \A i \in Jobs : job'[i].provider \notin ByHand BY <1>4, <2>1, JobsStayClean
    <2> QED BY <2>0, <2>1, <2>2 DEF settingsVars, Untouched, Clean
<1>5. CASE UNCHANGED vars BY <1>5 DEF vars, settingsVars, jobVars, Untouched, Clean
<1> QED BY <1>1, <1>2, <1>3, <1>4, <1>5 DEF Next, SettingsNext, jobVars

\* In the first state nobody has edited anything.
LEMMA UntouchedFirst == Init => Untouched
BY DocumentsAssumption, NobodyIsNotByHand
DEF Init, SettingsInit, Untouched, Clean, Idle, At, JobAt, EmptyDocument

\* A provider that leaves and is called from an air-gapped network, or without
\* the leave of the policy, is one that cannot be told from a local one.
LEMMA LeavesUntold ==
    ASSUME NEW p \in Remote, NEW e, MayCall(p, e), airGapped \/ e # "allow",
           edits = 0 => p \notin ByHand, edits \in Nat
    PROVE  p \in Unaccountable
<1>1. KnownLocal(p) BY DEF MayCall
<1> QED BY <1>1, RemoteIsNotLocal DEF Unaccountable

\* Nothing leaves an air-gapped network but through a provider whose vendor
\* ignores a local URL or that somebody has declared local by hand; elsewhere a
\* job calls any other remote provider only if the configuration it was resolved
\* from allows it (EgressPolicyGuard, build_provider).
THEOREM NothingEverLeaves == Spec => []NothingLeaves
<1>1. Init => Checked
    BY DEF Init, SettingsInit, Checked, Idle, At, JobAt, Inactive, Ended
<1>2. TypeOK /\ Checked /\ Untouched => NothingLeaves
    <2> SUFFICES ASSUME TypeOK, Checked, Untouched PROVE NothingLeaves OBVIOUS
    <2>0. edits \in Nat BY MaxEditsAssumption DEF TypeOK, SettingsTypeOK
    <2>1. ASSUME NEW j \in Jobs, job[j].phase \in {"probing", "asking"},
                 job[j].provider \in Remote, airGapped \/ job[j].egress # "allow"
          PROVE  job[j].provider \in Unaccountable
        <3>1. MayCall(job[j].provider, job[j].egress) BY <2>1 DEF Checked, Inactive, Ended
        <3>2. edits = 0 => job[j].provider \notin ByHand BY DEF Untouched
        <3> QED BY <2>0, <2>1, <3>1, <3>2, LeavesUntold
    <2>2. ASSUME airGapped PROVE Prompted \cap Remote \subseteq Unaccountable
        BY <2>1, <2>2 DEF Prompted
    <2>3. ASSUME airGapped, NEW c \in Consoles PROVE Surveyed(c) \cap Remote \subseteq Unaccountable
        <3> SUFFICES ASSUME NEW p \in Surveyed(c), p \in Remote PROVE p \in Unaccountable OBVIOUS
        <3>1. p \in console[c].draft.providers /\ MayCall(p, console[c].draft.egress)
            BY DEF Surveyed
        <3>2. edits = 0 => p \notin ByHand BY <3>1 DEF Untouched, Clean
        <3> QED BY <2>0, <2>3, <3>1, <3>2, LeavesUntold
    <2>4. ASSUME airGapped, NEW c \in Consoles, console[c].phase = "probing",
                 console[c].provider \in Remote
          PROVE  console[c].provider \in Unaccountable
        <3>1. MayCall(console[c].provider, "allow") BY <2>4 DEF Checked
        <3>2. edits = 0 => console[c].provider \notin ByHand BY DEF Untouched
        <3> QED BY <2>0, <2>4, <3>1, <3>2, LeavesUntold
    <2>5. ASSUME airGapped PROVE Probed \cap Remote \subseteq Unaccountable
        BY <2>3, <2>4, <2>5 DEF Probed
    <2>6. ASSUME NEW j \in Jobs, job[j].phase \in {"probing", "asking"},
                 job[j].provider \in Remote \ Unaccountable
          PROVE  job[j].egress = "allow"
        BY <2>1, <2>6
    <2> QED BY <2>2, <2>5, <2>6 DEF NothingLeaves
<1>3. Spec => [](Checked /\ Untouched)
    <2>1. TypeOK /\ Checked /\ [Next]_vars => Checked' BY CheckedStep
    <2> QED BY <1>1, <2>1, UntouchedFirst, UntouchedStep, TypeCorrect, PTL DEF Spec
<1> QED BY <1>2, <1>3, TypeCorrect, PTL

-----------------------------------------------------------------------------
(* What is in the clear *)

\* Edits are counted up.
LEMMA EditsGrow == ASSUME TypeOK, [Next]_vars PROVE edits' \in Nat /\ edits' >= edits
<1>0. edits \in Nat BY MaxEditsAssumption DEF TypeOK, SettingsTypeOK
<1>1. CASE SettingsNext
    <2>1. edits' = edits \/ edits' = edits + 1
        BY <1>1 DEF SettingsNext, ConsoleStep, BackfillStep, Survey, SurveyEnds, Connect,
           ProbeSucceeds, ProbeFails, ConnectDraft, UpdateDraft, WriteDraft, Seed,
           BackfillRead, BackfillOpen, BackfillWrite, HandEdit
    <2> QED BY <1>0, <2>1
<1>2. CASE UNCHANGED vars BY <1>0, <1>2 DEF vars, settingsVars
<1>3. CASE \E j \in Jobs : Resolve(j) \/ Refused(j) \/ JobStep(j) \/ Dies(j)
    BY <1>0, <1>3, JobsType DEF settingsVars
<1> QED BY <1>1, <1>2, <1>3 DEF Next

\* The jobs that hold unmasked text or whose tools return it run with a provider
\* taken for local, over a run that retained it, after an edit.
AtHome(j) ==
    j \in plaintext \/ "text" \in held[j]
    => /\ job[j].phase \notin Inactive /\ KnownLocal(job[j].provider)
       /\ j \in Retaining /\ edits > 0
AllAtHome == \A j \in Jobs : AtHome(j)

\* No step takes unmasked text away from home.
LEMMA AtHomeStep == TypeOK /\ Untouched /\ AllAtHome /\ [Next]_vars => AllAtHome'
<1> SUFFICES ASSUME TypeOK, Untouched, AllAtHome, [Next]_vars, NEW i \in Jobs,
                    i \in plaintext' \/ "text" \in held'[i]
             PROVE  /\ job'[i].phase \notin Inactive /\ KnownLocal(job'[i].provider)
                    /\ i \in Retaining /\ edits' > 0
    BY DEF AllAtHome, AtHome, Inactive, Ended, KnownLocal
<1>t. job \in [Jobs -> JobType] /\ edits \in Nat
      /\ held \in [Jobs -> SUBSET {"context", "residue", "window", "text"}]
    BY MaxEditsAssumption DEF TypeOK, SettingsTypeOK
<1>h. i \in plaintext \/ "text" \in held[i]
      => /\ job[i].phase \notin Inactive /\ KnownLocal(job[i].provider)
         /\ i \in Retaining /\ edits > 0
    BY DEF AllAtHome, AtHome
<1>8. edits' >= edits /\ edits' \in Nat BY EditsGrow
<1>0. ASSUME UNCHANGED <<job, plaintext, held>>
      PROVE  /\ job'[i].phase \notin Inactive /\ KnownLocal(job'[i].provider)
             /\ i \in Retaining /\ edits' > 0
    BY <1>0, <1>8, <1>h, <1>t
<1>1. CASE UNCHANGED jobVars BY <1>0, <1>1 DEF jobVars
<1>2. ASSUME NEW j \in Jobs, Resolve(j) PROVE job'[i] = job[i] /\ (i \in plaintext \/ "text" \in held[i])
    BY <1>2, <1>h DEF Resolve, Inactive, Ended
<1>3. ASSUME NEW j \in Jobs, NEW phase \in Ended, NEW role \in Roles, Leave(j, phase, role)
      PROVE  job'[i] = job[i] /\ (i \in plaintext \/ "text" \in held[i])
    <2>1. /\ \A k \in Jobs : k # j => job'[k] = job[k]
          /\ plaintext' = plaintext \ {j} /\ held' = [held EXCEPT ![j] = {}]
        BY <1>3, <1>t, LeaveType
    <2> QED BY <1>t, <2>1
<1>4. ASSUME NEW j \in Jobs, job[i].phase \notin Inactive,
             \E phase \in {"ready", "open", "asking", "concluded", "failed"} : Go(j, phase)
      PROVE  job'[i].phase \notin Inactive /\ job'[i].provider = job[i].provider
    <2>1. PICK phase \in {"ready", "open", "asking", "concluded", "failed"} : Go(j, phase)
        BY <1>4
    <2>2. job'[j] = JobAt(phase, job[j].role, job[j].provider, job[j].egress)
          /\ \A b \in Jobs : b # j => job'[b] = job[b]
        BY <1>t, <2>1, GoType
    <2> QED BY <1>4, <2>2 DEF JobAt, Inactive, Ended
<1>5. ASSUME NEW j \in Jobs,
             Healthy(j) \/ Ask(j) \/ CallFails(j) \/ Concludes(j) \/ Useless(j) \/ GoesOn(j)
      PROVE  /\ i \in plaintext \/ "text" \in held[i]
             /\ job'[i].phase \notin Inactive /\ job'[i].provider = job[i].provider
    <2>1. plaintext' = plaintext
        BY <1>5 DEF Healthy, Ask, CallFails, Concludes, Useless, GoesOn
    <2>2. i \in plaintext \/ "text" \in held[i]
        <3>1. CASE UNCHANGED held BY <2>1, <3>1
        <3>2. CASE GoesOn(j)
            <4>1. PICK shown \in Shown(j) : held' = [held EXCEPT ![j] = @ \cup shown]
                BY <3>2 DEF GoesOn
            <4>2. "text" \in shown => j \in plaintext BY DEF Shown
            <4> QED BY <1>t, <2>1, <4>1, <4>2
        <3> QED BY <1>5, <3>1, <3>2 DEF Healthy, Ask, CallFails, Concludes, Useless
    <2>3. \E phase \in {"ready", "open", "asking", "concluded", "failed"} : Go(j, phase)
        BY <1>5 DEF Healthy, Ask, CallFails, Concludes, Useless, GoesOn
    <2> QED BY <1>4, <1>h, <2>2, <2>3
<1>6. ASSUME NEW j \in Jobs, Begin(j)
      PROVE  /\ job'[i].phase \notin Inactive /\ KnownLocal(job'[i].provider)
             /\ i \in Retaining /\ edits > 0
    <2>1. Go(j, "open") /\ job[j].phase = "ready" BY <1>6 DEF Begin
    <2>2. CASE i \in plaintext \/ "text" \in held[i] BY <1>4, <1>h, <2>1, <2>2
    <2>3. CASE i \notin plaintext /\ "text" \notin held[i]
        <3>0. held' = [held EXCEPT ![j] = Opening(job[j].role)] BY <1>6 DEF Begin
        <3>n. "text" \notin Opening(job[j].role) BY DEF Opening
        <3>p. i \in plaintext' BY <1>t, <2>3, <3>0, <3>n
        <3>1. PICK d \in Readable : AllowPlaintext(j, d) /\ i = j BY <1>6, <2>3, <3>p DEF Begin
        <3>2. j \in Retaining /\ KnownLocal(job[j].provider) /\ d.redaction # "strict"
            BY <3>1 DEF AllowPlaintext
        <3>3. edits # 0 BY <3>2, ReadsClean DEF TypeOK, Clean
        <3>4. job[j].phase \notin Inactive BY <2>1 DEF Inactive, Ended
        <3> QED BY <1>4, <1>t, <2>1, <3>1, <3>2, <3>3, <3>4
    <2> QED BY <2>2, <2>3
<1>7. ASSUME NEW j \in Jobs,
             Refused(j) \/ Unhealthy(j) \/ BeginFails(j) \/ Malformed(j) \/ Commit(j) \/ Dies(j)
      PROVE  job'[i] = job[i] /\ (i \in plaintext \/ "text" \in held[i])
    <2>1. PICK phase \in Ended, role \in Roles : Leave(j, phase, role)
        BY <1>7 DEF Refused, Unhealthy, BeginFails, Malformed, Commit, Dies, End, Ended, Roles
    <2> QED BY <1>3, <2>1
<1>9. ASSUME NEW j \in Jobs, Resolve(j) \/ Refused(j) \/ JobStep(j) \/ Dies(j)
      PROVE  /\ job'[i].phase \notin Inactive /\ KnownLocal(job'[i].provider)
             /\ i \in Retaining /\ edits' > 0
    BY <1>2, <1>5, <1>6, <1>7, <1>8, <1>9, <1>h, <1>t DEF JobStep, Answer
<1> QED BY <1>1, <1>9 DEF Next, vars

\* Beside what an opening prompt quotes and windows of bytes nothing is in the
\* clear in a prompt to a remote provider the code can tell, and the text of tools
\* is so only for a run that retained it, after an edit by hand of the redaction
\* (investigate_finding_task's allow_plaintext, ToolBox._emit).
THEOREM PlaintextAlwaysStaysHome == Spec => []PlaintextStaysHome
<1>1. Init => AllAtHome BY DEF Init, AllAtHome, AtHome
<1>2. TypeOK /\ AllAtHome => PlaintextStaysHome
    <2> SUFFICES ASSUME TypeOK, AllAtHome, NEW j \in Jobs, "text" \in held[j]
                 PROVE  /\ job[j].provider \notin Remote \ Unaccountable
                        /\ j \in Retaining /\ edits > 0
        BY DEF PlaintextStaysHome
    <2>1. KnownLocal(job[j].provider) /\ j \in Retaining /\ edits > 0 BY DEF AllAtHome, AtHome
    <2> QED BY <2>1, RemoteIsNotLocal DEF Unaccountable
<1>3. Spec => []Untouched
    BY UntouchedFirst, UntouchedStep, TypeCorrect, PTL DEF Spec
<1> QED BY <1>1, <1>2, <1>3, AtHomeStep, TypeCorrect, PTL DEF Spec

-----------------------------------------------------------------------------
(* Who can break the file *)

\* Until somebody edits it, the file loads if it is whole, and so does what the
\* processes that complete it will make of it.
Sound ==
    edits = 0 => /\ written = "whole" => Loads(file)
                 /\ \A l \in Loaders :
                        backfill[l].phase \in {"read", "writing"} => Loads(backfill[l].draft)

\* What the image ships loads, and so does what an earlier release left.
LEMMA ShippedLoads == ASSUME NEW d \in {Packaged, Found} PROVE Loads(d)
BY DocumentsAssumption, CatalogAssumption DEF Loads, MayCall, KnownLocal

\* No step but an edit by hand makes a file that does not load.
LEMMA SoundStep == TypeOK /\ Sound /\ [Next]_vars => Sound'
<1> SUFFICES ASSUME TypeOK, Sound, [Next]_vars, edits' = 0 PROVE Sound' BY DEF Sound
<1>a. airGapped' = airGapped BY AirGapStays
<1>t. SettingsTypeOK BY DEF TypeOK
<1>0. ASSUME UNCHANGED <<file, written, edits, backfill>> PROVE Sound'
    BY <1>0, <1>a DEF Sound, Loads, MayCall
<1>1. ASSUME NEW c \in Consoles, WriteDraft(c) PROVE Sound'
    <2>1. CASE Loads(console[c].draft)
        <3>1. file' = console[c].draft /\ backfill' = Orphaned /\ edits = 0
            BY <1>1, <2>1 DEF WriteDraft, Accepted, Replace
        <3>2. \A l \in Loaders : backfill'[l].phase \in {"read", "writing"}
                                 => backfill'[l] = backfill[l]
            BY <3>1 DEF Orphaned, Idle, At
        <3> QED BY <1>a, <2>1, <3>1, <3>2 DEF Sound, Loads, MayCall
    <2>2. CASE ~Loads(console[c].draft)
        BY <1>0, <1>1, <2>2 DEF WriteDraft, Accepted
    <2> QED BY <2>1, <2>2
\* A process takes up a draft that loads, or lets go of one.
<1>g. ASSUME NEW l \in Loaders, NEW phase, NEW d, GoOn(l, At(phase, Nobody, d)),
             phase \in {"read", "writing"} => Loads(d), edits = 0
      PROVE  \A k \in Loaders :
                 backfill'[k].phase \in {"read", "writing"} => Loads(backfill'[k].draft)
    <2> DEFINE s == At(phase, Nobody, d)
    <2>1. s.draft = d /\ s.phase = phase BY DEF At
    <2>2. GoOn(l, s) BY <1>g
    <2> HIDE DEF s
    <2>3. \A k \in Loaders : backfill'[k] = backfill[k] \/ backfill'[k] = s
        BY <1>t, <2>2 DEF GoOn, SettingsTypeOK
    <2> QED BY <1>g, <2>1, <2>3 DEF Sound
<1>s. ASSUME edits = 0, written' = "whole" => Loads(file'),
             \A k \in Loaders :
                 backfill'[k].phase \in {"read", "writing"} => Loads(backfill'[k].draft)
      PROVE  Sound'
    BY <1>a, <1>s DEF Sound, Loads, MayCall
<1>2. ASSUME NEW l \in Loaders, Seed(l) PROVE Sound'
    <2>1. /\ GoOn(l, At("read", Nobody, Packaged)) /\ written' = "missing" /\ edits = 0
        BY <1>2 DEF Seed
    <2>2. Loads(Packaged) BY ShippedLoads
    <2> QED BY <1>g, <1>s, <2>1, <2>2
<1>3. ASSUME NEW l \in Loaders, BackfillRead(l) PROVE Sound'
    <2> DEFINE e == [file EXCEPT !.role = Packaged.role]
    <2>1. Loads(file) /\ edits = 0 BY <1>3 DEF BackfillRead, Sound
    <2>2. /\ e.enabled = file.enabled /\ e.providers = file.providers
          /\ e.egress = file.egress /\ e.role = Packaged.role
        BY <1>t DEF SettingsTypeOK, Documents
    <2>3. e.role \in e.providers BY <1>3, <2>2 DEF BackfillRead
    <2> HIDE DEF e
    <2>4. Loads(e) BY <2>1, <2>2, <2>3 DEF Loads
    <2>5. GoOn(l, At("read", Nobody, e)) BY <1>3 DEF BackfillRead, e
    <2>6. UNCHANGED <<file, written, edits>> BY <1>3 DEF BackfillRead
    <2>7. Loads(file') BY <2>1, <2>6
    <2> QED BY <1>g, <1>s, <2>1, <2>4, <2>5, <2>7
<1>4. ASSUME NEW l \in Loaders, BackfillOpen(l) PROVE Sound'
    <2>1. edits = 0 /\ Loads(backfill[l].draft) BY <1>4 DEF BackfillOpen, Sound
    <2>2. GoOn(l, At("writing", Nobody, backfill[l].draft)) /\ written' = "torn"
        BY <1>4 DEF BackfillOpen
    <2> QED BY <1>g, <1>s, <2>1, <2>2
<1>5. ASSUME NEW l \in Loaders, BackfillWrite(l) PROVE Sound'
    <2>1. edits = 0 /\ Loads(backfill[l].draft) BY <1>5 DEF BackfillWrite, Sound
    <2>2. file' = backfill[l].draft \/ written' = "mixed" BY <1>5 DEF BackfillWrite, Replace
    <2>3. GoOn(l, At("idle", Nobody, EmptyDocument)) BY <1>5 DEF BackfillWrite, Idle
    <2> QED BY <1>g, <1>s, <2>1, <2>2, <2>3
<1>6. CASE HandEdit BY <1>6, <1>t DEF HandEdit, SettingsTypeOK
<1>7. ASSUME NEW c \in Consoles,
             \/ Survey(c) \/ SurveyEnds(c) \/ ProbeSucceeds(c) \/ ProbeFails(c)
             \/ ConnectDraft(c) \/ UpdateDraft(c) \/ \E p \in Providers \ ByHand : Connect(c, p)
      PROVE  Sound'
    BY <1>0, <1>7 DEF Survey, SurveyEnds, ProbeSucceeds, ProbeFails, ConnectDraft,
       UpdateDraft, Connect
<1>8. CASE \E j \in Jobs : Resolve(j) \/ Refused(j) \/ JobStep(j) \/ Dies(j)
    BY <1>0, <1>8, JobsType DEF settingsVars
<1>9. CASE UNCHANGED vars BY <1>0, <1>9 DEF vars, settingsVars
<1> QED BY <1>1, <1>2, <1>3, <1>4, <1>5, <1>6, <1>7, <1>8, <1>9
    DEF Next, SettingsNext, ConsoleStep, BackfillStep

\* However settings requests and the processes that complete an old file overtake
\* each other with what they read earlier, a file that is whole and does not load
\* was edited by hand (settings_writer.apply_update, ensure_runtime_config).
THEOREM OnlyHandsEverBreakIt == Spec => []OnlyHandsBreakIt
<1>1. Init => Sound
    <2>1. Loads(Found) BY ShippedLoads
    <2> QED BY <2>1 DEF Init, SettingsInit, Sound, Idle, At
<1>2. Sound => OnlyHandsBreakIt BY DEF Sound, OnlyHandsBreakIt
<1> QED BY <1>1, <1>2, SoundStep, TypeCorrect, PTL DEF Spec

-----------------------------------------------------------------------------
(* What is on record *)

\* How the prompts a job sent, the rows of its session and those that are
\* committed go together at each of its phases.
Kept(j) ==
    /\ job[j].phase \in {"idle", "probing", "ready"} => asked[j] = 0
    /\ job[j].phase = "asking" => asked[j] = calls[j] + 1
    /\ job[j].phase \notin {"asking"} \cup Ended => asked[j] = calls[j]
    /\ job[j].phase \in {"open", "asking"} /\ ~Investigates(j) => calls[j] = 0
    /\ job[j].phase = "raised" => job[j].role = "discover" /\ asked[j] = 1
    /\ job[j].phase \in {"concluded", "failed"} => calls[j] > 0
    /\ job[j].phase # "over" => onRecord[j] = 0
    /\ job[j].phase = "over" => onRecord[j] = asked[j]
AllKept == \A j \in Jobs : Kept(j)
Told ==
    \A j \in {advice.conclusion, advice.steps} \ {Blank} :
        job[j].phase = "over" /\ onRecord[j] > 0

\* The account of a call that was answered, or failed.
LEMMA AnswerKept ==
    ASSUME TypeOK, NEW j \in Jobs, Kept(j),
           CallFails(j) \/ Concludes(j) \/ Useless(j) \/ GoesOn(j)
    PROVE  /\ Kept(j)' /\ UNCHANGED <<asked, onRecord, advice>>
           /\ calls' = [calls EXCEPT ![j] = @ + 1]
           /\ \A i \in Jobs : i # j => job'[i] = job[i]
<1>t. /\ job \in [Jobs -> JobType]
      /\ asked \in [Jobs -> Nat] /\ calls \in [Jobs -> Nat] /\ onRecord \in [Jobs -> Nat]
    BY DEF TypeOK
<1>1. PICK phase \in {"open", "concluded", "failed"} :
          Go(j, phase) /\ (phase = "open" => Investigates(j))
    BY DEF CallFails, Concludes, Useless, GoesOn
<1>2. job[j].phase = "asking" /\ calls' = [calls EXCEPT ![j] = @ + 1]
      /\ UNCHANGED <<asked, onRecord, advice>>
    BY DEF CallFails, Concludes, Useless, GoesOn, Record
<1>3. job'[j] = JobAt(phase, job[j].role, job[j].provider, job[j].egress)
      /\ \A i \in Jobs : i # j => job'[i] = job[i]
    BY <1>t, <1>1, GoType
<1>4. job'[j].phase = phase /\ job'[j].role = job[j].role BY <1>3 DEF JobAt
<1>5. calls'[j] = calls[j] + 1 /\ asked'[j] = asked[j] /\ onRecord'[j] = onRecord[j]
    BY <1>t, <1>2
<1>6. /\ asked[j] = calls[j] + 1 /\ onRecord[j] = 0 /\ calls[j] \in Nat
      /\ phase = "open" => job[j].role = "investigate"
    BY <1>t, <1>1, <1>2 DEF Kept, Investigates
<1>7. Kept(j)' BY <1>4, <1>5, <1>6 DEF Kept, Investigates, Ended
<1> QED BY <1>2, <1>3, <1>7

\* A step of a job keeps its own account and leaves the others'.
LEMMA KeptStep ==
    ASSUME TypeOK, AllKept, NEW j \in Jobs,
           Resolve(j) \/ Refused(j) \/ JobStep(j) \/ Dies(j)
    PROVE  /\ AllKept'
           /\ \A i \in Jobs : job[i].phase = "over" =>
                  job'[i].phase = "over" /\ onRecord'[i] = onRecord[i]
           /\ \/ advice' = advice
              \/ /\ job'[j].phase = "over" /\ onRecord'[j] > 0
                 /\ advice'.conclusion \in {advice.conclusion, j, Blank}
                 /\ advice'.steps \in {advice.steps, j}
<1>t. /\ job \in [Jobs -> JobType]
      /\ asked \in [Jobs -> Nat] /\ calls \in [Jobs -> Nat] /\ onRecord \in [Jobs -> Nat]
    BY DEF TypeOK
<1>k. Kept(j) BY DEF AllKept
\* What is left to show of a step that touches the rows of j alone.
<1>o. ASSUME \A i \in Jobs : i # j =>
                 /\ job'[i] = job[i] /\ asked'[i] = asked[i]
                 /\ calls'[i] = calls[i] /\ onRecord'[i] = onRecord[i],
             Kept(j)'
      PROVE  AllKept'
    BY <1>o DEF AllKept, Kept, Investigates
<1>g. ASSUME NEW phase \in {"ready", "open", "asking", "concluded", "failed"}, Go(j, phase)
      PROVE  /\ job'[j].phase = phase /\ job'[j].role = job[j].role
             /\ \A i \in Jobs : i # j => job'[i] = job[i]
    <2>1. job'[j] = JobAt(phase, job[j].role, job[j].provider, job[j].egress)
          /\ \A i \in Jobs : i # j => job'[i] = job[i]
        BY <1>g, <1>t, GoType
    <2> QED BY <2>1 DEF JobAt
<1>e. ASSUME NEW phase \in Ended, NEW role \in Roles, Leave(j, phase, role)
      PROVE  /\ job'[j].phase = phase /\ job'[j].role = role
             /\ \A i \in Jobs : i # j => job'[i] = job[i]
    BY <1>e, <1>t, LeaveType
<1>f. ASSUME NEW phase \in {"over", "dead"}, End(j, phase)
      PROVE  job'[j].phase = phase /\ \A i \in Jobs : i # j => job'[i] = job[i]
    <2>1. phase \in Ended /\ "explain" \in Roles /\ Leave(j, phase, "explain")
        BY <1>f, EndIsLeave
    <2> QED BY <1>e, <2>1
<1>1. CASE Resolve(j)
    <2>1. PICK d \in Readable, role \in Roles :
              job' = [job EXCEPT ![j] = JobAt("probing", role, d.role, d.egress)]
        BY <1>1 DEF Resolve
    <2>2. job'[j].phase = "probing" /\ \A i \in Jobs : i # j => job'[i] = job[i]
        BY <1>t, <2>1 DEF JobAt
    <2>3. job[j].phase = "idle" /\ UNCHANGED <<asked, calls, onRecord, advice>>
        BY <1>1 DEF Resolve
    <2>4. Kept(j)' BY <1>k, <2>2, <2>3 DEF Kept, Ended
    <2> QED BY <1>o, <2>2, <2>3, <2>4
<1>2. CASE Refused(j) \/ Unhealthy(j) \/ BeginFails(j)
    <2>1. End(j, "over") /\ job[j].phase \in {"idle", "probing", "ready"}
          /\ UNCHANGED <<asked, calls, onRecord, advice>>
        BY <1>2 DEF Refused, Unhealthy, BeginFails
    <2>2. Kept(j)' BY <1>f, <1>k, <2>1 DEF Kept, Ended
    <2> QED BY <1>f, <1>o, <2>1, <2>2
<1>3. CASE Dies(j)
    <2>1. End(j, "dead") /\ job[j].phase \notin Inactive
          /\ UNCHANGED <<asked, calls, onRecord, advice>>
        BY <1>3 DEF Dies
    <2>2. job'[j].phase = "dead" /\ \A i \in Jobs : i # j => job'[i] = job[i] BY <1>f, <2>1
    <2>3. Kept(j)' BY <1>k, <2>1, <2>2 DEF Kept, Inactive, Ended
    <2>4. job[j].phase # "over" BY <2>1 DEF Inactive, Ended
    <2> QED BY <1>o, <2>1, <2>2, <2>3, <2>4
<1>4. CASE Healthy(j) \/ Begin(j)
    <2>1. PICK phase \in {"ready", "open"} : Go(j, phase)
        BY <1>4 DEF Healthy, Begin
    <2>2. job[j].phase \in {"probing", "ready"} /\ UNCHANGED <<asked, calls, onRecord, advice>>
        BY <1>4 DEF Healthy, Begin
    <2>3. Kept(j)' BY <1>g, <1>k, <2>1, <2>2 DEF Kept, Investigates, Ended
    <2> QED BY <1>g, <1>o, <2>1, <2>2, <2>3
<1>5. CASE Ask(j)
    <2>1. Go(j, "asking") /\ job[j].phase = "open" /\ asked' = [asked EXCEPT ![j] = @ + 1]
          /\ UNCHANGED <<calls, onRecord, advice>>
        BY <1>5 DEF Ask
    <2>2. Kept(j)' BY <1>g, <1>k, <1>t, <2>1 DEF Kept, Investigates, Ended
    <2> QED BY <1>g, <1>o, <1>t, <2>1, <2>2
<1>6. CASE CallFails(j) \/ Concludes(j) \/ Useless(j) \/ GoesOn(j)
    <2>1. /\ Kept(j)' /\ UNCHANGED <<asked, onRecord, advice>>
          /\ calls' = [calls EXCEPT ![j] = @ + 1]
          /\ \A i \in Jobs : i # j => job'[i] = job[i]
        BY <1>6, <1>k, AnswerKept
    <2>2. job[j].phase = "asking" BY <1>6 DEF CallFails, Concludes, Useless, GoesOn
    <2> QED BY <1>o, <1>t, <2>1, <2>2
<1>8. CASE Malformed(j)
    <2>1. Leave(j, "raised", "discover") /\ job[j].phase = "asking" /\ job[j].role = "discover"
          /\ UNCHANGED <<asked, calls, onRecord, advice>>
        BY <1>8 DEF Malformed
    <2>2. job'[j].phase = "raised" /\ job'[j].role = "discover"
          /\ \A i \in Jobs : i # j => job'[i] = job[i]
        BY <1>e, <2>1 DEF Ended, Roles
    <2>3. asked[j] = 1 /\ onRecord[j] = 0 BY <1>k, <1>t, <2>1 DEF Kept, Investigates
    <2>4. Kept(j)' BY <2>1, <2>2, <2>3 DEF Kept, Investigates, Ended
    <2> QED BY <1>o, <2>1, <2>2, <2>4
<1>7. CASE Commit(j)
    <2>1. End(j, "over") /\ job[j].phase \in {"concluded", "failed"}
          /\ onRecord' = [onRecord EXCEPT ![j] = calls[j]] /\ UNCHANGED <<asked, calls>>
        BY <1>7 DEF Commit
    <2>2. Kept(j)' BY <1>f, <1>k, <1>t, <2>1 DEF Kept, Ended
    <2>3. onRecord'[j] > 0 BY <1>k, <1>t, <2>1 DEF Kept
    <2>4. advice'.conclusion \in {advice.conclusion, j, Blank} /\ advice'.steps \in {advice.steps, j}
        BY <1>7, CommitAdvice DEF TypeOK
    <2> QED BY <1>f, <1>o, <1>t, <2>1, <2>2, <2>3, <2>4
<1> QED BY <1>1, <1>2, <1>3, <1>4, <1>5, <1>6, <1>7, <1>8 DEF JobStep, Answer

\* Every prompt of a job that came to its end is on record, but for that of a
\* discovery that a malformed proposal ends, and what a finding shows of a model
\* is from a job whose calls are on record (the LlmCall rows of
\* investigate_finding, explain_finding and discover_rules).
THEOREM PromptsAreAlwaysOnRecord == Spec => []PromptsAreOnRecord
<1>1. Init => AllKept /\ Told
    BY DEF Init, AllKept, Kept, Told, JobAt
<1>2. AllKept /\ Told => PromptsAreOnRecord
    BY DEF AllKept, Kept, Told, PromptsAreOnRecord
<1>3. TypeOK /\ AllKept /\ Told /\ [Next]_vars => (AllKept /\ Told)'
    <2> SUFFICES ASSUME TypeOK, AllKept, Told, [Next]_vars PROVE (AllKept /\ Told)' OBVIOUS
    <2>1. CASE UNCHANGED jobVars BY <2>1 DEF jobVars, AllKept, Kept, Investigates, Told
    <2>2. ASSUME NEW j \in Jobs, Resolve(j) \/ Refused(j) \/ JobStep(j) \/ Dies(j)
          PROVE  (AllKept /\ Told)'
        <3>1. AllKept' BY <2>2, KeptStep
        <3>2. \A i \in Jobs : job[i].phase = "over" =>
                  job'[i].phase = "over" /\ onRecord'[i] = onRecord[i]
            BY <2>2, KeptStep
        <3>3. \/ advice' = advice
              \/ /\ job'[j].phase = "over" /\ onRecord'[j] > 0
                 /\ advice'.conclusion \in {advice.conclusion, j, Blank}
                 /\ advice'.steps \in {advice.steps, j}
            BY <2>2, KeptStep
        <3>4. advice.conclusion \in Jobs \cup {Blank} /\ advice.steps \in Jobs \cup {Blank}
            BY DEF TypeOK
        <3>5. Told' BY <3>2, <3>3, <3>4 DEF Told
        <3> QED BY <3>1, <3>5
    <2> QED BY <2>1, <2>2 DEF Next, vars
<1> QED BY <1>1, <1>2, <1>3, TypeCorrect, PTL DEF Spec

=============================================================================
