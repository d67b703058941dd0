------------------------------- MODULE LlmJobs -------------------------------
(***************************************************************************)
(* The advisory jobs of the language models, beside a configuration that   *)
(* changes under them: resolving a provider, probing it, and the calls of  *)
(* an investigation, which is a loop the model drives, or of the roles     *)
(* that make a single call (explain, summarize, discover).                 *)
(*                                                                         *)
(* A job takes its provider from one reading of the file and, if it is an  *)
(* investigation, the redaction from a second.  It runs within one session *)
(* of the database, so that all it has to tell is committed at its end:    *)
(* the calls it made, and of the finding's columns those that differ from  *)
(* what the job loaded.  Of a prompt is kept what it may hold in the clear *)
(* beside masked values.                                                   *)
(***************************************************************************)
EXTENDS LlmSettings

CONSTANTS
    Jobs,           \* the advisory jobs
    Retaining,      \* jobs over a run with retain_plaintext
    MaxSteps,       \* MAX_STEPS of an investigation
    Blank           \* an empty conclusion

ASSUME JobsAssumption == Blank \notin Jobs
ASSUME MaxStepsAssumption == MaxSteps \in Nat \ {0}

VARIABLES
    job,        \* what each job is at, its role, its provider and the policy it was
                \* built under
    plaintext,  \* the jobs whose tools mask nothing
    held,       \* what the next prompt of each job may hold in the clear
    asked,      \* the prompts each job has sent
    calls,      \* the LlmCall rows each job has in its session
    onRecord,   \* those that are committed
    advice,     \* the finding's conclusion and transcript, by the job they are from
    loaded      \* the conclusion each job found there

jobVars == <<job, plaintext, held, asked, calls, onRecord, advice, loaded>>
vars == <<settingsVars, jobVars>>

Roles == {"investigate", "explain", "discover"}     \* summarize goes as explain does
Ended == {"over", "raised", "dead"}
Inactive == {"idle"} \cup Ended
JobAt(phase, role, p, egress) ==
    [phase |-> phase, role |-> role, provider |-> p, egress |-> egress]
Investigates(j) == job[j].role = "investigate"

Init ==
    /\ SettingsInit
    /\ job = [j \in Jobs |-> JobAt("idle", "explain", Nobody, "deny")]
    /\ plaintext = {}
    /\ held = [j \in Jobs |-> {}]
    /\ asked = [j \in Jobs |-> 0]
    /\ calls = [j \in Jobs |-> 0]
    /\ onRecord = [j \in Jobs |-> 0]
    /\ advice = [conclusion |-> Blank, steps |-> Blank]
    /\ loaded = [j \in Jobs |-> Blank]

Go(j, phase) ==
    job' = [job EXCEPT ![j] = JobAt(phase, job[j].role, job[j].provider, job[j].egress)]

\* The job is over, and its provider, its tools and its prompt with it.
Leave(j, phase, role) ==
    /\ job' = [job EXCEPT ![j] = JobAt(phase, role, Nobody, "deny")]
    /\ plaintext' = plaintext \ {j}
    /\ held' = [held EXCEPT ![j] = {}]
End(j, phase) == Leave(j, phase, "explain")

-----------------------------------------------------------------------------
(* Resolving the provider *)

\* _llm_provider: the file loads, the layer is on, the role is routed, and
\* build_provider does not refuse.
Resolve(j) ==
    /\ job[j].phase = "idle"
    /\ \E d \in Readable, role \in Roles :
        /\ Loads(d) /\ d.enabled /\ d.role \in d.providers
        /\ MayCall(d.role, d.egress)
        /\ job' = [job EXCEPT ![j] = JobAt("probing", role, d.role, d.egress)]
    /\ UNCHANGED <<settingsVars, plaintext, held, asked, calls, onRecord, advice, loaded>>

\* Anything else is an answer to the caller and no exception, but for a file
\* that does not parse.
Refused(j) ==
    /\ job[j].phase = "idle"
    /\ written = "whole" => ~(Loads(file) /\ file.enabled /\ file.role \in file.providers)
    /\ End(j, "over")
    /\ UNCHANGED <<settingsVars, asked, calls, onRecord, advice, loaded>>

\* health and warm
Healthy(j) ==
    /\ job[j].phase = "probing"
    /\ Go(j, "ready")
    /\ UNCHANGED <<settingsVars, plaintext, held, asked, calls, onRecord, advice, loaded>>

Unhealthy(j) ==
    /\ job[j].phase = "probing"
    /\ End(j, "over")
    /\ UNCHANGED <<settingsVars, asked, calls, onRecord, advice, loaded>>

-----------------------------------------------------------------------------
(* Opening the session *)

\* Mutant: where the provider is does not matter.
AllowPlaintextAnywhere(j, d) == j \in Retaining /\ d.redaction # "strict"

\* investigate_finding_task's allow_plaintext.
AllowPlaintext(j, d) ==
    /\ j \in Retaining
    /\ KnownLocal(job[j].provider)
    /\ d.redaction # "strict"

\* Whatever the redaction, a sample of unmatched strings is only cut short, and a
\* finding's context has only the finding's own value masked.
Opening(role) == IF role = "discover" THEN {"residue"} ELSE {"context"}

\* An investigation reads the file again; the others have no use for it.
Begin(j) ==
    /\ job[j].phase = "ready"
    /\ \/ ~Investigates(j) /\ UNCHANGED plaintext
       \/ \E d \in Readable :
            /\ Investigates(j) /\ Loads(d)
            /\ plaintext' = IF AllowPlaintext(j, d) THEN plaintext \cup {j} ELSE plaintext
    /\ held' = [held EXCEPT ![j] = Opening(job[j].role)]
    /\ loaded' = [loaded EXCEPT ![j] = advice.conclusion]
    /\ Go(j, "open")
    /\ UNCHANGED <<settingsVars, asked, calls, onRecord, advice>>

\* There is nothing to ask about, no such finding or no unmatched string, or the
\* second load_config of an investigation raises.
BeginFails(j) ==
    /\ job[j].phase = "ready"
    /\ End(j, "over")
    /\ UNCHANGED <<settingsVars, asked, calls, onRecord, advice, loaded>>

-----------------------------------------------------------------------------
(* The calls *)

Limit(j) == IF Investigates(j) THEN MaxSteps ELSE 1

\* provider.complete, past its own check of the policy.
Ask(j) ==
    /\ job[j].phase = "open" /\ MayCall(job[j].provider, job[j].egress)
    /\ asked' = [asked EXCEPT ![j] = @ + 1]
    /\ Go(j, "asking")
    /\ UNCHANGED <<settingsVars, plaintext, held, calls, onRecord, advice, loaded>>

Record(j) == calls' = [calls EXCEPT ![j] = @ + 1]

\* Mutant: a call that failed is not kept.
CallFailsSilently(j) ==
    /\ job[j].phase = "asking"
    /\ Go(j, "failed")
    /\ UNCHANGED <<settingsVars, plaintext, held, asked, calls, onRecord, advice, loaded>>

\* Mutant: a call that failed is made again.
CallFailsForNow(j) ==
    /\ job[j].phase = "asking"
    /\ asked' = [asked EXCEPT ![j] = @ - 1]
    /\ Go(j, "open")
    /\ UNCHANGED <<settingsVars, plaintext, held, calls, onRecord, advice, loaded>>

\* The call raises or times out: it is kept with its error, and the job ends.
CallFails(j) ==
    /\ job[j].phase = "asking"
    /\ Record(j)
    /\ Go(j, "failed")
    /\ UNCHANGED <<settingsVars, plaintext, held, asked, onRecord, advice, loaded>>

\* The answer is what the role wants: a conclusion, prose, proposals.
Concludes(j) ==
    /\ job[j].phase = "asking"
    /\ Record(j)
    /\ Go(j, "concluded")
    /\ UNCHANGED <<settingsVars, plaintext, held, asked, onRecord, advice, loaded>>

\* Nothing but reasoning, or nothing a single call can use.
Useless(j) ==
    /\ job[j].phase = "asking"
    /\ Record(j)
    /\ Go(j, "failed")
    /\ UNCHANGED <<settingsVars, plaintext, held, asked, onRecord, advice, loaded>>

\* A proposal that is no record, or whose confidence is no number: discover_rules
\* raises, and the call is not even added to the session.
Malformed(j) ==
    /\ job[j].phase = "asking" /\ job[j].role = "discover"
    /\ Leave(j, "raised", "discover")
    /\ UNCHANGED <<settingsVars, asked, calls, onRecord, advice, loaded>>

\* What a tool shows in the clear: read_bytes and the preview of decode come in
\* pieces that the masking does not know for a secret, other text as allowed.
Shown(j) == {{}, {"window"}} \cup (IF j \in plaintext THEN {{"text"}} ELSE {})

\* An investigation goes on after a tool's result or error, a repeated call that
\* is not made again, or an answer that does not parse, until it is out of steps.
GoesOn(j) ==
    /\ job[j].phase = "asking" /\ Investigates(j)
    /\ Record(j)
    /\ \E shown \in Shown(j) : held' = [held EXCEPT ![j] = @ \cup shown]
    /\ Go(j, IF asked[j] < Limit(j) THEN "open" ELSE "failed")
    /\ UNCHANGED <<settingsVars, plaintext, asked, onRecord, advice, loaded>>

-----------------------------------------------------------------------------
(* The end *)

\* A conclusion may be an empty one.
Conclusions(j) == IF job[j].phase = "concluded" THEN {j, Blank} ELSE {Blank}

\* The values a column may have then: the session writes it only if the new value
\* is not the one it loaded, and texts of two jobs may be equal.
Stored(new, old, now) ==
    IF new = Blank /\ old = Blank THEN {now}
    ELSE IF new = Blank \/ old = Blank THEN {new} ELSE {new, now}

\* The session commits the calls and, of an investigation, the transcript and
\* what it concluded.
Commit(j) ==
    /\ job[j].phase \in {"concluded", "failed"}
    /\ onRecord' = [onRecord EXCEPT ![j] = calls[j]]
    /\ \/ ~Investigates(j) /\ UNCHANGED advice
       \/ /\ Investigates(j)
          /\ \E new \in Conclusions(j) :
             \E conclusion \in Stored(new, loaded[j], advice.conclusion) :
             \E steps \in {j, advice.steps} :
                 advice' = [conclusion |-> conclusion, steps |-> steps]
    /\ End(j, "over")
    /\ UNCHANGED <<settingsVars, asked, calls, loaded>>

\* The process dies, or the session does: nothing of the job is kept.
Dies(j) ==
    /\ job[j].phase \notin Inactive
    /\ End(j, "dead")
    /\ UNCHANGED <<settingsVars, asked, calls, onRecord, advice, loaded>>

-----------------------------------------------------------------------------
Answer(j) == CallFails(j) \/ Concludes(j) \/ Useless(j) \/ GoesOn(j) \/ Malformed(j)
JobStep(j) ==
    \/ Healthy(j) \/ Unhealthy(j) \/ Begin(j) \/ BeginFails(j)
    \/ Ask(j) \/ Answer(j) \/ Commit(j)

Next ==
    \/ SettingsNext /\ UNCHANGED jobVars
    \/ \E j \in Jobs : Resolve(j) \/ Refused(j) \/ JobStep(j) \/ Dies(j)

Spec == Init /\ [][Next]_vars

(***************************************************************************)
(* Fairness: a job that was begun goes on, and each of its calls comes to  *)
(* an end because it has a timeout.                                        *)
(***************************************************************************)
FairSpec == Spec /\ \A j \in Jobs : WF_vars(JobStep(j))

-----------------------------------------------------------------------------
JobType == [phase : {"idle", "probing", "ready", "open", "asking", "concluded", "failed",
                     "over", "raised", "dead"},
            role : Roles, provider : Providers \cup {Nobody}, egress : {"allow", "deny"}]

TypeOK ==
    /\ SettingsTypeOK
    /\ job \in [Jobs -> JobType]
    /\ \A j \in Jobs :
           job[j].phase \notin Inactive => job[j].provider \in Providers
    /\ plaintext \subseteq Jobs
    /\ held \in [Jobs -> SUBSET {"context", "residue", "window", "text"}]
    /\ asked \in [Jobs -> Nat] /\ calls \in [Jobs -> Nat] /\ onRecord \in [Jobs -> Nat]
    /\ advice \in [conclusion : Jobs \cup {Blank}, steps : Jobs \cup {Blank}]
    /\ loaded \in [Jobs -> Jobs \cup {Blank}]

\* The providers that requests are out to: probes and prompts of jobs ...
Prompted == {job[j].provider : j \in {i \in Jobs : job[i].phase \in {"probing", "asking"}}}
\* ... and the probes of the settings page.
Probed ==
    {console[c].provider : c \in {b \in Consoles : console[b].phase = "probing"}}
    \cup UNION {Surveyed(c) : c \in {b \in Consoles : console[b].phase = "surveying"}}

\* Whenever the file is written and by whom, nothing leaves an air-gapped network
\* but through a provider the code cannot tell from a local one: no job, no probe
\* of a new provider, no survey of a configuration that is switched off and was
\* never validated.  Elsewhere a job calls another remote provider only if the
\* configuration it was resolved from allows it.
NothingLeaves ==
    /\ airGapped => (Prompted \cup Probed) \cap Remote \subseteq Unaccountable
    /\ \A j \in Jobs :
           job[j].phase \in {"probing", "asking"} /\ job[j].provider \in Remote \ Unaccountable
           => job[j].egress = "allow"

\* Beside a finding's context, a sample of unmatched strings, windows of bytes and
\* previews, which go wherever prompts go, nothing is in the clear in a prompt to
\* a remote provider the code can tell; the text of tools is nowhere but for a run
\* that retained it, after somebody has edited the redaction by hand, although
\* provider and redaction are read from the file at different times.
PlaintextStaysHome ==
    \A j \in Jobs :
        job[j].phase = "asking" /\ "text" \in held[j]
        => job[j].provider \notin Remote \ Unaccountable /\ j \in Retaining /\ edits > 0

\* Every prompt of a job that came to its end has its LlmCall row, the failed call
\* and the answer that did not parse included, but for that of a discovery that a
\* malformed proposal ends; and what a finding shows of a model is from a job
\* whose calls are on record.  (Of an investigation's prompt the row has only the
\* last message.)
PromptsAreOnRecord ==
    /\ \A j \in Jobs :
           /\ job[j].phase = "over" => onRecord[j] = asked[j]
           /\ job[j].phase = "raised" => job[j].role = "discover" /\ asked[j] = onRecord[j] + 1
    /\ \A j \in {advice.conclusion, advice.steps} \ {Blank} :
           job[j].phase = "over" /\ onRecord[j] > 0

\* A job that was begun ends, whatever its provider and the model do.
JobsReturn == \A j \in Jobs : job[j].phase = "probing" ~> job[j].phase \in Ended
=============================================================================
