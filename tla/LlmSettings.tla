----------------------------- MODULE LlmSettings -----------------------------
(***************************************************************************)
(* The configuration of the language models: one YAML file that everybody  *)
(* reads at each use and that the settings page, an editor and the upgrade *)
(* of an old deployment rewrite, each from a copy it has read before and   *)
(* none under a lock.                                                      *)
(*                                                                         *)
(* A provider is its entry of the catalog; what is kept of the rest of its *)
(* specification is where its requests go and how the code tells.  All the *)
(* roles are routed alike, so one of them stands for all.  Model names and *)
(* the store of API keys only decide whether a provider answers, which is  *)
(* left open here, and the allowlist of hosts is the empty one.            *)
(***************************************************************************)
EXTENDS Naturals, FiniteSets

CONSTANTS
    Providers,      \* the providers that may be defined
    Remote,         \* those whose requests leave the operator's network
    HasUrl,         \* those whose specification names a base_url
    LocalUrl,       \* those where its host counts as local
    UrlIgnored,     \* those whose vendor goes its own way whatever the base_url
    DeclaredLocal,  \* those whose specification says is_local
    ByHand,         \* those of no catalog: an editor has written them
    Packaged,       \* the document the image ships
    Found,          \* the document of an earlier release
    Consoles,       \* requests of the settings page
    Loaders,        \* processes that load the file
    HandPolicies,   \* the egress and redaction an editor may set
    MaxEdits,       \* bound on the edits by hand
    Nobody          \* no provider

Unrouted == Nobody
Documents == [enabled : BOOLEAN, providers : SUBSET Providers, role : Providers \cup {Unrouted},
              egress : {"allow", "deny"}, redaction : {"strict", "none"}]

\* A file that was truncated to be written again reads as an empty document.
EmptyDocument == [enabled |-> TRUE, providers |-> {}, role |-> Unrouted,
                  egress |-> "deny", redaction |-> "strict"]

\* A local URL that is used keeps requests at home, and what the catalog marks
\* is_local is a server that has a URL.  Nothing is assumed of a vendor that
\* ignores its URL, nor of an is_local that somebody wrote by hand.
ASSUME CatalogAssumption ==
    /\ Remote \subseteq Providers /\ ByHand \subseteq Providers /\ LocalUrl \subseteq HasUrl
    /\ Remote \cap LocalUrl \subseteq UrlIgnored
    /\ DeclaredLocal \cap Remote \subseteq HasUrl \cup ByHand
ASSUME NobodyAssumption == Nobody \notin Providers
ASSUME MaxEditsAssumption == MaxEdits \in Nat
ASSUME HandPoliciesAssumption ==
    HandPolicies \subseteq [egress : {"allow", "deny"}, redaction : {"strict", "none"}]
ASSUME DocumentsAssumption ==
    \A d \in {Packaged, Found} :
        d \in Documents /\ d.role \in d.providers \cup {Unrouted}
        /\ d.providers \subseteq (LocalUrl \cup (DeclaredLocal \ HasUrl)) \ ByHand
        /\ d.redaction = "strict"

VARIABLES
    airGapped,      \* settings.air_gapped, from the environment
    file,           \* the document in the file
    written,        \* whether the file is missing, torn, whole or a mixture of two
    edits,          \* how often it was edited by hand
    console,        \* what each request of the settings page is at
    backfill        \* what each process is at in ensure_runtime_config

settingsVars == <<airGapped, file, written, edits, console, backfill>>

-----------------------------------------------------------------------------
(* Where a provider is, and whether it may be called *)

\* Mutant: the declaration is believed although there is a URL to check.
KnownLocalAsDeclared(p) == p \in DeclaredLocal

\* build_provider's is_local_endpoint: the host of the URL where there is one,
\* whether or not the vendor will use it, else what the specification declares.
KnownLocal(p) == IF p \in HasUrl THEN p \in LocalUrl ELSE p \in DeclaredLocal

\* Mutant: the file's policy alone decides.
MayCallByPolicy(p, egress) == KnownLocal(p) \/ egress = "allow"

\* EgressPolicyGuard: check where there is a URL, check_remote_allowed where not.
MayCall(p, egress) == KnownLocal(p) \/ (~airGapped /\ egress = "allow")

\* load_config does not raise: nothing is asked of a configuration that is off.
Loads(d) ==
    d.enabled => /\ d.role \in d.providers \cup {Unrouted}
                 /\ \A p \in d.providers : MayCall(p, d.egress)

\* The documents a load may see; one of a torn file may also fail to parse, and
\* one of a mixture does.
Readable == CASE written = "whole" -> {file}
              [] written = "torn" -> {EmptyDocument}
              [] written \in {"missing", "mixed"} -> {}

-----------------------------------------------------------------------------
At(phase, p, d) == [phase |-> phase, provider |-> p, draft |-> d]
Idle == At("idle", Nobody, EmptyDocument)
Answered == At("answered", Nobody, EmptyDocument)

SettingsInit ==
    /\ airGapped \in BOOLEAN
    /\ file = Found
    /\ written \in {"missing", "whole"}
    /\ edits = 0
    /\ console = [c \in Consoles |-> Idle]
    /\ backfill = [l \in Loaders |-> Idle]

Turn(c, state) == console' = [console EXCEPT ![c] = state]
Replace(d) == file' = d /\ written' = "whole"

-----------------------------------------------------------------------------
(* GET /api/settings/llm: every provider is probed, also when the layer is off *)

Survey(c) ==
    /\ console[c].phase = "idle"
    /\ \E d \in Readable : Loads(d) /\ Turn(c, At("surveying", Nobody, d))
    /\ UNCHANGED <<airGapped, file, written, edits, backfill>>

SurveyEnds(c) ==
    /\ console[c].phase = "surveying"
    /\ Turn(c, Answered)
    /\ UNCHANGED <<airGapped, file, written, edits, backfill>>

\* The providers its probes reach: build_provider refuses the others.
Surveyed(c) == {p \in console[c].draft.providers : MayCall(p, console[c].draft.egress)}

-----------------------------------------------------------------------------
(* POST /api/settings/llm/providers *)

\* A hosted provider is probed under the policy it will run with.
ProbePolicy(p, d) == IF p \in DeclaredLocal THEN d.egress ELSE "allow"

Connect(c, p) ==
    /\ console[c].phase = "idle"
    /\ \E d \in Readable : Loads(d) /\ MayCall(p, ProbePolicy(p, d))
    /\ Turn(c, At("probing", p, EmptyDocument))
    /\ UNCHANGED <<airGapped, file, written, edits, backfill>>

ProbeSucceeds(c) ==
    /\ console[c].phase = "probing"
    /\ Turn(c, At("verified", console[c].provider, EmptyDocument))
    /\ UNCHANGED <<airGapped, file, written, edits, backfill>>

\* Unhealthy or unreachable: a 422, and the file is as it was.
ProbeFails(c) ==
    /\ console[c].phase = "probing"
    /\ Turn(c, Answered)
    /\ UNCHANGED <<airGapped, file, written, edits, backfill>>

\* apply_update reads the file again and adds the provider to what it holds now.
ConnectDraft(c) ==
    /\ console[c].phase = "verified"
    /\ LET p == console[c].provider IN
       \E d \in Readable : \E role \in {p, d.role} :
           Turn(c, At("drafted", Nobody,
                      [d EXCEPT !.enabled = TRUE, !.providers = @ \cup {p}, !.role = role,
                                !.egress = ProbePolicy(p, d)]))
    /\ UNCHANGED <<airGapped, file, written, edits, backfill>>

-----------------------------------------------------------------------------
(* PUT /api/settings/llm, and the end of both *)

UpdateDraft(c) ==
    /\ console[c].phase = "idle"
    /\ \E d \in Readable, enabled \in BOOLEAN : \E role \in d.providers \cup {d.role} :
           Turn(c, At("drafted", Nobody, [d EXCEPT !.enabled = enabled, !.role = role]))
    /\ UNCHANGED <<airGapped, file, written, edits, backfill>>

\* Mutant: of a draft only the roles are looked at.
AcceptedByRole(d) == d.role \in d.providers \cup {Unrouted}

\* "It parsed here" means "a scan will start".
Accepted(d) == Loads(d)

\* The draft is loaded from a probe file and then another file takes the place of
\* the old one in one step, whatever has been written to it meanwhile: who still
\* has that open writes to nobody.
Orphaned == [l \in Loaders |-> IF backfill[l].phase = "writing" THEN Idle ELSE backfill[l]]
WriteDraft(c) ==
    /\ console[c].phase = "drafted"
    /\ IF Accepted(console[c].draft)
       THEN Replace(console[c].draft) /\ backfill' = Orphaned
       ELSE UNCHANGED <<file, written, backfill>>
    /\ Turn(c, Answered)
    /\ UNCHANGED <<airGapped, edits>>

-----------------------------------------------------------------------------
(* ensure_runtime_config, in any process: seeding, and a later release's roles *)

GoOn(l, state) == backfill' = [backfill EXCEPT ![l] = state]

\* The file is missing; when it is written it may no longer be.
Seed(l) ==
    /\ backfill[l].phase = "idle" /\ written = "missing"
    /\ GoOn(l, At("read", Nobody, Packaged))
    /\ UNCHANGED <<airGapped, file, written, edits, console>>

\* A role that is routed already stays, and one is added only if the provider is
\* there.
BackfillRead(l) ==
    /\ backfill[l].phase = "idle" /\ written = "whole"
    /\ file.role = Unrouted /\ Packaged.role \in file.providers
    /\ GoOn(l, At("read", Nobody, [file EXCEPT !.role = Packaged.role]))
    /\ UNCHANGED <<airGapped, file, written, edits, console>>

\* write_text opens the file, which truncates it ...
BackfillOpen(l) ==
    /\ backfill[l].phase = "read"
    /\ written' = "torn"
    /\ GoOn(l, At("writing", Nobody, backfill[l].draft))
    /\ UNCHANGED <<airGapped, file, edits, console>>

\* ... and then writes to it from its start: if another process has done so since,
\* what is left of a longer document stays behind this one.
BackfillWrite(l) ==
    /\ backfill[l].phase = "writing"
    /\ \/ Replace(backfill[l].draft)
       \/ /\ written = "mixed" \/ (written = "whole" /\ file # backfill[l].draft)
          /\ written' = "mixed" /\ UNCHANGED file
    /\ GoOn(l, Idle)
    /\ UNCHANGED <<airGapped, edits, console>>

\* An operator edits the policy by hand, or adds providers of no catalog.
HandEdit ==
    /\ edits < MaxEdits /\ written = "whole"
    /\ \E policy \in HandPolicies, more \in SUBSET ByHand :
           file' = [file EXCEPT !.egress = policy.egress, !.redaction = policy.redaction,
                                !.providers = @ \cup more]
    /\ edits' = edits + 1
    /\ UNCHANGED <<airGapped, written, console, backfill>>

-----------------------------------------------------------------------------
ConsoleStep(c) ==
    \/ Survey(c) \/ SurveyEnds(c)
    \/ (\E p \in Providers \ ByHand : Connect(c, p)) \/ ProbeSucceeds(c) \/ ProbeFails(c)
    \/ ConnectDraft(c) \/ UpdateDraft(c) \/ WriteDraft(c)
BackfillStep(l) == Seed(l) \/ BackfillRead(l) \/ BackfillOpen(l) \/ BackfillWrite(l)
SettingsNext ==
    \/ \E c \in Consoles : ConsoleStep(c)
    \/ \E l \in Loaders : BackfillStep(l)
    \/ HandEdit

-----------------------------------------------------------------------------
StateType == [phase : {"idle", "answered", "surveying", "probing", "verified", "drafted",
                       "read", "writing"},
              provider : Providers \cup {Nobody}, draft : Documents]

SettingsTypeOK ==
    /\ airGapped \in BOOLEAN
    /\ file \in Documents /\ written \in {"missing", "torn", "whole", "mixed"}
    /\ edits \in 0..MaxEdits
    /\ console \in [Consoles -> StateType] /\ backfill \in [Loaders -> StateType]
    /\ \A c \in Consoles :
           console[c].phase \in {"probing", "verified"} => console[c].provider \in Providers

\* Providers that leave the operator's network although the code may take them
\* for local: a URL that is not used, or an is_local from an editor's hand.
Unaccountable == (UrlIgnored \cap LocalUrl) \cup (IF edits > 0 THEN ByHand ELSE {})

\* settings_writer's "the console must not be able to write a config that stops
\* the next scan": however settings requests and the processes that complete an
\* old file overtake each other with what they read earlier, a file that is whole
\* and does not load was edited by hand.
OnlyHandsBreakIt == edits = 0 /\ written = "whole" => Loads(file)
=============================================================================
