----------------------------- MODULE Correlation -----------------------------
(***************************************************************************)
(* Scans of one and the same artifact: loading and staging the rules,      *)
(* matching them in the analyzer, the inventory its pool of processes      *)
(* collects up to a cap, and the correlation of the evidence into findings *)
(* whose ids the gate and the waivers of later scans compare.              *)
(*                                                                         *)
(* A file is the number of its path; the ids of its rows are random, so    *)
(* what is left of them is the order they sort in.  A match is the rule,   *)
(* the value and the place.  The digest of an id stands for the order of   *)
(* its hash.  Titles, scores, contexts and the encoding are left out.      *)
(***************************************************************************)
EXTENDS Naturals, FiniteSets, Sequences, SequencesExt

CONSTANTS
    Scans,          \* scans of the artifact
    NumFiles,       \* files staged for the analyzer; the first is the root
    Unlisted,       \* those the tree does not know
    Rules, Values, Offsets,
    Trees,          \* what there may be to find: sets of matches
    Patterns,       \* what an operator may suppress: rule, value and paths
    Threshold,      \* CLUSTER_THRESHOLD
    Strings,        \* how many strings each file holds
    Cap,            \* MAX_RECON_STRINGS
    Unreadable,     \* the sets of files that reading may fail for
    MaxActive,      \* bound on the scans that run at a time
    Digest(_)       \* the order of the ids of findings

Files == 1..NumFiles
Listed == Files \ Unlisted
Matches == [file : Files, rule : Rules, value : Values, offset : Offsets]
Places == Listed \X Offsets
FindingIds == [rule : Rules, hash : Seq(Values), path : Listed, offset : Offsets]

ASSUME FilesAssumption == NumFiles \in Nat \ {0} /\ Unlisted \subseteq Files \ {1}
ASSUME TreesAssumption == \A t \in Trees : t \subseteq Matches /\ IsFiniteSet(t)
ASSUME OffsetsAssumption == Offsets \subseteq Nat /\ 0 \in Offsets
ASSUME PatternsAssumption ==
    Patterns \subseteq [rule : Rules, value : Values, paths : SUBSET Listed]
ASSUME CapAssumption == Cap \in Nat /\ Threshold \in Nat /\ Strings \in [Files -> Nat]
ASSUME BoundsAssumption == Unreadable \subseteq SUBSET Files /\ MaxActive \in Nat

VARIABLES
    tree,           \* what there is to find in the artifact
    rules,          \* the rules in detections/
    suppressions,   \* the table of suppressions
    phase,          \* what each scan is at
    pack,           \* the rules it loaded, and those it staged
    order,          \* how the ids of its artifact rows sort
    evidence,       \* the evidence of each scan, and the files it could not read
    recon,          \* its inventory
    findings,       \* its findings with their locations
    hidden          \* the suppressions it read

vars == <<tree, rules, suppressions, phase, pack, order, evidence, recon, findings, hidden>>

NoRecon == [workers |-> 1, next |-> 1, collected |-> <<>>, truncated |-> FALSE]

Init ==
    /\ tree \in Trees
    /\ rules = Rules
    /\ suppressions = {}
    /\ phase = [s \in Scans |-> "new"]
    /\ pack = [s \in Scans |-> [loaded |-> {}, staged |-> {}]]
    /\ order = [s \in Scans |-> [f \in Listed |-> f]]
    /\ evidence = [s \in Scans |-> [items |-> {}, unread |-> {}]]
    /\ recon = [s \in Scans |-> NoRecon]
    /\ findings = [s \in Scans |-> {}]
    /\ hidden = [s \in Scans |-> {}]

Go(s, from, to) == phase[s] = from /\ phase' = [phase EXCEPT ![s] = to]

-----------------------------------------------------------------------------
(* Before the analyzer *)

Load(s) ==
    /\ Cardinality({t \in Scans : phase[t] \notin {"new", "correlated"}}) < MaxActive
    /\ Go(s, "new", "loaded")
    /\ pack' = [pack EXCEPT ![s].loaded = rules]
    /\ UNCHANGED <<tree, rules, suppressions, order, evidence, recon, findings, hidden>>

\* _stage_rules copies the directory as it is by then.
Stage(s) ==
    /\ Go(s, "loaded", "staged")
    /\ pack' = [pack EXCEPT ![s].staged = rules]
    /\ UNCHANGED <<tree, rules, suppressions, order, evidence, recon, findings, hidden>>

\* _materialise_tree: a row and a random id for each file of the tree.
Index(s) ==
    /\ Go(s, "staged", "indexed")
    /\ \E ids \in [Listed -> Listed] : IsInjective(ids) /\ order' = [order EXCEPT ![s] = ids]
    /\ UNCHANGED <<tree, rules, suppressions, pack, evidence, recon, findings, hidden>>

-----------------------------------------------------------------------------
(* The static analyzer *)

\* A match in a file that the tree does not know is the root's.
Attributed(f) == IF f \in Listed THEN f ELSE 1
Place(m) == <<Attributed(m.file), m.offset>>

\* scan_all and _to_evidence.  The files are handed to a pool whose results come
\* back in the order of the files, and if the pool breaks are scanned again one
\* by one; a file that cannot be read costs its own matches.
ScanAll(s) ==
    /\ Go(s, "indexed", "scanned")
    /\ \E unread \in Unreadable :
        evidence' = [evidence EXCEPT ![s] =
            [unread |-> unread,
             items |-> {[rule |-> m.rule, value |-> m.value, place |-> Place(m)] :
                        m \in {n \in tree : n.file \notin unread /\ n.rule \in pack[s].staged}}]]
    /\ \E workers \in {1, 2} : recon' = [recon EXCEPT ![s].workers = workers]
    /\ UNCHANGED <<tree, rules, suppressions, pack, order, findings, hidden>>

\* The strings of a file; none if it cannot be read.
Chunk(s, f) == IF f \in evidence[s].unread THEN <<>> ELSE [i \in 1..Strings[f] |-> <<f, i>>]
Room(s) == Cap - Len(recon[s].collected)

\* Mutant: taking what fits of a chunk does not count as a cut.
FitsIfAny(s, chunk) == Room(s) > 0

\* absorb
Fits(s, chunk) == Room(s) > 0 /\ Len(chunk) <= Room(s)
Absorb(s) ==
    /\ phase[s] = "scanned" /\ recon[s].next \in Files
    /\ LET chunk == Chunk(s, recon[s].next)
           taken == recon[s].collected \o SubSeq(chunk, 1, IF Len(chunk) <= Room(s) THEN Len(chunk)
                                                          ELSE Room(s)) IN
       recon' = [recon EXCEPT ![s].collected = taken,
                              ![s].next = IF Fits(s, chunk) THEN @ + 1 ELSE NumFiles + 1,
                              ![s].truncated = ~Fits(s, chunk)]
    /\ UNCHANGED <<tree, rules, suppressions, phase, pack, order, evidence, findings, hidden>>

\* Mutant: what the pool had delivered is kept.
StartOverWithoutClearing(s) == [recon[s] EXCEPT !.workers = 1, !.next = 1, !.truncated = FALSE]

\* The pool breaks before its results are taken: what was collected is dropped
\* and the files go one by one.
StartOver(s) == NoRecon
PoolBreaks(s) ==
    /\ phase[s] = "scanned" /\ recon[s].workers > 1 /\ recon[s].next \in Files
    /\ recon' = [recon EXCEPT ![s] = StartOver(s)]
    /\ UNCHANGED <<tree, rules, suppressions, phase, pack, order, evidence, findings, hidden>>

\* The analyzer writes its result.
Deliver(s) ==
    /\ recon[s].next \notin Files
    /\ Go(s, "scanned", "delivered")
    /\ recon' = [recon EXCEPT ![s].workers = 1]
    /\ UNCHANGED <<tree, rules, suppressions, pack, order, evidence, findings, hidden>>

-----------------------------------------------------------------------------
(* Correlation *)

\* The first item of a group, by artifact id and offset, anchors the finding.
Earlier(s, a, b) ==
    \/ order[s][a.place[1]] < order[s][b.place[1]]
    \/ a.place[1] = b.place[1] /\ a.place[2] <= b.place[2]
Primary(s, items) == CHOOSE a \in items : \A b \in items : Earlier(s, a, b)

\* _is_suppressed, asked of the anchor's path alone.
IsSuppressed(s, rule, value, path) ==
    \E p \in suppressions : p.rule = rule /\ p.value = value /\ path \in p.paths

Group(s, rule, value) ==
    {e \in evidence[s].items : e.rule = rule /\ e.value = value}

\* Mutant: a finding is at the places of its anchor's file.
FindingInOneFile(s, items) ==
    LET primary == Primary(s, items) IN
    [id |-> [rule |-> primary.rule, hash |-> <<primary.value>>,
             path |-> primary.place[1], offset |-> primary.place[2]],
     values |-> {primary.value},
     places |-> {e.place : e \in {i \in items : i.place[1] = primary.place[1]}}]

\* One finding for the items of one rule and value; compute_id leaves the run out.
FindingOf(s, items) ==
    LET primary == Primary(s, items) IN
    [id |-> [rule |-> primary.rule, hash |-> <<primary.value>>,
             path |-> primary.place[1], offset |-> primary.place[2]],
     values |-> {primary.value},
     places |-> {e.place : e \in items}]

\* correlate's loop: a rule that the loaded pack does not have is skipped.
Reported(s) ==
    {FindingOf(s, Group(s, k[1], k[2])) :
        k \in {<<e.rule, e.value>> :
                 e \in {i \in evidence[s].items :
                          /\ i.rule \in pack[s].loaded
                          /\ LET primary == Primary(s, Group(s, i.rule, i.value)) IN
                             ~IsSuppressed(s, i.rule, i.value, primary.place[1])}}}

\* Mutant: the cluster keeps the locations of its anchor.
PlacesOfAnchor(cluster) ==
    (CHOOSE f \in cluster : \A g \in cluster : Digest(f.id) <= Digest(g.id)).places

\* The cluster's locations are those of all its members.
PlacesOf(cluster) == UNION {f.places : f \in cluster}

\* The cluster's hash is that of the values in the order of their findings' ids.
ClusterOf(rule, cluster) ==
    LET members == SetToSortSeq(cluster, LAMBDA a, b : Digest(a.id) < Digest(b.id)) IN
    [id |-> [rule |-> rule, hash |-> [i \in 1..Len(members) |-> members[i].id.hash[1]],
             path |-> members[1].id.path, offset |-> 0],
     values |-> UNION {f.values : f \in cluster},
     places |-> PlacesOf(cluster)]

\* _cluster_repetitive_rules
ByRule(all, rule) == {f \in all : f.id.rule = rule}
Clustered(all) ==
    UNION {IF Cardinality(ByRule(all, rule)) <= Threshold THEN ByRule(all, rule)
           ELSE {ClusterOf(rule, ByRule(all, rule))} : rule \in Rules}

Correlate(s) ==
    /\ Go(s, "delivered", "correlated")
    /\ findings' = [findings EXCEPT ![s] = Clustered(Reported(s))]
    /\ hidden' = [hidden EXCEPT ![s] = suppressions]
    /\ UNCHANGED <<tree, rules, suppressions, pack, order, evidence, recon>>

-----------------------------------------------------------------------------
(* Authors and operators *)

\* A rule is taken from the directory.
EditRules ==
    /\ rules = Rules
    /\ \E r \in Rules : rules' = Rules \ {r}
    /\ UNCHANGED <<tree, suppressions, phase, pack, order, evidence, recon, findings, hidden>>

Suppress ==
    /\ suppressions = {}
    /\ \E p \in Patterns : suppressions' = {p}
    /\ UNCHANGED <<tree, rules, phase, pack, order, evidence, recon, findings, hidden>>

-----------------------------------------------------------------------------
ScanStep(s) ==
    \/ Load(s) \/ Stage(s) \/ Index(s)
    \/ ScanAll(s) \/ Absorb(s) \/ PoolBreaks(s) \/ Deliver(s)
    \/ Correlate(s)
Next == (\E s \in Scans : ScanStep(s)) \/ EditRules \/ Suppress

Spec == Init /\ [][Next]_vars

-----------------------------------------------------------------------------
Done == {s \in Scans : phase[s] = "correlated"}

\* What a scan was to report: the matches of the rules it knew and staged in the
\* files it could read.
Due(s) == {m \in tree : m.file \notin evidence[s].unread
                        /\ m.rule \in pack[s].staged \cap pack[s].loaded}

\* "Nothing is discarded": each match is at its place in exactly one finding of
\* its rule and value, clustered or not, unless the value is suppressed by a
\* pattern that names one of the places it is at; and a finding is nowhere but
\* where something was matched.
EverythingIsLocated ==
    \A s \in Done :
        /\ \A m \in Due(s) :
            \/ \E f \in findings[s] :
                /\ Place(m) \in f.places
                /\ {g \in findings[s] : g.id.rule = m.rule /\ m.value \in g.values} = {f}
            \/ \E p \in hidden[s], n \in Due(s) :
                /\ p.rule = m.rule /\ p.value = m.value
                /\ n.rule = m.rule /\ n.value = m.value /\ Attributed(n.file) \in p.paths
        /\ \A f \in findings[s] : \A place \in f.places :
            \E m \in Due(s) : m.rule = f.id.rule /\ m.value \in f.values /\ Place(m) = place

\* Two scans of one artifact that knew the same rules, read the same files and
\* whose suppressions, if any, are of whole values report the same values at
\* the same places, grouped alike, whatever ids their rows were given.
Alike(s, t) ==
    /\ Due(s) = Due(t) /\ hidden[s] = hidden[t]
    /\ \A p \in hidden[s] : p.paths = Listed
Shown(s) == {[rule |-> f.id.rule, values |-> f.values, places |-> f.places] : f \in findings[s]}
ScansShowTheSame == \A s, t \in Done : Alike(s, t) => Shown(s) = Shown(t)

\* "The result says so rather than quietly reporting a partial inventory as a
\* complete one": however the pool breaks, the inventory holds the first strings
\* of the files in their order, each once and no more than the cap, and all of
\* them unless it is marked truncated.
AllStrings(s) == FlattenSeq([f \in Files |-> Chunk(s, f)])
ReconIsHonest ==
    \A s \in Scans : phase[s] \in {"delivered", "correlated"} =>
        /\ Len(recon[s].collected) <= Cap
        /\ IsPrefix(recon[s].collected, AllStrings(s))
        /\ ~recon[s].truncated => recon[s].collected = AllStrings(s)

\* "Same artifact, same rule pack, same tool versions => byte-identical
\* findings": two scans that knew the same rules and read the same files under
\* the same suppressions give their findings the same ids.
SameFindings ==
    \A s, t \in Done :
        Due(s) = Due(t) /\ hidden[s] = hidden[t]
        => {f.id : f \in findings[s]} = {f.id : f \in findings[t]}
=============================================================================
