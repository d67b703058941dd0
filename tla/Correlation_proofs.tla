-------------------------- MODULE Correlation_proofs --------------------------
(***************************************************************************)
(* Theorems about the scans of one artifact, for any artifact with         *)
(* finitely many matches, any rules, suppressions, caps and orders of ids. *)
(*                                                                         *)
(* A finding is what its group of matches makes of it; which match anchors *)
(* the group is decided by random ids, what is at the group's places is    *)
(* not.  The inventory is the flattened sequence of the files' strings, as *)
(* far as the pool has got.                                                *)
(***************************************************************************)
EXTENDS Correlation, FiniteSetTheorems, WellFoundedInduction, TLAPS

Items == [rule : Rules, value : Values, place : Places]
Phases == {"new", "loaded", "staged", "indexed", "scanned", "delivered", "correlated"}

TypeInv ==
    /\ tree \in Trees
    /\ rules \subseteq Rules
    /\ suppressions \subseteq Patterns
    /\ phase \in [Scans -> Phases]
    /\ pack \in [Scans -> [loaded : SUBSET Rules, staged : SUBSET Rules]]
    /\ order \in [Scans -> [Listed -> Listed]]
    /\ \A s \in Scans : \A f, g \in Listed : order[s][f] = order[s][g] => f = g
    /\ evidence \in [Scans -> [items : SUBSET Items, unread : SUBSET Files]]
    /\ findings = [s \in Scans |-> findings[s]]
    /\ hidden \in [Scans -> SUBSET Patterns]

\* What the analyzer can see, once it has run.
Seen(s) ==
    {[rule |-> m.rule, value |-> m.value, place |-> Place(m)] :
        m \in {n \in tree : n.file \notin evidence[s].unread /\ n.rule \in pack[s].staged}}

Scanned == {"scanned", "delivered", "correlated"}
EvidenceInv == \A s \in Scans : phase[s] \in Scanned => evidence[s].items = Seen(s)

\* A match in a file of the artifact is put at a place of the tree.
LEMMA PlaceType == ASSUME NEW m \in Matches PROVE Place(m) \in Places
  <1>1. 1 \in Listed
    BY FilesAssumption DEF Listed, Files
  <1> QED
    BY <1>1 DEF Matches, Place, Attributed, Places

\* The tree is a set of matches.
LEMMA TreeType == TypeInv => tree \subseteq Matches /\ IsFiniteSet(tree)
  BY TreesAssumption DEF TypeInv

\* The types of all that correlation reads.
LEMMA TypeStep == TypeInv /\ [Next]_vars => TypeInv'
  <1> SUFFICES ASSUME TypeInv, [Next]_vars PROVE TypeInv'
    OBVIOUS
  <1>u. ASSUME phase' \in [Scans -> Phases],
               pack' \in [Scans -> [loaded : SUBSET Rules, staged : SUBSET Rules]],
               UNCHANGED <<tree, rules, suppressions, order, evidence, findings, hidden>>
        PROVE  TypeInv'
    BY <1>u DEF TypeInv
  <1>v. /\ phase \in [Scans -> Phases] /\ rules \subseteq Rules
        /\ pack \in [Scans -> [loaded : SUBSET Rules, staged : SUBSET Rules]]
    BY DEF TypeInv
  <1>1. ASSUME NEW s \in Scans, Load(s) PROVE TypeInv'
    <2>1. /\ phase' \in [Scans -> Phases]
          /\ pack' \in [Scans -> [loaded : SUBSET Rules, staged : SUBSET Rules]]
      BY <1>1, <1>v DEF Load, Go, Phases
    <2> QED
      BY <1>1, <1>u, <2>1 DEF Load
  <1>2. ASSUME NEW s \in Scans, Stage(s) PROVE TypeInv'
    <2>1. /\ phase' \in [Scans -> Phases]
          /\ pack' \in [Scans -> [loaded : SUBSET Rules, staged : SUBSET Rules]]
      BY <1>2, <1>v DEF Stage, Go, Phases
    <2> QED
      BY <1>2, <1>u, <2>1 DEF Stage
  <1> USE DEF TypeInv, Phases, Go
  <1>3. ASSUME NEW s \in Scans, Index(s) PROVE TypeInv'
    BY <1>3 DEF Index, IsInjective
  <1>4. ASSUME NEW s \in Scans, ScanAll(s) PROVE TypeInv'
    <2>1. PICK unread \in Unreadable :
        evidence' = [evidence EXCEPT ![s] =
            [unread |-> unread,
             items |-> {[rule |-> m.rule, value |-> m.value, place |-> Place(m)] :
                        m \in {n \in tree : n.file \notin unread /\ n.rule \in pack[s].staged}}]]
      BY <1>4 DEF ScanAll
    <2>2. unread \subseteq Files
      BY BoundsAssumption
    <2>3. \A m \in tree : [rule |-> m.rule, value |-> m.value, place |-> Place(m)] \in Items
      BY PlaceType, TreeType DEF Matches, Items
    <2> DEFINE items == {[rule |-> m.rule, value |-> m.value, place |-> Place(m)] :
                        m \in {n \in tree : n.file \notin unread /\ n.rule \in pack[s].staged}}
    <2>4. items \subseteq Items
      BY <2>3
    <2> HIDE DEF items
    <2>5. [unread |-> unread, items |-> items] \in [items : SUBSET Items, unread : SUBSET Files]
      BY <2>2, <2>4
    <2>6. evidence' \in [Scans -> [items : SUBSET Items, unread : SUBSET Files]]
      BY <2>1, <2>5 DEF items
    <2> QED
      BY <1>4, <2>6 DEF ScanAll
  <1>5. ASSUME NEW s \in Scans, Absorb(s) PROVE TypeInv'
    BY <1>5 DEF Absorb
  <1>6. ASSUME NEW s \in Scans, PoolBreaks(s) PROVE TypeInv'
    BY <1>6 DEF PoolBreaks
  <1>7. ASSUME NEW s \in Scans, Deliver(s) PROVE TypeInv'
    BY <1>7 DEF Deliver
  <1>8. ASSUME NEW s \in Scans, Correlate(s) PROVE TypeInv'
    BY <1>8 DEF Correlate
  <1>9. CASE EditRules
    BY <1>9 DEF EditRules
  <1>10. CASE Suppress
    BY <1>10 DEF Suppress
  <1>11. CASE UNCHANGED vars
    BY <1>11 DEF vars
  <1> QED
    BY <1>1, <1>2, <1>3, <1>4, <1>5, <1>6, <1>7, <1>8, <1>9, <1>10, <1>11 DEF Next, ScanStep

\* An artifact, its matches and the files that could not be read stay as the
\* analyzer met them; so does the pack it was given.
LEMMA EvidenceStep == TypeInv /\ EvidenceInv /\ [Next]_vars => EvidenceInv'
  <1> SUFFICES ASSUME TypeInv, EvidenceInv, [Next]_vars PROVE EvidenceInv'
    OBVIOUS
  <1>k. ASSUME NEW s \in Scans, UNCHANGED <<tree, evidence, pack>>,
               \A t \in Scans : phase'[t] \in Scanned => phase[t] \in Scanned
        PROVE  EvidenceInv'
    BY <1>k DEF EvidenceInv, Seen
  <1>p. ASSUME NEW s \in Scans, UNCHANGED <<tree, evidence>>, phase[s] \notin Scanned,
               phase'[s] \notin Scanned,
               \A t \in Scans : t # s => phase'[t] = phase[t] /\ pack'[t] = pack[t]
        PROVE  EvidenceInv'
    BY <1>p DEF EvidenceInv, Seen
  <1> USE DEF TypeInv, Go, Scanned
  <1>1. ASSUME NEW s \in Scans, Load(s) PROVE EvidenceInv'
    BY <1>1, <1>p DEF Load
  <1>2. ASSUME NEW s \in Scans, Stage(s) PROVE EvidenceInv'
    BY <1>2, <1>p DEF Stage
  <1>3. ASSUME NEW s \in Scans, Index(s) PROVE EvidenceInv'
    BY <1>3, <1>p DEF Index
  <1>4. ASSUME NEW s \in Scans, ScanAll(s) PROVE EvidenceInv'
    <2>1. PICK unread \in Unreadable :
        evidence' = [evidence EXCEPT ![s] =
            [unread |-> unread,
             items |-> {[rule |-> m.rule, value |-> m.value, place |-> Place(m)] :
                        m \in {n \in tree : n.file \notin unread /\ n.rule \in pack[s].staged}}]]
      BY <1>4 DEF ScanAll
    <2>2. /\ evidence'[s].unread = unread
          /\ evidence'[s].items =
               {[rule |-> m.rule, value |-> m.value, place |-> Place(m)] :
                    m \in {n \in tree : n.file \notin unread /\ n.rule \in pack[s].staged}}
      BY <2>1
    <2>3. evidence'[s].items = Seen(s)'
      BY <1>4, <2>2 DEF ScanAll, Seen
    <2>4. \A t \in Scans : t # s =>
            /\ evidence'[t] = evidence[t] /\ pack'[t] = pack[t] /\ phase'[t] = phase[t]
      BY <1>4, <2>1 DEF ScanAll
    <2>5. tree' = tree
      BY <1>4 DEF ScanAll
    <2>6. ASSUME NEW t \in Scans, t # s, phase'[t] \in Scanned
          PROVE  evidence'[t].items = Seen(t)'
      <3>1. evidence[t].items = Seen(t)
        BY <2>4, <2>6 DEF EvidenceInv
      <3> QED
        BY <2>4, <2>5, <2>6, <3>1 DEF Seen
    <2> QED
      BY <2>3, <2>6 DEF EvidenceInv
  <1>5. ASSUME NEW s \in Scans, Absorb(s) PROVE EvidenceInv'
    BY <1>5, <1>k DEF Absorb
  <1>6. ASSUME NEW s \in Scans, PoolBreaks(s) PROVE EvidenceInv'
    BY <1>6, <1>k DEF PoolBreaks
  <1>7. ASSUME NEW s \in Scans, Deliver(s) PROVE EvidenceInv'
    BY <1>7, <1>k DEF Deliver
  <1>8. ASSUME NEW s \in Scans, Correlate(s) PROVE EvidenceInv'
    BY <1>8, <1>k DEF Correlate
  <1>9. CASE EditRules
    BY <1>9, <1>k DEF EditRules, EvidenceInv, Seen
  <1>10. CASE Suppress
    BY <1>10, <1>k DEF Suppress, EvidenceInv, Seen
  <1>11. CASE UNCHANGED vars
    BY <1>11 DEF vars, EvidenceInv, Seen
  <1> QED
    BY <1>1, <1>2, <1>3, <1>4, <1>5, <1>6, <1>7, <1>8, <1>9, <1>10, <1>11 DEF Next, ScanStep

-----------------------------------------------------------------------------
(* What a scan reports *)

Hidden(sup, rule, value, path) ==
    \E p \in sup : p.rule = rule /\ p.value = value /\ path \in p.paths

\* The report of scan s had the table of suppressions been sup.
ReportedUnder(s, sup) ==
    {FindingOf(s, Group(s, k[1], k[2])) :
        k \in {<<e.rule, e.value>> :
                 e \in {i \in evidence[s].items :
                          /\ i.rule \in pack[s].loaded
                          /\ LET primary == Primary(s, Group(s, i.rule, i.value)) IN
                             ~Hidden(sup, i.rule, i.value, primary.place[1])}}}

\* What a scan has found stays what its evidence and the suppressions of that
\* moment make of it.
DoneInv == \A s \in Done : findings[s] = Clustered(ReportedUnder(s, hidden[s]))

\* It is what correlate computes.
LEMMA ReportedIs == \A s : Reported(s) = ReportedUnder(s, suppressions)
  BY DEF Reported, ReportedUnder, IsSuppressed, Hidden

\* The report depends on nothing that changes once the scan has correlated.
LEMMA ReportKept ==
    ASSUME NEW s \in Scans, NEW sup, evidence'[s] = evidence[s], order'[s] = order[s],
           pack'[s] = pack[s]
    PROVE  ReportedUnder(s, sup)' = ReportedUnder(s, sup)
  <1>1. \A a, b : Earlier(s, a, b)' <=> Earlier(s, a, b)
    BY DEF Earlier
  <1>2. \A items : Primary(s, items)' = Primary(s, items)
    BY <1>1 DEF Primary
  <1>3. \A items : FindingOf(s, items)' = FindingOf(s, items)
    BY <1>2 DEF FindingOf
  <1>4. \A r, v : Group(s, r, v)' = Group(s, r, v)
    BY DEF Group
  <1> QED
    BY <1>2, <1>3, <1>4 DEF ReportedUnder

\* Nothing is found twice over: a scan that has correlated is left alone.
LEMMA DoneStep == TypeInv /\ DoneInv /\ [Next]_vars => DoneInv'
  <1> SUFFICES ASSUME TypeInv, DoneInv, [Next]_vars PROVE DoneInv'
    OBVIOUS
  <1> USE DEF TypeInv, Go, Done
  <1>k. ASSUME \A t \in Scans : phase'[t] = "correlated" =>
                  /\ phase[t] = "correlated" /\ findings'[t] = findings[t]
                  /\ hidden'[t] = hidden[t] /\ evidence'[t] = evidence[t]
                  /\ order'[t] = order[t] /\ pack'[t] = pack[t]
        PROVE  DoneInv'
    <2> SUFFICES ASSUME NEW t \in Done'
                 PROVE  findings'[t] = Clustered(ReportedUnder(t, hidden[t]))'
      BY DEF DoneInv
    <2>1. /\ t \in Done /\ findings'[t] = findings[t] /\ hidden'[t] = hidden[t]
          /\ evidence'[t] = evidence[t] /\ order'[t] = order[t] /\ pack'[t] = pack[t]
      BY <1>k
    <2>2. findings[t] = Clustered(ReportedUnder(t, hidden[t]))
      BY <2>1 DEF DoneInv
    <2>3. \A sup : ReportedUnder(t, sup)' = ReportedUnder(t, sup)
      BY <2>1, ReportKept
    <2>4. Clustered(ReportedUnder(t, hidden[t]))' = Clustered(ReportedUnder(t, hidden[t]))
      BY <2>1, <2>3 DEF Clustered
    <2> QED
      BY <2>1, <2>2, <2>4
  <1>1. ASSUME NEW s \in Scans, Load(s) PROVE DoneInv'
    BY <1>1, <1>k DEF Load
  <1>2. ASSUME NEW s \in Scans, Stage(s) PROVE DoneInv'
    BY <1>2, <1>k DEF Stage
  <1>3. ASSUME NEW s \in Scans, Index(s) PROVE DoneInv'
    BY <1>3, <1>k DEF Index
  <1>4. ASSUME NEW s \in Scans, ScanAll(s) PROVE DoneInv'
    BY <1>4, <1>k DEF ScanAll
  <1>5. ASSUME NEW s \in Scans, Absorb(s) PROVE DoneInv'
    BY <1>5, <1>k DEF Absorb
  <1>6. ASSUME NEW s \in Scans, PoolBreaks(s) PROVE DoneInv'
    BY <1>6, <1>k DEF PoolBreaks
  <1>7. ASSUME NEW s \in Scans, Deliver(s) PROVE DoneInv'
    BY <1>7, <1>k DEF Deliver
  <1>8. ASSUME NEW s \in Scans, Correlate(s) PROVE DoneInv'
    <2> SUFFICES ASSUME NEW t \in Done'
                 PROVE  findings'[t] = Clustered(ReportedUnder(t, hidden[t]))'
      BY DEF DoneInv
    <2>1. /\ evidence' = evidence /\ order' = order /\ pack' = pack /\ phase'[t] = "correlated"
          /\ t # s => phase[t] = "correlated" /\ findings'[t] = findings[t]
                      /\ hidden'[t] = hidden[t]
          /\ findings'[s] = Clustered(Reported(s)) /\ hidden'[s] = suppressions
      BY <1>8 DEF Correlate
    <2>2. findings'[t] = Clustered(ReportedUnder(t, hidden'[t]))
      <3>1. CASE t = s
        BY <2>1, <3>1, ReportedIs
      <3>2. CASE t # s
        BY <2>1, <3>2 DEF DoneInv
      <3> QED
        BY <3>1, <3>2
    <2>3. \A sup : ReportedUnder(t, sup)' = ReportedUnder(t, sup)
      BY <2>1, ReportKept
    <2>4. Clustered(ReportedUnder(t, hidden[t]))' = Clustered(ReportedUnder(t, hidden'[t]))
      BY <2>3 DEF Clustered
    <2> QED
      BY <2>2, <2>4
  <1>9. CASE EditRules
    BY <1>9, <1>k DEF EditRules
  <1>10. CASE Suppress
    BY <1>10, <1>k DEF Suppress
  <1>11. CASE UNCHANGED vars
    BY <1>11, <1>k DEF vars
  <1> QED
    BY <1>1, <1>2, <1>3, <1>4, <1>5, <1>6, <1>7, <1>8, <1>9, <1>10, <1>11 DEF Next, ScanStep

-----------------------------------------------------------------------------
(* Groups and findings *)

\* Any set of natural numbers has a least one.
LEMMA Smallest ==
    ASSUME NEW T \in SUBSET Nat, T # {}
    PROVE  \E m \in T : \A k \in T : m <= k
  <1>1. PICK m \in T : \A k \in T : ~ (<<k, m>> \in OpToRel(<, Nat))
    BY WFMin, NatLessThanWellFounded, Zenon
  <1>2. \A k \in T : ~ (k < m)
    BY <1>1, Zenon DEF OpToRel
  <1> QED
    BY <1>2

\* A group has an anchor: some item is first by artifact id and offset.
LEMMA PrimaryIn ==
    ASSUME TypeInv, NEW s \in Scans, NEW items \in SUBSET Items, items # {}
    PROVE  /\ Primary(s, items) \in items
           /\ \A b \in items : Earlier(s, Primary(s, items), b)
  <1>1. \A e \in items : /\ e.place \in Places /\ e.place[1] \in Listed /\ e.place[2] \in Nat
                         /\ order[s][e.place[1]] \in Nat
    <2>1. Listed \subseteq Nat /\ Offsets \subseteq Nat
      BY FilesAssumption, OffsetsAssumption DEF Listed, Files
    <2>2. order[s] \in [Listed -> Listed]
      BY DEF TypeInv
    <2>3. \A e \in Items : e.place \in Places /\ e.place[1] \in Listed /\ e.place[2] \in Offsets
      BY DEF Items, Places
    <2> QED
      BY <2>1, <2>2, <2>3
  <1> DEFINE ids == {order[s][e.place[1]] : e \in items}
  <1>2. PICK i \in ids : \A k \in ids : i <= k
    <2>1. ids \in SUBSET Nat
      BY <1>1, Zenon
    <2>2. ids # {}
      OBVIOUS
    <2> QED
      BY <2>1, <2>2, Smallest, Zenon
  <1> DEFINE firsts == {e \in items : order[s][e.place[1]] = i}
             offsets == {e.place[2] : e \in firsts}
  <1>3. firsts # {} /\ offsets # {} /\ offsets \in SUBSET Nat
    BY <1>1, <1>2
  <1>4. PICK o \in offsets : \A k \in offsets : o <= k
    BY <1>3, Smallest
  <1>5. PICK a \in firsts : a.place[2] = o
    BY <1>4
  <1>6. ASSUME NEW b \in items PROVE Earlier(s, a, b)
    <2>1. order[s][a.place[1]] = i /\ i <= order[s][b.place[1]] /\ order[s][b.place[1]] \in Nat
          /\ i \in Nat
      BY <1>1, <1>2, <1>5
    <2>2. CASE order[s][b.place[1]] = i
      <3>1. a.place[1] = b.place[1]
        BY <1>1, <1>5, <2>1, <2>2 DEF TypeInv
      <3>2. a.place[2] <= b.place[2]
        BY <1>4, <1>5, <2>2
      <3> QED
        BY <3>1, <3>2 DEF Earlier
    <2>3. CASE order[s][b.place[1]] # i
      BY <2>1, <2>3 DEF Earlier
    <2> QED
      BY <2>2, <2>3
  <1>7. \E x \in items : \A b \in items : Earlier(s, x, b)
    BY <1>5, <1>6
  <1> QED
    BY <1>7 DEF Primary

\* A group is in the report: it is of a loaded rule and its anchor is not hidden.
Kept(s, sup, r, v) ==
    /\ Group(s, r, v) # {}
    /\ r \in pack[s].loaded
    /\ ~ Hidden(sup, r, v, Primary(s, Group(s, r, v)).place[1])

Finding(s, r, v) == FindingOf(s, Group(s, r, v))

\* A finding bears the rule and the value of its group and is at its places.
LEMMA FindingIs ==
    ASSUME TypeInv, NEW s \in Scans, NEW r, NEW v, Group(s, r, v) # {}
    PROVE  /\ r \in Rules /\ v \in Values
           /\ Finding(s, r, v).id.rule = r
           /\ Finding(s, r, v).values = {v}
           /\ Finding(s, r, v).places = {e.place : e \in Group(s, r, v)}
           /\ Primary(s, Group(s, r, v)) \in Group(s, r, v)
  <1>1. Group(s, r, v) \subseteq Items /\ \A e \in Group(s, r, v) : e.rule = r /\ e.value = v
    BY DEF Group, TypeInv
  <1>2. Primary(s, Group(s, r, v)) \in Group(s, r, v)
    BY <1>1, PrimaryIn
  <1>3. r \in Rules /\ v \in Values
    BY <1>1, <1>2 DEF Items
  <1> QED
    BY <1>1, <1>2, <1>3 DEF Finding, FindingOf

\* The report holds the findings of the groups that are kept, and no others.
LEMMA ReportedWhat ==
    ASSUME TypeInv, NEW s \in Scans, NEW sup
    PROVE  /\ \A r, v : Kept(s, sup, r, v) => Finding(s, r, v) \in ReportedUnder(s, sup)
           /\ \A f \in ReportedUnder(s, sup) :
                 \E r \in Rules, v \in Values : Kept(s, sup, r, v) /\ f = Finding(s, r, v)
  <1> DEFINE Keep == {i \in evidence[s].items :
                          /\ i.rule \in pack[s].loaded
                          /\ ~Hidden(sup, i.rule, i.value,
                                     Primary(s, Group(s, i.rule, i.value)).place[1])}
  <1>1. ReportedUnder(s, sup) = {Finding(s, k[1], k[2]) : k \in {<<e.rule, e.value>> : e \in Keep}}
    BY DEF ReportedUnder, Finding
  <1>2. ASSUME NEW r, NEW v, Kept(s, sup, r, v)
        PROVE  Finding(s, r, v) \in ReportedUnder(s, sup)
    <2>1. PICK e \in evidence[s].items : e.rule = r /\ e.value = v
      BY <1>2 DEF Kept, Group
    <2>2. e \in Keep
      BY <1>2, <2>1 DEF Kept
    <2> DEFINE k == <<e.rule, e.value>>
    <2>3. k[1] = r /\ k[2] = v /\ k \in {<<x.rule, x.value>> : x \in Keep}
      BY <2>1, <2>2
    <2> QED
      BY <1>1, <2>3
  <1>3. ASSUME NEW f \in ReportedUnder(s, sup)
        PROVE  \E r \in Rules, v \in Values : Kept(s, sup, r, v) /\ f = Finding(s, r, v)
    <2>1. PICK e \in Keep : f = Finding(s, e.rule, e.value)
      BY <1>1
    <2>2. e \in Group(s, e.rule, e.value)
      BY <2>1 DEF Group
    <2>3. Kept(s, sup, e.rule, e.value)
      BY <2>1, <2>2 DEF Kept
    <2>4. e.rule \in Rules /\ e.value \in Values
      BY <2>2, FindingIs
    <2> QED
      BY <2>1, <2>3, <2>4
  <1> QED
    BY <1>2, <1>3

\* A cluster bears the rule of its group, and the values and places of all.
LEMMA ClusterIs ==
    ASSUME NEW r, NEW c
    PROVE  /\ ClusterOf(r, c).id.rule = r
           /\ ClusterOf(r, c).values = UNION {f.values : f \in c}
           /\ ClusterOf(r, c).places = UNION {f.places : f \in c}
  BY DEF ClusterOf, PlacesOf

Few(all, r) == Cardinality(ByRule(all, r)) <= Threshold
OfRule(all, r) == IF Few(all, r) THEN ByRule(all, r) ELSE {ClusterOf(r, ByRule(all, r))}

\* After clustering, what bears a rule comes from the findings of that rule.
LEMMA ClusteredIs ==
    ASSUME NEW all
    PROVE  /\ Clustered(all) = UNION {OfRule(all, r) : r \in Rules}
           /\ \A r \in Rules : {g \in Clustered(all) : g.id.rule = r} = OfRule(all, r)
  <1>1. Clustered(all) = UNION {OfRule(all, r) : r \in Rules}
    BY DEF Clustered, OfRule, Few
  <1>2. \A r : \A g \in OfRule(all, r) : g.id.rule = r
    BY ClusterIs DEF OfRule, ByRule
  <1> QED
    BY <1>1, <1>2

-----------------------------------------------------------------------------
(* What was due is located *)

Inv == TypeInv /\ EvidenceInv /\ DoneInv

\* The items of a group of a loaded rule are the matches that were due, each
\* at its place.
LEMMA GroupIs ==
    ASSUME TypeInv, EvidenceInv, NEW s \in Done, NEW r \in pack[s].loaded, NEW v
    PROVE  /\ \A m \in Due(s) : m.rule = r /\ m.value = v
                 => \E e \in Group(s, r, v) : e.place = Place(m)
           /\ \A e \in Group(s, r, v) :
                 \E m \in Due(s) : m.rule = r /\ m.value = v /\ Place(m) = e.place
  <1>1. s \in Scans /\ evidence[s].items = Seen(s)
    BY DEF EvidenceInv, Done, Scanned
  <1>2. ASSUME NEW m \in Due(s), m.rule = r, m.value = v
        PROVE  \E e \in Group(s, r, v) : e.place = Place(m)
    <2> DEFINE e == [rule |-> m.rule, value |-> m.value, place |-> Place(m)]
    <2>1. e \in Seen(s)
      BY DEF Due, Seen
    <2>2. e.rule = r /\ e.value = v /\ e.place = Place(m)
      BY <1>2
    <2> QED
      BY <1>1, <2>1, <2>2 DEF Group
  <1>3. ASSUME NEW e \in Group(s, r, v)
        PROVE  \E m \in Due(s) : m.rule = r /\ m.value = v /\ Place(m) = e.place
    <2>1. e \in Seen(s) /\ e.rule = r /\ e.value = v
      BY <1>1 DEF Group
    <2>2. PICK m \in tree : /\ m.file \notin evidence[s].unread /\ m.rule \in pack[s].staged
                            /\ e = [rule |-> m.rule, value |-> m.value, place |-> Place(m)]
      BY <2>1 DEF Seen
    <2>3. m \in Due(s) /\ m.rule = r /\ m.value = v /\ Place(m) = e.place
      BY <2>1, <2>2 DEF Due
    <2> QED
      BY <2>3
  <1> QED
    BY <1>2, <1>3

\* A match that was due is at its place in the one finding of its rule and
\* value, or a pattern hides the value where its group is anchored.
LEMMA MatchLocated ==
    ASSUME Inv, NEW s \in Done, NEW m \in Due(s)
    PROVE  \/ \E f \in findings[s] :
                /\ Place(m) \in f.places
                /\ {g \in findings[s] : g.id.rule = m.rule /\ m.value \in g.values} = {f}
           \/ \E p \in hidden[s], n \in Due(s) :
                /\ p.rule = m.rule /\ p.value = m.value
                /\ n.rule = m.rule /\ n.value = m.value /\ Attributed(n.file) \in p.paths
  <1> DEFINE r == m.rule
             v == m.value
             all == ReportedUnder(s, hidden[s])
  <1>1. s \in Scans /\ r \in pack[s].loaded /\ findings[s] = Clustered(all)
    BY DEF Inv, DoneInv, Done, Due
  <1>2. PICK e \in Group(s, r, v) : e.place = Place(m)
    BY <1>1, GroupIs DEF Inv
  <1>3. /\ r \in Rules /\ v \in Values
        /\ Finding(s, r, v).id.rule = r /\ Finding(s, r, v).values = {v}
        /\ Finding(s, r, v).places = {x.place : x \in Group(s, r, v)}
        /\ Primary(s, Group(s, r, v)) \in Group(s, r, v)
    BY <1>1, <1>2, FindingIs DEF Inv
  <1> HIDE DEF r, v
  <1>4. CASE ~ Kept(s, hidden[s], r, v)
    <2>1. PICK p \in hidden[s] : p.rule = r /\ p.value = v
                                 /\ Primary(s, Group(s, r, v)).place[1] \in p.paths
      BY <1>1, <1>2, <1>4 DEF Kept, Hidden
    <2>2. PICK n \in Due(s) : n.rule = r /\ n.value = v
                              /\ Place(n) = Primary(s, Group(s, r, v)).place
      BY <1>1, <1>3, GroupIs DEF Inv
    <2>3. Attributed(n.file) \in p.paths
      BY <2>1, <2>2 DEF Place
    <2> QED
      BY <2>1, <2>2, <2>3 DEF r, v
  <1>5. CASE Kept(s, hidden[s], r, v)
    <2> DEFINE g0 == Finding(s, r, v)
    <2>1. g0 \in ByRule(all, r) /\ Place(m) \in g0.places
      BY <1>1, <1>2, <1>3, <1>5, ReportedWhat DEF Inv, ByRule
    <2>2. \A g \in findings[s] : g.id.rule = r <=> g \in OfRule(all, r)
      BY <1>1, <1>3, ClusteredIs
    <2>3. OfRule(all, r) \subseteq findings[s]
      BY <1>1, <1>3, ClusteredIs
    <2>4. CASE Few(all, r)
      <3>1. OfRule(all, r) = ByRule(all, r)
        BY <2>4 DEF OfRule
      <3>2. ASSUME NEW g \in ByRule(all, r), v \in g.values PROVE g = g0
        <4>1. PICK q \in Rules, w \in Values : Kept(s, hidden[s], q, w) /\ g = Finding(s, q, w)
          BY <1>1, ReportedWhat DEF Inv, ByRule
        <4>2. g.id.rule = q /\ g.values = {w}
          BY <1>1, <4>1, FindingIs DEF Inv, Kept
        <4>3. q = r /\ w = v
          BY <3>2, <4>2 DEF ByRule
        <4> QED
          BY <4>1, <4>3
      <3>3. {g \in findings[s] : g.id.rule = r /\ v \in g.values} = {g0}
        BY <1>3, <2>1, <2>2, <2>3, <3>1, <3>2
      <3> QED
        BY <2>1, <2>3, <3>1, <3>3 DEF r, v
    <2>5. CASE ~ Few(all, r)
      <3> DEFINE c == ClusterOf(r, ByRule(all, r))
      <3>1. OfRule(all, r) = {c}
        BY <2>5 DEF OfRule
      <3>2. v \in c.values /\ Place(m) \in c.places
        BY <1>3, <2>1, ClusterIs
      <3>3. {g \in findings[s] : g.id.rule = r /\ v \in g.values} = {c}
        BY <2>2, <2>3, <3>1, <3>2
      <3> QED
        BY <2>3, <3>1, <3>2, <3>3 DEF r, v
    <2> QED
      BY <2>4, <2>5
  <1> QED
    BY <1>4, <1>5

\* A finding is nowhere but where a match of its rule and values was due.
LEMMA PlaceMatched ==
    ASSUME Inv, NEW s \in Done, NEW f \in findings[s], NEW place \in f.places
    PROVE  \E m \in Due(s) : m.rule = f.id.rule /\ m.value \in f.values /\ Place(m) = place
  <1> DEFINE all == ReportedUnder(s, hidden[s])
  <1>1. s \in Scans /\ findings[s] = Clustered(all)
    BY DEF Inv, DoneInv, Done
  <1>2. PICK r \in Rules : f \in OfRule(all, r)
    BY <1>1, ClusteredIs
  <1>3. ASSUME NEW g \in ByRule(all, r), NEW p \in g.places
        PROVE  \E m \in Due(s) : m.rule = r /\ m.value \in g.values /\ Place(m) = p
    <2>1. PICK q \in Rules, w \in Values : Kept(s, hidden[s], q, w) /\ g = Finding(s, q, w)
      BY <1>1, ReportedWhat DEF Inv, ByRule
    <2>2. /\ g.id.rule = q /\ g.values = {w} /\ g.places = {e.place : e \in Group(s, q, w)}
          /\ q \in pack[s].loaded
      BY <1>1, <2>1, FindingIs DEF Inv, Kept
    <2>3. PICK e \in Group(s, q, w) : e.place = p
      BY <1>3, <2>2
    <2>4. PICK m \in Due(s) : m.rule = q /\ m.value = w /\ Place(m) = p
      BY <2>2, <2>3, GroupIs DEF Inv
    <2>5. q = r
      BY <2>2 DEF ByRule
    <2> QED
      BY <2>2, <2>4, <2>5
  <1>4. f.id.rule = r
    BY <1>1, <1>2, ClusteredIs
  <1>5. CASE f \in ByRule(all, r)
    BY <1>3, <1>4, <1>5
  <1>6. CASE f = ClusterOf(r, ByRule(all, r))
    <2>1. PICK g \in ByRule(all, r) : place \in g.places
      BY <1>6, ClusterIs
    <2>2. g.values \subseteq f.values
      BY <1>6, <2>1, ClusterIs
    <2> QED
      BY <1>3, <1>4, <2>1, <2>2
  <1> QED
    BY <1>2, <1>5, <1>6 DEF OfRule

\* The invariant of the correlation of a scan.
THEOREM Invariance == Spec => []Inv
  <1>1. Init => Inv
    <2> SUFFICES ASSUME Init PROVE Inv
      OBVIOUS
    <2>1. TypeInv
      BY DEF Init, TypeInv, Phases
    <2>2. EvidenceInv /\ DoneInv
      BY DEF Init, EvidenceInv, Scanned, DoneInv, Done
    <2> QED
      BY <2>1, <2>2 DEF Inv
  <1>2. Inv /\ [Next]_vars => Inv'
    BY TypeStep, EvidenceStep, DoneStep DEF Inv
  <1> QED
    BY <1>1, <1>2, PTL DEF Spec

\* "Nothing is discarded": a match that a scan was to report is at its place in
\* exactly one finding of its rule and value, clustered or not, unless a pattern
\* hides the value; and no finding is where nothing was matched.
THEOREM NothingDiscarded == Spec => []EverythingIsLocated
  <1>1. Inv => EverythingIsLocated
    BY MatchLocated, PlaceMatched DEF EverythingIsLocated
  <1> QED
    BY <1>1, Invariance, PTL

-----------------------------------------------------------------------------
(* Two scans of one artifact *)

\* What two scans that are alike report of a rule is of the same values and at
\* the same places: the order of ids decides on anchors only.
LEMMA KeptAlike ==
    ASSUME Inv, NEW s \in Done, NEW t \in Done, Alike(s, t), NEW r, NEW v,
           Kept(s, hidden[s], r, v)
    PROVE  /\ Kept(t, hidden[t], r, v)
           /\ Finding(t, r, v).places = Finding(s, r, v).places
  <1>1. s \in Scans /\ t \in Scans /\ Due(s) = Due(t) /\ r \in pack[s].loaded
    BY DEF Done, Alike, Kept
  <1>2. PICK e \in Group(s, r, v) : TRUE
    BY DEF Kept
  <1>3. PICK m \in Due(s) : m.rule = r /\ m.value = v
    BY <1>1, <1>2, GroupIs DEF Inv
  <1>4. r \in pack[t].loaded
    BY <1>1, <1>3 DEF Due
  <1>5. Group(t, r, v) # {}
    BY <1>1, <1>3, <1>4, GroupIs DEF Inv
  <1>6. ~ Hidden(hidden[t], r, v, Primary(t, Group(t, r, v)).place[1])
    <2>1. Primary(s, Group(s, r, v)).place[1] \in Listed
      <3>1. Primary(s, Group(s, r, v)) \in Items
        <4>1. Primary(s, Group(s, r, v)) \in Group(s, r, v)
          BY <1>1, <1>2, FindingIs DEF Inv
        <4>2. evidence[s].items \subseteq Items
          BY <1>1 DEF Inv, TypeInv
        <4> QED
          BY <4>1, <4>2 DEF Group
      <3> QED
        BY <3>1 DEF Items, Places
    <2>2. \A p \in hidden[s] : p.paths = Listed
      BY DEF Alike
    <2>3. hidden[t] = hidden[s]
      BY DEF Alike
    <2> QED
      BY <2>1, <2>2, <2>3 DEF Kept, Hidden
  <1>7. {e2.place : e2 \in Group(t, r, v)} = {e1.place : e1 \in Group(s, r, v)}
    BY <1>1, <1>4, GroupIs DEF Inv
  <1>8. /\ Finding(s, r, v).places = {x.place : x \in Group(s, r, v)}
        /\ Finding(t, r, v).places = {x.place : x \in Group(t, r, v)}
    BY <1>1, <1>2, <1>5, FindingIs DEF Inv
  <1> QED
    BY <1>4, <1>5, <1>6, <1>7, <1>8 DEF Kept

\* The values a scan reports under a rule; their findings before clustering.
ValuesOf(s, r) == {v \in Values : Kept(s, hidden[s], r, v)}
FindingsOf(s, r) == ByRule(ReportedUnder(s, hidden[s]), r)

\* There is one finding for each value, so a rule is clustered or not by what
\* it found and not by how the findings were anchored.
LEMMA OneEach ==
    ASSUME Inv, NEW s \in Done, NEW r \in Rules
    PROVE  /\ FindingsOf(s, r) = {Finding(s, r, v) : v \in ValuesOf(s, r)}
           /\ Cardinality(FindingsOf(s, r)) = Cardinality(ValuesOf(s, r))
  <1>1. s \in Scans
    BY DEF Done
  <1>2. ASSUME NEW v \in ValuesOf(s, r)
        PROVE  Finding(s, r, v) \in FindingsOf(s, r) /\ Finding(s, r, v).values = {v}
    BY <1>1, ReportedWhat, FindingIs DEF Inv, ValuesOf, FindingsOf, ByRule, Kept
  <1>3. ASSUME NEW f \in FindingsOf(s, r)
        PROVE  \E v \in ValuesOf(s, r) : f = Finding(s, r, v)
    <2>1. PICK q \in Rules, w \in Values : Kept(s, hidden[s], q, w) /\ f = Finding(s, q, w)
      BY <1>1, ReportedWhat DEF Inv, FindingsOf, ByRule
    <2>2. q = r
      BY <1>1, <2>1, FindingIs DEF Inv, Kept, FindingsOf, ByRule
    <2> QED
      BY <2>1, <2>2 DEF ValuesOf
  <1>4. IsFiniteSet(ValuesOf(s, r))
    <2> DEFINE due == {m.value : m \in Due(s)}
    <2>1. IsFiniteSet(Due(s))
      <3>1. IsFiniteSet(tree) /\ Due(s) \in SUBSET tree
        BY TreeType DEF Inv, Due
      <3> QED
        BY <3>1, FS_Subset
    <2>2. [m \in Due(s) |-> m.value] \in Surjection(Due(s), due)
      BY DEF Surjection
    <2>3. IsFiniteSet(due)
      BY <2>1, <2>2, FS_Surjection
    <2>4. ASSUME NEW v \in ValuesOf(s, r) PROVE v \in due
      <3>1. r \in pack[s].loaded /\ Group(s, r, v) # {}
        BY DEF ValuesOf, Kept
      <3> QED
        BY <3>1, GroupIs DEF Inv
    <2>5. ValuesOf(s, r) \in SUBSET due
      BY <2>4
    <2> QED
      BY <2>3, <2>5, FS_Subset
  <1> DEFINE map == [v \in ValuesOf(s, r) |-> Finding(s, r, v)]
  <1>5. map \in Injection(ValuesOf(s, r), FindingsOf(s, r))
    <2>1. map \in [ValuesOf(s, r) -> FindingsOf(s, r)]
      BY <1>2
    <2>2. ASSUME NEW v \in ValuesOf(s, r), NEW w \in ValuesOf(s, r), map[v] = map[w]
          PROVE  v = w
      <3>1. {v} = {w}
        BY <1>2, <2>2
      <3> QED
        BY <3>1
    <2> HIDE DEF map
    <2> QED
      BY <2>1, <2>2 DEF Injection, IsInjective
  <1>6. map \in Surjection(ValuesOf(s, r), FindingsOf(s, r))
    <2>1. map \in [ValuesOf(s, r) -> FindingsOf(s, r)]
      BY <1>2
    <2>2. \A f \in FindingsOf(s, r) : \E v \in ValuesOf(s, r) : map[v] = f
      BY <1>3
    <2> HIDE DEF map
    <2> QED
      BY <2>1, <2>2 DEF Surjection
  <1>7. ExistsBijection(ValuesOf(s, r), FindingsOf(s, r))
    BY <1>5, <1>6 DEF ExistsBijection, Bijection
  <1>8. Cardinality(FindingsOf(s, r)) = Cardinality(ValuesOf(s, r))
    BY <1>4, <1>7, FS_Bijection
  <1>9. FindingsOf(s, r) = {Finding(s, r, v) : v \in ValuesOf(s, r)}
    BY <1>2, <1>3
  <1> QED
    BY <1>8, <1>9

Look(f) == [rule |-> f.id.rule, values |-> f.values, places |-> f.places]

\* What one scan shows of a rule, a scan alike to it shows.
LEMMA LooksAlike ==
    ASSUME Inv, NEW s \in Done, NEW t \in Done, Alike(s, t), NEW r \in Rules,
           NEW f \in OfRule(ReportedUnder(s, hidden[s]), r)
    PROVE  \E g \in OfRule(ReportedUnder(t, hidden[t]), r) : Look(g) = Look(f)
  <1> DEFINE alls == ReportedUnder(s, hidden[s])
             allt == ReportedUnder(t, hidden[t])
  <1>1. Alike(t, s)
    BY DEF Alike
  <1>2. ValuesOf(s, r) = ValuesOf(t, r)
    BY <1>1, KeptAlike DEF ValuesOf
  <1>3. \A v \in ValuesOf(s, r) :
          /\ Finding(t, r, v).places = Finding(s, r, v).places
          /\ Finding(s, r, v).values = {v} /\ Finding(t, r, v).values = {v}
          /\ Finding(s, r, v).id.rule = r /\ Finding(t, r, v).id.rule = r
    BY <1>2, KeptAlike, FindingIs DEF Inv, ValuesOf, Kept, Done
  <1>4. Few(alls, r) <=> Few(allt, r)
    BY <1>2, OneEach DEF Few, FindingsOf
  <1>5. /\ ByRule(alls, r) = {Finding(s, r, v) : v \in ValuesOf(s, r)}
        /\ ByRule(allt, r) = {Finding(t, r, v) : v \in ValuesOf(s, r)}
    BY <1>2, OneEach DEF FindingsOf
  <1> HIDE DEF alls, allt
  <1>6. CASE Few(alls, r)
    <2>1. f \in ByRule(alls, r)
      BY <1>6 DEF OfRule, alls
    <2>2. PICK v \in ValuesOf(s, r) : f = Finding(s, r, v)
      BY <1>5, <2>1
    <2>3. Finding(t, r, v) \in OfRule(allt, r)
      BY <1>4, <1>5, <1>6 DEF OfRule
    <2>4. Look(Finding(t, r, v)) = Look(f)
      BY <1>3, <2>2 DEF Look
    <2> QED
      BY <2>3, <2>4 DEF allt
  <1>7. CASE ~ Few(alls, r)
    <2> DEFINE c == ClusterOf(r, ByRule(alls, r))
               d == ClusterOf(r, ByRule(allt, r))
    <2>1. f = c /\ OfRule(allt, r) = {d}
      BY <1>4, <1>7 DEF OfRule, alls
    <2>2. c.values = ValuesOf(s, r) /\ d.values = ValuesOf(s, r)
      <3>1. c.values = UNION {g.values : g \in ByRule(alls, r)}
            /\ d.values = UNION {g.values : g \in ByRule(allt, r)}
        BY ClusterIs
      <3>2. UNION {g.values : g \in ByRule(alls, r)} = ValuesOf(s, r)
        BY <1>3, <1>5
      <3>3. UNION {g.values : g \in ByRule(allt, r)} = ValuesOf(s, r)
        BY <1>3, <1>5
      <3> QED
        BY <3>1, <3>2, <3>3
    <2>3. c.places = d.places
      <3>1. c.places = UNION {g.places : g \in ByRule(alls, r)}
            /\ d.places = UNION {g.places : g \in ByRule(allt, r)}
        BY ClusterIs
      <3>2. {g.places : g \in ByRule(alls, r)} = {g.places : g \in ByRule(allt, r)}
        BY <1>3, <1>5
      <3> QED
        BY <3>1, <3>2
    <2>4. c.id.rule = r /\ d.id.rule = r
      BY ClusterIs
    <2> HIDE DEF c, d
    <2>5. Look(d) = Look(c)
      BY <2>2, <2>3, <2>4 DEF Look
    <2> QED
      BY <2>1, <2>5 DEF allt
  <1> QED
    BY <1>6, <1>7

\* Two scans of one artifact that knew the same rules, read the same files and
\* hid the same values show the same values at the same places, clustered alike,
\* in whatever order the random ids of their rows sorted.
THEOREM RescanShowsTheSame == Spec => []ScansShowTheSame
  <1>1. ASSUME Inv PROVE ScansShowTheSame
    <2>1. ASSUME NEW s \in Done, NEW t \in Done, Alike(s, t) PROVE Shown(s) \subseteq Shown(t)
      <3>1. /\ Shown(s) = {Look(f) : f \in findings[s]} /\ Shown(t) = {Look(f) : f \in findings[t]}
            /\ findings[s] = Clustered(ReportedUnder(s, hidden[s]))
            /\ findings[t] = Clustered(ReportedUnder(t, hidden[t]))
        BY <1>1 DEF Shown, Look, Inv, DoneInv
      <3>2. ASSUME NEW f \in findings[s] PROVE \E g \in findings[t] : Look(g) = Look(f)
        <4>1. PICK r \in Rules : f \in OfRule(ReportedUnder(s, hidden[s]), r)
          BY <3>1, ClusteredIs
        <4>2. PICK g \in OfRule(ReportedUnder(t, hidden[t]), r) : Look(g) = Look(f)
          BY <1>1, <2>1, <4>1, LooksAlike
        <4>3. g \in findings[t]
          BY <3>1, ClusteredIs
        <4> QED
          BY <4>2, <4>3
      <3> QED
        BY <3>1, <3>2
    <2>2. \A s, t \in Done : Alike(s, t) => Alike(t, s)
      BY DEF Alike
    <2> QED
      BY <2>1, <2>2 DEF ScansShowTheSame
  <1> QED
    BY <1>1, Invariance, PTL

-----------------------------------------------------------------------------
(* When the ids of two scans agree *)

\* No value of a rule is in two files.
Gathered(s) ==
    \A m, n \in Due(s) :
        m.rule = n.rule /\ m.value = n.value => Attributed(m.file) = Attributed(n.file)

\* What is left of the promise that SameFindings makes: without a value in two
\* files, the ids of rows have nothing to decide.
SameIfGathered ==
    \A s, t \in Done :
        Due(s) = Due(t) /\ hidden[s] = hidden[t] /\ Gathered(s) => findings[s] = findings[t]

\* The same matches make the same groups.
LEMMA GroupsAgree ==
    ASSUME Inv, NEW s \in Done, NEW t \in Done, Due(s) = Due(t), NEW r, NEW v,
           r \in pack[s].loaded, Group(s, r, v) # {}
    PROVE  r \in pack[t].loaded /\ Group(t, r, v) = Group(s, r, v)
  <1>1. \A u \in Done : \A a \in evidence[u].items : a \in Items
    BY DEF Inv, TypeInv, Done
  <1>2. \A a, b \in Items : a.rule = b.rule /\ a.value = b.value /\ a.place = b.place => a = b
    BY DEF Items
  <1>3. r \in pack[t].loaded
    BY GroupIs DEF Inv, Due
  <1>4. \A e \in Group(s, r, v) : \E g \in Group(t, r, v) : g.place = e.place
    BY <1>3, GroupIs DEF Inv
  <1>5. \A e \in Group(t, r, v) : \E g \in Group(s, r, v) : g.place = e.place
    BY <1>3, GroupIs DEF Inv
  <1>6. \A a \in Group(s, r, v), b \in Group(t, r, v) : a.place = b.place => a = b
    BY <1>1, <1>2 DEF Group
  <1>7. Group(s, r, v) \subseteq Group(t, r, v)
    BY <1>4, <1>6, Zenon
  <1>8. Group(t, r, v) \subseteq Group(s, r, v)
    BY <1>5, <1>6, Zenon
  <1> QED
    BY <1>3, <1>7, <1>8, Zenon

\* In one file, the match of the least offset is the anchor, whatever the ids.
LEMMA AnchorsAgree ==
    ASSUME TypeInv, NEW s \in Scans, NEW t \in Scans, NEW items \in SUBSET Items, items # {},
           \A a, b \in items : a.rule = b.rule /\ a.value = b.value /\ a.place[1] = b.place[1]
    PROVE  Primary(s, items) = Primary(t, items)
  <1> DEFINE p == Primary(s, items)
             q == Primary(t, items)
  <1>1. /\ p \in items /\ \A b \in items : Earlier(s, p, b)
        /\ q \in items /\ \A b \in items : Earlier(t, q, b)
    BY PrimaryIn
  <1> HIDE DEF p, q
  <1>2. \A e \in items : /\ e \in Items /\ e.place \in Places /\ e.place[1] \in Listed
                         /\ e.place[2] \in Nat
                         /\ order[s][e.place[1]] \in Nat /\ order[t][e.place[1]] \in Nat
    <2>1. Listed \subseteq Nat /\ Offsets \subseteq Nat
      BY FilesAssumption, OffsetsAssumption DEF Listed, Files
    <2> QED
      BY <2>1 DEF Items, Places, TypeInv
  <1>3. p.place[1] = q.place[1] /\ p.rule = q.rule /\ p.value = q.value
    BY <1>1
  <1>4. p.place[2] <= q.place[2] /\ q.place[2] <= p.place[2]
    BY <1>1, <1>2, <1>3 DEF Earlier
  <1>5. p.place[2] = q.place[2]
    BY <1>1, <1>2, <1>4
  <1>6. p.place = q.place
    BY <1>1, <1>2, <1>3, <1>5 DEF Places
  <1> QED
    BY <1>1, <1>2, <1>3, <1>6 DEF Items, p, q

\* So a value that one scan reports, the other reports as the same finding.
LEMMA FindingsAgree ==
    ASSUME Inv, NEW s \in Done, NEW t \in Done, Due(s) = Due(t), hidden[s] = hidden[t],
           Gathered(s), NEW r, NEW v, Kept(s, hidden[s], r, v)
    PROVE  Kept(t, hidden[t], r, v) /\ Finding(t, r, v) = Finding(s, r, v)
  <1> DEFINE items == Group(s, r, v)
  <1>1. s \in Scans /\ t \in Scans /\ r \in pack[s].loaded /\ items # {}
    BY DEF Done, Kept
  <1>2. r \in pack[t].loaded /\ Group(t, r, v) = items
    BY <1>1, GroupsAgree
  <1>3. items \in SUBSET Items /\ \A a \in items : a.rule = r /\ a.value = v
    BY <1>1 DEF Inv, TypeInv, Group
  <1>4. ASSUME NEW a \in items, NEW b \in items PROVE a.place[1] = b.place[1]
    <2>1. PICK m \in Due(s) : m.rule = r /\ m.value = v /\ Place(m) = a.place
      BY <1>1, GroupIs DEF Inv
    <2>2. PICK n \in Due(s) : n.rule = r /\ n.value = v /\ Place(n) = b.place
      BY <1>1, GroupIs DEF Inv
    <2>3. Attributed(m.file) = Attributed(n.file)
      BY <2>1, <2>2 DEF Gathered
    <2> QED
      BY <2>1, <2>2, <2>3 DEF Place
  <1> HIDE DEF items
  <1>5. Primary(t, items) = Primary(s, items)
    BY <1>1, <1>3, <1>4, AnchorsAgree DEF Inv
  <1>6. Finding(t, r, v) = Finding(s, r, v)
    BY <1>2, <1>5 DEF Finding, FindingOf, items
  <1>7. Kept(t, hidden[t], r, v)
    BY <1>1, <1>2, <1>5 DEF Kept, items
  <1> QED
    BY <1>6, <1>7

\* "Same artifact, same rule pack, same tool versions => byte-identical
\* findings" is true of compute_id and correlate as long as no value of a rule
\* is in two files: two scans that knew the same rules and read the same files
\* under the same suppressions have the same findings, id for id.
THEOREM IdsAgree == Spec => []SameIfGathered
  <1>1. ASSUME Inv PROVE SameIfGathered
    <2>1. ASSUME NEW s \in Done, NEW t \in Done, Due(s) = Due(t), hidden[s] = hidden[t],
                 Gathered(s), NEW f \in ReportedUnder(s, hidden[s])
          PROVE  f \in ReportedUnder(t, hidden[t])
      <3>1. s \in Scans /\ t \in Scans
        BY DEF Done
      <3>2. PICK r \in Rules, v \in Values : Kept(s, hidden[s], r, v) /\ f = Finding(s, r, v)
        BY <1>1, <3>1, ReportedWhat DEF Inv
      <3>3. Kept(t, hidden[t], r, v) /\ Finding(t, r, v) = f
        BY <1>1, <2>1, <3>2, FindingsAgree
      <3> QED
        BY <1>1, <3>1, <3>3, ReportedWhat DEF Inv
    <2>2. ASSUME NEW s \in Done, NEW t \in Done, Due(s) = Due(t), hidden[s] = hidden[t],
                 Gathered(s)
          PROVE  findings[s] = findings[t]
      <3>1. Gathered(t)
        BY <2>2 DEF Gathered
      <3>2. ReportedUnder(s, hidden[s]) = ReportedUnder(t, hidden[t])
        BY <2>1, <2>2, <3>1
      <3> QED
        BY <1>1, <3>2 DEF Inv, DoneInv
    <2> QED
      BY <2>2 DEF SameIfGathered
  <1> QED
    BY <1>1, Invariance, PTL

-----------------------------------------------------------------------------
(* Flattened sequences *)

Begins(p, q) == Len(p) <= Len(q) /\ \A i \in 1..Len(p) : p[i] = q[i]

\* A prefix is what the longer sequence begins with.
LEMMA PrefixIs ==
    ASSUME NEW S, NEW p \in Seq(S), NEW q \in Seq(S)
    PROVE  IsPrefix(p, q) <=> Begins(p, q)
  <1>1. ASSUME Len(p) <= Len(q)
        PROVE  SubSeq(p, 1, Len(p)) = SubSeq(q, 1, Len(p))
                   <=> \A i \in 1..Len(p) : p[i] = q[i]
    <2>1. /\ SubSeq(p, 1, Len(p)) \in Seq(S) /\ SubSeq(q, 1, Len(p)) \in Seq(S)
          /\ Len(SubSeq(p, 1, Len(p))) = Len(p) /\ Len(SubSeq(q, 1, Len(p))) = Len(p)
          /\ \A i \in 1..Len(p) : /\ SubSeq(p, 1, Len(p))[i] = p[i]
                                  /\ SubSeq(q, 1, Len(p))[i] = q[i]
      BY <1>1
    <2> QED
      BY <2>1
  <1> QED
    BY <1>1 DEF IsPrefix, Begins

\* g holds the first sequences of c put together, for every number of them.
Flattens(k, c, g) == g = [i \in 1..k |-> IF i = 1 THEN c[i] ELSE g[i - 1] \o c[i]]
Flatten(c) ==
    CHOOSE g : g = [i \in 1..Len(c) |-> IF i = 1 THEN c[i] ELSE g[i - 1] \o c[i]]

\* The equation that FlattenSeq is defined by has a solution.
LEMMA FlattenExists ==
    ASSUME NEW c, NEW n \in Nat
    PROVE  \E g : Flattens(n, c, g)
  <1> DEFINE Bad == {k \in Nat : ~ \E g : Flattens(k, c, g)}
  <1> SUFFICES ASSUME Bad # {} PROVE FALSE
    OBVIOUS
  <1>1. PICK k \in Bad : \A j \in Bad : k <= j
    BY Smallest
  <1>2. CASE k = 0
    <2> DEFINE g == [i \in 1..0 |-> <<>>]
    <2>1. Flattens(0, c, g)
      BY DEF Flattens
    <2> QED
      BY <1>2, <2>1
  <1>3. CASE k # 0
    <2>1. k - 1 \in Nat /\ k - 1 \notin Bad
      BY <1>1, <1>3
    <2>2. PICK h : Flattens(k - 1, c, h)
      BY <2>1
    <2> DEFINE g == [i \in 1..k |-> IF i = k THEN (IF k = 1 THEN c[1] ELSE h[k - 1] \o c[k])
                                    ELSE h[i]]
    <2>3. ASSUME NEW i \in 1..k PROVE g[i] = IF i = 1 THEN c[i] ELSE g[i - 1] \o c[i]
      <3>1. \A x \in 1..(k - 1) : h[x] = IF x = 1 THEN c[x] ELSE h[x - 1] \o c[x]
        BY <2>2 DEF Flattens
      <3>2. CASE i = k /\ k = 1
        BY <3>2
      <3>3. CASE i = k /\ k # 1
        <4>1. k - 1 \in 1..k /\ k - 1 # k /\ g[k - 1] = h[k - 1]
          BY <1>3, <3>3
        <4> QED
          BY <3>3, <4>1
      <3>4. CASE i # k
        <4>1. i \in 1..(k - 1) /\ g[i] = h[i]
          BY <3>4
        <4>2. i # 1 => g[i - 1] = h[i - 1]
          BY <3>4
        <4> HIDE DEF g
        <4> QED
          BY <3>1, <4>1, <4>2
      <3> QED
        BY <3>2, <3>3, <3>4
    <2>4. g = [i \in 1..k |-> g[i]]
      OBVIOUS
    <2> HIDE DEF g
    <2>5. Flattens(k, c, g)
      BY <2>3, <2>4 DEF Flattens
    <2> QED
      BY <2>5
  <1> QED
    BY <1>2, <1>3

\* Flatten solves it.
LEMMA FlattenDefined ==
    ASSUME NEW c, Len(c) \in Nat
    PROVE  Flattens(Len(c), c, Flatten(c))
  <1>1. \E g : Flattens(Len(c), c, g)
    BY FlattenExists
  <1> QED
    BY <1>1 DEF Flattens, Flatten

\* Putting two sequences together.
LEMMA ConcatIs ==
    ASSUME NEW S, NEW p \in Seq(S), NEW q \in Seq(S)
    PROVE  /\ p \o q \in Seq(S)
           /\ Len(p) \in Nat /\ Len(q) \in Nat /\ Len(p \o q) = Len(p) + Len(q)
           /\ \A i \in 1..Len(p) : (p \o q)[i] = p[i]
           /\ \A i \in 1..Len(q) : (p \o q)[Len(p) + i] = q[i]
  OBVIOUS

\* The first k sequences of c, put together.
UpTo(c, k) == IF k = 0 THEN <<>> ELSE Flatten(c)[k]

\* It grows by one sequence at a time, up to what FlattenSeq gives.
LEMMA UpToIs ==
    ASSUME NEW S, NEW c \in Seq(Seq(S)), Len(c) # 0
    PROVE  /\ FlattenSeq(c) = UpTo(c, Len(c))
           /\ \A k \in 0..Len(c) : UpTo(c, k) \in Seq(S)
           /\ \A k \in 1..Len(c) : UpTo(c, k) = UpTo(c, k - 1) \o c[k]
  <1> DEFINE n == Len(c)
  <1>1. Flattens(n, c, Flatten(c))
    BY FlattenDefined
  <1>2. FlattenSeq(c) = UpTo(c, n)
    BY DEF FlattenSeq, UpTo, Flatten
  <1>3. ASSUME NEW k \in 1..n
        PROVE  /\ c[k] \in Seq(S)
               /\ Flatten(c)[k] = IF k = 1 THEN c[k] ELSE Flatten(c)[k - 1] \o c[k]
    <2>1. c[k] \in Seq(S)
      OBVIOUS
    <2>2. Flatten(c)[k] = IF k = 1 THEN c[k] ELSE Flatten(c)[k - 1] \o c[k]
      BY <1>1, Zenon DEF Flattens
    <2> QED
      BY <2>1, <2>2
  <1>4. ASSUME NEW k \in 1..n PROVE UpTo(c, k) = UpTo(c, k - 1) \o c[k]
    <2>1. CASE k = 1
      <3>1. UpTo(c, k) = c[1] /\ UpTo(c, k - 1) = <<>> /\ c[1] \in Seq(S)
        BY <1>3, <2>1 DEF UpTo
      <3> QED
        BY <2>1, <3>1
    <2>2. CASE k # 1
      <3>1. k # 0 /\ k - 1 # 0
        BY <2>2
      <3>2. UpTo(c, k) = Flatten(c)[k] /\ UpTo(c, k - 1) = Flatten(c)[k - 1]
        BY <3>1, Zenon DEF UpTo
      <3>3. Flatten(c)[k] = Flatten(c)[k - 1] \o c[k]
        BY <1>3, <2>2, Zenon
      <3> QED
        BY <3>2, <3>3, Zenon
    <2> QED
      BY <2>1, <2>2
  <1> DEFINE Bad == {k \in Nat : k <= n /\ UpTo(c, k) \notin Seq(S)}
  <1>5. ASSUME Bad # {} PROVE FALSE
    <2>1. PICK k \in Bad : \A j \in Bad : k <= j
      BY <1>5, Smallest
    <2>2. k # 0
      BY <2>1 DEF UpTo
    <2>3. k - 1 \in Nat /\ UpTo(c, k - 1) \in Seq(S) /\ k \in 1..n
      BY <2>1, <2>2
    <2>4. UpTo(c, k) \in Seq(S)
      <3>1. UpTo(c, k) = UpTo(c, k - 1) \o c[k] /\ c[k] \in Seq(S)
        BY <1>3, <1>4, <2>3
      <3>2. UpTo(c, k - 1) \o c[k] \in Seq(S)
        BY <2>3, <3>1, ConcatIs
      <3> QED
        BY <3>1, <3>2
    <2> QED
      BY <2>1, <2>4
  <1>6. \A k \in 0..n : UpTo(c, k) \in Seq(S)
    BY <1>5
  <1> QED
    BY <1>2, <1>4, <1>6

\* What the first of the sequences begin with, all of them begin with.
LEMMA UpToBegins ==
    ASSUME NEW S, NEW c \in Seq(Seq(S)), Len(c) # 0, NEW j \in 0..Len(c), NEW p \in Seq(S),
           Begins(p, UpTo(c, j))
    PROVE  Begins(p, UpTo(c, Len(c)))
  <1> DEFINE Bad == {k \in Nat : j <= k /\ k <= Len(c) /\ ~ Begins(p, UpTo(c, k))}
  <1>1. ASSUME Bad # {} PROVE FALSE
    <2>1. PICK k \in Bad : \A i \in Bad : k <= i
      BY <1>1, Smallest
    <2>2. k # j /\ k \in 1..Len(c) /\ k - 1 \in 0..Len(c) /\ k - 1 \notin Bad
      BY <2>1
    <2>3. Begins(p, UpTo(c, k - 1))
      BY <2>1, <2>2
    <2>4. UpTo(c, k - 1) \in Seq(S) /\ UpTo(c, k) = UpTo(c, k - 1) \o c[k]
      BY <2>2, UpToIs
    <2>5. c[k] \in Seq(S)
      BY <2>2
    <2>6. ASSUME NEW q1 \in Seq(S), NEW q2 \in Seq(S), Begins(p, q1)
          PROVE  Begins(p, q1 \o q2)
      <3>1. Len(p) <= Len(q1 \o q2)
        BY <2>6, ConcatIs DEF Begins
      <3>2. \A i \in 1..Len(p) : i \in 1..Len(q1) /\ p[i] = q1[i]
        BY <2>6, ConcatIs DEF Begins
      <3>3. \A i \in 1..Len(p) : p[i] = (q1 \o q2)[i]
        BY <3>2, ConcatIs
      <3> QED
        BY <3>1, <3>3 DEF Begins
    <2>7. Begins(p, UpTo(c, k - 1) \o c[k])
      BY <2>3, <2>4, <2>5, <2>6
    <2> QED
      BY <2>1, <2>4, <2>7
  <1>2. Len(c) \in Nat /\ j <= Len(c) /\ Len(c) <= Len(c)
    OBVIOUS
  <1>3. Len(c) \notin Bad
    BY <1>1, Zenon
  <1> QED
    BY <1>2, <1>3, Zenon

-----------------------------------------------------------------------------
(* The inventory *)

Chunks(s) == [f \in Files |-> Chunk(s, f)]
Texts == Files \X Nat

Recon == [workers : Nat, next : 1..(NumFiles + 1), collected : Seq(Texts), truncated : BOOLEAN]

\* The inventory so far: all of the files before the next one, or, once cut,
\* a beginning of all there is.
Honest(s) ==
    /\ Len(recon[s].collected) <= Cap
    /\ phase[s] \notin Scanned => /\ recon[s].collected = <<>> /\ recon[s].next = 1
                                  /\ ~ recon[s].truncated
    /\ IF recon[s].truncated
       THEN /\ recon[s].next = NumFiles + 1
            /\ Begins(recon[s].collected, UpTo(Chunks(s), NumFiles))
       ELSE recon[s].collected = UpTo(Chunks(s), recon[s].next - 1)
    /\ phase[s] \in {"delivered", "correlated"} => recon[s].next = NumFiles + 1

ReconInv == recon \in [Scans -> Recon] /\ \A s \in Scans : Honest(s)

\* The strings of the files are a sequence of sequences.
LEMMA ChunksType ==
    ASSUME NEW s \in Scans
    PROVE  /\ Chunks(s) \in Seq(Seq(Texts)) /\ Len(Chunks(s)) = NumFiles
           /\ NumFiles \in Nat \ {0}
           /\ \A f \in Files : Chunks(s)[f] = Chunk(s, f) /\ Chunk(s, f) \in Seq(Texts)
  <1>1. ASSUME NEW f \in Files PROVE Chunk(s, f) \in Seq(Texts)
    <2>1. Strings[f] \in Nat
      BY CapAssumption
    <2>2. [i \in 1..Strings[f] |-> <<f, i>>] \in Seq(Texts)
      BY <2>1 DEF Texts
    <2> QED
      BY <2>2 DEF Chunk
  <1>2. NumFiles \in Nat \ {0}
    BY FilesAssumption
  <1> QED
    BY <1>1, <1>2 DEF Chunks, Files

\* An inventory that is as it was stays honest.
LEMMA HonestKept ==
    ASSUME NEW t \in Scans, Honest(t), recon'[t] = recon[t], evidence'[t] = evidence[t],
           phase'[t] \notin Scanned <=> phase[t] \notin Scanned,
           phase'[t] \in {"delivered", "correlated"} => phase[t] \in {"delivered", "correlated"}
    PROVE  Honest(t)'
  <1>1. Chunks(t)' = Chunks(t)
    BY DEF Chunks, Chunk
  <1> QED
    BY <1>1 DEF Honest

\* A file that fits is taken whole; of one that does not, what fits, and the
\* inventory is marked.
LEMMA Absorbed ==
    ASSUME ReconInv, NEW s \in Scans, Absorb(s)
    PROVE  recon'[s] \in Recon /\ Honest(s)'
  <1> DEFINE k == recon[s].next
             chunk == Chunk(s, k)
             old == recon[s].collected
             size == IF Len(chunk) <= Room(s) THEN Len(chunk) ELSE Room(s)
             part == SubSeq(chunk, 1, size)
             new == recon'[s]
  <1>1. /\ k \in Files /\ old \in Seq(Texts) /\ Len(old) <= Cap /\ ~ recon[s].truncated
        /\ old = UpTo(Chunks(s), k - 1) /\ phase[s] = "scanned" /\ recon[s] \in Recon
    BY FilesAssumption DEF ReconInv, Recon, Honest, Absorb, Files
  <1>2. /\ Chunks(s) \in Seq(Seq(Texts)) /\ Len(Chunks(s)) = NumFiles /\ Len(Chunks(s)) # 0
        /\ NumFiles \in Nat /\ Chunks(s)[k] = chunk /\ chunk \in Seq(Texts)
    BY <1>1, ChunksType
  <1>3. Len(old) \in Nat /\ Len(chunk) \in Nat /\ Room(s) \in Nat /\ Room(s) = Cap - Len(old)
    BY <1>1, <1>2, CapAssumption DEF Room
  <1>4. new = [recon[s] EXCEPT !.collected = old \o part,
                               !.next = IF Fits(s, chunk) THEN k + 1 ELSE NumFiles + 1,
                               !.truncated = ~ Fits(s, chunk)]
    BY <1>1 DEF Absorb, ReconInv
  <1>5. /\ new.workers = recon[s].workers /\ new.collected = old \o part
        /\ new.next = IF Fits(s, chunk) THEN k + 1 ELSE NumFiles + 1
        /\ new.truncated = ~ Fits(s, chunk)
        /\ new = [workers |-> new.workers, next |-> new.next, collected |-> new.collected,
                  truncated |-> new.truncated]
    BY <1>1, <1>4 DEF Recon
  <1>6. UNCHANGED <<phase, evidence>>
    BY DEF Absorb
  <1>7. Chunks(s)' = Chunks(s)
    BY <1>6 DEF Chunks, Chunk
  <1> HIDE DEF chunk
  <1>8. /\ part \in Seq(Texts) /\ Len(part) = size /\ size \in 0..Len(chunk) /\ size <= Room(s)
        /\ \A i \in 1..size : part[i] = chunk[i]
    BY <1>2, <1>3
  <1> HIDE DEF part, size
  <1>9. /\ old \o part \in Seq(Texts) /\ Len(old \o part) = Len(old) + size
        /\ \A i \in 1..Len(old) : (old \o part)[i] = old[i]
        /\ \A i \in 1..size : (old \o part)[Len(old) + i] = part[i]
    <2>1. \A p, q \in Seq(Texts) :
            /\ p \o q \in Seq(Texts) /\ Len(p \o q) = Len(p) + Len(q)
            /\ \A i \in 1..Len(p) : (p \o q)[i] = p[i]
            /\ \A i \in 1..Len(q) : (p \o q)[Len(p) + i] = q[i]
      BY ConcatIs
    <2>2. old \in Seq(Texts) /\ part \in Seq(Texts) /\ Len(part) = size
      BY <1>1, <1>8
    <2> HIDE DEF old
    <2>3. /\ old \o part \in Seq(Texts) /\ Len(old \o part) = Len(old) + Len(part)
          /\ \A i \in 1..Len(old) : (old \o part)[i] = old[i]
          /\ \A i \in 1..Len(part) : (old \o part)[Len(old) + i] = part[i]
      BY <2>1, <2>2, Zenon
    <2> QED
      BY <2>2, <2>3, Zenon
  <1>10. /\ UpTo(Chunks(s), k) = old \o chunk
         /\ k \in 1..Len(Chunks(s)) /\ k \in 0..Len(Chunks(s))
    <2>1. k \in 1..Len(Chunks(s)) /\ k \in 0..Len(Chunks(s))
      BY <1>1, <1>2 DEF Files
    <2> HIDE DEF k, old
    <2>2. UpTo(Chunks(s), k) = UpTo(Chunks(s), k - 1) \o Chunks(s)[k]
      BY <1>2, <2>1, UpToIs
    <2> QED
      BY <1>1, <1>2, <2>1, <2>2
  <1>11. /\ old \o chunk \in Seq(Texts) /\ Len(old \o chunk) = Len(old) + Len(chunk)
         /\ \A i \in 1..Len(old) : (old \o chunk)[i] = old[i]
         /\ \A i \in 1..Len(chunk) : (old \o chunk)[Len(old) + i] = chunk[i]
    BY <1>1, <1>2, ConcatIs
  <1> HIDE DEF new, old, k
  <1>12. Len(old \o part) <= Cap
    BY <1>3, <1>8, <1>9, CapAssumption
  <1>13. new \in Recon
    <2>1. new.next \in 1..(NumFiles + 1) /\ new.truncated \in BOOLEAN
      BY <1>1, <1>2, <1>5 DEF Files
    <2>2. new.workers \in Nat /\ new.collected \in Seq(Texts)
      BY <1>1, <1>5, <1>9 DEF Recon
    <2> QED
      BY <1>5, <2>1, <2>2 DEF Recon
  <1>14. CASE Fits(s, chunk)
    <2>1. Len(chunk) <= Room(s)
      BY <1>14 DEF Fits
    <2>2. part = chunk
      <3>1. size = Len(chunk)
        BY <1>3, <2>1 DEF size
      <3> QED
        BY <1>2, <1>8, <3>1
    <2>3. new.collected = UpTo(Chunks(s), k) /\ ~ new.truncated /\ new.next = k + 1
      BY <1>5, <1>10, <1>14, <2>2
    <2>4. (k + 1) - 1 = k
      BY <1>10
    <2> QED
      BY <1>1, <1>6, <1>7, <1>12, <1>13, <1>5, <2>3, <2>4 DEF Honest, new, Scanned
  <1>15. CASE ~ Fits(s, chunk)
    <2>1. Begins(old \o part, UpTo(Chunks(s), k))
      <3>1. Len(old \o part) <= Len(old \o chunk)
        BY <1>3, <1>8, <1>9, <1>11
      <3>2. ASSUME NEW i \in 1..Len(old \o part) PROVE (old \o part)[i] = (old \o chunk)[i]
        <4>1. CASE i <= Len(old)
          BY <1>3, <1>9, <1>11, <4>1
        <4>2. CASE i > Len(old)
          <5> DEFINE j == i - Len(old)
          <5>1. j \in 1..size /\ j \in 1..Len(chunk) /\ i = Len(old) + j
            BY <1>3, <1>8, <1>9, <4>2
          <5> HIDE DEF j
          <5> QED
            BY <1>8, <1>9, <1>11, <5>1
        <4>3. i <= Len(old) \/ i > Len(old)
          <5>1. i \in Int /\ Len(old) \in Int
            BY <1>3
          <5> QED
            BY <5>1
        <4> QED
          BY <4>1, <4>2, <4>3, Zenon
      <3> QED
        BY <1>10, <3>1, <3>2 DEF Begins
    <2>2. Begins(old \o part, UpTo(Chunks(s), NumFiles))
      BY <1>2, <1>9, <1>10, <2>1, UpToBegins
    <2>3. new.collected = old \o part /\ new.truncated /\ new.next = NumFiles + 1
      BY <1>5, <1>15
    <2> QED
      BY <1>1, <1>6, <1>7, <1>12, <1>13, <2>2, <2>3 DEF Honest, new, Scanned
  <1> QED
    BY <1>14, <1>15

\* Starting over leaves nothing behind: the inventory is empty and whole so far.
LEMMA FreshHonest ==
    ASSUME NEW s \in Scans, recon'[s].collected = <<>>, recon'[s].next = 1,
           ~ recon'[s].truncated, phase'[s] \notin {"delivered", "correlated"}
    PROVE  Honest(s)'
  <1>1. Len(recon'[s].collected) <= Cap
    BY CapAssumption
  <1>2. recon'[s].collected = UpTo(Chunks(s)', recon'[s].next - 1)
    BY DEF UpTo
  <1> QED
    BY <1>1, <1>2 DEF Honest, UpTo

\* Each step of a scan leaves every inventory honest.
LEMMA ReconStep == TypeInv /\ ReconInv /\ [Next]_vars => ReconInv'
  <1> SUFFICES ASSUME TypeInv, ReconInv, [Next]_vars PROVE ReconInv'
    OBVIOUS
  <1>0. recon \in [Scans -> Recon] /\ phase \in [Scans -> Phases] /\ \A s \in Scans : Honest(s)
    BY DEF TypeInv, ReconInv
  <1>e. evidence \in [Scans -> [items : SUBSET Items, unread : SUBSET Files]]
    BY DEF TypeInv
  <1>k. ASSUME UNCHANGED <<recon, evidence>>,
               \A t \in Scans :
                   /\ phase'[t] \notin Scanned <=> phase[t] \notin Scanned
                   /\ phase'[t] \in {"delivered", "correlated"}
                      => phase[t] \in {"delivered", "correlated"}
        PROVE  ReconInv'
    <2>1. \A t \in Scans : Honest(t)'
      BY <1>0, <1>k, HonestKept
    <2> QED
      BY <1>0, <1>k, <2>1 DEF ReconInv
  <1>o. ASSUME NEW s \in Scans, recon' = [recon EXCEPT ![s] = recon'[s]],
               recon'[s] \in Recon, Honest(s)',
               \A t \in Scans : t # s => /\ phase'[t] = phase[t]
                                         /\ evidence'[t] = evidence[t]
        PROVE  ReconInv'
    <2>1. \A t \in Scans : t # s => recon'[t] = recon[t]
      BY <1>0, <1>o
    <2>2. \A t \in Scans : Honest(t)'
      BY <1>0, <1>o, <2>1, HonestKept
    <2>3. recon' \in [Scans -> Recon]
      BY <1>0, <1>o
    <2> QED
      BY <2>2, <2>3 DEF ReconInv
  <1>1. ASSUME NEW s \in Scans, Load(s) \/ Stage(s) \/ Index(s) \/ Correlate(s) PROVE ReconInv'
    BY <1>0, <1>1, <1>k DEF Load, Stage, Index, Correlate, Go, Scanned
  <1>2. ASSUME NEW s \in Scans, ScanAll(s) PROVE ReconInv'
    <2>1. phase[s] = "indexed" /\ phase' = [phase EXCEPT ![s] = "scanned"]
      BY <1>2 DEF ScanAll, Go
    <2>2. PICK workers \in {1, 2} : recon' = [recon EXCEPT ![s].workers = workers]
      BY <1>2 DEF ScanAll
    <2>3. \A t \in Scans : t # s => phase'[t] = phase[t] /\ evidence'[t] = evidence[t]
      BY <1>0, <1>e, <1>2, <2>1 DEF ScanAll
    <2>4. /\ recon'[s] = [recon[s] EXCEPT !.workers = workers]
          /\ recon' = [recon EXCEPT ![s] = recon'[s]]
      BY <1>0, <2>2
    <2>5. /\ recon[s] \in Recon /\ recon[s].collected = <<>> /\ recon[s].next = 1
          /\ ~ recon[s].truncated
      BY <1>0, <2>1 DEF Honest, Scanned
    <2>6. /\ recon'[s] \in Recon /\ recon'[s].collected = <<>> /\ recon'[s].next = 1
          /\ ~ recon'[s].truncated
      BY <2>4, <2>5 DEF Recon
    <2>7. Honest(s)'
      BY <1>0, <2>1, <2>6, FreshHonest
    <2> QED
      BY <1>o, <2>3, <2>4, <2>6, <2>7
  <1>3. ASSUME NEW s \in Scans, Absorb(s) PROVE ReconInv'
    <2>1. recon'[s] \in Recon /\ Honest(s)'
      BY <1>3, Absorbed
    <2>2. recon' = [recon EXCEPT ![s] = recon'[s]]
      BY <1>0, <1>3 DEF Absorb
    <2> QED
      BY <1>3, <1>o, <2>1, <2>2 DEF Absorb
  <1>4. ASSUME NEW s \in Scans, PoolBreaks(s) PROVE ReconInv'
    <2>1. recon' = [recon EXCEPT ![s] = NoRecon] /\ UNCHANGED <<phase, evidence>>
      BY <1>4 DEF PoolBreaks, StartOver
    <2>2. NoRecon \in Recon
      BY FilesAssumption DEF NoRecon, Recon
    <2>3. recon'[s] = NoRecon /\ phase'[s] = "scanned"
      BY <1>0, <1>4, <2>1 DEF PoolBreaks
    <2>4. Honest(s)'
      BY <2>3, FreshHonest DEF NoRecon
    <2> QED
      BY <1>o, <2>1, <2>2, <2>3, <2>4
  <1>5. ASSUME NEW s \in Scans, Deliver(s) PROVE ReconInv'
    <2>1. /\ phase[s] = "scanned" /\ phase' = [phase EXCEPT ![s] = "delivered"]
          /\ recon' = [recon EXCEPT ![s].workers = 1] /\ evidence' = evidence
          /\ recon[s].next \notin Files
      BY <1>5 DEF Deliver, Go
    <2>2. recon[s] \in Recon /\ recon[s].next = NumFiles + 1
      <3>1. recon[s].next \in 1..(NumFiles + 1) /\ NumFiles \in Nat /\ recon[s] \in Recon
        BY <1>0, FilesAssumption DEF Recon
      <3> QED
        BY <2>1, <3>1 DEF Files
    <2>3. /\ recon'[s] = [recon[s] EXCEPT !.workers = 1]
          /\ recon' = [recon EXCEPT ![s] = recon'[s]]
      BY <1>0, <2>1
    <2>4. /\ recon'[s].collected = recon[s].collected /\ recon'[s].next = recon[s].next
          /\ recon'[s].truncated = recon[s].truncated /\ recon'[s] \in Recon
      BY <2>2, <2>3 DEF Recon
    <2>5. Chunks(s)' = Chunks(s)
      BY <2>1 DEF Chunks, Chunk
    <2>6. phase'[s] = "delivered"
      BY <1>0, <2>1
    <2>7. Honest(s)'
      BY <1>0, <2>1, <2>2, <2>4, <2>5, <2>6 DEF Honest, Scanned
    <2> QED
      BY <1>0, <1>o, <2>1, <2>3, <2>4, <2>7
  <1>6. CASE EditRules \/ Suppress \/ UNCHANGED vars
    BY <1>6, <1>k DEF EditRules, Suppress, vars
  <1> QED
    BY <1>1, <1>2, <1>3, <1>4, <1>5, <1>6 DEF Next, ScanStep

\* "The result says so rather than quietly reporting a partial inventory as a
\* complete one": however often the pool of run_recon breaks, what a scan delivers
\* is the strings of the files in their order, all of them or, marked so, the
\* first of them.
THEOREM InventoryIsHonest == Spec => []ReconIsHonest
  <1>1. Init => ReconInv
    <2> SUFFICES ASSUME Init PROVE ReconInv
      OBVIOUS
    <2>1. NoRecon \in Recon
      BY FilesAssumption DEF NoRecon, Recon
    <2>2. recon \in [Scans -> Recon]
      BY <2>1 DEF Init
    <2>3. ASSUME NEW s \in Scans PROVE Honest(s)
      BY <2>3, CapAssumption DEF Init, NoRecon, Honest, UpTo
    <2> QED
      BY <2>2, <2>3 DEF ReconInv
  <1>2. TypeInv /\ ReconInv /\ [Next]_vars => ReconInv'
    BY ReconStep
  <1>3. Inv => TypeInv
    BY DEF Inv
  <1>4. ReconInv => ReconIsHonest
    <2> SUFFICES ASSUME ReconInv, NEW s \in Scans, phase[s] \in {"delivered", "correlated"}
                 PROVE  /\ Len(recon[s].collected) <= Cap
                        /\ IsPrefix(recon[s].collected, AllStrings(s))
                        /\ ~recon[s].truncated => recon[s].collected = AllStrings(s)
      BY DEF ReconIsHonest
    <2>1. Honest(s) /\ recon[s].collected \in Seq(Texts)
      BY DEF ReconInv, Recon
    <2>2. /\ Chunks(s) \in Seq(Seq(Texts)) /\ Len(Chunks(s)) = NumFiles
          /\ NumFiles \in Nat \ {0} /\ Len(Chunks(s)) # 0
      BY ChunksType
    <2>3. AllStrings(s) = UpTo(Chunks(s), NumFiles) /\ UpTo(Chunks(s), NumFiles) \in Seq(Texts)
      <3>1. AllStrings(s) = FlattenSeq(Chunks(s))
        BY Zenon DEF AllStrings, Chunks
      <3>2. FlattenSeq(Chunks(s)) = UpTo(Chunks(s), Len(Chunks(s)))
        BY <2>2, UpToIs
      <3>3. UpTo(Chunks(s), NumFiles) \in Seq(Texts)
        <4>1. NumFiles \in 0..Len(Chunks(s))
          BY <2>2
        <4> QED
          BY <2>2, <4>1, UpToIs
      <3> QED
        BY <2>2, <3>1, <3>2, <3>3
    <2>4. (NumFiles + 1) - 1 = NumFiles
      BY <2>2
    <2>5. ~recon[s].truncated => recon[s].collected = AllStrings(s)
      BY <2>1, <2>3, <2>4 DEF Honest
    <2>6. Begins(recon[s].collected, AllStrings(s))
      BY <2>1, <2>3, <2>5 DEF Honest, Begins
    <2> QED
      BY <2>1, <2>3, <2>5, <2>6, PrefixIs DEF Honest
  <1> QED
    BY <1>1, <1>2, <1>3, <1>4, Invariance, PTL DEF Spec
=============================================================================
