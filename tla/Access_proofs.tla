---------------------------- MODULE Access_proofs ----------------------------
(***************************************************************************)
(* What holds of Access for any number of processes, handlers, shells,     *)
(* requests and tokens: what a process that serves can rely on, and what   *)
(* it takes to make a token that repeats another.                          *)
(***************************************************************************)
EXTENDS Access, SequenceTheorems, TLAPS

\* The length of the chain of revisions (versions/0001 to 0006).
LEMMA HeadIsSix == HeadRevision = 6 /\ HeadRevision \in Nat
BY DEF HeadRevision, Adds

\* upgrade_schema adds tables and columns of the chain and no others.
LEMMA MigratedType ==
    ASSUME NEW d \in SchemaType
    PROVE  Adopted(d) \in 0..HeadRevision /\ Migrated(d) \subseteq Needed
<1>1. Adopted(d) \in 0..HeadRevision BY HeadIsSix DEF Adopted, SchemaType
<1>2. (Adopted(d) + 1)..HeadRevision \subseteq 1..HeadRevision BY <1>1, HeadIsSix
<1>3. d.schema \subseteq Needed BY DEF SchemaType
<1> QED BY <1>1, <1>2, <1>3 DEF Migrated, Needed

\* After it, everything the mapped classes name is there.
LEMMA MigratedIsWhole ==
    ASSUME NEW d \in SchemaType, Complete(d)
    PROVE  Needed \subseteq Migrated(d)
<1>1. ASSUME NEW r \in 1..HeadRevision
      PROVE  Adds[r] \subseteq Migrated(d)
    <2>1. Adopted(d) \in 0..HeadRevision BY MigratedType
    <2>2. CASE r \in 1..Adopted(d) BY <2>2 DEF Complete, Migrated
    <2>3. CASE r \in (Adopted(d) + 1)..HeadRevision BY <2>3 DEF Migrated
    <2> QED BY <2>1, <2>2, <2>3, HeadIsSix
<1> QED BY <1>1 DEF Needed

-----------------------------------------------------------------------------
\* The variables stay in their sets.
THEOREM TypeCorrect == Spec => []TypeOK
<1> USE HeadIsSix
<1>1. Init => TypeOK
    <2> SUFFICES ASSUME Init PROVE TypeOK OBVIOUS
    <2>1. PICK d \in Databases : schema = d.schema /\ version = d.version BY DEF Init
    <2>2. d \in SchemaType BY DatabasesAssumption
    <2>3. schema \subseteq Needed /\ version \in 0..HeadRevision
        BY <2>1, <2>2 DEF SchemaType
    <2>4. NotFound \in SchemaType BY DEF NotFound, Database, SchemaType
    <2>5. tokens \in Seq(RowType) /\ revoked \subseteq Rows /\ expired \subseteq Rows
        BY DEF Init, Rows
    <2> QED BY <2>3, <2>4, <2>5 DEF Init, TypeOK
<1>2. TypeOK /\ [Next]_vars => TypeOK'
    <2> SUFFICES ASSUME TypeOK, [Next]_vars PROVE TypeOK' OBVIOUS
    <2> USE DEF TypeOK, Rows
    <2>1. ASSUME NEW p \in Services, UpgradeRead(p) PROVE TypeOK'
        <3>1. Database(schema, version) \in SchemaType BY DEF Database, SchemaType
        <3> QED BY <2>1, <3>1 DEF UpgradeRead, tokenVars
    <2>2. ASSUME NEW p \in Services, UpgradeCommit(p) PROVE TypeOK'
        <3>1. Migrated(found[p]) \subseteq Needed BY MigratedType
        <3>2. NotFound \in SchemaType BY DEF NotFound, Database, SchemaType
        <3> QED BY <2>2, <3>1, <3>2 DEF UpgradeCommit, tokenVars
    <2>3. ASSUME NEW p \in Services, UpgradeFails(p) PROVE TypeOK'
        <3>1. NotFound \in SchemaType BY DEF NotFound, Database, SchemaType
        <3> QED BY <2>3, <3>1 DEF UpgradeFails, tokenVars
    <2>4. ASSUME NEW p \in Services, Stop(p) PROVE TypeOK'
        BY <2>4 DEF Stop, tokenVars
    <2>5. ASSUME NEW h \in Handlers, BeginBootstrap(h) PROVE TypeOK'
        <3>1. Row(Bootstrap, "admin", FALSE, h, TRUE) \in RowType
            BY NamesAssumption DEF Row, RowType, ScopeColumn, Minters
        <3> QED BY <2>5, <3>1 DEF BeginBootstrap, Begin, schemaVars
    <2>6. ASSUME NEW o \in Operators, BeginCreate(o) PROVE TypeOK'
        <3>1. PICK name \in Names, scope \in Scopes, expires \in BOOLEAN :
                  Begin(o, Row(name, scope, expires, o, FALSE))
            BY <2>6 DEF BeginCreate
        <3>2. Row(name, scope, expires, o, FALSE) \in RowType
            BY ScopesAssumption DEF Row, RowType, Minters
        <3> QED BY <3>1, <3>2 DEF Begin, schemaVars
    <2>7. ASSUME NEW o \in Operators, NEW i \in Rows, Revoke(o, i) PROVE TypeOK'
        BY <2>7 DEF Revoke, schemaVars
    <2>8. ASSUME NEW m \in Minters, CommitMint(m) PROVE TypeOK'
        <3>1. minting[m] \in RowType BY <2>8 DEF CommitMint
        <3>2. tokens' \in Seq(RowType) /\ DOMAIN tokens \subseteq DOMAIN tokens'
            BY <2>8, <3>1, AppendProperties DEF CommitMint
        <3> QED BY <2>8, <3>2 DEF CommitMint, schemaVars
    <2>9. ASSUME NEW m \in Minters, AbortMint(m) PROVE TypeOK'
        BY <2>9 DEF AbortMint, schemaVars
    <2>10. ASSUME NEW i \in Rows, Expire(i) PROVE TypeOK'
        BY <2>10 DEF Expire, schemaVars
    <2>11. ASSUME NEW q \in Requests, Enter(q) PROVE TypeOK'
        <3>1. PICK needs \in {"ci", "admin"} : EnterAnonymous(q, needs) \/ EnterWithToken(q, needs)
            BY <2>11 DEF Enter
        <3> DEFINE Calls == [token : Nat, needs : {"ci", "admin"}]
        <3>2. ASSUME NEW t \in Nat PROVE Call(t, needs) \in Calls BY DEF Call
        <3>3. ASSUME NEW t \in Nat, serving' = [serving EXCEPT ![q] = Call(t, needs)]
              PROVE  serving' \in [Requests -> Calls \cup {Nobody}]
            <4> HIDE DEF Calls
            <4>1. Call(t, needs) \in Calls BY <3>2
            <4>2. serving \in [Requests -> Calls \cup {Nobody}] BY DEF Calls
            <4> QED BY <3>3, <4>1, <4>2
        <3>4. serving' \in [Requests -> Calls \cup {Nobody}]
            <4> HIDE DEF Calls, TypeOK
            <4>1. CASE EnterAnonymous(q, needs)
                <5>1. serving' = [serving EXCEPT ![q] = Call(0, needs)] /\ 0 \in Nat
                    BY <4>1 DEF EnterAnonymous
                <5> QED BY <3>3, <5>1
            <4>2. CASE EnterWithToken(q, needs)
                <5>1. PICK i \in Rows : serving' = [serving EXCEPT ![q] = Call(i, needs)]
                    BY <4>2 DEF EnterWithToken
                <5>2. i \in Nat BY DEF TypeOK
                <5> QED BY <3>3, <5>1, <5>2
            <4> QED BY <3>1, <4>1, <4>2
        <3> QED BY <2>11, <3>4 DEF Enter, schemaVars, tokenVars
    <2>12. ASSUME NEW q \in Requests, Leave(q) PROVE TypeOK'
        BY <2>12 DEF Leave, schemaVars, tokenVars
    <2>13. CASE UNCHANGED vars BY <2>13 DEF vars, schemaVars, tokenVars
    <2> QED
        BY <2>1, <2>2, <2>3, <2>4, <2>5, <2>6, <2>7, <2>8, <2>9, <2>10, <2>11, <2>12, <2>13
        DEF Next, ServiceStep, OperatorStep, MintEnds, RequestStep
<1> QED BY <1>1, <1>2, PTL DEF Spec

-----------------------------------------------------------------------------
(* Serving on the head revision *)

\* What is there is what the version says, in the database and in what a process
\* that migrates has read of it.
Sound ==
    /\ Complete(Database(schema, version))
    /\ \A p \in Services : phase[p] = "migrating" => Complete(found[p])
    /\ ServesOnHead

\* A database at the head that is complete has everything.
LEMMA HeadIsWhole ==
    ASSUME NEW s \in SUBSET Needed, Needed \subseteq s
    PROVE  Complete(Database(s, HeadRevision))
BY HeadIsSix DEF Complete, Adopted, Database, Needed

\* A process that serves (main.py's lifespan: "an upgraded deployment cannot
\* serve against a schema older than its code") has every table and column its
\* queries name, whichever database it found and whoever migrated beside it.
THEOREM ServingIsCurrent == Spec => []ServesOnHead
<1> USE HeadIsSix
<1>1. Init => Sound
    <2> SUFFICES ASSUME Init PROVE Sound OBVIOUS
    <2>1. PICK d \in Databases : schema = d.schema /\ version = d.version BY DEF Init
    <2>2. Database(schema, version) = d BY <2>1, DatabasesAssumption DEF Database, SchemaType
    <2>3. Complete(Database(schema, version)) BY <2>2, DatabasesAssumption
    <2> QED BY <2>3 DEF Init, Sound, ServesOnHead
<1>2. TypeOK /\ Sound /\ [Next]_vars => Sound'
    <2> SUFFICES ASSUME TypeOK, Sound, [Next]_vars PROVE Sound' OBVIOUS
    <2> USE DEF Sound, ServesOnHead
    <2>1. ASSUME NEW p \in Services, UpgradeRead(p) PROVE Sound'
        BY <2>1 DEF UpgradeRead, TypeOK
    <2>2. ASSUME NEW p \in Services, UpgradeCommit(p) PROVE Sound'
        <3>1. found[p] \in SchemaType /\ Complete(found[p]) BY <2>2 DEF UpgradeCommit, TypeOK
        <3>2. Needed \subseteq schema' /\ version' = HeadRevision
            BY <2>2, <3>1, MigratedIsWhole DEF UpgradeCommit
        <3>3. schema' \in SUBSET Needed
            BY <2>2, <3>1, MigratedType DEF UpgradeCommit, TypeOK
        <3>4. Complete(Database(schema', version')) BY <3>2, <3>3, HeadIsWhole
        <3>5. Complete(Database(schema, version))' BY <3>4 DEF Complete, Database, Adopted
        <3>6. \A q \in Services : phase'[q] = "migrating" => Complete(found'[q])
            BY <2>2 DEF UpgradeCommit, TypeOK
        <3> QED BY <3>2, <3>5, <3>6
    <2>3. ASSUME NEW p \in Services, UpgradeFails(p) PROVE Sound'
        BY <2>3 DEF UpgradeFails, TypeOK
    <2>4. ASSUME NEW p \in Services, Stop(p) PROVE Sound'
        BY <2>4 DEF Stop, TypeOK
    <2>5. CASE UNCHANGED schemaVars BY <2>5 DEF schemaVars
    <2> QED
        BY <2>1, <2>2, <2>3, <2>4, <2>5
        DEF Next, ServiceStep, OperatorStep, MintEnds, RequestStep, BeginBootstrap, BeginCreate,
            Begin, Revoke, CommitMint, AbortMint, Expire, Enter, Leave, vars
<1> QED BY <1>1, <1>2, TypeCorrect, PTL DEF Spec, Sound

-----------------------------------------------------------------------------
(* Races between minters *)

\* What a minter is about to commit repeats nothing it found, and it has itself
\* committed nothing since it looked.
PendingIsNew ==
    \A m \in Minters : minting[m] # Nobody =>
        /\ minting[m].by = m /\ minting[m].found <= Len(tokens)
        /\ \A i \in Rows : i <= minting[m].found =>
            /\ ~(tokens[i].boot /\ minting[m].boot)
            /\ tokens[i].name = minting[m].name => i \in revoked
        /\ \A i \in Rows : tokens[i].by = m => i <= minting[m].found

\* The route mints only into an empty table, and create_token refuses a name that
\* is in use: a second bootstrap token, or a second active token of a name, comes
\* only of two minters at once, however many there are and whatever is revoked.
THEOREM RepeatsAreRaces == Spec => []OnlyARaceRepeats
<1>1. Init => OnlyARaceRepeats /\ PendingIsNew
    BY DEF Init, OnlyARaceRepeats, PendingIsNew, Rows
<1>2. TypeOK /\ OnlyARaceRepeats /\ PendingIsNew /\ [Next]_vars
          => (OnlyARaceRepeats /\ PendingIsNew)'
    <2> SUFFICES ASSUME TypeOK, OnlyARaceRepeats, PendingIsNew, [Next]_vars
                 PROVE  OnlyARaceRepeats' /\ PendingIsNew'
        OBVIOUS
    <2>0. Rows = 1..Len(tokens) /\ Len(tokens) \in Nat
        BY DEF Rows, TypeOK
    <2>1. ASSUME NEW m \in Minters, NEW row \in RowType, Begin(m, row), row.by = m,
                 row.found = Len(tokens), row.boot => tokens = <<>>
          PROVE  OnlyARaceRepeats' /\ PendingIsNew'
        <3>1. tokens' = tokens /\ revoked' = revoked /\ minting' = [minting EXCEPT ![m] = row]
            BY <2>1 DEF Begin
        <3>2. \A i \in Rows : tokens[i].name = row.name => i \in revoked
            BY <2>1 DEF Begin, NameTaken
        <3>3. \A i \in Rows : ~row.boot /\ i <= row.found BY <2>0, <2>1
        <3>4. OnlyARaceRepeats' BY <3>1 DEF OnlyARaceRepeats, Rows
        <3>5. PendingIsNew'
            BY <2>1, <3>1, <3>2, <3>3 DEF PendingIsNew, Rows, TypeOK
        <3> QED BY <3>4, <3>5
    <2>2. ASSUME NEW h \in Handlers, BeginBootstrap(h) PROVE OnlyARaceRepeats' /\ PendingIsNew'
        <3> DEFINE row == Row(Bootstrap, "admin", FALSE, h, TRUE)
        <3>1. row \in RowType /\ row.by = h /\ row.found = Len(tokens)
            BY <2>0, NamesAssumption DEF Row, RowType, ScopeColumn, Minters
        <3>2. Begin(h, row) /\ tokens = <<>> BY <2>2 DEF BeginBootstrap, TokensExist
        <3> HIDE DEF row
        <3> QED BY <2>1, <3>1, <3>2 DEF Minters
    <2>3. ASSUME NEW o \in Operators, BeginCreate(o) PROVE OnlyARaceRepeats' /\ PendingIsNew'
        <3>1. PICK name \in Names, scope \in Scopes, expires \in BOOLEAN :
                  Begin(o, Row(name, scope, expires, o, FALSE))
            BY <2>3 DEF BeginCreate
        <3> DEFINE row == Row(name, scope, expires, o, FALSE)
        <3>2. row \in RowType /\ row.by = o /\ ~row.boot /\ row.found = Len(tokens)
            BY <2>0, ScopesAssumption DEF Row, RowType, Minters
        <3>3. Begin(o, row) BY <3>1
        <3> HIDE DEF row
        <3> QED BY <2>1, <3>2, <3>3 DEF Minters
    <2>4. ASSUME NEW m \in Minters, CommitMint(m) PROVE OnlyARaceRepeats' /\ PendingIsNew'
        <3> DEFINE n == Len(tokens) + 1
        <3>1. minting[m] \in RowType /\ minting[m].by = m
            BY <2>4 DEF CommitMint, PendingIsNew, TypeOK
        <3>2. /\ DOMAIN tokens' = Rows \cup {n} /\ n \notin Rows
              /\ tokens'[n] = minting[m] /\ \A i \in Rows : tokens'[i] = tokens[i]
            BY <2>4, <3>1 DEF CommitMint, Rows, TypeOK
        <3>3. revoked' = revoked /\ minting' = [minting EXCEPT ![m] = Nobody]
            BY <2>4 DEF CommitMint
        <3>4. /\ \A i \in Rows : i <= minting[m].found =>
                  /\ ~(tokens[i].boot /\ minting[m].boot)
                  /\ tokens[i].name = minting[m].name => i \in revoked
              /\ \A i \in Rows : tokens[i].by = m => i <= minting[m].found
            BY <2>4 DEF CommitMint, PendingIsNew
        <3>5. Rows' = Rows \cup {n} BY <3>2 DEF Rows
        <3>6. OnlyARaceRepeats'
            <4> SUFFICES ASSUME NEW i \in Rows', NEW j \in Rows', i < j,
                                \/ tokens'[i].boot /\ tokens'[j].boot
                                \/ /\ tokens'[i].name = tokens'[j].name
                                   /\ i \notin revoked' /\ j \notin revoked'
                         PROVE  tokens'[j].found < i /\ tokens'[j].by # tokens'[i].by
                BY DEF OnlyARaceRepeats
            <4>1. i \in Rows BY <2>0, <3>5
            <4>2. CASE j \in Rows BY <4>1, <4>2, <3>2, <3>3 DEF OnlyARaceRepeats
            <4>3. CASE j = n
                <5>1. ~(i <= minting[m].found) BY <4>1, <4>3, <3>2, <3>3, <3>4
                <5>2. minting[m].found \in Nat /\ i \in Nat BY <2>0, <3>1, <4>1 DEF RowType
                <5>3. tokens[i].by # m BY <5>1, <4>1, <3>4
                <5> QED BY <5>1, <5>2, <5>3, <4>1, <4>3, <3>1, <3>2
            <4> QED BY <4>2, <4>3, <3>5
        <3>7. ASSUME NEW k \in Minters, minting'[k] # Nobody
              PROVE  /\ minting'[k].by = k /\ minting'[k].found <= Len(tokens')
                     /\ \A i \in Rows' : i <= minting'[k].found =>
                         /\ ~(tokens'[i].boot /\ minting'[k].boot)
                         /\ tokens'[i].name = minting'[k].name => i \in revoked'
                     /\ \A i \in Rows' : tokens'[i].by = k => i <= minting'[k].found
            <4>1. k # m /\ minting'[k] = minting[k] BY <3>3, <3>7 DEF TypeOK
            <4>2. tokens'[n].by # k BY <3>1, <3>2, <4>1
            <4>3. minting[k].found \in Nat /\ minting[k].found <= Len(tokens)
                BY <3>7, <4>1 DEF TypeOK, RowType, PendingIsNew
            <4>4. ~(n <= minting[k].found) BY <2>0, <4>3
            <4>5. Len(tokens') = n BY <2>0, <2>4, <3>1 DEF CommitMint, TypeOK
            <4>6. minting'[k].found <= Len(tokens') BY <2>0, <4>1, <4>3, <4>5
            <4> QED BY <3>2, <3>3, <3>5, <3>7, <4>1, <4>2, <4>4, <4>6 DEF PendingIsNew
        <3> QED BY <3>6, <3>7 DEF PendingIsNew
    <2>5. ASSUME NEW m \in Minters, AbortMint(m) PROVE OnlyARaceRepeats' /\ PendingIsNew'
        BY <2>5 DEF AbortMint, OnlyARaceRepeats, PendingIsNew, Rows, TypeOK
    <2>6. ASSUME NEW o \in Operators, NEW i \in Rows, Revoke(o, i)
          PROVE  OnlyARaceRepeats' /\ PendingIsNew'
        BY <2>6 DEF Revoke, OnlyARaceRepeats, PendingIsNew, Rows
    <2>7. CASE UNCHANGED <<tokens, revoked, minting>>
        BY <2>7 DEF OnlyARaceRepeats, PendingIsNew, Rows
    <2> QED
        BY <2>2, <2>3, <2>4, <2>5, <2>6, <2>7
        DEF Next, ServiceStep, OperatorStep, MintEnds, RequestStep, UpgradeRead, UpgradeCommit,
            UpgradeFails, Stop, Expire, Enter, Leave, tokenVars, vars
<1> QED BY <1>1, <1>2, TypeCorrect, PTL DEF Spec
=============================================================================
