------------------------------- MODULE Access -------------------------------
(***************************************************************************)
(* Coming up and being let in: API processes bring the database to the     *)
(* head revision and serve; the first administrator is made through the    *)
(* setup route, other credentials through `bare token` on the server; and  *)
(* every request is let in or refused by the row of the token it presents. *)
(*                                                                         *)
(* A process reads in a transaction and commits later, and nothing but the *)
(* unique hash of a token constrains the table, so whatever was checked    *)
(* may have ceased to hold by the commit.  Migrations are transactional:   *)
(* all of them commit, or none.  A token's plaintext is its position here; *)
(* hashes, prefixes, usage counters and audit rows are left out.           *)
(***************************************************************************)
EXTENDS Naturals, Sequences, FiniteSets

CONSTANTS
    Services,       \* processes of the API
    Handlers,       \* threads of theirs that answer the setup route
    Operators,      \* shells on the server in which `bare token` is run
    Requests,       \* requests that may be in flight at once
    Names,          \* the labels tokens are given
    Bootstrap,      \* BOOTSTRAP_TOKEN_NAME
    Scopes,         \* the scopes explored, a subset of ScopeColumn
    Databases,      \* the databases the deployment may find, as below
    MaxTokens,      \* bound on the rows of api_tokens
    Nobody          \* no token, no mint in hand

Minters == Handlers \cup Operators
ScopeColumn == {"ci", "admin", "retired"}   \* what the column may hold

ASSUME NamesAssumption == Bootstrap \in Names
ASSUME ScopesAssumption == Scopes \subseteq ScopeColumn
ASSUME MintersAssumption == IsFiniteSet(Minters) /\ Handlers \cap Operators = {}

VARIABLES
    (* the schema *)
    schema,     \* the tables and groups of columns that are there
    version,    \* alembic_version, 0 when there is no such table
    authRequired,   \* settings.auth_required
    phase,      \* of an API process: down, migrating or up
    found,      \* the schema and version its upgrade_schema has read
    (* the table of tokens *)
    tokens,     \* the rows, in the order of their commits
    revoked,    \* positions of the rows with a revoked_at
    expired,    \* positions of the rows whose expires_at has passed
    minting,    \* the row a minter has added and not committed
    (* requests *)
    serving     \* the token a request was let in with, and what it asked

schemaVars == <<schema, version, authRequired, phase, found>>
tokenVars == <<tokens, revoked, expired, minting>>
vars == <<schemaVars, tokenVars, serving>>

-----------------------------------------------------------------------------
(* The chain of revisions *)

\* What each revision adds: tables, or the columns named for what they are for.
Submission == {"api_tokens", "runs", "artifacts", "audit_log", "llm_calls"}
Results == {"suppressions", "evidence", "findings", "run_manifests", "run_stages",
            "finding_locations"}
Baseline == Submission \cup Results
Inventory == {"run_manifests.components"}
Explanations == {"findings.explanation", "runs.summary"}
Investigations == {"findings.investigation"}
AnalyzerLogs == {"run_stages.log"}
Context == {"evidence.context"}
Adds == <<Baseline, Inventory, Explanations, Investigations, AnalyzerLogs, Context>>
HeadRevision == Len(Adds)

\* Everything the mapped classes name: the queries of every route need it.
Needed == UNION {Adds[r] : r \in 1..HeadRevision}

Database(s, v) == [schema |-> s, version |-> v]
Empty == Database({}, 0)
FromCreateAll == Database(Baseline, 0)      \* the bootstrap before Alembic
AtRevision(r) == Database(UNION {Adds[q] : q \in 1..r}, r)

\* Mutant: a database without a version table is always an empty one.
AdoptedNever(d) == 0

\* The revision upgrade_schema goes on from: tables of the old bootstrap are
\* stamped as the baseline.
Adopted(d) == IF d.version = 0 /\ "runs" \in d.schema THEN 1 ELSE d.version

\* Running the revisions after the adopted one: an object that is there already
\* fails its statement, and with it the whole transaction.
Applies(d) == \A r \in (Adopted(d) + 1)..HeadRevision : Adds[r] \cap d.schema = {}
Migrated(d) == d.schema \cup UNION {Adds[r] : r \in (Adopted(d) + 1)..HeadRevision}

-----------------------------------------------------------------------------
NotFound == Database({}, 0)

\* A database has what its version says it has.
Complete(d) == \A r \in 1..Adopted(d) : Adds[r] \subseteq d.schema
SchemaType == [schema : SUBSET Needed, version : 0..HeadRevision]

ASSUME DatabasesAssumption == Databases \subseteq SchemaType /\ \A d \in Databases : Complete(d)

Init ==
    /\ \E d \in Databases : schema = d.schema /\ version = d.version
    /\ authRequired \in BOOLEAN
    /\ phase = [p \in Services |-> "down"]
    /\ found = [p \in Services |-> NotFound]
    /\ tokens = <<>> /\ revoked = {} /\ expired = {}
    /\ minting = [m \in Minters |-> Nobody]
    /\ serving = [q \in Requests |-> Nobody]

-----------------------------------------------------------------------------
(* upgrade_schema, in the lifespan of each API process *)

UpgradeRead(p) ==
    /\ phase[p] = "down"
    /\ phase' = [phase EXCEPT ![p] = "migrating"]
    /\ found' = [found EXCEPT ![p] = Database(schema, version)]
    /\ UNCHANGED <<schema, version, authRequired, tokenVars, serving>>

\* Another process's migration would commit in between: the statements of this
\* one wait for its locks and then meet its tables, or its version row.
Interfered(p) == found[p] # Database(schema, version)

\* The revisions commit together; at the head already, nothing is done.
UpgradeCommit(p) ==
    /\ phase[p] = "migrating"
    /\ Applies(found[p])
    /\ ~Interfered(p) \/ found[p].version = HeadRevision
    /\ schema' = schema \cup Migrated(found[p])
    /\ version' = HeadRevision
    /\ phase' = [phase EXCEPT ![p] = "up"]
    /\ found' = [found EXCEPT ![p] = NotFound]
    /\ UNCHANGED <<authRequired, tokenVars, serving>>

\* A failure is fatal to the process; the container is started again.
UpgradeFails(p) ==
    /\ phase[p] = "migrating"
    /\ phase' = [phase EXCEPT ![p] = "down"]
    /\ found' = [found EXCEPT ![p] = NotFound]
    /\ UNCHANGED <<schema, version, authRequired, tokenVars, serving>>

\* A process that serves is stopped or dies; what it was answering ends with it
\* (AbortMint, Leave).
Stop(p) ==
    /\ phase[p] = "up"
    /\ phase' = [phase EXCEPT ![p] = "down"]
    /\ UNCHANGED <<schema, version, authRequired, found, tokenVars, serving>>

-----------------------------------------------------------------------------
(* Tokens *)

Rows == DOMAIN tokens
\* A row, who mints it, whether through the setup route, and how many rows there
\* were when its minter looked (what the properties compare; the code keeps none
\* of the three).
Row(name, scope, expires, by, boot) ==
    [name |-> name, scope |-> scope, expires |-> expires, by |-> by, boot |-> boot,
     found |-> Len(tokens)]

Up == \E p \in Services : phase[p] = "up"

\* A minter can reach the table: a handler's process serves; a shell needs only
\* the table to be there.
Reaches(m) ==
    /\ m \in Handlers => Up
    /\ "api_tokens" \in schema

\* Mutant: a deployment is configured while one of its tokens is active.
TokensExistActive == \E i \in Rows : i \notin revoked

\* tokens_exist: active, expired or revoked.
TokensExist == tokens # <<>>

\* Mutant: nobody asks whether the name is taken.
NameTakenNever(name) == FALSE

\* create_token's query: a name can be used again once its token is revoked.
NameTaken(name) == \E i \in Rows : tokens[i].name = name /\ i \notin revoked

Begin(m, row) ==
    /\ Reaches(m) /\ minting[m] = Nobody
    /\ ~NameTaken(row.name)
    /\ minting' = [minting EXCEPT ![m] = row]
    /\ UNCHANGED <<schemaVars, tokens, revoked, expired, serving>>

\* POST /api/setup/bootstrap past its check, and ensure_bootstrap_token past its own.
BeginBootstrap(h) == ~TokensExist /\ Begin(h, Row(Bootstrap, "admin", FALSE, h, TRUE))

\* bare token create
BeginCreate(o) ==
    \E name \in Names, scope \in Scopes, expires \in BOOLEAN :
        Begin(o, Row(name, scope, expires, o, FALSE))

\* session_scope commits.  The answer may be lost after it: the row is there,
\* and nobody has its plaintext.
CommitMint(m) ==
    /\ minting[m] # Nobody /\ Len(tokens) < MaxTokens
    /\ tokens' = Append(tokens, minting[m])
    /\ minting' = [minting EXCEPT ![m] = Nobody]
    /\ UNCHANGED <<schemaVars, revoked, expired, serving>>

AbortMint(m) ==
    /\ minting[m] # Nobody
    /\ minting' = [minting EXCEPT ![m] = Nobody]
    /\ UNCHANGED <<schemaVars, tokens, revoked, expired, serving>>

\* bare token revoke: by id, or any active row of the name.
Revoke(o, i) ==
    /\ Reaches(o) /\ i \in Rows \ revoked
    /\ revoked' = revoked \cup {i}
    /\ UNCHANGED <<schemaVars, tokens, expired, minting, serving>>

Expire(i) ==
    /\ i \in Rows \ expired /\ tokens[i].expires
    /\ expired' = expired \cup {i}
    /\ UNCHANGED <<schemaVars, tokens, revoked, minting, serving>>

-----------------------------------------------------------------------------
(* Requests: get_caller and require_scope *)

\* Mutant: only the flag is looked at.
IsActiveUnlessRevoked(i) == i \notin revoked

\* ApiToken.is_active
IsActive(i) == i \notin revoked /\ i \notin expired

\* parse_bearer, and X-Bare-Token where it gives nothing: the forms a header is
\* met in, and whether a credential is read from them.
Forms == [authorization : {"none", "bare", "bearer", "scheme only", "other scheme"},
          xBareToken : BOOLEAN]
Presents(form) == form.authorization \in {"bare", "bearer"} \/ form.xBareToken

ScopeRank(scope) == IF scope = "admin" THEN 1 ELSE 0   \* a retired scope counts as ci
Satisfies(have, need) == ScopeRank(have) >= ScopeRank(need)

Anonymous == "anonymous"
Call(token, needs) == [token |-> token, needs |-> needs]

\* The handler is entered: without a credential where none is required ...
EnterAnonymous(q, needs) ==
    /\ ~authRequired
    /\ serving' = [serving EXCEPT ![q] = Call(0, needs)]

\* ... or with a token that verify_token finds alive and wide enough.
EnterWithToken(q, needs) ==
    /\ authRequired
    /\ \E i \in Rows, form \in Forms :
        /\ Presents(form)
        /\ IsActive(i) /\ Satisfies(tokens[i].scope, needs)
        /\ serving' = [serving EXCEPT ![q] = Call(i, needs)]

Enter(q) ==
    /\ serving[q] = Nobody
    /\ Up
    /\ \E needs \in {"ci", "admin"} : EnterAnonymous(q, needs) \/ EnterWithToken(q, needs)
    /\ UNCHANGED <<schemaVars, tokenVars>>

\* The response is sent; the token is not looked at again before it.
Leave(q) ==
    /\ serving[q] # Nobody
    /\ serving' = [serving EXCEPT ![q] = Nobody]
    /\ UNCHANGED <<schemaVars, tokenVars>>

-----------------------------------------------------------------------------
ServiceStep(p) == UpgradeRead(p) \/ UpgradeCommit(p) \/ UpgradeFails(p) \/ Stop(p)
OperatorStep(o) == BeginCreate(o) \/ \E i \in Rows : Revoke(o, i)
MintEnds(m) == CommitMint(m) \/ AbortMint(m)
RequestStep(q) == Enter(q) \/ Leave(q)

Next ==
    \/ \E p \in Services : ServiceStep(p)
    \/ \E h \in Handlers : BeginBootstrap(h)
    \/ \E o \in Operators : OperatorStep(o)
    \/ \E m \in Minters : MintEnds(m)
    \/ \E i \in Rows : Expire(i)
    \/ \E q \in Requests : RequestStep(q)

Spec == Init /\ [][Next]_vars

(***************************************************************************)
(* Fairness: a container that went down is started again, its migration    *)
(* commits unless another's is in the way, and a handler returns.          *)
(***************************************************************************)
FairSpec ==
    /\ Spec
    /\ \A p \in Services : WF_vars(UpgradeRead(p)) /\ SF_vars(UpgradeCommit(p))
    /\ \A p \in Services : WF_vars(UpgradeFails(p))
    /\ \A q \in Requests : WF_vars(Leave(q))

-----------------------------------------------------------------------------
RowType == [name : Names, scope : ScopeColumn, expires : BOOLEAN, by : Minters, boot : BOOLEAN,
            found : Nat]

TypeOK ==
    /\ schema \subseteq Needed /\ version \in 0..HeadRevision
    /\ authRequired \in BOOLEAN
    /\ phase \in [Services -> {"down", "migrating", "up"}]
    /\ found \in [Services -> SchemaType]
    /\ tokens \in Seq(RowType) /\ revoked \subseteq Rows /\ expired \subseteq Rows
    /\ minting \in [Minters -> RowType \cup {Nobody}]
    /\ serving \in [Requests -> [token : Nat, needs : {"ci", "admin"}] \cup {Nobody}]

\* setup.py promises "the one and only bootstrap admin token" and create_token
\* one active token of a name.  Nothing in the table enforces either; what the
\* code keeps is that only a race repeats one: two rows that should exclude each
\* other are there only if another minter looked before the first was committed
\* and committed after it, however often tokens are revoked or lapse meanwhile.
OnlyARaceRepeats ==
    \A i, j \in Rows :
        /\ i < j
        /\ \/ tokens[i].boot /\ tokens[j].boot
           \/ tokens[i].name = tokens[j].name /\ i \notin revoked /\ j \notin revoked
        => tokens[j].found < i /\ tokens[j].by # tokens[i].by

\* The first release: what every API process that serves relies on is there,
\* whichever of the databases it found and whoever else was migrating it.
ServesOnHead == \A p \in Services : phase[p] = "up" => Needed \subseteq schema /\ version = HeadRevision

\* Every API process comes up, and comes up again after it stopped, from a
\* database of any age and however many of them start at once: upgrade_schema is
\* "safe to call from more than one service at start-up".
EveryoneServes == \A p \in Services : []<>(phase[p] = "up")

\* A credential that was revoked or has lapsed lets nobody in any more, and the
\* requests it let in come to an end.
RevocationBites ==
    \A q \in Requests, i \in 1..MaxTokens :
        i \in revoked \cup expired ~> [](serving[q] # Nobody => serving[q].token # i)
=============================================================================
