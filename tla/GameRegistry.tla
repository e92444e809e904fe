---------------------------- MODULE GameRegistry ----------------------------
(***************************************************************************)
(* Admission of game and AI bundles, the registry of releases, the         *)
(* competition scopes that activate them and the runs made from them: the  *)
(* online service on PostgreSQL with the filesystem bundle store           *)
(* (internal/platform/service/artifact_admission.go, general.go,           *)
(* registry_postgres.go, general_postgres.go, admission.go, worker_local.go *)
(* and internal/platform/registry).                                        *)
(*                                                                         *)
(* A game stands for a game_id and a major version: "version" orders the   *)
(* releases of one major.  A bundle is its digest; Manifest says what is   *)
(* in it, so a descriptor is what its artifact says once it is complete.   *)
(***************************************************************************)
EXTENDS Naturals, FiniteSets

CONSTANTS
    Bundles,    \* digests of bundles that pass the policy of artifactbundle.Read
    Manifest,   \* what each declares: [kind, game, version, rulesets]
    Builtins,   \* games with a built-in release
    Rulesets,   \* ruleset versions; built-in releases support them all
    Versions,   \* exact versions a metadata-only registration may ask for
    MaxVersion, \* bound on the versions of releases
    CustomIds,  \* registration ids an operator may choose
    Calls,      \* concurrent HTTP calls
    RunIds

Games == {Manifest[d].game : d \in Bundles}

ASSUME ManifestAssumption ==
    \A d \in Bundles : /\ Manifest[d].kind \in {"game", "ai"}
                       /\ Manifest[d].version \in 1 .. MaxVersion
                       /\ Manifest[d].rulesets \subseteq Rulesets

ASSUME VersionsAssumption == MaxVersion \in Nat /\ Versions \subseteq 1 .. MaxVersion

VARIABLES
    file,      \* the file of each bundle in the store
    releases,  \* rows of game_releases
    scopes,    \* rows of competition_scopes
    ais,       \* the registered AIs: [scope, artifact]
    call,      \* the progress of each call
    runs,      \* the runs in the queue
    served     \* for each game the version its last lookup gave, 0 for the built-in

vars == <<file, releases, scopes, ais, call, runs, served>>

ScopeIds == (Games \X Rulesets) \union CustomIds
NoScope  == [game |-> "none"]
NoRun    == [state |-> "none"]
Idle     == [pc |-> "idle"]

\* A digest is not empty and is not the mark of a registration without a bundle.
ASSUME DigestAssumption == "" \notin Bundles /\ \A id \in ScopeIds : <<"legacy", id>> \notin Bundles

IsGame(d) == Manifest[d].kind = "game"

\* A row written by a metadata-only registration has no digest, and neither the
\* runtime arguments nor the memory limit: it stays incomplete.
LegacyRow(id, game, version) ==
    [artifact |-> <<"legacy", id>>, game |-> game, version |-> version, complete |-> FALSE]
BundleRow(d, complete) ==
    [artifact |-> d, game |-> Manifest[d].game, version |-> Manifest[d].version, complete |-> complete]

Rows(artifact) == {row \in releases : row.artifact = artifact}

\* UNIQUE (game_id, game_version)
VersionFree(row) == ~\E other \in releases : other.game = row.game /\ other.version = row.version

Step(c, state) == call' = [call EXCEPT ![c] = state]
Return(c) == Step(c, Idle)

-----------------------------------------------------------------------------
(* The registry: the durable releases come first, the built-ins are used   *)
(* only when the durable tier has none for the game.                       *)

\* Mutant: versions compared the wrong way round.
BugLatest(rows) == CHOOSE row \in rows : \A other \in rows : row.version <= other.version

Latest(rows) == CHOOSE row \in rows : \A other \in rows : row.version >= other.version

None == [artifact |-> "none", version |-> 0]
Builtin == [artifact |-> "", version |-> 0]
Failed == [artifact |-> "failed", version |-> 0]

\* Mutant: any error of the durable tier falls back to the built-in.
BugLookup(game) ==
    LET rows == {row \in releases : row.game = game} IN
    IF rows = {} \/ \E row \in rows : ~row.complete
    THEN IF game \in Builtins THEN Builtin ELSE None
    ELSE [artifact |-> Latest(rows).artifact, version |-> Latest(rows).version]

\* One incomplete row fails every lookup of its game.
Lookup(game) ==
    LET rows == {row \in releases : row.game = game} IN
    IF \E row \in rows : ~row.complete THEN Failed
    ELSE IF rows # {} THEN [artifact |-> Latest(rows).artifact, version |-> Latest(rows).version]
    ELSE IF game \in Builtins THEN Builtin ELSE None

Found(answer) == answer \notin {None, Failed}

\* LookupArtifact knows only the durable tier.
LookupArtifact(d) == \E row \in Rows(d) : row.complete

Serve(game) == served' = IF Found(Lookup(game)) THEN [served EXCEPT ![game] = Lookup(game).version]
                                               ELSE served

Supports(artifact, ruleset) == artifact \in Bundles => ruleset \in Manifest[artifact].rulesets

-----------------------------------------------------------------------------
(* Uploads: the bundle is put in the store, then its descriptor is         *)
(* registered or its AI submission saved.                                  *)

\* A game is uploaded for no scope.
Unscoped == <<"unscoped">>

Upload(d, scope) == [pc |-> "put", bundle |-> d, scope |-> scope]

BeginGameUpload(c, d) ==
    /\ call[c] = Idle
    /\ IsGame(d)
    /\ Step(c, Upload(d, Unscoped))
    /\ UNCHANGED <<file, releases, scopes, ais, runs, served>>

\* An AI is uploaded for a scope of its game.
BeginAIUpload(c, d, scope) ==
    /\ call[c] = Idle
    /\ ~IsGame(d)
    /\ scopes[scope] # NoScope /\ scopes[scope].game = Manifest[d].game
    /\ Step(c, Upload(d, scope))
    /\ UNCHANGED <<file, releases, scopes, ais, runs, served>>

\* Mutant: a file that exists is taken for the bundle, without comparing bytes.
BugSameBytes(d) == file[d] # "absent"

SameBytes(d) == file[d] = "stored"

\* A file with the same bytes is reused; one with other bytes refuses the upload.
ReuseFile(c) ==
    LET t == call[c] IN
    /\ t.pc = "put" /\ file[t.bundle] # "absent"
    /\ Step(c, IF SameBytes(t.bundle) THEN [t EXCEPT !.pc = "admit"] ELSE Idle)
    /\ UNCHANGED <<file, releases, scopes, ais, runs, served>>

FindNoFile(c) ==
    LET t == call[c] IN
    /\ t.pc = "put" /\ file[t.bundle] = "absent"
    /\ Step(c, [t EXCEPT !.pc = "create"])
    /\ UNCHANGED <<file, releases, scopes, ais, runs, served>>

\* os.WriteFile opens with O_TRUNC: a file that another upload of the bundle made
\* since the check is emptied, "torn" if it was whole.
TruncateFile(c) ==
    LET t == call[c] IN
    /\ t.pc = "create"
    /\ file' = [file EXCEPT ![t.bundle] = IF @ \in {"stored", "torn"} THEN "torn" ELSE "partial"]
    /\ Step(c, [t EXCEPT !.pc = "write"])
    /\ UNCHANGED <<releases, scopes, ais, runs, served>>

\* Then it writes the bytes, in one call to the system.
FillFile(c) ==
    LET t == call[c] IN
    /\ t.pc = "write"
    /\ file' = [file EXCEPT ![t.bundle] = "stored"]
    /\ Step(c, [t EXCEPT !.pc = "admit"])
    /\ UNCHANGED <<releases, scopes, ais, runs, served>>

\* A write that fails leaves what it wrote.
WriteFails(c) ==
    /\ call[c].pc = "write"
    /\ Return(c)
    /\ UNCHANGED <<file, releases, scopes, ais, runs, served>>

\* Register inserts the complete row, or completes a row written before the columns
\* for the runtime existed; another release with the version refuses it.
Register(c) ==
    LET d == call[c].bundle IN
    /\ call[c].pc = "admit" /\ IsGame(d)
    /\ Rows(d) # {} \/ VersionFree(BundleRow(d, TRUE))
    /\ releases' = (releases \ Rows(d)) \union {BundleRow(d, TRUE)}
    /\ Return(c)
    /\ UNCHANGED <<file, scopes, ais, runs, served>>

SaveAI(c) ==
    LET t == call[c] IN
    /\ t.pc = "admit" /\ ~IsGame(t.bundle)
    /\ ais' = ais \union {[scope |-> t.scope, artifact |-> t.bundle]}
    /\ Return(c)
    /\ UNCHANGED <<file, releases, scopes, runs, served>>

-----------------------------------------------------------------------------
(* Registrations: POST /game-registrations checks, then saves.             *)

Registration(id, game, ruleset, version, artifact) ==
    [pc |-> "save", id |-> id, game |-> game, ruleset |-> ruleset, version |-> version,
     artifact |-> artifact]

\* The id an operator chose, or the default made of game and ruleset.
IdOf(game, ruleset) == {<<game, ruleset>>} \union CustomIds

\* registerArtifactBackedGame: the bundle can be read, is a game and declares the
\* ruleset, and its digest is admitted.
RegisterArtifact(c, d, ruleset, id) ==
    /\ call[c] = Idle
    /\ file[d] = "stored" /\ IsGame(d)
    /\ LookupArtifact(d)
    /\ ruleset \in Manifest[d].rulesets
    /\ id \in IdOf(Manifest[d].game, ruleset)
    /\ Step(c, Registration(id, Manifest[d].game, ruleset, Manifest[d].version, d))
    /\ UNCHANGED <<file, releases, scopes, ais, runs, served>>

\* buildRegisteredGame: the latest release of the game at this moment.
RegisterMetadata(c, game, version, ruleset, id) ==
    LET answer == Lookup(game) IN
    /\ call[c] = Idle
    /\ Found(answer) /\ Supports(answer.artifact, ruleset)
    /\ answer.artifact \in Bundles => file[answer.artifact] = "stored"
    /\ id \in IdOf(game, ruleset)
    /\ Serve(game)
    /\ Step(c, Registration(id, game, ruleset, version,
                             IF answer = Builtin THEN <<"legacy", id>> ELSE answer.artifact))
    /\ UNCHANGED <<file, releases, scopes, ais, runs>>

\* The release row of the registration: a new one, always incomplete, if there is none.
SavedRow(t) ==
    IF t.artifact \in Bundles THEN BundleRow(t.artifact, FALSE)
    ELSE LegacyRow(t.id, t.game, t.version)

\* One transaction: the release, then the scope.  An existing scope gets the new
\* release; its game and ruleset stay what they were.
SaveRegistration(c) ==
    LET t == call[c] IN
    /\ t.pc = "save"
    /\ Rows(t.artifact) # {} \/ VersionFree(SavedRow(t))
    /\ scopes[t.id] # NoScope
          \/ ~\E s \in ScopeIds : scopes[s] # NoScope /\ scopes[s].game = t.game
                                                     /\ scopes[s].ruleset = t.ruleset
    /\ releases' = IF Rows(t.artifact) # {} THEN releases ELSE releases \union {SavedRow(t)}
    /\ scopes' = [scopes EXCEPT ![t.id] =
          IF @ # NoScope THEN [@ EXCEPT !.artifact = t.artifact]
          ELSE [game |-> t.game, ruleset |-> t.ruleset, artifact |-> t.artifact]]
    /\ Return(c)
    /\ UNCHANGED <<file, ais, runs, served>>

\* A constraint, an error of the database or a disconnected client ends the call.
GiveUp(c) ==
    /\ call[c].pc \in {"put", "create", "admit", "save", "submit"}
    /\ Return(c)
    /\ UNCHANGED <<file, releases, scopes, ais, runs, served>>

\* A restart loses the calls and the AI submissions, which are kept in memory.
Crash ==
    /\ call' = [c \in Calls |-> Idle]
    /\ ais' = {}
    /\ UNCHANGED <<file, releases, scopes, runs, served>>

-----------------------------------------------------------------------------
(* Runs: a request snapshots its scope and admission resolves the          *)
(* snapshot.  The queue stores the game and the players, with the digests  *)
(* of their bundles, and no game artifact: the worker resolves the game.   *)

\* Get joins the scope with its active release.
BeginRun(c, scope, ai) ==
    LET s == scopes[scope] IN
    /\ call[c] = Idle /\ s # NoScope
    /\ ai \in ais /\ ai.scope = scope
    /\ \E row \in Rows(s.artifact) :
          Step(c, [pc |-> "submit", game |-> s.game, ruleset |-> s.ruleset, version |-> row.version,
                    artifact |-> IF s.artifact \in Bundles THEN s.artifact ELSE "",
                    ai |-> ai.artifact])
    /\ UNCHANGED <<file, releases, scopes, ais, runs, served>>

\* Exact resolution of a pinned release; a submission without one takes the latest.
Resolve(t) ==
    IF t.artifact = "" THEN Lookup(t.game)
    ELSE IF LookupArtifact(t.artifact)
         THEN [artifact |-> t.artifact, version |-> Manifest[t.artifact].version]
         ELSE Failed

\* DefaultAdmissionValidator.Validate, then PostgresQueueStore.Enqueue.  "pinned" is
\* not stored: it remembers what was admitted, for the properties.
AdmitRun(c, r) ==
    LET t == call[c]
        answer == Resolve(t) IN
    /\ t.pc = "submit" /\ runs[r] = NoRun
    /\ Found(answer) /\ Supports(answer.artifact, t.ruleset)
    /\ t.artifact # "" => /\ answer.artifact = t.artifact
                          /\ Manifest[t.artifact].game = t.game
                          /\ answer.version = t.version
    /\ file[t.ai] = "stored"
    /\ runs' = [runs EXCEPT ![r] =
          [state |-> "queued", game |-> t.game, pinned |-> t.artifact, ai |-> t.ai, ran |-> None]]
    /\ IF t.artifact = "" THEN Serve(t.game) ELSE UNCHANGED served
    /\ Return(c)
    /\ UNCHANGED <<file, releases, scopes, ais>>

\* LocalRunnerInvoker.Run of a claimed record, whose GameArtifactID is empty:
\* LookupVersion, then the bundles of the release and of the players are read and
\* materialized for this run.
ExecuteRun(r) ==
    LET run == runs[r]
        answer == Lookup(run.game)
        ready == /\ Found(answer)
                 /\ answer.artifact \in Bundles => file[answer.artifact] = "stored"
                 /\ file[run.ai] = "stored" IN
    /\ run.state = "queued"
    /\ runs' = [runs EXCEPT ![r] = [@ EXCEPT !.state = "executed",
                                             !.ran = IF ready THEN answer ELSE Failed]]
    /\ Serve(run.game)
    /\ UNCHANGED <<file, releases, scopes, ais, call>>

-----------------------------------------------------------------------------
\* The service starts on a database that may hold releases of the older schema,
\* whose bundles are in the store.
Init ==
    /\ \E old \in SUBSET {d \in Bundles : IsGame(d)} :
          /\ releases = {BundleRow(d, FALSE) : d \in old}
          /\ file = [d \in Bundles |-> IF d \in old THEN "stored" ELSE "absent"]
    /\ scopes = [s \in ScopeIds |-> NoScope]
    /\ ais = {}
    /\ call = [c \in Calls |-> Idle]
    /\ runs = [r \in RunIds |-> NoRun]
    /\ served = [g \in Games |-> 0]

Uploading(c) ==
    \/ \E d \in Bundles : BeginGameUpload(c, d)
    \/ \E d \in Bundles, s \in ScopeIds : BeginAIUpload(c, d, s)
    \/ ReuseFile(c) \/ FindNoFile(c) \/ TruncateFile(c) \/ FillFile(c) \/ WriteFails(c)
    \/ Register(c) \/ SaveAI(c)

Registering(c) ==
    \/ \E d \in Bundles, ruleset \in Rulesets, id \in ScopeIds : RegisterArtifact(c, d, ruleset, id)
    \/ \E g \in Games, v \in Versions, ruleset \in Rulesets, id \in ScopeIds :
          RegisterMetadata(c, g, v, ruleset, id)
    \/ SaveRegistration(c)

Requesting(c) ==
    \/ \E s \in ScopeIds, ai \in ais : BeginRun(c, s, ai)
    \/ \E r \in RunIds : AdmitRun(c, r)

Next ==
    \/ \E c \in Calls : Uploading(c) \/ Registering(c) \/ Requesting(c) \/ GiveUp(c)
    \/ \E r \in RunIds : ExecuteRun(r)
    \/ Crash

Spec == Init /\ [][Next]_vars

-----------------------------------------------------------------------------
Artifacts == Bundles \union {<<"legacy", id>> : id \in ScopeIds}

Uploads == [pc : {"put", "create", "write", "admit"}, bundle : Bundles, scope : ScopeIds \union {Unscoped}]
Registrations == [pc : {"save"}, id : ScopeIds, game : Games, ruleset : Rulesets,
                  version : 1 .. MaxVersion, artifact : Artifacts]
Submissions == [pc : {"submit"}, game : Games, ruleset : Rulesets, version : 1 .. MaxVersion,
                artifact : Bundles \union {""}, ai : Bundles]
Answers == [artifact : Bundles \union {"", "none", "failed"}, version : Nat]

TypeOK ==
    /\ file \in [Bundles -> {"absent", "partial", "stored", "torn"}]
    /\ releases \subseteq [artifact : Artifacts, game : Games, version : 1 .. MaxVersion, complete : BOOLEAN]
    /\ scopes \in [ScopeIds -> [game : Games, ruleset : Rulesets, artifact : Artifacts] \union {NoScope}]
    /\ ais \subseteq [scope : ScopeIds \union {Unscoped}, artifact : Bundles]
    /\ call \in [Calls -> Uploads \union Registrations \union Submissions \union {Idle}]
    /\ runs \in [RunIds -> [state : {"queued", "executed"}, game : Games, pinned : Bundles \union {""},
                             ai : Bundles, ran : Answers] \union {NoRun}]
    /\ served \in [Games -> Nat]

\* The file of a bundle held it whole, and at most a second upload emptied it.
Kept(d) == file[d] \in {"stored", "torn"}

\* Whatever a run may name was stored whole, and only a second upload of the bundle
\* that had found no file can have emptied it since: no failed write, no file left
\* by one and no restart admits a release or an AI whose bundle a worker cannot
\* read, and a scope activates no artifact that was not admitted
\* (RegisterGameBundle, RegisterAIBundle, FilesystemBundleStore.Put,
\* registerArtifactBackedGame, Save).
AdmittedUnlessTorn ==
    /\ \A row \in releases : row.complete => Kept(row.artifact)
    /\ \A ai \in ais : Kept(ai.artifact)
    /\ \A s \in ScopeIds : scopes[s] # NoScope /\ scopes[s].artifact \in Bundles
          => LookupArtifact(scopes[s].artifact)

\* An admitted release has its bundle in the store, whole: the service keeps the
\* archive before it admits, and stores the same bytes idempotently
\* (FilesystemBundleStore.Put).
AdmittedIsStored == \A row \in releases : row.complete => file[row.artifact] = "stored"

\* A run that pinned a release executes that release, whatever was admitted or
\* activated between its request and its execution (Enqueue, LocalRunnerInvoker.Run).
PinnedRunsKeepTheirRelease ==
    \A r \in RunIds : runs[r].state = "executed" /\ runs[r].pinned # ""
        => runs[r].ran = Failed \/ runs[r].ran.artifact = runs[r].pinned

\* A run that pinned a release is executed on an admitted release of its game that is
\* no older than the pinned one, or fails: neither an incomplete release nor one
\* admitted in between makes it fall back to the built-in or to an older release
\* (Validate, Enqueue, LocalRunnerInvoker.Run, ExternalPrimaryStore.Lookup).
PinnedRunsNeverFallBack ==
    \A r \in RunIds : runs[r].state = "executed" /\ runs[r].pinned # "" /\ runs[r].ran # Failed
        => /\ runs[r].ran.artifact \in Bundles
           /\ Manifest[runs[r].ran.artifact].game = Manifest[runs[r].pinned].game
           /\ runs[r].ran.version >= Manifest[runs[r].pinned].version

\* The releases lookups give for a game never get older, and never fall back to
\* the built-in once an admitted release was given (ExternalPrimaryStore.Lookup).
LookupNeverRegresses == [][\A g \in Games : served'[g] >= served[g]]_served

\* A scope is one game and ruleset for ever: the release it activates is one of its
\* game that declares its ruleset (general_postgres.go Save).
ScopeKeepsItsGame ==
    \A s \in ScopeIds : scopes[s] # NoScope /\ scopes[s].artifact \in Bundles
        => /\ Manifest[scopes[s].artifact].game = scopes[s].game
           /\ scopes[s].ruleset \in Manifest[scopes[s].artifact].rulesets
=============================================================================
