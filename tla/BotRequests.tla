---------------------------- MODULE BotRequests ----------------------------
(***************************************************************************)
(* Owned bots, their revisions and the match requests that pin them, as    *)
(* the online service runs them: bots live in PostgreSQL                   *)
(* (internal/platform/service/bot_ownership_postgres.go), requests in the  *)
(* memory of the server (request.go), runs in the queue.                   *)
(*                                                                         *)
(* One competition scope is modelled.  A revision is its number, a bundle  *)
(* that is not compatible with the scope never gets as far as the store.   *)
(* "taken" stands for every state of a run from its lease on: RunQueue     *)
(* models those.                                                           *)
(***************************************************************************)
EXTENDS Naturals, FiniteSets

CONSTANTS
    BotIds,          \* fresh identifiers of bots
    Owners,          \* account identifiers
    Names,           \* normalized bot names
    RunIds,          \* fresh identifiers of runs
    RequestIds,      \* request_id values clients choose
    Editors,         \* concurrent POST /bots/revisions calls
    Creators,        \* concurrent POST /match-requests calls
    PlayerCount,     \* player_count of the scope
    MaxLimit,        \* bound on max_active_bots_per_owner
    MaxRevisions,    \* bound on the revisions ever issued
    MaxCalls,        \* bound on the calls in progress at one time
    MaxScopeWrites   \* bound on the writes of the scope row

ASSUME BoundsAssumption ==
    /\ {PlayerCount, MaxCalls, MaxLimit, MaxRevisions, MaxScopeWrites} \subseteq Nat
    /\ IsFiniteSet(BotIds)

VARIABLES
    bots,      \* rows of ai_bots
    issued,    \* number of rows of ai_submission_revisions
    scope,     \* the row of competition_scopes, with the number of its writes
    tx,        \* the transaction of each POST /bots/revisions
    create,    \* the progress of each POST /match-requests
    runs,      \* the state of each run in the queue
    requests,  \* the request_ids of the request store, in memory
    refused    \* the runs of POST /match-requests that answered 409 Conflict

store == <<bots, issued, scope>>
vars  == <<bots, issued, scope, tx, create, runs, requests, refused>>

NoBot == [owner |-> "none"]
NoTx  == [pc |-> "idle"]

Bot(owner, name, state, revision) ==
    [owner |-> owner, name |-> name, state |-> state, revision |-> revision]

Exists(table, b)   == table[b] # NoBot
IsActive(table, b) == Exists(table, b) /\ table[b].state = "active"

ActiveBots(table, owner) == {b \in BotIds : IsActive(table, b) /\ table[b].owner = owner}

NoCreate == [pc |-> "idle"]

Accepting == Cardinality({e \in Editors : tx[e] # NoTx} \union {c \in Creators : create[c] # NoCreate})
                < MaxCalls

-----------------------------------------------------------------------------
(* CreateOrRevise: a SERIALIZABLE transaction whose snapshot is taken by   *)
(* its first statement, before that statement waits for the scope row.     *)

ScopeLocked == \E e \in Editors : tx[e].pc = "locked"

\* The first statement of the transaction takes its snapshot.
BeginRevision(e, owner, target) ==
    /\ tx[e] = NoTx /\ Accepting
    /\ tx' = [tx EXCEPT ![e] = [pc |-> "begun", owner |-> owner, target |-> target,
                                view |-> bots, scope |-> scope]]
    /\ UNCHANGED <<store, create, runs, requests, refused>>

\* SELECT max_active_bots_per_owner ... FOR UPDATE: once the row is free it must
\* still be the one of the snapshot, or the transaction fails to serialize.
LockScope(e) ==
    /\ tx[e].pc = "begun"
    /\ ~ScopeLocked
    /\ tx' = [tx EXCEPT ![e] = IF @.scope = scope THEN [@ EXCEPT !.pc = "locked"] ELSE NoTx]
    /\ UNCHANGED <<store, create, runs, requests, refused>>

\* Mutant: the transaction is only REPEATABLE READ.
BugCountIsStale(t) == FALSE

\* PostgreSQL refuses to commit a transaction that counted the active bots of an
\* owner when a concurrent transaction that did the same inserted one meanwhile.
CountIsStale(t) == \E b \in BotIds : Exists(bots, b) /\ ~Exists(t.view, b) /\ bots[b].owner = t.owner

\* Mutant: the bot is read without FOR UPDATE in a READ COMMITTED transaction.
BugRowIsStale(t) == FALSE

\* SELECT ... FOR UPDATE of the bot fails when the row was written since the snapshot.
RowIsStale(t) == bots[t.target] # t.view[t.target]

\* UNIQUE (owner_account_id, scope_id, normalized_bot_name) holds for retired bots too.
NameTaken(owner, name) == \E b \in BotIds :
    Exists(bots, b) /\ bots[b].owner = owner /\ bots[b].name = name

\* Every content of ai_bots during a selection is remembered, for the properties.
Selecting(c) == create[c].pc \in {"resolve", "submit"}

WriteBots(rows) ==
    /\ bots' = rows
    /\ create' = [c \in Creators |-> IF Selecting(c)
                                     THEN [create[c] EXCEPT !.seen = @ \union {rows}]
                                     ELSE create[c]]

EndTx(e) == tx' = [tx EXCEPT ![e] = NoTx]

\* The new bot: count below the limit, INSERT of bot and revision, COMMIT.
CommitNewBot(e, name, b) ==
    LET t == tx[e] IN
    /\ t.pc = "locked" /\ t.target = "new"
    /\ ~Exists(bots, b)
    /\ Cardinality(ActiveBots(t.view, t.owner)) < t.scope.limit
    /\ ~CountIsStale(t)
    /\ ~NameTaken(t.owner, name)
    /\ issued < MaxRevisions
    /\ WriteBots([bots EXCEPT ![b] = Bot(t.owner, name, "active", issued + 1)])
    /\ issued' = issued + 1
    /\ EndTx(e)
    /\ UNCHANGED <<scope, runs, requests, refused>>

\* The new revision of an active bot of this owner, which takes no slot.
CommitRevision(e) ==
    LET t == tx[e] IN
    /\ t.pc = "locked" /\ t.target \in BotIds
    /\ ~RowIsStale(t)
    /\ IsActive(t.view, t.target) /\ t.view[t.target].owner = t.owner
    /\ issued < MaxRevisions
    /\ WriteBots([bots EXCEPT ![t.target] = [@ EXCEPT !.revision = issued + 1]])
    /\ issued' = issued + 1
    /\ EndTx(e)
    /\ UNCHANGED <<scope, runs, requests, refused>>

\* Any refusal, serialization failure or lost connection rolls the transaction back.
RollbackRevision(e) ==
    /\ tx[e].pc = "locked"
    /\ EndTx(e)
    /\ UNCHANGED <<store, create, runs, requests, refused>>

\* Retire is one UPDATE of its own, whatever the state of the bot; it waits for a
\* transaction that holds the row.
Retire(owner, b) ==
    /\ Exists(bots, b) /\ bots[b].owner = owner
    /\ ~\E e \in Editors : tx[e].pc = "locked" /\ tx[e].target = b
    /\ WriteBots([bots EXCEPT ![b] = [@ EXCEPT !.state = "retired"]])
    /\ UNCHANGED <<issued, scope, tx, runs, requests, refused>>

\* A game registration upserts the scope row with the quota of its manifest.
SaveScope(limit) ==
    /\ ~ScopeLocked
    /\ scope.writes < MaxScopeWrites
    /\ scope' = [limit |-> limit, writes |-> scope.writes + 1]
    /\ UNCHANGED <<bots, issued, tx, create, runs, requests, refused>>

-----------------------------------------------------------------------------
(* MatchRequestService.Create *)

Resolving(id, ids) ==
    [pc |-> "resolve", id |-> id, todo |-> ids, view |-> bots, chosen |-> {}, seen |-> {bots}]
Resolved(id, chosen, seen) == [pc |-> "submit", id |-> id, chosen |-> chosen, seen |-> seen]
Submitted(id, r) == [pc |-> "save", id |-> id, run |-> r]

Advance(c, next) == create' = [create EXCEPT ![c] = next]

\* The exact number of distinct bots: the snapshot of ResolveEligible is taken.
BeginCreate(c, id, ids) ==
    /\ create[c] = NoCreate /\ Accepting
    /\ Cardinality(ids) = PlayerCount
    /\ Advance(c, Resolving(id, ids))
    /\ UNCHANGED <<store, tx, runs, requests, refused>>

\* The legacy request names immutable AI submissions: no bot row is read.
BeginLegacyCreate(c, id) ==
    /\ create[c] = NoCreate /\ Accepting
    /\ Advance(c, Resolved(id, {}, {bots}))
    /\ UNCHANGED <<store, tx, runs, requests, refused>>

\* Mutant: the bots are read outside a transaction.
BugView(t) == bots

\* What a statement of the REPEATABLE READ transaction sees.
View(t) == t.view

Selected(t, b) == [bot |-> b, revision |-> View(t)[b].revision]

ResolveEligible(c, b) ==
    LET t == create[c]
        chosen == t.chosen \union {Selected(t, b)} IN
    /\ t.pc = "resolve" /\ b \in t.todo
    /\ IsActive(View(t), b)
    /\ Advance(c, IF t.todo = {b} THEN Resolved(t.id, chosen, t.seen)
                  ELSE [t EXCEPT !.todo = @ \ {b}, !.chosen = chosen])
    /\ UNCHANGED <<store, tx, runs, requests, refused>>

\* A bot that is not eligible, or a run that admission refuses, ends the call.
RefuseCreate(c) ==
    /\ Selecting(c)
    /\ create[c].pc = "resolve" => \E b \in create[c].todo : ~IsActive(View(create[c]), b)
    /\ Advance(c, NoCreate)
    /\ UNCHANGED <<store, tx, runs, requests, refused>>

\* The run pins the revisions of create[c].chosen.
Submit(c, r) ==
    /\ create[c].pc = "submit"
    /\ runs[r] = "none"
    /\ runs' = [runs EXCEPT ![r] = "queued"]
    /\ Advance(c, Submitted(create[c].id, r))
    /\ UNCHANGED <<store, tx, requests, refused>>

\* store.Save: a request_id is accepted once.
SaveRequest(c) ==
    LET t == create[c] IN
    /\ t.pc = "save"
    /\ IF t.id \in requests
       THEN /\ Advance(c, [t EXCEPT !.pc = "rollback"])
            /\ UNCHANGED requests
       ELSE /\ requests' = requests \union {t.id}
            /\ Advance(c, NoCreate)
    /\ UNCHANGED <<store, tx, runs, refused>>

\* The client is answered 409 Conflict: the error of a rollback that failed wraps the
\* conflict too.
Refuse(c) ==
    /\ refused' = refused \union {create[c].run}
    /\ Advance(c, NoCreate)

\* Cancel succeeds on a run that is still queued and no other.
RollbackSubmission(c) ==
    LET r == create[c].run IN
    /\ create[c].pc = "rollback" /\ runs[r] = "queued"
    /\ runs' = [runs EXCEPT ![r] = "canceled"]
    /\ Refuse(c)
    /\ UNCHANGED <<store, tx, requests>>

\* The rollback fails because a worker took the run, or because the request's
\* context ended or the database is unreachable.
RollbackFails(c) ==
    /\ create[c].pc = "rollback"
    /\ Refuse(c)
    /\ UNCHANGED <<store, tx, runs, requests>>

TakeRun(r) ==
    /\ runs[r] = "queued"
    /\ runs' = [runs EXCEPT ![r] = "taken"]
    /\ UNCHANGED <<store, tx, create, requests, refused>>

\* A restart loses the calls and the request store; PostgreSQL keeps the rest.
Crash ==
    /\ tx' = [e \in Editors |-> NoTx]
    /\ create' = [c \in Creators |-> NoCreate]
    /\ requests' = {}
    /\ UNCHANGED <<store, runs, refused>>

-----------------------------------------------------------------------------
Init ==
    /\ bots = [b \in BotIds |-> NoBot]
    /\ issued = 0
    /\ scope \in [limit : 1 .. MaxLimit, writes : {0}]
    /\ tx = [e \in Editors |-> NoTx]
    /\ create = [c \in Creators |-> NoCreate]
    /\ runs = [r \in RunIds |-> "none"]
    /\ requests = {}
    /\ refused = {}

Revising(e) ==
    \/ \E owner \in Owners : BeginRevision(e, owner, "new")
    \/ \E owner \in Owners, b \in BotIds : Exists(bots, b) /\ BeginRevision(e, owner, b)
    \/ LockScope(e)
    \/ \E name \in Names, b \in BotIds : CommitNewBot(e, name, b)
    \/ CommitRevision(e)
    \/ RollbackRevision(e)

Creating(c) ==
    \/ \E id \in RequestIds, ids \in SUBSET BotIds : BeginCreate(c, id, ids)
    \/ \E id \in RequestIds : BeginLegacyCreate(c, id)
    \/ \E b \in BotIds : ResolveEligible(c, b)
    \/ RefuseCreate(c)
    \/ \E r \in RunIds : Submit(c, r)
    \/ SaveRequest(c)
    \/ RollbackSubmission(c)
    \/ RollbackFails(c)

Next ==
    \/ \E e \in Editors : Revising(e)
    \/ \E c \in Creators : Creating(c)
    \/ \E owner \in Owners, b \in BotIds : Retire(owner, b)
    \/ \E limit \in 1 .. MaxLimit : SaveScope(limit)
    \/ \E r \in RunIds : TakeRun(r)
    \/ Crash

Spec == Init /\ [][Next]_vars

-----------------------------------------------------------------------------
BotRows   == [owner : Owners, name : Names, state : {"active", "retired"}, revision : Nat]
Tables    == [BotIds -> BotRows \union {NoBot}]
ScopeRows == [limit : Nat, writes : Nat]
Revisions == [pc : {"begun", "locked"}, owner : Owners, target : BotIds \union {"new"},
              view : Tables, scope : ScopeRows]
Picks     == [bot : BotIds, revision : Nat]
Resolves  == [pc : {"resolve"}, id : RequestIds, todo : SUBSET BotIds, view : Tables,
              chosen : SUBSET Picks, seen : SUBSET Tables]
Submits   == [pc : {"submit"}, id : RequestIds, chosen : SUBSET Picks, seen : SUBSET Tables]
Saves     == [pc : {"save", "rollback"}, id : RequestIds, run : RunIds]

TypeOK ==
    /\ bots \in Tables
    /\ issued \in Nat
    /\ scope \in ScopeRows
    /\ tx \in [Editors -> Revisions \union {NoTx}]
    /\ create \in [Creators -> Resolves \union Submits \union Saves \union {NoCreate}]
    /\ runs \in [RunIds -> {"none", "queued", "taken", "canceled"}]
    /\ requests \subseteq RequestIds
    /\ refused \subseteq RunIds

\* An owner never gets a new active bot beyond the limit in force, however the
\* snapshots, the scope lock and changes of the limit interleave
\* (bot_ownership_postgres.go CreateOrRevise).
QuotaOnCreate ==
    [][\A owner \in Owners :
          ~(ActiveBots(bots', owner) \subseteq ActiveBots(bots, owner))
             => Cardinality(ActiveBots(bots', owner)) <= scope'.limit]_vars

\* A retired bot keeps its state and its revision: no revision that was under way
\* when the owner retired the bot is written after it (CreateOrRevise against
\* Retire; a second Retire only rewrites retired_at, which is left out).
RetiredIsFrozen ==
    [][\A b \in BotIds : Exists(bots, b) /\ bots[b].state = "retired" => bots'[b] = bots[b]]_vars

\* The revisions a new run pins were the active revisions of active bots at one
\* and the same moment since its request came, although they are read one by one
\* while owners revise and retire them (ResolveEligible, Create).
RunPinsOneMoment ==
    \A c \in Creators : create[c].pc = "submit" =>
        \E m \in create[c].seen : \A p \in create[c].chosen :
            IsActive(m, p.bot) /\ m[p.bot].revision = p.revision

\* The run of a request that was refused with a conflict is rolled back: it is never
\* executed (rollbackQueuedSubmission).
RefusedNeverRuns == \A r \in refused : runs[r] # "taken"
=============================================================================
