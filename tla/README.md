# AI Arena: a TLA+ model of the run service, its matches and its games

AI Arena runs matches between bots. A service admits games and bots, keeps a
durable queue of runs, and one worker takes them one at a time, runs the match
(game master and bots are child processes or WebAssembly modules that speak JSON
lines), stores the artifacts and updates a ranking that spectators see. These
modules model that system from the sign-up of an operator down to the channel
between a session and its bot. Paths below are relative to `src/`; `service/`
stands for `internal/platform/service/`, `match/`, `session/`, `runtime/`,
`gamemaster/`, `registry/`, `replay/` for the directories beside it.

Sections: 1 inventory, 2 modules, 3 what is checked, 4 what is proved, 5 what is
not modelled, 6 where the code and its documents part, 7 plan.

## 1. Inventory

| Component | Source | State | Operations | Hard behaviour |
|---|---|---|---|---|
| Run queue | `service/store_postgres.go`, `store_memory.go`, `postgres/query.sql` | one row per run: lifecycle state, submission, official flag, lease, terminal metadata | Enqueue, Claim, Heartbeat, RecoverExpired, Update, Promote, CancelQueued, advisory lock | whole-row write-backs, lease expiry, lock loss |
| Worker | `service/worker.go`, `worker_loop.go`, `worker_local.go` | the record it carries, its heartbeat goroutine | acquire, recover, claim, execute, persist, decide, complete | death between any two store calls, slow workers, concurrent operators |
| Operator commands | `service/command.go`, `run_commands.go` | none | submit, retry, rerun, cancel, promote | act at any moment |
| Ranking | `service/ranking.go` | one snapshot per scope | ApplyCompleted, RefreshCompletedRun, Recompute | read-modify-write without a lock, lost writes |
| Public match state | `service/public_state*.go`, `artifact_reader.go` | published snapshots with versions | publish, select a run, answer a poll, serve a replay | two reads of a moving state, spectators that stop polling |
| Match requests | `service/request.go` | saved requests, in memory | Create, rollback | run submitted, request not saved |
| Bot ownership | `service/bot_ownership*.go` | bots, revisions, quota of the scope | create, revise, retire, resolve | snapshots older than the lock, retirement beside a revision |
| Submission, admission | `service/general*.go`, `artifact_admission.go`, `admission.go` | releases, scopes, AI submissions | upload, register, activate, admit a run | staged admission, restarts |
| Registry, bundle store | `registry/`, `service/registry_postgres.go`, `artifact_bundle_store.go` | release rows, bundle files | Lookup, LookupArtifact, Register, Put, Read | interrupted writes, two tiers |
| Authentication, invites | `service/auth*.go` | invites, accounts, sessions, cookies | invite, start login, callback, claim, logout | single use, racing callbacks, tabs that share cookies |
| Player session | `session/session.go` | ids of timed-out calls | Init, Turn, GameOver, Close | late, repeated, malformed answers |
| AI runtime adapters | `runtime/local_subprocess.go`, `wasm_wasi.go` | process or module, bounded `incoming` channel, `done` | Send, readStdout, exit goroutine, Close | four goroutines on two channels, blocking pipes |
| Match runner | `match/match.go` | phase, status, event log, final state | Run and its deferred shutdown | cancellation in any phase, partial failure of the way out |
| Game master session | `gamemaster/gamemaster.go`, `cmd/*-gamemaster/main.go` | request counter, initialized flag; the sidecar's match | initialize, next step, apply, snapshots, result, shutdown | an answer left behind by a canceled call |
| Games | `internal/games/janken`, `internal/games/echo` | scores, histories, whose turn | New, NextStep, NormalizeAction, ApplyStep, Result, Snapshot, FromSnapshot, SnapshotFromHistory | ties, missing answers, resumption |
| Replay, command-line runner | `replay/`, `cmd/arena-runner/main.go` | none (event logs, snapshots) | rebuild a snapshot, take a match up | logs that end anywhere |
| HTTP surface, operator UI | `service/http.go`, `operator-ui/` | none | decode, call, encode | none of its own |

How they interact. HTTP handlers and CLI subcommands call the operator commands,
the stores of bots, requests, releases and accounts, which write rows.
`WorkerLoop.Run` takes the advisory lock and calls `RecoverExpired` and
`ProcessNext` in turn; `ProcessNext` resolves the game in the registry and calls
the runner (which owns the sessions, each of which owns an adapter), the
persister, the queue and the ranking, and an observer publishes the state of the
match. Nothing is shared between processes but the database, the bundle store
and the artifact directory; inside a match goroutines share channels.

What makes each correct (section 6 says where the code falls short of it):
- a run ends once and for good, is not executed by two workers, and is completed
  only with its own artifacts stored; a match has at most one official run; a
  queued run is eventually done;
- the ranking is that of the official runs, and a spectator who is told to stop
  asking was told the final state;
- an owner's active bots keep to the quota, a retired bot stays retired, and a
  run pins revisions that were all current at one moment; a request that was
  refused never runs;
- what is admitted is stored whole, lookups never go back to an older release,
  and a run executes the release it was given;
- an invite and an identity make one account each;
- a bot that keeps the protocol is not charged with breaking it; a call and
  Close come to an end; a match record says what really happened on every way
  out; what is captured of a game is what the runner saw applied;
- a game can be rebuilt from its record and goes on from it, and its placements
  are those of the scores.

## 2. Modules

| Module | Models | State and actions |
|---|---|---|
| `RunLifecycle` | the abstract promise: each run is admitted, queued, worked on, and ends once; only completed runs are chosen | `life`, `chosen` |
| `RunQueue` | PostgreSQL queue, `ProcessNext`, heartbeat, advisory lock, operator commands, `run-once` | rows as functions of the run; `pc[p]` is the point a process has reached in `WorkerLoop.Run`/`ProcessNext`, `job[p]` its local `QueueRecord`, `beat[p]` the heartbeat goroutine |
| `RunRanking` | the ranking snapshot beside the queue (extends `RunQueue`, and strengthens its `Rank`, `Promote`, `Stop`) | `snapshot` (the set of applied runs), the copy a worker has read, the refresh a handler is in |
| `PublicMatches` | publication, the replay files and the spectator's requests (extends `RunQueue`, and strengthens its `Persist`) | `published`, `replayFile`, the run a request selected in its first read |
| `RankingTable` | the aggregate itself against a count over all placements | `snapshot`, the results offered |
| `BotRequests` | bots, revisions, quota and match requests of one scope | the transaction of each `POST /bots/revisions` with its snapshot, the progress of each `POST /match-requests` |
| `GameRegistry` | bundle files, release rows, scopes, AI submissions, the runs made from them | the progress of each upload, registration and run request |
| `Auth` | invites, logins, callbacks statement by statement, sessions | cookies per browser, a callback's point in its transaction; row locks and index entries are read off those points |
| `PlayerSession` | `Session.call`, `readStdout`, both exit goroutines, both `Close` | program points of the four goroutines, the pipes, `incoming`; a history `honest` of what the bot wrote |
| `MatchRunner` | `Runner.Run` with every way out | program point, status, event log, calls of the step, shutdown budget |
| `GameMasterSession` | the runner's calls to a sidecar over the adapter, and the sidecar | call in progress, request counter, requests and responses in flight, contexts |
| `GameContract`, `Janken`, `EchoCount` | the decision-step contract and the two games as functions | none: operators on a master's state |
| `GameReplay` | a game played by the runner, recorded, cut off, rebuilt and taken up | master, step, event log, the snapshots passed |
| `RunQueueProofs` (`RunQueue`, `RunRanking`, `PublicMatches`), `ResultProofs` (`RankingTable`, `GameReplay`), `PlayerSessionProofs`, `AuthProofs`, `BotRequestsProofs`, `GameRegistryProofs`, `GameMasterSessionProofs`, `MatchRunnerProofs` | theorems | |
| `MCRunQueue`, `MCRunQueueLive`, `MCQueueReaders`, `MCRankingTable`, `MCBotRequests`, `MCGameRegistry` | instances for TLC | `MCRunQueueLive` adds a budget of faults; `MCQueueReaders` puts `RunRanking` and `PublicMatches` beside one queue |

Granularity. A queue operation is one SQL statement or one transaction that
locks the row, so it is one action; between two of them every other process, the
clock and the operators may act, and the process may die. Retry and Rerun read
the parent and then enqueue; they are one action because a completed or failed
row never leaves its state (proved: it is part of the refinement). Two
differences from a single action are kept apart on purpose: the worker's
decision (`DecideOfficial`) and its write (`MarkCompleted`), and the ranking's
read and write. A store call that fails after it took effect behaves as the
process dying right after it. Time is counted in heartbeat intervals, and a
deadline is the intervals left until it.

A transaction that takes several statements and may meet another one between
them is several actions. In `BotRequests` a serializable transaction carries the
table it saw at its first statement (`view`) and fails at its commit if what it
read has changed since; in `Auth` a read-committed one sees what is committed at
each statement and waits for the row locks and unique index entries of the
others. A request of a spectator (`PublicMatches`) is its two reads. `Put` of the
bundle store has no lock: its look for the file, the truncation that opens it
and the write are three actions of `GameRegistry`.

In `PlayerSession` an action is one channel operation or one system call. A
child's stdin and stdout are operating-system pipes with room for `PipeCap`
lines; a module's are `io.Pipe`s, where the writer waits for the reader. A send
on a closed channel, which would end the Go program, is the reader's point
`"panic"`. The bot is external: it reads, writes any line, and ends at any
moment with any result. `done` and `incoming` are closed together.

In `MatchRunner` a player call is the interface of `PlayerSession`: it returns
with one of its outcomes; a game master call fails or does not, as
`GameMasterSession` allows. There the sidecar answers in order, refuses, hangs
or dies. Send is assumed not to block: it comes before the select on the context
(`gamemaster/gamemaster.go:314`), and for a WASI sidecar it writes to an
unbuffered `io.Pipe` (`runtime/wasm_wasi.go:62`), so a module that does not read
would hold the runner whatever its contexts say. The liveness of the session
rests on that assumption.
The public replay is asked for after a completed game, as match.go does; the two
sidecars do not know that method and refuse it.
`GameReplay` plays the games themselves: a session call returns any result.

A bundle is its digest and a descriptor is what its artifact says, so
`GameRegistry` needs no contents. The queue stores the game of a run and not its
release, so `runs` holds `pinned` only for the properties: `ExecuteRun` looks the
game up. A login is its state nonce; an account has the id of the login that made
it. In `PublicMatches` a publication that its one-second context ends is taken to
have no effect. A completed match has a replay of `Replays`, or none because none
was captured or it was too large (`match/match.go:565`,
`service/worker_local.go:234`); the record of its run describes what was stored
with it, and the file may be another's, left by an earlier execution, or torn.

Definitions named `Bug...` are faulty variants of the definition after them.
They are never part of a specification; substituting one for its neighbour must
break the property it is paired with in `PROJECT.json`.

## 3. What is checked

Passing runs:

| Run | Instance | Shows |
|---|---|---|
| `queue_single_worker` | 2 servers, 2 runs of 1 match, any 2 faults, serialised promotions | `OneWorkerPerRun`, `AtMostOneOfficial`, `ArtifactsMatchRecord`, `CompletedIsFrozen`, and `QueuedRunsFinish` |
| `queue_unguarded` | 1 server that may lose the lock and 1 `run-once` that never takes it, 2 runs, operators at any moment, any number of faults | `OfficialImpliesCompleted`, `CompletedHasArtifacts`, and that the queue implements `RunLifecycle` (`LifecycleSpec`) |
| `queue_readers` | 1 server, 2 runs; either 2 matches and ranking writes lost at will, or 1 match and 1 spectator, with and without a replay | `RankingHoldsOfficial`: unless a write was lost the ranking is that of the official runs, and the next promotion that rebuilds it repairs a loss; `RankedRunsEligible`; `FinalAnswerStands`: what a spectator was told last of a match stays true |
| `ranking_table` | 3 runs of 2 matches, 2 bots on any seats, valid and refused results, 3 offers | the entries are the placement histogram of the first accepted result of each match |
| `bot_requests` | 2 bots, 1 owner, 2 names, 2 concurrent revisions beside a request, a change of the limit, 3 revisions | `QuotaOnCreate`, `RetiredIsFrozen`, `RunPinsOneMoment` |
| `game_registry` | 2 releases of one game (a built-in too), 1 AI, 2 concurrent calls, crashes, 1 run | `LookupNeverRegresses`, `AdmittedUnlessTorn`, `PinnedRunsNeverFallBack`; with deadlock checked |
| `auth` | 2 browsers with several tabs, 2 identities, 2 logins, 2 invites, a clock | `InviteMakesOneAccount`, `OneAccountPerIdentity`, `SignupUsesItsOwnInvite`, and `CallbackEnds` |
| `player_session` | either runtime, any bot, 2 calls, 3 lines, channel of 2 | fairness to honest bots (`HonestPlayer`, `AnswerSurvivesExit`), `ClosedChildGone`, `ModuleChannelSafe`, and that calls and Close end (`DeadlineEnforced`, `CloseReturns`) |
| `match_runner` | 2 players, 2 steps, everything may fail, the context may end at any moment | `CompletedIsWhole`, `EverySessionClosed`, `CancellationWins`, `AppliedWhole`; with deadlock checked, `Run` gets stuck nowhere |
| `gm_session` | a match resumed at turn 1 with 3 turns to play, a sidecar that may refuse, hang or die, contexts that end at any moment | `CaptureIsAcknowledged`, `SidecarInStep`, `NothingAfterAbandon`, `RunnerEnds` |
| `games_replay` | both games in every mode, 3 players, 2 turns or rounds, every answer or failure | `HistoryRebuilds`, `PlacementsFair`, `ResumeContinues` |

One run finds the code at odds with what the repository says of it (the finding
in `PROJECT.json` quotes it): `pin_lost` violates `PinnedRunsKeepTheirRelease`.
The other divergences met on the way, with the instances that show them, are in
section 6.

### Bounds, and why they are enough

Two processes are enough for every race between workers: the queue knows a
worker only by its id (the default id is shared by all, and the instances use
that worst case). Two runs of one match are enough for two official runs, for a
follow-up run and for a requeue beside another claim; two matches let a refused
result of one stand in the way of the other's ranking. A lease of one interval
lets it expire at any time. Two faults let a second server die during the
handover from the first. One publication per run (`MaxVersion` of
`PublicMatches`) separates an answer before it from one after it. A completed
match has one replay or none: a run that is executed again may find the file
whole, torn or missing, and describe it or not. `queue_readers` follows the
ranking and the spectators in separate behaviours, because neither touches the
queue or the other (`RankingRefinesQueue`, `PublicRefinesQueue`) and together
they only multiply. Heartbeats are punctual there (`TimelyHeartbeats`), since
with one server nobody takes over a run whose lease expires under its live
worker; the theorems assume neither. `Replays` is empty in the other instances of
the queue.

Two bots under a limit of at most two let one creation too many, or a lowered
limit, meet a creation under way; two editors are two transactions that count at
once; `MaxCalls` admits two calls at a time, and a creator resolves two bots
while an editor or a retirement writes between the two reads. Three revisions
let a bot be revised after two were made. `MaxScopeWrites` is one: the limit
changes once.

Two releases of one game order a newer one after an older, and one AI makes runs
possible; two calls let a registration or a request meet an upload, and two
uploads of a bundle meet each other. `MaxVersion` bounds the versions a bundle
may declare and is no bound of an execution.

Two logins are two callbacks, enough for one invite or one identity to be
carried twice, in one browser or in two; two invites let the same identity sign
up with either; a third subject or provider would add nobody to the races. One
tick lets an invite expire between the login and its callback.

Two calls, three lines and a channel of two let an answer be late, repeated, and
let the channel overflow with the reader still holding a line; `HonestPlayer`
speaks of the first `Cap` calls, because after more the answers nobody waits for
can fill the channel (16 in the code). Two players and two steps give every
order of answers and a failure before and after a complete step. Three turns let
a call be abandoned before, between and after the turns that were applied. Three
players are needed for a tie below a winner and for a sequential turn with
somebody in the middle; two rounds give ties and a history of more than one
entry. `Leavers` says which players' shutdowns may fail together: in the run none,
or the first and the last.

`SerialOperator` restricts a model to the deployments that
`docs/specs/platform-service-single-worker-assumptions.md` describes, where
read, decide and write are treated as sequential; `PromoteRace.cfg` shows what
happens without it. `GuardCanDrop` lets the lock's session end under a live
holder. `Clis` is empty wherever single-worker operation is assumed.

`player_session` runs without the deadlock check because a module may block the
session in `Send` for good; `ranking_table`, `auth`, `gm_session` and
`games_replay` because their offers, logins, match or turns come to an end.

### Fairness

`MCRunQueueLive`: every process and its heartbeat keep taking steps, a stopped
server is started again (the platform restarts it), and time passes. Faults are
limited in number, since a worker that always dies before its run is done owes
nothing; commands are not fair. `PlayerSession`: goroutines run and timers fire
(Go's scheduler and runtime timers); nothing is assumed of the bot, not even
that it reads or ends when signalled. `Auth`: a callback whose next statement
can run takes it (a handler's goroutine runs, the database answers); a statement
that waits for a lock is not enabled, and nothing obliges a statement to fail.
`GameMasterSession`: the runner's goroutine runs, a call whose context has ended
returns (its `select` sees it), and the shutdown context has a deadline; the
sidecar owes nothing.

## 4. What is proved

All for every value of the constants and without bounds on behaviours (beyond
those a module's own guards name).

`RunQueueProofs` (any number of servers and run-once processes, with or without
the lock): `SafeInv` is inductive. Beside the types it says that run ids have no
gaps, that a process inside `ProcessNext` carries a claimed run, and what the
process knows at each point (`Knows`): from `saving` on the match has a result,
from `decide` on the artifacts are stored, and the official flag it carries is
raised only between decision and return. The last part is what the invariants
need: `Update` writes the caller's flag and terminal metadata over the row, so
`OfficialImpliesCompleted` and `CompletedHasArtifacts` depend on what every late
writer still carries. From it follow `TypeCorrect`, `OfficialRunsCompleted`,
`CompletedRunsStored`, `LineageKept`, and `Refinement`: every step of the queue
is a step of `RunLifecycle` or leaves it unchanged.

Its second part assumes `SingleWorker` (no run-once, no lock loss, serialised
promotions). `GuardedInv` adds that whoever is past `AcquireWorker` holds the
lock, that the row is in the state its worker's program point expects, that the
artifacts are those this worker wrote, and that a decision to promote has no
rival. It yields `OneOfficialPerMatch`, `ArtifactsAreTheRecords`,
`RunsNotShared` and `CompletedStaysFrozen`.

Its third part takes that beyond the queue. `RankingRefinesQueue` and
`PublicRefinesQueue`: a step of `RunRanking` is a step of `RunQueue` or leaves
it alone, and one of `PublicMatches` likewise, so both modules inherit the
invariants of the queue. On `GuardedInv` stands `RankingInv`, again under
`SingleWorker`: the stored snapshot has one writer at a time (`OneWriter`: a
worker between read and write, or a promote handler in its refresh);
`Counted`: as long as no write was lost and no refresh is under way, the
snapshot lacks exactly the official run whose worker is about to apply it;
`SoundWriters`: nobody holds a run whose result is not a completed match's. It
yields `RankingCountsOfficial` and `RankedRunsStayEligible`. `PublicInv` says
that what a spectator's first read told of a run in a final state still holds
at the second and ever after: a terminal row never leaves its state, a run that
has ended publishes no more, a match with an official run keeps one
(`OfficialStays`), and the replay that the record of a completed run describes
is the one in its file (`ReplaysWhole`): between `Persist` and the completion
only the worker that wrote both works on the run. Hence `FinalAnswersStand`.

`PlayerSessionProofs`: `TypeCorrect` (with it, that the channel keeps within its
capacity); `ChildrenAreReaped` (Close of a child returns only after the child
ended) from `EndedInv`, which ties the channel's closing and the kill to the end
of the bot; `ModulesNeverPanic` from `ReaderFirst`, that a module's channel
closes only once the reader has stopped. `HonestPlayersNeverCharged` and
`AnswersSurviveExit` need the way of each line, `JudgedInv`. Requests are sent
in the order of the calls and an honest bot answers them in the order it heard
them (`SentInOrder`, `AnswersInOrder`). While nobody closes the session and
there is room for every answer (`InTime`), `Flow` says that what was written is,
in this order, what the calls have consumed, the lines in `incoming`, the line
the reader holds and the lines in the pipe (`LinesInOrder`), and that every
answer not yet consumed belongs to the current call or to an id that was set
aside as late (`Expected`). `Verdicts` and `Losses` keep what was decided for
the calls that ended, of which only the first `Cap` are judged. Whether a bot is honest is a history: a bot that writes an
answer before its request and hears the request later has broken the protocol,
although in the end its lines look right.

`AuthProofs` (any number of browsers, tabs, identities and invites): the
uniqueness of accounts is kept by two locks that nothing in the state names, so
the invariant says what a callback's program point entitles it to. `RowLocked`:
between the lock of an invite row and the commit the invite is unclaimed and no
other callback holds it; `IndexLocked`: between the entry in the unique index
and the commit no account and no other callback has the identity;
`CarriesItsInvite`: a callback carries the invite of its own login. With
`ClaimsMatchAccounts` (claims and accounts match one to one) it yields
`OneAccountPerInvite`, `IdentitiesAreUnique`, `SignupsKeepTheirInvite`,
`ClaimsAreExact` and `InvitesAreAuthorized`.

`BotRequestsProofs` (any owners, bots and concurrent calls): a transaction
decides from its snapshot, so the invariant relates snapshots to the table that
is committed. `SnapshotHolds`: a snapshot is older than the table, where bots
only age (never dropped, never given away, nothing written once retired), and a
transaction that locked the scope row saw the limit in force; `PicksOneMoment`:
what a request has picked was current in the one table it reads. From the first
follows that a creation that commits adds one bot to at most those it counted,
hence `QuotaIsKept` (by cardinalities); `RetirementIsFinal` and
`PinsAreConsistent` follow likewise.

`GameRegistryProofs` (any bundles, versions and scopes): a file that held its
bundle whole keeps it or is emptied by a second upload (`Kept`), rows once
complete stay so, and every call in progress is backed by what it has checked (an
upload that reached `admit` by its file, a registration and a run request by a
complete row). It yields `AdmissionIsBacked`. What a run pinned was admitted for
the game of the run (`RunBacked`), so the lookup that executes it finds that
release or a newer one and no built-in: `PinnedRunsNeverRegress`.
`LookupsNeverRegress` needs that rows describe the bundle
they name (`RowsDescribed`) and that the release a lookup gave last is still
there (`ServedStands`): the highest version of a set that only grows.

`GameMasterSessionProofs` (any turn a match starts from, any number of turns):
the runner checks only that a response carries the id of its call, so the
invariant says where responses are. `InStep`: until a call is abandoned the
channels hold exactly the call in progress or its response. `Behind`: from then
on they hold a response too many, so the next one taken is always older than the
call and is refused. `Truthful` ties the game of the sidecar to the turns the
runner saw applied, by the method of the call in progress; `LeftBehind`: after
an abandoned call at most one apply is still to be served, and no
initialization. `Course` ties the methods left to call to the operation and to
the memo of `InitializeMatch`. It yields `CapturesAreAcknowledged`,
`SidecarStaysInStep` and `NothingSucceedsAfterAbandon`.

`MatchRunnerProofs` (any number of players, steps and any deadlines): the
invariant counts what is in the event log. `Ledger`: each finished step has as
many results as requests of every player, and nothing is logged of a later step;
`Open`: the step in progress has one request for each of its players and one
result for those `RecordTurn` has passed, who all answered; `Closings`: who has
been shut down so far; `Verdict` ties `status` to the way out, and a completed
match past the capture to a captured state. The lemmas count events in a
concatenation (`HowManyConcat`) and show that `Requests` asks each player once,
whatever the set (`Ranks`, `OneRequestEach`). It yields
`CompletedRecordsAreWhole`, `SessionsAreClosedOnce`, `StepsAreAppliedWhole` and
`CancellationIsNoFailure`.

`ResultProofs`, first part (any bots, matches, seats and offers): `TableInv`
holds the histogram itself, that the table's keys and counters are well typed,
and that the applied matches are those of the valid offers. One offer is a loop
over placements, a recursive function; that it adds to every entry what the
placements hold for it (`PlaceAllCounts`) is shown by the least number of
placements at which it would not. `ValidIsAccepted`: the checks of the code, in
its order, accept exactly what the reference calls valid, pairwise distinct
players on one side and a cardinality on the other. It yields
`EntriesAlwaysCount`.

Second part (any number of players, rounds and retries, both games): in
`PositionInv` the master is always a `Position`, whose scores are counts of the
rounds in its history, and the log a sequence. That holds of a new match, is
kept by every turn (`JankenRound`, `EchoTurn`), by a snapshot and what is rebuilt
from it, and by a replay of any log up to any turn (`JankenFromHistory`,
`EchoFromHistory`, again by the least event at which it would fail). The order
in which a game ranks its players is a strict weak order (`JankenRanks`,
`EchoRanks`), so a sorted arrangement exists and is the one `Result` picks
(`SortingExists`), and along it the places of `Placements` count those ahead
(`PlacementsCount`). It yields `PlacementsAreFair` and `ResumedMatchesContinue`; the
latter speaks of one resumption, since the model takes a match up at most once.

Third part (the same bounds): `HistoryInv` says, of a match that was not taken
up, where each replay of its log so far has come to. `Course` is the shape of
the match: the step in progress is the one the game asks for, and there is a
boundary for each turn it has resolved. In `SessionFollows` the replay of a game
master session, one status at a time, is where the runner is (`AtRunner`),
except that it applies a step as soon as it has read its last status; it passed
each boundary `NPlayers` statuses after the one before, and was asked for no
later turn until then (`Marks`). In `JankenFollows` the rounds that janken plays
again from the log are those of the boundaries, and the statuses of the step in
progress are in the log as normalised. In `EchoFollows` the accepted statuses
logged up to a turn, and the last one, are the score and the last status of its
boundary. The lemmas under them say what a longer log changes for each reader
(`SessionPlaysOn`, `ReplaysOn`, `OfStands`, and `StatusLogged`, `OfLogged` for
one more status) and that the events of turn 0 left by stopped players change
nothing. A finished replay is unique (`SessionRebuilds`, `ReplaysAgree`), so
what the log gives back is what was played: `HistoryIsEnough`.

Only model-checked: all liveness (`QueuedRunsFinish`, `DeadlineEnforced`,
`CloseReturns`, `CallbackEnds`, `RunnerEnds`; out of the prover's reach).
Every other property of a passing run is a theorem.

## 5. Not modelled

- Queue: the in-memory queue's own `order` list, the object-store persister's
  upload order; submissions that already carry an official flag.
- Match runner: observers and payloads, the diagnostic and late-response events;
  a second Close of a session by the runner's owner. Request ids are taken to be
  distinct within a session, as the runner makes them. Runtime start-up errors,
  stderr capture, module limits.
- Match requests: listing, the scheduling of several requests' runs (the queue
  takes them in order), the legacy client-supplied `match_id`.
- Registry and bundles: archive and version parsing, the S3 store (whose puts
  are conditional requests), the in-memory general store.
- Public state: the filters, order and pages of the match list.
- Authentication: the HTTP exchange with the providers and the signatures of
  cookies; a signed value is taken to be unforgeable.
- Replay: reading record files and `replay_inputs`; the output files and flags
  of the command-line runner.
- The HTTP handlers beyond what they call (decode, call, encode), the operator
  UI (a front end over the same surface), test doubles, generated query code.
- A call that sets a late response aside and then does not end with its own
  response drops it from its result; a worker that stops after an official
  completion leaves the ranking behind until the next promotion; the race of
  `ApplyCompleted` with a promotion is excluded with `SerialOperator`.

## 6. Where the code and its documents part

Checked as a run:

- `pin_lost` (`PinnedRunsKeepTheirRelease`, `service/store_postgres.go:101`): the
  queue has no column for the release a submission pinned. A claimed record has
  none, and the worker runs the latest admitted release of the major version
  (`service/worker_local.go:76`), against `docs/specs/platform-artifact-bundle.md:20`,
  `docs/specs/platform-service-general-submission.md:56-63` and
  `docs/specs/platform-game-registry.md:63-64`. What is left of the promise, and
  proved, is `PinnedRunsNeverFallBack`: the release is no older one, and not the
  built-in.

Instances kept beside the runs. In each TLC finds the named property violated:

| Instance | Module | Violated | In short |
|---|---|---|---|
| `LeaseWriteBack.cfg` | `MCRunQueue` | `LiveLeaseHeld` | `Update` writes the claim's lease back over a newer heartbeat (`service/worker.go:54`); the lease of a punctual worker expires, against `docs/specs/platform-service-persistence.md:73`. A lease of three intervals lets a heartbeat and a write-back come in either order |
| `PromoteRace.cfg` | `MCRunQueue` | `AtMostOneOfficial` | a promotion between the worker's decision and its write leaves two official runs, within one process (`service/worker.go:101`, against `docs/specs/platform-service-match-request-scheduling.md:87`) |
| `RunOnceBesideServer.cfg` | `MCRunQueue` | `OneWorkerExecutes` | `run-once` on the shared queue takes no lock (`cmd/arena-service/main.go:490`, against `docs/specs/platform-service-single-worker-assumptions.md:56`) |
| `SessionStuckInSend.cfg` | `PlayerSession` | `CallReturns` | `Send` to a module that does not read blocks before any deadline exists (`session/session.go:115`, against `docs/specs/ai-runtime.md:177`) |
| `SessionKillRace.cfg` | `PlayerSession` | `NoSendOnClosed` | `Close` of a killed child closes `incoming` while the reader holds a line for it (`runtime/local_subprocess.go:122`, against `docs/specs/platform.md:355`) |
| `GameOverCut.cfg` | `MatchRunner` | `GameOverDeadlineKept` | `game_over` calls are cut by the one-second shutdown context (`match/match.go:159`, against `docs/specs/platform.md:475` and `:442`) |
| `BundleTorn.cfg` | `MCGameRegistry` | `AdmittedIsStored` | two uploads of one bundle both find no file; the first is admitted, the second truncates the file and dies. The release stays admitted over an empty file, and no later upload repairs it (`service/artifact_bundle_store.go:51`, against `docs/specs/platform-artifact-bundle.md:13`). What is left, and proved, is `AdmittedUnlessTorn`: nothing else empties it |
| `ScopeRebound.cfg` | `MCGameRegistry` | `ScopeKeepsItsGame` | `Save` rewrites an existing scope's active release but not its game, so registering another game under an existing id leaves the scope of one game with a release of another (`service/general_postgres.go:81`, against `docs/specs/platform-service-general-submission.md:13`) |
| `RefusedRuns.cfg` | `MCBotRequests` | `RefusedNeverRuns` | a request whose save conflicts is answered 409 whether or not the rollback of its run succeeded; a worker that has claimed the run executes it (`service/request.go:308`; `service/request_test.go:218`, which has no worker beside it, expects it canceled) |
| `ResumeMidTurn.cfg` | `GameReplay` | `ResumeAnywhere` | a sequential echo-count match taken up between the players of a turn starts the turn over, because the snapshot does not hold whose turn it is (`internal/games/echo/echo.go:532`, against `docs/specs/game-master.md:220`) |

Seen in the code while modelling it, and modelled as the code has it:

- Games: the `turn` that `SnapshotFromHistory` of echo-count shows a player is
  the expected number, not the turn (`internal/games/echo/echo.go:235`), so
  `HistoryRebuilds` does not compare it for a shuffled game. The log of a match
  that was itself taken up lacks the turns before, and a replay past an
  incomplete last turn fails: `HistoryRebuilds` speaks of matches played from
  their start and of the turns they completed.
- Bots: the in-memory store leaves retired bots out of name uniqueness, the
  database includes them.
- Match requests: the rollback runs under the client's context; if the client
  has gone, its Cancel fails and the run stays queued.
  Requests and AI submissions are lost on a restart that the queue survives.
- Registry: a metadata-only registration of a built-in game writes an incomplete
  `legacy:` row, after which every lookup of the game fails (see
  `docs/issues/0043-game-release-runtime-default-migration-drift.md`). A run of a
  built-in game pins nothing, and is resolved again when it is executed.
- Bundles: a write that is interrupted leaves a partial file under the digest,
  and every later upload of the same bytes is refused as a collision, against
  `docs/specs/platform-artifact-bundle.md:13`.
- Authentication: a callback that fails or does not match clears the cookie of a
  newer login; the expiry of an invite is compared with a time read before the
  wait for its row; logout drops an error of `DeleteSession` (`service/auth.go:339`).
- Ranking: a stored ranking is in completion order, a recomputed one in queue
  order (`service/ranking.go:560`); the model's snapshot is the set of applied
  runs and leaves the order out.

## 7. Plan

Done, in this order: `RunLifecycle` and `RunQueue` with their proofs;
`RunRanking` and `RankingTable`; `PlayerSession`; `MatchRunner`; the games with
`GameReplay`; `Auth`, `GameMasterSession`, `BotRequests`, `GameRegistry`,
`PublicMatches`; the proofs about each of them.

Next:
1. The S3 bundle store beside the filesystem one.
2. The scheduling of several requests' runs.
