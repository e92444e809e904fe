------------------------------ MODULE RunQueue ------------------------------
(***************************************************************************)
(* The durable run queue of the platform service and the processes that    *)
(* work on it: the PostgreSQL queue store (store_postgres.go, query.sql),  *)
(* the worker loop and ProcessNext (worker_loop.go, worker.go), the        *)
(* heartbeat goroutine, the advisory-lock guard, and the operator commands *)
(* (command.go, run_commands.go).                                          *)
(*                                                                         *)
(* One call to the store is one step: every store method is one SQL        *)
(* statement or one transaction that locks the row.  Between two calls     *)
(* anything else may happen, including the death of the process.           *)
(*                                                                         *)
(* Runs are numbered by queue_order.  Time is counted in heartbeat         *)
(* intervals (workerLeaseDuration / 3), and a lease deadline is kept as    *)
(* the intervals left until it, so ttl = 0 is "deadline <= now".           *)
(***************************************************************************)
EXTENDS Naturals

CONSTANTS
  MaxRuns,          \* how many runs may ever be submitted (bound)
  Matches,          \* match_ids
  Servers,          \* `arena-service serve` processes
  Clis,             \* `arena-service run-once --postgres-dsn` processes
  WorkerID,         \* [Procs -> worker_id]; the flag's default is one shared id
  LeaseTicks,       \* workerLeaseDuration in heartbeat intervals
  GuardCanDrop,     \* may the session that holds the advisory lock be lost?
  SerialOperator,   \* is Promote kept out of a worker's promotion decision?
  TimelyHeartbeats, \* does every live heartbeat goroutine fire each interval?
  Replays,          \* public replays a completed match may come with ({}: none modelled)
  None

Runs  == 1..MaxRuns
Procs == Servers \cup Clis

ASSUME RunBound    == MaxRuns \in Nat \ {0}
ASSUME LeaseBound  == LeaseTicks \in Nat \ {0}
ASSUME ProcKinds   == Servers \cap Clis = {} /\ None \notin Procs
ASSUME WorkerIDs   == \A p \in Procs : WorkerID[p] # None
ASSUME MatchIDs    == None \notin Matches
ASSUME ReplayIDs   == Replays \cap {"none", "completed", "aborted"} = {}
ASSUME Switches    == /\ GuardCanDrop \in BOOLEAN
                      /\ SerialOperator \in BOOLEAN
                      /\ TimelyHeartbeats \in BOOLEAN

VARIABLES
  state,      \* service_queue_records, by run: the lifecycle state,
  submission, \*   the immutable submission snapshot,
  official,   \*   the runs whose official flag is set,
  lease,      \*   worker_id and the intervals left until lease_deadline,
  terminal,   \*   match status in terminal_json
  artifacts,  \* match status in the terminal artifacts stored under the run's directory
  guard,      \* the process whose session holds the advisory lock
  pc,         \* where each process is in WorkerLoop.Run / ProcessNext
  job,        \* the QueueRecord value ProcessNext carries in its local variable
  beat        \* the heartbeat goroutine of the process

row  == <<state, submission, official, lease, terminal>>
vars == <<state, submission, official, lease, terminal, artifacts, guard, pc, job, beat>>

-----------------------------------------------------------------------------
InFlight == {"leased", "running", "persisting"}
Terminal == {"completed", "failed", "canceled"}
LifecycleState == {"absent", "queued"} \cup InFlight \cup Terminal

\* Match status in the runner's record; "aborted" stands for failed and canceled.
\* A completed match is told apart by its public replay: "completed" has none,
\* because none was captured or it is over the size limit.
Finished == {"completed"} \cup Replays
MatchStatus == Finished \cup {"aborted"}

Submission == [match : Matches \cup {None}, kind : {"none", "initial", "retry", "rerun"},
               parent : 0..MaxRuns]
NoSubmission == [match |-> None, kind |-> "none", parent |-> 0]

OwnerIDs == {WorkerID[p] : p \in Procs}

Lease == [owner : OwnerIDs \cup {None}, ttl : 0..LeaseTicks]
NoLease == [owner |-> None, ttl |-> 0]

\* The fields of the local record that Update writes back; `status` is the
\* match status of the runner's result.
Job == [run : 0..MaxRuns, official : BOOLEAN, ttl : 0..LeaseTicks,
        terminal : MatchStatus \cup {"none"}, status : MatchStatus \cup {"none"}]

NoJob == [run |-> 0, official |-> FALSE, ttl |-> 0, terminal |-> "none", status |-> "none"]

\* The record a process carries after the runner's result, the stored
\* artifacts or the promotion decision were entered in it.
Carried(j, off, t, s) ==
  [run |-> j.run, official |-> off, ttl |-> j.ttl, terminal |-> t, status |-> s]

\* Program points at which ProcessNext holds a claimed record.
Working == {"start", "execute", "saving", "persist", "failing", "decide", "finish", "rank"}
PC == {"off", "acquire", "recover", "claim"} \cup Working

Executing(p) == pc[p] \in Working

Init ==
  /\ state = [r \in Runs |-> "absent"]
  /\ submission = [r \in Runs |-> NoSubmission]
  /\ official = {}
  /\ lease = [r \in Runs |-> NoLease]
  /\ terminal = [r \in Runs |-> "none"]
  /\ artifacts = [r \in Runs |-> "none"]
  /\ guard = None
  /\ pc = [p \in Procs |-> "off"]
  /\ job = [p \in Procs |-> NoJob]
  /\ beat = [p \in Procs |-> "off"]

-----------------------------------------------------------------------------
(* Queue store *)

\* Faulty variants are named Bug... throughout: each changes the definition
\* after it as a plausible slip in that code would.  They are used only to
\* confirm that the properties below would notice.

ValidateTransition(from, to) ==
  \/ from = to
  \/ <<from, to>> \in {<<"queued", "leased">>, <<"queued", "canceled">>,
                       <<"leased", "running">>, <<"leased", "failed">>,
                       <<"running", "persisting">>, <<"running", "failed">>,
                       <<"persisting", "completed">>, <<"persisting", "failed">>}

\* queue_order is a sequence: the next free number.
IsNextRun(r) ==
  /\ state[r] = "absent"
  /\ \A q \in Runs : q < r => state[q] # "absent"

Enqueue(r, m, k, parent) ==
  /\ IsNextRun(r)
  /\ state' = [state EXCEPT ![r] = "queued"]
  /\ submission' = [submission EXCEPT ![r] = [match |-> m, kind |-> k, parent |-> parent]]
  /\ UNCHANGED <<official, lease, terminal>>

\* Update replaces the whole row by the caller's record, lease and official
\* flag included; the only check is ValidateTransition.
UpdateWith(p, s) ==
  LET r == job[p].run IN
  /\ ValidateTransition(state[r], s)
  /\ state' = [state EXCEPT ![r] = s]
  /\ official' = IF job[p].official THEN official \cup {r} ELSE official \ {r}
  /\ lease' = [lease EXCEPT ![r] = [owner |-> WorkerID[p], ttl |-> job[p].ttl]]
  /\ terminal' = [terminal EXCEPT ![r] = job[p].terminal]
  /\ UNCHANGED submission

BugRecoverTerminal(q) == state[q] # "absent" /\ (lease[q].owner = None \/ lease[q].ttl = 0)

BugRecoverLeasedOnly(q) == state[q] = "leased" /\ lease[q].ttl = 0

IsRecoverable(q) ==
  state[q] \in InFlight /\ (lease[q].owner = None \/ lease[q].ttl = 0)

-----------------------------------------------------------------------------
(* Operator commands: HTTP handlers and CLI subcommands *)

Others == <<artifacts, guard, pc, job, beat>>

Match(r) == submission[r].match

Submit(r, m) == Enqueue(r, m, "initial", 0) /\ UNCHANGED Others

Retry(r, parent) ==
  /\ state[parent] = "failed"
  /\ Enqueue(r, Match(parent), "retry", parent)
  /\ UNCHANGED Others

Rerun(r, parent) ==
  /\ state[parent] = "completed"
  /\ Enqueue(r, Match(parent), "rerun", parent)
  /\ UNCHANGED Others

Cancel(r) ==
  /\ state[r] = "queued"
  /\ state' = [state EXCEPT ![r] = "canceled"]
  /\ lease' = [lease EXCEPT ![r] = NoLease]
  /\ terminal' = [terminal EXCEPT ![r] = "none"]
  /\ UNCHANGED <<submission, official>> /\ UNCHANGED Others

BugPromoteUnfinished(r) ==
  /\ state[r] \notin {"absent", "failed", "canceled"}
  /\ official' = {q \in official : Match(q) # Match(r)} \cup {r}
  /\ UNCHANGED <<state, submission, lease, terminal>> /\ UNCHANGED Others

\* The handler runs beside the worker; SerialOperator restricts the model to
\* the deployments docs/specs/platform-service-single-worker-assumptions.md
\* describes, where promotion decisions are made one at a time.
Promote(r) ==
  /\ state[r] = "completed"
  /\ SerialOperator => \A p \in Procs : pc[p] # "finish"
  /\ official' = {q \in official : Match(q) # Match(r)} \cup {r}
  /\ UNCHANGED <<state, submission, lease, terminal>> /\ UNCHANGED Others

-----------------------------------------------------------------------------
(* WorkerLoop.Run *)

Goto(p, l) == pc' = [pc EXCEPT ![p] = l]

\* ProcessNext returns: the heartbeat stops, a server polls again, run-once exits.
Return(p) ==
  /\ Goto(p, IF p \in Clis THEN "off" ELSE "recover")
  /\ job' = [job EXCEPT ![p] = NoJob]
  /\ beat' = [beat EXCEPT ![p] = "off"]

Serve(p) ==
  /\ p \in Servers /\ pc[p] = "off"
  /\ Goto(p, "acquire")
  /\ UNCHANGED <<row, artifacts, guard, job, beat>>

\* run-once submits its own run and goes straight to ProcessNext: no guard.
RunOnce(p, r, m) ==
  /\ p \in Clis /\ pc[p] = "off"
  /\ Enqueue(r, m, "initial", 0)
  /\ Goto(p, "claim")
  /\ UNCHANGED <<artifacts, guard, job, beat>>

BugTakeLock(p) ==
  /\ pc[p] = "acquire"
  /\ guard' = p
  /\ Goto(p, "recover")
  /\ UNCHANGED <<row, artifacts, job, beat>>

AcquireWorker(p) ==
  /\ pc[p] = "acquire" /\ guard = None
  /\ guard' = p
  /\ Goto(p, "recover")
  /\ UNCHANGED <<row, artifacts, job, beat>>

\* Handoff timeout while another process owns the queue; a database error or
\* a canceled context ends the wait at once.  The process exits.
AcquireGivesUp(p) ==
  /\ pc[p] = "acquire"
  /\ Goto(p, "off")
  /\ UNCHANGED <<row, artifacts, guard, job, beat>>

RecoverExpired(p) ==
  /\ pc[p] = "recover"
  /\ state' = [q \in Runs |-> IF IsRecoverable(q) THEN "queued" ELSE state[q]]
  /\ lease' = [q \in Runs |-> IF IsRecoverable(q) THEN NoLease ELSE lease[q]]
  /\ Goto(p, "claim")
  /\ UNCHANGED <<submission, official, terminal, artifacts, guard, job, beat>>

-----------------------------------------------------------------------------
(* Worker.ProcessNext *)

Claim(p) ==
  /\ pc[p] = "claim"
  /\ \E r \in Runs :
       /\ state[r] = "queued"
       /\ \A q \in Runs : q < r => state[q] # "queued"
       /\ state' = [state EXCEPT ![r] = "leased"]
       /\ lease' = [lease EXCEPT ![r] = [owner |-> WorkerID[p], ttl |-> LeaseTicks]]
       /\ job' = [job EXCEPT ![p] = [run |-> r, official |-> r \in official,
                                     ttl |-> LeaseTicks, terminal |-> terminal[r],
                                     status |-> "none"]]
  /\ beat' = [beat EXCEPT ![p] = "sent"]
  /\ Goto(p, "start")
  /\ UNCHANGED <<submission, official, terminal, artifacts, guard>>

ClaimNothing(p) ==
  /\ pc[p] = "claim"
  /\ \A r \in Runs : state[r] # "queued"
  /\ Return(p)
  /\ UNCHANGED <<row, artifacts, guard>>

\* Update is refused or fails: ProcessNext returns and leaves the row as it is.
UpdateRefused(p, s) ==
  /\ ~ValidateTransition(state[job[p].run], s)
  /\ Return(p)
  /\ UNCHANGED <<row, artifacts, guard>>

MarkRunning(p) ==
  /\ pc[p] = "start"
  /\ \/ /\ UpdateWith(p, "running")
        /\ Goto(p, "execute")
        /\ UNCHANGED <<artifacts, guard, job, beat>>
     \/ UpdateRefused(p, "running")

\* runner.Run returns a record for this match with any terminal status, or no
\* record (or one for another match).
Execute(p) ==
  /\ pc[p] = "execute"
  /\ \/ \E s \in MatchStatus :
          /\ job' = [job EXCEPT ![p] = Carried(job[p], job[p].official, job[p].terminal, s)]
          /\ Goto(p, "saving")
     \/ job' = job /\ Goto(p, "failing")
  /\ UNCHANGED <<row, artifacts, guard, beat>>

MarkPersisting(p) ==
  /\ pc[p] = "saving"
  /\ \/ /\ UpdateWith(p, "persisting")
        /\ Goto(p, "persist")
        /\ UNCHANGED <<artifacts, guard, job, beat>>
     \/ UpdateRefused(p, "persisting")

BugRecordBeforeStoring(p) ==
  /\ pc[p] = "persist"
  /\ job' = [job EXCEPT ![p] = Carried(job[p], job[p].official, job[p].status, job[p].status)]
  /\ Goto(p, "decide")
  /\ UNCHANGED <<row, artifacts, guard, beat>>

\* Files are written one by one under output_dir/run_id, replacing those of an
\* earlier execution; an error may come before or after the summary is written.
Persist(p) ==
  /\ pc[p] = "persist"
  /\ \/ /\ artifacts' = [artifacts EXCEPT ![job[p].run] = job[p].status]
        /\ job' = [job EXCEPT ![p] = Carried(job[p], job[p].official, job[p].status, job[p].status)]
        /\ Goto(p, "decide")
     \/ /\ artifacts' \in {artifacts, [artifacts EXCEPT ![job[p].run] = job[p].status]}
        /\ job' = job
        /\ Goto(p, "failing")
  /\ UNCHANGED <<row, guard, beat>>

MarkFailed(p) ==
  /\ pc[p] = "failing"
  /\ \/ UpdateWith(p, "failed") /\ Return(p) /\ UNCHANGED <<artifacts, guard>>
     \/ UpdateRefused(p, "failed")

BugPromoteWithoutLooking(p) == submission[job[p].run].kind # "rerun"

ShouldAutoPromote(p) ==
  LET r == job[p].run IN
  /\ submission[r].kind # "rerun"
  /\ ~\E q \in Runs : /\ q # r
                      /\ Match(q) = Match(r)
                      /\ state[q] = "completed"
                      /\ q \in official

\* A failing List leaves official as it was claimed.
DecideOfficial(p) ==
  /\ pc[p] = "decide"
  /\ \/ /\ job[p].status \in Finished
        /\ job' = [job EXCEPT ![p] = Carried(job[p], ShouldAutoPromote(p), job[p].terminal, job[p].status)]
     \/ job' = job
  /\ Goto(p, "finish")
  /\ UNCHANGED <<row, artifacts, guard, beat>>

\* The ranking update that follows an official completion is in RunRanking.
MarkCompleted(p) ==
  /\ pc[p] = "finish"
  /\ \/ /\ UpdateWith(p, "completed")
        /\ \/ /\ job[p].official
              /\ Goto(p, "rank")
              /\ UNCHANGED <<job, beat>>
           \/ ~job[p].official /\ Return(p)
        /\ UNCHANGED <<artifacts, guard>>
     \/ UpdateRefused(p, "completed")

Rank(p) ==
  /\ pc[p] = "rank"
  /\ Return(p)
  /\ UNCHANGED <<row, artifacts, guard>>

-----------------------------------------------------------------------------
(* Heartbeats, time and faults *)

\* A heartbeat that no longer finds its lease stops the goroutine and cancels
\* the run's context, which ends Execute with any of its outcomes.
Heartbeat(p) ==
  /\ beat[p] = "due"
  /\ LET r == job[p].run IN
     \/ /\ lease[r].owner = WorkerID[p] /\ state[r] \in InFlight
        /\ lease' = [lease EXCEPT ![r] = [owner |-> WorkerID[p], ttl |-> LeaseTicks]]
        /\ beat' = [beat EXCEPT ![p] = "sent"]
     \/ /\ ~(lease[r].owner = WorkerID[p] /\ state[r] \in InFlight)
        /\ beat' = [beat EXCEPT ![p] = "off"]
        /\ lease' = lease
  /\ UNCHANGED <<state, submission, official, terminal, artifacts, guard, pc, job>>

HeartbeatFails(p) ==
  /\ beat[p] = "due"
  /\ beat' = [beat EXCEPT ![p] = "off"]
  /\ UNCHANGED <<row, artifacts, guard, pc, job>>

Less(n) == IF n = 0 THEN 0 ELSE n - 1

\* One heartbeat interval passes.
Tick ==
  /\ TimelyHeartbeats => \A p \in Procs : beat[p] # "due"
  /\ lease' = [r \in Runs |-> [owner |-> lease[r].owner, ttl |-> Less(lease[r].ttl)]]
  /\ job' = [p \in Procs |-> [run |-> job[p].run, official |-> job[p].official,
                              ttl |-> Less(job[p].ttl), terminal |-> job[p].terminal,
                              status |-> job[p].status]]
  /\ beat' = [p \in Procs |-> IF beat[p] = "sent" THEN "due" ELSE beat[p]]
  /\ UNCHANGED <<state, submission, official, terminal, artifacts, guard, pc>>

\* A store call fails without effect (lost connection, canceled context).
StoreFails(p) ==
  /\ pc[p] \in {"claim", "start", "saving", "failing", "finish"}
  /\ Return(p)
  /\ UNCHANGED <<row, artifacts, guard>>

\* The process dies, or shuts down before its run is finished: the deferred
\* release, or the end of its session, frees the advisory lock.
Stop(p) ==
  /\ pc[p] # "off"
  /\ Goto(p, "off")
  /\ job' = [job EXCEPT ![p] = NoJob]
  /\ beat' = [beat EXCEPT ![p] = "off"]
  /\ guard' = IF guard = p THEN None ELSE guard
  /\ UNCHANGED <<row, artifacts>>

\* The session that holds the lock ends while its process lives on, untold.
GuardDrops ==
  /\ GuardCanDrop /\ guard # None
  /\ guard' = None
  /\ UNCHANGED <<row, artifacts, pc, job, beat>>

-----------------------------------------------------------------------------
Operator ==
  \E r \in Runs :
    \/ \E m \in Matches : Submit(r, m)
    \/ \E parent \in Runs : Retry(r, parent) \/ Rerun(r, parent)
    \/ Cancel(r)
    \/ Promote(r)

Step(p) ==
  \/ Serve(p) \/ AcquireWorker(p) \/ RecoverExpired(p)
  \/ Claim(p) \/ ClaimNothing(p) \/ MarkRunning(p) \/ Execute(p)
  \/ MarkPersisting(p) \/ Persist(p) \/ MarkFailed(p)
  \/ DecideOfficial(p) \/ MarkCompleted(p) \/ Rank(p)

Fault(p) == AcquireGivesUp(p) \/ HeartbeatFails(p) \/ StoreFails(p) \/ Stop(p)

Next ==
  \/ Operator
  \/ \E p \in Procs : \/ Step(p) \/ Fault(p) \/ Heartbeat(p)
                      \/ \E r \in Runs, m \in Matches : RunOnce(p, r, m)
  \/ Tick
  \/ GuardDrops

Spec == Init /\ [][Next]_vars

\* The scheduler runs every process and goroutine, the platform restarts a
\* stopped server, a match ends, and time passes.  Commands and faults are
\* not fair.
Fairness ==
  /\ \A p \in Procs : WF_vars(Step(p)) /\ WF_vars(Heartbeat(p))
  /\ WF_vars(Tick)

FairSpec == Spec /\ Fairness

-----------------------------------------------------------------------------
(* Properties *)

TypeOK ==
  /\ state \in [Runs -> LifecycleState]
  /\ submission \in [Runs -> Submission]
  /\ official \subseteq Runs
  /\ lease \in [Runs -> Lease]
  /\ terminal \in [Runs -> MatchStatus \cup {"none"}]
  /\ artifacts \in [Runs -> MatchStatus \cup {"none"}]
  /\ guard \in Procs \cup {None}
  /\ pc \in [Procs -> PC]
  /\ job \in [Procs -> Job]
  /\ beat \in [Procs -> {"off", "due", "sent"}]

\* The lifecycle the service promises, seen through the rows of the queue.
Life(r) == IF state[r] \in InFlight THEN "working" ELSE state[r]

Lifecycle == INSTANCE RunLifecycle
               WITH Run <- Runs, life <- [r \in Runs |-> Life(r)], chosen <- official

\* Every behaviour of queue, workers and operators is one of RunLifecycle: a
\* terminal state is never left and no run skips a stage, whichever worker
\* writes late (ValidateTransition; the state lists of RecoverExpired and
\* CancelQueued).
LifecycleSpec == Lifecycle!Spec

\* A run is official only once it has completed, whatever worker died or came
\* back late in between (Update writes the caller's flag; Promote checks the
\* state).
OfficialImpliesCompleted ==
  \A r \in official : state[r] = "completed"

\* A follow-up run keeps its parent's match, and its parent is still in the
\* state that allowed it: failed for a retry, completed for a rerun.
Lineage ==
  \A r \in Runs : submission[r].kind \in {"retry", "rerun"} =>
    LET q == submission[r].parent IN
    /\ q \in Runs /\ q < r
    /\ Match(q) = Match(r)
    /\ state[q] = IF submission[r].kind = "retry" THEN "failed" ELSE "completed"

\* Two processes never work on one run at the same time, although leases
\* expire, processes stop at any point and are replaced.
OneWorkerPerRun ==
  \A p, q \in Procs : Executing(p) /\ Executing(q) /\ p # q => job[p].run # job[q].run

\* Only one process executes runs at all.
OneWorkerExecutes ==
  \A p, q \in Procs : Executing(p) /\ Executing(q) => p = q

\* Of the runs of one match at most one is official.
AtMostOneOfficial ==
  \A r, q \in official : Match(r) = Match(q) => r = q

\* The artifacts stored for a completed run are those its record describes:
\* no other execution of the run wrote over them.
ArtifactsMatchRecord ==
  \A r \in Runs : state[r] = "completed" =>
    terminal[r] # "none" /\ artifacts[r] = terminal[r]

\* No run is recorded as completed before its terminal artifacts are stored,
\* however the process that ran it ended.
CompletedHasArtifacts ==
  \A r \in Runs : state[r] = "completed" =>
    terminal[r] # "none" /\ artifacts[r] # "none"

\* What a completed run's record says of the match never changes again.
CompletedIsFrozen ==
  [][\A r \in Runs : state[r] = "completed" =>
       terminal'[r] = terminal[r] /\ artifacts'[r] = artifacts[r]]_vars

\* A worker whose heartbeats are all on time never finds the lease of the run
\* it works on expired.
LiveLeaseHeld ==
  \A p \in Procs : beat[p] # "off" =>
    LET r == job[p].run IN
    lease[r].owner = WorkerID[p] /\ state[r] \in InFlight => lease[r].ttl > 0

\* Every queued run is eventually completed, failed or canceled.
QueuedRunsFinish ==
  \A r \in Runs : state[r] = "queued" ~> state[r] \in Terminal

-----------------------------------------------------------------------------
(* Inductive strengthenings *)

\* run ids are handed out without gaps.
DenseRuns ==
  \A r, q \in Runs : q < r /\ state[r] # "absent" => state[q] # "absent"

\* Whoever is inside ProcessNext holds a claimed record.
JobHeld == \A p \in Procs : Executing(p) => job[p].run \in Runs

\* What a process knows at each point of ProcessNext, true with any number of
\* workers: the official flag is raised only after the decision, and by then
\* the artifacts are stored.
Knows(p) ==
  /\ pc[p] \in {"saving", "persist"} => job[p].status # "none"
  /\ pc[p] \in {"decide", "finish", "rank"} =>
       job[p].terminal # "none" /\ artifacts[job[p].run] # "none"
  /\ job[p].official => pc[p] \in {"finish", "rank"}

JobTracksPC == \A p \in Procs : Knows(p)

SafeInv ==
  /\ TypeOK /\ JobHeld /\ DenseRuns /\ JobTracksPC
  /\ OfficialImpliesCompleted /\ CompletedHasArtifacts /\ Lineage

\* The state the row is in while its worker is at a program point.
InStep(l, s) ==
  <<l, s>> \in {<<"start", "leased">>, <<"execute", "running">>, <<"saving", "running">>,
               <<"failing", "running">>, <<"failing", "persisting">>, <<"persist", "persisting">>,
               <<"decide", "persisting">>, <<"finish", "persisting">>, <<"rank", "completed">>}

\* Whoever is past AcquireWorker holds the lock.
GuardHeld == \A p \in Procs : pc[p] \notin {"off", "acquire"} => guard = p

\* Under the guard the row is where its worker's program point says, the stored
\* artifacts are the ones this worker wrote, and a decision to promote has no
\* rival.
InCharge(p) ==
  /\ Executing(p) => InStep(pc[p], state[job[p].run])
  /\ pc[p] \in {"decide", "finish"} => artifacts[job[p].run] = job[p].terminal
  /\ pc[p] = "finish" /\ job[p].official =>
       \A q \in official : Match(q) # Match(job[p].run)

GuardedInv ==
  /\ SafeInv
  /\ GuardHeld
  /\ \A p \in Procs : InCharge(p)
  /\ ArtifactsMatchRecord
  /\ AtMostOneOfficial

\* The deployment the platform supports: one worker at a time, enforced by the
\* advisory lock, and promotions not racing its promotion decision.
SingleWorker == Clis = {} /\ ~GuardCanDrop /\ SerialOperator
=============================================================================
