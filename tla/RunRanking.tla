----------------------------- MODULE RunRanking -----------------------------
(***************************************************************************)
(* The ranking snapshot beside the run queue (ranking.go): the worker adds *)
(* a run it completed as official (Worker.ProcessNext, ApplyCompleted),    *)
(* and the promote handler rebuilds the snapshot from the queue            *)
(* (RunCommandService.Promote, RefreshCompletedRun, Recompute).  Neither   *)
(* holds a lock between its read and its write.                            *)
(*                                                                         *)
(* Servers only: run-once is in RunQueue.                                  *)
(*                                                                         *)
(* One scope is modelled: all runs are of one game and ruleset, and every  *)
(* player of a submission carries a bot_id.  The snapshot is the set of    *)
(* applied runs; its entries are a fold over them (module RankingTable).   *)
(***************************************************************************)
EXTENDS RunQueue

VARIABLES
  snapshot,  \* applied_run_ids of the stored snapshot
  seen,      \* by process: the snapshot ApplyCompleted has read, as a set of at most one
  refresh,   \* by server: the promotion whose refresh is in progress
  behind     \* history: was a write lost, and nothing rebuilt since?

rankingVars == <<snapshot, seen, refresh, behind>>
allVars == <<vars, rankingVars>>

Idle == [phase |-> "idle", run |-> 0, applied |-> {}]

RankingInit ==
  /\ Init
  /\ snapshot = {}
  /\ seen = [p \in Procs |-> {}]
  /\ refresh = [p \in Servers |-> Idle]
  /\ behind = FALSE

-----------------------------------------------------------------------------
\* A run, or a match, that was already applied is not applied again.
applyRankingUpdate(applied, r) ==
  IF \E q \in applied : q = r \/ Match(q) = Match(r) THEN applied ELSE applied \cup {r}

\* The records whose result Recompute reads: the official completed runs.
Eligible == {r \in Runs : state[r] = "completed" /\ r \in official /\ terminal[r] # "none"}

\* It applies them in queue order to an empty snapshot, so the first of each
\* match counts.
Recompute == {r \in Eligible : \A q \in Eligible : Match(q) = Match(r) => r <= q}

BugRankAnyResult == FALSE

\* buildRankingUpdate refuses a result that is not a completed match.
RecomputeFails == \E r \in Eligible : artifacts[r] \notin Finished

Quiet(p) == pc[p] # "rank" /\ (p \in Servers => refresh[p].phase = "idle")

-----------------------------------------------------------------------------
(* Worker: ApplyCompleted *)

ApplyRead(p) ==
  /\ pc[p] = "rank" /\ seen[p] = {}
  /\ seen' = [seen EXCEPT ![p] = {snapshot}]
  /\ UNCHANGED <<vars, snapshot, refresh, behind>>

ApplyWrite(p) ==
  /\ \E applied \in seen[p] : snapshot' = applyRankingUpdate(applied, job[p].run)
  /\ Rank(p)
  /\ seen' = [seen EXCEPT ![p] = {}]
  /\ UNCHANGED <<refresh, behind>>

\* Get or Put fails; the run stays completed and official.
ApplyFails(p) ==
  /\ Rank(p)
  /\ seen' = [seen EXCEPT ![p] = {}]
  /\ behind' = TRUE
  /\ UNCHANGED <<snapshot, refresh>>

-----------------------------------------------------------------------------
(* The promote handler of a server *)

BugSkipRefresh(p, r) ==
  /\ pc[p] # "off" /\ refresh[p].phase = "idle"
  /\ SerialOperator => \A q \in Procs : Quiet(q)
  /\ Promote(r)
  /\ UNCHANGED rankingVars

PromoteRun(p, r) ==
  /\ pc[p] # "off" /\ refresh[p].phase = "idle"
  /\ SerialOperator => \A q \in Procs : Quiet(q)
  /\ Promote(r)
  /\ refresh' = [refresh EXCEPT ![p] = [phase |-> "list", run |-> r, applied |-> {}]]
  /\ UNCHANGED <<snapshot, seen, behind>>

\* The handler answers with an error and leaves the snapshot as it was.
RefreshList(p) ==
  /\ refresh[p].phase = "list"
  /\ refresh' = [refresh EXCEPT ![p] =
       IF RecomputeFails THEN Idle
       ELSE [phase |-> "put", run |-> refresh[p].run, applied |-> Recompute]]
  /\ behind' = (behind \/ RecomputeFails)
  /\ UNCHANGED <<vars, snapshot, seen>>

RefreshPut(p) ==
  /\ refresh[p].phase = "put"
  /\ snapshot' = refresh[p].applied
  /\ refresh' = [refresh EXCEPT ![p] = Idle]
  /\ behind' = FALSE
  /\ UNCHANGED <<vars, seen>>

RefreshFails(p) ==
  /\ refresh[p].phase # "idle"
  /\ refresh' = [refresh EXCEPT ![p] = Idle]
  /\ behind' = TRUE
  /\ UNCHANGED <<vars, snapshot, seen>>

-----------------------------------------------------------------------------
\* Every step of the queue that leaves the ranking alone.  When operators are
\* serialised an official completion waits for a handler in progress.
QueueStep ==
  /\ \/ \E p \in Procs :
          \/ Serve(p) \/ AcquireWorker(p) \/ RecoverExpired(p)
          \/ Claim(p) \/ ClaimNothing(p) \/ MarkRunning(p) \/ Execute(p)
          \/ MarkPersisting(p) \/ Persist(p) \/ MarkFailed(p) \/ DecideOfficial(p)
          \/ /\ SerialOperator => \A q \in Servers : refresh[q].phase = "idle"
             /\ MarkCompleted(p)
          \/ StoreFails(p) \/ Heartbeat(p) \/ HeartbeatFails(p)
     \/ \E r \in Runs : \/ \E m \in Matches : Submit(r, m)
                        \/ \E parent \in Runs : Retry(r, parent) \/ Rerun(r, parent)
                        \/ Cancel(r)
     \/ Tick
     \/ GuardDrops
  /\ UNCHANGED rankingVars

\* A process that ends takes its handlers with it.
Exit(p) ==
  /\ Stop(p) \/ AcquireGivesUp(p)
  /\ seen' = [seen EXCEPT ![p] = {}]
  /\ refresh' = [q \in Servers |-> IF q = p THEN Idle ELSE refresh[q]]
  /\ behind' = (behind \/ ~Quiet(p))
  /\ UNCHANGED snapshot

RankingNext ==
  \/ QueueStep
  \/ \E p \in Procs : ApplyRead(p) \/ ApplyWrite(p) \/ ApplyFails(p) \/ Exit(p)
  \/ \E p \in Servers : \/ \E r \in Runs : PromoteRun(p, r)
                        \/ RefreshList(p) \/ RefreshPut(p) \/ RefreshFails(p)

RankingSpec == RankingInit /\ [][RankingNext]_allVars

-----------------------------------------------------------------------------
\* A worker's own promotion and an operator's both reach the ranking: when
\* nothing is in progress the snapshot counts exactly the official runs, unless
\* a write was lost; and the next promotion that rebuilds the snapshot brings
\* back whatever was lost before (ApplyCompleted after Update, and
\* RefreshCompletedRun after Promote, from the queue and not from the snapshot).
RankingHoldsOfficial ==
  (\A p \in Procs : Quiet(p)) /\ ~behind => snapshot = official

\* The stored result of a ranked run is a completed match, even if rankings
\* were lost or are behind: an eligible result is never replaced under the
\* ranking by a later execution.
RankedRunsEligible ==
  \A r \in snapshot : state[r] = "completed" /\ artifacts[r] \in Finished
=============================================================================
