--------------------------- MODULE RunQueueProofs ---------------------------
(***************************************************************************)
(* Proofs about RunQueue for every number of runs, matches and processes,  *)
(* what single-worker operation adds to it, and, on top of that, the       *)
(* proofs about RunRanking and PublicMatches.                              *)
(***************************************************************************)
EXTENDS RunRanking, PublicMatches, WellFoundedInduction, TLAPS

\* Facts about the constants that the leaves cite instead of the definitions.
LEMMA RunsAreNumbers == Runs \subseteq Nat /\ Runs \subseteq 0..MaxRuns /\ 0 \in 0..MaxRuns /\ 0 \notin Runs
  BY RunBound DEF Runs

LEMMA OwnerIDsHold == \A p \in Procs : WorkerID[p] \in OwnerIDs
  BY DEF OwnerIDs

LEMMA States ==
  /\ {"absent", "queued", "leased", "running", "persisting", "completed", "failed", "canceled"}
       = LifecycleState
  /\ {"none", "completed", "aborted"} \cup Replays = MatchStatus \cup {"none"}
  /\ "none" \notin MatchStatus
  BY ReplayIDs DEF LifecycleState, InFlight, Terminal, MatchStatus, Finished

LEMMA Empties ==
  /\ NoSubmission \in Submission
  /\ NoLease \in Lease
  /\ NoJob \in Job
  BY LeaseBound, RunBound DEF NoSubmission, Submission, NoLease, Lease, NoJob, Job

-----------------------------------------------------------------------------
(* Types *)

\* The types of the row variables, and of those of the processes.
RowOK ==
  /\ state \in [Runs -> LifecycleState]
  /\ submission \in [Runs -> Submission]
  /\ official \subseteq Runs
  /\ lease \in [Runs -> Lease]
  /\ terminal \in [Runs -> MatchStatus \cup {"none"}]

ProcOK ==
  /\ pc \in [Procs -> PC]
  /\ job \in [Procs -> Job]
  /\ beat \in [Procs -> {"off", "due", "sent"}]
  /\ JobHeld

Typed == TypeOK /\ JobHeld

LEMMA TypedParts ==
  Typed <=> /\ RowOK /\ ProcOK
            /\ artifacts \in [Runs -> MatchStatus \cup {"none"}]
            /\ guard \in Procs \cup {None}
  BY DEF Typed, TypeOK, RowOK, ProcOK

LEMMA TypeInit == Init => Typed
  BY Empties, States DEF Init, Typed, JobHeld, Executing, TypeOK, PC, Working

LEMMA RowUnchanged == RowOK /\ UNCHANGED row => RowOK'
  BY DEF RowOK, row

LEMMA ProcUnchanged == ProcOK /\ UNCHANGED <<pc, job, beat>> => ProcOK'
  BY DEF ProcOK, JobHeld, Executing

LEMMA EnqueueTyped ==
  ASSUME RowOK, NEW r \in Runs, NEW m \in Matches \cup {None},
         NEW k \in {"initial", "retry", "rerun"}, NEW parent \in 0..MaxRuns,
         Enqueue(r, m, k, parent)
  PROVE  RowOK'
<1>1. state' \in [Runs -> LifecycleState]
  BY States DEF Enqueue, RowOK
<1>2. submission' \in [Runs -> Submission]
  BY DEF Enqueue, RowOK, Submission
<1> QED
  BY <1>1, <1>2 DEF Enqueue, RowOK

LEMMA UpdateTyped ==
  ASSUME RowOK, ProcOK, NEW p \in Procs, NEW s \in LifecycleState, job[p].run \in Runs,
         UpdateWith(p, s)
  PROVE  RowOK'
<1>1. state' \in [Runs -> LifecycleState] /\ submission' \in [Runs -> Submission]
  BY DEF UpdateWith, RowOK
<1>2. official' \subseteq Runs
  BY DEF UpdateWith, RowOK
<1>3. lease' \in [Runs -> Lease]
  BY OwnerIDsHold DEF UpdateWith, RowOK, ProcOK, Lease, Job
<1>4. terminal' \in [Runs -> MatchStatus \cup {"none"}]
  BY DEF UpdateWith, RowOK, ProcOK, Job
<1> QED
  BY <1>1, <1>2, <1>3, <1>4 DEF RowOK

LEMMA ReturnTyped ==
  ASSUME ProcOK, NEW p \in Procs, Return(p)
  PROVE  ProcOK'
<1>1. job' \in [Procs -> Job] /\ beat' \in [Procs -> {"off", "due", "sent"}]
  BY Empties DEF Return, ProcOK
<1>2. pc' \in [Procs -> PC]
  BY DEF Return, Goto, ProcOK, PC
<1>3. JobHeld'
  BY DEF Return, Goto, ProcOK, JobHeld, Executing, Working
<1> QED
  BY <1>1, <1>2, <1>3 DEF ProcOK

LEMMA GotoTyped ==
  ASSUME ProcOK, NEW p \in Procs, NEW l \in PC, l \in Working => job[p].run \in Runs,
         Goto(p, l), UNCHANGED <<job, beat>>
  PROVE  ProcOK'
<1>1. pc' \in [Procs -> PC]
  BY DEF Goto, ProcOK
<1>2. JobHeld'
  BY DEF Goto, ProcOK, JobHeld, Executing
<1> QED
  BY <1>1, <1>2 DEF ProcOK

LEMMA CarriedTyped ==
  ASSUME ProcOK, NEW p \in Procs, NEW off \in BOOLEAN, NEW t \in MatchStatus \cup {"none"},
         NEW s \in MatchStatus \cup {"none"}, NEW l \in Working, pc[p] \in Working,
         job' = [job EXCEPT ![p] = Carried(job[p], off, t, s)], Goto(p, l), UNCHANGED beat
  PROVE  ProcOK'
<1>1. Carried(job[p], off, t, s) \in Job /\ Carried(job[p], off, t, s).run = job[p].run
  BY DEF ProcOK, Carried, Job
<1>2. job' \in [Procs -> Job] /\ \A q \in Procs : job'[q].run = job[q].run
  BY <1>1 DEF ProcOK
<1>3. pc' \in [Procs -> PC]
  BY DEF Goto, ProcOK, PC
<1>4. JobHeld'
  BY <1>2 DEF Goto, ProcOK, JobHeld, Executing
<1> QED
  BY <1>2, <1>3, <1>4 DEF ProcOK

LEMMA RefusedTyped ==
  ASSUME Typed, NEW p \in Procs, NEW s, UpdateRefused(p, s)
  PROVE  Typed'
  BY TypedParts, RowUnchanged, ReturnTyped DEF UpdateRefused, Typed, TypeOK, RowOK, ProcOK

LEMMA TypeStep == Typed /\ [Next]_vars => Typed'
<1> SUFFICES ASSUME Typed, [Next]_vars PROVE Typed'
  OBVIOUS
<1>p. RowOK /\ ProcOK /\ artifacts \in [Runs -> MatchStatus \cup {"none"}] /\ guard \in Procs \cup {None}
  BY TypedParts
<1>q. ASSUME RowOK', ProcOK', UNCHANGED <<artifacts, guard>> PROVE Typed'
  BY <1>p, <1>q DEF Typed, TypeOK, RowOK, ProcOK
<1>1. ASSUME NEW r \in Runs, NEW m \in Matches, Submit(r, m) PROVE Typed'
  BY <1>1, <1>p, <1>q, EnqueueTyped, RunsAreNumbers, ProcUnchanged DEF Submit, Others
<1>2. ASSUME NEW r \in Runs, NEW parent \in Runs, Retry(r, parent) \/ Rerun(r, parent) PROVE Typed'
  <2>1. Match(parent) \in Matches \cup {None} /\ parent \in 0..MaxRuns
    BY <1>p, RunsAreNumbers DEF RowOK, Submission, Match
  <2> QED
    BY <1>2, <1>p, <1>q, <2>1, EnqueueTyped, ProcUnchanged DEF Retry, Rerun, Others
<1>3. ASSUME NEW r \in Runs, Cancel(r) PROVE Typed'
  <2>1. RowOK'
    BY <1>3, <1>p, States, Empties DEF Cancel, RowOK
  <2> QED
    BY <1>3, <1>p, <1>q, <2>1, ProcUnchanged DEF Cancel, Others
<1>4. ASSUME NEW r \in Runs, Promote(r) PROVE Typed'
  <2>1. RowOK'
    BY <1>4, <1>p DEF Promote, RowOK
  <2> QED
    BY <1>4, <1>p, <1>q, <2>1, ProcUnchanged DEF Promote, Others
<1>5. ASSUME NEW p \in Procs, Serve(p) \/ AcquireGivesUp(p) PROVE Typed'
  <2>1. ProcOK'
    BY <1>5, <1>p, GotoTyped DEF Serve, AcquireGivesUp, PC, Working
  <2> QED
    BY <1>5, <1>p, <1>q, <2>1, RowUnchanged DEF Serve, AcquireGivesUp
<1>6. ASSUME NEW p \in Procs, AcquireWorker(p) PROVE Typed'
  <2>1. ProcOK'
    BY <1>6, <1>p, GotoTyped DEF AcquireWorker, PC, Working
  <2>2. RowOK'
    BY <1>6, <1>p, RowUnchanged DEF AcquireWorker
  <2> QED
    BY <1>6, <1>p, <2>1, <2>2 DEF AcquireWorker, Typed, TypeOK, RowOK, ProcOK
<1>7. ASSUME NEW p \in Procs, RecoverExpired(p) PROVE Typed'
  <2>1. ProcOK'
    BY <1>7, <1>p, GotoTyped DEF RecoverExpired, PC, Working
  <2>2. RowOK'
    BY <1>7, <1>p, States, Empties DEF RecoverExpired, RowOK
  <2> QED
    BY <1>7, <1>q, <2>1, <2>2 DEF RecoverExpired
<1>8. ASSUME NEW p \in Procs, Claim(p) PROVE Typed'
  <2> PICK r \in Runs :
         /\ state' = [state EXCEPT ![r] = "leased"]
         /\ lease' = [lease EXCEPT ![r] = [owner |-> WorkerID[p], ttl |-> LeaseTicks]]
         /\ job' = [job EXCEPT ![p] = [run |-> r, official |-> r \in official,
                                       ttl |-> LeaseTicks, terminal |-> terminal[r],
                                       status |-> "none"]]
    BY <1>8 DEF Claim
  <2>1. [owner |-> WorkerID[p], ttl |-> LeaseTicks] \in Lease
    BY OwnerIDsHold, LeaseBound DEF Lease
  <2>2. [run |-> r, official |-> r \in official, ttl |-> LeaseTicks, terminal |-> terminal[r],
         status |-> "none"] \in Job
    BY <1>p, RunsAreNumbers, LeaseBound DEF Job, RowOK
  <2>3. RowOK'
    BY <1>8, <1>p, <2>1, States DEF Claim, RowOK
  <2>4. job' \in [Procs -> Job] /\ job'[p].run = r
        /\ \A q \in Procs : q # p => job'[q].run = job[q].run
    BY <1>p, <2>2 DEF ProcOK
  <2>5. pc' \in [Procs -> PC] /\ beat' \in [Procs -> {"off", "due", "sent"}]
    BY <1>8, <1>p DEF Claim, Goto, ProcOK, PC, Working
  <2>6. JobHeld'
    BY <1>8, <1>p, <2>4 DEF Claim, Goto, ProcOK, JobHeld, Executing
  <2> QED
    BY <1>8, <1>q, <2>3, <2>4, <2>5, <2>6 DEF Claim, ProcOK
<1>9. ASSUME NEW p \in Procs, ClaimNothing(p) \/ Rank(p) \/ StoreFails(p) PROVE Typed'
  BY <1>9, <1>p, <1>q, RowUnchanged, ReturnTyped DEF ClaimNothing, Rank, StoreFails
<1>10. ASSUME NEW p \in Procs, MarkRunning(p) PROVE Typed'
  <2>1. CASE UpdateRefused(p, "running")
    BY <2>1, RefusedTyped
  <2>2. CASE UpdateWith(p, "running") /\ Goto(p, "execute") /\ UNCHANGED <<artifacts, guard, job, beat>>
    <3>1. job[p].run \in Runs
      BY <1>10, <1>p DEF MarkRunning, ProcOK, JobHeld, Executing, Working
    <3> QED
      BY <1>p, <1>q, <2>2, <3>1, UpdateTyped, GotoTyped, States DEF PC, Working
  <2> QED
    BY <1>10, <2>1, <2>2 DEF MarkRunning
<1>11. ASSUME NEW p \in Procs, Execute(p) PROVE Typed'
  <2>1. pc[p] \in Working /\ "saving" \in Working /\ "failing" \in Working /\ job[p].run \in Runs
        /\ job[p].official \in BOOLEAN /\ job[p].terminal \in MatchStatus \cup {"none"}
    BY <1>11, <1>p DEF Execute, Working, ProcOK, JobHeld, Executing, Job
  <2>2. CASE job' = job /\ Goto(p, "failing")
    BY <1>11, <1>p, <1>q, <2>1, <2>2, GotoTyped, RowUnchanged DEF Execute, PC
  <2>3. ASSUME NEW s \in MatchStatus, Goto(p, "saving"),
               job' = [job EXCEPT ![p] = Carried(job[p], job[p].official, job[p].terminal, s)]
        PROVE  ProcOK'
    BY <1>11, <1>p, <2>1, <2>3, CarriedTyped DEF Execute
  <2> QED
    BY <1>11, <1>p, <1>q, <2>2, <2>3, RowUnchanged DEF Execute
<1>12. ASSUME NEW p \in Procs, MarkPersisting(p) PROVE Typed'
  <2>1. CASE UpdateRefused(p, "persisting")
    BY <2>1, RefusedTyped
  <2>2. CASE UpdateWith(p, "persisting") /\ Goto(p, "persist") /\ UNCHANGED <<artifacts, guard, job, beat>>
    <3>1. job[p].run \in Runs
      BY <1>12, <1>p DEF MarkPersisting, ProcOK, JobHeld, Executing, Working
    <3> QED
      BY <1>p, <1>q, <2>2, <3>1, UpdateTyped, GotoTyped, States DEF PC, Working
  <2> QED
    BY <1>12, <2>1, <2>2 DEF MarkPersisting
<1>13. ASSUME NEW p \in Procs, Persist(p) PROVE Typed'
  <2>1. pc[p] \in Working /\ "decide" \in Working /\ "failing" \in Working /\ job[p].run \in Runs
        /\ job[p].official \in BOOLEAN /\ job[p].status \in MatchStatus \cup {"none"}
    BY <1>13, <1>p DEF Persist, Working, ProcOK, JobHeld, Executing, Job
  <2>2. ProcOK'
    <3>1. CASE job' = job /\ Goto(p, "failing")
      BY <1>13, <1>p, <2>1, <3>1, GotoTyped DEF Persist, PC
    <3>2. CASE Goto(p, "decide") /\ job' = [job EXCEPT ![p] =
                 Carried(job[p], job[p].official, job[p].status, job[p].status)]
      BY <1>13, <1>p, <2>1, <3>2, CarriedTyped DEF Persist
    <3> QED
      BY <1>13, <3>1, <3>2 DEF Persist
  <2>3. RowOK' /\ guard' = guard
    BY <1>13, <1>p, RowUnchanged DEF Persist
  <2>4. artifacts' \in [Runs -> MatchStatus \cup {"none"}]
    BY <1>13, <1>p, <2>1 DEF Persist
  <2> QED
    BY <1>p, <2>2, <2>3, <2>4 DEF Typed, TypeOK, RowOK, ProcOK
<1>14. ASSUME NEW p \in Procs, MarkFailed(p) PROVE Typed'
  <2>1. CASE UpdateRefused(p, "failed")
    BY <2>1, RefusedTyped
  <2>2. CASE UpdateWith(p, "failed") /\ Return(p) /\ UNCHANGED <<artifacts, guard>>
    <3>1. job[p].run \in Runs
      BY <1>14, <1>p DEF MarkFailed, ProcOK, JobHeld, Executing, Working
    <3> QED
      BY <1>p, <1>q, <2>2, <3>1, UpdateTyped, ReturnTyped, States
  <2> QED
    BY <1>14, <2>1, <2>2 DEF MarkFailed
<1>15. ASSUME NEW p \in Procs, DecideOfficial(p) PROVE Typed'
  <2>1. pc[p] \in Working /\ "finish" \in Working /\ job[p].run \in Runs
        /\ job[p].status \in MatchStatus \cup {"none"} /\ job[p].terminal \in MatchStatus \cup {"none"}
    BY <1>15, <1>p DEF DecideOfficial, Working, ProcOK, JobHeld, Executing, Job
  <2>2. ShouldAutoPromote(p) \in BOOLEAN
    BY DEF ShouldAutoPromote
  <2>3. CASE job' = job
    BY <1>15, <1>p, <1>q, <2>1, <2>3, GotoTyped, RowUnchanged DEF DecideOfficial, PC
  <2>4. CASE job' = [job EXCEPT ![p] =
               Carried(job[p], ShouldAutoPromote(p), job[p].terminal, job[p].status)]
    BY <1>15, <1>p, <1>q, <2>1, <2>2, <2>4, CarriedTyped, RowUnchanged DEF DecideOfficial
  <2> QED
    BY <1>15, <2>3, <2>4 DEF DecideOfficial
<1>16. ASSUME NEW p \in Procs, MarkCompleted(p) PROVE Typed'
  <2>1. CASE UpdateRefused(p, "completed")
    BY <2>1, RefusedTyped
  <2>2. CASE UpdateWith(p, "completed") /\ UNCHANGED <<artifacts, guard>>
             /\ ((Goto(p, "rank") /\ UNCHANGED <<job, beat>>) \/ Return(p))
    <3>1. job[p].run \in Runs
      BY <1>16, <1>p DEF MarkCompleted, ProcOK, JobHeld, Executing, Working
    <3>2. RowOK'
      BY <1>p, <2>2, <3>1, UpdateTyped, States
    <3> QED
      BY <1>p, <1>q, <2>2, <3>1, <3>2, GotoTyped, ReturnTyped DEF PC, Working
  <2> QED
    BY <1>16, <2>1, <2>2 DEF MarkCompleted
<1>17. ASSUME NEW p \in Procs, Heartbeat(p) \/ HeartbeatFails(p) PROVE Typed'
  <2>1. [owner |-> WorkerID[p], ttl |-> LeaseTicks] \in Lease
    BY OwnerIDsHold, LeaseBound DEF Lease
  <2>2. lease' \in [Runs -> Lease]
    BY <1>17, <1>p, <2>1 DEF Heartbeat, HeartbeatFails, RowOK, row
  <2>3. RowOK'
    BY <1>17, <1>p, <2>2 DEF Heartbeat, HeartbeatFails, RowOK, row
  <2>4. ProcOK'
    BY <1>17, <1>p DEF Heartbeat, HeartbeatFails, ProcOK, JobHeld, Executing
  <2> QED
    BY <1>17, <1>q, <2>3, <2>4 DEF Heartbeat, HeartbeatFails
<1>18. ASSUME NEW p \in Procs, Stop(p) PROVE Typed'
  <2>1. job' \in [Procs -> Job] /\ beat' \in [Procs -> {"off", "due", "sent"}]
    BY <1>18, <1>p, Empties DEF Stop, ProcOK
  <2>2. pc' \in [Procs -> PC] /\ JobHeld'
    BY <1>18, <1>p DEF Stop, Goto, ProcOK, PC, Working, JobHeld, Executing
  <2>3. RowOK'
    BY <1>18, <1>p, RowUnchanged DEF Stop
  <2> QED
    BY <1>18, <1>p, <2>1, <2>2, <2>3 DEF Stop, Typed, TypeOK, RowOK
<1>19. ASSUME NEW p \in Procs, NEW r \in Runs, NEW m \in Matches, RunOnce(p, r, m) PROVE Typed'
  <2>1. ProcOK'
    BY <1>19, <1>p, GotoTyped DEF RunOnce, PC, Working
  <2> QED
    BY <1>19, <1>p, <1>q, <2>1, EnqueueTyped, RunsAreNumbers DEF RunOnce
<1>20. CASE Tick
  <2>1. \A n \in 0..LeaseTicks : Less(n) \in 0..LeaseTicks
    BY LeaseBound DEF Less
  <2>2. lease' \in [Runs -> Lease]
    BY <1>20, <1>p, <2>1 DEF Tick, RowOK, Lease
  <2>3. job' \in [Procs -> Job] /\ \A p \in Procs : job'[p].run = job[p].run
    BY <1>20, <1>p, <2>1 DEF Tick, ProcOK, Job
  <2>4. beat' \in [Procs -> {"off", "due", "sent"}]
    BY <1>20, <1>p DEF Tick, ProcOK
  <2>5. RowOK'
    BY <1>20, <1>p, <2>2 DEF Tick, RowOK
  <2>6. ProcOK'
    BY <1>20, <1>p, <2>3, <2>4 DEF Tick, ProcOK, JobHeld, Executing
  <2> QED
    BY <1>20, <1>q, <2>5, <2>6 DEF Tick
<1>21. CASE GuardDrops
  BY <1>21, <1>p, RowUnchanged, ProcUnchanged DEF GuardDrops, Typed, TypeOK, RowOK, ProcOK
<1>22. CASE UNCHANGED vars
  BY <1>22, <1>p, <1>q, RowUnchanged, ProcUnchanged DEF vars, row
<1> QED
  BY <1>1, <1>2, <1>3, <1>4, <1>5, <1>6, <1>7, <1>8, <1>9, <1>10, <1>11, <1>12, <1>13,
     <1>14, <1>15, <1>16, <1>17, <1>18, <1>19, <1>20, <1>21, <1>22
  DEF Next, Operator, Step, Fault

\* Every reachable state is well typed, and a process inside ProcessNext holds
\* a claimed run: nothing a worker writes late is ever of the wrong kind.
THEOREM TypeCorrect == Spec => []Typed
<1> QED
  BY TypeInit, TypeStep, PTL DEF Spec

-----------------------------------------------------------------------------
(* Safety with any number of workers *)

\* What a step leaves of the rows when it admits no run: submissions stay, no
\* run appears or disappears, and a run that has ended keeps its state.
Settled ==
  /\ submission' = submission
  /\ \A r \in Runs : /\ state'[r] = "absent" <=> state[r] = "absent"
                     /\ state[r] \in Terminal => state'[r] = state[r]

LEMMA UpdateSettled ==
  ASSUME Typed, NEW p \in Procs, NEW s \in {"running", "persisting", "completed", "failed"},
         UpdateWith(p, s)
  PROVE  Settled
  BY DEF Terminal, Typed, TypeOK, UpdateWith, ValidateTransition, Settled

LEMMA SettledOrAdmitted ==
  ASSUME Typed, [Next]_vars
  PROVE  \/ Settled
         \/ \E r \in Runs, m \in Matches \cup {None}, parent \in 0..MaxRuns :
              \/ Enqueue(r, m, "initial", parent)
              \/ /\ parent \in Runs /\ state[parent] = "failed"
                 /\ Enqueue(r, Match(parent), "retry", parent)
              \/ /\ parent \in Runs /\ state[parent] = "completed"
                 /\ Enqueue(r, Match(parent), "rerun", parent)
<1> DEFINE Admitted == \E r \in Runs, m \in Matches \cup {None}, parent \in 0..MaxRuns :
              \/ Enqueue(r, m, "initial", parent)
              \/ /\ parent \in Runs /\ state[parent] = "failed"
                 /\ Enqueue(r, Match(parent), "retry", parent)
              \/ /\ parent \in Runs /\ state[parent] = "completed"
                 /\ Enqueue(r, Match(parent), "rerun", parent)
<1>q. ASSUME UNCHANGED <<state, submission>> PROVE Settled
  BY <1>q DEF Settled
<1>1. ASSUME NEW r \in Runs, NEW m \in Matches, Submit(r, m) PROVE Admitted
  BY <1>1, RunsAreNumbers DEF Submit
<1>2. ASSUME NEW r \in Runs, NEW parent \in Runs, Retry(r, parent) \/ Rerun(r, parent) PROVE Admitted
  BY <1>2, RunsAreNumbers DEF Retry, Rerun
<1>3. ASSUME NEW r \in Runs, Cancel(r) PROVE Settled
  BY <1>3 DEF Terminal, Cancel, Settled, Typed, TypeOK
<1>4. ASSUME NEW r \in Runs, Promote(r) PROVE Settled
  BY <1>4, <1>q DEF Promote
<1>5. ASSUME NEW p \in Procs, RecoverExpired(p) PROVE Settled
  BY <1>5 DEF Terminal, RecoverExpired, IsRecoverable, InFlight, Settled, Typed, TypeOK
<1>6. ASSUME NEW p \in Procs, Claim(p) PROVE Settled
  BY <1>6 DEF Terminal, Claim, Settled, Typed, TypeOK
<1>7. ASSUME NEW p \in Procs, NEW s \in {"running", "persisting", "completed", "failed"},
             UpdateWith(p, s) \/ UpdateRefused(p, s)
      PROVE  Settled
  BY <1>7, <1>q, UpdateSettled DEF UpdateRefused, row
<1>8. ASSUME NEW p \in Procs, MarkRunning(p) \/ MarkPersisting(p) \/ MarkFailed(p) \/ MarkCompleted(p)
      PROVE  Settled
  BY <1>7, <1>8 DEF MarkRunning, MarkPersisting, MarkFailed, MarkCompleted
<1>9. ASSUME NEW p \in Procs, \/ Serve(p) \/ AcquireWorker(p) \/ ClaimNothing(p) \/ Execute(p)
                              \/ Persist(p) \/ DecideOfficial(p) \/ Rank(p) \/ Fault(p) \/ Heartbeat(p)
      PROVE  Settled
  BY <1>9, <1>q DEF Serve, AcquireWorker, ClaimNothing, Execute, Persist, DecideOfficial, Rank,
                    Fault, AcquireGivesUp, HeartbeatFails, StoreFails, Stop, Heartbeat, row
<1>10. ASSUME NEW p \in Procs, NEW r \in Runs, NEW m \in Matches, RunOnce(p, r, m) PROVE Admitted
  BY <1>10, RunsAreNumbers DEF RunOnce
<1>11. CASE Tick \/ GuardDrops \/ UNCHANGED vars
  BY <1>11, <1>q DEF Tick, GuardDrops, vars, row
<1> QED
  BY <1>1, <1>2, <1>3, <1>4, <1>5, <1>6, <1>8, <1>9, <1>10, <1>11 DEF Next, Operator, Step

\* A run that has ended stays as it ended, and no run changes its match.
LEMMA EndedStays ==
  ASSUME Typed, [Next]_vars, NEW r \in Runs
  PROVE  /\ state[r] \in Terminal => state'[r] = state[r]
         /\ state[r] # "absent" => state'[r] # "absent" /\ Match(r)' = Match(r)
<1>1. CASE Settled
  BY <1>1 DEF Settled, Match
<1>2. ASSUME NEW q \in Runs, NEW m, NEW k, NEW parent, Enqueue(q, m, k, parent)
      PROVE  /\ state[r] \in Terminal => state'[r] = state[r]
             /\ state[r] # "absent" => state'[r] # "absent" /\ Match(r)' = Match(r)
  BY <1>2 DEF Enqueue, IsNextRun, Match, Typed, TypeOK, Terminal
<1> QED
  BY <1>1, <1>2, SettledOrAdmitted

LEMMA DenseRunsStep == Typed /\ DenseRuns /\ [Next]_vars => DenseRuns'
<1> SUFFICES ASSUME Typed, DenseRuns, [Next]_vars PROVE DenseRuns'
  OBVIOUS
<1>1. CASE Settled
  BY <1>1 DEF Settled, DenseRuns
<1>2. ASSUME NEW r \in Runs, NEW m, NEW k, NEW parent, Enqueue(r, m, k, parent) PROVE DenseRuns'
  BY <1>2, RunsAreNumbers DEF Enqueue, IsNextRun, DenseRuns, Typed, TypeOK
<1> QED
  BY <1>1, <1>2, SettledOrAdmitted

LEMMA LineageStep == Typed /\ DenseRuns /\ Lineage /\ [Next]_vars => Lineage'
<1> SUFFICES ASSUME Typed, DenseRuns, Lineage, [Next]_vars PROVE Lineage'
  OBVIOUS
<1>1. CASE Settled
  <2> SUFFICES ASSUME NEW r \in Runs, submission[r].kind \in {"retry", "rerun"}
               PROVE  LET q == submission[r].parent
                      IN  /\ q \in Runs /\ q < r
                          /\ Match(q) = Match(r)
                          /\ state'[q] = IF submission[r].kind = "retry" THEN "failed" ELSE "completed"
    BY <1>1 DEF Settled, Lineage, Match
  <2> QED
    BY <1>1 DEF Terminal, Settled, Lineage
<1>2. ASSUME NEW r \in Runs, NEW m, NEW k \in {"initial", "retry", "rerun"}, NEW parent,
             Enqueue(r, m, k, parent),
             k \in {"retry", "rerun"} =>
               /\ parent \in Runs /\ m = Match(parent)
               /\ state[parent] = IF k = "retry" THEN "failed" ELSE "completed"
      PROVE  Lineage'
  <2>1. /\ submission'[r] = [match |-> m, kind |-> k, parent |-> parent]
        /\ \A q \in Runs : q # r => submission'[q] = submission[q] /\ state'[q] = state[q]
        /\ state[r] = "absent"
    BY <1>2 DEF Enqueue, IsNextRun, Typed, TypeOK
  <2>2. k \in {"retry", "rerun"} => parent # r /\ parent < r
    <3> SUFFICES ASSUME k \in {"retry", "rerun"} PROVE parent # r /\ parent < r
      OBVIOUS
    <3>1. parent \in Runs /\ state[parent] # "absent" /\ state[r] = "absent"
      BY <1>2, <2>1
    <3>2. ~(r < parent)
      BY <3>1 DEF DenseRuns
    <3>3. parent \in Nat /\ r \in Nat /\ parent # r
      BY <3>1, RunsAreNumbers
    <3> QED
      BY <3>2, <3>3
  <2> SUFFICES ASSUME NEW q \in Runs, submission'[q].kind \in {"retry", "rerun"}
               PROVE  LET o == submission'[q].parent
                      IN  /\ o \in Runs /\ o < q
                          /\ submission'[o].match = submission'[q].match
                          /\ state'[o] = IF submission'[q].kind = "retry" THEN "failed" ELSE "completed"
    BY DEF Lineage, Match
  <2>3. CASE q = r
    BY <1>2, <2>1, <2>2, <2>3 DEF Match
  <2>4. CASE q # r
    <3>1. submission[q].parent # r
      BY <2>1, <2>4 DEF Lineage
    <3> QED
      BY <2>1, <2>4, <3>1 DEF Match, Lineage
  <2> QED
    BY <2>3, <2>4
<1> QED
  BY <1>1, <1>2, SettledOrAdmitted

\* Only p moved, and no artifacts were lost: the others know what they knew.
LEMMA KnowsFrame ==
  ASSUME Typed, JobTracksPC, NEW p \in Procs, Knows(p)',
         \A q \in Procs : q # p => pc'[q] = pc[q] /\ job'[q] = job[q],
         \A r \in Runs : artifacts[r] # "none" => artifacts'[r] # "none"
  PROVE  JobTracksPC'
<1> SUFFICES ASSUME NEW q \in Procs, q # p PROVE Knows(q)'
  BY DEF JobTracksPC
<1>1. pc[q] \in {"decide", "finish", "rank"} => job[q].run \in Runs
  BY DEF Typed, JobHeld, Executing, Working
<1> QED
  BY <1>1 DEF JobTracksPC, Knows

LEMMA ReturnKnows ==
  ASSUME Typed, JobTracksPC, NEW p \in Procs, Return(p), UNCHANGED artifacts
  PROVE  JobTracksPC'
<1>1. job'[p] = NoJob /\ pc'[p] \in {"off", "recover"}
      /\ \A q \in Procs : q # p => pc'[q] = pc[q] /\ job'[q] = job[q]
  BY DEF Return, Goto, Typed, TypeOK
<1>2. Knows(p)'
  BY <1>1 DEF Knows, NoJob
<1> QED
  BY <1>1, <1>2, KnowsFrame

LEMMA GotoKnows ==
  ASSUME Typed, JobTracksPC, NEW p \in Procs, NEW l, Goto(p, l), UNCHANGED <<artifacts, job>>,
         l \in {"saving", "persist"} => pc[p] \in {"saving", "persist"},
         l \in {"decide", "finish", "rank"} => pc[p] \in {"decide", "finish", "rank"},
         pc[p] \in {"finish", "rank"} => l \in {"finish", "rank"}
  PROVE  JobTracksPC'
<1>1. pc'[p] = l /\ \A q \in Procs : q # p => pc'[q] = pc[q]
  BY DEF Goto, Typed, TypeOK
<1>2. Knows(p)'
  BY <1>1 DEF Knows, JobTracksPC
<1> QED
  BY <1>1, <1>2, KnowsFrame

LEMMA KnowsStep == Typed /\ JobTracksPC /\ OfficialImpliesCompleted /\ [Next]_vars => JobTracksPC'
<1> SUFFICES ASSUME Typed, JobTracksPC, OfficialImpliesCompleted, [Next]_vars PROVE JobTracksPC'
  OBVIOUS
<1>q. ASSUME UNCHANGED <<artifacts, pc, job>> PROVE JobTracksPC'
  BY <1>q DEF JobTracksPC, Knows
<1>1. ASSUME Operator PROVE JobTracksPC'
  BY <1>1, <1>q DEF Operator, Submit, Retry, Rerun, Cancel, Promote, Others
<1>2. ASSUME NEW p \in Procs,
             Serve(p) \/ AcquireWorker(p) \/ AcquireGivesUp(p) \/ RecoverExpired(p) PROVE JobTracksPC'
  BY <1>2, GotoKnows DEF Serve, AcquireWorker, AcquireGivesUp, RecoverExpired
<1>3. ASSUME NEW p \in Procs, Claim(p) PROVE JobTracksPC'
  <2>1. PICK r \in Runs : state[r] = "queued" /\
                job' = [job EXCEPT ![p] = [run |-> r, official |-> r \in official,
                                           ttl |-> LeaseTicks, terminal |-> terminal[r],
                                           status |-> "none"]]
    BY <1>3 DEF Claim
  <2>2. r \notin official
    BY <2>1 DEF OfficialImpliesCompleted
  <2>3. pc'[p] = "start" /\ ~job'[p].official /\ artifacts' = artifacts
        /\ \A q \in Procs : q # p => pc'[q] = pc[q] /\ job'[q] = job[q]
    BY <1>3, <2>1, <2>2 DEF Claim, Goto, Typed, TypeOK
  <2>4. Knows(p)'
    BY <2>3 DEF Knows
  <2> QED
    BY <2>3, <2>4, KnowsFrame
<1>4. ASSUME NEW p \in Procs, ClaimNothing(p) \/ Rank(p) \/ StoreFails(p) \/ MarkFailed(p) PROVE JobTracksPC'
  BY <1>4, ReturnKnows DEF ClaimNothing, Rank, StoreFails, MarkFailed, UpdateRefused
<1>5. ASSUME NEW p \in Procs, MarkRunning(p) \/ MarkPersisting(p) \/ MarkCompleted(p) PROVE JobTracksPC'
  <2>1. CASE Return(p)
    BY <1>5, <2>1, ReturnKnows DEF MarkRunning, MarkPersisting, MarkCompleted, UpdateRefused
  <2>2. CASE UNCHANGED <<artifacts, job>> /\ pc[p] = "start" /\ Goto(p, "execute")
    BY <2>2, GotoKnows
  <2>3. CASE UNCHANGED <<artifacts, job>> /\ pc[p] = "saving" /\ Goto(p, "persist")
    BY <2>3, GotoKnows
  <2>4. CASE UNCHANGED <<artifacts, job>> /\ pc[p] = "finish" /\ Goto(p, "rank")
    BY <2>4, GotoKnows
  <2> QED
    BY <1>5, <2>1, <2>2, <2>3, <2>4 DEF MarkRunning, MarkPersisting, MarkCompleted, UpdateRefused
<1>6. ASSUME NEW p \in Procs, Execute(p) PROVE JobTracksPC'
  <2>1. CASE job' = job /\ Goto(p, "failing")
    BY <1>6, <2>1, GotoKnows DEF Execute
  <2>2. ASSUME NEW s \in MatchStatus, Goto(p, "saving"),
               job' = [job EXCEPT ![p] = Carried(job[p], job[p].official, job[p].terminal, s)]
        PROVE  JobTracksPC'
    <3>1. s # "none" /\ ~job[p].official /\ artifacts' = artifacts
      BY <1>6, States DEF Execute, JobTracksPC, Knows
    <3>2. pc'[p] = "saving" /\ job'[p].status = s /\ ~job'[p].official
          /\ \A q \in Procs : q # p => pc'[q] = pc[q] /\ job'[q] = job[q]
      BY <2>2, <3>1 DEF Carried, Goto, Typed, TypeOK
    <3>3. Knows(p)'
      BY <3>1, <3>2 DEF Knows
    <3> QED
      BY <3>1, <3>2, <3>3, KnowsFrame
  <2> QED
    BY <1>6, <2>1, <2>2 DEF Execute
<1>7. ASSUME NEW p \in Procs, Persist(p) PROVE JobTracksPC'
  <2>1. job[p].status # "none" /\ job[p].run \in Runs /\ ~job[p].official
    BY <1>7 DEF Persist, JobTracksPC, Knows, Typed, JobHeld, Executing, Working
  <2>2. \A r \in Runs : artifacts[r] # "none" => artifacts'[r] # "none"
    BY <1>7, <2>1 DEF Persist, Typed, TypeOK
  <2>3. CASE job' = job /\ Goto(p, "failing")
    <3>1. pc'[p] = "failing" /\ \A q \in Procs : q # p => pc'[q] = pc[q]
      BY <2>3 DEF Goto, Typed, TypeOK
    <3>2. Knows(p)'
      BY <2>1, <2>3, <3>1 DEF Knows
    <3> QED
      BY <2>2, <2>3, <3>1, <3>2, KnowsFrame
  <2>4. CASE /\ Goto(p, "decide")
             /\ job' = [job EXCEPT ![p] = Carried(job[p], job[p].official, job[p].status, job[p].status)]
             /\ artifacts' = [artifacts EXCEPT ![job[p].run] = job[p].status]
    <3>1. pc'[p] = "decide" /\ job'[p].terminal = job[p].status /\ ~job'[p].official
          /\ job'[p].run = job[p].run
          /\ \A q \in Procs : q # p => pc'[q] = pc[q] /\ job'[q] = job[q]
      BY <2>1, <2>4 DEF Carried, Goto, Typed, TypeOK
    <3>2. Knows(p)'
      BY <2>1, <2>4, <3>1 DEF Knows, Typed, TypeOK
    <3> QED
      BY <2>2, <3>1, <3>2, KnowsFrame
  <2> QED
    BY <1>7, <2>3, <2>4 DEF Persist
<1>8. ASSUME NEW p \in Procs, DecideOfficial(p) PROVE JobTracksPC'
  <2>1. CASE job' = job
    BY <1>8, <2>1, GotoKnows DEF DecideOfficial
  <2>2. CASE job' = [job EXCEPT ![p] =
               Carried(job[p], ShouldAutoPromote(p), job[p].terminal, job[p].status)]
    <3>1. pc'[p] = "finish" /\ job'[p].terminal = job[p].terminal /\ job'[p].run = job[p].run
          /\ \A q \in Procs : q # p => pc'[q] = pc[q] /\ job'[q] = job[q]
      BY <1>8, <2>2 DEF DecideOfficial, Carried, Goto, Typed, TypeOK
    <3>2. Knows(p)'
      BY <1>8, <3>1 DEF DecideOfficial, Knows, JobTracksPC
    <3> QED
      BY <1>8, <3>1, <3>2, KnowsFrame DEF DecideOfficial
  <2> QED
    BY <1>8, <2>1, <2>2 DEF DecideOfficial
<1>9. ASSUME NEW p \in Procs, Stop(p) PROVE JobTracksPC'
  <2>1. job'[p] = NoJob /\ pc'[p] = "off" /\ artifacts' = artifacts
        /\ \A q \in Procs : q # p => pc'[q] = pc[q] /\ job'[q] = job[q]
    BY <1>9 DEF Stop, Goto, Typed, TypeOK
  <2>2. Knows(p)'
    BY <2>1 DEF Knows, NoJob
  <2> QED
    BY <2>1, <2>2, KnowsFrame
<1>10. ASSUME NEW p \in Procs, NEW r \in Runs, NEW m \in Matches, RunOnce(p, r, m) PROVE JobTracksPC'
  BY <1>10, GotoKnows DEF RunOnce
<1>11. CASE Tick
  <2>1. \A p \in Procs : /\ job'[p].run = job[p].run /\ job'[p].official = job[p].official
                         /\ job'[p].terminal = job[p].terminal /\ job'[p].status = job[p].status
    BY <1>11 DEF Tick
  <2> QED
    BY <1>11, <2>1 DEF Tick, JobTracksPC, Knows
<1>12. ASSUME NEW p \in Procs, Heartbeat(p) \/ HeartbeatFails(p) PROVE JobTracksPC'
  BY <1>12, <1>q DEF Heartbeat, HeartbeatFails
<1>13. CASE GuardDrops \/ UNCHANGED vars
  BY <1>13, <1>q DEF GuardDrops, vars
<1> QED
  BY <1>1, <1>2, <1>3, <1>4, <1>5, <1>6, <1>7, <1>8, <1>9, <1>10, <1>11, <1>12, <1>13
  DEF Next, Step, Fault

\* What the rows and the stored artifacts say of official and completed runs.
RowSafe == OfficialImpliesCompleted /\ CompletedHasArtifacts

LEMMA UpdateSafe ==
  ASSUME Typed, RowSafe, NEW p \in Procs, NEW s, UpdateWith(p, s), UNCHANGED artifacts,
         job[p].run \in Runs, job[p].official => s = "completed",
         s = "completed" => job[p].terminal # "none" /\ artifacts[job[p].run] # "none"
  PROVE  RowSafe'
<1>1. OfficialImpliesCompleted'
  BY DEF UpdateWith, ValidateTransition, RowSafe, OfficialImpliesCompleted, Typed, TypeOK
<1>2. CompletedHasArtifacts'
  BY DEF UpdateWith, RowSafe, CompletedHasArtifacts, Typed, TypeOK
<1> QED
  BY <1>1, <1>2 DEF RowSafe

LEMMA RowSafeStep == Typed /\ JobTracksPC /\ RowSafe /\ [Next]_vars => RowSafe'
<1> SUFFICES ASSUME Typed, JobTracksPC, RowSafe, [Next]_vars PROVE RowSafe'
  OBVIOUS
<1>q. ASSUME UNCHANGED <<state, official, terminal, artifacts>> PROVE RowSafe'
  BY <1>q DEF RowSafe, OfficialImpliesCompleted, CompletedHasArtifacts
<1>1. ASSUME NEW r \in Runs, NEW m, NEW k, NEW parent, Enqueue(r, m, k, parent), UNCHANGED artifacts
      PROVE  RowSafe'
  BY <1>1 DEF Enqueue, IsNextRun, RowSafe, OfficialImpliesCompleted, CompletedHasArtifacts, Typed, TypeOK
<1>2. ASSUME NEW r \in Runs, NEW m \in Matches, Submit(r, m) PROVE RowSafe'
  BY <1>1, <1>2 DEF Submit, Others
<1>3. ASSUME NEW r \in Runs, NEW parent \in Runs, Retry(r, parent) \/ Rerun(r, parent) PROVE RowSafe'
  BY <1>1, <1>3 DEF Retry, Rerun, Others
<1>4. ASSUME NEW r \in Runs, Cancel(r) PROVE RowSafe'
  BY <1>4 DEF Cancel, Others, RowSafe, OfficialImpliesCompleted, CompletedHasArtifacts, Typed, TypeOK
<1>5. ASSUME NEW r \in Runs, Promote(r) PROVE RowSafe'
  BY <1>5 DEF Promote, Others, RowSafe, OfficialImpliesCompleted, CompletedHasArtifacts
<1>6. ASSUME NEW p \in Procs, RecoverExpired(p) PROVE RowSafe'
  BY <1>6 DEF RecoverExpired, IsRecoverable, InFlight, RowSafe, OfficialImpliesCompleted,
              CompletedHasArtifacts, Typed, TypeOK
<1>7. ASSUME NEW p \in Procs, Claim(p) PROVE RowSafe'
  BY <1>7 DEF Claim, RowSafe, OfficialImpliesCompleted, CompletedHasArtifacts, Typed, TypeOK
<1>8. ASSUME NEW p \in Procs, NEW s, UpdateRefused(p, s) PROVE RowSafe'
  BY <1>8, <1>q DEF UpdateRefused, row
<1>9. ASSUME NEW p \in Procs, MarkRunning(p) \/ MarkPersisting(p) \/ MarkFailed(p) PROVE RowSafe'
  <2>1. job[p].run \in Runs /\ ~job[p].official
    BY <1>9 DEF MarkRunning, MarkPersisting, MarkFailed, Typed, JobHeld, Executing, Working,
                JobTracksPC, Knows
  <2>2. ASSUME NEW s \in {"running", "persisting", "failed"}, UpdateWith(p, s), UNCHANGED artifacts
        PROVE  RowSafe'
    BY <2>1, <2>2, UpdateSafe
  <2> QED
    BY <1>8, <1>9, <2>2 DEF MarkRunning, MarkPersisting, MarkFailed
<1>10. ASSUME NEW p \in Procs, MarkCompleted(p) PROVE RowSafe'
  <2>1. job[p].run \in Runs /\ job[p].terminal # "none" /\ artifacts[job[p].run] # "none"
    BY <1>10 DEF MarkCompleted, Typed, JobHeld, Executing, Working, JobTracksPC, Knows
  <2>2. ASSUME UpdateWith(p, "completed"), UNCHANGED artifacts PROVE RowSafe'
    BY <2>1, <2>2, UpdateSafe
  <2> QED
    BY <1>8, <1>10, <2>2 DEF MarkCompleted
<1>11. ASSUME NEW p \in Procs, Persist(p) PROVE RowSafe'
  <2>1. job[p].status # "none"
    BY <1>11 DEF Persist, JobTracksPC, Knows
  <2>2. \A r \in Runs : artifacts[r] # "none" => artifacts'[r] # "none"
    BY <1>11, <2>1 DEF Persist, Typed, TypeOK
  <2> QED
    BY <1>11, <2>2 DEF Persist, row, RowSafe, OfficialImpliesCompleted, CompletedHasArtifacts
<1>12. ASSUME NEW p \in Procs, \/ Serve(p) \/ AcquireWorker(p) \/ ClaimNothing(p) \/ Execute(p)
                               \/ DecideOfficial(p) \/ Rank(p) \/ Fault(p) \/ Heartbeat(p)
       PROVE  RowSafe'
  BY <1>12, <1>q DEF Serve, AcquireWorker, ClaimNothing, Execute, DecideOfficial, Rank,
                     Fault, AcquireGivesUp, HeartbeatFails, StoreFails, Stop, Heartbeat, row
<1>13. ASSUME NEW p \in Procs, NEW r \in Runs, NEW m \in Matches, RunOnce(p, r, m) PROVE RowSafe'
  BY <1>1, <1>13 DEF RunOnce
<1>14. CASE Tick \/ GuardDrops \/ UNCHANGED vars
  BY <1>14, <1>q DEF Tick, GuardDrops, vars, row
<1> QED
  BY <1>2, <1>3, <1>4, <1>5, <1>6, <1>7, <1>9, <1>10, <1>11, <1>12, <1>13, <1>14
  DEF Next, Operator, Step

LEMMA SafeInit == Init => SafeInv
<1> SUFFICES ASSUME Init PROVE SafeInv
  OBVIOUS
<1>1. Typed
  BY TypeInit
<1>2. DenseRuns /\ OfficialImpliesCompleted /\ CompletedHasArtifacts
  BY DEF Init, DenseRuns, OfficialImpliesCompleted, CompletedHasArtifacts
<1>3. JobTracksPC
  BY DEF Init, JobTracksPC, Knows, NoJob
<1>4. Lineage
  BY DEF Init, Lineage, NoSubmission
<1> QED
  BY <1>1, <1>2, <1>3, <1>4 DEF SafeInv, Typed

LEMMA SafeStep == SafeInv /\ [Next]_vars => SafeInv'
  BY TypeStep, DenseRunsStep, LineageStep, KnowsStep, RowSafeStep DEF SafeInv, Typed, RowSafe

\* SafeInv holds in every reachable state, with any number of workers, guarded
\* or not: it carries the results below it.
THEOREM Safe == Spec => []SafeInv
  BY SafeInit, SafeStep, PTL DEF Spec

\* No run is completed before its artifacts are stored, with any number of workers.
THEOREM CompletedRunsStored == Spec => []CompletedHasArtifacts
<1>1. SafeInv => CompletedHasArtifacts
  BY DEF SafeInv
<1> QED
  BY <1>1, Safe, PTL

\* A retry or rerun stays tied to a parent of its own match that is still in
\* the state that allowed it.
THEOREM LineageKept == Spec => []Lineage
<1>1. SafeInv => Lineage
  BY DEF SafeInv
<1> QED
  BY <1>1, Safe, PTL

\* Only completed runs are official, whichever worker writes late.
THEOREM OfficialRunsCompleted == Spec => []OfficialImpliesCompleted
<1>1. SafeInv => OfficialImpliesCompleted
  BY DEF SafeInv
<1> QED
  BY <1>1, Safe, PTL

-----------------------------------------------------------------------------
(* RunQueue implements RunLifecycle *)

LEMMA InitRefines == Init => Lifecycle!Init
  BY DEF Init, Lifecycle!Init, Life, InFlight

LEMMA StepRefines ==
  ASSUME SafeInv, SafeInv', [Next]_vars
  PROVE  [Lifecycle!Next]_<<[r \in Runs |-> Life(r)], official>>
<1> DEFINE life == [r \in Runs |-> Life(r)]
<1> USE DEF Lifecycle!Next
<1>t. state \in [Runs -> LifecycleState] /\ official \subseteq Runs /\ official' \subseteq Runs
  BY DEF SafeInv, TypeOK
<1>q. ASSUME UNCHANGED <<state, official>> PROVE UNCHANGED <<life, official>>
  BY <1>q DEF Life
<1>1. ASSUME NEW r \in Runs, NEW m, NEW k, NEW parent, Enqueue(r, m, k, parent)
      PROVE  Lifecycle!Admit(r)
  BY <1>1, <1>t DEF Enqueue, IsNextRun, Life, InFlight, Lifecycle!Admit, Lifecycle!Move
<1>2. ASSUME NEW r \in Runs, Cancel(r) PROVE Lifecycle!Withdraw(r)
  BY <1>2, <1>t DEF Cancel, Life, InFlight, Lifecycle!Withdraw, Lifecycle!Move
<1>3. ASSUME NEW r \in Runs, Promote(r) PROVE Lifecycle!Choose
  <2>1. official' \subseteq {q \in Runs : life[q] = "completed"}
    BY <1>3, <1>t DEF Promote, Life, InFlight, SafeInv, OfficialImpliesCompleted
  <2>2. UNCHANGED life
    BY <1>3 DEF Promote, Life
  <2> QED
    BY <2>1, <2>2 DEF Lifecycle!Choose, Lifecycle!Completed
<1>4. ASSUME NEW p \in Procs, RecoverExpired(p) PROVE \E S \in SUBSET Runs : Lifecycle!Requeue(S)
  <2> DEFINE S == {q \in Runs : IsRecoverable(q)}
  <2>1. S \in SUBSET Runs /\ \A r \in S : life[r] = "working"
    BY DEF IsRecoverable, Life, InFlight
  <2>2. life' = [r \in Runs |-> IF r \in S THEN "queued" ELSE life[r]]
    BY <1>4, <1>t DEF RecoverExpired, Life, InFlight
  <2> QED
    BY <1>4, <2>1, <2>2 DEF RecoverExpired, Lifecycle!Requeue
<1>5. ASSUME NEW p \in Procs, Claim(p) PROVE \E r \in Runs : Lifecycle!Begin(r)
  <2>1. PICK r \in Runs : state[r] = "queued" /\ state' = [state EXCEPT ![r] = "leased"]
    BY <1>5 DEF Claim
  <2>2. Lifecycle!Begin(r)
    BY <1>5, <1>t, <2>1 DEF Claim, Life, InFlight, Lifecycle!Begin, Lifecycle!Move
  <2> QED
    BY <2>2
<1>6. ASSUME NEW p \in Procs, NEW s \in {"running", "persisting"}, UpdateWith(p, s),
             job[p].run \in Runs, ~job[p].official
      PROVE  UNCHANGED <<life, official>>
  <2>1. job[p].run \notin official
    BY <1>6 DEF UpdateWith, ValidateTransition, SafeInv, OfficialImpliesCompleted
  <2> QED
    BY <1>6, <1>t, <2>1 DEF UpdateWith, ValidateTransition, Life, InFlight
<1>7. ASSUME NEW p \in Procs, MarkRunning(p) \/ MarkPersisting(p) PROVE UNCHANGED <<life, official>>
  <2>1. job[p].run \in Runs /\ ~job[p].official
    BY <1>7 DEF MarkRunning, MarkPersisting, SafeInv, JobHeld, Executing, Working, JobTracksPC, Knows
  <2> QED
    BY <1>6, <1>7, <1>q, <2>1 DEF MarkRunning, MarkPersisting, UpdateRefused, row
<1>8. ASSUME NEW p \in Procs, MarkFailed(p)
      PROVE  (\E r \in Runs : Lifecycle!Fail(r)) \/ UNCHANGED <<life, official>>
  <2>1. job[p].run \in Runs /\ ~job[p].official
    BY <1>8 DEF MarkFailed, SafeInv, JobHeld, Executing, Working, JobTracksPC, Knows
  <2>2. CASE UpdateWith(p, "failed")
    <3>1. job[p].run \notin official
      BY <2>2 DEF UpdateWith, ValidateTransition, SafeInv, OfficialImpliesCompleted
    <3>2. CASE state[job[p].run] = "failed"
      BY <1>t, <2>1, <2>2, <3>1, <3>2 DEF UpdateWith, Life, InFlight
    <3>3. CASE state[job[p].run] # "failed"
      <4>1. Lifecycle!Fail(job[p].run)
        BY <1>t, <2>1, <2>2, <3>1, <3>3
        DEF UpdateWith, ValidateTransition, Life, InFlight, Lifecycle!Fail, Lifecycle!Move
      <4> QED
        BY <2>1, <4>1
    <3> QED
      BY <3>2, <3>3
  <2> QED
    BY <1>8, <1>q, <2>2 DEF MarkFailed, UpdateRefused, row
<1>9. ASSUME NEW p \in Procs, MarkCompleted(p) PROVE [Lifecycle!Next]_<<life, official>>
  <2>1. job[p].run \in Runs
    BY <1>9 DEF MarkCompleted, SafeInv, JobHeld, Executing, Working
  <2>2. CASE UpdateWith(p, "completed")
    <3>1. CASE state[job[p].run] = "completed"
      <4>1. UNCHANGED life
        BY <1>t, <2>1, <2>2, <3>1 DEF UpdateWith, Life, InFlight
      <4>2. official' \subseteq {q \in Runs : life[q] = "completed"}
        BY <1>t, <2>1, <2>2, <3>1 DEF UpdateWith, Life, InFlight, SafeInv, OfficialImpliesCompleted
      <4> QED
        BY <4>1, <4>2 DEF Lifecycle!Choose, Lifecycle!Completed
    <3>2. CASE state[job[p].run] # "completed"
      <4>1. job[p].run \notin official
        BY <3>2 DEF SafeInv, OfficialImpliesCompleted
      <4>2. official' \in {official, official \cup {job[p].run}}
        BY <2>2, <4>1 DEF UpdateWith
      <4>3. Lifecycle!Complete(job[p].run)
        BY <1>t, <2>1, <2>2, <3>2, <4>2
        DEF UpdateWith, ValidateTransition, Life, InFlight, Lifecycle!Complete, Lifecycle!Move
      <4> QED
        BY <2>1, <4>3
    <3> QED
      BY <3>1, <3>2
  <2> QED
    BY <1>9, <1>q, <2>2 DEF MarkCompleted, UpdateRefused, row
<1>10. ASSUME NEW p \in Procs, \/ Serve(p) \/ AcquireWorker(p) \/ ClaimNothing(p) \/ Execute(p)
                               \/ Persist(p) \/ DecideOfficial(p) \/ Rank(p) \/ Fault(p) \/ Heartbeat(p)
       PROVE  UNCHANGED <<life, official>>
  BY <1>10, <1>q DEF Serve, AcquireWorker, ClaimNothing, Execute, Persist, DecideOfficial, Rank,
                     Fault, AcquireGivesUp, HeartbeatFails, StoreFails, Stop, Heartbeat, row
<1>11. CASE Tick \/ GuardDrops \/ UNCHANGED vars
  BY <1>11, <1>q DEF Tick, GuardDrops, vars, row
<1>12. CASE Operator
  <2>1. ASSUME NEW r \in Runs, NEW m \in Matches, Submit(r, m) PROVE Lifecycle!Next
    BY <1>1, <2>1 DEF Submit
  <2>2. ASSUME NEW r \in Runs, NEW parent \in Runs, Retry(r, parent) \/ Rerun(r, parent)
        PROVE  Lifecycle!Next
    BY <1>1, <2>2 DEF Retry, Rerun
  <2> QED
    BY <1>2, <1>3, <1>12, <2>1, <2>2 DEF Operator
<1>13. ASSUME NEW p \in Procs, NEW r \in Runs, NEW m \in Matches, RunOnce(p, r, m) PROVE Lifecycle!Next
  BY <1>1, <1>13 DEF RunOnce
<1>14. ASSUME NEW p \in Procs, Step(p) PROVE [Lifecycle!Next]_<<life, official>>
  BY <1>4, <1>5, <1>7, <1>8, <1>9, <1>10, <1>14 DEF Step
<1> QED
  BY <1>10, <1>11, <1>12, <1>13, <1>14 DEF Next

\* The queue, its workers and its operators implement the lifecycle promised
\* to submitters, with any number of workers, guarded or not.
THEOREM Refinement == Spec => LifecycleSpec
<1>1. Init => Lifecycle!Init
  BY InitRefines
<1>2. SafeInv /\ SafeInv' /\ [Next]_vars => [Lifecycle!Next]_<<[r \in Runs |-> Life(r)], official>>
  BY StepRefines
<1> QED
  BY <1>1, <1>2, Safe, PTL DEF Spec, LifecycleSpec, Lifecycle!Spec

-----------------------------------------------------------------------------
(* Single-worker operation *)


LEMMA GuardedInit == Init => GuardedInv
<1> SUFFICES ASSUME Init PROVE GuardedInv
  OBVIOUS
<1>1. SafeInv
  BY SafeInit
<1>2. GuardHeld /\ ArtifactsMatchRecord /\ AtMostOneOfficial
  BY DEF Init, GuardHeld, ArtifactsMatchRecord, AtMostOneOfficial
<1>3. \A p \in Procs : InCharge(p)
  BY DEF Init, InCharge, Executing, Working
<1> QED
  BY <1>1, <1>2, <1>3 DEF GuardedInv

\* One process at most is past AcquireWorker.
LEMMA Alone ==
  ASSUME GuardHeld, NEW p \in Procs, pc[p] \notin {"off", "acquire"}, NEW q \in Procs, q # p
  PROVE  pc[q] \in {"off", "acquire"}
  BY DEF GuardHeld

LEMMA GuardHeldStep ==
  ASSUME SingleWorker, Typed, GuardHeld, [Next]_vars
  PROVE  GuardHeld'
<1>q. ASSUME UNCHANGED <<pc, guard>> PROVE GuardHeld'
  BY <1>q DEF GuardHeld
<1>r. ASSUME NEW p \in Procs, NEW l, Goto(p, l), UNCHANGED guard,
             pc[p] \notin {"off", "acquire"} \/ l \in {"off", "acquire"}
      PROVE  GuardHeld'
  BY <1>r DEF Goto, GuardHeld, Typed, TypeOK
<1>1. ASSUME Operator PROVE GuardHeld'
  BY <1>1, <1>q DEF Operator, Submit, Retry, Rerun, Cancel, Promote, Others
<1>2. ASSUME NEW p \in Procs, Serve(p) \/ AcquireGivesUp(p) \/ RecoverExpired(p) \/ Claim(p)
      PROVE  GuardHeld'
  BY <1>2, <1>r DEF Serve, AcquireGivesUp, RecoverExpired, Claim
<1>3. ASSUME NEW p \in Procs, AcquireWorker(p) PROVE GuardHeld'
  BY <1>3, ProcKinds DEF AcquireWorker, Goto, GuardHeld, Typed, TypeOK
<1>4. ASSUME NEW p \in Procs, Return(p), pc[p] \notin {"off", "acquire"}, UNCHANGED guard PROVE GuardHeld'
  BY <1>4, <1>r DEF Return
<1>5. ASSUME NEW p \in Procs, \/ ClaimNothing(p) \/ Rank(p) \/ StoreFails(p) \/ MarkRunning(p)
                              \/ MarkPersisting(p) \/ MarkFailed(p) \/ MarkCompleted(p)
      PROVE  GuardHeld'
  <2>1. pc[p] \notin {"off", "acquire"} /\ guard' = guard
    BY <1>5 DEF ClaimNothing, Rank, StoreFails, MarkRunning, MarkPersisting, MarkFailed,
                MarkCompleted, UpdateRefused
  <2>2. Return(p) \/ \E l \in {"execute", "persist", "rank"} : Goto(p, l)
    BY <1>5 DEF ClaimNothing, Rank, StoreFails, MarkRunning, MarkPersisting, MarkFailed,
                MarkCompleted, UpdateRefused
  <2> QED
    BY <1>4, <1>r, <2>1, <2>2
<1>6. ASSUME NEW p \in Procs, Execute(p) \/ Persist(p) \/ DecideOfficial(p) PROVE GuardHeld'
  <2>1. pc[p] \notin {"off", "acquire"} /\ guard' = guard
    BY <1>6 DEF Execute, Persist, DecideOfficial
  <2>2. \E l \in {"saving", "failing", "decide", "finish"} : Goto(p, l)
    BY <1>6 DEF Execute, Persist, DecideOfficial
  <2> QED
    BY <1>r, <2>1, <2>2
<1>7. ASSUME NEW p \in Procs, Stop(p) PROVE GuardHeld'
  BY <1>7 DEF Stop, Goto, GuardHeld, Typed, TypeOK
<1>8. ASSUME NEW p \in Procs, Heartbeat(p) \/ HeartbeatFails(p) PROVE GuardHeld'
  BY <1>8, <1>q DEF Heartbeat, HeartbeatFails
<1>9. ASSUME NEW p \in Procs, NEW r \in Runs, NEW m \in Matches, RunOnce(p, r, m) PROVE GuardHeld'
  BY <1>9 DEF RunOnce, SingleWorker
<1>10. CASE Tick \/ GuardDrops \/ UNCHANGED vars
  BY <1>10, <1>q DEF Tick, GuardDrops, vars, SingleWorker
<1> QED
  BY <1>1, <1>2, <1>3, <1>5, <1>6, <1>7, <1>8, <1>9, <1>10 DEF Next, Step, Fault

\* In the next state too only one process is past AcquireWorker, so a step that
\* leaves p there has only p's part to establish.
LEMMA ChargeFrame ==
  ASSUME GuardHeld', NEW p \in Procs, pc'[p] \notin {"off", "acquire"}, InCharge(p)'
  PROVE  \A q \in Procs : InCharge(q)'
<1> SUFFICES ASSUME NEW q \in Procs, q # p PROVE InCharge(q)'
  OBVIOUS
<1>1. pc'[q] \in {"off", "acquire"}
  BY DEF GuardHeld
<1> QED
  BY <1>1 DEF InCharge, Executing, Working

LEMMA ReturnCharge ==
  ASSUME SingleWorker, Typed, GuardHeld', NEW p \in Procs, Return(p)
  PROVE  \A q \in Procs : InCharge(q)'
<1>1. pc'[p] = "recover"
  BY DEF Return, Goto, SingleWorker, Typed, TypeOK
<1>2. InCharge(p)'
  BY <1>1 DEF InCharge, Executing, Working
<1> QED
  BY <1>1, <1>2, ChargeFrame

LEMMA UpdateCharge ==
  ASSUME Typed, GuardHeld', NEW p \in Procs, NEW s, NEW l, UpdateWith(p, s), Goto(p, l),
         UNCHANGED job, job[p].run \in Runs, InStep(l, s), l \notin {"decide", "finish"}
  PROVE  \A q \in Procs : InCharge(q)'
<1>1. pc'[p] = l /\ job'[p].run = job[p].run /\ state'[job[p].run] = s
  BY DEF UpdateWith, Goto, Typed, TypeOK
<1>2. InCharge(p)' /\ pc'[p] \notin {"off", "acquire"}
  BY <1>1 DEF InCharge, InStep
<1> QED
  BY <1>2, ChargeFrame

LEMMA ChargeStep ==
  ASSUME SingleWorker, GuardedInv, GuardHeld', [Next]_vars
  PROVE  \A q \in Procs : InCharge(q)'
<1>t. Typed /\ OfficialImpliesCompleted
  BY DEF GuardedInv, SafeInv, Typed
<1>h. ASSUME NEW p \in Procs, Executing(p)
      PROVE  job[p].run \in Runs /\ InStep(pc[p], state[job[p].run])
  BY <1>h DEF GuardedInv, SafeInv, JobHeld, InCharge
<1>1. ASSUME NEW r \in Runs, NEW m, NEW k, NEW parent, Enqueue(r, m, k, parent),
             UNCHANGED <<artifacts, job, pc>>
      PROVE  \A q \in Procs : InCharge(q)'
  <2> SUFFICES ASSUME NEW q \in Procs PROVE InCharge(q)'
    OBVIOUS
  <2>1. r \notin official /\ state[r] = "absent"
    BY <1>1, <1>t DEF Enqueue, IsNextRun, OfficialImpliesCompleted
  <2>2. Executing(q) => job[q].run # r
    BY <1>h, <2>1 DEF InStep
  <2>3. /\ official' = official /\ official \subseteq Runs
        /\ \A o \in Runs : o # r => state'[o] = state[o] /\ Match(o)' = Match(o)
    BY <1>1, <1>t DEF Enqueue, Match, Typed, TypeOK
  <2>4. Executing(q)' => Executing(q) /\ InStep(pc'[q], state'[job'[q].run])
    BY <1>1, <1>h, <2>2, <2>3 DEF Executing
  <2>5. pc'[q] = "finish" /\ job'[q].official => \A o \in official' : Match(o)' # Match(job[q].run)'
    BY <1>1, <1>h, <2>1, <2>2, <2>3 DEF GuardedInv, InCharge, Executing, Working
  <2> QED
    BY <1>1, <2>4, <2>5 DEF GuardedInv, InCharge, Match
<1>2. ASSUME NEW r \in Runs, NEW m \in Matches, Submit(r, m) PROVE \A q \in Procs : InCharge(q)'
  BY <1>1, <1>2 DEF Submit, Others
<1>3. ASSUME NEW r \in Runs, NEW parent \in Runs, Retry(r, parent) \/ Rerun(r, parent)
      PROVE  \A q \in Procs : InCharge(q)'
  BY <1>1, <1>3 DEF Retry, Rerun, Others
<1>4. ASSUME NEW r \in Runs, Cancel(r) PROVE \A q \in Procs : InCharge(q)'
  <2>1. \A q \in Procs : Executing(q) => job[q].run # r
    BY <1>4, <1>h DEF Cancel, InStep
  <2>2. \A q \in Procs : Executing(q) => state'[job[q].run] = state[job[q].run]
    BY <1>4, <1>h, <1>t, <2>1 DEF Cancel, Typed, TypeOK
  <2> QED
    BY <1>4, <2>2 DEF Cancel, Others, GuardedInv, InCharge, Executing, Match
<1>5. ASSUME NEW r \in Runs, Promote(r) PROVE \A q \in Procs : InCharge(q)'
  BY <1>5 DEF Promote, Others, SingleWorker, GuardedInv, InCharge, Executing
<1>6. ASSUME NEW p \in Procs, Serve(p) \/ AcquireGivesUp(p) \/ Stop(p)
      PROVE  \A q \in Procs : InCharge(q)'
  <2>1. pc'[p] \in {"off", "acquire"} /\ UNCHANGED <<row, artifacts>>
        /\ \A q \in Procs : q # p => pc'[q] = pc[q] /\ job'[q] = job[q]
    BY <1>6, <1>t DEF Serve, AcquireGivesUp, Stop, Goto, Typed, TypeOK
  <2>2. InCharge(p)'
    BY <2>1 DEF InCharge, Executing, Working
  <2>3. \A q \in Procs : q # p => InCharge(q)'
    BY <2>1 DEF row, GuardedInv, InCharge, Executing, Match
  <2> QED
    BY <2>2, <2>3
<1>7. ASSUME NEW p \in Procs, AcquireWorker(p) \/ RecoverExpired(p) PROVE \A q \in Procs : InCharge(q)'
  <2>1. pc'[p] \in {"recover", "claim"}
    BY <1>7, <1>t DEF AcquireWorker, RecoverExpired, Goto, Typed, TypeOK
  <2>2. InCharge(p)'
    BY <2>1 DEF InCharge, Executing, Working
  <2> QED
    BY <2>1, <2>2, ChargeFrame
<1>8. ASSUME NEW p \in Procs, Claim(p) PROVE \A q \in Procs : InCharge(q)'
  <2>1. PICK r \in Runs :
          /\ state' = [state EXCEPT ![r] = "leased"]
          /\ job' = [job EXCEPT ![p] = [run |-> r, official |-> r \in official,
                                        ttl |-> LeaseTicks, terminal |-> terminal[r],
                                        status |-> "none"]]
    BY <1>8 DEF Claim
  <2>2. pc'[p] = "start" /\ job'[p].run = r /\ state'[r] = "leased"
    BY <1>8, <1>t, <2>1 DEF Claim, Goto, Typed, TypeOK
  <2>3. InCharge(p)'
    BY <2>2 DEF InCharge, InStep
  <2> QED
    BY <2>2, <2>3, ChargeFrame
<1>9. ASSUME NEW p \in Procs, \/ ClaimNothing(p) \/ Rank(p) \/ StoreFails(p) \/ MarkFailed(p)
      PROVE  \A q \in Procs : InCharge(q)'
  BY <1>9, <1>t, ReturnCharge DEF ClaimNothing, Rank, StoreFails, MarkFailed, UpdateRefused
<1>10. ASSUME NEW p \in Procs, MarkRunning(p) PROVE \A q \in Procs : InCharge(q)'
  <2>1. Executing(p) /\ InStep("execute", "running")
    BY <1>10 DEF MarkRunning, Executing, Working, InStep
  <2> QED
    BY <1>10, <1>t, <1>h, <2>1, ReturnCharge, UpdateCharge DEF MarkRunning, UpdateRefused
<1>11. ASSUME NEW p \in Procs, MarkPersisting(p) PROVE \A q \in Procs : InCharge(q)'
  <2>1. Executing(p) /\ InStep("persist", "persisting")
    BY <1>11 DEF MarkPersisting, Executing, Working, InStep
  <2> QED
    BY <1>11, <1>t, <1>h, <2>1, ReturnCharge, UpdateCharge DEF MarkPersisting, UpdateRefused
<1>12. ASSUME NEW p \in Procs, MarkCompleted(p) PROVE \A q \in Procs : InCharge(q)'
  <2>1. Executing(p) /\ InStep("rank", "completed")
    BY <1>12 DEF MarkCompleted, Executing, Working, InStep
  <2> QED
    BY <1>12, <1>t, <1>h, <2>1, ReturnCharge, UpdateCharge DEF MarkCompleted, UpdateRefused
<1>13. ASSUME NEW p \in Procs, Execute(p) PROVE \A q \in Procs : InCharge(q)'
  <2>1. job'[p].run = job[p].run /\ pc'[p] \in {"saving", "failing"} /\ state' = state
    BY <1>13, <1>t DEF Execute, Goto, Carried, row, Typed, TypeOK
  <2>2. state[job[p].run] = "running"
    BY <1>13, <1>h DEF Execute, Executing, Working, InStep
  <2>3. InCharge(p)'
    BY <2>1, <2>2 DEF InCharge, InStep
  <2> QED
    BY <2>1, <2>3, ChargeFrame
<1>14. ASSUME NEW p \in Procs, Persist(p) PROVE \A q \in Procs : InCharge(q)'
  <2>1. job[p].run \in Runs /\ state[job[p].run] = "persisting" /\ state' = state
    BY <1>14, <1>h DEF Persist, Executing, Working, InStep, row
  <2>2. \/ pc'[p] = "failing" /\ job' = job
        \/ /\ pc'[p] = "decide" /\ job'[p].run = job[p].run
           /\ artifacts'[job[p].run] = job'[p].terminal
    BY <1>14, <1>t, <2>1 DEF Persist, Goto, Carried, Typed, TypeOK
  <2>3. InCharge(p)'
    BY <2>1, <2>2 DEF InCharge, InStep
  <2> QED
    BY <2>2, <2>3, ChargeFrame
<1>15. ASSUME NEW p \in Procs, DecideOfficial(p) PROVE \A q \in Procs : InCharge(q)'
  <2>1. /\ job[p].run \in Runs /\ state[job[p].run] = "persisting"
        /\ artifacts[job[p].run] = job[p].terminal
        /\ UNCHANGED <<state, submission, official, artifacts>>
    BY <1>15, <1>h DEF DecideOfficial, Executing, Working, InStep, row, GuardedInv, InCharge
  <2>2. ~job[p].official
    BY <1>15 DEF DecideOfficial, GuardedInv, SafeInv, JobTracksPC, Knows
  <2>3. ShouldAutoPromote(p) => \A q \in official : Match(q) # Match(job[p].run)
    BY <1>t, <2>1 DEF ShouldAutoPromote, OfficialImpliesCompleted, Typed, TypeOK
  <2>4. /\ pc'[p] = "finish" /\ job'[p].run = job[p].run /\ job'[p].terminal = job[p].terminal
        /\ job'[p].official => ShouldAutoPromote(p)
    <3>1. CASE job' = job
      BY <1>15, <1>t, <2>2, <3>1 DEF DecideOfficial, Goto, Typed, TypeOK
    <3>2. CASE job' = [job EXCEPT ![p] =
                 Carried(job[p], ShouldAutoPromote(p), job[p].terminal, job[p].status)]
      BY <1>15, <1>t, <3>2 DEF DecideOfficial, Goto, Carried, Typed, TypeOK
    <3> QED
      BY <1>15, <3>1, <3>2 DEF DecideOfficial
  <2>5. InCharge(p)'
    BY <2>1, <2>3, <2>4 DEF InCharge, InStep, Match
  <2> QED
    BY <2>4, <2>5, ChargeFrame
<1>16. CASE Tick
  <2>1. \A p \in Procs : /\ job'[p].run = job[p].run /\ job'[p].official = job[p].official
                         /\ job'[p].terminal = job[p].terminal
    BY <1>16 DEF Tick
  <2> QED
    BY <1>16, <2>1 DEF Tick, GuardedInv, InCharge, Executing, Match
<1>17. ASSUME NEW p \in Procs, Heartbeat(p) \/ HeartbeatFails(p) PROVE \A q \in Procs : InCharge(q)'
  BY <1>17 DEF Heartbeat, HeartbeatFails, row, GuardedInv, InCharge, Executing, Match
<1>18. ASSUME NEW p \in Procs, NEW r \in Runs, NEW m \in Matches, RunOnce(p, r, m)
       PROVE  \A q \in Procs : InCharge(q)'
  BY <1>18 DEF RunOnce, SingleWorker
<1>19. CASE GuardDrops \/ UNCHANGED vars
  BY <1>19 DEF GuardDrops, SingleWorker, vars, GuardedInv, InCharge, Executing, Match
<1> QED
  BY <1>2, <1>3, <1>4, <1>5, <1>6, <1>7, <1>8, <1>9, <1>10, <1>11, <1>12, <1>13, <1>14,
     <1>15, <1>16, <1>17, <1>18, <1>19
  DEF Next, Operator, Step, Fault

\* The row an Update is about to write is still in flight.
LEMMA UpdatesInFlight ==
  ASSUME GuardedInv, NEW p \in Procs, pc[p] \in {"start", "saving", "persist", "failing", "finish"}
  PROVE  job[p].run \in Runs /\ state[job[p].run] \in InFlight
  BY DEF GuardedInv, SafeInv, JobHeld, Executing, Working, InCharge, InStep, InFlight

\* A step of the guarded system changes neither the terminal record nor the
\* stored artifacts of a run that is completed.
LEMMA FrozenStep ==
  ASSUME GuardedInv, [Next]_vars, NEW r \in Runs, state[r] = "completed"
  PROVE  terminal'[r] = terminal[r] /\ artifacts'[r] = artifacts[r]
<1>t. terminal \in [Runs -> MatchStatus \cup {"none"}] /\ artifacts \in [Runs -> MatchStatus \cup {"none"}]
  BY DEF GuardedInv, SafeInv, TypeOK
<1>q. ASSUME UNCHANGED <<terminal, artifacts>> PROVE terminal'[r] = terminal[r] /\ artifacts'[r] = artifacts[r]
  BY <1>q
<1>1. ASSUME NEW o \in Runs, Cancel(o) PROVE terminal'[r] = terminal[r] /\ artifacts'[r] = artifacts[r]
  BY <1>1, <1>t DEF Cancel, Others
<1>2. ASSUME Operator, \A o \in Runs : ~Cancel(o) PROVE UNCHANGED <<terminal, artifacts>>
  BY <1>2 DEF Operator, Submit, Retry, Rerun, Enqueue, Promote, Others
<1>3. ASSUME NEW p \in Procs, MarkRunning(p) \/ MarkPersisting(p) \/ MarkFailed(p) \/ MarkCompleted(p)
      PROVE  terminal'[r] = terminal[r] /\ artifacts'[r] = artifacts[r]
  <2>1. job[p].run # r
    BY <1>3, UpdatesInFlight DEF MarkRunning, MarkPersisting, MarkFailed, MarkCompleted, InFlight
  <2>2. ASSUME NEW s, UpdateWith(p, s) PROVE terminal'[r] = terminal[r]
    BY <1>t, <2>1, <2>2 DEF UpdateWith
  <2> QED
    BY <1>3, <1>q, <2>2 DEF MarkRunning, MarkPersisting, MarkFailed, MarkCompleted, UpdateRefused, row
<1>4. ASSUME NEW p \in Procs, Persist(p) PROVE terminal'[r] = terminal[r] /\ artifacts'[r] = artifacts[r]
  <2>1. job[p].run # r
    BY <1>4, UpdatesInFlight DEF Persist, InFlight
  <2> QED
    BY <1>4, <1>t, <2>1 DEF Persist, row
<1>5. ASSUME NEW p \in Procs, \/ Serve(p) \/ AcquireWorker(p) \/ RecoverExpired(p) \/ Claim(p)
                              \/ ClaimNothing(p) \/ Execute(p) \/ DecideOfficial(p) \/ Rank(p)
                              \/ Fault(p) \/ Heartbeat(p)
      PROVE  UNCHANGED <<terminal, artifacts>>
  BY <1>5 DEF Serve, AcquireWorker, RecoverExpired, Claim, ClaimNothing, Execute, DecideOfficial, Rank,
              Fault, AcquireGivesUp, HeartbeatFails, StoreFails, Stop, Heartbeat, row
<1>6. ASSUME NEW p \in Procs, NEW o \in Runs, NEW m \in Matches, RunOnce(p, o, m)
      PROVE  UNCHANGED <<terminal, artifacts>>
  BY <1>6 DEF RunOnce, Enqueue
<1>7. CASE Tick \/ GuardDrops \/ UNCHANGED vars
  BY <1>7 DEF Tick, GuardDrops, vars, row
<1> QED
  BY <1>q, <1>1, <1>2, <1>3, <1>4, <1>5, <1>6, <1>7 DEF Next, Step

\* A run becomes completed only when its worker says so, and then with the
\* artifacts that worker stored.
LEMMA NewlyCompleted ==
  ASSUME GuardedInv, [Next]_vars, NEW r \in Runs, state[r] # "completed", state'[r] = "completed"
  PROVE  \E p \in Procs : /\ pc[p] = "finish" /\ job[p].run = r /\ UpdateWith(p, "completed")
                          /\ UNCHANGED artifacts
<1>t. state \in [Runs -> LifecycleState]
  BY DEF GuardedInv, SafeInv, TypeOK
<1>q. state' # state
  OBVIOUS
<1>1. ASSUME NEW o \in Runs, NEW m, NEW k, NEW parent, Enqueue(o, m, k, parent) PROVE FALSE
  BY <1>1, <1>t DEF Enqueue
<1>2. ~Operator
  BY <1>1, <1>t, <1>q DEF Operator, Submit, Retry, Rerun, Cancel, Promote
<1>3. ASSUME NEW p \in Procs, \/ MarkRunning(p) \/ MarkPersisting(p) \/ MarkFailed(p)
                              \/ RecoverExpired(p) \/ Claim(p)
      PROVE  FALSE
  BY <1>3, <1>t, <1>q DEF MarkRunning, MarkPersisting, MarkFailed, UpdateWith, UpdateRefused, row,
                          RecoverExpired, Claim
<1>4. ASSUME NEW p \in Procs, MarkCompleted(p)
      PROVE  /\ pc[p] = "finish" /\ job[p].run = r /\ UpdateWith(p, "completed")
             /\ UNCHANGED artifacts
  <2>1. UpdateWith(p, "completed") /\ pc[p] = "finish" /\ UNCHANGED artifacts
    BY <1>4, <1>q DEF MarkCompleted, UpdateRefused, row
  <2> QED
    BY <1>t, <2>1 DEF UpdateWith
<1>5. ASSUME NEW p \in Procs, \/ Serve(p) \/ AcquireWorker(p) \/ ClaimNothing(p) \/ Execute(p)
                              \/ Persist(p) \/ DecideOfficial(p) \/ Rank(p) \/ Fault(p) \/ Heartbeat(p)
      PROVE  FALSE
  BY <1>5, <1>q DEF Serve, AcquireWorker, ClaimNothing, Execute, Persist, DecideOfficial, Rank,
                    Fault, AcquireGivesUp, HeartbeatFails, StoreFails, Stop, Heartbeat, row
<1>6. ASSUME NEW p \in Procs, NEW o \in Runs, NEW m \in Matches, RunOnce(p, o, m) PROVE FALSE
  BY <1>1, <1>6 DEF RunOnce
<1>7. ~(Tick \/ GuardDrops \/ UNCHANGED vars)
  BY <1>q DEF Tick, GuardDrops, vars, row
<1> QED
  BY <1>2, <1>3, <1>4, <1>5, <1>6, <1>7 DEF Next, Step

LEMMA ArtifactsStep ==
  ASSUME GuardedInv, [Next]_vars
  PROVE  ArtifactsMatchRecord'
<1> SUFFICES ASSUME NEW r \in Runs, state'[r] = "completed"
             PROVE  terminal'[r] # "none" /\ artifacts'[r] = terminal'[r]
  BY DEF ArtifactsMatchRecord
<1>1. CASE state[r] = "completed"
  BY <1>1, FrozenStep DEF GuardedInv, ArtifactsMatchRecord
<1>2. CASE state[r] # "completed"
  <2>1. PICK p \in Procs : /\ pc[p] = "finish" /\ job[p].run = r /\ UpdateWith(p, "completed")
                           /\ UNCHANGED artifacts
    BY <1>2, NewlyCompleted
  <2>2. terminal'[r] = job[p].terminal
    BY <2>1 DEF UpdateWith, GuardedInv, SafeInv, TypeOK
  <2>3. job[p].terminal # "none" /\ artifacts[r] = job[p].terminal
    BY <2>1 DEF GuardedInv, SafeInv, JobTracksPC, Knows, InCharge
  <2> QED
    BY <2>1, <2>2, <2>3
<1> QED
  BY <1>1, <1>2

LEMMA OfficialStep ==
  ASSUME GuardedInv, [Next]_vars
  PROVE  AtMostOneOfficial'
<1>t. Typed /\ OfficialImpliesCompleted /\ AtMostOneOfficial
  BY DEF GuardedInv, SafeInv, Typed
<1>q. ASSUME official' \subseteq official, submission' = submission PROVE AtMostOneOfficial'
  BY <1>q, <1>t DEF AtMostOneOfficial, Match
<1>1. ASSUME NEW r \in Runs, NEW m, NEW k, NEW parent, Enqueue(r, m, k, parent) PROVE AtMostOneOfficial'
  <2>1. r \notin official /\ official' = official
    BY <1>1, <1>t DEF Enqueue, IsNextRun, OfficialImpliesCompleted
  <2>2. \A o \in official : Match(o)' = Match(o)
    BY <1>1, <1>t, <2>1 DEF Enqueue, Match, Typed, TypeOK
  <2> QED
    BY <1>t, <2>1, <2>2 DEF AtMostOneOfficial
<1>2. ASSUME NEW r \in Runs, NEW m \in Matches, Submit(r, m) PROVE AtMostOneOfficial'
  BY <1>1, <1>2 DEF Submit
<1>3. ASSUME NEW r \in Runs, NEW parent \in Runs, Retry(r, parent) \/ Rerun(r, parent)
      PROVE  AtMostOneOfficial'
  BY <1>1, <1>3 DEF Retry, Rerun
<1>4. ASSUME NEW r \in Runs, Promote(r) PROVE AtMostOneOfficial'
  BY <1>4, <1>t DEF Promote, AtMostOneOfficial, Match
<1>5. ASSUME NEW p \in Procs, MarkRunning(p) \/ MarkPersisting(p) \/ MarkFailed(p) PROVE AtMostOneOfficial'
  <2>1. ~job[p].official
    BY <1>5 DEF MarkRunning, MarkPersisting, MarkFailed, GuardedInv, SafeInv, JobTracksPC, Knows
  <2> QED
    BY <1>5, <1>q, <2>1 DEF MarkRunning, MarkPersisting, MarkFailed, UpdateWith, UpdateRefused, row
<1>6. ASSUME NEW p \in Procs, MarkCompleted(p) PROVE AtMostOneOfficial'
  <2>1. CASE UpdateWith(p, "completed") /\ job[p].official
    <3>1. \A q \in official : Match(q) # Match(job[p].run)
      BY <1>6, <2>1 DEF MarkCompleted, GuardedInv, InCharge
    <3>2. official' = official \cup {job[p].run} /\ submission' = submission
      BY <2>1 DEF UpdateWith
    <3> QED
      BY <1>t, <3>1, <3>2 DEF AtMostOneOfficial, Match
  <2>2. CASE UpdateWith(p, "completed") /\ ~job[p].official
    BY <1>q, <2>2 DEF UpdateWith
  <2> QED
    BY <1>6, <1>q, <2>1, <2>2 DEF MarkCompleted, UpdateRefused, row
<1>7. ASSUME NEW p \in Procs, \/ Serve(p) \/ AcquireWorker(p) \/ RecoverExpired(p) \/ Claim(p)
                              \/ ClaimNothing(p) \/ Execute(p) \/ Persist(p) \/ DecideOfficial(p)
                              \/ Rank(p) \/ Fault(p) \/ Heartbeat(p)
      PROVE  UNCHANGED <<official, submission>>
  BY <1>7 DEF Serve, AcquireWorker, RecoverExpired, Claim, ClaimNothing, Execute, Persist,
              DecideOfficial, Rank, Fault, AcquireGivesUp, HeartbeatFails, StoreFails, Stop,
              Heartbeat, row
<1>8. ASSUME NEW p \in Procs, NEW r \in Runs, NEW m \in Matches, RunOnce(p, r, m) PROVE AtMostOneOfficial'
  BY <1>1, <1>8 DEF RunOnce
<1>9. ASSUME \/ Tick \/ GuardDrops \/ UNCHANGED vars \/ \E r \in Runs : Cancel(r)
      PROVE  UNCHANGED <<official, submission>>
  BY <1>9 DEF Tick, GuardDrops, Cancel, vars, row
<1> QED
  BY <1>q, <1>2, <1>3, <1>4, <1>5, <1>6, <1>7, <1>8, <1>9 DEF Next, Operator, Step

LEMMA GuardedStep ==
  ASSUME SingleWorker, GuardedInv, [Next]_vars
  PROVE  GuardedInv'
<1>1. SafeInv'
  BY SafeStep DEF GuardedInv
<1>2. GuardHeld'
  BY GuardHeldStep DEF GuardedInv, SafeInv, Typed
<1>3. \A q \in Procs : InCharge(q)'
  BY <1>2, ChargeStep
<1> QED
  BY <1>1, <1>2, <1>3, ArtifactsStep, OfficialStep DEF GuardedInv

\* GuardedInv holds throughout single-worker operation.
THEOREM Guarded == ASSUME SingleWorker PROVE Spec => []GuardedInv
<1>1. GuardedInv /\ [Next]_vars => GuardedInv'
  BY GuardedStep
<1> QED
  BY <1>1, GuardedInit, PTL DEF Spec

\* Of the runs of a match at most one is official: the worker's decision to
\* promote and the operator's never both take effect.
THEOREM OneOfficialPerMatch == ASSUME SingleWorker PROVE Spec => []AtMostOneOfficial
<1>1. GuardedInv => AtMostOneOfficial
  BY DEF GuardedInv
<1> QED
  BY <1>1, Guarded, PTL

\* The artifacts on disk are those the completed record describes.
THEOREM ArtifactsAreTheRecords == ASSUME SingleWorker PROVE Spec => []ArtifactsMatchRecord
<1>1. GuardedInv => ArtifactsMatchRecord
  BY DEF GuardedInv
<1> QED
  BY <1>1, Guarded, PTL

\* No two processes ever work on the same run, whatever stops, expires or is
\* replaced.
THEOREM RunsNotShared == ASSUME SingleWorker PROVE Spec => []OneWorkerPerRun
<1>1. GuardedInv => OneWorkerPerRun
  <2> SUFFICES ASSUME GuardHeld, NEW p \in Procs, NEW q \in Procs, Executing(p), Executing(q)
               PROVE  p = q
    BY DEF GuardedInv, OneWorkerPerRun
  <2> QED
    BY DEF GuardHeld, Executing, Working
<1> QED
  BY <1>1, Guarded, PTL

\* A completed run's terminal record and artifacts never change again.
THEOREM CompletedStaysFrozen == ASSUME SingleWorker PROVE Spec => CompletedIsFrozen
<1>1. GuardedInv /\ [Next]_vars =>
        [\A r \in Runs : state[r] = "completed" =>
           terminal'[r] = terminal[r] /\ artifacts'[r] = artifacts[r]]_vars
  BY FrozenStep
<1> QED
  BY <1>1, Guarded, PTL DEF Spec, CompletedIsFrozen

-----------------------------------------------------------------------------
(* The queue beneath *)

LEMMA RankingIsQueue == [RankingNext]_allVars => [Next]_vars
<1> SUFFICES ASSUME [RankingNext]_allVars PROVE [Next]_vars
  OBVIOUS
<1>1. CASE QueueStep
  BY <1>1 DEF QueueStep, Next, Operator, Step, Fault
<1>2. ASSUME NEW p \in Procs, ApplyRead(p) \/ ApplyWrite(p) \/ ApplyFails(p) \/ Exit(p)
      PROVE  [Next]_vars
  BY <1>2 DEF ApplyRead, ApplyWrite, ApplyFails, Exit, Next, Step, Fault
<1>3. ASSUME NEW p \in Servers, NEW r \in Runs, PromoteRun(p, r) PROVE Next
  BY <1>3 DEF PromoteRun, Next, Operator
<1>4. ASSUME NEW p \in Servers, RefreshList(p) \/ RefreshPut(p) \/ RefreshFails(p)
      PROVE  UNCHANGED vars
  BY <1>4 DEF RefreshList, RefreshPut, RefreshFails
<1>5. CASE UNCHANGED allVars
  BY <1>5 DEF allVars
<1> QED
  BY <1>1, <1>2, <1>3, <1>4, <1>5 DEF RankingNext

\* The ranking is kept beside the queue: whatever is proved of RunQueue holds
\* of the queue, its workers and its operators in RunRanking.
THEOREM RankingRefinesQueue == RankingSpec => Spec
BY RankingIsQueue, PTL DEF RankingSpec, RankingInit, Spec

\* Publications, replay files and spectators leave the queue alone.
THEOREM PublicRefinesQueue == PublicSpec => Spec
<1>1. [PublicNext]_publicVars => [Next]_vars
  BY DEF PublicNext, QueueMoves, Publish, Select, State, Replay, publicVars
<1> QED
  BY <1>1, PTL DEF PublicSpec, PublicInit, Spec

-----------------------------------------------------------------------------
(***************************************************************************)
(* The ranking in single-worker operation.  Between an official completion *)
(* and its ranking one run is pending; a handler that rebuilds the ranking *)
(* keeps every completion out until it has written.                        *)
(***************************************************************************)

Ranking(p) == pc[p] = "rank"
Refreshing(p) == refresh[p].phase # "idle"

\* What the worker holds from the stored artifacts to the ranking.
Ready(p) ==
  /\ pc[p] = "decide" => job[p].terminal = job[p].status
  /\ pc[p] \in {"finish", "rank"} /\ job[p].official => job[p].terminal \in Finished
  /\ Ranking(p) => job[p].official /\ job[p].run \in official /\ artifacts[job[p].run] \in Finished

RankingTyped ==
  /\ seen \in [Procs -> SUBSET {snapshot}]
  /\ refresh \in [Servers -> [phase : {"idle", "list", "put"}, run : Runs \cup {0}, applied : SUBSET Runs]]
  /\ snapshot \subseteq Runs /\ behind \in BOOLEAN

\* The snapshot has one writer at a time.
OneWriter ==
  /\ \A p \in Procs : seen[p] # {} => Ranking(p)
  /\ \A p \in Servers : Refreshing(p) => \A q \in Procs : ~Ranking(q)
  /\ \A p, q \in Servers : Refreshing(p) /\ Refreshing(q) => p = q

Sound(S) == \A r \in S : state[r] = "completed" /\ artifacts[r] \in Finished

Pending == {job[p].run : p \in {q \in Procs : Ranking(q)}}

Counted ==
  /\ (\A p \in Servers : ~Refreshing(p)) /\ ~behind => snapshot = official \ Pending
  /\ \A p \in Servers : refresh[p].phase = "put" => refresh[p].applied = official

SoundWriters == Sound(snapshot) /\ \A p \in Servers : Sound(refresh[p].applied)

RankingInv ==
  /\ GuardedInv /\ RankingTyped /\ (\A p \in Procs : Ready(p))
  /\ OneWriter /\ SoundWriters /\ Counted

LEMMA RankingStart == RankingInit => RankingInv
<1> SUFFICES ASSUME RankingInit PROVE RankingInv
  OBVIOUS
<1>1. GuardedInv
  BY GuardedInit DEF RankingInit
<1>2. /\ snapshot = {} /\ official = {} /\ behind = FALSE
      /\ \A p \in Procs : pc[p] = "off" /\ seen[p] = {}
      /\ \A p \in Servers : refresh[p] = Idle
  BY DEF RankingInit, Init
<1>3. RankingTyped
  BY <1>2 DEF RankingInit, RankingTyped, Idle
<1>4. \A p \in Procs : Ready(p) /\ ~Ranking(p)
  BY <1>2 DEF Ready, Ranking
<1>5. OneWriter /\ SoundWriters /\ Counted
  BY <1>2 DEF OneWriter, Refreshing, SoundWriters, Sound, Counted, Pending, Ranking, Idle
<1> QED
  BY <1>1, <1>3, <1>4, <1>5 DEF RankingInv

\* A ranked run keeps the result it was ranked for.
LEMMA SoundStays ==
  ASSUME GuardedInv, [Next]_vars, NEW S \in SUBSET Runs, Sound(S)
  PROVE  Sound(S)'
<1> SUFFICES ASSUME NEW r \in S PROVE state'[r] = "completed" /\ artifacts'[r] \in Finished
  BY DEF Sound
<1>1. state[r] = "completed" /\ artifacts[r] \in Finished
  BY DEF Sound
<1>2. state'[r] = state[r]
  BY <1>1, EndedStays DEF GuardedInv, SafeInv, Typed, Terminal
<1> QED
  BY <1>1, <1>2, FrozenStep

\* Only an official completion is followed by the ranking.
LEMMA RankingEntered ==
  ASSUME RankingInv, NEW p \in Procs, MarkCompleted(p)
  PROVE  \/ /\ UpdateWith(p, "completed") /\ job[p].official /\ Goto(p, "rank")
            /\ UNCHANGED <<artifacts, guard, job, beat>>
         \/ Return(p) /\ UNCHANGED <<artifacts, guard>> /\ official' = official
<1>1. job[p].run \in Runs /\ state[job[p].run] = "persisting"
  BY DEF MarkCompleted, RankingInv, GuardedInv, SafeInv, JobHeld, Executing, Working, InCharge, InStep
<1>2. job[p].run \notin official
  BY <1>1 DEF RankingInv, GuardedInv, SafeInv, OfficialImpliesCompleted
<1>3. CASE UpdateWith(p, "completed") /\ ~job[p].official
  BY <1>2, <1>3 DEF MarkCompleted, UpdateWith, UpdateRefused, row
<1> QED
  BY <1>3 DEF MarkCompleted, UpdateRefused, row

\* An Update before the end writes the flag that the row already has.
LEMMA OfficialKept ==
  ASSUME RankingInv, NEW p \in Procs, MarkRunning(p) \/ MarkPersisting(p) \/ MarkFailed(p)
  PROVE  UNCHANGED <<artifacts, official>>
<1>1. job[p].run \in Runs /\ state[job[p].run] \in InFlight
  BY UpdatesInFlight DEF MarkRunning, MarkPersisting, MarkFailed, RankingInv
<1>2. job[p].run \notin official
  BY <1>1 DEF InFlight, RankingInv, GuardedInv, SafeInv, OfficialImpliesCompleted
<1>3. ~job[p].official
  BY DEF MarkRunning, MarkPersisting, MarkFailed, RankingInv, GuardedInv, SafeInv, JobTracksPC, Knows
<1> QED
  BY <1>2, <1>3 DEF MarkRunning, MarkPersisting, MarkFailed, UpdateWith, UpdateRefused, row

\* In the next state too only one process is past AcquireWorker, so a step that
\* leaves p there has only p's part to establish.
LEMMA ReadyFrame ==
  ASSUME GuardHeld', NEW p \in Procs, pc'[p] \notin {"off", "acquire"}, Ready(p)'
  PROVE  \A q \in Procs : Ready(q)'
<1> SUFFICES ASSUME NEW q \in Procs, q # p PROVE Ready(q)'
  OBVIOUS
<1>1. pc'[q] \in {"off", "acquire"}
  BY DEF GuardHeld
<1> QED
  BY <1>1 DEF Ready, Ranking

\* A step after which nobody is between the stored artifacts and the ranking
\* who was not there before.
LEMMA ReadyQuiet ==
  ASSUME RankingInv, UNCHANGED <<artifacts, official>>,
         \A q \in Procs : \/ pc'[q] \notin {"decide", "finish", "rank"}
                          \/ pc'[q] = pc[q] /\ job'[q] = job[q]
  PROVE  \A q \in Procs : Ready(q)'
BY DEF RankingInv, Ready, Ranking

LEMMA ReadyStep ==
  ASSUME SingleWorker, RankingInv, GuardHeld', [RankingNext]_allVars
  PROVE  \A q \in Procs : Ready(q)'
<1>t. Typed /\ SafeInv /\ GuardHeld
  BY DEF RankingInv, GuardedInv, SafeInv, Typed
<1>d. pc \in [Procs -> PC] /\ job \in [Procs -> Job]
  BY <1>t DEF Typed, TypeOK
<1>q. ASSUME UNCHANGED <<artifacts, official, pc, job>> PROVE \A q \in Procs : Ready(q)'
  BY <1>q, ReadyQuiet
<1>w. ASSUME NEW p \in Procs, NEW l, Goto(p, l), l \notin {"decide", "finish", "rank"},
             \A q \in Procs : q # p => job'[q] = job[q], UNCHANGED <<artifacts, official>>
      PROVE  \A q \in Procs : Ready(q)'
  <2>1. pc'[p] = l /\ \A q \in Procs : q # p => pc'[q] = pc[q]
    BY <1>d, <1>w DEF Goto
  <2> QED
    BY <1>w, <2>1, ReadyQuiet
<1>r. ASSUME NEW p \in Procs, Return(p), UNCHANGED <<artifacts, official>>
      PROVE  \A q \in Procs : Ready(q)'
  BY <1>d, <1>r, <1>w DEF Return
<1>1. ASSUME NEW p \in Procs, Serve(p) \/ AcquireWorker(p) \/ RecoverExpired(p) \/ AcquireGivesUp(p)
      PROVE  \A q \in Procs : Ready(q)'
  BY <1>1, <1>w DEF Serve, AcquireWorker, RecoverExpired, AcquireGivesUp, row
<1>2. ASSUME NEW p \in Procs, Claim(p) \/ Stop(p) PROVE \A q \in Procs : Ready(q)'
  <2>1. \A q \in Procs : q # p => job'[q] = job[q]
    BY <1>2, <1>d DEF Claim, Stop
  <2> QED
    BY <1>2, <1>w, <2>1 DEF Claim, Stop, row
<1>3. ASSUME NEW p \in Procs, ClaimNothing(p) \/ Rank(p) \/ StoreFails(p) PROVE \A q \in Procs : Ready(q)'
  BY <1>3, <1>r DEF ClaimNothing, Rank, StoreFails, row
<1>4. ASSUME NEW p \in Procs, MarkRunning(p) \/ MarkPersisting(p) \/ MarkFailed(p)
      PROVE  \A q \in Procs : Ready(q)'
  <2>1. UNCHANGED <<artifacts, official>>
    BY <1>4, OfficialKept
  <2>2. Return(p) \/ (UNCHANGED job /\ \E l \in {"execute", "persist"} : Goto(p, l))
    BY <1>4 DEF MarkRunning, MarkPersisting, MarkFailed, UpdateRefused
  <2> QED
    BY <1>r, <1>w, <2>1, <2>2
<1>5. ASSUME NEW p \in Procs, Execute(p) PROVE \A q \in Procs : Ready(q)'
  <2>1. \A q \in Procs : q # p => job'[q] = job[q]
    BY <1>5, <1>d DEF Execute
  <2> QED
    BY <1>5, <1>w, <2>1 DEF Execute, row
<1>6. ASSUME NEW p \in Procs, Persist(p) PROVE \A q \in Procs : Ready(q)'
  <2>1. CASE Goto(p, "decide") /\ job' = [job EXCEPT ![p] =
                 Carried(job[p], job[p].official, job[p].status, job[p].status)]
    <3>1. pc'[p] = "decide" /\ job'[p].terminal = job'[p].status
      BY <1>d, <2>1 DEF Goto, Carried
    <3>2. Ready(p)'
      BY <3>1 DEF Ready, Ranking
    <3> QED
      BY <3>1, <3>2, ReadyFrame
  <2>2. CASE Goto(p, "failing") /\ job' = job
    <3>1. pc'[p] = "failing"
      BY <1>d, <2>2 DEF Goto
    <3>2. Ready(p)'
      BY <3>1 DEF Ready, Ranking
    <3> QED
      BY <3>1, <3>2, ReadyFrame
  <2> QED
    BY <1>6, <2>1, <2>2 DEF Persist
<1>7. ASSUME NEW p \in Procs, DecideOfficial(p) PROVE \A q \in Procs : Ready(q)'
  <2>1. pc'[p] = "finish" /\ job[p].terminal = job[p].status /\ ~job[p].official
    BY <1>7, <1>d, <1>t DEF DecideOfficial, Goto, RankingInv, Ready, SafeInv, JobTracksPC, Knows
  <2>2. job'[p].official => job'[p].terminal \in Finished
    <3>1. CASE job' = job
      BY <2>1, <3>1
    <3>2. CASE job[p].status \in Finished /\ job' = [job EXCEPT ![p] =
                 Carried(job[p], ShouldAutoPromote(p), job[p].terminal, job[p].status)]
      BY <1>d, <2>1, <3>2 DEF Carried
    <3> QED
      BY <1>7, <3>1, <3>2 DEF DecideOfficial
  <2>3. Ready(p)'
    BY <2>1, <2>2 DEF Ready, Ranking
  <2> QED
    BY <2>1, <2>3, ReadyFrame
<1>8. ASSUME NEW p \in Procs, MarkCompleted(p) PROVE \A q \in Procs : Ready(q)'
  <2>1. CASE UpdateWith(p, "completed") /\ job[p].official /\ Goto(p, "rank")
             /\ UNCHANGED <<artifacts, guard, job, beat>>
    <3>1. job[p].terminal \in Finished /\ artifacts[job[p].run] = job[p].terminal
      BY <1>8, <2>1 DEF MarkCompleted, RankingInv, Ready, GuardedInv, InCharge
    <3>2. pc'[p] = "rank" /\ job' = job /\ artifacts' = artifacts /\ job[p].run \in official'
      BY <1>d, <2>1 DEF Goto, UpdateWith
    <3>3. Ready(p)'
      BY <2>1, <3>1, <3>2 DEF Ready, Ranking
    <3> QED
      BY <3>2, <3>3, ReadyFrame
  <2>2. CASE Return(p) /\ UNCHANGED <<artifacts, guard>> /\ official' = official
    BY <1>r, <2>2
  <2> QED
    BY <1>8, <2>1, <2>2, RankingEntered
<1>9. CASE \/ \E r \in Runs : \/ \E m \in Matches : Submit(r, m)
                              \/ \E parent \in Runs : Retry(r, parent) \/ Rerun(r, parent)
                              \/ Cancel(r)
           \/ GuardDrops
  BY <1>9, <1>q DEF Submit, Retry, Rerun, Cancel, Enqueue, Others, GuardDrops, row
<1>10. ASSUME NEW p \in Procs, Heartbeat(p) \/ HeartbeatFails(p) PROVE \A q \in Procs : Ready(q)'
  BY <1>10, <1>q DEF Heartbeat, HeartbeatFails, row
<1>11. CASE Tick
  <2>1. \A p \in Procs : /\ job'[p].run = job[p].run /\ job'[p].official = job[p].official
                         /\ job'[p].terminal = job[p].terminal /\ job'[p].status = job[p].status
    BY <1>11 DEF Tick
  <2> QED
    BY <1>11, <2>1 DEF Tick, RankingInv, Ready, Ranking
<1>12. ASSUME NEW p \in Servers, NEW r \in Runs, PromoteRun(p, r), SerialOperator
       PROVE  \A q \in Procs : Ready(q)'
  <2>1. \A q \in Procs : ~Ranking(q) /\ pc[q] # "finish"
    BY <1>12 DEF PromoteRun, Promote, Quiet, Ranking
  <2> QED
    BY <1>12, <2>1 DEF PromoteRun, Promote, Others, RankingInv, Ready, Ranking
<1>13. CASE QueueStep
  BY <1>1, <1>2, <1>3, <1>4, <1>5, <1>6, <1>7, <1>8, <1>9, <1>10, <1>11, <1>13 DEF QueueStep
<1>14. ASSUME NEW p \in Procs, ApplyRead(p) \/ ApplyWrite(p) \/ ApplyFails(p) \/ Exit(p)
       PROVE  \A q \in Procs : Ready(q)'
  BY <1>1, <1>2, <1>3, <1>14, <1>q DEF ApplyRead, ApplyWrite, ApplyFails, Exit, vars
<1>15. CASE UNCHANGED vars
  BY <1>15, <1>q DEF vars
<1>16. ASSUME NEW p \in Servers, RefreshList(p) \/ RefreshPut(p) \/ RefreshFails(p)
       PROVE  UNCHANGED vars
  BY <1>16 DEF RefreshList, RefreshPut, RefreshFails
<1> QED
  BY <1>12, <1>13, <1>14, <1>15, <1>16 DEF RankingNext, allVars, SingleWorker

\* A step of the queue leaves the official runs and those who rank as they are,
\* or completes an official run.
LEMMA QueueQuiet ==
  ASSUME RankingInv, QueueStep
  PROVE  \/ /\ official' = official
            /\ \A q \in Procs : /\ Ranking(q)' <=> Ranking(q)
                                /\ Ranking(q) => job'[q].run = job[q].run
         \/ \E p \in Procs : /\ MarkCompleted(p)
                             /\ SerialOperator => \A q \in Servers : ~Refreshing(q)
                             /\ UpdateWith(p, "completed") /\ job[p].official
                             /\ Goto(p, "rank") /\ UNCHANGED job
<1> DEFINE Same == /\ official' = official
                   /\ \A q \in Procs : /\ Ranking(q)' <=> Ranking(q)
                                       /\ Ranking(q) => job'[q].run = job[q].run
<1>d. pc \in [Procs -> PC] /\ job \in [Procs -> Job]
  BY DEF RankingInv, GuardedInv, SafeInv, TypeOK
<1>w. ASSUME NEW p \in Procs, NEW l, Goto(p, l), l # "rank", pc[p] # "rank",
             \A q \in Procs : q # p => job'[q] = job[q], UNCHANGED official
      PROVE  Same
  <2>1. pc'[p] = l /\ \A q \in Procs : q # p => pc'[q] = pc[q]
    BY <1>d, <1>w DEF Goto
  <2> QED
    BY <1>w, <2>1 DEF Ranking
<1>r. ASSUME NEW p \in Procs, Return(p), pc[p] # "rank", UNCHANGED official PROVE Same
  <2>1. \A q \in Procs : q # p => job'[q] = job[q]
    BY <1>d, <1>r DEF Return
  <2> QED
    BY <1>r, <1>w, <2>1 DEF Return
<1>q. ASSUME UNCHANGED <<official, pc, job>> PROVE Same
  BY <1>q DEF Ranking
<1>1. ASSUME NEW p \in Procs, Serve(p) \/ AcquireWorker(p) \/ RecoverExpired(p) PROVE Same
  BY <1>1, <1>w DEF Serve, AcquireWorker, RecoverExpired, row
<1>2. ASSUME NEW p \in Procs, Claim(p) \/ Execute(p) \/ Persist(p) \/ DecideOfficial(p) PROVE Same
  <2>1. \A q \in Procs : q # p => job'[q] = job[q]
    BY <1>2, <1>d DEF Claim, Execute, Persist, DecideOfficial
  <2>2. official' = official /\ pc[p] # "rank"
    BY <1>2 DEF Claim, Execute, Persist, DecideOfficial, row
  <2>3. \E l \in {"start", "saving", "failing", "decide", "finish"} : Goto(p, l)
    BY <1>2 DEF Claim, Execute, Persist, DecideOfficial
  <2> QED
    BY <1>w, <2>1, <2>2, <2>3
<1>3. ASSUME NEW p \in Procs, ClaimNothing(p) \/ StoreFails(p) PROVE Same
  BY <1>3, <1>r DEF ClaimNothing, StoreFails, row
<1>4. ASSUME NEW p \in Procs, MarkRunning(p) \/ MarkPersisting(p) \/ MarkFailed(p) PROVE Same
  <2>1. UNCHANGED official /\ pc[p] # "rank"
    BY <1>4, OfficialKept DEF MarkRunning, MarkPersisting, MarkFailed
  <2>2. Return(p) \/ (UNCHANGED job /\ \E l \in {"execute", "persist"} : Goto(p, l))
    BY <1>4 DEF MarkRunning, MarkPersisting, MarkFailed, UpdateRefused
  <2> QED
    BY <1>r, <1>w, <2>1, <2>2
<1>5. ASSUME NEW p \in Procs, MarkCompleted(p), SerialOperator => \A q \in Servers : refresh[q].phase = "idle"
      PROVE  \/ Same
             \/ /\ MarkCompleted(p)
                /\ SerialOperator => \A q \in Servers : ~Refreshing(q)
                /\ UpdateWith(p, "completed") /\ job[p].official
                /\ Goto(p, "rank") /\ UNCHANGED job
  BY <1>5, <1>r, RankingEntered DEF MarkCompleted, Refreshing
<1>6. CASE \/ \E r \in Runs : \/ \E m \in Matches : Submit(r, m)
                              \/ \E parent \in Runs : Retry(r, parent) \/ Rerun(r, parent)
                              \/ Cancel(r)
           \/ GuardDrops
  BY <1>6, <1>q DEF Submit, Retry, Rerun, Cancel, Enqueue, Others, GuardDrops, row
<1>7. ASSUME NEW p \in Procs, Heartbeat(p) \/ HeartbeatFails(p) PROVE Same
  BY <1>7, <1>q DEF Heartbeat, HeartbeatFails, row
<1>8. CASE Tick
  <2>1. \A p \in Procs : job'[p].run = job[p].run
    BY <1>8 DEF Tick
  <2> QED
    BY <1>8, <2>1 DEF Tick, Ranking
<1> QED
  BY <1>1, <1>2, <1>3, <1>4, <1>5, <1>6, <1>7, <1>8 DEF QueueStep

\* Only one process can be at the ranking, and then its run is the pending one.
LEMMA OnePending ==
  ASSUME GuardedInv
  PROVE  /\ \A p, q \in Procs : Ranking(p) /\ pc[q] \notin {"off", "acquire"} => p = q
         /\ \A p \in Procs : Ranking(p) => Pending = {job[p].run}
         /\ (\A p \in Procs : ~Ranking(p)) => Pending = {}
<1>1. \A p, q \in Procs : Ranking(p) /\ pc[q] \notin {"off", "acquire"} => p = q
  BY DEF GuardedInv, GuardHeld, Ranking
<1>2. \A p, q \in Procs : Ranking(p) /\ Ranking(q) => p = q
  BY <1>1 DEF Ranking
<1> QED
  BY <1>1, <1>2 DEF Pending

\* Where the ranking's own variables stay, soundness stays with them.
LEMMA WritersSound ==
  ASSUME RankingInv, [Next]_vars, UNCHANGED <<snapshot, refresh>>
  PROVE  SoundWriters'
<1>1. snapshot \subseteq Runs /\ \A p \in Servers : refresh[p].applied \subseteq Runs
  BY DEF RankingInv, RankingTyped
<1> QED
  BY <1>1, SoundStays DEF RankingInv, SoundWriters, Sound

LEMMA QueueRanked ==
  ASSUME SingleWorker, RankingInv, GuardedInv', QueueStep
  PROVE  RankingTyped' /\ OneWriter' /\ SoundWriters' /\ Counted'
<1>1. UNCHANGED <<snapshot, seen, refresh, behind>>
  BY DEF QueueStep, rankingVars
<1>2. RankingTyped'
  BY <1>1 DEF RankingInv, RankingTyped
<1>3. SoundWriters'
  BY <1>1, RankingIsQueue, WritersSound DEF RankingNext
<1>4. CASE /\ official' = official
           /\ \A q \in Procs : /\ Ranking(q)' <=> Ranking(q)
                               /\ Ranking(q) => job'[q].run = job[q].run
  <2>1. Pending' = Pending
    BY <1>4 DEF Pending
  <2> QED
    BY <1>1, <1>2, <1>3, <1>4, <2>1 DEF RankingInv, OneWriter, Refreshing, Counted
<1>5. ASSUME NEW p \in Procs, MarkCompleted(p), \A q \in Servers : ~Refreshing(q),
             UpdateWith(p, "completed"), Goto(p, "rank"), UNCHANGED job, job[p].official
      PROVE  OneWriter' /\ Counted'
  <2>1. job[p].run \in Runs /\ job[p].run \notin official /\ official' = official \cup {job[p].run}
    <3>1. job[p].run \in Runs /\ state[job[p].run] = "persisting"
      BY <1>5 DEF MarkCompleted, RankingInv, GuardedInv, SafeInv, JobHeld, Executing, Working, InCharge, InStep
    <3> QED
      BY <1>5, <3>1 DEF UpdateWith, RankingInv, GuardedInv, SafeInv, OfficialImpliesCompleted
  <2>2. pc'[p] = "rank" /\ pc[p] = "finish" /\ \A q \in Procs : q # p => pc'[q] = pc[q]
    BY <1>5 DEF MarkCompleted, Goto, RankingInv, GuardedInv, SafeInv, TypeOK
  <2>3. \A q \in Procs : ~Ranking(q)
    BY <2>2, OnePending DEF RankingInv, Ranking
  <2>4. Pending = {} /\ Pending' = {job[p].run}
    BY <1>5, <2>2, <2>3, OnePending DEF RankingInv, Ranking, Pending
  <2>5. OneWriter'
    BY <1>1, <1>5, <2>3 DEF RankingInv, OneWriter, Refreshing
  <2>6. Counted'
    BY <1>1, <1>5, <2>1, <2>4 DEF RankingInv, Counted, Refreshing
  <2> QED
    BY <2>5, <2>6
<1> QED
  BY <1>2, <1>3, <1>4, <1>5, QueueQuiet DEF SingleWorker

\* ApplyCompleted, when no handler is at work: from the official runs but the
\* pending one to all of them.
LEMMA ApplyRanked ==
  ASSUME RankingInv, NEW p \in Procs, ApplyRead(p) \/ ApplyWrite(p) \/ ApplyFails(p)
  PROVE  RankingTyped' /\ OneWriter' /\ SoundWriters' /\ Counted'
<1>1. /\ Ranking(p) /\ job[p].run \in Runs /\ state[job[p].run] = "completed"
      /\ artifacts[job[p].run] \in Finished /\ job[p].run \in official
  <2>1. Ranking(p)
    BY DEF ApplyRead, ApplyWrite, ApplyFails, Rank, Ranking
  <2> QED
    BY <2>1 DEF Ranking, RankingInv, Ready, GuardedInv, SafeInv, JobHeld, Executing, Working, InCharge, InStep
<1>2. \A q \in Servers : ~Refreshing(q)
  BY <1>1 DEF RankingInv, OneWriter
<1>3. Pending = {job[p].run} /\ \A q \in Procs : q # p => ~Ranking(q) /\ seen[q] = {}
  BY <1>1, OnePending DEF RankingInv, OneWriter, Ranking
<1>4. CASE ApplyRead(p)
  <2>1. UNCHANGED <<vars, snapshot, refresh, behind>> /\ seen' = [seen EXCEPT ![p] = {snapshot}]
    BY <1>4 DEF ApplyRead
  <2>2. UNCHANGED <<official, artifacts, state, pc, job>> /\ Pending' = Pending
    BY <2>1 DEF vars, Pending, Ranking
  <2>3. RankingTyped'
    BY <2>1 DEF RankingInv, RankingTyped
  <2>4. OneWriter'
    BY <1>1, <2>1, <2>2 DEF RankingInv, RankingTyped, OneWriter, Ranking, Refreshing
  <2>5. SoundWriters'
    BY <2>1, <2>2 DEF RankingInv, SoundWriters, Sound
  <2>6. Counted'
    BY <2>1, <2>2 DEF RankingInv, Counted, Refreshing
  <2> QED
    BY <2>3, <2>4, <2>5, <2>6
<1>5. CASE ApplyWrite(p) \/ ApplyFails(p)
  <2>1. /\ UNCHANGED <<official, artifacts, state, submission, refresh>>
        /\ seen' = [seen EXCEPT ![p] = {}] /\ Return(p)
    BY <1>5 DEF ApplyWrite, ApplyFails, Rank, row
  <2>2. pc'[p] # "rank" /\ \A q \in Procs : q # p => pc'[q] = pc[q]
    BY <2>1 DEF Return, Goto, RankingInv, GuardedInv, SafeInv, TypeOK
  <2>3. \A q \in Procs : ~Ranking(q)' /\ seen'[q] = {}
    BY <1>3, <2>1, <2>2 DEF Ranking, RankingInv, RankingTyped
  <2>4. Pending' = {}
    BY <2>3 DEF Pending
  <2>5. OneWriter'
    BY <1>2, <2>1, <2>3 DEF OneWriter, Refreshing
  <2>6. CASE ApplyFails(p)
    <3>1. snapshot' = snapshot /\ behind' = TRUE
      BY <2>6 DEF ApplyFails
    <3> QED
      BY <1>2, <2>1, <2>5, <3>1 DEF RankingInv, RankingTyped, SoundWriters, Sound, Counted, Refreshing
  <2>7. CASE ApplyWrite(p)
    <3>1. snapshot' = applyRankingUpdate(snapshot, job[p].run) /\ behind' = behind
      BY <2>7 DEF ApplyWrite, RankingInv, RankingTyped
    <3>2. snapshot' \subseteq snapshot \cup {job[p].run}
      BY <3>1 DEF applyRankingUpdate
    <3>3. RankingTyped'
      BY <1>1, <2>1, <2>3, <3>1, <3>2 DEF RankingInv, RankingTyped
    <3>4. SoundWriters'
      BY <1>1, <2>1, <3>2 DEF RankingInv, SoundWriters, Sound
    <3>5. ASSUME ~behind PROVE snapshot' = official
      <4>1. snapshot = official \ {job[p].run}
        BY <1>2, <1>3, <3>5 DEF RankingInv, Counted
      <4>2. \A q \in snapshot : Match(q) # Match(job[p].run)
        BY <1>1, <4>1 DEF RankingInv, GuardedInv, AtMostOneOfficial
      <4> QED
        BY <1>1, <3>1, <4>1, <4>2 DEF applyRankingUpdate
    <3>6. Counted'
      BY <1>2, <2>1, <2>4, <3>1, <3>5 DEF Counted, Refreshing
    <3> QED
      BY <2>5, <3>3, <3>4, <3>6
  <2> QED
    BY <1>5, <2>6, <2>7
<1> QED
  BY <1>4, <1>5

\* A process that ends leaves the ranking behind if it was at work on it.
LEMMA ExitRanked ==
  ASSUME RankingInv, NEW p \in Procs, Exit(p)
  PROVE  RankingTyped' /\ OneWriter' /\ SoundWriters' /\ Counted'
<1>1. /\ UNCHANGED <<official, artifacts, state, snapshot>>
      /\ seen' = [seen EXCEPT ![p] = {}]
      /\ refresh' = [q \in Servers |-> IF q = p THEN Idle ELSE refresh[q]]
      /\ behind' = (behind \/ ~Quiet(p))
  BY DEF Exit, Stop, AcquireGivesUp, row
<1>2. /\ pc'[p] = "off" /\ \A q \in Procs : q # p => pc'[q] = pc[q]
      /\ \A q \in Procs : q # p => job'[q] = job[q]
  BY DEF Exit, Stop, AcquireGivesUp, Goto, RankingInv, GuardedInv, SafeInv, TypeOK
<1>3. \A q \in Procs : Ranking(q)' => q # p /\ Ranking(q)
  BY <1>2 DEF Ranking
<1>4. \A q \in Servers : (refresh'[q] = refresh[q] /\ q # p) \/ refresh'[q] = Idle
  BY <1>1
<1>5. RankingTyped'
  BY <1>1, <1>4 DEF RankingInv, RankingTyped, Idle, Quiet
<1>6. OneWriter'
  <2>1. \A q \in Servers : Refreshing(q)' => q # p /\ Refreshing(q)
    BY <1>4 DEF Refreshing, Idle
  <2>2. \A q \in Procs : seen'[q] # {} => q # p /\ seen[q] # {}
    BY <1>1 DEF RankingInv, RankingTyped
  <2>3. \A q \in Procs : q # p /\ Ranking(q) => Ranking(q)'
    BY <1>2 DEF Ranking
  <2> QED
    BY <1>3, <2>1, <2>2, <2>3 DEF RankingInv, OneWriter
<1>7. SoundWriters'
  BY <1>1, <1>4 DEF RankingInv, SoundWriters, Sound, Idle
<1>8. Counted'
  <2>1. ASSUME Quiet(p), \A q \in Servers : ~Refreshing(q)', ~behind
        PROVE  snapshot = official \ Pending'
    <3>1. \A q \in Servers : ~Refreshing(q)
      BY <1>1, <2>1 DEF Quiet, Refreshing
    <3>2. \A q \in Procs : (Ranking(q)' <=> Ranking(q)) /\ (Ranking(q) => job'[q] = job[q])
      BY <1>2, <2>1 DEF Quiet, Ranking
    <3>3. Pending' = Pending
      BY <3>2 DEF Pending
    <3> QED
      BY <2>1, <3>1, <3>3 DEF RankingInv, Counted
  <2> QED
    BY <1>1, <1>4, <2>1 DEF RankingInv, Counted, Idle
<1> QED
  BY <1>5, <1>6, <1>7, <1>8

\* A promotion begins when nobody is at work on the ranking, and from then on
\* the official runs stay until the handler has written.
LEMMA PromoteRanked ==
  ASSUME SingleWorker, RankingInv, NEW p \in Servers, NEW r \in Runs, PromoteRun(p, r)
  PROVE  RankingTyped' /\ OneWriter' /\ SoundWriters' /\ Counted'
<1>1. /\ \A q \in Procs : ~Ranking(q) /\ (q \in Servers => ~Refreshing(q))
      /\ UNCHANGED <<snapshot, seen, behind, state, artifacts, pc, job>>
      /\ refresh' = [refresh EXCEPT ![p] = [phase |-> "list", run |-> r, applied |-> {}]]
  BY DEF PromoteRun, Promote, Others, SingleWorker, Quiet, Ranking, Refreshing
<1>2. /\ refresh'[p] = [phase |-> "list", run |-> r, applied |-> {}]
      /\ \A q \in Servers : q # p => refresh'[q] = refresh[q]
  BY <1>1 DEF RankingInv, RankingTyped
<1>3. RankingTyped'
  BY <1>1 DEF RankingInv, RankingTyped
<1>4. OneWriter'
  BY <1>1, <1>2 DEF RankingInv, OneWriter, Ranking, Refreshing, Procs
<1>5. SoundWriters'
  BY <1>1, <1>2 DEF RankingInv, SoundWriters, Sound
<1>6. Counted'
  BY <1>1, <1>2 DEF Counted, Refreshing, Procs
<1> QED
  BY <1>3, <1>4, <1>5, <1>6

\* What Recompute applies are the official runs, if each has a whole result.
LEMMA RecomputeIsOfficial ==
  ASSUME GuardedInv, ~RecomputeFails
  PROVE  Recompute = official /\ Sound(official)
<1>1. Eligible = official
  BY DEF GuardedInv, SafeInv, OfficialImpliesCompleted, CompletedHasArtifacts, TypeOK, Eligible
<1>2. Sound(official)
  BY <1>1 DEF RecomputeFails, Sound, GuardedInv, SafeInv, OfficialImpliesCompleted
<1>3. \A r, q \in official : Match(q) = Match(r) => r <= q
  BY RunsAreNumbers DEF GuardedInv, SafeInv, TypeOK, AtMostOneOfficial
<1> QED
  BY <1>1, <1>2, <1>3 DEF Recompute

LEMMA RefreshRanked ==
  ASSUME RankingInv, NEW p \in Servers, RefreshList(p) \/ RefreshPut(p) \/ RefreshFails(p)
  PROVE  RankingTyped' /\ OneWriter' /\ SoundWriters' /\ Counted'
<1>1. UNCHANGED <<official, artifacts, state, pc, job, seen>> /\ Refreshing(p)
  BY DEF RefreshList, RefreshPut, RefreshFails, vars, Refreshing
<1>2. /\ \A q \in Procs : ~Ranking(q) /\ seen[q] = {}
      /\ \A q \in Servers : q # p => ~Refreshing(q)
      /\ Pending' = {} /\ \A q \in Procs : ~Ranking(q)'
  BY <1>1 DEF RankingInv, OneWriter, Pending, Ranking
<1>3. CASE RefreshList(p) /\ ~RecomputeFails
  <2>1. /\ refresh' = [refresh EXCEPT ![p] = [phase |-> "put", run |-> refresh[p].run, applied |-> official]]
        /\ UNCHANGED <<snapshot, behind>> /\ Sound(official)
    <3>1. ~RecomputeFails /\ Recompute = official /\ Sound(official)
      BY <1>3, RecomputeIsOfficial DEF RankingInv
    <3>2. refresh' = [refresh EXCEPT ![p] = [phase |-> "put", run |-> refresh[p].run, applied |-> Recompute]]
      BY <1>3, <3>1 DEF RefreshList
    <3>3. behind' = behind /\ snapshot' = snapshot
      BY <1>3 DEF RefreshList, RankingInv, RankingTyped
    <3> QED
      BY <3>1, <3>2, <3>3
  <2>2. /\ refresh'[p] = [phase |-> "put", run |-> refresh[p].run, applied |-> official]
        /\ \A q \in Servers : q # p => refresh'[q] = refresh[q]
    BY <2>1 DEF RankingInv, RankingTyped
  <2>3. RankingTyped'
    BY <1>1, <2>1 DEF RankingInv, RankingTyped, GuardedInv, SafeInv, TypeOK
  <2>4. OneWriter'
    BY <1>1, <1>2, <2>2 DEF OneWriter, Refreshing
  <2>5. SoundWriters'
    BY <1>1, <2>1, <2>2 DEF RankingInv, SoundWriters, Sound
  <2>6. Counted'
    BY <1>1, <1>2, <2>2 DEF RankingInv, Counted, Refreshing
  <2> QED
    BY <2>3, <2>4, <2>5, <2>6
<1>4. CASE RefreshPut(p) \/ RefreshFails(p) \/ (RefreshList(p) /\ RecomputeFails)
  <2>1. /\ refresh' = [refresh EXCEPT ![p] = Idle]
        /\ \/ snapshot' = refresh[p].applied /\ refresh[p].phase = "put" /\ behind' = FALSE
           \/ snapshot' = snapshot /\ behind' = TRUE
    BY <1>4 DEF RefreshPut, RefreshFails, RefreshList
  <2>2. refresh'[p] = Idle /\ \A q \in Servers : q # p => refresh'[q] = refresh[q]
    BY <2>1 DEF RankingInv, RankingTyped
  <2>3. \A q \in Servers : refresh'[q].phase = "idle"
    BY <1>2, <2>2 DEF Refreshing, Idle
  <2>4. RankingTyped'
    <3>1. seen' \in [Procs -> SUBSET {snapshot'}]
      BY <1>1, <1>2 DEF RankingInv, RankingTyped
    <3>2. snapshot' \subseteq Runs /\ behind' \in BOOLEAN
      BY <2>1 DEF RankingInv, RankingTyped
    <3> QED
      BY <2>1, <3>1, <3>2 DEF RankingInv, RankingTyped, Idle
  <2>5. OneWriter'
    BY <1>1, <1>2, <2>3 DEF OneWriter, Refreshing
  <2>6. SoundWriters'
    BY <1>1, <2>1, <2>2 DEF RankingInv, SoundWriters, Sound, Idle
  <2>7. Counted'
    BY <1>1, <1>2, <2>1, <2>3 DEF RankingInv, Counted
  <2> QED
    BY <2>4, <2>5, <2>6, <2>7
<1> QED
  BY <1>3, <1>4

LEMMA RankingStep ==
  ASSUME SingleWorker, RankingInv, [RankingNext]_allVars
  PROVE  RankingInv'
<1>1. GuardedInv' /\ GuardHeld'
  BY RankingIsQueue, GuardedStep DEF RankingInv, GuardedInv
<1>2. \A q \in Procs : Ready(q)'
  BY <1>1, ReadyStep
<1>3. ASSUME UNCHANGED allVars PROVE RankingTyped' /\ OneWriter' /\ SoundWriters' /\ Counted'
  <2>1. UNCHANGED <<snapshot, seen, refresh, behind, official, artifacts, state, pc, job>>
    BY <1>3 DEF allVars, vars, rankingVars
  <2> QED
    BY <2>1 DEF RankingInv, RankingTyped, OneWriter, SoundWriters, Sound, Counted, Pending,
                Ranking, Refreshing
<1>4. RankingTyped' /\ OneWriter' /\ SoundWriters' /\ Counted'
  BY <1>1, <1>3, QueueRanked, ApplyRanked, ExitRanked, PromoteRanked, RefreshRanked DEF RankingNext
<1> QED
  BY <1>1, <1>2, <1>4 DEF RankingInv

THEOREM RankingInvariant == ASSUME SingleWorker PROVE RankingSpec => []RankingInv
<1>1. RankingInv /\ [RankingNext]_allVars => RankingInv'
  BY RankingStep
<1> QED
  BY <1>1, RankingStart, PTL DEF RankingSpec

\* When nothing is in progress the ranking counts exactly the official runs,
\* unless a write was lost; and the next promotion that rebuilds it brings back
\* whatever was lost before, although worker and handlers hold no lock between
\* their reads and their writes.
THEOREM RankingCountsOfficial == ASSUME SingleWorker PROVE RankingSpec => []RankingHoldsOfficial
<1>1. RankingInv => RankingHoldsOfficial
  <2> SUFFICES ASSUME RankingInv, \A p \in Procs : Quiet(p), ~behind PROVE snapshot = official
    BY DEF RankingHoldsOfficial
  <2>1. (\A p \in Procs : ~Ranking(p)) /\ (\A p \in Servers : ~Refreshing(p))
    BY DEF Quiet, Ranking, Refreshing, Procs
  <2>2. Pending = {}
    BY <2>1 DEF Pending
  <2> QED
    BY <2>1, <2>2 DEF RankingInv, Counted
<1> QED
  BY <1>1, RankingInvariant, PTL

\* No ranked run is ever without the completed result it was ranked for, even
\* when rankings were lost or are behind.
THEOREM RankedRunsStayEligible == ASSUME SingleWorker PROVE RankingSpec => []RankedRunsEligible
<1>1. RankingInv => RankedRunsEligible
  BY DEF RankingInv, SoundWriters, Sound, RankedRunsEligible
<1> QED
  BY <1>1, RankingInvariant, PTL

-----------------------------------------------------------------------------
(***************************************************************************)
(* Spectators.  What a request was told of a run at its first read, the    *)
(* run never takes back, so the second read agrees with it; and the replay *)
(* that a completed run's record describes is in its file, because the one *)
(* process that works wrote both.                                          *)
(***************************************************************************)

HasOfficial(m) == \E q \in official : Match(q) = m

Asked == viewer.phase \in {"selected", "state", "replay"}

\* The facts of the first read.
Told ==
  /\ viewer.run \in Runs /\ state[viewer.run] # "absent"
  /\ viewer.chosen => HasOfficial(Match(viewer.run))
  /\ viewer.phase = "selected" =>
       /\ viewer.terminal => state[viewer.run] \in Terminal
       /\ viewer.completed => /\ state[viewer.run] = "completed"
                              /\ viewer.described = Described(viewer.run)
       /\ viewer.described # "unavailable" => viewer.completed

\* What the second adds to them.
Answered ==
  /\ viewer.phase = "state" =>
       state[viewer.run] \in Terminal /\ published[viewer.run] = viewer.version
  /\ viewer.phase = "replay" =>
       /\ state[viewer.run] = "completed"
       /\ viewer.failed \/ viewer.replay = Described(viewer.run)

\* The replay that is, or is about to be, described in a record is in its file.
Holds(r, x) == x \in Replays => replayFile[r] = x

ReplaysWhole ==
  /\ replayFile = [r \in Runs |-> replayFile[r]]
  /\ \A p \in Procs : pc[p] \in {"decide", "finish"} => Holds(job[p].run, job[p].terminal)
  /\ \A r \in Runs : state[r] = "completed" => Holds(r, terminal[r])

PublicInv == GuardedInv /\ ReplaysWhole /\ (Asked => Told /\ Answered)

\* Only a promotion takes the flag of an official run away.
LEMMA OfficialGrows ==
  ASSUME GuardedInv, [Next]_vars, \A r \in Runs : ~Promote(r)
  PROVE  official \subseteq official'
<1>1. ASSUME NEW p \in Procs, MarkRunning(p) \/ MarkPersisting(p) \/ MarkFailed(p) \/ MarkCompleted(p)
      PROVE  official \subseteq official'
  <2>1. job[p].run \notin official
    BY <1>1, UpdatesInFlight DEF MarkRunning, MarkPersisting, MarkFailed, MarkCompleted, InFlight,
                                 GuardedInv, SafeInv, OfficialImpliesCompleted
  <2> QED
    BY <1>1, <2>1 DEF MarkRunning, MarkPersisting, MarkFailed, MarkCompleted, UpdateWith, UpdateRefused, row
<1>2. ASSUME NEW p \in Procs, \/ Serve(p) \/ AcquireWorker(p) \/ RecoverExpired(p) \/ Claim(p)
                              \/ ClaimNothing(p) \/ Execute(p) \/ Persist(p) \/ DecideOfficial(p)
                              \/ Rank(p) \/ Fault(p) \/ Heartbeat(p)
      PROVE  UNCHANGED official
  BY <1>2 DEF Serve, AcquireWorker, RecoverExpired, Claim, ClaimNothing, Execute, Persist,
              DecideOfficial, Rank, Fault, AcquireGivesUp, HeartbeatFails, StoreFails, Stop,
              Heartbeat, row
<1>3. ASSUME NEW r \in Runs, \/ \E m \in Matches : Submit(r, m)
                             \/ \E parent \in Runs : Retry(r, parent) \/ Rerun(r, parent)
                             \/ Cancel(r)
      PROVE  UNCHANGED official
  BY <1>3 DEF Submit, Retry, Rerun, Cancel, Enqueue
<1>4. ASSUME NEW p \in Procs, NEW r \in Runs, NEW m \in Matches, RunOnce(p, r, m) PROVE UNCHANGED official
  BY <1>4 DEF RunOnce, Enqueue
<1>5. CASE Tick \/ GuardDrops \/ UNCHANGED vars
  BY <1>5 DEF Tick, GuardDrops, vars, row
<1> QED
  BY <1>1, <1>2, <1>3, <1>4, <1>5 DEF Next, Operator, Step

\* A match that has an official run has one ever after.
LEMMA OfficialStays ==
  ASSUME GuardedInv, [Next]_vars, NEW m, HasOfficial(m)
  PROVE  \E q \in official' : Match(q)' = m
<1>1. PICK q \in official : Match(q) = m
  BY DEF HasOfficial
<1>2. q \in Runs /\ state[q] = "completed" /\ Typed
  BY <1>1 DEF GuardedInv, SafeInv, Typed, TypeOK, OfficialImpliesCompleted
<1>3. Match(q)' = m
  BY <1>1, <1>2, EndedStays
<1>4. ASSUME NEW r \in Runs, Promote(r) PROVE \E o \in official' : Match(o)' = m
  <2>1. submission' = submission /\ official' = {o \in official : Match(o) # Match(r)} \cup {r}
    BY <1>4 DEF Promote
  <2>2. Match(r)' = Match(r)
    BY <2>1 DEF Match
  <2>3. CASE Match(r) = m
    BY <2>1, <2>2, <2>3
  <2>4. CASE Match(r) # m
    BY <1>1, <1>3, <2>1, <2>4
  <2> QED
    BY <2>3, <2>4
<1> QED
  BY <1>1, <1>3, <1>4, OfficialGrows

\* Of the runs a selection may take, one is the last.
LEMMA LastOne ==
  ASSUME NEW S \in SUBSET Runs, S # {}
  PROVE  (CHOOSE r \in S : \A q \in S : q <= r) \in S
<1> DEFINE ahead(r) == MaxRuns - r
           gaps == {ahead(r) : r \in S}
           less == {p \in Nat \X Nat : p[1] < p[2]}
<1>1. IsWellFoundedOn(less, Nat)
  BY NatLessThanWellFounded DEF OpToRel
<1>2. gaps \subseteq Nat /\ gaps # {} /\ \A r \in S : r \in Nat /\ r <= MaxRuns
  <2>1. \A r \in S : r \in Nat /\ r <= MaxRuns /\ ahead(r) \in Nat
    BY RunBound DEF Runs
  <2> QED
    BY <2>1
<1>3. PICK g \in gaps : \A h \in gaps : ~(<<h, g>> \in less)
  <2> HIDE DEF gaps, less
  <2> QED
    BY <1>1, <1>2, WFMin
<1>4. PICK r \in S : g = ahead(r)
  BY <1>3
<1>5. \A q \in S : q <= r
  <2> SUFFICES ASSUME NEW q \in S PROVE q <= r
    OBVIOUS
  <2>1. ~(<<ahead(q), g>> \in less) /\ ahead(q) \in Nat /\ g \in Nat
    BY <1>2, <1>3
  <2>2. ~(ahead(q) < g)
    BY <2>1
  <2> QED
    BY <1>2, <1>4, <2>1, <2>2, RunBound
<1> QED
  BY <1>5

\* A match with an official run selects one; a discoverable match selects a
\* run of it.
LEMMA SelectedRun ==
  ASSUME SafeInv, NEW m \in Matches \cup {None}
  PROVE  /\ HasOfficial(m) => Chosen(Selected(m))
         /\ Discoverable(m) # {} =>
              Selected(m) \in Runs /\ state[Selected(m)] # "absent" /\ Match(Selected(m)) = m
<1> DEFINE chosen == {r \in Discoverable(m) : Chosen(r)}
           S == IF chosen # {} THEN chosen ELSE Discoverable(m)
<1>1. Selected(m) = CHOOSE r \in S : \A q \in S : q <= r
  BY DEF Selected
<1>2. S \in SUBSET Runs /\ S \subseteq Discoverable(m)
  BY DEF Discoverable
<1>3. S # {} => Selected(m) \in S
  <2> HIDE DEF S
  <2> QED
    BY <1>1, <1>2, LastOne
<1>4. ASSUME HasOfficial(m) PROVE chosen # {}
  <2>1. PICK q \in official : Match(q) = m
    BY <1>4 DEF HasOfficial
  <2>2. q \in Runs /\ state[q] = "completed"
    BY <2>1 DEF SafeInv, TypeOK, OfficialImpliesCompleted
  <2> QED
    BY <2>1, <2>2 DEF Discoverable, Chosen, Terminal
<1>5. HasOfficial(m) => Chosen(Selected(m))
  BY <1>3, <1>4
<1>6. Discoverable(m) # {} => Selected(m) \in Discoverable(m)
  BY <1>2, <1>3
<1> QED
  BY <1>5, <1>6 DEF Discoverable, Terminal

LEMMA PublicStart == PublicInit => PublicInv
<1> SUFFICES ASSUME PublicInit PROVE PublicInv
  OBVIOUS
<1>1. GuardedInv /\ ~Asked
  BY GuardedInit DEF PublicInit, NotAsking, Asked
<1>2. ReplaysWhole
  BY DEF PublicInit, Init, ReplaysWhole
<1> QED
  BY <1>1, <1>2 DEF PublicInv

\* What a process carries past Persist it carries unchanged to its Update.
LEMMA CarriedOn ==
  ASSUME Typed, [Next]_vars, NEW p \in Procs, pc'[p] \in {"decide", "finish"}, ~Persisted(p)
  PROVE  /\ pc[p] \in {"decide", "finish"}
         /\ job'[p].run = job[p].run /\ job'[p].terminal = job[p].terminal
<1> DEFINE Same == /\ pc[p] \in {"decide", "finish"}
                   /\ job'[p].run = job[p].run /\ job'[p].terminal = job[p].terminal
<1>t. pc \in [Procs -> PC] /\ job \in [Procs -> Job]
  BY DEF Typed, TypeOK
<1>1. ASSUME NEW q \in Procs, NEW l, Goto(q, l), l \notin {"decide", "finish"},
             \A o \in Procs : o # q => job'[o] = job[o]
      PROVE  Same
  BY <1>t, <1>1 DEF Goto
<1>2. ASSUME UNCHANGED <<pc, job>> PROVE Same
  BY <1>2
<1>3. ASSUME NEW q \in Procs, Return(q) PROVE Same
  <2>1. \A o \in Procs : o # q => job'[o] = job[o]
    BY <1>t, <1>3 DEF Return
  <2>2. CASE q \in Clis
    BY <1>1, <1>3, <2>1, <2>2 DEF Return
  <2>3. CASE q \notin Clis
    BY <1>1, <1>3, <2>1, <2>3 DEF Return
  <2> QED
    BY <2>2, <2>3
<1>4. ASSUME NEW q \in Procs, NEW l, l \notin {"decide", "finish"}, Goto(q, l), UNCHANGED job PROVE Same
  BY <1>1, <1>4
<1>5. ASSUME NEW q \in Procs, Serve(q) \/ AcquireWorker(q) \/ RecoverExpired(q) \/ AcquireGivesUp(q)
      PROVE  Same
  BY <1>4, <1>5 DEF Serve, AcquireWorker, RecoverExpired, AcquireGivesUp
<1>6. ASSUME NEW q \in Procs, Claim(q) PROVE Same
  <2>1. Goto(q, "start") /\ \A o \in Procs : o # q => job'[o] = job[o]
    BY <1>t, <1>6 DEF Claim
  <2> QED
    BY <1>1, <2>1
<1>7. ASSUME NEW q \in Procs, ClaimNothing(q) \/ Rank(q) \/ StoreFails(q) \/ MarkFailed(q) PROVE Same
  BY <1>3, <1>7 DEF ClaimNothing, Rank, StoreFails, MarkFailed, UpdateRefused
<1>8. ASSUME NEW q \in Procs, MarkRunning(q) PROVE Same
  BY <1>3, <1>4, <1>8 DEF MarkRunning, UpdateRefused
<1>9. ASSUME NEW q \in Procs, MarkPersisting(q) PROVE Same
  BY <1>3, <1>4, <1>9 DEF MarkPersisting, UpdateRefused
<1>10. ASSUME NEW q \in Procs, MarkCompleted(q) PROVE Same
  BY <1>3, <1>4, <1>10 DEF MarkCompleted, UpdateRefused
<1>11. ASSUME NEW q \in Procs, Execute(q) PROVE Same
  <2>1. \A o \in Procs : o # q => job'[o] = job[o]
    BY <1>t, <1>11 DEF Execute
  <2> QED
    BY <1>1, <1>11, <2>1 DEF Execute
<1>12. ASSUME NEW q \in Procs, Persist(q) PROVE Same
  <2>1. /\ pc[q] = "persist"
        /\ \A o \in Procs : o # q => job'[o] = job[o] /\ pc'[o] = pc[o]
        /\ pc'[q] \in {"decide", "failing"}
    BY <1>t, <1>12 DEF Persist, Goto
  <2>2. q # p
    BY <2>1 DEF Persisted
  <2> QED
    BY <2>1, <2>2
<1>13. ASSUME NEW q \in Procs, DecideOfficial(q) PROVE Same
  <2>1. /\ pc[q] = "decide"
        /\ \A o \in Procs : o # q => job'[o] = job[o] /\ pc'[o] = pc[o]
        /\ job'[q].run = job[q].run /\ job'[q].terminal = job[q].terminal
    BY <1>t, <1>13 DEF DecideOfficial, Goto, Carried
  <2> QED
    BY <2>1
<1>14. ASSUME NEW q \in Procs, Heartbeat(q) \/ HeartbeatFails(q) PROVE Same
  BY <1>2, <1>14 DEF Heartbeat, HeartbeatFails
<1>15. ASSUME NEW q \in Procs, Stop(q) PROVE Same
  <2>1. Goto(q, "off") /\ \A o \in Procs : o # q => job'[o] = job[o]
    BY <1>t, <1>15 DEF Stop
  <2> QED
    BY <1>1, <2>1
<1>16. CASE Operator
  BY <1>2, <1>16 DEF Operator, Submit, Retry, Rerun, Cancel, Promote, Others
<1>17. ASSUME NEW q \in Procs, NEW r \in Runs, NEW m \in Matches, RunOnce(q, r, m) PROVE Same
  BY <1>4, <1>17 DEF RunOnce
<1>18. CASE Tick
  BY <1>18 DEF Tick
<1>19. CASE GuardDrops \/ UNCHANGED vars
  BY <1>2, <1>19 DEF GuardDrops, vars
<1> QED
  BY <1>5, <1>6, <1>7, <1>8, <1>9, <1>10, <1>11, <1>12, <1>13, <1>14, <1>15, <1>16, <1>17, <1>18, <1>19
     DEF Next, Step, Fault

\* Only Persist leaves its own program point for the next one.
LEMMA PersistOnly ==
  ASSUME Typed, Next, NEW p \in Procs, pc[p] = "persist", pc'[p] = "decide"
  PROVE  Persist(p)
<1>t. pc \in [Procs -> PC]
  BY DEF Typed, TypeOK
<1>1. ASSUME NEW q \in Procs, NEW l, Goto(q, l) PROVE q = p /\ l = "decide"
  BY <1>t, <1>1 DEF Goto
<1>2. ASSUME NEW q \in Procs, Return(q) PROVE FALSE
  BY <1>1, <1>2 DEF Return
<1>3. pc' # pc
  OBVIOUS
<1>4. ~Operator /\ ~Tick /\ ~GuardDrops
  BY <1>3 DEF Operator, Submit, Retry, Rerun, Cancel, Promote, Others, Tick, GuardDrops
<1>5. ASSUME NEW q \in Procs, \/ Serve(q) \/ AcquireWorker(q) \/ RecoverExpired(q) \/ Claim(q)
                              \/ Execute(q) \/ DecideOfficial(q) \/ AcquireGivesUp(q) \/ Stop(q)
                              \/ \E r \in Runs, m \in Matches : RunOnce(q, r, m)
      PROVE  FALSE
  BY <1>1, <1>5 DEF Serve, AcquireWorker, RecoverExpired, Claim, Execute, DecideOfficial, AcquireGivesUp,
                    Stop, RunOnce
<1>6. ASSUME NEW q \in Procs, \/ ClaimNothing(q) \/ MarkRunning(q) \/ MarkPersisting(q) \/ MarkFailed(q)
                              \/ MarkCompleted(q) \/ Rank(q) \/ StoreFails(q)
      PROVE  FALSE
  BY <1>1, <1>2, <1>6 DEF ClaimNothing, MarkRunning, MarkPersisting, MarkFailed, MarkCompleted, Rank,
                          StoreFails, UpdateRefused
<1>7. ASSUME NEW q \in Procs, Heartbeat(q) \/ HeartbeatFails(q) PROVE FALSE
  BY <1>3, <1>7 DEF Heartbeat, HeartbeatFails
<1>8. ASSUME NEW q \in Procs, Persist(q) PROVE q = p
  BY <1>1, <1>8 DEF Persist
<1> QED
  BY <1>4, <1>5, <1>6, <1>7, <1>8 DEF Next, Step, Fault

\* No file is written but that of the run whose worker leaves Persist.
LEMMA OtherFilesKept ==
  ASSUME ReplaysWhole, QueueMoves, NEW r \in Runs, \A p \in Procs : Persisted(p) => job[p].run # r
  PROVE  replayFile'[r] = replayFile[r]
BY DEF ReplaysWhole, QueueMoves, WriteReplay, NoReplayWritten

\* A step of the queue leaves every described replay in its file.
LEMMA ReplaysStep ==
  ASSUME SingleWorker, GuardedInv, ReplaysWhole, QueueMoves
  PROVE  ReplaysWhole'
<1>1. Next /\ Typed /\ GuardedInv' /\ GuardHeld /\ GuardHeld'
  BY GuardedStep DEF QueueMoves, GuardedInv, SafeInv, Typed
<1>2. replayFile' = [r \in Runs |-> replayFile'[r]]
  <2>1. CASE NoReplayWritten
    BY <2>1 DEF NoReplayWritten, ReplaysWhole
  <2>2. ASSUME NEW p \in Procs, NEW content, replayFile' = [replayFile EXCEPT ![job[p].run] = content]
        PROVE  replayFile' = [r \in Runs |-> replayFile'[r]]
    <3>1. DOMAIN replayFile = Runs
      BY DEF ReplaysWhole
    <3> QED
      BY <2>2, <3>1
  <2> QED
    BY <2>1, <2>2 DEF QueueMoves, WriteReplay
<1>3. ASSUME NEW p \in Procs, Persisted(p)
      PROVE  /\ job[p].run \in Runs /\ state[job[p].run] = "persisting"
             /\ \A q \in Procs : q # p => pc[q] \in {"off", "acquire"}
  <2>1. pc[p] = "persist"
    BY <1>3 DEF Persisted
  <2> QED
    BY <1>1, <2>1 DEF GuardedInv, SafeInv, JobHeld, Executing, Working, InCharge, InStep, GuardHeld
<1>4. ASSUME NEW p \in Procs, pc'[p] \in {"decide", "finish"} PROVE Holds(job[p].run, job[p].terminal)'
  <2>1. CASE Persisted(p)
    <3>1. \A q \in Procs : Persisted(q) => q = p
      BY <1>3, <2>1 DEF Persisted
    <3>2. WriteReplay(p) /\ pc[p] = "persist"
      BY <2>1, <3>1 DEF QueueMoves, NoReplayWritten, WriteReplay, Persisted
    <3>3. pc'[p] = "decide"
      BY <1>4, <2>1 DEF Persisted
    <3>4. Persist(p)
      BY <1>1, <3>2, <3>3, PersistOnly
    <3>5. job'[p].run = job[p].run /\ job'[p].terminal = job[p].status
      BY <1>1, <3>3, <3>4 DEF Persist, Carried, Goto, Typed, TypeOK
    <3>6. job[p].status \in Replays => replayFile' = [replayFile EXCEPT ![job[p].run] = job[p].status]
      BY <3>2, <3>3 DEF WriteReplay, ContentsAfter
    <3>7. DOMAIN replayFile = Runs /\ job[p].run \in Runs
      BY <1>3, <2>1 DEF ReplaysWhole
    <3> QED
      BY <3>5, <3>6, <3>7 DEF Holds
  <2>2. CASE ~Persisted(p)
    <3>1. /\ pc[p] \in {"decide", "finish"}
          /\ job'[p].run = job[p].run /\ job'[p].terminal = job[p].terminal
      BY <1>1, <1>4, <2>2, CarriedOn
    <3>2. \A q \in Procs : ~Persisted(q)
      BY <1>3, <2>2, <3>1
    <3>3. replayFile' = replayFile
      BY <3>2 DEF QueueMoves, WriteReplay, NoReplayWritten
    <3> QED
      BY <3>1, <3>3 DEF ReplaysWhole, Holds
  <2> QED
    BY <2>1, <2>2
<1>5. ASSUME NEW r \in Runs, state'[r] = "completed" PROVE Holds(r, terminal[r])'
  <2>1. CASE state[r] = "completed"
    <3>1. terminal'[r] = terminal[r]
      BY <1>1, <2>1, FrozenStep
    <3>2. replayFile'[r] = replayFile[r]
      BY <1>3, <2>1, OtherFilesKept
    <3> QED
      BY <2>1, <3>1, <3>2 DEF ReplaysWhole, Holds
  <2>2. CASE state[r] # "completed"
    <3>1. PICK p \in Procs : pc[p] = "finish" /\ job[p].run = r /\ UpdateWith(p, "completed")
      BY <1>1, <1>5, <2>2, NewlyCompleted
    <3>2. terminal'[r] = job[p].terminal
      BY <1>1, <3>1 DEF UpdateWith, Typed, TypeOK
    <3>3. \A q \in Procs : ~Persisted(q)
      BY <1>3, <3>1 DEF Persisted
    <3>4. replayFile'[r] = replayFile[r]
      BY <3>3, OtherFilesKept
    <3> QED
      BY <3>1, <3>2, <3>4 DEF ReplaysWhole, Holds
  <2> QED
    BY <2>1, <2>2
<1> QED
  BY <1>2, <1>4, <1>5 DEF ReplaysWhole

\* While the queue moves, what a request was told stays true.
LEMMA ToldStays ==
  ASSUME GuardedInv, Asked, Told, Answered, [Next]_vars, UNCHANGED viewer
  PROVE  Told' /\ (published' = published => Answered')
<1> DEFINE r == viewer.run
<1>1. Typed /\ r \in Runs /\ state[r] # "absent"
  BY DEF GuardedInv, SafeInv, Typed, Told
<1>2. /\ state[r] \in Terminal => state'[r] = state[r]
      /\ state'[r] # "absent" /\ Match(r)' = Match(r)
  BY <1>1, EndedStays
<1>3. \A m : HasOfficial(m) => \E q \in official' : Match(q)' = m
  BY OfficialStays
<1>4. viewer.chosen => HasOfficial(Match(viewer.run))'
  BY <1>2, <1>3 DEF Told, HasOfficial
<1>5. state[r] = "completed" => Described(r)' = Described(r)
  BY <1>1, <1>2, FrozenStep DEF Described, Terminal
<1> QED
  BY <1>1, <1>2, <1>4, <1>5 DEF Told, Answered, Terminal

\* The observer publishes only runs that have not ended.
LEMMA PublishRunning ==
  ASSUME GuardedInv, NEW p \in Procs, Publish(p), NEW r \in Runs, state[r] \in Terminal
  PROVE  published'[r] = published[r]
<1>1. job[p].run \in Runs /\ state[job[p].run] = "running"
  BY DEF Publish, GuardedInv, SafeInv, JobHeld, Executing, Working, InCharge, InStep
<1>2. job[p].run # r
  BY <1>1 DEF Terminal
<1> QED
  BY <1>2 DEF Publish, Store

\* A described replay fits its file.
LEMMA DescribedFits ==
  ASSUME ReplaysWhole, NEW r \in Runs
  PROVE  Fitting(Described(r), r) = Described(r)
BY DEF ReplaysWhole, Holds, Described, Fitting

LEMMA PublicStep ==
  ASSUME SingleWorker, PublicInv, [PublicNext]_publicVars
  PROVE  PublicInv'
<1>1. GuardedInv /\ [Next]_vars /\ SafeInv /\ ReplaysWhole
  BY DEF PublicInv, PublicNext, QueueMoves, Publish, Select, State, Replay, publicVars, GuardedInv
<1>2. GuardedInv'
  BY <1>1, GuardedStep
<1>3. ReplaysWhole'
  <2>1. ASSUME UNCHANGED <<vars, replayFile>> PROVE ReplaysWhole'
    BY <1>1, <2>1 DEF ReplaysWhole, Holds, vars
  <2> QED
    BY <1>1, <2>1, ReplaysStep DEF PublicNext, Publish, Select, State, Replay, publicVars
<1>4. ASSUME UNCHANGED <<published, viewer>> PROVE Asked' => Told' /\ Answered'
  BY <1>1, <1>4, ToldStays DEF PublicInv, Asked
<1>5. ASSUME NEW p \in Procs, Publish(p) PROVE Asked' => Told' /\ Answered'
  <2> SUFFICES ASSUME Asked' PROVE Told' /\ Answered'
    OBVIOUS
  <2>1. viewer' = viewer /\ UNCHANGED vars
    BY <1>5 DEF Publish
  <2>2. Asked /\ Told /\ Answered
    BY <2>1 DEF PublicInv, Asked
  <2>3. Told'
    BY <1>1, <2>1, <2>2, ToldStays
  <2>4. viewer.phase = "state" => published'[viewer.run] = published[viewer.run]
    BY <1>1, <1>5, <2>2, PublishRunning DEF Told, Answered
  <2>5. state' = state /\ terminal' = terminal
    BY <2>1 DEF vars
  <2> QED
    BY <2>1, <2>2, <2>3, <2>4, <2>5 DEF Answered, Described
<1>6. ASSUME NEW m \in Matches, Select(m) PROVE Asked' => Told' /\ Answered'
  <2>1. viewer' = Shown(Selected(m)) /\ Discoverable(m) # {} /\ UNCHANGED <<vars, published>>
    BY <1>6 DEF Select
  <2>2. Selected(m) \in Runs /\ state[Selected(m)] # "absent"
    BY <1>1, <2>1, SelectedRun
  <2>3. Chosen(Selected(m)) => HasOfficial(Match(Selected(m)))
    BY DEF Chosen, HasOfficial
  <2>4. UNCHANGED <<state, submission, official, terminal>>
    BY <2>1 DEF vars
  <2>5. Described(Selected(m)) # "unavailable" => state[Selected(m)] = "completed"
    BY DEF Described
  <2>6. Told'
    BY <2>1, <2>2, <2>3, <2>4, <2>5 DEF Shown, Told, HasOfficial, Match, Described
  <2>7. Answered'
    BY <2>1 DEF Shown, Answered
  <2> QED
    BY <2>6, <2>7
<1>7. ASSUME State \/ Replay PROVE Asked' => Told' /\ Answered'
  <2>1. Told /\ viewer.phase = "selected" /\ UNCHANGED <<vars, published>>
    BY <1>7 DEF State, Replay, PublicInv, Asked
  <2>2. UNCHANGED <<state, submission, official, terminal>>
    BY <2>1 DEF vars
  <2>3. CASE viewer' = NotAsking
    BY <2>3 DEF Asked, NotAsking
  <2>4. CASE viewer.terminal /\ viewer' = [phase |-> "state", run |-> viewer.run, chosen |-> viewer.chosen,
                                           version |-> Latest(viewer.run)]
    BY <2>1, <2>2, <2>4 DEF Told, Answered, HasOfficial, Match, Latest
  <2>5. ASSUME NEW x, NEW failed, viewer' = ShownReplay(x, failed), viewer.completed,
               failed \/ x = Described(viewer.run)
        PROVE  Told' /\ Answered'
    BY <2>1, <2>2, <2>5 DEF ShownReplay, Told, Answered, HasOfficial, Match, Described
  <2>6. viewer.completed => Fitting(viewer.described, viewer.run) = Described(viewer.run)
    BY <1>1, <2>1, DescribedFits DEF Told
  <2>7. CASE viewer.completed /\ viewer' = ShownReplay(Fitting(viewer.described, viewer.run), FALSE)
    BY <2>5, <2>6, <2>7
  <2>8. CASE viewer.described # "unavailable" /\ viewer' = ShownReplay("unavailable", TRUE)
    BY <2>1, <2>5, <2>8 DEF Told
  <2> QED
    BY <1>7, <2>3, <2>4, <2>7, <2>8 DEF State, Replay
<1>8. Asked' => Told' /\ Answered'
  BY <1>4, <1>5, <1>6, <1>7 DEF PublicNext, QueueMoves, publicVars
<1> QED
  BY <1>2, <1>3, <1>8 DEF PublicInv

\* A spectator told that a match has ended is never contradicted: no newer state
\* is published, a completed run shows the whole replay that its record describes
\* (or none, if it describes none) whenever the file can be read, and a match goes
\* on showing an official run once it showed one, although queue and publications
\* are read in two steps.
THEOREM FinalAnswersStand == ASSUME SingleWorker PROVE PublicSpec => []FinalAnswerStands
<1>1. PublicInv /\ [PublicNext]_publicVars => PublicInv'
  BY PublicStep
<1>2. PublicInv => FinalAnswerStands
  <2> SUFFICES ASSUME PublicInv, viewer.phase \in {"state", "replay"}
               PROVE  /\ state[viewer.run] \in Terminal
                      /\ viewer.phase = "state" => published[viewer.run] = viewer.version
                      /\ viewer.phase = "replay" /\ ~viewer.failed =>
                           viewer.replay = ReplayOf(viewer.run) /\ viewer.replay = Described(viewer.run)
                      /\ viewer.chosen => Chosen(Selected(Match(viewer.run)))
    BY DEF FinalAnswerStands
  <2>1. Told /\ Answered /\ SafeInv /\ ReplaysWhole
    BY DEF PublicInv, Asked, GuardedInv
  <2>2. Match(viewer.run) \in Matches \cup {None}
    BY <2>1 DEF Told, SafeInv, TypeOK, Submission, Match
  <2>3. ReplayOf(viewer.run) = Described(viewer.run)
    BY <2>1, DescribedFits DEF Told, ReplayOf
  <2> QED
    BY <2>1, <2>2, <2>3, SelectedRun DEF Told, Answered, Terminal
<1> QED
  BY <1>1, <1>2, PublicStart, PTL DEF PublicSpec
=============================================================================
