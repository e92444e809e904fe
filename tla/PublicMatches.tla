---------------------------- MODULE PublicMatches ----------------------------
(***************************************************************************)
(* What anonymous spectators are shown of a match (public_state.go,        *)
(* public_state_postgres.go, public_http.go) while the queue, its worker   *)
(* and operators act.  The worker publishes exported snapshots of the run  *)
(* it executes; a spectator polls the match, is told of one selected run,  *)
(* and stops when the response says retry_after_ms = 0.                    *)
(*                                                                         *)
(* Every request reads the queue first and the published state, or the     *)
(* replay file, afterwards: these are two steps.  (Replay reads and checks *)
(* the file twice, which is one step here.)  A publication that its        *)
(* one-second context ends is taken to have no effect.                     *)
(*                                                                         *)
(* The replay of a completed match is a file beside the other artifacts of *)
(* its run, described by format, size and digest in terminal_json: a value *)
(* of terminal in Replays stands for a record with that description.       *)
(***************************************************************************)
EXTENDS RunQueue

CONSTANT MaxVersion    \* publications of a run (bound)

ASSUME VersionBound == MaxVersion \in Nat

VARIABLES
  published,  \* public_match_states, by run: the version of its latest state, or 0
  replayFile, \* public-replay.json, by run: a replay, "torn" or "none"
  viewer      \* the spectator's request in progress, or the last answer it was told

publicVars == <<vars, published, replayFile, viewer>>

NotAsking == [phase |-> "polling"]

PublicInit ==
  /\ Init
  /\ published = [r \in Runs |-> 0]
  /\ replayFile = [r \in Runs |-> "none"]
  /\ viewer = NotAsking

-----------------------------------------------------------------------------
(* Publications *)

\* The upsert replaces the state of the run and counts its versions.
Store(r) ==
  /\ published[r] < MaxVersion
  /\ published' = [published EXCEPT ![r] = @ + 1]

\* The observer hands the snapshot to a goroutine instead of waiting for it.
BugPublish(p) ==
  /\ pc[p] \in {"execute", "rank"}
  /\ Store(job[p].run)
  /\ UNCHANGED <<vars, replayFile, viewer>>

\* The observer is called by the runner and waits for the store, so it publishes
\* only while its process executes the run.  Its errors are dropped.
Publish(p) ==
  /\ pc[p] = "execute"
  /\ Store(job[p].run)
  /\ UNCHANGED <<vars, replayFile, viewer>>

-----------------------------------------------------------------------------
(* The replay file, in the step of the queue in which Persist is left *)

Persisted(p) == pc[p] = "persist" /\ pc'[p] \in {"decide", "failing"}

\* The file of an earlier execution is kept instead of replaced.
BugContentsAfter(p) ==
  LET old == replayFile[job[p].run]
      new == job[p].status
  IN IF new \notin Replays \/ old # "none" THEN {old}
     ELSE IF pc'[p] = "decide" THEN {new}
     ELSE IF artifacts'[job[p].run] = new THEN {old, "torn", new} ELSE {old}

\* Persist writes the replay last, and only if the result has one: the file of an
\* earlier execution stays otherwise.  An error leaves any part of it written.
ContentsAfter(p) ==
  LET old == replayFile[job[p].run]
      new == job[p].status
  IN IF new \notin Replays THEN {old}
     ELSE IF pc'[p] = "decide" THEN {new}
     ELSE IF artifacts'[job[p].run] = new THEN {old, "torn", new} ELSE {old}

WriteReplay(p) ==
  /\ Persisted(p)
  /\ \E content \in ContentsAfter(p) : replayFile' = [replayFile EXCEPT ![job[p].run] = content]

NoReplayWritten ==
  /\ \A p \in Procs : ~Persisted(p)
  /\ UNCHANGED replayFile

QueueMoves ==
  /\ Next
  /\ (\E p \in Procs : WriteReplay(p)) \/ NoReplayWritten
  /\ UNCHANGED <<published, viewer>>

-----------------------------------------------------------------------------
(* Reads *)

Discoverable(m) ==
  {r \in Runs : Match(r) = m /\ state[r] \in {"running", "persisting"} \cup Terminal}

Chosen(r) == state[r] = "completed" /\ r \in official

\* selectedPublicRecords: the last completed official run in queue order if
\* there is one, else the last discoverable run.
Selected(m) ==
  LET chosen == {r \in Discoverable(m) : Chosen(r)} IN
  CHOOSE r \in IF chosen # {} THEN chosen ELSE Discoverable(m) :
    \A q \in IF chosen # {} THEN chosen ELSE Discoverable(m) : q <= r

Latest(r) == published[r]

\* The replay that a record describes: a completed run of a match that had one.
Described(r) ==
  IF state[r] = "completed" /\ terminal[r] \in Replays THEN terminal[r] ELSE "unavailable"

\* It is shown only if size and digest fit the file.
Fitting(described, r) == IF replayFile[r] = described THEN described ELSE "unavailable"

ReplayOf(r) == Fitting(Described(r), r)

\* What goes from the record of a run into the response.
Shown(r) ==
  [phase |-> "selected", run |-> r, terminal |-> state[r] \in Terminal,
   completed |-> state[r] = "completed", described |-> Described(r), chosen |-> Chosen(r)]

\* queue.List and the selection.
Select(m) ==
  /\ viewer.phase = "polling" /\ Discoverable(m) # {}
  /\ viewer' = Shown(Selected(m))
  /\ UNCHANGED <<vars, published, replayFile>>

\* GET .../state: the spectator polls again unless the run it was told of has ended.
State ==
  /\ viewer.phase = "selected"
  /\ viewer' = IF viewer.terminal
               THEN [phase |-> "state", run |-> viewer.run, chosen |-> viewer.chosen,
                     version |-> Latest(viewer.run)]
               ELSE NotAsking
  /\ UNCHANGED <<vars, published, replayFile>>

ShownReplay(x, failed) ==
  [phase |-> "replay", run |-> viewer.run, chosen |-> viewer.chosen, replay |-> x, failed |-> failed]

\* GET .../replay: unavailable if the record describes no replay, else the file is
\* read and compared; a file that cannot be read is answered as unavailable too.
\* The spectator asks again as long as the run is not completed.
Replay ==
  /\ viewer.phase = "selected"
  /\ \/ ~viewer.completed /\ viewer' = NotAsking
     \/ viewer.completed /\ viewer' = ShownReplay(Fitting(viewer.described, viewer.run), FALSE)
     \/ viewer.described # "unavailable" /\ viewer' = ShownReplay("unavailable", TRUE)
  /\ UNCHANGED <<vars, published, replayFile>>

-----------------------------------------------------------------------------
PublicNext ==
  \/ QueueMoves
  \/ \E p \in Procs : Publish(p)
  \/ \E m \in Matches : Select(m)
  \/ State \/ Replay

PublicSpec == PublicInit /\ [][PublicNext]_publicVars

\* What a spectator was told last stands: a run told to have ended publishes no
\* newer state; a completed run shows the whole replay that its record describes,
\* or none if it describes none, and goes on doing so, unless the file cannot be
\* read; and a match that showed an official run shows one ever after.  So it is
\* although runs are executed again, retried, rerun and promoted, workers die while
\* they write the replay, and the two reads of a request lie apart
\* (retry_after_ms = 0 in State; Persist, replayMetadata and Replay;
\* selectedPublicRecords).
FinalAnswerStands ==
  viewer.phase \in {"state", "replay"} =>
    /\ state[viewer.run] \in Terminal
    /\ viewer.phase = "state" => published[viewer.run] = viewer.version
    /\ viewer.phase = "replay" /\ ~viewer.failed =>
         viewer.replay = ReplayOf(viewer.run) /\ viewer.replay = Described(viewer.run)
    /\ viewer.chosen => Chosen(Selected(Match(viewer.run)))
=============================================================================
