----------------------------- MODULE GameReplay -----------------------------
(***************************************************************************)
(* A registered game played by the match runner, its record, and every way *)
(* to take the match up again: the snapshot of the record, or its event    *)
(* log replayed up to a turn (arena-runner's --record-input,               *)
(* --snapshot-input, --history-input and --target-turn).                   *)
(*                                                                         *)
(* The registry picks the game; a master is the state of Janken or of      *)
(* EchoCount.  How a session call comes by its result is PlayerSession's   *)
(* subject, how a match is cut off MatchRunner's: here a call returns any  *)
(* result, and the match may end before any step of it.                    *)
(***************************************************************************)
EXTENDS GameContract, SequencesExt

CONSTANTS
  Rounds,       \* rounds of janken
  Turns,        \* turns of the echo-count rulesets
  Reasons,      \* the failure reasons a session call may end with (bound)
  Leavers       \* the sets of players whose shutdown may fail together (bound)

ASSUME Sizes == NPlayers \in Nat \ {0, 1} /\ Rounds \in Nat \ {0} /\ Turns \in Nat \ {0}
ASSUME SomeReasons == Reasons \subseteq SessionReasons
ASSUME SomeLeavers == Leavers \subseteq SUBSET Player

J == INSTANCE Janken
E == INSTANCE EchoCount

VARIABLES
  ruleset,   \* the selected game and ruleset
  master,    \* the game master's state
  phase,     \* where the runner is: "next", "record", "apply", "ended"
  step,      \* the step in progress
  statuses,  \* the statuses recorded in it
  log,       \* record.EventLog
  seen,      \* Runner.lastResult
  resumed,   \* was the match taken up again?
  boundary   \* history: the snapshots of this match at its turn boundaries

vars == <<ruleset, master, phase, step, statuses, log, seen, resumed, boundary>>

\* The rulesets of the default registry's descriptors.
Rulesets ==
  {[game |-> "janken", mode |-> "simultaneous", seedAware |-> FALSE]} \cup
  [game : {"echo-count"}, mode : {"simultaneous", "sequential"}, seedAware : {FALSE}] \cup
  {[game |-> "echo-count", mode |-> "simultaneous", seedAware |-> TRUE]}

\* LookupVersion: the descriptor decides whose operations are called.
IsJanken == ruleset.game = "janken"

NextStep(m) == IF IsJanken THEN J!NextStep(m) ELSE E!NextStep(m)
NormalizeAction(m, s) == IF IsJanken THEN J!NormalizeAction(m, s) ELSE E!NormalizeAction(m, s)
ApplyStep(m, st, ss) == IF IsJanken THEN J!ApplyStep(m, st, ss) ELSE E!ApplyStep(m, st, ss)
Snapshot(m) == IF IsJanken THEN J!Snapshot(m) ELSE E!Snapshot(m)
PerPlayer(m) == IF IsJanken THEN J!PerPlayer(m) ELSE E!PerPlayer(m)
Result(m) == IF IsJanken THEN J!Result(m) ELSE E!Result(m)
Payloads == IF IsJanken THEN J!Payloads ELSE E!Payloads

\* BuildSession and BuildSessionFromSnapshot of the descriptor.
NewMaster(r, order) == IF r.game = "janken" THEN J!New ELSE E!New(r.mode, order)
FromSnapshot(s) == IF IsJanken THEN J!FromSnapshot(s) ELSE E!FromSnapshot(s)

SnapshotFromHistory(events, target) ==
  IF IsJanken THEN J!SnapshotFromHistory(events, target)
  ELSE E!SnapshotFromHistory(master.mode, master.order, events, target)

\* CurrentSnapshot of an in-process session.
CurrentSnapshot(m) ==
  [turn |-> Snapshot(m).turn, state |-> Snapshot(m).state, perPlayer |-> PerPlayer(m)]

\* buildRecord puts the runner's last results over the game master's.
RecordSnapshot ==
  LET s == CurrentSnapshot(master)
  IN  [s EXCEPT !.perPlayer = [p \in Player |-> [@[p] EXCEPT !.last = seen[p]]]]

-----------------------------------------------------------------------------
Unseen == [status |-> "", reason |-> "", action |-> <<>>]

Init ==
  \E r \in Rulesets : \E order \in E!Orders(r.seedAware) :
    /\ ruleset = r
    /\ master = NewMaster(r, order)
    /\ phase = "next" /\ step = NoStep /\ statuses = <<>>
    /\ log = <<>> /\ seen = [p \in Player |-> Unseen]
    /\ resumed = FALSE
    /\ boundary = <<CurrentSnapshot(master)>>

\* NextDecisionStep; prepareTurn logs every request.  A match taken up again is
\* not followed further (bound): it is the same game from there on.
AskStep ==
  /\ phase = "next" /\ NextStep(master) # NoStep
  /\ ~resumed
  /\ step' = NextStep(master)
  /\ log' = log \o [i \in 1..Len(step'.players) |->
                      Event("turn_requested", step'.turn, step'.players[i], Unseen)]
  /\ statuses' = <<>>
  /\ phase' = "record"
  /\ UNCHANGED <<ruleset, master, seen, resumed, boundary>>

Results == {Accepted(a) : a \in Payloads} \cup {NoAction(r) : r \in Reasons}

\* NormalizeAction and recordTurn for the next player of the step.
RecordTurn ==
  /\ phase = "record"
  /\ \E result \in Results :
       LET p == step.players[Len(statuses) + 1]
           s == NormalizeAction(master, result)
       IN  /\ statuses' = Append(statuses, s)
           /\ seen' = [seen EXCEPT ![p] = s]
           /\ log' = Append(log, Event(EventKind(result), step.turn, p, s))
  /\ phase' = IF Len(statuses') = Len(step.players) THEN "apply" ELSE "record"
  /\ UNCHANGED <<ruleset, master, step, resumed, boundary>>

\* ApplyDecisionResults: the step counts.
ApplyDecisionResults ==
  /\ phase = "apply"
  /\ master' = ApplyStep(master, step, statuses)
  /\ boundary' = IF master'.resolved > master.resolved
                 THEN Append(boundary, CurrentSnapshot(master')) ELSE boundary
  /\ phase' = "next" /\ statuses' = <<>> /\ step' = NoStep
  /\ UNCHANGED <<ruleset, log, seen, resumed>>

\* The match ends, at its end or cut off.  Shutting the players down leaves an
\* event of turn 0 for each that had stopped by its game_over or whose Close
\* fails, whatever its last result was (two such events of a player are one here).
End ==
  /\ phase # "ended"
  /\ phase' = "ended"
  /\ \E gone \in Leavers :
       log' = log \o SetToSeq({Event("runtime_exited", 0, p, Unseen) : p \in gone})
  /\ UNCHANGED <<ruleset, master, step, statuses, seen, resumed, boundary>>

\* A new match starts from a snapshot: WithResumeState and a rebuilt master.
TakeUp(snapshot) ==
  /\ phase = "ended" /\ ~resumed
  /\ master' = FromSnapshot(snapshot)
  /\ seen' = [p \in Player |-> snapshot.perPlayer[p].last]
  /\ boundary' = <<snapshot>>
  /\ resumed' = TRUE
  /\ phase' = "next" /\ step' = NoStep /\ statuses' = <<>> /\ log' = <<>>
  /\ UNCHANGED ruleset

\* --record-input or --snapshot-input alone.
ResumeFromRecord == TakeUp(RecordSnapshot)

\* --record-input or --history-input with --target-turn.
ResumeFromHistory ==
  /\ phase = "ended"
  /\ \E target \in 1..(IF IsJanken THEN Rounds ELSE Turns) :
       TakeUp(SnapshotFromHistory(log, target))

Next == AskStep \/ RecordTurn \/ ApplyDecisionResults \/ End
        \/ ResumeFromRecord \/ ResumeFromHistory

Spec == Init /\ [][Next]_vars

-----------------------------------------------------------------------------
(* SnapshotFromSessionHistory: the replay of a game master session, which  *)
(* reads the recorded statuses in order and stops at the first that is not *)
(* the one the game asks for                                               *)

\* consumeRecordedActionStatus for the next player of the step in progress,
\* and ApplyDecisionResults once every player of it has a status.
Consume(r, events, target) ==
  LET st       == NextStep(r.m)
      found    == {i \in DOMAIN events : i > r.cursor /\ events[i].kind \in StatusEvents}
      i        == CHOOSE k \in found : \A j \in found : k <= j
      recorded == Append(r.statuses, events[i].status)
      Fits     == /\ found # {} /\ events[i].turn = st.turn
                  /\ events[i].player = st.players[Len(recorded)]
  IN  IF ~r.ok \/ st.turn > target THEN r
      ELSE IF st = NoStep THEN [r EXCEPT !.ok = Snapshot(r.m).turn >= target]
      ELSE IF ~Fits THEN [r EXCEPT !.ok = FALSE]
      ELSE IF Len(recorded) < Len(st.players)
      THEN [m |-> r.m, statuses |-> recorded, cursor |-> i, ok |-> TRUE]
      ELSE [m |-> ApplyStep(r.m, st, recorded), statuses |-> <<>>, cursor |-> i, ok |-> TRUE]

Fresh(m) == [m |-> m, statuses |-> <<>>, cursor |-> 0, ok |-> TRUE]

\* Each player answers once in a turn.
SessionReplay(fresh, events, target) ==
  LET played[n \in 0..target * NPlayers] ==
        IF n = 0 THEN Fresh(fresh) ELSE Consume(played[n - 1], events, target)
  IN  played[target * NPlayers]

-----------------------------------------------------------------------------
(* Properties *)

\* A sequential game between two players of one turn.
MidTurn == ~IsJanken /\ master.nextPlayer # 1

\* The visible turn of a replayed shuffled game is its expected number.
SamePlayer(replayed, live) ==
  /\ replayed.last = live.last
  /\ IF IsJanken THEN replayed.visible = live.visible
     ELSE /\ replayed.visible.expected = live.visible.expected
          /\ replayed.visible.score = live.visible.score
          /\ ~ruleset.seedAware => replayed.visible.turn = live.visible.turn

\* Whatever players did, however the match was cut off, the log of a match
\* played from its start rebuilds the
\* snapshot of each turn boundary it passed: SnapshotFromHistory of the games
\* and SnapshotFromSessionHistory of the replay package both agree with the
\* match as it was played.
HistoryRebuilds ==
  phase = "ended" /\ ~resumed =>
    \A t \in 0..Len(boundary) - 1 :
      LET live     == boundary[t + 1]
          replayed == SnapshotFromHistory(log, t)
          session  == SessionReplay(NewMaster(ruleset, IF IsJanken THEN <<>> ELSE master.order), log, t)
      IN  /\ replayed.turn = live.turn /\ replayed.state = live.state
          /\ \A p \in Player : SamePlayer(replayed.perPlayer[p], live.perPlayer[p])
          /\ session.ok
          /\ Snapshot(session.m).turn = live.turn /\ Snapshot(session.m).state = live.state

\* Taking a match up from its record goes on with the game that was left: only
\* the answers of a step that was never applied are asked for again.
GoesOn(left, taken) ==
  [taken EXCEPT !.last = <<>>] = [left EXCEPT !.last = <<>>]

ResumeContinues ==
  [][ResumeFromRecord /\ ~MidTurn => GoesOn(master, master')]_vars

\* The same at any point of a sequential game.
ResumeAnywhere ==
  [][ResumeFromRecord => GoesOn(master, master')]_vars

\* The place of a player is one more than the number of players who did
\* strictly better, in every position of every game, and the positions come
\* from the history: a player's score counts the rounds as they were shown.
PlacementsFair ==
  /\ \A i \in Player :
       LET at == Result(master)[i]
           better == IF IsJanken THEN J!BetterPairs(master) ELSE E!BetterPairs(master)
       IN  at.place = 1 + Cardinality({q \in Player : <<q, at.player>> \in better})
  /\ IsJanken => \A p \in Player :
       /\ master.score[p].wins = Cardinality({i \in DOMAIN master.public : master.public[i].results[p] = "win"})
       /\ master.score[p].wins + master.score[p].draws + master.score[p].losses = master.resolved
       /\ Len(master.self[p]) = master.resolved
=============================================================================
