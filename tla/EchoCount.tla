----------------------------- MODULE EchoCount -----------------------------
(***************************************************************************)
(* The echo-count game (internal/games/echo): players repeat the number    *)
(* they are shown.  A ruleset is simultaneous or sequential, and shows the *)
(* turns in order or, with a seed, in an order derived from it: a          *)
(* permutation that the hash of the seed decides.                          *)
(***************************************************************************)
EXTENDS GameContract

CONSTANT Turns    \* of the selected ruleset

Payloads == {<<n>> : n \in 0..Turns}    \* <<0>>: not the number of any turn

Identity == [i \in 1..Turns |-> i]

\* expectedOrder.
Orders(seedAware) ==
  IF seedAware THEN {o \in [1..Turns -> 1..Turns] : {o[i] : i \in 1..Turns} = 1..Turns}
  ELSE {Identity}

\* expectedForResolvedCount: the last number stays when all turns are done.
Expected(order, resolved) == IF resolved < Turns THEN order[resolved + 1] ELSE order[Turns]

New(mode, order) ==
  [mode |-> mode, order |-> order, resolved |-> 0, nextPlayer |-> 1,
   score |-> [p \in Player |-> 0], last |-> [p \in Player |-> NoAction("")]]

NextStep(m) ==
  IF m.resolved >= Turns THEN NoStep
  ELSE Step(m.resolved + 1, m.mode,
            IF m.mode = "simultaneous" THEN [p \in Player |-> p] ELSE <<m.nextPlayer>>)

NormalizeAction(m, status) ==
  IF status.status # "accepted" THEN [status EXCEPT !.action = <<>>]
  ELSE IF status.action # <<Expected(m.order, m.resolved)>> THEN Illegal ELSE status

\* One status for every player the step asked.
ApplyStep(m, step, statuses) ==
  LET asked(p)  == \E i \in DOMAIN step.players : step.players[i] = p
      status(p) == statuses[CHOOSE i \in DOMAIN step.players : step.players[i] = p]
      around    == step.mode = "sequential" /\ m.nextPlayer < NPlayers
  IN  [m EXCEPT
        !.score = [p \in Player |-> IF asked(p) /\ status(p).status = "accepted"
                                    THEN @[p] + 1 ELSE @[p]],
        !.last  = [p \in Player |-> IF asked(p) THEN status(p) ELSE @[p]],
        !.resolved   = IF around THEN @ ELSE @ + 1,
        !.nextPlayer = IF around THEN @ + 1 ELSE 1]

VisibleState(m, p) ==
  [turn     |-> IF m.resolved >= Turns THEN Turns ELSE m.resolved + 1,
   expected |-> Expected(m.order, m.resolved),
   score    |-> m.score]

\* The game state of a snapshot; the seed stands for the order it decides.
State(m) == [mode |-> m.mode, order |-> m.order, score |-> m.score]

Snapshot(m) == [turn |-> m.resolved, state |-> State(m)]

BugFromSnapshot(snapshot) ==
  [New(snapshot.state.mode, Identity) EXCEPT !.resolved = snapshot.turn,
                                             !.score = snapshot.state.score]

\* NewFromSnapshot: a snapshot does not say whose turn it was.
FromSnapshot(snapshot) ==
  [mode |-> snapshot.state.mode, order |-> snapshot.state.order,
   resolved |-> snapshot.turn, nextPlayer |-> 1, score |-> snapshot.state.score,
   last |-> [p \in Player |-> IF snapshot.perPlayer[p].last.status = "" THEN NoAction("")
                              ELSE snapshot.perPlayer[p].last]]

PerPlayer(m) == [p \in Player |-> [visible |-> VisibleState(m, p), last |-> m.last[p]]]

BugSnapshotFromHistory(mode, order, events, target) ==
  LET Read == {i \in DOMAIN events : events[i].kind \in StatusEvents /\ events[i].turn <= target}
      Of(p) == {i \in Read : events[i].player = p}
      score == [p \in Player |-> Cardinality({i \in Of(p) : events[i].status.status = "accepted"})]
      shown == Expected(order, target)
  IN  [turn      |-> target,
       state     |-> [mode |-> mode, order |-> order, score |-> score],
       perPlayer |-> [p \in Player |->
         [visible |-> [turn |-> shown, expected |-> shown, score |-> score],
          last    |-> IF Of(p) = {} THEN NoAction("")
                      ELSE events[CHOOSE i \in Of(p) : \A j \in Of(p) : j <= i].status]]]

\* SnapshotFromHistory counts the accepted statuses of the log without playing
\* the game again.  What it calls the visible turn is the expected number.
SnapshotFromHistory(mode, order, events, target) ==
  LET Read == {i \in DOMAIN events : /\ events[i].kind \in StatusEvents
                                     /\ events[i].turn \in 1..target}
      Of(p) == {i \in Read : events[i].player = p}
      score == [p \in Player |-> Cardinality({i \in Of(p) : events[i].status.status = "accepted"})]
      shown == Expected(order, target)
  IN  [turn      |-> target,
       state     |-> [mode |-> mode, order |-> order, score |-> score],
       perPlayer |-> [p \in Player |->
         [visible |-> [turn |-> shown, expected |-> shown, score |-> score],
          last    |-> IF Of(p) = {} THEN NoAction("")
                      ELSE events[CHOOSE i \in Of(p) : \A j \in Of(p) : j <= i].status]]]

BetterPairs(m) == {pq \in Player \X Player : m.score[pq[1]] > m.score[pq[2]]}

\* Result sorts by score.
Result(m) == Placements(BetterPairs(m))
=============================================================================
