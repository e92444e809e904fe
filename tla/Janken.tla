------------------------------- MODULE Janken -------------------------------
(***************************************************************************)
(* Rock, paper, scissors over a fixed number of simultaneous rounds        *)
(* (internal/games/janken): every operation of its game master as an       *)
(* operator on the master's state.                                         *)
(***************************************************************************)
EXTENDS GameContract

CONSTANT Rounds    \* RegularRounds

Moves    == {<<"rock">>, <<"paper">>, <<"scissors">>}
Payloads == Moves \cup {<<"other">>}

ZeroScore == [wins |-> 0, losses |-> 0, draws |-> 0, timeouts |-> 0, invalid |-> 0]

New ==
  [resolved |-> 0,
   score    |-> [p \in Player |-> ZeroScore],
   self     |-> [p \in Player |-> <<>>],
   public   |-> <<>>,
   last     |-> [p \in Player |-> NoAction("")]]

NextStep(m) ==
  IF m.resolved >= Rounds THEN NoStep
  ELSE Step(m.resolved + 1, "simultaneous", [p \in Player |-> p])

\* Only an accepted answer is looked at, and only a playable one is kept.
NormalizeAction(m, status) ==
  IF status.status # "accepted" THEN [status EXCEPT !.action = <<>>]
  ELSE IF status.action \in Moves THEN status ELSE Illegal

Beats == {<<"rock", "scissors">>, <<"scissors", "paper">>, <<"paper", "rock">>}

\* Two kinds of move on the table: one of them wins.  One kind or three: a draw.
Outcome(moves, p) ==
  LET shown == {moves[q] : q \in DOMAIN moves} IN
  IF p \notin DOMAIN moves THEN "loss"
  ELSE IF Cardinality(shown) # 2 THEN "draw"
  ELSE IF \E other \in shown : <<moves[p][1], other[1]>> \in Beats THEN "win"
  ELSE "loss"

Tally(s, outcome, reason) ==
  [wins     |-> s.wins     + (IF outcome = "win"  THEN 1 ELSE 0),
   draws    |-> s.draws    + (IF outcome = "draw" THEN 1 ELSE 0),
   losses   |-> s.losses   + (IF outcome = "loss" THEN 1 ELSE 0),
   timeouts |-> s.timeouts + (IF reason = "invalid-timeout" THEN 1 ELSE 0),
   invalid  |-> s.invalid  + (IF reason = "invalid-illegal-action" THEN 1 ELSE 0)]

ApplyStep(m, step, statuses) ==
  LET playing == {p \in Player : statuses[p].status = "accepted" /\ statuses[p].action \in Moves}
      moves   == [p \in playing |-> statuses[p].action]
      outcome == [p \in Player |-> Outcome(moves, p)]
      shown   == [p \in Player |-> IF p \in playing THEN moves[p] ELSE <<"no_action">>]
  IN  [resolved |-> m.resolved + 1,
       score    |-> [p \in Player |-> Tally(m.score[p], outcome[p], statuses[p].reason)],
       self     |-> [p \in Player |-> Append(m.self[p],
                       [round |-> step.turn, action |-> shown[p], result |-> outcome[p]])],
       public   |-> Append(m.public, [round |-> step.turn, actions |-> shown, results |-> outcome]),
       last     |-> statuses]

VisibleState(m, p) ==
  [round  |-> IF m.resolved >= Rounds THEN Rounds ELSE m.resolved + 1,
   self   |-> m.self[p],
   public |-> m.public]

\* The game state of a snapshot.
State(m) == [score |-> m.score, self |-> m.self, public |-> m.public]

Snapshot(m) == [turn |-> m.resolved, state |-> State(m)]

\* NewFromSnapshot: the last statuses come from the per-player part, where it
\* has any.
FromSnapshot(snapshot) ==
  [resolved |-> snapshot.turn,
   score    |-> snapshot.state.score,
   self     |-> snapshot.state.self,
   public   |-> snapshot.state.public,
   last     |-> [p \in Player |-> IF snapshot.perPlayer[p].last.status = "" THEN NoAction("")
                                  ELSE snapshot.perPlayer[p].last]]

PerPlayer(m) == [p \in Player |-> [visible |-> VisibleState(m, p), last |-> m.last[p]]]

\* SnapshotFromHistory plays the rounds again with the recorded statuses, the
\* latest one of a player and round, and with no action where there is none.
SnapshotFromHistory(events, target) ==
  LET Recorded(turn, p) ==
        {i \in DOMAIN events : /\ events[i].kind \in StatusEvents /\ events[i].turn = turn
                               /\ events[i].turn # 0 /\ events[i].player = p}
      Status(turn, p) ==
        LET found == Recorded(turn, p)
        IN  IF found = {} THEN NoAction("")
            ELSE events[CHOOSE i \in found : \A j \in found : j <= i].status
      played[turn \in 0..target] ==
        IF turn = 0 THEN New
        ELSE LET m == played[turn - 1] IN
             ApplyStep(m, NextStep(m), [p \in Player |-> NormalizeAction(m, Status(turn, p))])
      final == played[target]
  IN  [turn |-> target, state |-> State(final), perPlayer |-> PerPlayer(final)]

\* Result sorts by wins, then by fewer losses, timeouts and invalid actions.
Better(a, b) ==
  \/ a.wins > b.wins
  \/ a.wins = b.wins /\ a.losses < b.losses
  \/ a.wins = b.wins /\ a.losses = b.losses /\ a.timeouts < b.timeouts
  \/ /\ a.wins = b.wins /\ a.losses = b.losses /\ a.timeouts = b.timeouts
     /\ a.invalid < b.invalid

BetterPairs(m) == {pq \in Player \X Player : Better(m.score[pq[1]], m.score[pq[2]])}

Result(m) == Placements(BetterPairs(m))
=============================================================================
