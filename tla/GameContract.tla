---------------------------- MODULE GameContract ----------------------------
(***************************************************************************)
(* What a match runner, a game master and a replay agree on                *)
(* (gamemaster/types.go): decision steps, action statuses, the events that *)
(* carry them, and the part of the event log a replay reads.               *)
(*                                                                         *)
(* A payload is a sequence of at most one value: <<>> is the absent        *)
(* payload.  Players are 1..NPlayers in submission order, which is also    *)
(* the order of their ids.                                                 *)
(***************************************************************************)
EXTENDS Naturals, Sequences, FiniteSets

CONSTANT NPlayers

Player == 1..NPlayers

Accepted(action) == [status |-> "accepted", reason |-> "", action |-> action]
NoAction(reason) == [status |-> "no_action", reason |-> reason, action |-> <<>>]

Illegal == NoAction("invalid-illegal-action")

\* The failure reasons a session call ends with.
SessionReasons == {"invalid-timeout", "invalid-protocol-malformed", "runtime-stopped"}

\* A step asks its players, in this order, for the given turn; NoStep is nil.
Step(turn, mode, players) == [turn |-> turn, mode |-> mode, players |-> players]
NoStep == Step(0, "", <<>>)

Event(kind, turn, p, status) == [kind |-> kind, turn |-> turn, player |-> p, status |-> status]

StatusEvents == {"turn_result", "turn_timeout", "protocol_error", "runtime_exited"}

\* recordTurn names the event after what the session returned, not after what
\* the game made of it.
EventKind(result) ==
  CASE result.reason = ""                -> "turn_result"
    [] result.reason = "invalid-timeout" -> "turn_timeout"
    [] result.reason = "runtime-stopped" -> "runtime_exited"
    [] OTHER                             -> "protocol_error"

\* Players by standing, equal ones by id.  better: the pairs of a player and one
\* it did strictly better than.
SortedPlayers(better) ==
  CHOOSE s \in [Player -> Player] :
    /\ {s[i] : i \in Player} = Player
    /\ \A i, j \in Player : i < j =>
         \/ <<s[i], s[j]>> \in better
         \/ <<s[j], s[i]>> \notin better /\ s[i] < s[j]

BugPlacements(better) ==
  LET sorted == SortedPlayers(better)
      place[i \in Player] ==
        IF i = 1 THEN 1
        ELSE IF <<sorted[i - 1], sorted[i]>> \in better THEN place[i - 1] + 1 ELSE place[i - 1]
  IN  [i \in Player |-> [player |-> sorted[i], place |-> place[i]]]

\* The placements of a result: players in order of standing, equal ones with
\* the place of the first of them.
Placements(better) ==
  LET sorted == SortedPlayers(better)
      place[i \in Player] ==
        IF i > 1 /\ <<sorted[i - 1], sorted[i]>> \notin better THEN place[i - 1] ELSE i
  IN  [i \in Player |-> [player |-> sorted[i], place |-> place[i]]]
=============================================================================
