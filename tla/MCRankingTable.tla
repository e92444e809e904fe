--------------------------- MODULE MCRankingTable ---------------------------
(* Three runs of two matches between two bots, on either seat or on both. *)
EXTENDS RankingTable

MCMatchOf == [r \in RunID |-> IF r = "run-3" THEN "match-2" ELSE "match-1"]

Seat(p, k) == [player |-> p, place |-> k]

MCOffer ==
  LET Played == {<<Seat("p1", 1), Seat("p2", 2)>>, <<Seat("p2", 1), Seat("p1", 2)>>,
                 <<Seat("p1", 1), Seat("p2", 1)>>, <<Seat("p2", 1)>>}
      Refused == {<< >>, <<Seat("p1", 1), Seat("p1", 2)>>, <<Seat("p1", 0)>>, <<Seat(NoBot, 1)>>}
      Anyone == [PlayerID -> Bot]
  IN  {[run |-> r, status |-> "completed", bots |-> f, placements |-> pl] :
         r \in RunID, f \in Anyone, pl \in Played}
      \cup {[run |-> r, status |-> s, bots |-> [p1 |-> "alpha", p2 |-> "beta"], placements |-> pl] :
              r \in RunID, s \in {"completed", "failed"}, pl \in Refused}
      \cup {[run |-> r, status |-> "failed", bots |-> [p1 |-> "alpha", p2 |-> "beta"],
             placements |-> pl] : r \in RunID, pl \in Played}
      \cup {[run |-> r, status |-> "completed", bots |-> [p1 |-> "alpha", p2 |-> NoBot],
             placements |-> pl] : r \in RunID, pl \in Played}
=============================================================================
