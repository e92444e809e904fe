\* The aggregate against a count over all placements.
SPECIFICATION TableSpec
CONSTANTS
  RunID = {"run-1", "run-2", "run-3"}
  MatchOf <- MCMatchOf
  Bot = {"alpha", "beta"}
  PlayerID = {"p1", "p2"}
  MaxPlace = 2
  Offer <- MCOffer
  MaxOffers = 3
  NoBot = "nobody"
CHECK_DEADLOCK FALSE
INVARIANT EntriesCountPlacements
