---------------------------- MODULE RankingTable ----------------------------
(***************************************************************************)
(* The ranking aggregate of one scope (ranking.go): buildRankingUpdate     *)
(* checks a run's compact result against its submission, and               *)
(* applyRankingUpdate folds it into the snapshot, one placement after the  *)
(* other.  Names that a reader may see but no decision reads (bot_name,    *)
(* last_player_id, last_status) are left out.                              *)
(***************************************************************************)
EXTENDS Integers, Sequences, FiniteSets, SequencesExt

CONSTANTS
  RunID,        \* run_ids
  MatchOf,      \* [RunID -> match_id]
  Bot,          \* stable bot_ids
  PlayerID,     \* the player_ids of a submission
  MaxPlace,     \* the last place a result may name
  Offer,        \* the results that may be offered, valid and invalid
  MaxOffers,    \* how many are offered to the snapshot (bound)
  NoBot         \* a submission that predates bot identities

ASSUME Places == MaxPlace \in Nat /\ NoBot \notin Bot \cup PlayerID
ASSUME ResultShape ==
  Offer \subseteq [run : RunID, status : {"completed", "failed"},
                    bots : [PlayerID -> Bot \cup {NoBot}],
                    placements : Seq([player : PlayerID \cup {NoBot}, place : 0..MaxPlace])]

VARIABLES
  snapshot,  \* the RankingSnapshot
  offered    \* every result that was offered, in order

NewEntry == [played |-> 0, first |-> 0, counts |-> [k \in 1..MaxPlace |-> 0],
             lastRun |-> NoBot]

newRankingSnapshot == [runs |-> << >>, matches |-> << >>, entries |-> << >>]

-----------------------------------------------------------------------------
hasBotRankingIdentity(res) == \A p \in PlayerID : res.bots[p] # NoBot

\* A result is refused unless it is completed and every placement has a
\* positive place and names a player of the submission that no other one names.
buildRankingUpdate(res) ==
  /\ res.status = "completed"
  /\ res.placements # << >>
  /\ \A i \in DOMAIN res.placements :
       /\ res.placements[i].place > 0
       /\ res.placements[i].player \in PlayerID
       /\ \A j \in 1..(i - 1) : res.placements[j].player # res.placements[i].player

Entry(entries, b) == IF b \in DOMAIN entries THEN entries[b] ELSE NewEntry

\* One placement: the bot's entry, new or known, counts one match more.
place(entries, run, b, k) ==
  LET e == Entry(entries, b) IN
  [x \in DOMAIN entries \cup {b} |->
     IF x # b THEN entries[x]
     ELSE [played |-> e.played + 1,
           first |-> e.first + IF k = 1 THEN 1 ELSE 0,
           counts |-> [e.counts EXCEPT ![k] = @ + 1],
           lastRun |-> run]]

\* The placements of a result, from the first to the last.
placeAll(entries, res) ==
  LET after[n \in 0..Len(res.placements)] ==
        IF n = 0 THEN entries
        ELSE place(after[n - 1], res.run, res.bots[res.placements[n].player], res.placements[n].place)
  IN  after[Len(res.placements)]

BugRunsOnly(snap, res) ==
  IF Contains(snap.runs, res.run)
  THEN snap
  ELSE [runs |-> Append(snap.runs, res.run),
        matches |-> Append(snap.matches, MatchOf[res.run]),
        entries |-> placeAll(snap.entries, res)]

applyRankingUpdate(snap, res) ==
  IF Contains(snap.runs, res.run) \/ Contains(snap.matches, MatchOf[res.run])
  THEN snap
  ELSE [runs |-> Append(snap.runs, res.run),
        matches |-> Append(snap.matches, MatchOf[res.run]),
        entries |-> placeAll(snap.entries, res)]

-----------------------------------------------------------------------------
TableInit == snapshot = newRankingSnapshot /\ offered = << >>

\* ApplyCompleted for an official run.
ApplyCompleted(res) ==
  /\ Len(offered) < MaxOffers
  /\ offered' = Append(offered, res)
  /\ snapshot' = IF hasBotRankingIdentity(res) /\ buildRankingUpdate(res)
                 THEN applyRankingUpdate(snapshot, res)
                 ELSE snapshot

TableNext == \E res \in Offer : ApplyCompleted(res)

TableSpec == TableInit /\ [][TableNext]_<<snapshot, offered>>

-----------------------------------------------------------------------------
(* Reference: what the snapshot should say, counted over all placements. *)

Valid(res) ==
  LET pl == res.placements IN
  /\ res.status = "completed" /\ NoBot \notin {res.bots[p] : p \in PlayerID}
  /\ pl # << >> /\ \A i \in DOMAIN pl : pl[i].place >= 1 /\ pl[i].player # NoBot
  /\ Cardinality({pl[i].player : i \in DOMAIN pl}) = Len(pl)

\* The offers that count: the first valid one of each match.
Counted == {i \in DOMAIN offered :
              /\ Valid(offered[i])
              /\ \A j \in 1..(i - 1) : Valid(offered[j]) =>
                   MatchOf[offered[j].run] # MatchOf[offered[i].run]}

Seats(b, places) ==
  UNION {{<<i, k>> : k \in {n \in DOMAIN offered[i].placements :
                              /\ offered[i].bots[offered[i].placements[n].player] = b
                              /\ offered[i].placements[n].place \in places}} : i \in Counted}

\* The entries are the placement histogram of the counted matches: each
\* placement is in exactly one entry, no match and no seat is counted twice,
\* and what buildRankingUpdate refuses leaves no trace.
EntriesCountPlacements ==
  /\ Len(snapshot.matches) = Cardinality(Counted)
  /\ \A b \in Bot :
       LET e == Entry(snapshot.entries, b) IN
       /\ e.played = Cardinality(Seats(b, 1..MaxPlace))
       /\ e.first = Cardinality(Seats(b, {1}))
       /\ \A k \in 1..MaxPlace : e.counts[k] = Cardinality(Seats(b, {k}))

=============================================================================
