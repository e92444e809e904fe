--------------------------- MODULE MCQueueReaders ---------------------------
(* The two readers of the queue, the ranking and the spectators, in a small   *)
(* instance.  Neither touches the queue or the other, so a behaviour follows  *)
(* one of them: either the ranking is kept and nobody asks, or spectators ask *)
(* of one match beside a ranking that is behind and that nothing rebuilds.    *)
EXTENDS RunRanking, PublicMatches, TLC

CONSTANT m1    \* the match that spectators ask of

VARIABLE reader

MCWorkerID == [p \in Servers \cup Clis |-> "cli-worker"]

ReadersInit ==
  /\ PublicInit
  /\ \/ reader = "ranking" /\ RankingInit
     \/ /\ reader = "spectator"
        /\ snapshot = {} /\ seen = [p \in Procs |-> {}] /\ behind = TRUE
        /\ refresh = [p \in Servers |-> Idle]

RankingReads ==
  /\ reader = "ranking" /\ RankingNext
  /\ UNCHANGED <<published, replayFile, viewer>>

SpectatorReads ==
  /\ reader = "spectator" /\ PublicNext
  /\ \A r \in Runs : Match(r)' \in {m1, None}
  /\ UNCHANGED rankingVars

ReadersSpec ==
  ReadersInit /\ [][(RankingReads \/ SpectatorReads) /\ UNCHANGED reader]_<<publicVars, rankingVars, reader>>
=============================================================================
