----------------------------- MODULE MCRunQueue -----------------------------
(* Small instances of RunQueue.  Every process carries the default worker id *)
(* of the command line, so ownership by worker id tells none apart.          *)
EXTENDS RunQueue, TLC

MCWorkerID == [p \in Servers \cup Clis |-> "cli-worker"]

Interchangeable == Permutations(Servers) \cup Permutations(Matches)
=============================================================================
