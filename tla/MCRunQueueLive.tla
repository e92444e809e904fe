--------------------------- MODULE MCRunQueueLive ---------------------------
(* RunQueue with a budget of faults, so that progress can be asked for: a    *)
(* process that dies again and again before its run is done owes nothing.    *)
EXTENDS MCRunQueue

CONSTANT MaxFaults

VARIABLE faults

Calm ==
  /\ \/ Operator
     \/ \E p \in Procs : Step(p) \/ Heartbeat(p)
     \/ Tick
  /\ UNCHANGED faults

Faulty ==
  /\ faults < MaxFaults
  /\ faults' = faults + 1
  /\ \E p \in Procs : Fault(p)

BoundedFaults == [][Calm \/ Faulty]_<<vars, faults>>

\* The fairness of RunQueue, on steps that leave the budget alone.
LiveSpec ==
  /\ Init /\ faults = 0
  /\ BoundedFaults
  /\ \A p \in Procs : /\ WF_<<vars, faults>>(Step(p) /\ UNCHANGED faults)
                      /\ WF_<<vars, faults>>(Heartbeat(p) /\ UNCHANGED faults)
  /\ WF_<<vars, faults>>(Tick /\ UNCHANGED faults)
=============================================================================
