---------------------------- MODULE RunLifecycle ----------------------------
(***************************************************************************)
(* What the queue promises to those who submit runs: a run is admitted     *)
(* once, queues, is worked on, and ends as completed, failed or canceled    *)
(* for good; work that was abandoned makes the run queue again; and only    *)
(* completed runs are ever chosen as official.  Workers, leases and        *)
(* program points do not show at this level.                               *)
(***************************************************************************)
CONSTANT Run

VARIABLES
  life,    \* how far each run has come
  chosen   \* the runs selected as official

Ended == {"completed", "failed", "canceled"}

Completed == {r \in Run : life[r] = "completed"}

Init ==
  /\ life = [r \in Run |-> "absent"]
  /\ chosen = {}

Move(r, from, to) ==
  /\ life[r] = from
  /\ life' = [life EXCEPT ![r] = to]

Admit(r) == Move(r, "absent", "queued") /\ UNCHANGED chosen

Withdraw(r) == Move(r, "queued", "canceled") /\ UNCHANGED chosen

Begin(r) == Move(r, "queued", "working") /\ UNCHANGED chosen

\* Abandoned runs, several at once, are queued again.
Requeue(S) ==
  /\ \A r \in S : life[r] = "working"
  /\ life' = [r \in Run |-> IF r \in S THEN "queued" ELSE life[r]]
  /\ UNCHANGED chosen

Fail(r) == Move(r, "working", "failed") /\ UNCHANGED chosen

\* A run may be chosen in the step that completes it.
Complete(r) ==
  /\ Move(r, "working", "completed")
  /\ chosen' \in {chosen, chosen \cup {r}}

\* The choice among completed runs changes; theirs is the only effect.
Choose ==
  /\ UNCHANGED life
  /\ chosen' \subseteq Completed

Next ==
  \/ Choose
  \/ \E r \in Run : \/ Admit(r) \/ Withdraw(r) \/ Begin(r)
                    \/ Fail(r) \/ Complete(r)
  \/ \E S \in SUBSET Run : Requeue(S)

Spec == Init /\ [][Next]_<<life, chosen>>
=============================================================================
