-------------------------- MODULE GameMasterSession --------------------------
(***************************************************************************)
(* A game master that runs as a sidecar (gamemaster.go): the session of    *)
(* the match runner sends numbered JSON-RPC requests to a process or WASI  *)
(* module and takes responses from the channel of the runtime adapter; the *)
(* sidecars (cmd/janken-gamemaster, cmd/echo-count-gamemaster) serve one   *)
(* request after the other.                                                *)
(*                                                                         *)
(* A call that its context ends does not wait for the response, which then *)
(* stays in the channel for the next call.  The runner makes the calls in  *)
(* the order of match.go (see MatchRunner, where each of them just fails   *)
(* or does not).  The game is its turn counter: one request a turn.        *)
(* Send is assumed not to block.  It precedes the select on the context,   *)
(* and the stdin of a WASI sidecar is an unbuffered io.Pipe: a module that *)
(* does not read would hold Send, and the runner with it, until it ends.   *)
(***************************************************************************)
EXTENDS Naturals, Sequences

CONSTANTS ResumeTurn,   \* the turn of the snapshot a match starts from
          Turns         \* turns to play from there

ASSUME TurnsAssumption == ResumeTurn \in Nat /\ Turns \in Nat

VARIABLES
    ctx, shutdown,   \* have the match context and the shutdown context ended?
    pc,              \* the operation the runner is at
    todo,            \* the methods this operation has still to call
    nextID,          \* the session's request counter
    waiting,         \* the id of the call in progress, or 0
    initialized,     \* the session's memo of InitializeMatch
    inbox, outbox,   \* requests to the sidecar, responses in the channel
    up,              \* is the sidecar running?
    master,          \* has the sidecar a match?
    turn, asked,     \* its game: turns applied, and is a step out?
    acked,           \* turns the runner saw applied
    completed,       \* has the runner seen the end of the game?
    captured,        \* what captureFinalState has read
    abandoned,       \* has a call been left by its context?
    closed           \* has the runtime adapter been closed?

client == <<pc, todo, nextID, waiting, initialized, acked, completed, captured, abandoned, closed>>
sidecar == <<up, master, turn, asked>>
vars == <<ctx, shutdown, client, inbox, outbox, sidecar>>

-----------------------------------------------------------------------------

Captures == {"current_snapshot", "current_exported_snapshot", "current_result"}
Methods == Captures \cup {"metadata", "initialize_match", "next_decision_step",
              "normalize_action", "apply_decision_results", "current_public_replay", "shutdown"}

\* The operations of the way out, which run under the shutdown context.
Closing == Captures \cup {"current_public_replay", "shutdown"}

NotRead == ResumeTurn + Turns + 1

BugInitialize(known) == <<"metadata", "initialize_match">>

\* InitializeMatch is memoised: the queries call it first, and only the very
\* first call of it reaches the sidecar.
Initialize(known) == IF known THEN <<>> ELSE <<"metadata", "initialize_match">>

\* The methods an operation calls; known: is the match initialized when it begins?
Operation(op, known) ==
    CASE op = "init" -> Initialize(known)
      [] op = "next" -> <<"next_decision_step">>
      [] op = "normalize" -> <<"normalize_action">>
      [] op = "apply" -> <<"apply_decision_results">>
      [] op = "publish" -> Initialize(known) \o <<"current_exported_snapshot">>
      [] op \in Captures \cup {"current_public_replay"} -> Initialize(known) \o <<op>>
      [] op = "shutdown" -> <<"shutdown">>
      [] OTHER -> <<>>

Goto(op, known) == pc' = op /\ todo' = Operation(op, known)

Init ==
    /\ ctx = FALSE /\ shutdown = FALSE
    /\ pc = "init" /\ todo = <<"metadata", "initialize_match">>
    /\ nextID = 0 /\ waiting = 0 /\ initialized = FALSE
    /\ inbox = <<>> /\ outbox = <<>>
    /\ up = TRUE /\ master = FALSE /\ turn = 0 /\ asked = FALSE
    /\ acked = 0 /\ completed = FALSE /\ captured = [c \in Captures |-> NotRead]
    /\ abandoned = FALSE /\ closed = FALSE

-----------------------------------------------------------------------------
(* The runner's way through its operations *)

\* Where the runner goes after an operation that failed: a failed publish is
\* ignored, a failed capture ends the capture, anything else ends the match.
AfterFailure == CASE pc = "publish" -> "check"
                  [] pc \in Captures \cup {"current_public_replay"} -> "shutdown"
                  [] pc = "shutdown" -> "close"
                  [] OTHER -> "current_snapshot"

AfterSuccess(more) == CASE pc = "init" -> "publish"
                        [] pc = "publish" -> "check"
                        [] pc = "next" -> IF more THEN "normalize" ELSE "current_snapshot"
                        [] pc = "normalize" -> "apply"
                        [] pc = "apply" -> "publish"
                        [] pc = "current_snapshot" -> "current_exported_snapshot"
                        [] pc = "current_exported_snapshot" -> "current_result"
                        [] pc = "current_result" /\ completed -> "current_public_replay"
                        [] pc = "current_result" /\ ~completed -> "shutdown"
                        [] pc = "current_public_replay" -> "shutdown"
                        [] pc = "shutdown" -> "close"

Fail ==
    /\ Goto(AfterFailure, initialized)
    /\ waiting' = 0
    /\ UNCHANGED <<initialized, acked, completed, captured>>

\* runDecisionLoop looks at the context before it asks for the next step.
CheckContext ==
    /\ pc = "check"
    /\ Goto(IF ctx THEN "current_snapshot" ELSE "next", initialized)
    /\ UNCHANGED <<ctx, shutdown, nextID, waiting, initialized, acked, completed, captured, abandoned, closed,
                   inbox, outbox, sidecar>>

\* Session.Shutdown closes the adapter whatever became of the shutdown call.
CloseAdapter ==
    /\ pc = "close"
    /\ closed' = TRUE /\ up' = FALSE
    /\ Goto("done", initialized)
    /\ UNCHANGED <<ctx, shutdown, nextID, waiting, initialized, acked, completed, captured, abandoned,
                   inbox, outbox, master, turn, asked>>

-----------------------------------------------------------------------------
(* localSubprocessSession.call *)

\* Send to a sidecar that is gone fails, or its error is not seen yet.
Send ==
    /\ todo # <<>> /\ waiting = 0
    /\ nextID' = nextID + 1
    /\ \/ /\ waiting' = nextID + 1
          /\ inbox' = Append(inbox, [id |-> nextID + 1, method |-> Head(todo)])
          /\ UNCHANGED <<pc, todo, initialized, acked, completed, captured>>
       \/ ~up /\ Fail /\ UNCHANGED inbox
    /\ UNCHANGED <<ctx, shutdown, abandoned, closed, outbox, sidecar>>

BugMatchResponseID(id, r) == TRUE

MatchResponseID(id, r) == r.id = id

Succeed(r) ==
    LET m == Head(todo) IN
    /\ waiting' = 0
    /\ initialized' = (initialized \/ m = "initialize_match")
    /\ acked' = IF m = "apply_decision_results" THEN acked + 1 ELSE acked
    /\ completed' = (completed \/ (pc = "next" /\ ~r.more))
    /\ captured' = IF pc \in Captures /\ m = pc THEN [captured EXCEPT ![pc] = r.turn] ELSE captured
    /\ IF Len(todo) > 1 THEN todo' = Tail(todo) /\ UNCHANGED pc
       ELSE Goto(AfterSuccess(r.more), initialized')

\* The next response in the channel, whichever call it answers.  Metadata that
\* is not compatible ends the initialization.
TakeResponse ==
    /\ waiting # 0 /\ outbox # <<>>
    /\ outbox' = Tail(outbox)
    /\ LET r == Head(outbox) IN
       \/ MatchResponseID(waiting, r) /\ r.ok /\ Succeed(r)
       \/ /\ ~MatchResponseID(waiting, r) \/ ~r.ok \/ Head(todo) = "metadata"
          /\ Fail
    /\ UNCHANGED <<ctx, shutdown, nextID, abandoned, closed, inbox, sidecar>>

RuntimeStopped ==
    /\ waiting # 0 /\ outbox = <<>> /\ ~up
    /\ Fail
    /\ UNCHANGED <<ctx, shutdown, nextID, abandoned, closed, inbox, outbox, sidecar>>

BugContextEnded == shutdown /\ pc \in Closing

\* The last calls run under the shutdown context, the others under the match's.
ContextEnded == IF pc \in Closing THEN shutdown ELSE ctx

\* ctx.Done, even with a response at hand: the response stays.
Abandon ==
    /\ waiting # 0 /\ ContextEnded
    /\ Fail
    /\ abandoned' = TRUE
    /\ UNCHANGED <<ctx, shutdown, nextID, closed, inbox, outbox, sidecar>>

MatchContextEnds ==
    /\ ~ctx /\ ctx' = TRUE
    /\ UNCHANGED <<shutdown, client, inbox, outbox, sidecar>>

ShutdownDeadline ==
    /\ ~shutdown /\ pc \in Closing
    /\ shutdown' = TRUE
    /\ UNCHANGED <<ctx, client, inbox, outbox, sidecar>>

-----------------------------------------------------------------------------
(* The sidecar *)

Answer(ok, more, t) ==
    outbox' = Append(outbox, [id |-> Head(inbox).id, ok |-> ok, more |-> more, turn |-> t])

BugRefuse ==
    /\ Answer(FALSE, FALSE, turn)
    /\ turn' = IF Head(inbox).method = "apply_decision_results" /\ asked THEN turn + 1 ELSE turn
    /\ UNCHANGED <<up, master, asked>>

\* A handler that fails leaves the game alone.
Refuse == Answer(FALSE, FALSE, turn) /\ UNCHANGED <<up, master, turn, asked>>

InitializeMatch ==
    /\ Head(inbox).method = "initialize_match"
    /\ master' = TRUE /\ turn' = ResumeTurn /\ asked' = FALSE
    /\ Answer(TRUE, FALSE, ResumeTurn)
    /\ UNCHANGED up

NextDecisionStep ==
    /\ Head(inbox).method = "next_decision_step" /\ master
    /\ asked' = (turn < ResumeTurn + Turns)
    /\ Answer(TRUE, asked', turn)
    /\ UNCHANGED <<up, master, turn>>

ApplyDecisionResults ==
    /\ Head(inbox).method = "apply_decision_results" /\ master /\ asked
    /\ turn' = turn + 1 /\ asked' = FALSE
    /\ Answer(TRUE, FALSE, turn')
    /\ UNCHANGED <<up, master>>

Query ==
    /\ \/ Head(inbox).method = "metadata"
       \/ master /\ Head(inbox).method \in Captures \cup {"normalize_action"}
    /\ Answer(TRUE, FALSE, turn)
    /\ UNCHANGED <<up, master, turn, asked>>

ShutdownRequest ==
    /\ Head(inbox).method = "shutdown"
    /\ up' = FALSE
    /\ Answer(TRUE, FALSE, turn)
    /\ UNCHANGED <<master, turn, asked>>

\* The sidecar's loop: one request, one response, then the next.
Serve ==
    /\ up /\ inbox # <<>>
    /\ inbox' = Tail(inbox)
    /\ \/ InitializeMatch \/ NextDecisionStep \/ ApplyDecisionResults \/ Query \/ ShutdownRequest
       \/ Head(inbox).method # "shutdown" /\ Refuse
    /\ UNCHANGED <<ctx, shutdown, client>>

\* It crashes, or the end of the match context ends its WASI module.
Exit ==
    /\ up /\ up' = FALSE
    /\ UNCHANGED <<ctx, shutdown, client, inbox, outbox, master, turn, asked>>

-----------------------------------------------------------------------------

Step == CheckContext \/ CloseAdapter \/ Send \/ TakeResponse \/ RuntimeStopped

Next == Step \/ Abandon \/ MatchContextEnds \/ ShutdownDeadline \/ Serve \/ Exit

\* The runner's goroutine runs and contexts with a deadline end.  The sidecar
\* owes nothing: it may hang.
Spec == Init /\ [][Next]_vars /\ WF_vars(Step) /\ WF_vars(Abandon) /\ WF_vars(ShutdownDeadline)

-----------------------------------------------------------------------------
Operations == {"init", "publish", "check", "next", "normalize", "apply"} \cup Closing
                 \cup {"close", "done"}
Requests  == [id : Nat, method : Methods]
Responses == [id : Nat, ok : BOOLEAN, more : BOOLEAN, turn : Nat]

TypeOK ==
    /\ {ctx, shutdown, initialized, completed, abandoned, closed, up, master, asked} \subseteq BOOLEAN
    /\ pc \in Operations /\ todo \in Seq(Methods)
    /\ nextID \in Nat /\ waiting \in {0, nextID}
    /\ inbox \in Seq(Requests) /\ outbox \in Seq(Responses)
    /\ turn \in Nat /\ acked \in Nat /\ captured \in [Captures -> Nat]

-----------------------------------------------------------------------------
(* Properties *)

\* A snapshot, exported snapshot or result that captureFinalState could read is
\* the game after exactly the turns the runner saw applied: an answer left in
\* the channel never passes for it, and no apply lies between two of them.
CaptureIsAcknowledged ==
    \A c \in Captures : captured[c] # NotRead => captured[c] = ResumeTurn + acked

\* The sidecar is never more than the apply in progress ahead of the runner, and
\* never behind: a match is not started over by the queries that initialize it.
SidecarInStep == initialized => turn \in {ResumeTurn + acked, ResumeTurn + acked + 1}

\* Once a call was abandoned, no call of the session succeeds any more: every
\* response comes one call late and is refused by its id.
NothingAfterAbandon ==
    [][abandoned /\ waiting # 0 /\ waiting' = 0 =>
           pc' = AfterFailure /\ todo' = Operation(AfterFailure, initialized)]_vars

\* A hanging sidecar keeps the runner no longer than its contexts.
RunnerEnds == ctx ~> pc = "done"

=============================================================================
