----------------------------- MODULE MatchRunner -----------------------------
(***************************************************************************)
(* The runner of one match (match.go): it initializes the game master and  *)
(* the players, collects decisions step by step, and on every way out      *)
(* captures the final state, shuts everything down under one deadline and  *)
(* builds the record.                                                      *)
(*                                                                         *)
(* A player call is the interface of PlayerSession: it returns, with one   *)
(* of its outcomes.  The game master is external: any call of it may fail, *)
(* and it decides the steps.  The match context may end at any moment.     *)
(* Observers, resume state, payloads and diagnostic events are left out.   *)
(***************************************************************************)
EXTENDS Naturals, Sequences, FiniteSets

CONSTANTS
  NPlayers,       \* players, in submission order
  MaxTurns,       \* decision steps of the game (bound)
  ShutdownTicks,  \* shutdownDeadline: the budget of the whole way out
  GameOverTicks   \* the game_over deadline, sent as shutdown_after_ms

ASSUME PlayerBound == NPlayers \in Nat \ {0}
ASSUME TurnBound == MaxTurns \in Nat
ASSUME Deadlines == ShutdownTicks \in Nat \ {0} /\ GameOverTicks \in Nat \ {0}

VARIABLES
  ctx,      \* the match context: "live", "ended"
  pc,       \* where Run is
  at,       \* the player a loop of Run is at
  status,   \* Runner.status
  failed,   \* terminalErr # nil
  step,     \* the players of the step in progress
  call,     \* by player: the Turn call of this step
  turn,     \* steps handed out by the game master
  applied,  \* steps applied to it
  log,      \* the event log: kind, turn, player
  captured, \* did captureFinalState succeed?
  left,     \* ticks left of the shutdown context
  waited,   \* ticks the game_over call in progress has waited
  cut       \* players whose game_over call timed out before its deadline

game == <<step, call, turn, applied>>
out  == <<captured, left, waited, cut>>
vars == <<ctx, pc, at, status, failed, log, game, out>>

Player == 1..NPlayers
Reply  == {"accepted", "timeout", "protocol", "stopped"}

Event(k, t, p) == [kind |-> k, turn |-> t, player |-> p]

Init ==
  /\ ctx = "live" /\ pc = "master" /\ at = 1
  /\ status = "starting" /\ failed = FALSE
  /\ step = {} /\ call = [p \in Player |-> "none"] /\ turn = 0 /\ applied = 0
  /\ log = <<Event("match_started", 0, 0)>>
  /\ captured = FALSE /\ left = ShutdownTicks /\ waited = 0 /\ cut = {}

\* A canceled service run, a lost lease, or the match timeout.
ContextEnds ==
  /\ ctx = "live" /\ pc # "returned"
  /\ ctx' = "ended"
  /\ UNCHANGED <<pc, at, status, failed, log, game, out>>

-----------------------------------------------------------------------------
(* The ways out of Run *)

BugErrorWins ==
  /\ status' = "failed"
  /\ failed' = TRUE
  /\ pc' = "capture" /\ at' = 1

\* classifyTerminalError: an ended match context comes before any other error,
\* and an error that is itself a context error also counts as a cancellation.
Abort ==
  /\ status' \in {"canceled", "failed"}
  /\ ctx = "ended" => status' = "canceled"
  /\ failed' = TRUE
  /\ pc' = "capture" /\ at' = 1

Goto(l, p) == pc' = l /\ at' = p /\ UNCHANGED <<status, failed>>

-----------------------------------------------------------------------------
(* initializeSessions *)

InitializeMaster ==
  /\ pc = "master"
  /\ \/ Goto("init", 1) /\ log' = Append(log, Event("game_master_initialized", 0, 0))
     \/ Abort /\ log' = Append(log, Event("game_master_initialization_failed", 0, 0))
  /\ UNCHANGED <<ctx, game, out>>

InitializePlayer ==
  /\ pc = "init"
  /\ LET seen == Append(log, Event("session_initialized", 0, at)) IN
     \/ ctx = "ended" /\ Abort /\ log' = seen
     \/ /\ ctx = "live"
        /\ Abort /\ log' = Append(seen, Event("session_initialization_failed", 0, at))
     \/ /\ ctx = "live" /\ log' = seen
        /\ IF at = NPlayers THEN Goto("next", 1) ELSE Goto("init", at + 1)
  /\ UNCHANGED <<ctx, game, out>>

-----------------------------------------------------------------------------
(* runDecisionLoop *)

First(s) == CHOOSE p \in s : \A q \in s : p <= q

Requests(t, s) ==
  [i \in 1..Cardinality(s) |->
     Event("turn_requested", t, CHOOSE p \in s : Cardinality({q \in s : q <= p}) = i)]

\* The context is looked at before the game master is asked for a step.
CheckContext ==
  /\ pc = "next"
  /\ IF ctx = "ended" THEN Abort ELSE Goto("asking", 1)
  /\ UNCHANGED <<ctx, log, game, out>>

\* A failing game master, or a step it should not have asked for (a sequential
\* one with other than one request, an unknown mode).
NextFails ==
  /\ pc = "asking" /\ Abort
  /\ UNCHANGED <<ctx, log, game, out>>

\* The game master has no further step, even if the context ended meanwhile.
GameFinishes ==
  /\ pc = "asking"
  /\ status' = "completed"
  /\ pc' = "capture" /\ at' = 1
  /\ UNCHANGED <<ctx, failed, log, game, out>>

\* prepareTurn for every request, then one goroutine for each Turn call.  A
\* simultaneous step may ask nobody.
NextDecisionStep(s) ==
  /\ pc = "asking" /\ turn < MaxTurns
  /\ turn' = turn + 1
  /\ step' = s
  /\ call' = [p \in Player |-> IF p \in s THEN "out" ELSE "none"]
  /\ log' = log \o Requests(turn + 1, s)
  /\ Goto("collect", 1)
  /\ UNCHANGED <<ctx, applied, out>>

\* executeTurn looks at the context after the call.
TurnReturns(p) ==
  /\ pc = "collect" /\ call[p] = "out"
  /\ \E r \in Reply : call' = [call EXCEPT ![p] = IF ctx = "ended" THEN "canceled" ELSE r]
  /\ UNCHANGED <<ctx, pc, at, status, failed, log, step, turn, applied, out>>

BugCollectFirst ==
  /\ pc = "collect" /\ (step = {} \/ \E p \in step : call[p] # "out")
  /\ IF step = {} THEN Goto("apply", 1) ELSE Goto("record", First(step))
  /\ UNCHANGED <<ctx, log, game, out>>

\* wg.Wait.
Collected ==
  /\ pc = "collect" /\ \A p \in step : call[p] # "out"
  /\ IF step = {} THEN Goto("apply", 1) ELSE Goto("record", First(step))
  /\ UNCHANGED <<ctx, log, game, out>>

TurnEvent(r) ==
  CASE r = "accepted" -> "turn_result"
    [] r = "timeout"  -> "turn_timeout"
    [] r = "stopped"  -> "runtime_exited"
    [] OTHER          -> "protocol_error"

\* NormalizeAction and recordTurn, one player after the other.
RecordTurn ==
  /\ pc = "record"
  /\ \/ Abort /\ UNCHANGED log
     \/ /\ call[at] # "canceled"
        /\ log' = Append(log, Event(TurnEvent(call[at]), turn, at))
        /\ LET rest == {q \in step : q > at} IN
           IF rest = {} THEN Goto("apply", 1) ELSE Goto("record", First(rest))
  /\ UNCHANGED <<ctx, game, out>>

ApplyDecisionResults ==
  /\ pc = "apply"
  /\ \/ Abort /\ UNCHANGED applied
     \/ applied' = applied + 1 /\ Goto("next", 1)
  /\ UNCHANGED <<ctx, log, step, call, turn, out>>

-----------------------------------------------------------------------------
(* The deferred way out, under a context of its own *)

BugKeepCompleted ==
  /\ pc = "capture"
  /\ captured' \in BOOLEAN
  /\ Goto("player", 1)
  /\ UNCHANGED <<ctx, log, game, left, waited, cut>>

\* A match whose result cannot be read did not complete.
CaptureFinalState ==
  /\ pc = "capture"
  /\ pc' = "player" /\ at' = 1
  /\ \/ captured' = TRUE /\ UNCHANGED <<status, failed>>
     \/ /\ UNCHANGED captured
        /\ failed' = TRUE
        /\ status' = IF ~failed /\ status = "completed" THEN "failed" ELSE status
  /\ UNCHANGED <<ctx, log, game, left, waited, cut>>

BeginGameOver ==
  /\ pc = "player" /\ status = "completed"
  /\ waited' = 0
  /\ Goto("game_over", at)
  /\ UNCHANGED <<ctx, log, game, captured, left, cut>>

\* The player acknowledges, or fails to: it stopped, broke the protocol, its
\* deadline passed, or the shutdown context ended.
GameOverReturns ==
  /\ pc = "game_over"
  /\ \/ log' = Append(log, Event("game_over_sent", 0, at)) /\ UNCHANGED cut
     \/ log' = Append(log, Event("session_shutdown_failed", 0, at)) /\ UNCHANGED cut
     \/ /\ waited = GameOverTicks \/ left = 0
        /\ cut' = IF waited < GameOverTicks THEN cut \cup {at} ELSE cut
        /\ log' = Append(log, Event("session_shutdown_failed", 0, at))
  /\ Goto("close", at)
  /\ UNCHANGED <<ctx, game, captured, left, waited>>

SkipGameOver ==
  /\ pc = "player" /\ status # "completed"
  /\ Goto("close", at)
  /\ UNCHANGED <<ctx, log, game, out>>

BugStopAtFailure ==
  /\ pc = "close"
  /\ \/ /\ log' = log \o <<Event("session_shutdown_started", 0, at),
                           Event("session_shutdown_completed", 0, at)>>
        /\ IF at = NPlayers THEN Goto("master_out", 1) ELSE Goto("player", at + 1)
     \/ /\ log' = log \o <<Event("session_shutdown_started", 0, at),
                           Event("session_shutdown_failed", 0, at)>>
        /\ Goto("master_out", 1)
  /\ UNCHANGED <<ctx, game, out>>

\* A session that fails to close does not keep the others from it.
CloseSession ==
  /\ pc = "close"
  /\ \E k \in {"session_shutdown_completed", "session_shutdown_failed"} :
       log' = log \o <<Event("session_shutdown_started", 0, at), Event(k, 0, at)>>
  /\ IF at = NPlayers THEN Goto("master_out", 1) ELSE Goto("player", at + 1)
  /\ UNCHANGED <<ctx, game, out>>

ShutdownMaster ==
  /\ pc = "master_out"
  /\ \E k \in {"game_master_shutdown_completed", "game_master_shutdown_failed"} :
       log' = log \o <<Event("game_master_shutdown_started", 0, 0), Event(k, 0, 0)>>
  /\ Goto("emit", 1)
  /\ UNCHANGED <<ctx, game, out>>

TerminalEvent(s) == CASE s = "completed" -> "match_completed"
                      [] s = "canceled"  -> "match_canceled"
                      [] OTHER           -> "match_failed"

\* emitTerminalEvent and buildRecord; Run returns.
EmitTerminal ==
  /\ pc = "emit"
  /\ log' = Append(log, Event(TerminalEvent(status), 0, 0))
  /\ Goto("returned", 1)
  /\ UNCHANGED <<ctx, game, out>>

\* Time passes in the calls that wait on the shutdown context.
ShutdownTick ==
  /\ pc \in {"capture", "game_over", "close", "master_out"} /\ left > 0
  /\ left' = left - 1
  /\ waited' = IF pc = "game_over" THEN waited + 1 ELSE waited
  /\ waited' <= GameOverTicks
  /\ UNCHANGED <<ctx, pc, at, status, failed, log, game, captured, cut>>

-----------------------------------------------------------------------------
Run ==
  \/ InitializeMaster \/ InitializePlayer
  \/ CheckContext \/ NextFails \/ GameFinishes \/ \E s \in SUBSET Player : NextDecisionStep(s)
  \/ \E p \in Player : TurnReturns(p)
  \/ Collected \/ RecordTurn \/ ApplyDecisionResults
  \/ CaptureFinalState \/ BeginGameOver \/ GameOverReturns \/ SkipGameOver
  \/ CloseSession \/ ShutdownMaster \/ EmitTerminal

Returned == pc = "returned" /\ UNCHANGED vars

Next == Run \/ ContextEnds \/ ShutdownTick \/ Returned

Spec == Init /\ [][Next]_vars

-----------------------------------------------------------------------------
(* Properties *)

Count(k, t, p) == Cardinality({i \in DOMAIN log : log[i] = Event(k, t, p)})

TurnEvents == {"turn_result", "turn_timeout", "protocol_error", "runtime_exited"}

Settled(t, p) ==
  Cardinality({i \in DOMAIN log : log[i].kind \in TurnEvents /\ log[i].turn = t /\ log[i].player = p})

\* A record that says completed is whole: every step was applied, and every
\* request in the log has exactly one result, which replay relies on, whichever
\* order the players answered in and whenever the context ended.
CompletedIsWhole ==
  pc = "returned" /\ status = "completed" =>
    /\ captured /\ applied = turn
    /\ \A t \in 1..turn, p \in Player : Settled(t, p) = Count("turn_requested", t, p)

\* Every session is shut down once, however the match ended and whoever of the
\* others failed to close.
EverySessionClosed ==
  pc = "returned" => \A p \in Player : Count("session_shutdown_started", 0, p) = 1

\* Once the match context has ended, a match that had not reached its end is
\* not blamed on anyone: whatever player or game master errors come with it, it
\* never fails, and it completes only if the game master, already asked, had no
\* further step; a player's call is never taken for an answer.
CancellationWins ==
  [][ctx = "ended" /\ status = "starting" =>
       /\ status' # "failed"
       /\ status' = "completed" => pc = "asking"
       /\ \A p \in Player : call'[p] # call[p] => call'[p] \in {"out", "none", "canceled"}]_vars

\* Results reach the game master only for a whole step: nobody is still asked.
AppliedWhole ==
  [][applied' # applied =>
       \A p \in step : call[p] \in Reply /\ Settled(turn, p) = 1]_vars

\* A game_over call is given up for silence only after the time it announced.
GameOverDeadlineKept == cut = {}
=============================================================================
