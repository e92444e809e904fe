---------------------------- MODULE PlayerSession ----------------------------
(***************************************************************************)
(* One player of a match: the session the match runner calls               *)
(* (session.go), over the adapter that runs the bot, as a child process    *)
(* (local_subprocess.go) or as a WebAssembly module (wasm_wasi.go).        *)
(*                                                                         *)
(* Four goroutines share the adapter's channels: the runner, in call or in *)
(* Close; readStdout, which decodes the bot's lines into the bounded       *)
(* channel `incoming`; the goroutine that waits for the bot's end and      *)
(* closes the channels; and the bot itself, which is external.  Calls are  *)
(* numbered; a request id (init, turn-N-player, game-over) is its number.  *)
(***************************************************************************)
EXTENDS Naturals, Sequences, FiniteSets

CONSTANTS
  MaxCalls,  \* calls of the runner in one match (bound)
  Cap,       \* capacity of incoming
  PipeCap,   \* lines an operating-system pipe holds (a child process only)
  MaxLines   \* lines the bot may write (bound)

ASSUME Bounds == /\ MaxCalls \in Nat \ {0} /\ Cap \in Nat \ {0}
                 /\ PipeCap \in Nat \ {0} /\ MaxLines \in Nat

VARIABLES
  kind,      \* the runtime the bot is declared for: "local" or "wasm"
  stdin,     \* requests written to the bot and not yet read by it
  heard,     \* requests the bot has read, in order
  written,   \* lines the bot has written, in order
  stdout,    \* those of them that wait in the pipe
  bot,       \* "running", or how it ended
  honest,    \* history: was every line the answer to the next request it had read?
  reader,    \* readStdout: the program point and the line in its hands
  incoming,  \* the channel of messages to the session
  closed,    \* is incoming closed?  It is closed right after done.
  phase,     \* the runner: between calls, in Send, in the select of call
  late,      \* Session.lateIDs
  ignored,   \* ignoredLateResponseIDs of the call in progress
  results,   \* the Results of the calls so far
  closing    \* where Close is

botVars     == <<kind, stdin, heard, written, stdout, bot, honest>>
readerVars  == <<reader, incoming, closed>>
sessionVars == <<phase, late, ignored, results>>
vars == <<botVars, readerVars, sessionVars, closing>>

Call == 1..MaxCalls

\* A line, and the message it becomes.  "answer" and "refusal" are responses
\* with a result and with an error object; "garbage" does not decode.  The
\* adapter adds "overflow" and "crash" (RuntimeError) itself.
Message == [kind : {"answer", "refusal", "garbage", "overflow", "crash"}, id : Call \cup {0}]
Notice(k) == [kind |-> k, id |-> 0]
Line    == [kind : {"answer", "refusal"}, id : Call] \cup {Notice("garbage")}

Outcome == {"accepted", "timeout", "malformed", "mismatched-id", "runtime-stopped"}

ReaderPoint == {"decode", "deliver", "report", "evict", "complain", "stopped", "panic"}

At(l) == [at |-> l, line |-> Notice("garbage")]

Init ==
  /\ kind \in {"local", "wasm"}
  /\ stdin = << >> /\ heard = << >> /\ written = << >> /\ stdout = << >>
  /\ bot = "running" /\ honest = TRUE
  /\ reader = At("decode") /\ incoming = << >> /\ closed = FALSE
  /\ phase = "idle" /\ late = {} /\ ignored = << >> /\ results = << >>
  /\ closing = "no"

-----------------------------------------------------------------------------
(* Session.call *)

Current == Len(results) + 1

BugReturnForgets(outcome, lateNow, reported) ==
  /\ results' = Append(results, [outcome |-> outcome, reported |-> reported])
  /\ late' = late
  /\ ignored' = << >>
  /\ phase' = "idle"

Return(outcome, lateNow, reported) ==
  /\ results' = Append(results, [outcome |-> outcome, reported |-> reported])
  /\ late' = lateNow
  /\ ignored' = << >>
  /\ phase' = "idle"

BeginCall ==
  /\ phase = "idle" /\ closing = "no" /\ Current \in Call
  /\ phase' = "send"
  /\ UNCHANGED <<botVars, readerVars, late, ignored, results, closing>>

\* A child's stdin is an operating-system pipe: Send returns once it has room.
\* A module's is an io.Pipe: Send returns when the module has read (BotReads).
Send ==
  /\ phase = "send" /\ kind = "local" /\ Len(stdin) < PipeCap
  /\ stdin' = Append(stdin, Current)
  /\ phase' = "wait"
  /\ UNCHANGED <<kind, heard, written, stdout, bot, honest, readerVars, late, ignored, results, closing>>

\* The bot has ended, and nobody can read the request.
SendFails ==
  /\ phase = "send" /\ bot # "running"
  /\ Return("runtime-stopped", late, << >>)
  /\ UNCHANGED <<botVars, readerVars, closing>>

\* A child that lives on may have closed its stdin.
SendRefused ==
  /\ phase = "send" /\ kind = "local"
  /\ Return("runtime-stopped", late, << >>)
  /\ UNCHANGED <<botVars, readerVars, closing>>

BugDeadlineAfterMessage ==
  /\ phase = "wait" /\ incoming # << >>
  /\ Return("timeout", late \cup {Current}, << >>)
  /\ UNCHANGED <<botVars, readerVars, closing>>

\* The deadline passes, or the match context ends.  The select may choose this
\* although a message is waiting.
Timeout ==
  /\ phase = "wait"
  /\ Return("timeout", late \cup {Current}, << >>)
  /\ UNCHANGED <<botVars, readerVars, closing>>

\* The response to a call that timed out: noted once, and the call goes on.
SetAside(m) ==
  /\ late' = late \ {m.id}
  /\ ignored' = Append(ignored, m.id)
  /\ UNCHANGED <<phase, results>>

Receive ==
  /\ phase = "wait" /\ incoming # << >>
  /\ incoming' = Tail(incoming)
  /\ LET m == Head(incoming)
         response == m.kind \in {"answer", "refusal"}
     IN
        \/ m.kind = "crash" /\ Return("runtime-stopped", late, << >>)
        \/ m.kind \in {"garbage", "overflow"} /\ Return("malformed", late, << >>)
        \/ response /\ m.id \in late /\ SetAside(m)
        \/ response /\ m.id \notin late /\ m.id # Current /\ Return("mismatched-id", late, << >>)
        \/ /\ response /\ m.id \notin late /\ m.id = Current
           /\ Return(IF m.kind = "answer" THEN "accepted" ELSE "malformed", late, ignored)
  /\ UNCHANGED <<botVars, reader, closed, closing>>

ReceiveClosed ==
  /\ phase = "wait" /\ incoming = << >> /\ closed
  /\ Return("runtime-stopped", late, << >>)
  /\ UNCHANGED <<botVars, readerVars, closing>>

-----------------------------------------------------------------------------
(* The bot (external).  Only its use of the pipes matters. *)

\* A module that waits for room in an io.Pipe can do nothing else.
Free == kind = "local" \/ stdout = << >>

BotReads ==
  /\ bot = "running" /\ Free
  /\ \/ /\ kind = "local" /\ stdin # << >>
        /\ heard' = Append(heard, Head(stdin))
        /\ stdin' = Tail(stdin)
        /\ UNCHANGED phase
     \/ /\ kind = "wasm" /\ phase = "send"
        /\ heard' = Append(heard, Current)
        /\ phase' = "wait"
        /\ UNCHANGED stdin
  /\ UNCHANGED <<kind, written, stdout, bot, honest, readerVars, late, ignored, results, closing>>

\* A response to the first request that the bot has read and not yet answered.
IsDue(line) ==
  /\ Len(written) < Len(heard)
  /\ line = [kind |-> "answer", id |-> heard[Len(written) + 1]]

BotWrites ==
  /\ bot = "running" /\ Free /\ Len(written) < MaxLines
  /\ kind = "local" => Len(stdout) < PipeCap
  /\ \E line \in Line :
       /\ written' = Append(written, line)
       /\ stdout' = Append(stdout, line)
       /\ honest' = (honest /\ IsDue(line))
  /\ UNCHANGED <<kind, stdin, heard, bot, readerVars, sessionVars, closing>>

\* The bot ends by itself, or because stdin ended, a signal came, or its
\* context was canceled.
BotExits ==
  /\ bot = "running" /\ Free
  /\ bot' \in {"ok", "error", "canceled"}
  /\ UNCHANGED <<kind, stdin, heard, written, stdout, honest, readerVars, sessionVars, closing>>

-----------------------------------------------------------------------------
(* readStdout *)

Decode ==
  /\ reader.at = "decode" /\ stdout # << >>
  /\ stdout' = Tail(stdout)
  /\ reader' = [at |-> IF Head(stdout).kind = "garbage" THEN "report" ELSE "deliver",
                line |-> Head(stdout)]
  /\ UNCHANGED <<kind, stdin, heard, written, bot, honest, incoming, closed, sessionVars, closing>>

\* End of file, or the file was closed under the reader by cmd.Wait.
EndOfStdout ==
  /\ reader.at = "decode"
  /\ (stdout = << >> /\ bot # "running") \/ closed
  /\ reader' = At("stopped")
  /\ UNCHANGED <<botVars, incoming, closed, sessionVars, closing>>

\* A send on a closed channel ends the whole program; what the other
\* goroutines would do next no longer matters.
SendOnClosed ==
  /\ reader.at \in {"deliver", "report", "complain"} /\ closed
  /\ reader' = At("panic")
  /\ UNCHANGED <<botVars, incoming, closed, sessionVars, closing>>

\* A full channel loses its oldest message to a complaint, and ends the reader.
Deliver ==
  /\ reader.at = "deliver" /\ ~closed
  /\ \/ /\ Len(incoming) < Cap
        /\ incoming' = Append(incoming, reader.line)
        /\ reader' = At("decode")
     \/ Len(incoming) = Cap /\ reader' = At("evict") /\ UNCHANGED incoming
  /\ UNCHANGED <<botVars, closed, sessionVars, closing>>

Evict ==
  /\ reader.at = "evict"
  /\ incoming' = IF incoming = << >> THEN << >> ELSE Tail(incoming)
  /\ reader' = At("complain")
  /\ UNCHANGED <<botVars, closed, sessionVars, closing>>

Complain ==
  /\ reader.at = "complain" /\ ~closed
  /\ incoming' = IF Len(incoming) < Cap THEN Append(incoming, Notice("overflow")) ELSE incoming
  /\ reader' = At("stopped")
  /\ UNCHANGED <<botVars, closed, sessionVars, closing>>

Report ==
  /\ reader.at = "report" /\ ~closed /\ Len(incoming) < Cap
  /\ incoming' = Append(incoming, Notice("garbage"))
  /\ reader' = At("stopped")
  /\ UNCHANGED <<botVars, closed, sessionVars, closing>>

-----------------------------------------------------------------------------
(* The end of the bot: waitForExit, and the module's goroutine *)

BugReapWithoutReader ==
  /\ kind = "local" /\ bot # "running" /\ ~closed
  /\ closed' = TRUE
  /\ UNCHANGED <<botVars, reader, incoming, sessionVars, closing>>

ReapChild ==
  /\ kind = "local" /\ reader.at = "stopped" /\ bot # "running" /\ ~closed
  /\ closed' = TRUE
  /\ UNCHANGED <<botVars, reader, incoming, sessionVars, closing>>

\* normalizeExit forgives a cancellation once Close has begun.
ExitErr == bot = "error" \/ (bot = "canceled" /\ closing = "no")

\* A line that decoded as a response sets decodedResponse.
Decoded == \E i \in DOMAIN written : written[i].kind # "garbage"

BugModuleEndsUnread ==
  /\ kind = "wasm" /\ bot # "running" /\ ~closed
  /\ \/ ~ExitErr /\ Decoded /\ UNCHANGED incoming
     \/ /\ ExitErr \/ ~Decoded
        /\ Len(incoming) < Cap
        /\ incoming' = Append(incoming, Notice("crash"))
  /\ closed' = TRUE
  /\ UNCHANGED <<botVars, reader, sessionVars, closing>>

\* The message about a failed module waits for room in incoming.
ModuleEnds ==
  /\ kind = "wasm" /\ reader.at = "stopped" /\ bot # "running" /\ ~closed
  /\ \/ ~ExitErr /\ Decoded /\ UNCHANGED incoming
     \/ /\ ExitErr \/ ~Decoded
        /\ Len(incoming) < Cap
        /\ incoming' = Append(incoming, Notice("crash"))
  /\ closed' = TRUE
  /\ UNCHANGED <<botVars, reader, sessionVars, closing>>

-----------------------------------------------------------------------------
(* Close *)

BeginClose ==
  /\ phase = "idle" /\ closing = "no"
  /\ closing' = IF closed THEN "returned" ELSE "grace"
  /\ UNCHANGED <<botVars, readerVars, sessionVars>>

\* done yields the exit.
CloseDone ==
  /\ closing \in {"grace", "interrupt", "kill"} /\ closed
  /\ closing' = "returned"
  /\ UNCHANGED <<botVars, readerVars, sessionVars>>

\* stdinCloseGracePeriod is over: SIGINT, or the module's context is canceled.
GraceEnds ==
  /\ closing = "grace" /\ ~closed
  /\ closing' = "interrupt"
  /\ UNCHANGED <<botVars, readerVars, sessionVars>>

BugForgetKill ==
  /\ closing = "interrupt"
  /\ closing' = "kill"
  /\ UNCHANGED <<botVars, readerVars, sessionVars>>

BugAbandonChild ==
  /\ closing = "interrupt"
  /\ closing' = "returned"
  /\ UNCHANGED <<botVars, readerVars, sessionVars>>

\* The shutdown context ends: a child is killed, a module is left to its cancellation.
ShutdownExpires ==
  /\ closing = "interrupt"
  /\ \/ /\ kind = "local"
        /\ bot' = IF bot = "running" THEN "error" ELSE bot
        /\ closing' = "kill"
     \/ kind = "wasm" /\ closing' = "returned" /\ UNCHANGED bot
  /\ UNCHANGED <<kind, stdin, heard, written, stdout, honest, readerVars, sessionVars>>

\* Close itself runs waitForExit, wherever the reader is.
ReapKilled ==
  /\ kind = "local" /\ closing = "kill" /\ bot # "running" /\ ~closed
  /\ closed' = TRUE
  /\ UNCHANGED <<botVars, reader, incoming, sessionVars, closing>>

-----------------------------------------------------------------------------
Session == Send \/ SendFails \/ Receive \/ ReceiveClosed
Reader  == Decode \/ EndOfStdout \/ SendOnClosed \/ Deliver \/ Evict \/ Complain \/ Report
Exit    == ReapChild \/ ModuleEnds
Close   == BeginClose \/ CloseDone \/ GraceEnds \/ ShutdownExpires \/ ReapKilled

\* The match is over: nothing is left to do.
Over == closing = "returned" /\ UNCHANGED vars

Next ==
  \/ BeginCall \/ Session \/ SendRefused \/ Timeout
  \/ BotReads \/ BotWrites \/ BotExits
  \/ Reader \/ Exit \/ Close
  \/ Over

Spec == Init /\ [][Next]_vars

\* Goroutines run and timers fire; nothing is assumed of the bot.
Fairness ==
  /\ WF_vars(Session) /\ WF_vars(Timeout) /\ WF_vars(Reader) /\ WF_vars(Exit)
  /\ WF_vars(CloseDone) /\ WF_vars(GraceEnds) /\ WF_vars(ShutdownExpires) /\ WF_vars(ReapKilled)

FairSpec == Spec /\ Fairness

-----------------------------------------------------------------------------
(* Properties *)

\* What the calls returned: how each ended, and the late responses it reported.
Returned == [outcome : Outcome, reported : Seq(Call)]

\* The channel never holds more than its capacity, and a call that is under way
\* has a request id of its own.
TypeOK ==
  /\ kind \in {"local", "wasm"}
  /\ stdin \in Seq(Call) /\ heard \in Seq(Call)
  /\ written \in Seq(Line) /\ stdout \in Seq(Line)
  /\ bot \in {"running", "ok", "error", "canceled"} /\ honest \in BOOLEAN
  /\ reader \in [at : ReaderPoint, line : Line]
  /\ incoming \in Seq(Message) /\ Len(incoming) <= Cap
  /\ closed \in BOOLEAN
  /\ phase \in {"idle", "send", "wait"}
  /\ phase # "idle" => Current \in Call
  /\ late \subseteq Call /\ ignored \in Seq(Call)
  /\ results \in Seq(Returned) /\ Len(results) <= MaxCalls
  /\ closing \in {"no", "grace", "interrupt", "kill", "returned"}

\* A bot that answers each request once and in order is never charged with a
\* protocol error, however late its answers come and whenever it ends: what
\* arrives after a timeout is set aside in a later call (lateIDs).  It holds for
\* as many calls as incoming has room for; beyond them the answers nobody waits
\* for could fill it.
HonestPlayer ==
  honest => \A i \in DOMAIN results :
    i <= Cap => results[i].outcome \in {"accepted", "timeout", "runtime-stopped"}

\* An answer that an honest bot wrote before it ended is never lost to the end:
\* no call whose answer was written returns runtime-stopped (the exit
\* goroutines wait for readStdout before they report and close).
AnswerSurvivesExit ==
  honest => \A i \in DOMAIN results :
    i <= Cap /\ results[i].outcome = "runtime-stopped" =>
      \A j \in DOMAIN written : written[j].id # i

\* Close of a child process returns only when the child has ended, whether it
\* left by itself, was interrupted, or had to be killed.
ClosedChildGone == kind = "local" /\ closing = "returned" => bot # "running"

\* The module's goroutine closes incoming after the last send on it, whatever
\* the bot has written and whoever is still receiving.
ModuleChannelSafe == kind = "wasm" => reader.at # "panic"

\* No goroutine of either adapter sends on incoming after it was closed.
NoSendOnClosed == reader.at # "panic"

\* Close returns, whatever the bot does with its pipes and its signals.
CloseReturns == closing = "grace" ~> closing = "returned"

\* A call whose request was sent returns, whatever the bot writes: late responses
\* and a channel that nobody closes do not keep it.
DeadlineEnforced == phase = "wait" ~> phase = "idle"

\* Every call returns: its deadline is enforced even in Send.
CallReturns == phase = "send" ~> phase = "idle"
=============================================================================
