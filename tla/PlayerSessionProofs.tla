------------------------- MODULE PlayerSessionProofs -------------------------
(* What Close and the channels of PlayerSession guarantee, for every capacity, *)
(* any number of calls and any bot.                                            *)
EXTENDS PlayerSession, Integers, TLAPS

\* incoming is closed, and a child is beyond the kill, only when the bot has
\* ended; Close returns from a child only after incoming was closed.
EndedInv ==
  /\ kind \in {"local", "wasm"}
  /\ closed => bot # "running"
  /\ closing = "kill" => bot # "running"
  /\ kind = "local" /\ closing = "returned" => bot # "running"

LEMMA EndedInit == Init => EndedInv
  BY DEF Init, EndedInv

LEMMA EndedStep == EndedInv /\ [Next]_vars => EndedInv'
<1> SUFFICES ASSUME EndedInv, [Next]_vars PROVE EndedInv'
  OBVIOUS
<1> USE DEF EndedInv
<1>1. CASE UNCHANGED <<kind, bot, closed, closing>>
  BY <1>1
<1>2. CASE BotExits
  BY <1>2 DEF BotExits, readerVars
<1>3. CASE ReapChild
  BY <1>3 DEF ReapChild, botVars
<1>4. CASE ModuleEnds
  BY <1>4 DEF ModuleEnds, botVars
<1>5. CASE ReapKilled
  BY <1>5 DEF ReapKilled, botVars
<1>6. CASE BeginClose
  BY <1>6 DEF BeginClose, botVars, readerVars
<1>7. CASE CloseDone
  BY <1>7 DEF CloseDone, botVars, readerVars
<1>8. CASE GraceEnds
  BY <1>8 DEF GraceEnds, botVars, readerVars
<1>9. CASE ShutdownExpires
  BY <1>9 DEF ShutdownExpires, readerVars
<1>10. CASE BeginCall \/ Session \/ SendRefused \/ Timeout
  <2>1. UNCHANGED <<kind, bot, closed, closing>>
    BY <1>10 DEF BeginCall, Session, Send, SendFails, SendRefused, Receive, ReceiveClosed, Timeout,
                 botVars, readerVars
  <2> QED
    BY <2>1, <1>1
<1>11. CASE BotReads \/ BotWrites
  BY <1>11, <1>1 DEF BotReads, BotWrites, botVars, readerVars
<1>12. CASE Reader
  <2>1. UNCHANGED <<kind, bot, closed, closing>>
    BY <1>12 DEF Reader, Decode, EndOfStdout, SendOnClosed, Deliver, Evict, Complain, Report, botVars
  <2> QED
    BY <2>1, <1>1
<1>13. CASE Over \/ UNCHANGED vars
  BY <1>13, <1>1 DEF Over, vars, botVars, readerVars
<1> QED
  BY <1>2, <1>3, <1>4, <1>5, <1>6, <1>7, <1>8, <1>9, <1>10, <1>11, <1>12, <1>13
  DEF Next, Exit, Close

\* However Close comes to an end, the child process has ended before it.
THEOREM ChildrenAreReaped == Spec => []ClosedChildGone
<1>1. EndedInv => ClosedChildGone
  BY DEF EndedInv, ClosedChildGone
<1> QED
  BY <1>1, EndedInit, EndedStep, PTL DEF Spec

-----------------------------------------------------------------------------
\* The module's goroutine closes incoming only after readStdout has returned.
ReaderFirst ==
  kind = "wasm" => reader.at # "panic" /\ (closed => reader.at = "stopped")

LEMMA ReaderFirstInit == Init => ReaderFirst
  BY DEF Init, ReaderFirst, At

LEMMA ReaderFirstStep == ReaderFirst /\ [Next]_vars => ReaderFirst'
<1> SUFFICES ASSUME ReaderFirst, [Next]_vars PROVE ReaderFirst'
  OBVIOUS
<1> USE DEF ReaderFirst
<1>1. CASE UNCHANGED <<kind, reader, closed>>
  BY <1>1
<1>2. CASE Reader
  BY <1>2 DEF Reader, Decode, EndOfStdout, SendOnClosed, Deliver, Evict, Complain, Report, At, botVars
<1>3. CASE Exit
  BY <1>3 DEF Exit, ReapChild, ModuleEnds, botVars
<1>4. CASE Close
  BY <1>4, <1>1 DEF Close, BeginClose, CloseDone, GraceEnds, ShutdownExpires, ReapKilled,
                    botVars, readerVars
<1>5. CASE BeginCall \/ Session \/ SendRefused \/ Timeout
  BY <1>5, <1>1 DEF BeginCall, Session, Send, SendFails, SendRefused, Receive, ReceiveClosed, Timeout,
                    botVars, readerVars
<1>6. CASE BotReads \/ BotWrites \/ BotExits
  BY <1>6, <1>1 DEF BotReads, BotWrites, BotExits, botVars, readerVars
<1>7. CASE Over \/ UNCHANGED vars
  BY <1>7, <1>1 DEF Over, vars, botVars, readerVars
<1> QED
  BY <1>2, <1>3, <1>4, <1>5, <1>6, <1>7 DEF Next

\* The adapter of a module never sends on its closed channel, whatever the bot
\* writes and whenever it ends.  (The adapter of a child process can.)
THEOREM ModulesNeverPanic == Spec => []ModuleChannelSafe
<1>1. ReaderFirst => ModuleChannelSafe
  BY DEF ReaderFirst, ModuleChannelSafe
<1> QED
  BY <1>1, ReaderFirstInit, ReaderFirstStep, PTL DEF Spec

-----------------------------------------------------------------------------
LEMMA Notices ==
  /\ Line \subseteq Message
  /\ \A k \in {"garbage", "overflow", "crash"} : Notice(k) \in Message
  /\ \A l \in ReaderPoint : At(l) \in [at : ReaderPoint, line : Line]
BY DEF Line, Message, Notice, At, ReaderPoint, Call

\* What a response leaves: its call ends with one more result, or goes on.
LEMMA Returns ==
  ASSUME TypeOK, phase # "idle",
         NEW o \in Outcome, NEW l \in SUBSET Call, NEW r \in Seq(Call),
         Return(o, l, r)
  PROVE  /\ phase' = "idle" /\ late' \subseteq Call /\ ignored' \in Seq(Call)
         /\ results' \in Seq(Returned) /\ Len(results') <= MaxCalls
<1>1. [outcome |-> o, reported |-> r] \in Returned
  BY DEF Returned
<1>2. Len(results) \in Nat /\ Len(results') = Len(results) + 1 /\ results' \in Seq(Returned)
  BY <1>1 DEF TypeOK, Return
<1> QED
  BY <1>2, Bounds DEF TypeOK, Return, Current, Call

LEMMA EmptySeq ==
  ASSUME NEW S
  PROVE  << >> \in Seq(S) /\ Len(<< >>) = 0
OBVIOUS

LEMMA Appended ==
  ASSUME NEW S, NEW s \in Seq(S), NEW e \in S
  PROVE  Append(s, e) \in Seq(S) /\ Len(Append(s, e)) = Len(s) + 1 /\ Len(s) \in Nat
OBVIOUS

LEMMA Taken ==
  ASSUME NEW S, NEW s \in Seq(S), s # << >>
  PROVE  Head(s) \in S /\ Tail(s) \in Seq(S) /\ Len(Tail(s)) < Len(s) /\ Len(s) \in Nat
OBVIOUS

LEMMA TypeInit == Init => TypeOK
<1> SUFFICES ASSUME Init PROVE TypeOK
  OBVIOUS
<1>1. reader \in [at : ReaderPoint, line : Line]
  BY Notices DEF Init, ReaderPoint
<1>2. Len(incoming) <= Cap /\ Len(results) <= MaxCalls
  BY EmptySeq, Bounds DEF Init
<1>3. /\ stdin \in Seq(Call) /\ heard \in Seq(Call) /\ ignored \in Seq(Call)
      /\ written \in Seq(Line) /\ stdout \in Seq(Line)
      /\ incoming \in Seq(Message) /\ results \in Seq(Returned)
  BY EmptySeq DEF Init
<1> QED
  BY <1>1, <1>2, <1>3 DEF Init, TypeOK

\* A call writes the session, and stdin when it sends to a child.
LEMMA CallType ==
  ASSUME TypeOK, BeginCall \/ Session \/ SendRefused \/ Timeout
  PROVE  TypeOK'
<1>1. CASE BeginCall
  BY <1>1 DEF BeginCall, TypeOK, Current, botVars, readerVars
<1>2. CASE Send
  BY <1>2 DEF Send, TypeOK, Current, readerVars
<1>3. CASE SendFails \/ SendRefused \/ Timeout \/ ReceiveClosed
  <2>1. /\ phase # "idle"
        /\ \/ Return("runtime-stopped", late, << >>)
           \/ Return("timeout", late \cup {Current}, << >>)
    BY <1>3 DEF SendFails, SendRefused, Timeout, ReceiveClosed
  <2>2. UNCHANGED <<botVars, readerVars, closing>>
    BY <1>3 DEF SendFails, SendRefused, Timeout, ReceiveClosed
  <2>3. {"runtime-stopped", "timeout"} \subseteq Outcome
    BY DEF Outcome
  <2>4. {late, late \cup {Current}} \subseteq SUBSET Call
    BY <2>1 DEF TypeOK
  <2>5. /\ phase' = "idle" /\ late' \subseteq Call /\ ignored' \in Seq(Call)
        /\ results' \in Seq(Returned) /\ Len(results') <= MaxCalls
    BY <2>1, <2>3, <2>4, EmptySeq, Returns
  <2> QED
    BY <2>2, <2>5 DEF TypeOK, botVars, readerVars
<1>4. CASE Receive
  <2>1. /\ phase # "idle" /\ Head(incoming) \in Message
        /\ incoming' \in Seq(Message) /\ Len(incoming') <= Cap
    BY <1>4, Bounds DEF Receive, TypeOK
  <2>2. UNCHANGED <<botVars, reader, closed, closing>>
    BY <1>4 DEF Receive
  <2>3. \/ SetAside(Head(incoming)) /\ Head(incoming).id \in late
        \/ \E o \in {"runtime-stopped", "malformed", "mismatched-id", "accepted"}, r \in {<< >>, ignored} :
             Return(o, late, r)
    BY <1>4 DEF Receive
  <2>4. CASE SetAside(Head(incoming)) /\ Head(incoming).id \in late
    BY <2>1, <2>2, <2>4 DEF SetAside, TypeOK, Current, botVars
  <2>5. CASE \E o \in {"runtime-stopped", "malformed", "mismatched-id", "accepted"}, r \in {<< >>, ignored} :
               Return(o, late, r)
    <3>1. {"runtime-stopped", "malformed", "mismatched-id", "accepted"} \subseteq Outcome
      BY DEF Outcome
    <3>2. {<< >>, ignored} \subseteq Seq(Call) /\ late \in SUBSET Call
      BY EmptySeq DEF TypeOK
    <3>3. /\ phase' = "idle" /\ late' \subseteq Call /\ ignored' \in Seq(Call)
          /\ results' \in Seq(Returned) /\ Len(results') <= MaxCalls
      BY <2>1, <2>5, <3>1, <3>2, Returns
    <3> QED
      BY <2>1, <2>2, <3>3 DEF TypeOK, botVars
  <2> QED
    BY <2>3, <2>4, <2>5
<1> QED
  BY <1>1, <1>2, <1>3, <1>4 DEF Session

\* The bot moves lines along its pipes.
LEMMA BotType ==
  ASSUME TypeOK, BotReads \/ BotWrites \/ BotExits
  PROVE  TypeOK'
<1>1. CASE BotReads
  <2>1. stdin' \in Seq(Call) /\ heard' \in Seq(Call)
    <3>1. /\ stdin # << >>
          /\ heard' = Append(heard, Head(stdin))
          /\ stdin' = Tail(stdin)
          => stdin' \in Seq(Call) /\ heard' \in Seq(Call)
      BY Taken, Appended DEF TypeOK
    <3>2. phase = "send" /\ heard' = Append(heard, Current) /\ stdin' = stdin
          => stdin' \in Seq(Call) /\ heard' \in Seq(Call)
      BY Appended DEF TypeOK
    <3> QED
      BY <1>1, <3>1, <3>2 DEF BotReads
  <2>2. phase' \in {"send", "wait", phase} /\ (phase' # "idle" => phase # "idle")
    BY <1>1 DEF BotReads
  <2> QED
    BY <1>1, <2>1, <2>2 DEF BotReads, TypeOK, Current, readerVars
<1>2. CASE BotWrites
  BY <1>2 DEF BotWrites, TypeOK, Current, readerVars, sessionVars
<1>3. CASE BotExits
  BY <1>3 DEF BotExits, TypeOK, Current, readerVars, sessionVars
<1> QED
  BY <1>1, <1>2, <1>3

\* The reader moves one line from stdout into the channel, or ends.
LEMMA ReaderType ==
  ASSUME TypeOK, Reader
  PROVE  TypeOK'
<1>1. UNCHANGED <<kind, stdin, heard, written, bot, honest, closed, sessionVars, closing>>
  BY DEF Reader, Decode, EndOfStdout, SendOnClosed, Deliver, Evict, Complain, Report, botVars
<1>2. stdout' \in Seq(Line)
  <2>1. UNCHANGED stdout \/ (stdout # << >> /\ stdout' = Tail(stdout))
    BY DEF Reader, Decode, EndOfStdout, SendOnClosed, Deliver, Evict, Complain, Report, botVars
  <2>2. stdout \in Seq(Line)
    BY DEF TypeOK
  <2> QED
    BY <2>1, <2>2, Taken
<1>3. reader' \in [at : ReaderPoint, line : Line]
  <2>1. CASE Decode
    <3>1. Head(stdout) \in Line
      BY <2>1 DEF Decode, TypeOK
    <3> QED
      BY <2>1, <3>1 DEF Decode, ReaderPoint
  <2>2. CASE UNCHANGED reader \/ \E l \in ReaderPoint : reader' = At(l)
    BY <2>2, Notices DEF TypeOK
  <2> QED
    BY <2>1, <2>2
    DEF Reader, EndOfStdout, SendOnClosed, Deliver, Evict, Complain, Report, ReaderPoint
<1>4. incoming' \in Seq(Message) /\ Len(incoming') <= Cap
  <2>1. CASE UNCHANGED incoming
    BY <2>1 DEF TypeOK
  <2>2. CASE /\ incoming # << >>
             /\ incoming' = Tail(incoming)
    BY <2>2, Bounds DEF TypeOK
  <2>3. CASE /\ Len(incoming) < Cap
             /\ \E m \in Message : incoming' = Append(incoming, m)
    BY <2>3, Bounds DEF TypeOK
  <2>4. reader.line \in Message
    BY Notices DEF TypeOK
  <2>5. CASE Evict
    BY <2>5, <2>1, <2>2 DEF Evict
  <2> QED
    BY <2>1, <2>3, <2>4, <2>5, Notices
    DEF Reader, Decode, EndOfStdout, SendOnClosed, Deliver, Complain, Report
<1> QED
  BY <1>1, <1>2, <1>3, <1>4 DEF TypeOK, Current, sessionVars

\* The end of the bot, and Close.
LEMMA EndType ==
  ASSUME TypeOK, Exit \/ Close
  PROVE  TypeOK'
<1>1. CASE Exit
  <2>1. UNCHANGED <<botVars, reader, sessionVars, closing>> /\ closed' = TRUE
    BY <1>1 DEF Exit, ReapChild, ModuleEnds
  <2>2. incoming' \in Seq(Message) /\ Len(incoming') <= Cap
    <3>1. \/ UNCHANGED incoming
          \/ Len(incoming) < Cap /\ incoming' = Append(incoming, Notice("crash"))
      BY <1>1 DEF Exit, ReapChild, ModuleEnds
    <3>2. Notice("crash") \in Message
      BY Notices
    <3>3. incoming \in Seq(Message) /\ Len(incoming) <= Cap
      BY DEF TypeOK
    <3> QED
      BY <3>1, <3>2, <3>3, Appended, Bounds
  <2> QED
    BY <2>1, <2>2 DEF TypeOK, Current, botVars, sessionVars
<1>2. CASE BeginClose \/ CloseDone \/ GraceEnds
  BY <1>2 DEF BeginClose, CloseDone, GraceEnds, TypeOK, Current, botVars, readerVars, sessionVars
<1>3. CASE ShutdownExpires
  BY <1>3 DEF ShutdownExpires, TypeOK, Current, readerVars, sessionVars
<1>4. CASE ReapKilled
  BY <1>4 DEF ReapKilled, TypeOK, Current, botVars, sessionVars
<1> QED
  BY <1>1, <1>2, <1>3, <1>4 DEF Close

LEMMA TypeStep == TypeOK /\ [Next]_vars => TypeOK'
<1>1. TypeOK /\ (Over \/ UNCHANGED vars) => TypeOK'
  BY DEF Over, vars, botVars, readerVars, sessionVars, TypeOK, Current
<1> QED
  BY <1>1, CallType, BotType, ReaderType, EndType DEF Next

\* Every variable keeps its type: the channel stays within its capacity, and a
\* call under way has a request id of its own.
THEOREM TypeCorrect == Spec => []TypeOK
BY TypeInit, TypeStep, PTL DEF Spec

-----------------------------------------------------------------------------
(***************************************************************************)
(* The judgement of an honest player.  Its lines are in the pipe, in the   *)
(* reader's hands, in the channel, or consumed, in the order it wrote them; *)
(* and a request that was sent and whose answer is still to come belongs   *)
(* to the call under way or to one that timed out.                         *)
(***************************************************************************)

\* Requests in the order they were sent, whether or not the bot has read them.
sent == heard \o stdin

\* The last call whose request may have been sent.
LastSent == IF phase = "wait" THEN Current ELSE Len(results)

\* How many lines the reader has decoded, holds, has left in the channel, and
\* how many the session has taken.
Parsed == Len(written) - Len(stdout)
Held == IF reader.at = "deliver" THEN 1 ELSE 0
Crashed == incoming # << >> /\ incoming[Len(incoming)].kind = "crash"
Lines == IF Crashed THEN Len(incoming) - 1 ELSE Len(incoming)
Consumed == Parsed - Held - Lines

SentInOrder ==
  /\ \A i, j \in DOMAIN sent : i < j => sent[i] < sent[j]
  /\ \A i \in DOMAIN sent : sent[i] <= LastSent
  /\ Len(sent) <= LastSent
  /\ \A c \in late : c <= Len(results)
  /\ kind = "wasm" => stdin = << >>

AnswersInOrder ==
  honest => /\ Len(written) <= Len(heard)
            /\ \A i \in DOMAIN written : written[i] = [kind |-> "answer", id |-> heard[i]]

\* While nobody closes the session and the channel has room for every answer.
InTime == honest /\ closing = "no" /\ Len(heard) <= Cap

ReaderInStep ==
  /\ reader.at \in {"decode", "deliver", "stopped"}
  /\ reader.at = "stopped" => stdout = << >> /\ bot # "running"
  /\ closed => reader.at = "stopped"
  /\ Crashed => closed

LinesInOrder ==
  /\ Consumed >= 0
  /\ \A j \in DOMAIN stdout : stdout[j] = written[Parsed + j]
  /\ reader.at = "deliver" => reader.line = written[Parsed]
  /\ \A j \in 1..Lines : incoming[j] = written[Consumed + j]

\* After the end nothing comes any more.
Drained == closed /\ incoming = << >>

Expected ==
  /\ \A i \in 1..Consumed : sent[i] <= Len(results)
  /\ \/ Drained
     \/ \A i \in (Consumed + 1)..Len(sent) :
          sent[i] \in late \/ (phase = "wait" /\ sent[i] = Current)

Flow == ReaderInStep /\ LinesInOrder /\ Expected

Verdicts ==
  honest => \A i \in DOMAIN results : i <= Cap =>
    results[i].outcome \in {"accepted", "timeout", "runtime-stopped"}

\* A call that ended with the bot was not sent, or nothing answers it any more.
Unanswered(i) ==
  \/ \A k \in DOMAIN sent : sent[k] # i
  \/ bot # "running" /\ \A j \in DOMAIN written : written[j].id # i

Losses ==
  honest => \A i \in DOMAIN results :
    i <= Cap /\ results[i].outcome = "runtime-stopped" => Unanswered(i)

\* The runner closes a session only between calls.
CallsBeforeClose == phase # "idle" => closing = "no"

Judged ==
  /\ CallsBeforeClose /\ SentInOrder /\ AnswersInOrder /\ (InTime => Flow)
  /\ Verdicts /\ Losses

JudgedInv == TypeOK /\ EndedInv /\ Judged

LEMMA SentParts ==
  ASSUME TypeOK
  PROVE  /\ sent \in Seq(Call) /\ Len(sent) = Len(heard) + Len(stdin)
         /\ Len(heard) \in Nat /\ Len(stdin) \in Nat /\ Len(sent) \in Nat
         /\ DOMAIN sent = 1..Len(sent) /\ \A i \in DOMAIN sent : sent[i] \in Nat
         /\ \A i \in 1..Len(heard) : sent[i] = heard[i]
<1>1. Call \subseteq Nat
  BY Bounds DEF Call
<1>2. sent \in Seq(Call) /\ Len(sent) = Len(heard) + Len(stdin)
  BY DEF TypeOK, sent
<1>3. Len(heard) \in Nat /\ Len(stdin) \in Nat /\ Len(sent) \in Nat
  BY <1>2 DEF TypeOK
<1>4. \A i \in 1..Len(heard) : sent[i] = heard[i]
  BY DEF TypeOK, sent
<1>5. DOMAIN sent = 1..Len(sent) /\ \A i \in DOMAIN sent : sent[i] \in Call
  BY <1>2
<1> QED
  BY <1>1, <1>2, <1>3, <1>4, <1>5

LEMMA Sizes ==
  ASSUME TypeOK
  PROVE  /\ Len(results) \in Nat /\ Len(written) \in Nat /\ Len(stdout) \in Nat /\ Len(incoming) \in Nat
         /\ Len(incoming) <= Cap /\ Cap \in Nat /\ Held \in 0..1
         /\ incoming # << >> => Len(incoming) >= 1
         /\ stdout # << >> => Len(stdout) >= 1
         /\ Lines \in Nat /\ Lines <= Len(incoming) /\ Consumed \in Int /\ Parsed \in Int
         /\ Consumed = Parsed - Held - Lines /\ Parsed = Len(written) - Len(stdout)
<1>1. /\ Len(results) \in Nat /\ Len(written) \in Nat /\ Len(stdout) \in Nat /\ Len(incoming) \in Nat
      /\ Len(incoming) <= Cap /\ Cap \in Nat /\ Held \in 0..1
      /\ incoming # << >> => Len(incoming) >= 1
      /\ stdout # << >> => Len(stdout) >= 1
  BY Bounds DEF TypeOK, Held
<1>2. Lines \in Nat /\ Lines <= Len(incoming)
  BY <1>1 DEF Lines, Crashed
<1> QED
  BY <1>1, <1>2 DEF Consumed, Parsed

\* The lines of an honest bot are the answers to the first requests sent.
LEMMA Answers ==
  ASSUME JudgedInv, honest
  PROVE  /\ Len(written) \in Nat /\ Len(written) <= Len(heard) /\ Len(written) <= Len(sent)
         /\ DOMAIN written = 1..Len(written) /\ DOMAIN written \subseteq DOMAIN sent
         /\ \A j \in DOMAIN written : written[j] = [kind |-> "answer", id |-> sent[j]] /\ written[j].id = sent[j]
<1>1. Len(written) \in Nat /\ DOMAIN written = 1..Len(written)
  BY DEF JudgedInv, TypeOK
<1>2. /\ Len(written) <= Len(heard)
      /\ \A j \in DOMAIN written : written[j] = [kind |-> "answer", id |-> heard[j]]
  BY DEF JudgedInv, Judged, AnswersInOrder
<1>3. /\ Len(heard) \in Nat /\ Len(sent) \in Nat /\ Len(heard) <= Len(sent) /\ DOMAIN sent = 1..Len(sent)
      /\ \A j \in 1..Len(heard) : sent[j] = heard[j]
  BY SentParts DEF JudgedInv
<1>4. \A j \in DOMAIN written : j \in 1..Len(heard) /\ j \in DOMAIN sent
  BY <1>1, <1>2, <1>3
<1> QED
  BY <1>1, <1>2, <1>3, <1>4

\* What a step does to neither the requests nor the session leaves the order of
\* requests and the results as they were.
LEMMA SentFrame ==
  ASSUME SentInOrder, UNCHANGED <<kind, heard, stdin, results, late>>, phase' = "wait" <=> phase = "wait"
  PROVE  SentInOrder'
BY DEF SentInOrder, sent, LastSent, Current

LEMMA ResultsFrame ==
  ASSUME AnswersInOrder, Verdicts, Losses, bot # "running" => bot' # "running",
         UNCHANGED <<heard, stdin, written, honest, results>>
  PROVE  AnswersInOrder' /\ Verdicts' /\ Losses'
BY DEF AnswersInOrder, Verdicts, Losses, Unanswered, sent

LEMMA FlowFrame ==
  ASSUME Flow, bot # "running" => bot' # "running", phase' = "wait" <=> phase = "wait",
         UNCHANGED <<heard, stdin, written, stdout, reader, incoming, closed, results, late>>
  PROVE  Flow'
<1>1. Parsed' = Parsed /\ Held' = Held /\ Lines' = Lines /\ Consumed' = Consumed /\ sent' = sent
      /\ Crashed' = Crashed /\ Current' = Current
  BY DEF Parsed, Held, Lines, Crashed, Consumed, sent, Current
<1> QED
  BY <1>1 DEF Flow, ReaderInStep, LinesInOrder, Expected, Drained

\* Between the events of interest nothing moves.
LEMMA QuietJudged ==
  ASSUME JudgedInv, BeginCall \/ BotExits \/ Close \/ Over \/ UNCHANGED vars
  PROVE  Judged'
<1>1. /\ UNCHANGED <<kind, stdin, heard, written, stdout, honest, reader, incoming, results, late>>
      /\ phase' = "wait" <=> phase = "wait"
      /\ closing' = "no" => closing = "no" /\ closed' = closed
      /\ bot # "running" => bot' # "running"
      /\ CallsBeforeClose'
  <2>1. CASE BeginCall
    BY <2>1 DEF BeginCall, botVars, readerVars, CallsBeforeClose
  <2>2. CASE BotExits
    BY <2>2 DEF BotExits, readerVars, sessionVars, CallsBeforeClose, JudgedInv, Judged
  <2>3. CASE BeginClose \/ CloseDone \/ GraceEnds \/ ReapKilled
    BY <2>3 DEF BeginClose, CloseDone, GraceEnds, ReapKilled, botVars, readerVars, sessionVars,
                CallsBeforeClose, JudgedInv, Judged
  <2>4. CASE ShutdownExpires
    BY <2>4 DEF ShutdownExpires, readerVars, sessionVars, CallsBeforeClose, JudgedInv, Judged
  <2>5. CASE Over \/ UNCHANGED vars
    BY <2>5 DEF Over, vars, botVars, readerVars, sessionVars, CallsBeforeClose, JudgedInv, Judged
  <2> QED
    BY <2>1, <2>2, <2>3, <2>4, <2>5 DEF Close
<1>2. SentInOrder'
  BY <1>1, SentFrame DEF JudgedInv, Judged
<1>3. AnswersInOrder' /\ Verdicts' /\ Losses'
  BY <1>1, ResultsFrame DEF JudgedInv, Judged
<1>4. InTime' => Flow'
  BY <1>1, FlowFrame DEF JudgedInv, Judged, InTime
<1> QED
  BY <1>1, <1>2, <1>3, <1>4 DEF Judged

\* A call that returns.
LEMMA Returning ==
  ASSUME TypeOK, NEW o, NEW l, NEW r, Return(o, l, r)
  PROVE  /\ Len(results) \in Nat /\ Len(results') = Len(results) + 1 /\ Current = Len(results) + 1
         /\ results'[Current].outcome = o
         /\ \A i \in DOMAIN results : i \in DOMAIN results' /\ results'[i] = results[i]
         /\ \A i \in DOMAIN results' : i \in DOMAIN results \/ i = Current
         /\ phase' = "idle" /\ late' = l
<1>1. results \in Seq(Returned) /\ Len(results) \in Nat
  BY DEF TypeOK
<1> QED
  BY <1>1 DEF Return, Current

LEMMA ReturnSent ==
  ASSUME TypeOK, SentInOrder, NEW o, NEW l \in SUBSET (late \cup {Current}), NEW r, Return(o, l, r),
         UNCHANGED <<kind, heard, stdin>>
  PROVE  SentInOrder'
<1>1. /\ Len(results) \in Nat /\ Len(results') = Len(results) + 1 /\ Current = Len(results) + 1
      /\ phase' = "idle" /\ late' = l
  BY Returning
<1>2. sent' = sent /\ LastSent' = Len(results) + 1 /\ LastSent \in Nat /\ LastSent <= LastSent'
  BY <1>1 DEF sent, LastSent
<1>3. sent \in Seq(Call) /\ Len(sent) \in Nat /\ \A i \in DOMAIN sent : sent[i] \in Nat
  BY SentParts
<1>4. \A c \in late : c \in Nat
  BY Bounds DEF TypeOK, Call
<1> QED
  BY <1>1, <1>2, <1>3, <1>4 DEF SentInOrder

LEMMA ReturnResults ==
  ASSUME JudgedInv, NEW o, NEW l, NEW r, Return(o, l, r),
         UNCHANGED <<heard, stdin, written, honest, bot, closing>>,
         honest /\ Current <= Cap =>
           /\ o \in {"accepted", "timeout", "runtime-stopped"}
           /\ o = "runtime-stopped" => Unanswered(Current)
  PROVE  AnswersInOrder' /\ Verdicts' /\ Losses' /\ CallsBeforeClose'
<1>1. /\ Len(results) \in Nat /\ Len(results') = Len(results) + 1 /\ Current = Len(results) + 1
      /\ results'[Current].outcome = o
      /\ \A i \in DOMAIN results : i \in DOMAIN results' /\ results'[i] = results[i]
      /\ \A i \in DOMAIN results' : i \in DOMAIN results \/ i = Current
      /\ phase' = "idle"
  BY Returning DEF JudgedInv, Judged
<1>2. AnswersInOrder'
  BY DEF JudgedInv, Judged, AnswersInOrder
<1>3. Verdicts'
  BY <1>1 DEF JudgedInv, Judged, Verdicts
<1>4. \A i : Unanswered(i) => Unanswered(i)'
  BY DEF Unanswered, sent
<1>5. Losses'
  BY <1>1, <1>4 DEF JudgedInv, Judged, Losses
<1> QED
  BY <1>1, <1>2, <1>3, <1>5 DEF CallsBeforeClose

\* A call whose verdict counts is in time.
LEMMA CallInTime ==
  ASSUME JudgedInv, phase # "idle", honest, Current <= Cap
  PROVE  InTime
<1>1. Len(results) \in Nat /\ Cap \in Nat
  BY Sizes DEF JudgedInv, Judged
<1>2. Len(heard) \in Nat /\ Len(heard) <= Len(sent) /\ Len(sent) \in Nat
  BY SentParts DEF JudgedInv, Judged
<1>3. Len(sent) <= Current
  BY <1>1, <1>2 DEF JudgedInv, Judged, SentInOrder, LastSent, Current
<1> QED
  BY <1>1, <1>2, <1>3 DEF JudgedInv, Judged, CallsBeforeClose, InTime, Current

\* A call that returns without touching the channel.
LEMMA ReturnFlow ==
  ASSUME JudgedInv, InTime, NEW o, NEW l, NEW r, Return(o, l, r),
         UNCHANGED <<botVars, readerVars, closing>>,
         \/ l = late \cup {Current}
         \/ l = late /\ (phase = "wait" => Drained)
  PROVE  Flow'
<1>f. Flow /\ honest
  BY DEF JudgedInv, Judged, InTime
<1>1. /\ Len(results) \in Nat /\ Len(results') = Len(results) + 1 /\ Current = Len(results) + 1
      /\ phase' = "idle" /\ late' = l
  BY Returning DEF JudgedInv, Judged
<1>2. Parsed' = Parsed /\ Held' = Held /\ Lines' = Lines /\ Consumed' = Consumed /\ sent' = sent
      /\ Crashed' = Crashed
  BY DEF Parsed, Held, Lines, Crashed, Consumed, sent, botVars, readerVars
<1>3. ReaderInStep' /\ LinesInOrder'
  BY <1>f, <1>2 DEF Flow, ReaderInStep, LinesInOrder, botVars, readerVars
<1>4. Drained => Drained'
  BY DEF Drained, readerVars
<1>5. \A i \in 1..Consumed : sent[i] <= Len(results')
  <2> SUFFICES ASSUME NEW i \in 1..Consumed PROVE sent[i] <= Len(results) + 1
    BY <1>1
  <2>1. Consumed \in Int /\ Consumed <= Len(written) /\ Len(written) \in Nat
    BY Sizes DEF JudgedInv, Judged
  <2>2. sent[i] <= Len(results)
    BY <1>f DEF Flow, Expected
  <2>3. CASE sent[i] \in Nat
    BY <1>1, <2>2, <2>3
  <2>4. i \in DOMAIN sent
    <3>1. Len(written) <= Len(heard) /\ Len(heard) \in Nat /\ Len(sent) \in Nat /\ Len(heard) <= Len(sent)
      BY <1>f, SentParts DEF JudgedInv, Judged, AnswersInOrder
    <3> QED
      BY <2>1, <3>1, SentParts DEF JudgedInv, Judged
  <2> QED
    BY <2>3, <2>4, SentParts DEF JudgedInv, Judged
<1>6. Expected'
  BY <1>f, <1>1, <1>2, <1>4, <1>5 DEF Flow, Expected
<1> QED
  BY <1>3, <1>6 DEF Flow

\* The request that is written is the last of those sent, and expected.
LEMMA SendingJudged ==
  ASSUME JudgedInv, phase = "send", phase' = "wait", sent' = Append(sent, Current), closing' = closing,
         UNCHANGED <<kind, written, stdout, bot, honest, readerVars, late, ignored, results>>,
         kind = "wasm" => stdin' = << >>,
         Len(heard) <= Len(heard'), \A i \in 1..Len(heard) : heard'[i] = heard[i], Len(heard') \in Nat
  PROVE  Judged'
<1>1. /\ sent \in Seq(Call) /\ Len(sent) \in Nat /\ Current = Len(results) + 1 /\ Len(results) \in Nat
      /\ DOMAIN sent = 1..Len(sent) /\ \A i \in DOMAIN sent : sent[i] \in Nat
      /\ Len(heard) \in Nat /\ Len(heard) <= Len(sent)
  BY SentParts, Sizes DEF JudgedInv, Judged, Current
<1>2. /\ Len(sent') = Len(sent) + 1 /\ sent'[Len(sent) + 1] = Current
      /\ DOMAIN sent' = 1..(Len(sent) + 1)
      /\ \A i \in DOMAIN sent : sent'[i] = sent[i]
  BY <1>1
<1>3. /\ \A i, j \in DOMAIN sent : i < j => sent[i] < sent[j]
      /\ \A i \in DOMAIN sent : sent[i] <= Len(results)
      /\ Len(sent) <= Len(results)
      /\ \A c \in late : c <= Len(results)
  BY DEF JudgedInv, Judged, SentInOrder, LastSent
<1>4. LastSent' = Current
  BY DEF LastSent, Current
<1>5. SentInOrder'
  BY <1>1, <1>2, <1>3, <1>4 DEF SentInOrder
<1>6. AnswersInOrder'
  <2>1. honest => Len(written) <= Len(heard) /\ Len(written) \in Nat /\ DOMAIN written = 1..Len(written)
    BY DEF JudgedInv, Judged, AnswersInOrder, TypeOK
  <2> QED
    BY <1>1, <2>1 DEF JudgedInv, Judged, AnswersInOrder
<1>7. InTime' => Flow'
  <2> SUFFICES ASSUME InTime' PROVE Flow'
    OBVIOUS
  <2>1. InTime /\ Flow
    BY <1>1, Sizes DEF InTime, JudgedInv, Judged
  <2>2. Parsed' = Parsed /\ Held' = Held /\ Lines' = Lines /\ Consumed' = Consumed /\ Crashed' = Crashed
    BY DEF Parsed, Held, Lines, Crashed, Consumed, readerVars
  <2>3. ReaderInStep' /\ LinesInOrder'
    BY <2>1, <2>2 DEF Flow, ReaderInStep, LinesInOrder, readerVars
  <2>4. Consumed \in Int /\ Consumed <= Len(written) /\ Len(written) <= Len(heard)
    BY <2>1, Sizes DEF JudgedInv, Judged, AnswersInOrder, InTime
  <2>5. Expected'
    <3>1. \A i \in 1..Consumed : sent'[i] <= Len(results)
      BY <1>1, <1>2, <2>1, <2>4 DEF Flow, Expected
    <3>2. Drained => Drained'
      BY DEF Drained, readerVars
    <3>3. ASSUME \A i \in (Consumed + 1)..Len(sent) : sent[i] \in late
          PROVE  \A i \in (Consumed + 1)..Len(sent') : sent'[i] \in late \/ sent'[i] = Current
      BY <1>1, <1>2, <2>1, <2>4, <3>3 DEF Flow, LinesInOrder
    <3> QED
      BY <2>1, <2>2, <3>1, <3>2, <3>3 DEF Flow, Expected, Current
  <2> QED
    BY <2>3, <2>5 DEF Flow
<1>8. Verdicts'
  BY DEF JudgedInv, Judged, Verdicts
<1>9. Losses'
  <2>1. ASSUME NEW i \in DOMAIN results, Unanswered(i) PROVE Unanswered(i)'
    <3>1. i <= Len(results) /\ i \in Nat
      BY DEF JudgedInv, Judged, TypeOK
    <3> QED
      BY <1>1, <1>2, <2>1, <3>1 DEF Unanswered
  <2> QED
    BY <2>1 DEF JudgedInv, Judged, Losses
<1> QED
  BY <1>5, <1>6, <1>7, <1>8, <1>9 DEF Judged, JudgedInv, Judged, CallsBeforeClose

LEMMA SendJudged == ASSUME JudgedInv, Send PROVE Judged'
<1>1. stdin \in Seq(Call) /\ heard \in Seq(Call) /\ Current \in Call
  BY DEF JudgedInv, Judged, TypeOK, Send
<1>2. heard \o Append(stdin, Current) = Append(heard \o stdin, Current)
  BY <1>1
<1>3. sent' = Append(sent, Current) /\ Len(heard') = Len(heard) /\ Len(heard) \in Nat
  BY <1>1, <1>2 DEF Send, sent
<1> QED
  BY <1>3, SendingJudged DEF Send, JudgedInv, Judged

\* A call returns and leaves the channel alone.
LEMMA EndsJudged ==
  ASSUME JudgedInv, SendFails \/ SendRefused \/ Timeout \/ ReceiveClosed
  PROVE  Judged'
<1>1. /\ phase # "idle" /\ UNCHANGED <<botVars, readerVars, closing>>
      /\ UNCHANGED <<kind, heard, stdin, written, honest, bot>>
  BY DEF SendFails, SendRefused, Timeout, ReceiveClosed, botVars
<1>2. CASE Timeout
  <2>1. Return("timeout", late \cup {Current}, << >>)
    BY <1>2 DEF Timeout
  <2>2. SentInOrder'
    BY <1>1, <2>1, ReturnSent DEF JudgedInv, Judged
  <2>3. AnswersInOrder' /\ Verdicts' /\ Losses' /\ CallsBeforeClose'
    BY <1>1, <2>1, ReturnResults
  <2>4. InTime' => Flow'
    BY <1>1, <2>1, ReturnFlow DEF InTime
  <2> QED
    BY <2>2, <2>3, <2>4 DEF Judged
<1>3. CASE SendFails \/ SendRefused \/ ReceiveClosed
  <2>1. Return("runtime-stopped", late, << >>) /\ (phase = "send" \/ (phase = "wait" /\ Drained))
    <3>1. CASE SendFails \/ SendRefused
      BY <3>1 DEF SendFails, SendRefused
    <3>2. CASE ReceiveClosed
      BY <3>2 DEF ReceiveClosed, Drained
    <3> QED
      BY <1>3, <3>1, <3>2
  <2>2. SentInOrder'
    BY <1>1, <2>1, ReturnSent DEF JudgedInv, Judged
  <2>3. ASSUME honest, Current <= Cap PROVE Unanswered(Current)
    <3>1. InTime /\ Flow
      BY <1>1, <2>3, CallInTime DEF JudgedInv, Judged
    <3>2. CASE phase = "send"
      <4>1. \A i \in DOMAIN sent : sent[i] <= Len(results) /\ sent[i] \in Nat
        BY <3>2, SentParts DEF JudgedInv, Judged, SentInOrder, LastSent
      <4>2. Len(results) \in Nat
        BY Sizes DEF JudgedInv, Judged
      <4> QED
        BY <4>1, <4>2 DEF Unanswered, Current
    <3>3. CASE phase = "wait" /\ Drained
      <4>1. bot # "running" /\ reader.at = "stopped" /\ stdout = << >> /\ ~Crashed
        BY <3>1, <3>3 DEF Flow, ReaderInStep, Drained, Crashed
      <4>2. Consumed = Len(written)
        BY <3>3, <4>1 DEF Consumed, Parsed, Held, Lines, Drained, JudgedInv, Judged, TypeOK
      <4>3. ASSUME NEW j \in DOMAIN written PROVE written[j].id # Current
        <5>1. j \in 1..Consumed /\ sent[j] <= Len(results)
          BY <3>1, <4>2, <4>3 DEF Flow, Expected, JudgedInv, Judged, TypeOK
        <5>2. written[j].id = sent[j] /\ j \in DOMAIN sent
          BY <2>3, Answers
        <5>3. sent[j] \in Nat /\ Len(results) \in Nat
          BY <5>2, SentParts, Sizes DEF JudgedInv
        <5> QED
          BY <5>1, <5>2, <5>3 DEF Current
      <4> QED
        BY <4>1, <4>3 DEF Unanswered
    <3> QED
      BY <2>1, <3>2, <3>3
  <2>4. AnswersInOrder' /\ Verdicts' /\ Losses' /\ CallsBeforeClose'
    BY <1>1, <2>1, <2>3, ReturnResults
  <2>5. InTime' => Flow'
    BY <1>1, <2>1, ReturnFlow DEF InTime
  <2> QED
    BY <2>2, <2>4, <2>5 DEF Judged
<1> QED
  BY <1>2, <1>3

\* The bot takes a request: the order in which they were sent is the same.
LEMMA ReadsJudged == ASSUME JudgedInv, BotReads PROVE Judged'
<1>t. stdin \in Seq(Call) /\ heard \in Seq(Call) /\ Len(heard) \in Nat
  BY DEF JudgedInv, TypeOK
<1>1. CASE kind = "local"
  <2>1. /\ stdin # << >> /\ heard' = Append(heard, Head(stdin)) /\ stdin' = Tail(stdin)
        /\ UNCHANGED <<phase, kind, written, stdout, bot, honest, readerVars, late, ignored, results, closing>>
    BY <1>1 DEF BotReads
  <2>2. Append(heard, Head(stdin)) \o Tail(stdin) = heard \o stdin
    BY <1>t, <2>1
  <2>3. sent' = sent
    BY <2>1, <2>2 DEF sent
  <2>4. Len(heard') = Len(heard) + 1 /\ \A i \in 1..Len(heard) : heard'[i] = heard[i]
    BY <1>t, <2>1
  <2>5. SentInOrder'
    BY <1>1, <2>1, <2>3 DEF JudgedInv, Judged, SentInOrder, LastSent, Current
  <2>6. AnswersInOrder'
    <3>1. honest => Len(written) \in Nat /\ DOMAIN written = 1..Len(written) /\ Len(written) <= Len(heard)
      BY Answers
    <3> QED
      BY <1>t, <2>1, <2>4, <3>1 DEF JudgedInv, Judged, AnswersInOrder
  <2>7. InTime' => Flow'
    <3> SUFFICES ASSUME InTime' PROVE Flow'
      OBVIOUS
    <3>1. InTime /\ Flow
      BY <1>t, <2>1, <2>4, Sizes DEF InTime, JudgedInv, Judged
    <3>2. Parsed' = Parsed /\ Held' = Held /\ Lines' = Lines /\ Consumed' = Consumed /\ Crashed' = Crashed
          /\ Current' = Current /\ Drained' = Drained
      BY <2>1 DEF Parsed, Held, Lines, Crashed, Consumed, Current, Drained, readerVars
    <3> QED
      BY <2>1, <2>3, <3>1, <3>2 DEF Flow, ReaderInStep, LinesInOrder, Expected, readerVars
  <2>8. Verdicts' /\ Losses' /\ CallsBeforeClose'
    BY <2>1, <2>3 DEF JudgedInv, Judged, Verdicts, Losses, Unanswered, CallsBeforeClose
  <2> QED
    BY <2>5, <2>6, <2>7, <2>8 DEF Judged
<1>2. CASE kind = "wasm"
  <2>1. /\ phase = "send" /\ phase' = "wait" /\ heard' = Append(heard, Current) /\ stdin' = stdin
        /\ UNCHANGED <<kind, written, stdout, bot, honest, readerVars, late, ignored, results, closing>>
    BY <1>2 DEF BotReads
  <2>2. stdin = << >> /\ Current \in Call
    BY <1>2, <2>1 DEF JudgedInv, Judged, SentInOrder, TypeOK
  <2>3. sent' = Append(sent, Current)
    <3>1. heard \o << >> = heard /\ Append(heard, Current) \o << >> = Append(heard, Current)
      BY <1>t, <2>2
    <3> QED
      BY <2>1, <2>2, <3>1 DEF sent
  <2>4. Len(heard') = Len(heard) + 1 /\ \A i \in 1..Len(heard) : heard'[i] = heard[i]
    BY <1>t, <2>1, <2>2
  <2> QED
    BY <1>t, <2>1, <2>2, <2>3, <2>4, SendingJudged
<1> QED
  BY <1>1, <1>2 DEF BotReads

LEMMA WritesJudged == ASSUME JudgedInv, BotWrites PROVE Judged'
<1>1. PICK line \in Line : /\ written' = Append(written, line) /\ stdout' = Append(stdout, line)
                           /\ honest' = (honest /\ IsDue(line))
  BY DEF BotWrites
<1>2. bot = "running" /\ UNCHANGED <<kind, stdin, heard, bot, readerVars, sessionVars, closing>>
  BY DEF BotWrites
<1>3. written \in Seq(Line) /\ stdout \in Seq(Line) /\ Len(written) \in Nat /\ Len(stdout) \in Nat
  BY DEF JudgedInv, TypeOK
<1>4. /\ Len(written') = Len(written) + 1 /\ DOMAIN written' = 1..(Len(written) + 1)
      /\ written'[Len(written) + 1] = line /\ \A i \in 1..Len(written) : written'[i] = written[i]
  BY <1>1, <1>3
<1>5. /\ Len(stdout') = Len(stdout) + 1 /\ DOMAIN stdout' = 1..(Len(stdout) + 1)
      /\ stdout'[Len(stdout) + 1] = line /\ \A i \in 1..Len(stdout) : stdout'[i] = stdout[i]
  BY <1>1, <1>3
<1>6. sent' = sent /\ Current' = Current /\ LastSent' = LastSent
  BY <1>2 DEF sent, Current, LastSent, sessionVars
<1>7. SentInOrder' /\ CallsBeforeClose'
  BY <1>2, <1>6 DEF JudgedInv, Judged, SentInOrder, CallsBeforeClose, sessionVars
<1>8. AnswersInOrder'
  <2> SUFFICES ASSUME honest'
               PROVE  /\ Len(written') <= Len(heard')
                      /\ \A i \in DOMAIN written' : written'[i] = [kind |-> "answer", id |-> heard'[i]]
    BY DEF AnswersInOrder
  <2>1. honest /\ IsDue(line)
    BY <1>1
  <2>2. /\ Len(written) < Len(heard) /\ line = [kind |-> "answer", id |-> heard[Len(written) + 1]]
        /\ \A i \in 1..Len(written) : written[i] = [kind |-> "answer", id |-> heard[i]]
    BY <1>3, <2>1 DEF IsDue, JudgedInv, Judged, AnswersInOrder
  <2>3. Len(heard) \in Nat
    BY SentParts DEF JudgedInv
  <2>4. heard' = heard
    BY <1>2
  <2>5. ASSUME NEW i \in DOMAIN written' PROVE written'[i] = [kind |-> "answer", id |-> heard[i]]
    <3>1. i \in 1..Len(written) \/ i = Len(written) + 1
      BY <1>3, <1>4, <2>5
    <3> QED
      BY <1>4, <2>2, <3>1
  <2>6. Len(written') <= Len(heard)
    BY <1>3, <1>4, <2>2, <2>3
  <2> QED
    BY <2>4, <2>5, <2>6
<1>9. InTime' => Flow'
  <2> SUFFICES ASSUME InTime' PROVE Flow'
    OBVIOUS
  <2>1. InTime /\ Flow
    BY <1>1, <1>2 DEF InTime, JudgedInv, Judged
  <2>2. Parsed' = Parsed /\ Held' = Held /\ Lines' = Lines /\ Consumed' = Consumed /\ Crashed' = Crashed
    BY <1>2, <1>3, <1>4, <1>5 DEF Parsed, Held, Lines, Crashed, Consumed, readerVars
  <2>3. ReaderInStep'
    BY <1>2, <2>1, <2>2 DEF Flow, ReaderInStep, readerVars
  <2>4. /\ Parsed = Len(written) - Len(stdout) /\ Consumed = Parsed - Held - Lines /\ Held \in 0..1
        /\ Lines \in Nat /\ Consumed >= 0 /\ Consumed \in Int /\ Parsed \in Int
    BY <2>1, Sizes DEF JudgedInv, Flow, LinesInOrder
  <2>5. \A j \in DOMAIN stdout' : stdout'[j] = written'[Parsed + j]
    <3>1. \A j \in 1..Len(stdout) : stdout[j] = written[Parsed + j] /\ Parsed + j \in 1..Len(written)
      BY <1>3, <2>1, <2>4 DEF Flow, LinesInOrder
    <3>2. ASSUME NEW j \in DOMAIN stdout' PROVE stdout'[j] = written'[Parsed + j]
      <4>1. j \in 1..Len(stdout) \/ j = Len(stdout) + 1
        BY <1>3, <1>5, <3>2
      <4>2. Parsed + (Len(stdout) + 1) = Len(written) + 1
        BY <1>3, <2>4
      <4>3. CASE j \in 1..Len(stdout)
        BY <1>4, <1>5, <3>1, <4>3
      <4> QED
        BY <1>4, <1>5, <4>1, <4>2, <4>3
    <3> QED
      BY <3>2
  <2>6. reader.at = "deliver" => reader.line = written'[Parsed]
    <3>1. reader.at = "deliver" => Parsed \in 1..Len(written)
      BY <1>3, <2>4 DEF Held
    <3> QED
      BY <1>4, <2>1, <3>1 DEF Flow, LinesInOrder
  <2>7. \A j \in 1..Lines : incoming[j] = written'[Consumed + j]
    <3>1. \A j \in 1..Lines : Consumed + j \in 1..Len(written)
      BY <1>3, <2>4
    <3> QED
      BY <1>4, <2>1, <3>1 DEF Flow, LinesInOrder
  <2>8. LinesInOrder'
    BY <1>2, <2>2, <2>4, <2>5, <2>6, <2>7 DEF LinesInOrder, readerVars
  <2>9. Expected'
    BY <1>2, <1>6, <2>1, <2>2 DEF Flow, Expected, Drained, readerVars, sessionVars
  <2> QED
    BY <2>3, <2>8, <2>9 DEF Flow
<1>10. Verdicts'
  BY <1>1, <1>2 DEF JudgedInv, Judged, Verdicts, sessionVars
<1>11. Losses'
  BY <1>1, <1>2, <1>6 DEF JudgedInv, Judged, Losses, Unanswered, sessionVars
<1> QED
  BY <1>7, <1>8, <1>9, <1>10, <1>11 DEF Judged

\* What the reader and the end of the bot do touches only the flow.
LEMMA BehindTheSession ==
  ASSUME JudgedInv, UNCHANGED <<kind, stdin, heard, written, bot, honest, sessionVars, closing>>, InTime' => Flow'
  PROVE  Judged'
<1>1. SentInOrder' /\ CallsBeforeClose'
  BY SentFrame DEF JudgedInv, Judged, sessionVars, CallsBeforeClose
<1>2. AnswersInOrder' /\ Verdicts' /\ Losses'
  BY ResultsFrame DEF JudgedInv, Judged, sessionVars
<1> QED
  BY <1>1, <1>2 DEF Judged

\* An honest bot's lines fit into the channel.
LEMMA Room ==
  ASSUME JudgedInv, InTime, reader.at = "deliver"
  PROVE  Len(incoming) < Cap /\ ~closed /\ ~Crashed
<1>1. Flow /\ Len(written) <= Len(heard) /\ Len(heard) <= Cap /\ Len(heard) \in Nat
  BY Answers, SentParts DEF JudgedInv, Judged, InTime
<1>2. ~closed /\ ~Crashed
  BY <1>1 DEF Flow, ReaderInStep
<1>3. Lines = Len(incoming) /\ Held = 1 /\ Consumed >= 0
  BY <1>1, <1>2 DEF Lines, Held, Flow, LinesInOrder
<1> QED
  BY <1>1, <1>2, <1>3, Sizes DEF JudgedInv

LEMMA DecodeJudged == ASSUME JudgedInv, Decode PROVE Judged'
<1>1. UNCHANGED <<kind, stdin, heard, written, bot, honest, incoming, closed, sessionVars, closing>>
  BY DEF Decode
<1>2. InTime' => Flow'
  <2> SUFFICES ASSUME InTime' PROVE Flow'
    OBVIOUS
  <2>1. InTime /\ Flow
    BY <1>1 DEF InTime, JudgedInv, Judged
  <2>2. /\ stdout \in Seq(Line) /\ stdout # << >> /\ Len(stdout) \in Nat
        /\ Len(stdout) >= 1 /\ DOMAIN stdout = 1..Len(stdout)
    BY DEF Decode, JudgedInv, TypeOK
  <2>3. /\ Len(stdout') = Len(stdout) - 1 /\ DOMAIN stdout' = 1..(Len(stdout) - 1)
        /\ Head(stdout) = stdout[1] /\ \A j \in DOMAIN stdout' : stdout'[j] = stdout[j + 1]
    BY <2>2 DEF Decode
  <2>4. reader.at = "decode" /\ Held = 0 /\ ~closed /\ ~Crashed
    BY <2>1 DEF Decode, Held, Flow, ReaderInStep
  <2>5. /\ Parsed = Len(written) - Len(stdout) /\ Consumed = Parsed - Held - Lines /\ Parsed \in Int
        /\ Lines \in Nat /\ Consumed >= 0 /\ Consumed \in Int /\ Len(written) \in Nat
    BY <2>1, Sizes DEF JudgedInv, Flow, LinesInOrder
  <2>6. stdout[1] = written[Parsed + 1] /\ Parsed + 1 \in DOMAIN written
    BY <2>1, <2>2, <2>4, <2>5, Answers DEF Flow, LinesInOrder, InTime
  <2>7. Head(stdout).kind = "answer"
    BY <2>1, <2>3, <2>6, Answers DEF InTime
  <2>8. reader' = [at |-> "deliver", line |-> Head(stdout)]
    BY <2>7 DEF Decode
  <2>9. Crashed' = Crashed /\ Lines' = Lines /\ sent' = sent /\ Current' = Current /\ Held' = 1
    BY <1>1, <2>8 DEF Crashed, Lines, sent, Current, sessionVars, Held
  <2>10. Parsed' = Parsed + 1 /\ Consumed' = Consumed
    BY <1>1, <2>2, <2>3, <2>4, <2>5, <2>9 DEF Parsed, Consumed
  <2>11. ReaderInStep'
    BY <1>1, <2>4, <2>8, <2>9 DEF ReaderInStep
  <2>12. LinesInOrder'
    <3>1. ASSUME NEW j \in DOMAIN stdout' PROVE stdout'[j] = written[(Parsed + 1) + j]
      <4>1. j + 1 \in DOMAIN stdout /\ Parsed + (j + 1) = (Parsed + 1) + j
        BY <2>2, <2>3, <2>5, <3>1
      <4> QED
        BY <2>1, <2>3, <4>1 DEF Flow, LinesInOrder
    <3>2. reader'.line = written[Parsed + 1]
      BY <2>3, <2>6, <2>8
    <3> QED
      BY <1>1, <2>1, <2>9, <2>10, <3>1, <3>2 DEF Flow, LinesInOrder
  <2>13. Expected'
    BY <1>1, <2>1, <2>9, <2>10 DEF Flow, Expected, Drained, sessionVars
  <2> QED
    BY <2>11, <2>12, <2>13 DEF Flow
<1> QED
  BY <1>1, <1>2, BehindTheSession

LEMMA DeliverJudged == ASSUME JudgedInv, Deliver PROVE Judged'
<1>1. UNCHANGED <<kind, stdin, heard, written, stdout, bot, honest, closed, sessionVars, closing>>
  BY DEF Deliver, botVars
<1>2. InTime' => Flow'
  <2> SUFFICES ASSUME InTime' PROVE Flow'
    OBVIOUS
  <2>1. InTime /\ Flow
    BY <1>1 DEF InTime, JudgedInv, Judged
  <2>2. reader.at = "deliver" /\ Len(incoming) < Cap /\ ~closed /\ ~Crashed
    BY <2>1, Room DEF Deliver
  <2>3. incoming' = Append(incoming, reader.line) /\ reader' = At("decode")
    BY <2>2 DEF Deliver, JudgedInv, TypeOK
  <2>4. incoming \in Seq(Message) /\ Len(incoming) \in Nat /\ DOMAIN incoming = 1..Len(incoming)
    BY DEF JudgedInv, TypeOK
  <2>5. /\ Len(incoming') = Len(incoming) + 1 /\ incoming'[Len(incoming) + 1] = reader.line
        /\ \A j \in 1..Len(incoming) : incoming'[j] = incoming[j]
    BY <2>3, <2>4
  <2>6. /\ Parsed = Len(written) - Len(stdout) /\ Consumed = Parsed - Held - Lines /\ Parsed \in Int
        /\ Lines = Len(incoming) /\ Held = 1 /\ Consumed >= 0 /\ Consumed \in Int
        /\ Len(written) \in Nat /\ Len(stdout) \in Nat
    BY <2>1, <2>2, Sizes DEF JudgedInv, Flow, LinesInOrder, Lines, Held
  <2>7. reader.line = written[Parsed] /\ Parsed \in DOMAIN written
    BY <2>1, <2>2, <2>4, <2>6, Answers DEF Flow, LinesInOrder, InTime
  <2>8. reader.line.kind = "answer"
    BY <2>1, <2>7, Answers DEF InTime
  <2>9. ~Crashed' /\ Lines' = Len(incoming) + 1 /\ Held' = 0 /\ Parsed' = Parsed /\ Consumed' = Consumed
    <3>1. ~Crashed' /\ Lines' = Len(incoming) + 1
      BY <2>4, <2>5, <2>8 DEF Crashed, Lines
    <3>2. Held' = 0 /\ Parsed' = Parsed
      BY <1>1, <2>3 DEF Held, At, Parsed
    <3> QED
      BY <1>1, <2>4, <2>6, <3>1, <3>2 DEF Consumed
  <2>10. ReaderInStep'
    BY <1>1, <2>2, <2>3, <2>9 DEF ReaderInStep, At
  <2>11. LinesInOrder'
    <3>1. ASSUME NEW j \in 1..(Len(incoming) + 1) PROVE incoming'[j] = written[Consumed + j]
      <4>1. j \in 1..Len(incoming) \/ j = Len(incoming) + 1
        BY <2>4, <3>1
      <4>2. Consumed + (Len(incoming) + 1) = Parsed
        BY <2>4, <2>6
      <4>3. CASE j \in 1..Len(incoming)
        BY <2>1, <2>5, <2>6, <4>3 DEF Flow, LinesInOrder
      <4> QED
        BY <2>5, <2>7, <4>1, <4>2, <4>3
    <3> QED
      BY <1>1, <2>1, <2>3, <2>9, <3>1 DEF Flow, LinesInOrder, At
  <2>12. sent' = sent /\ Current' = Current /\ ~Drained
    BY <1>1, <2>2 DEF sent, Current, sessionVars, Drained
  <2>13. Expected'
    BY <1>1, <2>1, <2>9, <2>12 DEF Flow, Expected, sessionVars
  <2> QED
    BY <2>10, <2>11, <2>13 DEF Flow
<1> QED
  BY <1>1, <1>2, BehindTheSession

\* The reader's other ways: its end, and what an honest bot does not meet.
LEMMA ReaderJudged == ASSUME JudgedInv, Reader PROVE Judged'
<1>1. CASE EndOfStdout
  <2>1. UNCHANGED <<kind, stdin, heard, written, stdout, bot, honest, incoming, closed, sessionVars, closing>>
        /\ reader.at = "decode" /\ reader' = At("stopped")
    BY <1>1 DEF EndOfStdout, botVars
  <2>2. InTime' => Flow'
    <3> SUFFICES ASSUME InTime' PROVE Flow'
      OBVIOUS
    <3>1. InTime /\ Flow
      BY <2>1 DEF InTime, JudgedInv, Judged
    <3>2. stdout = << >> /\ bot # "running" /\ ~closed
      BY <1>1, <2>1, <3>1 DEF EndOfStdout, Flow, ReaderInStep
    <3>3. Parsed' = Parsed /\ Held' = Held /\ Lines' = Lines /\ Consumed' = Consumed /\ sent' = sent
          /\ Crashed' = Crashed /\ Current' = Current /\ Drained' = Drained
      BY <2>1 DEF Parsed, Held, Lines, Crashed, Consumed, sent, Current, Drained, At, sessionVars
    <3>4. ReaderInStep'
      BY <2>1, <3>1, <3>2, <3>3 DEF Flow, ReaderInStep, At
    <3> QED
      BY <2>1, <3>1, <3>3, <3>4 DEF Flow, LinesInOrder, Expected, At, sessionVars
  <2> QED
    BY <2>1, <2>2, BehindTheSession
<1>2. CASE SendOnClosed \/ Evict \/ Complain \/ Report
  <2>1. UNCHANGED <<kind, stdin, heard, written, bot, honest, sessionVars, closing>>
    BY <1>2 DEF SendOnClosed, Evict, Complain, Report, botVars
  <2>2. InTime => FALSE
    <3> SUFFICES ASSUME InTime PROVE FALSE
      OBVIOUS
    <3>1. Flow
      BY DEF JudgedInv, Judged
    <3> QED
      BY <1>2, <3>1 DEF SendOnClosed, Evict, Complain, Report, Flow, ReaderInStep
  <2>3. InTime' => InTime
    BY <2>1 DEF InTime
  <2> QED
    BY <2>1, <2>2, <2>3, BehindTheSession
<1> QED
  BY <1>1, <1>2, DecodeJudged, DeliverJudged DEF Reader

\* What an honest player's call takes from the channel: the message about the
\* end, when nothing is left to answer, or the next answer, which is expected.
LEMMA Taking ==
  ASSUME JudgedInv, InTime, phase = "wait", incoming # << >>
  PROVE  \/ /\ Head(incoming).kind = "crash" /\ Len(incoming) = 1 /\ Lines = 0
            /\ ReaderInStep /\ closed /\ Unanswered(Current)
         \/ /\ Lines >= 1 /\ Consumed + 1 \in DOMAIN sent /\ Consumed + 1 \in DOMAIN written
            /\ Head(incoming) = [kind |-> "answer", id |-> sent[Consumed + 1]]
            /\ sent[Consumed + 1] \in late \/ sent[Consumed + 1] = Current
<1>1. Flow /\ honest /\ ~Drained
  BY DEF JudgedInv, Judged, InTime, Drained
<1>2. /\ incoming \in Seq(Message) /\ Len(incoming) \in Nat /\ Len(incoming) >= 1
      /\ Head(incoming) = incoming[1]
  BY Sizes DEF JudgedInv, TypeOK
<1>3. CASE Lines = 0
  <2>1. Crashed /\ Len(incoming) = 1 /\ Head(incoming).kind = "crash"
    BY <1>2, <1>3 DEF Lines, Crashed
  <2>2. closed /\ reader.at = "stopped" /\ stdout = << >> /\ bot # "running" /\ ReaderInStep
    BY <1>1, <2>1 DEF Flow, ReaderInStep
  <2>3. Consumed = Len(written)
    BY <1>3, <2>2 DEF Consumed, Parsed, Held, JudgedInv, TypeOK
  <2>4. ASSUME NEW j \in DOMAIN written PROVE written[j].id # Current
    <3>1. j \in 1..Consumed /\ sent[j] <= Len(results)
      BY <1>1, <2>3, <2>4 DEF Flow, Expected, JudgedInv, TypeOK
    <3>2. written[j].id = sent[j] /\ j \in DOMAIN sent
      BY <1>1, Answers
    <3>3. sent[j] \in Nat /\ Len(results) \in Nat
      BY <3>2, SentParts, Sizes DEF JudgedInv
    <3> QED
      BY <3>1, <3>2, <3>3 DEF Current
  <2> QED
    BY <1>3, <2>1, <2>2, <2>4 DEF Unanswered
<1>4. CASE Lines # 0
  <2>1. /\ Lines \in Nat /\ Lines >= 1 /\ Consumed \in Int /\ Consumed >= 0 /\ Len(written) \in Nat
        /\ Consumed + 1 <= Len(written)
    BY <1>1, <1>4, Sizes DEF JudgedInv, Flow, LinesInOrder
  <2>2. incoming[1] = written[Consumed + 1]
    BY <1>1, <2>1 DEF Flow, LinesInOrder
  <2>3. Consumed + 1 \in DOMAIN written /\ Consumed + 1 \in DOMAIN sent
        /\ written[Consumed + 1] = [kind |-> "answer", id |-> sent[Consumed + 1]]
    BY <1>1, <2>1, Answers
  <2>4. Consumed + 1 \in (Consumed + 1)..Len(sent)
    BY <2>1, <2>3, SentParts DEF JudgedInv
  <2> QED
    BY <1>1, <1>2, <2>1, <2>2, <2>3, <2>4 DEF Flow, Expected
<1> QED
  BY <1>3, <1>4

\* The session takes an answer from the channel: the lines behind it move up.
LEMMA TakenLine ==
  ASSUME JudgedInv, InTime, phase = "wait", incoming # << >>, incoming' = Tail(incoming), Lines >= 1,
         UNCHANGED <<botVars, reader, closed>>
  PROVE  /\ ReaderInStep' /\ LinesInOrder'
         /\ Consumed' = Consumed + 1 /\ Consumed \in Int /\ Consumed >= 0 /\ sent' = sent
<1>1. Flow /\ honest
  BY DEF JudgedInv, Judged, InTime
<1>2. /\ incoming \in Seq(Message) /\ Len(incoming) \in Nat /\ Len(incoming) >= 1
      /\ incoming' \in Seq(Message) /\ Len(incoming') = Len(incoming) - 1
      /\ \A j \in 1..(Len(incoming) - 1) : incoming'[j] = incoming[j + 1]
  BY Sizes DEF JudgedInv, TypeOK
<1>3. Crashed' = Crashed /\ Lines' = Lines - 1
  <2>1. CASE Len(incoming) = 1
    <3>1. ~Crashed
      BY <2>1 DEF Lines
    <3>2. incoming' = << >>
      BY <1>2, <2>1
    <3> QED
      BY <1>2, <2>1, <3>1, <3>2 DEF Crashed, Lines
  <2>2. CASE Len(incoming) > 1
    <3>1. incoming'[Len(incoming')] = incoming[Len(incoming)]
      <4> DEFINE n == Len(incoming) - 1
      <4>1. n \in 1..n /\ n + 1 = Len(incoming) /\ Len(incoming') = n
        BY <1>2, <2>2
      <4>2. \A j \in 1..n : incoming'[j] = incoming[j + 1]
        BY <1>2
      <4> HIDE DEF n
      <4> QED
        BY <4>1, <4>2
    <3>2. incoming' # << >>
      <4>1. Len(incoming') # 0
        BY <1>2, <2>2
      <4> QED
        BY <4>1, EmptySeq
    <3> QED
      BY <1>2, <2>2, <3>1, <3>2 DEF Crashed, Lines
  <2> QED
    BY <1>2, <2>1, <2>2
<1>4. Parsed' = Parsed /\ Held' = Held /\ sent' = sent
  BY DEF Parsed, Held, sent, botVars
<1>5. /\ Consumed' = Consumed + 1 /\ Consumed \in Int /\ Consumed >= 0 /\ Lines \in Nat
      /\ Lines <= Len(incoming)
  BY <1>1, <1>3, <1>4, Sizes DEF Consumed, JudgedInv, Flow, LinesInOrder
<1>6. ReaderInStep'
  BY <1>1, <1>3 DEF Flow, ReaderInStep, botVars
<1>7. ASSUME NEW j \in 1..(Lines - 1) PROVE incoming'[j] = written[(Consumed + 1) + j]
  <2>1. j + 1 \in 1..Lines /\ j \in 1..(Len(incoming) - 1) /\ Consumed + (j + 1) = (Consumed + 1) + j
    BY <1>2, <1>5, <1>7
  <2> QED
    BY <1>1, <1>2, <2>1 DEF Flow, LinesInOrder
<1>8. LinesInOrder'
  BY <1>1, <1>3, <1>4, <1>5, <1>7 DEF Flow, LinesInOrder, botVars
<1> QED
  BY <1>4, <1>5, <1>6, <1>8

\* A call that ends with what it received.
LEMMA ReturnReceived ==
  ASSUME JudgedInv, Receive, NEW o, NEW r, Return(o, late, r),
         InTime => Flow' /\ o \in {"accepted", "runtime-stopped"}
                         /\ (o = "runtime-stopped" => Unanswered(Current))
  PROVE  Judged'
<1>1. phase # "idle" /\ UNCHANGED <<kind, heard, stdin, written, honest, bot, closing>>
  BY DEF Receive, botVars
<1>2. SentInOrder'
  BY <1>1, ReturnSent DEF JudgedInv, Judged
<1>3. AnswersInOrder' /\ Verdicts' /\ Losses' /\ CallsBeforeClose'
  BY <1>1, CallInTime, ReturnResults
<1>4. InTime' => InTime
  BY <1>1 DEF InTime
<1> QED
  BY <1>2, <1>3, <1>4 DEF Judged

\* The answer to the call under way is the last one that was expected.
LEMMA AcceptsJudged ==
  ASSUME JudgedInv, Receive, InTime, NEW r, Return("accepted", late, r),
         Lines >= 1, Consumed + 1 \in DOMAIN sent, sent[Consumed + 1] = Current
  PROVE  Flow'
<1>1. /\ UNCHANGED <<botVars, reader, closed, closing>> /\ phase = "wait" /\ incoming # << >>
      /\ incoming' = Tail(incoming)
  BY DEF Receive
<1>2. /\ Len(results) \in Nat /\ Len(results') = Len(results) + 1 /\ Current = Len(results) + 1
      /\ phase' = "idle" /\ late' = late
  BY Returning DEF JudgedInv
<1>3. /\ ReaderInStep' /\ LinesInOrder'
      /\ Consumed' = Consumed + 1 /\ Consumed \in Int /\ Consumed >= 0 /\ sent' = sent
  BY <1>1, TakenLine
<1>4. /\ Len(sent) \in Nat /\ DOMAIN sent = 1..Len(sent) /\ \A i \in DOMAIN sent : sent[i] \in Nat
      /\ \A i, j \in DOMAIN sent : i < j => sent[i] < sent[j]
      /\ \A i \in DOMAIN sent : sent[i] <= Current
  BY <1>1, SentParts DEF JudgedInv, Judged, SentInOrder, LastSent
<1>5. ASSUME NEW i \in 1..(Consumed + 1) PROVE sent[i] <= Len(results) + 1
  <2>1. i \in DOMAIN sent
    BY <1>3, <1>4
  <2> QED
    BY <1>2, <1>4, <2>1
<1>6. ASSUME NEW i \in (Consumed + 2)..Len(sent) PROVE FALSE
  <2>1. i \in DOMAIN sent /\ Consumed + 1 < i
    BY <1>3, <1>4, <1>6
  <2>2. Current < sent[i] /\ sent[i] <= Current /\ sent[i] \in Nat
    BY <1>4, <2>1
  <2> QED
    BY <1>2, <2>2
<1>7. (Consumed + 1) + 1 = Consumed + 2
  BY <1>3
<1>8. Expected'
  BY <1>2, <1>3, <1>5, <1>6, <1>7 DEF Expected
<1> QED
  BY <1>3, <1>8 DEF Flow

\* A late answer is set aside, and every other one is expected as before.
LEMMA SetsAsideJudged ==
  ASSUME JudgedInv, Receive, Head(incoming).kind # "crash", Head(incoming).id \in late,
         SetAside(Head(incoming))
  PROVE  Judged'
<1>1. /\ UNCHANGED <<botVars, reader, closed, closing, phase, results>>
      /\ UNCHANGED <<kind, stdin, heard, written, honest, bot>>
      /\ phase = "wait" /\ incoming # << >>
      /\ incoming' = Tail(incoming) /\ late' = late \ {Head(incoming).id}
  BY DEF Receive, SetAside, botVars
<1>2. SentInOrder'
  BY <1>1 DEF JudgedInv, Judged, SentInOrder, sent, LastSent, Current
<1>3. AnswersInOrder' /\ Verdicts' /\ Losses' /\ CallsBeforeClose'
  BY <1>1, ResultsFrame DEF JudgedInv, Judged, CallsBeforeClose
<1>4. ASSUME InTime PROVE Flow'
  <2>1. /\ Lines >= 1 /\ Consumed + 1 \in DOMAIN sent /\ Head(incoming).id = sent[Consumed + 1]
        /\ Flow /\ ~Drained
    BY <1>1, <1>4, Taking DEF Drained, JudgedInv, Judged
  <2>2. /\ ReaderInStep' /\ LinesInOrder'
        /\ Consumed' = Consumed + 1 /\ Consumed \in Int /\ Consumed >= 0 /\ sent' = sent
    BY <1>1, <1>4, <2>1, TakenLine
  <2>3. /\ Len(sent) \in Nat /\ DOMAIN sent = 1..Len(sent) /\ \A i \in DOMAIN sent : sent[i] \in Nat
        /\ \A i, j \in DOMAIN sent : i < j => sent[i] < sent[j]
        /\ \A c \in late : c <= Len(results)
    BY SentParts DEF JudgedInv, Judged, SentInOrder
  <2>4. ASSUME NEW i \in 1..(Consumed + 1) PROVE sent[i] <= Len(results)
    <3>1. i \in 1..Consumed \/ i = Consumed + 1
      BY <2>2
    <3> QED
      BY <2>1, <2>3, <3>1 DEF Flow, Expected
  <2>5. ASSUME NEW i \in (Consumed + 2)..Len(sent)
        PROVE  sent[i] \in late' \/ sent[i] = Current
    <3>1. i \in DOMAIN sent /\ Consumed + 1 < i /\ i \in (Consumed + 1)..Len(sent)
      BY <2>2, <2>3, <2>5
    <3>2. sent[i] # sent[Consumed + 1]
      BY <2>1, <2>3, <3>1
    <3> QED
      BY <1>1, <2>1, <3>1, <3>2 DEF Flow, Expected
  <2>6. (Consumed + 1) + 1 = Consumed + 2 /\ Current' = Current
    BY <1>1, <2>2 DEF Current
  <2>7. Expected'
    BY <1>1, <2>2, <2>4, <2>5, <2>6 DEF Expected
  <2> QED
    BY <2>2, <2>7 DEF Flow
<1> QED
  BY <1>1, <1>2, <1>3, <1>4 DEF Judged, InTime

LEMMA ReceiveJudged == ASSUME JudgedInv, Receive PROVE Judged'
<1> DEFINE m == Head(incoming)
<1>1. /\ phase = "wait" /\ incoming # << >> /\ incoming' = Tail(incoming)
      /\ UNCHANGED <<botVars, reader, closed, closing>>
  BY DEF Receive
<1>2. CASE m.kind = "crash" /\ Return("runtime-stopped", late, << >>)
  <2>1. ASSUME InTime PROVE Flow' /\ Unanswered(Current)
    <3>1. Len(incoming) = 1 /\ Lines = 0 /\ ReaderInStep /\ closed /\ Unanswered(Current) /\ Flow
      BY <1>1, <1>2, <2>1, Taking DEF JudgedInv, Judged
    <3>2. incoming' = << >> /\ closed'
      BY <1>1, <3>1 DEF JudgedInv, TypeOK
    <3>3. ~Crashed' /\ Lines' = 0 /\ Parsed' = Parsed /\ Held' = Held /\ sent' = sent /\ Drained'
      BY <1>1, <3>2 DEF Crashed, Lines, Parsed, Held, sent, Drained, botVars
    <3>4. Consumed' = Consumed
      BY <3>1, <3>3 DEF Consumed
    <3>5. ReaderInStep' /\ LinesInOrder'
      BY <1>1, <3>1, <3>3, <3>4 DEF Flow, ReaderInStep, LinesInOrder, botVars
    <3>6. Len(results) \in Nat /\ Len(results') = Len(results) + 1
      BY <1>2, Returning DEF JudgedInv
    <3>7. ASSUME NEW i \in 1..Consumed PROVE sent[i] <= Len(results) + 1
      <4>1. Consumed \in Int /\ Consumed <= Len(written) /\ Len(written) \in Nat /\ Len(written) <= Len(sent)
        BY <2>1, <3>1, Sizes, Answers DEF JudgedInv, InTime
      <4>2. i \in DOMAIN sent /\ sent[i] \in Nat
        BY <4>1, SentParts DEF JudgedInv
      <4> QED
        BY <3>1, <3>6, <4>2 DEF Flow, Expected
    <3> QED
      BY <3>1, <3>3, <3>4, <3>5, <3>6, <3>7 DEF Flow, Expected
  <2> QED
    BY <1>2, <2>1, ReturnReceived
<1>3. CASE m.kind \in {"garbage", "overflow"} /\ Return("malformed", late, << >>)
  <2>1. ~InTime
    BY <1>1, <1>3, Taking
  <2> QED
    BY <1>3, <2>1, ReturnReceived
<1>4. CASE m.kind \in {"answer", "refusal"} /\ m.id \in late /\ SetAside(m)
  BY <1>4, SetsAsideJudged
<1>5. CASE /\ m.kind \in {"answer", "refusal"} /\ m.id \notin late /\ m.id # Current
           /\ Return("mismatched-id", late, << >>)
  <2>1. ~InTime
    BY <1>1, <1>5, Taking
  <2> QED
    BY <1>5, <2>1, ReturnReceived
<1>6. CASE /\ m.kind \in {"answer", "refusal"} /\ m.id = Current
           /\ Return(IF m.kind = "answer" THEN "accepted" ELSE "malformed", late, ignored)
  <2>1. CASE m.kind = "answer"
    <3>1. Return("accepted", late, ignored)
      BY <1>6, <2>1
    <3>2. InTime => Flow'
      BY <1>1, <1>6, <2>1, <3>1, Taking, AcceptsJudged
    <3> QED
      BY <3>1, <3>2, ReturnReceived
  <2>2. CASE m.kind = "refusal"
    <3>1. Return("malformed", late, ignored)
      BY <1>6, <2>2
    <3>2. ~InTime
      BY <1>1, <2>2, Taking
    <3> QED
      BY <3>1, <3>2, ReturnReceived
  <2> QED
    BY <1>6, <2>1, <2>2
<1> QED
  BY <1>2, <1>3, <1>4, <1>5, <1>6 DEF Receive

\* The goroutines that wait for the end come after the reader's last line.
LEMMA ExitJudged == ASSUME JudgedInv, Exit PROVE Judged'
<1>1. /\ UNCHANGED <<kind, stdin, heard, written, stdout, bot, honest, reader, sessionVars, closing>>
      /\ reader.at = "stopped" /\ bot # "running" /\ ~closed /\ closed' = TRUE
      /\ incoming' = incoming \/ incoming' = Append(incoming, Notice("crash"))
  BY DEF Exit, ReapChild, ModuleEnds, botVars
<1>2. ASSUME InTime' PROVE Flow'
  <2>1. InTime /\ Flow
    BY <1>1, <1>2 DEF InTime, JudgedInv, Judged
  <2>2. ~Crashed /\ Lines = Len(incoming) /\ ~Drained
    BY <1>1, <2>1 DEF Flow, ReaderInStep, Lines, Drained
  <2>3. Lines' = Lines /\ \A j \in 1..Lines : incoming'[j] = incoming[j]
    <3>1. incoming \in Seq(Message) /\ Len(incoming) \in Nat
      BY DEF JudgedInv, TypeOK
    <3>2. CASE incoming' = incoming
      BY <2>2, <3>2 DEF Lines, Crashed
    <3>3. CASE incoming' = Append(incoming, Notice("crash"))
      <4>1. /\ Len(incoming') = Len(incoming) + 1 /\ incoming' # << >>
            /\ incoming'[Len(incoming) + 1] = Notice("crash")
            /\ \A j \in 1..Len(incoming) : incoming'[j] = incoming[j]
        BY <3>1, <3>3
      <4>2. Crashed'
        BY <4>1 DEF Crashed, Notice
      <4> QED
        BY <2>2, <3>1, <4>1, <4>2 DEF Lines
    <3> QED
      BY <1>1, <3>2, <3>3
  <2>4. Parsed' = Parsed /\ Held' = Held /\ sent' = sent /\ Consumed' = Consumed /\ Current' = Current
    BY <1>1, <2>3 DEF Parsed, Held, sent, Consumed, Current, sessionVars
  <2>5. ReaderInStep' /\ LinesInOrder'
    BY <1>1, <2>1, <2>3, <2>4 DEF Flow, ReaderInStep, LinesInOrder
  <2>6. Expected'
    BY <1>1, <2>1, <2>2, <2>4 DEF Flow, Expected, sessionVars
  <2> QED
    BY <2>5, <2>6 DEF Flow
<1> QED
  BY <1>1, <1>2, BehindTheSession

LEMMA JudgedInit == Init => JudgedInv
<1> SUFFICES ASSUME Init PROVE Judged
  BY TypeInit, EndedInit DEF JudgedInv
<1>1. /\ sent = << >> /\ Len(sent) = 0 /\ DOMAIN sent = {} /\ LastSent = 0 /\ ~Crashed /\ Lines = 0
      /\ Parsed = 0 /\ Held = 0 /\ Consumed = 0
  <2>1. sent = << >>
    BY DEF Init, sent
  <2>2. Len(<< >>) = 0 /\ DOMAIN << >> = {}
    BY EmptySeq
  <2>3. LastSent = 0 /\ ~Crashed /\ Lines = 0 /\ Parsed = 0 /\ Held = 0
    BY <2>2 DEF Init, LastSent, Crashed, Lines, Parsed, Held, At
  <2> QED
    BY <2>1, <2>2, <2>3 DEF Consumed
<1>2. SentInOrder /\ AnswersInOrder /\ Verdicts /\ Losses /\ CallsBeforeClose
  BY <1>1 DEF Init, SentInOrder, AnswersInOrder, Verdicts, Losses, CallsBeforeClose
<1>3. Flow
  BY <1>1 DEF Init, Flow, ReaderInStep, LinesInOrder, Expected, At
<1> QED
  BY <1>2, <1>3 DEF Judged

LEMMA JudgedStep == JudgedInv /\ [Next]_vars => JudgedInv'
<1> SUFFICES ASSUME JudgedInv, [Next]_vars PROVE JudgedInv'
  OBVIOUS
<1>1. TypeOK'
  BY TypeStep DEF JudgedInv
<1>2. EndedInv'
  BY EndedStep DEF JudgedInv
<1>3. Judged'
  <2>1. CASE BeginCall \/ BotExits \/ Close \/ Over \/ UNCHANGED vars
    BY <2>1, QuietJudged
  <2>2. CASE Session \/ SendRefused \/ Timeout
    BY <2>2, SendJudged, EndsJudged, ReceiveJudged DEF Session
  <2>3. CASE BotReads \/ BotWrites
    BY <2>3, ReadsJudged, WritesJudged
  <2>4. CASE Reader \/ Exit
    BY <2>4, ReaderJudged, ExitJudged
  <2> QED
    BY <2>1, <2>2, <2>3, <2>4 DEF Next
<1> QED
  BY <1>1, <1>2, <1>3 DEF JudgedInv

\* Of its first Cap calls, none is judged malformed or mismatched output when the
\* bot answers each request once and in order: each is accepted, timed out or
\* ended by the end of the runtime, for any capacity Cap of incoming and any room
\* in the pipes.  Nothing is said of calls after the first Cap.
THEOREM HonestPlayersNeverCharged == Spec => []HonestPlayer
<1>1. JudgedInv => HonestPlayer
  BY DEF JudgedInv, Judged, Verdicts, HonestPlayer
<1> QED
  BY <1>1, JudgedInit, JudgedStep, PTL DEF Spec

\* No answer that an honest bot wrote is lost to its end: the exit goroutines
\* report and close after readStdout has delivered the last line.
THEOREM AnswersSurviveExit == Spec => []AnswerSurvivesExit
<1>1. JudgedInv => AnswerSurvivesExit
  <2> SUFFICES ASSUME JudgedInv, honest, NEW i \in DOMAIN results, i <= Cap,
                      results[i].outcome = "runtime-stopped", NEW j \in DOMAIN written
               PROVE  written[j].id # i
    BY DEF AnswerSurvivesExit
  <2>1. Unanswered(i)
    BY DEF JudgedInv, Judged, Losses
  <2>2. j \in DOMAIN sent /\ written[j].id = sent[j]
    BY Answers
  <2> QED
    BY <2>1, <2>2 DEF Unanswered
<1> QED
  BY <1>1, JudgedInit, JudgedStep, PTL DEF Spec
=============================================================================
