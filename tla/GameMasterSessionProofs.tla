----------------------- MODULE GameMasterSessionProofs -----------------------
(***************************************************************************)
(* Theorems about GameMasterSession, for every turn a match starts from    *)
(* and any number of turns.                                                *)
(***************************************************************************)
EXTENDS GameMasterSession, SequenceTheorems, TLAPS

-----------------------------------------------------------------------------
(* The inductive invariant *)

Queries == Captures \cup {"current_public_replay"}

\* What an operation has still to call, and whether the match is initialized then:
\* only what closes the match, and the first operation, may meet one that is not.
Plan(op, methods, known) ==
    \/ op \in {"close", "done"} /\ methods = <<>>
    \/ op = "check" /\ known /\ methods = <<>>
    \/ op = "init" /\ ~known /\ methods \in {<<"metadata", "initialize_match">>, <<"initialize_match">>}
    \/ op = "publish" /\ known /\ methods = <<"current_exported_snapshot">>
    \/ op = "next" /\ known /\ methods = <<"next_decision_step">>
    \/ op = "normalize" /\ known /\ methods = <<"normalize_action">>
    \/ op = "apply" /\ known /\ methods = <<"apply_decision_results">>
    \/ op \in Queries /\ known /\ methods = <<op>>
    \/ op \in Queries /\ ~known /\ methods \in {<<"metadata", "initialize_match", op>>,
                                                 <<"initialize_match", op>>}
    \/ op = "shutdown" /\ methods = <<"shutdown">>

OnTheWayOut == pc \in Closing \cup {"close", "done"}

\* The runner's side: a call is in progress only while there is one to make, an
\* abandoned session is on its way out, and only there the final state is read.
Course ==
    /\ Plan(pc, todo, initialized)
    /\ waiting # 0 => todo # <<>>
    /\ abandoned => OnTheWayOut \/ (pc = "check" /\ ctx)
    /\ ~initialized => acked = 0
    /\ \A c \in Captures : captured[c] # NotRead => OnTheWayOut /\ captured[c] = ResumeTurn + acked

\* Nothing in the channels is younger than the last call.
Known ==
    /\ \A i \in 1..Len(inbox)  : inbox[i].id <= nextID
    /\ \A i \in 1..Len(outbox) : outbox[i].id <= nextID

\* Until a call is abandoned the channels hold the call in progress or its response.
InStep ==
    ~abandoned =>
       /\ waiting = 0 => outbox = <<>> /\ (up => inbox = <<>>)
       /\ waiting # 0 /\ outbox = <<>> /\ up =>
             Len(inbox) = 1 /\ inbox[1].id = waiting /\ inbox[1].method = Head(todo)
       /\ waiting # 0 /\ outbox # <<>> =>
             Len(outbox) = 1 /\ outbox[1].id = waiting /\ (up => inbox = <<>>)

\* From then on a response of an earlier call comes first.
Behind ==
    abandoned =>
       /\ up => outbox # <<>> \/ inbox # <<>>
       /\ up /\ waiting # 0 => Len(outbox) + Len(inbox) >= 2
       /\ waiting # 0 /\ outbox # <<>> => outbox[1].id < waiting
       /\ waiting # 0 /\ outbox = <<>> /\ up => inbox[1].id < waiting

\* The game is where the runner knows it to be, but for an apply it was not told of.
Acknowledged == turn = ResumeTurn + acked

Truthful ==
    ~abandoned =>
       /\ initialized /\ outbox = <<>> => Acknowledged
       /\ waiting # 0 /\ outbox # <<>> =>
             CASE outbox[1].ok /\ Head(todo) = "initialize_match" -> turn = ResumeTurn
               [] outbox[1].ok /\ Head(todo) = "apply_decision_results" ->
                    turn = ResumeTurn + acked + 1
               [] outbox[1].ok /\ Head(todo) \in Captures -> Acknowledged /\ outbox[1].turn = turn
               [] OTHER -> initialized => Acknowledged

\* An abandoned session leaves at most one apply behind, which is served next.
LeftBehind ==
    abandoned /\ initialized =>
       /\ turn \in {ResumeTurn + acked, ResumeTurn + acked + 1}
       /\ up => \A i \in 1..Len(inbox) :
             /\ inbox[i].method # "initialize_match"
             /\ inbox[i].method = "apply_decision_results" => i = 1 /\ Acknowledged

IInv == TypeOK /\ Course /\ Known /\ InStep /\ Behind /\ Truthful /\ LeftBehind

-----------------------------------------------------------------------------
(* Sequences *)

LEMMA Taken ==
    ASSUME NEW S, NEW s \in Seq(S), s # <<>>
    PROVE  /\ s[1] \in S /\ Head(s) = s[1] /\ Tail(s) \in Seq(S)
           /\ Len(s) \in Nat \ {0} /\ Len(Tail(s)) = Len(s) - 1
           /\ \A i \in 1..Len(Tail(s)) : Tail(s)[i] = s[i + 1]
OBVIOUS

LEMMA Appended ==
    ASSUME NEW S, NEW s \in Seq(S), NEW e \in S
    PROVE  /\ Append(s, e) \in Seq(S) /\ Append(s, e) # <<>>
           /\ Len(s) \in Nat /\ Len(Append(s, e)) = Len(s) + 1
           /\ \A i \in 1..Len(s) : Append(s, e)[i] = s[i]
           /\ Append(s, e)[Len(s) + 1] = e
OBVIOUS

LEMMA Empty ==
    ASSUME NEW S, NEW s \in Seq(S)
    PROVE  Len(s) \in Nat /\ (Len(s) = 0 <=> s = <<>>) /\ <<>> \in Seq(S)
OBVIOUS

LEMMA RequestTypes ==
    ASSUME NEW s \in Seq(Requests), NEW i \in 1..Len(s)
    PROVE  s[i].id \in Nat /\ s[i].method \in Methods
<1>1. s[i] \in Requests
  OBVIOUS
<1> QED
  BY <1>1 DEF Requests

LEMMA ResponseTypes ==
    ASSUME NEW s \in Seq(Responses), NEW i \in 1..Len(s)
    PROVE  s[i].id \in Nat /\ s[i].ok \in BOOLEAN /\ s[i].more \in BOOLEAN /\ s[i].turn \in Nat
<1>1. s[i] \in Responses
  OBVIOUS
<1> QED
  BY <1>1 DEF Responses

LEMMA Pair ==
    ASSUME NEW a, NEW b, NEW c
    PROVE  <<a, b>> \o <<c>> = <<a, b, c>>
<1>1. /\ <<a, b>> \in Seq({a, b, c}) /\ Len(<<a, b>>) = 2 /\ <<a, b>>[1] = a /\ <<a, b>>[2] = b
      /\ <<c>> \in Seq({a, b, c}) /\ Len(<<c>>) = 1 /\ <<c>>[1] = c
      /\ <<a, b, c>> \in Seq({a, b, c}) /\ Len(<<a, b, c>>) = 3
      /\ <<a, b, c>>[1] = a /\ <<a, b, c>>[2] = b /\ <<a, b, c>>[3] = c
  OBVIOUS
<1>2. /\ <<a, b>> \o <<c>> \in Seq({a, b, c}) /\ Len(<<a, b>> \o <<c>>) = 3
      /\ \A i \in 1..3 : (<<a, b>> \o <<c>>)[i] = IF i <= 2 THEN <<a, b>>[i] ELSE <<c>>[i - 2]
  BY <1>1, ConcatProperties
<1>3. \A i \in 1..3 : (<<a, b>> \o <<c>>)[i] = <<a, b, c>>[i]
  BY <1>1, <1>2
<1> QED
  BY <1>1, <1>2, <1>3, SeqEqual

-----------------------------------------------------------------------------
(* The runner's way *)

LEMMA MethodNames ==
    /\ Captures \subseteq Queries /\ Queries \subseteq Closing /\ Closing \subseteq Operations
    /\ Closing = Queries \cup {"shutdown"} /\ Queries \subseteq Methods
    /\ {"init", "publish", "check", "next", "normalize", "apply", "close", "done"}
          \cap Closing = {}
    /\ {"metadata", "initialize_match", "next_decision_step", "normalize_action",
        "apply_decision_results", "shutdown"} \cap Queries = {}
BY DEF Captures, Queries, Closing, Operations, Methods

\* What an operation begins with is its plan.
LEMMA OperationPlan ==
    ASSUME NEW op \in Operations \ {"init"}, NEW known \in BOOLEAN,
           op \in Closing \cup {"close", "done"} \/ known
    PROVE  Plan(op, Operation(op, known), known) /\ Operation(op, known) \in Seq(Methods)
<1>1. CASE op \in Queries
  <2>1. Operation(op, known) = Initialize(known) \o <<op>>
    BY <1>1 DEF Operation, Queries, Captures
  <2>2. op \in Methods
    BY <1>1, MethodNames
  <2>3. known => Operation(op, known) = <<op>>
    BY <2>1, <2>2 DEF Initialize
  <2>4. ~known => Operation(op, known) = <<"metadata", "initialize_match", op>>
    BY <2>1, Pair DEF Initialize
  <2>5. <<op>> \in Seq(Methods) /\ <<"metadata", "initialize_match", op>> \in Seq(Methods)
    BY <2>2 DEF Methods
  <2> QED
    BY <1>1, <2>3, <2>4, <2>5 DEF Plan
<1>2. CASE op \notin Queries
  <2>1. op \in {"publish", "check", "next", "normalize", "apply", "shutdown", "close", "done"}
    BY <1>2, MethodNames DEF Operations
  <2>2. op = "publish" => known /\ Operation(op, known) = <<"current_exported_snapshot">>
    BY MethodNames DEF Operation, Initialize, Closing, Captures
  <2>3. op \in {"check", "close", "done"} => Operation(op, known) = <<>>
    BY DEF Operation, Captures
  <2>4. /\ op = "next" => Operation(op, known) = <<"next_decision_step">>
        /\ op = "normalize" => Operation(op, known) = <<"normalize_action">>
        /\ op = "apply" => Operation(op, known) = <<"apply_decision_results">>
        /\ op = "shutdown" => Operation(op, known) = <<"shutdown">>
    BY DEF Operation, Captures
  <2>5. op \in {"check", "next", "normalize", "apply"} => known
    BY MethodNames
  <2>6. \A m \in Methods : <<m>> \in Seq(Methods)
    OBVIOUS
  <2>7. CASE op \in {"check", "close", "done"}
    <3>1. <<>> \in Seq(Methods)
      OBVIOUS
    <3> QED
      BY <2>3, <2>5, <2>7, <3>1 DEF Plan
  <2>8. CASE op \in {"publish", "next", "normalize", "apply", "shutdown"}
    <3>1. {"current_exported_snapshot", "next_decision_step", "normalize_action",
           "apply_decision_results", "shutdown"} \subseteq Methods
      BY DEF Methods, Captures
    <3> QED
      BY <2>2, <2>4, <2>5, <2>6, <2>8, <3>1 DEF Plan
  <2> QED
    BY <2>1, <2>7, <2>8
<1> QED
  BY <1>1, <1>2

\* A call is made for the operation that is named by it, or initializes the match.
LEMMA Calls ==
    ASSUME TypeOK, Course, todo # <<>>
    PROVE  /\ Head(todo) \in Methods /\ pc \in Operations \ {"check", "close", "done"}
           /\ Head(todo) = "apply_decision_results" <=> pc = "apply"
           /\ Head(todo) \in {"metadata", "initialize_match"} <=> ~initialized /\ pc # "shutdown"
           /\ pc \in {"publish", "next", "normalize", "apply"} => initialized
           /\ pc \in Captures /\ initialized => Head(todo) = pc
           /\ pc = "shutdown" => Head(todo) = "shutdown"
<1>1. Plan(pc, todo, initialized) /\ Head(todo) \in Methods /\ pc \in Operations
  BY Taken DEF Course, TypeOK
<1> QED
  BY <1>1, MethodNames DEF Plan, Captures

LEMMA TypeInit == Init => TypeOK
<1>1. <<"metadata", "initialize_match">> \in Seq(Methods) /\ <<>> \in Seq(Requests) /\ <<>> \in Seq(Responses)
  BY DEF Methods
<1>2. "init" \in Operations /\ NotRead \in Nat
  BY TurnsAssumption DEF Operations, NotRead
<1> SUFFICES ASSUME Init PROVE TypeOK
  OBVIOUS
<1>3. captured \in [Captures -> Nat]
  BY <1>2 DEF Init
<1>4. todo \in Seq(Methods) /\ inbox \in Seq(Requests) /\ outbox \in Seq(Responses)
  BY <1>1 DEF Init
<1>5. nextID \in Nat /\ waiting \in {0, nextID} /\ turn \in Nat /\ acked \in Nat
  BY DEF Init
<1> QED
  BY <1>2, <1>3, <1>4, <1>5 DEF Init, TypeOK

LEMMA InvariantInit == Init => IInv
<1> SUFFICES ASSUME Init PROVE IInv
  OBVIOUS
<1>1. TypeOK
  BY TypeInit
<1>2. Course
  BY DEF Init, Course, Plan
<1> QED
  BY <1>1, <1>2, Empty DEF Init, IInv, TypeOK, Known, InStep, Behind, Truthful, LeftBehind

\* A failed operation leads on, or out; it changes nothing that was read or known.
LEMMA Failing ==
    ASSUME TypeOK, Course, Fail, todo # <<>>, ctx' = ctx,
           abandoned' => abandoned \/ ContextEnded
    PROVE  /\ pc' \in Operations /\ todo' \in Seq(Methods) /\ Course'
           /\ waiting' = 0 /\ UNCHANGED <<initialized, acked, completed, captured>>
<1> DEFINE op == AfterFailure
<1>1. /\ pc' = op /\ todo' = Operation(op, initialized) /\ waiting' = 0
      /\ UNCHANGED <<initialized, acked, completed, captured>>
  BY DEF Fail, Goto
<1>2. /\ pc = "publish" => op = "check"
      /\ pc \in Queries => op = "shutdown"
      /\ pc = "shutdown" => op = "close"
      /\ pc \in {"init", "next", "normalize", "apply"} => op = "current_snapshot"
  BY MethodNames DEF AfterFailure, Queries
<1>3. /\ pc \in {"init", "publish", "next", "normalize", "apply", "shutdown"} \cup Queries
      /\ pc = "publish" => initialized
  BY Calls, MethodNames DEF Operations
<1>4. /\ op \in Operations \ {"init"}
      /\ op \in Closing \cup {"close", "done"} \/ (op = "check" /\ pc = "publish")
  BY <1>2, <1>3, MethodNames DEF Operations, Closing, Captures
<1> HIDE DEF op
<1>5. Plan(op, todo', initialized) /\ todo' \in Seq(Methods)
  <2>1. initialized \in BOOLEAN
    BY DEF TypeOK
  <2> QED
    BY <1>1, <1>3, <1>4, <2>1, OperationPlan
<1>6. abandoned' => OnTheWayOut' \/ (pc' = "check" /\ ctx')
  <2>1. CASE op \in Closing \cup {"close", "done"}
    BY <1>1, <2>1 DEF OnTheWayOut
  <2>2. CASE op = "check" /\ pc = "publish"
    BY <1>1, <2>2, MethodNames DEF Course, OnTheWayOut, ContextEnded
  <2> QED
    BY <1>4, <2>1, <2>2
<1>7. \A c \in Captures : captured[c] # NotRead => OnTheWayOut' /\ captured[c] = ResumeTurn + acked
  <2>1. pc = "publish" => ~OnTheWayOut
    BY MethodNames DEF OnTheWayOut
  <2>2. op \in Closing \cup {"close", "done"} => OnTheWayOut'
    BY <1>1 DEF OnTheWayOut
  <2> QED
    BY <1>4, <2>1, <2>2 DEF Course
<1>8. Course'
  BY <1>1, <1>5, <1>6, <1>7 DEF Course
<1> QED
  BY <1>1, <1>4, <1>5, <1>8

-----------------------------------------------------------------------------
(* The steps *)

LEMMA CheckStep == IInv /\ CheckContext => IInv'
<1> SUFFICES ASSUME IInv, CheckContext PROVE IInv'
  OBVIOUS
<1> DEFINE op == IF ctx THEN "current_snapshot" ELSE "next"
<1>1. /\ pc = "check" /\ pc' = op /\ todo' = Operation(op, initialized)
      /\ UNCHANGED <<ctx, shutdown, nextID, waiting, initialized, acked, completed, captured, abandoned,
                     closed, inbox, outbox, sidecar>>
  BY DEF CheckContext, Goto
<1>2. initialized /\ waiting = 0
  BY <1>1, MethodNames DEF IInv, Course, Plan
<1>3. op \in Operations \ {"init"} /\ "current_snapshot" \in Closing
  BY DEF Operations, Closing, Captures
<1>4. Plan(op, todo', initialized) /\ todo' \in Seq(Methods)
  BY <1>1, <1>2, <1>3, OperationPlan
<1>5. Course'
  <2>1. \A c \in Captures : captured[c] = NotRead
    BY <1>1, MethodNames DEF IInv, Course, OnTheWayOut
  <2>2. abandoned => ctx
    BY <1>1, MethodNames DEF IInv, Course, OnTheWayOut
  <2>3. abandoned' => OnTheWayOut'
    BY <1>1, <1>3, <2>2 DEF OnTheWayOut
  <2> QED
    BY <1>1, <1>2, <1>4, <2>1, <2>3 DEF Course
<1>6. TypeOK'
  BY <1>1, <1>3, <1>4 DEF IInv, TypeOK, sidecar
<1> QED
  BY <1>1, <1>2, <1>5, <1>6
  DEF IInv, Known, InStep, Behind, Truthful, LeftBehind, Acknowledged, sidecar

LEMMA CloseStep == IInv /\ CloseAdapter => IInv'
<1> SUFFICES ASSUME IInv, CloseAdapter PROVE IInv'
  OBVIOUS
<1>1. /\ pc = "close" /\ pc' = "done" /\ todo' = Operation("done", initialized)
      /\ closed' = TRUE /\ up' = FALSE
      /\ UNCHANGED <<ctx, shutdown, nextID, waiting, initialized, acked, completed, captured, abandoned,
                     inbox, outbox, master, turn, asked>>
  BY DEF CloseAdapter, Goto
<1>2. initialized \in BOOLEAN /\ waiting = 0
  BY <1>1, MethodNames DEF IInv, Course, Plan, TypeOK
<1>3. Plan("done", todo', initialized) /\ todo' \in Seq(Methods) /\ "done" \in Operations
  BY <1>1, <1>2, OperationPlan DEF Operations
<1>4. Course'
  BY <1>1, <1>2, <1>3 DEF IInv, Course, OnTheWayOut
<1>5. TypeOK'
  BY <1>1, <1>3 DEF IInv, TypeOK
<1> QED
  BY <1>1, <1>2, <1>4, <1>5 DEF IInv, Known, InStep, Behind, Truthful, LeftBehind, Acknowledged

\* Course says nothing of the channels and the sidecar.
LEMMA CourseKept ==
    ASSUME Course, UNCHANGED <<pc, todo, initialized, acked, captured>>,
           ctx => ctx', abandoned' = abandoned, waiting' # 0 => todo # <<>>
    PROVE  Course'
BY DEF Course, OnTheWayOut

LEMMA SendStep == IInv /\ Send => IInv'
<1> SUFFICES ASSUME IInv, Send PROVE IInv'
  OBVIOUS
<1>1. /\ todo # <<>> /\ waiting = 0 /\ nextID' = nextID + 1
      /\ UNCHANGED <<ctx, shutdown, abandoned, closed, outbox, up, master, turn, asked>>
  BY DEF Send, sidecar
<1>2. /\ nextID \in Nat /\ inbox \in Seq(Requests) /\ outbox \in Seq(Responses)
      /\ Len(inbox) \in Nat /\ Len(outbox) \in Nat
  BY Empty DEF IInv, TypeOK
<1>3. Known /\ nextID < nextID'
  BY <1>1, <1>2 DEF IInv
<1>4. CASE /\ waiting' = nextID + 1
           /\ inbox' = Append(inbox, [id |-> nextID + 1, method |-> Head(todo)])
           /\ UNCHANGED <<pc, todo, initialized, acked, completed, captured>>
  <2> DEFINE request == [id |-> nextID + 1, method |-> Head(todo)]
  <2>1. request \in Requests /\ request.id = nextID + 1 /\ request.method = Head(todo)
    BY <1>1, <1>2, Calls DEF IInv, Requests
  <2> HIDE DEF request
  <2>2. inbox' = Append(inbox, request)
    BY <1>4 DEF request
  <2>3. /\ inbox' \in Seq(Requests) /\ inbox' # <<>> /\ Len(inbox') = Len(inbox) + 1
        /\ \A j \in 1..Len(inbox) : inbox'[j] = inbox[j]
        /\ inbox'[Len(inbox) + 1] = request
    BY <1>2, <2>1, <2>2, Appended
  <2>4. TypeOK'
    BY <1>1, <1>2, <1>4, <2>3 DEF IInv, TypeOK
  <2>5. Course'
    BY <1>1, <1>4, CourseKept DEF IInv
  <2>6. Known'
    <3>1. \A j \in 1..Len(inbox') : inbox'[j].id <= nextID'
      <4>1. \A j \in 1..Len(inbox) : inbox[j].id \in Nat
        BY <1>2, RequestTypes
      <4>2. \A j \in 1..Len(inbox') : j \in 1..Len(inbox) \/ j = Len(inbox) + 1
        BY <1>2, <2>3
      <4> QED
        BY <1>1, <1>2, <1>3, <2>1, <2>3, <4>1, <4>2 DEF Known
    <3>2. \A j \in 1..Len(outbox') : outbox'[j].id <= nextID'
      <4>1. \A j \in 1..Len(outbox) : outbox[j].id \in Nat
        BY <1>2, ResponseTypes
      <4> QED
        BY <1>1, <1>2, <1>3, <4>1 DEF Known
    <3> QED
      BY <3>1, <3>2 DEF Known
  <2>7. InStep'
    BY <1>1, <1>2, <1>4, <2>1, <2>3, Empty DEF IInv, InStep
  <2>8. Behind'
    <3>1. outbox # <<>> => outbox[1].id \in Nat /\ outbox[1].id <= nextID
      <4>1. outbox # <<>> => 1 \in 1..Len(outbox)
        BY <1>2
      <4> QED
        BY <1>2, <1>3, <4>1, ResponseTypes DEF Known
    <3>2. inbox # <<>> => inbox[1].id \in Nat /\ inbox[1].id <= nextID /\ inbox'[1] = inbox[1]
      <4>1. inbox # <<>> => 1 \in 1..Len(inbox)
        BY <1>2
      <4> QED
        BY <1>2, <1>3, <2>3, <4>1, RequestTypes DEF Known
    <3>3. abandoned /\ up => outbox # <<>> \/ inbox # <<>>
      BY DEF IInv, Behind
    <3>4. (outbox # <<>> => Len(outbox) >= 1) /\ (inbox # <<>> => Len(inbox) >= 1)
      BY <1>2
    <3> QED
      BY <1>1, <1>2, <1>4, <2>3, <3>1, <3>2, <3>3, <3>4 DEF Behind
  <2>9. Truthful'
    BY <1>1, <1>4, <2>3 DEF IInv, InStep, Truthful, Acknowledged
  <2>10. LeftBehind'
    <3> SUFFICES ASSUME abandoned, initialized
                 PROVE  LeftBehind'
      BY <1>1, <1>4 DEF LeftBehind
    <3>1. Head(todo) \notin {"initialize_match", "apply_decision_results"}
      <4>1. pc \in Closing \cup {"close", "done", "check"}
        BY DEF IInv, Course, OnTheWayOut
      <4> QED
        BY <1>1, <4>1, Calls, MethodNames DEF IInv
    <3>2. \A j \in 1..Len(inbox') : j \in 1..Len(inbox) \/ j = Len(inbox) + 1
      BY <1>2, <2>3
    <3> QED
      BY <1>1, <1>4, <2>1, <2>3, <3>1, <3>2 DEF IInv, LeftBehind, Acknowledged
  <2> QED
    BY <2>4, <2>5, <2>6, <2>7, <2>8, <2>9, <2>10 DEF IInv
<1>5. CASE ~up /\ Fail /\ UNCHANGED inbox
  <2>1. /\ pc' \in Operations /\ todo' \in Seq(Methods) /\ Course'
        /\ waiting' = 0 /\ UNCHANGED <<initialized, acked, completed, captured>>
    BY <1>1, <1>5, Failing DEF IInv
  <2>2. TypeOK'
    BY <1>1, <1>2, <1>5, <2>1 DEF IInv, TypeOK
  <2>3. Known'
    <3>1. /\ \A j \in 1..Len(outbox) : outbox[j].id \in Nat
          /\ \A j \in 1..Len(inbox) : inbox[j].id \in Nat
      BY <1>2, RequestTypes, ResponseTypes
    <3> QED
      BY <1>1, <1>2, <1>3, <1>5, <3>1 DEF Known
  <2> QED
    BY <1>1, <1>5, <2>1, <2>2, <2>3 DEF IInv, InStep, Behind, Truthful, LeftBehind, Acknowledged
<1> QED
  BY <1>4, <1>5 DEF Send

LEMMA RuntimeStoppedStep == IInv /\ RuntimeStopped => IInv'
<1> SUFFICES ASSUME IInv, RuntimeStopped PROVE IInv'
  OBVIOUS
<1>1. /\ waiting # 0 /\ outbox = <<>> /\ ~up /\ Fail
      /\ UNCHANGED <<ctx, shutdown, nextID, abandoned, closed, inbox, outbox, up, master, turn, asked>>
  BY DEF RuntimeStopped, sidecar
<1>2. /\ pc' \in Operations /\ todo' \in Seq(Methods) /\ Course'
      /\ waiting' = 0 /\ UNCHANGED <<initialized, acked, completed, captured>>
  BY <1>1, Failing DEF IInv, Course
<1>3. TypeOK'
  BY <1>1, <1>2 DEF IInv, TypeOK
<1> QED
  BY <1>1, <1>2, <1>3 DEF IInv, Known, InStep, Behind, Truthful, LeftBehind, Acknowledged

LEMMA AbandonStep == IInv /\ Abandon => IInv'
<1> SUFFICES ASSUME IInv, Abandon PROVE IInv'
  OBVIOUS
<1>1. /\ waiting # 0 /\ ContextEnded /\ Fail /\ abandoned' = TRUE
      /\ UNCHANGED <<ctx, shutdown, nextID, closed, inbox, outbox, up, master, turn, asked>>
  BY DEF Abandon, sidecar
<1>2. /\ pc' \in Operations /\ todo' \in Seq(Methods) /\ Course'
      /\ waiting' = 0 /\ UNCHANGED <<initialized, acked, completed, captured>>
  BY <1>1, Failing DEF IInv, Course
<1>3. TypeOK'
  BY <1>1, <1>2 DEF IInv, TypeOK
<1>4. Len(inbox) = 1 => inbox # <<>>
  <2>1. inbox \in Seq(Requests)
    BY DEF IInv, TypeOK
  <2> QED
    BY <2>1, Empty
<1>5. abandoned \in BOOLEAN /\ initialized \in BOOLEAN /\ todo # <<>>
  BY <1>1 DEF IInv, TypeOK, Course
<1>6. Behind'
  <2>1. up => outbox # <<>> \/ inbox # <<>>
    BY <1>1, <1>4, <1>5 DEF IInv, InStep, Behind
  <2> QED
    BY <1>1, <1>2, <2>1 DEF Behind
<1>7. LeftBehind'
  <2>1. CASE abandoned
    BY <1>1, <1>2, <2>1 DEF IInv, LeftBehind, Acknowledged
  <2>2. CASE ~abandoned /\ ~initialized
    BY <1>2, <2>2 DEF LeftBehind
  <2>3. CASE ~abandoned /\ initialized
    <3>1. Head(todo) # "initialize_match"
      BY <1>5, <2>3, Calls DEF IInv
    <3>2. turn \in {ResumeTurn + acked, ResumeTurn + acked + 1}
      BY <1>1, <2>3, <3>1 DEF IInv, Truthful, Acknowledged
    <3>3. CASE outbox = <<>>
      <4>1. Acknowledged
        BY <2>3, <3>3 DEF IInv, Truthful
      <4>2. up => Len(inbox) = 1 /\ inbox[1].method = Head(todo)
        BY <1>1, <2>3, <3>3 DEF IInv, InStep
      <4> QED
        BY <1>1, <1>2, <3>1, <3>2, <4>1, <4>2 DEF LeftBehind, Acknowledged
    <3>4. CASE outbox # <<>>
      <4>1. up => Len(inbox) = 0
        BY <1>1, <2>3, <3>4 DEF IInv, InStep
      <4> QED
        BY <1>1, <1>2, <3>2, <4>1 DEF LeftBehind, Acknowledged
    <3> QED
      BY <3>3, <3>4
  <2> QED
    BY <2>1, <2>2, <2>3
<1> QED
  BY <1>1, <1>2, <1>3, <1>6, <1>7 DEF IInv, Known, InStep, Truthful

LEMMA EnvironmentStep ==
    IInv /\ (MatchContextEnds \/ ShutdownDeadline \/ Exit \/ UNCHANGED vars) => IInv'
<1> SUFFICES ASSUME IInv, MatchContextEnds \/ ShutdownDeadline \/ Exit \/ UNCHANGED vars
             PROVE  IInv'
  OBVIOUS
<1>1. /\ UNCHANGED <<pc, todo, nextID, waiting, initialized, acked, completed, captured, abandoned, closed,
                      inbox, outbox, master, turn, asked>>
      /\ ctx' \in BOOLEAN /\ shutdown' \in BOOLEAN /\ up' \in BOOLEAN
      /\ (ctx => ctx') /\ (up' => up)
  <2>1. ctx \in BOOLEAN /\ shutdown \in BOOLEAN /\ up \in BOOLEAN
    BY DEF IInv, TypeOK
  <2>2. CASE MatchContextEnds
    BY <2>1, <2>2 DEF MatchContextEnds, client, sidecar
  <2>3. CASE ShutdownDeadline
    BY <2>1, <2>3 DEF ShutdownDeadline, client, sidecar
  <2>4. CASE Exit
    BY <2>1, <2>4 DEF Exit, client
  <2>5. CASE UNCHANGED vars
    BY <2>1, <2>5 DEF vars, client, sidecar
  <2> QED
    BY <2>2, <2>3, <2>4, <2>5
<1>2. TypeOK'
  BY <1>1 DEF IInv, TypeOK
<1>3. Course'
  BY <1>1, CourseKept DEF IInv, Course
<1>4. Known' /\ Truthful'
  BY <1>1 DEF IInv, Known, Truthful, Acknowledged
<1>5. InStep'
  BY <1>1 DEF IInv, InStep
<1>6. Behind' /\ LeftBehind'
  BY <1>1 DEF IInv, Behind, LeftBehind, Acknowledged
<1> QED
  BY <1>2, <1>3, <1>4, <1>5, <1>6 DEF IInv

LEMMA Rests ==
    ASSUME NEW a, NEW b, NEW c
    PROVE  /\ Len(<<a>>) = 1 /\ Len(<<a, b>>) = 2 /\ Len(<<a, b, c>>) = 3
           /\ Head(<<a>>) = a /\ Head(<<a, b>>) = a /\ Head(<<a, b, c>>) = a
           /\ Tail(<<a, b>>) = <<b>> /\ Tail(<<a, b, c>>) = <<b, c>>
OBVIOUS

\* A call that succeeds leads to the next method of the operation, or to the next operation.
LEMMA Succeeding ==
    ASSUME TypeOK, Course, todo # <<>>, ~abandoned, abandoned' = abandoned,
           NEW r \in Responses, Succeed(r),
           Head(todo) \in Captures => r.turn = ResumeTurn + acked
    PROVE  /\ pc' \in Operations /\ todo' \in Seq(Methods) /\ Course' /\ waiting' = 0
           /\ initialized' = (initialized \/ Head(todo) = "initialize_match")
           /\ acked' = IF Head(todo) = "apply_decision_results" THEN acked + 1 ELSE acked
           /\ completed' \in BOOLEAN /\ captured' \in [Captures -> Nat]
<1> DEFINE m == Head(todo)
<1>1. /\ waiting' = 0
      /\ initialized' = (initialized \/ m = "initialize_match")
      /\ acked' = IF m = "apply_decision_results" THEN acked + 1 ELSE acked
      /\ completed' \in BOOLEAN
      /\ captured' = IF pc \in Captures /\ m = pc THEN [captured EXCEPT ![pc] = r.turn] ELSE captured
      /\ IF Len(todo) > 1 THEN todo' = Tail(todo) /\ UNCHANGED pc
         ELSE pc' = AfterSuccess(r.more) /\ todo' = Operation(pc', initialized')
  <2>1. completed \in BOOLEAN
    BY DEF TypeOK
  <2> QED
    BY <2>1 DEF Succeed, Goto
<1>2. /\ initialized \in BOOLEAN /\ initialized' \in BOOLEAN /\ r.turn \in Nat
      /\ captured \in [Captures -> Nat] /\ acked \in Nat /\ pc \in Operations
      /\ todo \in Seq(Methods) /\ Plan(pc, todo, initialized)
  BY <1>1 DEF TypeOK, Responses, Course
<1>3. /\ m = "apply_decision_results" => pc = "apply" /\ initialized
      /\ pc \in {"publish", "next", "normalize", "apply"} => initialized
      /\ pc \in Captures /\ initialized => m = pc
      /\ pc \in {"init", "publish", "next", "normalize", "apply", "shutdown"} \cup Queries
  BY Calls, MethodNames DEF Operations
<1>4. /\ pc' \in Operations /\ todo' \in Seq(Methods) /\ Plan(pc', todo', initialized')
      /\ OnTheWayOut => OnTheWayOut'
      /\ pc \in Captures => OnTheWayOut'
  <2>1. CASE Len(todo) > 1
    <3>1. \/ pc = "init" /\ ~initialized /\ todo = <<"metadata", "initialize_match">>
          \/ pc \in Queries /\ ~initialized
                /\ todo \in {<<"metadata", "initialize_match", pc>>, <<"initialize_match", pc>>}
      <4>1. Len(<<>>) = 0 /\ \A a : Len(<<a>>) = 1
        BY Rests
      <4>2. todo # <<>> /\ \A a : todo # <<a>>
        <5>1. Len(todo) # 0 /\ Len(todo) # 1
          <6>1. Len(todo) \in Nat
            <7>1. todo \in Seq(Methods)
              BY <1>2
            <7> QED
              BY <7>1, LenProperties
          <6>2. \A n \in Nat : n > 1 => n # 0 /\ n # 1
            OBVIOUS
          <6> QED
            BY <2>1, <6>1, <6>2, Zenon
        <5> QED
          BY <4>1, <5>1, Zenon
      <4> QED
        BY <1>2, <4>2, MethodNames DEF Plan
    <3>2. pc' = pc /\ todo' = Tail(todo) /\ todo' \in Seq(Methods)
      BY <1>1, <1>2, <2>1, Taken
    <3>3. CASE pc = "init" /\ ~initialized /\ todo = <<"metadata", "initialize_match">>
      <4>1. Head(todo) = "metadata" /\ todo' = <<"initialize_match">>
        BY <3>2, <3>3, Rests
      <4> QED
        BY <1>1, <1>2, <3>2, <3>3, <4>1, MethodNames DEF Plan, OnTheWayOut
    <3>4. CASE pc \in Queries /\ ~initialized /\ todo = <<"metadata", "initialize_match", pc>>
      <4>1. Head(todo) = "metadata" /\ todo' = <<"initialize_match", pc>>
        BY <3>2, <3>4, Rests
      <4> QED
        BY <1>1, <1>2, <3>2, <3>4, <4>1, MethodNames DEF Plan, OnTheWayOut
    <3>5. CASE pc \in Queries /\ ~initialized /\ todo = <<"initialize_match", pc>>
      <4>1. Head(todo) = "initialize_match" /\ todo' = <<pc>>
        BY <3>2, <3>5, Rests
      <4> QED
        BY <1>1, <1>2, <3>2, <3>5, <4>1, MethodNames DEF Plan, OnTheWayOut
    <3> QED
      BY <3>1, <3>3, <3>4, <3>5
  <2>2. CASE ~(Len(todo) > 1)
    <3> DEFINE op == AfterSuccess(r.more)
    <3>1. pc' = op /\ todo' = Operation(op, initialized')
      BY <1>1, <2>2
    <3>2. pc = "init" => m = "initialize_match"
      <4>1. todo # <<"metadata", "initialize_match">>
        BY <2>2, Rests
      <4>2. Head(<<"initialize_match">>) = "initialize_match"
        BY Rests
      <4> QED
        BY <1>2, <4>1, <4>2, MethodNames DEF Plan
    <3>3. /\ pc \in {"init", "apply"} => op = "publish"
          /\ pc = "publish" => op = "check"
          /\ pc = "next" => op \in {"normalize", "current_snapshot"}
          /\ pc = "normalize" => op = "apply"
          /\ pc = "current_snapshot" => op = "current_exported_snapshot"
          /\ pc = "current_exported_snapshot" => op = "current_result"
          /\ pc = "current_result" => op \in {"current_public_replay", "shutdown"}
          /\ pc = "current_public_replay" => op = "shutdown"
          /\ pc = "shutdown" => op = "close"
      <4>1. completed \in BOOLEAN
        BY DEF TypeOK
      <4> QED
        BY <4>1 DEF AfterSuccess
    <3> HIDE DEF op
    <3>4. /\ op \in Operations \ {"init"}
          /\ op \in Closing \cup {"close", "done"} \/ initialized'
          /\ pc \in Closing => op \in Closing \cup {"close"}
      BY <1>1, <1>3, <3>2, <3>3, MethodNames DEF Operations, Queries, Closing, Captures
    <3>5. Plan(op, todo', initialized') /\ todo' \in Seq(Methods)
      BY <1>2, <3>1, <3>4, OperationPlan
    <3>6. pc \in Closing => OnTheWayOut'
      BY <3>1, <3>4 DEF OnTheWayOut
    <3> QED
      BY <1>3, <3>1, <3>4, <3>5, <3>6, MethodNames DEF OnTheWayOut
  <2> QED
    BY <2>1, <2>2
<1>5. captured' \in [Captures -> Nat]
  BY <1>1, <1>2
<1>6. \A c \in Captures : captured'[c] # NotRead => OnTheWayOut' /\ captured'[c] = ResumeTurn + acked'
  <2> SUFFICES ASSUME NEW c \in Captures, captured'[c] # NotRead
               PROVE  OnTheWayOut' /\ captured'[c] = ResumeTurn + acked'
    OBVIOUS
  <2>1. CASE pc \in Captures /\ m = pc /\ c = pc
    <3>1. captured'[c] = r.turn /\ acked' = acked
      BY <1>1, <1>2, <2>1, MethodNames
    <3> QED
      BY <1>4, <2>1, <3>1
  <2>2. CASE ~(pc \in Captures /\ m = pc /\ c = pc)
    <3>1. captured'[c] = captured[c]
      BY <1>1, <1>2, <2>2
    <3>2. OnTheWayOut /\ captured[c] = ResumeTurn + acked
      BY <3>1 DEF Course
    <3>3. acked' = acked
      BY <1>1, <1>3, <3>2, MethodNames DEF OnTheWayOut
    <3> QED
      BY <1>4, <3>1, <3>2, <3>3
  <2> QED
    BY <2>1, <2>2
<1>7. ~initialized' => acked' = 0
  BY <1>1, <1>2, <1>3 DEF Course
<1>8. Course'
  BY <1>1, <1>4, <1>6, <1>7 DEF Course
<1> QED
  BY <1>1, <1>4, <1>5, <1>8

\* A call that succeeds takes its own response, so none was abandoned before it.
LEMMA TakeResponseStep == IInv /\ TakeResponse => IInv'
<1> SUFFICES ASSUME IInv, TakeResponse PROVE IInv'
  OBVIOUS
<1> DEFINE r == Head(outbox)
<1>1. /\ waiting # 0 /\ outbox # <<>> /\ outbox' = Tail(outbox)
      /\ UNCHANGED <<ctx, shutdown, nextID, abandoned, closed, inbox, up, master, turn, asked>>
      /\ \/ r.id = waiting /\ r.ok /\ Succeed(r)
         \/ (r.id # waiting \/ ~r.ok \/ Head(todo) = "metadata") /\ Fail
  BY DEF TakeResponse, MatchResponseID, sidecar
<1>2. /\ outbox \in Seq(Responses) /\ inbox \in Seq(Requests) /\ nextID \in Nat /\ waiting \in Nat
      /\ initialized \in BOOLEAN /\ abandoned \in BOOLEAN /\ todo # <<>>
      /\ acked \in Nat /\ turn \in Nat
  BY <1>1 DEF IInv, TypeOK, Course
<1>3. /\ r = outbox[1] /\ r \in Responses /\ outbox' \in Seq(Responses)
      /\ Len(outbox) \in Nat \ {0} /\ Len(outbox') = Len(outbox) - 1
      /\ \A i \in 1..Len(outbox') : outbox'[i] = outbox[i + 1]
  BY <1>1, <1>2, Taken
<1>4. r.id \in Nat /\ r.ok \in BOOLEAN
  BY <1>3 DEF Responses
<1> HIDE DEF r
<1>5. Known'
  BY <1>1, <1>2, <1>3 DEF IInv, Known
<1>6. ~abandoned => outbox' = <<>> /\ r.id = waiting /\ (up => inbox = <<>>)
  <2>1. ~abandoned => Len(outbox) = 1 /\ r.id = waiting /\ (up => inbox = <<>>)
    BY <1>1, <1>3 DEF IInv, InStep
  <2>2. outbox' \in Seq(Responses)
    BY <1>3
  <2>3. Len(outbox') = 0 <=> outbox' = <<>>
    BY <2>2, Empty
  <2>4. ~abandoned => Len(outbox') = 0
    <3>1. 1 - 1 = 0
      OBVIOUS
    <3>2. Len(outbox') = Len(outbox) - 1
      BY <1>3
    <3> QED
      BY <2>1, <3>1, <3>2, Zenon
  <2> QED
    BY <2>1, <2>3, <2>4, Zenon
<1>7. abandoned => r.id # waiting
  BY <1>1, <1>2, <1>3, <1>4 DEF IInv, Behind
<1>8. CASE r.id = waiting /\ r.ok /\ Succeed(r)
  <2>1. ~abandoned
    BY <1>7, <1>8
  <2>2. /\ Head(todo) = "initialize_match" => turn = ResumeTurn
        /\ Head(todo) = "apply_decision_results" => turn = ResumeTurn + acked + 1
        /\ Head(todo) \in Captures => r.turn = ResumeTurn + acked /\ Acknowledged
        /\ Head(todo) \notin {"initialize_match", "apply_decision_results"} \cup Captures
              => (initialized => Acknowledged)
    BY <1>1, <1>3, <1>8, <2>1, MethodNames DEF IInv, Truthful, Acknowledged
  <2>3. /\ pc' \in Operations /\ todo' \in Seq(Methods) /\ Course' /\ waiting' = 0
        /\ initialized' = (initialized \/ Head(todo) = "initialize_match")
        /\ acked' = IF Head(todo) = "apply_decision_results" THEN acked + 1 ELSE acked
        /\ completed' \in BOOLEAN /\ captured' \in [Captures -> Nat]
    BY <1>1, <1>2, <1>3, <1>8, <2>1, <2>2, Succeeding DEF IInv
  <2>4. TypeOK'
    BY <1>1, <1>2, <1>3, <2>3 DEF IInv, TypeOK
  <2>5. initialized' => turn = ResumeTurn + acked'
    <3>1. Head(todo) = "initialize_match" => acked = 0 /\ ResumeTurn + 0 = ResumeTurn
      BY <1>2, Calls, TurnsAssumption DEF IInv, Course
    <3> QED
      BY <1>2, <2>2, <2>3, <3>1, TurnsAssumption DEF Acknowledged
  <2>6. InStep' /\ Behind' /\ LeftBehind'
    BY <1>1, <1>6, <2>1, <2>3 DEF InStep, Behind, LeftBehind
  <2>7. Truthful'
    BY <1>1, <2>3, <2>5 DEF Truthful, Acknowledged
  <2> QED
    BY <1>5, <2>3, <2>4, <2>6, <2>7 DEF IInv
<1>9. CASE (r.id # waiting \/ ~r.ok \/ Head(todo) = "metadata") /\ Fail
  <2>1. /\ pc' \in Operations /\ todo' \in Seq(Methods) /\ Course' /\ waiting' = 0
        /\ UNCHANGED <<initialized, acked, completed, captured>>
    BY <1>1, <1>2, <1>9, Failing DEF IInv
  <2>2. TypeOK'
    BY <1>1, <1>2, <1>3, <2>1 DEF IInv, TypeOK
  <2>3. InStep'
    BY <1>1, <1>6, <2>1 DEF InStep
  <2>4. Behind'
    <3>1. abandoned /\ up => Len(outbox) + Len(inbox) >= 2
      BY <1>1 DEF IInv, Behind
    <3>2. Len(inbox) \in Nat /\ (Len(inbox) = 0 <=> inbox = <<>>) /\ (Len(outbox') = 0 <=> outbox' = <<>>)
      BY <1>2, <1>3, Empty
    <3>3. abandoned /\ up => Len(outbox') # 0 \/ Len(inbox) # 0
      BY <1>3, <3>1, <3>2
    <3> QED
      BY <1>1, <2>1, <3>2, <3>3 DEF Behind
  <2>5. Truthful'
    <3> SUFFICES ASSUME ~abandoned, initialized PROVE Acknowledged
      BY <1>1, <2>1 DEF Truthful, Acknowledged
    <3>1. ~r.ok
      BY <1>2, <1>6, <1>9, Calls DEF IInv
    <3> QED
      BY <1>1, <1>3, <3>1 DEF IInv, Truthful
  <2>6. LeftBehind'
    BY <1>1, <2>1 DEF IInv, LeftBehind, Acknowledged
  <2> QED
    BY <1>5, <2>1, <2>2, <2>3, <2>4, <2>5, <2>6 DEF IInv
<1> QED
  BY <1>1, <1>8, <1>9

-----------------------------------------------------------------------------
(* The sidecar answers *)

\* One answer for the request at the head, which applies or initializes or leaves the game alone.
ServedBy(a) ==
    /\ a.id = inbox[1].id /\ outbox' = Append(outbox, a) /\ inbox' = Tail(inbox)
    /\ up /\ inbox # <<>> /\ UNCHANGED <<ctx, shutdown, client>>
    /\ {up', master', asked'} \subseteq BOOLEAN /\ turn' \in Nat /\ a.turn = turn'
    /\ \/ turn' = turn /\ (a.ok => inbox[1].method \notin {"initialize_match", "apply_decision_results"})
       \/ a.ok /\ inbox[1].method = "initialize_match" /\ turn' = ResumeTurn
       \/ a.ok /\ inbox[1].method = "apply_decision_results" /\ turn' = turn + 1

LEMMA Served == TypeOK /\ Serve => \E a \in Responses : ServedBy(a)
<1> SUFFICES ASSUME TypeOK, Serve PROVE \E a \in Responses : ServedBy(a)
  OBVIOUS
<1>1. /\ up /\ inbox # <<>> /\ inbox' = Tail(inbox) /\ UNCHANGED <<ctx, shutdown, client>>
      /\ \/ InitializeMatch \/ NextDecisionStep \/ ApplyDecisionResults \/ Query \/ ShutdownRequest
         \/ Refuse
  BY DEF Serve
<1>2. /\ inbox \in Seq(Requests) /\ outbox \in Seq(Responses) /\ turn \in Nat /\ ResumeTurn \in Nat
      /\ {up, master, asked} \subseteq BOOLEAN
  BY TurnsAssumption DEF TypeOK
<1>3. Head(inbox) = inbox[1] /\ inbox[1].id \in Nat
  <2>1. inbox[1] \in Requests /\ Head(inbox) = inbox[1]
    BY <1>1, <1>2, Taken
  <2> QED
    BY <2>1 DEF Requests
<1> DEFINE answer(ok, more, t) == [id |-> inbox[1].id, ok |-> ok, more |-> more, turn |-> t]
<1>4. \A ok, more \in BOOLEAN, t \in Nat :
         /\ answer(ok, more, t) \in Responses
         /\ answer(ok, more, t).id = inbox[1].id /\ answer(ok, more, t).ok = ok
         /\ answer(ok, more, t).turn = t
  BY <1>3 DEF Responses
<1>5. \A ok, more, t : Answer(ok, more, t) <=> outbox' = Append(outbox, answer(ok, more, t))
  BY <1>3 DEF Answer
<1> HIDE DEF answer
<1>6. CASE InitializeMatch
  <2>1. ServedBy(answer(TRUE, FALSE, ResumeTurn))
    BY <1>1, <1>2, <1>3, <1>4, <1>5, <1>6 DEF InitializeMatch, ServedBy
  <2> QED
    BY <1>2, <1>4, <2>1
<1>7. CASE NextDecisionStep
  <2>1. /\ UNCHANGED <<up, master, turn>> /\ Head(inbox).method = "next_decision_step"
        /\ asked' = (turn < ResumeTurn + Turns) /\ Answer(TRUE, asked', turn)
    BY <1>7, Zenon DEF NextDecisionStep
  <2>2. asked' \in BOOLEAN
    <3>1. CASE turn < ResumeTurn + Turns
      BY <2>1, <3>1
    <3>2. CASE ~(turn < ResumeTurn + Turns)
      BY <2>1, <3>2
    <3> QED
      BY <3>1, <3>2
  <2> DEFINE a == answer(TRUE, asked', turn)
  <2>3. /\ a \in Responses /\ a.id = inbox[1].id /\ a.ok = TRUE /\ a.turn = turn
        /\ outbox' = Append(outbox, a)
    <3>1. TRUE \in BOOLEAN /\ turn \in Nat
      BY <1>2
    <3>2. a \in Responses /\ a.id = inbox[1].id /\ a.ok = TRUE /\ a.turn = turn
      BY <1>4, <2>2, <3>1
    <3>3. outbox' = Append(outbox, a)
      BY <1>5, <2>1
    <3> QED
      BY <3>2, <3>3
  <2> HIDE DEF a
  <2>4. ServedBy(a)
    BY <1>1, <1>2, <1>3, <2>1, <2>2, <2>3 DEF ServedBy
  <2> QED
    BY <2>3, <2>4
<1>8. CASE ApplyDecisionResults
  <2>1. turn' = turn + 1 /\ turn' \in Nat
    BY <1>2, <1>8 DEF ApplyDecisionResults
  <2>2. ServedBy(answer(TRUE, FALSE, turn'))
    BY <1>1, <1>2, <1>3, <1>4, <1>5, <1>8, <2>1 DEF ApplyDecisionResults, ServedBy
  <2> QED
    BY <1>4, <2>1, <2>2
<1>9. CASE Query \/ ShutdownRequest
  <2>1. ServedBy(answer(TRUE, FALSE, turn))
    BY <1>1, <1>2, <1>3, <1>4, <1>5, <1>9 DEF Query, ShutdownRequest, Captures, ServedBy
  <2> QED
    BY <1>2, <1>4, <2>1
<1>10. CASE Refuse
  <2>1. ServedBy(answer(FALSE, FALSE, turn))
    BY <1>1, <1>2, <1>3, <1>4, <1>5, <1>10 DEF Refuse, ServedBy
  <2> QED
    BY <1>2, <1>4, <2>1
<1> QED
  BY <1>1, <1>6, <1>7, <1>8, <1>9, <1>10

LEMMA ServeStep == IInv /\ Serve => IInv'
<1> SUFFICES ASSUME IInv, Serve PROVE IInv'
  OBVIOUS
<1>1. PICK a \in Responses : ServedBy(a)
  BY Served DEF IInv
<1>2. /\ a.id = inbox[1].id /\ outbox' = Append(outbox, a) /\ inbox' = Tail(inbox)
      /\ up /\ inbox # <<>> /\ a.turn = turn' /\ turn' \in Nat
      /\ {up', master', asked'} \subseteq BOOLEAN
      /\ UNCHANGED <<ctx, shutdown, pc, todo, nextID, waiting, initialized, acked, completed, captured,
                     abandoned, closed>>
  BY <1>1 DEF ServedBy, client
<1>3. \/ turn' = turn /\ (a.ok => inbox[1].method \notin {"initialize_match", "apply_decision_results"})
      \/ a.ok /\ inbox[1].method = "initialize_match" /\ turn' = ResumeTurn
      \/ a.ok /\ inbox[1].method = "apply_decision_results" /\ turn' = turn + 1
  BY <1>1 DEF ServedBy
<1>4. /\ inbox \in Seq(Requests) /\ outbox \in Seq(Responses) /\ nextID \in Nat /\ waiting \in Nat
      /\ acked \in Nat /\ turn \in Nat /\ ResumeTurn \in Nat /\ Len(outbox) \in Nat
      /\ a.id \in Nat
  <2>1. inbox \in Seq(Requests) /\ outbox \in Seq(Responses) /\ nextID \in Nat /\ waiting \in Nat
        /\ acked \in Nat /\ turn \in Nat
    BY DEF IInv, TypeOK
  <2>2. a.id \in Nat
    BY DEF Responses
  <2> QED
    BY <2>1, <2>2, TurnsAssumption, LenProperties
<1>5. /\ inbox' \in Seq(Requests) /\ Len(inbox) \in Nat \ {0} /\ Len(inbox') = Len(inbox) - 1
      /\ \A i \in 1..Len(inbox') : inbox'[i] = inbox[i + 1]
  BY <1>2, <1>4, Taken
<1>6. /\ outbox' \in Seq(Responses) /\ outbox' # <<>> /\ Len(outbox') = Len(outbox) + 1
      /\ \A i \in 1..Len(outbox) : outbox'[i] = outbox[i]
      /\ outbox'[Len(outbox) + 1] = a
  BY <1>2, <1>4, Appended
<1>7. TypeOK'
  BY <1>2, <1>5, <1>6 DEF IInv, TypeOK
<1>8. Course'
  BY <1>2, CourseKept DEF IInv, Course
<1>9. Known'
  <2>1. a.id <= nextID
    BY <1>2, <1>5 DEF IInv, Known
  <2>2. \A i \in 1..Len(outbox') : i \in 1..Len(outbox) \/ i = Len(outbox) + 1
    BY <1>4, <1>6
  <2>3. \A i \in 1..Len(inbox') : i + 1 \in 1..Len(inbox)
    BY <1>5
  <2> QED
    BY <1>2, <1>5, <1>6, <2>1, <2>2, <2>3 DEF IInv, Known
<1>10. CASE abandoned
  <2>1. Behind'
    <3>1. waiting # 0 => Len(outbox') + Len(inbox') >= 2
      <4>1. waiting # 0 => Len(outbox) + Len(inbox) >= 2
        BY <1>2, <1>10 DEF IInv, Behind
      <4> QED
        BY <1>4, <1>5, <1>6, <4>1
    <3>2. waiting # 0 => outbox'[1].id < waiting
      <4>1. CASE outbox = <<>>
        <5>1. outbox'[1] = a
          BY <1>6, <4>1
        <5> QED
          BY <1>2, <1>10, <4>1, <5>1 DEF IInv, Behind
      <4>2. CASE outbox # <<>>
        <5>1. outbox'[1] = outbox[1]
          BY <1>4, <1>6, <4>2
        <5> QED
          BY <1>2, <1>10, <4>2, <5>1 DEF IInv, Behind
      <4> QED
        BY <4>1, <4>2
    <3> QED
      BY <1>2, <1>6, <3>1, <3>2 DEF Behind
  <2>2. LeftBehind'
    <3> SUFFICES ASSUME initialized PROVE LeftBehind'
      BY <1>2 DEF LeftBehind
    <3>1. /\ turn \in {ResumeTurn + acked, ResumeTurn + acked + 1}
          /\ \A i \in 1..Len(inbox) :
                /\ inbox[i].method # "initialize_match"
                /\ inbox[i].method = "apply_decision_results" => i = 1 /\ Acknowledged
      BY <1>2, <1>10 DEF IInv, LeftBehind
    <3>2. \/ turn' = turn
          \/ Acknowledged /\ turn' = turn + 1
      BY <1>3, <1>5, <3>1
    <3>3. turn' \in {ResumeTurn + acked, ResumeTurn + acked + 1}
      BY <3>1, <3>2 DEF Acknowledged
    <3>4. \A i \in 1..Len(inbox') :
             inbox'[i].method \notin {"initialize_match", "apply_decision_results"}
      <4>1. \A i \in 1..Len(inbox') : i + 1 \in 1..Len(inbox) /\ i + 1 # 1
        BY <1>5
      <4> QED
        BY <1>5, <3>1, <4>1
    <3> QED
      BY <1>2, <3>3, <3>4 DEF LeftBehind
  <2> QED
    BY <1>2, <1>7, <1>8, <1>9, <1>10, <2>1, <2>2 DEF IInv, InStep, Truthful
<1>11. CASE ~abandoned
  <2>1. /\ waiting # 0 /\ outbox = <<>> /\ Len(inbox) = 1
        /\ inbox[1].id = waiting /\ inbox[1].method = Head(todo)
    BY <1>2, <1>11 DEF IInv, InStep
  <2>2. outbox'[1] = a /\ Len(outbox') = 1 /\ a.id = waiting /\ inbox' = <<>>
    <3>1. Len(outbox) = 0 /\ 0 + 1 = 1 /\ 1 - 1 = 0
      BY <2>1
    <3>2. Len(inbox') = 0
      BY <1>5, <2>1, <3>1, Zenon
    <3> QED
      BY <1>2, <1>5, <1>6, <2>1, <3>1, <3>2, Empty, Zenon
  <2>3. InStep'
    BY <1>2, <1>6, <2>1, <2>2 DEF InStep
  <2>4. Truthful'
    <3>1. initialized => Acknowledged
      BY <1>11, <2>1 DEF IInv, Truthful
    <3>2. todo # <<>> /\ initialized \in BOOLEAN
      BY <2>1 DEF IInv, Course, TypeOK
    <3>3. /\ Head(todo) = "apply_decision_results" => initialized
          /\ Head(todo) \in Captures => initialized
          /\ Head(todo) = "initialize_match" => ~initialized
      BY <3>2, Calls, MethodNames DEF IInv
    <3>4. /\ a.ok /\ Head(todo) = "initialize_match" => turn' = ResumeTurn
          /\ a.ok /\ Head(todo) = "apply_decision_results" => turn' = ResumeTurn + acked + 1
          /\ a.ok /\ Head(todo) \in Captures => turn' = ResumeTurn + acked
      BY <1>3, <2>1, <3>1, <3>3, MethodNames DEF Acknowledged
    <3>5. ~(a.ok /\ Head(todo) = "initialize_match") /\ ~(a.ok /\ Head(todo) = "apply_decision_results")
             => (initialized => turn' = ResumeTurn + acked)
      BY <1>3, <2>1, <3>1 DEF Acknowledged
    <3> QED
      BY <1>2, <1>6, <2>2, <3>4, <3>5 DEF Truthful, Acknowledged
  <2> QED
    BY <1>2, <1>7, <1>8, <1>9, <1>11, <2>3, <2>4 DEF IInv, Behind, LeftBehind
<1> QED
  BY <1>10, <1>11

-----------------------------------------------------------------------------
(* The theorems *)

LEMMA Inductive == IInv /\ [Next]_vars => IInv'
BY CheckStep, CloseStep, SendStep, TakeResponseStep, RuntimeStoppedStep, AbandonStep, EnvironmentStep,
   ServeStep
DEF Next, Step

LEMMA Invariant == Spec => []IInv
BY InvariantInit, Inductive, PTL DEF Spec

\* The state of the session, its channels and the sidecar keeps its type.
THEOREM TypeCorrect == Spec => []TypeOK
<1>1. IInv => TypeOK
  BY DEF IInv
<1> QED
  BY <1>1, Invariant, PTL

\* captureFinalState reads the game after exactly the turns the runner saw
\* applied, whatever answers abandoned calls left in the channel.
THEOREM CapturesAreAcknowledged == Spec => []CaptureIsAcknowledged
<1>1. IInv => CaptureIsAcknowledged
  BY DEF IInv, Course, CaptureIsAcknowledged
<1> QED
  BY <1>1, Invariant, PTL

\* The sidecar's game is at the turn the runner saw applied or one turn on: no
\* turn is applied twice, and no query starts the match over.
THEOREM SidecarStaysInStep == Spec => []SidecarInStep
<1>1. IInv => SidecarInStep
  <2> SUFFICES ASSUME IInv, initialized PROVE turn \in {ResumeTurn + acked, ResumeTurn + acked + 1}
    BY DEF SidecarInStep
  <2>1. /\ outbox \in Seq(Responses) /\ abandoned \in BOOLEAN
        /\ waiting = 0 /\ ~abandoned => outbox = <<>>
    BY DEF IInv, TypeOK, InStep
  <2>2. CASE abandoned
    BY <2>2 DEF IInv, LeftBehind
  <2>3. CASE ~abandoned /\ outbox = <<>>
    BY <2>3 DEF IInv, Truthful, Acknowledged
  <2>4. CASE ~abandoned /\ outbox # <<>>
    <3>1. waiting # 0 /\ todo # <<>>
      BY <2>1, <2>4 DEF IInv, Course
    <3>2. Head(todo) # "initialize_match"
      BY <3>1, Calls DEF IInv
    <3> QED
      BY <2>4, <3>1, <3>2 DEF IInv, Truthful, Acknowledged
  <2> QED
    BY <2>2, <2>3, <2>4
<1> QED
  BY <1>1, Invariant, PTL

\* After one abandoned call every call of the session that ends has failed.
THEOREM NothingSucceedsAfterAbandon == Spec => NothingAfterAbandon
<1> DEFINE Failed == abandoned /\ waiting # 0 /\ waiting' = 0
                        => pc' = AfterFailure /\ todo' = Operation(AfterFailure, initialized)
<1>1. IInv /\ [Next]_vars => [Failed]_vars
  <2> SUFFICES ASSUME IInv, Next, abandoned, waiting # 0, waiting' = 0
               PROVE  pc' = AfterFailure /\ todo' = Operation(AfterFailure, initialized)
    OBVIOUS
  <2>1. ~Send /\ ~CheckContext /\ ~CloseAdapter /\ ~MatchContextEnds /\ ~ShutdownDeadline /\ ~Serve /\ ~Exit
    BY DEF Send, CheckContext, CloseAdapter, MatchContextEnds, ShutdownDeadline, Serve, Exit, client
  <2>2. TakeResponse => Fail
    <3> SUFFICES ASSUME TakeResponse PROVE Head(outbox).id # waiting
      BY DEF TakeResponse, MatchResponseID
    <3>1. outbox # <<>> /\ outbox \in Seq(Responses) /\ waiting \in Nat
      BY DEF TakeResponse, IInv, TypeOK
    <3>2. Head(outbox) = outbox[1] /\ outbox[1].id \in Nat
      BY <3>1, Taken, ResponseTypes
    <3> QED
      BY <3>1, <3>2 DEF IInv, Behind
  <2>3. RuntimeStopped \/ Abandon => Fail
    BY DEF RuntimeStopped, Abandon
  <2>4. Fail
    BY <2>1, <2>2, <2>3 DEF Next, Step
  <2> QED
    BY <2>4 DEF Fail, Goto
<1> QED
  BY <1>1, Invariant, PTL DEF Spec, NothingAfterAbandon
=============================================================================
