-------------------------- MODULE MatchRunnerProofs --------------------------
(***************************************************************************)
(* Theorems about MatchRunner, for any number of players, any steps, and   *)
(* any deadlines.                                                          *)
(***************************************************************************)
EXTENDS MatchRunner, SequenceTheorems, FiniteSetTheorems, WellFoundedInduction, TLAPS

-----------------------------------------------------------------------------
(* The inductive invariant *)

Starting == {"master", "init"}
Between  == {"next", "asking"}
Step     == {"collect", "record", "apply"}
WayOut   == {"capture", "player", "game_over", "close", "master_out", "emit", "returned"}

Kinds == {"match_started", "game_master_initialized", "game_master_initialization_failed",
          "session_initialized", "session_initialization_failed", "turn_requested",
          "turn_result", "turn_timeout", "protocol_error", "runtime_exited", "game_over_sent",
          "session_shutdown_started", "session_shutdown_completed", "session_shutdown_failed",
          "game_master_shutdown_started", "game_master_shutdown_completed",
          "game_master_shutdown_failed", "match_completed", "match_canceled", "match_failed"}

Events == [kind : Kinds, turn : Nat, player : Nat]

TypeOK ==
    /\ ctx \in {"live", "ended"}
    /\ pc \in Starting \cup Between \cup Step \cup WayOut /\ at \in Player
    /\ status \in {"starting", "completed", "canceled", "failed"} /\ failed \in BOOLEAN
    /\ step \in SUBSET Player /\ call \in [Player -> Reply \cup {"none", "out", "canceled"}]
    /\ turn \in Nat /\ applied \in Nat /\ log \in Seq(Events)
    /\ captured \in BOOLEAN /\ left \in Nat /\ waited \in Nat /\ cut \in SUBSET Player

\* A match has a verdict from the moment it is on its way out, and one that is
\* said to be completed was captured.
Verdict ==
    /\ pc \in WayOut <=> status # "starting"
    /\ status \in {"starting", "completed"} => ~failed
    /\ status = "completed" /\ pc # "capture" => captured

\* What each step has asked and heard is in the log, as long as the match may complete.
Whole(t) == \A p \in Player : Settled(t, p) = Count("turn_requested", t, p)

Ledger ==
    /\ pc \in Starting => turn = 0
    /\ pc \in Starting \cup Between \/ status = "completed" =>
          applied = turn /\ \A t \in 1..turn : Whole(t)
    /\ pc \in Step => turn = applied + 1 /\ \A t \in 1..applied : Whole(t)
    /\ \A t \in Nat : t > turn =>
          \A p \in Player : Settled(t, p) = 0 /\ Count("turn_requested", t, p) = 0

\* The step in progress.
Heard(p) == pc = "apply" \/ (pc = "record" /\ p < at)

Open ==
    pc \in Step =>
       /\ pc = "record" => at \in step
       /\ pc = "collect" => \A p \in step : call[p] # "none"
       /\ pc # "collect" => \A p \in step : call[p] \in Reply \cup {"canceled"}
       /\ \A p \in step : Heard(p) => call[p] \in Reply
       /\ \A p \in Player :
             /\ Count("turn_requested", turn, p) = IF p \in step THEN 1 ELSE 0
             /\ Settled(turn, p) = IF p \in step /\ Heard(p) THEN 1 ELSE 0

\* Whose session has been shut down.
Closed(p) == pc \in {"master_out", "emit", "returned"} \/ (pc \in {"player", "game_over", "close"} /\ p < at)

Closings == \A p \in Player : Count("session_shutdown_started", 0, p) = IF Closed(p) THEN 1 ELSE 0

IInv == TypeOK /\ Verdict /\ Ledger /\ Open /\ Closings

-----------------------------------------------------------------------------
(* Counting events *)

HowMany(l, E) == Cardinality({i \in DOMAIN l : l[i] \in E})

LEMMA HowManyType ==
    ASSUME NEW S, NEW l \in Seq(S), NEW E
    PROVE  HowMany(l, E) \in Nat /\ IsFiniteSet({i \in DOMAIN l : l[i] \in E})
<1>1. DOMAIN l = 1..Len(l) /\ Len(l) \in Nat
  BY LenProperties
<1>2. IsFiniteSet(1..Len(l))
  BY <1>1, FS_Interval
<1>3. {i \in DOMAIN l : l[i] \in E} \in SUBSET (1..Len(l))
  BY <1>1
<1>4. IsFiniteSet({i \in DOMAIN l : l[i] \in E})
  BY <1>2, <1>3, FS_Subset
<1> QED
  BY <1>4, FS_CardinalityType DEF HowMany

LEMMA HowManyOne ==
    ASSUME NEW e, NEW E
    PROVE  HowMany(<<e>>, E) = IF e \in E THEN 1 ELSE 0
<1>1. DOMAIN <<e>> = {1} /\ <<e>>[1] = e
  OBVIOUS
<1>2. {i \in DOMAIN <<e>> : <<e>>[i] \in E} = IF e \in E THEN {1} ELSE {}
  BY <1>1
<1> QED
  BY <1>2, FS_EmptySet, FS_Singleton DEF HowMany

LEMMA HowManyConcat ==
    ASSUME NEW S, NEW l \in Seq(S), NEW r \in Seq(S), NEW E
    PROVE  HowMany(l \o r, E) = HowMany(l, E) + HowMany(r, E)
<1> DEFINE m == Len(l)
           A == {i \in DOMAIN l : l[i] \in E}
           B == {i \in DOMAIN r : r[i] \in E}
           C == {i \in DOMAIN (l \o r) : (l \o r)[i] \in E}
           D == {i \in C : i > m}
<1>1. /\ DOMAIN l = 1..m /\ m \in Nat /\ DOMAIN r = 1..Len(r) /\ Len(r) \in Nat
      /\ l \o r \in Seq(S) /\ Len(l \o r) = m + Len(r)
      /\ \A i \in 1..(m + Len(r)) : (l \o r)[i] = IF i <= m THEN l[i] ELSE r[i - m]
  BY LenProperties, ConcatProperties
<1>2. DOMAIN (l \o r) = 1..(m + Len(r))
  BY <1>1, LenProperties
<1>3. IsFiniteSet(A) /\ IsFiniteSet(B) /\ IsFiniteSet(C) /\ Cardinality(A) \in Nat /\ Cardinality(B) \in Nat
  BY <1>1, HowManyType DEF HowMany
<1> HIDE DEF m
<1>4. C = A \cup D /\ A \cap D = {}
  BY <1>1, <1>2
<1>5. IsFiniteSet(D) /\ Cardinality(D) = Cardinality(B)
  <2> DEFINE f == [j \in B |-> j + m]
  <2>1. \A j \in B : j \in Nat /\ j + m \in D
    BY <1>1, <1>2
  <2>2. \A i \in D : i - m \in B /\ (i - m) + m = i
    BY <1>1, <1>2
  <2> HIDE DEF B, D
  <2>3. f \in [B -> D] /\ \A j \in B : f[j] = j + m
    BY <2>1
  <2>4. \A i, j \in B : f[i] = f[j] => i = j
    BY <1>1, <2>1, <2>3
  <2>5. \A i \in D : \E j \in B : f[j] = i
    BY <2>2, <2>3
  <2>6. f \in Bijection(B, D)
    BY <2>3, <2>4, <2>5 DEF Bijection, Injection, Surjection, IsInjective
  <2>7. ExistsBijection(B, D)
    BY <2>6 DEF ExistsBijection
  <2> QED
    BY <1>3, <2>7, FS_Bijection
<1> HIDE DEF A, B, C, D
<1>6. Cardinality(C) = Cardinality(A) + Cardinality(D)
  <2>1. Cardinality(A \cup D) = Cardinality(A) + Cardinality(D) - Cardinality(A \cap D)
    BY <1>3, <1>5, FS_Union
  <2>2. Cardinality(A \cap D) = 0
    BY <1>4, FS_EmptySet
  <2> QED
    BY <1>3, <1>4, <1>5, <2>1, <2>2
<1> QED
  BY <1>5, <1>6 DEF HowMany, A, B, C

LEMMA HowManyAppend ==
    ASSUME NEW S, NEW l \in Seq(S), NEW e \in S, NEW E
    PROVE  /\ Append(l, e) \in Seq(S)
           /\ HowMany(Append(l, e), E) = HowMany(l, E) + IF e \in E THEN 1 ELSE 0
<1>1. Append(l, e) = l \o <<e>> /\ <<e>> \in Seq(S) /\ Append(l, e) \in Seq(S)
  BY AppendIsConcat
<1>2. HowMany(l \o <<e>>, E) = HowMany(l, E) + HowMany(<<e>>, E)
  BY <1>1, HowManyConcat
<1>3. HowMany(<<e>>, E) = IF e \in E THEN 1 ELSE 0
  BY HowManyOne
<1> QED
  BY <1>1, <1>2, <1>3

LEMMA HowManyTwo ==
    ASSUME NEW S, NEW l \in Seq(S), NEW d \in S, NEW e \in S, NEW E
    PROVE  /\ l \o <<d, e>> \in Seq(S)
           /\ HowMany(l \o <<d, e>>, E) =
                 HowMany(l, E) + ((IF d \in E THEN 1 ELSE 0) + IF e \in E THEN 1 ELSE 0)
<1>1. \A a, b \in Seq(S) : HowMany(a \o b, E) = HowMany(a, E) + HowMany(b, E)
  BY HowManyConcat
<1>2. <<d, e>> = <<d>> \o <<e>> /\ <<d>> \in Seq(S) /\ <<e>> \in Seq(S) /\ <<d, e>> \in Seq(S)
  <2>1. <<d>> \in Seq(S) /\ <<d, e>> = Append(<<d>>, e)
    OBVIOUS
  <2>2. Append(<<d>>, e) = <<d>> \o <<e>>
    BY <2>1, AppendIsConcat
  <2> QED
    BY <2>1, <2>2
<1>3. HowMany(<<d, e>>, E) = (IF d \in E THEN 1 ELSE 0) + IF e \in E THEN 1 ELSE 0
  <2>1. HowMany(<<d>> \o <<e>>, E) = HowMany(<<d>>, E) + HowMany(<<e>>, E)
    BY <1>1, <1>2, Zenon
  <2>2. HowMany(<<d>>, E) = (IF d \in E THEN 1 ELSE 0) /\ HowMany(<<e>>, E) = IF e \in E THEN 1 ELSE 0
    BY HowManyOne, Zenon
  <2> QED
    BY <1>2, <2>1, <2>2, Zenon
<1>4. l \o <<d, e>> \in Seq(S)
  BY <1>2, ConcatProperties
<1>5. HowMany(l \o <<d, e>>, E) = HowMany(l, E) + HowMany(<<d, e>>, E)
  BY <1>1, <1>2, Zenon
<1> QED
  BY <1>3, <1>4, <1>5

-----------------------------------------------------------------------------
(* The requests of a step *)

LEMMA Players == Player \subseteq Nat /\ IsFiniteSet(Player) /\ 1 \in Player /\ NPlayers \in Player
BY PlayerBound, FS_Interval DEF Player

\* Every player of a set has a place of its own in it.
LEMMA Ranks ==
    ASSUME NEW s \in SUBSET Player
    PROVE  LET n == Cardinality(s)
               rank == [p \in s |-> Cardinality({q \in s : q <= p})]
           IN  /\ n \in Nat /\ rank \in [s -> 1..n]
               /\ \A p, q \in s : rank[p] = rank[q] => p = q
               /\ \A i \in 1..n : \E p \in s : rank[p] = i
<1> DEFINE n == Cardinality(s)
           Below(p) == {q \in s : q <= p}
           rank == [p \in s |-> Cardinality(Below(p))]
<1>1. IsFiniteSet(s) /\ n \in Nat /\ s \subseteq Nat
  BY Players, FS_Subset, FS_CardinalityType
<1>2. \A p \in s : IsFiniteSet(Below(p)) /\ Cardinality(Below(p)) \in 1..n
  <2> TAKE p \in s
  <2>1. Below(p) \in SUBSET s /\ Below(p) # {}
    BY <1>1
  <2> HIDE DEF Below
  <2>2. IsFiniteSet(Below(p)) /\ Cardinality(Below(p)) <= n
    BY <1>1, <2>1, FS_Subset
  <2>3. Cardinality(Below(p)) \in Nat /\ Cardinality(Below(p)) # 0
    BY <2>1, <2>2, FS_CardinalityType, FS_EmptySet
  <2> QED
    BY <1>1, <2>2, <2>3
<1>3. \A p, q \in s : p < q => Cardinality(Below(p)) # Cardinality(Below(q))
  <2> SUFFICES ASSUME NEW p \in s, NEW q \in s, p < q
               PROVE  Cardinality(Below(p)) # Cardinality(Below(q))
    OBVIOUS
  <2>1. Below(p) \in SUBSET Below(q) /\ q \in Below(q) /\ q \notin Below(p)
    <3>1. p \in Nat /\ q \in Nat /\ \A r \in s : r \in Nat
      BY <1>1
    <3>2. q <= q /\ ~(q <= p) /\ \A r \in Nat : r <= p => r <= q
      BY <3>1
    <3> QED
      BY <3>1, <3>2
  <2> HIDE DEF Below
  <2> QED
    BY <1>2, <2>1, FS_Subset
<1> HIDE DEF Below, n
<1>4. rank \in [s -> 1..n] /\ \A p \in s : rank[p] = Cardinality(Below(p))
  BY <1>2
<1>5. \A p, q \in s : rank[p] = rank[q] => p = q
  BY <1>1, <1>3, <1>4
<1>6. \A i \in 1..n : \E p \in s : rank[p] = i
  <2>1. rank \in Injection(s, 1..n)
    BY <1>4, <1>5 DEF Injection, IsInjective
  <2>2. IsFiniteSet(1..n) /\ Cardinality(1..n) = Cardinality(s)
    <3>1. Cardinality(1..n) = IF 1 > n THEN 0 ELSE n - 1 + 1
      BY <1>1, FS_Interval
    <3>2. IsFiniteSet(1..n)
      BY <1>1, FS_Interval
    <3> QED
      BY <1>1, <3>1, <3>2 DEF n
  <2> HIDE DEF rank
  <2>3. rank \in Surjection(s, 1..n)
    BY <2>1, <2>2, FS_Injection
  <2> QED
    BY <2>3 DEF Surjection
<1> QED
  BY <1>1, <1>4, <1>5, <1>6 DEF n, Below

\* One request for each player of the step, and nothing else.
LEMMA OneRequestEach ==
    ASSUME NEW s \in SUBSET Player, NEW t \in Nat
    PROVE  /\ Requests(t, s) \in Seq(Events)
           /\ \A p \in Player : HowMany(Requests(t, s), {Event("turn_requested", t, p)}) = IF p \in s THEN 1 ELSE 0
           /\ \A E : (\A p \in Player : Event("turn_requested", t, p) \notin E) => HowMany(Requests(t, s), E) = 0
<1> DEFINE n == Cardinality(s)
           rank == [p \in s |-> Cardinality({q \in s : q <= p})]
           req == [i \in 1..n |-> CHOOSE p \in s : Cardinality({q \in s : q <= p}) = i]
<1>1. /\ n \in Nat /\ rank \in [s -> 1..n]
      /\ \A p, q \in s : rank[p] = rank[q] => p = q
      /\ \A i \in 1..n : \E p \in s : rank[p] = i
  BY Ranks
<1>2. \A p \in s : rank[p] = Cardinality({q \in s : q <= p})
  OBVIOUS
<1>3. \A i \in 1..n : req[i] \in s /\ rank[req[i]] = i
  <2> TAKE i \in 1..n
  <2>1. \E p \in s : Cardinality({q \in s : q <= p}) = i
    BY <1>1, <1>2
  <2>2. req[i] = CHOOSE p \in s : Cardinality({q \in s : q <= p}) = i
    OBVIOUS
  <2>3. req[i] \in s /\ Cardinality({q \in s : q <= req[i]}) = i
    BY <2>1, <2>2
  <2> QED
    BY <1>2, <2>3
<1>4. /\ Requests(t, s) = [i \in 1..n |-> Event("turn_requested", t, req[i])]
      /\ DOMAIN Requests(t, s) = 1..n
      /\ \A i \in 1..n : Requests(t, s)[i] = Event("turn_requested", t, req[i])
  BY DEF Requests
<1> HIDE DEF n, rank, req
<1>5. Requests(t, s) \in Seq(Events)
  <2>1. \A i \in 1..n : Event("turn_requested", t, req[i]) \in Events
    BY <1>3, Players DEF Event, Events, Kinds
  <2> QED
    BY <1>1, <1>4, <2>1
<1>6. ASSUME NEW p \in Player
      PROVE  HowMany(Requests(t, s), {Event("turn_requested", t, p)}) = IF p \in s THEN 1 ELSE 0
  <2> DEFINE I == {i \in DOMAIN Requests(t, s) : Requests(t, s)[i] \in {Event("turn_requested", t, p)}}
  <2>1. I = {i \in 1..n : req[i] = p}
    BY <1>4 DEF Event
  <2>2. I = IF p \in s THEN {rank[p]} ELSE {}
    BY <1>1, <1>3, <2>1
  <2> HIDE DEF I
  <2>3. Cardinality(I) = IF p \in s THEN 1 ELSE 0
    BY <2>2, FS_Singleton, FS_EmptySet
  <2> QED
    BY <2>3 DEF HowMany, I
<1>7. ASSUME NEW E, \A p \in Player : Event("turn_requested", t, p) \notin E
      PROVE  HowMany(Requests(t, s), E) = 0
  <2>1. {i \in DOMAIN Requests(t, s) : Requests(t, s)[i] \in E} = {}
    BY <1>3, <1>4, <1>7
  <2> QED
    BY <2>1, FS_EmptySet DEF HowMany
<1> QED
  BY <1>5, <1>6, <1>7

LEMMA FirstIsLeast ==
    ASSUME NEW s \in SUBSET Player, s # {}
    PROVE  First(s) \in s /\ \A q \in s : First(s) <= q
<1>1. \E p \in s : \A q \in s : p <= q
  <2>1. IsWellFoundedOn(OpToRel(<, Nat), Nat) /\ s \subseteq Nat
    BY NatLessThanWellFounded, Players
  <2>2. PICK p \in s : \A q \in s : ~(<<q, p>> \in OpToRel(<, Nat))
    BY <2>1, WFMin
  <2>3. \A q \in s : ~(q < p)
    BY <2>1, <2>2 DEF OpToRel
  <2>4. \A q \in s : p \in Nat /\ q \in Nat
    BY <2>1
  <2>5. \A q \in s : p <= q
    BY <2>3, <2>4
  <2> QED
    BY <2>5
<1> QED
  BY <1>1 DEF First

-----------------------------------------------------------------------------
(* What an action writes to the log *)

AnswersOf(t, p) == {e \in Events : e.kind \in TurnEvents /\ e.turn = t /\ e.player = p}

LEMMA EventSet ==
    ASSUME NEW l \in Seq(Events), NEW k, NEW t, NEW p
    PROVE  HowMany(l, {Event(k, t, p)}) = Cardinality({i \in DOMAIN l : l[i] = Event(k, t, p)})
<1>1. {i \in DOMAIN l : l[i] \in {Event(k, t, p)}} = {i \in DOMAIN l : l[i] = Event(k, t, p)}
  OBVIOUS
<1> QED
  BY <1>1 DEF HowMany

LEMMA AnswerSet ==
    ASSUME NEW l \in Seq(Events), NEW t, NEW p
    PROVE  HowMany(l, AnswersOf(t, p)) =
              Cardinality({i \in DOMAIN l : l[i].kind \in TurnEvents /\ l[i].turn = t /\ l[i].player = p})
<1>1. \A i \in DOMAIN l : l[i] \in Events
  OBVIOUS
<1>2. {i \in DOMAIN l : l[i] \in AnswersOf(t, p)} =
         {i \in DOMAIN l : l[i].kind \in TurnEvents /\ l[i].turn = t /\ l[i].player = p}
  BY <1>1 DEF AnswersOf
<1> QED
  BY <1>2 DEF HowMany

\* The counts of the invariant, of the log before and after a step.
LEMMA Counts ==
    ASSUME log \in Seq(Events), NEW t, NEW p
    PROVE  /\ Settled(t, p) = HowMany(log, AnswersOf(t, p)) /\ Settled(t, p) \in Nat
           /\ Count("turn_requested", t, p) = HowMany(log, {Event("turn_requested", t, p)})
           /\ Count("turn_requested", t, p) \in Nat
           /\ Count("session_shutdown_started", 0, p) = HowMany(log, {Event("session_shutdown_started", 0, p)})
           /\ Count("session_shutdown_started", 0, p) \in Nat
<1>1. Settled(t, p) = HowMany(log, AnswersOf(t, p))
  BY AnswerSet DEF Settled
<1>2. ASSUME NEW k, NEW u PROVE Count(k, u, p) = HowMany(log, {Event(k, u, p)})
  BY EventSet DEF Count
<1>3. \A E : HowMany(log, E) \in Nat
  BY HowManyType
<1> QED
  BY <1>1, <1>2, <1>3

LEMMA CountsNext ==
    ASSUME log' \in Seq(Events), NEW t, NEW p
    PROVE  /\ Settled(t, p)' = HowMany(log', AnswersOf(t, p))
           /\ Count("turn_requested", t, p)' = HowMany(log', {Event("turn_requested", t, p)})
           /\ Count("session_shutdown_started", 0, p)'
                 = HowMany(log', {Event("session_shutdown_started", 0, p)})
<1>1. Settled(t, p)' = HowMany(log', AnswersOf(t, p))
  BY AnswerSet DEF Settled
<1>2. ASSUME NEW k, NEW u PROVE Count(k, u, p)' = HowMany(log', {Event(k, u, p)})
  BY EventSet DEF Count
<1> QED
  BY <1>1, <1>2

LEMMA AtTurn ==
    ASSUME NEW t, t = turn', NEW p
    PROVE  /\ Settled(turn, p)' = Settled(t, p)'
           /\ Count("turn_requested", turn, p)' = Count("turn_requested", t, p)'
BY DEF Settled, Count

SameCounts ==
    \A t \in Nat, p \in Player :
       /\ Settled(t, p)' = Settled(t, p)
       /\ Count("turn_requested", t, p)' = Count("turn_requested", t, p)
       /\ Count("session_shutdown_started", 0, p)' = Count("session_shutdown_started", 0, p)

Loud == TurnEvents \cup {"turn_requested", "session_shutdown_started"}

LEMMA Unwritten == log' = log => SameCounts
BY DEF SameCounts, Settled, Count

\* Two logs that the invariant cannot tell apart.
Alike(m, l) ==
    \A t \in Nat, p \in Player :
       /\ HowMany(m, AnswersOf(t, p)) = HowMany(l, AnswersOf(t, p))
       /\ HowMany(m, {Event("turn_requested", t, p)}) = HowMany(l, {Event("turn_requested", t, p)})
       /\ HowMany(m, {Event("session_shutdown_started", 0, p)})
             = HowMany(l, {Event("session_shutdown_started", 0, p)})

LEMMA AlikeCounts ==
    ASSUME log \in Seq(Events), log' \in Seq(Events), Alike(log', log)
    PROVE  SameCounts
<1>1. ASSUME NEW t \in Nat, NEW p \in Player
      PROVE  /\ Settled(t, p)' = Settled(t, p)
             /\ Count("turn_requested", t, p)' = Count("turn_requested", t, p)
             /\ Count("session_shutdown_started", 0, p)' = Count("session_shutdown_started", 0, p)
  <2>1. /\ HowMany(log', AnswersOf(t, p)) = HowMany(log, AnswersOf(t, p))
        /\ HowMany(log', {Event("turn_requested", t, p)}) = HowMany(log, {Event("turn_requested", t, p)})
        /\ HowMany(log', {Event("session_shutdown_started", 0, p)})
              = HowMany(log, {Event("session_shutdown_started", 0, p)})
    BY DEF Alike
  <2> QED
    BY <2>1, Counts, CountsNext
<1> QED
  BY <1>1 DEF SameCounts

LEMMA QuietAppend ==
    ASSUME NEW l \in Seq(Events), NEW e \in Events, e.kind \notin Loud
    PROVE  Append(l, e) \in Seq(Events) /\ Alike(Append(l, e), l)
<1>1. ASSUME NEW E, e \notin E
      PROVE  HowMany(Append(l, e), E) = HowMany(l, E)
  <2>1. HowMany(Append(l, e), E) = HowMany(l, E) + IF e \in E THEN 1 ELSE 0
    BY HowManyAppend
  <2>2. HowMany(l, E) \in Nat
    BY HowManyType
  <2> QED
    BY <1>1, <2>1, <2>2
<1>2. \A t, p : /\ e \notin AnswersOf(t, p)
                /\ e \notin {Event("turn_requested", t, p)}
                /\ e \notin {Event("session_shutdown_started", 0, p)}
  BY DEF AnswersOf, Event, Loud
<1>3. Append(l, e) \in Seq(Events)
  BY HowManyAppend
<1> QED
  BY <1>1, <1>2, <1>3 DEF Alike

-----------------------------------------------------------------------------
(* Steps that leave the ledger alone *)

LEMMA LedgerKept ==
    ASSUME TypeOK, Ledger, SameCounts, UNCHANGED <<turn, applied>>,
           pc' \in Starting => pc \in Starting,
           pc' \in Starting \cup Between \/ status' = "completed"
              => pc \in Starting \cup Between \/ status = "completed",
           pc' \in Step => pc \in Step
    PROVE  Ledger'
<1>1. turn \in Nat /\ applied \in Nat
  BY DEF TypeOK
<1>2. \A t \in Nat : Whole(t)' <=> Whole(t)
  BY DEF SameCounts, Whole
<1>3. \A t \in 1..turn : t \in Nat
  BY <1>1
<1>4. \A t \in 1..applied : t \in Nat
  BY <1>1
<1>5. \A t \in Nat : t > turn => \A p \in Player : Settled(t, p)' = 0 /\ Count("turn_requested", t, p)' = 0
  BY DEF SameCounts, Ledger
<1> QED
  BY <1>2, <1>3, <1>4, <1>5 DEF Ledger

LEMMA Elsewhere ==
    ASSUME IInv, SameCounts, log' \in Seq(Events), UNCHANGED <<step, call, turn, applied>>,
           ctx' \in {"live", "ended"}, at' \in Player, captured' \in BOOLEAN, left' \in Nat,
           waited' \in Nat, cut' \in SUBSET Player, failed' \in BOOLEAN,
           status' \in {"starting", "completed", "canceled", "failed"},
           pc' \in Starting \cup Between \cup WayOut, Verdict',
           pc' \in Starting => pc \in Starting,
           pc' \in Between \/ status' = "completed"
              => pc \in Starting \cup Between \/ status = "completed",
           \A p \in Player : Closed(p)' <=> Closed(p)
    PROVE  IInv'
<1>1. TypeOK'
  BY DEF IInv, TypeOK
<1>2. pc' \notin Step
  BY DEF Starting, Between, WayOut, Step
<1>3. Ledger'
  BY <1>2, LedgerKept DEF IInv
<1>4. Open'
  BY <1>2 DEF Open
<1>5. Closings'
  BY DEF IInv, Closings, SameCounts
<1> QED
  BY <1>1, <1>3, <1>4, <1>5 DEF IInv

\* Every way out of the match but its end.
LEMMA Aborting ==
    ASSUME IInv, Abort, SameCounts, log' \in Seq(Events), pc \notin WayOut,
           UNCHANGED <<ctx, step, call, turn, applied, captured, left, waited, cut>>
    PROVE  IInv'
<1>1. status' \in {"canceled", "failed"} /\ failed' = TRUE /\ pc' = "capture" /\ at' = 1
  BY DEF Abort
<1>2. \A p \in Player : ~Closed(p) /\ ~Closed(p)'
  BY <1>1 DEF Closed, WayOut
<1>3. Verdict'
  BY <1>1 DEF Verdict, WayOut
<1> QED
  BY <1>1, <1>2, <1>3, Elsewhere, Players DEF IInv, TypeOK, Starting, Between, WayOut

LEMMA QuietEvents ==
    ASSUME NEW k \in {"game_master_initialized", "game_master_initialization_failed",
                      "session_initialized", "session_initialization_failed", "game_over_sent",
                      "session_shutdown_completed", "session_shutdown_failed",
                      "game_master_shutdown_started", "game_master_shutdown_completed",
                      "game_master_shutdown_failed", "match_completed", "match_canceled",
                      "match_failed"},
           NEW p \in Nat
    PROVE  Event(k, 0, p) \in Events /\ Event(k, 0, p).kind \notin Loud
<1>1. k \in Kinds /\ k \notin Loud
  BY DEF Kinds, Loud, TurnEvents
<1> QED
  BY <1>1 DEF Event, Events

LEMMA Quietly ==
    ASSUME TypeOK, NEW e \in Events, e.kind \notin Loud, log' = Append(log, e)
    PROVE  log' \in Seq(Events) /\ SameCounts
<1>1. log \in Seq(Events)
  BY DEF TypeOK
<1>2. log' \in Seq(Events) /\ Alike(log', log)
  BY <1>1, QuietAppend
<1> QED
  BY <1>1, <1>2, AlikeCounts

LEMMA InitializeMasterStep == IInv /\ InitializeMaster => IInv'
<1> SUFFICES ASSUME IInv, InitializeMaster PROVE IInv'
  OBVIOUS
<1>1. /\ pc = "master" /\ TypeOK /\ 0 \in Nat
      /\ UNCHANGED <<ctx, step, call, turn, applied, captured, left, waited, cut>>
  BY DEF InitializeMaster, game, out, IInv
<1>2. pc \notin WayOut /\ pc \in Starting
  BY <1>1 DEF WayOut, Starting
<1>3. CASE Goto("init", 1) /\ log' = Append(log, Event("game_master_initialized", 0, 0))
  <2>1. log' \in Seq(Events) /\ SameCounts
    BY <1>1, <1>3, Quietly, QuietEvents
  <2>2. pc' = "init" /\ at' = 1 /\ UNCHANGED <<status, failed>>
    BY <1>3 DEF Goto
  <2>3. Verdict' /\ \A p \in Player : ~Closed(p)' /\ ~Closed(p)
    BY <1>1, <1>2, <2>2 DEF IInv, Verdict, WayOut, Closed
  <2> QED
    BY <1>1, <1>2, <2>1, <2>2, <2>3, Elsewhere, Players DEF TypeOK, Starting, Between
<1>4. CASE Abort /\ log' = Append(log, Event("game_master_initialization_failed", 0, 0))
  <2>1. log' \in Seq(Events) /\ SameCounts
    BY <1>1, <1>4, Quietly, QuietEvents
  <2> QED
    BY <1>1, <1>2, <1>4, <2>1, Aborting
<1> QED
  BY <1>3, <1>4 DEF InitializeMaster

LEMMA InitializePlayerStep == IInv /\ InitializePlayer => IInv'
<1> SUFFICES ASSUME IInv, InitializePlayer PROVE IInv'
  OBVIOUS
<1> DEFINE initialized == Event("session_initialized", 0, at)
           refused == Event("session_initialization_failed", 0, at)
<1>1. /\ pc = "init" /\ TypeOK /\ log \in Seq(Events) /\ at \in Player /\ at \in Nat
      /\ UNCHANGED <<ctx, step, call, turn, applied, captured, left, waited, cut>>
  BY Players DEF InitializePlayer, game, out, IInv, TypeOK
<1>2. pc \notin WayOut /\ pc \in Starting
  BY <1>1 DEF WayOut, Starting
<1>3. /\ initialized \in Events /\ initialized.kind \notin Loud
      /\ refused \in Events /\ refused.kind \notin Loud
  BY <1>1, QuietEvents
<1>4. /\ Abort \/ IF at = NPlayers THEN Goto("next", 1) ELSE Goto("init", at + 1)
      /\ log' \in {Append(log, initialized), Append(Append(log, initialized), refused)}
  BY DEF InitializePlayer
<1> HIDE DEF initialized, refused
<1>5. log' \in Seq(Events) /\ SameCounts
  <2>1. Append(log, initialized) \in Seq(Events) /\ Alike(Append(log, initialized), log)
    BY <1>1, <1>3, QuietAppend
  <2>2. LET l == Append(log, initialized)
        IN  Append(l, refused) \in Seq(Events) /\ Alike(Append(l, refused), l)
    BY <1>3, <2>1, QuietAppend
  <2>3. log' \in Seq(Events) /\ Alike(log', log)
    BY <1>4, <2>1, <2>2 DEF Alike
  <2> QED
    BY <1>1, <2>3, AlikeCounts
<1>6. CASE Abort
  BY <1>1, <1>2, <1>5, <1>6, Aborting
<1>7. CASE IF at = NPlayers THEN Goto("next", 1) ELSE Goto("init", at + 1)
  <2>1. pc' \in {"next", "init"} /\ at' \in Player /\ UNCHANGED <<status, failed>>
    <3>1. CASE at = NPlayers
      BY <1>7, <3>1, Players DEF Goto
    <3>2. CASE at # NPlayers
      <4>1. at + 1 \in Player
        BY <1>1, <3>2, PlayerBound DEF Player
      <4> QED
        BY <1>7, <3>2, <4>1 DEF Goto
    <3> QED
      BY <3>1, <3>2
  <2>2. Verdict' /\ \A p \in Player : ~Closed(p)' /\ ~Closed(p)
    BY <1>1, <1>2, <2>1 DEF IInv, Verdict, WayOut, Closed
  <2> QED
    BY <1>1, <1>2, <1>5, <2>1, <2>2, Elsewhere DEF TypeOK, Starting, Between
<1> QED
  BY <1>4, <1>6, <1>7

LEMMA DecideStep == IInv /\ (CheckContext \/ NextFails \/ GameFinishes) => IInv'
<1> SUFFICES ASSUME IInv, CheckContext \/ NextFails \/ GameFinishes PROVE IInv'
  OBVIOUS
<1>1. /\ pc \in {"next", "asking"} /\ TypeOK /\ log \in Seq(Events) /\ log' = log
      /\ UNCHANGED <<ctx, step, call, turn, applied, captured, left, waited, cut>>
      /\ \/ Abort \/ Goto("asking", 1)
         \/ status' = "completed" /\ pc' = "capture" /\ at' = 1 /\ failed' = failed
  BY DEF CheckContext, NextFails, GameFinishes, game, out, IInv, TypeOK
<1>2. SameCounts /\ log' \in Seq(Events) /\ pc \notin WayOut /\ pc \in Between
  BY <1>1, Unwritten DEF WayOut, Between
<1>3. CASE Abort
  BY <1>1, <1>2, <1>3, Aborting
<1>4. CASE ~Abort
  <2>1. /\ pc' \in {"asking", "capture"} /\ at' = 1 /\ failed' = failed
        /\ status' \in {status, "completed"} /\ (pc' = "asking" <=> status' # "completed")
    BY <1>1, <1>2, <1>4 DEF Goto, IInv, Verdict
  <2>2. Verdict' /\ \A p \in Player : ~Closed(p)' /\ ~Closed(p)
    BY <1>1, <1>2, <2>1 DEF IInv, Verdict, WayOut, Closed
  <2> QED
    BY <1>1, <1>2, <2>1, <2>2, Elsewhere, Players DEF TypeOK, Starting, Between, WayOut
<1> QED
  BY <1>3, <1>4

-----------------------------------------------------------------------------
(* The step in progress *)

\* A step is handed out: one request for each of its players is logged.
LEMMA AskStep == IInv /\ (\E s \in SUBSET Player : NextDecisionStep(s)) => IInv'
<1> SUFFICES ASSUME IInv, NEW s \in SUBSET Player, NextDecisionStep(s) PROVE IInv'
  OBVIOUS
<1>1. /\ pc = "asking" /\ turn' = turn + 1 /\ step' = s /\ pc' = "collect" /\ at' = 1
      /\ call' = [p \in Player |-> IF p \in s THEN "out" ELSE "none"]
      /\ log' = log \o Requests(turn + 1, s)
      /\ UNCHANGED <<ctx, status, failed, applied, captured, left, waited, cut>>
  BY DEF NextDecisionStep, Goto, out
<1>2. /\ TypeOK /\ log \in Seq(Events) /\ turn \in Nat /\ turn + 1 \in Nat /\ applied = turn
      /\ status = "starting" /\ ~failed
      /\ \A t \in 1..turn : Whole(t)
      /\ \A t \in Nat : t > turn =>
            \A p \in Player : Settled(t, p) = 0 /\ Count("turn_requested", t, p) = 0
  BY <1>1 DEF IInv, TypeOK, Verdict, Ledger, Between, WayOut
<1>3. log' \in Seq(Events)
  BY <1>1, <1>2, OneRequestEach, ConcatProperties
<1>4. \A E : HowMany(log', E) = HowMany(log, E) + HowMany(Requests(turn + 1, s), E)
  BY <1>1, <1>2, OneRequestEach, HowManyConcat
<1>5. ASSUME NEW t \in Nat, NEW p \in Player
      PROVE  /\ Settled(t, p)' = Settled(t, p)
             /\ Count("session_shutdown_started", 0, p)' = Count("session_shutdown_started", 0, p)
             /\ Count("turn_requested", t, p)' = Count("turn_requested", t, p)
                    + (IF t = turn + 1 /\ p \in s THEN 1 ELSE 0)
  <2>1. \A q \in Player : /\ Event("turn_requested", turn + 1, q) \notin AnswersOf(t, p)
                          /\ Event("turn_requested", turn + 1, q) \notin {Event("session_shutdown_started", 0, p)}
                          /\ t # turn + 1 => Event("turn_requested", turn + 1, q) \notin {Event("turn_requested", t, p)}
    BY DEF AnswersOf, Event, TurnEvents
  <2>2. /\ HowMany(Requests(turn + 1, s), AnswersOf(t, p)) = 0
        /\ HowMany(Requests(turn + 1, s), {Event("session_shutdown_started", 0, p)}) = 0
        /\ HowMany(Requests(turn + 1, s), {Event("turn_requested", t, p)})
              = IF t = turn + 1 /\ p \in s THEN 1 ELSE 0
    <3>1. \A E : (\A q \in Player : Event("turn_requested", turn + 1, q) \notin E)
                    => HowMany(Requests(turn + 1, s), E) = 0
      BY <1>2, OneRequestEach
    <3>2. HowMany(Requests(turn + 1, s), {Event("turn_requested", turn + 1, p)}) = IF p \in s THEN 1 ELSE 0
      BY <1>2, OneRequestEach
    <3>3. CASE t = turn + 1
      BY <2>1, <3>1, <3>2, <3>3
    <3>4. CASE t # turn + 1
      BY <2>1, <3>1, <3>4
    <3> QED
      BY <3>3, <3>4
  <2>3. /\ HowMany(log', AnswersOf(t, p)) = HowMany(log, AnswersOf(t, p)) + 0
        /\ HowMany(log', {Event("session_shutdown_started", 0, p)})
              = HowMany(log, {Event("session_shutdown_started", 0, p)}) + 0
        /\ HowMany(log', {Event("turn_requested", t, p)}) = HowMany(log, {Event("turn_requested", t, p)})
              + (IF t = turn + 1 /\ p \in s THEN 1 ELSE 0)
    BY <1>4, <2>2
  <2>4. /\ Settled(t, p) = HowMany(log, AnswersOf(t, p)) /\ Settled(t, p) \in Nat
        /\ Count("session_shutdown_started", 0, p) = HowMany(log, {Event("session_shutdown_started", 0, p)})
        /\ Count("session_shutdown_started", 0, p) \in Nat
        /\ Count("turn_requested", t, p) = HowMany(log, {Event("turn_requested", t, p)})
    BY <1>2, Counts
  <2>5. /\ Settled(t, p)' = HowMany(log', AnswersOf(t, p))
        /\ Count("session_shutdown_started", 0, p)' = HowMany(log', {Event("session_shutdown_started", 0, p)})
        /\ Count("turn_requested", t, p)' = HowMany(log', {Event("turn_requested", t, p)})
    BY <1>3, CountsNext
  <2> QED
    BY <2>3, <2>4, <2>5
<1>6. TypeOK'
  <2>1. call' \in [Player -> Reply \cup {"none", "out", "canceled"}]
    BY <1>1
  <2> QED
    BY <1>1, <1>2, <1>3, <2>1, Players DEF TypeOK, Step
<1>7. Verdict'
  BY <1>1, <1>2 DEF Verdict, WayOut
<1>8. Ledger'
  <2>1. \A t \in 1..applied : Whole(t)'
    <3> SUFFICES ASSUME NEW t \in 1..applied, NEW p \in Player
                 PROVE  Settled(t, p)' = Count("turn_requested", t, p)'
      BY DEF Whole
    <3>1. t \in Nat /\ t # turn + 1 /\ t \in 1..turn
      BY <1>2
    <3>2. Settled(t, p) = Count("turn_requested", t, p) /\ Settled(t, p) \in Nat
      BY <1>2, <3>1, Counts DEF Whole
    <3> QED
      BY <1>5, <3>1, <3>2
  <2>2. \A t \in Nat : t > turn + 1 =>
           \A p \in Player : Settled(t, p)' = 0 /\ Count("turn_requested", t, p)' = 0
    <3> SUFFICES ASSUME NEW t \in Nat, t > turn + 1, NEW p \in Player
                 PROVE  Settled(t, p)' = 0 /\ Count("turn_requested", t, p)' = 0
      OBVIOUS
    <3>1. t > turn /\ t # turn + 1
      BY <1>2
    <3> QED
      BY <1>2, <1>5, <3>1
  <2> QED
    BY <1>1, <1>2, <2>1, <2>2 DEF Ledger, Starting, Between, Step
<1>9. Open'
  <2>1. ASSUME NEW t \in Nat, t = turn + 1, NEW p \in Player
        PROVE  Settled(t, p)' = 0 /\ Count("turn_requested", t, p)' = IF p \in s THEN 1 ELSE 0
    <3>1. t > turn
      BY <1>2, <2>1
    <3> QED
      BY <1>2, <1>5, <2>1, <3>1
  <2>2. \A t \in Nat : t = turn' => \A p \in Player :
           /\ Settled(t, p)' = 0
           /\ Count("turn_requested", t, p)' = IF p \in s THEN 1 ELSE 0
    BY <1>1, <2>1
  <2>3. \A p \in Player : /\ Settled(turn, p)' = 0
                          /\ Count("turn_requested", turn, p)' = IF p \in s THEN 1 ELSE 0
    BY <1>1, <1>2, <2>2, AtTurn
  <2>4. \A p \in s : call'[p] = "out"
    BY <1>1
  <2>5. \A p : ~Heard(p)'
    BY <1>1 DEF Heard
  <2> QED
    BY <1>1, <2>3, <2>4, <2>5 DEF Open
<1>10. Closings'
  <2>1. \A p \in Player : ~Closed(p) /\ ~Closed(p)'
    BY <1>1 DEF Closed
  <2> QED
    BY <1>5, <2>1 DEF IInv, Closings
<1> QED
  BY <1>6, <1>7, <1>8, <1>9, <1>10 DEF IInv

LEMMA SameAtTurn ==
    ASSUME TypeOK, SameCounts, turn' = turn, NEW p \in Player
    PROVE  /\ Settled(turn, p)' = Settled(turn, p)
           /\ Count("turn_requested", turn, p)' = Count("turn_requested", turn, p)
<1>1. turn \in Nat
  BY DEF TypeOK
<1>2. PICK t \in Nat : t = turn
  BY <1>1
<1>3. Settled(t, p)' = Settled(t, p) /\ Count("turn_requested", t, p)' = Count("turn_requested", t, p)
  BY DEF SameCounts
<1>4. Settled(turn, p)' = Settled(t, p)' /\ Count("turn_requested", turn, p)' = Count("turn_requested", t, p)'
  BY <1>2, AtTurn
<1> QED
  BY <1>2, <1>3, <1>4

LEMMA ReturnStep == IInv /\ (\E p \in Player : TurnReturns(p)) => IInv'
<1> SUFFICES ASSUME IInv, NEW p \in Player, TurnReturns(p) PROVE IInv'
  OBVIOUS
<1>1. PICK r \in Reply \cup {"canceled"} : call' = [call EXCEPT ![p] = r]
  BY DEF TurnReturns
<1>2. /\ pc = "collect" /\ call[p] = "out" /\ TypeOK
      /\ UNCHANGED <<ctx, pc, at, status, failed, log, step, turn, applied, captured, left, waited, cut>>
  BY DEF TurnReturns, out, IInv
<1>3. SameCounts
  BY <1>2, Unwritten
<1>4. TypeOK'
  BY <1>1, <1>2 DEF TypeOK
<1>5. Verdict' /\ Ledger'
  BY <1>2, <1>3, LedgerKept DEF IInv, Verdict
<1>6. Open'
  <2>1. \A q \in step : call'[q] # "none"
    <3>1. r # "none"
      BY DEF Reply
    <3> QED
      BY <1>1, <1>2, <3>1 DEF IInv, Open, Step, TypeOK
  <2>2. \A q : ~Heard(q) /\ ~Heard(q)'
    BY <1>2 DEF Heard
  <2>3. \A q \in Player : /\ Count("turn_requested", turn, q) = IF q \in step THEN 1 ELSE 0
                          /\ Settled(turn, q) = 0
    BY <1>2, <2>2 DEF IInv, Open, Step
  <2>4. \A q \in Player : /\ Count("turn_requested", turn, q)' = IF q \in step THEN 1 ELSE 0
                          /\ Settled(turn, q)' = 0
    BY <1>2, <1>3, <2>3, SameAtTurn
  <2> QED
    BY <1>2, <2>1, <2>2, <2>4 DEF Open
<1>7. Closings'
  BY <1>2, <1>3 DEF IInv, Closings, SameCounts, Closed
<1> QED
  BY <1>4, <1>5, <1>6, <1>7 DEF IInv

LEMMA CollectStep == IInv /\ Collected => IInv'
<1> SUFFICES ASSUME IInv, Collected PROVE IInv'
  OBVIOUS
<1>1. /\ pc = "collect" /\ TypeOK /\ \A p \in step : call[p] # "out"
      /\ UNCHANGED <<ctx, status, failed, log, step, call, turn, applied, captured, left, waited, cut>>
      /\ \/ step = {} /\ pc' = "apply" /\ at' = 1
         \/ step # {} /\ pc' = "record" /\ at' = First(step)
  BY DEF Collected, Goto, game, out, IInv
<1>2. SameCounts
  BY <1>1, Unwritten
<1>3. step \in SUBSET Player
  BY <1>1 DEF TypeOK
<1>4. step # {} => at' \in step /\ \A q \in step : at' <= q
  BY <1>1, <1>3, FirstIsLeast
<1>5. TypeOK'
  BY <1>1, <1>3, <1>4, Players DEF TypeOK, Step
<1>6. Verdict' /\ Ledger'
  BY <1>1, <1>2, LedgerKept DEF IInv, Verdict, Starting, Between, Step, WayOut
<1>7. Open'
  <2>1. \A q \in step : call[q] \in Reply \cup {"canceled"}
    BY <1>1, <1>3 DEF IInv, Open, Step, TypeOK
  <2>2. \A q \in step : ~Heard(q)'
    <3>1. \A q \in step : at' \in Nat /\ q \in Nat
      BY <1>3, <1>4, Players
    <3> QED
      BY <1>1, <1>4, <3>1 DEF Heard
  <2>3. \A q \in Player : /\ Count("turn_requested", turn, q) = IF q \in step THEN 1 ELSE 0
                          /\ Settled(turn, q) = 0
    BY <1>1 DEF IInv, Open, Step, Heard
  <2>4. \A q \in Player : /\ Count("turn_requested", turn, q)' = IF q \in step THEN 1 ELSE 0
                          /\ Settled(turn, q)' = 0
    BY <1>1, <1>2, <2>3, SameAtTurn
  <2> QED
    BY <1>1, <1>4, <2>1, <2>2, <2>4 DEF Open
<1>8. Closings'
  <2>1. \A p \in Player : ~Closed(p) /\ ~Closed(p)'
    BY <1>1 DEF Closed
  <2> QED
    BY <1>2, <2>1 DEF IInv, Closings, SameCounts
<1> QED
  BY <1>5, <1>6, <1>7, <1>8 DEF IInv

\* A result is logged for the next player of the step.
LEMMA RecordStep == IInv /\ RecordTurn => IInv'
<1> SUFFICES ASSUME IInv, RecordTurn PROVE IInv'
  OBVIOUS
<1> DEFINE rest == {q \in step : q > at}
           e == Event(TurnEvent(call[at]), turn, at)
<1>1. /\ pc = "record" /\ TypeOK /\ log \in Seq(Events) /\ turn \in Nat /\ step \in SUBSET Player
      /\ at \in step /\ at \in Nat /\ pc \notin WayOut
      /\ UNCHANGED <<ctx, step, call, turn, applied, captured, left, waited, cut>>
  BY Players DEF RecordTurn, game, out, IInv, TypeOK, Open, Step, WayOut
<1>2. CASE Abort /\ UNCHANGED log
  BY <1>1, <1>2, Unwritten, Aborting
<1>3. CASE /\ call[at] # "canceled" /\ log' = Append(log, e)
           /\ IF rest = {} THEN Goto("apply", 1) ELSE Goto("record", First(rest))
  <2>1. /\ UNCHANGED <<status, failed>>
        /\ \/ rest = {} /\ pc' = "apply" /\ at' = 1
           \/ rest # {} /\ pc' = "record" /\ at' \in rest /\ \A q \in rest : at' <= q
    <3>1. rest \in SUBSET Player
      BY <1>1
    <3> HIDE DEF rest
    <3> QED
      BY <1>3, <3>1, FirstIsLeast DEF Goto
  <2>2. e \in Events /\ e.kind \in TurnEvents /\ e.turn = turn /\ e.player = at
    <3>1. TurnEvent(call[at]) \in TurnEvents
      BY DEF TurnEvent, TurnEvents
    <3>2. TurnEvents \subseteq Kinds
      BY DEF TurnEvents, Kinds
    <3> QED
      BY <1>1, <3>1, <3>2 DEF Event, Events
  <2> HIDE DEF e
  <2>3. log' \in Seq(Events)
    BY <1>1, <1>3, <2>2, HowManyAppend
  <2>4. ASSUME NEW t \in Nat, NEW p \in Player
        PROVE  /\ Settled(t, p)' = Settled(t, p) + (IF t = turn /\ p = at THEN 1 ELSE 0)
               /\ Count("turn_requested", t, p)' = Count("turn_requested", t, p)
               /\ Count("session_shutdown_started", 0, p)' = Count("session_shutdown_started", 0, p)
    <3>1. /\ e \in AnswersOf(t, p) <=> t = turn /\ p = at
          /\ e \notin {Event("turn_requested", t, p)} /\ e \notin {Event("session_shutdown_started", 0, p)}
      BY <2>2 DEF AnswersOf, Event, TurnEvents
    <3>2. \A E : HowMany(log', E) = HowMany(log, E) + IF e \in E THEN 1 ELSE 0
      BY <1>1, <1>3, <2>2, HowManyAppend
    <3>3. /\ HowMany(log', AnswersOf(t, p)) = HowMany(log, AnswersOf(t, p)) + IF t = turn /\ p = at THEN 1 ELSE 0
          /\ HowMany(log', {Event("turn_requested", t, p)}) = HowMany(log, {Event("turn_requested", t, p)}) + 0
          /\ HowMany(log', {Event("session_shutdown_started", 0, p)})
                = HowMany(log, {Event("session_shutdown_started", 0, p)}) + 0
      BY <3>1, <3>2
    <3> QED
      <4>1. /\ Settled(t, p)' = HowMany(log', AnswersOf(t, p))
            /\ Count("turn_requested", t, p)' = HowMany(log', {Event("turn_requested", t, p)})
            /\ Count("session_shutdown_started", 0, p)'
                  = HowMany(log', {Event("session_shutdown_started", 0, p)})
        BY <2>3, CountsNext
      <4>2. /\ Settled(t, p) = HowMany(log, AnswersOf(t, p)) /\ Settled(t, p) \in Nat
            /\ Count("turn_requested", t, p) = HowMany(log, {Event("turn_requested", t, p)})
            /\ Count("turn_requested", t, p) \in Nat
            /\ Count("session_shutdown_started", 0, p)
                  = HowMany(log, {Event("session_shutdown_started", 0, p)})
            /\ Count("session_shutdown_started", 0, p) \in Nat
        BY <1>1, Counts
      <4> QED
        BY <3>3, <4>1, <4>2
  <2>5. TypeOK'
    BY <1>1, <2>1, <2>3, Players DEF TypeOK, Step
  <2>6. Verdict'
    BY <1>1, <2>1 DEF IInv, Verdict, WayOut
  <2>7. /\ turn = applied + 1 /\ applied \in Nat /\ \A t \in 1..applied : Whole(t)
        /\ \A t \in Nat : t > turn =>
              \A p \in Player : Settled(t, p) = 0 /\ Count("turn_requested", t, p) = 0
    BY <1>1 DEF IInv, Ledger, Step, TypeOK
  <2>8. Ledger'
    <3>1. \A t \in 1..applied : Whole(t)'
      <4> SUFFICES ASSUME NEW t \in 1..applied, NEW p \in Player
                   PROVE  Settled(t, p)' = Count("turn_requested", t, p)'
        BY DEF Whole
      <4>1. t \in Nat /\ t # turn
        BY <2>7
      <4>2. Settled(t, p) = Count("turn_requested", t, p) /\ Settled(t, p) \in Nat
        BY <1>1, <2>7, Counts DEF Whole
      <4> QED
        BY <2>4, <4>1, <4>2
    <3>2. \A t \in Nat : t > turn =>
             \A p \in Player : Settled(t, p)' = 0 /\ Count("turn_requested", t, p)' = 0
      <4> SUFFICES ASSUME NEW t \in Nat, t > turn, NEW p \in Player
                   PROVE  Settled(t, p)' = 0 /\ Count("turn_requested", t, p)' = 0
        OBVIOUS
      <4>1. t # turn
        BY <1>1
      <4> QED
        BY <2>4, <2>7, <4>1
    <3>3. status = "starting"
      BY <1>1 DEF IInv, Verdict
    <3> QED
      BY <1>1, <2>1, <2>7, <3>1, <3>2, <3>3 DEF Ledger, Starting, Between, Step
  <2>9. Open'
    <3>1. \A q \in step : q \in Nat /\ q \in Player
      BY <1>1, Players
    <3>2. \A q \in step : Heard(q)' <=> Heard(q) \/ q = at
      <4>1. CASE rest = {}
        BY <1>1, <2>1, <3>1, <4>1 DEF Heard
      <4>2. CASE rest # {}
        <5>1. pc' = "record" /\ at' \in Nat /\ at' > at /\ \A q \in step : q > at => at' <= q
          BY <2>1, <3>1, <4>2
        <5> QED
          BY <1>1, <3>1, <5>1 DEF Heard
      <4> QED
        BY <4>1, <4>2
    <3>3. ~Heard(at)
      BY <1>1 DEF Heard
    <3>4. \A q \in step : call[q] \in Reply \cup {"canceled"} /\ (Heard(q) => call[q] \in Reply)
      BY <1>1 DEF IInv, Open, Step
    <3>5. call[at] \in Reply
      BY <1>1, <1>3, <3>4
    <3>6. ASSUME NEW p \in Player
          PROVE  /\ Count("turn_requested", turn, p)' = IF p \in step THEN 1 ELSE 0
                 /\ Settled(turn, p)' = IF p \in step /\ (Heard(p) \/ p = at) THEN 1 ELSE 0
      <4>1. /\ Count("turn_requested", turn, p) = IF p \in step THEN 1 ELSE 0
            /\ Settled(turn, p) = IF p \in step /\ Heard(p) THEN 1 ELSE 0
        BY <1>1 DEF IInv, Open, Step
      <4>2. PICK t \in Nat : t = turn
        BY <1>1
      <4>3. /\ Settled(turn, p)' = Settled(t, p)'
            /\ Count("turn_requested", turn, p)' = Count("turn_requested", t, p)'
        BY <1>1, <4>2, AtTurn
      <4> QED
        BY <1>1, <2>4, <3>3, <4>1, <4>2, <4>3
    <3>7. pc' = "record" => at' \in step
      BY <2>1
    <3> QED
      BY <1>1, <2>1, <3>2, <3>4, <3>5, <3>6, <3>7 DEF Open
  <2>10. Closings'
    <3>1. \A p \in Player : ~Closed(p) /\ ~Closed(p)'
      BY <1>1, <2>1 DEF Closed
    <3> QED
      BY <2>4, <3>1 DEF IInv, Closings
  <2> QED
    BY <2>5, <2>6, <2>8, <2>9, <2>10 DEF IInv
<1> QED
  BY <1>2, <1>3 DEF RecordTurn

LEMMA ApplyStep == IInv /\ ApplyDecisionResults => IInv'
<1> SUFFICES ASSUME IInv, ApplyDecisionResults PROVE IInv'
  OBVIOUS
<1>1. /\ pc = "apply" /\ TypeOK /\ log \in Seq(Events) /\ turn \in Nat /\ applied \in Nat
      /\ turn = applied + 1 /\ pc \notin WayOut /\ status = "starting"
      /\ UNCHANGED <<ctx, log, step, call, turn, captured, left, waited, cut>>
  BY DEF ApplyDecisionResults, out, IInv, TypeOK, Ledger, Step, WayOut, Verdict
<1>2. SameCounts
  BY <1>1, Unwritten
<1>3. CASE Abort /\ UNCHANGED applied
  BY <1>1, <1>2, <1>3, Aborting
<1>4. CASE applied' = applied + 1 /\ Goto("next", 1)
  <2>1. pc' = "next" /\ at' = 1 /\ UNCHANGED <<status, failed>> /\ applied' = turn
    BY <1>1, <1>4 DEF Goto
  <2>2. TypeOK'
    BY <1>1, <2>1, Players DEF TypeOK, Between
  <2>3. Verdict'
    BY <1>1, <2>1 DEF IInv, Verdict, WayOut
  <2>4. \A t \in 1..turn : Whole(t)'
    <3> SUFFICES ASSUME NEW t \in 1..turn, NEW p \in Player
                 PROVE  Settled(t, p)' = Count("turn_requested", t, p)'
      BY DEF Whole
    <3>1. Settled(t, p) = Count("turn_requested", t, p)
      <4>1. CASE t = turn
        BY <1>1, <4>1 DEF IInv, Open, Step, Heard
      <4>2. CASE t # turn
        <5>1. t \in 1..applied
          BY <1>1, <4>2
        <5> QED
          BY <1>1, <5>1 DEF IInv, Ledger, Step, Whole
      <4> QED
        BY <4>1, <4>2
    <3> QED
      BY <1>1, <1>2, <3>1 DEF SameCounts
  <2>5. \A t \in Nat : t > turn =>
           \A p \in Player : Settled(t, p)' = 0 /\ Count("turn_requested", t, p)' = 0
    BY <1>2 DEF IInv, Ledger, SameCounts
  <2>6. Ledger'
    BY <1>1, <2>1, <2>4, <2>5 DEF Ledger, Starting, Step
  <2>7. Open' /\ Closings'
    <3>1. \A p \in Player : ~Closed(p) /\ ~Closed(p)'
      BY <1>1, <2>1 DEF Closed
    <3> QED
      BY <1>2, <2>1, <3>1 DEF IInv, Closings, SameCounts, Open, Step
  <2> QED
    BY <2>2, <2>3, <2>6, <2>7 DEF IInv
<1> QED
  BY <1>3, <1>4 DEF ApplyDecisionResults

-----------------------------------------------------------------------------
(* The way out *)

LEMMA CaptureStep == IInv /\ CaptureFinalState => IInv'
<1> SUFFICES ASSUME IInv, CaptureFinalState PROVE IInv'
  OBVIOUS
<1>1. /\ pc = "capture" /\ pc' = "player" /\ at' = 1 /\ TypeOK /\ log \in Seq(Events)
      /\ UNCHANGED <<ctx, log, step, call, turn, applied, left, waited, cut>>
      /\ \/ captured' = TRUE /\ UNCHANGED <<status, failed>>
         \/ /\ UNCHANGED captured /\ failed' = TRUE
            /\ status' = IF ~failed /\ status = "completed" THEN "failed" ELSE status
  BY DEF CaptureFinalState, game, IInv, TypeOK
<1>2. SameCounts
  BY <1>1, Unwritten
<1>3. pc \in WayOut /\ status # "starting" /\ (status = "completed" => ~failed)
  BY <1>1 DEF IInv, Verdict, WayOut
<1>4. status' # "starting" /\ (status' = "completed" => status = "completed" /\ captured' = TRUE /\ ~failed')
  BY <1>1, <1>3
<1>5. Verdict'
  BY <1>1, <1>4 DEF Verdict, WayOut
<1>6. \A p \in Player : ~Closed(p) /\ ~Closed(p)'
  BY <1>1, Players DEF Closed, Player
<1>7. /\ status' \in {"starting", "completed", "canceled", "failed"} /\ failed' \in BOOLEAN
      /\ captured' \in BOOLEAN
  BY <1>1 DEF TypeOK
<1> QED
  BY <1>1, <1>2, <1>4, <1>5, <1>6, <1>7, Elsewhere, Players DEF TypeOK, Starting, Between, WayOut

LEMMA FarewellStep == IInv /\ (BeginGameOver \/ SkipGameOver \/ GameOverReturns) => IInv'
<1> SUFFICES ASSUME IInv, BeginGameOver \/ SkipGameOver \/ GameOverReturns PROVE IInv'
  OBVIOUS
<1>1. /\ TypeOK /\ log \in Seq(Events) /\ at \in Player /\ at \in Nat
      /\ pc \in {"player", "game_over"} /\ pc' \in {"game_over", "close"}
      /\ UNCHANGED <<ctx, at, status, failed, step, call, turn, applied, captured, left>>
  BY Players DEF BeginGameOver, SkipGameOver, GameOverReturns, Goto, game, out, IInv, TypeOK
<1>2. /\ waited' \in Nat /\ cut' \in SUBSET Player
      /\ log' \in {log, Append(log, Event("game_over_sent", 0, at)),
                        Append(log, Event("session_shutdown_failed", 0, at))}
  <2>1. CASE BeginGameOver \/ SkipGameOver
    <3>1. waited \in Nat /\ 0 \in Nat /\ cut \in SUBSET Player
      BY <1>1 DEF TypeOK
    <3>2. log' = log /\ cut' = cut /\ waited' \in {0, waited}
      BY <2>1 DEF BeginGameOver, SkipGameOver, out
    <3> QED
      BY <3>1, <3>2
  <2>2. CASE GameOverReturns
    BY <1>1, <2>2 DEF GameOverReturns, TypeOK
  <2> QED
    BY <2>1, <2>2
<1>3. log' \in Seq(Events) /\ SameCounts
  <2>1. CASE log' = log
    BY <1>1, <2>1, Unwritten
  <2>2. CASE log' = Append(log, Event("game_over_sent", 0, at))
    BY <1>1, <2>2, Quietly, QuietEvents
  <2>3. CASE log' = Append(log, Event("session_shutdown_failed", 0, at))
    BY <1>1, <2>3, Quietly, QuietEvents
  <2> QED
    BY <1>2, <2>1, <2>2, <2>3
<1>4. Verdict'
  BY <1>1 DEF IInv, Verdict, WayOut
<1>5. \A p \in Player : Closed(p)' <=> Closed(p)
  BY <1>1 DEF Closed
<1> QED
  BY <1>1, <1>2, <1>3, <1>4, <1>5, Elsewhere DEF TypeOK, Starting, Between, WayOut

\* Each session is closed once, whatever becomes of it.
LEMMA CloseStep == IInv /\ CloseSession => IInv'
<1> SUFFICES ASSUME IInv, CloseSession PROVE IInv'
  OBVIOUS
<1> DEFINE begun == Event("session_shutdown_started", 0, at)
<1>1. /\ pc = "close" /\ TypeOK /\ log \in Seq(Events) /\ at \in Player /\ at \in Nat
      /\ UNCHANGED <<ctx, status, failed, step, call, turn, applied, captured, left, waited, cut>>
      /\ IF at = NPlayers THEN pc' = "master_out" /\ at' = 1 ELSE pc' = "player" /\ at' = at + 1
  BY Players DEF CloseSession, Goto, game, out, IInv, TypeOK
<1>2. PICK e \in Events : e.kind \notin Loud /\ log' = log \o <<begun, e>>
  <2>1. PICK k \in {"session_shutdown_completed", "session_shutdown_failed"} :
           log' = log \o <<begun, Event(k, 0, at)>>
    BY DEF CloseSession
  <2>2. Event(k, 0, at) \in Events /\ Event(k, 0, at).kind \notin Loud
    BY <1>1, QuietEvents
  <2> QED
    BY <2>1, <2>2
<1>3. /\ begun \in Events /\ begun.kind = "session_shutdown_started"
      /\ \A p \in Player : begun = Event("session_shutdown_started", 0, p) <=> p = at
  BY <1>1 DEF Event, Events, Kinds
<1> HIDE DEF begun
<1>4. log' \in Seq(Events)
  BY <1>1, <1>2, <1>3, HowManyTwo
<1>5. ASSUME NEW t \in Nat, NEW p \in Player
      PROVE  /\ Settled(t, p)' = Settled(t, p)
             /\ Count("turn_requested", t, p)' = Count("turn_requested", t, p)
             /\ Count("session_shutdown_started", 0, p)'
                   = Count("session_shutdown_started", 0, p) + (IF p = at THEN 1 ELSE 0)
  <2>1. /\ e \notin AnswersOf(t, p) /\ begun \notin AnswersOf(t, p)
        /\ e \notin {Event("turn_requested", t, p)} /\ begun \notin {Event("turn_requested", t, p)}
        /\ e \notin {Event("session_shutdown_started", 0, p)}
        /\ begun \in {Event("session_shutdown_started", 0, p)} <=> p = at
    BY <1>2, <1>3 DEF AnswersOf, Event, Loud, TurnEvents
  <2>2. \A E : HowMany(log', E) = HowMany(log, E)
                  + ((IF begun \in E THEN 1 ELSE 0) + IF e \in E THEN 1 ELSE 0)
    BY <1>1, <1>2, <1>3, HowManyTwo
  <2>3. /\ HowMany(log', AnswersOf(t, p)) = HowMany(log, AnswersOf(t, p)) + 0
        /\ HowMany(log', {Event("turn_requested", t, p)}) = HowMany(log, {Event("turn_requested", t, p)}) + 0
        /\ HowMany(log', {Event("session_shutdown_started", 0, p)})
              = HowMany(log, {Event("session_shutdown_started", 0, p)}) + IF p = at THEN 1 ELSE 0
    BY <2>1, <2>2
  <2>4. /\ Settled(t, p)' = HowMany(log', AnswersOf(t, p))
        /\ Count("turn_requested", t, p)' = HowMany(log', {Event("turn_requested", t, p)})
        /\ Count("session_shutdown_started", 0, p)'
              = HowMany(log', {Event("session_shutdown_started", 0, p)})
    BY <1>4, CountsNext
  <2>5. /\ Settled(t, p) = HowMany(log, AnswersOf(t, p)) /\ Settled(t, p) \in Nat
        /\ Count("turn_requested", t, p) = HowMany(log, {Event("turn_requested", t, p)})
        /\ Count("turn_requested", t, p) \in Nat
        /\ Count("session_shutdown_started", 0, p)
              = HowMany(log, {Event("session_shutdown_started", 0, p)})
        /\ Count("session_shutdown_started", 0, p) \in Nat
    BY <1>1, Counts
  <2> QED
    BY <2>3, <2>4, <2>5
<1>6. pc' \in {"master_out", "player"} /\ at' \in Player
  <2>1. CASE at = NPlayers
    BY <1>1, <2>1, Players
  <2>2. CASE at # NPlayers
    <3>1. at + 1 \in Player
      BY <1>1, <2>2, PlayerBound DEF Player
    <3> QED
      BY <1>1, <2>2, <3>1
  <2> QED
    BY <2>1, <2>2
<1>7. TypeOK'
  BY <1>1, <1>4, <1>6 DEF TypeOK, WayOut
<1>8. Verdict' /\ Open'
  BY <1>1, <1>6 DEF IInv, Verdict, Open, WayOut, Step
<1>9. Ledger'
  <2>1. \A t \in Nat : Whole(t)' <=> Whole(t)
    BY <1>5 DEF Whole
  <2>2. /\ status = "completed" => applied = turn /\ \A t \in 1..turn : Whole(t)
        /\ \A t \in Nat : t > turn =>
              \A p \in Player : Settled(t, p) = 0 /\ Count("turn_requested", t, p) = 0
    BY DEF IInv, Ledger
  <2>3. \A t \in 1..turn : t \in Nat
    BY <1>1 DEF TypeOK
  <2>4. \A t \in Nat : t > turn =>
           \A p \in Player : Settled(t, p)' = 0 /\ Count("turn_requested", t, p)' = 0
    BY <1>5, <2>2
  <2> QED
    BY <1>1, <1>6, <2>1, <2>2, <2>3, <2>4 DEF Ledger, Starting, Between, Step
<1>10. Closings'
  <2>1. ASSUME NEW p \in Player
        PROVE  /\ Closed(p)' <=> Closed(p) \/ p = at
               /\ ~Closed(at)
    <3>1. p \in Nat /\ p <= NPlayers /\ NPlayers \in Nat
      BY PlayerBound DEF Player
    <3>2. Closed(p) <=> p < at
      BY <1>1 DEF Closed
    <3>3. CASE at = NPlayers
      BY <1>1, <3>1, <3>2, <3>3 DEF Closed
    <3>4. CASE at # NPlayers
      BY <1>1, <3>1, <3>2, <3>4 DEF Closed
    <3> QED
      BY <3>3, <3>4
  <2>2. 0 \in Nat
    OBVIOUS
  <2> QED
    BY <1>5, <2>1, <2>2 DEF IInv, Closings
<1> QED
  BY <1>7, <1>8, <1>9, <1>10 DEF IInv

LEMMA ReturnRunStep == IInv /\ (ShutdownMaster \/ EmitTerminal) => IInv'
<1> SUFFICES ASSUME IInv, ShutdownMaster \/ EmitTerminal PROVE IInv'
  OBVIOUS
<1>1. /\ TypeOK /\ log \in Seq(Events)
      /\ pc \in {"master_out", "emit"} /\ pc' \in {"emit", "returned"} /\ at' = 1
      /\ UNCHANGED <<ctx, status, failed, step, call, turn, applied, captured, left, waited, cut>>
  BY DEF ShutdownMaster, EmitTerminal, Goto, game, out, IInv, TypeOK
<1>2. log' \in Seq(Events) /\ SameCounts
  <2>1. CASE ShutdownMaster
    <3>1. PICK k \in {"game_master_shutdown_completed", "game_master_shutdown_failed"} :
             log' = log \o <<Event("game_master_shutdown_started", 0, 0), Event(k, 0, 0)>>
      BY <2>1 DEF ShutdownMaster
    <3> DEFINE d == Event("game_master_shutdown_started", 0, 0)
               e == Event(k, 0, 0)
    <3>2. d \in Events /\ d.kind \notin Loud /\ e \in Events /\ e.kind \notin Loud
      BY QuietEvents
    <3> HIDE DEF d, e
    <3>3. \A E : HowMany(log \o <<d, e>>, E) =
                   HowMany(log, E) + ((IF d \in E THEN 1 ELSE 0) + IF e \in E THEN 1 ELSE 0)
      BY <1>1, <3>2, HowManyTwo
    <3>4. log \o <<d, e>> \in Seq(Events)
      BY <1>1, <3>2, HowManyTwo
    <3>5. \A E : d \notin E /\ e \notin E => HowMany(log \o <<d, e>>, E) = HowMany(log, E)
      <4>1. \A E : HowMany(log, E) \in Nat
        BY <1>1, HowManyType
      <4> QED
        BY <3>3, <4>1
    <3>6. \A t, p : \A f \in {d, e} : /\ f \notin AnswersOf(t, p)
                                     /\ f \notin {Event("turn_requested", t, p)}
                                     /\ f \notin {Event("session_shutdown_started", 0, p)}
      BY <3>2 DEF AnswersOf, Event, Loud
    <3>7. Alike(log \o <<d, e>>, log)
      BY <3>5, <3>6 DEF Alike
    <3>8. log' = log \o <<d, e>>
      BY <3>1 DEF d, e
    <3> QED
      BY <1>1, <3>4, <3>7, <3>8, AlikeCounts
  <2>2. CASE EmitTerminal
    <3>1. log' = Append(log, Event(TerminalEvent(status), 0, 0))
      BY <2>2 DEF EmitTerminal
    <3>2. TerminalEvent(status) \in {"match_completed", "match_canceled", "match_failed"} /\ 0 \in Nat
      BY DEF TerminalEvent
    <3> QED
      BY <1>1, <3>1, <3>2, Quietly, QuietEvents
  <2> QED
    BY <2>1, <2>2
<1>3. Verdict'
  BY <1>1 DEF IInv, Verdict, WayOut
<1>4. \A p \in Player : Closed(p)' <=> Closed(p)
  BY <1>1 DEF Closed
<1> QED
  BY <1>1, <1>2, <1>3, <1>4, Elsewhere, Players DEF TypeOK, Starting, Between, WayOut

LEMMA TimePasses == IInv /\ (ContextEnds \/ ShutdownTick \/ UNCHANGED vars) => IInv'
<1> SUFFICES ASSUME IInv, ContextEnds \/ ShutdownTick \/ UNCHANGED vars PROVE IInv'
  OBVIOUS
<1>1. /\ TypeOK
      /\ UNCHANGED <<pc, at, status, failed, log, step, call, turn, applied, captured, cut>>
  BY DEF ContextEnds, ShutdownTick, vars, game, out, IInv
<1>2. ctx' \in {"live", "ended"} /\ left' \in Nat /\ waited' \in Nat
  <2>1. left \in Nat /\ waited \in Nat /\ ctx \in {"live", "ended"}
    BY <1>1 DEF TypeOK
  <2>2. CASE ContextEnds
    BY <2>1, <2>2 DEF ContextEnds, out
  <2>3. CASE ShutdownTick
    BY <2>1, <2>3 DEF ShutdownTick
  <2>4. CASE UNCHANGED vars
    BY <2>1, <2>4 DEF vars, out
  <2> QED
    BY <2>2, <2>3, <2>4
<1>3. TypeOK'
  BY <1>1, <1>2 DEF TypeOK
<1>4. Verdict' /\ Closings'
  BY <1>1 DEF IInv, Verdict, Closings, Closed, Count
<1>5. SameCounts
  BY <1>1, Unwritten
<1>6. Ledger'
  BY <1>1, <1>5, LedgerKept DEF IInv
<1>7. Open'
  BY <1>1 DEF IInv, Open, Heard, Settled, Count
<1> QED
  BY <1>3, <1>4, <1>6, <1>7 DEF IInv

-----------------------------------------------------------------------------
(* The theorems *)

LEMMA InvariantInit == Init => IInv
<1> SUFFICES ASSUME Init PROVE IInv
  OBVIOUS
<1> DEFINE e == Event("match_started", 0, 0)
<1>1. e \in Events /\ e.kind = "match_started"
  BY DEF Event, Events, Kinds
<1>2. log = <<e>> /\ log \in Seq(Events)
  BY <1>1 DEF Init
<1> HIDE DEF e
<1>3. \A p \in Player : at <= p
  BY DEF Init, Player
<1>4. TypeOK
  <2>1. call \in [Player -> Reply \cup {"none", "out", "canceled"}]
    BY DEF Init
  <2>2. left \in Nat /\ waited \in Nat /\ turn \in Nat /\ applied \in Nat /\ at \in Player
    BY Deadlines, Players DEF Init
  <2>3. ctx \in {"live", "ended"} /\ pc = "master" /\ status = "starting" /\ failed = FALSE
    BY DEF Init
  <2>4. step = {} /\ cut = {} /\ captured = FALSE
    BY DEF Init
  <2> QED
    BY <1>2, <2>1, <2>2, <2>3, <2>4 DEF TypeOK, Starting
<1>5. Verdict /\ Open
  BY DEF Init, Verdict, Open, WayOut, Step
<1>6. ASSUME NEW t \in Nat, NEW p \in Player
      PROVE  /\ Settled(t, p) = 0 /\ Count("turn_requested", t, p) = 0
             /\ Count("session_shutdown_started", 0, p) = 0
  <2>1. /\ e \notin AnswersOf(t, p) /\ e \notin {Event("turn_requested", t, p)}
        /\ e \notin {Event("session_shutdown_started", 0, p)}
    BY <1>1 DEF AnswersOf, Event, TurnEvents
  <2>2. \A E : e \notin E => HowMany(log, E) = 0
    BY <1>2, HowManyOne
  <2> QED
    BY <1>2, <2>1, <2>2, Counts
<1>7. Ledger
  BY <1>6 DEF Init, Ledger, Starting, Step
<1>8. Closings
  <2>1. \A p : ~Closed(p)
    BY DEF Init, Closed
  <2> QED
    BY <1>6, <2>1 DEF Closings
<1> QED
  BY <1>4, <1>5, <1>7, <1>8 DEF IInv

LEMMA Inductive == IInv /\ [Next]_vars => IInv'
BY InitializeMasterStep, InitializePlayerStep, DecideStep, AskStep, ReturnStep, CollectStep,
   RecordStep, ApplyStep, CaptureStep, FarewellStep, CloseStep, ReturnRunStep, TimePasses
DEF Next, Run, Returned

LEMMA Invariant == Spec => []IInv
BY InvariantInit, Inductive, PTL DEF Spec

\* Every variable of the runner keeps its type; the log holds only known events.
THEOREM TypeCorrect == Spec => []TypeOK
<1>1. IInv => TypeOK
  BY DEF IInv
<1> QED
  BY <1>1, Invariant, PTL

\* The record of a completed match has one result for every request, every step
\* applied and the final state captured.
THEOREM CompletedRecordsAreWhole == Spec => []CompletedIsWhole
<1>1. IInv => CompletedIsWhole
  BY DEF IInv, Verdict, Ledger, Whole, CompletedIsWhole
<1> QED
  BY <1>1, Invariant, PTL

\* Every player's session is shut down exactly once on every way out of Run.
THEOREM SessionsAreClosedOnce == Spec => []EverySessionClosed
<1>1. IInv => EverySessionClosed
  BY DEF IInv, Closings, Closed, EverySessionClosed
<1> QED
  BY <1>1, Invariant, PTL

\* ApplyDecisionResults is called only with a result, logged once, of every
\* player of the step.
THEOREM StepsAreAppliedWhole == Spec => AppliedWhole
<1>1. IInv /\ [Next]_vars =>
         [applied' # applied => \A p \in step : call[p] \in Reply /\ Settled(turn, p) = 1]_vars
  <2> SUFFICES ASSUME IInv, Next, applied' # applied
               PROVE  \A p \in step : call[p] \in Reply /\ Settled(turn, p) = 1
    OBVIOUS
  <2>1. ApplyDecisionResults
    BY DEF Next, Run, Returned, ContextEnds, ShutdownTick, InitializeMaster, InitializePlayer, CheckContext,
           NextFails, GameFinishes, NextDecisionStep, TurnReturns, Collected, RecordTurn,
           CaptureFinalState, BeginGameOver, GameOverReturns, SkipGameOver, CloseSession,
           ShutdownMaster, EmitTerminal, game, vars
  <2> QED
    BY <2>1 DEF ApplyDecisionResults, IInv, TypeOK, Open, Step, Heard
<1> QED
  BY <1>1, Invariant, PTL DEF Spec, AppliedWhole

\* A match whose context has ended is canceled, or completes because the game
\* was over; no answer of a player counts any more.
THEOREM CancellationIsNoFailure == Spec => CancellationWins
<1> DEFINE Wins ==
       ctx = "ended" /\ status = "starting" =>
         /\ status' # "failed"
         /\ status' = "completed" => pc = "asking"
         /\ \A p \in Player : call'[p] # call[p] => call'[p] \in {"out", "none", "canceled"}
<1>1. IInv /\ [Next]_vars => [Wins]_vars
  <2> SUFFICES ASSUME IInv, Next, ctx = "ended", status = "starting"
               PROVE  /\ status' # "failed"
                      /\ status' = "completed" => pc = "asking"
                      /\ \A p \in Player :
                            call'[p] # call[p] => call'[p] \in {"out", "none", "canceled"}
    OBVIOUS
  <2>1. pc \notin WayOut /\ call \in [Player -> Reply \cup {"none", "out", "canceled"}]
    BY DEF IInv, Verdict, TypeOK
  <2>2. status' \in {"starting", "canceled"} \/ (status' = "completed" /\ pc = "asking")
    BY <2>1 DEF Next, Run, Returned, ContextEnds, ShutdownTick, InitializeMaster, InitializePlayer,
           CheckContext, NextFails, GameFinishes, NextDecisionStep, TurnReturns, Collected, RecordTurn,
           ApplyDecisionResults, CaptureFinalState, BeginGameOver, GameOverReturns, SkipGameOver,
           CloseSession, ShutdownMaster, EmitTerminal, Abort, Goto, WayOut, vars
  <2>3. \/ call' = call
        \/ \E s \in SUBSET Player : call' = [p \in Player |-> IF p \in s THEN "out" ELSE "none"]
        \/ \E p \in Player : call' = [call EXCEPT ![p] = "canceled"]
    BY DEF Next, Run, Returned, ContextEnds, ShutdownTick, InitializeMaster, InitializePlayer,
           CheckContext, NextFails, GameFinishes, NextDecisionStep, TurnReturns, Collected, RecordTurn,
           ApplyDecisionResults, CaptureFinalState, BeginGameOver, GameOverReturns, SkipGameOver,
           CloseSession, ShutdownMaster, EmitTerminal, vars, game
  <2>4. \A p \in Player : call'[p] # call[p] => call'[p] \in {"out", "none", "canceled"}
    BY <2>1, <2>3
  <2> QED
    BY <2>2, <2>4
<1> QED
  BY <1>1, Invariant, PTL DEF Spec, CancellationWins
=============================================================================
