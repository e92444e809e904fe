-------------------------- MODULE BotRequestsProofs --------------------------
(***************************************************************************)
(* Theorems about BotRequests, for any owners, bots and concurrent calls.  *)
(***************************************************************************)
EXTENDS BotRequests, FiniteSetTheorems, TLAPS

Progress == Resolves \union Submits \union Saves \union {NoCreate}

\* The table of bots is older than another: bots are never dropped, keep their
\* owner, and stay as they are once retired.
Ages(old, new) == \A b \in BotIds : Exists(old, b) =>
    /\ Exists(new, b)
    /\ new[b].owner = old[b].owner
    /\ old[b].state = "retired" => new[b] = old[b]

\* What the picks of a request were at the moment m.
AllPicked(chosen, m) == \A p \in chosen : IsActive(m, p.bot) /\ m[p.bot].revision = p.revision

\* A selection picks from its snapshot, which was the table at one moment.
PicksOneMoment(t) ==
    /\ t.pc = "resolve" => t.view \in t.seen /\ AllPicked(t.chosen, t.view)
    /\ t.pc = "submit" => \E m \in t.seen : AllPicked(t.chosen, m)

\* The snapshot of a transaction is of the past, and the scope row it locked is
\* the one of its snapshot.
SnapshotHolds(t) ==
    t # NoTx => Ages(t.view, bots) /\ (t.pc = "locked" => t.scope = scope)

IInv ==
    /\ TypeOK
    /\ \A e \in Editors : SnapshotHolds(tx[e])
    /\ \A c \in Creators : PicksOneMoment(create[c])

-----------------------------------------------------------------------------
(* Types *)

\* The rows and calls that the actions write have their types.
LEMMA RowTypes ==
    /\ \A row \in BotRows : row # NoBot
    /\ \A owner \in Owners, name \in Names, n \in Nat :
          LET row == Bot(owner, name, "active", n)
          IN  row \in BotRows /\ row.owner = owner /\ row.state = "active"
    /\ \A row \in BotRows, n \in Nat :
          LET next == [row EXCEPT !.revision = n]
          IN  next \in BotRows /\ next.owner = row.owner /\ next.state = row.state
    /\ \A row \in BotRows :
          LET next == [row EXCEPT !.state = "retired"]
          IN  /\ next \in BotRows /\ next.owner = row.owner /\ next.state = "retired"
              /\ row.state = "retired" => next = row
BY DEF BotRows, NoBot, Bot

\* A transaction knows its view; an idle one has no phase.
LEMMA TxTypes ==
    ASSUME TypeOK, NEW e \in Editors
    PROVE  /\ tx[e] # NoTx => tx[e] \in Revisions
           /\ tx[e].pc \in {"begun", "locked"} => tx[e] # NoTx
           /\ NoTx.pc = "idle"
<1>1. tx[e] \in Revisions \union {NoTx}
  BY DEF TypeOK
<1>2. NoTx.pc = "idle"
  BY DEF NoTx
<1> QED
  BY <1>1, <1>2

\* A call of Create has the type of its phase.
LEMMA CreateTypes ==
    ASSUME TypeOK, NEW c \in Creators
    PROVE  /\ create[c] \in Progress
           /\ create[c].pc = "resolve" => create[c] \in Resolves
           /\ create[c].pc = "submit" => create[c] \in Submits
           /\ create[c].pc \in {"save", "rollback"} => create[c] \in Saves
           /\ NoCreate.pc = "idle" /\ NoCreate \in Progress
<1>1. create[c] \in Resolves \union Submits \union Saves \union {NoCreate}
  BY DEF TypeOK
<1>2. NoCreate.pc = "idle"
  BY DEF NoCreate
<1> QED
  BY <1>1, <1>2 DEF Resolves, Submits, Saves, Progress

\* Moving one call on leaves the others.
LEMMA AdvanceTypes ==
    ASSUME TypeOK, NEW c \in Creators, NEW next \in Progress, Advance(c, next)
    PROVE  create' \in [Creators -> Progress] /\ create'[c] = next
           /\ \A d \in Creators \ {c} : create'[d] = create[d]
BY DEF TypeOK, Advance, Progress

-----------------------------------------------------------------------------
(* The invariant *)

\* A step that leaves bots and runs alone and moves one call of Create to a state
\* that picked at one moment keeps the invariant.
LEMMA CreateMoves ==
    ASSUME IInv, NEW c \in Creators, NEW next \in Progress, Advance(c, next), PicksOneMoment(next),
           UNCHANGED <<bots, issued, scope, tx>>,
           runs' \in [RunIds -> {"none", "queued", "taken", "canceled"}],
           requests' \subseteq RequestIds,
           refused' \subseteq RunIds
    PROVE  IInv'
<1>1. create' \in [Creators -> Progress] /\ create'[c] = next
      /\ \A d \in Creators \ {c} : create'[d] = create[d]
  BY AdvanceTypes DEF IInv
<1>2. TypeOK'
  BY <1>1 DEF IInv, TypeOK, Progress
<1>3. \A d \in Creators : PicksOneMoment(create'[d])
  BY <1>1 DEF IInv
<1>4. \A e \in Editors : SnapshotHolds(tx[e])'
  BY DEF IInv, SnapshotHolds
<1> QED
  BY <1>2, <1>3, <1>4 DEF IInv, PicksOneMoment

\* Writing the table of bots is remembered by the selections in progress.
LEMMA WriteKeepsInv ==
    ASSUME IInv, NEW rows \in Tables, WriteBots(rows), Ages(bots, rows),
           issued' \in Nat, UNCHANGED <<scope, runs, requests, refused>>,
           tx' \in [Editors -> Revisions \union {NoTx}],
           \A e \in Editors : tx'[e] = tx[e] \/ tx'[e] = NoTx
    PROVE  IInv'
<1>1. \A c \in Creators :
        create'[c] = IF Selecting(c) THEN [create[c] EXCEPT !.seen = @ \union {rows}] ELSE create[c]
  BY DEF WriteBots
<1>2. ASSUME NEW c \in Creators PROVE create'[c] \in Progress /\ PicksOneMoment(create'[c])
  <2>1. PicksOneMoment(create[c])
    BY DEF IInv
  <2>2. CASE create[c].pc = "resolve"
    <3>1. create[c] \in Resolves
      BY <2>2, CreateTypes DEF IInv
    <3>2. create'[c] = [create[c] EXCEPT !.seen = @ \union {rows}]
      BY <1>1, <2>2 DEF Selecting
    <3>3. /\ create'[c] \in Resolves
          /\ create'[c].pc = "resolve" /\ create'[c].view = create[c].view
          /\ create'[c].chosen = create[c].chosen /\ create[c].seen \subseteq create'[c].seen
      BY <3>1, <3>2 DEF Resolves
    <3> QED
      BY <2>1, <2>2, <3>3 DEF PicksOneMoment, Progress
  <2>3. CASE create[c].pc = "submit"
    <3>1. create[c] \in Submits
      BY <2>3, CreateTypes DEF IInv
    <3>2. create'[c] = [create[c] EXCEPT !.seen = @ \union {rows}]
      BY <1>1, <2>3 DEF Selecting
    <3>3. /\ create'[c] \in Submits
          /\ create'[c].pc = "submit"
          /\ create'[c].chosen = create[c].chosen /\ create[c].seen \subseteq create'[c].seen
      BY <3>1, <3>2 DEF Submits
    <3> QED
      BY <2>1, <2>3, <3>3 DEF PicksOneMoment, Progress
  <2>4. CASE create[c].pc \notin {"resolve", "submit"}
    BY <1>1, <2>1, <2>4, CreateTypes DEF Selecting, IInv
  <2> QED
    BY <2>2, <2>3, <2>4
<1>3. bots' = rows /\ create' \in [Creators -> Progress]
  BY <1>2 DEF WriteBots
<1>4. TypeOK'
  BY <1>3 DEF IInv, TypeOK, Progress
<1>5. \A e \in Editors : SnapshotHolds(tx[e])'
  <2> SUFFICES ASSUME NEW e \in Editors, tx'[e] # NoTx
               PROVE  Ages(tx'[e].view, rows) /\ (tx'[e].pc = "locked" => tx'[e].scope = scope')
      BY <1>3 DEF SnapshotHolds
  <2>1. tx'[e] = tx[e]
    OBVIOUS
  <2>2. Ages(tx[e].view, bots) /\ (tx[e].pc = "locked" => tx[e].scope = scope)
    BY <2>1 DEF IInv, SnapshotHolds
  <2>3. Ages(tx[e].view, rows)
    BY <2>2 DEF Ages
  <2> QED
    BY <2>1, <2>2, <2>3
<1> QED
  BY <1>2, <1>4, <1>5 DEF IInv, PicksOneMoment

\* Ending a transaction frees its editor only.
LEMMA EndTypes ==
    ASSUME TypeOK, NEW e \in Editors, EndTx(e)
    PROVE  /\ tx' \in [Editors -> Revisions \union {NoTx}]
           /\ \A f \in Editors : tx'[f] = tx[f] \/ tx'[f] = NoTx
BY DEF TypeOK, EndTx

\* Revisions are numbered by naturals.
LEMMA IssuedTypes == TypeOK => issued + 1 \in Nat
<1>1. TypeOK => issued \in Nat
  BY DEF TypeOK
<1> QED
  BY <1>1

\* A new bot takes a fresh row.
LEMMA NewBotAges ==
    ASSUME IInv, NEW e \in Editors, NEW name \in Names, NEW b \in BotIds, CommitNewBot(e, name, b)
    PROVE  /\ bots' \in Tables /\ Ages(bots, bots') /\ WriteBots(bots') /\ issued' \in Nat
           /\ tx[e].owner \in Owners
           /\ IsActive(bots', b) /\ bots'[b].owner = tx[e].owner
           /\ \A d \in BotIds \ {b} : bots'[d] = bots[d]
<1>1. tx[e] \in Revisions
  BY TxTypes DEF CommitNewBot, IInv
<1>2. tx[e].owner \in Owners
  BY <1>1 DEF Revisions
<1>3. PICK row \in BotRows : /\ row.owner = tx[e].owner /\ row.state = "active"
                             /\ WriteBots([bots EXCEPT ![b] = row])
  <2> DEFINE row == Bot(tx[e].owner, name, "active", issued + 1)
  <2>1. row \in BotRows /\ row.owner = tx[e].owner /\ row.state = "active"
    BY <1>2, IssuedTypes, RowTypes DEF IInv
  <2>2. WriteBots([bots EXCEPT ![b] = row])
    BY DEF CommitNewBot
  <2> HIDE DEF row
  <2> QED
    BY <2>1, <2>2
<1>4. bots' = [bots EXCEPT ![b] = row]
  BY <1>3 DEF WriteBots
<1>5. bots' \in Tables /\ bots'[b] = row /\ \A d \in BotIds \ {b} : bots'[d] = bots[d]
  BY <1>4 DEF IInv, TypeOK, Tables
<1>6. row # NoBot
  BY RowTypes
<1>7. Ages(bots, bots')
  BY <1>5 DEF Ages, Exists, CommitNewBot
<1>8. issued' \in Nat
  BY IssuedTypes DEF CommitNewBot, IInv
<1> QED
  BY <1>2, <1>3, <1>4, <1>5, <1>6, <1>7, <1>8 DEF IsActive, Exists

\* A new revision is of a bot that is still active: its row is the one of the
\* snapshot, where it was.
LEMMA RevisionAges ==
    ASSUME IInv, NEW e \in Editors, CommitRevision(e)
    PROVE  /\ bots' \in Tables /\ Ages(bots, bots') /\ WriteBots(bots') /\ issued' \in Nat
           /\ \A b \in BotIds : IsActive(bots', b) => IsActive(bots, b) /\ bots'[b].owner = bots[b].owner
<1> DEFINE b == tx[e].target
<1>1. b \in BotIds /\ bots[b] = tx[e].view[b] /\ bots[b] # NoBot /\ bots[b].state = "active"
  BY DEF CommitRevision, RowIsStale, IsActive, Exists
<1>2. bots[b] \in BotRows
  BY <1>1 DEF IInv, TypeOK, Tables
<1>3. issued + 1 \in Nat
  BY IssuedTypes DEF IInv
<1>4. PICK row \in BotRows : /\ row.owner = bots[b].owner /\ row.state = bots[b].state
                             /\ row = [bots[b] EXCEPT !.revision = issued + 1]
  BY <1>2, <1>3, RowTypes
<1>5. WriteBots([bots EXCEPT ![b] = row])
  BY <1>1, <1>4, Zenon DEF CommitRevision
<1>6. bots' = [bots EXCEPT ![b] = row]
  BY <1>5 DEF WriteBots
<1>7. bots' \in Tables /\ bots'[b] = row /\ \A d \in BotIds \ {b} : bots'[d] = bots[d]
  BY <1>1, <1>6 DEF IInv, TypeOK, Tables
<1>8. row # NoBot
  BY RowTypes
<1>9. Ages(bots, bots')
  BY <1>1, <1>4, <1>7, <1>8 DEF Ages, Exists
<1>10. issued' \in Nat
  BY <1>3 DEF CommitRevision
<1> QED
  BY <1>1, <1>4, <1>5, <1>6, <1>7, <1>9, <1>10 DEF IsActive, Exists

\* Retiring a retired bot changes nothing.
LEMMA RetireAges ==
    ASSUME IInv, NEW owner \in Owners, NEW b \in BotIds, Retire(owner, b)
    PROVE  /\ bots' \in Tables /\ Ages(bots, bots') /\ WriteBots(bots')
           /\ \A d \in BotIds : IsActive(bots', d) => IsActive(bots, d) /\ bots'[d].owner = bots[d].owner
<1>1. bots[b] \in BotRows
  BY DEF Retire, Exists, IInv, TypeOK, Tables
<1>2. PICK row \in BotRows : /\ row.owner = bots[b].owner
                             /\ row = [bots[b] EXCEPT !.state = "retired"]
                             /\ row.state = "retired"
                             /\ bots[b].state = "retired" => row = bots[b]
  BY <1>1, RowTypes
<1>3. WriteBots([bots EXCEPT ![b] = row])
  <2>1. WriteBots([bots EXCEPT ![b] = [bots[b] EXCEPT !.state = "retired"]])
    BY Zenon DEF Retire
  <2> QED
    BY <1>2, <2>1, Zenon
<1>4. bots' = [bots EXCEPT ![b] = row]
  BY <1>3 DEF WriteBots
<1>5. bots' \in Tables /\ bots'[b] = row /\ \A d \in BotIds \ {b} : bots'[d] = bots[d]
  BY <1>4 DEF IInv, TypeOK, Tables
<1>6. row # NoBot /\ row.state = "retired"
  BY <1>2, RowTypes
<1>7. Ages(bots, bots')
  BY <1>2, <1>5, <1>6 DEF Ages, Exists
<1> QED
  BY <1>3, <1>4, <1>5, <1>6, <1>7 DEF IsActive, Exists

\* What every step does to the table of bots: it ages, and only the commit of a new
\* bot makes one active.
LEMMA BotsStep ==
    ASSUME IInv, [Next]_vars
    PROVE  /\ Ages(bots, bots')
           /\ \/ \A b \in BotIds : IsActive(bots', b) => IsActive(bots, b) /\ bots'[b].owner = bots[b].owner
              \/ \E e \in Editors, name \in Names, b \in BotIds : CommitNewBot(e, name, b)
<1>1. CASE UNCHANGED bots
  BY <1>1 DEF Ages
<1>2. ASSUME NEW e \in Editors, NEW name \in Names, NEW b \in BotIds, CommitNewBot(e, name, b)
      PROVE  Ages(bots, bots')
  BY <1>2, NewBotAges
<1>3. ASSUME NEW e \in Editors, Revising(e)
      PROVE  \/ UNCHANGED bots \/ CommitRevision(e)
             \/ \E name \in Names, b \in BotIds : CommitNewBot(e, name, b)
  BY <1>3 DEF Revising, BeginRevision, LockScope, RollbackRevision, store
<1>4. ASSUME NEW c \in Creators, Creating(c) PROVE UNCHANGED bots
  BY <1>4 DEF Creating, BeginCreate, BeginLegacyCreate, ResolveEligible, RefuseCreate, Submit, SaveRequest,
              RollbackSubmission, RollbackFails, store
<1>5. UNCHANGED vars \/ Crash \/ (\E r \in RunIds : TakeRun(r)) \/ (\E limit \in 1 .. MaxLimit : SaveScope(limit))
        => UNCHANGED bots
  BY DEF vars, Crash, TakeRun, SaveScope, store
<1> QED
  BY <1>1, <1>2, <1>3, <1>4, <1>5, RevisionAges, RetireAges DEF Next

\* The transactions of POST /bots/revisions.
LEMMA RevisingKeepsInv ==
    ASSUME IInv, NEW e \in Editors, Revising(e)
    PROVE  IInv'
<1>1. ASSUME NEW t \in Revisions \union {NoTx}, tx' = [tx EXCEPT ![e] = t], SnapshotHolds(t),
             UNCHANGED <<bots, issued, scope, create, runs, requests, refused>>
      PROVE  IInv'
  <2>1. tx' \in [Editors -> Revisions \union {NoTx}] /\ tx'[e] = t /\ \A f \in Editors \ {e} : tx'[f] = tx[f]
    BY <1>1 DEF IInv, TypeOK
  <2>2. TypeOK'
    BY <1>1, <2>1 DEF IInv, TypeOK
  <2>3. \A f \in Editors : SnapshotHolds(tx[f])'
    BY <1>1, <2>1 DEF IInv, SnapshotHolds
  <2> QED
    BY <1>1, <2>2, <2>3 DEF IInv, PicksOneMoment
<1>2. ASSUME NEW owner \in Owners, NEW target \in BotIds \union {"new"}, BeginRevision(e, owner, target)
      PROVE  IInv'
  <2> DEFINE t == [pc |-> "begun", owner |-> owner, target |-> target, view |-> bots, scope |-> scope]
  <2>1. t \in Revisions /\ t.pc = "begun" /\ t.view = bots
    BY DEF Revisions, IInv, TypeOK
  <2>2. tx' = [tx EXCEPT ![e] = t] /\ UNCHANGED <<bots, issued, scope, create, runs, requests, refused>>
    BY <1>2 DEF BeginRevision, store
  <2> HIDE DEF t
  <2>3. PICK u : u = t
    OBVIOUS
  <2>4. SnapshotHolds(u)
    BY <2>1, <2>3 DEF SnapshotHolds, Ages
  <2> QED
    BY <1>1, <2>1, <2>2, <2>3, <2>4
<1>3. CASE LockScope(e)
  <2>1. tx[e] \in Revisions /\ Ages(tx[e].view, bots)
    BY <1>3, TxTypes DEF LockScope, IInv, SnapshotHolds
  <2>2. UNCHANGED <<bots, issued, scope, create, runs, requests, refused>>
    BY <1>3 DEF LockScope, store
  <2>3. CASE tx[e].scope = scope
    <3>1. tx' = [tx EXCEPT ![e] = [tx[e] EXCEPT !.pc = "locked"]]
      BY <1>3, <2>3, Zenon DEF LockScope
    <3>2. PICK t : t = [tx[e] EXCEPT !.pc = "locked"]
      OBVIOUS
    <3>3. t \in Revisions /\ t.view = tx[e].view /\ t.scope = tx[e].scope
      BY <2>1, <3>2 DEF Revisions
    <3>4. SnapshotHolds(t)
      BY <2>1, <2>3, <3>3 DEF SnapshotHolds
    <3> QED
      BY <1>1, <2>2, <3>1, <3>2, <3>3, <3>4
  <2>4. CASE tx[e].scope # scope
    <3>1. tx' = [tx EXCEPT ![e] = NoTx]
      BY <1>3, <2>4, Zenon DEF LockScope
    <3> QED
      BY <1>1, <2>2, <3>1 DEF SnapshotHolds
  <2> QED
    BY <2>3, <2>4
<1>4. ASSUME NEW name \in Names, NEW b \in BotIds, CommitNewBot(e, name, b) PROVE IInv'
  <2>1. EndTx(e) /\ UNCHANGED <<scope, runs, requests, refused>>
    BY <1>4 DEF CommitNewBot
  <2> QED
    BY <1>4, <2>1, NewBotAges, EndTypes, WriteKeepsInv DEF IInv
<1>5. CASE CommitRevision(e)
  <2>1. EndTx(e) /\ UNCHANGED <<scope, runs, requests, refused>>
    BY <1>5 DEF CommitRevision
  <2> QED
    BY <1>5, <2>1, RevisionAges, EndTypes, WriteKeepsInv DEF IInv
<1>6. CASE RollbackRevision(e)
  BY <1>1, <1>6 DEF RollbackRevision, EndTx, SnapshotHolds, store
<1> QED
  BY <1>2, <1>3, <1>4, <1>5, <1>6 DEF Revising

\* The calls of POST /match-requests.
LEMMA CreatingKeepsInv ==
    ASSUME IInv, NEW c \in Creators, Creating(c)
    PROVE  IInv'
<1>0. bots \in Tables /\ runs \in [RunIds -> {"none", "queued", "taken", "canceled"}]
      /\ requests \subseteq RequestIds /\ refused \subseteq RunIds
  BY DEF IInv, TypeOK
<1>1. ASSUME NEW next \in Progress, Advance(c, next), PicksOneMoment(next),
             UNCHANGED <<bots, issued, scope, tx, runs, requests, refused>>
      PROVE  IInv'
  BY <1>0, <1>1, CreateMoves
<1>2. NoCreate \in Progress /\ PicksOneMoment(NoCreate)
  BY CreateTypes DEF PicksOneMoment, IInv
<1>3. ASSUME NEW id \in RequestIds, NEW ids \in SUBSET BotIds, BeginCreate(c, id, ids) PROVE IInv'
  <2> DEFINE t == Resolving(id, ids)
  <2>1. t \in Resolves /\ t.view = bots /\ t.chosen = {} /\ t.seen = {bots} /\ t.pc = "resolve"
    BY <1>0 DEF Resolving, Resolves
  <2>2. t \in Progress /\ PicksOneMoment(t)
    BY <2>1 DEF Progress, PicksOneMoment, AllPicked
  <2> QED
    BY <1>1, <1>3, <2>2 DEF BeginCreate, store
<1>4. ASSUME NEW id \in RequestIds, BeginLegacyCreate(c, id) PROVE IInv'
  <2> DEFINE t == Resolved(id, {}, {bots})
  <2>1. t \in Submits /\ t.chosen = {} /\ t.seen = {bots} /\ t.pc = "submit"
    BY <1>0 DEF Resolved, Submits
  <2>2. t \in Progress /\ PicksOneMoment(t)
    BY <2>1 DEF Progress, PicksOneMoment, AllPicked
  <2> QED
    BY <1>1, <1>4, <2>2 DEF BeginLegacyCreate, store
<1>5. ASSUME NEW b \in BotIds, ResolveEligible(c, b) PROVE IInv'
  <2>1. PICK t : t = create[c]
    OBVIOUS
  <2>2. t \in Resolves /\ t.pc = "resolve" /\ t.view \in t.seen /\ AllPicked(t.chosen, t.view)
    BY <1>5, <2>1, CreateTypes DEF ResolveEligible, IInv, PicksOneMoment
  <2>3. IsActive(t.view, b)
    BY <1>5, <2>1 DEF ResolveEligible, View
  <2> DEFINE pick == Selected(t, b)
             chosen == t.chosen \union {pick}
  <2>4. pick \in Picks /\ pick.bot = b /\ pick.revision = t.view[b].revision
    <3>1. t.view[b] \in BotRows
      BY <2>2, <2>3 DEF Resolves, Tables, IsActive, Exists
    <3>2. t.view[b].revision \in Nat
      BY <3>1 DEF BotRows
    <3> QED
      BY <3>2 DEF Selected, View, Picks
  <2>5. AllPicked(chosen, t.view) /\ chosen \subseteq Picks
    <3> HIDE DEF pick
    <3> QED
      BY <2>2, <2>3, <2>4 DEF AllPicked, Resolves
  <2>6. t.id \in RequestIds /\ t.seen \subseteq Tables /\ t.todo \subseteq BotIds /\ t.view \in Tables
    BY <2>2 DEF Resolves
  <2> HIDE DEF pick, chosen
  <2>7. Resolved(t.id, chosen, t.seen) \in Progress /\ PicksOneMoment(Resolved(t.id, chosen, t.seen))
    BY <2>2, <2>5, <2>6 DEF Resolved, Submits, Progress, PicksOneMoment
  <2> DEFINE next == [t EXCEPT !.todo = @ \ {b}, !.chosen = chosen]
  <2>8. /\ next \in Resolves /\ next.pc = "resolve" /\ next.view = t.view /\ next.seen = t.seen
        /\ next.chosen = chosen
    BY <2>2, <2>5, <2>6 DEF Resolves
  <2>9. Advance(c, Resolved(t.id, chosen, t.seen)) \/ Advance(c, next)
    BY <1>5, <2>1, Zenon DEF ResolveEligible, chosen, pick
  <2> HIDE DEF next
  <2>10. next \in Progress /\ PicksOneMoment(next)
    BY <2>2, <2>5, <2>8 DEF Progress, PicksOneMoment
  <2> QED
    BY <1>1, <1>5, <2>7, <2>9, <2>10 DEF ResolveEligible, store
<1>6. CASE RefuseCreate(c)
  BY <1>1, <1>2, <1>6 DEF RefuseCreate, store
<1>7. ASSUME NEW r \in RunIds, Submit(c, r) PROVE IInv'
  <2>1. create[c].id \in RequestIds
    BY <1>7, CreateTypes DEF Submit, IInv, Submits
  <2> DEFINE t == Submitted(create[c].id, r)
  <2>2. t \in Progress /\ t.pc = "save"
    BY <2>1 DEF Submitted, Saves, Progress
  <2>3. Advance(c, t) /\ UNCHANGED <<bots, issued, scope, tx, requests, refused>>
        /\ runs[r] = "none" /\ runs' = [runs EXCEPT ![r] = "queued"]
    BY <1>7 DEF Submit, store
  <2> HIDE DEF t
  <2>4. PicksOneMoment(t)
    BY <2>2 DEF PicksOneMoment
  <2> QED
    BY <1>0, <2>2, <2>3, <2>4, CreateMoves
<1>8. CASE SaveRequest(c)
  <2>1. PICK t : t = create[c]
    OBVIOUS
  <2>2. t \in Saves
    BY <1>8, <2>1, CreateTypes DEF SaveRequest, IInv
  <2> DEFINE next == [t EXCEPT !.pc = "rollback"]
  <2>3. next \in Progress /\ next.pc = "rollback"
    BY <2>2 DEF Saves, Progress
  <2>4. Advance(c, next) \/ Advance(c, NoCreate)
    BY <1>8, <2>1, Zenon DEF SaveRequest
  <2> HIDE DEF next
  <2>5. PicksOneMoment(next)
    BY <2>3 DEF PicksOneMoment
  <2>6. UNCHANGED <<bots, issued, scope, tx, runs, refused>> /\ requests' \subseteq RequestIds
    BY <1>0, <1>8, <2>1, <2>2 DEF SaveRequest, store, Saves
  <2> QED
    BY <1>0, <1>2, <2>3, <2>4, <2>5, <2>6, CreateMoves
<1>9. CASE RollbackSubmission(c) \/ RollbackFails(c)
  <2>1. PICK r : r = create[c].run
    OBVIOUS
  <2>2. r \in RunIds
    BY <1>9, <2>1, CreateTypes DEF RollbackSubmission, RollbackFails, IInv, Saves
  <2>3. Advance(c, NoCreate) /\ UNCHANGED <<bots, issued, scope, tx, requests>>
    BY <1>9 DEF RollbackSubmission, RollbackFails, Refuse, store
  <2>4. refused' = refused \union {r} /\ (runs' = [runs EXCEPT ![r] = "canceled"] \/ runs' = runs)
    BY <1>9, <2>1 DEF RollbackSubmission, RollbackFails, Refuse
  <2>5. refused' \subseteq RunIds /\ runs' \in [RunIds -> {"none", "queued", "taken", "canceled"}]
    BY <1>0, <2>2, <2>4
  <2> QED
    BY <1>0, <1>2, <2>3, <2>5, CreateMoves
<1> QED
  BY <1>3, <1>4, <1>5, <1>6, <1>7, <1>8, <1>9 DEF Creating

\* The service starts without bots, calls and runs.
LEMMA InvInit == Init => IInv
<1> SUFFICES ASSUME Init PROVE IInv
    OBVIOUS
<1>1. PICK limit \in 1 .. MaxLimit : scope = [limit |-> limit, writes |-> 0]
  BY DEF Init
<1>2. scope \in ScopeRows
  BY <1>1, BoundsAssumption DEF ScopeRows
<1>3. bots \in Tables
  BY DEF Init, Tables
<1>4. TypeOK
  BY <1>2, <1>3 DEF Init, TypeOK
<1>5. \A c \in Creators : PicksOneMoment(create[c])
  BY DEF Init, PicksOneMoment, NoCreate
<1>6. \A e \in Editors : SnapshotHolds(tx[e])
  BY DEF Init, SnapshotHolds
<1> QED
  BY <1>4, <1>5, <1>6 DEF IInv, Init

\* Every step keeps the invariant.
LEMMA InvStep == IInv /\ [Next]_vars => IInv'
<1> SUFFICES ASSUME IInv, [Next]_vars PROVE IInv'
    OBVIOUS
<1>0. tx \in [Editors -> Revisions \union {NoTx}] /\ issued \in Nat
  BY DEF IInv, TypeOK
<1>1. ASSUME NEW owner \in Owners, NEW b \in BotIds, Retire(owner, b) PROVE IInv'
  <2>1. UNCHANGED <<issued, scope, tx, runs, requests, refused>>
    BY <1>1 DEF Retire
  <2> QED
    BY <1>0, <1>1, <2>1, RetireAges, WriteKeepsInv
<1>2. ASSUME NEW limit \in 1 .. MaxLimit, SaveScope(limit) PROVE IInv'
  <2>1. scope.writes \in Nat
    BY DEF IInv, TypeOK, ScopeRows
  <2>2. [limit |-> limit, writes |-> scope.writes + 1] \in ScopeRows
    BY <2>1, BoundsAssumption DEF ScopeRows
  <2>3. scope' \in ScopeRows /\ UNCHANGED <<bots, issued, tx, create, runs, requests, refused>>
    BY <1>2, <2>2 DEF SaveScope
  <2>4. TypeOK'
    BY <2>3 DEF IInv, TypeOK
  <2>5. \A e \in Editors : tx[e].pc # "locked"
    BY <1>2 DEF SaveScope, ScopeLocked
  <2>6. \A e \in Editors : SnapshotHolds(tx[e])'
    BY <2>3, <2>5 DEF IInv, SnapshotHolds
  <2> QED
    BY <2>3, <2>4, <2>6 DEF IInv, PicksOneMoment
<1>3. ASSUME NEW r \in RunIds, TakeRun(r) PROVE IInv'
  <2>1. /\ runs[r] = "queued" /\ runs' = [runs EXCEPT ![r] = "taken"]
        /\ UNCHANGED <<bots, issued, scope, tx, create, requests, refused>>
    BY <1>3 DEF TakeRun, store
  <2>2. TypeOK'
    BY <2>1 DEF IInv, TypeOK
  <2> QED
    BY <2>1, <2>2 DEF IInv, PicksOneMoment, SnapshotHolds
<1>4. CASE Crash
  <2>1. /\ tx' = [e \in Editors |-> NoTx] /\ create' = [c \in Creators |-> NoCreate] /\ requests' = {}
        /\ UNCHANGED <<bots, issued, scope, runs, refused>>
    BY <1>4 DEF Crash, store
  <2>2. TypeOK'
    BY <2>1 DEF IInv, TypeOK
  <2>3. \A c \in Creators : PicksOneMoment(create'[c])
    BY <2>1 DEF PicksOneMoment, NoCreate
  <2>4. \A e \in Editors : SnapshotHolds(tx[e])'
    BY <2>1 DEF SnapshotHolds
  <2> QED
    BY <2>1, <2>2, <2>3, <2>4 DEF IInv, PicksOneMoment
<1>5. CASE UNCHANGED vars
  BY <1>5 DEF vars, IInv, TypeOK, PicksOneMoment, SnapshotHolds
<1> QED
  BY <1>1, <1>2, <1>3, <1>4, <1>5, RevisingKeepsInv, CreatingKeepsInv DEF Next

\* The invariant holds in every reachable state.
LEMMA Invariant == Spec => []IInv
BY InvInit, InvStep, PTL DEF Spec

\* A commit of a new bot counted every bot that is active in the end, except its own.
LEMMA QuotaStep ==
    ASSUME IInv, [Next]_vars, NEW owner \in Owners,
           ~(ActiveBots(bots', owner) \subseteq ActiveBots(bots, owner))
    PROVE  Cardinality(ActiveBots(bots', owner)) <= scope'.limit
<1>1. PICK e \in Editors, name \in Names, b \in BotIds : CommitNewBot(e, name, b)
  BY BotsStep DEF ActiveBots
<1>2. /\ tx[e] \in Revisions /\ tx[e].pc = "locked" /\ tx[e] # NoTx
      /\ Cardinality(ActiveBots(tx[e].view, tx[e].owner)) < tx[e].scope.limit
      /\ ~CountIsStale(tx[e])
      /\ scope' = scope
  BY <1>1, TxTypes DEF CommitNewBot, IInv
<1>3. /\ bots'[b].owner = tx[e].owner
      /\ \A d \in BotIds \ {b} : bots'[d] = bots[d]
  BY <1>1, NewBotAges
<1>4. tx[e].owner = owner
  BY <1>3 DEF ActiveBots, IsActive, Exists
<1> DEFINE old == ActiveBots(tx[e].view, owner)
<1>5. ActiveBots(bots', owner) \subseteq old \union {b}
  <2> SUFFICES ASSUME NEW d \in BotIds, d # b, IsActive(bots, d), bots[d].owner = owner
               PROVE  IsActive(tx[e].view, d) /\ tx[e].view[d].owner = owner
      BY <1>3 DEF ActiveBots, IsActive, Exists
  <2>1. Exists(tx[e].view, d)
    BY <1>2, <1>4 DEF CountIsStale, IsActive
  <2>2. tx[e].view[d].owner = owner /\ (tx[e].view[d].state = "retired" => bots[d] = tx[e].view[d])
    BY <1>2, <2>1 DEF IInv, SnapshotHolds, Ages
  <2>3. tx[e].view[d].state \in {"active", "retired"}
    <3>1. tx[e].view[d] \in BotRows
      BY <1>2, <2>1 DEF Revisions, Tables, Exists
    <3> QED
      BY <3>1 DEF BotRows
  <2> QED
    BY <2>1, <2>2, <2>3 DEF IsActive
<1>6. IsFiniteSet(old)
  <2>1. IsFiniteSet(BotIds)
    BY BoundsAssumption
  <2>2. old \subseteq BotIds
    BY DEF ActiveBots
  <2> HIDE DEF old
  <2> QED
    BY <2>1, <2>2, FS_Subset
<1>7. Cardinality(old \union {b}) <= Cardinality(old) + 1 /\ IsFiniteSet(old \union {b}) /\ Cardinality(old) \in Nat
  <2>1. Cardinality(old) \in Nat
    BY <1>6, FS_CardinalityType
  <2> HIDE DEF old
  <2>2. /\ IsFiniteSet(old \union {b})
        /\ Cardinality(old \union {b}) = IF b \in old THEN Cardinality(old) ELSE Cardinality(old) + 1
    BY <1>6, FS_AddElement, Zenon
  <2> QED
    BY <2>1, <2>2
<1>8. /\ Cardinality(ActiveBots(bots', owner)) <= Cardinality(old \union {b})
      /\ IsFiniteSet(ActiveBots(bots', owner))
  BY <1>5, <1>7, FS_Subset
<1>9. Cardinality(ActiveBots(bots', owner)) \in Nat /\ Cardinality(old \union {b}) \in Nat
  BY <1>7, <1>8, FS_CardinalityType
<1>10. scope.limit \in Nat /\ Cardinality(old) < scope.limit
  <2>1. tx[e].scope = scope
    BY <1>2 DEF IInv, SnapshotHolds
  <2>2. scope.limit \in Nat
    BY DEF IInv, TypeOK, ScopeRows
  <2> QED
    BY <1>2, <1>4, <2>1, <2>2
<1> HIDE DEF old
<1> QED
  BY <1>2, <1>7, <1>8, <1>9, <1>10

-----------------------------------------------------------------------------
(* Theorems *)

\* Every variable keeps its declared type.
THEOREM TypeCorrect == Spec => []TypeOK
BY Invariant, PTL DEF IInv

\* No interleaving of transactions, retirements and changes of the limit gives an
\* owner a new active bot beyond the limit in force.
THEOREM QuotaIsKept == Spec => QuotaOnCreate
<1>1. IInv /\ [Next]_vars
        => [\A owner \in Owners :
              ~(ActiveBots(bots', owner) \subseteq ActiveBots(bots, owner))
                 => Cardinality(ActiveBots(bots', owner)) <= scope'.limit]_vars
  BY QuotaStep
<1> QED
  BY <1>1, Invariant, PTL DEF Spec, QuotaOnCreate

\* A retired bot is never written again with something else.
THEOREM RetirementIsFinal == Spec => RetiredIsFrozen
<1>1. IInv /\ [Next]_vars
        => [\A b \in BotIds : Exists(bots, b) /\ bots[b].state = "retired" => bots'[b] = bots[b]]_vars
  BY BotsStep DEF Ages
<1> QED
  BY <1>1, Invariant, PTL DEF Spec, RetiredIsFrozen

\* The revisions that a run pins were active together at one moment of its request.
THEOREM PinsAreConsistent == Spec => []RunPinsOneMoment
<1>1. IInv => RunPinsOneMoment
  BY DEF IInv, PicksOneMoment, AllPicked, RunPinsOneMoment
<1> QED
  BY <1>1, Invariant, PTL
=============================================================================
