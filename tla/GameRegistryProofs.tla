-------------------------- MODULE GameRegistryProofs --------------------------
(***************************************************************************)
(* Theorems about GameRegistry, for any bundles, registrations and calls.  *)
(***************************************************************************)
EXTENDS GameRegistry, WellFoundedInduction, TLAPS

\* Releases have a latest one: the versions of a game are bounded, so the distance
\* to the bound has a least element.
LEMMA LatestIsRow ==
    ASSUME NEW rows, rows # {}, \A row \in rows : row.version \in 1 .. MaxVersion
    PROVE  Latest(rows) \in rows /\ \A other \in rows : Latest(rows).version >= other.version
<1> DEFINE less == {p \in Nat \X Nat : p[1] < p[2]}
           distances == {MaxVersion - row.version : row \in rows}
<1>1. IsWellFoundedOn(less, Nat)
  BY NatLessThanWellFounded DEF OpToRel
<1>2. distances \subseteq Nat /\ distances # {}
  BY VersionsAssumption
<1>3. PICK d \in distances : \A e \in distances : ~(<<e, d>> \in less)
  <2>1. PICK d0 : d0 \in distances
    BY <1>2
  <2> HIDE DEF less, distances
  <2> QED
    BY <1>1, <1>2, <2>1, WFMin
<1>4. PICK row \in rows : d = MaxVersion - row.version
  BY <1>3
<1>5. \A other \in rows : row.version >= other.version
  <2> SUFFICES ASSUME NEW other \in rows PROVE row.version >= other.version
      OBVIOUS
  <2>1. ~(<<MaxVersion - other.version, d>> \in less)
    BY <1>3
  <2>2. MaxVersion - other.version \in Nat /\ d \in Nat
    BY <1>2, <1>3
  <2>3. ~(MaxVersion - other.version < d)
    BY <2>1, <2>2
  <2> QED
    BY <1>4, <2>3, VersionsAssumption
<1> QED
  BY <1>5 DEF Latest

-----------------------------------------------------------------------------
(* Types *)

\* Versions are positive natural numbers.
LEMMA VersionTypes ==
    /\ \A v \in 1 .. MaxVersion : v \in Nat /\ v # 0
    /\ \A v \in 1 .. MaxVersion, w \in Nat : w >= v => w # 0
BY VersionsAssumption

Progress == Uploads \union Registrations \union Submissions \union {Idle}
ReleaseRows == [artifact : Artifacts, game : Games, version : 1 .. MaxVersion, complete : BOOLEAN]

\* What lookups answer, and the rows that registrations write, have their types.
LEMMA LookupTypes ==
    ASSUME TypeOK, NEW game
    PROVE  /\ Lookup(game).version \in Nat
           /\ Lookup(game) = Builtin \/ Lookup(game) = None \/ Lookup(game) = Failed
                \/ \E row \in releases : /\ row.complete /\ row.game = game
                                         /\ Lookup(game) = [artifact |-> row.artifact, version |-> row.version]
<1> DEFINE rows == {row \in releases : row.game = game}
<1>1. CASE (\E row \in rows : ~row.complete) \/ rows = {}
  <2>1. Lookup(game) = Failed \/ Lookup(game) = Builtin \/ Lookup(game) = None
    BY <1>1, Zenon DEF Lookup
  <2>2. Failed.version \in Nat /\ Builtin.version \in Nat /\ None.version \in Nat
    BY VersionsAssumption DEF Failed, Builtin, None
  <2> QED
    BY <2>1, <2>2
<1>2. CASE ~(\E row \in rows : ~row.complete) /\ rows # {}
  <2>1. Latest(rows) \in rows
    <3>1. \A row \in rows : row.version \in 1 .. MaxVersion
      BY DEF TypeOK
    <3> HIDE DEF rows
    <3> QED
      BY <1>2, <3>1, LatestIsRow
  <2>2. Lookup(game) = [artifact |-> Latest(rows).artifact, version |-> Latest(rows).version]
    BY <1>2 DEF Lookup
  <2>3. /\ Latest(rows) \in releases /\ Latest(rows).complete /\ Latest(rows).game = game
        /\ Latest(rows).version \in 1 .. MaxVersion
    BY <1>2, <2>1 DEF TypeOK
  <2> HIDE DEF rows
  <2> QED
    BY <2>2, <2>3, VersionsAssumption
<1> QED
  BY <1>1, <1>2

\* Moving one call to a state of its type keeps the type of them all.
LEMMA StepTypes ==
    ASSUME TypeOK, NEW c \in Calls, NEW state \in Progress, Step(c, state)
    PROVE  call' \in [Calls -> Progress] /\ call'[c] = state
           /\ \A e \in Calls \ {c} : call'[e] = call[e]
BY DEF TypeOK, Step, Progress

\* A call knows what it has begun.
LEMMA CallTypes ==
    ASSUME TypeOK, NEW c \in Calls
    PROVE  /\ call[c].pc \in {"put", "create", "write", "admit"} => call[c] \in Uploads
           /\ call[c].pc = "save" => call[c] \in Registrations
           /\ call[c].pc = "submit" => call[c] \in Submissions
           /\ Idle \in Progress
<1>1. call[c] \in Uploads \union Registrations \union Submissions \union {Idle}
  BY DEF TypeOK
<1>2. Idle.pc = "idle"
  BY DEF Idle
<1> QED
  BY <1>1, <1>2 DEF Uploads, Registrations, Submissions, Progress

\* A bundle is of a game; its descriptor row has the type of the table.
LEMMA BundleTypes ==
    ASSUME NEW d \in Bundles, NEW complete \in BOOLEAN
    PROVE  BundleRow(d, complete) \in ReleaseRows /\ BundleRow(d, complete).artifact = d
           /\ BundleRow(d, complete).complete = complete
BY ManifestAssumption DEF BundleRow, ReleaseRows, Artifacts, Games

\* The service starts with the declared types.
LEMMA TypeInit == Init => TypeOK
<1> SUFFICES ASSUME Init PROVE TypeOK
    OBVIOUS
<1>1. PICK old \in SUBSET {d \in Bundles : IsGame(d)} :
        /\ releases = {BundleRow(d, FALSE) : d \in old}
        /\ file = [d \in Bundles |-> IF d \in old THEN "stored" ELSE "absent"]
  BY DEF Init
<1>2. releases \subseteq ReleaseRows
  BY <1>1, BundleTypes
<1>3. file \in [Bundles -> {"absent", "partial", "stored", "torn"}]
  BY <1>1
<1>4. served \in [Games -> Nat]
  BY VersionsAssumption DEF Init
<1> QED
  BY <1>2, <1>3, <1>4 DEF Init, TypeOK, ReleaseRows

\* A lookup serves the game a version of the type.
LEMMA ServeTypes ==
    ASSUME TypeOK, NEW game, Serve(game) \/ UNCHANGED served
    PROVE  served' \in [Games -> Nat]
<1>1. served \in [Games -> Nat]
  BY DEF TypeOK
<1>2. Found(Lookup(game)) => Lookup(game).version \in Nat
  BY LookupTypes
<1> QED
  BY <1>1, <1>2 DEF Serve

\* A lookup answers a value of the type.
LEMMA AnswerTypes ==
    ASSUME TypeOK, NEW game, \A row \in releases : row.complete => row.artifact \in Bundles
    PROVE  Lookup(game) \in Answers /\ Failed \in Answers /\ None \in Answers
<1>1. Builtin \in Answers /\ None \in Answers /\ Failed \in Answers
  <2>1. \A a \in Bundles \union {"", "none", "failed"} : [artifact |-> a, version |-> 0] \in Answers
    BY DEF Answers
  <2> QED
    BY <2>1, Zenon DEF Builtin, None, Failed
<1>2. CASE Lookup(game) = Builtin \/ Lookup(game) = None \/ Lookup(game) = Failed
  BY <1>1, <1>2
<1>3. CASE \E row \in releases : /\ row.complete /\ row.game = game
                                 /\ Lookup(game) = [artifact |-> row.artifact, version |-> row.version]
  <2>1. PICK row \in releases :
          row.complete /\ Lookup(game) = [artifact |-> row.artifact, version |-> row.version]
    BY <1>3
  <2>2. row.artifact \in Bundles
    BY <2>1
  <2>3. row.version \in 1 .. MaxVersion
    BY DEF TypeOK
  <2>4. row.version \in Nat
    BY <2>3, VersionTypes
  <2>5. [artifact |-> row.artifact, version |-> row.version] \in Answers
    BY <2>2, <2>4 DEF Answers
  <2> QED
    BY <1>1, <2>1, <2>5
<1> QED
  BY <1>1, <1>2, <1>3, LookupTypes

-----------------------------------------------------------------------------
(* The invariant *)

\* An admitted release names a bundle that was stored.
ReleasesStored == \A row \in releases : row.complete =>
    row.artifact \in Bundles /\ Kept(row.artifact)

AIsStored == \A ai \in ais : Kept(ai.artifact)

ScopesServable == \A s \in ScopeIds :
    scopes[s] # NoScope /\ scopes[s].artifact \in Bundles => LookupArtifact(scopes[s].artifact)

\* What a call is about to write is backed by what it has checked.
Backed(t) ==
    /\ t.pc = "admit" => Kept(t.bundle)
    /\ t.pc = "save" /\ t.artifact \in Bundles => LookupArtifact(t.artifact)

\* What a run pinned was admitted, for the game of the run.
RunBacked(run) == run # NoRun /\ run.pinned # "" =>
    LookupArtifact(run.pinned) /\ Manifest[run.pinned].game = run.game

IInv ==
    /\ TypeOK
    /\ ReleasesStored /\ AIsStored /\ ScopesServable
    /\ \A c \in Calls : Backed(call[c])
    /\ \A r \in RunIds : RunBacked(runs[r])

\* What was stored was stored, and releases stay admitted.
Grows == /\ \A d \in Bundles : Kept(d) => Kept(d)'
         /\ \A d \in Bundles : LookupArtifact(d) => LookupArtifact(d)'

\* What is backed stays backed while the store and the registry grow.
LEMMA BackedPersists ==
    ASSUME IInv, Grows
    PROVE  /\ \A c \in Calls : call'[c] = call[c] => Backed(call[c])'
           /\ \A r \in RunIds : runs'[r] = runs[r] => RunBacked(runs[r])'
           /\ ais' \subseteq ais => AIsStored'
           /\ UNCHANGED scopes => ScopesServable'
           /\ UNCHANGED releases => ReleasesStored'
<1>1. ASSUME NEW c \in Calls, call'[c] = call[c] PROVE Backed(call[c])'
  <2>1. call[c].pc = "admit" => call[c].bundle \in Bundles
    BY CallTypes DEF IInv, Uploads
  <2>2. Backed(call[c])
    BY DEF IInv
  <2> QED
    BY <1>1, <2>1, <2>2 DEF Backed, Grows
<1>2. ASSUME NEW r \in RunIds, runs'[r] = runs[r] PROVE RunBacked(runs[r])'
  <2>1. runs[r] # NoRun => runs[r].pinned \in Bundles \union {""}
    BY DEF IInv, TypeOK
  <2>2. RunBacked(runs[r])
    BY DEF IInv
  <2> QED
    BY <1>2, <2>1, <2>2 DEF RunBacked, Grows
<1>3. ais' \subseteq ais => AIsStored'
  <2>1. \A ai \in ais : ai.artifact \in Bundles
    BY DEF IInv, TypeOK
  <2> QED
    BY <2>1 DEF IInv, AIsStored, Grows
<1>4. UNCHANGED scopes => ScopesServable'
  BY DEF IInv, ScopesServable, Grows
<1>5. UNCHANGED releases => ReleasesStored'
  BY DEF IInv, ReleasesStored, Grows
<1> QED
  BY <1>1, <1>2, <1>3, <1>4, <1>5

\* A call that moves on without writing keeps the invariant, if what it moves on to
\* is backed.
LEMMA CallMoves ==
    ASSUME IInv, NEW c \in Calls, NEW state \in Progress, Step(c, state), Backed(state),
           UNCHANGED <<file, releases, scopes, ais, runs>>,
           \E game : Serve(game) \/ UNCHANGED served
    PROVE  IInv'
<1>1. call' \in [Calls -> Progress] /\ call'[c] = state /\ \A e \in Calls \ {c} : call'[e] = call[e]
  BY StepTypes DEF IInv
<1>2. Grows
  BY DEF Grows, LookupArtifact, Rows, Kept
<1>3. TypeOK'
  <2>1. served' \in [Games -> Nat]
    BY ServeTypes DEF IInv
  <2> QED
    BY <1>1, <2>1 DEF IInv, TypeOK, Progress
<1>4. \A e \in Calls : Backed(call[e])'
  <2>1. Backed(call[c])'
    BY <1>1 DEF Backed, LookupArtifact, Rows, Kept
  <2> QED
    BY <1>1, <1>2, <2>1, BackedPersists
<1> QED
  BY <1>2, <1>3, <1>4, BackedPersists DEF IInv

\* A call that writes keeps the invariant if what it wrote is in order and the
\* store and the registry only grew.
LEMMA CallWrites ==
    ASSUME IInv, TypeOK', Grows, NEW c \in Calls, NEW state \in Progress, Step(c, state), Backed(state)',
           ReleasesStored', AIsStored', ScopesServable', UNCHANGED runs
    PROVE  IInv'
<1>1. call'[c] = state /\ \A e \in Calls \ {c} : call'[e] = call[e]
  BY StepTypes DEF IInv
<1>2. Backed(call[c])'
  BY <1>1 DEF Backed
<1> QED
  BY <1>1, <1>2, BackedPersists DEF IInv

\* An upload keeps its bundle while it moves on.
LEMMA UploadTypes ==
    /\ \A t \in Uploads, pc \in {"put", "create", "write", "admit"} :
          LET u == [t EXCEPT !.pc = pc] IN u \in Progress /\ u.pc = pc /\ u.bundle = t.bundle
    /\ \A d \in Bundles, s \in ScopeIds \union {Unscoped} : Upload(d, s) \in Progress /\ Upload(d, s).pc = "put"
    /\ Idle \in Progress /\ Idle.pc = "idle"
BY DEF Uploads, Upload, Progress, Idle

\* Beginning an upload, and the steps of one that leave the store alone.
LEMMA UploadCalls ==
    ASSUME IInv, NEW c \in Calls,
           \/ \E d \in Bundles : BeginGameUpload(c, d)
           \/ \E d \in Bundles, s \in ScopeIds : BeginAIUpload(c, d, s)
           \/ ReuseFile(c) \/ FindNoFile(c) \/ WriteFails(c) \/ GiveUp(c)
    PROVE  IInv'
<1>0. Backed(Idle)
  BY DEF Backed, Idle
<1>1. ASSUME NEW d \in Bundles, NEW s \in ScopeIds \union {Unscoped}, Step(c, Upload(d, s)),
             UNCHANGED <<file, releases, scopes, ais, runs, served>>
      PROVE  IInv'
  <2>1. Upload(d, s) \in Progress /\ Backed(Upload(d, s))
    BY UploadTypes DEF Backed
  <2> QED
    BY <1>1, <2>1, CallMoves
<1>2. CASE ReuseFile(c)
  <2>1. call[c] \in Uploads
    BY <1>2, CallTypes DEF ReuseFile, IInv
  <2>2. CASE SameBytes(call[c].bundle)
    <3> DEFINE u == [call[c] EXCEPT !.pc = "admit"]
    <3>1. u \in Progress /\ u.pc = "admit" /\ u.bundle = call[c].bundle
      BY <2>1, UploadTypes
    <3>2. Step(c, u)
      BY <1>2, <2>2 DEF ReuseFile
    <3> HIDE DEF u
    <3>3. Backed(u)
      BY <2>2, <3>1 DEF Backed, SameBytes, Kept
    <3> QED
      BY <1>2, <3>1, <3>2, <3>3, CallMoves DEF ReuseFile
  <2>3. CASE ~SameBytes(call[c].bundle)
    BY <1>0, <1>2, <2>3, UploadTypes, CallMoves DEF ReuseFile
  <2> QED
    BY <2>2, <2>3
<1>3. CASE WriteFails(c) \/ GiveUp(c)
  BY <1>0, <1>3, UploadTypes, CallMoves DEF WriteFails, GiveUp, Return
<1>4. CASE FindNoFile(c)
  <2>1. call[c] \in Uploads
    BY <1>4, CallTypes DEF FindNoFile, IInv
  <2>2. PICK u \in Progress : u.pc = "create" /\ Step(c, u)
    BY <1>4, <2>1, UploadTypes DEF FindNoFile
  <2>3. Backed(u)
    BY <2>2 DEF Backed
  <2> QED
    BY <1>4, <2>2, <2>3, CallMoves DEF FindNoFile
<1> QED
  BY <1>1, <1>2, <1>3, <1>4 DEF BeginGameUpload, BeginAIUpload

\* Truncating and filling the file of a bundle leave what was stored stored, or torn.
LEMMA FileWrites ==
    ASSUME IInv, NEW c \in Calls, TruncateFile(c) \/ FillFile(c)
    PROVE  IInv'
<1> DEFINE t == call[c]
<1>1. t \in Uploads /\ t.bundle \in Bundles
  BY CallTypes DEF TruncateFile, FillFile, IInv, Uploads
<1>2. PICK pc \in {"write", "admit"} : Step(c, [t EXCEPT !.pc = pc]) /\ (pc = "admit" => file'[t.bundle] = "stored")
  <2>1. file \in [Bundles -> {"absent", "partial", "stored", "torn"}]
    BY DEF IInv, TypeOK
  <2>2. CASE TruncateFile(c)
    BY <2>2 DEF TruncateFile
  <2>3. CASE FillFile(c)
    <3>1. file'[t.bundle] = "stored" /\ Step(c, [t EXCEPT !.pc = "admit"])
      BY <1>1, <2>1, <2>3 DEF FillFile
    <3> QED
      BY <3>1
  <2> QED
    BY <2>2, <2>3
<1>3. PICK content \in {"partial", "stored", "torn"} :
        /\ file' = [file EXCEPT ![t.bundle] = content]
        /\ content = "partial" => ~Kept(t.bundle)
  BY <1>1 DEF TruncateFile, FillFile, IInv, TypeOK, Kept
<1>4. UNCHANGED <<releases, scopes, ais, runs, served>>
  BY DEF TruncateFile, FillFile
<1>5. Grows
  BY <1>1, <1>3, <1>4 DEF Grows, LookupArtifact, Rows, Kept, IInv, TypeOK
<1>6. PICK u \in Progress : Step(c, u) /\ u.pc = pc /\ u.bundle = t.bundle
  <2> DEFINE u == [t EXCEPT !.pc = pc]
  <2>1. u \in Progress /\ u.pc = pc /\ u.bundle = t.bundle
    BY <1>1 DEF Uploads, Progress
  <2> QED
    BY <1>2, <2>1
<1>8. TypeOK'
  <2>1. call' \in [Calls -> Progress]
    BY <1>6, StepTypes DEF IInv
  <2>2. file' \in [Bundles -> {"absent", "partial", "stored", "torn"}]
    BY <1>3 DEF IInv, TypeOK
  <2> QED
    BY <1>4, <2>1, <2>2 DEF IInv, TypeOK, Progress
<1>9. Backed(u)'
  BY <1>2, <1>6 DEF Backed, Kept
<1> QED
  BY <1>4, <1>5, <1>6, <1>8, <1>9, BackedPersists, CallWrites

\* A descriptor is registered for a bundle that is in the store, and takes the place
\* of the incomplete row of that bundle only.
LEMMA RegisterKeepsInv ==
    ASSUME IInv, NEW c \in Calls, Register(c)
    PROVE  IInv'
<1> DEFINE d == call[c].bundle
           row == BundleRow(d, TRUE)
<1>1. d \in Bundles /\ Kept(d)
  BY CallTypes DEF Register, IInv, Uploads, Backed
<1>2. row \in ReleaseRows /\ row.artifact = d /\ row.complete
  BY <1>1, BundleTypes
<1>3. releases' = (releases \ Rows(d)) \union {row}
  BY DEF Register
<1>4. Step(c, Idle) /\ UNCHANGED <<file, scopes, ais, runs, served>>
  BY DEF Register, Return
<1> HIDE DEF row
<1>5. Grows
  BY <1>2, <1>3, <1>4 DEF Grows, LookupArtifact, Rows, Kept
<1>6. TypeOK'
  <2>1. call' \in [Calls -> Progress]
    BY <1>4, UploadTypes, StepTypes DEF IInv
  <2>2. releases' \subseteq ReleaseRows
    BY <1>2, <1>3 DEF IInv, TypeOK, ReleaseRows
  <2> QED
    BY <1>4, <2>1, <2>2 DEF IInv, TypeOK, Progress, ReleaseRows
<1>7. ReleasesStored'
  BY <1>1, <1>2, <1>3, <1>4 DEF IInv, ReleasesStored, Kept
<1>8. Backed(Idle)'
  BY UploadTypes DEF Backed
<1> QED
  BY <1>4, <1>5, <1>6, <1>7, <1>8, UploadTypes, BackedPersists, CallWrites

\* An AI is saved once its bundle is in the store.
LEMMA SaveAIKeepsInv ==
    ASSUME IInv, NEW c \in Calls, SaveAI(c)
    PROVE  IInv'
<1> DEFINE ai == [scope |-> call[c].scope, artifact |-> call[c].bundle]
<1>1. call[c] \in Uploads /\ Kept(call[c].bundle)
  BY CallTypes DEF SaveAI, IInv, Backed
<1>2. ais' = ais \union {ai} /\ Step(c, Idle) /\ UNCHANGED <<file, releases, scopes, runs, served>>
  BY DEF SaveAI, Return
<1>3. ai.artifact = call[c].bundle /\ ai.artifact \in Bundles
  BY <1>1 DEF Uploads
<1>4. ai \in [scope : ScopeIds \union {Unscoped}, artifact : Bundles]
  BY <1>1, <1>3 DEF Uploads
<1> HIDE DEF ai
<1>5. Grows
  BY <1>2 DEF Grows, LookupArtifact, Rows, Kept
<1>6. TypeOK'
  <2>1. call' \in [Calls -> Progress]
    BY <1>2, UploadTypes, StepTypes DEF IInv
  <2> QED
    BY <1>2, <1>4, <2>1 DEF IInv, TypeOK, Progress
<1>7. AIsStored'
  BY <1>1, <1>2, <1>3 DEF IInv, AIsStored, Kept
<1>8. Backed(Idle)'
  BY UploadTypes DEF Backed
<1> QED
  BY <1>2, <1>5, <1>6, <1>7, <1>8, UploadTypes, BackedPersists, CallWrites

\* A registration has the type of its parts.
LEMMA RegistrationTypes ==
    ASSUME NEW id \in ScopeIds, NEW game \in Games, NEW ruleset \in Rulesets,
           NEW version \in 1 .. MaxVersion, NEW artifact \in Artifacts
    PROVE  LET t == Registration(id, game, ruleset, version, artifact)
           IN  t \in Progress /\ t.pc = "save" /\ t.artifact = artifact
BY DEF Registration, Registrations, Progress

\* The checks of a registration establish what its transaction relies on.
LEMMA RegistrationCalls ==
    ASSUME IInv, NEW c \in Calls,
           \/ \E d \in Bundles, ruleset \in Rulesets, id \in ScopeIds : RegisterArtifact(c, d, ruleset, id)
           \/ \E g \in Games, v \in Versions, ruleset \in Rulesets, id \in ScopeIds :
                 RegisterMetadata(c, g, v, ruleset, id)
    PROVE  IInv'
<1>1. ASSUME NEW d \in Bundles, NEW ruleset \in Rulesets, NEW id \in ScopeIds,
             RegisterArtifact(c, d, ruleset, id)
      PROVE  IInv'
  <2> DEFINE t == Registration(id, Manifest[d].game, ruleset, Manifest[d].version, d)
  <2>1. t \in Progress /\ t.pc = "save" /\ t.artifact = d
    BY RegistrationTypes, ManifestAssumption DEF Games, Artifacts
  <2>2. Step(c, t) /\ LookupArtifact(d) /\ UNCHANGED <<file, releases, scopes, ais, runs, served>>
    BY <1>1 DEF RegisterArtifact
  <2> HIDE DEF t
  <2>3. Backed(t)
    BY <2>1, <2>2 DEF Backed
  <2> QED
    BY <2>1, <2>2, <2>3, CallMoves
<1>2. ASSUME NEW g \in Games, NEW v \in Versions, NEW ruleset \in Rulesets, NEW id \in ScopeIds,
             RegisterMetadata(c, g, v, ruleset, id)
      PROVE  IInv'
  <2> DEFINE artifact == IF Lookup(g) = Builtin THEN <<"legacy", id>> ELSE Lookup(g).artifact
             t == Registration(id, g, ruleset, v, artifact)
  <2>1. artifact \in Artifacts /\ (artifact \in Bundles => LookupArtifact(artifact))
    <3>1. CASE Lookup(g) = Builtin
      BY <3>1, DigestAssumption DEF Artifacts
    <3>2. CASE Lookup(g) # Builtin
      <4>1. Lookup(g) # None /\ Lookup(g) # Failed
        BY <1>2 DEF RegisterMetadata, Found
      <4>2. PICK row \in releases :
              row.complete /\ Lookup(g) = [artifact |-> row.artifact, version |-> row.version]
        BY <3>2, <4>1, LookupTypes DEF IInv
      <4>3. Lookup(g).artifact = row.artifact
        BY <4>2
      <4>4. row.artifact \in Bundles /\ LookupArtifact(row.artifact)
        BY <4>2 DEF IInv, ReleasesStored, LookupArtifact, Rows
      <4> QED
        BY <3>2, <4>3, <4>4 DEF Artifacts
    <3> QED
      BY <3>1, <3>2
  <2>2. Step(c, t) /\ Serve(g) /\ UNCHANGED <<file, releases, scopes, ais, runs>>
    BY <1>2, Zenon DEF RegisterMetadata
  <2> HIDE DEF artifact
  <2>3. t \in Progress /\ t.pc = "save" /\ t.artifact = artifact
    BY <2>1, RegistrationTypes, VersionsAssumption
  <2> HIDE DEF t
  <2>4. Backed(t)
    BY <2>1, <2>3 DEF Backed
  <2> QED
    BY <2>2, <2>3, <2>4, CallMoves
<1> QED
  BY <1>1, <1>2

\* The transaction of a registration adds at most an incomplete release, and its
\* scope activates an admitted bundle or none.
LEMMA SaveKeepsInv ==
    ASSUME IInv, NEW c \in Calls, SaveRegistration(c)
    PROVE  IInv'
<1> DEFINE t == call[c]
<1>1. t \in Registrations /\ t.pc = "save" /\ Backed(t)
  BY CallTypes DEF SaveRegistration, IInv
<1>2. /\ t.id \in ScopeIds /\ t.game \in Games /\ t.ruleset \in Rulesets /\ t.artifact \in Artifacts
      /\ t.version \in 1 .. MaxVersion
  BY <1>1 DEF Registrations
<1>3. SavedRow(t) \in ReleaseRows /\ ~SavedRow(t).complete
  <2>1. CASE t.artifact \in Bundles
    BY <2>1, BundleTypes DEF SavedRow
  <2>2. CASE t.artifact \notin Bundles
    <3>1. <<"legacy", t.id>> \in Artifacts
      BY <1>2 DEF Artifacts
    <3>2. LegacyRow(t.id, t.game, t.version) \in ReleaseRows /\ ~LegacyRow(t.id, t.game, t.version).complete
      BY <1>2, <3>1 DEF LegacyRow, ReleaseRows
    <3> QED
      BY <2>2, <3>2 DEF SavedRow
  <2> QED
    BY <2>1, <2>2
<1>4. releases' = releases \/ releases' = releases \union {SavedRow(t)}
  BY DEF SaveRegistration
<1>5. scopes' = [scopes EXCEPT ![t.id] =
         IF @ # NoScope THEN [@ EXCEPT !.artifact = t.artifact]
         ELSE [game |-> t.game, ruleset |-> t.ruleset, artifact |-> t.artifact]]
  BY DEF SaveRegistration
<1>6. Step(c, Idle) /\ UNCHANGED <<file, ais, runs, served>>
  BY DEF SaveRegistration, Return
<1>7. Grows
  BY <1>4, <1>6 DEF Grows, LookupArtifact, Rows, Kept
<1>8. /\ scopes' \in [ScopeIds -> [game : Games, ruleset : Rulesets, artifact : Artifacts] \union {NoScope}]
      /\ scopes'[t.id].artifact = t.artifact
      /\ \A s \in ScopeIds \ {t.id} : scopes'[s] = scopes[s]
  <2> DEFINE saved == IF scopes[t.id] # NoScope THEN [scopes[t.id] EXCEPT !.artifact = t.artifact]
                      ELSE [game |-> t.game, ruleset |-> t.ruleset, artifact |-> t.artifact]
             ScopeRows == [game : Games, ruleset : Rulesets, artifact : Artifacts]
  <2>1. scopes \in [ScopeIds -> ScopeRows \union {NoScope}]
    BY DEF IInv, TypeOK
  <2>2. saved \in ScopeRows /\ saved.artifact = t.artifact
    <3>1. CASE scopes[t.id] # NoScope
      BY <1>2, <2>1, <3>1
    <3>2. CASE scopes[t.id] = NoScope
      BY <1>2, <3>2
    <3> QED
      BY <3>1, <3>2
  <2>3. scopes' = [scopes EXCEPT ![t.id] = saved]
    BY <1>5, Zenon
  <2> HIDE DEF saved, ScopeRows
  <2>4. /\ scopes' \in [ScopeIds -> ScopeRows \union {NoScope}]
        /\ scopes'[t.id] = saved
        /\ \A s \in ScopeIds \ {t.id} : scopes'[s] = scopes[s]
    BY <1>2, <2>1, <2>2, <2>3
  <2> QED
    BY <2>2, <2>4 DEF ScopeRows
<1>9. TypeOK'
  <2>1. call' \in [Calls -> Progress]
    BY <1>6, UploadTypes, StepTypes DEF IInv
  <2>2. releases' \subseteq ReleaseRows
    <3>1. releases \subseteq ReleaseRows
      BY DEF IInv, TypeOK, ReleaseRows
    <3> QED
      BY <1>3, <1>4, <3>1
  <2> QED
    BY <1>6, <1>8, <2>1, <2>2 DEF IInv, TypeOK, Progress, ReleaseRows
<1>10. ReleasesStored'
  BY <1>3, <1>4, <1>6 DEF IInv, ReleasesStored, Kept
<1>11. ScopesServable'
  <2>1. \A s \in ScopeIds : scopes[s] # NoScope /\ scopes[s].artifact \in Bundles
           => LookupArtifact(scopes[s].artifact)
    BY DEF IInv, ScopesServable
  <2>2. t.artifact \in Bundles => LookupArtifact(t.artifact)
    BY <1>1 DEF Backed
  <2>3. ASSUME NEW s \in ScopeIds, scopes'[s] # NoScope, scopes'[s].artifact \in Bundles
        PROVE  LookupArtifact(scopes[s].artifact)'
    <3>1. PICK d \in Bundles : d = scopes'[s].artifact
      BY <2>3
    <3>2. LookupArtifact(d)
      BY <1>8, <2>1, <2>2, <2>3, <3>1
    <3>3. LookupArtifact(d)'
      BY <1>7, <3>2 DEF Grows
    <3> QED
      BY <3>1, <3>3 DEF LookupArtifact, Rows
  <2> QED
    BY <2>3 DEF ScopesServable
<1>12. Backed(Idle)'
  BY UploadTypes DEF Backed
<1> QED
  BY <1>6, <1>7, <1>9, <1>10, <1>11, <1>12, UploadTypes, BackedPersists, CallWrites

\* A request snapshots its scope and one of the scope's AIs.
LEMMA BeginRunKeepsInv ==
    ASSUME IInv, NEW c \in Calls, NEW s \in ScopeIds, NEW ai \in ais, BeginRun(c, s, ai)
    PROVE  IInv'
<1>1. PICK row \in releases :
        Step(c, [pc |-> "submit", game |-> scopes[s].game, ruleset |-> scopes[s].ruleset,
                 version |-> row.version,
                 artifact |-> IF scopes[s].artifact \in Bundles THEN scopes[s].artifact ELSE "",
                 ai |-> ai.artifact])
  BY DEF BeginRun, Rows
<1>2. /\ scopes[s].game \in Games /\ scopes[s].ruleset \in Rulesets
      /\ row.version \in 1 .. MaxVersion /\ ai.artifact \in Bundles
  BY DEF BeginRun, IInv, TypeOK
<1> DEFINE pinned == IF scopes[s].artifact \in Bundles THEN scopes[s].artifact ELSE ""
           t == [pc |-> "submit", game |-> scopes[s].game, ruleset |-> scopes[s].ruleset,
                 version |-> row.version, artifact |-> pinned, ai |-> ai.artifact]
<1>3. pinned \in Bundles \union {""}
  OBVIOUS
<1> HIDE DEF pinned
<1>4. t \in Progress /\ t.pc = "submit"
  BY <1>2, <1>3 DEF Submissions, Progress
<1>5. Step(c, t)
  BY <1>1 DEF pinned
<1> HIDE DEF t
<1>6. Backed(t)
  BY <1>4 DEF Backed
<1> QED
  BY <1>4, <1>5, <1>6, CallMoves DEF BeginRun

\* An admitted run has what it needs: a pinned release resolves exactly, and is one of
\* the game the run asks for.
LEMMA AdmitKeepsInv ==
    ASSUME IInv, NEW c \in Calls, NEW r \in RunIds, AdmitRun(c, r)
    PROVE  IInv'
<1>0. PICK t : t = call[c]
  OBVIOUS
<1> DEFINE run == [state |-> "queued", game |-> t.game, pinned |-> t.artifact, ai |-> t.ai, ran |-> None]
<1>1. /\ t \in Submissions /\ Found(Resolve(t))
      /\ t.artifact # "" => Manifest[t.artifact].game = t.game
      /\ Step(c, Idle) /\ UNCHANGED <<file, releases, scopes, ais>>
      /\ runs' = [runs EXCEPT ![r] = run]
      /\ Serve(t.game) \/ UNCHANGED served
  BY <1>0, CallTypes DEF AdmitRun, Return, IInv
<1>2. t.game \in Games /\ t.artifact \in Bundles \union {""} /\ t.ai \in Bundles
  BY <1>1 DEF Submissions
<1>3. None \in Answers
  BY <1>2, AnswerTypes DEF IInv, ReleasesStored
<1>4. /\ run \in [state : {"queued", "executed"}, game : Games, pinned : Bundles \union {""},
                  ai : Bundles, ran : Answers]
      /\ run.game = t.game /\ run.pinned = t.artifact
  BY <1>2, <1>3
<1> HIDE DEF run
<1>5. runs'[r] = run /\ \A q \in RunIds \ {r} : runs'[q] = runs[q]
  BY <1>1 DEF IInv, TypeOK
<1>6. Grows
  BY <1>1 DEF Grows, LookupArtifact, Rows, Kept
<1>7. TypeOK'
  <2>1. call' \in [Calls -> Progress]
    BY <1>1, UploadTypes, StepTypes DEF IInv
  <2>2. served' \in [Games -> Nat]
    BY <1>1, ServeTypes DEF IInv
  <2> QED
    BY <1>1, <1>4, <2>1, <2>2 DEF IInv, TypeOK, Progress
<1>8. \A e \in Calls : Backed(call[e])'
  <2>1. call'[c] = Idle /\ \A e \in Calls \ {c} : call'[e] = call[e]
    BY <1>1, UploadTypes, StepTypes DEF IInv
  <2>2. Backed(call[c])'
    BY <2>1, UploadTypes DEF Backed
  <2> QED
    BY <1>6, <2>1, <2>2, BackedPersists
<1>9. \A q \in RunIds : RunBacked(runs[q])'
  <2>1. t.artifact # "" => LookupArtifact(t.artifact)
    BY <1>1, Zenon DEF Resolve, Found
  <2>2. t.artifact # "" => LookupArtifact(t.artifact)'
    BY <1>2, <1>6, <2>1 DEF Grows
  <2>3. RunBacked(runs[r])'
    BY <1>1, <1>4, <1>5, <2>2 DEF RunBacked, LookupArtifact, Rows
  <2> QED
    BY <1>5, <1>6, <2>3, BackedPersists
<1> QED
  BY <1>1, <1>6, <1>7, <1>8, <1>9, BackedPersists DEF IInv

\* Executing a run writes what it ran on, and leaves the rest of it.
LEMMA Execution ==
    ASSUME IInv, NEW r \in RunIds, ExecuteRun(r)
    PROVE  \E ran \in {Lookup(runs[r].game), Failed} :
              /\ ran = Failed \/ Found(ran)
              /\ runs' = [runs EXCEPT ![r] = [runs[r] EXCEPT !.state = "executed", !.ran = ran]]
              /\ runs[r] \in [state : {"queued", "executed"}, game : Games, pinned : Bundles \union {""},
                              ai : Bundles, ran : Answers]
              /\ runs[r] # NoRun /\ ran \in Answers
              /\ UNCHANGED <<file, releases, scopes, ais, call>> /\ Serve(runs[r].game)
<1>0. PICK run : run = runs[r]
  OBVIOUS
<1> DEFINE answer == Lookup(run.game)
           ready == /\ Found(answer)
                    /\ answer.artifact \in Bundles => file[answer.artifact] = "stored"
                    /\ file[run.ai] = "stored"
           ran == IF ready THEN answer ELSE Failed
<1>1. /\ run.state = "queued" /\ UNCHANGED <<file, releases, scopes, ais, call>> /\ Serve(run.game)
      /\ runs' = [runs EXCEPT ![r] = [run EXCEPT !.state = "executed", !.ran = ran]]
  BY <1>0, Zenon DEF ExecuteRun
<1>2. run # NoRun
  BY <1>1 DEF NoRun
<1>3. run \in [state : {"queued", "executed"}, game : Games, pinned : Bundles \union {""},
               ai : Bundles, ran : Answers]
  BY <1>0, <1>2 DEF IInv, TypeOK
<1>4. answer \in Answers /\ Failed \in Answers
  BY AnswerTypes DEF IInv, ReleasesStored
<1>5. ran \in {answer, Failed} /\ ran \in Answers /\ (ran = Failed \/ Found(ran))
  BY <1>4
<1> HIDE DEF ran
<1> QED
  BY <1>0, <1>1, <1>2, <1>3, <1>5

LEMMA ExecuteKeepsInv ==
    ASSUME IInv, NEW r \in RunIds, ExecuteRun(r)
    PROVE  IInv'
<1>0. PICK run : run = runs[r]
  OBVIOUS
<1>1. PICK ran \in Answers :
        /\ runs' = [runs EXCEPT ![r] = [run EXCEPT !.state = "executed", !.ran = ran]]
        /\ run \in [state : {"queued", "executed"}, game : Games, pinned : Bundles \union {""},
                    ai : Bundles, ran : Answers]
        /\ run # NoRun
        /\ UNCHANGED <<file, releases, scopes, ais, call>> /\ Serve(run.game)
  BY <1>0, Execution
<1> DEFINE next == [run EXCEPT !.state = "executed", !.ran = ran]
<1>2. /\ next \in [state : {"queued", "executed"}, game : Games, pinned : Bundles \union {""},
                   ai : Bundles, ran : Answers]
      /\ next.pinned = run.pinned /\ next.game = run.game
  BY <1>1
<1>3. runs' = [runs EXCEPT ![r] = next]
  BY <1>1
<1> HIDE DEF next
<1>4. runs'[r] = next /\ \A q \in RunIds \ {r} : runs'[q] = runs[q]
  BY <1>3 DEF IInv, TypeOK
<1>5. Grows
  BY <1>1 DEF Grows, LookupArtifact, Rows, Kept
<1>6. TypeOK'
  <2>1. served' \in [Games -> Nat]
    BY <1>1, ServeTypes DEF IInv
  <2> QED
    BY <1>1, <1>2, <1>3, <2>1 DEF IInv, TypeOK
<1>7. \A q \in RunIds : RunBacked(runs[q])'
  <2>1. run.pinned # "" => LookupArtifact(run.pinned) /\ Manifest[run.pinned].game = run.game
    BY <1>0, <1>1 DEF IInv, RunBacked
  <2>2. run.pinned # "" => LookupArtifact(run.pinned)'
    BY <1>1, <1>5, <2>1 DEF Grows
  <2>3. RunBacked(runs[r])'
    BY <1>2, <1>4, <2>1, <2>2 DEF RunBacked, LookupArtifact, Rows
  <2> QED
    BY <1>4, <1>5, <2>3, BackedPersists
<1> QED
  BY <1>1, <1>5, <1>6, <1>7, BackedPersists DEF IInv

\* Initially nothing is admitted, activated or queued.
LEMMA InvInit == Init => IInv
<1> SUFFICES ASSUME Init PROVE IInv
    OBVIOUS
<1>1. TypeOK
  BY TypeInit
<1>2. \A row \in releases : ~row.complete
  BY BundleTypes DEF Init
<1>3. ais = {} /\ (\A s \in ScopeIds : scopes[s] = NoScope) /\ (\A c \in Calls : call[c] = Idle)
        /\ (\A r \in RunIds : runs[r] = NoRun)
  BY DEF Init
<1>4. Backed(Idle) /\ RunBacked(NoRun)
  BY UploadTypes DEF Backed, RunBacked, NoRun
<1> QED
  BY <1>1, <1>2, <1>3, <1>4 DEF IInv, ReleasesStored, AIsStored, ScopesServable

\* Every step keeps the invariant.
LEMMA InvStep == IInv /\ [Next]_vars => IInv'
<1> SUFFICES ASSUME IInv, [Next]_vars PROVE IInv'
    OBVIOUS
<1>1. ASSUME NEW c \in Calls, Uploading(c) \/ GiveUp(c) PROVE IInv'
  BY <1>1, UploadCalls, FileWrites, RegisterKeepsInv, SaveAIKeepsInv DEF Uploading
<1>2. ASSUME NEW c \in Calls, Registering(c) PROVE IInv'
  BY <1>2, RegistrationCalls, SaveKeepsInv DEF Registering
<1>3. ASSUME NEW c \in Calls, Requesting(c) PROVE IInv'
  BY <1>3, BeginRunKeepsInv, AdmitKeepsInv DEF Requesting
<1>4. ASSUME NEW r \in RunIds, ExecuteRun(r) PROVE IInv'
  BY <1>4, ExecuteKeepsInv
<1>5. CASE Crash
  <2>1. (\A c \in Calls : call'[c] = Idle) /\ ais' = {} /\ UNCHANGED <<file, releases, scopes, runs, served>>
    BY <1>5 DEF Crash
  <2>2. Grows
    BY <2>1 DEF Grows, LookupArtifact, Rows, Kept
  <2>3. TypeOK'
    <3>1. call' \in [Calls -> Uploads \union Registrations \union Submissions \union {Idle}]
      BY <1>5 DEF Crash
    <3> QED
      BY <2>1, <3>1 DEF IInv, TypeOK
  <2>4. \A c \in Calls : Backed(call[c])'
    BY <2>1, UploadTypes DEF Backed
  <2> QED
    BY <2>1, <2>2, <2>3, <2>4, BackedPersists DEF IInv
<1>6. CASE UNCHANGED vars
  <2>1. UNCHANGED <<file, releases, scopes, ais, call, runs, served>>
    BY <1>6 DEF vars
  <2>2. Grows
    BY <2>1 DEF Grows, LookupArtifact, Rows, Kept
  <2>3. TypeOK'
    BY <2>1 DEF IInv, TypeOK
  <2> QED
    BY <2>1, <2>2, <2>3, BackedPersists DEF IInv
<1> QED
  BY <1>1, <1>2, <1>3, <1>4, <1>5, <1>6 DEF Next

\* The invariant holds in every reachable state.
LEMMA Invariant == Spec => []IInv
BY InvInit, InvStep, PTL DEF Spec

-----------------------------------------------------------------------------
(***************************************************************************)
(* What lookups gave.  A release row of a bundle is never lost to a row of *)
(* another version, so the release given last is still there to be found.  *)
(***************************************************************************)

\* A row of a bundle says what the bundle declares, complete or not.
RowsDescribed == \A row \in releases : row.artifact \in Bundles =>
    row.game = Manifest[row.artifact].game /\ row.version = Manifest[row.artifact].version

Released(game, version) == \E row \in releases : row.game = game /\ row.version = version

ServedStands == \A g \in Games : served[g] # 0 => Released(g, served[g])

\* A lookup gives a release at least as new as any there is.
LEMMA LookupIsLatest ==
    ASSUME TypeOK, NEW game, NEW version, Released(game, version), Found(Lookup(game))
    PROVE  Lookup(game).version >= version /\ Released(game, Lookup(game).version)
<1> DEFINE rows == {row \in releases : row.game = game}
<1>1. PICK row \in rows : row.version = version
  BY DEF Released
<1>2. Lookup(game) = [artifact |-> Latest(rows).artifact, version |-> Latest(rows).version]
  <2>1. Lookup(game) # Failed
    BY DEF Found
  <2> QED
    BY <1>1, <2>1 DEF Lookup
<1>3. Lookup(game).version = Latest(rows).version
  BY <1>2
<1>4. Latest(rows) \in rows /\ \A other \in rows : Latest(rows).version >= other.version
  <2>1. rows # {} /\ \A other \in rows : other.version \in 1 .. MaxVersion
    BY <1>1 DEF TypeOK
  <2> HIDE DEF rows
  <2> QED
    BY <2>1, LatestIsRow
<1> QED
  BY <1>1, <1>3, <1>4 DEF Released

\* A version other than 0 is that of a release: the built-in's counts as 0.
LEMMA LookupWithoutRelease ==
    ASSUME TypeOK, NEW game, Lookup(game).version # 0
    PROVE  Released(game, Lookup(game).version)
<1>1. Builtin.version = 0 /\ None.version = 0 /\ Failed.version = 0
  BY DEF Builtin, None, Failed
<1>2. PICK row \in releases : /\ row.game = game
                              /\ Lookup(game) = [artifact |-> row.artifact, version |-> row.version]
  BY <1>1, LookupTypes
<1> QED
  BY <1>2 DEF Released

\* A served lookup is no older than the one before, and its release is there.
LEMMA ServeAdvances ==
    ASSUME TypeOK, ServedStands, NEW game, Serve(game) \/ UNCHANGED served
    PROVE  \A g \in Games : /\ served'[g] >= served[g]
                            /\ served'[g] # 0 => Released(g, served'[g])
<1> SUFFICES ASSUME NEW g \in Games
             PROVE  served'[g] >= served[g] /\ (served'[g] # 0 => Released(g, served'[g]))
  OBVIOUS
<1>1. served \in [Games -> Nat] /\ served[g] \in Nat
  BY DEF TypeOK
<1>2. CASE served'[g] = served[g]
  BY <1>1, <1>2 DEF ServedStands
<1>3. CASE g = game /\ Found(Lookup(g)) /\ served'[g] = Lookup(g).version
  <2>1. Lookup(g).version \in Nat
    BY LookupTypes
  <2>2. CASE served[g] = 0
    BY <1>3, <2>1, <2>2, LookupWithoutRelease
  <2>3. CASE served[g] # 0
    BY <1>3, <2>3, LookupIsLatest DEF ServedStands
  <2> QED
    BY <2>2, <2>3
<1> QED
  BY <1>1, <1>2, <1>3 DEF Serve

\* No release disappears: a descriptor replaces the row of its own bundle, which
\* has its version already, and a registration only adds a row.
LEMMA ReleasesStay ==
    ASSUME IInv, RowsDescribed, NEW c \in Calls, Register(c) \/ SaveRegistration(c)
    PROVE  RowsDescribed' /\ \A g, v : Released(g, v) => Released(g, v)'
<1>1. CASE Register(c)
  <2> DEFINE d == call[c].bundle
  <2>1. d \in Bundles
    BY <1>1, CallTypes DEF Register, IInv, Uploads
  <2>2. releases' = (releases \ Rows(d)) \union {BundleRow(d, TRUE)}
    BY <1>1 DEF Register
  <2>3. \A row \in Rows(d) : row.game = BundleRow(d, TRUE).game /\ row.version = BundleRow(d, TRUE).version
    BY <2>1 DEF RowsDescribed, Rows, BundleRow
  <2>4. RowsDescribed'
    BY <2>2 DEF RowsDescribed, BundleRow
  <2> QED
    BY <2>2, <2>3, <2>4 DEF Released
<1>2. CASE SaveRegistration(c)
  <2>1. releases' = releases \/ releases' = releases \union {SavedRow(call[c])}
    BY <1>2 DEF SaveRegistration
  <2>2. SavedRow(call[c]).artifact \in Bundles =>
          SavedRow(call[c]) = BundleRow(SavedRow(call[c]).artifact, FALSE)
    <3>1. call[c] \in Registrations
      BY <1>2, CallTypes DEF SaveRegistration, IInv
    <3> QED
      BY <3>1, DigestAssumption DEF SavedRow, LegacyRow, BundleRow, Registrations
  <2>3. RowsDescribed'
    BY <2>1, <2>2 DEF RowsDescribed, BundleRow
  <2> QED
    BY <2>1, <2>3 DEF Released
<1> QED
  BY <1>1, <1>2

LEMMA ServedStep ==
    ASSUME IInv, RowsDescribed, ServedStands, [Next]_vars
    PROVE  /\ RowsDescribed' /\ ServedStands'
           /\ \A g \in Games : served'[g] >= served[g]
<1> DEFINE Goal == /\ RowsDescribed' /\ ServedStands'
                   /\ \A g \in Games : served'[g] >= served[g]
<1>1. ASSUME UNCHANGED releases, NEW game, Serve(game) \/ UNCHANGED served PROVE Goal
  <2>1. \A g \in Games : /\ served'[g] >= served[g]
                         /\ served'[g] # 0 => Released(g, served'[g])
    BY <1>1, ServeAdvances DEF IInv
  <2> QED
    BY <1>1, <2>1 DEF RowsDescribed, ServedStands, Released
<1>2. ASSUME NEW c \in Calls, Register(c) \/ SaveRegistration(c) PROVE Goal
  <2>1. UNCHANGED served
    BY <1>2 DEF Register, SaveRegistration
  <2>2. \A g \in Games : served[g] >= served[g]
    <3>1. \A g \in Games : served[g] \in Nat
      BY DEF IInv, TypeOK
    <3> QED
      BY <3>1, VersionsAssumption
  <2> QED
    BY <1>2, <2>1, <2>2, ReleasesStay DEF ServedStands, Released
<1>3. ASSUME NEW c \in Calls, Uploading(c) \/ GiveUp(c) PROVE Goal
  BY <1>1, <1>2, <1>3 DEF Uploading, BeginGameUpload, BeginAIUpload, ReuseFile, FindNoFile, TruncateFile,
                          FillFile, WriteFails, SaveAI, GiveUp
<1>4. ASSUME NEW c \in Calls, Registering(c) PROVE Goal
  BY <1>1, <1>2, <1>4 DEF Registering, RegisterArtifact, RegisterMetadata
<1>5. ASSUME NEW c \in Calls, Requesting(c) PROVE Goal
  BY <1>1, <1>5 DEF Requesting, BeginRun, AdmitRun
<1>6. ASSUME NEW r \in RunIds, ExecuteRun(r) PROVE Goal
  BY <1>1, <1>6 DEF ExecuteRun
<1>7. CASE Crash \/ UNCHANGED vars
  BY <1>1, <1>7 DEF Crash, vars
<1> QED
  BY <1>3, <1>4, <1>5, <1>6, <1>7 DEF Next

\* A run is executed on an admitted release no older than the one it pinned: the
\* pinned one is still there to be found, and a lookup finds the newest.
LEMMA ExecutionNeverFallsBack ==
    ASSUME IInv, RowsDescribed, PinnedRunsNeverFallBack, [Next]_vars
    PROVE  PinnedRunsNeverFallBack'
<1> DEFINE Ok(run) == run.state = "executed" /\ run.pinned # "" /\ run.ran # Failed
              => /\ run.ran.artifact \in Bundles
                 /\ Manifest[run.ran.artifact].game = Manifest[run.pinned].game
                 /\ run.ran.version >= Manifest[run.pinned].version
<1>1. CASE UNCHANGED runs
  BY <1>1 DEF PinnedRunsNeverFallBack
<1>2. ASSUME NEW c \in Calls, NEW r \in RunIds, AdmitRun(c, r) PROVE PinnedRunsNeverFallBack'
  <2>1. PICK run : run.state = "queued" /\ runs' = [runs EXCEPT ![r] = run]
    <3> DEFINE run == [state |-> "queued", game |-> call[c].game, pinned |-> call[c].artifact,
                       ai |-> call[c].ai, ran |-> None]
    <3>1. runs' = [runs EXCEPT ![r] = run] /\ run.state = "queued"
      BY <1>2 DEF AdmitRun
    <3> QED
      BY <3>1
  <2>2. \A q \in RunIds : runs'[q].state = "queued" \/ runs'[q] = runs[q]
    BY <2>1 DEF IInv, TypeOK
  <2> QED
    BY <2>2 DEF PinnedRunsNeverFallBack
<1>3. ASSUME NEW r \in RunIds, ExecuteRun(r) PROVE PinnedRunsNeverFallBack'
  <2>0. PICK run : run = runs[r]
    OBVIOUS
  <2>1. PICK ran \in {Lookup(run.game), Failed} :
          /\ ran = Failed \/ Found(ran)
          /\ runs' = [runs EXCEPT ![r] = [run EXCEPT !.state = "executed", !.ran = ran]]
          /\ run \in [state : {"queued", "executed"}, game : Games, pinned : Bundles \union {""},
                      ai : Bundles, ran : Answers]
          /\ run # NoRun
    BY <1>3, <2>0, Execution
  <2> DEFINE next == [run EXCEPT !.state = "executed", !.ran = ran]
  <2>2. next.pinned = run.pinned /\ next.ran = ran
    BY <2>1
  <2>3. runs'[r] = next /\ \A q \in RunIds \ {r} : runs'[q] = runs[q]
    BY <2>1 DEF IInv, TypeOK
  <2> HIDE DEF next
  <2>4. Ok(next)
    <3> SUFFICES ASSUME run.pinned # "", ran # Failed
                 PROVE  /\ ran.artifact \in Bundles
                        /\ Manifest[ran.artifact].game = Manifest[run.pinned].game
                        /\ ran.version >= Manifest[run.pinned].version
      BY <2>2
    <3>1. ran = Lookup(run.game) /\ Found(Lookup(run.game))
      BY <2>1
    <3>2. run.pinned \in Bundles /\ Manifest[run.pinned].game = run.game /\ LookupArtifact(run.pinned)
      BY <2>0, <2>1 DEF IInv, RunBacked
    <3>3. Released(run.game, Manifest[run.pinned].version)
      <4>1. PICK row \in releases : row.artifact = run.pinned
        BY <3>2 DEF LookupArtifact, Rows
      <4>2. row.game = run.game /\ row.version = Manifest[run.pinned].version
        BY <3>2, <4>1 DEF RowsDescribed
      <4> QED
        BY <4>2 DEF Released
    <3>4. /\ ran.version >= Manifest[run.pinned].version
          /\ Released(run.game, ran.version)
      BY <3>1, <3>3, LookupIsLatest DEF IInv
    <3>5. PICK row \in releases : /\ row.complete /\ row.game = run.game
                                  /\ ran = [artifact |-> row.artifact, version |-> row.version]
      <4>1. Manifest[run.pinned].version \in 1 .. MaxVersion
        BY <3>2, ManifestAssumption
      <4>2. Builtin.version = 0 /\ None.version = 0 /\ Failed.version = 0
        BY DEF Builtin, None, Failed
      <4>3. ran.version \in Nat
        BY <3>1, LookupTypes DEF IInv
      <4>4. ran.version # 0
        BY <3>4, <4>1, <4>3, VersionTypes
      <4> QED
        BY <3>1, <4>2, <4>4, LookupTypes DEF IInv
    <3>6. ran.artifact = row.artifact /\ row.artifact \in Bundles
      BY <3>5 DEF IInv, ReleasesStored
    <3> QED
      BY <3>2, <3>4, <3>5, <3>6 DEF RowsDescribed
  <2>5. \A q \in RunIds : Ok(runs[q])
    BY DEF PinnedRunsNeverFallBack
  <2> HIDE DEF Ok
  <2>6. \A q \in RunIds : Ok(runs'[q])
    BY <2>3, <2>4, <2>5
  <2> QED
    BY <2>6 DEF Ok, PinnedRunsNeverFallBack
<1>4. ASSUME NEW c \in Calls, Uploading(c) \/ Registering(c) \/ GiveUp(c) PROVE PinnedRunsNeverFallBack'
  BY <1>1, <1>4 DEF Uploading, BeginGameUpload, BeginAIUpload, ReuseFile, FindNoFile, TruncateFile, FillFile,
     WriteFails, Register, SaveAI, Registering, RegisterArtifact, RegisterMetadata, SaveRegistration, GiveUp
<1>5. ASSUME NEW c \in Calls, Requesting(c) PROVE PinnedRunsNeverFallBack'
  BY <1>1, <1>2, <1>5 DEF Requesting, BeginRun
<1>6. CASE Crash \/ UNCHANGED vars
  BY <1>1, <1>6 DEF Crash, vars
<1> QED
  BY <1>3, <1>4, <1>5, <1>6 DEF Next

-----------------------------------------------------------------------------
(* Theorems *)

\* Every variable keeps its declared type.
THEOREM TypeCorrect == Spec => []TypeOK
BY Invariant, PTL DEF IInv

\* Admitted releases and AIs had their bundle stored whole, which only a second upload
\* of it can have emptied since, and a scope activates admitted bundles only.
THEOREM AdmissionIsBacked == Spec => []AdmittedUnlessTorn
<1>1. IInv => AdmittedUnlessTorn
  BY DEF IInv, ReleasesStored, AIsStored, ScopesServable, AdmittedUnlessTorn
<1> QED
  BY <1>1, Invariant, PTL

\* A run of a pinned release is executed on an admitted release of its game no older
\* than that one, or fails.
THEOREM PinnedRunsNeverRegress == Spec => []PinnedRunsNeverFallBack
<1>1. Init => RowsDescribed /\ ServedStands /\ PinnedRunsNeverFallBack
  <2>1. NoRun.state = "none"
    BY DEF NoRun
  <2>2. Init => PinnedRunsNeverFallBack
    BY <2>1 DEF Init, PinnedRunsNeverFallBack
  <2> QED
    BY <2>2, VersionsAssumption DEF Init, RowsDescribed, ServedStands, BundleRow
<1>2. IInv /\ RowsDescribed /\ ServedStands /\ [Next]_vars => RowsDescribed' /\ ServedStands'
  BY ServedStep
<1>3. IInv /\ RowsDescribed /\ PinnedRunsNeverFallBack /\ [Next]_vars => PinnedRunsNeverFallBack'
  BY ExecutionNeverFallsBack
<1> QED
  BY <1>1, <1>2, <1>3, Invariant, PTL DEF Spec

\* Lookups of a game never give an older release than before, nor the built-in
\* once they gave an admitted one: a failing durable tier fails the lookup.
THEOREM LookupsNeverRegress == Spec => LookupNeverRegresses
<1>1. Init => RowsDescribed /\ ServedStands
  BY VersionsAssumption DEF Init, RowsDescribed, ServedStands, BundleRow
<1>2. IInv /\ RowsDescribed /\ ServedStands /\ [Next]_vars => RowsDescribed' /\ ServedStands'
  BY ServedStep
<1>3. IInv /\ RowsDescribed /\ ServedStands /\ [Next]_vars
        => [\A g \in Games : served'[g] >= served[g]]_served
  BY ServedStep
<1> QED
  BY <1>1, <1>2, <1>3, Invariant, PTL DEF Spec, LookupNeverRegresses
=============================================================================
