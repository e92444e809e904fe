---------------------------- MODULE ResultProofs ----------------------------
(***************************************************************************)
(* Theorems about what is made of a game's result: the entries that the    *)
(* ranking builds from placements (RankingTable), for any runs, bots,      *)
(* matches and offers, and the placements that a game returns, the         *)
(* continuation of a match that is taken up and what is rebuilt from its   *)
(* log (GameReplay), for any number of players, rounds and retries.        *)
(***************************************************************************)
EXTENDS GameReplay, RankingTable, Integers, FiniteSetTheorems, SequenceTheorems,
        WellFoundedInduction, TLAPS

LEMMA Typing ==
  ASSUME NEW res \in Offer
  PROVE  /\ res.run \in RunID /\ res.placements \in Seq([player : PlayerID \cup {NoBot}, place : 0..MaxPlace])
         /\ Len(res.placements) \in Nat /\ DOMAIN res.placements = 1..Len(res.placements)
         /\ \A p \in PlayerID : res.bots[p] \in Bot \cup {NoBot}
         /\ \A i \in 1..Len(res.placements) :
              res.placements[i].place \in 0..MaxPlace /\ res.placements[i].player \in PlayerID \cup {NoBot}
<1>1. res \in [run : RunID, status : {"completed", "failed"}, bots : [PlayerID -> Bot \cup {NoBot}],
               placements : Seq([player : PlayerID \cup {NoBot}, place : 0..MaxPlace])]
  BY ResultShape
<1> DEFINE pl == res.placements
<1>2. /\ pl \in Seq([player : PlayerID \cup {NoBot}, place : 0..MaxPlace]) /\ res.run \in RunID
      /\ res.bots \in [PlayerID -> Bot \cup {NoBot}]
  BY <1>1
<1> HIDE DEF pl
<1>3. Len(pl) \in Nat /\ DOMAIN pl = 1..Len(pl)
      /\ \A i \in 1..Len(pl) : pl[i] \in [player : PlayerID \cup {NoBot}, place : 0..MaxPlace]
  BY <1>2, LenProperties, ElementOfSeq
<1> QED
  BY <1>2, <1>3 DEF pl

-----------------------------------------------------------------------------
(* The loop over the placements of a result *)

\* One more placement.
NextTable(es, res, n) == place(es, res.run, res.bots[res.placements[n].player], res.placements[n].place)

\* A table for every number of placements done so far.
Loop(entries, res, f, n) ==
  f = [k \in 0..n |-> IF k = 0 THEN entries ELSE NextTable(f[k - 1], res, k)]

LEMMA LoopExtends ==
  ASSUME NEW entries, NEW res, NEW n \in Nat, NEW f, Loop(entries, res, f, n)
  PROVE  \E g : Loop(entries, res, g, n + 1)
<1> DEFINE g == [k \in 0..(n + 1) |-> IF k <= n THEN f[k] ELSE NextTable(f[n], res, n + 1)]
<1>1. \A k \in 0..n : f[k] = IF k = 0 THEN entries ELSE NextTable(f[k - 1], res, k)
  BY DEF Loop
<1>2. \A k \in 0..n : g[k] = f[k]
  OBVIOUS
<1>3. g[n + 1] = NextTable(f[n], res, n + 1)
  OBVIOUS
<1>4. \A k \in 0..(n + 1) : g[k] = IF k = 0 THEN entries ELSE NextTable(g[k - 1], res, k)
  <2> HIDE DEF g
  <2> SUFFICES ASSUME NEW k \in 0..(n + 1)
               PROVE  g[k] = IF k = 0 THEN entries ELSE NextTable(g[k - 1], res, k)
    OBVIOUS
  <2>1. CASE k \in 0..n
    BY <1>1, <1>2, <2>1
  <2>2. CASE k = n + 1
    BY <1>2, <1>3, <2>2
  <2> QED
    BY <2>1, <2>2
<1>5. g = [k \in 0..(n + 1) |-> g[k]]
  OBVIOUS
<1> HIDE DEF g
<1>6. Loop(entries, res, g, n + 1)
  BY <1>4, <1>5, Zenon DEF Loop
<1> QED
  BY <1>6

\* The recursion of placeAll defines what it says.
LEMMA LoopExists ==
  ASSUME NEW entries, NEW res, NEW n \in Nat
  PROVE  \E f : Loop(entries, res, f, n)
<1> DEFINE less == {p \in Nat \X Nat : p[1] < p[2]}
           stuck == {k \in Nat : \A f : ~Loop(entries, res, f, k)}
<1> SUFFICES ASSUME n \in stuck PROVE FALSE
  OBVIOUS
<1>1. IsWellFoundedOn(less, Nat)
  BY NatLessThanWellFounded DEF OpToRel
<1>2. PICK k \in stuck : \A j \in stuck : ~(<<j, k>> \in less)
  <2>1. stuck \subseteq Nat
    OBVIOUS
  <2> HIDE DEF stuck, less
  <2> QED
    BY <1>1, <2>1, WFMin
<1>3. CASE k = 0
  <2> DEFINE f == [i \in 0..0 |-> IF i = 0 THEN entries ELSE entries]
  <2>1. Loop(entries, res, [i \in 0..0 |-> entries], 0)
    BY DEF Loop
  <2> QED
    BY <1>2, <1>3, <2>1
<1>4. CASE k # 0
  <2>1. k \in Nat /\ k - 1 \in Nat /\ k - 1 < k /\ (k - 1) + 1 = k
    BY <1>4
  <2>2. k - 1 \notin stuck
    BY <1>2, <2>1
  <2>3. PICK f : Loop(entries, res, f, k - 1)
    BY <2>1, <2>2
  <2>4. \E g : Loop(entries, res, g, k)
    BY <2>1, <2>3, LoopExtends
  <2> QED
    BY <1>2, <2>4
<1> QED
  BY <1>3, <1>4

LEMMA PlaceAllLoops ==
  ASSUME NEW entries, NEW res, Len(res.placements) \in Nat
  PROVE  \E f : Loop(entries, res, f, Len(res.placements)) /\ placeAll(entries, res) = f[Len(res.placements)]
<1> DEFINE N == Len(res.placements)
           after == CHOOSE f : f = [n \in 0..N |->
                       IF n = 0 THEN entries
                       ELSE place(f[n - 1], res.run, res.bots[res.placements[n].player], res.placements[n].place)]
<1>1. placeAll(entries, res) = after[N]
  BY DEF placeAll
<1>2. \E f : f = [n \in 0..N |->
                       IF n = 0 THEN entries
                       ELSE place(f[n - 1], res.run, res.bots[res.placements[n].player], res.placements[n].place)]
  <2>1. PICK f : Loop(entries, res, f, N)
    BY LoopExists
  <2> QED
    BY <2>1, Zenon DEF Loop, NextTable
<1>3. after = [n \in 0..N |->
                       IF n = 0 THEN entries
                       ELSE place(after[n - 1], res.run, res.bots[res.placements[n].player], res.placements[n].place)]
  BY <1>2, Zenon
<1> HIDE DEF after
<1> QED
  BY <1>1, <1>3, Zenon DEF Loop, NextTable

-----------------------------------------------------------------------------
(* What a result adds *)

\* The placements of a result, up to the n-th, that seat b on one of places.
Match(res, b, places, n) ==
  {k \in 1..n : res.bots[res.placements[k].player] = b /\ res.placements[k].place \in places}

Entries == [played : Nat, first : Nat, counts : [1..MaxPlace -> Nat], lastRun : RunID \cup {NoBot}]

Table(entries) == DOMAIN entries \subseteq Bot /\ \A b \in DOMAIN entries : entries[b] \in Entries

\* The entry of every bot counts, beyond old, the first n placements of res.
Counts(entries, old, res, n) ==
  /\ Table(entries)
  /\ \A b \in Bot :
       /\ Entry(entries, b).played = Entry(old, b).played + Cardinality(Match(res, b, 1..MaxPlace, n))
       /\ Entry(entries, b).first = Entry(old, b).first + Cardinality(Match(res, b, {1}, n))
       /\ \A k \in 1..MaxPlace :
            Entry(entries, b).counts[k] = Entry(old, b).counts[k] + Cardinality(Match(res, b, {k}, n))

\* What ApplyCompleted asks of a result before it reaches the snapshot.
Taken(res) == hasBotRankingIdentity(res) /\ buildRankingUpdate(res)

\* The offers that are valid, and their matches.
ValidMatches == {MatchOf[offered[i].run] : i \in {j \in DOMAIN offered : Valid(offered[j])}}

TableInv ==
  /\ offered \in Seq(Offer)
  /\ snapshot.runs \in Seq(RunID) /\ snapshot.matches \in Seq({MatchOf[r] : r \in RunID})
  /\ \A m : Contains(snapshot.matches, m) <=> m \in ValidMatches
  /\ \A r \in RunID : Contains(snapshot.runs, r) => MatchOf[r] \in ValidMatches
  /\ Table(snapshot.entries)
  /\ \A b, places : IsFiniteSet(Seats(b, places))
  /\ EntriesCountPlacements

LEMMA MatchStep ==
  ASSUME NEW res, NEW b, NEW places, NEW n \in Nat
  PROVE  /\ IsFiniteSet(Match(res, b, places, n)) /\ Cardinality(Match(res, b, places, n)) \in Nat
         /\ Cardinality(Match(res, b, places, 0)) = 0
         /\ Cardinality(Match(res, b, places, n + 1)) = Cardinality(Match(res, b, places, n))
              + IF res.bots[res.placements[n + 1].player] = b /\ res.placements[n + 1].place \in places
                THEN 1 ELSE 0
<1> DEFINE hit == res.bots[res.placements[n + 1].player] = b /\ res.placements[n + 1].place \in places
<1>1. IsFiniteSet(Match(res, b, places, n))
  <2>1. IsFiniteSet(1..n)
    BY FS_Interval
  <2>2. Match(res, b, places, n) \in SUBSET (1..n)
    BY DEF Match
  <2> QED
    BY <2>1, <2>2, FS_Subset
<1>2. Cardinality(Match(res, b, places, n)) \in Nat
  BY <1>1, FS_CardinalityType
<1>3. Match(res, b, places, 0) = {}
  BY DEF Match
<1>4. Match(res, b, places, n + 1) = IF hit THEN Match(res, b, places, n) \cup {n + 1}
                                            ELSE Match(res, b, places, n)
  <2>1. \A k : k \in 1..(n + 1) <=> k \in 1..n \/ k = n + 1
    OBVIOUS
  <2> QED
    BY <2>1, Zenon DEF Match
<1>5. n + 1 \notin Match(res, b, places, n)
  BY DEF Match
<1> HIDE DEF hit
<1>6. Cardinality(Match(res, b, places, n + 1)) = Cardinality(Match(res, b, places, n)) + IF hit THEN 1 ELSE 0
  BY <1>1, <1>2, <1>4, <1>5, FS_AddElement
<1> QED
  BY <1>1, <1>2, <1>3, <1>6, FS_EmptySet DEF hit

\* An accepted placement seats a bot on a place that exists.
LEMMA AcceptedSeats ==
  ASSUME NEW res \in Offer, Taken(res), NEW k \in 1..Len(res.placements)
  PROVE  res.bots[res.placements[k].player] \in Bot /\ res.placements[k].place \in 1..MaxPlace
<1>1. res.placements[k].place \in 0..MaxPlace /\ res.placements[k].place > 0 /\ res.placements[k].player \in PlayerID
  BY Typing DEF Taken, buildRankingUpdate
<1>2. res.placements[k].place \in 1..MaxPlace
  BY <1>1, Places
<1>3. \A p \in PlayerID : res.bots[p] \in Bot \cup {NoBot} /\ res.bots[p] # NoBot
  BY Typing DEF Taken, hasBotRankingIdentity
<1> QED
  BY <1>1, <1>2, <1>3

LEMMA EntryTyped ==
  ASSUME NEW entries, Table(entries), NEW b \in Bot
  PROVE  /\ Entry(entries, b) \in Entries
         /\ Entry(entries, b).played \in Nat /\ Entry(entries, b).first \in Nat
         /\ Entry(entries, b).counts \in [1..MaxPlace -> Nat]
         /\ \A i \in 1..MaxPlace : Entry(entries, b).counts[i] \in Nat
<1>1. Entry(entries, b) \in Entries
  BY Places DEF Table, Entry, Entries, NewEntry
<1>2. /\ Entry(entries, b).played \in Nat /\ Entry(entries, b).first \in Nat
      /\ Entry(entries, b).counts \in [1..MaxPlace -> Nat]
  BY <1>1 DEF Entries
<1> QED
  BY <1>1, <1>2

LEMMA CountOneMore ==
  ASSUME NEW S, NEW c \in [S -> Nat], NEW k \in S
  PROVE  /\ [c EXCEPT ![k] = @ + 1] \in [S -> Nat]
         /\ \A i \in S : [c EXCEPT ![k] = @ + 1][i] = c[i] + IF i = k THEN 1 ELSE 0
<1>1. \A i \in S : [c EXCEPT ![k] = @ + 1][i] = IF i = k THEN c[i] + 1 ELSE c[i]
  OBVIOUS
<1>2. \A i \in S : c[i] \in Nat /\ c[i] + 1 \in Nat /\ c[i] + 0 = c[i]
  OBVIOUS
<1> QED
  BY <1>1, <1>2

LEMMA PlaceTyped ==
  ASSUME NEW entries, Table(entries), NEW run \in RunID, NEW b \in Bot, NEW k \in 1..MaxPlace
  PROVE  /\ Table(place(entries, run, b, k))
         /\ \A x \in Bot :
              LET e == Entry(entries, x)
                  f == Entry(place(entries, run, b, k), x)
              IN  /\ f.played = e.played + IF x = b THEN 1 ELSE 0
                  /\ f.first = e.first + IF x = b /\ k = 1 THEN 1 ELSE 0
                  /\ \A i \in 1..MaxPlace : f.counts[i] = e.counts[i] + IF x = b /\ i = k THEN 1 ELSE 0
<1> DEFINE e == Entry(entries, b)
           new == [played |-> e.played + 1, first |-> e.first + IF k = 1 THEN 1 ELSE 0,
                   counts |-> [e.counts EXCEPT ![k] = @ + 1], lastRun |-> run]
           after == place(entries, run, b, k)
<1>1. e \in Entries
  BY EntryTyped
<1>2. e.played \in Nat /\ e.first \in Nat /\ e.counts \in [1..MaxPlace -> Nat]
  BY <1>1 DEF Entries
<1>3. after = [x \in DOMAIN entries \cup {b} |-> IF x # b THEN entries[x] ELSE new]
  BY DEF place
<1> HIDE DEF e, after
<1>4. [e.counts EXCEPT ![k] = @ + 1] \in [1..MaxPlace -> Nat]
  BY <1>2, CountOneMore, Zenon
<1>5. new \in Entries
  <2>1. e.played + 1 \in Nat /\ e.first + (IF k = 1 THEN 1 ELSE 0) \in Nat
    BY <1>2
  <2> QED
    BY <1>4, <2>1 DEF Entries
<1>6. Table(after)
  <2> HIDE DEF new
  <2> QED
    BY <1>3, <1>5 DEF Table
<1>7. ASSUME NEW x \in Bot, x # b
      PROVE  Entry(after, x) = Entry(entries, x)
  <2> HIDE DEF new
  <2> QED
    BY <1>3, <1>7 DEF Entry
<1>8. Entry(after, b) = new
  BY <1>3, Zenon DEF Entry
<1>9. ASSUME NEW x \in Bot
      PROVE  LET f == Entry(after, x)
                 o == Entry(entries, x)
             IN  /\ f.played = o.played + IF x = b THEN 1 ELSE 0
                 /\ f.first = o.first + IF x = b /\ k = 1 THEN 1 ELSE 0
                 /\ \A i \in 1..MaxPlace : f.counts[i] = o.counts[i] + IF x = b /\ i = k THEN 1 ELSE 0
  <2>1. CASE x = b
    <3>1. /\ new.played = e.played + 1 /\ new.first = e.first + IF k = 1 THEN 1 ELSE 0
          /\ \A i \in 1..MaxPlace : new.counts[i] = e.counts[i] + IF i = k THEN 1 ELSE 0
      <4>1. new.counts = [e.counts EXCEPT ![k] = @ + 1]
        OBVIOUS
      <4>2. \A i \in 1..MaxPlace : new.counts[i] = e.counts[i] + IF i = k THEN 1 ELSE 0
        <5> HIDE DEF new
        <5>1. \A i \in 1..MaxPlace : [e.counts EXCEPT ![k] = @ + 1][i] = e.counts[i] + IF i = k THEN 1 ELSE 0
          BY <1>2, CountOneMore, Zenon
        <5> QED
          BY <4>1, <5>1, Zenon
      <4>3. new.played = e.played + 1 /\ new.first = e.first + IF k = 1 THEN 1 ELSE 0
        OBVIOUS
      <4> HIDE DEF new
      <4> QED
        BY <4>2, <4>3
    <3> HIDE DEF new
    <3> QED
      BY <1>8, <2>1, <3>1 DEF e
  <2>2. CASE x # b
    <3>1. Entry(entries, x) \in Entries
      BY EntryTyped
    <3>2. /\ Entry(entries, x).played \in Nat /\ Entry(entries, x).first \in Nat
          /\ Entry(entries, x).counts \in [1..MaxPlace -> Nat]
      BY <3>1 DEF Entries
    <3>3. Entry(after, x) = Entry(entries, x)
      BY <1>7, <2>2
    <3>4. \A i \in 1..MaxPlace : ~(x = b /\ i = k) /\ Entry(entries, x).counts[i] \in Nat
      BY <2>2, <3>2
    <3> HIDE DEF new
    <3> QED
      BY <2>2, <3>2, <3>3, <3>4
  <2> QED
    BY <2>1, <2>2
<1> QED
  BY <1>6, <1>9 DEF after

\* One more placement of an accepted result.
LEMMA NextTableCounts ==
  ASSUME NEW res \in Offer, Taken(res), NEW old, Table(old),
         NEW n \in Nat, n + 1 <= Len(res.placements), NEW entries, Counts(entries, old, res, n)
  PROVE  Counts(NextTable(entries, res, n + 1), old, res, n + 1)
<1> DEFINE b == res.bots[res.placements[n + 1].player]
           k == res.placements[n + 1].place
           after == NextTable(entries, res, n + 1)
<1>1. b \in Bot /\ k \in 1..MaxPlace /\ res.run \in RunID
  <2>1. n + 1 \in 1..Len(res.placements)
    BY Typing
  <2> QED
    BY <2>1, AcceptedSeats, Typing
<1>2. after = place(entries, res.run, b, k)
  BY DEF NextTable
<1> HIDE DEF b, k, after
<1>3. Table(entries)
  BY DEF Counts
<1>4. /\ Table(after)
      /\ \A x \in Bot :
           /\ Entry(after, x).played = Entry(entries, x).played + IF x = b THEN 1 ELSE 0
           /\ Entry(after, x).first = Entry(entries, x).first + IF x = b /\ k = 1 THEN 1 ELSE 0
           /\ \A i \in 1..MaxPlace :
                Entry(after, x).counts[i] = Entry(entries, x).counts[i] + IF x = b /\ i = k THEN 1 ELSE 0
  BY <1>1, <1>2, <1>3, PlaceTyped
<1>5. ASSUME NEW x \in Bot, NEW places
      PROVE  /\ Cardinality(Match(res, x, places, n)) \in Nat
             /\ Cardinality(Match(res, x, places, n + 1)) = Cardinality(Match(res, x, places, n))
                  + IF x = b /\ k \in places THEN 1 ELSE 0
  BY MatchStep DEF b, k
<1>6. ASSUME NEW x \in Bot
      PROVE  /\ Entry(after, x).played = Entry(old, x).played + Cardinality(Match(res, x, 1..MaxPlace, n + 1))
             /\ Entry(after, x).first = Entry(old, x).first + Cardinality(Match(res, x, {1}, n + 1))
             /\ \A i \in 1..MaxPlace :
                  Entry(after, x).counts[i] = Entry(old, x).counts[i] + Cardinality(Match(res, x, {i}, n + 1))
  <2>1. /\ Entry(old, x).played \in Nat /\ Entry(old, x).first \in Nat
        /\ Entry(old, x).counts \in [1..MaxPlace -> Nat]
    BY EntryTyped DEF Entries
  <2>2. /\ Entry(entries, x).played = Entry(old, x).played + Cardinality(Match(res, x, 1..MaxPlace, n))
        /\ Entry(entries, x).first = Entry(old, x).first + Cardinality(Match(res, x, {1}, n))
        /\ \A i \in 1..MaxPlace :
             Entry(entries, x).counts[i] = Entry(old, x).counts[i] + Cardinality(Match(res, x, {i}, n))
    BY DEF Counts
  <2>3. Entry(after, x).played = Entry(old, x).played + Cardinality(Match(res, x, 1..MaxPlace, n + 1))
    <3>1. /\ Cardinality(Match(res, x, 1..MaxPlace, n)) \in Nat
          /\ Cardinality(Match(res, x, 1..MaxPlace, n + 1)) = Cardinality(Match(res, x, 1..MaxPlace, n))
               + IF x = b THEN 1 ELSE 0
      BY <1>1, <1>5
    <3>2. /\ Entry(after, x).played = Entry(entries, x).played + IF x = b THEN 1 ELSE 0
          /\ Entry(entries, x).played = Entry(old, x).played + Cardinality(Match(res, x, 1..MaxPlace, n))
          /\ Entry(old, x).played \in Nat
      BY <1>4, <2>1, <2>2
    <3> QED
      BY <3>1, <3>2
  <2>4. Entry(after, x).first = Entry(old, x).first + Cardinality(Match(res, x, {1}, n + 1))
    <3>1. /\ Cardinality(Match(res, x, {1}, n)) \in Nat
          /\ Cardinality(Match(res, x, {1}, n + 1)) = Cardinality(Match(res, x, {1}, n))
               + IF x = b /\ k = 1 THEN 1 ELSE 0
      BY <1>5
    <3>2. /\ Entry(after, x).first = Entry(entries, x).first + IF x = b /\ k = 1 THEN 1 ELSE 0
          /\ Entry(entries, x).first = Entry(old, x).first + Cardinality(Match(res, x, {1}, n))
          /\ Entry(old, x).first \in Nat
      BY <1>4, <2>1, <2>2
    <3> QED
      BY <3>1, <3>2
  <2>5. ASSUME NEW i \in 1..MaxPlace
        PROVE  Entry(after, x).counts[i] = Entry(old, x).counts[i] + Cardinality(Match(res, x, {i}, n + 1))
    <3>1. /\ Cardinality(Match(res, x, {i}, n)) \in Nat
          /\ Cardinality(Match(res, x, {i}, n + 1)) = Cardinality(Match(res, x, {i}, n))
               + IF x = b /\ i = k THEN 1 ELSE 0
      BY <1>5
    <3>2. /\ Entry(after, x).counts[i] = Entry(entries, x).counts[i] + IF x = b /\ i = k THEN 1 ELSE 0
          /\ Entry(entries, x).counts[i] = Entry(old, x).counts[i] + Cardinality(Match(res, x, {i}, n))
          /\ Entry(old, x).counts[i] \in Nat
      BY <1>4, <2>1, <2>2
    <3> QED
      BY <3>1, <3>2
  <2> QED
    BY <2>3, <2>4, <2>5
<1> QED
  BY <1>4, <1>6 DEF Counts, after

LEMMA PlaceAllCounts ==
  ASSUME NEW res \in Offer, Taken(res), NEW old, Table(old)
  PROVE  Counts(placeAll(old, res), old, res, Len(res.placements))
<1> DEFINE N == Len(res.placements)
           less == {p \in Nat \X Nat : p[1] < p[2]}
<1>1. N \in Nat
  BY Typing
<1>2. PICK f : Loop(old, res, f, N) /\ placeAll(old, res) = f[N]
  BY <1>1, PlaceAllLoops
<1> HIDE DEF N
<1>3. \A k \in 0..N : f[k] = IF k = 0 THEN old ELSE NextTable(f[k - 1], res, k)
  BY <1>2 DEF Loop
<1> DEFINE wrong == {k \in 0..N : ~Counts(f[k], old, res, k)}
<1> SUFFICES ASSUME N \in wrong PROVE FALSE
  <2>1. N \in 0..N
    BY <1>1
  <2> QED
    BY <1>2, <2>1 DEF N
<1>4. IsWellFoundedOn(less, Nat)
  BY NatLessThanWellFounded DEF OpToRel
<1>5. PICK k \in wrong : \A j \in wrong : ~(<<j, k>> \in less)
  <2>1. wrong \subseteq Nat
    BY <1>1
  <2> HIDE DEF wrong, less
  <2> QED
    BY <1>4, <2>1, WFMin
<1>6. CASE k = 0
  <2>1. f[0] = old
    BY <1>1, <1>3
  <2>2. ASSUME NEW x \in Bot, NEW places
        PROVE  Cardinality(Match(res, x, places, 0)) = 0
    BY MatchStep
  <2>3. ASSUME NEW x \in Bot
        PROVE  /\ Entry(old, x).played \in Nat /\ Entry(old, x).first \in Nat
               /\ \A i \in 1..MaxPlace : Entry(old, x).counts[i] \in Nat
    BY EntryTyped, Zenon
  <2>4. Counts(old, old, res, 0)
    BY <2>2, <2>3 DEF Counts
  <2> QED
    BY <1>5, <1>6, <2>1, <2>4
<1>7. CASE k # 0
  <2>1. k - 1 \in 0..N /\ k - 1 \in Nat /\ (k - 1) + 1 = k /\ k <= N /\ k - 1 < k /\ k \in Nat
    BY <1>1, <1>7
  <2>2. Counts(f[k - 1], old, res, k - 1)
    BY <1>5, <2>1
  <2>3. f[k] = NextTable(f[k - 1], res, k)
    BY <1>3, <1>7, <2>1
  <2>4. Counts(NextTable(f[k - 1], res, (k - 1) + 1), old, res, (k - 1) + 1)
    <3>1. (k - 1) + 1 <= Len(res.placements)
      BY <2>1 DEF N
    <3> HIDE DEF wrong
    <3> QED
      BY <2>1, <2>2, <3>1, NextTableCounts
  <2> QED
    BY <1>5, <2>1, <2>3, <2>4
<1> QED
  BY <1>6, <1>7

-----------------------------------------------------------------------------
(* Which offers count *)

LEMMA DistinctPlayers ==
  ASSUME NEW res \in Offer
  PROVE  Cardinality({res.placements[i].player : i \in DOMAIN res.placements}) = Len(res.placements)
           <=> \A i \in DOMAIN res.placements :
                 \A j \in 1..(i - 1) : res.placements[j].player # res.placements[i].player
<1> DEFINE N == Len(res.placements)
           player(i) == res.placements[i].player
           D == {player(i) : i \in 1..N}
           f == [i \in 1..N |-> player(i)]
<1>1. N \in Nat /\ DOMAIN res.placements = 1..N
  BY Typing
<1> HIDE DEF N
<1>2. IsFiniteSet(1..N) /\ Cardinality(1..N) = N
  <2>1. IsFiniteSet(1..N) /\ Cardinality(1..N) = IF 1 > N THEN 0 ELSE N - 1 + 1
    BY <1>1, FS_Interval
  <2> QED
    BY <1>1, <2>1
<1>3. f \in Surjection(1..N, D)
  BY DEF Surjection
<1>4. Cardinality(D) = N <=> f \in Injection(1..N, D)
  BY <1>2, <1>3, FS_Surjection
<1>5. f \in Injection(1..N, D) <=> \A i, j \in 1..N : player(i) = player(j) => i = j
  <2>1. f \in [1..N -> D] /\ DOMAIN f = 1..N /\ \A i \in 1..N : f[i] = player(i)
    OBVIOUS
  <2> HIDE DEF f, D, player
  <2> QED
    BY <2>1 DEF Injection, IsInjective
<1>6. (\A i, j \in 1..N : player(i) = player(j) => i = j)
        <=> \A i \in 1..N : \A j \in 1..(i - 1) : player(j) # player(i)
  <2> HIDE DEF player
  <2> QED
    BY <1>1
<1> QED
  BY <1>1, <1>4, <1>5, <1>6 DEF N

\* What the code checks is what the reference calls valid.
LEMMA ValidIsAccepted ==
  ASSUME NEW res \in Offer
  PROVE  Valid(res) <=> Taken(res)
<1> DEFINE pl == res.placements
           distinct == \A i \in DOMAIN pl : \A j \in 1..(i - 1) : pl[j].player # pl[i].player
<1>1. Cardinality({pl[i].player : i \in DOMAIN pl}) = Len(pl) <=> distinct
  BY DistinctPlayers
<1>2. NoBot \notin {res.bots[p] : p \in PlayerID} <=> hasBotRankingIdentity(res)
  BY DEF hasBotRankingIdentity
<1>3. \A i \in DOMAIN pl : /\ pl[i].place >= 1 <=> pl[i].place > 0
                           /\ pl[i].player # NoBot <=> pl[i].player \in PlayerID
  <2>1. \A i \in DOMAIN pl : pl[i].place \in 0..MaxPlace /\ pl[i].player \in PlayerID \cup {NoBot}
    BY Typing
  <2> QED
    BY <2>1, Places
<1> HIDE DEF distinct
<1>4. buildRankingUpdate(res) <=> /\ res.status = "completed" /\ pl # << >> /\ distinct
                                  /\ \A i \in DOMAIN pl : pl[i].place > 0 /\ pl[i].player \in PlayerID
  BY DEF buildRankingUpdate, distinct
<1> QED
  BY <1>1, <1>2, <1>3, <1>4 DEF Valid, Taken

LEMMA FreshSeats ==
  ASSUME NEW S, IsFiniteSet(S), NEW M, IsFiniteSet(M), NEW i, NEW T,
         \A e : e \in T <=> \E k \in M : e = <<i, k>>,
         \A k \in M : <<i, k>> \notin S
  PROVE  IsFiniteSet(S \cup T) /\ Cardinality(S \cup T) = Cardinality(S) + Cardinality(M)
<1> DEFINE f == [k \in M |-> <<i, k>>]
<1>1. f \in Bijection(M, T)
  BY DEF Bijection, Injection, Surjection, IsInjective
<1>2. IsFiniteSet(T) /\ Cardinality(T) = Cardinality(M)
  BY <1>1, FS_Bijection DEF ExistsBijection
<1>3. S \cap T = {}
  OBVIOUS
<1>4. /\ IsFiniteSet(S \cup T)
      /\ Cardinality(S \cup T) = Cardinality(S) + Cardinality(T) - Cardinality(S \cap T)
  BY <1>2, FS_Union
<1>5. Cardinality(S) \in Nat /\ Cardinality(M) \in Nat /\ Cardinality(S \cap T) = 0
  BY <1>3, FS_CardinalityType, FS_EmptySet
<1> QED
  BY <1>2, <1>4, <1>5

\* The offer that counts is the first valid one of a match.
Counting(res) == Valid(res) /\ MatchOf[res.run] \notin ValidMatches

LEMMA UnionOneMore ==
  ASSUME NEW f, NEW S, NEW x
  PROVE  UNION {f[i] : i \in S \cup {x}} = (UNION {f[i] : i \in S}) \cup f[x]
  OBVIOUS

LEMMA OffersGrow ==
  ASSUME offered \in Seq(Offer), NEW res \in Offer, offered' = Append(offered, res)
  PROVE  /\ offered' \in Seq(Offer)
         /\ ValidMatches' = IF Valid(res) THEN ValidMatches \cup {MatchOf[res.run]} ELSE ValidMatches
         /\ Counted' = IF Counting(res) THEN Counted \cup {Len(offered) + 1} ELSE Counted
         /\ \A b, places :
              Seats(b, places)' =
                IF Counting(res)
                THEN Seats(b, places) \cup
                     {<<Len(offered) + 1, k>> : k \in Match(res, b, places, Len(res.placements))}
                ELSE Seats(b, places)
<1> DEFINE L == Len(offered)
           off == Append(offered, res)
<1>1. /\ L \in Nat /\ DOMAIN offered = 1..L /\ off \in Seq(Offer) /\ DOMAIN off = 1..(L + 1)
      /\ \A i \in 1..L : off[i] = offered[i]
  OBVIOUS
<1>2. off[L + 1] = res
  OBVIOUS
<1>3. \A i : i \in 1..(L + 1) <=> i \in 1..L \/ i = L + 1
  BY <1>1
<1>4. L + 1 \notin 1..L /\ 1..((L + 1) - 1) = 1..L /\ \A i \in 1..L : 1..(i - 1) \subseteq 1..L
  BY <1>1
<1>5. Counted \subseteq 1..L
  BY <1>1 DEF Counted
<1> HIDE DEF L, off
<1>6. ValidMatches' = IF Valid(res) THEN ValidMatches \cup {MatchOf[res.run]} ELSE ValidMatches
  <2>1. ValidMatches' = {MatchOf[off[i].run] : i \in {j \in 1..(L + 1) : Valid(off[j])}}
    BY <1>1 DEF ValidMatches, off
  <2>2. ValidMatches = {MatchOf[offered[i].run] : i \in {j \in 1..L : Valid(offered[j])}}
    BY <1>1 DEF ValidMatches
  <2> QED
    BY <1>1, <1>2, <1>3, <2>1, <2>2
<1>7. Counted' = IF Counting(res) THEN Counted \cup {L + 1} ELSE Counted
  <2>1. Counted' = {i \in 1..(L + 1) :
                      /\ Valid(off[i])
                      /\ \A j \in 1..(i - 1) : Valid(off[j]) => MatchOf[off[j].run] # MatchOf[off[i].run]}
    BY <1>1 DEF Counted, off
  <2>2. \A i \in 1..L : i \in Counted' <=> i \in Counted
    <3>1. Counted = {i \in 1..L :
                      /\ Valid(offered[i])
                      /\ \A j \in 1..(i - 1) : Valid(offered[j]) => MatchOf[offered[j].run] # MatchOf[offered[i].run]}
      BY <1>1 DEF Counted
    <3> QED
      BY <1>1, <1>3, <1>4, <2>1, <3>1
  <2>3. L + 1 \in Counted' <=> Counting(res)
    <3>1. MatchOf[res.run] \notin ValidMatches
            <=> \A j \in 1..L : Valid(offered[j]) => MatchOf[offered[j].run] # MatchOf[res.run]
      BY <1>1 DEF ValidMatches
    <3> QED
      BY <1>1, <1>2, <1>3, <1>4, <2>1, <3>1 DEF Counting
  <2>4. Counted' \subseteq 1..(L + 1)
    BY <2>1
  <2>5. \A i : i \in Counted' <=> i \in Counted \/ (i = L + 1 /\ Counting(res))
    BY <1>3, <1>4, <1>5, <2>2, <2>3, <2>4, Zenon
  <2> QED
    BY <2>5
<1>8. ASSUME NEW b, NEW places
      PROVE  Seats(b, places)' = IF Counting(res)
                                 THEN Seats(b, places) \cup
                                      {<<L + 1, k>> : k \in Match(res, b, places, Len(res.placements))}
                                 ELSE Seats(b, places)
  <2> DEFINE at(r) == {n \in DOMAIN r.placements : /\ r.bots[r.placements[n].player] = b
                                                   /\ r.placements[n].place \in places}
             seat == [i \in 1..(L + 1) |-> {<<i, k>> : k \in at(off[i])}]
  <2>1. Seats(b, places)' = UNION {seat[i] : i \in Counted'}
    <3>1. Seats(b, places)' = UNION {{<<i, k>> : k \in at(off[i])} : i \in Counted'}
      BY DEF Seats, off
    <3>2. \A i \in Counted' : seat[i] = {<<i, k>> : k \in at(off[i])}
      BY <1>3, <1>5, <1>7
    <3> HIDE DEF seat, at
    <3> QED
      BY <3>1, <3>2
  <2>2. Seats(b, places) = UNION {{<<i, k>> : k \in at(offered[i])} : i \in Counted}
    BY DEF Seats
  <2>3. at(res) = Match(res, b, places, Len(res.placements))
    BY Typing DEF Match
  <2>4. \A i \in Counted : at(off[i]) = at(offered[i])
    BY <1>1, <1>5
  <2>5. at(off[L + 1]) = at(res)
    BY <1>2
  <2> HIDE DEF at
  <2>6. UNION {seat[i] : i \in Counted} = Seats(b, places)
    <3>1. \A i \in Counted : seat[i] = {<<i, k>> : k \in at(offered[i])}
      BY <1>3, <1>5, <2>4
    <3> HIDE DEF seat
    <3> QED
      BY <2>2, <3>1
  <2>7. seat[L + 1] = {<<L + 1, k>> : k \in Match(res, b, places, Len(res.placements))}
    BY <1>3, <2>3, <2>5
  <2> HIDE DEF seat
  <2>8. CASE Counting(res)
    <3>1. Counted' = Counted \cup {L + 1}
      BY <1>7, <2>8
    <3>2. Seats(b, places)' = Seats(b, places) \cup seat[L + 1]
      BY <2>1, <2>6, <3>1, UnionOneMore
    <3>3. Seats(b, places)' = Seats(b, places) \cup
                                {<<L + 1, k>> : k \in Match(res, b, places, Len(res.placements))}
      BY <2>7, <3>2
    <3> QED
      BY <2>8, <3>3, Zenon
  <2>9. CASE ~Counting(res)
    BY <1>7, <2>1, <2>6, <2>9
  <2> QED
    BY <2>8, <2>9
<1> QED
  BY <1>1, <1>6, <1>7, <1>8 DEF L, off

-----------------------------------------------------------------------------
(* The invariant *)

LEMMA TableInvInit == TableInit => TableInv
<1> SUFFICES ASSUME TableInit PROVE TableInv
  OBVIOUS
<1>1. offered = << >> /\ DOMAIN offered = {}
  BY DEF TableInit
<1>2. snapshot.runs = << >> /\ snapshot.matches = << >> /\ snapshot.entries = << >>
  BY DEF TableInit, newRankingSnapshot
<1>3. Counted = {} /\ ValidMatches = {}
  BY <1>1 DEF Counted, ValidMatches
<1>4. \A b, places : Seats(b, places) = {}
  BY <1>3 DEF Seats
<1>5. Table(snapshot.entries) /\ \A b \in Bot : Entry(snapshot.entries, b) = NewEntry
  <2>1. DOMAIN snapshot.entries = {}
    BY <1>2
  <2> QED
    BY <2>1, Zenon DEF Table, Entry
<1>6. \A x : ~Contains(<< >>, x)
  BY DEF Contains
<1>7. IsFiniteSet({}) /\ Cardinality({}) = 0
  BY FS_EmptySet
<1>8. EntriesCountPlacements
  <2>1. NewEntry.played = 0 /\ NewEntry.first = 0 /\ \A k \in 1..MaxPlace : NewEntry.counts[k] = 0
    BY DEF NewEntry
  <2> QED
    BY <1>2, <1>3, <1>4, <1>5, <1>7, <2>1 DEF EntriesCountPlacements
<1>9. << >> \in Seq(Offer) /\ << >> \in Seq(RunID) /\ << >> \in Seq({MatchOf[r] : r \in RunID})
  BY EmptySeq
<1> QED
  BY <1>1, <1>2, <1>3, <1>4, <1>5, <1>6, <1>7, <1>8, <1>9 DEF TableInv

LEMMA ContainsMore ==
  ASSUME NEW S, NEW s \in Seq(S), NEW e \in S
  PROVE  \A x : Contains(Append(s, e), x) <=> Contains(s, x) \/ x = e
<1>1. /\ Len(s) \in Nat /\ Len(Append(s, e)) = Len(s) + 1 /\ Append(s, e)[Len(s) + 1] = e
      /\ \A i \in 1..Len(s) : Append(s, e)[i] = s[i]
  OBVIOUS
<1>2. \A i : i \in 1..(Len(s) + 1) <=> i \in 1..Len(s) \/ i = Len(s) + 1
  BY <1>1
<1> QED
  BY <1>1, <1>2 DEF Contains

\* An offer that counts: the table grows by its placements.
LEMMA CountingStep ==
  ASSUME TableInv, NEW res \in Offer, Counting(res), offered' = Append(offered, res),
         snapshot' = [runs |-> Append(snapshot.runs, res.run),
                      matches |-> Append(snapshot.matches, MatchOf[res.run]),
                      entries |-> placeAll(snapshot.entries, res)]
  PROVE  TableInv'
<1> DEFINE N == Len(res.placements)
           es == snapshot.entries
           as == placeAll(snapshot.entries, res)
<1>1. Taken(res) /\ Valid(res)
  BY ValidIsAccepted DEF Counting
<1>2. Counts(as, es, res, N) /\ Table(es)
  BY <1>1, PlaceAllCounts DEF TableInv
<1>3. snapshot'.runs = Append(snapshot.runs, res.run) /\ snapshot'.entries = as
      /\ snapshot'.matches = Append(snapshot.matches, MatchOf[res.run])
  OBVIOUS
<1>4. /\ offered' \in Seq(Offer)
      /\ ValidMatches' = ValidMatches \cup {MatchOf[res.run]}
      /\ Counted' = Counted \cup {Len(offered) + 1}
      /\ \A b, places : Seats(b, places)' = Seats(b, places) \cup {<<Len(offered) + 1, k>> : k \in Match(res, b, places, N)}
  BY <1>1, OffersGrow DEF TableInv
<1>5. res.run \in RunID /\ MatchOf[res.run] \in {MatchOf[r] : r \in RunID} /\ N \in Nat
  BY Typing
<1>6. Len(offered) + 1 \notin Counted /\ IsFiniteSet(Counted) /\ Len(offered) \in Nat
  <2>1. Len(offered) \in Nat /\ Counted \in SUBSET (1..Len(offered))
    BY DEF TableInv, Counted
  <2>2. IsFiniteSet(1..Len(offered))
    BY <2>1, FS_Interval
  <2>3. IsFiniteSet(Counted)
    BY <2>1, <2>2, FS_Subset
  <2> QED
    BY <2>1, <2>3
<1> HIDE DEF as, es, N
<1>7. ASSUME NEW b, NEW places
      PROVE  /\ IsFiniteSet(Seats(b, places)')
             /\ Cardinality(Seats(b, places)') = Cardinality(Seats(b, places)) + Cardinality(Match(res, b, places, N))
  <2>1. IsFiniteSet(Seats(b, places))
    BY DEF TableInv
  <2>2. \A k : <<Len(offered) + 1, k>> \notin Seats(b, places)
    <3>1. \A i, k : <<i, k>> \in Seats(b, places) => i \in Counted
      BY DEF Seats
    <3> QED
      BY <1>6, <3>1, Zenon
  <2>3. IsFiniteSet(Match(res, b, places, N))
    BY <1>5, MatchStep
  <2> DEFINE next == Len(offered) + 1
             more == Seats(b, places) \cup {<<next, k>> : k \in Match(res, b, places, N)}
  <2>5. Seats(b, places)' = more /\ \A k : <<next, k>> \notin Seats(b, places)
    BY <1>4, <2>2
  <2> HIDE DEF next
  <2>4. IsFiniteSet(more) /\ Cardinality(more) = Cardinality(Seats(b, places)) + Cardinality(Match(res, b, places, N))
    <3> DEFINE S == Seats(b, places)
               M == Match(res, b, places, N)
               T == {<<next, k>> : k \in M}
    <3>1. IsFiniteSet(S) /\ IsFiniteSet(M) /\ \A k \in M : <<next, k>> \notin S
      BY <2>1, <2>3, <2>5
    <3>2. \A e : e \in T <=> \E k \in M : e = <<next, k>>
      OBVIOUS
    <3> HIDE DEF S, M, T
    <3>3. IsFiniteSet(S \cup T) /\ Cardinality(S \cup T) = Cardinality(S) + Cardinality(M)
      BY <3>1, <3>2, FreshSeats
    <3> QED
      BY <3>3 DEF S, M, T
  <2> HIDE DEF more
  <2> QED
    BY <2>4, <2>5
<1>8. Len(snapshot'.matches) = Cardinality(Counted')
  <2>1. Cardinality(Counted') = Cardinality(Counted) + 1
    BY <1>4, <1>6, FS_AddElement
  <2>2. Len(snapshot.matches) = Cardinality(Counted) /\ snapshot.matches \in Seq({MatchOf[r] : r \in RunID})
    BY DEF TableInv, EntriesCountPlacements
  <2>3. Len(Append(snapshot.matches, MatchOf[res.run])) = Len(snapshot.matches) + 1
    BY <1>5, <2>2
  <2> QED
    BY <1>3, <2>1, <2>2, <2>3
<1>9. ASSUME NEW b \in Bot
      PROVE  /\ Entry(as, b).played = Cardinality(Seats(b, 1..MaxPlace)')
             /\ Entry(as, b).first = Cardinality(Seats(b, {1})')
             /\ \A k \in 1..MaxPlace : Entry(as, b).counts[k] = Cardinality(Seats(b, {k})')
  <2>1. /\ Entry(as, b).played = Entry(es, b).played + Cardinality(Match(res, b, 1..MaxPlace, N))
        /\ Entry(as, b).first = Entry(es, b).first + Cardinality(Match(res, b, {1}, N))
        /\ \A k \in 1..MaxPlace : Entry(as, b).counts[k] = Entry(es, b).counts[k] + Cardinality(Match(res, b, {k}, N))
    BY <1>2 DEF Counts
  <2>2. /\ Entry(es, b).played = Cardinality(Seats(b, 1..MaxPlace))
        /\ Entry(es, b).first = Cardinality(Seats(b, {1}))
        /\ \A k \in 1..MaxPlace : Entry(es, b).counts[k] = Cardinality(Seats(b, {k}))
    BY DEF TableInv, EntriesCountPlacements, es
  <2>3. \A places : Cardinality(Seats(b, places)') = Cardinality(Seats(b, places)) + Cardinality(Match(res, b, places, N))
    BY <1>7
  <2> QED
    BY <2>1, <2>2, <2>3, Zenon
<1>10. EntriesCountPlacements'
  BY <1>3, <1>8, <1>9 DEF EntriesCountPlacements
<1>11. /\ \A m : Contains(snapshot'.matches, m) <=> m \in ValidMatches'
       /\ \A r \in RunID : Contains(snapshot'.runs, r) => MatchOf[r] \in ValidMatches'
  <2>1. \A m : Contains(snapshot'.matches, m) <=> Contains(snapshot.matches, m) \/ m = MatchOf[res.run]
    <3>1. snapshot.matches \in Seq({MatchOf[r] : r \in RunID})
      BY DEF TableInv
    <3>2. \A m : Contains(Append(snapshot.matches, MatchOf[res.run]), m)
                  <=> Contains(snapshot.matches, m) \/ m = MatchOf[res.run]
      BY <1>5, <3>1, ContainsMore
    <3> QED
      BY <1>3, <3>2
  <2>2. \A r : Contains(snapshot'.runs, r) <=> Contains(snapshot.runs, r) \/ r = res.run
    <3>1. snapshot.runs \in Seq(RunID)
      BY DEF TableInv
    <3>2. \A r : Contains(Append(snapshot.runs, res.run), r) <=> Contains(snapshot.runs, r) \/ r = res.run
      BY <1>5, <3>1, ContainsMore
    <3> QED
      BY <1>3, <3>2
  <2>3. /\ \A m : Contains(snapshot.matches, m) <=> m \in ValidMatches
        /\ \A r \in RunID : Contains(snapshot.runs, r) => MatchOf[r] \in ValidMatches
    BY DEF TableInv
  <2> QED
    BY <1>4, <2>1, <2>2, <2>3
<1>12. snapshot'.runs \in Seq(RunID) /\ snapshot'.matches \in Seq({MatchOf[r] : r \in RunID})
  BY <1>3, <1>5 DEF TableInv
<1>13. Table(snapshot'.entries)
  BY <1>2, <1>3 DEF Counts
<1> QED
  BY <1>4, <1>7, <1>10, <1>11, <1>12, <1>13 DEF TableInv

\* An offer that does not count: refused, or of a match that was counted.
LEMMA IdleStep ==
  ASSUME TableInv, NEW res \in Offer, ~Counting(res), offered' = Append(offered, res), snapshot' = snapshot
  PROVE  TableInv'
<1>1. /\ offered' \in Seq(Offer) /\ Counted' = Counted /\ ValidMatches' = ValidMatches
      /\ \A b, places : Seats(b, places)' = Seats(b, places)
  BY OffersGrow DEF TableInv, Counting
<1>2. EntriesCountPlacements'
  BY <1>1 DEF TableInv, EntriesCountPlacements
<1> QED
  BY <1>1, <1>2 DEF TableInv

LEMMA TableInvStep == TableInv /\ [TableNext]_<<snapshot, offered>> => TableInv'
<1> SUFFICES ASSUME TableInv, [TableNext]_<<snapshot, offered>> PROVE TableInv'
  OBVIOUS
<1>1. CASE UNCHANGED <<snapshot, offered>>
  <2>1. /\ offered' = offered /\ snapshot' = snapshot /\ Counted' = Counted /\ ValidMatches' = ValidMatches
        /\ \A b, places : Seats(b, places)' = Seats(b, places)
    BY <1>1 DEF Counted, ValidMatches, Seats
  <2> QED
    BY <2>1 DEF TableInv, EntriesCountPlacements
<1>2. ASSUME NEW res \in Offer, ApplyCompleted(res)
      PROVE  TableInv'
  <2>1. offered' = Append(offered, res)
        /\ snapshot' = IF Taken(res) THEN applyRankingUpdate(snapshot, res) ELSE snapshot
    BY <1>2 DEF ApplyCompleted, Taken
  <2>2. Valid(res) <=> Taken(res)
    BY ValidIsAccepted
  <2>3. CASE Counting(res)
    <3>1. ~Contains(snapshot.runs, res.run) /\ ~Contains(snapshot.matches, MatchOf[res.run])
      BY <2>3, Typing DEF TableInv, Counting
    <3>2. snapshot' = [runs |-> Append(snapshot.runs, res.run),
                       matches |-> Append(snapshot.matches, MatchOf[res.run]),
                       entries |-> placeAll(snapshot.entries, res)]
      BY <2>1, <2>2, <2>3, <3>1 DEF applyRankingUpdate, Counting
    <3> QED
      BY <2>1, <2>3, <3>2, CountingStep
  <2>4. CASE ~Counting(res)
    <3>1. Valid(res) => Contains(snapshot.matches, MatchOf[res.run])
      BY <2>4 DEF TableInv, Counting
    <3>2. snapshot' = snapshot
      BY <2>1, <2>2, <3>1 DEF applyRankingUpdate
    <3> QED
      BY <2>1, <2>4, <3>2, IdleStep
  <2> QED
    BY <2>3, <2>4
<1> QED
  BY <1>1, <1>2 DEF TableNext

\* The table of applyRankingUpdate, built one placement at a time, is at every
\* moment the histogram of the placements of the matches that count.
THEOREM EntriesAlwaysCount == TableSpec => []EntriesCountPlacements
<1>1. TableInv => EntriesCountPlacements
  BY DEF TableInv
<1> QED
  BY TableInvInit, TableInvStep, <1>1, PTL DEF TableSpec

-----------------------------------------------------------------------------
(* Placements *)

\* Nobody is better than one that is better; who is better than another is also
\* better than a third or the third is better than the other.
Ranks(better) ==
  /\ \A p, q \in Player : <<p, q>> \in better => <<q, p>> \notin better
  /\ \A p, q, r \in Player : <<p, q>> \in better => <<p, r>> \in better \/ <<r, q>> \in better

\* p comes before q in the placements.
Ahead(better, p, q) == <<p, q>> \in better \/ (<<q, p>> \notin better /\ p < q)

Sorted(better, s) ==
  /\ s \in [Player -> Player]
  /\ {s[i] : i \in Player} = Player
  /\ \A i, j \in Player : i < j => Ahead(better, s[i], s[j])

LEMMA AheadIsTotal ==
  ASSUME NEW better, Ranks(better)
  PROVE  /\ \A p \in Player : ~Ahead(better, p, p)
         /\ \A p, q \in Player : p # q => Ahead(better, p, q) \/ Ahead(better, q, p)
         /\ \A p, q \in Player : Ahead(better, p, q) => ~Ahead(better, q, p)
         /\ \A p, q, r \in Player : Ahead(better, p, q) /\ Ahead(better, q, r) => Ahead(better, p, r)
<1>1. Player \subseteq Int
  BY DEF Player
<1>2. ASSUME NEW p \in Player PROVE ~Ahead(better, p, p)
  <2>1. <<p, p>> \notin better /\ ~(p < p)
    BY <1>1 DEF Ranks
  <2> QED
    BY <2>1 DEF Ahead
<1>3. \A p, q \in Player : p # q => Ahead(better, p, q) \/ Ahead(better, q, p)
  BY <1>1 DEF Ahead
<1>4. ASSUME NEW p \in Player, NEW q \in Player, Ahead(better, p, q)
      PROVE  ~Ahead(better, q, p)
  <2>1. p \in Int /\ q \in Int
    BY <1>1
  <2>2. <<p, q>> \in better => <<q, p>> \notin better
    BY DEF Ranks
  <2> QED
    BY <1>4, <2>1, <2>2 DEF Ahead
<1>5. ASSUME NEW p \in Player, NEW q \in Player, NEW r \in Player,
             Ahead(better, p, q), Ahead(better, q, r)
      PROVE  Ahead(better, p, r)
  <2>1. p \in Int /\ q \in Int /\ r \in Int
    BY <1>1
  <2>2. CASE <<p, q>> \in better
    <3>1. <<p, r>> \in better \/ <<r, q>> \in better
      BY <2>2 DEF Ranks
    <3>2. <<r, q>> \notin better
      BY <1>5 DEF Ahead, Ranks
    <3> QED
      BY <3>1, <3>2 DEF Ahead
  <2>3. CASE <<p, q>> \notin better /\ <<q, r>> \in better
    <3>1. <<q, p>> \in better \/ <<p, r>> \in better
      BY <2>3 DEF Ranks
    <3> QED
      BY <1>5, <2>3, <3>1 DEF Ahead
  <2>4. CASE <<p, q>> \notin better /\ <<q, r>> \notin better
    <3>1. p < q /\ q < r /\ <<q, p>> \notin better /\ <<r, q>> \notin better
      BY <1>5, <2>4 DEF Ahead
    <3>2. p < r
      BY <2>1, <3>1
    <3>3. <<r, p>> \notin better
      BY <3>1 DEF Ranks
    <3> QED
      BY <3>2, <3>3 DEF Ahead
  <2> QED
    BY <2>2, <2>3, <2>4
<1> QED
  BY <1>2, <1>3, <1>4, <1>5

LEMMA PlayersAreFinite ==
  ASSUME NPlayers \in Nat
  PROVE  IsFiniteSet(Player) /\ Cardinality(Player) = NPlayers
<1>1. IsFiniteSet(1..NPlayers) /\ Cardinality(1..NPlayers) = IF 1 > NPlayers THEN 0 ELSE NPlayers - 1 + 1
  BY FS_Interval
<1> QED
  BY <1>1 DEF Player

\* The players can be sorted: by how many are ahead of each.
LEMMA SortingExists ==
  ASSUME NPlayers \in Nat, NEW better, Ranks(better)
  PROVE  \E s : Sorted(better, s)
<1> DEFINE before(p) == {q \in Player : Ahead(better, q, p)}
           rank == [p \in Player |-> 1 + Cardinality(before(p))]
           s == [i \in Player |-> CHOOSE p \in Player : rank[p] = i]
<1>1. ASSUME NEW p \in Player
      PROVE  IsFiniteSet(before(p)) /\ Cardinality(before(p)) \in Nat /\ Cardinality(before(p)) < NPlayers
  <2>1. before(p) \in SUBSET (Player \ {p})
    BY AheadIsTotal
  <2>2. IsFiniteSet(Player \ {p}) /\ Cardinality(Player \ {p}) = NPlayers - 1
    BY PlayersAreFinite, FS_RemoveElement
  <2> HIDE DEF before
  <2>3. IsFiniteSet(before(p)) /\ Cardinality(before(p)) <= NPlayers - 1
    BY <2>1, <2>2, FS_Subset
  <2>4. Cardinality(before(p)) \in Nat
    BY <2>3, FS_CardinalityType
  <2> QED
    BY <2>3, <2>4
<1>2. ASSUME NEW p \in Player, NEW q \in Player, Ahead(better, p, q)
      PROVE  Cardinality(before(p)) < Cardinality(before(q))
  <2>1. before(p) \subseteq before(q) /\ p \in before(q) /\ p \notin before(p)
    BY <1>2, AheadIsTotal
  <2>2. IsFiniteSet(before(p)) /\ IsFiniteSet(before(q)) /\ Cardinality(before(p)) \in Nat /\ Cardinality(before(q)) \in Nat
    BY <1>1
  <2> HIDE DEF before
  <2>3. Cardinality(before(p)) <= Cardinality(before(q)) /\ Cardinality(before(q)) # Cardinality(before(p))
    BY <2>1, <2>2, FS_Subset
  <2> QED
    BY <2>2, <2>3
<1> HIDE DEF before
<1>3. rank \in [Player -> Player]
  BY <1>1 DEF Player
<1>4. \A p, q \in Player : Ahead(better, p, q) => rank[p] < rank[q]
  <2> SUFFICES ASSUME NEW p \in Player, NEW q \in Player, Ahead(better, p, q)
               PROVE  rank[p] < rank[q]
    OBVIOUS
  <2>1. rank[p] = 1 + Cardinality(before(p)) /\ rank[q] = 1 + Cardinality(before(q))
    OBVIOUS
  <2> HIDE DEF rank
  <2> QED
    BY <1>1, <1>2, <2>1
<1> HIDE DEF rank
<1>5. \A p, q \in Player : rank[p] = rank[q] => p = q
  <2>1. \A p \in Player : rank[p] \in Int
    BY <1>3 DEF Player
  <2> QED
    BY <1>4, <2>1, AheadIsTotal
<1>6. \A i \in Player : \E p \in Player : rank[p] = i
  <2>1. rank \in Injection(Player, Player)
    BY <1>3, <1>5 DEF Injection, IsInjective
  <2>2. rank \in Surjection(Player, Player)
    BY <2>1, PlayersAreFinite, FS_Injection
  <2> QED
    BY <2>2 DEF Surjection
<1>7. \A i \in Player : s[i] \in Player /\ rank[s[i]] = i
  BY <1>6
<1>8. s \in [Player -> Player]
  BY <1>7
<1> HIDE DEF s
<1>9. {s[i] : i \in Player} = Player
  <2>1. \A p \in Player : rank[p] \in Player /\ s[rank[p]] = p
    BY <1>3, <1>5, <1>7
  <2> QED
    BY <1>7, <2>1
<1>10. \A i, j \in Player : i < j => Ahead(better, s[i], s[j])
  <2> SUFFICES ASSUME NEW i \in Player, NEW j \in Player, i < j
               PROVE  Ahead(better, s[i], s[j])
    OBVIOUS
  <2>1. i \in Int /\ j \in Int
    BY DEF Player
  <2>2. s[i] # s[j] /\ ~(rank[s[j]] < rank[s[i]])
    BY <1>7, <2>1
  <2> QED
    BY <1>4, <1>7, <2>2, AheadIsTotal
<1> QED
  BY <1>8, <1>9, <1>10 DEF Sorted

\* The players that did better than p.
BetterThan(better, p) == {q \in Player : <<q, p>> \in better}

\* In a sorted sequence, who is better than a player is before it, and who is
\* not better than the next one is as good.
LEMMA SortedPlaces ==
  ASSUME NPlayers \in Nat, NEW better, Ranks(better), NEW s, Sorted(better, s)
  PROVE  /\ \A i \in Player : IF i > 1 /\ <<s[i - 1], s[i]>> \notin better
                              THEN BetterThan(better, s[i]) = BetterThan(better, s[i - 1])
                              ELSE Cardinality(BetterThan(better, s[i])) = i - 1
<1>1. s \in [Player -> Player] /\ Player \subseteq Int
  BY DEF Sorted, Player
<1>2. \A i, j \in Player : i < j => Ahead(better, s[i], s[j]) /\ <<s[j], s[i]>> \notin better
  <2> SUFFICES ASSUME NEW i \in Player, NEW j \in Player, i < j
               PROVE  Ahead(better, s[i], s[j]) /\ <<s[j], s[i]>> \notin better
    OBVIOUS
  <2>1. Ahead(better, s[i], s[j]) /\ s[i] \in Player /\ s[j] \in Player
    BY <1>1 DEF Sorted
  <2> QED
    BY <2>1 DEF Ahead, Ranks
<1>3. \A q \in Player : \E j \in Player : s[j] = q
  BY DEF Sorted
<1>4. ASSUME NEW i \in Player, i > 1, <<s[i - 1], s[i]>> \notin better
      PROVE  BetterThan(better, s[i]) = BetterThan(better, s[i - 1])
  <2>1. i - 1 \in Player /\ i - 1 < i /\ s[i] \in Player /\ s[i - 1] \in Player
    BY <1>1, <1>4 DEF Player
  <2>2. <<s[i], s[i - 1]>> \notin better
    BY <1>2, <2>1
  <2>3. \A q \in Player : <<q, s[i]>> \in better <=> <<q, s[i - 1]>> \in better
    BY <1>4, <2>1, <2>2 DEF Ranks
  <2> QED
    BY <2>3 DEF BetterThan
<1>5. ASSUME NEW i \in Player, ~(i > 1 /\ <<s[i - 1], s[i]>> \notin better)
      PROVE  Cardinality(BetterThan(better, s[i])) = i - 1
  <2>1. i \in Nat /\ i >= 1 /\ s[i] \in Player
    BY <1>1 DEF Player
  <2>2. \A j \in 1..(i - 1) : j \in Player /\ j < i
    BY <2>1 DEF Player
  <2>3. \A j \in 1..(i - 1) : <<s[j], s[i]>> \in better
    <3> SUFFICES ASSUME NEW j \in 1..(i - 1) PROVE <<s[j], s[i]>> \in better
      OBVIOUS
    <3>1. i > 1 /\ i - 1 \in Player /\ <<s[i - 1], s[i]>> \in better /\ j \in Player
      BY <1>5, <2>1, <2>2 DEF Player
    <3>2. CASE j = i - 1
      BY <3>1, <3>2
    <3>3. CASE j # i - 1
      <4>1. j < i - 1
        BY <2>1, <3>3
      <4>2. <<s[i - 1], s[j]>> \notin better
        BY <1>2, <3>1, <4>1
      <4>3. s[j] \in Player /\ s[i - 1] \in Player
        BY <1>1, <3>1
      <4> QED
        BY <2>1, <3>1, <4>2, <4>3 DEF Ranks
    <3> QED
      BY <3>2, <3>3
  <2>4. ASSUME NEW j \in Player, <<s[j], s[i]>> \in better
        PROVE  j \in 1..(i - 1)
    <3>1. j \in Int /\ j >= 1 /\ ~(i < j)
      BY <1>1, <1>2, <2>4 DEF Player
    <3>2. j # i
      BY <2>1, <2>4 DEF Ranks
    <3> QED
      BY <2>1, <3>1, <3>2
  <2>5. BetterThan(better, s[i]) = {s[j] : j \in 1..(i - 1)}
    <3>1. BetterThan(better, s[i]) \subseteq {s[j] : j \in 1..(i - 1)}
      BY <1>3, <2>4 DEF BetterThan
    <3>2. {s[j] : j \in 1..(i - 1)} \subseteq BetterThan(better, s[i])
      BY <1>1, <2>2, <2>3 DEF BetterThan
    <3> QED
      BY <3>1, <3>2
  <2>6. \A j, k \in 1..(i - 1) : s[j] = s[k] => j = k
    <3> SUFFICES ASSUME NEW j \in 1..(i - 1), NEW k \in 1..(i - 1), s[j] = s[k] PROVE j = k
      OBVIOUS
    <3>1. j \in Player /\ k \in Player /\ s[j] \in Player
      BY <1>1, <2>2
    <3>2. ~(j < k) /\ ~(k < j)
      BY <1>2, <3>1, AheadIsTotal
    <3> QED
      BY <2>1, <3>2
  <2>7. IsFiniteSet(1..(i - 1)) /\ Cardinality(1..(i - 1)) = i - 1
    <3>1. IsFiniteSet(1..(i - 1)) /\ Cardinality(1..(i - 1)) = IF 1 > i - 1 THEN 0 ELSE (i - 1) - 1 + 1
      BY <2>1, FS_Interval
    <3> QED
      BY <2>1, <3>1
  <2>8. [j \in 1..(i - 1) |-> s[j]] \in Bijection(1..(i - 1), {s[j] : j \in 1..(i - 1)})
    BY <2>6 DEF Bijection, Injection, Surjection, IsInjective
  <2>9. Cardinality({s[j] : j \in 1..(i - 1)}) = i - 1
    <3> DEFINE D == 1..(i - 1)
               T == {s[j] : j \in D}
    <3>1. IsFiniteSet(D) /\ Cardinality(D) = i - 1 /\ ExistsBijection(D, T)
      BY <2>7, <2>8 DEF ExistsBijection
    <3> HIDE DEF D, T
    <3>2. Cardinality(T) = i - 1
      BY <3>1, FS_Bijection
    <3> QED
      BY <3>2 DEF D, T
  <2> QED
    BY <2>5, <2>9
<1> QED
  BY <1>4, <1>5

\* The place of a player is one more than the number of those that did better.
LEMMA PlacementsCount ==
  ASSUME NPlayers \in Nat, NEW better, Ranks(better)
  PROVE  \A i \in Player :
           LET at == Placements(better)[i]
           IN  at.player \in Player /\ at.place = 1 + Cardinality(BetterThan(better, at.player))
<1> DEFINE s == SortedPlayers(better)
           next(f, i) == IF i > 1 /\ <<s[i - 1], s[i]>> \notin better THEN f[i - 1] ELSE i
           placed == CHOOSE f : f = [i \in Player |->
                      IF i > 1 /\ <<s[i - 1], s[i]>> \notin better THEN f[i - 1] ELSE i]
           count == [i \in Player |-> 1 + Cardinality(BetterThan(better, s[i]))]
           less == {p \in Nat \X Nat : p[1] < p[2]}
<1>1. Sorted(better, s)
  <2>1. PICK t : Sorted(better, t)
    BY SortingExists
  <2>2. /\ t \in [Player -> Player] /\ {t[i] : i \in Player} = Player
        /\ \A i, j \in Player : i < j => \/ <<t[i], t[j]>> \in better
                                         \/ <<t[j], t[i]>> \notin better /\ t[i] < t[j]
    BY <2>1 DEF Sorted, Ahead
  <2>3. /\ s \in [Player -> Player] /\ {s[i] : i \in Player} = Player
        /\ \A i, j \in Player : i < j => \/ <<s[i], s[j]>> \in better
                                         \/ <<s[j], s[i]>> \notin better /\ s[i] < s[j]
    <3> DEFINE Sorts(x) == /\ {x[i] : i \in Player} = Player
                           /\ \A i, j \in Player : i < j => \/ <<x[i], x[j]>> \in better
                                                            \/ <<x[j], x[i]>> \notin better /\ x[i] < x[j]
    <3>1. Sorts(t) /\ s = CHOOSE x \in [Player -> Player] : Sorts(x)
      BY <2>2 DEF SortedPlayers
    <3> HIDE DEF s, Sorts
    <3>2. s \in [Player -> Player] /\ Sorts(s)
      BY <2>2, <3>1, Zenon
    <3> QED
      BY <3>2 DEF Sorts
  <2> HIDE DEF s
  <2> QED
    BY <2>3 DEF Sorted, Ahead
<1>2. Placements(better) = [i \in Player |-> [player |-> s[i], place |-> placed[i]]]
  BY DEF Placements
<1> HIDE DEF s
<1>3. \A i \in Player : IF i > 1 /\ <<s[i - 1], s[i]>> \notin better
                        THEN i - 1 \in Player /\ count[i] = count[i - 1]
                        ELSE count[i] = i
  <2> SUFFICES ASSUME NEW i \in Player
               PROVE  IF i > 1 /\ <<s[i - 1], s[i]>> \notin better
                      THEN i - 1 \in Player /\ count[i] = count[i - 1]
                      ELSE count[i] = i
    OBVIOUS
  <2>1. i \in Int /\ (i > 1 => i - 1 \in Player) /\ 1 + (i - 1) = i
    BY DEF Player
  <2>2. IF i > 1 /\ <<s[i - 1], s[i]>> \notin better
        THEN BetterThan(better, s[i]) = BetterThan(better, s[i - 1])
        ELSE Cardinality(BetterThan(better, s[i])) = i - 1
    BY <1>1, SortedPlaces
  <2> QED
    BY <2>1, <2>2
<1>4. placed = [i \in Player |-> IF i > 1 /\ <<s[i - 1], s[i]>> \notin better THEN placed[i - 1] ELSE i]
  <2>1. count = [i \in Player |-> IF i > 1 /\ <<s[i - 1], s[i]>> \notin better THEN count[i - 1] ELSE i]
    <3>1. count = [i \in Player |-> count[i]]
      OBVIOUS
    <3> HIDE DEF count
    <3> QED
      BY <1>3, <3>1
  <2> QED
    BY <2>1, Zenon
<1> HIDE DEF placed
<1> DEFINE wrong == {i \in Player : placed[i] # count[i]}
<1>5. wrong = {}
  <2> SUFFICES ASSUME wrong # {} PROVE FALSE
    OBVIOUS
  <2>1. IsWellFoundedOn(less, Nat)
    BY NatLessThanWellFounded DEF OpToRel
  <2>2. wrong \subseteq Nat
    BY DEF Player
  <2> HIDE DEF wrong, less
  <2>3. PICK i \in wrong : \A j \in wrong : ~(<<j, i>> \in less)
    BY <2>1, <2>2, WFMin
  <2> USE DEF wrong, less
  <2>4. i \in Player /\ i \in Nat /\ placed[i] # count[i]
    BY <2>3 DEF Player
  <2> HIDE DEF count
  <2>5. CASE i > 1 /\ <<s[i - 1], s[i]>> \notin better
    <3>1. i - 1 \in Player /\ count[i] = count[i - 1] /\ placed[i] = placed[i - 1]
      BY <1>3, <1>4, <2>4, <2>5
    <3>2. i - 1 \in Nat /\ i - 1 < i
      BY <2>4, <2>5
    <3>3. placed[i - 1] = count[i - 1]
      BY <2>3, <2>4, <3>1, <3>2
    <3> QED
      BY <2>4, <3>1, <3>3
  <2>6. CASE ~(i > 1 /\ <<s[i - 1], s[i]>> \notin better)
    BY <1>3, <1>4, <2>4, <2>6
  <2> QED
    BY <2>5, <2>6
<1>6. \A i \in Player : placed[i] = 1 + Cardinality(BetterThan(better, s[i])) /\ s[i] \in Player
  BY <1>1, <1>5 DEF Sorted
<1> QED
  BY <1>2, <1>6

-----------------------------------------------------------------------------
(* Positions *)

Outcomes == {"win", "draw", "loss"}
Shown == J!Moves \cup {<<"no_action">>}
Scores == [wins : Nat, losses : Nat, draws : Nat, timeouts : Nat, invalid : Nat]

\* The rounds of a history that a player won.
Wins(rounds, p) == Cardinality({i \in DOMAIN rounds : rounds[i].results[p] = "win"})

\* A position of janken: the scores and the players' histories are those of
\* the rounds that were played in public.
JankenPosition(m) ==
  /\ m = [resolved |-> m.resolved, score |-> m.score, self |-> m.self, public |-> m.public, last |-> m.last]
  /\ m.resolved \in Nat
  /\ m.score \in [Player -> Scores]
  /\ m.self \in [Player -> Seq([round : Nat, action : Shown, result : Outcomes])]
  /\ m.public \in Seq([round : Nat, actions : [Player -> Shown], results : [Player -> Outcomes]])
  /\ \A p \in Player :
       /\ m.score[p].wins = Wins(m.public, p)
       /\ m.score[p].wins + m.score[p].draws + m.score[p].losses = m.resolved
       /\ Len(m.self[p]) = m.resolved

EchoPosition(m) ==
  /\ m = [mode |-> m.mode, order |-> m.order, resolved |-> m.resolved, nextPlayer |-> m.nextPlayer,
          score |-> m.score, last |-> m.last]
  /\ m.resolved \in Nat /\ m.nextPlayer \in Player /\ m.score \in [Player -> Nat]

Position(m) == IF IsJanken THEN JankenPosition(m) ELSE EchoPosition(m)

\* The log is a sequence, whatever its events are.
LogIsSequence == \E S : log \in Seq(S)

PositionInv == Position(master) /\ step.turn \in Nat /\ LogIsSequence

LEMMA SamePlayers == J!Player = Player /\ E!Player = Player /\ NPlayers \in Nat /\ 1 \in Player
  BY Sizes DEF J!Player, E!Player, Player

\* The count of one more round.
LEMMA RoundsCounted ==
  ASSUME NEW S, NEW s \in Seq(S), NEW e \in S, NEW p
  PROVE  Wins(Append(s, e), p) = Wins(s, p) + IF e.results[p] = "win" THEN 1 ELSE 0
<1> DEFINE W == {i \in DOMAIN s : s[i].results[p] = "win"}
           t == Append(s, e)
           V == {i \in DOMAIN t : t[i].results[p] = "win"}
<1>1. /\ Len(s) \in Nat /\ DOMAIN s = 1..Len(s) /\ DOMAIN t = 1..(Len(s) + 1) /\ t[Len(s) + 1] = e
      /\ \A i \in 1..Len(s) : t[i] = s[i]
  OBVIOUS
<1>2. \A i : i \in 1..(Len(s) + 1) <=> i \in 1..Len(s) \/ i = Len(s) + 1
  BY <1>1
<1>3. Len(s) + 1 \notin 1..Len(s)
  BY <1>1
<1> HIDE DEF t
<1>4. V = IF e.results[p] = "win" THEN W \cup {Len(s) + 1} ELSE W
  BY <1>1, <1>2
<1>5. IsFiniteSet(W) /\ Len(s) + 1 \notin W
  <2>1. IsFiniteSet(1..Len(s))
    BY <1>1, FS_Interval
  <2>2. W \in SUBSET (1..Len(s))
    BY <1>1
  <2> HIDE DEF W
  <2> QED
    BY <1>3, <2>1, <2>2, FS_Subset
<1> HIDE DEF W, V
<1>6. Cardinality(W) \in Nat
  BY <1>5, FS_CardinalityType
<1>7. Cardinality(V) = Cardinality(W) + IF e.results[p] = "win" THEN 1 ELSE 0
  <2>1. Cardinality(W \cup {Len(s) + 1}) = Cardinality(W) + 1
    BY <1>5, FS_AddElement
  <2>2. CASE e.results[p] = "win"
    BY <1>4, <2>1, <2>2
  <2>3. CASE e.results[p] # "win"
    BY <1>4, <1>6, <2>3
  <2> QED
    BY <2>2, <2>3
<1> QED
  BY <1>7, Zenon DEF V, W, t, Wins

\* A round of janken, whatever the statuses are.
LEMMA JankenRound ==
  ASSUME NEW m, JankenPosition(m), NEW st, st.turn \in Nat, NEW ss
  PROVE  JankenPosition(J!ApplyStep(m, st, ss)) /\ J!ApplyStep(m, st, ss).resolved = m.resolved + 1
<1> DEFINE playing == {p \in Player : ss[p].status = "accepted" /\ ss[p].action \in J!Moves}
           moves == [p \in playing |-> ss[p].action]
           outcome == [p \in Player |-> J!Outcome(moves, p)]
           shown == [p \in Player |-> IF p \in playing THEN moves[p] ELSE <<"no_action">>]
           round == [round |-> st.turn, actions |-> shown, results |-> outcome]
           mine(p) == [round |-> st.turn, action |-> shown[p], result |-> outcome[p]]
           n == J!ApplyStep(m, st, ss)
<1>1. n = [resolved |-> m.resolved + 1,
           score |-> [p \in Player |-> J!Tally(m.score[p], outcome[p], ss[p].reason)],
           self |-> [p \in Player |-> Append(m.self[p], mine(p))],
           public |-> Append(m.public, round), last |-> ss]
  BY SamePlayers DEF J!ApplyStep
<1>2. outcome \in [Player -> Outcomes]
  BY DEF J!Outcome, Outcomes
<1>3. shown \in [Player -> Shown]
  BY DEF Shown
<1> HIDE DEF outcome, shown, n
<1>4. \A p \in Player : mine(p) \in [round : Nat, action : Shown, result : Outcomes]
  BY <1>2, <1>3
<1>5. round \in [round : Nat, actions : [Player -> Shown], results : [Player -> Outcomes]]
  BY <1>2, <1>3
<1>6. /\ n.resolved = m.resolved + 1 /\ n.public = Append(m.public, round)
      /\ \A p \in Player : n.score[p] = J!Tally(m.score[p], outcome[p], ss[p].reason)
      /\ \A p \in Player : n.self[p] = Append(m.self[p], mine(p))
      /\ DOMAIN n.score = Player /\ DOMAIN n.self = Player
      /\ n.score = [p \in Player |-> n.score[p]] /\ n.self = [p \in Player |-> n.self[p]]
      /\ n = [resolved |-> n.resolved, score |-> n.score, self |-> n.self, public |-> n.public, last |-> n.last]
  <2> HIDE DEF mine, round
  <2> QED
    BY <1>1
<1>7. round.results = outcome
  OBVIOUS
<1> HIDE DEF mine, round
<1>8. ASSUME NEW p \in Player
      PROVE  /\ n.score[p] \in Scores
             /\ n.score[p].wins = m.score[p].wins + IF outcome[p] = "win" THEN 1 ELSE 0
             /\ n.score[p].wins + n.score[p].draws + n.score[p].losses
                  = m.score[p].wins + m.score[p].draws + m.score[p].losses + 1
  <2> DEFINE s == m.score[p]
             o == outcome[p]
             r == ss[p].reason
             t == J!Tally(s, o, r)
  <2>1. s \in Scores /\ o \in Outcomes
    BY <1>2 DEF JankenPosition
  <2>2. s.wins \in Nat /\ s.draws \in Nat /\ s.losses \in Nat /\ s.timeouts \in Nat /\ s.invalid \in Nat
    BY <2>1 DEF Scores
  <2>3. n.score[p] = t
    BY <1>6
  <2> HIDE DEF s, o, r
  <2>4. /\ t.wins = s.wins + (IF o = "win" THEN 1 ELSE 0)
        /\ t.draws = s.draws + (IF o = "draw" THEN 1 ELSE 0)
        /\ t.losses = s.losses + (IF o = "loss" THEN 1 ELSE 0)
        /\ t.timeouts = s.timeouts + (IF r = "invalid-timeout" THEN 1 ELSE 0)
        /\ t.invalid = s.invalid + (IF r = "invalid-illegal-action" THEN 1 ELSE 0)
        /\ t = [wins |-> t.wins, draws |-> t.draws, losses |-> t.losses, timeouts |-> t.timeouts, invalid |-> t.invalid]
    BY DEF J!Tally
  <2> HIDE DEF t
  <2>5. t.wins \in Nat /\ t.draws \in Nat /\ t.losses \in Nat /\ t.timeouts \in Nat /\ t.invalid \in Nat
    BY <2>2, <2>4
  <2>6. t \in Scores
    BY <2>4, <2>5 DEF Scores
  <2>7. t.wins + t.draws + t.losses = s.wins + s.draws + s.losses + 1
    <3>1. o = "win" \/ o = "draw" \/ o = "loss"
      BY <2>1 DEF Outcomes
    <3> QED
      BY <2>2, <2>4, <3>1
  <2> QED
    BY <2>3, <2>4, <2>6, <2>7 DEF s, o
<1>9. /\ m.resolved \in Nat /\ m.public \in Seq([round : Nat, actions : [Player -> Shown], results : [Player -> Outcomes]])
      /\ \A p \in Player : /\ m.self[p] \in Seq([round : Nat, action : Shown, result : Outcomes])
                           /\ m.score[p].wins = Wins(m.public, p)
                           /\ m.score[p].wins + m.score[p].draws + m.score[p].losses = m.resolved
                           /\ Len(m.self[p]) = m.resolved
  BY DEF JankenPosition
<1>10. \A p \in Player : n.self[p] \in Seq([round : Nat, action : Shown, result : Outcomes]) /\ Len(n.self[p]) = n.resolved
  <2> SUFFICES ASSUME NEW p \in Player
               PROVE  n.self[p] \in Seq([round : Nat, action : Shown, result : Outcomes]) /\ Len(n.self[p]) = n.resolved
    OBVIOUS
  <2>1. /\ Append(m.self[p], mine(p)) \in Seq([round : Nat, action : Shown, result : Outcomes])
        /\ Len(Append(m.self[p], mine(p))) = Len(m.self[p]) + 1
    <3> DEFINE R == [round : Nat, action : Shown, result : Outcomes]
    <3>1. m.self[p] \in Seq(R) /\ mine(p) \in R
      BY <1>4, <1>9
    <3> HIDE DEF R
    <3>2. Append(m.self[p], mine(p)) \in Seq(R) /\ Len(Append(m.self[p], mine(p))) = Len(m.self[p]) + 1
      BY <3>1
    <3> QED
      BY <3>2 DEF R
  <2> QED
    BY <1>6, <1>9, <2>1
<1>11. n.public \in Seq([round : Nat, actions : [Player -> Shown], results : [Player -> Outcomes]])
  BY <1>5, <1>6, <1>9
<1>12. ASSUME NEW p \in Player
       PROVE  n.score[p].wins = Wins(n.public, p)
  <2>1. Wins(n.public, p) = Wins(m.public, p) + IF outcome[p] = "win" THEN 1 ELSE 0
    <3> DEFINE R == [round : Nat, actions : [Player -> Shown], results : [Player -> Outcomes]]
    <3>1. m.public \in Seq(R) /\ round \in R
      BY <1>5, <1>9
    <3> HIDE DEF R
    <3>2. Wins(Append(m.public, round), p) = Wins(m.public, p) + IF round.results[p] = "win" THEN 1 ELSE 0
      BY <3>1, RoundsCounted
    <3> QED
      BY <1>6, <1>7, <3>2
  <2> QED
    BY <1>8, <1>9, <2>1
<1>13. n.score \in [Player -> Scores]
  BY <1>6, <1>8
<1>14. n.self \in [Player -> Seq([round : Nat, action : Shown, result : Outcomes])]
  BY <1>6, <1>10
<1>15. n.resolved \in Nat
  BY <1>6, <1>9
<1>16. ASSUME NEW p \in Player PROVE n.score[p].wins + n.score[p].draws + n.score[p].losses = n.resolved
  BY <1>6, <1>8, <1>9
<1>17. JankenPosition(n)
  BY <1>6, <1>10, <1>11, <1>12, <1>13, <1>14, <1>15, <1>16, Zenon DEF JankenPosition
<1> QED
  BY <1>6, <1>17 DEF n

LEMMA JankenStart == JankenPosition(J!New) /\ J!New.resolved = 0
<1>1. /\ J!New.resolved = 0 /\ J!New.public = << >> /\ DOMAIN J!New.public = {}
      /\ J!New.score = [p \in Player |-> J!ZeroScore] /\ J!New.self = [p \in Player |-> << >>]
      /\ J!New = [resolved |-> J!New.resolved, score |-> J!New.score, self |-> J!New.self,
                  public |-> J!New.public, last |-> J!New.last]
  BY SamePlayers DEF J!New
<1>2. J!ZeroScore \in Scores /\ J!ZeroScore.wins = 0 /\ J!ZeroScore.draws = 0 /\ J!ZeroScore.losses = 0
  BY DEF J!ZeroScore, Scores
<1>3. \A p : Wins(J!New.public, p) = 0
  BY <1>1, FS_EmptySet DEF Wins
<1>4. \A p \in Player : J!New.self[p] = << >> /\ Len(J!New.self[p]) = 0 /\ J!New.score[p] = J!ZeroScore
  BY <1>1
<1>5. /\ J!New.self \in [Player -> Seq([round : Nat, action : Shown, result : Outcomes])]
      /\ J!New.public \in Seq([round : Nat, actions : [Player -> Shown], results : [Player -> Outcomes]])
  BY <1>1, EmptySeq
<1>6. J!New.score \in [Player -> Scores]
  BY <1>1, <1>2
<1>7. \A p \in Player : J!New.score[p].wins + J!New.score[p].draws + J!New.score[p].losses = J!New.resolved
  BY <1>1, <1>2, <1>4
<1> QED
  BY <1>1, <1>2, <1>3, <1>4, <1>5, <1>6, <1>7 DEF JankenPosition

\* What a position says of the rounds does not depend on the last statuses.
LEMMA JankenLast ==
  ASSUME NEW m, JankenPosition(m), NEW l
  PROVE  JankenPosition([resolved |-> m.resolved, score |-> m.score, self |-> m.self, public |-> m.public, last |-> l])
<1> DEFINE n == [resolved |-> m.resolved, score |-> m.score, self |-> m.self, public |-> m.public, last |-> l]
<1>1. /\ n.resolved = m.resolved /\ n.score = m.score /\ n.self = m.self /\ n.public = m.public
      /\ n = [resolved |-> n.resolved, score |-> n.score, self |-> n.self, public |-> n.public, last |-> n.last]
  OBVIOUS
<1> HIDE DEF n
<1>2. JankenPosition(n)
  BY <1>1, Zenon DEF JankenPosition
<1> QED
  BY <1>2 DEF n

-----------------------------------------------------------------------------
(* Janken replayed from its log *)

\* The status a replay takes for a player and a turn.
LoggedStatus(events, turn, p) ==
  LET found == {i \in DOMAIN events : /\ events[i].kind \in StatusEvents /\ events[i].turn = turn
                                      /\ events[i].turn # 0 /\ events[i].player = p}
  IN  IF found = {} THEN NoAction("")
      ELSE events[CHOOSE i \in found : \A j \in found : j <= i].status

LoggedRound(m, events, turn) ==
  J!ApplyStep(m, J!NextStep(m), [p \in Player |-> J!NormalizeAction(m, LoggedStatus(events, turn, p))])

\* A position for every number of rounds replayed.
Replays(events, f, n) ==
  f = [turn \in 0..n |-> IF turn = 0 THEN J!New ELSE LoggedRound(f[turn - 1], events, turn)]

LEMMA ReplayExtends ==
  ASSUME NEW events, NEW n \in Nat, NEW f, Replays(events, f, n)
  PROVE  \E g : /\ Replays(events, g, n + 1) /\ \A k \in 0..n : g[k] = f[k]
                /\ g[n + 1] = LoggedRound(f[n], events, n + 1)
<1> DEFINE g == [k \in 0..(n + 1) |-> IF k <= n THEN f[k] ELSE LoggedRound(f[n], events, n + 1)]
<1>1. \A k \in 0..n : f[k] = IF k = 0 THEN J!New ELSE LoggedRound(f[k - 1], events, k)
  BY DEF Replays
<1>2. \A k \in 0..n : g[k] = f[k]
  OBVIOUS
<1>3. g[n + 1] = LoggedRound(f[n], events, n + 1)
  OBVIOUS
<1>4. \A k \in 0..(n + 1) : g[k] = IF k = 0 THEN J!New ELSE LoggedRound(g[k - 1], events, k)
  <2> HIDE DEF g
  <2> SUFFICES ASSUME NEW k \in 0..(n + 1)
               PROVE  g[k] = IF k = 0 THEN J!New ELSE LoggedRound(g[k - 1], events, k)
    OBVIOUS
  <2>1. CASE k \in 0..n
    BY <1>1, <1>2, <2>1
  <2>2. CASE k = n + 1
    BY <1>2, <1>3, <2>2
  <2> QED
    BY <2>1, <2>2
<1>5. g = [k \in 0..(n + 1) |-> g[k]]
  OBVIOUS
<1> HIDE DEF g
<1>6. Replays(events, g, n + 1)
  BY <1>4, <1>5, Zenon DEF Replays
<1> QED
  BY <1>2, <1>3, <1>6

LEMMA ReplayExists ==
  ASSUME NEW events, NEW n \in Nat
  PROVE  \E f : Replays(events, f, n)
<1> DEFINE less == {p \in Nat \X Nat : p[1] < p[2]}
           stuck == {k \in Nat : \A f : ~Replays(events, f, k)}
<1> SUFFICES ASSUME n \in stuck PROVE FALSE
  OBVIOUS
<1>1. IsWellFoundedOn(less, Nat)
  BY NatLessThanWellFounded DEF OpToRel
<1>2. PICK k \in stuck : \A j \in stuck : ~(<<j, k>> \in less)
  <2>1. stuck \subseteq Nat
    OBVIOUS
  <2> HIDE DEF stuck, less
  <2> QED
    BY <1>1, <2>1, WFMin
<1>3. CASE k = 0
  <2>1. Replays(events, [i \in 0..0 |-> J!New], 0)
    BY DEF Replays
  <2> QED
    BY <1>2, <1>3, <2>1
<1>4. CASE k # 0
  <2>1. k \in Nat /\ k - 1 \in Nat /\ k - 1 < k /\ (k - 1) + 1 = k
    BY <1>4
  <2>2. k - 1 \notin stuck
    BY <1>2, <2>1
  <2>3. PICK f : Replays(events, f, k - 1)
    BY <2>1, <2>2
  <2>4. \E g : Replays(events, g, k)
    BY <2>1, <2>3, ReplayExtends
  <2> QED
    BY <1>2, <2>4
<1> QED
  BY <1>3, <1>4

\* What a replay of any log up to any turn ends in is a position of that turn.
LEMMA ReplayedPosition ==
  ASSUME NEW events, NEW n \in Nat, NEW f, Replays(events, f, n)
  PROVE  \A k \in 0..n : JankenPosition(f[k]) /\ f[k].resolved = k
<1> DEFINE less == {p \in Nat \X Nat : p[1] < p[2]}
           wrong == {k \in 0..n : ~(JankenPosition(f[k]) /\ f[k].resolved = k)}
<1> SUFFICES ASSUME wrong # {} PROVE FALSE
  OBVIOUS
<1>1. \A k \in 0..n : f[k] = IF k = 0 THEN J!New ELSE LoggedRound(f[k - 1], events, k)
  BY DEF Replays
<1>2. IsWellFoundedOn(less, Nat)
  BY NatLessThanWellFounded DEF OpToRel
<1>3. PICK k \in wrong : \A j \in wrong : ~(<<j, k>> \in less)
  <2>1. wrong \subseteq Nat
    OBVIOUS
  <2> HIDE DEF wrong, less
  <2> QED
    BY <1>2, <2>1, WFMin
<1>4. k \in 0..n /\ k \in Nat
  BY <1>3
<1>5. CASE k = 0
  <2>1. f[k] = J!New
    BY <1>1, <1>4, <1>5
  <2> QED
    BY <1>3, <1>5, <2>1, JankenStart
<1>6. CASE k # 0
  <2>1. k - 1 \in 0..n /\ k - 1 \in Nat /\ k - 1 < k /\ (k - 1) + 1 = k
    BY <1>4, <1>6
  <2>2. JankenPosition(f[k - 1]) /\ f[k - 1].resolved = k - 1
    BY <1>3, <1>4, <2>1
  <2>3. f[k] = LoggedRound(f[k - 1], events, k)
    BY <1>1, <1>4, <1>6
  <2>4. J!NextStep(f[k - 1]).turn \in Nat
    BY <2>1, <2>2 DEF J!NextStep, J!NoStep, J!Step
  <2>5. JankenPosition(f[k]) /\ f[k].resolved = f[k - 1].resolved + 1
    BY <2>2, <2>3, <2>4, JankenRound DEF LoggedRound
  <2> QED
    BY <1>3, <2>1, <2>2, <2>5
<1> QED
  BY <1>5, <1>6

LEMMA JankenReplayed ==
  ASSUME NEW events, NEW target \in Nat
  PROVE  \E f : /\ Replays(events, f, target)
                /\ J!SnapshotFromHistory(events, target)
                     = [turn |-> target, state |-> J!State(f[target]), perPlayer |-> J!PerPlayer(f[target])]
<1> DEFINE played == CHOOSE f : f = [turn \in 0..target |->
                       IF turn = 0 THEN J!New ELSE LoggedRound(f[turn - 1], events, turn)]
           final == played[target]
<1>1. J!SnapshotFromHistory(events, target)
        = [turn |-> target, state |-> J!State(final), perPlayer |-> J!PerPlayer(final)]
  BY SamePlayers DEF J!SnapshotFromHistory, LoggedRound, LoggedStatus, J!StatusEvents, StatusEvents,
                     J!NoAction, NoAction
<1>2. Replays(events, played, target)
  <2>1. PICK f : Replays(events, f, target)
    BY ReplayExists
  <2> QED
    BY <2>1, Zenon DEF Replays
<1> HIDE DEF played
<1> QED
  BY <1>1, <1>2

LEMMA JankenFromHistory ==
  ASSUME NEW events, NEW target \in Nat
  PROVE  JankenPosition(J!FromSnapshot(J!SnapshotFromHistory(events, target)))
<1> DEFINE snap == J!SnapshotFromHistory(events, target)
<1>1. PICK f : /\ Replays(events, f, target)
               /\ snap = [turn |-> target, state |-> J!State(f[target]), perPlayer |-> J!PerPlayer(f[target])]
  BY JankenReplayed
<1>2. PICK final : final = f[target]
  OBVIOUS
<1>3. JankenPosition(final) /\ final.resolved = target
  <2>1. target \in 0..target
    OBVIOUS
  <2> QED
    BY <1>1, <1>2, <2>1, ReplayedPosition
<1> HIDE DEF snap
<1>4. /\ snap.turn = final.resolved /\ snap.state.score = final.score /\ snap.state.self = final.self
      /\ snap.state.public = final.public
  BY <1>1, <1>2, <1>3 DEF J!State
<1> DEFINE l == [p \in J!Player |-> IF snap.perPlayer[p].last.status = "" THEN J!NoAction("")
                                    ELSE snap.perPlayer[p].last]
<1>5. J!FromSnapshot(snap) = [resolved |-> final.resolved, score |-> final.score, self |-> final.self,
                              public |-> final.public, last |-> l]
  BY <1>4 DEF J!FromSnapshot
<1> HIDE DEF l
<1> QED
  BY <1>3, <1>5, JankenLast DEF snap

-----------------------------------------------------------------------------
(* Positions of echo-count *)

LEMMA EchoStart == ASSUME NEW mode, NEW order PROVE EchoPosition(E!New(mode, order))
  BY SamePlayers DEF EchoPosition, E!New

LEMMA EchoTurn ==
  ASSUME NEW m, EchoPosition(m), NEW st, NEW ss
  PROVE  EchoPosition(E!ApplyStep(m, st, ss))
<1> DEFINE asked(p) == \E i \in DOMAIN st.players : st.players[i] = p
           status(p) == ss[CHOOSE i \in DOMAIN st.players : st.players[i] = p]
           around == st.mode = "sequential" /\ m.nextPlayer < NPlayers
           n == E!ApplyStep(m, st, ss)
<1>1. n = [m EXCEPT
             !.score = [p \in Player |-> IF asked(p) /\ status(p).status = "accepted" THEN @[p] + 1 ELSE @[p]],
             !.last = [p \in Player |-> IF asked(p) THEN status(p) ELSE @[p]],
             !.resolved = IF around THEN @ ELSE @ + 1,
             !.nextPlayer = IF around THEN @ + 1 ELSE 1]
  BY SamePlayers DEF E!ApplyStep
<1> HIDE DEF asked, status, around, n
<1>2. m.resolved \in Nat /\ m.nextPlayer \in Player /\ m.score \in [Player -> Nat]
  BY DEF EchoPosition
<1>3. /\ n.score = [p \in Player |-> IF asked(p) /\ status(p).status = "accepted" THEN m.score[p] + 1 ELSE m.score[p]]
      /\ n.resolved = IF around THEN m.resolved ELSE m.resolved + 1
      /\ n.nextPlayer = IF around THEN m.nextPlayer + 1 ELSE 1
      /\ n = [mode |-> n.mode, order |-> n.order, resolved |-> n.resolved, nextPlayer |-> n.nextPlayer,
              score |-> n.score, last |-> n.last]
  BY <1>1 DEF EchoPosition
<1>4. n.score \in [Player -> Nat] /\ n.resolved \in Nat
  BY <1>2, <1>3
<1>5. n.nextPlayer \in Player
  <2>1. CASE around
    <3>1. m.nextPlayer < NPlayers /\ m.nextPlayer \in 1..NPlayers /\ n.nextPlayer = m.nextPlayer + 1
      BY <1>2, <1>3, <2>1 DEF around, Player
    <3> QED
      BY <3>1, SamePlayers DEF Player
  <2>2. CASE ~around
    BY <1>3, <2>2, SamePlayers
  <2> QED
    BY <2>1, <2>2
<1>6. EchoPosition(n)
  BY <1>3, <1>4, <1>5 DEF EchoPosition
<1> QED
  BY <1>6 DEF n

LEMMA EchoCounts == \A S : E!Cardinality(S) = Cardinality(S)
  BY Zenon DEF E!Cardinality, Cardinality

LEMMA EchoFromHistory ==
  ASSUME NEW S, NEW events \in Seq(S), NEW mode, NEW order, NEW target \in Nat
  PROVE  EchoPosition(E!FromSnapshot(E!SnapshotFromHistory(mode, order, events, target)))
<1> DEFINE read == {i \in DOMAIN events : /\ events[i].kind \in E!StatusEvents
                                          /\ events[i].turn \in 1..target}
           of(p) == {i \in read : events[i].player = p}
           score == [p \in E!Player |-> Cardinality({i \in of(p) : events[i].status.status = "accepted"})]
           snap == E!SnapshotFromHistory(mode, order, events, target)
           n == E!FromSnapshot(snap)
<1>1. snap.turn = target /\ snap.state.score = score
  BY EchoCounts DEF E!SnapshotFromHistory
<1>2. score \in [Player -> Nat]
  <2>1. ASSUME NEW p \in Player
        PROVE  Cardinality({i \in of(p) : events[i].status.status = "accepted"}) \in Nat
    <3>1. Len(events) \in Nat /\ DOMAIN events = 1..Len(events) /\ IsFiniteSet(1..Len(events))
      BY FS_Interval
    <3>2. {i \in of(p) : events[i].status.status = "accepted"} \in SUBSET (1..Len(events))
      BY <3>1
    <3> HIDE DEF of, read
    <3> QED
      BY <3>1, <3>2, FS_Subset, FS_CardinalityType
  <2> QED
    BY <2>1, SamePlayers
<1> HIDE DEF score, snap
<1>3. /\ n.resolved = target /\ n.score = score /\ n.nextPlayer = 1
      /\ n = [mode |-> n.mode, order |-> n.order, resolved |-> n.resolved, nextPlayer |-> n.nextPlayer,
              score |-> n.score, last |-> n.last]
  BY <1>1 DEF E!FromSnapshot
<1> HIDE DEF n
<1> QED
  BY <1>2, <1>3, SamePlayers DEF EchoPosition, n, snap

-----------------------------------------------------------------------------
(* The match *)

LEMMA WithoutLast ==
  ASSUME NEW a, NEW b, NEW c, NEW d, NEW e, NEW f,
         f = [resolved |-> a, score |-> b, self |-> c, public |-> d, last |-> e]
  PROVE  [f EXCEPT !.last = <<>>] = [resolved |-> a, score |-> b, self |-> c, public |-> d, last |-> <<>>]
  OBVIOUS

\* The master that the record of a match is taken up with.
LEMMA RecordTaken ==
  ASSUME Position(master)
  PROVE  LET n == FromSnapshot(RecordSnapshot) IN
         /\ Position(n)
         /\ ~MidTurn => GoesOn(master, n)
<1> DEFINE s == CurrentSnapshot(master)
           n == FromSnapshot(RecordSnapshot)
<1>1. CASE IsJanken
  <2>1. RecordSnapshot.turn = master.resolved /\ RecordSnapshot.state = J!State(master)
    BY <1>1 DEF RecordSnapshot, CurrentSnapshot, Snapshot, J!Snapshot
  <2> DEFINE l == n.last
  <2>2. n = [resolved |-> master.resolved, score |-> master.score, self |-> master.self,
             public |-> master.public, last |-> l]
    BY <1>1, <2>1 DEF FromSnapshot, J!FromSnapshot, J!State
  <2>3. JankenPosition(master)
    BY <1>1 DEF Position
  <2> HIDE DEF l, n
  <2>4. JankenPosition(n)
    BY <2>2, <2>3, JankenLast
  <2>5. GoesOn(master, n)
    <3>1. [n EXCEPT !.last = <<>>] = [resolved |-> master.resolved, score |-> master.score,
              self |-> master.self, public |-> master.public, last |-> <<>>]
      BY <2>2
    <3>2. [master EXCEPT !.last = <<>>] = [resolved |-> master.resolved, score |-> master.score,
              self |-> master.self, public |-> master.public, last |-> <<>>]
      BY <2>3, WithoutLast DEF JankenPosition
    <3> QED
      BY <3>1, <3>2 DEF GoesOn
  <2> QED
    BY <1>1, <2>4, <2>5 DEF Position, n
<1>2. CASE ~IsJanken
  <2>1. RecordSnapshot.turn = master.resolved /\ RecordSnapshot.state = E!State(master)
    BY <1>2 DEF RecordSnapshot, CurrentSnapshot, Snapshot, E!Snapshot
  <2> DEFINE l == n.last
  <2>2. n = [mode |-> master.mode, order |-> master.order, resolved |-> master.resolved, nextPlayer |-> 1,
             score |-> master.score, last |-> l]
    BY <1>2, <2>1 DEF FromSnapshot, E!FromSnapshot, E!State
  <2>3. EchoPosition(master)
    BY <1>2 DEF Position
  <2> HIDE DEF l, n
  <2>4. EchoPosition(n)
    BY <2>2, <2>3, SamePlayers DEF EchoPosition
  <2>5. ~MidTurn => GoesOn(master, n)
    BY <1>2, <2>2, <2>3 DEF GoesOn, EchoPosition, MidTurn
  <2> QED
    BY <1>2, <2>4, <2>5 DEF Position, n
<1> QED
  BY <1>1, <1>2

LEMMA PositionInvInit == Init => PositionInv
<1> SUFFICES ASSUME Init PROVE PositionInv
  OBVIOUS
<1>1. step.turn \in Nat /\ log = << >>
  <2>1. step = NoStep /\ log = << >>
    BY DEF Init
  <2> QED
    BY <2>1 DEF NoStep, Step
<1>2. PICK order : master = NewMaster(ruleset, order)
  BY DEF Init
<1>3. Position(master)
  BY <1>2, JankenStart, EchoStart DEF Position, IsJanken, NewMaster
<1>4. LogIsSequence
  BY <1>1, EmptySeq DEF LogIsSequence
<1> QED
  BY <1>1, <1>3, <1>4 DEF PositionInv

LEMMA StepAsked ==
  ASSUME Position(master)
  PROVE  NextStep(master).turn \in Nat /\ Len(NextStep(master).players) \in Nat
<1>1. CASE IsJanken
  <2>1. master.resolved \in Nat
    BY <1>1 DEF Position, JankenPosition
  <2>2. [p \in Player |-> p] \in Seq(Player) /\ << >> \in Seq(Player)
    BY SamePlayers DEF Player
  <2>3. Len([p \in Player |-> p]) \in Nat /\ Len(<< >>) \in Nat
    BY <2>2, LenProperties
  <2> QED
    BY <1>1, <2>1, <2>3, SamePlayers DEF NextStep, J!NextStep, J!NoStep, J!Step
<1>2. CASE ~IsJanken
  <2>1. master.resolved \in Nat
    BY <1>2 DEF Position, EchoPosition
  <2>2. [p \in Player |-> p] \in Seq(Player) /\ << >> \in Seq(Player)
    BY SamePlayers DEF Player
  <2>3. Len([p \in Player |-> p]) \in Nat /\ Len(<< >>) \in Nat /\ Len(<<master.nextPlayer>>) \in Nat
    BY <2>2, LenProperties
  <2> QED
    BY <1>2, <2>1, <2>3, SamePlayers DEF NextStep, E!NextStep, E!NoStep, E!Step
<1> QED
  BY <1>1, <1>2

LEMMA LogGrows ==
  ASSUME LogIsSequence, NEW T, NEW more \in Seq(T), log' = log \o more
  PROVE  LogIsSequence'
<1>1. PICK S : log \in Seq(S)
  BY DEF LogIsSequence
<1>2. log \in Seq(S \cup T) /\ more \in Seq(S \cup T)
  BY <1>1, SeqMonotonic
<1>3. log \o more \in Seq(S \cup T)
  BY <1>2, ConcatProperties
<1> QED
  BY <1>3 DEF LogIsSequence

LEMMA SetsAreListed ==
  ASSUME NEW S, IsFiniteSet(S)
  PROVE  SetToSeq(S) \in Seq(S)
<1>1. Cardinality(S) \in Nat /\ ExistsBijection(1..Cardinality(S), S)
  BY FS_CardinalityType
<1>2. \E f \in [1..Cardinality(S) -> S] : IsInjective(f)
  BY <1>1 DEF ExistsBijection, Bijection, Injection
<1>3. SetToSeq(S) \in [1..Cardinality(S) -> S]
  BY <1>2 DEF SetToSeq
<1> QED
  BY <1>1, <1>3

LEMMA TakenUp ==
  ASSUME PositionInv, NEW snap, Position(FromSnapshot(snap)), TakeUp(snap)
  PROVE  PositionInv'
<1>1. ruleset' = ruleset /\ master' = FromSnapshot(snap) /\ step' = NoStep /\ log' = << >>
  BY DEF TakeUp
<1>2. LogIsSequence'
  BY <1>1, EmptySeq DEF LogIsSequence
<1>3. Position(master)'
  BY <1>1 DEF Position, IsJanken
<1>4. step'.turn \in Nat
  BY <1>1 DEF NoStep, Step
<1> QED
  BY <1>2, <1>3, <1>4 DEF PositionInv

LEMMA PositionInvStep == PositionInv /\ [Next]_vars => PositionInv'
<1> SUFFICES ASSUME PositionInv, [Next]_vars PROVE PositionInv'
  OBVIOUS
<1>0. Position(master) /\ step.turn \in Nat /\ LogIsSequence
  BY DEF PositionInv
<1>1. ASSUME ruleset' = ruleset, master' = master PROVE Position(master)'
  BY <1>0, <1>1 DEF Position, IsJanken
<1>2. CASE AskStep
  <2> DEFINE more == [i \in 1..Len(step'.players) |-> Event("turn_requested", step'.turn, step'.players[i], Unseen)]
  <2>1. step' = NextStep(master) /\ log' = log \o more /\ ruleset' = ruleset /\ master' = master
    BY <1>2 DEF AskStep
  <2>2. step'.turn \in Nat /\ Len(step'.players) \in Nat
    BY <1>0, <2>1, StepAsked
  <2>3. more \in Seq({more[i] : i \in 1..Len(step'.players)})
    BY <2>2
  <2> HIDE DEF more
  <2>4. LogIsSequence'
    BY <1>0, <2>1, <2>3, LogGrows
  <2> QED
    BY <1>1, <2>1, <2>2, <2>4 DEF PositionInv
<1>3. CASE RecordTurn
  <2>1. PICK e : log' = Append(log, e) /\ ruleset' = ruleset /\ master' = master /\ step' = step
    BY <1>3 DEF RecordTurn
  <2>2. PICK S : log \in Seq(S)
    BY <1>0 DEF LogIsSequence
  <2>3. log \in Seq(S \cup {e}) /\ e \in S \cup {e}
    BY <2>2, SeqMonotonic
  <2>4. Append(log, e) \in Seq(S \cup {e})
    BY <2>3
  <2> QED
    BY <1>0, <1>1, <2>1, <2>4 DEF PositionInv, LogIsSequence
<1>4. CASE ApplyDecisionResults
  <2>1. /\ ruleset' = ruleset /\ log' = log /\ step' = NoStep
        /\ master' = ApplyStep(master, step, statuses)
    BY <1>4 DEF ApplyDecisionResults
  <2>2. Position(master)'
    BY <1>0, <2>1, JankenRound, EchoTurn DEF Position, IsJanken, ApplyStep
  <2>3. step'.turn \in Nat
    BY <2>1 DEF NoStep, Step
  <2> QED
    BY <1>0, <2>1, <2>2, <2>3 DEF PositionInv, LogIsSequence
<1>5. CASE End
  <2>p. PICK gone \in Leavers :
          log' = log \o SetToSeq({Event("runtime_exited", 0, p, Unseen) : p \in gone})
    BY <1>5 DEF End
  <2> DEFINE left == {Event("runtime_exited", 0, p, Unseen) : p \in gone}
  <2>1. /\ ruleset' = ruleset /\ master' = master /\ step' = step
        /\ log' = log \o SetToSeq(left)
    BY <1>5, <2>p DEF End
  <2>2. IsFiniteSet(left)
    <3> DEFINE f == [p \in gone |-> Event("runtime_exited", 0, p, Unseen)]
    <3>1. gone \in SUBSET Player /\ IsFiniteSet(Player)
      BY SomeLeavers, SamePlayers, PlayersAreFinite
    <3>2. IsFiniteSet(gone)
      BY <3>1, FS_Subset
    <3>3. f \in Surjection(gone, left)
      BY DEF Surjection
    <3> HIDE DEF f, left
    <3> QED
      BY <3>2, <3>3, FS_Surjection
  <2> HIDE DEF left
  <2>3. LogIsSequence'
    BY <1>0, <2>1, <2>2, LogGrows, SetsAreListed
  <2> QED
    BY <1>0, <1>1, <2>1, <2>3 DEF PositionInv
<1>6. CASE ResumeFromRecord
  BY <1>0, <1>6, RecordTaken, TakenUp DEF ResumeFromRecord
<1>7. CASE ResumeFromHistory
  <2>1. PICK target \in 1..(IF IsJanken THEN Rounds ELSE Turns) : TakeUp(SnapshotFromHistory(log, target))
    BY <1>7 DEF ResumeFromHistory
  <2>2. target \in Nat
    BY <2>1, Sizes
  <2>3. Position(FromSnapshot(SnapshotFromHistory(log, target)))
    <3>1. CASE IsJanken
      BY <2>2, <3>1, JankenFromHistory DEF Position, FromSnapshot, SnapshotFromHistory
    <3>2. CASE ~IsJanken
      <4>1. PICK S : log \in Seq(S)
        BY <1>0 DEF LogIsSequence
      <4> QED
        BY <2>2, <3>2, <4>1, EchoFromHistory DEF Position, FromSnapshot, SnapshotFromHistory
    <3> QED
      BY <3>1, <3>2
  <2> QED
    BY <2>1, <2>3, TakenUp
<1>8. CASE UNCHANGED vars
  BY <1>0, <1>1, <1>8 DEF PositionInv, vars, LogIsSequence
<1> QED
  BY <1>2, <1>3, <1>4, <1>5, <1>6, <1>7, <1>8 DEF Next

\* A match taken up from its record between turns goes on with the game that was
\* left, from any position it can have been played to: WithResumeState and
\* BuildSessionFromSnapshot lose nothing but the last turn's events.  A match is
\* taken up once (the bound of AskStep and TakeUp).
THEOREM ResumedMatchesContinue == Spec => ResumeContinues
<1>1. PositionInv /\ [Next]_vars => [ResumeFromRecord /\ ~MidTurn => GoesOn(master, master')]_vars
  <2> SUFFICES ASSUME PositionInv, ResumeFromRecord, ~MidTurn PROVE GoesOn(master, master')
    BY DEF vars
  <2>1. master' = FromSnapshot(RecordSnapshot)
    BY DEF ResumeFromRecord, TakeUp
  <2> QED
    BY <2>1, RecordTaken DEF PositionInv
<1> QED
  BY <1>1, PositionInvInit, PositionInvStep, PTL DEF Spec, ResumeContinues

-----------------------------------------------------------------------------
(* Placements of every position *)

LEMMA JankenRanks ==
  ASSUME NEW m, JankenPosition(m)
  PROVE  Ranks(J!BetterPairs(m))
<1> DEFINE R == J!BetterPairs(m)
           w(p) == m.score[p].wins
           l(p) == m.score[p].losses
           t(p) == m.score[p].timeouts
           v(p) == m.score[p].invalid
<1>1. \A p, q \in Player : <<p, q>> \in R <=>
        \/ w(p) > w(q)
        \/ w(p) = w(q) /\ l(p) < l(q)
        \/ w(p) = w(q) /\ l(p) = l(q) /\ t(p) < t(q)
        \/ w(p) = w(q) /\ l(p) = l(q) /\ t(p) = t(q) /\ v(p) < v(q)
  BY SamePlayers DEF J!BetterPairs, J!Better
<1>2. \A p \in Player : w(p) \in Nat /\ l(p) \in Nat /\ t(p) \in Nat /\ v(p) \in Nat
  <2>1. \A p \in Player : m.score[p] \in Scores
    BY DEF JankenPosition
  <2> QED
    BY <2>1 DEF Scores
<1> HIDE DEF R, w, l, t, v
<1>3. \A p, q \in Player : <<p, q>> \in R => <<q, p>> \notin R
  <2> SUFFICES ASSUME NEW p \in Player, NEW q \in Player, <<p, q>> \in R PROVE <<q, p>> \notin R
    OBVIOUS
  <2>1. w(p) \in Nat /\ l(p) \in Nat /\ t(p) \in Nat /\ v(p) \in Nat
    BY <1>2
  <2>2. w(q) \in Nat /\ l(q) \in Nat /\ t(q) \in Nat /\ v(q) \in Nat
    BY <1>2
  <2> QED
    BY <1>1, <2>1, <2>2
<1>4. \A p, q, r \in Player : <<p, q>> \in R => <<p, r>> \in R \/ <<r, q>> \in R
  <2> SUFFICES ASSUME NEW p \in Player, NEW q \in Player, NEW r \in Player, <<p, q>> \in R
               PROVE  <<p, r>> \in R \/ <<r, q>> \in R
    OBVIOUS
  <2>1. w(p) \in Nat /\ l(p) \in Nat /\ t(p) \in Nat /\ v(p) \in Nat
    BY <1>2
  <2>2. w(q) \in Nat /\ l(q) \in Nat /\ t(q) \in Nat /\ v(q) \in Nat
    BY <1>2
  <2>3. w(r) \in Nat /\ l(r) \in Nat /\ t(r) \in Nat /\ v(r) \in Nat
    BY <1>2
  <2> QED
    BY <1>1, <2>1, <2>2, <2>3
<1> QED
  BY <1>3, <1>4 DEF Ranks, R

LEMMA EchoRanks ==
  ASSUME NEW m, EchoPosition(m)
  PROVE  Ranks(E!BetterPairs(m))
<1>1. \A p, q \in Player : <<p, q>> \in E!BetterPairs(m) <=> m.score[p] > m.score[q]
  BY SamePlayers DEF E!BetterPairs
<1>2. \A p \in Player : m.score[p] \in Nat
  BY DEF EchoPosition
<1> QED
  BY <1>1, <1>2 DEF Ranks

LEMMA SamePlacements == \A better : J!Placements(better) = Placements(better) /\ E!Placements(better) = Placements(better)
  BY Zenon DEF J!Placements, E!Placements, Placements, J!SortedPlayers, E!SortedPlayers, SortedPlayers,
               J!Player, E!Player, Player

\* In every position a match can be in, of either game, and whatever became of
\* the players, a player's place is one more than the number of players that
\* did strictly better, and the scores are those of the rounds shown.
THEOREM PlacementsAreFair == Spec => []PlacementsFair
<1>1. PositionInv => PlacementsFair
  <2> SUFFICES ASSUME Position(master) PROVE PlacementsFair
    BY DEF PositionInv
  <2> DEFINE better == IF IsJanken THEN J!BetterPairs(master) ELSE E!BetterPairs(master)
  <2>1. Ranks(better)
    BY JankenRanks, EchoRanks DEF Position
  <2>2. Result(master) = Placements(better)
    BY SamePlacements DEF Result, J!Result, E!Result
  <2> HIDE DEF better
  <2>3. \A i \in Player : LET at == Result(master)[i]
                          IN  at.place = 1 + Cardinality(BetterThan(better, at.player))
    BY <2>1, <2>2, PlacementsCount, SamePlayers
  <2>4. \A i \in Player : LET at == Result(master)[i]
                          IN  at.place = 1 + Cardinality({q \in Player : <<q, at.player>> \in better})
    BY <2>3, Zenon DEF BetterThan
  <2>5. ASSUME IsJanken, NEW p \in Player
        PROVE  /\ master.score[p].wins = Cardinality({i \in DOMAIN master.public : master.public[i].results[p] = "win"})
               /\ master.score[p].wins + master.score[p].draws + master.score[p].losses = master.resolved
               /\ Len(master.self[p]) = master.resolved
    <3>1. JankenPosition(master)
      BY <2>5 DEF Position
    <3> QED
      BY <3>1, Zenon DEF JankenPosition, Wins
  <2> QED
    BY <2>4, <2>5, Zenon DEF PlacementsFair, better
<1> QED
  BY <1>1, PositionInvInit, PositionInvStep, PTL DEF Spec

-----------------------------------------------------------------------------
(* The course of a match that was not taken up *)

IsSequence(s) == \E S : s \in Seq(S)

Course ==
  /\ ruleset \in Rulesets
  /\ ~IsJanken => master.mode = ruleset.mode /\ (~ruleset.seedAware => master.order = E!Identity)
  /\ phase \in {"next", "record", "apply", "ended"}
  /\ IsSequence(boundary) /\ Len(boundary) = master.resolved + 1
  /\ IsSequence(statuses)
  /\ phase = "next" => statuses = <<>>
  /\ phase \in {"record", "apply"} => step = NextStep(master) /\ step # NoStep
  /\ phase = "record" => Len(statuses) < Len(step.players)
  /\ phase = "apply" => Len(statuses) = Len(step.players)

\* The operations of the game, with the choice of the game as a parameter.
Asked(janken, m) == IF janken THEN J!NextStep(m) ELSE E!NextStep(m)
Judged(janken, m, st, ss) == IF janken THEN J!ApplyStep(m, st, ss) ELSE E!ApplyStep(m, st, ss)

Shot(janken, m) == IF janken THEN J!Snapshot(m) ELSE E!Snapshot(m)

Found(events, cursor) == {i \in DOMAIN events : i > cursor /\ events[i].kind \in StatusEvents}

\* One more status of a replay that has not reached its target.
GoOn(janken, r, events) ==
  LET st       == Asked(janken, r.m)
      found    == Found(events, r.cursor)
      i        == CHOOSE k \in found : \A j \in found : k <= j
      recorded == Append(r.statuses, events[i].status)
  IN  IF ~(events[i].turn = st.turn /\ events[i].player = st.players[Len(recorded)])
      THEN [r EXCEPT !.ok = FALSE]
      ELSE IF Len(recorded) < Len(st.players)
      THEN [m |-> r.m, statuses |-> recorded, cursor |-> i, ok |-> TRUE]
      ELSE [m |-> Judged(janken, r.m, st, recorded), statuses |-> <<>>, cursor |-> i, ok |-> TRUE]

\* What a replay has read after each status.
SessionPlays(janken, events, start, g, K) ==
  /\ g[0] = Fresh(start)
  /\ \A n \in 0..K : g[n].ok = TRUE
  /\ \A n \in 1..K : /\ Asked(janken, g[n - 1].m) # NoStep
                     /\ Found(events, g[n - 1].cursor) # {}
                     /\ g[n] = GoOn(janken, g[n - 1], events)

\* Where the boundaries that the match has passed are.
Marks(janken, bounds, g, K) ==
  \A t \in 0..Len(bounds) - 1 :
    /\ t * NPlayers \in 0..K
    /\ Shot(janken, g[t * NPlayers].m).turn = bounds[t + 1].turn
    /\ Shot(janken, g[t * NPlayers].m).state = bounds[t + 1].state
    /\ \A n \in 0..t * NPlayers - 1 : Asked(janken, g[n].m).turn \in 1..t

\* How many players have answered in the turn.
Together == IsJanken \/ master.mode = "simultaneous"

Done == Len(statuses) + IF Together THEN 0 ELSE master.nextPlayer - 1

\* A replay of the log so far is where the runner is; it applies a step as soon
\* as its last status is read.
AtRunner(r) ==
  /\ r.m = IF phase = "apply" THEN Judged(IsJanken, master, step, statuses) ELSE master
  /\ r.statuses = IF phase = "apply" THEN <<>> ELSE statuses
  /\ r.cursor \in 0..Len(log) /\ Found(log, r.cursor) = {}

Start == NewMaster(ruleset, IF IsJanken THEN <<>> ELSE master.order)

Running(g, K) ==
  /\ K = master.resolved * NPlayers + Done
  /\ AtRunner(g[K])
  /\ \A n \in 0..K - 1 : Asked(IsJanken, g[n].m).turn \in 1..master.resolved + 1

SessionFollows ==
  \E K \in Nat : \E g :
    SessionPlays(IsJanken, log, Start, g, K) /\ Marks(IsJanken, boundary, g, K) /\ (phase # "ended" => Running(g, K))

\* Janken: the rounds replayed are the rounds played.
JankenShot(m) == [turn |-> m.resolved, state |-> J!State(m), perPlayer |-> J!PerPlayer(m)]

Rounded(f) ==
  /\ \A t \in 0..master.resolved : boundary[t + 1] = JankenShot(f[t])
  /\ phase # "ended" => f[master.resolved] = master
  /\ phase \in {"record", "apply"} => \A i \in DOMAIN statuses :
       LoggedStatus(log, step.turn, i) = statuses[i] /\ J!NormalizeAction(master, statuses[i]) = statuses[i]

JankenFollows == \E f : Replays(log, f, master.resolved) /\ Rounded(f)

\* Echo-count: what is logged of a player in the first turns.
LoggedOf(events, upto, p) ==
  {i \in DOMAIN events : /\ events[i].kind \in StatusEvents /\ events[i].turn \in 1..upto
                         /\ events[i].player = p}

LoggedScore(events, upto, p) ==
  Cardinality({i \in LoggedOf(events, upto, p) : events[i].status.status = "accepted"})

LoggedLast(events, upto, p) ==
  LET of == LoggedOf(events, upto, p)
  IN  IF of = {} THEN NoAction("") ELSE events[CHOOSE i \in of : \A j \in of : j <= i].status

EchoShot(b, mode, order, events, t) ==
  /\ b.turn = t
  /\ b.state = [mode |-> mode, order |-> order, score |-> [p \in Player |-> LoggedScore(events, t, p)]]
  /\ \A p \in Player :
       /\ b.perPlayer[p].last = LoggedLast(events, t, p)
       /\ b.perPlayer[p].visible.turn = IF t >= Turns THEN Turns ELSE t + 1
       /\ b.perPlayer[p].visible.expected = E!Expected(order, t)
       /\ b.perPlayer[p].visible.score = b.state.score

\* What of the step in progress is already in the log.
Recorded(p) == {i \in DOMAIN statuses : step.players[i] = p}
Scoring(p) == \E i \in Recorded(p) : statuses[i].status = "accepted"

EchoRunning ==
  /\ \A i \in DOMAIN log : log[i].kind \in StatusEvents => log[i].turn \in 1..master.resolved + 1
  /\ \A p \in Player :
       /\ LoggedScore(log, master.resolved + 1, p) = master.score[p] + IF Scoring(p) THEN 1 ELSE 0
       /\ IF Recorded(p) = {} THEN LoggedLast(log, master.resolved + 1, p) = master.last[p]
          ELSE \A i \in Recorded(p) : LoggedLast(log, master.resolved + 1, p) = statuses[i]

EchoFollows ==
  /\ \A t \in 0..master.resolved : EchoShot(boundary[t + 1], master.mode, master.order, log, t)
  /\ phase # "ended" => EchoRunning

Follows ==
  /\ Course /\ SessionFollows
  /\ IF IsJanken THEN JankenFollows ELSE EchoFollows

HistoryInv == PositionInv /\ (~resumed => Follows)

-----------------------------------------------------------------------------
(* Least and greatest *)

LEMMA LeastIsChosen ==
  ASSUME NEW F, F \subseteq Nat, F # {}
  PROVE  LET i == CHOOSE k \in F : \A j \in F : k <= j IN i \in F /\ \A j \in F : i <= j
<1> DEFINE less == {p \in Nat \X Nat : p[1] < p[2]}
<1>1. IsWellFoundedOn(less, Nat)
  BY NatLessThanWellFounded DEF OpToRel
<1>2. PICK k \in F : \A j \in F : ~(<<j, k>> \in less)
  <2> HIDE DEF less
  <2> QED
    BY <1>1, WFMin
<1>3. \A j \in F : k <= j
  <2> SUFFICES ASSUME NEW j \in F PROVE k <= j
    OBVIOUS
  <2>1. j \in Nat /\ k \in Nat /\ ~(<<j, k>> \in less)
    BY <1>2
  <2> QED
    BY <2>1
<1> QED
  BY <1>3

LEMMA GreatestIsChosen ==
  ASSUME NEW n \in Nat, NEW F, F \subseteq 1..n, F # {}
  PROVE  LET i == CHOOSE k \in F : \A j \in F : j <= k IN i \in F /\ \A j \in F : j <= i
<1> DEFINE G == {n - k : k \in F}
<1>1. G \subseteq Nat /\ G # {}
  <2>1. ASSUME NEW k \in F PROVE n - k \in Nat
    <3>1. k \in 1..n
      OBVIOUS
    <3> QED
      BY <3>1
  <2> QED
    BY <2>1
<1>2. PICK g \in G : \A h \in G : g <= h
  <2> HIDE DEF G
  <2> QED
    BY <1>1, LeastIsChosen
<1>3. PICK k \in F : g = n - k
  BY <1>2
<1>4. \A j \in F : j <= k
  <2> SUFFICES ASSUME NEW j \in F PROVE j <= k
    OBVIOUS
  <2>1. n - k <= n - j
    BY <1>2, <1>3
  <2> HIDE DEF G
  <2>2. k \in 1..n /\ j \in 1..n
    BY Zenon
  <2> QED
    BY <2>1, <2>2
<1> QED
  BY <1>4

-----------------------------------------------------------------------------
(* What a longer log still says *)

Extends(old, new) ==
  /\ Len(old) \in Nat /\ Len(new) \in Nat /\ Len(old) <= Len(new)
  /\ DOMAIN old = 1..Len(old) /\ DOMAIN new = 1..Len(new)
  /\ \A i \in 1..Len(old) : new[i] = old[i]

Added(old, new) == Len(old) + 1..Len(new)

LEMMA ConcatExtends ==
  ASSUME NEW S, NEW T, NEW s \in Seq(S), NEW t \in Seq(T)
  PROVE  /\ Extends(s, s \o t)
         /\ \A i \in Added(s, s \o t) : (s \o t)[i] \in T
<1>1. s \in Seq(S \cup T) /\ t \in Seq(S \cup T)
  BY SeqMonotonic
<1>2. /\ Len(s \o t) = Len(s) + Len(t) /\ Len(s) \in Nat /\ Len(t) \in Nat
      /\ \A i \in 1..Len(s) + Len(t) : (s \o t)[i] = IF i <= Len(s) THEN s[i] ELSE t[i - Len(s)]
      /\ s \o t \in Seq(S \cup T)
  BY <1>1, ConcatProperties, LenProperties
<1>3. DOMAIN s = 1..Len(s) /\ DOMAIN (s \o t) = 1..Len(s \o t) /\ DOMAIN t = 1..Len(t)
  BY <1>1, <1>2, LenProperties
<1>4. \A i \in 1..Len(t) : t[i] \in T
  BY ElementOfSeq
<1> HIDE DEF Extends
<1>5. ASSUME NEW i \in Added(s, s \o t) PROVE (s \o t)[i] \in T
  BY <1>2, <1>4, <1>5 DEF Added
<1>6. Extends(s, s \o t)
  <2> DEFINE u == s \o t
  <2>1. /\ Len(u) = Len(s) + Len(t) /\ \A i \in 1..Len(s) : u[i] = s[i]
    BY <1>2
  <2> HIDE DEF u
  <2>2. Len(u) \in Nat /\ Len(s) <= Len(u)
    BY <1>2, <2>1
  <2>3. DOMAIN u = 1..Len(u)
    BY <1>3 DEF u
  <2> QED
    BY <1>2, <1>3, <2>1, <2>2, <2>3 DEF Extends, u
<1> QED
  BY <1>5, <1>6

LEMMA AppendExtends ==
  ASSUME NEW S, NEW s \in Seq(S), NEW e
  PROVE  /\ Extends(s, Append(s, e)) /\ Len(Append(s, e)) = Len(s) + 1
         /\ Append(s, e)[Len(s) + 1] = e /\ Added(s, Append(s, e)) = {Len(s) + 1}
<1>1. s \in Seq(S \cup {e}) /\ e \in S \cup {e}
  BY SeqMonotonic
<1> DEFINE u == Append(s, e)
<1>2. /\ u \in Seq(S \cup {e}) /\ Len(u) = Len(s) + 1 /\ u[Len(s) + 1] = e
      /\ Len(s) \in Nat /\ DOMAIN s = 1..Len(s) /\ \A i \in 1..Len(s) : u[i] = s[i]
  BY <1>1
<1>3. DOMAIN u = 1..Len(u) /\ Len(u) \in Nat
  BY <1>2, LenProperties
<1> HIDE DEF u
<1>4. Added(s, u) = {Len(s) + 1}
  BY <1>2 DEF Added
<1>5. Extends(s, u)
  BY <1>2, <1>3 DEF Extends
<1> QED
  BY <1>2, <1>4, <1>5 DEF u

\* A replay that has found its next status finds it in a longer log as well.
LEMMA ReplayStands ==
  ASSUME NEW old, NEW new, Extends(old, new), NEW janken, NEW r, Found(old, r.cursor) # {}
  PROVE  Found(new, r.cursor) # {} /\ GoOn(janken, r, new) = GoOn(janken, r, old)
<1> DEFINE F == Found(old, r.cursor)
           G == Found(new, r.cursor)
           i == CHOOSE k \in F : \A j \in F : k <= j
           h == CHOOSE k \in G : \A j \in G : k <= j
<1>1. F = {k \in DOMAIN old : k > r.cursor /\ old[k].kind \in StatusEvents}
      /\ G = {k \in DOMAIN new : k > r.cursor /\ new[k].kind \in StatusEvents}
  BY DEF Found
<1>2. F \subseteq Nat /\ G \subseteq Nat /\ F \subseteq G /\ F # {} /\ G # {}
  BY <1>1 DEF Extends
<1>3. /\ i \in F /\ \A j \in F : i <= j
      /\ h \in G /\ \A j \in G : h <= j
  <2> HIDE DEF F, G
  <2> QED
    BY <1>2, LeastIsChosen
<1>4. h \in F
  <2>1. h <= i /\ i \in 1..Len(old) /\ h \in 1..Len(new) /\ Len(old) \in Nat
    BY <1>1, <1>2, <1>3 DEF Extends
  <2> HIDE DEF h, i
  <2>2. h \in 1..Len(old)
    BY <2>1
  <2>3. new[h] = old[h] /\ h \in DOMAIN old
    BY <2>2 DEF Extends
  <2> QED
    BY <1>1, <1>3, <2>3
<1>5. h = i
  <2>1. h <= i /\ i <= h /\ h \in Nat /\ i \in Nat
    BY <1>2, <1>3, <1>4
  <2> HIDE DEF h, i
  <2> QED
    BY <2>1
<1>6. new[i] = old[i] /\ i \in DOMAIN old /\ i \in DOMAIN new
  <2> HIDE DEF i
  <2> QED
    BY <1>1, <1>3 DEF Extends
<1> DEFINE Going(e) ==
             LET st == Asked(janken, r.m)
                 recorded == Append(r.statuses, e.status)
             IN  IF ~(e.turn = st.turn /\ e.player = st.players[Len(recorded)])
                 THEN [r EXCEPT !.ok = FALSE]
                 ELSE IF Len(recorded) < Len(st.players)
                 THEN [m |-> r.m, statuses |-> recorded, cursor |-> i, ok |-> TRUE]
                 ELSE [m |-> Judged(janken, r.m, st, recorded), statuses |-> <<>>, cursor |-> i, ok |-> TRUE]
<1>7. GoOn(janken, r, old) = Going(old[i])
  BY Zenon DEF GoOn
<1>8. GoOn(janken, r, new) = Going(new[h])
  <2>1. h = i
    BY <1>5
  <2> HIDE DEF i
  <2> QED
    BY <2>1, Zenon DEF GoOn
<1> HIDE DEF i, h, F, G, Going
<1>9. GoOn(janken, r, new) = GoOn(janken, r, old)
  BY <1>5, <1>6, <1>7, <1>8
<1> QED
  BY <1>2, <1>9 DEF G

LEMMA SessionPlaysOn ==
  ASSUME NEW old, NEW new, Extends(old, new), NEW janken, NEW start, NEW g, NEW K \in Nat,
         SessionPlays(janken, old, start, g, K)
  PROVE  SessionPlays(janken, new, start, g, K)
<1>1. ASSUME NEW n \in 1..K
      PROVE  /\ Asked(janken, g[n - 1].m) # NoStep /\ Found(new, g[n - 1].cursor) # {}
             /\ g[n] = GoOn(janken, g[n - 1], new)
  <2>1. /\ Asked(janken, g[n - 1].m) # NoStep /\ Found(old, g[n - 1].cursor) # {}
        /\ g[n] = GoOn(janken, g[n - 1], old)
    BY DEF SessionPlays
  <2> QED
    BY <2>1, ReplayStands
<1> QED
  BY <1>1 DEF SessionPlays

LEMMA StatusStands ==
  ASSUME NEW old, NEW new, Extends(old, new), NEW turn, NEW p,
         \A i \in Added(old, new) :
           ~(new[i].kind \in StatusEvents /\ new[i].turn = turn /\ new[i].turn # 0 /\ new[i].player = p)
  PROVE  LoggedStatus(new, turn, p) = LoggedStatus(old, turn, p)
<1> DEFINE F(s) == {i \in DOMAIN s : /\ s[i].kind \in StatusEvents /\ s[i].turn = turn
                                     /\ s[i].turn # 0 /\ s[i].player = p}
<1>1. F(new) = F(old) /\ F(old) \subseteq 1..Len(old) /\ Len(old) \in Nat
      /\ \A i \in F(old) : new[i] = old[i]
  <2>1. \A i : i \in 1..Len(new) <=> i \in 1..Len(old) \/ i \in Added(old, new)
    BY DEF Extends, Added
  <2> QED
    BY <2>1 DEF Extends
<1> DEFINE i == CHOOSE k \in F(old) : \A j \in F(old) : j <= k
<1>2. F(old) # {} => i \in F(old)
  <2> HIDE DEF F
  <2> QED
    BY <1>1, GreatestIsChosen
<1>3. LoggedStatus(old, turn, p) = IF F(old) = {} THEN NoAction("") ELSE old[i].status
  BY Zenon DEF LoggedStatus
<1>4. LoggedStatus(new, turn, p) = IF F(old) = {} THEN NoAction("") ELSE new[i].status
  <2>1. LoggedStatus(new, turn, p) = IF F(new) = {} THEN NoAction("")
          ELSE new[CHOOSE k \in F(new) : \A j \in F(new) : j <= k].status
    BY Zenon DEF LoggedStatus
  <2> HIDE DEF F
  <2> QED
    BY <1>1, <2>1, Zenon
<1> HIDE DEF F, i
<1>5. CASE F(old) = {}
  BY <1>3, <1>4, <1>5
<1>6. CASE F(old) # {}
  <2>1. new[i] = old[i]
    BY <1>1, <1>2, <1>6
  <2> QED
    BY <1>3, <1>4, <1>6, <2>1
<1> QED
  BY <1>5, <1>6

\* The status that was logged last.
LEMMA StatusLogged ==
  ASSUME NEW S, NEW s \in Seq(S), NEW e, e.kind \in StatusEvents, e.turn # 0
  PROVE  LoggedStatus(Append(s, e), e.turn, e.player) = e.status
<1> DEFINE new == Append(s, e)
           F == {i \in DOMAIN new : /\ new[i].kind \in StatusEvents /\ new[i].turn = e.turn
                                    /\ new[i].turn # 0 /\ new[i].player = e.player}
           n == Len(s) + 1
           i == CHOOSE k \in F : \A j \in F : j <= k
<1>1. n \in Nat /\ n > 0 /\ DOMAIN new = 1..n /\ new[n] = e
  <2>1. Extends(s, new) /\ Len(new) = n /\ new[n] = e
    BY AppendExtends
  <2>2. Len(s) \in Nat
    BY <2>1 DEF Extends
  <2>3. n \in Nat /\ n > 0
    BY <2>2
  <2> HIDE DEF new, n
  <2> QED
    BY <2>1, <2>3 DEF Extends
<1>2. n \in F /\ F \subseteq 1..n
  <2> HIDE DEF new, n
  <2>1. n \in 1..n
    BY <1>1
  <2> QED
    BY <1>1, <2>1
<1>3. i \in F /\ \A j \in F : j <= i
  <2> HIDE DEF F, n
  <2> QED
    BY <1>1, <1>2, GreatestIsChosen
<1>4. i = n
  <2>1. i \in 1..n /\ n <= i /\ n \in Nat
    BY <1>1, <1>2, <1>3
  <2> HIDE DEF i, n, F
  <2> QED
    BY <2>1
<1>5. LoggedStatus(new, e.turn, e.player) = IF F = {} THEN NoAction("") ELSE new[i].status
  BY Zenon DEF LoggedStatus
<1> HIDE DEF i, F, n, new
<1> QED
  BY <1>1, <1>2, <1>4, <1>5 DEF new

LEMMA ReplaysOn ==
  ASSUME NEW old, NEW new, Extends(old, new), NEW f, NEW n \in Nat, Replays(old, f, n),
         \A i \in Added(old, new) : new[i].kind \in StatusEvents => new[i].turn \notin 1..n
  PROVE  Replays(new, f, n)
<1>1. ASSUME NEW k \in 1..n, NEW m PROVE LoggedRound(m, new, k) = LoggedRound(m, old, k)
  <2>1. \A p : LoggedStatus(new, k, p) = LoggedStatus(old, k, p)
    BY StatusStands
  <2> QED
    BY <2>1 DEF LoggedRound
<1>2. \A k \in 0..n : IF k = 0 THEN TRUE ELSE LoggedRound(f[k - 1], new, k) = LoggedRound(f[k - 1], old, k)
  BY <1>1
<1>3. f = [k \in 0..n |-> IF k = 0 THEN J!New ELSE LoggedRound(f[k - 1], old, k)]
  BY DEF Replays
<1>4. f = [k \in 0..n |-> f[k]] /\ \A k \in 0..n : f[k] = IF k = 0 THEN J!New ELSE LoggedRound(f[k - 1], old, k)
  BY <1>3
<1>5. \A k \in 0..n : f[k] = IF k = 0 THEN J!New ELSE LoggedRound(f[k - 1], new, k)
  BY <1>2, <1>4
<1> QED
  BY <1>4, <1>5, Zenon DEF Replays

LEMMA OfStands ==
  ASSUME NEW old, NEW new, Extends(old, new), NEW upto, NEW p,
         \A i \in Added(old, new) :
           ~(new[i].kind \in StatusEvents /\ new[i].turn \in 1..upto /\ new[i].player = p)
  PROVE  /\ LoggedScore(new, upto, p) = LoggedScore(old, upto, p)
         /\ LoggedLast(new, upto, p) = LoggedLast(old, upto, p)
<1> DEFINE F(s) == LoggedOf(s, upto, p)
<1>1. F(new) = F(old) /\ F(old) \subseteq 1..Len(old) /\ Len(old) \in Nat
      /\ \A i \in F(old) : new[i] = old[i]
  <2>1. \A i : i \in 1..Len(new) <=> i \in 1..Len(old) \/ i \in Added(old, new)
    BY DEF Extends, Added
  <2> QED
    BY <2>1 DEF Extends, LoggedOf
<1> DEFINE i == CHOOSE k \in F(old) : \A j \in F(old) : j <= k
<1>2. F(old) # {} => i \in F(old)
  <2> HIDE DEF F
  <2> QED
    BY <1>1, GreatestIsChosen
<1>3. LoggedLast(old, upto, p) = IF F(old) = {} THEN NoAction("") ELSE old[i].status
  BY Zenon DEF LoggedLast
<1>4. LoggedLast(new, upto, p) = IF F(old) = {} THEN NoAction("") ELSE new[i].status
  <2>1. LoggedLast(new, upto, p) = IF F(new) = {} THEN NoAction("")
          ELSE new[CHOOSE k \in F(new) : \A j \in F(new) : j <= k].status
    BY Zenon DEF LoggedLast
  <2> HIDE DEF F
  <2> QED
    BY <1>1, <2>1, Zenon
<1>5. {k \in F(new) : new[k].status.status = "accepted"} = {k \in F(old) : old[k].status.status = "accepted"}
  <2> HIDE DEF F
  <2> QED
    BY <1>1
<1>6. LoggedScore(new, upto, p) = LoggedScore(old, upto, p)
  BY <1>5 DEF LoggedScore
<1> HIDE DEF F, i
<1> QED
  BY <1>1, <1>2, <1>3, <1>4, <1>6

\* One more status of a player.
LEMMA OfLogged ==
  ASSUME NEW S, NEW s \in Seq(S), NEW e, NEW upto, e.kind \in StatusEvents, e.turn \in 1..upto
  PROVE  /\ LoggedScore(Append(s, e), upto, e.player)
              = LoggedScore(s, upto, e.player) + IF e.status.status = "accepted" THEN 1 ELSE 0
         /\ LoggedLast(Append(s, e), upto, e.player) = e.status
<1> DEFINE new == Append(s, e)
           n == Len(s) + 1
           p == e.player
           F == LoggedOf(new, upto, p)
           G == LoggedOf(s, upto, p)
           i == CHOOSE k \in F : \A j \in F : j <= k
           won(t, U) == {k \in U : t[k].status.status = "accepted"}
<1>1. n \in Nat /\ DOMAIN new = 1..n /\ new[n] = e /\ Len(s) \in Nat /\ DOMAIN s = 1..Len(s)
      /\ \A k \in 1..Len(s) : new[k] = s[k]
  <2>1. Extends(s, new) /\ Len(new) = n /\ new[n] = e
    BY AppendExtends
  <2> HIDE DEF new, n
  <2>2. n \in Nat /\ DOMAIN new = 1..n /\ new[n] = e /\ Len(s) \in Nat /\ DOMAIN s = 1..Len(s)
        /\ \A k \in 1..Len(s) : new[k] = s[k]
    BY <2>1 DEF Extends
  <2> QED
    BY <2>2
<1>2. F = G \cup {n} /\ G \subseteq 1..Len(s) /\ n \notin 1..Len(s) /\ F \subseteq 1..n
  <2>1. \A k : k \in 1..n <=> k \in 1..Len(s) \/ k = n
    BY <1>1
  <2>2. n \notin 1..Len(s)
    BY <1>1
  <2> HIDE DEF new, n
  <2> QED
    BY <1>1, <2>1, <2>2 DEF LoggedOf
<1> HIDE DEF n, new, F, G
<1>3. i \in F /\ \A j \in F : j <= i
  BY <1>1, <1>2, GreatestIsChosen
<1>4. i = n
  <2>1. i \in 1..n /\ n <= i /\ n \in Nat
    BY <1>1, <1>2, <1>3
  <2> HIDE DEF i
  <2> QED
    BY <2>1
<1>5. LoggedLast(new, upto, p) = IF F = {} THEN NoAction("") ELSE new[i].status
  BY Zenon DEF LoggedLast, F
<1>6. LoggedLast(new, upto, p) = e.status
  <2> HIDE DEF i
  <2> QED
    BY <1>1, <1>3, <1>4, <1>5
<1>7. won(new, F) = IF e.status.status = "accepted" THEN won(s, G) \cup {n} ELSE won(s, G)
  BY <1>1, <1>2
<1>8. IsFiniteSet(won(s, G)) /\ n \notin won(s, G)
  <2>1. IsFiniteSet(1..Len(s))
    BY <1>1, FS_Interval
  <2>2. won(s, G) \in SUBSET (1..Len(s))
    BY <1>2
  <2> HIDE DEF won
  <2> QED
    BY <1>2, <2>1, <2>2, FS_Subset
<1> DEFINE W == won(s, G)
           V == won(new, F)
<1>9. Cardinality(V) = Cardinality(W) + IF e.status.status = "accepted" THEN 1 ELSE 0
  <2> HIDE DEF W, V
  <2>1. IsFiniteSet(W) /\ n \notin W /\ V = IF e.status.status = "accepted" THEN W \cup {n} ELSE W
    BY <1>7, <1>8 DEF V, W
  <2>2. Cardinality(W \cup {n}) = Cardinality(W) + 1 /\ Cardinality(W) \in Nat
    BY <2>1, FS_AddElement, FS_CardinalityType
  <2> QED
    BY <2>1, <2>2
<1>10. LoggedScore(new, upto, p) = Cardinality(V) /\ LoggedScore(s, upto, p) = Cardinality(W)
  BY DEF LoggedScore, F, G
<1> HIDE DEF V, W
<1>11. LoggedScore(new, upto, p) = LoggedScore(s, upto, p) + IF e.status.status = "accepted" THEN 1 ELSE 0
  BY <1>9, <1>10
<1> QED
  BY <1>6, <1>11 DEF new

-----------------------------------------------------------------------------
(* The steps of a match and what they log *)

LEMMA AskLog ==
  ASSUME PositionInv, AskStep
  PROVE  Extends(log, log') /\ \A i \in Added(log, log') : log'[i].kind \notin StatusEvents
<1> DEFINE more == [i \in 1..Len(step'.players) |-> Event("turn_requested", step'.turn, step'.players[i], Unseen)]
           T == {more[i] : i \in 1..Len(step'.players)}
<1>1. step' = NextStep(master) /\ log' = log \o more
  BY DEF AskStep
<1>2. Len(step'.players) \in Nat
  BY <1>1, StepAsked DEF PositionInv
<1>3. more \in Seq(T)
  BY <1>2
<1>4. \A e \in T : e.kind \notin StatusEvents
  <2>1. ASSUME NEW i \in 1..Len(step'.players) PROVE more[i].kind = "turn_requested"
    <3>1. more[i] = Event("turn_requested", step'.turn, step'.players[i], Unseen)
      OBVIOUS
    <3> HIDE DEF more
    <3> QED
      BY <3>1 DEF Event
  <2>2. "turn_requested" \notin StatusEvents
    BY DEF StatusEvents
  <2> HIDE DEF more
  <2> QED
    BY <2>1, <2>2
<1> HIDE DEF more, T
<1>5. PICK S : log \in Seq(S)
  BY DEF PositionInv, LogIsSequence
<1> QED
  BY <1>1, <1>3, <1>4, <1>5, ConcatExtends

LEMMA EndLog ==
  ASSUME PositionInv, End
  PROVE  Extends(log, log') /\ \A i \in Added(log, log') : log'[i].turn = 0
<1>p. PICK gone \in Leavers :
        log' = log \o SetToSeq({Event("runtime_exited", 0, p, Unseen) : p \in gone})
  BY DEF End
<1> DEFINE left == {Event("runtime_exited", 0, p, Unseen) : p \in gone}
<1>1. log' = log \o SetToSeq(left)
  BY <1>p
<1>2. IsFiniteSet(left)
  <2> DEFINE f == [p \in gone |-> Event("runtime_exited", 0, p, Unseen)]
  <2>1. gone \in SUBSET Player /\ IsFiniteSet(Player)
    BY SomeLeavers, SamePlayers, PlayersAreFinite
  <2>2. IsFiniteSet(gone)
    BY <2>1, FS_Subset
  <2>3. f \in Surjection(gone, left)
    BY DEF Surjection
  <2> HIDE DEF f, left
  <2> QED
    BY <2>2, <2>3, FS_Surjection
<1>3. \A e \in left : e.turn = 0
  BY DEF Event
<1> HIDE DEF left
<1>4. PICK S : log \in Seq(S)
  BY DEF PositionInv, LogIsSequence
<1>5. SetToSeq(left) \in Seq(left)
  BY <1>2, SetsAreListed
<1> QED
  BY <1>1, <1>3, <1>4, <1>5, ConcatExtends

\* A status that RecordTurn logs.
LEMMA RecordLog ==
  ASSUME PositionInv, Course, RecordTurn
  PROVE  \E e, result :
           LET p == step.players[Len(statuses) + 1] IN
           /\ e.kind \in StatusEvents /\ e.turn = step.turn /\ e.player = p
           /\ result \in Results /\ e.status = NormalizeAction(master, result)
           /\ log' = Append(log, e) /\ Extends(log, log') /\ Len(log') = Len(log) + 1
           /\ log'[Len(log) + 1] = e /\ Added(log, log') = {Len(log) + 1}
           /\ statuses' = Append(statuses, e.status)
           /\ phase' = IF Len(statuses') = Len(step.players) THEN "apply" ELSE "record"
<1>1. PICK result \in Results :
        LET p == step.players[Len(statuses) + 1]
            s == NormalizeAction(master, result)
        IN  /\ statuses' = Append(statuses, s)
            /\ log' = Append(log, Event(EventKind(result), step.turn, p, s))
            /\ phase' = IF Len(statuses') = Len(step.players) THEN "apply" ELSE "record"
  BY DEF RecordTurn
<1> DEFINE p == step.players[Len(statuses) + 1]
           s == NormalizeAction(master, result)
           e == Event(EventKind(result), step.turn, p, s)
<1>2. EventKind(result) \in StatusEvents
  BY DEF EventKind, StatusEvents
<1>3. e.kind \in StatusEvents /\ e.turn = step.turn /\ e.player = p /\ e.status = s
  BY <1>2 DEF Event
<1>4. log' = Append(log, e) /\ statuses' = Append(statuses, s)
  BY <1>1
<1>5. PICK S : log \in Seq(S)
  BY DEF PositionInv, LogIsSequence
<1> HIDE DEF e
<1>6. /\ Extends(log, log') /\ Len(log') = Len(log) + 1 /\ log'[Len(log) + 1] = e
      /\ Added(log, log') = {Len(log) + 1}
  BY <1>4, <1>5, AppendExtends
<1> QED
  BY <1>1, <1>3, <1>4, <1>6

LEMMA StepShape ==
  ASSUME Position(master), Course, step = NextStep(master), step # NoStep
  PROVE  /\ step.turn = master.resolved + 1 /\ master.resolved \in Nat
         /\ step.players = IF Together THEN [p \in Player |-> p] ELSE <<master.nextPlayer>>
         /\ Len(step.players) = IF Together THEN NPlayers ELSE 1
         /\ ~Together => step.mode = "sequential" /\ master.nextPlayer \in Player
         /\ \A i \in 1..Len(step.players) : step.players[i] \in Player
         /\ step.mode = IF Together THEN "simultaneous" ELSE "sequential"
<1>1. /\ [p \in Player |-> p] \in Seq(Player) /\ Len([p \in Player |-> p]) = NPlayers
      /\ \A i \in 1..NPlayers : i \in Player /\ [p \in Player |-> p][i] \in Player
  BY SamePlayers DEF Player
<1>2. ~IsJanken => ruleset.mode \in {"simultaneous", "sequential"}
  <2>1. ruleset \in Rulesets
    BY DEF Course
  <2>2. CASE ruleset \in [game : {"echo-count"}, mode : {"simultaneous", "sequential"}, seedAware : {FALSE}]
    BY <2>2
  <2>3. CASE ruleset \in {[game |-> "janken", mode |-> "simultaneous", seedAware |-> FALSE]}
    BY <2>3
  <2>4. CASE ruleset \in {[game |-> "echo-count", mode |-> "simultaneous", seedAware |-> TRUE]}
    BY <2>4
  <2> QED
    BY <2>1, <2>2, <2>3, <2>4 DEF Rulesets
<1>3. CASE IsJanken
  <2>1. master.resolved \in Nat /\ Together
    BY <1>3 DEF Position, JankenPosition, Together
  <2>2. step = J!Step(master.resolved + 1, "simultaneous", [p \in Player |-> p])
    BY <1>3, SamePlayers DEF NextStep, J!NextStep, J!NoStep, NoStep, J!Step, Step
  <2>3. step.turn = master.resolved + 1 /\ step.mode = "simultaneous" /\ step.players = [p \in Player |-> p]
    BY <2>2 DEF J!Step
  <2> QED
    BY <1>1, <2>1, <2>3
<1>4. CASE ~IsJanken
  <2>1. master.resolved \in Nat /\ master.nextPlayer \in Player /\ master.mode = ruleset.mode
    BY <1>4 DEF Position, EchoPosition, Course
  <2>2. step = E!Step(master.resolved + 1, master.mode,
                      IF Together THEN [p \in Player |-> p] ELSE <<master.nextPlayer>>)
    BY <1>4, SamePlayers DEF NextStep, E!NextStep, E!NoStep, NoStep, E!Step, Step, Together
  <2>3. /\ step.turn = master.resolved + 1 /\ step.mode = master.mode
        /\ step.players = IF Together THEN [p \in Player |-> p] ELSE <<master.nextPlayer>>
    BY <2>2 DEF E!Step
  <2>4. Together <=> master.mode = "simultaneous"
    BY <1>4 DEF Together
  <2>5. Len(<<master.nextPlayer>>) = 1 /\ <<master.nextPlayer>>[1] = master.nextPlayer /\ 1..1 = {1}
    OBVIOUS
  <2>6. CASE Together
    BY <1>1, <2>1, <2>3, <2>4, <2>6
  <2>7. CASE ~Together
    BY <1>2, <1>4, <2>1, <2>3, <2>4, <2>5, <2>7
  <2> QED
    BY <2>6, <2>7
<1> QED
  BY <1>3, <1>4

Around == ~Together /\ master.nextPlayer < NPlayers

LEMMA EchoApplied ==
  ASSUME NEW m, EchoPosition(m), NEW st, NEW ss
  PROVE  LET asked(p)  == \E i \in DOMAIN st.players : st.players[i] = p
             status(p) == ss[CHOOSE i \in DOMAIN st.players : st.players[i] = p]
             around    == st.mode = "sequential" /\ m.nextPlayer < NPlayers
             n         == E!ApplyStep(m, st, ss)
         IN  /\ n.mode = m.mode /\ n.order = m.order
             /\ n.resolved = IF around THEN m.resolved ELSE m.resolved + 1
             /\ n.nextPlayer = IF around THEN m.nextPlayer + 1 ELSE 1
             /\ \A p \in Player : /\ n.score[p] = m.score[p] + IF asked(p) /\ status(p).status = "accepted" THEN 1 ELSE 0
                                  /\ n.last[p] = IF asked(p) THEN status(p) ELSE m.last[p]
<1> DEFINE asked(p) == \E i \in DOMAIN st.players : st.players[i] = p
           status(p) == ss[CHOOSE i \in DOMAIN st.players : st.players[i] = p]
           around == st.mode = "sequential" /\ m.nextPlayer < NPlayers
           n == E!ApplyStep(m, st, ss)
<1>1. n = [m EXCEPT
             !.score = [p \in Player |-> IF asked(p) /\ status(p).status = "accepted" THEN @[p] + 1 ELSE @[p]],
             !.last = [p \in Player |-> IF asked(p) THEN status(p) ELSE @[p]],
             !.resolved = IF around THEN @ ELSE @ + 1,
             !.nextPlayer = IF around THEN @ + 1 ELSE 1]
  BY SamePlayers DEF E!ApplyStep
<1> HIDE DEF asked, status, around, n
<1>2. m.resolved \in Nat /\ m.nextPlayer \in Player /\ m.score \in [Player -> Nat]
  BY DEF EchoPosition
<1>3. /\ n.score = [p \in Player |-> IF asked(p) /\ status(p).status = "accepted" THEN m.score[p] + 1 ELSE m.score[p]]
      /\ n.last = [p \in Player |-> IF asked(p) THEN status(p) ELSE m.last[p]]
      /\ n.resolved = IF around THEN m.resolved ELSE m.resolved + 1
      /\ n.nextPlayer = IF around THEN m.nextPlayer + 1 ELSE 1
      /\ n.mode = m.mode /\ n.order = m.order
  BY <1>1 DEF EchoPosition
<1>4. ASSUME NEW p \in Player
      PROVE  /\ n.score[p] = m.score[p] + IF asked(p) /\ status(p).status = "accepted" THEN 1 ELSE 0
             /\ n.last[p] = IF asked(p) THEN status(p) ELSE m.last[p]
  <2>1. m.score[p] \in Nat
    BY <1>2
  <2> QED
    BY <1>3, <2>1
<1> QED
  BY <1>3, <1>4 DEF asked, status, around, n

LEMMA Applied ==
  ASSUME Position(master), Course, ApplyDecisionResults
  PROVE  /\ master' = Judged(IsJanken, master, step, statuses)
         /\ phase = "apply" /\ step = NextStep(master) /\ step # NoStep
         /\ master'.resolved = IF Around THEN master.resolved ELSE master.resolved + 1
         /\ ~IsJanken => /\ master'.mode = master.mode /\ master'.order = master.order
                         /\ master'.nextPlayer = IF Around THEN master.nextPlayer + 1 ELSE 1
         /\ boundary' = IF Around THEN boundary ELSE Append(boundary, CurrentSnapshot(master'))
         /\ phase' = "next" /\ statuses' = <<>> /\ step' = NoStep /\ log' = log
         /\ ruleset' = ruleset /\ resumed' = resumed
<1>1. /\ phase = "apply" /\ master' = ApplyStep(master, step, statuses)
      /\ boundary' = IF master'.resolved > master.resolved
                     THEN Append(boundary, CurrentSnapshot(master')) ELSE boundary
      /\ phase' = "next" /\ statuses' = <<>> /\ step' = NoStep
      /\ ruleset' = ruleset /\ log' = log /\ resumed' = resumed
  BY DEF ApplyDecisionResults
<1>2. step = NextStep(master) /\ step # NoStep
  BY <1>1 DEF Course
<1>3. master' = Judged(IsJanken, master, step, statuses)
  BY <1>1 DEF ApplyStep, Judged
<1>4. /\ step.turn = master.resolved + 1 /\ master.resolved \in Nat
      /\ step.mode = IF Together THEN "simultaneous" ELSE "sequential"
  BY <1>2, StepShape
<1>5. /\ master'.resolved = IF Around THEN master.resolved ELSE master.resolved + 1
      /\ ~IsJanken => /\ master'.mode = master.mode /\ master'.order = master.order
                      /\ master'.nextPlayer = IF Around THEN master.nextPlayer + 1 ELSE 1
  <2>1. CASE IsJanken
    <3>1. ~Around
      BY <2>1 DEF Around, Together
    <3>2. master'.resolved = master.resolved + 1
      BY <1>3, <1>4, <2>1, JankenRound DEF Judged, Position
    <3> QED
      BY <2>1, <3>1, <3>2
  <2>2. CASE ~IsJanken
    <3>1. step.mode = "sequential" /\ master.nextPlayer < NPlayers <=> Around
      BY <1>4 DEF Around
    <3>2. EchoPosition(master) /\ master' = E!ApplyStep(master, step, statuses)
      BY <1>3, <2>2 DEF Judged, Position
    <3> DEFINE n == E!ApplyStep(master, step, statuses)
               around == step.mode = "sequential" /\ master.nextPlayer < NPlayers
    <3>3. /\ n.mode = master.mode /\ n.order = master.order
          /\ n.resolved = IF around THEN master.resolved ELSE master.resolved + 1
          /\ n.nextPlayer = IF around THEN master.nextPlayer + 1 ELSE 1
      BY <3>2, EchoApplied
    <3> HIDE DEF n
    <3> QED
      BY <2>2, <3>1, <3>2, <3>3 DEF n
  <2> QED
    BY <2>1, <2>2
<1>6. master'.resolved > master.resolved <=> ~Around
  BY <1>4, <1>5
<1> QED
  BY <1>1, <1>2, <1>3, <1>5, <1>6

LEMMA SequenceGrows ==
  ASSUME NEW s, IsSequence(s), NEW e
  PROVE  /\ IsSequence(Append(s, e)) /\ Len(Append(s, e)) = Len(s) + 1 /\ Len(s) \in Nat
         /\ DOMAIN s = 1..Len(s) /\ DOMAIN Append(s, e) = 1..(Len(s) + 1)
         /\ Append(s, e)[Len(s) + 1] = e /\ \A i \in 1..Len(s) : Append(s, e)[i] = s[i]
<1>1. PICK S : s \in Seq(S)
  BY DEF IsSequence
<1>2. s \in Seq(S \cup {e}) /\ e \in S \cup {e}
  BY <1>1, SeqMonotonic
<1> DEFINE u == Append(s, e)
<1>3. /\ u \in Seq(S \cup {e}) /\ Len(u) = Len(s) + 1 /\ u[Len(s) + 1] = e /\ Len(s) \in Nat
      /\ DOMAIN s = 1..Len(s) /\ \A i \in 1..Len(s) : u[i] = s[i]
  BY <1>2
<1> HIDE DEF u
<1>4. DOMAIN u = 1..(Len(s) + 1) /\ IsSequence(u)
  BY <1>3 DEF IsSequence
<1> QED
  BY <1>3, <1>4 DEF u

LEMMA NoneIsSequence == IsSequence(<<>>) /\ Len(<<>>) = 0
  BY EmptySeq DEF IsSequence

LEMMA CourseInit == Init => Course
<1> SUFFICES ASSUME Init PROVE Course
  OBVIOUS
<1>1. PICK order \in E!Orders(ruleset.seedAware) :
        master = NewMaster(ruleset, order) /\ boundary = <<CurrentSnapshot(master)>>
  BY DEF Init
<1>2. ruleset \in Rulesets /\ phase = "next" /\ statuses = <<>>
  BY DEF Init
<1>3. master.resolved = 0
  BY <1>1 DEF NewMaster, J!New, E!New
<1>4. ~IsJanken => master.mode = ruleset.mode /\ (~ruleset.seedAware => master.order = E!Identity)
  BY <1>1 DEF NewMaster, E!New, E!Orders, IsJanken
<1>5. IsSequence(boundary) /\ Len(boundary) = 1
  <2>1. boundary \in Seq({CurrentSnapshot(master)})
    BY <1>1
  <2> QED
    BY <1>1, <2>1 DEF IsSequence
<1> QED
  BY <1>2, <1>3, <1>4, <1>5, NoneIsSequence DEF Course

LEMMA CourseAsk == ASSUME PositionInv, Course, AskStep PROVE Course'
<1>1. /\ phase = "next" /\ NextStep(master) # NoStep /\ step' = NextStep(master) /\ statuses' = <<>>
      /\ phase' = "record" /\ ruleset' = ruleset /\ master' = master /\ boundary' = boundary
  BY DEF AskStep
<1>2. 0 < Len(step'.players)
  <2>1. Len(step'.players) \in {NPlayers, 1}
    <3>1. Len([p \in Player |-> p]) = NPlayers /\ \A x : Len(<<x>>) = 1
      BY SamePlayers DEF Player
    <3>2. NextStep(master) # NoStep => NextStep(master).players = [p \in Player |-> p]
                                       \/ \E x : NextStep(master).players = <<x>>
      BY SamePlayers DEF NextStep, J!NextStep, E!NextStep, J!NoStep, E!NoStep, NoStep, J!Step, E!Step, Step
    <3> QED
      BY <1>1, <3>1, <3>2
  <2> QED
    BY <2>1, Sizes
<1>3. step' = NextStep(master)'
  BY <1>1 DEF NextStep, IsJanken
<1>4. IsJanken' = IsJanken /\ Len(statuses') = 0 /\ IsSequence(statuses')
  BY <1>1, NoneIsSequence DEF IsJanken
<1>5. NoStep' = NoStep
  BY DEF NoStep, Step
<1> QED
  BY <1>1, <1>2, <1>3, <1>4, <1>5 DEF Course, IsSequence

LEMMA CourseRecord == ASSUME PositionInv, Course, RecordTurn PROVE Course'
<1>1. /\ phase = "record" /\ ruleset' = ruleset /\ master' = master /\ boundary' = boundary
      /\ step' = step
  BY DEF RecordTurn
<1>2. PICK e : /\ statuses' = Append(statuses, e.status)
               /\ phase' = IF Len(statuses') = Len(step.players) THEN "apply" ELSE "record"
  BY RecordLog
<1>3. IsSequence(statuses') /\ Len(statuses') = Len(statuses) + 1 /\ Len(statuses) \in Nat
  <2>1. IsSequence(statuses)
    BY DEF Course
  <2> DEFINE s == statuses'
             x == e.status
  <2>2. IsSequence(Append(statuses, x)) /\ Len(Append(statuses, x)) = Len(statuses) + 1 /\ Len(statuses) \in Nat
    BY <2>1, SequenceGrows
  <2> QED
    BY <1>2, <2>2
<1>4. step' = NextStep(master)' /\ step' # NoStep /\ IsJanken' = IsJanken /\ NoStep' = NoStep
  BY <1>1 DEF Course, NextStep, IsJanken, NoStep, Step
<1>5. Len(step'.players) \in Nat /\ Len(statuses) < Len(step'.players)
  <2>1. Position(master) /\ step = NextStep(master)
    BY <1>1 DEF PositionInv, Course
  <2> QED
    BY <1>1, <2>1, StepAsked DEF Course
<1>6. /\ phase' = "record" => Len(statuses') < Len(step'.players)
      /\ phase' = "apply" => Len(statuses') = Len(step'.players)
      /\ phase' \in {"record", "apply"}
  BY <1>1, <1>2, <1>3, <1>5
<1> QED
  BY <1>1, <1>3, <1>4, <1>6 DEF Course, IsSequence

LEMMA CourseApply == ASSUME PositionInv, Course, ApplyDecisionResults PROVE Course'
<1>1. /\ master'.resolved = IF Around THEN master.resolved ELSE master.resolved + 1
      /\ ~IsJanken => master'.mode = master.mode /\ master'.order = master.order
      /\ boundary' = IF Around THEN boundary ELSE Append(boundary, CurrentSnapshot(master'))
      /\ phase' = "next" /\ statuses' = <<>> /\ ruleset' = ruleset
  BY Applied DEF PositionInv
<1>2. IsSequence(boundary') /\ Len(boundary') = master'.resolved + 1
  <2>1. IsSequence(boundary) /\ Len(boundary) = master.resolved + 1
    BY DEF Course
  <2> DEFINE x == CurrentSnapshot(master')
  <2>2. IsSequence(Append(boundary, x)) /\ Len(Append(boundary, x)) = Len(boundary) + 1
    BY <2>1, SequenceGrows
  <2> QED
    BY <1>1, <2>1, <2>2
<1>3. IsJanken' = IsJanken /\ IsSequence(statuses')
  BY <1>1, NoneIsSequence DEF IsJanken
<1> QED
  BY <1>1, <1>2, <1>3 DEF Course, IsSequence

LEMMA CourseEnd == ASSUME Course, End PROVE Course'
<1>1. /\ phase' = "ended" /\ ruleset' = ruleset /\ master' = master /\ boundary' = boundary
      /\ statuses' = statuses
  BY DEF End
<1> QED
  BY <1>1 DEF Course, IsSequence, IsJanken

-----------------------------------------------------------------------------
(* The replay of the session follows the match *)

LEMMA AskedIsNext == \A m : Asked(IsJanken, m) = NextStep(m)
  BY DEF Asked, NextStep

LEMMA SessionInit == Init => SessionFollows
<1> SUFFICES ASSUME Init PROVE SessionFollows
  OBVIOUS
<1>1. PICK order : master = NewMaster(ruleset, order) /\ boundary = <<CurrentSnapshot(master)>>
  BY DEF Init
<1>2. phase = "next" /\ statuses = <<>> /\ log = <<>>
  BY DEF Init
<1>3. Start = master
  BY <1>1 DEF Start, NewMaster, IsJanken, E!New
<1>4. master.resolved = 0 /\ (~Together => master.nextPlayer = 1)
  BY <1>1 DEF NewMaster, IsJanken, Together, J!New, E!New
<1> DEFINE g == [n \in {0} |-> Fresh(Start)]
<1>5. g[0].m = master /\ g[0].statuses = <<>> /\ g[0].cursor = 0 /\ g[0].ok = TRUE
  BY <1>3 DEF Fresh
<1>6. 0..0 = {0} /\ 1..0 = {} /\ 0..(-1) = {} /\ 0 * NPlayers = 0
  BY SamePlayers
<1>7. SessionPlays(IsJanken, log, Start, g, 0)
  BY <1>5, <1>6 DEF SessionPlays
<1> HIDE DEF g
<1>8. Marks(IsJanken, boundary, g, 0)
  <2>1. Len(boundary) = 1 /\ boundary[1] = CurrentSnapshot(master)
    BY <1>1
  <2>2. boundary[1].turn = Shot(IsJanken, master).turn /\ boundary[1].state = Shot(IsJanken, master).state
    BY <2>1 DEF CurrentSnapshot, Snapshot, Shot
  <2>3. 0..Len(boundary) - 1 = {0} /\ 0 * NPlayers = 0 /\ 0 + 1 = 1 /\ 0..0 * NPlayers - 1 = {}
    BY <1>6, <2>1
  <2> QED
    BY <1>5, <1>6, <2>2, <2>3 DEF Marks
<1>9. Running(g, 0)
  <2>1. Found(log, 0) = {} /\ 0 \in 0..Len(log)
    BY <1>2, NoneIsSequence DEF Found
  <2>2. AtRunner(g[0])
    BY <1>2, <1>5, <2>1 DEF AtRunner
  <2>3. Done = 0
    BY <1>2, <1>4, NoneIsSequence DEF Done
  <2> QED
    BY <1>4, <1>6, <2>2, <2>3 DEF Running
<1> QED
  BY <1>7, <1>8, <1>9 DEF SessionFollows

\* A step that leaves the game alone.
SameMatch == ruleset' = ruleset /\ master' = master /\ boundary' = boundary

LEMMA StartStands ==
  ASSUME ruleset' = ruleset, ~IsJanken => master'.order = master.order
  PROVE  Start' = Start /\ IsJanken' = IsJanken
<1>1. IsJanken' = IsJanken
  BY DEF IsJanken
<1> QED
  BY <1>1 DEF Start, NewMaster

LEMMA FoundStands ==
  ASSUME NEW old, NEW new, Extends(old, new), NEW c,
         \A i \in Added(old, new) : new[i].kind \notin StatusEvents
  PROVE  Found(new, c) = Found(old, c)
<1>1. \A i : i \in 1..Len(new) <=> i \in 1..Len(old) \/ i \in Added(old, new)
  BY DEF Extends, Added
<1> QED
  BY <1>1 DEF Extends, Found

LEMMA SessionAsk == ASSUME PositionInv, Course, SessionFollows, AskStep PROVE SessionFollows'
<1>1. /\ phase = "next" /\ statuses' = <<>> /\ phase' = "record" /\ SameMatch
  BY DEF AskStep, SameMatch
<1>2. statuses = <<>>
  BY <1>1 DEF Course
<1>3. PICK K \in Nat : \E g :
        SessionPlays(IsJanken, log, Start, g, K) /\ Marks(IsJanken, boundary, g, K) /\ Running(g, K)
  BY <1>1 DEF SessionFollows
<1>4. PICK g : SessionPlays(IsJanken, log, Start, g, K) /\ Marks(IsJanken, boundary, g, K) /\ Running(g, K)
  BY <1>3
<1>5. /\ Start' = Start /\ IsJanken' = IsJanken /\ Together' = Together /\ Done' = Done
      /\ master' = master /\ boundary' = boundary
  <2>1. Start' = Start /\ IsJanken' = IsJanken
    BY <1>1, StartStands DEF SameMatch
  <2> QED
    BY <1>1, <1>2, <2>1 DEF SameMatch, Together, Done
<1>6. Extends(log, log') /\ \A c : Found(log', c) = Found(log, c)
  BY AskLog, FoundStands
<1>7. SessionPlays(IsJanken, log', Start, g, K)
  BY <1>4, <1>6, SessionPlaysOn
<1>8. (SessionPlays(IsJanken, log, Start, g, K) /\ Marks(IsJanken, boundary, g, K))'
  BY <1>4, <1>5, <1>7
<1>9. Running(g, K)'
  <2>1. Len(log) \in Nat /\ Len(log') \in Nat /\ Len(log) <= Len(log')
    BY <1>6 DEF Extends
  <2>2. g[K].m = master /\ g[K].statuses = <<>> /\ g[K].cursor \in 0..Len(log) /\ Found(log, g[K].cursor) = {}
    BY <1>1, <1>2, <1>4 DEF Running, AtRunner
  <2>3. g[K].cursor \in 0..Len(log')
    BY <2>1, <2>2
  <2>4. AtRunner(g[K])'
    BY <1>1, <1>5, <1>6, <2>2, <2>3 DEF AtRunner
  <2> QED
    BY <1>4, <1>5, <2>4 DEF Running
<1> QED
  BY <1>8, <1>9 DEF SessionFollows

LEMMA SessionEnd == ASSUME PositionInv, SessionFollows, End PROVE SessionFollows'
<1>1. phase' = "ended" /\ SameMatch
  BY DEF End, SameMatch
<1>2. PICK K \in Nat : \E g : SessionPlays(IsJanken, log, Start, g, K) /\ Marks(IsJanken, boundary, g, K)
  BY DEF SessionFollows
<1>3. PICK g : SessionPlays(IsJanken, log, Start, g, K) /\ Marks(IsJanken, boundary, g, K)
  BY <1>2
<1>4. SessionPlays(IsJanken, log', Start, g, K)
  BY <1>3, EndLog, SessionPlaysOn
<1>5. Start' = Start /\ IsJanken' = IsJanken /\ boundary' = boundary
  BY <1>1, StartStands DEF SameMatch
<1>6. (SessionPlays(IsJanken, log, Start, g, K) /\ Marks(IsJanken, boundary, g, K))'
  BY <1>3, <1>4, <1>5
<1> QED
  BY <1>1, <1>6 DEF SessionFollows

\* A replay that is where the runner is reads the status that is logged next.
LEMMA ReplayReads ==
  ASSUME PositionInv, Course, RecordTurn, NEW r, AtRunner(r), r.ok = TRUE
  PROVE  LET n == GoOn(IsJanken, r, log') IN
         /\ Found(log', r.cursor) # {} /\ n.ok = TRUE
         /\ n.m = IF phase' = "apply" THEN Judged(IsJanken, master, step, statuses') ELSE master
         /\ n.statuses = IF phase' = "apply" THEN <<>> ELSE statuses'
         /\ n.cursor \in 0..Len(log') /\ Found(log', n.cursor) = {}
<1> DEFINE n == GoOn(IsJanken, r, log')
           F == Found(log', r.cursor)
           i == CHOOSE k \in F : \A j \in F : k <= j
           p == step.players[Len(statuses) + 1]
           at == Len(log) + 1
<1>1. PICK e : /\ e.kind \in StatusEvents /\ e.turn = step.turn /\ e.player = p
               /\ Extends(log, log') /\ Len(log') = at /\ log'[at] = e /\ Added(log, log') = {at}
               /\ statuses' = Append(statuses, e.status)
               /\ phase' = IF Len(statuses') = Len(step.players) THEN "apply" ELSE "record"
  BY RecordLog
<1>2. phase = "record" /\ step = NextStep(master) /\ step # NoStep /\ Len(statuses) < Len(step.players)
  BY DEF RecordTurn, Course
<1>3. r.m = master /\ r.statuses = statuses /\ r.cursor \in 0..Len(log) /\ Found(log, r.cursor) = {}
  BY <1>2 DEF AtRunner
<1>4. /\ Len(log) \in Nat /\ DOMAIN log = 1..Len(log) /\ DOMAIN log' = 1..at
      /\ at \in 1..at /\ at > Len(log) /\ \A k \in 1..Len(log) : log'[k] = log[k]
  BY <1>1 DEF Extends
<1>5. F = {at} /\ Found(log', at) = {}
  <2>1. at > r.cursor /\ at \in Nat
    BY <1>3, <1>4
  <2>2. \A k : k \in 1..at <=> k \in 1..Len(log) \/ k = at
    BY <1>4
  <2> HIDE DEF at
  <2>3. \A k \in 1..Len(log) : k > r.cursor => log'[k].kind \notin StatusEvents
    BY <1>3, <1>4 DEF Found
  <2>4. \A k \in 1..at : ~(k > at)
    BY <2>1
  <2> QED
    BY <1>1, <1>4, <2>1, <2>2, <2>3, <2>4 DEF Found
<1>6. i = at
  <2> HIDE DEF F, at
  <2>1. F \subseteq Nat /\ F # {}
    BY <1>4, <1>5 DEF at
  <2>2. i \in F
    BY <2>1, LeastIsChosen
  <2> QED
    BY <1>5, <2>2
<1> DEFINE rec == Append(r.statuses, log'[i].status)
<1>7. rec = statuses' /\ Len(rec) = Len(statuses) + 1
  <2>1. IsSequence(statuses)
    BY DEF Course
  <2> DEFINE x == e.status
  <2>2. Len(Append(statuses, x)) = Len(statuses) + 1
    BY <2>1, SequenceGrows
  <2>3. log'[i] = e
    BY <1>1, <1>6
  <2>4. rec = statuses'
    <3> HIDE DEF i
    <3> QED
      BY <1>1, <1>3, <2>3
  <2> HIDE DEF rec
  <2> QED
    BY <1>1, <2>2, <2>4
<1>8. Asked(IsJanken, r.m) = step
  BY <1>2, <1>3, AskedIsNext
<1> DEFINE Going(st, event, recorded) ==
             IF ~(event.turn = st.turn /\ event.player = st.players[Len(recorded)])
             THEN [r EXCEPT !.ok = FALSE]
             ELSE IF Len(recorded) < Len(st.players)
             THEN [m |-> r.m, statuses |-> recorded, cursor |-> i, ok |-> TRUE]
             ELSE [m |-> Judged(IsJanken, r.m, st, recorded), statuses |-> <<>>, cursor |-> i, ok |-> TRUE]
<1>9. n = Going(Asked(IsJanken, r.m), log'[i], rec)
  BY Zenon DEF GoOn
<1> HIDE DEF n, i, F, rec, Going
<1>10. n = Going(step, e, statuses')
  BY <1>1, <1>6, <1>7, <1>8, <1>9
<1>11. e.turn = step.turn /\ e.player = step.players[Len(statuses')]
  BY <1>1, <1>7
<1>12. n = IF Len(statuses') < Len(step.players)
           THEN [m |-> master, statuses |-> statuses', cursor |-> at, ok |-> TRUE]
           ELSE [m |-> Judged(IsJanken, master, step, statuses'), statuses |-> <<>>, cursor |-> at, ok |-> TRUE]
  BY <1>3, <1>6, <1>10, <1>11 DEF Going
<1>13. phase' = "apply" <=> ~(Len(statuses') < Len(step.players))
  <2>1. Len(step.players) \in Nat /\ Len(statuses) \in Nat
    <3>1. Position(master) /\ IsSequence(statuses)
      BY DEF PositionInv, Course
    <3> QED
      BY <1>2, <3>1, StepAsked, SequenceGrows
  <2>2. Len(statuses') = Len(statuses) + 1
    BY <1>7
  <2> QED
    BY <1>1, <1>2, <2>1, <2>2
<1>14. at \in 0..Len(log')
  BY <1>1, <1>4
<1>15. /\ n.ok = TRUE /\ n.cursor = at
       /\ n.m = IF phase' = "apply" THEN Judged(IsJanken, master, step, statuses') ELSE master
       /\ n.statuses = IF phase' = "apply" THEN <<>> ELSE statuses'
  <2> HIDE DEF at
  <2> QED
    BY <1>12, <1>13
<1> QED
  BY <1>5, <1>14, <1>15 DEF n, F

LEMMA SessionRecord == ASSUME PositionInv, Course, SessionFollows, RecordTurn PROVE SessionFollows'
<1>1. /\ phase = "record" /\ SameMatch /\ step' = step /\ step = NextStep(master) /\ step # NoStep
  BY DEF RecordTurn, SameMatch, Course
<1>2. PICK K \in Nat : \E g :
        SessionPlays(IsJanken, log, Start, g, K) /\ Marks(IsJanken, boundary, g, K) /\ Running(g, K)
  BY <1>1 DEF SessionFollows
<1>3. PICK g : SessionPlays(IsJanken, log, Start, g, K) /\ Marks(IsJanken, boundary, g, K) /\ Running(g, K)
  BY <1>2
<1>4. PICK next : next = GoOn(IsJanken, g[K], log')
  OBVIOUS
<1> DEFINE h == [n \in 0..K + 1 |-> IF n <= K THEN g[n] ELSE next]
<1>5. AtRunner(g[K]) /\ g[K].ok = TRUE
  BY <1>3 DEF Running, SessionPlays
<1>6. /\ Found(log', g[K].cursor) # {} /\ next.ok = TRUE
      /\ next.m = IF phase' = "apply" THEN Judged(IsJanken, master, step, statuses') ELSE master
      /\ next.statuses = IF phase' = "apply" THEN <<>> ELSE statuses'
      /\ next.cursor \in 0..Len(log') /\ Found(log', next.cursor) = {}
  BY <1>4, <1>5, ReplayReads
<1>7. (\A n \in 0..K : h[n] = g[n]) /\ h[K + 1] = next /\ K + 1 \in Nat
  OBVIOUS
<1> HIDE DEF h
<1>8. Start' = Start /\ IsJanken' = IsJanken /\ Together' = Together /\ master' = master /\ boundary' = boundary
  <2>1. Start' = Start /\ IsJanken' = IsJanken
    BY <1>1, StartStands DEF SameMatch
  <2> QED
    BY <1>1, <2>1 DEF SameMatch, Together
<1>9. g[K].m = master /\ Asked(IsJanken, g[K].m) = step
  BY <1>1, <1>5, AskedIsNext DEF AtRunner
<1>10. SessionPlays(IsJanken, log', Start, h, K + 1)
  <2>1. SessionPlays(IsJanken, log', Start, g, K)
    BY <1>3, RecordLog, SessionPlaysOn
  <2>2. h[0] = Fresh(Start) /\ \A n \in 0..K + 1 : h[n].ok = TRUE
    BY <1>6, <1>7, <2>1 DEF SessionPlays
  <2>3. ASSUME NEW n \in 1..K + 1
        PROVE  /\ Asked(IsJanken, h[n - 1].m) # NoStep /\ Found(log', h[n - 1].cursor) # {}
               /\ h[n] = GoOn(IsJanken, h[n - 1], log')
    <3>1. CASE n = K + 1
      <4>1. n - 1 = K /\ h[n - 1] = g[K] /\ h[n] = next
        BY <1>7, <3>1
      <4> QED
        BY <1>1, <1>4, <1>6, <1>9, <4>1
    <3>2. CASE n # K + 1
      <4>1. n \in 1..K /\ h[n] = g[n] /\ h[n - 1] = g[n - 1]
        BY <1>7, <3>2
      <4> QED
        BY <2>1, <4>1 DEF SessionPlays
    <3> QED
      BY <3>1, <3>2
  <2> QED
    BY <2>2, <2>3 DEF SessionPlays
<1>11. Marks(IsJanken, boundary, h, K + 1)
  <2> SUFFICES ASSUME NEW t \in 0..Len(boundary) - 1
               PROVE  /\ t * NPlayers \in 0..K + 1
                      /\ Shot(IsJanken, h[t * NPlayers].m).turn = boundary[t + 1].turn
                      /\ Shot(IsJanken, h[t * NPlayers].m).state = boundary[t + 1].state
                      /\ \A n \in 0..t * NPlayers - 1 : Asked(IsJanken, h[n].m).turn \in 1..t
    BY DEF Marks
  <2> DEFINE k == t * NPlayers
  <2>1. /\ k \in 0..K
        /\ Shot(IsJanken, g[k].m).turn = boundary[t + 1].turn
        /\ Shot(IsJanken, g[k].m).state = boundary[t + 1].state
        /\ \A n \in 0..k - 1 : Asked(IsJanken, g[n].m).turn \in 1..t
    BY <1>3 DEF Marks
  <2> HIDE DEF k
  <2>2. k \in 0..K + 1 /\ h[k] = g[k] /\ \A n \in 0..k - 1 : n \in 0..K /\ h[n] = g[n]
    BY <1>7, <2>1
  <2>3. \A n \in 0..k - 1 : Asked(IsJanken, h[n].m).turn \in 1..t
    BY <2>1, <2>2
  <2> QED
    BY <2>1, <2>2, <2>3 DEF k
<1>12. (SessionPlays(IsJanken, log, Start, h, K + 1) /\ Marks(IsJanken, boundary, h, K + 1))'
  BY <1>8, <1>10, <1>11
<1>13. Running(h, K + 1)'
  <2>1. AtRunner(h[K + 1])'
    BY <1>1, <1>6, <1>7, <1>8 DEF AtRunner
  <2>2. Done' = Done + 1 /\ Done \in Int
    <3>1. Len(statuses') = Len(statuses) + 1 /\ Len(statuses) \in Nat
      <4>1. IsSequence(statuses) /\ \E e : statuses' = Append(statuses, e.status)
        BY RecordLog DEF Course
      <4>2. PICK e : statuses' = Append(statuses, e.status)
        BY <4>1
      <4> DEFINE x == e.status
      <4>3. Len(Append(statuses, x)) = Len(statuses) + 1 /\ Len(statuses) \in Nat
        BY <4>1, SequenceGrows
      <4> QED
        BY <4>2, <4>3
    <3>2. ~Together => master.nextPlayer \in Int
      BY <1>1, SamePlayers, StepShape DEF PositionInv, Player
    <3> QED
      BY <1>8, <3>1, <3>2 DEF Done
  <2>3. step.turn = master.resolved + 1 /\ master.resolved \in Nat
    BY <1>1, StepShape DEF PositionInv
  <2>4. K + 1 = master'.resolved * NPlayers + Done'
    <3> DEFINE R == master.resolved * NPlayers
    <3>1. R \in Nat
      BY <2>3, SamePlayers
    <3>2. K = R + Done
      BY <1>3 DEF Running
    <3> HIDE DEF R
    <3>3. K + 1 = R + Done'
      BY <2>2, <3>1, <3>2
    <3> QED
      BY <1>8, <3>3 DEF R
  <2>5. \A n \in 0..(K + 1) - 1 : Asked(IsJanken, h[n].m).turn \in 1..master.resolved + 1
    <3> SUFFICES ASSUME NEW n \in 0..(K + 1) - 1
                 PROVE  Asked(IsJanken, h[n].m).turn \in 1..master.resolved + 1
      OBVIOUS
    <3>1. n \in 0..K /\ h[n] = g[n] /\ (n = K \/ n \in 0..K - 1)
      BY <1>7
    <3>2. CASE n = K
      BY <1>9, <2>3, <3>1, <3>2
    <3>3. CASE n \in 0..K - 1
      BY <1>3, <3>1, <3>3 DEF Running
    <3> QED
      BY <3>1, <3>2, <3>3
  <2> QED
    BY <1>8, <2>1, <2>4, <2>5 DEF Running
<1> QED
  BY <1>7, <1>12, <1>13 DEF SessionFollows

LEMMA SessionApply ==
  ASSUME PositionInv, Course, SessionFollows, ApplyDecisionResults
  PROVE  SessionFollows'
<1>1. /\ master' = Judged(IsJanken, master, step, statuses)
      /\ phase = "apply" /\ step = NextStep(master) /\ step # NoStep
      /\ master'.resolved = IF Around THEN master.resolved ELSE master.resolved + 1
      /\ ~IsJanken => /\ master'.mode = master.mode /\ master'.order = master.order
                      /\ master'.nextPlayer = IF Around THEN master.nextPlayer + 1 ELSE 1
      /\ boundary' = IF Around THEN boundary ELSE Append(boundary, CurrentSnapshot(master'))
      /\ phase' = "next" /\ statuses' = <<>> /\ log' = log /\ ruleset' = ruleset
  BY Applied DEF PositionInv
<1>2. PICK K \in Nat : \E g :
        SessionPlays(IsJanken, log, Start, g, K) /\ Marks(IsJanken, boundary, g, K) /\ Running(g, K)
  BY <1>1 DEF SessionFollows
<1>3. PICK g : SessionPlays(IsJanken, log, Start, g, K) /\ Marks(IsJanken, boundary, g, K) /\ Running(g, K)
  BY <1>2
<1>4. Start' = Start /\ IsJanken' = IsJanken
  BY <1>1, StartStands
<1>5. Together' = Together
  BY <1>1, <1>4 DEF Together
<1>6. /\ master.resolved \in Nat /\ Len(step.players) = IF Together THEN NPlayers ELSE 1
      /\ ~Together => master.nextPlayer \in 1..NPlayers
  BY <1>1, StepShape DEF PositionInv, Player
<1>7. Len(statuses) = Len(step.players) /\ NPlayers \in Nat /\ Len(statuses') = 0
  BY <1>1, SamePlayers, NoneIsSequence DEF Course
<1>8. /\ Around => Done' = Done
      /\ ~Around => Done = NPlayers /\ Done' = 0
      /\ Done \in Nat
  <2>1. ~Together => ~IsJanken
    BY DEF Together
  <2>2. Done = Len(statuses) + IF Together THEN 0 ELSE master.nextPlayer - 1
    BY DEF Done
  <2>3. Done' = Len(statuses') + IF Together THEN 0 ELSE master'.nextPlayer - 1
    BY <1>5 DEF Done
  <2>4. CASE Together
    BY <1>6, <1>7, <2>2, <2>3, <2>4 DEF Around
  <2>5. CASE ~Together
    BY <1>1, <1>6, <1>7, <2>1, <2>2, <2>3, <2>5 DEF Around
  <2> QED
    BY <2>4, <2>5
<1>9. K = master'.resolved * NPlayers + Done' /\ (~Around => K = (master.resolved + 1) * NPlayers)
  <2>1. K = master.resolved * NPlayers + Done
    BY <1>3 DEF Running
  <2>2. (master.resolved + 1) * NPlayers = master.resolved * NPlayers + NPlayers
    BY <1>6, <1>7
  <2>3. master.resolved * NPlayers \in Nat /\ (master.resolved + 1) * NPlayers \in Nat
    BY <1>6, <1>7
  <2>4. CASE Around
    BY <1>1, <1>8, <2>1, <2>4
  <2>5. CASE ~Around
    <3>1. master'.resolved = master.resolved + 1 /\ Done' = 0 /\ Done = NPlayers
      BY <1>1, <1>8, <2>5
    <3> QED
      BY <2>1, <2>2, <2>3, <3>1
  <2> QED
    BY <2>4, <2>5
<1>10. \A n \in 0..K - 1 : Asked(IsJanken, g[n].m).turn \in 1..master.resolved + 1
  BY <1>3 DEF Running
<1>11. g[K].m = master' /\ g[K].statuses = <<>> /\ g[K].cursor \in 0..Len(log) /\ Found(log, g[K].cursor) = {}
  BY <1>1, <1>3 DEF Running, AtRunner
<1>12. Marks(IsJanken, boundary', g, K)
  <2>1. CASE Around
    BY <1>1, <1>3, <2>1
  <2>2. CASE ~Around
    <3> DEFINE s == CurrentSnapshot(master')
               R == master.resolved
    <3>1. IsSequence(boundary) /\ Len(boundary) = R + 1
      BY DEF Course
    <3>2. boundary' = Append(boundary, s)
      BY <1>1, <2>2
    <3>3. s.turn = Shot(IsJanken, master').turn /\ s.state = Shot(IsJanken, master').state
      BY DEF CurrentSnapshot, Snapshot, Shot
    <3> HIDE DEF s
    <3>4. Len(boundary') = R + 2 /\ boundary'[R + 2] = s /\ \A i \in 1..R + 1 : boundary'[i] = boundary[i]
      <4>1. /\ Len(Append(boundary, s)) = Len(boundary) + 1 /\ Append(boundary, s)[Len(boundary) + 1] = s
            /\ \A i \in 1..Len(boundary) : Append(boundary, s)[i] = boundary[i]
        BY <3>1, SequenceGrows
      <4>2. Len(boundary) + 1 = R + 2
        BY <1>6, <3>1
      <4> QED
        BY <3>1, <3>2, <4>1, <4>2
    <3> SUFFICES ASSUME NEW t \in 0..Len(boundary') - 1
                 PROVE  /\ t * NPlayers \in 0..K
                        /\ Shot(IsJanken, g[t * NPlayers].m).turn = boundary'[t + 1].turn
                        /\ Shot(IsJanken, g[t * NPlayers].m).state = boundary'[t + 1].state
                        /\ \A n \in 0..t * NPlayers - 1 : Asked(IsJanken, g[n].m).turn \in 1..t
      BY DEF Marks
    <3>5. CASE t = R + 1
      <4>1. t * NPlayers = K /\ t + 1 = R + 2
        BY <1>6, <1>9, <2>2, <3>5
      <4>2. K \in 0..K
        OBVIOUS
      <4> QED
        BY <1>10, <1>11, <3>3, <3>4, <3>5, <4>1, <4>2
    <3>6. CASE t # R + 1
      <4>1. t \in 0..R + 1 /\ Len(boundary') - 1 = R + 1 /\ Len(boundary) - 1 = R
        BY <1>6, <3>1, <3>4
      <4>2. t \in 0..R /\ t + 1 \in 1..R + 1
        BY <1>6, <3>6, <4>1
      <4>3. t \in 0..Len(boundary) - 1 /\ boundary'[t + 1] = boundary[t + 1]
        BY <3>4, <4>1, <4>2
      <4> QED
        BY <1>3, <4>3 DEF Marks
    <3> QED
      BY <3>5, <3>6
  <2> QED
    BY <2>1, <2>2
<1>13. (SessionPlays(IsJanken, log, Start, g, K) /\ Marks(IsJanken, boundary, g, K))'
  BY <1>1, <1>3, <1>4, <1>12
<1>14. Running(g, K)'
  <2>1. AtRunner(g[K])'
    BY <1>1, <1>11 DEF AtRunner
  <2>2. \A n \in 0..K - 1 : Asked(IsJanken, g[n].m).turn \in 1..master'.resolved + 1
    <3>1. master'.resolved \in Nat /\ master.resolved <= master'.resolved
      BY <1>1, <1>6
    <3>2. \A i \in 1..master.resolved + 1 : i \in 1..master'.resolved + 1
      BY <1>6, <3>1
    <3> QED
      BY <1>10, <3>2
  <2> QED
    BY <1>4, <1>9, <2>1, <2>2 DEF Running
<1> QED
  BY <1>13, <1>14 DEF SessionFollows

-----------------------------------------------------------------------------
(* The replay of janken follows the match *)

LEMMA CurrentIsShot == ASSUME IsJanken, NEW m PROVE CurrentSnapshot(m) = JankenShot(m)
  BY DEF CurrentSnapshot, Snapshot, PerPlayer, J!Snapshot, JankenShot

LEMMA NormalizedAlready ==
  ASSUME NEW m, NEW result \in Results, IsJanken
  PROVE  LET s == J!NormalizeAction(m, result) IN J!NormalizeAction(m, s) = s
<1>1. PICK a, r : result = Accepted(a) \/ result = NoAction(r)
  BY DEF Results
<1>2. CASE result = Accepted(a) /\ a \in J!Moves
  <2>1. J!NormalizeAction(m, result) = result
    BY <1>2 DEF J!NormalizeAction, Accepted
  <2> QED
    BY <2>1
<1>3. CASE result = Accepted(a) /\ a \notin J!Moves
  <2>1. J!NormalizeAction(m, result) = NoAction("invalid-illegal-action")
    BY <1>3 DEF J!NormalizeAction, Accepted, J!Illegal, J!NoAction, NoAction
  <2> QED
    BY <2>1 DEF J!NormalizeAction, NoAction
<1>4. CASE result = NoAction(r)
  <2>1. J!NormalizeAction(m, result) = NoAction(r)
    BY <1>4 DEF J!NormalizeAction, NoAction
  <2> QED
    BY <2>1 DEF J!NormalizeAction, NoAction
<1> QED
  BY <1>1, <1>2, <1>3, <1>4

LEMMA JankenFollowsInit == ASSUME Init, IsJanken PROVE JankenFollows
<1>1. master = J!New /\ boundary = <<JankenShot(master)>> /\ phase = "next"
  BY CurrentIsShot DEF Init, NewMaster, IsJanken
<1>2. master.resolved = 0 /\ 0..0 = {0}
  BY <1>1, JankenStart
<1> DEFINE f == [turn \in {0} |-> master]
<1>3. Replays(log, f, 0)
  <2>1. f = [turn \in {0} |-> IF turn = 0 THEN J!New ELSE LoggedRound(f[turn - 1], log, turn)]
    BY <1>1
  <2> QED
    BY <1>2, <2>1, Zenon DEF Replays
<1>4. Rounded(f)
  <2>1. f[0] = master /\ boundary[0 + 1] = JankenShot(master)
    BY <1>1
  <2> HIDE DEF f
  <2> QED
    BY <1>1, <1>2, <2>1 DEF Rounded
<1> QED
  BY <1>2, <1>3, <1>4 DEF JankenFollows

LEMMA JankenFollowsAsk ==
  ASSUME PositionInv, Course, JankenFollows, IsJanken, AskStep
  PROVE  JankenFollows'
<1>1. /\ phase = "next" /\ statuses' = <<>> /\ phase' = "record" /\ SameMatch
  BY DEF AskStep, SameMatch
<1>2. PICK f : Replays(log, f, master.resolved) /\ Rounded(f)
  BY DEF JankenFollows
<1>3. master.resolved \in Nat
  BY DEF PositionInv, Position, JankenPosition
<1>4. Replays(log', f, master.resolved)
  BY <1>2, <1>3, AskLog, ReplaysOn
<1>5. DOMAIN statuses' = {}
  BY <1>1, NoneIsSequence
<1>6. Rounded(f)'
  BY <1>1, <1>2, <1>5 DEF Rounded, SameMatch
<1> QED
  BY <1>1, <1>4, <1>6 DEF JankenFollows, SameMatch

LEMMA JankenFollowsEnd ==
  ASSUME PositionInv, JankenFollows, IsJanken, End
  PROVE  JankenFollows'
<1>1. phase' = "ended" /\ SameMatch
  BY DEF End, SameMatch
<1>2. PICK f : Replays(log, f, master.resolved) /\ Rounded(f)
  BY DEF JankenFollows
<1>3. master.resolved \in Nat
  BY DEF PositionInv, Position, JankenPosition
<1>4. 0 \notin 1..master.resolved
  BY <1>3
<1>5. Replays(log', f, master.resolved)
  BY <1>2, <1>3, <1>4, EndLog, ReplaysOn
<1>6. Rounded(f)'
  BY <1>1, <1>2 DEF Rounded, SameMatch
<1> QED
  BY <1>1, <1>5, <1>6 DEF JankenFollows, SameMatch

LEMMA JankenFollowsRecord ==
  ASSUME PositionInv, Course, JankenFollows, IsJanken, RecordTurn
  PROVE  JankenFollows'
<1>1. /\ phase = "record" /\ SameMatch /\ step' = step /\ step = NextStep(master) /\ step # NoStep
      /\ IsSequence(statuses) /\ Len(statuses) < Len(step.players)
  BY DEF RecordTurn, SameMatch, Course
<1>2. /\ step.turn = master.resolved + 1 /\ master.resolved \in Nat
      /\ step.players = [p \in Player |-> p] /\ Len(step.players) = NPlayers
  BY <1>1, StepShape DEF PositionInv, Together
<1> DEFINE at == Len(statuses) + 1
<1>3. at \in Player /\ at \notin DOMAIN statuses /\ DOMAIN statuses = 1..Len(statuses) /\ at # 0
      /\ step.players[at] = at
  <2>1. Len(statuses) \in Nat /\ DOMAIN statuses = 1..Len(statuses) /\ NPlayers \in Nat
    BY <1>1, SequenceGrows, SamePlayers
  <2>2. at \in Player /\ at \notin DOMAIN statuses /\ at # 0
    BY <1>1, <1>2, <2>1 DEF Player
  <2> QED
    BY <1>2, <2>1, <2>2
<1>4. PICK e, result :
        /\ e.kind \in StatusEvents /\ e.turn = step.turn /\ e.player = at
        /\ result \in Results /\ e.status = NormalizeAction(master, result)
        /\ log' = Append(log, e) /\ Extends(log, log') /\ Len(log') = Len(log) + 1
        /\ log'[Len(log) + 1] = e /\ Added(log, log') = {Len(log) + 1}
        /\ statuses' = Append(statuses, e.status)
  <2>1. step.players[Len(statuses) + 1] = Len(statuses) + 1
    BY <1>3
  <2> QED
    BY <2>1, RecordLog
<1>5. PICK f : Replays(log, f, master.resolved) /\ Rounded(f)
  BY DEF JankenFollows
<1>6. step.turn \notin 1..master.resolved /\ step.turn # 0
  BY <1>2
<1>7. Replays(log', f, master.resolved)
  <2>1. \A i \in Added(log, log') : log'[i] = e
    BY <1>4
  <2>2. \A i \in Added(log, log') : log'[i].turn \notin 1..master.resolved
    BY <1>4, <1>6, <2>1
  <2> QED
    BY <1>2, <1>4, <1>5, <2>2, ReplaysOn
<1>8. /\ DOMAIN statuses' = DOMAIN statuses \cup {at} /\ statuses'[at] = e.status
      /\ \A i \in DOMAIN statuses : statuses'[i] = statuses[i]
  <2> DEFINE x == e.status
             u == Append(statuses, x)
  <2>1. /\ Len(statuses) \in Nat /\ DOMAIN u = 1..Len(statuses) + 1
        /\ u[Len(statuses) + 1] = x /\ \A i \in 1..Len(statuses) : u[i] = statuses[i]
    BY <1>1, SequenceGrows
  <2> HIDE DEF u
  <2>2. DOMAIN u = 1..Len(statuses) \cup {Len(statuses) + 1}
    BY <2>1
  <2>3. statuses' = u
    BY <1>4 DEF u
  <2> QED
    BY <1>3, <2>1, <2>2, <2>3
<1>9. LoggedStatus(log', step.turn, at) = e.status
  <2>1. PICK S : log \in Seq(S)
    BY DEF PositionInv, LogIsSequence
  <2>2. e.turn # 0
    BY <1>4, <1>6
  <2>3. LoggedStatus(Append(log, e), e.turn, e.player) = e.status
    BY <1>4, <2>1, <2>2, StatusLogged
  <2> QED
    BY <1>4, <2>3
<1>10. J!NormalizeAction(master, e.status) = e.status
  BY <1>4, NormalizedAlready DEF NormalizeAction
<1>11. ASSUME NEW i \in DOMAIN statuses
       PROVE  LoggedStatus(log', step.turn, i) = statuses[i] /\ J!NormalizeAction(master, statuses[i]) = statuses[i]
  <2>1. LoggedStatus(log, step.turn, i) = statuses[i] /\ J!NormalizeAction(master, statuses[i]) = statuses[i]
    BY <1>1, <1>5 DEF Rounded
  <2>2. i # at
    BY <1>3
  <2>3. \A k \in Added(log, log') : log'[k].player # i
    <3>1. \A k \in Added(log, log') : log'[k] = e
      BY <1>4
    <3> QED
      BY <1>4, <2>2, <3>1
  <2>4. LoggedStatus(log', step.turn, i) = LoggedStatus(log, step.turn, i)
    <3>1. Extends(log, log')
      BY <1>4
    <3>2. \A k \in Added(log, log') : ~(log'[k].kind \in StatusEvents /\ log'[k].turn = step.turn /\ log'[k].turn # 0 /\ log'[k].player = i)
      BY <2>3
    <3> QED
      BY <3>1, <3>2, StatusStands
  <2> QED
    BY <2>1, <2>4
<1>12. \A i \in DOMAIN statuses' :
         LoggedStatus(log', step.turn, i) = statuses'[i] /\ J!NormalizeAction(master, statuses'[i]) = statuses'[i]
  <2> SUFFICES ASSUME NEW i \in DOMAIN statuses'
               PROVE  /\ LoggedStatus(log', step.turn, i) = statuses'[i]
                      /\ J!NormalizeAction(master, statuses'[i]) = statuses'[i]
    OBVIOUS
  <2>1. CASE i = at
    BY <1>8, <1>9, <1>10, <2>1
  <2>2. CASE i # at
    <3>1. i \in DOMAIN statuses
      BY <1>8, <2>2
    <3> QED
      BY <1>8, <1>11, <3>1
  <2> QED
    BY <2>1, <2>2
<1>13. Rounded(f)'
  <2>1. phase' # "ended"
    BY RecordLog
  <2> QED
    BY <1>1, <1>5, <1>12, <2>1 DEF Rounded, SameMatch
<1> QED
  BY <1>1, <1>7, <1>13 DEF JankenFollows, SameMatch

LEMMA JankenFollowsApply ==
  ASSUME PositionInv, Course, JankenFollows, IsJanken, ApplyDecisionResults
  PROVE  JankenFollows'
<1> DEFINE R == master.resolved
<1>1. /\ master' = J!ApplyStep(master, step, statuses)
      /\ phase = "apply" /\ step = J!NextStep(master) /\ step = NextStep(master) /\ step # NoStep
      /\ master'.resolved = R + 1 /\ boundary' = Append(boundary, CurrentSnapshot(master'))
      /\ phase' = "next" /\ log' = log
  BY Applied DEF PositionInv, Judged, Around, Together, NextStep
<1>2. step.turn = R + 1 /\ R \in Nat /\ Len(step.players) = NPlayers
  BY <1>1, StepShape DEF PositionInv, Together
<1>3. PICK f : Replays(log, f, R) /\ Rounded(f)
  BY DEF JankenFollows
<1>4. PICK g : /\ Replays(log, g, R + 1) /\ \A k \in 0..R : g[k] = f[k]
               /\ g[R + 1] = LoggedRound(f[R], log, R + 1)
  BY <1>2, <1>3, ReplayExtends
<1>5. f[R] = master
  BY <1>1, <1>3 DEF Rounded
<1>6. statuses = [p \in Player |-> J!NormalizeAction(master, LoggedStatus(log, R + 1, p))]
  <2>1. DOMAIN statuses = Player
    BY <1>1, <1>2, SequenceGrows DEF Course, Player
  <2>2. statuses = [p \in DOMAIN statuses |-> statuses[p]]
    BY DEF Course, IsSequence
  <2>3. \A p \in Player : J!NormalizeAction(master, LoggedStatus(log, R + 1, p)) = statuses[p]
    BY <1>1, <1>2, <1>3, <2>1 DEF Rounded
  <2> QED
    BY <2>1, <2>2, <2>3
<1>7. g[R + 1] = master'
  BY <1>1, <1>4, <1>5, <1>6 DEF LoggedRound
<1>8. \A t \in 0..R + 1 : boundary'[t + 1] = JankenShot(g[t])
  <2> DEFINE x == CurrentSnapshot(master')
             u == Append(boundary, x)
  <2>1. x = JankenShot(g[R + 1])
    BY <1>7, CurrentIsShot
  <2>2. u[R + 2] = x /\ \A i \in 1..R + 1 : u[i] = boundary[i]
    <3>1. IsSequence(boundary) /\ Len(boundary) = R + 1
      BY DEF Course
    <3>2. u[Len(boundary) + 1] = x /\ \A i \in 1..Len(boundary) : u[i] = boundary[i]
      BY <3>1, SequenceGrows
    <3>3. Len(boundary) + 1 = R + 2
      BY <1>2, <3>1
    <3> QED
      BY <3>1, <3>2, <3>3
  <2>3. boundary' = u
    BY <1>1
  <2> HIDE DEF x, u
  <2> SUFFICES ASSUME NEW t \in 0..R + 1 PROVE boundary'[t + 1] = JankenShot(g[t])
    OBVIOUS
  <2>4. CASE t = R + 1
    <3>1. t + 1 = R + 2
      BY <1>2, <2>4
    <3> QED
      BY <2>1, <2>2, <2>3, <2>4, <3>1
  <2>5. CASE t # R + 1
    <3>1. t \in 0..R /\ t + 1 \in 1..R + 1
      BY <1>2, <2>5
    <3>2. boundary[t + 1] = JankenShot(f[t]) /\ g[t] = f[t]
      BY <1>3, <1>4, <3>1 DEF Rounded
    <3> QED
      BY <2>2, <2>3, <3>1, <3>2
  <2> QED
    BY <2>4, <2>5
<1>9. Rounded(g)'
  BY <1>1, <1>7, <1>8 DEF Rounded
<1> QED
  BY <1>1, <1>4, <1>9 DEF JankenFollows

-----------------------------------------------------------------------------
(* The log of echo-count follows the match *)

LEMMA EchoShown ==
  ASSUME ~IsJanken, NEW m, EchoPosition(m), NEW events,
         \A p \in Player : /\ m.score[p] = LoggedScore(events, m.resolved, p)
                           /\ m.last[p] = LoggedLast(events, m.resolved, p)
  PROVE  EchoShot(CurrentSnapshot(m), m.mode, m.order, events, m.resolved)
<1> DEFINE b == CurrentSnapshot(m)
           visible == [turn |-> IF m.resolved >= Turns THEN Turns ELSE m.resolved + 1,
                       expected |-> E!Expected(m.order, m.resolved), score |-> m.score]
<1>1. /\ b.turn = m.resolved
      /\ b.state = [mode |-> m.mode, order |-> m.order, score |-> m.score]
      /\ b.perPlayer = [p \in Player |-> [visible |-> visible, last |-> m.last[p]]]
  BY SamePlayers DEF CurrentSnapshot, Snapshot, PerPlayer, E!Snapshot, E!State, E!PerPlayer, E!VisibleState
<1>2. m.score = [p \in Player |-> LoggedScore(events, m.resolved, p)]
  BY DEF EchoPosition
<1> HIDE DEF b
<1>3. b.state.score = m.score
  BY <1>1
<1>4. ASSUME NEW p \in Player
      PROVE  /\ b.perPlayer[p].last = LoggedLast(events, m.resolved, p)
             /\ b.perPlayer[p].visible.turn = IF m.resolved >= Turns THEN Turns ELSE m.resolved + 1
             /\ b.perPlayer[p].visible.expected = E!Expected(m.order, m.resolved)
             /\ b.perPlayer[p].visible.score = b.state.score
  <2>1. b.perPlayer[p] = [visible |-> visible, last |-> m.last[p]]
    BY <1>1
  <2>2. b.perPlayer[p].visible = visible /\ b.perPlayer[p].last = m.last[p]
    BY <2>1
  <2>3. /\ visible.turn = IF m.resolved >= Turns THEN Turns ELSE m.resolved + 1
        /\ visible.expected = E!Expected(m.order, m.resolved) /\ visible.score = m.score
    OBVIOUS
  <2> HIDE DEF visible
  <2> QED
    BY <1>3, <2>2, <2>3
<1> HIDE DEF visible
<1>5. EchoShot(b, m.mode, m.order, events, m.resolved)
  BY <1>1, <1>2, <1>4 DEF EchoShot
<1> QED
  BY <1>5 DEF b

\* A shot stands while nothing is logged of its turns.
LEMMA ShotStands ==
  ASSUME NEW old, NEW new, Extends(old, new), NEW b, NEW mode, NEW order, NEW t,
         EchoShot(b, mode, order, old, t),
         \A i \in Added(old, new) : new[i].kind \in StatusEvents => new[i].turn \notin 1..t
  PROVE  EchoShot(b, mode, order, new, t)
<1>1. ASSUME NEW p
      PROVE  LoggedScore(new, t, p) = LoggedScore(old, t, p) /\ LoggedLast(new, t, p) = LoggedLast(old, t, p)
  <2>1. \A i \in Added(old, new) : ~(new[i].kind \in StatusEvents /\ new[i].turn \in 1..t /\ new[i].player = p)
    OBVIOUS
  <2> QED
    BY <2>1, OfStands
<1>2. [p \in Player |-> LoggedScore(new, t, p)] = [p \in Player |-> LoggedScore(old, t, p)]
  BY <1>1
<1> QED
  BY <1>1, <1>2 DEF EchoShot

LEMMA EchoFollowsInit == ASSUME Init, ~IsJanken PROVE EchoFollows
<1>1. PICK order : master = NewMaster(ruleset, order) /\ boundary = <<CurrentSnapshot(master)>>
  BY DEF Init
<1>2. log = <<>> /\ statuses = <<>> /\ DOMAIN log = {} /\ DOMAIN statuses = {}
  BY DEF Init
<1>3. EchoPosition(master) /\ master.resolved = 0
      /\ \A p \in Player : master.score[p] = 0 /\ master.last[p] = NoAction("")
  <2>1. master = E!New(ruleset.mode, order)
    BY <1>1 DEF NewMaster, IsJanken
  <2> QED
    BY <2>1, EchoStart, SamePlayers DEF E!New, E!NoAction, NoAction
<1>4. \A t, p : LoggedOf(log, t, p) = {}
  BY <1>2 DEF LoggedOf
<1>5. \A t, p : LoggedScore(log, t, p) = 0 /\ LoggedLast(log, t, p) = NoAction("")
  BY <1>4, FS_EmptySet DEF LoggedScore, LoggedLast
<1>6. EchoShot(CurrentSnapshot(master), master.mode, master.order, log, 0)
  <2>1. EchoShot(CurrentSnapshot(master), master.mode, master.order, log, master.resolved)
    BY <1>3, <1>5, EchoShown
  <2> QED
    BY <1>3, <2>1
<1>7. boundary[0 + 1] = CurrentSnapshot(master) /\ 0..0 = {0}
  BY <1>1
<1>8. \A p : Recorded(p) = {} /\ ~Scoring(p)
  BY <1>2 DEF Recorded, Scoring
<1>9. EchoRunning
  <2>1. \A i \in DOMAIN log : log[i].kind \in StatusEvents => log[i].turn \in 1..master.resolved + 1
    BY <1>2
  <2>2. \A p \in Player : /\ LoggedScore(log, master.resolved + 1, p) = master.score[p] + 0
                          /\ LoggedLast(log, master.resolved + 1, p) = master.last[p]
    <3>1. 0 = 0 + 0
      OBVIOUS
    <3> QED
      BY <1>3, <1>5, <3>1, Zenon
  <2> QED
    BY <1>8, <2>1, <2>2 DEF EchoRunning
<1> QED
  BY <1>3, <1>6, <1>7, <1>9 DEF EchoFollows

LEMMA EchoFollowsAsk ==
  ASSUME PositionInv, Course, EchoFollows, AskStep
  PROVE  EchoFollows'
<1>1. /\ phase = "next" /\ statuses' = <<>> /\ statuses = <<>> /\ phase' = "record" /\ SameMatch
  BY DEF AskStep, SameMatch, Course
<1>2. Extends(log, log') /\ \A i \in Added(log, log') : log'[i].kind \notin StatusEvents
  BY AskLog
<1>3. \A t \in 0..master.resolved : EchoShot(boundary[t + 1], master.mode, master.order, log', t)
  <2> SUFFICES ASSUME NEW t \in 0..master.resolved
               PROVE  EchoShot(boundary[t + 1], master.mode, master.order, log', t)
    OBVIOUS
  <2>1. EchoShot(boundary[t + 1], master.mode, master.order, log, t)
    BY DEF EchoFollows
  <2> QED
    BY <1>2, <2>1, ShotStands
<1>4. \A upto, p : /\ LoggedScore(log', upto, p) = LoggedScore(log, upto, p)
                   /\ LoggedLast(log', upto, p) = LoggedLast(log, upto, p)
  BY <1>2, OfStands
<1>5. \A i \in DOMAIN log' : log'[i].kind \in StatusEvents => i \in DOMAIN log /\ log'[i] = log[i]
  <2>1. \A i : i \in 1..Len(log') => i \in 1..Len(log) \/ i \in Added(log, log')
    BY <1>2 DEF Extends, Added
  <2> QED
    BY <1>2, <2>1 DEF Extends
<1>6. DOMAIN statuses = {} /\ DOMAIN statuses' = {}
  BY <1>1, NoneIsSequence
<1>7. \A p : Recorded(p) = {} /\ Recorded(p)' = {} /\ ~Scoring(p) /\ ~Scoring(p)'
  BY <1>6 DEF Recorded, Scoring
<1>8. EchoRunning
  BY <1>1 DEF EchoFollows
<1>9. /\ \A i \in DOMAIN log' : log'[i].kind \in StatusEvents => log'[i].turn \in 1..master.resolved + 1
      /\ \A p \in Player :
           /\ LoggedScore(log', master.resolved + 1, p) = master.score[p] + 0
           /\ LoggedLast(log', master.resolved + 1, p) = master.last[p]
  BY <1>4, <1>5, <1>7, <1>8 DEF EchoRunning
<1>10. EchoRunning'
  BY <1>1, <1>7, <1>9 DEF EchoRunning, SameMatch
<1> QED
  BY <1>1, <1>3, <1>10 DEF EchoFollows, SameMatch

LEMMA EchoFollowsEnd ==
  ASSUME PositionInv, EchoFollows, ~IsJanken, End
  PROVE  EchoFollows'
<1>1. phase' = "ended" /\ SameMatch
  BY DEF End, SameMatch
<1>2. Extends(log, log') /\ \A i \in Added(log, log') : log'[i].turn = 0
  BY EndLog
<1>3. master.resolved \in Nat
  BY DEF PositionInv, Position, EchoPosition
<1>4. ASSUME NEW t \in 0..master.resolved
      PROVE  EchoShot(boundary[t + 1], master.mode, master.order, log', t)
  <2>1. EchoShot(boundary[t + 1], master.mode, master.order, log, t)
    BY DEF EchoFollows
  <2>2. 0 \notin 1..t
    BY <1>3
  <2> QED
    BY <1>2, <2>1, <2>2, ShotStands
<1> QED
  BY <1>1, <1>4 DEF EchoFollows, SameMatch

\* A step asks a player once.
LEMMA AskedOnce ==
  ASSUME Position(master), Course, step = NextStep(master), step # NoStep
  PROVE  /\ DOMAIN step.players = 1..Len(step.players)
         /\ \A i, j \in 1..Len(step.players) : step.players[i] = step.players[j] => i = j
<1>1. step.players = IF Together THEN [p \in Player |-> p] ELSE <<master.nextPlayer>>
  BY StepShape
<1>2. /\ DOMAIN [p \in Player |-> p] = 1..NPlayers /\ Len([p \in Player |-> p]) = NPlayers
      /\ \A i \in 1..NPlayers : [p \in Player |-> p][i] = i
  BY SamePlayers DEF Player
<1>3. Len(<<master.nextPlayer>>) = 1 /\ DOMAIN <<master.nextPlayer>> = 1..1 /\ \A i, j \in 1..1 : i = j
  OBVIOUS
<1>4. CASE Together
  BY <1>1, <1>2, <1>4
<1>5. CASE ~Together
  BY <1>1, <1>3, <1>5
<1> QED
  BY <1>4, <1>5

LEMMA EchoFollowsRecord ==
  ASSUME PositionInv, Course, EchoFollows, ~IsJanken, RecordTurn
  PROVE  EchoFollows'
<1> DEFINE R == master.resolved
           at == Len(statuses) + 1
<1>0. PICK q : q = step.players[at]
  OBVIOUS
<1>1. /\ phase = "record" /\ SameMatch /\ step' = step /\ step = NextStep(master) /\ step # NoStep
      /\ IsSequence(statuses) /\ Len(statuses) < Len(step.players)
  BY DEF RecordTurn, SameMatch, Course
<1>2. /\ step.turn = R + 1 /\ R \in Nat /\ Len(step.players) \in Nat
      /\ DOMAIN step.players = 1..Len(step.players)
      /\ \A i, j \in 1..Len(step.players) : step.players[i] = step.players[j] => i = j
  BY <1>1, StepShape, StepAsked, AskedOnce DEF PositionInv
<1>3. at \in 1..Len(step.players) /\ at \notin DOMAIN statuses /\ DOMAIN statuses = 1..Len(statuses)
      /\ \A i \in DOMAIN statuses : i \in 1..Len(step.players)
  <2>1. Len(statuses) \in Nat /\ DOMAIN statuses = 1..Len(statuses)
    BY <1>1, SequenceGrows
  <2> QED
    BY <1>1, <1>2, <2>1
<1>4. PICK e, result :
        /\ e.kind \in StatusEvents /\ e.turn = step.turn /\ e.player = q
        /\ log' = Append(log, e) /\ Extends(log, log') /\ Len(log') = Len(log) + 1
        /\ log'[Len(log) + 1] = e /\ Added(log, log') = {Len(log) + 1}
        /\ statuses' = Append(statuses, e.status)
  BY <1>0, RecordLog
<1>5. /\ DOMAIN statuses' = DOMAIN statuses \cup {at} /\ statuses'[at] = e.status
      /\ \A i \in DOMAIN statuses : statuses'[i] = statuses[i]
  <2> DEFINE x == e.status
             u == Append(statuses, x)
  <2>1. /\ Len(statuses) \in Nat /\ DOMAIN u = 1..Len(statuses) + 1
        /\ u[Len(statuses) + 1] = x /\ \A i \in 1..Len(statuses) : u[i] = statuses[i]
    BY <1>1, SequenceGrows
  <2> HIDE DEF u
  <2>2. DOMAIN u = 1..Len(statuses) \cup {Len(statuses) + 1}
    BY <2>1
  <2>3. statuses' = u
    BY <1>4 DEF u
  <2> QED
    BY <1>3, <2>1, <2>2, <2>3
<1>6. \A i \in Added(log, log') : log'[i] = e
  BY <1>4
<1>7. \A t \in 0..R : EchoShot(boundary[t + 1], master.mode, master.order, log', t)
  <2> SUFFICES ASSUME NEW t \in 0..R PROVE EchoShot(boundary[t + 1], master.mode, master.order, log', t)
    OBVIOUS
  <2>1. EchoShot(boundary[t + 1], master.mode, master.order, log, t)
    BY DEF EchoFollows
  <2>2. \A i \in Added(log, log') : log'[i].turn \notin 1..t
    BY <1>2, <1>4, <1>6
  <2>3. Extends(log, log')
    BY <1>4
  <2> QED
    BY <2>1, <2>2, <2>3, ShotStands
<1>8. EchoRunning
  BY <1>1 DEF EchoFollows
<1>9. \A i \in DOMAIN log' : log'[i].kind \in StatusEvents => log'[i].turn \in 1..R + 1
  <2>1. Extends(log, log')
    BY <1>4
  <2>2. \A i \in DOMAIN log' : (i \in DOMAIN log /\ log'[i] = log[i]) \/ i \in Added(log, log')
    BY <2>1 DEF Extends, Added
  <2>3. e.turn \in 1..R + 1
    BY <1>2, <1>4
  <2> QED
    BY <1>6, <1>8, <2>2, <2>3 DEF EchoRunning
<1>10. ASSUME NEW p, p # q
       PROVE  /\ LoggedScore(log', R + 1, p) = LoggedScore(log, R + 1, p)
              /\ LoggedLast(log', R + 1, p) = LoggedLast(log, R + 1, p)
  <2>1. \A i \in Added(log, log') :
          ~(log'[i].kind \in StatusEvents /\ log'[i].turn \in 1..R + 1 /\ log'[i].player = p)
    BY <1>4, <1>6, <1>10
  <2>2. Extends(log, log')
    BY <1>4
  <2> QED
    BY <2>1, <2>2, OfStands
<1>11. /\ LoggedScore(log', R + 1, q) = LoggedScore(log, R + 1, q) + IF e.status.status = "accepted" THEN 1 ELSE 0
       /\ LoggedLast(log', R + 1, q) = e.status
  <2>1. PICK S : log \in Seq(S)
    BY DEF PositionInv, LogIsSequence
  <2>2. e.kind \in StatusEvents /\ e.turn \in 1..R + 1 /\ e.player = q
    BY <1>2, <1>4
  <2>3. /\ LoggedScore(Append(log, e), R + 1, e.player)
             = LoggedScore(log, R + 1, e.player) + IF e.status.status = "accepted" THEN 1 ELSE 0
        /\ LoggedLast(Append(log, e), R + 1, e.player) = e.status
    <3> HIDE DEF R
    <3> QED
      BY <2>1, <2>2, OfLogged
  <2> QED
    BY <1>4, <2>2, <2>3
<1>12. Recorded(q) = {} /\ Recorded(q)' = {at}
  <2>1. \A i \in DOMAIN statuses : step.players[i] # q
    BY <1>0, <1>2, <1>3
  <2> QED
    BY <1>0, <1>1, <1>5, <2>1 DEF Recorded
<1>13. ASSUME NEW p, p # q PROVE Recorded(p)' = Recorded(p) /\ at \notin Recorded(p)
  <2>1. step.players[at] # p
    BY <1>0, <1>13
  <2> QED
    BY <1>1, <1>5, <2>1 DEF Recorded
<1>14. \A p : \A i \in Recorded(p) : statuses'[i] = statuses[i]
  BY <1>5 DEF Recorded
<1>15. ASSUME NEW p \in Player
       PROVE  /\ LoggedScore(log', R + 1, p) = master.score[p] + IF Scoring(p)' THEN 1 ELSE 0
              /\ IF Recorded(p)' = {} THEN LoggedLast(log', R + 1, p) = master.last[p]
                 ELSE \A i \in Recorded(p)' : LoggedLast(log', R + 1, p) = statuses'[i]
  <2>1. /\ LoggedScore(log, R + 1, p) = master.score[p] + IF Scoring(p) THEN 1 ELSE 0
        /\ IF Recorded(p) = {} THEN LoggedLast(log, R + 1, p) = master.last[p]
           ELSE \A i \in Recorded(p) : LoggedLast(log, R + 1, p) = statuses[i]
    BY <1>8 DEF EchoRunning
  <2>2. CASE p = q
    <3>1. ~Scoring(p) /\ (Scoring(p)' <=> e.status.status = "accepted")
      BY <1>5, <1>12, <2>2 DEF Scoring
    <3>2. master.score[p] \in Nat
      BY DEF PositionInv, Position, EchoPosition
    <3>3. LoggedScore(log, R + 1, p) = master.score[p]
      BY <2>1, <3>1, <3>2
    <3> QED
      BY <1>5, <1>11, <1>12, <2>2, <3>1, <3>3
  <2>3. CASE p # q
    <3>1. Recorded(p)' = Recorded(p)
      BY <1>13, <2>3
    <3>2. Scoring(p)' <=> Scoring(p)
      BY <1>14, <3>1 DEF Scoring
    <3> QED
      BY <1>10, <1>14, <2>1, <2>3, <3>1, <3>2
  <2> QED
    BY <2>2, <2>3
<1>16. EchoRunning'
  BY <1>1, <1>9, <1>15 DEF EchoRunning, SameMatch
<1> QED
  BY <1>1, <1>7, <1>16 DEF EchoFollows, SameMatch

LEMMA SameLogged ==
  ASSUME NEW events, NEW a, NEW b, NEW p, LoggedOf(events, a, p) = LoggedOf(events, b, p)
  PROVE  LoggedScore(events, a, p) = LoggedScore(events, b, p) /\ LoggedLast(events, a, p) = LoggedLast(events, b, p)
<1>1. LoggedScore(events, a, p) = LoggedScore(events, b, p)
  BY DEF LoggedScore
<1> DEFINE of(n) == LoggedOf(events, n, p)
           last(S) == IF S = {} THEN NoAction("") ELSE events[CHOOSE i \in S : \A j \in S : j <= i].status
<1>2. LoggedLast(events, a, p) = last(of(a)) /\ LoggedLast(events, b, p) = last(of(b))
  BY Zenon DEF LoggedLast
<1> HIDE DEF last
<1>3. LoggedLast(events, a, p) = LoggedLast(events, b, p)
  BY <1>2
<1> QED
  BY <1>1, <1>3

\* Once a step counts, the game says of a player what the log says.
LEMMA StepCounts ==
  ASSUME PositionInv, Course, EchoFollows, ~IsJanken, ApplyDecisionResults
  PROVE  \A p \in Player : /\ master'.score[p] = LoggedScore(log, master.resolved + 1, p)
                           /\ master'.last[p] = LoggedLast(log, master.resolved + 1, p)
<1> SUFFICES ASSUME NEW p \in Player
             PROVE  /\ master'.score[p] = LoggedScore(log, master.resolved + 1, p)
                    /\ master'.last[p] = LoggedLast(log, master.resolved + 1, p)
  OBVIOUS
<1> DEFINE asked == \E i \in DOMAIN step.players : step.players[i] = p
           i0 == CHOOSE i \in DOMAIN step.players : step.players[i] = p
           status == statuses[i0]
<1>1. /\ phase = "apply" /\ step = NextStep(master) /\ step # NoStep /\ EchoPosition(master)
      /\ master' = E!ApplyStep(master, step, statuses)
  BY Applied DEF PositionInv, Position, Judged
<1>2. /\ DOMAIN step.players = 1..Len(step.players)
      /\ \A i, j \in 1..Len(step.players) : step.players[i] = step.players[j] => i = j
  BY <1>1, AskedOnce DEF PositionInv
<1>3. DOMAIN statuses = DOMAIN step.players
  BY <1>1, <1>2, SequenceGrows DEF Course
<1>4. /\ master'.score[p] = master.score[p] + IF asked /\ status.status = "accepted" THEN 1 ELSE 0
      /\ master'.last[p] = IF asked THEN status ELSE master.last[p]
  <2> DEFINE n == E!ApplyStep(master, step, statuses)
  <2>1. /\ n.score[p] = master.score[p] + IF asked /\ status.status = "accepted" THEN 1 ELSE 0
        /\ n.last[p] = IF asked THEN status ELSE master.last[p]
    BY <1>1, EchoApplied
  <2> HIDE DEF n, asked, status
  <2>2. master' = n
    BY <1>1 DEF n
  <2> QED
    BY <2>1, <2>2
<1>5. EchoRunning
  BY <1>1 DEF EchoFollows
<1>6. /\ LoggedScore(log, master.resolved + 1, p) = master.score[p] + IF Scoring(p) THEN 1 ELSE 0
      /\ IF Recorded(p) = {} THEN LoggedLast(log, master.resolved + 1, p) = master.last[p]
         ELSE \A i \in Recorded(p) : LoggedLast(log, master.resolved + 1, p) = statuses[i]
  BY <1>5 DEF EchoRunning
<1>7. CASE asked
  <2>1. i0 \in DOMAIN step.players /\ step.players[i0] = p
    BY <1>7
  <2> HIDE DEF i0
  <2>2. Recorded(p) = {i0}
    BY <1>2, <1>3, <2>1 DEF Recorded
  <2>3. Scoring(p) <=> status.status = "accepted"
    BY <2>2 DEF Scoring
  <2> HIDE DEF asked
  <2> QED
    BY <1>4, <1>6, <1>7, <2>2, <2>3
<1>8. CASE ~asked
  <2>1. Recorded(p) = {} /\ ~Scoring(p)
    BY <1>3, <1>8 DEF Recorded, Scoring
  <2> HIDE DEF asked
  <2> QED
    BY <1>4, <1>6, <1>8, <2>1
<1> QED
  BY <1>7, <1>8

LEMMA EchoFollowsApply ==
  ASSUME PositionInv, Course, EchoFollows, ~IsJanken, ApplyDecisionResults
  PROVE  EchoFollows'
<1> DEFINE R == master.resolved
<1>1. /\ master'.resolved = IF Around THEN R ELSE R + 1
      /\ master'.mode = master.mode /\ master'.order = master.order
      /\ boundary' = IF Around THEN boundary ELSE Append(boundary, CurrentSnapshot(master'))
      /\ phase = "apply" /\ phase' = "next" /\ statuses' = <<>> /\ log' = log
      /\ ruleset' = ruleset
  BY Applied DEF PositionInv
<1>2. R \in Nat
  BY DEF PositionInv, Position, EchoPosition
<1>3. EchoPosition(master')
  <2>1. master' = E!ApplyStep(master, step, statuses)
    BY Applied DEF PositionInv, Judged
  <2> QED
    BY <2>1, EchoTurn DEF PositionInv, Position
<1>4. \A p \in Player : /\ master'.score[p] = LoggedScore(log, R + 1, p)
                        /\ master'.last[p] = LoggedLast(log, R + 1, p)
  BY StepCounts
<1>5. EchoRunning
  BY <1>1 DEF EchoFollows
<1>6. \A p : LoggedOf(log, R + 2, p) = LoggedOf(log, R + 1, p)
  <2>1. \A i \in DOMAIN log : log[i].kind \in StatusEvents => log[i].turn \in 1..R + 1
    BY <1>5 DEF EchoRunning
  <2>2. \A i : i \in 1..R + 1 => i \in 1..R + 2
    BY <1>2
  <2> HIDE DEF R
  <2> QED
    BY <2>1, <2>2 DEF LoggedOf
<1>7. \A p : /\ LoggedScore(log, R + 2, p) = LoggedScore(log, R + 1, p)
             /\ LoggedLast(log, R + 2, p) = LoggedLast(log, R + 1, p)
  <2> SUFFICES ASSUME NEW p
               PROVE  /\ LoggedScore(log, R + 2, p) = LoggedScore(log, R + 1, p)
                      /\ LoggedLast(log, R + 2, p) = LoggedLast(log, R + 1, p)
    OBVIOUS
  <2>1. LoggedOf(log, R + 2, p) = LoggedOf(log, R + 1, p)
    BY <1>6
  <2> HIDE DEF R
  <2> QED
    BY <2>1, SameLogged
<1>8. EchoRunning'
  <2>1. \A p : Recorded(p)' = {} /\ ~Scoring(p)'
    BY <1>1, NoneIsSequence DEF Recorded, Scoring
  <2>2. master'.resolved + 1 \in {R + 1, R + 2} /\ \A i \in 1..R + 1 : i \in 1..master'.resolved + 1
    BY <1>1, <1>2
  <2>3. \A i \in DOMAIN log' : log'[i].kind \in StatusEvents => log'[i].turn \in 1..master'.resolved + 1
    BY <1>1, <1>5, <2>2 DEF EchoRunning
  <2>4. ASSUME NEW p \in Player
        PROVE  /\ LoggedScore(log', master'.resolved + 1, p) = master'.score[p] + 0
               /\ LoggedLast(log', master'.resolved + 1, p) = master'.last[p]
    <3>1. master'.score[p] \in Nat
      BY <1>3 DEF EchoPosition
    <3>2. master'.score[p] + 0 = master'.score[p]
      BY <3>1
    <3> HIDE DEF R
    <3> QED
      BY <1>1, <1>4, <1>7, <2>2, <3>2
  <2> QED
    BY <2>1, <2>3, <2>4 DEF EchoRunning
<1>9. \A t \in 0..master'.resolved : EchoShot(boundary'[t + 1], master'.mode, master'.order, log', t)
  <2>1. \A t \in 0..R : EchoShot(boundary[t + 1], master.mode, master.order, log, t)
    BY DEF EchoFollows
  <2>2. CASE Around
    BY <1>1, <2>1, <2>2
  <2>3. CASE ~Around
    <3> DEFINE x == CurrentSnapshot(master')
               u == Append(boundary, x)
    <3>1. EchoShot(x, master.mode, master.order, log, R + 1)
      <4>1. master'.resolved = R + 1
        BY <1>1, <2>3
      <4>2. EchoShot(x, master'.mode, master'.order, log, master'.resolved)
        BY <1>3, <1>4, <4>1, EchoShown
      <4> HIDE DEF x
      <4> QED
        BY <1>1, <4>1, <4>2
    <3>2. u[R + 2] = x /\ \A i \in 1..R + 1 : u[i] = boundary[i]
      <4>1. IsSequence(boundary) /\ Len(boundary) = R + 1
        BY DEF Course
      <4>2. u[Len(boundary) + 1] = x /\ \A i \in 1..Len(boundary) : u[i] = boundary[i]
        BY <4>1, SequenceGrows
      <4>3. Len(boundary) + 1 = R + 2
        BY <1>2, <4>1
      <4> QED
        BY <4>1, <4>2, <4>3
    <3>3. boundary' = u
      BY <1>1, <2>3
    <3> HIDE DEF x, u
    <3> SUFFICES ASSUME NEW t \in 0..R + 1
                 PROVE  EchoShot(boundary'[t + 1], master.mode, master.order, log, t)
      BY <1>1, <2>3
    <3>4. CASE t = R + 1
      <4>1. t + 1 = R + 2
        BY <1>2, <3>4
      <4> QED
        BY <3>1, <3>2, <3>3, <3>4, <4>1
    <3>5. CASE t # R + 1
      <4>1. t \in 0..R /\ t + 1 \in 1..R + 1
        BY <1>2, <3>5
      <4> QED
        BY <2>1, <3>2, <3>3, <4>1
    <3> QED
      BY <3>4, <3>5
  <2> QED
    BY <2>2, <2>3
<1> QED
  BY <1>1, <1>8, <1>9 DEF EchoFollows

-----------------------------------------------------------------------------
(* The invariant *)

LEMMA HistoryInvInit == Init => HistoryInv
<1> SUFFICES ASSUME Init PROVE HistoryInv
  OBVIOUS
<1> QED
  BY PositionInvInit, CourseInit, SessionInit, JankenFollowsInit, EchoFollowsInit DEF HistoryInv, Follows

LEMMA HistoryInvStep == HistoryInv /\ [Next]_vars => HistoryInv'
<1> SUFFICES ASSUME HistoryInv, [Next]_vars, ~resumed' PROVE Follows'
  BY PositionInvStep DEF HistoryInv
<1>1. PositionInv
  BY DEF HistoryInv
<1>2. ~resumed
  BY DEF HistoryInv, Next, vars, AskStep, RecordTurn, ApplyDecisionResults, End, ResumeFromRecord,
         ResumeFromHistory, TakeUp
<1>3. Course /\ SessionFollows /\ IF IsJanken THEN JankenFollows ELSE EchoFollows
  BY <1>2 DEF HistoryInv, Follows
<1>4. CASE AskStep
  <2>1. IsJanken' = IsJanken
    BY <1>4 DEF AskStep, IsJanken
  <2> QED
    BY <1>1, <1>3, <1>4, <2>1, CourseAsk, SessionAsk, JankenFollowsAsk, EchoFollowsAsk DEF Follows
<1>5. CASE RecordTurn
  <2>1. IsJanken' = IsJanken
    BY <1>5 DEF RecordTurn, IsJanken
  <2> QED
    BY <1>1, <1>3, <1>5, <2>1, CourseRecord, SessionRecord, JankenFollowsRecord, EchoFollowsRecord DEF Follows
<1>6. CASE ApplyDecisionResults
  <2>1. IsJanken' = IsJanken
    BY <1>6 DEF ApplyDecisionResults, IsJanken
  <2> QED
    BY <1>1, <1>3, <1>6, <2>1, CourseApply, SessionApply, JankenFollowsApply, EchoFollowsApply DEF Follows
<1>7. CASE End
  <2>1. IsJanken' = IsJanken
    BY <1>7 DEF End, IsJanken
  <2> QED
    BY <1>1, <1>3, <1>7, <2>1, CourseEnd, SessionEnd, JankenFollowsEnd, EchoFollowsEnd DEF Follows
<1>8. CASE UNCHANGED vars
  <2>1. /\ ruleset' = ruleset /\ master' = master /\ phase' = phase /\ step' = step /\ statuses' = statuses
        /\ log' = log /\ boundary' = boundary
    BY <1>8 DEF vars
  <2>2. /\ IsJanken' = IsJanken /\ Start' = Start /\ Together' = Together
    BY <2>1 DEF IsJanken, Start, NewMaster, Together
  <2>3. Course'
    BY <1>3, <2>1, <2>2 DEF Course, NextStep
  <2>4. SessionFollows'
    BY <1>3, <2>1, <2>2 DEF SessionFollows, Running, AtRunner, Done
  <2>5. JankenFollows' <=> JankenFollows
    BY <2>1 DEF JankenFollows, Rounded
  <2>6. EchoFollows' <=> EchoFollows
    BY <2>1 DEF EchoFollows, EchoRunning, Recorded, Scoring
  <2> QED
    BY <1>3, <2>2, <2>3, <2>4, <2>5, <2>6 DEF Follows
<1>9. ~ResumeFromRecord /\ ~ResumeFromHistory
  BY DEF ResumeFromRecord, ResumeFromHistory, TakeUp
<1> QED
  BY <1>4, <1>5, <1>6, <1>7, <1>8, <1>9 DEF Next

-----------------------------------------------------------------------------
(* What a replay of the log rebuilds *)

LEMMA ConsumeGoesOn ==
  ASSUME NEW r, NEW events, NEW target \in Nat, r.ok = TRUE, Asked(IsJanken, r.m) # NoStep,
         Asked(IsJanken, r.m).turn \in 1..target, Found(events, r.cursor) # {}
  PROVE  Consume(r, events, target) = GoOn(IsJanken, r, events)
<1> DEFINE st       == NextStep(r.m)
           found    == {k \in DOMAIN events : k > r.cursor /\ events[k].kind \in StatusEvents}
           i        == CHOOSE k \in found : \A j \in found : k <= j
           recorded == Append(r.statuses, events[i].status)
           fits     == events[i].turn = st.turn /\ events[i].player = st.players[Len(recorded)]
           played(judged) == IF Len(recorded) < Len(st.players)
                             THEN [m |-> r.m, statuses |-> recorded, cursor |-> i, ok |-> TRUE]
                             ELSE [m |-> judged, statuses |-> <<>>, cursor |-> i, ok |-> TRUE]
<1>1. found = Found(events, r.cursor) /\ st = Asked(IsJanken, r.m)
  BY AskedIsNext DEF Found
<1>2. st # NoStep /\ ~(st.turn > target) /\ found # {}
  BY <1>1
<1>3. Consume(r, events, target)
        = IF ~r.ok \/ st.turn > target THEN r
          ELSE IF st = NoStep THEN [r EXCEPT !.ok = Snapshot(r.m).turn >= target]
          ELSE IF ~(found # {} /\ fits) THEN [r EXCEPT !.ok = FALSE]
          ELSE played(ApplyStep(r.m, st, recorded))
  BY Zenon DEF Consume
<1>4. GoOn(IsJanken, r, events)
        = IF ~fits THEN [r EXCEPT !.ok = FALSE] ELSE played(Judged(IsJanken, r.m, st, recorded))
  <2> DEFINE fitting(step0, F) ==
               LET i1 == CHOOSE k \in F : \A j \in F : k <= j
                   rec == Append(r.statuses, events[i1].status)
               IN  IF ~(events[i1].turn = step0.turn /\ events[i1].player = step0.players[Len(rec)])
                   THEN [r EXCEPT !.ok = FALSE]
                   ELSE IF Len(rec) < Len(step0.players)
                   THEN [m |-> r.m, statuses |-> rec, cursor |-> i1, ok |-> TRUE]
                   ELSE [m |-> Judged(IsJanken, r.m, step0, rec), statuses |-> <<>>, cursor |-> i1, ok |-> TRUE]
  <2>1. GoOn(IsJanken, r, events) = fitting(Asked(IsJanken, r.m), Found(events, r.cursor))
    BY Zenon DEF GoOn
  <2>2. fitting(st, found) = IF ~fits THEN [r EXCEPT !.ok = FALSE] ELSE played(Judged(IsJanken, r.m, st, recorded))
    BY Zenon
  <2> HIDE DEF fitting
  <2> QED
    BY <1>1, <2>1, <2>2
<1>5. Judged(IsJanken, r.m, st, recorded) = ApplyStep(r.m, st, recorded)
  BY Zenon DEF Judged, ApplyStep
<1> HIDE DEF st, found, i, recorded, fits, played
<1> QED
  BY <1>2, <1>3, <1>4, <1>5

LEMMA SessionRebuilds ==
  ASSUME NEW start, NEW g, NEW K \in Nat, SessionPlays(IsJanken, log, start, g, K),
         NEW t \in Nat, t * NPlayers \in 0..K,
         \A n \in 0..t * NPlayers - 1 : Asked(IsJanken, g[n].m).turn \in 1..t
  PROVE  SessionReplay(start, log, t) = g[t * NPlayers]
<1>1. PICK T : T = t * NPlayers
  OBVIOUS
<1> DEFINE Plays(f) == f = [n \in 0..T |-> IF n = 0 THEN Fresh(start) ELSE Consume(f[n - 1], log, t)]
           played == CHOOSE f : Plays(f)
<1>2. SessionReplay(start, log, t) = played[T]
  BY <1>1, Zenon DEF SessionReplay
<1>3. T \in 0..K /\ T \in Nat
  BY <1>1
<1>4. ASSUME NEW n \in 1..T PROVE g[n] = Consume(g[n - 1], log, t) /\ n - 1 \in 0..T
  <2>1. n \in 1..K /\ n - 1 \in 0..T - 1 /\ n - 1 \in 0..K
    BY <1>3
  <2>2. /\ Asked(IsJanken, g[n - 1].m) # NoStep /\ Found(log, g[n - 1].cursor) # {}
        /\ g[n] = GoOn(IsJanken, g[n - 1], log) /\ g[n - 1].ok = TRUE
    BY <2>1 DEF SessionPlays
  <2>3. Asked(IsJanken, g[n - 1].m).turn \in 1..t
    BY <1>1, <2>1
  <2>4. PICK r : r = g[n - 1]
    OBVIOUS
  <2>5. Consume(r, log, t) = GoOn(IsJanken, r, log)
    BY <2>2, <2>3, <2>4, ConsumeGoesOn
  <2> QED
    BY <1>3, <2>1, <2>2, <2>4, <2>5
<1>5. g[0] = Fresh(start)
  BY DEF SessionPlays
<1>6. Plays(played)
  <2> DEFINE w == [n \in 0..T |-> g[n]]
  <2>1. \A n \in 0..T : w[n] = IF n = 0 THEN Fresh(start) ELSE Consume(w[n - 1], log, t)
    <3> SUFFICES ASSUME NEW n \in 0..T PROVE w[n] = IF n = 0 THEN Fresh(start) ELSE Consume(w[n - 1], log, t)
      OBVIOUS
    <3>1. CASE n = 0
      BY <1>5, <3>1
    <3>2. CASE n # 0
      <4>1. n \in 1..T
        BY <1>3, <3>2
      <4>2. g[n] = Consume(g[n - 1], log, t) /\ w[n - 1] = g[n - 1]
        BY <1>4, <4>1
      <4> QED
        BY <3>2, <4>2
    <3> QED
      BY <3>1, <3>2
  <2>2. w = [n \in 0..T |-> w[n]]
    OBVIOUS
  <2> HIDE DEF w
  <2>3. Plays(w)
    BY <2>1, <2>2, Zenon
  <2> QED
    BY <2>3, Zenon
<1>7. \A n \in 0..T : played[n] = IF n = 0 THEN Fresh(start) ELSE Consume(played[n - 1], log, t)
  <2> HIDE DEF played
  <2> QED
    BY <1>6
<1> HIDE DEF played, Plays
<1> DEFINE wrong == {n \in 0..T : played[n] # g[n]}
           k == CHOOSE n \in wrong : \A j \in wrong : n <= j
<1>8. wrong = {}
  <2> SUFFICES ASSUME wrong # {} PROVE FALSE
    OBVIOUS
  <2>1. wrong \subseteq Nat
    BY <1>3
  <2>2. k \in wrong /\ \A j \in wrong : k <= j
    <3> HIDE DEF wrong
    <3> QED
      BY <2>1, LeastIsChosen
  <2> HIDE DEF k
  <2>3. k \in 0..T /\ played[k] # g[k]
    BY <2>2
  <2>4. k # 0
    BY <1>5, <1>7, <2>3
  <2>5. k \in 1..T /\ k - 1 \in 0..T /\ ~(k <= k - 1)
    BY <1>3, <2>3, <2>4
  <2>6. played[k - 1] = g[k - 1]
    BY <2>2, <2>5
  <2>7. played[k] = Consume(played[k - 1], log, t)
    BY <1>7, <2>3, <2>4
  <2>8. g[k] = Consume(g[k - 1], log, t)
    BY <1>4, <2>5
  <2> QED
    BY <2>3, <2>6, <2>7, <2>8
<1>9. played[T] = g[T]
  <2>1. T \in 0..T
    BY <1>3
  <2> QED
    BY <1>8, <2>1
<1> QED
  BY <1>1, <1>2, <1>9

LEMMA ReplaysAgree ==
  ASSUME NEW events, NEW n \in Nat, NEW f, Replays(events, f, n),
         NEW m \in 0..n, NEW h, Replays(events, h, m)
  PROVE  h[m] = f[m]
<1> DEFINE wrong == {k \in 0..m : h[k] # f[k]}
           k == CHOOSE i \in wrong : \A j \in wrong : i <= j
<1>1. \A i \in 0..n : f[i] = IF i = 0 THEN J!New ELSE LoggedRound(f[i - 1], events, i)
  BY DEF Replays
<1>2. \A i \in 0..m : h[i] = IF i = 0 THEN J!New ELSE LoggedRound(h[i - 1], events, i)
  BY DEF Replays
<1>3. wrong = {}
  <2> SUFFICES ASSUME wrong # {} PROVE FALSE
    OBVIOUS
  <2>1. wrong \subseteq Nat
    OBVIOUS
  <2>2. k \in wrong /\ \A j \in wrong : k <= j
    <3> HIDE DEF wrong
    <3> QED
      BY <2>1, LeastIsChosen
  <2> HIDE DEF k
  <2>3. k \in 0..m /\ k \in 0..n /\ h[k] # f[k]
    BY <2>2
  <2>4. k # 0
    BY <1>1, <1>2, <2>3
  <2>5. k - 1 \in 0..m /\ ~(k <= k - 1)
    BY <2>3, <2>4
  <2>6. h[k - 1] = f[k - 1]
    BY <2>2, <2>5
  <2> QED
    BY <1>1, <1>2, <2>3, <2>4, <2>6
<1>4. m \in 0..m
  OBVIOUS
<1> QED
  BY <1>3, <1>4

LEMMA JankenRebuilds ==
  ASSUME PositionInv, IsJanken, JankenFollows, NEW t \in 0..master.resolved
  PROVE  J!SnapshotFromHistory(log, t) = boundary[t + 1]
<1>1. master.resolved \in Nat /\ t \in Nat
  BY DEF PositionInv, Position, JankenPosition
<1>2. PICK f : Replays(log, f, master.resolved) /\ Rounded(f)
  BY DEF JankenFollows
<1>3. PICK h : /\ Replays(log, h, t)
               /\ J!SnapshotFromHistory(log, t)
                    = [turn |-> t, state |-> J!State(h[t]), perPlayer |-> J!PerPlayer(h[t])]
  BY <1>1, JankenReplayed
<1>4. h[t] = f[t]
  BY <1>1, <1>2, <1>3, ReplaysAgree
<1>5. f[t].resolved = t
  BY <1>1, <1>2, ReplayedPosition
<1>6. boundary[t + 1] = JankenShot(f[t])
  BY <1>2 DEF Rounded
<1> QED
  BY <1>3, <1>4, <1>5, <1>6 DEF JankenShot

LEMMA EchoRebuilds ==
  ASSUME NEW mode, NEW order, NEW events, NEW t \in Nat, NEW b, EchoShot(b, mode, order, events, t)
  PROVE  LET s == E!SnapshotFromHistory(mode, order, events, t) IN
         /\ s.turn = b.turn /\ s.state = b.state
         /\ \A p \in Player : /\ s.perPlayer[p].last = b.perPlayer[p].last
                              /\ s.perPlayer[p].visible.expected = b.perPlayer[p].visible.expected
                              /\ s.perPlayer[p].visible.score = b.perPlayer[p].visible.score
                              /\ s.perPlayer[p].visible.turn = E!Expected(order, t)
<1> DEFINE read == {i \in DOMAIN events : /\ events[i].kind \in E!StatusEvents
                                          /\ events[i].turn \in 1..t}
           of(p) == {i \in read : events[i].player = p}
           score == [p \in Player |-> Cardinality({i \in of(p) : events[i].status.status = "accepted"})]
           shown == E!Expected(order, t)
           last(S) == IF S = {} THEN NoAction("") ELSE events[CHOOSE i \in S : \A j \in S : j <= i].status
           s == E!SnapshotFromHistory(mode, order, events, t)
<1>1. s = [turn |-> t, state |-> [mode |-> mode, order |-> order, score |-> score],
           perPlayer |-> [p \in Player |->
             [visible |-> [turn |-> shown, expected |-> shown, score |-> score], last |-> last(of(p))]]]
  BY SamePlayers, EchoCounts DEF E!SnapshotFromHistory, E!NoAction, NoAction
<1>2. ASSUME NEW p PROVE of(p) = LoggedOf(events, t, p)
  BY DEF LoggedOf, E!StatusEvents, StatusEvents
<1> HIDE DEF read, of, s, shown
<1>3. score = [p \in Player |-> LoggedScore(events, t, p)]
  BY <1>2 DEF LoggedScore
<1>4. ASSUME NEW p PROVE last(of(p)) = LoggedLast(events, t, p)
  <2>1. LoggedLast(events, t, p) = last(LoggedOf(events, t, p))
    BY Zenon DEF LoggedLast
  <2> HIDE DEF last
  <2> QED
    BY <1>2, <2>1
<1> HIDE DEF score, last
<1>5. s.turn = b.turn /\ s.state = b.state /\ b.state.score = score
  BY <1>1, <1>3 DEF EchoShot
<1>6. ASSUME NEW p \in Player
      PROVE  /\ s.perPlayer[p].last = b.perPlayer[p].last
             /\ s.perPlayer[p].visible.expected = b.perPlayer[p].visible.expected
             /\ s.perPlayer[p].visible.score = b.perPlayer[p].visible.score
             /\ s.perPlayer[p].visible.turn = shown
  <2>1. /\ s.perPlayer[p].last = LoggedLast(events, t, p)
        /\ s.perPlayer[p].visible.expected = shown /\ s.perPlayer[p].visible.score = score
        /\ s.perPlayer[p].visible.turn = shown
    BY <1>1, <1>4
  <2> QED
    BY <1>5, <2>1 DEF EchoShot, shown
<1> QED
  BY <1>5, <1>6 DEF s, shown

LEMMA InOrder ==
  ASSUME NEW t \in Nat
  PROVE  E!Expected(E!Identity, t) = IF t >= Turns THEN Turns ELSE t + 1
<1>1. Turns \in Nat /\ Turns \in 1..Turns
  BY Sizes
<1>2. E!Identity[Turns] = Turns
  BY <1>1 DEF E!Identity
<1>3. CASE t < Turns
  <2>1. t + 1 \in 1..Turns
    BY <1>1, <1>3
  <2> QED
    BY <1>1, <1>3, <2>1 DEF E!Expected, E!Identity
<1>4. CASE ~(t < Turns)
  BY <1>1, <1>2, <1>4 DEF E!Expected
<1> QED
  BY <1>3, <1>4

LEMMA HistoryInvRebuilds == HistoryInv => HistoryRebuilds
<1> SUFFICES ASSUME HistoryInv, phase = "ended", ~resumed, NEW t \in 0..Len(boundary) - 1
             PROVE  LET live     == boundary[t + 1]
                        replayed == SnapshotFromHistory(log, t)
                        session  == SessionReplay(Start, log, t)
                    IN  /\ replayed.turn = live.turn /\ replayed.state = live.state
                        /\ \A p \in Player : SamePlayer(replayed.perPlayer[p], live.perPlayer[p])
                        /\ session.ok
                        /\ Snapshot(session.m).turn = live.turn /\ Snapshot(session.m).state = live.state
  BY Zenon DEF HistoryRebuilds, Start
<1>1. PositionInv /\ Course /\ SessionFollows /\ IF IsJanken THEN JankenFollows ELSE EchoFollows
  BY DEF HistoryInv, Follows
<1>2. master.resolved \in Nat /\ Len(boundary) = master.resolved + 1
  BY <1>1 DEF PositionInv, Position, JankenPosition, EchoPosition, Course
<1>3. t \in 0..master.resolved /\ t \in Nat
  BY <1>2
<1> DEFINE live     == boundary[t + 1]
           replayed == SnapshotFromHistory(log, t)
           session  == SessionReplay(Start, log, t)
<1>4. session.ok /\ Snapshot(session.m).turn = live.turn /\ Snapshot(session.m).state = live.state
  <2>1. PICK K \in Nat : \E g : SessionPlays(IsJanken, log, Start, g, K) /\ Marks(IsJanken, boundary, g, K)
    BY <1>1 DEF SessionFollows
  <2>2. PICK g : SessionPlays(IsJanken, log, Start, g, K) /\ Marks(IsJanken, boundary, g, K)
    BY <2>1
  <2>3. /\ t * NPlayers \in 0..K
        /\ Shot(IsJanken, g[t * NPlayers].m).turn = live.turn
        /\ Shot(IsJanken, g[t * NPlayers].m).state = live.state
        /\ \A n \in 0..t * NPlayers - 1 : Asked(IsJanken, g[n].m).turn \in 1..t
    BY <2>2 DEF Marks
  <2>4. session = g[t * NPlayers]
    BY <1>3, <2>2, <2>3, SessionRebuilds
  <2>5. g[t * NPlayers].ok = TRUE
    BY <2>2, <2>3 DEF SessionPlays
  <2>6. \A m : Snapshot(m) = Shot(IsJanken, m)
    BY DEF Snapshot, Shot
  <2> HIDE DEF live, session
  <2> QED
    BY <2>3, <2>4, <2>5, <2>6
<1>5. /\ replayed.turn = live.turn /\ replayed.state = live.state
      /\ \A p \in Player : SamePlayer(replayed.perPlayer[p], live.perPlayer[p])
  <2>1. CASE IsJanken
    <3>1. replayed = live
      BY <1>1, <1>3, <2>1, JankenRebuilds DEF SnapshotFromHistory
    <3> HIDE DEF replayed, live
    <3> QED
      BY <2>1, <3>1 DEF SamePlayer
  <2>2. CASE ~IsJanken
    <3>1. EchoShot(live, master.mode, master.order, log, t)
      BY <1>1, <1>3, <2>2 DEF EchoFollows
    <3> DEFINE s == E!SnapshotFromHistory(master.mode, master.order, log, t)
    <3>2. replayed = s
      BY <2>2 DEF SnapshotFromHistory
    <3> HIDE DEF live, replayed
    <3>3. /\ s.turn = live.turn /\ s.state = live.state
          /\ \A p \in Player : /\ s.perPlayer[p].last = live.perPlayer[p].last
                               /\ s.perPlayer[p].visible.expected = live.perPlayer[p].visible.expected
                               /\ s.perPlayer[p].visible.score = live.perPlayer[p].visible.score
                               /\ s.perPlayer[p].visible.turn = E!Expected(master.order, t)
      BY <1>3, <3>1, EchoRebuilds
    <3> HIDE DEF s
    <3>4. ASSUME NEW p \in Player, ~ruleset.seedAware
          PROVE  s.perPlayer[p].visible.turn = live.perPlayer[p].visible.turn
      <4>1. master.order = E!Identity
        BY <1>1, <2>2, <3>4 DEF Course
      <4>2. s.perPlayer[p].visible.turn = IF t >= Turns THEN Turns ELSE t + 1
        BY <1>3, <3>3, <4>1, InOrder
      <4> QED
        BY <3>1, <4>2 DEF EchoShot
    <3> QED
      BY <2>2, <3>2, <3>3, <3>4 DEF SamePlayer
  <2> QED
    BY <2>1, <2>2
<1> QED
  BY <1>4, <1>5

\* Whatever players answered and however the match was cut off, its log gives
\* back every turn boundary it passed: to the games' own SnapshotFromHistory
\* and to the replay of a game master session.
THEOREM HistoryIsEnough == Spec => []HistoryRebuilds
<1> QED
  BY HistoryInvInit, HistoryInvStep, HistoryInvRebuilds, PTL DEF Spec
=============================================================================
