------------------------ MODULE DocumentVersionsProofs ------------------------
(* What holds of document versions for any artifacts, any number of storers, stores and
   failures.  No store holds a lock while it looks, so each proof says what of the rows a
   store has found is still true when it writes: rows never go and never change what they
   are, ids grow, and whoever may change what it found is on record in shared or twice. *)
EXTENDS DocumentVersions, FiniteSetTheorems, WellFoundedInduction, TLAPS

Early   == {"looked", "unmatched", "matched"}
Storing == {"put"} \cup Locking

\* TypeOK, part by part.
RowsOK ==
  /\ doc \in [Ids -> Artifacts \cup {NoArtifact}] /\ current \subseteq Stored
  /\ prev \in [Ids -> Stored \cup {None}] /\ compared \in [Ids -> Stored \cup {None}]
  /\ reviewed \subseteq {d \in Stored : compared[d] # None}
LocalOK ==
  /\ phase \in [Storers -> UnderWay \cup {"idle", "replayed", "failed"}]
  /\ art \in [Storers -> Artifacts \cup {NoArtifact}]
  /\ \A s \in Storers : phase[s] # "idle" => art[s] \in Artifacts
  /\ seen \in [Storers -> Stored \cup {None}] /\ other \in [Storers -> Stored \cup {None}]
  /\ \A s \in Storers : phase[s] = "replayed" => seen[s] \in Stored
  /\ me \in [Storers -> 0 .. created]
  /\ \A s \in Storers : phase[s] \in Storing => me[s] \in Ids \ Stored
CountsOK == stores \in 0 .. MaxStores /\ created \in 0 .. stores /\ failures \in 0 .. MaxFailures
TracesOK ==
  /\ blobs \subseteq {BlobOf(a) : a \in Artifacts}
  /\ shared \subseteq Classes /\ twice \subseteq shared
  /\ cleaned \subseteq {BlobOf(a) : a \in Artifacts}
  /\ dropped \subseteq {BlobOf(a) : a \in Artifacts} \X Classes

LEMMA TypeParts ==
  /\ TypeOK <=> RowsOK /\ LocalOK /\ CountsOK /\ TracesOK
  /\ TypeOK' <=> (RowsOK /\ LocalOK /\ CountsOK /\ TracesOK)'
BY DEF TypeOK, RowsOK, LocalOK, CountsOK, TracesOK, Storing

\* Ids are given once, to a store that was counted, and are later than what it has seen.
NumbersOK ==
  /\ Stored \subseteq 1 .. created
  /\ \A s \in Storers : phase[s] \in Storing => me[s] # None /\ seen[s] < me[s]
  /\ \A s, t \in Storers :
       phase[s] \in Storing /\ phase[t] \in Storing /\ s # t => me[s] # me[t]

Ahead == {s \in Storers : phase[s] \in Early}
AheadOK == IsFiniteSet(Ahead) /\ created + Cardinality(Ahead) <= stores

Typed == TypeOK /\ NumbersOK /\ AheadOK

-----------------------------------------------------------------------------
(* Facts about the operators *)

LEMMA Phases ==
  /\ UnderWay = Early \cup Storing /\ Early \cap Storing = {}
  /\ "idle" \notin UnderWay /\ "replayed" \notin UnderWay /\ "failed" \notin UnderWay
  /\ Locking \subseteq Storing
BY DEF UnderWay, Early, Storing, Locking

LEMMA ArtifactFacts ==
  ASSUME NEW a \in Artifacts
  PROVE  a.class \in Classes /\ BlobOf(a) \in {BlobOf(b) : b \in Artifacts} /\ a # NoArtifact
BY DocumentsAssumption DEF Classes

LEMMA StoredFacts == Stored \subseteq Ids /\ None \notin Stored /\ Ids \subseteq Nat
BY DocumentsAssumption DEF Stored, Ids, None

LEMMA NatMin ==
  ASSUME NEW T, T \subseteq Nat, T # {}
  PROVE  \E x \in T : \A y \in T : x <= y
<1> DEFINE R == {ss \in Nat \X Nat : ss[1] < ss[2]}
<1>1. IsWellFoundedOn(R, Nat)
  BY NatLessThanWellFounded DEF OpToRel
<1> HIDE DEF R
<1>2. \E x \in T : \A y \in T : ~(<<y, x>> \in R)
  BY <1>1, WFMin
<1>3. PICK x \in T : \A y \in T : ~(<<y, x>> \in R)
  BY <1>2
<1>4. \A y \in T : ~(y < x)
  <2> SUFFICES ASSUME NEW y \in T, y < x PROVE FALSE
    OBVIOUS
  <2>1. <<y, x>> \in R BY DEF R
  <2> QED BY <2>1, <1>3
<1> QED BY <1>3, <1>4

LEMMA Greatest ==
  ASSUME NEW S, S \subseteq Ids, S # {}
  PROVE  \E x \in S : \A y \in S : y <= x
<1> DEFINE T == {MaxStores - d : d \in S}
<1>1. MaxStores \in Nat /\ \A d \in S : d \in Nat /\ MaxStores - d \in Nat
  BY DocumentsAssumption DEF Ids
<1>2. T \subseteq Nat /\ T # {} BY <1>1
<1>3. PICK m \in T : \A y \in T : m <= y BY <1>2, NatMin
<1>4. PICK x \in S : m = MaxStores - x OBVIOUS
<1>5. \A d \in S : MaxStores - d \in T OBVIOUS
<1> HIDE DEF T
<1>6. \A d \in S : d <= x
  <2> TAKE d \in S
  <2>1. MaxStores - x <= MaxStores - d BY <1>3, <1>4, <1>5
  <2> QED BY <1>1, <2>1
<1> QED BY <1>6

\* The current version that is found is the newest of those there are.
LEMMA LatestFacts ==
  ASSUME NEW c
  PROVE  LET found == Versions(c) \cap current
         IN  /\ found = {} => Latest(c) = None
             /\ found # {} => Latest(c) \in found /\ \A d \in found : d <= Latest(c)
<1> DEFINE found == Versions(c) \cap current
<1>1. found \subseteq Ids /\ Ids \subseteq Nat BY DEF Versions, Stored, Ids
<1>2. ASSUME found # {} PROVE Max(found) \in found /\ \A d \in found : d <= Max(found)
  <2>1. PICK x \in found : \A d \in found : d <= x BY <1>1, <1>2, Greatest
  <2> HIDE DEF found
  <2>2. \A d \in found : x >= d BY <1>1, <2>1
  <2>3. Max(found) \in found /\ \A d \in found : Max(found) >= d BY <2>2 DEF Max
  <2> QED BY <1>1, <2>3
<1> QED BY <1>2 DEF Latest

-----------------------------------------------------------------------------
(* Types: the steps that write no row *)

\* A storer that returns has nothing in hand.
LEMMA ReturnsKeeps ==
  ASSUME Typed, NEW s \in Storers, Returns(s), Stored \subseteq Stored', created' = created,
         \A t \in Storers : t # s /\ phase[t] \in Storing => me[t] \notin Stored'
  PROVE  LocalOK'
<1> USE TypeParts, Phases DEF Typed, LocalOK, Returns, Goes
<1>1. None \in 0 .. created BY DEF CountsOK, None
<1>2. /\ (phase \in [Storers -> UnderWay \cup {"idle", "replayed", "failed"}])'
      /\ (art \in [Storers -> Artifacts \cup {NoArtifact}])'
      /\ (seen \in [Storers -> Stored \cup {None}])'
      /\ (other \in [Storers -> Stored \cup {None}])'
      /\ (me \in [Storers -> 0 .. created])'
  BY <1>1
<1>3. (\A t \in Storers : phase[t] # "idle" => art[t] \in Artifacts)' OBVIOUS
<1>4. (\A t \in Storers : phase[t] = "replayed" => seen[t] \in Stored)' OBVIOUS
<1>5. (\A t \in Storers : phase[t] \in Storing => me[t] \in Ids \ Stored)' BY DEF Ids
<1> QED BY <1>2, <1>3, <1>4, <1>5

LEMMA RowsSame == ASSUME UNCHANGED rows PROVE Stored' = Stored /\ (RowsOK => RowsOK')
BY DEF rows, Stored, RowsOK

LEMMA ReplayType ==
  ASSUME Typed, NEW s \in Storers, NEW a \in Artifacts, Replay(s, a)
  PROVE  TypeOK'
<1> USE TypeParts, Phases DEF Typed, Replay
<1>1. RowsOK' /\ Stored' = Stored BY RowsSame
<1>2. LocalOK' BY <1>1 DEF LocalOK, Goes, counts
<1>3. CountsOK' /\ TracesOK' BY DEF CountsOK, TracesOK, counts, traces
<1> QED BY <1>1, <1>2, <1>3

LEMMA RepairType ==
  ASSUME Typed, NEW s \in Storers, Repair(s)
  PROVE  TypeOK'
<1> USE TypeParts, Phases DEF Typed, Repair
<1>1. RowsOK' /\ Stored' = Stored BY RowsSame
<1>2. LocalOK' BY <1>1, ReturnsKeeps DEF LocalOK, counts
<1>3. CountsOK' BY DEF CountsOK, counts
<1>4. doc[seen[s]] \in Artifacts BY DEF LocalOK, Stored, RowsOK
<1>5. TracesOK' BY <1>4, ArtifactFacts DEF TracesOK, traces
<1> QED BY <1>1, <1>2, <1>3, <1>5

LEMMA LookType ==
  ASSUME Typed, NEW s \in Storers, NEW a \in Artifacts, Look(s, a)
  PROVE  TypeOK'
<1> USE TypeParts, Phases DEF Typed, Look
<1>1. RowsOK' /\ Stored' = Stored BY RowsSame
<1>2. LocalOK' BY <1>1 DEF LocalOK, Goes, UnderWay, Storing, Locking
<1>3. CountsOK'
  <2>1. stores \in 0 .. MaxStores /\ created \in 0 .. stores /\ MaxStores \in Nat
    BY DocumentsAssumption DEF CountsOK
  <2>2. stores + 1 \in 0 .. MaxStores /\ created \in 0 .. (stores + 1) BY <2>1
  <2> QED BY <2>2 DEF CountsOK
<1>4. TracesOK' BY ArtifactFacts DEF TracesOK
<1> QED BY <1>1, <1>2, <1>3, <1>4

LEMMA FindCurrentType ==
  ASSUME Typed, NEW s \in Storers, FindCurrent(s)
  PROVE  TypeOK'
<1> USE TypeParts, Phases DEF Typed, FindCurrent
<1>1. RowsOK' /\ Stored' = Stored BY RowsSame
<1>2. Latest(art[s].class) \in Stored \cup {None} BY LatestFacts DEF Versions
<1>3. LocalOK' BY <1>1, <1>2 DEF LocalOK, Goes, UnderWay, Storing, Locking, counts
<1>4. CountsOK' /\ TracesOK' BY DEF CountsOK, TracesOK, counts, traces
<1> QED BY <1>1, <1>3, <1>4

LEMMA FindTransitionType ==
  ASSUME Typed, NEW s \in Storers, FindTransition(s)
  PROVE  TypeOK'
<1> USE TypeParts, Phases DEF Typed, FindTransition
<1>1. RowsOK' /\ Stored' = Stored BY RowsSame
<1>2. Latest(Sibling[art[s].class]) \in Stored \cup {None} BY LatestFacts DEF Versions
<1>3. LocalOK' BY <1>1, <1>2 DEF LocalOK, Goes, UnderWay, Storing, Locking, counts
<1>4. CountsOK' /\ TracesOK' BY DEF CountsOK, TracesOK, counts, traces
<1> QED BY <1>1, <1>3, <1>4

\* There is an id left for whoever has been counted.
LEMMA PutType ==
  ASSUME Typed, NEW s \in Storers, Put(s)
  PROVE  TypeOK'
<1> USE TypeParts, Phases DEF Typed, Put
<1>1. RowsOK' /\ Stored' = Stored BY RowsSame
<1>2. s \in Ahead /\ "matched" \in Early BY DEF Ahead, Early
<1>3. Cardinality(Ahead) \in Nat /\ Cardinality(Ahead) # 0
  BY <1>2, FS_CardinalityType, FS_EmptySet DEF AheadOK
<1>4. created \in Nat /\ stores \in Nat BY DEF CountsOK
<1>5. created + 1 <= stores BY <1>3, <1>4 DEF AheadOK
<1>6. CountsOK' BY <1>5 DEF CountsOK
<1>7. created + 1 \in Ids \ Stored
  BY <1>4, <1>5, DocumentsAssumption DEF Ids, CountsOK, NumbersOK
<1>8. LocalOK'
  <2>1. (me \in [Storers -> 0 .. created])' BY <1>4 DEF LocalOK
  <2>2. (\A t \in Storers : phase[t] \in Storing => me[t] \in Ids \ Stored)'
    BY <1>1, <1>7, DocumentsAssumption DEF LocalOK, Goes, Ids
  <2> QED BY <1>1, <2>1, <2>2 DEF LocalOK, Goes, Storing
<1>9. art[s] \in Artifacts BY DEF LocalOK
<1>10. TracesOK' BY <1>9, ArtifactFacts DEF TracesOK, traces
<1> QED BY <1>1, <1>6, <1>8, <1>10

\* Steps that only go on with what is in hand.
LEMMA GoesType ==
  ASSUME Typed, NEW s \in Storers, phase[s] \in Storing,
         NEW to \in {"superseded", "inserted", "failed"}, Goes(s, to),
         UNCHANGED <<rows, blobs, art, seen, other, me, stores, created, traces>>,
         failures' \in 0 .. MaxFailures
  PROVE  TypeOK'
<1> USE TypeParts, Phases DEF Typed
<1>1. RowsOK' /\ Stored' = Stored BY RowsSame
<1>2. to \in UnderWay \cup {"failed"} /\ to # "idle" /\ to # "replayed" BY DEF UnderWay
<1>3. LocalOK'
  <2>1. (phase \in [Storers -> UnderWay \cup {"idle", "replayed", "failed"}])'
    BY <1>2 DEF LocalOK, Goes
  <2>2. (\A t \in Storers : phase[t] # "idle" => art[t] \in Artifacts)'
    BY <1>2 DEF LocalOK, Goes
  <2>3. (\A t \in Storers : phase[t] = "replayed" => seen[t] \in Stored)'
    BY <1>1, <1>2 DEF LocalOK, Goes
  <2>4. (\A t \in Storers : phase[t] \in Storing => me[t] \in Ids \ Stored)'
    BY <1>1 DEF LocalOK, Goes, Ids
  <2> QED BY <1>1, <2>1, <2>2, <2>3, <2>4 DEF LocalOK
<1>4. CountsOK' /\ TracesOK' BY DEF CountsOK, TracesOK, traces
<1> QED BY <1>1, <1>3, <1>4

LEMMA CleanupType ==
  ASSUME Typed, NEW s \in Storers, Cleanup(s)
  PROVE  TypeOK'
<1> USE TypeParts, Phases DEF Typed, Cleanup
<1>1. RowsOK' /\ Stored' = Stored BY RowsSame
<1>2. LocalOK' BY <1>1, ReturnsKeeps DEF LocalOK, counts
<1>3. CountsOK' BY DEF CountsOK, counts
<1>4. art[s] \in Artifacts BY DEF LocalOK
<1>5. TracesOK' BY <1>4, ArtifactFacts DEF TracesOK
<1> QED BY <1>1, <1>2, <1>3, <1>5

LEMMA KilledType ==
  ASSUME Typed, NEW s \in Storers, Killed(s)
  PROVE  TypeOK'
<1> USE TypeParts, Phases DEF Typed, Killed
<1>1. RowsOK' /\ Stored' = Stored BY RowsSame
<1>2. LocalOK' BY <1>1, ReturnsKeeps DEF LocalOK
<1>3. CountsOK' /\ TracesOK' BY DocumentsAssumption DEF CountsOK, TracesOK, traces
<1> QED BY <1>1, <1>2, <1>3

-----------------------------------------------------------------------------
(* Types: the steps that write rows *)

LEMMA ConflictType ==
  ASSUME Typed, NEW s \in Storers, Conflict(s)
  PROVE  TypeOK'
<1> USE TypeParts, Phases DEF Typed, Conflict
<1>1. Stored' = Stored BY DEF Stored
<1>2. RowsOK' BY <1>1 DEF RowsOK
<1>3. LocalOK' BY <1>1, ReturnsKeeps DEF LocalOK, counts
<1>4. CountsOK' BY DEF CountsOK, counts
<1>5. art[s] \in Artifacts BY DEF LocalOK, Writes
<1>6. TracesOK' BY <1>5, ArtifactFacts DEF TracesOK
<1> QED BY <1>2, <1>3, <1>4, <1>6

LEMMA CommitStored ==
  ASSUME Typed, NEW s \in Storers, Commit(s)
  PROVE  /\ s \in Storers /\ me[s] \in Ids \ Stored /\ art[s] \in Artifacts /\ "inserted" \in Storing
         /\ Stored' = Stored \cup {me[s]} /\ doc'[me[s]] = art[s]
         /\ \A d \in Stored : doc'[d] = doc[d] /\ prev'[d] = prev[d] /\ compared'[d] = compared[d]
         /\ prev'[me[s]] = seen[s] /\ compared'[me[s]] = Target(s)
<1>1. /\ "inserted" \in Storing /\ me[s] \in Ids \ Stored /\ art[s] \in Artifacts
  BY TypeParts DEF Typed, Commit, LocalOK, Storing, Locking
<1>2. doc' = [doc EXCEPT ![me[s]] = art[s]] /\ doc \in [Ids -> Artifacts \cup {NoArtifact}]
  BY TypeParts DEF Typed, Commit, RowsOK
<1>3. Stored' = Stored \cup {me[s]} BY <1>1, <1>2, ArtifactFacts DEF Stored
<1> QED BY <1>1, <1>2, <1>3, TypeParts DEF Commit, Typed, RowsOK

LEMMA CommitType ==
  ASSUME Typed, NEW s \in Storers, Commit(s)
  PROVE  TypeOK'
<1> USE TypeParts, Phases DEF Typed
<1>0. /\ me[s] \in Ids \ Stored /\ art[s] \in Artifacts /\ "inserted" \in Storing
      /\ Stored' = Stored \cup {me[s]}
      /\ \A d \in Stored : compared'[d] = compared[d]
      /\ compared'[me[s]] = Target(s)
  BY CommitStored
<1>1. Target(s) \in Stored \cup {None} /\ seen[s] \in Stored \cup {None} BY DEF Target, LocalOK
<1>2. RowsOK'
  <2>1. (doc \in [Ids -> Artifacts \cup {NoArtifact}])' BY <1>0 DEF RowsOK, Commit
  <2>2. (current \subseteq Stored)' BY <1>0 DEF RowsOK, Commit
  <2>3. (prev \in [Ids -> Stored \cup {None}])' BY <1>0, <1>1 DEF RowsOK, Commit
  <2>4. (compared \in [Ids -> Stored \cup {None}])' BY <1>0, <1>1 DEF RowsOK, Commit
  <2>5. (reviewed \subseteq {d \in Stored : compared[d] # None})'
    <3> SUFFICES ASSUME NEW d \in reviewed' PROVE d \in Stored' /\ compared'[d] # None
      OBVIOUS
    <3>1. CASE d \in reviewed BY <1>0, <3>1 DEF RowsOK
    <3>2. CASE d \notin reviewed
      <4>1. d = me[s] /\ Target(s) # None BY <3>2 DEF Commit
      <4> QED BY <1>0, <4>1
    <3> QED BY <3>1, <3>2
  <2> QED BY <2>1, <2>2, <2>3, <2>4, <2>5 DEF RowsOK
<1>3. LocalOK'
  <2>1. \A t \in Storers : t # s /\ phase[t] \in Storing => me[t] \notin Stored'
    BY <1>0 DEF NumbersOK, LocalOK, Commit
  <2> QED BY <1>0, <2>1, ReturnsKeeps DEF Commit, counts
<1>4. CountsOK' /\ TracesOK' BY DEF CountsOK, TracesOK, Commit, counts, traces
<1> QED BY <1>2, <1>3, <1>4
-----------------------------------------------------------------------------
(* Ids *)

\* Whoever is about to insert goes on with the id it has.
LEMMA NumbersKept ==
  ASSUME Typed, created' = created, Stored' = Stored,
         \A t \in Storers : phase'[t] \in Storing =>
            phase[t] \in Storing /\ me'[t] = me[t] /\ seen'[t] = seen[t]
  PROVE  NumbersOK'
BY DEF Typed, NumbersOK

LEMMA AheadKept ==
  ASSUME Typed, created' = created, stores' = stores, Ahead' \subseteq Ahead
  PROVE  AheadOK'
<1>1. IsFiniteSet(Ahead') /\ Cardinality(Ahead') <= Cardinality(Ahead)
  BY FS_Subset DEF Typed, AheadOK
<1>2. Cardinality(Ahead') \in Nat /\ Cardinality(Ahead) \in Nat
  BY <1>1, FS_CardinalityType DEF Typed, AheadOK
<1>3. created \in Nat /\ stores \in Nat BY TypeParts DEF Typed, CountsOK
<1> QED BY <1>1, <1>2, <1>3 DEF Typed, AheadOK

LEMMA LookNumbers ==
  ASSUME Typed, NEW s \in Storers, NEW a \in Artifacts, Look(s, a)
  PROVE  NumbersOK' /\ AheadOK'
<1> USE TypeParts, Phases DEF Typed, Look
<1>1. Stored' = Stored BY RowsSame
<1>2. "looked" \in Early /\ "idle" \notin Early BY DEF Early
<1>3. NumbersOK' BY <1>1, <1>2, NumbersKept DEF Goes, LocalOK
<1>4. Ahead' = Ahead \cup {s} /\ s \notin Ahead BY <1>2 DEF Ahead, Goes, LocalOK
<1>5. IsFiniteSet(Ahead') /\ Cardinality(Ahead') = Cardinality(Ahead) + 1
  BY <1>4, FS_AddElement DEF AheadOK
<1>6. created \in Nat /\ stores \in Nat /\ Cardinality(Ahead) \in Nat
  BY FS_CardinalityType DEF CountsOK, AheadOK
<1> QED BY <1>3, <1>5, <1>6 DEF AheadOK

LEMMA PutNumbers ==
  ASSUME Typed, NEW s \in Storers, Put(s)
  PROVE  NumbersOK' /\ AheadOK'
<1> USE TypeParts, Phases DEF Typed, Put
<1>1. Stored' = Stored BY RowsSame
<1>2. created \in Nat /\ Stored \subseteq 1 .. created /\ seen[s] \in Stored \cup {None}
  BY DEF CountsOK, NumbersOK, LocalOK
<1>3. seen[s] < created + 1 /\ created + 1 # None
  <2>1. seen[s] \in 1 .. created \/ seen[s] = 0 BY <1>2 DEF None
  <2>2. created \in Nat BY <1>2
  <2> QED BY ONLY <2>1, <2>2 DEF None
<1>4. phase'[s] = "put" /\ me'[s] = created + 1 BY DEF Goes, LocalOK
<1>5. \A t \in Storers : t # s => phase'[t] = phase[t] /\ me'[t] = me[t] /\ me[t] \in 0 .. created
  BY DEF Goes, LocalOK
<1>6. NumbersOK'
  <2>1. (Stored \subseteq 1 .. created)' BY <1>1, <1>2
  <2>2. (\A t \in Storers : phase[t] \in Storing => me[t] # None /\ seen[t] < me[t])'
    BY <1>3, <1>4, <1>5 DEF NumbersOK
  <2>3. \A t \in Storers : t # s => me'[t] # created + 1 BY <1>2, <1>5
  <2>4. (\A t, u \in Storers :
           phase[t] \in Storing /\ phase[u] \in Storing /\ t # u => me[t] # me[u])'
    BY <1>4, <1>5, <2>3 DEF NumbersOK
  <2> QED BY <2>1, <2>2, <2>4 DEF NumbersOK
<1>7. "put" \notin Early /\ "matched" \in Early BY DEF Early
<1>8. Ahead' = Ahead \ {s} /\ s \in Ahead BY <1>4, <1>5, <1>7 DEF Ahead
<1>9. IsFiniteSet(Ahead') /\ Cardinality(Ahead') = Cardinality(Ahead) - 1
  BY <1>8, FS_RemoveElement DEF AheadOK
<1>10. stores \in Nat /\ Cardinality(Ahead) \in Nat
  BY FS_CardinalityType DEF CountsOK, AheadOK
<1> QED BY <1>2, <1>6, <1>9, <1>10 DEF AheadOK

LEMMA CommitNumbers ==
  ASSUME Typed, NEW s \in Storers, Commit(s)
  PROVE  NumbersOK' /\ AheadOK'
<1> USE TypeParts, Phases DEF Typed
<1>1. Stored' = Stored \cup {me[s]} /\ me[s] \in Ids \ Stored BY CommitStored
<1>2. me[s] \in 1 .. created BY <1>1 DEF LocalOK, Ids
<1>3. /\ \A t \in Storers : phase'[t] \in Storing =>
             t # s /\ phase[t] = phase'[t] /\ me'[t] = me[t] /\ seen'[t] = seen[t]
      /\ created' = created /\ stores' = stores
  BY DEF Commit, Returns, Goes, LocalOK, counts
<1>4. NumbersOK' BY <1>1, <1>2, <1>3 DEF NumbersOK
<1>5. Ahead' \subseteq Ahead BY DEF Ahead, Commit, Returns, Goes, LocalOK, Early
<1> QED BY <1>3, <1>4, <1>5, AheadKept

LEMMA QuietNumbers ==
  ASSUME Typed, NEW s \in Storers,
         \/ Repair(s) \/ FindCurrent(s) \/ FindTransition(s) \/ Supersede(s) \/ Insert(s)
         \/ Conflict(s) \/ Cleanup(s) \/ Rollback(s) \/ Killed(s)
         \/ \E a \in Artifacts : Replay(s, a)
  PROVE  NumbersOK' /\ AheadOK'
<1> USE TypeParts, Phases DEF Typed
<1>1. Stored' = Stored /\ created' = created /\ stores' = stores
  <2>1. CASE Conflict(s) BY <2>1 DEF Conflict, Stored, counts
  <2>2. CASE ~Conflict(s)
    <3>1. UNCHANGED <<rows, stores, created>>
      BY <2>2 DEF Repair, FindCurrent, FindTransition, Supersede, Insert, Cleanup, Rollback,
                  Killed, Replay, counts
    <3> QED BY <3>1, RowsSame
  <2> QED BY <2>1, <2>2
<1>2. /\ \A t \in Storers : phase'[t] \in Storing =>
             phase[t] \in Storing /\ me'[t] = me[t] /\ seen'[t] = seen[t]
      /\ \A t \in Storers : phase'[t] \in Early => phase[t] \in Early
  <2>1. CASE Repair(s) \/ Conflict(s) \/ Cleanup(s) \/ Killed(s)
    <3>1. Returns(s) BY <2>1 DEF Repair, Conflict, Cleanup, Killed
    <3> QED BY <3>1 DEF Returns, Goes, LocalOK
  <2>2. CASE FindCurrent(s) BY <2>2 DEF FindCurrent, Goes, LocalOK, Early, Storing, Locking
  <2>3. CASE FindTransition(s) BY <2>3 DEF FindTransition, Goes, LocalOK, Early, Storing, Locking
  <2>4. CASE Supersede(s) \/ Insert(s) \/ Rollback(s)
    BY <2>4 DEF Supersede, Insert, Writes, Rollback, Goes, LocalOK, Early, Storing, Locking
  <2>5. CASE \E a \in Artifacts : Replay(s, a)
    BY <2>5 DEF Replay, Goes, LocalOK
  <2> QED BY <2>1, <2>2, <2>3, <2>4, <2>5
<1>3. Ahead' \subseteq Ahead BY <1>2 DEF Ahead
<1> QED BY <1>1, <1>2, <1>3, NumbersKept, AheadKept

LEMMA TypedInit == Init => Typed
<1> SUFFICES ASSUME Init PROVE Typed OBVIOUS
<1> USE DocumentsAssumption DEF Init
<1>1. Stored = {} BY DEF Stored
<1>2. RowsOK BY <1>1 DEF RowsOK
<1>3. LocalOK BY <1>1 DEF LocalOK, Storing, Locking, None
<1>4. CountsOK /\ TracesOK BY DEF CountsOK, TracesOK
<1>5. NumbersOK BY <1>1 DEF NumbersOK, Storing, Locking
<1>6. Ahead = {} BY DEF Ahead, Early
<1>7. AheadOK BY <1>6, FS_EmptySet DEF AheadOK
<1> QED BY <1>2, <1>3, <1>4, <1>5, <1>7, TypeParts DEF Typed

LEMMA TypedStutter == Typed /\ UNCHANGED vars => Typed'
<1> SUFFICES ASSUME Typed, UNCHANGED vars PROVE Typed' OBVIOUS
<1> USE DEF vars, rows, locals, counts, traces
<1>1. TypeOK' BY DEF Typed, TypeOK, Stored, Ids
<1>2. NumbersOK' /\ AheadOK' BY DEF Typed, NumbersOK, AheadOK, Ahead, Stored
<1> QED BY <1>1, <1>2 DEF Typed

LEMMA TypedNext == Typed /\ Next => Typed'
<1> SUFFICES ASSUME Typed, NEW s \in Storers,
                    \/ Step(s) \/ Rollback(s) \/ Killed(s)
                    \/ \E a \in Artifacts : Replay(s, a) \/ Look(s, a)
             PROVE  Typed'
  BY DEF Next
<1>1. CASE Repair(s) BY <1>1, RepairType, QuietNumbers DEF Typed
<1>2. CASE FindCurrent(s) BY <1>2, FindCurrentType, QuietNumbers DEF Typed
<1>3. CASE FindTransition(s) BY <1>3, FindTransitionType, QuietNumbers DEF Typed
<1>4. CASE Put(s) BY <1>4, PutType, PutNumbers DEF Typed
<1>5. CASE Supersede(s) \/ Insert(s) \/ Rollback(s)
  <2>1. failures \in 0 .. MaxFailures /\ failures \in Nat /\ MaxFailures \in Nat
    BY TypeParts, DocumentsAssumption DEF Typed, CountsOK
  <2>2. PICK to \in {"superseded", "inserted", "failed"} :
          /\ phase[s] \in Storing /\ Goes(s, to)
          /\ UNCHANGED <<rows, blobs, art, seen, other, me, stores, created, traces>>
          /\ failures' \in 0 .. MaxFailures
    <3>1. CASE Supersede(s) BY <2>1, <3>1 DEF Supersede, Storing, counts
    <3>2. CASE Insert(s) BY <2>1, <3>2 DEF Insert, Writes, Storing, Locking, counts
    <3>3. CASE Rollback(s) BY <2>1, <3>3 DEF Rollback, Storing
    <3> QED BY <1>5, <3>1, <3>2, <3>3
  <2>3. TypeOK' BY <2>2, GoesType
  <2> QED BY <1>5, <2>3, QuietNumbers DEF Typed
<1>6. CASE Conflict(s) BY <1>6, ConflictType, QuietNumbers DEF Typed
<1>7. CASE Commit(s) BY <1>7, CommitType, CommitNumbers DEF Typed
<1>8. CASE Cleanup(s) BY <1>8, CleanupType, QuietNumbers DEF Typed
<1>9. CASE Killed(s) BY <1>9, KilledType, QuietNumbers DEF Typed
<1>10. ASSUME NEW a \in Artifacts, Replay(s, a) PROVE Typed'
  BY <1>10, ReplayType, QuietNumbers DEF Typed
<1>11. ASSUME NEW a \in Artifacts, Look(s, a) PROVE Typed'
  BY <1>11, LookType, LookNumbers DEF Typed
<1> QED BY <1>1, <1>2, <1>3, <1>4, <1>5, <1>6, <1>7, <1>8, <1>9, <1>10, <1>11 DEF Step

\* Types: rows refer only to rows that are committed, a store that is about to insert has
\* an id of its own, and the ids that are given never run out.
THEOREM TypeCorrect == Spec => []TypeOK
<1>1. Spec => []Typed BY TypedInit, TypedStutter, TypedNext, PTL DEF Spec
<1> QED BY <1>1, PTL DEF Typed
-----------------------------------------------------------------------------
(* Who meets whom *)

Meets(s, t) == phase[s] \in UnderWay /\ phase[t] \in UnderWay /\ SameKey(art[s], art[t])

\* A store meets its own artifact, in the hands of another or as a row, only if both were
\* under way at once; what it found is of the class it stores.
MeetsOK ==
  /\ \A s, t \in Storers : s # t /\ Meets(s, t) => art[s].class \in twice
  /\ \A s \in Storers, d \in Stored :
       phase[s] \in UnderWay /\ SameKey(doc[d], art[s]) => art[s].class \in twice
  /\ \A s \in Storers :
       phase[s] \in UnderWay /\ seen[s] # None => doc[seen[s]].class = art[s].class
  /\ \A s \in Storers : phase[s] = "idle" => seen[s] = None

\* No two rows have a key, and whoever has inserted has it alone.
KeysOK ==
  /\ \A d, e \in Stored : SameKey(doc[d], doc[e]) => d = e
  /\ \A s \in Storers, d \in Stored : phase[s] = "inserted" => ~SameKey(doc[d], art[s])
  /\ \A s, t \in Storers :
       phase[s] = "inserted" /\ phase[t] = "inserted" /\ SameKey(art[s], art[t]) => s = t

\* What all steps but Look, FindCurrent, Insert and Commit keep.
Quiet ==
  /\ doc' = doc /\ prev' = prev /\ compared' = compared /\ reviewed' = reviewed
  /\ twice' = twice /\ shared' = shared
  /\ \A s \in Storers :
       /\ phase'[s] \in UnderWay =>
            phase[s] \in UnderWay /\ art'[s] = art[s] /\ seen'[s] = seen[s]
       /\ phase'[s] \in UnderWay /\ phase'[s] # "looked" => phase[s] # "looked"
       /\ phase'[s] = "inserted" => phase[s] = "inserted"
       /\ phase'[s] = "idle" => seen'[s] = None \/ (phase[s] = "idle" /\ seen'[s] = seen[s])

QuietStep(s) ==
  \/ Repair(s) \/ FindTransition(s) \/ Put(s) \/ Supersede(s) \/ Conflict(s) \/ Cleanup(s)
  \/ Rollback(s) \/ Killed(s) \/ \E a \in Artifacts : Replay(s, a)

LEMMA QuietSteps ==
  ASSUME Typed, NEW s \in Storers, QuietStep(s)
  PROVE  Quiet /\ Stored' = Stored
<1> USE TypeParts, Phases DEF Typed
<1>1. /\ doc' = doc /\ prev' = prev /\ compared' = compared /\ reviewed' = reviewed
      /\ twice' = twice /\ shared' = shared
  <2>1. CASE Conflict(s) BY <2>1 DEF Conflict
  <2>2. CASE Cleanup(s) BY <2>2 DEF Cleanup, rows
  <2>3. CASE ~Conflict(s) /\ ~Cleanup(s)
    BY <2>3 DEF QuietStep, Repair, FindTransition, Put, Supersede, Rollback, Killed, Replay,
                rows, traces
  <2> QED BY <2>1, <2>2, <2>3
<1>2. Stored' = Stored BY <1>1 DEF Stored
<1>3. ASSUME NEW t \in Storers
      PROVE  /\ phase'[t] \in UnderWay =>
                  phase[t] \in UnderWay /\ art'[t] = art[t] /\ seen'[t] = seen[t]
             /\ phase'[t] \in UnderWay /\ phase'[t] # "looked" => phase[t] # "looked"
             /\ phase'[t] = "inserted" => phase[t] = "inserted"
             /\ phase'[t] = "idle" => seen'[t] = None \/ (phase[t] = "idle" /\ seen'[t] = seen[t])
  <2> "inserted" \in UnderWay /\ "idle" # "inserted" BY DEF UnderWay
  <2>1. CASE Repair(s) \/ Conflict(s) \/ Cleanup(s) \/ Killed(s)
    <3>1. Returns(s) BY <2>1 DEF Repair, Conflict, Cleanup, Killed
    <3>2. /\ phase'[s] = "idle" /\ seen'[s] = None
          /\ t # s => phase'[t] = phase[t] /\ art'[t] = art[t] /\ seen'[t] = seen[t]
      BY <3>1 DEF Returns, Goes, LocalOK
    <3>3. "idle" # "looked" OBVIOUS
    <3> QED BY ONLY <3>2, <3>3, Phases, "idle" # "inserted"
  <2>2. CASE FindTransition(s) \/ Put(s) \/ Supersede(s) \/ Rollback(s)
    BY <2>2 DEF FindTransition, Put, Supersede, Rollback, Goes, LocalOK, UnderWay, Locking
  <2>3. CASE \E a \in Artifacts : Replay(s, a)
    BY <2>3 DEF Replay, Goes, LocalOK
  <2> QED BY <2>1, <2>2, <2>3 DEF QuietStep
<1> QED BY <1>1, <1>2, <1>3 DEF Quiet

\* A step is a quiet one, or one of four.
LEMMA Kinds ==
  Next => \E s \in Storers : \/ QuietStep(s) \/ FindCurrent(s) \/ Insert(s) \/ Commit(s)
                             \/ \E a \in Artifacts : Look(s, a)
BY DEF Next, Step, QuietStep

LEMMA QuietMeets ==
  ASSUME Typed, MeetsOK, Quiet, Stored' = Stored
  PROVE  MeetsOK'
BY DEF MeetsOK, Meets, Quiet, SameKey

LEMMA LookMeets ==
  ASSUME Typed, MeetsOK, NEW s \in Storers, NEW a \in Artifacts, Look(s, a)
  PROVE  MeetsOK'
<1> USE TypeParts, Phases DEF Typed, Look
<1>1. Stored' = Stored /\ doc' = doc /\ seen' = seen BY RowsSame DEF rows
<1>2. /\ art'[s] = a /\ phase'[s] = "looked"
      /\ \A t \in Storers : t # s => art'[t] = art[t] /\ phase'[t] = phase[t]
  BY DEF Goes, LocalOK
<1>3. twice \subseteq twice' OBVIOUS
<1>4. \A t \in Storers : t # s /\ phase[t] \in UnderWay /\ SameKey(art[t], a) => a.class \in twice'
  BY DEF Rivals, SameKey
<1>5. (\A t, u \in Storers : t # u /\ Meets(t, u) => art[t].class \in twice)'
  BY <1>2, <1>3, <1>4 DEF MeetsOK, Meets, SameKey
<1>6. (\A t \in Storers, d \in Stored :
         phase[t] \in UnderWay /\ SameKey(doc[d], art[t]) => art[t].class \in twice)'
  BY <1>1, <1>2, <1>3 DEF MeetsOK, SameKey
<1>7. (\A t \in Storers : phase[t] \in UnderWay /\ seen[t] # None
                          => doc[seen[t]].class = art[t].class)'
  BY <1>1, <1>2 DEF MeetsOK
<1>8. (\A t \in Storers : phase[t] = "idle" => seen[t] = None)'
  BY <1>1, <1>2 DEF MeetsOK
<1> QED BY <1>5, <1>6, <1>7, <1>8 DEF MeetsOK

LEMMA FindCurrentMeets ==
  ASSUME Typed, MeetsOK, NEW s \in Storers, FindCurrent(s)
  PROVE  MeetsOK'
<1> USE TypeParts, Phases DEF Typed
<1>1. Stored' = Stored /\ doc' = doc /\ art' = art /\ twice' = twice
  BY RowsSame DEF FindCurrent, rows, traces
<1>2. \A t \in Storers : phase'[t] \in UnderWay => phase[t] \in UnderWay
  BY DEF FindCurrent, Goes, LocalOK, UnderWay
<1>3. /\ seen'[s] = Latest(art[s].class) /\ \A t \in Storers : t # s => seen'[t] = seen[t]
  BY DEF FindCurrent, LocalOK
<1>4. seen'[s] # None => doc[seen'[s]].class = art[s].class
  BY <1>3, LatestFacts DEF Versions
<1>5. (\A t \in Storers : phase[t] \in UnderWay /\ seen[t] # None
                          => doc[seen[t]].class = art[t].class)'
  BY <1>1, <1>2, <1>3, <1>4 DEF MeetsOK
<1>6. (\A t \in Storers : phase[t] = "idle" => seen[t] = None)'
  BY <1>3 DEF MeetsOK, FindCurrent, Goes, LocalOK
<1> QED BY <1>1, <1>2, <1>5, <1>6 DEF MeetsOK, Meets, SameKey

LEMMA InsertMeets ==
  ASSUME Typed, MeetsOK, NEW s \in Storers, Insert(s)
  PROVE  MeetsOK'
<1>1. Stored' = Stored /\ doc' = doc /\ art' = art /\ seen' = seen /\ twice' = twice
  BY RowsSame DEF Insert, rows, traces
<1>2. \A t \in Storers : phase'[t] \in UnderWay => phase[t] \in UnderWay
  BY TypeParts DEF Typed, Insert, Writes, Goes, LocalOK, UnderWay
<1>3. \A t \in Storers : phase'[t] = "idle" => phase[t] = "idle"
  BY TypeParts DEF Typed, Insert, Goes, LocalOK
<1> QED BY <1>1, <1>2, <1>3 DEF MeetsOK, Meets, SameKey

\* A row of its own artifact is new to a store only if it was in the hands of another.
LEMMA CommitMeets ==
  ASSUME Typed, MeetsOK, NEW s \in Storers, Commit(s)
  PROVE  MeetsOK'
<1> USE TypeParts, Phases DEF Typed
<1>1. /\ Stored' = Stored \cup {me[s]} /\ doc'[me[s]] = art[s] /\ me[s] \notin Stored
      /\ \A d \in Stored : doc'[d] = doc[d]
  BY CommitStored
<1>2. twice' = twice /\ phase[s] \in UnderWay BY DEF Commit, traces, UnderWay
<1>3. \A t \in Storers : phase'[t] \in UnderWay =>
           t # s /\ phase[t] \in UnderWay /\ art'[t] = art[t] /\ seen'[t] = seen[t]
  BY DEF Commit, Returns, Goes, LocalOK
<1>4. (\A t, u \in Storers : t # u /\ Meets(t, u) => art[t].class \in twice)'
  BY <1>2, <1>3 DEF MeetsOK, Meets, SameKey
<1>5. (\A t \in Storers, d \in Stored :
         phase[t] \in UnderWay /\ SameKey(doc[d], art[t]) => art[t].class \in twice)'
  <2> SUFFICES ASSUME NEW t \in Storers, NEW d \in Stored', phase'[t] \in UnderWay,
                      SameKey(doc'[d], art'[t])
               PROVE  art[t].class \in twice
    BY <1>2, <1>3 DEF SameKey
  <2>1. CASE d \in Stored BY <2>1, <1>1, <1>3 DEF MeetsOK, SameKey
  <2>2. CASE d = me[s]
    <3>1. t # s /\ Meets(t, s) BY <2>2, <1>1, <1>2, <1>3 DEF Meets, SameKey
    <3> QED BY <3>1 DEF MeetsOK
  <2> QED BY <1>1, <2>1, <2>2
<1>6. (\A t \in Storers : phase[t] \in UnderWay /\ seen[t] # None
                          => doc[seen[t]].class = art[t].class)'
  BY <1>1, <1>3 DEF MeetsOK, LocalOK
<1>7. (\A t \in Storers : phase[t] = "idle" => seen[t] = None)'
  BY DEF MeetsOK, Commit, Returns, Goes, LocalOK
<1> QED BY <1>4, <1>5, <1>6, <1>7 DEF MeetsOK

LEMMA KeysNext ==
  ASSUME Typed, KeysOK, Next
  PROVE  KeysOK'
<1> USE TypeParts, Phases DEF Typed
<1>1. PICK s \in Storers : \/ QuietStep(s) \/ FindCurrent(s) \/ Insert(s) \/ Commit(s)
                           \/ \E a \in Artifacts : Look(s, a)
  BY Kinds
<1>2. CASE QuietStep(s)
  <2>1. Quiet /\ Stored' = Stored BY <1>2, QuietSteps
  <2>2. doc' = doc BY <2>1 DEF Quiet
  <2>3. \A t \in Storers : phase'[t] = "inserted" => phase[t] = "inserted" /\ art'[t] = art[t]
    BY <2>1 DEF Quiet, UnderWay
  <2> QED BY <2>1, <2>2, <2>3 DEF KeysOK, SameKey
<1>3. CASE FindCurrent(s) \/ \E a \in Artifacts : Look(s, a)
  <2>1. Stored' = Stored /\ doc' = doc BY <1>3, RowsSame DEF FindCurrent, Look, rows
  <2>2. \A t \in Storers : phase'[t] = "inserted" => phase[t] = "inserted" /\ art'[t] = art[t]
    BY <1>3 DEF FindCurrent, Look, Goes, LocalOK
  <2> QED BY <2>1, <2>2 DEF KeysOK, SameKey
<1>4. CASE Insert(s)
  <2>1. Stored' = Stored /\ doc' = doc /\ art' = art BY <1>4, RowsSame DEF Insert, rows
  <2>2. \A t \in Storers : phase'[t] = "inserted" => t = s \/ phase[t] = "inserted"
    BY <1>4 DEF Insert, Goes, LocalOK
  <2>3. \A d \in Stored : ~SameKey(doc[d], art[s]) BY <1>4 DEF Insert
  <2>4. \A t \in Storers : t # s /\ phase[t] = "inserted" => ~SameKey(art[t], art[s])
    BY <1>4 DEF Insert, KeyFree
  <2> QED BY <2>1, <2>2, <2>3, <2>4 DEF KeysOK, SameKey
<1>5. CASE Commit(s)
  <2>1. /\ Stored' = Stored \cup {me[s]} /\ doc'[me[s]] = art[s] /\ me[s] \notin Stored
        /\ \A d \in Stored : doc'[d] = doc[d]
    BY <1>5, CommitStored
  <2>2. /\ phase[s] = "inserted"
        /\ \A t \in Storers : phase'[t] = "inserted" =>
              t # s /\ phase[t] = "inserted" /\ art'[t] = art[t]
    BY <1>5 DEF Commit, Returns, Goes, LocalOK
  <2>3. (\A d, e \in Stored : SameKey(doc[d], doc[e]) => d = e)'
    BY <2>1, <2>2 DEF KeysOK, SameKey
  <2>4. (\A t \in Storers, d \in Stored : phase[t] = "inserted" => ~SameKey(doc[d], art[t]))'
    BY <2>1, <2>2 DEF KeysOK, SameKey
  <2>5. (\A t, u \in Storers :
          phase[t] = "inserted" /\ phase[u] = "inserted" /\ SameKey(art[t], art[u]) => t = u)'
    BY <2>2 DEF KeysOK, SameKey
  <2> QED BY <2>3, <2>4, <2>5 DEF KeysOK
<1> QED BY <1>1, <1>2, <1>3, <1>4, <1>5

LEMMA MeetsNext ==
  ASSUME Typed, MeetsOK, Next
  PROVE  MeetsOK'
BY Kinds, QuietSteps, QuietMeets, LookMeets, FindCurrentMeets, InsertMeets, CommitMeets
-----------------------------------------------------------------------------
(* Only newer versions replace *)

LEMMA QuietNewer ==
  ASSUME Typed, OnlyNewerReplace, MeetsOK, NEW s \in Storers, QuietStep(s)
  PROVE  OnlyNewerReplace'
<1> USE TypeParts, Phases DEF Typed
<1>1. Stored' = Stored /\ doc' = doc /\ prev' = prev /\ twice' = twice
  BY QuietSteps DEF Quiet
<1>2. CASE Conflict(s)
  <2>1. current' = current \ {seen[s]} BY <1>2 DEF Conflict
  <2>2. phase[s] \in UnderWay BY <1>2 DEF Conflict, Writes, UnderWay
  <2>3. \E d \in Stored : SameKey(doc[d], art[s]) BY <1>2 DEF Conflict
  <2>4. art[s].class \in twice BY <2>2, <2>3 DEF MeetsOK
  <2>5. seen[s] \in Stored => doc[seen[s]].class \in twice
    BY <2>2, <2>4, StoredFacts DEF MeetsOK
  <2> QED BY <1>1, <2>1, <2>5 DEF OnlyNewerReplace
<1>3. CASE ~Conflict(s)
  <2>1. current' = current
    BY <1>3 DEF QuietStep, Repair, FindTransition, Put, Supersede, Cleanup, Rollback, Killed,
                Replay, rows
  <2> QED BY <1>1, <2>1 DEF OnlyNewerReplace
<1> QED BY <1>2, <1>3

LEMMA CommitNewer ==
  ASSUME Typed, OnlyNewerReplace, NEW s \in Storers, Commit(s)
  PROVE  OnlyNewerReplace'
<1> USE TypeParts, Phases DEF Typed
<1>1. /\ Stored' = Stored \cup {me[s]} /\ doc'[me[s]] = art[s] /\ me[s] \notin Stored
      /\ \A d \in Stored : doc'[d] = doc[d] /\ prev'[d] = prev[d]
      /\ prev'[me[s]] = seen[s] /\ "inserted" \in Storing
  BY CommitStored
<1>2. current' = (current \ {seen[s]}) \cup {me[s]} /\ twice' = twice /\ phase[s] = "inserted"
  BY DEF Commit, traces
<1>3. seen[s] < me[s] BY <1>1, <1>2 DEF NumbersOK
<1> SUFFICES ASSUME NEW d \in Stored' \ current', doc'[d].class \notin twice
             PROVE  \E e \in Stored' : prev'[e] = d /\ d < e
  BY <1>2 DEF OnlyNewerReplace
<1>4. d \in Stored BY <1>1, <1>2
<1>5. CASE d = seen[s] BY <1>1, <1>3, <1>5
<1>6. CASE d # seen[s]
  <2>1. PICK e \in Stored : prev[e] = d /\ d < e
    BY <1>1, <1>2, <1>4, <1>6 DEF OnlyNewerReplace
  <2> QED BY <1>1, <2>1
<1> QED BY <1>5, <1>6

LEMMA NewerNext ==
  ASSUME Typed, OnlyNewerReplace, MeetsOK, Next
  PROVE  OnlyNewerReplace'
<1>1. PICK s \in Storers : \/ QuietStep(s) \/ FindCurrent(s) \/ Insert(s) \/ Commit(s)
                           \/ \E a \in Artifacts : Look(s, a)
  BY Kinds
<1>2. CASE FindCurrent(s) \/ Insert(s) \/ \E a \in Artifacts : Look(s, a)
  <2>1. /\ Stored' = Stored /\ doc' = doc /\ prev' = prev /\ current' = current
        /\ twice \subseteq twice'
    BY <1>2, RowsSame DEF FindCurrent, Insert, Look, rows, traces
  <2> QED BY <2>1 DEF OnlyNewerReplace
<1> QED BY <1>1, <1>2, QuietNewer, CommitNewer

-----------------------------------------------------------------------------
(* Artifacts are kept *)

Held(a) == \/ BlobOf(a) \in blobs \cup cleaned
           \/ \E c \in Classes \ {a.class} : <<BlobOf(a), c>> \in dropped

\* Whoever has written an artifact still has it, or is going to find its row taken.
HeldOK ==
  /\ \A d \in Stored : Held(doc[d])
  /\ \A s \in Storers : phase[s] \in Storing =>
       Held(art[s]) \/ \E d \in Stored : SameKey(doc[d], art[s])

\* Only a store that finds its row taken costs others an artifact, and of its own key.
LEMMA HeldKept ==
  ASSUME Typed, [Next]_vars, NEW a \in Artifacts, Held(a)
  PROVE  \/ Held(a)'
         \/ \E s \in Storers, d \in Stored :
              /\ Conflict(s) /\ SameKey(doc[d], art[s]) /\ SameKey(a, art[s])
              /\ BlobOf(doc[d]) # BlobOf(a)
<1> USE TypeParts, Phases DEF Typed
<1>1. ASSUME blobs \cup cleaned \subseteq blobs' \cup cleaned', dropped \subseteq dropped'
      PROVE  Held(a)'
  BY <1>1 DEF Held, BlobOf
<1>2. CASE UNCHANGED vars BY <1>1, <1>2 DEF vars, traces
<1>3. CASE Next
  <2>1. PICK s \in Storers : \/ Step(s) \/ Rollback(s) \/ Killed(s)
                             \/ \E b \in Artifacts : Replay(s, b) \/ Look(s, b)
    BY <1>3 DEF Next
  <2>2. CASE Conflict(s)
    <3>1. PICK d \in Stored :
            /\ SameKey(doc[d], art[s])
            /\ IF BlobOf(doc[d]) = BlobOf(art[s]) THEN UNCHANGED <<blobs, dropped>>
               ELSE /\ blobs' = blobs \ {BlobOf(art[s])}
                    /\ dropped' = dropped \cup {<<BlobOf(art[s]), art[s].class>>}
      BY <2>2 DEF Conflict
    <3>2. cleaned' = cleaned BY <2>2 DEF Conflict
    <3>3. art[s] \in Artifacts BY <2>2 DEF Conflict, Writes, LocalOK
    <3>4. CASE BlobOf(doc[d]) = BlobOf(art[s]) BY <1>1, <3>1, <3>2, <3>4
    <3>5. CASE BlobOf(doc[d]) # BlobOf(art[s]) /\ BlobOf(a) # BlobOf(art[s])
      <4>1. blobs' = blobs \ {BlobOf(art[s])} /\ dropped \subseteq dropped' BY <3>1, <3>5
      <4>2. BlobOf(a)' = BlobOf(a) BY DEF BlobOf
      <4> QED BY <3>2, <3>5, <4>1, <4>2 DEF Held
    <3>6. CASE BlobOf(doc[d]) # BlobOf(art[s]) /\ BlobOf(a) = BlobOf(art[s])
      <4>1. CASE a.class = art[s].class
        <5>1. a.sha = art[s].sha BY <3>6 DEF BlobOf
        <5> QED BY <2>2, <3>1, <3>6, <4>1, <5>1 DEF SameKey
      <4>2. CASE a.class # art[s].class
        <5>1. art[s].class \in Classes \ {a.class} BY <3>3, <4>2, ArtifactFacts
        <5>2. <<BlobOf(a), art[s].class>> \in dropped' BY <3>1, <3>6
        <5>3. BlobOf(a)' = BlobOf(a) BY DEF BlobOf
        <5> QED BY <5>1, <5>2, <5>3 DEF Held
      <4> QED BY <4>1, <4>2
    <3> QED BY <3>4, <3>5, <3>6
  <2>3. CASE Cleanup(s) BY <1>1, <2>3 DEF Cleanup
  <2>4. CASE ~Conflict(s) /\ ~Cleanup(s)
    <3>1. blobs \subseteq blobs' /\ cleaned' = cleaned /\ dropped' = dropped
      BY <2>1, <2>4 DEF Step, Repair, FindCurrent, FindTransition, Put, Supersede, Insert,
                        Commit, Rollback, Killed, Replay, Look, traces
    <3> QED BY <1>1, <3>1
  <2> QED BY <2>2, <2>3, <2>4
<1> QED BY <1>2, <1>3

\* Rows stay what they are.
LEMMA RowsStay ==
  ASSUME Typed, Next
  PROVE  Stored \subseteq Stored' /\ \A d \in Stored : doc'[d] = doc[d]
<1>1. PICK s \in Storers : \/ QuietStep(s) \/ FindCurrent(s) \/ Insert(s) \/ Commit(s)
                           \/ \E a \in Artifacts : Look(s, a)
  BY Kinds
<1>2. CASE QuietStep(s) BY <1>2, QuietSteps DEF Quiet
<1>3. CASE Commit(s) BY <1>3, CommitStored
<1>4. CASE FindCurrent(s) \/ Insert(s) \/ \E a \in Artifacts : Look(s, a)
  BY <1>4, RowsSame DEF FindCurrent, Insert, Look, rows
<1> QED BY <1>1, <1>2, <1>3, <1>4

\* What a store is about to insert, or has inserted.
LEMMA StoringGoes ==
  ASSUME Typed, Next, NEW t \in Storers, phase'[t] \in Storing
  PROVE  \/ phase[t] \in Storing /\ art'[t] = art[t]
         \/ Put(t) /\ art'[t] = art[t]
<1> USE TypeParts, Phases DEF Typed
<1>1. PICK s \in Storers : \/ Step(s) \/ Rollback(s) \/ Killed(s)
                           \/ \E b \in Artifacts : Replay(s, b) \/ Look(s, b)
  BY DEF Next
<1>2. CASE Put(s) BY <1>2 DEF Put, Goes, LocalOK
<1>3. CASE Repair(s) \/ Conflict(s) \/ Commit(s) \/ Cleanup(s) \/ Killed(s)
  <2>1. Returns(s) BY <1>3 DEF Repair, Conflict, Commit, Cleanup, Killed
  <2> QED BY <2>1 DEF Returns, Goes, LocalOK
<1>4. CASE FindCurrent(s) \/ FindTransition(s)
  BY <1>4 DEF FindCurrent, FindTransition, Goes, LocalOK, Storing, Locking
<1>5. CASE Supersede(s) \/ Insert(s) \/ Rollback(s)
  BY <1>5 DEF Supersede, Insert, Writes, Rollback, Goes, LocalOK, Storing, Locking
<1>6. CASE \E b \in Artifacts : Replay(s, b) \/ Look(s, b)
  BY <1>6 DEF Replay, Look, Goes, LocalOK, Storing, Locking
<1> QED BY <1>1, <1>2, <1>3, <1>4, <1>5, <1>6 DEF Step

LEMMA HeldNext ==
  ASSUME Typed, KeysOK, HeldOK, Next
  PROVE  HeldOK'
<1> USE TypeParts, Phases DEF Typed
<1>1. \A a \in Artifacts : Held(a) =>
         \/ Held(a)'
         \/ \E s \in Storers, d \in Stored :
              /\ Conflict(s) /\ SameKey(doc[d], art[s]) /\ SameKey(a, art[s])
              /\ BlobOf(doc[d]) # BlobOf(a)
  BY HeldKept
<1>2. Stored \subseteq Stored' /\ \A d \in Stored : doc'[d] = doc[d] BY RowsStay
<1>3. \A d \in Stored : doc[d] \in Artifacts BY DEF Stored, RowsOK
<1>4. ASSUME NEW d \in Stored PROVE Held(doc[d])'
  <2>1. ASSUME NEW s \in Storers, NEW e \in Stored, Conflict(s), SameKey(doc[e], art[s]),
               SameKey(doc[d], art[s]), BlobOf(doc[e]) # BlobOf(doc[d])
        PROVE  FALSE
    <3>1. SameKey(doc[d], doc[e]) BY <2>1 DEF SameKey
    <3>2. d = e BY <3>1 DEF KeysOK
    <3> QED BY <3>2, <2>1
  <2>2. Held(doc[d]) BY DEF HeldOK
  <2>3. \A a \in Artifacts : a = doc[d] => Held(a)' BY <1>1, <1>3, <2>1, <2>2
  <2>4. doc'[d] = doc[d] /\ doc[d] \in Artifacts BY <1>2, <1>3
  <2> QED BY <2>3, <2>4 DEF Held, BlobOf
<1>5. ASSUME NEW d \in Stored' \ Stored PROVE Held(doc[d])'
  <2>1. PICK s \in Storers : Commit(s) /\ d = me[s] /\ doc'[d] = art[s]
    <3>1. PICK s \in Storers : \/ QuietStep(s) \/ FindCurrent(s) \/ Insert(s) \/ Commit(s)
                               \/ \E a \in Artifacts : Look(s, a)
      BY Kinds
    <3>2. CASE Commit(s) BY <3>2, CommitStored
    <3>3. CASE ~Commit(s)
      BY <3>1, <3>3, QuietSteps, RowsSame DEF FindCurrent, Insert, Look, rows
    <3> QED BY <3>2, <3>3
  <2>2. phase[s] = "inserted" /\ "inserted" \in Storing BY <2>1, CommitStored DEF Commit
  <2>3. Held(art[s]) BY <2>2 DEF HeldOK, KeysOK
  <2>4. blobs' = blobs /\ cleaned' = cleaned /\ dropped' = dropped BY <2>1 DEF Commit, traces
  <2> QED BY <2>1, <2>3, <2>4 DEF Held, BlobOf
<1>6. ASSUME NEW t \in Storers, phase'[t] \in Storing
      PROVE  Held(art[t])' \/ \E d \in Stored' : SameKey(doc'[d], art'[t])
  <2>1. CASE Put(t) BY <2>1 DEF Put, Held, BlobOf
  <2>2. CASE phase[t] \in Storing /\ art'[t] = art[t]
    <3>1. art[t] \in Artifacts BY <2>2 DEF LocalOK
    <3>2. CASE \E d \in Stored : SameKey(doc[d], art[t])
      BY <1>2, <2>2, <3>2 DEF SameKey
    <3>3. CASE Held(art[t])
      <4>1. \A a \in Artifacts : a = art[t] =>
              Held(a)' \/ \E d \in Stored : SameKey(doc[d], art[t])
        BY <1>1, <3>3 DEF SameKey
      <4>2. CASE \E d \in Stored : SameKey(doc[d], art[t]) BY <4>2, <3>2
      <4>3. CASE \A a \in Artifacts : a = art[t] => Held(a)'
        BY <2>2, <3>1, <4>3 DEF Held, BlobOf
      <4> QED BY <4>1, <4>2, <4>3
    <3> QED BY <2>2, <3>2, <3>3 DEF HeldOK
  <2> QED BY <1>6, <2>1, <2>2, StoringGoes
<1> QED BY <1>4, <1>5, <1>6 DEF HeldOK
-----------------------------------------------------------------------------
(* Versions that come one after the other *)

Newest(d, c) == d \in Versions(c) /\ \A e \in Versions(c) : e <= d
Follows(e, d) == d < e /\ ~ \E f \in Versions(doc[d].class) : d < f /\ f < e

\* In such a class one store is under way, and what it has found is the newest version,
\* the one that is current.
ChainOK ==
  \A c \in Classes \ shared :
    /\ \A s, t \in Storers :
         /\ phase[s] \in UnderWay /\ phase[t] \in UnderWay
         /\ art[s].class = c /\ art[t].class = c
         => s = t
    /\ \A d, e \in Versions(c) : d < e => d \notin current
    /\ \A d \in Versions(c) : Newest(d, c) => d \in current
    /\ \A s \in Storers :
         phase[s] \in UnderWay \ {"looked"} /\ art[s].class = c =>
           Newest(seen[s], c) \/ (seen[s] = None /\ Versions(c) = {})
    /\ \A d, e \in Versions(c) :
         Follows(e, d) => prev[e] = d /\ compared[e] = d /\ e \in reviewed

\* There is a newest version if there is any, and it is the one that is found.
LEMMA FindsNewest ==
  ASSUME Typed, ChainOK, NEW c \in Classes \ shared
  PROVE  Newest(Latest(c), c) \/ (Latest(c) = None /\ Versions(c) = {})
<1>1. CASE Versions(c) = {} BY <1>1, LatestFacts
<1>2. CASE Versions(c) # {}
  <2>1. Versions(c) \subseteq Ids BY DEF Versions, Stored
  <2>2. PICK d \in Versions(c) : \A e \in Versions(c) : e <= d BY <1>2, <2>1, Greatest
  <2>3. d \in current BY <2>2 DEF ChainOK, Newest
  <2>4. Latest(c) \in Versions(c) \cap current /\ d <= Latest(c) BY <2>3, LatestFacts
  <2>5. Latest(c) \in Nat /\ \A e \in Versions(c) : e \in Nat BY <2>1, <2>4, StoredFacts
  <2>6. \A e \in Versions(c) : e <= Latest(c) BY <2>2, <2>4, <2>5
  <2> QED BY <2>4, <2>6 DEF Newest
<1> QED BY <1>1, <1>2

LEMMA VersionsSame ==
  ASSUME UNCHANGED doc
  PROVE  \A c : /\ Versions(c)' = Versions(c)
                /\ \A d : Newest(d, c)' = Newest(d, c)
                /\ \A d, e : Follows(e, d)' = Follows(e, d)
BY DEF Versions, Stored, Newest, Follows

LEMMA QuietChain ==
  ASSUME Typed, MeetsOK, ChainOK, NEW s \in Storers, QuietStep(s)
  PROVE  ChainOK'
<1> USE TypeParts, Phases DEF Typed
<1>1. Quiet BY QuietSteps
<1>2. /\ doc' = doc /\ prev' = prev /\ compared' = compared /\ reviewed' = reviewed
      /\ shared' = shared
  BY <1>1 DEF Quiet
<1>3. \A c \in Classes \ shared : \A d \in Versions(c) : d \in current' <=> d \in current
  <2>1. CASE Conflict(s)
    <3>1. phase[s] \in UnderWay /\ \E d \in Stored : SameKey(doc[d], art[s])
      BY <2>1 DEF Conflict, Writes, UnderWay
    <3>2. art[s].class \in shared BY <3>1 DEF MeetsOK, TracesOK
    <3>3. \A c \in Classes \ shared : seen[s] \notin Versions(c)
      BY <3>1, <3>2, StoredFacts DEF MeetsOK, Versions
    <3> QED BY <2>1, <3>3 DEF Conflict
  <2>2. CASE ~Conflict(s)
    BY <2>2 DEF QuietStep, Repair, FindTransition, Put, Supersede, Cleanup, Rollback, Killed,
                Replay, rows
  <2> QED BY <2>1, <2>2
<1> SUFFICES ASSUME NEW c \in Classes \ shared
             PROVE  /\ \A t, u \in Storers :
                         /\ phase'[t] \in UnderWay /\ phase'[u] \in UnderWay
                         /\ art'[t].class = c /\ art'[u].class = c
                         => t = u
                    /\ \A d, e \in Versions(c) : d < e => d \notin current'
                    /\ \A d \in Versions(c) : Newest(d, c) => d \in current'
                    /\ \A t \in Storers :
                         phase'[t] \in UnderWay \ {"looked"} /\ art'[t].class = c =>
                           Newest(seen'[t], c) \/ (seen'[t] = None /\ Versions(c) = {})
                    /\ \A d, e \in Versions(c) :
                         Follows(e, d) => prev[e] = d /\ compared[e] = d /\ e \in reviewed
  BY <1>2, VersionsSame DEF ChainOK, Classes, Newest, Follows, Versions, Stored
<1> QED BY <1>1, <1>3 DEF ChainOK, Quiet
LEMMA LookChain ==
  ASSUME Typed, ChainOK, NEW s \in Storers, NEW a \in Artifacts, Look(s, a)
  PROVE  ChainOK'
<1>1. UNCHANGED rows /\ seen' = seen BY DEF Look
<1>2. /\ doc' = doc /\ prev' = prev /\ compared' = compared /\ reviewed' = reviewed
      /\ current' = current
  BY <1>1 DEF rows
<1>3. /\ shared \subseteq shared' /\ (Rivals(s, a) # {} => a.class \in shared')
      /\ phase'[s] = "looked" /\ art'[s] = a
      /\ \A t \in Storers : t # s => phase'[t] = phase[t] /\ art'[t] = art[t]
  BY TypeParts DEF Typed, Look, Goes, LocalOK
<1>4. Classes' = Classes /\ Classes \ shared' \subseteq Classes \ shared
  BY <1>3 DEF Classes
<1> SUFFICES ASSUME NEW c \in Classes \ shared'
             PROVE  /\ \A t, u \in Storers :
                         /\ phase'[t] \in UnderWay /\ phase'[u] \in UnderWay
                         /\ art'[t].class = c /\ art'[u].class = c
                         => t = u
                    /\ \A t \in Storers :
                         phase'[t] \in UnderWay \ {"looked"} /\ art'[t].class = c =>
                           Newest(seen'[t], c) \/ (seen'[t] = None /\ Versions(c) = {})
  BY <1>2, <1>4, VersionsSame DEF ChainOK
<1>5. ASSUME NEW t \in Storers, t # s, phase'[t] \in UnderWay, art'[t].class = c, a.class = c
      PROVE  FALSE
  <2>1. t \in Rivals(s, a) BY <1>3, <1>5 DEF Rivals
  <2> QED BY <1>5, <2>1, <1>3
<1>6. c \in Classes \ shared BY <1>4
<1> QED BY <1>1, <1>3, <1>5, <1>6 DEF ChainOK

LEMMA FindCurrentChain ==
  ASSUME Typed, ChainOK, NEW s \in Storers, FindCurrent(s)
  PROVE  ChainOK'
<1> USE TypeParts, Phases DEF Typed
<1>1. UNCHANGED rows /\ UNCHANGED traces /\ art' = art BY DEF FindCurrent
<1>2. /\ doc' = doc /\ prev' = prev /\ compared' = compared /\ reviewed' = reviewed
      /\ current' = current /\ shared' = shared
  BY <1>1 DEF rows, traces
<1>3. /\ phase[s] \in UnderWay /\ seen'[s] = Latest(art[s].class)
      /\ \A t \in Storers : t # s => phase'[t] = phase[t] /\ seen'[t] = seen[t]
  BY DEF FindCurrent, Goes, LocalOK, UnderWay
<1> SUFFICES ASSUME NEW c \in Classes \ shared
             PROVE  /\ \A t, u \in Storers :
                         /\ phase'[t] \in UnderWay /\ phase'[u] \in UnderWay
                         /\ art[t].class = c /\ art[u].class = c
                         => t = u
                    /\ \A t \in Storers :
                         phase'[t] \in UnderWay \ {"looked"} /\ art[t].class = c =>
                           Newest(seen'[t], c) \/ (seen'[t] = None /\ Versions(c) = {})
  BY <1>1, <1>2, VersionsSame DEF ChainOK, Classes, Newest, Follows, Versions, Stored
<1>4. \A t \in Storers : phase'[t] \in UnderWay => phase[t] \in UnderWay BY <1>3
<1>5. art[s].class = c => Newest(seen'[s], c) \/ (seen'[s] = None /\ Versions(c) = {})
  BY <1>3, FindsNewest
<1> QED BY <1>3, <1>4, <1>5 DEF ChainOK

LEMMA InsertChain ==
  ASSUME Typed, ChainOK, NEW s \in Storers, Insert(s)
  PROVE  ChainOK'
<1> USE TypeParts, Phases DEF Typed
<1>1. UNCHANGED rows /\ UNCHANGED traces /\ art' = art /\ seen' = seen BY DEF Insert
<1>2. /\ doc' = doc /\ prev' = prev /\ compared' = compared /\ reviewed' = reviewed
      /\ current' = current /\ shared' = shared
  BY <1>1 DEF rows, traces
<1>3. \A t \in Storers :
        /\ phase'[t] \in UnderWay => phase[t] \in UnderWay
        /\ phase'[t] \in UnderWay \ {"looked"} => phase[t] \in UnderWay \ {"looked"}
  BY DEF Insert, Writes, Goes, LocalOK, UnderWay
<1> QED BY <1>1, <1>2, <1>3, VersionsSame
        DEF ChainOK, Classes, Newest, Follows, Versions, Stored

\* What a commit makes of the versions of its class, if nobody else is under way in it.
LEMMA CommitChain ==
  ASSUME Typed, MeetsOK, KeysOK, ChainOK, NEW s \in Storers, Commit(s)
  PROVE  ChainOK'
<1> USE TypeParts, Phases DEF Typed
<1> DEFINE n == me[s]
           k == art[s].class
<1>1. /\ Stored' = Stored \cup {n} /\ doc'[n] = art[s] /\ n \in Ids \ Stored
      /\ art[s] \in Artifacts /\ "inserted" \in Storing
      /\ \A d \in Stored : doc'[d] = doc[d] /\ prev'[d] = prev[d] /\ compared'[d] = compared[d]
      /\ prev'[n] = seen[s] /\ compared'[n] = Target(s)
  BY CommitStored
<1>2. /\ phase[s] = "inserted" /\ current' = (current \ {seen[s]}) \cup {n}
      /\ reviewed' = IF Target(s) # None /\ Changed(s) THEN reviewed \cup {n} ELSE reviewed
      /\ shared' = shared
  BY DEF Commit, traces
<1>3. \A t \in Storers : phase'[t] \in UnderWay =>
           t # s /\ phase'[t] = phase[t] /\ art'[t] = art[t] /\ seen'[t] = seen[t]
  BY DEF Commit, Returns, Goes, LocalOK
<1>4. phase[s] \in UnderWay \ {"looked"} BY <1>2 DEF UnderWay
<1>5. seen[s] # None => doc[seen[s]].class = k BY <1>4 DEF MeetsOK
<1>6. \A d \in Stored : d \in Nat /\ n \in Nat BY <1>1, StoredFacts
<1>7. \A c : Versions(c)' = IF c = k THEN Versions(c) \cup {n} ELSE Versions(c)
  BY <1>1 DEF Versions
<1>8. \A c : Versions(c) \subseteq Stored BY DEF Versions
<1>9. seen[s] \in Stored \cup {None} BY DEF LocalOK
<1> HIDE DEF n, k
<1>10. ASSUME NEW c \in Classes \ shared, c # k
       PROVE  /\ Versions(c)' = Versions(c)
              /\ \A d \in Versions(c) : (d \in current' <=> d \in current)
                   /\ prev'[d] = prev[d] /\ compared'[d] = compared[d]
                   /\ (d \in reviewed' <=> d \in reviewed) /\ doc'[d] = doc[d]
  <2>1. Versions(c)' = Versions(c) BY <1>7, <1>10
  <2>2. n \notin Versions(c) BY <1>1, <1>8
  <2>3. seen[s] \notin Versions(c) BY <1>5, <1>10, <1>9, StoredFacts DEF Versions
  <2> QED BY <1>1, <1>2, <1>8, <2>1, <2>2, <2>3
<1>11. ASSUME k \notin shared
       PROVE  /\ \A d \in Versions(k) : d <= seen[s]
              /\ Versions(k) = {} \/ seen[s] \in Versions(k)
              /\ \A d \in Versions(k) : d < n
  <2>1. k \in Classes BY <1>1, ArtifactFacts DEF k
  <2>2. Newest(seen[s], k) \/ (seen[s] = None /\ Versions(k) = {})
    BY <1>4, <1>11, <2>1 DEF ChainOK, k
  <2>3. seen[s] < n BY <1>1, <1>2 DEF NumbersOK, n
  <2>4. \A d \in Versions(k) : d <= seen[s] BY <2>2 DEF Newest
  <2>5. \A d \in Versions(k) : d < n
    <3> TAKE d \in Versions(k)
    <3>1. d \in Nat /\ n \in Nat /\ seen[s] \in Nat
      BY <1>1, <1>6, <1>8, <2>2, StoredFacts DEF Newest
    <3> QED BY <2>3, <2>4, <3>1
  <2> QED BY <2>2, <2>4, <2>5 DEF Newest
<1> SUFFICES ASSUME NEW c \in Classes \ shared
             PROVE  /\ \A t, u \in Storers :
                         /\ phase'[t] \in UnderWay /\ phase'[u] \in UnderWay
                         /\ art'[t].class = c /\ art'[u].class = c
                         => t = u
                    /\ \A d, e \in Versions(c)' : d < e => d \notin current'
                    /\ \A d \in Versions(c)' : Newest(d, c)' => d \in current'
                    /\ \A t \in Storers :
                         phase'[t] \in UnderWay \ {"looked"} /\ art'[t].class = c =>
                           Newest(seen[t], c)' \/ (seen'[t] = None /\ Versions(c)' = {})
                    /\ \A d, e \in Versions(c)' :
                         Follows(e, d)' => prev'[e] = d /\ compared'[e] = d /\ e \in reviewed'
  BY <1>2 DEF ChainOK, Classes
<1>12. \A t, u \in Storers :
         /\ phase'[t] \in UnderWay /\ phase'[u] \in UnderWay
         /\ art'[t].class = c /\ art'[u].class = c
         => t = u
  BY <1>3 DEF ChainOK
<1>13. CASE c # k
  <2>1. /\ Versions(c)' = Versions(c)
        /\ \A d \in Versions(c) : (d \in current' <=> d \in current)
             /\ prev'[d] = prev[d] /\ compared'[d] = compared[d]
             /\ (d \in reviewed' <=> d \in reviewed) /\ doc'[d] = doc[d]
    BY <1>10, <1>13
  <2>2. \A d : Newest(d, c)' <=> d \in Versions(c)' /\ \A e \in Versions(c)' : e <= d
    BY DEF Newest
  <2>3. \A d \in Versions(c) : doc[d].class = c BY DEF Versions
  <2>4. \A d, e \in Versions(c) : Follows(e, d)' <=> Follows(e, d)
    BY <2>1, <2>3 DEF Follows
  <2>5. \A t \in Storers : phase'[t] \in UnderWay \ {"looked"} /\ art'[t].class = c =>
           Newest(seen[t], c)' \/ (seen'[t] = None /\ Versions(c)' = {})
    BY <1>3, <2>1, <2>2 DEF ChainOK, Newest
  <2> QED BY <1>12, <2>1, <2>2, <2>4, <2>5 DEF ChainOK, Newest
<1>14. CASE c = k
  <2>1. Versions(c)' = Versions(c) \cup {n} BY <1>7, <1>14
  <2>2. /\ \A d \in Versions(c) : d <= seen[s] /\ d < n
        /\ Versions(c) = {} \/ seen[s] \in Versions(c)
    BY <1>11, <1>14
  <2>3. \A d \in Versions(c) : d \in Nat /\ d \in Stored BY <1>6, <1>8
  <2>4. n \in Nat /\ n # None /\ n \notin Stored BY <1>1, StoredFacts DEF Ids, None
  <2>5. \A d, e \in Versions(c)' : d < e => d \in Versions(c) /\ d \notin current'
    <3> SUFFICES ASSUME NEW d \in Versions(c)', NEW e \in Versions(c)', d < e
                 PROVE  d \in Versions(c) /\ d \notin current'
      OBVIOUS
    <3>1. d # n BY <2>1, <2>2, <2>3, <2>4
    <3>2. d \in Versions(c) BY <2>1, <3>1
    <3>3. CASE d = seen[s] BY <1>2, <3>1, <3>2, <3>3
    <3>4. CASE d # seen[s]
      <4>1. seen[s] \in Versions(c) /\ d <= seen[s] BY <2>2, <3>2
      <4>2. d < seen[s] BY <2>3, <3>2, <3>4, <4>1
      <4>3. d \notin current BY <3>2, <4>1, <4>2 DEF ChainOK
      <4> QED BY <1>2, <3>1, <3>2, <4>3
    <3> QED BY <3>3, <3>4
  <2>6. \A d \in Versions(c)' : Newest(d, c)' => d \in current'
    <3> SUFFICES ASSUME NEW d \in Versions(c)', Newest(d, c)' PROVE d \in current'
      OBVIOUS
    <3>1. n <= d BY <2>1 DEF Newest
    <3>2. d = n BY <2>1, <2>2, <2>3, <2>4, <3>1
    <3> QED BY <1>2, <3>2
  <2>7. \A t \in Storers : ~(phase'[t] \in UnderWay /\ art'[t].class = c)
    BY <1>3, <1>4, <1>14 DEF ChainOK, k
  <2>8. \A d, e \in Versions(c)' :
          Follows(e, d)' => prev'[e] = d /\ compared'[e] = d /\ e \in reviewed'
    <3> SUFFICES ASSUME NEW d \in Versions(c)', NEW e \in Versions(c)', Follows(e, d)'
                 PROVE  prev'[e] = d /\ compared'[e] = d /\ e \in reviewed'
      OBVIOUS
    <3>1. d \in Versions(c) /\ doc'[d] = doc[d] /\ doc[d].class = c
      BY <1>1, <2>3, <2>5 DEF Follows, Versions
    <3>2. d < e /\ ~ \E f \in Versions(c)' : d < f /\ f < e
      BY <3>1 DEF Follows
    <3>3. CASE e = n
      <4>1. seen[s] \in Versions(c) /\ d <= seen[s] /\ seen[s] < n BY <2>2, <3>1
      <4>2. d = seen[s] BY <2>1, <2>3, <3>1, <3>2, <3>3, <4>1
      <4>3. seen[s] # None BY <2>3, <4>1, StoredFacts
      <4>4. Target(s) = seen[s] BY <4>3 DEF Target
      <4>5. doc[seen[s]].sha # art[s].sha
        BY <1>2, <1>5, <2>3, <4>1, <4>3 DEF KeysOK, SameKey, k
      <4>6. Changed(s) BY <4>4, <4>5 DEF Changed
      <4> QED BY <1>1, <1>2, <3>3, <4>2, <4>3, <4>4, <4>6
    <3>4. CASE e # n
      <4>1. e \in Versions(c) BY <2>1, <3>4
      <4>2. Follows(e, d) BY <2>1, <3>1, <3>2 DEF Follows
      <4>3. prev[e] = d /\ compared[e] = d /\ e \in reviewed BY <3>1, <4>1, <4>2 DEF ChainOK
      <4> QED BY <1>1, <1>2, <2>3, <4>1, <4>3
    <3> QED BY <3>3, <3>4
  <2> QED BY <1>12, <2>5, <2>6, <2>7, <2>8
<1> QED BY <1>13, <1>14

-----------------------------------------------------------------------------
(* The theorems *)

DocInv == Typed /\ MeetsOK /\ KeysOK /\ OnlyNewerReplace /\ HeldOK /\ ChainOK

LEMMA DocInit == Init => DocInv
<1> SUFFICES ASSUME Init PROVE DocInv OBVIOUS
<1>1. Typed BY TypedInit
<1>2. Stored = {} /\ \A c : Versions(c) = {} BY DEF Init, Stored, Versions
<1>3. \A s \in Storers : phase[s] = "idle" /\ seen[s] = None BY DEF Init
<1>4. "idle" # "inserted" /\ "idle" \notin Storing BY DEF Storing, Locking
<1>5. MeetsOK BY <1>2, <1>3, Phases DEF MeetsOK, Meets
<1>6. KeysOK BY <1>2, <1>3, <1>4 DEF KeysOK
<1>7. OnlyNewerReplace BY <1>2 DEF OnlyNewerReplace
<1>8. HeldOK BY <1>2, <1>3, <1>4 DEF HeldOK
<1>9. ChainOK BY <1>2, <1>3, Phases DEF ChainOK
<1> QED BY <1>1, <1>5, <1>6, <1>7, <1>8, <1>9 DEF DocInv

LEMMA DocStutter == DocInv /\ UNCHANGED vars => DocInv'
<1> SUFFICES ASSUME DocInv, UNCHANGED vars PROVE DocInv' OBVIOUS
<1> USE DEF DocInv
<1>1. Typed' BY TypedStutter
<1> USE DEF vars, rows, locals, counts, traces
<1>2. MeetsOK' /\ KeysOK' BY DEF MeetsOK, KeysOK, Meets, SameKey, Stored
<1>3. OnlyNewerReplace' /\ HeldOK'
  BY DEF OnlyNewerReplace, HeldOK, Held, BlobOf, SameKey, Stored, Classes
<1>4. ChainOK'
  BY VersionsSame DEF ChainOK, Classes
<1> QED BY <1>1, <1>2, <1>3, <1>4

LEMMA DocNext == DocInv /\ Next => DocInv'
<1> SUFFICES ASSUME DocInv, Next PROVE DocInv' OBVIOUS
<1> USE DEF DocInv
<1>1. Typed' BY TypedNext
<1>2. MeetsOK' /\ KeysOK' BY MeetsNext, KeysNext
<1>3. OnlyNewerReplace' /\ HeldOK' BY NewerNext, HeldNext
<1>4. ChainOK'
  BY Kinds, QuietChain, LookChain, FindCurrentChain, InsertChain, CommitChain
<1> QED BY <1>1, <1>2, <1>3, <1>4

LEMMA DocAlways == Spec => []DocInv
BY DocInit, DocStutter, DocNext, PTL DEF Spec

\* A version stops being current only because of a newer one, unless an artifact was stored
\* twice at once: what a store supersedes it has seen before it got its own id, and it
\* takes back a version it has superseded only if its own row was there already.
THEOREM NewestStays == Spec => []OnlyNewerReplace
BY DocAlways, PTL DEF DocInv

\* Where stores came one after the other each version supersedes, is compared with and is
\* reviewed against the one before: what a store found is still the newest when it commits.
THEOREM ChainOfVersions == Spec => []VersionsChain
<1>1. DocInv => VersionsChain
  <2> SUFFICES ASSUME DocInv, NEW d \in Stored, NEW e \in Stored,
                      doc[d].class = doc[e].class, doc[d].class \notin shared, d < e,
                      ~ \E f \in Versions(doc[d].class) : d < f /\ f < e
               PROVE  d \notin current /\ prev[e] = d /\ compared[e] = d /\ e \in reviewed
    BY DEF VersionsChain
  <2>1. doc[d] \in Artifacts BY TypeParts DEF DocInv, Typed, RowsOK, Stored
  <2>2. doc[d].class \in Classes \ shared BY <2>1, ArtifactFacts
  <2>3. d \in Versions(doc[d].class) /\ e \in Versions(doc[d].class) BY DEF Versions
  <2>4. Follows(e, d) BY DEF Follows
  <2> QED BY <2>2, <2>3, <2>4 DEF DocInv, ChainOK
<1> QED BY <1>1, DocAlways, PTL

\* A document's artifact goes only by the cleanup of a store that failed, or by a store of
\* another class: a store that finds its row taken removes what it wrote unless the row
\* refers to it, and no two rows have a key.
THEOREM ArtifactsStay == Spec => []ArtifactKept
<1>1. DocInv => ArtifactKept
  <2> SUFFICES ASSUME DocInv, NEW d \in Stored
               PROVE  \/ BlobOf(doc[d]) \in blobs \cup cleaned
                      \/ \E c \in Classes \ {doc[d].class} : <<BlobOf(doc[d]), c>> \in dropped
    BY DEF ArtifactKept
  <2>1. Held(doc[d]) BY DEF DocInv, HeldOK
  <2> QED BY <2>1 DEF Held
<1> QED BY <1>1, DocAlways, PTL
=============================================================================
