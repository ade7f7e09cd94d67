-------------------------- MODULE DocumentVersions --------------------------
(* The versions of a project's documents (document_persistence.py, document_diffs.py):
   the rows that say which version of a class (type and phase) is current, the diffs and
   reviews of what changed, and the artifacts in the object store.

   A store is one transaction at READ COMMITTED that takes no locks but those of its own
   writes, and it writes to the object store, which no transaction covers, on the way.
   Workers and the API store documents at the same time, and retry. *)
EXTENDS Naturals, FiniteSets, FiniteSetsExt

CONSTANTS
  Artifacts,    \* what is presented: records of bytes (sha), file name and class
  NoArtifact,
  Sibling,      \* class -> the other phase of a TOR, NoClass for the rest
  NoClass,
  Storers,      \* threads of the API and of workers
  MaxStores,    \* bound on the stores that find no such document
  MaxFailures   \* bound on errors and deaths

Classes == {a.class : a \in Artifacts}

ASSUME DocumentsAssumption ==
  /\ Artifacts \subseteq [sha : {a.sha : a \in Artifacts}, name : {a.name : a \in Artifacts},
                          class : Classes]
  /\ NoArtifact \notin Artifacts /\ NoClass \notin Classes
  /\ Sibling \in [Classes -> Classes \cup {NoClass}]
  /\ MaxStores \in Nat /\ MaxFailures \in Nat

None == 0
Ids  == 1 .. MaxStores         \* of documents, in the order of created_at

VARIABLES
  doc,         \* id -> the artifact of a committed row
  current,     \* is_current
  prev,        \* supersedes_document_id
  compared,    \* id -> the document it has a diff with
  reviewed,    \* those whose diff has a review
  blobs,       \* what the object store holds
  phase,
  art,         \* the artifact a storer has in hand
  seen,        \* the row it found, to return or to supersede
  other,       \* the current document of the other phase
  me,          \* the id it gave its own row
  stores,
  created,     \* ids given so far
  failures,
  shared,      \* classes in which two stores were under way at once
  twice,       \* classes in which the same artifact was stored twice at once
  cleaned,     \* artifacts removed by the cleanup of a failed store
  dropped      \* artifacts removed by a store that found its row taken, with the class

rows   == <<doc, current, prev, compared, reviewed>>
locals == <<phase, art, seen, other, me>>
counts == <<stores, created, failures>>
traces == <<shared, twice, cleaned, dropped>>
vars   == <<rows, blobs, locals, counts, traces>>

Init ==
  /\ doc = [d \in Ids |-> NoArtifact] /\ current = {}
  /\ prev = [d \in Ids |-> None] /\ compared = [d \in Ids |-> None] /\ reviewed = {}
  /\ blobs = {}
  /\ phase = [s \in Storers |-> "idle"] /\ art = [s \in Storers |-> NoArtifact]
  /\ seen = [s \in Storers |-> None] /\ other = [s \in Storers |-> None]
  /\ me = [s \in Storers |-> None]
  /\ stores = 0 /\ created = 0 /\ failures = 0
  /\ shared = {} /\ twice = {} /\ cleaned = {} /\ dropped = {}

-----------------------------------------------------------------------------

Stored == {d \in Ids : doc[d] # NoArtifact}

BlobOf(a)   == <<a.sha, a.name>>                     \* blob_key
SameKey(a, b) == a.sha = b.sha /\ a.class = b.class  \* the unique constraint
Versions(c) == {d \in Stored : doc[d].class = c}

\* _find_current_same_class
Latest(c) == LET found == Versions(c) \cap current
             IN  IF found = {} THEN None ELSE Max(found)

UnderWay == {"looked", "unmatched", "matched", "put", "superseded", "inserted"}
Locking  == {"superseded", "inserted"}

Rivals(s, a) == {t \in Storers \ {s} : phase[t] \in UnderWay /\ art[t].class = a.class}

Goes(s, to) == phase' = [phase EXCEPT ![s] = to]

Returns(s) ==
  /\ Goes(s, "idle")
  /\ art' = [art EXCEPT ![s] = NoArtifact] /\ seen' = [seen EXCEPT ![s] = None]
  /\ other' = [other EXCEPT ![s] = None] /\ me' = [me EXCEPT ![s] = None]

-----------------------------------------------------------------------------
(* store_document *)

\* _find_existing_document finds one: a replay.
Replay(s, a) ==
  /\ phase[s] = "idle"
  /\ \E d \in Stored : SameKey(doc[d], a) /\ seen' = [seen EXCEPT ![s] = d]
  /\ Goes(s, "replayed") /\ art' = [art EXCEPT ![s] = a]
  /\ UNCHANGED <<rows, blobs, other, me, counts, traces>>

\* Its artifact is written again if it is missing.
Repair(s) ==
  /\ phase[s] = "replayed"
  /\ blobs' = blobs \cup {BlobOf(doc[seen[s]])}
  /\ Returns(s)
  /\ UNCHANGED <<rows, counts, traces>>

\* _find_existing_document finds none.
Look(s, a) ==
  /\ phase[s] = "idle" /\ stores < MaxStores
  /\ ~ \E d \in Stored : SameKey(doc[d], a)
  /\ stores' = stores + 1
  /\ Goes(s, "looked") /\ art' = [art EXCEPT ![s] = a]
  /\ shared' = IF Rivals(s, a) # {} THEN shared \cup {a.class} ELSE shared
  /\ twice' = IF \E t \in Rivals(s, a) : art[t].sha = a.sha
              THEN twice \cup {a.class} ELSE twice
  /\ UNCHANGED <<rows, blobs, seen, other, me, created, failures, cleaned, dropped>>

FindCurrent(s) ==
  LET c == art[s].class IN
  /\ phase[s] = "looked"
  /\ seen' = [seen EXCEPT ![s] = Latest(c)]
  /\ Goes(s, IF Latest(c) = None /\ Sibling[c] # NoClass THEN "unmatched" ELSE "matched")
  /\ UNCHANGED <<rows, blobs, art, other, me, counts, traces>>

\* _find_phase_transition_target
FindTransition(s) ==
  /\ phase[s] = "unmatched"
  /\ other' = [other EXCEPT ![s] = Latest(Sibling[art[s].class])]
  /\ Goes(s, "matched")
  /\ UNCHANGED <<rows, blobs, art, seen, me, counts, traces>>

\* put_bytes, then the record with its id and created_at
Put(s) ==
  /\ phase[s] = "matched"
  /\ blobs' = blobs \cup {BlobOf(art[s])}
  /\ created' = created + 1 /\ me' = [me EXCEPT ![s] = created + 1]
  /\ Goes(s, "put")
  /\ UNCHANGED <<rows, art, seen, other, stores, failures, traces>>

\* Mutant of Supersede: a transaction of its own.
SupersedeAtOnce(s) ==
  /\ phase[s] = "put" /\ seen[s] # None
  /\ ~ \E t \in Storers \ {s} : phase[t] \in Locking /\ seen[t] = seen[s]
  /\ current' = current \ {seen[s]}
  /\ Goes(s, "superseded")
  /\ UNCHANGED <<doc, prev, compared, reviewed, blobs, art, seen, other, me, counts, traces>>

\* The update of the current row waits for whoever has updated it and not committed.
Supersede(s) ==
  /\ phase[s] = "put" /\ seen[s] # None
  /\ ~ \E t \in Storers \ {s} : phase[t] \in Locking /\ seen[t] = seen[s]
  /\ Goes(s, "superseded")
  /\ UNCHANGED <<rows, blobs, art, seen, other, me, counts, traces>>

Writes(s) == phase[s] = "superseded" \/ (phase[s] = "put" /\ seen[s] = None)

\* Mutant of KeyFree: it waits for everybody who may come to insert.
KeyFreeOfRivals(s) == ~ \E t \in Storers \ {s} :
                          phase[t] \in UnderWay /\ SameKey(art[t], art[s])

\* Likewise the insert, for an equal key that is not committed.
KeyFree(s) == ~ \E t \in Storers \ {s} : phase[t] = "inserted" /\ SameKey(art[t], art[s])

Insert(s) ==
  /\ Writes(s) /\ KeyFree(s)
  /\ ~ \E d \in Stored : SameKey(doc[d], art[s])
  /\ Goes(s, "inserted")
  /\ UNCHANGED <<rows, blobs, art, seen, other, me, counts, traces>>

\* Mutant of Conflict: what it wrote is removed, though the row may refer to it.
ConflictDrops(s) ==
  /\ Writes(s) /\ KeyFree(s)
  /\ \E d \in Stored : SameKey(doc[d], art[s])
  /\ blobs' = blobs \ {BlobOf(art[s])}
  /\ dropped' = dropped \cup {<<BlobOf(art[s]), art[s].class>>}
  /\ current' = current \ {seen[s]}
  /\ Returns(s)
  /\ UNCHANGED <<doc, prev, compared, reviewed, counts, shared, twice, cleaned>>

\* The row is there: _cleanup_unreferenced_blob_writes, and the transaction commits.
Conflict(s) ==
  /\ Writes(s) /\ KeyFree(s)
  /\ \E d \in Stored :
       /\ SameKey(doc[d], art[s])
       /\ IF BlobOf(doc[d]) = BlobOf(art[s]) THEN UNCHANGED <<blobs, dropped>>
          ELSE /\ blobs' = blobs \ {BlobOf(art[s])}
               /\ dropped' = dropped \cup {<<BlobOf(art[s]), art[s].class>>}
  /\ current' = current \ {seen[s]}
  /\ Returns(s)
  /\ UNCHANGED <<doc, prev, compared, reviewed, counts, shared, twice, cleaned>>

\* comparison_target
Target(s) == IF seen[s] # None THEN seen[s] ELSE other[s]

\* diff_type is "changed", also when the old artifact cannot be read.
Changed(s) == LET old == doc[Target(s)]
              IN  old.sha # art[s].sha \/ BlobOf(old) \notin blobs

\* Mutant of Commit: the row superseded is not updated.
CommitKeepsCurrent(s) ==
  /\ phase[s] = "inserted"
  /\ doc' = [doc EXCEPT ![me[s]] = art[s]]
  /\ current' = current \cup {me[s]}
  /\ prev' = [prev EXCEPT ![me[s]] = seen[s]]
  /\ compared' = [compared EXCEPT ![me[s]] = Target(s)]
  /\ reviewed' = IF Target(s) # None /\ Changed(s) THEN reviewed \cup {me[s]} ELSE reviewed
  /\ Returns(s)
  /\ UNCHANGED <<blobs, counts, traces>>

\* The diff with the target, the review of what changed, and the commit of them all.
Commit(s) ==
  /\ phase[s] = "inserted"
  /\ doc' = [doc EXCEPT ![me[s]] = art[s]]
  /\ current' = (current \ {seen[s]}) \cup {me[s]}
  /\ prev' = [prev EXCEPT ![me[s]] = seen[s]]
  /\ compared' = [compared EXCEPT ![me[s]] = Target(s)]
  /\ reviewed' = IF Target(s) # None /\ Changed(s) THEN reviewed \cup {me[s]} ELSE reviewed
  /\ Returns(s)
  /\ UNCHANGED <<blobs, counts, traces>>

\* An error after the artifact is written: the transaction is rolled back first.
Rollback(s) ==
  /\ phase[s] \in {"put"} \cup Locking /\ failures < MaxFailures
  /\ failures' = failures + 1
  /\ Goes(s, "failed")
  /\ UNCHANGED <<rows, blobs, art, seen, other, me, stores, created, traces>>

\* Then the artifact is removed, whoever refers to it.
Cleanup(s) ==
  /\ phase[s] = "failed"
  /\ blobs' = blobs \ {BlobOf(art[s])} /\ cleaned' = cleaned \cup {BlobOf(art[s])}
  /\ Returns(s)
  /\ UNCHANGED <<rows, counts, shared, twice, dropped>>

\* The process dies, or an error comes before the artifact is written.
Killed(s) ==
  /\ phase[s] # "idle" /\ failures < MaxFailures
  /\ failures' = failures + 1
  /\ Returns(s)
  /\ UNCHANGED <<rows, blobs, stores, created, traces>>

Step(s) ==
  \/ Repair(s) \/ FindCurrent(s) \/ FindTransition(s) \/ Put(s)
  \/ Supersede(s) \/ Insert(s) \/ Conflict(s) \/ Commit(s) \/ Cleanup(s)

Next == \E s \in Storers :
  \/ Step(s) \/ Rollback(s) \/ Killed(s)
  \/ \E a \in Artifacts : Replay(s, a) \/ Look(s, a)

Spec == Init /\ [][Next]_vars

\* A store that has begun runs on by itself, and the locks it waits for are given in turn;
\* nobody has to begin one, and nothing has to fail.
FairSpec == Spec /\ \A s \in Storers : WF_vars(Step(s))

-----------------------------------------------------------------------------
(* Properties *)

TypeOK ==
  /\ doc \in [Ids -> Artifacts \cup {NoArtifact}] /\ current \subseteq Stored
  /\ prev \in [Ids -> Stored \cup {None}] /\ compared \in [Ids -> Stored \cup {None}]
  /\ reviewed \subseteq {d \in Stored : compared[d] # None}
  /\ blobs \subseteq {BlobOf(a) : a \in Artifacts}
  /\ phase \in [Storers -> UnderWay \cup {"idle", "replayed", "failed"}]
  /\ art \in [Storers -> Artifacts \cup {NoArtifact}]
  /\ \A s \in Storers : phase[s] # "idle" => art[s] \in Artifacts
  /\ seen \in [Storers -> Stored \cup {None}] /\ other \in [Storers -> Stored \cup {None}]
  /\ \A s \in Storers : phase[s] = "replayed" => seen[s] \in Stored
  /\ me \in [Storers -> 0 .. created]
  /\ \A s \in Storers : phase[s] \in {"put"} \cup Locking => me[s] \in Ids \ Stored
  /\ stores \in 0 .. MaxStores /\ created \in 0 .. stores /\ failures \in 0 .. MaxFailures
  /\ shared \subseteq Classes /\ twice \subseteq shared
  /\ cleaned \subseteq {BlobOf(a) : a \in Artifacts}
  /\ dropped \subseteq {BlobOf(a) : a \in Artifacts} \X Classes

\* A version stops being current only because of a newer one that took its place, so the
\* newest version of a class is current: with any stores at once, however they fail, as
\* long as they do not store one artifact at the same time (store_document).
OnlyNewerReplace ==
  \A d \in Stored \ current :
    doc[d].class \notin twice => \E e \in Stored : prev[e] = d /\ d < e

\* In a class whose stores came one after the other, however many failed, each version
\* supersedes the one before it and has a review of what changed; the last is current.
VersionsChain ==
  \A d, e \in Stored :
    /\ doc[d].class = doc[e].class /\ doc[d].class \notin shared
    /\ d < e /\ ~ \E f \in Versions(doc[d].class) : d < f /\ f < e
    => d \notin current /\ prev[e] = d /\ compared[e] = d /\ e \in reviewed

\* A document's artifact is missing only if a store that failed had written the same bytes
\* under the same name, or a store of another class did that found its own row taken.
ArtifactKept ==
  \A d \in Stored :
    \/ BlobOf(doc[d]) \in blobs \cup cleaned
    \/ \E c \in Classes \ {doc[d].class} : <<BlobOf(doc[d]), c>> \in dropped

\* Every store comes to an end: the waits for rows and for keys never form a circle.
StoresEnd == \A s \in Storers : phase[s] # "idle" ~> phase[s] = "idle"
=============================================================================
