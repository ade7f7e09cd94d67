------------------------ MODULE ProjectRegistryProofs ------------------------
(* What holds of the registry for any number of tenders, workers and rows.  A worker
   acts on what it read in an earlier transaction; the proofs say what of it is still
   true when it writes: a sighting that found something will find something again, since
   aliases are never taken away, and the row it found is of its own tender, if tenders
   do not share fingerprints. *)
EXTENDS ProjectRegistry, TLAPS

\* TypeOK, part by part.
SharedOK ==
  /\ site \in [Tenders -> {"open"} \cup Course]
  /\ invited \subseteq Known /\ buried \subseteq Known
  /\ announced \subseteq Known /\ orphaned \subseteq Known
  /\ deaths \in 0..MaxDeaths

RowsOK ==
  /\ canon \in [Projects -> Tenders \cup Prints \cup {NoTender}]
  /\ number \in [Projects -> Tenders \cup {NoTender}]
  /\ aliases \in [Projects -> SUBSET (Tenders \cup Prints)]
  /\ state \in [Projects -> States]

LocalOK ==
  /\ phase \in [Workers -> {"idle", "sighted", "looked", "selected", "noted", "checked", "read"}]
  /\ sight \in [Workers -> Sightings \cup {NoSighting}]
  /\ want \in [Workers -> States] /\ fresh \in [Workers -> BOOLEAN]
  /\ row \in [Workers -> Known \cup {NoProject}]

LEMMA TypeParts == TypeOK <=> SharedOK /\ RowsOK /\ LocalOK
BY DEF TypeOK, SharedOK, RowsOK, LocalOK

\* What a worker carries from one transaction to the next.
Ingesting(w) == phase[w] \in {"sighted", "looked", "selected"}

CarriesOK ==
  \A w \in Workers :
    /\ Ingesting(w) => sight[w] \in Sightings
    /\ phase[w] = "noted" => row[w] # NoProject

\* A row goes by the number of its tender, which is one of its aliases.
NumbersOK ==
  \A p \in Known :
    /\ canon[p] \in Tenders /\ number[p] = canon[p]
    /\ canon[p] \in aliases[p]

Typed == TypeOK /\ CarriesOK /\ NumbersOK

-----------------------------------------------------------------------------
(* Facts about the operators *)

LEMMA KnownFacts ==
  /\ Known \subseteq Projects /\ NoProject \notin Known
  /\ Known # Projects => (CHOOSE p \in Projects : p \notin Known) \in Projects \ Known
BY RegistryAssumption DEF Known

LEMMA SightingFacts ==
  ASSUME NEW s \in Sightings
  PROVE  /\ s.tender \in Tenders /\ s.print \in Prints /\ s.print \in PrintsOf[s.tender]
         /\ Canon(s) \in Tenders /\ Canon(s) # NoTender
         /\ Canon(s) \in Strong(s) /\ Strong(s) \subseteq Tenders \cup Prints
BY RegistryAssumption DEF Sightings, Canon, Strong

LEMMA StatesFacts ==
  /\ "open" \in States /\ "tor" \in States
  /\ {"open"} \cup Course \subseteq States
BY RegistryAssumption DEF States, Order

LEMMA FindsKnown ==
  ASSUME NEW s, NEW p, Finds(s, p), p # NoProject
  PROVE  p \in Known /\ (p \in Owners(s) \/ p \in Akin(s))
BY DEF Finds, Owners, Akin

\* A worker at rest carries nothing.
LEMMA RestsKeeps ==
  ASSUME Typed, NEW w \in Workers, Rests(w), Known \subseteq Known'
  PROVE  LocalOK' /\ CarriesOK'
<1> USE TypeParts, StatesFacts
<1>1. LocalOK' BY DEF Typed, Rests, Goes, LocalOK
<1>2. CarriesOK' BY DEF Typed, LocalOK, Rests, Goes, CarriesOK, Ingesting
<1> QED BY <1>1, <1>2

LEMMA RowsKept ==
  ASSUME Typed, UNCHANGED <<canon, number, aliases>>
  PROVE  Known' = Known /\ NumbersOK'
BY DEF Typed, Known, NumbersOK

\* What a worker commits of a sighting.
LEMMA StoreFacts ==
  ASSUME Typed, NEW w \in Workers, phase[w] = "selected", NEW p \in Projects, Store(w, p)
  PROVE  /\ sight[w] \in Sightings
         /\ Known' = Known \cup {p}
         /\ canon' = [canon EXCEPT ![p] = Canon(sight[w])]
         /\ aliases' = [aliases EXCEPT ![p] = @ \cup Strong(sight[w])]
         /\ RowsOK' /\ LocalOK' /\ CarriesOK' /\ NumbersOK'
<1> USE TypeParts
<1>1. sight[w] \in Sightings BY DEF Typed, CarriesOK, Ingesting
<1>2. Canon(sight[w]) \in Tenders /\ Canon(sight[w]) # NoTender
  BY <1>1, SightingFacts
<1>3. Strong(sight[w]) \subseteq Tenders \cup Prints /\ Canon(sight[w]) \in Strong(sight[w])
  BY <1>1, SightingFacts
<1>4. sight[w].tender = Canon(sight[w]) BY DEF Canon
<1>5. RowsOK'
  BY <1>2, <1>3, <1>4 DEF Typed, Store, RowsOK, LocalOK
<1>6. Known' = Known \cup {p}
  BY <1>2 DEF Typed, Store, Known, RowsOK
<1>7. NumbersOK'
  BY <1>2, <1>3, <1>4, <1>6 DEF Typed, Store, NumbersOK, RowsOK, Known
<1>8. LocalOK' /\ CarriesOK'
  <2>1. CASE fresh[w]
    <3>1. phase' = [phase EXCEPT ![w] = "noted"] /\ row' = [row EXCEPT ![w] = p]
          /\ UNCHANGED <<sight, want, fresh>>
      BY <2>1 DEF Store, Goes
    <3>2. p # NoProject BY RegistryAssumption
    <3>3. LocalOK' BY <1>6, <3>1 DEF Typed, LocalOK
    <3>4. CarriesOK' BY <3>1, <3>2 DEF Typed, LocalOK, CarriesOK, Ingesting
    <3> QED BY <3>3, <3>4
  <2>2. CASE ~fresh[w]
    BY <2>2, <1>6, RestsKeeps DEF Store
  <2> QED BY <2>1, <2>2
<1> QED BY <1>1, <1>5, <1>6, <1>7, <1>8 DEF Store

\* What is committed, and where: to the row that was found, to a new one, or to the one
\* that has the canonical id by now.
LEMMA Stores ==
  ASSUME Typed, NEW w \in Workers, Update(w) \/ Insert(w) \/ InsertConflicts(w)
  PROVE  /\ phase[w] = "selected"
         /\ \E p \in Projects :
              /\ Store(w, p)
              /\ \/ p \in Owners(sight[w])
                 \/ /\ Owners(sight[w]) \subseteq {p}
                    /\ p = row[w] \/ (p \notin Known /\ row[w] = NoProject)
<1> USE TypeParts
<1>1. CASE Update(w)
  <2>1. row[w] \in Projects BY <1>1, KnownFacts DEF Update, Typed, LocalOK
  <2> QED BY <1>1, <2>1 DEF Update
<1>2. CASE Insert(w)
  <2> DEFINE new == CHOOSE p \in Projects : p \notin Known
  <2>1. new \in Projects /\ new \notin Known BY <1>2, KnownFacts DEF Insert
  <2>2. Store(w, new) /\ row[w] = NoProject /\ Owners(sight[w]) = {} /\ phase[w] = "selected"
    BY <1>2 DEF Insert
  <2> QED BY <2>1, <2>2
<1>3. CASE InsertConflicts(w)
  BY <1>3, KnownFacts DEF InsertConflicts, Owners
<1> QED BY <1>1, <1>2, <1>3

-----------------------------------------------------------------------------
(* The step preserves the types *)

\* Steps that commit nothing: of the worker's own state, or of the state of a project.
LEMMA CarryingKeepsType ==
  ASSUME Typed, NEW w \in Workers, UNCHANGED <<site, rows, announced, orphaned, deaths>>,
         \/ \E s \in Sightings : Sight(w, s)
         \/ LookUp(w) \/ Select(w)
         \/ \E p \in Projects : Check(w, p)
         \/ Read(w)
  PROVE  LocalOK' /\ CarriesOK'
<1> USE TypeParts
<1>1. Known' = Known BY DEF rows, Known
<1>2. ASSUME NEW s \in Sightings, Sight(w, s) PROVE LocalOK' /\ CarriesOK'
  BY <1>1, <1>2, StatesFacts DEF Typed, LocalOK, CarriesOK, Ingesting, Sight, Goes
<1>3. CASE LookUp(w)
  <2>1. PICK p \in Projects \cup {NoProject} :
          /\ Finds(sight[w], p)
          /\ fresh' = [fresh EXCEPT ![w] = p = NoProject]
          /\ want' = IF p # NoProject /\ ~Allowed(state[p], want[w])
                     THEN [want EXCEPT ![w] = state[p]] ELSE want
    BY <1>3 DEF LookUp
  <2>2. want' \in [Workers -> States]
    <3>1. CASE p # NoProject
      <4>1. state[p] \in States BY <3>1 DEF Typed, RowsOK
      <4> QED BY <2>1, <4>1 DEF Typed, LocalOK
    <3>2. CASE p = NoProject BY <2>1, <3>2 DEF Typed, LocalOK
    <3> QED BY <3>1, <3>2
  <2>3. fresh' \in [Workers -> BOOLEAN] BY <2>1 DEF Typed, LocalOK
  <2>4. LocalOK' BY <1>1, <1>3, <2>2, <2>3 DEF Typed, LocalOK, LookUp, Goes
  <2>5. CarriesOK' BY <1>3 DEF Typed, LocalOK, CarriesOK, Ingesting, LookUp, Goes
  <2> QED BY <2>4, <2>5
<1>4. CASE Select(w)
  <2>1. PICK p \in Known \cup {NoProject} : row' = [row EXCEPT ![w] = p]
    BY <1>4, FindsKnown DEF Select
  <2>2. LocalOK' BY <1>1, <1>4, <2>1 DEF Typed, LocalOK, Select, Goes
  <2>3. CarriesOK' BY <1>4 DEF Typed, LocalOK, CarriesOK, Ingesting, Select, Goes
  <2> QED BY <2>2, <2>3
<1>5. ASSUME NEW p \in Projects, Check(w, p) PROVE LocalOK' /\ CarriesOK'
  <2>1. p \in Known /\ number[p] \in Tenders BY <1>5 DEF Check, Listed, Typed, NumbersOK
  <2>2. site[number[p]] \in States BY <2>1, StatesFacts DEF Typed, SharedOK
  <2>3. LocalOK' BY <1>1, <1>5, <2>1, <2>2 DEF Typed, LocalOK, Check, Goes
  <2>4. CarriesOK' BY <1>5 DEF Typed, LocalOK, CarriesOK, Ingesting, Check, Goes
  <2> QED BY <2>3, <2>4
<1>6. CASE Read(w)
  BY <1>1, <1>6 DEF Typed, LocalOK, CarriesOK, Ingesting, Read, Goes
<1> QED BY <1>2, <1>3, <1>4, <1>5, <1>6

LEMMA StepKeepsType == Typed /\ [Next]_vars => Typed'
<1> SUFFICES ASSUME Typed, [Next]_vars
             PROVE  SharedOK' /\ RowsOK' /\ LocalOK' /\ CarriesOK' /\ NumbersOK'
  <2>1. TypeOK' <=> SharedOK' /\ RowsOK' /\ LocalOK' BY TypeParts, PTL
  <2> QED BY <2>1 DEF Typed
<1> USE TypeParts
<1>1. ASSUME UNCHANGED <<site, rows, announced, orphaned, deaths>>
      PROVE  SharedOK' /\ RowsOK' /\ NumbersOK' /\ Known' = Known
  BY <1>1, RowsKept DEF rows, Typed, SharedOK, RowsOK
<1>2. ASSUME NEW t \in Tenders, Progress(t)
      PROVE  SharedOK' /\ RowsOK' /\ LocalOK' /\ CarriesOK' /\ NumbersOK'
  <2>1. Known' = Known /\ NumbersOK' BY <1>2, RowsKept DEF Progress, rows
  <2>2. SharedOK' BY <1>2, <2>1 DEF Typed, SharedOK, Progress, rows
  <2>3. RowsOK' BY <1>2 DEF Typed, RowsOK, Progress, rows
  <2>4. LocalOK' /\ CarriesOK'
    BY <1>2, <2>1 DEF Typed, LocalOK, CarriesOK, Ingesting, Progress, locals
  <2> QED BY <2>1, <2>2, <2>3, <2>4
<1>3. ASSUME NEW w \in Workers,
             \/ \E s \in Sightings : Sight(w, s)
             \/ LookUp(w) \/ Select(w)
             \/ \E p \in Projects : Check(w, p)
             \/ Read(w)
      PROVE  SharedOK' /\ RowsOK' /\ LocalOK' /\ CarriesOK' /\ NumbersOK'
  <2>1. UNCHANGED <<site, rows, announced, orphaned, deaths>>
    BY <1>3 DEF Sight, LookUp, Select, Check, Read
  <2> QED BY <1>1, <1>3, <2>1, CarryingKeepsType
<1>4. ASSUME NEW w \in Workers, SelectFails(w) \/ StoreFails(w) \/ ReadFails(w)
      PROVE  SharedOK' /\ RowsOK' /\ LocalOK' /\ CarriesOK' /\ NumbersOK'
  <2>1. UNCHANGED <<site, rows, announced, orphaned, deaths>> /\ Rests(w)
    BY <1>4 DEF SelectFails, StoreFails, ReadFails
  <2> QED BY <1>1, <2>1, RestsKeeps
<1>5. ASSUME NEW w \in Workers, Update(w) \/ Insert(w) \/ InsertConflicts(w)
      PROVE  SharedOK' /\ RowsOK' /\ LocalOK' /\ CarriesOK' /\ NumbersOK'
  <2>1. PICK p \in Projects : Store(w, p) /\ phase[w] = "selected" BY <1>5, Stores
  <2>2. Known' = Known \cup {p} /\ RowsOK' /\ LocalOK' /\ CarriesOK' /\ NumbersOK'
    BY <2>1, StoreFacts
  <2>3. SharedOK' BY <2>1, <2>2 DEF Typed, SharedOK, Store, Surfaces
  <2> QED BY <2>2, <2>3
<1>6. ASSUME NEW w \in Workers, Announce(w) \/ Dies(w)
      PROVE  SharedOK' /\ RowsOK' /\ LocalOK' /\ CarriesOK' /\ NumbersOK'
  <2>1. UNCHANGED rows /\ site' = site /\ Rests(w) BY <1>6 DEF Announce, Dies
  <2>2. Known' = Known /\ NumbersOK' BY <2>1, RowsKept DEF rows
  <2>3. RowsOK' BY <2>1 DEF Typed, RowsOK, rows
  <2>4. phase[w] = "noted" => row[w] \in Known BY DEF Typed, CarriesOK, LocalOK
  <2>5. SharedOK'
    <3>1. announced' \subseteq Known /\ orphaned' \subseteq Known
      BY <1>6, <2>4 DEF Typed, SharedOK, Announce, Dies
    <3>2. deaths' \in 0..MaxDeaths
      BY <1>6, RegistryAssumption DEF Typed, SharedOK, Announce, Dies
    <3> QED BY <2>1, <2>2, <3>1, <3>2 DEF Typed, SharedOK, rows
  <2> QED BY <2>1, <2>2, <2>3, <2>5, RestsKeeps
<1>7. ASSUME NEW w \in Workers, Transition(w)
      PROVE  SharedOK' /\ RowsOK' /\ LocalOK' /\ CarriesOK' /\ NumbersOK'
  <2>1. Known' = Known /\ NumbersOK' BY <1>7, RowsKept DEF Transition
  <2>2. want[w] \in States BY DEF Typed, LocalOK
  <2>3. RowsOK' BY <1>7, <2>2 DEF Typed, RowsOK, Transition
  <2>4. SharedOK' BY <1>7, <2>1 DEF Typed, SharedOK, Transition, Surfaces
  <2> QED BY <1>7, <2>1, <2>3, <2>4, RestsKeeps DEF Transition
<1>8. ASSUME NEW p \in Projects, Capture(p) \/ Crowd(p)
      PROVE  SharedOK' /\ RowsOK' /\ LocalOK' /\ CarriesOK' /\ NumbersOK'
  <2>1. /\ UNCHANGED <<site, canon, number, aliases, state, announced, orphaned, locals, deaths>>
        /\ p \in Known /\ invited' \subseteq invited \cup {p} /\ buried' \subseteq buried \cup {p}
    BY <1>8 DEF Capture, Crowd
  <2>2. Known' = Known /\ NumbersOK' BY <2>1, RowsKept
  <2>3. SharedOK' BY <2>1, <2>2 DEF Typed, SharedOK
  <2>4. RowsOK' BY <2>1 DEF Typed, RowsOK
  <2>5. LocalOK' /\ CarriesOK'
    BY <2>1, <2>2 DEF Typed, LocalOK, CarriesOK, Ingesting, locals
  <2> QED BY <2>2, <2>3, <2>4, <2>5
<1>9. CASE UNCHANGED vars
  <2>1. UNCHANGED <<site, rows, announced, orphaned, deaths>> /\ UNCHANGED locals
    BY <1>9 DEF vars
  <2>2. LocalOK' /\ CarriesOK'
    BY <1>1, <2>1 DEF Typed, LocalOK, CarriesOK, Ingesting, locals
  <2> QED BY <1>1, <2>1, <2>2
<1> QED BY <1>2, <1>3, <1>4, <1>5, <1>6, <1>7, <1>8, <1>9 DEF Next, Ingest, Conclude

LEMMA InitTyped == Init => Typed
BY TypeParts, StatesFacts, RegistryAssumption
   DEF Init, Typed, SharedOK, RowsOK, LocalOK, CarriesOK, NumbersOK, Known, Ingesting

LEMMA AlwaysTyped == Spec => []Typed
BY InitTyped, StepKeepsType, PTL DEF Spec

\* Every variable keeps its type; in particular only rows that exist are announced.
THEOREM TypeCorrect == Spec => []TypeOK
BY AlwaysTyped, PTL DEF Typed

-----------------------------------------------------------------------------
(* New projects are announced *)

\* What the first lookup of an ingestion found, the others still find.
Remembers(w) ==
  /\ phase[w] \in {"looked", "selected"} /\ ~fresh[w] => Akin(sight[w]) # {}
  /\ phase[w] = "selected" /\ row[w] = NoProject => fresh[w]

NoticeInv == Typed /\ NewIsAnnounced /\ \A w \in Workers : Remembers(w)

LEMMA FoundIsAkin ==
  ASSUME Typed, NEW s \in Sightings, NEW p, Finds(s, p)
  PROVE  p # NoProject <=> Akin(s) # {}
<1>1. Owners(s) \subseteq Akin(s)
  BY SightingFacts DEF Typed, NumbersOK, Owners, Akin
<1>2. NoProject \notin Owners(s) /\ NoProject \notin Akin(s)
  BY KnownFacts DEF Owners, Akin
<1> QED BY <1>1, <1>2 DEF Finds

\* Aliases are never taken away.
LEMMA AkinGrows ==
  ASSUME Typed, [Next]_vars, NEW s \in Sightings
  PROVE  Akin(s) # {} => Akin(s)' # {}
<1> USE TypeParts
<1>1. CASE UNCHANGED <<canon, aliases>>
  BY <1>1 DEF Akin, Known
<1>2. ASSUME NEW w \in Workers, Update(w) \/ Insert(w) \/ InsertConflicts(w)
      PROVE  Akin(s) # {} => Akin(s)' # {}
  <2>1. PICK p \in Projects : Store(w, p) /\ phase[w] = "selected" BY <1>2, Stores
  <2>2. /\ Known' = Known \cup {p}
        /\ aliases' = [aliases EXCEPT ![p] = @ \cup Strong(sight[w])]
    BY <2>1, StoreFacts
  <2>3. \A q \in Projects : aliases[q] \subseteq aliases'[q]
    BY <2>2 DEF Typed, RowsOK
  <2> QED BY <2>2, <2>3, KnownFacts DEF Akin
<1> QED BY <1>1, <1>2 DEF Next, Ingest, Conclude, vars, rows, Progress, Capture, Crowd, Dies, Sight, Check,
     LookUp, Select, SelectFails, StoreFails, Announce, Read, ReadFails, Transition

\* A worker's step is its own.
LEMMA Others ==
  ASSUME Typed, NEW w \in Workers, NEW v \in Workers, v # w,
         \/ Ingest(w) \/ Conclude(w) \/ Dies(w)
         \/ \E s \in Sightings : Sight(w, s)
         \/ \E p \in Projects : Check(w, p)
  PROVE  /\ phase'[v] = phase[v] /\ sight'[v] = sight[v]
         /\ fresh'[v] = fresh[v] /\ row'[v] = row[v]
<1> USE TypeParts
<1>1. CASE Update(w) \/ Insert(w) \/ InsertConflicts(w)
  <2>1. PICK p \in Projects : Store(w, p) BY <1>1, Stores
  <2> QED BY <2>1 DEF Typed, LocalOK, Store, Rests, Goes
<1>2. CASE Rests(w)
  BY <1>2 DEF Typed, LocalOK, Rests, Goes
<1>3. CASE \/ LookUp(w) \/ Select(w) \/ Read(w)
           \/ \E s \in Sightings : Sight(w, s)
           \/ \E p \in Projects : Check(w, p)
  BY <1>3 DEF Typed, LocalOK, Goes, LookUp, Select, Read, Sight, Check
<1> QED BY <1>1, <1>2, <1>3 DEF Ingest, Conclude, Dies, SelectFails, StoreFails, Announce,
     ReadFails, Transition

\* The state of a worker at its own step.
LEMMA OwnRemembers ==
  ASSUME NoticeInv, [Next]_vars, NEW w \in Workers,
         \/ Ingest(w) \/ Conclude(w) \/ Dies(w)
         \/ \E s \in Sightings : Sight(w, s)
         \/ \E p \in Projects : Check(w, p)
  PROVE  Remembers(w)'
<1> USE TypeParts DEF NoticeInv
<1>1. CASE LookUp(w)
  <2>1. PICK p \in Projects \cup {NoProject} :
          Finds(sight[w], p) /\ fresh' = [fresh EXCEPT ![w] = p = NoProject]
    BY <1>1 DEF LookUp
  <2>2. sight[w] \in Sightings BY <1>1 DEF LookUp, Typed, CarriesOK, Ingesting
  <2>3. fresh'[w] = (p = NoProject) BY <2>1 DEF Typed, LocalOK
  <2>4. p # NoProject <=> Akin(sight[w]) # {} BY <2>1, <2>2, FoundIsAkin
  <2>5. Akin(sight[w])' = Akin(sight[w]) /\ phase'[w] = "looked"
    BY <1>1 DEF LookUp, Goes, Akin, Known, Strong, rows, Typed, LocalOK
  <2> QED BY <2>3, <2>4, <2>5 DEF Remembers
<1>2. CASE Select(w)
  <2>1. PICK p \in Projects \cup {NoProject} :
          Finds(sight[w], p) /\ row' = [row EXCEPT ![w] = p]
    BY <1>2 DEF Select
  <2>2. sight[w] \in Sightings BY <1>2 DEF Select, Typed, CarriesOK, Ingesting
  <2>3. row'[w] = p BY <2>1 DEF Typed, LocalOK
  <2>4. p # NoProject <=> Akin(sight[w]) # {} BY <2>1, <2>2, FoundIsAkin
  <2>5. ~fresh[w] => Akin(sight[w]) # {} BY <1>2 DEF Select, Remembers
  <2>6. Akin(sight[w])' = Akin(sight[w]) /\ fresh'[w] = fresh[w]
    BY <1>2 DEF Select, Akin, Known, Strong, rows
  <2> QED BY <2>3, <2>4, <2>5, <2>6 DEF Remembers
<1>3. CASE Update(w) \/ Insert(w) \/ InsertConflicts(w)
  <2>1. PICK p \in Projects : Store(w, p) BY <1>3, Stores
  <2>2. phase'[w] \in {"noted", "idle"} BY <2>1 DEF Store, Rests, Goes, Typed, LocalOK
  <2> QED BY <2>2 DEF Remembers
<1>4. CASE Rests(w)
  <2>1. phase'[w] = "idle" BY <1>4 DEF Rests, Goes, Typed, LocalOK
  <2> QED BY <2>1 DEF Remembers
<1>5. CASE Read(w) \/ (\E s \in Sightings : Sight(w, s)) \/ (\E p \in Projects : Check(w, p))
  <2>1. phase'[w] \in {"read", "sighted", "checked"}
    BY <1>5 DEF Goes, Read, Sight, Check, Typed, LocalOK
  <2> QED BY <2>1 DEF Remembers
<1> QED BY <1>1, <1>2, <1>3, <1>4, <1>5 DEF Ingest, Conclude, Dies, SelectFails, StoreFails,
     Announce, ReadFails, Transition

LEMMA StepRemembers ==
  ASSUME NoticeInv, [Next]_vars, NEW v \in Workers
  PROVE  Remembers(v)'
<1>1. Typed /\ Remembers(v) BY DEF NoticeInv
<1>2. ASSUME phase'[v] = phase[v], sight'[v] = sight[v], fresh'[v] = fresh[v], row'[v] = row[v]
      PROVE  Remembers(v)'
  <2>1. CASE phase[v] \in {"looked", "selected"}
    <3>1. sight[v] \in Sightings BY <1>1, <2>1 DEF Typed, CarriesOK, Ingesting
    <3> DEFINE s == sight[v]
    <3>2. \A x \in Sightings : Akin(x) # {} => Akin(x)' # {} BY <1>1, AkinGrows
    <3>3. Akin(sight[v]) # {} => Akin(sight[v])' # {}
      BY <1>2, <3>1, <3>2 DEF Akin, Known, Strong
    <3> QED BY <1>1, <1>2, <3>3 DEF Remembers
  <2>2. CASE ~(phase[v] \in {"looked", "selected"})
    BY <1>2, <2>2 DEF Remembers
  <2> QED BY <2>1, <2>2
<1>3. ASSUME NEW w \in Workers,
             \/ Ingest(w) \/ Conclude(w) \/ Dies(w)
             \/ \E s \in Sightings : Sight(w, s)
             \/ \E p \in Projects : Check(w, p)
      PROVE  Remembers(v)'
  <2>1. CASE v = w BY <1>3, <2>1, OwnRemembers
  <2>2. CASE v # w BY <1>1, <1>2, <1>3, <2>2, Others
  <2> QED BY <2>1, <2>2
<1>4. CASE \/ UNCHANGED vars \/ \E t \in Tenders : Progress(t)
           \/ \E q \in Projects : Capture(q) \/ Crowd(q)
  BY <1>2, <1>4 DEF vars, locals, Progress, Capture, Crowd
<1> QED BY <1>3, <1>4 DEF Next

\* Who is still to announce p.
Pending(p) == \E w \in Workers : phase[w] = "noted" /\ row[w] = p

LEMMA StepAnnounces == NoticeInv /\ [Next]_vars => NewIsAnnounced'
<1> SUFFICES ASSUME NoticeInv, [Next]_vars, NEW p \in Known'
             PROVE  (p \in announced \cup orphaned \/ Pending(p))'
  BY DEF NewIsAnnounced, Pending
<1> USE TypeParts DEF NoticeInv
<1>1. ASSUME NEW w \in Workers, Update(w) \/ Insert(w) \/ InsertConflicts(w)
      PROVE  (p \in announced \cup orphaned \/ Pending(p))'
  <2>1. PICK q \in Projects :
          /\ Store(w, q) /\ phase[w] = "selected"
          /\ \/ q \in Owners(sight[w]) \/ q = row[w]
             \/ (q \notin Known /\ row[w] = NoProject)
    BY <1>1, Stores
  <2>2. Known' = Known \cup {q} /\ UNCHANGED <<announced, orphaned>>
    BY <2>1, StoreFacts DEF Store
  <2>3. CASE p \in Known
    <3>1. CASE Pending(p)
      <4>1. PICK v \in Workers : phase[v] = "noted" /\ row[v] = p BY <3>1 DEF Pending
      <4>2. phase'[v] = "noted" /\ row'[v] = p
        BY <1>1, <2>1, <4>1, Others DEF Ingest
      <4> QED BY <4>2 DEF Pending
    <3>2. CASE ~Pending(p)
      BY <2>2, <2>3, <3>2 DEF NewIsAnnounced, Pending
    <3> QED BY <3>1, <3>2
  <2>4. CASE p \notin Known
    <3>1. p = q /\ q \notin Known BY <2>2, <2>4
    <3>2. row[w] = NoProject
      BY <2>1, <3>1, RegistryAssumption DEF Owners, Typed, LocalOK
    <3>3. fresh[w] BY <2>1, <3>2 DEF Remembers
    <3>4. phase'[w] = "noted" /\ row'[w] = q
      BY <2>1, <3>3 DEF Store, Goes, Typed, LocalOK
    <3> QED BY <3>1, <3>4 DEF Pending
  <2> QED BY <2>3, <2>4
<1>2. ASSUME NEW w \in Workers, Announce(w) \/ Dies(w)
      PROVE  (p \in announced \cup orphaned \/ Pending(p))'
  <2>1. p \in Known BY <1>2 DEF Announce, Dies, rows, Known
  <2>2. /\ announced \cup orphaned \subseteq announced' \cup orphaned'
        /\ phase[w] = "noted" => row[w] \in announced' \cup orphaned'
    BY <1>2 DEF Announce, Dies
  <2>3. CASE Pending(p)
    <3>1. PICK v \in Workers : phase[v] = "noted" /\ row[v] = p BY <2>3 DEF Pending
    <3>2. CASE v = w BY <2>2, <3>1, <3>2
    <3>3. CASE v # w
      <4>1. phase'[v] = "noted" /\ row'[v] = p BY <1>2, <3>1, <3>3, Others DEF Ingest
      <4> QED BY <4>1 DEF Pending
    <3> QED BY <3>2, <3>3
  <2>4. CASE ~Pending(p) BY <2>1, <2>2, <2>4 DEF NewIsAnnounced, Pending
  <2> QED BY <2>3, <2>4
<1>3. ASSUME UNCHANGED <<canon, announced, orphaned>>,
             \A v \in Workers : phase[v] = "noted" => phase'[v] = "noted" /\ row'[v] = row[v]
      PROVE  (p \in announced \cup orphaned \/ Pending(p))'
  <2>1. p \in Known BY <1>3 DEF Known
  <2> QED BY <1>3, <2>1 DEF NewIsAnnounced, Pending
<1>4. ASSUME NEW w \in Workers,
             \/ LookUp(w) \/ Select(w) \/ SelectFails(w) \/ StoreFails(w) \/ Conclude(w)
             \/ \E s \in Sightings : Sight(w, s)
             \/ \E q \in Projects : Check(w, q)
      PROVE  (p \in announced \cup orphaned \/ Pending(p))'
  <2>1. UNCHANGED <<canon, announced, orphaned>> /\ phase[w] # "noted"
    BY <1>4 DEF LookUp, Select, SelectFails, StoreFails, Conclude, Read, ReadFails,
                Transition, Sight, Check, rows
  <2>2. \A v \in Workers : v # w => phase'[v] = phase[v] /\ row'[v] = row[v]
    BY <1>4, Others DEF Ingest
  <2> QED BY <1>3, <2>1, <2>2
<1>5. CASE \/ UNCHANGED vars \/ \E t \in Tenders : Progress(t)
           \/ \E q \in Projects : Capture(q) \/ Crowd(q)
  BY <1>3, <1>5 DEF vars, rows, locals, Progress, Capture, Crowd
<1> QED BY <1>1, <1>2, <1>4, <1>5 DEF Next, Ingest

\* A new project is announced, or is to be, or its crawler was killed in between: that
\* several crawlers ingest it at once leaves none of them believing another will do it.
THEOREM NewProjectsAnnounced == Spec => []NewIsAnnounced
<1>1. Init => NoticeInv
  BY InitTyped DEF Init, NoticeInv, NewIsAnnounced, Remembers, Known
<1>2. NoticeInv /\ [Next]_vars => NoticeInv'
  <2>1. ASSUME NoticeInv, [Next]_vars PROVE \A w \in Workers : Remembers(w)'
    BY <2>1, StepRemembers
  <2> QED BY <2>1, StepKeepsType, StepAnnounces DEF NoticeInv
<1> QED BY <1>1, <1>2, PTL DEF Spec, NoticeInv

-----------------------------------------------------------------------------
(* No duplicates *)

\* No two tenders look the same.
PrintsDiffer == \A t, u \in Tenders : t # u => PrintsOf[t] \cap PrintsOf[u] = {}

\* The row a sighting has found is of its tender, and all aliases of a row are.
FoundOwn ==
  \A w \in Workers :
    phase[w] = "selected" /\ row[w] # NoProject => canon[row[w]] = Canon(sight[w])
AliasesOwn ==
  \A p \in Projects :
    aliases[p] \subseteq IF p \in Known THEN {canon[p]} \cup PrintsOf[canon[p]] ELSE {}
CanonUnique == \A p, q \in Known : canon[p] = canon[q] => p = q

DistinctInv == Typed /\ FoundOwn /\ AliasesOwn /\ CanonUnique

\* Whatever shares an alias with a sighting is of its tender.
LEMMA FoundIsOwn ==
  ASSUME PrintsDiffer, DistinctInv, NEW s \in Sightings, NEW p, Finds(s, p), p # NoProject
  PROVE  p \in Known /\ canon[p] = Canon(s)
<1>1. p \in Known /\ (p \in Owners(s) \/ p \in Akin(s)) BY FindsKnown
<1>2. ASSUME p \in Akin(s) PROVE canon[p] = s.tender
  <2>1. canon[p] \in Tenders BY <1>1 DEF DistinctInv, Typed, NumbersOK
  <2>2. s.tender \in Tenders /\ s.print \in Prints /\ s.print \in PrintsOf[s.tender]
    BY SightingFacts
  <2>3. PICK a \in Strong(s) : a = canon[p] \/ a \in PrintsOf[canon[p]]
    BY <1>1, <1>2, KnownFacts DEF DistinctInv, AliasesOwn, Akin
  <2>4. PrintsOf[canon[p]] \subseteq Prints BY <2>1, RegistryAssumption
  <2>5. CASE a = s.tender
    BY <2>1, <2>2, <2>3, <2>4, <2>5, RegistryAssumption
  <2>6. CASE a = s.print
    BY <2>1, <2>2, <2>3, <2>6, RegistryAssumption DEF PrintsDiffer
  <2> QED BY <2>3, <2>5, <2>6 DEF Strong
<1> QED BY <1>1, <1>2 DEF Owners, Canon

LEMMA StoreKeepsDistinct ==
  ASSUME DistinctInv, NEW w \in Workers, Update(w) \/ Insert(w) \/ InsertConflicts(w)
  PROVE  FoundOwn' /\ AliasesOwn' /\ CanonUnique'
<1> USE TypeParts DEF DistinctInv
<1>1. PICK p \in Projects :
        /\ Store(w, p) /\ phase[w] = "selected"
        /\ \/ p \in Owners(sight[w])
           \/ /\ Owners(sight[w]) \subseteq {p}
              /\ p = row[w] \/ (p \notin Known /\ row[w] = NoProject)
  BY Stores
<1>2. /\ sight[w] \in Sightings /\ Known' = Known \cup {p}
      /\ canon' = [canon EXCEPT ![p] = Canon(sight[w])]
      /\ aliases' = [aliases EXCEPT ![p] = @ \cup Strong(sight[w])]
  BY <1>1, StoreFacts
<1>3. p \in Known => canon[p] = Canon(sight[w])
  BY <1>1, RegistryAssumption DEF FoundOwn, Owners
<1>4. \A q \in Known : q # p => canon[q] # Canon(sight[w])
  BY <1>1, <1>3 DEF CanonUnique, Owners
<1>5. canon'[p] = Canon(sight[w]) /\ \A q \in Known : canon'[q] = canon[q]
  BY <1>2, <1>3, KnownFacts DEF Typed, RowsOK
<1>6. CanonUnique' BY <1>2, <1>4, <1>5 DEF CanonUnique
<1>7. AliasesOwn'
  <2>1. Strong(sight[w]) \subseteq {Canon(sight[w])} \cup PrintsOf[Canon(sight[w])]
    BY <1>2, SightingFacts DEF Strong, Canon
  <2>2. ASSUME NEW q \in Projects, q # p
        PROVE  aliases'[q] = aliases[q] /\ (q \in Known' <=> q \in Known)
    BY <1>2, <2>2 DEF Typed, RowsOK
  <2>3. aliases'[p] = aliases[p] \cup Strong(sight[w]) BY <1>2 DEF Typed, RowsOK
  <2>4. aliases'[p] \subseteq {canon'[p]} \cup PrintsOf[canon'[p]]
    BY <1>3, <1>5, <2>1, <2>3 DEF AliasesOwn
  <2> QED BY <1>2, <1>5, <2>2, <2>4 DEF AliasesOwn
<1>8. FoundOwn'
  <2> SUFFICES ASSUME NEW v \in Workers, phase'[v] = "selected", row'[v] # NoProject
               PROVE  canon'[row'[v]] = Canon(sight'[v])
    BY DEF FoundOwn, Canon
  <2>1. v # w BY <1>1 DEF Store, Rests, Goes, Typed, LocalOK
  <2>2. phase'[v] = phase[v] /\ sight'[v] = sight[v] /\ row'[v] = row[v]
    BY <2>1, Others DEF Ingest
  <2>3. row[v] \in Known BY <2>2 DEF Typed, LocalOK
  <2> QED BY <1>5, <2>2, <2>3 DEF FoundOwn
<1> QED BY <1>6, <1>7, <1>8

LEMMA StepKeepsDistinct ==
  ASSUME PrintsDiffer, DistinctInv, [Next]_vars
  PROVE  FoundOwn' /\ AliasesOwn' /\ CanonUnique'
<1> USE TypeParts DEF DistinctInv
<1>1. ASSUME UNCHANGED <<canon, aliases>> PROVE AliasesOwn' /\ CanonUnique'
  BY <1>1 DEF AliasesOwn, CanonUnique, Known
<1>2. ASSUME UNCHANGED canon,
             \A v \in Workers : phase'[v] = "selected" =>
               phase[v] = "selected" /\ row'[v] = row[v] /\ sight'[v] = sight[v]
      PROVE  FoundOwn'
  BY <1>2 DEF FoundOwn, Canon
<1>3. ASSUME NEW w \in Workers, Select(w)
      PROVE  FoundOwn' /\ AliasesOwn' /\ CanonUnique'
  <2>1. PICK p \in Projects \cup {NoProject} :
          Finds(sight[w], p) /\ row' = [row EXCEPT ![w] = p]
    BY <1>3 DEF Select
  <2>2. sight[w] \in Sightings BY <1>3 DEF Select, Typed, CarriesOK, Ingesting
  <2>3. row'[w] = p BY <2>1 DEF Typed, LocalOK
  <2>4. p # NoProject => canon[p] = Canon(sight[w]) BY <2>1, <2>2, FoundIsOwn
  <2>5. UNCHANGED <<canon, aliases, sight>> BY <1>3 DEF Select, rows
  <2>6. \A v \in Workers : v # w => phase'[v] = phase[v] /\ row'[v] = row[v]
    BY <1>3, Others DEF Ingest
  <2>7. FoundOwn' BY <2>3, <2>4, <2>5, <2>6 DEF FoundOwn, Canon
  <2> QED BY <1>1, <2>5, <2>7
<1>4. ASSUME NEW w \in Workers,
             \/ LookUp(w) \/ SelectFails(w) \/ StoreFails(w) \/ Announce(w) \/ Conclude(w)
             \/ Dies(w)
             \/ \E s \in Sightings : Sight(w, s)
             \/ \E q \in Projects : Check(w, q)
      PROVE  FoundOwn' /\ AliasesOwn' /\ CanonUnique'
  <2>1. UNCHANGED <<canon, aliases>>
    BY <1>4 DEF LookUp, SelectFails, StoreFails, Announce, Conclude, Read, ReadFails,
                Transition, Dies, Sight, Check, rows
  <2>2. phase'[w] # "selected"
    BY <1>4 DEF LookUp, SelectFails, StoreFails, Announce, Conclude, Read, ReadFails,
                Transition, Dies, Sight, Check, Rests, Goes, Typed, LocalOK
  <2>3. \A v \in Workers : v # w =>
          phase'[v] = phase[v] /\ row'[v] = row[v] /\ sight'[v] = sight[v]
    BY <1>4, Others DEF Ingest
  <2> QED BY <1>1, <1>2, <2>1, <2>2, <2>3
<1>5. CASE \/ UNCHANGED vars \/ \E t \in Tenders : Progress(t)
           \/ \E q \in Projects : Capture(q) \/ Crowd(q)
  BY <1>1, <1>2, <1>5 DEF vars, rows, locals, Progress, Capture, Crowd
<1> QED BY <1>3, <1>4, <1>5, StoreKeepsDistinct DEF Next, Ingest

LEMMA OwnAreDistinct ==
  ASSUME PrintsDiffer, DistinctInv PROVE AliasesDistinct
<1> SUFFICES ASSUME NEW p \in Projects, NEW q \in Projects, p # q,
                    NEW a \in aliases[p], a \in aliases[q]
             PROVE  FALSE
  BY DEF AliasesDistinct
<1>1. /\ p \in Known /\ a \in {canon[p]} \cup PrintsOf[canon[p]]
      /\ q \in Known /\ a \in {canon[q]} \cup PrintsOf[canon[q]]
  BY DEF DistinctInv, AliasesOwn
<1>2. canon[p] # canon[q] /\ canon[p] \in Tenders /\ canon[q] \in Tenders
  BY <1>1 DEF DistinctInv, CanonUnique, Typed, NumbersOK
<1> QED BY <1>1, <1>2, RegistryAssumption DEF PrintsDiffer

\* If no two tenders look the same, no strong alias is ever of two projects, however
\* many crawlers ingest sightings of a tender under different fingerprints at once.
THEOREM NoDuplicates == ASSUME PrintsDiffer PROVE Spec => []AliasesDistinct
<1>1. Init => DistinctInv
  BY InitTyped DEF Init, DistinctInv, FoundOwn, AliasesOwn, CanonUnique, Known
<1>2. DistinctInv /\ [Next]_vars => DistinctInv'
  BY StepKeepsType, StepKeepsDistinct DEF DistinctInv
<1>3. DistinctInv => AliasesDistinct
  BY OwnAreDistinct
<1> QED BY <1>1, <1>2, <1>3, PTL DEF Spec
=============================================================================
