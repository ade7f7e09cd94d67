-------------------------- MODULE ProjectRegistry --------------------------
(* The projects of one tenant: which row a sighting of a tender belongs to, and how far
   that project has come (project_persistence.py, project_aliases.py,
   project_lifecycle.py, project_ingest.py, close_check.py).

   Crawlers report the open tenders they sight, closers look up the projects that are
   still open and report how they ended.  Each is a series of short transactions without
   row locks, at READ COMMITTED: what one of them read may be stale when it writes. *)
EXTENDS Naturals

CONSTANTS
  Tenders,      \* each with a project number of its own, by which it is called here
  Prints,
  PrintsOf,     \* tender -> the fingerprints of name, organization, date and budget it shows
  Projects,     \* ids of rows
  NoProject,
  NoTender,
  Workers,      \* processes, each of which runs one command after another
  Course,       \* what the site shows of a tender that is no longer open
  MaxDeaths     \* bound on workers that are killed

ASSUME RegistryAssumption ==
  /\ PrintsOf \in [Tenders -> SUBSET Prints]
  /\ Tenders \cap Prints = {} /\ NoTender \notin Tenders \cup Prints
  /\ NoProject \notin Projects
  /\ Course \subseteq {"priced", "won", "signed"}
  /\ MaxDeaths \in Nat

\* _STATE_ORDER, as far as the states are written.
Order == [open |-> 1, tor |-> 4, priced |-> 5, won |-> 6, signed |-> 7]

States      == DOMAIN Order
Closed      == {"won", "signed"}
Revisitable == {"open", "tor", "priced"}
Sightings   == {s \in [tender : Tenders, print : Prints] : s.print \in PrintsOf[s.tender]}
NoSighting  == [tender |-> NoTender, print |-> NoTender]

VARIABLES
  site,        \* what the site shows of a tender
  canon,       \* canonical_project_id, unique
  number,
  aliases,     \* the strong ones
  state,
  invited,     \* projects with a document of the invitation stage
  buried,      \* projects behind as many listed ones, changed later, as a list takes
  announced,   \* projects with a NEW_PROJECT notification
  orphaned,    \* projects whose crawler was killed before it announced them
  phase,       \* of a worker: ingesting a sighting, or closing a project
  sight,       \* the sighting a crawler ingests
  want,        \* the state it is about to write
  fresh,       \* find_existing_project found nothing
  row,         \* the project it found
  deaths

rows   == <<canon, number, aliases, state, invited, buried>>
locals == <<phase, sight, want, fresh, row>>
vars   == <<site, rows, announced, orphaned, locals, deaths>>

Init ==
  /\ site = [t \in Tenders |-> "open"]
  /\ canon = [p \in Projects |-> NoTender] /\ number = [p \in Projects |-> NoTender]
  /\ aliases = [p \in Projects |-> {}] /\ state = [p \in Projects |-> "open"]
  /\ invited = {} /\ buried = {}
  /\ announced = {} /\ orphaned = {}
  /\ phase = [w \in Workers |-> "idle"]
  /\ sight = [w \in Workers |-> NoSighting] /\ want = [w \in Workers |-> "open"]
  /\ fresh = [w \in Workers |-> FALSE] /\ row = [w \in Workers |-> NoProject]
  /\ deaths = 0

-----------------------------------------------------------------------------
(* Identity *)

Known == {p \in Projects : canon[p] # NoTender}

\* Mutant of Canon: the fingerprint even when there is a number.
CanonPrint(s) == s.print

\* generate_canonical_id; what the crawl sights always has a number.
Canon(s) == s.tender

Strong(s) == {s.tender, s.print}

Owners(s) == {p \in Known : canon[p] = Canon(s)}
Akin(s)   == {p \in Known : aliases[p] \cap Strong(s) # {}}

\* p is the row _find_existing_row returns: the owner of the canonical id, or one that
\* shares a strong alias (of several, the one updated last: any of them here).
Finds(s, p) ==
  LET found == IF Owners(s) # {} THEN Owners(s) ELSE Akin(s)
  IN  IF found = {} THEN p = NoProject ELSE p \in found

\* transition_state
Allowed(from, to) == Order[from] <= Order[to]

-----------------------------------------------------------------------------
(* A crawler: ingest_discovered_project *)

Goes(w, to) == phase' = [phase EXCEPT ![w] = to]

\* The worker has nothing more to do with what it was about.
Rests(w) ==
  /\ Goes(w, "idle")
  /\ sight' = [sight EXCEPT ![w] = NoSighting] /\ want' = [want EXCEPT ![w] = "open"]
  /\ fresh' = [fresh EXCEPT ![w] = FALSE] /\ row' = [row EXCEPT ![w] = NoProject]

\* A tender that is still open; its final TOR may have been downloaded.
Sight(w, s) ==
  /\ phase[w] = "idle" /\ site[s.tender] = "open"
  /\ Goes(w, "sighted")
  /\ sight' = [sight EXCEPT ![w] = s]
  /\ \E st \in {"open", "tor"} : want' = [want EXCEPT ![w] = st]
  /\ UNCHANGED <<site, rows, announced, orphaned, fresh, row, deaths>>

\* Mutant of LookUp: it comes after the upsert, and always finds the project.
LookUpAfter(w) ==
  /\ phase[w] = "sighted"
  /\ Goes(w, "looked")
  /\ fresh' = [fresh EXCEPT ![w] = FALSE]
  /\ UNCHANGED <<site, rows, announced, orphaned, want, sight, row, deaths>>

\* find_existing_project; a state that is further on is preserved.
LookUp(w) ==
  /\ phase[w] = "sighted"
  /\ \E p \in Projects \cup {NoProject} :
       /\ Finds(sight[w], p)
       /\ fresh' = [fresh EXCEPT ![w] = p = NoProject]
       /\ want' = IF p # NoProject /\ ~Allowed(state[p], want[w])
                  THEN [want EXCEPT ![w] = state[p]] ELSE want
  /\ Goes(w, "looked")
  /\ UNCHANGED <<site, rows, announced, orphaned, sight, row, deaths>>

\* The lookup of upsert_project.
Select(w) ==
  /\ phase[w] = "looked"
  /\ \E p \in Projects \cup {NoProject} :
       /\ Finds(sight[w], p)
       /\ p # NoProject => Allowed(state[p], want[w])
       /\ row' = [row EXCEPT ![w] = p]
  /\ Goes(w, "selected")
  /\ UNCHANGED <<site, rows, announced, orphaned, sight, want, fresh, deaths>>

\* The project was closed meanwhile: an illegal transition, and the event fails.
SelectFails(w) ==
  /\ phase[w] = "looked"
  /\ \E p \in Projects : Finds(sight[w], p) /\ ~Allowed(state[p], want[w])
  /\ Rests(w)
  /\ UNCHANGED <<site, rows, announced, orphaned, deaths>>

\* last_changed_at is set to now.
Surfaces(p) == buried' = buried \ {p}

\* What w commits of its sighting, as project p.  Whether that is a change is decided by
\* what was read of p, which need not be what is overwritten.
Store(w, p) ==
  /\ canon' = [canon EXCEPT ![p] = Canon(sight[w])]
  /\ number' = [number EXCEPT ![p] = sight[w].tender]
  /\ aliases' = [aliases EXCEPT ![p] = @ \cup Strong(sight[w])]
  /\ state' = [state EXCEPT ![p] = want[w]]
  /\ Surfaces(p) \/ UNCHANGED buried
  /\ IF fresh[w]
     THEN Goes(w, "noted") /\ row' = [row EXCEPT ![w] = p] /\ UNCHANGED <<sight, want, fresh>>
     ELSE Rests(w)
  /\ UNCHANGED <<site, invited, announced, orphaned, deaths>>

\* UPDATE by id, over whatever was committed since; the canonical id stays unique.
Update(w) ==
  /\ phase[w] = "selected" /\ row[w] # NoProject
  /\ Owners(sight[w]) \subseteq {row[w]}
  /\ Store(w, row[w])

Insert(w) ==
  /\ phase[w] = "selected" /\ row[w] = NoProject
  /\ Owners(sight[w]) = {}
  /\ Known # Projects
  /\ Store(w, CHOOSE p \in Projects : p \notin Known)

\* ON CONFLICT: the insert finds, and locks, the row another crawler inserted.
InsertConflicts(w) ==
  /\ phase[w] = "selected" /\ row[w] = NoProject
  /\ \E p \in Owners(sight[w]) : Allowed(state[p], want[w]) /\ Store(w, p)

\* An illegal transition after a conflict, or a canonical id another row has.
StoreFails(w) ==
  /\ phase[w] = "selected"
  /\ \E p \in Owners(sight[w]) :
       IF row[w] = NoProject THEN ~Allowed(state[p], want[w]) ELSE p # row[w]
  /\ Rests(w)
  /\ UNCHANGED <<site, rows, announced, orphaned, deaths>>

\* The dispatch of NEW_PROJECT, once the project is committed (a dispatcher is configured).
Announce(w) ==
  /\ phase[w] = "noted"
  /\ announced' = announced \cup {row[w]}
  /\ Rests(w)
  /\ UNCHANGED <<site, rows, orphaned, deaths>>

-----------------------------------------------------------------------------
(* A closer: run_close_check_workflow, transition_project *)

\* The list: projects not closed yet that have a document of the invitation stage, the
\* limit = 200 of them that changed last.
Listed == {p \in Known : state[p] \in Revisitable /\ p \in invited /\ p \notin buried}

\* Mutant of Check: projects with a TOR are not visited again.
CheckNoTor(w, p) ==
  /\ phase[w] = "idle" /\ p \in Listed /\ state[p] # "tor"
  /\ site[number[p]] # "open"
  /\ Goes(w, "checked")
  /\ row' = [row EXCEPT ![w] = p] /\ want' = [want EXCEPT ![w] = site[number[p]]]
  /\ UNCHANGED <<site, rows, announced, orphaned, sight, fresh, deaths>>

\* A project of the list, and what the site shows of it.
Check(w, p) ==
  /\ phase[w] = "idle" /\ p \in Listed
  /\ site[number[p]] # "open"
  /\ Goes(w, "checked")
  /\ row' = [row EXCEPT ![w] = p] /\ want' = [want EXCEPT ![w] = site[number[p]]]
  /\ UNCHANGED <<site, rows, announced, orphaned, sight, fresh, deaths>>

Read(w) ==
  /\ phase[w] = "checked" /\ Allowed(state[row[w]], want[w])
  /\ Goes(w, "read")
  /\ UNCHANGED <<site, rows, announced, orphaned, sight, want, fresh, row, deaths>>

ReadFails(w) ==
  /\ phase[w] = "checked" /\ ~Allowed(state[row[w]], want[w])
  /\ Rests(w)
  /\ UNCHANGED <<site, rows, announced, orphaned, deaths>>

Transition(w) ==
  /\ phase[w] = "read"
  /\ state' = [state EXCEPT ![row[w]] = want[w]]
  /\ Surfaces(row[w])
  /\ Rests(w)
  /\ UNCHANGED <<site, canon, number, aliases, invited, announced, orphaned, deaths>>

-----------------------------------------------------------------------------
(* The site, the other projects, and trouble *)

Progress(t) ==
  /\ \E st \in Course :
       /\ Order[st] > Order[site[t]]
       /\ site' = [site EXCEPT ![t] = st]
  /\ UNCHANGED <<rows, announced, orphaned, locals, deaths>>

\* Documents of the invitation are stored, in transactions of their own (DocumentVersions).
Capture(p) ==
  /\ p \in Known \ invited
  /\ invited' = invited \cup {p}
  /\ UNCHANGED <<site, canon, number, aliases, state, buried, announced, orphaned, locals, deaths>>

\* 200 other projects of the list have changed since p, or so many no longer; or an update
\* that found nothing changed has put back the date it read.
Crowd(p) ==
  /\ p \in Known
  /\ buried' = IF p \in buried THEN buried \ {p} ELSE buried \cup {p}
  /\ UNCHANGED <<site, canon, number, aliases, state, invited, announced, orphaned, locals, deaths>>

Dies(w) ==
  /\ phase[w] # "idle" /\ deaths < MaxDeaths
  /\ deaths' = deaths + 1
  /\ orphaned' = IF phase[w] = "noted" THEN orphaned \cup {row[w]} ELSE orphaned
  /\ Rests(w)
  /\ UNCHANGED <<site, rows, announced>>

-----------------------------------------------------------------------------
Ingest(w) ==
  \/ LookUp(w) \/ Select(w) \/ SelectFails(w)
  \/ Update(w) \/ Insert(w) \/ InsertConflicts(w) \/ StoreFails(w) \/ Announce(w)

Conclude(w) == Read(w) \/ ReadFails(w) \/ Transition(w)

Next ==
  \/ \E t \in Tenders : Progress(t)
  \/ \E p \in Projects : Capture(p) \/ Crowd(p)
  \/ \E w \in Workers :
       \/ Ingest(w) \/ Conclude(w) \/ Dies(w)
       \/ \E s \in Sightings : Sight(w, s)
       \/ \E p \in Projects : Check(w, p)

Spec == Init /\ [][Next]_vars

\* Workers end what they began, and close checks, which are launched from outside, again
\* and again, come round to every project that is on their list.
FairSpec ==
  /\ Spec
  /\ \A w \in Workers : WF_vars(Ingest(w)) /\ WF_vars(Conclude(w))
  /\ \A p \in Projects : SF_vars(\E w \in Workers : Check(w, p))

-----------------------------------------------------------------------------
(* Properties *)

TypeOK ==
  /\ site \in [Tenders -> {"open"} \cup Course]
  /\ canon \in [Projects -> Tenders \cup Prints \cup {NoTender}]
  /\ number \in [Projects -> Tenders \cup {NoTender}]
  /\ aliases \in [Projects -> SUBSET (Tenders \cup Prints)]
  /\ state \in [Projects -> States]
  /\ invited \subseteq Known /\ buried \subseteq Known
  /\ announced \subseteq Known /\ orphaned \subseteq Known
  /\ phase \in [Workers -> {"idle", "sighted", "looked", "selected", "noted", "checked", "read"}]
  /\ sight \in [Workers -> Sightings \cup {NoSighting}]
  /\ want \in [Workers -> States] /\ fresh \in [Workers -> BOOLEAN]
  /\ row \in [Workers -> Known \cup {NoProject}]
  /\ deaths \in 0..MaxDeaths

\* "Never create duplicates" (docs/PHASE1_PLAN.md): no strong alias is of two projects,
\* though crawlers that sight a tender under two fingerprints at once all find nothing.
AliasesDistinct ==
  \A p, q \in Projects : p # q => aliases[p] \cap aliases[q] = {}

\* A new project is announced, by one crawler or another, unless the one that was to
\* announce it is killed after the commit (crawler_agent_results.py accepts that loss).
NewIsAnnounced ==
  \A p \in Known :
    \/ p \in announced \cup orphaned
    \/ \E w \in Workers : phase[w] = "noted" /\ row[w] = p

\* Writers overwrite what they have not seen, so a project can be reopened behind the
\* back of a close check; but one whose tender is decided is closed for good in the end,
\* if documents of the invitation were stored of it, and unless it is again and again,
\* while open, behind the 200 that changed last: close checks visit no others.
ClosedInTheEnd ==
  \A p \in Projects :
    \/ p \in invited /\ (number[p] \in Tenders /\ site[number[p]] \in Closed)
         ~> [](state[p] \in Closed)
    \/ []<>(p \in buried /\ state[p] \in Revisitable)
=============================================================================
