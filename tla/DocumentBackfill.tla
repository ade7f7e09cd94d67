-------------------------- MODULE DocumentBackfill --------------------------
(* Going back for documents: open projects that have no invitation and no TOR get targeted
   discovery jobs, at intervals and up to caps that are worked out from the log of attempts
   (document_backfill_enqueue.py, document_capture_attempt_repo.py, and what workflows/
   discover.py records).

   The log is abstracted to what the policy reads of it: of each project the latest
   attempt that ended, its age, the number of failures, the age of the first one without
   documents, and whether a job was enqueued since.  A timer starts one enqueuer at a time;
   jobs run whenever a crawler takes them. *)
EXTENDS Naturals, Sequences, FiniteSets, SequencesExt, Sublists

CONSTANTS
  Projects,
  NoProject,
  Limit, Prefetch,        \* limit and limit * 5
  MaxFailures,            \* max_attempts
  BaseBackoff, MaxBackoff, EnqueuedStale, NoDocumentsRetry, NoDocumentsMaxAge,
  JobRuns,                \* how often the queue runs a job that fails
  MaxLosses               \* bound on crashes

ASSUME BackfillAssumption ==
  /\ IsFiniteSet(Projects) /\ NoProject \notin Projects
  /\ {Limit, MaxFailures, JobRuns, NoDocumentsRetry, NoDocumentsMaxAge} \subseteq Nat \ {0}
  /\ Prefetch \in Nat /\ Prefetch >= Limit
  /\ {BaseBackoff, MaxBackoff, EnqueuedStale, MaxLosses} \subseteq Nat

VARIABLES
  wanted,     \* projects in an open state, before their deadline, without an invitation
              \* or a TOR: nothing reads the log of any other, and it is forgotten here
  last,       \* the latest terminal attempt: "never", "failed" or "none"
  elapsed,    \* time since then, up to the wait before the next
  fails,      \* transient_count
  bare,       \* projects with a NO_DOCUMENTS attempt
  first,      \* time since the first of them
  enqueued,   \* an ENQUEUED attempt is later than the terminal ones
  since,      \* time since then
  line,       \* projects that have been tried, the latest last
  runs,       \* runs left to the job in flight, 0 if there is none
  todo,       \* candidates the enqueuer has yet to see to
  made,       \* the project whose job it has just created
  losses      \* runs, dispatchers and enqueuers that died so far

log   == <<last, elapsed, fails, bare, first, line>>
marks == <<enqueued, since>>
backfillVars == <<wanted, log, marks, runs, todo, made, losses>>

MostRuns == (MaxFailures - 1) + 2 * JobRuns
Cap(n, top) == IF n > top THEN top ELSE n

BackfillInit ==
  /\ wanted = Projects
  /\ last = [p \in Projects |-> "never"] /\ elapsed = [p \in Projects |-> 0]
  /\ fails = [p \in Projects |-> 0] /\ bare = {} /\ first = [p \in Projects |-> 0]
  /\ enqueued = [p \in Projects |-> FALSE] /\ since = [p \in Projects |-> 0]
  /\ line = <<>> /\ runs = [p \in Projects |-> 0]
  /\ todo = <<>> /\ made = NoProject
  /\ losses = 0

-----------------------------------------------------------------------------
(* The policy *)

\* Mutants of Exhausted: one failure more; no cap on attempts without documents.
ExhaustedLate(p) ==
  \/ last[p] = "failed" /\ fails[p] > MaxFailures
  \/ last[p] = "none" /\ first[p] >= NoDocumentsMaxAge
ExhaustedByFailures(p) == last[p] = "failed" /\ fails[p] >= MaxFailures

\* The caps of the statement: failures count when the latest attempt failed, the age of
\* the first attempt without documents when the latest had none.
Exhausted(p) ==
  \/ last[p] = "failed" /\ fails[p] >= MaxFailures
  \/ last[p] = "none" /\ first[p] >= NoDocumentsMaxAge

\* Mutant of Throttled: an enqueued attempt does not grow stale.
ThrottledForGood(p) == enqueued[p]

Throttled(p) == enqueued[p] /\ since[p] < EnqueuedStale

Eligible(p) == p \in wanted /\ ~Throttled(p) /\ ~Exhausted(p)

\* _is_backoff_due
Delay(n) == Cap(BaseBackoff * 2 ^ (n - 1), MaxBackoff)

\* _is_time_cadence_due: how long after the latest attempt the next one is.
Wait(p) ==
  CASE last[p] = "never"  -> 0
    [] last[p] = "none"   -> NoDocumentsRetry
    [] last[p] = "failed" -> Delay(fails[p])

Ripe(p) == elapsed[p] >= Wait(p)

New == {p \in Projects : last[p] = "never"}

\* The order of the statement: what was never tried (by last_seen_at: in any order), then
\* what was tried longest ago.
Orders == {s \o line : s \in SetToSeqs(New)}

Take(s, n) == SubSeq(s, 1, Cap(n, Len(s)))

\* The rows that are fetched are filtered again, and cut to the limit.
Candidates(order) ==
  LET rows == Take(Only(order, {p \in Projects : Eligible(p)}), Prefetch)
  IN  Take(Only(rows, {p \in Projects : Ripe(p)}), Limit)

-----------------------------------------------------------------------------
(* The enqueuer *)

\* list_due_backfill_candidates
List ==
  /\ todo = <<>> /\ made = NoProject
  /\ \E order \in Orders : todo' = Candidates(order)
  /\ todo' # <<>>
  /\ UNCHANGED <<wanted, log, marks, runs, made, losses>>

\* create_pending_discovery_job_if_absent
Create ==
  LET p == Head(todo) IN
  /\ todo # <<>> /\ made = NoProject
  /\ IF runs[p] > 0 THEN todo' = Tail(todo) /\ UNCHANGED <<runs, made>>
     ELSE /\ runs' = [runs EXCEPT ![p] = JobRuns]
          /\ made' = p
          /\ UNCHANGED todo
  /\ UNCHANGED <<wanted, log, marks, losses>>

\* Another transaction: the ENQUEUED attempt. The crawler may have been quicker.
RecordEnqueued ==
  /\ made # NoProject
  /\ enqueued' = [enqueued EXCEPT ![made] = made \in wanted]
  /\ since' = [since EXCEPT ![made] = 0]
  /\ made' = NoProject /\ todo' = Tail(todo)
  /\ UNCHANGED <<wanted, log, runs, losses>>

Loss == losses < MaxLosses /\ losses' = losses + 1

EnqueuerDies ==
  /\ todo # <<>> /\ Loss
  /\ todo' = <<>> /\ made' = NoProject
  /\ UNCHANGED <<wanted, log, marks, runs>>

-----------------------------------------------------------------------------
(* The runs of a job *)

\* What the log says of p from now on.
Logs(p, how, failures, none) ==
  /\ last' = [last EXCEPT ![p] = how] /\ elapsed' = [elapsed EXCEPT ![p] = 0]
  /\ fails' = [fails EXCEPT ![p] = failures]
  /\ LET others == Only(line, Projects \ {p})
     IN  line' = IF how = "never" THEN others ELSE Append(others, p)
  /\ bare' = IF none THEN bare \cup {p} ELSE bare \ {p}
  /\ first' = IF none THEN first ELSE [first EXCEPT ![p] = 0]
  /\ enqueued' = [enqueued EXCEPT ![p] = FALSE] /\ since' = [since EXCEPT ![p] = 0]

\* Nothing looks p up any more.
Forget(p) ==
  /\ wanted' = wanted \ {p}
  /\ Logs(p, "never", 0, FALSE)

\* The job is done, or the queue runs it again.
Over(p)  == runs' = [runs EXCEPT ![p] = 0]
Again(p) == runs' = [runs EXCEPT ![p] = @ - 1]

\* An invitation or a TOR is stored.
Captures(p) ==
  /\ runs[p] > 0 /\ Over(p)
  /\ Forget(p)
  /\ UNCHANGED <<todo, made, losses>>

\* NO_DOCUMENTS
FindsNone(p) ==
  /\ runs[p] > 0 /\ Over(p)
  /\ IF p \in wanted
     THEN Logs(p, "none", fails[p], TRUE)
     ELSE UNCHANGED <<log, marks>>
  /\ UNCHANGED <<wanted, todo, made, losses>>

\* FAILED or TIMEOUT, also when the project is not rediscovered.
LogsFailure(p) ==
  /\ IF p \in wanted
     THEN Logs(p, "failed", Cap(fails[p] + 1, MostRuns + MaxLosses + 1), p \in bare)
     ELSE UNCHANGED <<log, marks>>
  /\ UNCHANGED <<wanted, todo, made>>

Fails(p) ==
  /\ runs[p] > 0 /\ (Over(p) \/ Again(p))
  /\ LogsFailure(p)
  /\ UNCHANGED losses

\* SUCCEEDED, with documents of other types: nothing the policy counts, as often as you like.
SucceedsOtherwise(p) ==
  /\ runs[p] > 0 /\ Over(p)
  /\ UNCHANGED <<wanted, log, marks, todo, made, losses>>

\* The run dies before it records an attempt.
LeavesNothing(p) ==
  /\ runs[p] > 0 /\ (Over(p) \/ Again(p)) /\ Loss
  /\ UNCHANGED <<wanted, log, marks, todo, made>>

\* The run failed, and its dispatcher dies before it counts it: the next claim is for the
\* same attempt of the job.
FailsUncounted(p) ==
  /\ runs[p] > 0 /\ UNCHANGED runs /\ Loss
  /\ LogsFailure(p)

-----------------------------------------------------------------------------

\* The project moves on, or its deadline passes.
Closes(p) ==
  /\ p \in wanted
  /\ Forget(p)
  /\ UNCHANGED <<runs, todo, made, losses>>

Later(n, top) == Cap(n + 1, top)

TimePasses ==
  /\ elapsed' = [p \in Projects |-> Later(elapsed[p], Wait(p))]
  /\ first' = [p \in Projects |-> IF p \in bare THEN Later(first[p], NoDocumentsMaxAge) ELSE 0]
  /\ since' = [p \in Projects |-> IF enqueued[p] THEN Later(since[p], EnqueuedStale) ELSE 0]
  /\ UNCHANGED <<wanted, last, fails, bare, line, enqueued, runs, todo, made, losses>>

Run(p) == Captures(p) \/ FindsNone(p) \/ Fails(p) \/ SucceedsOtherwise(p)

BackfillNext ==
  \/ List \/ Create \/ RecordEnqueued \/ EnqueuerDies \/ TimePasses
  \/ \E p \in Projects : Run(p) \/ LeavesNothing(p) \/ FailsUncounted(p) \/ Closes(p)

BackfillSpec == BackfillInit /\ [][BackfillNext]_backfillVars

\* The timer starts the enqueuer, which runs on, and a crawler takes every job in the end;
\* no project has to close or to have documents.
FairBackfill ==
  /\ BackfillSpec
  /\ WF_backfillVars(List) /\ WF_backfillVars(Create) /\ WF_backfillVars(RecordEnqueued)
  /\ WF_backfillVars(TimePasses)
  /\ \A p \in Projects : WF_backfillVars(Run(p))

-----------------------------------------------------------------------------
(* Properties *)

\* A project whose documents nobody found missing has at most two jobs' worth of failures
\* beyond the attempts allowed before: the list was read with one attempt to go, the job in
\* flight failed in the meantime, and another was created (list_due_backfill_candidates,
\* create_pending_discovery_job_if_absent).  A crash may add one.
FailuresBounded == \A p \in Projects \ bare : fails[p] <= MostRuns + losses

KeepsSucceeding(p) == []<><<SucceedsOtherwise(p)>>_backfillVars

\* The retries of a project come to an end, however failures and runs without documents
\* alternate, unless its runs keep succeeding with documents of other types: the cap on
\* failures and the cap on the age of the first attempt without documents leave no other
\* way around both.
RetriesEnd == \A p \in Projects : <>[](runs[p] = 0) \/ KeepsSucceeding(p)

\* Nobody is forgotten: a project that lacks its documents and has attempts left gets a
\* job, unless it closes or its attempts run out, or others keep succeeding with documents
\* of other types: they stay among those who were never tried, who come first.
DueIsTried ==
  \A p \in Projects :
    \/ p \in wanted /\ ~Exhausted(p) ~> runs[p] > 0 \/ p \notin wanted \/ Exhausted(p)
    \/ \E q \in Projects \ {p} : KeepsSucceeding(q)
=============================================================================
