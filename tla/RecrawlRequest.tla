--------------------------- MODULE RecrawlRequest ---------------------------
(* Recrawl requests.  An operator who asks for a recrawl gets the id of a request to
   poll; the request is correlated with the discovery jobs of the tenant's active
   keywords, some of which may be in flight already, and its status is computed from
   the jobs and their runs each time it is read (recrawl_request_repo.py,
   rules_service.py, run_repo.py).

   Of the life of a job, which is DiscoveryQueue's and AgentInbox's matter, the
   module keeps what a request can tell apart. *)
EXTENDS Naturals, Sequences, FiniteSets, FiniteSetsExt, SequencesExt

CONSTANTS
  Keywords,
  AgentKeywords,  \* those of profiles that are crawled by remote agents
  Requests,
  MaxJobs,        \* bound on the jobs
  MaxScheduled,   \* bound on those that no recrawl creates
  MaxAttempts,    \* max_attempts of a job
  MaxTroubles,    \* bound on crawls that fail and claims that lapse
  None

Jobs == 1..MaxJobs   \* in the order of created_at

ASSUME RecrawlAssumption ==
  /\ IsFiniteSet(Keywords) /\ AgentKeywords \subseteq Keywords
  /\ None \notin Requests \cup Keywords
  /\ MaxJobs \in Nat /\ MaxScheduled \in Nat
  /\ MaxAttempts \in Nat \ {0} /\ MaxTroubles \in Nat

VARIABLES
  created,    \* number of jobs
  keyword,    \* of a job
  manual,     \* jobs a recrawl has created
  state,      \* job_status, and whether a pending job is claimed
  attempts,   \* attempt_count
  request,    \* recrawl_request_id of a job
  handed,     \* that of the job as its claim was handed out
  runs,       \* the runs with the discovery_job_id of a job: their requests and statuses
  served,     \* the jobs whose present claim has had its run
  requested,  \* requested_keyword_count of a request, 0 if there is none
  troubles    \* crawls that failed, claims that lapsed

jobVars     == <<created, keyword, manual>>
claimVars   == <<handed, served>>
vars == <<jobVars, state, attempts, request, claimVars, runs, requested, troubles>>

Finished == {"succeeded", "failed"}     \* of a run; partial is like succeeded
States   == {"absent", "pending", "claimed", "result_received", "dispatched", "failed"}

Init ==
  /\ created = 0 /\ keyword = [j \in Jobs |-> None] /\ manual = {}
  /\ state = [j \in Jobs |-> "absent"] /\ attempts = [j \in Jobs |-> 0]
  /\ request = [j \in Jobs |-> None] /\ handed = [j \in Jobs |-> None]
  /\ runs = [j \in Jobs |-> <<>>]
  /\ requested = [r \in Requests |-> 0] /\ served = {}
  /\ troubles = 0

-----------------------------------------------------------------------------
(* Creation *)

\* Mutant of InFlight: a job whose result has not been applied is taken for done.
InFlightPending(j) == state[j] \in {"pending", "claimed"}

\* IN_FLIGHT_DISCOVERY_JOB_STATUS_VALUES
InFlight(j) == state[j] \in {"pending", "claimed", "result_received"}

JobsOf(r) == {j \in Jobs : request[j] = r /\ state[j] # "absent"}
Latest(S) == IF S = {} THEN 0 ELSE Max(S)

\* The newest job in flight for a keyword, 0 if there is none.
Existing(k) == Latest({j \in Jobs : keyword[j] = k /\ InFlight(j)})

\* The requests the jobs in flight for the keywords K belong to.
Owners(K) == {request[Existing(k)] : k \in {k \in K : Existing(k) # 0}} \ {None}

\* What covers a keyword when the request r is extended: a job in flight, or any job
\* of the request.
Cover(r, k) ==
  IF Existing(k) # 0 THEN Existing(k) ELSE Latest({j \in JobsOf(r) : keyword[j] = k})

\* Mutant of Recount: requested_keyword_count is left as it is.
RecountNew(r, n) ==
  requested' = [requested EXCEPT ![r] = IF @ = 0 THEN n ELSE @]

\* correlated_job_count
Recount(r, n) == requested' = [requested EXCEPT ![r] = n]

\* A job that has a request is left to it.
Adopts(j) == request[j] = None

\* The transaction for the request r when the keywords missing get jobs of their own
\* and the jobs that cover the others are adopted.
Attach(r, covering, missing) ==
  LET new == (created + 1)..(created + Cardinality(missing))
      adopted == {j \in covering : Adopts(j)} IN
  /\ created + Cardinality(missing) <= MaxJobs
  /\ created' = created + Cardinality(missing)
  /\ \E f \in [new -> missing] :
       /\ \A k \in missing : \E j \in new : f[j] = k
       /\ keyword' = [j \in Jobs |-> IF j \in new THEN f[j] ELSE keyword[j]]
  /\ manual' = manual \cup new
  /\ state' = [j \in Jobs |-> IF j \in new THEN "pending" ELSE state[j]]
  /\ request' = [j \in Jobs |-> IF j \in new \cup adopted THEN r ELSE request[j]]
  /\ Recount(r, Cardinality(JobsOf(r) \cup new \cup adopted))
  /\ UNCHANGED <<attempts, claimVars, runs, troubles>>

\* create_request, with the lock of the tenant's row: nothing in flight belongs to a
\* request, and there is a new one (of the ids that are left, whichever).  A recovery by
\* an operator is the case where nothing is in flight; repeated with the same key, it
\* writes nothing.
NewRequest(K, r) ==
  /\ Owners(K) = {} /\ requested[r] = 0
  /\ r = CHOOSE q \in Requests : requested[q] = 0
  /\ Attach(r, {Existing(k) : k \in K} \ {0}, {k \in K : Existing(k) = 0})

\* The jobs in flight belong to the request r.  When every keyword is covered nothing
\* is written.  (Jobs of two requests are an error, and nothing is written either.)
SameRequest(K, r) ==
  /\ Owners(K) = {r}
  /\ IF \A k \in K : Cover(r, k) # 0
     THEN UNCHANGED vars
     ELSE Attach(r, {Cover(r, k) : k \in K} \ {0}, {k \in K : Cover(r, k) = 0})

\* create_pending_discovery_job_if_absent: a job of a schedule or of a new profile,
\* which compares with jobs of its own trigger only, and without a lock: another one of
\* the keyword may well be in flight.
Enqueue(k) ==
  /\ created < MaxJobs /\ Cardinality((1..created) \ manual) < MaxScheduled
  /\ created' = created + 1
  /\ keyword' = [keyword EXCEPT ![created + 1] = k]
  /\ state' = [state EXCEPT ![created + 1] = "pending"]
  /\ UNCHANGED <<manual, attempts, request, claimVars, runs, requested, troubles>>

-----------------------------------------------------------------------------
(* The jobs and their runs *)

Agent(j) == keyword[j] \in AgentKeywords
Goes(j, to) == state' = [state EXCEPT ![j] = to]
Active(j)  == \E i \in DOMAIN runs[j] : runs[j][i].status = "running"

Trouble == troubles < MaxTroubles /\ troubles' = troubles + 1

Claim(j) ==
  /\ state[j] = "pending"
  /\ Goes(j, "claimed")
  /\ handed' = [handed EXCEPT ![j] = request[j]] /\ served' = served \ {j}
  /\ UNCHANGED <<jobVars, attempts, request, runs, requested, troubles>>

\* A dispatcher or an agent dies: the lease of its claim passes, and another claims
\* the job.
Reclaim(j) ==
  /\ state[j] = "claimed" /\ Trouble
  /\ handed' = [handed EXCEPT ![j] = request[j]] /\ served' = served \ {j}
  /\ UNCHANGED <<jobVars, state, attempts, request, runs, requested>>

\* Mutant of Tag: the run does not carry the request.
TagNone(j) == None

\* The recrawl_request_id of the run, from the snapshot of the job in the claim.
Tag(j) == handed[j]

\* create_run, with what the claim was handed out with; only one active run.
Reserve(j) ==
  /\ state[j] = "claimed" /\ ~Agent(j) /\ ~Active(j) /\ j \notin served
  /\ runs' = [runs EXCEPT ![j] = Append(@, [request |-> Tag(j), status |-> "running"])]
  /\ served' = served \cup {j}
  /\ UNCHANGED <<jobVars, state, attempts, request, handed, requested, troubles>>

\* mark_run_finished, or the repair of a run whose worker is gone.
RunEnds(j, status) ==
  /\ Active(j)
  /\ IF status = "failed" THEN Trouble ELSE UNCHANGED troubles
  /\ runs' = [runs EXCEPT ![j][Len(runs[j])].status = status]
  /\ UNCHANGED <<jobVars, state, attempts, request, claimVars, requested>>

\* The claim is over.
Free(j) == handed' = [handed EXCEPT ![j] = None] /\ served' = served \ {j}

Retry(j) ==
  /\ attempts' = [attempts EXCEPT ![j] = @ + 1]
  /\ Goes(j, IF attempts[j] + 1 < MaxAttempts THEN "pending" ELSE "failed")

\* The dispatcher settles its claim after the run has ended.
Settle(j) ==
  /\ state[j] = "claimed" /\ ~Agent(j)
  /\ j \in served /\ ~Active(j)
  /\ IF Last(runs[j]).status = "succeeded"
     THEN Goes(j, "dispatched") /\ UNCHANGED attempts
     ELSE Retry(j)
  /\ Free(j)
  /\ UNCHANGED <<jobVars, request, runs, requested, troubles>>

\* An agent submits a result, which the inbox processor applies or rejects.  Of a crawl
\* that fails it says nothing: its claim lapses.  The run of an agent has neither the
\* job nor the request.
AgentReports(j) ==
  /\ Agent(j) /\ state[j] = "claimed" /\ Goes(j, "result_received") /\ Free(j)
  /\ UNCHANGED <<jobVars, attempts, request, runs, requested, troubles>>

Apply(j) ==
  /\ state[j] = "result_received"
  /\ \E to \in {"dispatched", "failed"} : Goes(j, to)
  /\ UNCHANGED <<jobVars, attempts, request, claimVars, runs, requested, troubles>>

-----------------------------------------------------------------------------
(* get_status *)

\* The latest run that is correlated with the request of its job, none if there is none.
Matching(j) == {i \in DOMAIN runs[j] : runs[j][i].request = request[j]}
RunStatus(j) == IF Matching(j) = {} THEN "none" ELSE runs[j][Max(Matching(j))].status

\* _resolve_job_state, in the order of its tests.
JobState(j) ==
  CASE state[j] = "failed"                                     -> "failed"
    [] state[j] # "failed" /\ RunStatus(j) = "succeeded"       -> "succeeded"
    [] state[j] # "failed" /\ RunStatus(j) = "running"         -> "running"
    [] state[j] # "failed" /\ RunStatus(j) = "failed"          ->
         IF state[j] \in {"pending", "claimed"} THEN "retrying" ELSE "failed"
    [] state[j] = "result_received" /\ RunStatus(j) = "none"   -> "running"
    [] state[j] = "claimed" /\ RunStatus(j) = "none"           -> "running"
    [] state[j] = "pending" /\ RunStatus(j) = "none" /\ attempts[j] > 0 -> "retrying"
    [] OTHER -> "queued"

\* correlation_matches: the count is right, and no run of the jobs has another request.
Correlated(r) ==
  /\ Cardinality(JobsOf(r)) = requested[r]
  /\ \A j \in JobsOf(r) : Matching(j) = DOMAIN runs[j]

IsTerminal(r) ==
  Correlated(r) /\ \A j \in JobsOf(r) : JobState(j) \in {"succeeded", "failed"}

-----------------------------------------------------------------------------
Work(j) == Claim(j) \/ Reserve(j) \/ Settle(j) \/ AgentReports(j) \/ Apply(j)
Ends(j) == \E status \in Finished : RunEnds(j, status)

Next ==
  \/ \E K \in SUBSET Keywords \ {{}}, r \in Requests : NewRequest(K, r) \/ SameRequest(K, r)
  \/ \E k \in Keywords : Enqueue(k)
  \/ \E j \in Jobs : Work(j) \/ Ends(j) \/ Reclaim(j)

Spec == Init /\ [][Next]_vars

\* The dispatcher, the agents and the inbox processor keep working, runs end or are
\* repaired (DiscoveryQueue, AgentInbox and CandidateLedger have their liveness).
Fairness == \A j \in Jobs : WF_vars(Work(j)) /\ WF_vars(Ends(j))

FairSpec == Spec /\ Fairness

-----------------------------------------------------------------------------
(* Properties *)

\* The types; the jobs created so far, and no others, have a keyword and a state, and
\* only a claim has had a run or has been handed out with a request.
TypeOK ==
  /\ created \in 0..MaxJobs /\ manual \subseteq 1..created
  /\ keyword \in [Jobs -> Keywords \cup {None}]
  /\ state \in [Jobs -> States] /\ attempts \in [Jobs -> 0..MaxAttempts]
  /\ \A j \in Jobs : /\ (j > created) = (keyword[j] = None)
                     /\ (j > created) = (state[j] = "absent")
  /\ request \in [Jobs -> Requests \cup {None}] /\ handed \in [Jobs -> Requests \cup {None}]
  /\ served \subseteq {j \in Jobs : state[j] = "claimed"}
  /\ \A j \in Jobs : handed[j] # None => state[j] = "claimed"
  /\ runs \in [Jobs -> Seq([request : Requests \cup {None}, status : Finished \cup {"running"}])]
  /\ requested \in [Requests -> 0..MaxJobs] /\ troubles \in 0..MaxTroubles

\* What a request counts is what it is correlated with, whether it was created or
\* extended and whatever it adopted: otherwise it would never be terminal.
CountMatches == \A r \in Requests : Cardinality(JobsOf(r)) = requested[r]

\* Recrawls that overlap do not crawl a keyword twice: of two jobs they created for it,
\* the older one was done before the other was created.
RecrawlsShareJobs ==
  \A i, j \in manual :
    i < j /\ keyword[i] = keyword[j] => state[i] \in {"dispatched", "failed"}

\* A request ends for those who poll it, unless one of its jobs is an agent's, or was
\* adopted while it was being crawled.
RequestsEnd ==
  \A r \in Requests :
    requested[r] > 0 ~>
      \/ IsTerminal(r)
      \/ \E j \in JobsOf(r) : Agent(j) \/ (j \notin manual /\ Matching(j) # DOMAIN runs[j])
=============================================================================
