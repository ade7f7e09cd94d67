--------------------------- MODULE DiscoveryQueue ---------------------------
(***************************************************************************)
(* The durable discovery queue: rows of discovery_jobs claimed by lease    *)
(* and token, the crawl_runs row each claim reserves, the dispatcher that  *)
(* drives a worker process under a lease keeper, and the reconciler that   *)
(* fails runs whose worker is gone.                                        *)
(*                                                                         *)
(* A claim token is a fresh uuid; here the tokens are numbered in the      *)
(* order they are issued and 0 stands for NULL.  A claim reserves at most  *)
(* one run, so the run it reserves is named by the claim's token.          *)
(***************************************************************************)
EXTENDS Integers, FiniteSets

CONSTANTS
  Jobs,          \* rows of discovery_jobs (legacy backend)
  Executors,     \* dispatcher processes, each running one job at a time
  NoJob,         \* the job of a token that was never issued
  Nobody,        \* the owner of a run no living process owns
  LeaseTicks,    \* lease_seconds, in units of the model's clock
  MaxAttempts,   \* DiscoveryDispatchProcessor.max_attempts
  MaxClaims      \* bound: how many claims a behaviour may make

ASSUME DiscoveryAssumption ==
  /\ NoJob \notin Jobs
  /\ Nobody \notin Executors
  /\ LeaseTicks \in Nat \ {0}
  /\ MaxAttempts \in Nat \ {0}
  /\ MaxClaims \in Nat

VARIABLES
  jobStatus,   \* discovery_jobs.job_status ("absent": not enqueued yet)
  claimToken,  \* discovery_jobs.claim_token
  lease,       \* time left until lease_expires_at; 0 once it has passed
  due,         \* next_attempt_at <= now
  attempts,    \* discovery_jobs.attempt_count
  issued,      \* how many tokens have been issued
  jobOf,       \* the job a token was issued for
  runStatus,   \* crawl_runs.status of the run a token reserved
  owner,       \* summary_json.worker_owner_pid
  child,       \* the worker process of the run
  pc,          \* where an executor stands in process_job
  tok,         \* job.claim_token of the job record it works on
  keeper,      \* its DiscoveryJobLeaseKeeper
  deadline,    \* the keeper's last confirmed expiry, as time left
  outcome,     \* what the dispatch ended with
  doomed       \* runs a reconciliation pass has decided to fail

jobVars  == <<jobStatus, claimToken, lease, due, attempts>>
runVars  == <<runStatus, owner, child>>
execVars == <<pc, tok, keeper, deadline, outcome, doomed>>
vars     == <<jobVars, issued, jobOf, runVars, execVars>>

NoToken == 0
Tokens  == 1 .. MaxClaims

ActiveRun(t)    == runStatus[t] \in {"queued", "running"}
RunsOf(j)       == {t \in Tokens : jobOf[t] = j}
NoActiveRun(j)  == \A t \in RunsOf(j) : ~ActiveRun(t)
CompletedRun(j) == \E t \in RunsOf(j) : runStatus[t] = "succeeded"

\* claim_token is set and its lease has not passed
ClaimLive(j)    == claimToken[j] # NoToken /\ lease[j] > 0
\* t is the current, unexpired claim of its job
HoldsClaim(t)   == claimToken[jobOf[t]] = t /\ lease[jobOf[t]] > 0

Job(e) == jobOf[tok[e]]

Init ==
  /\ jobStatus  = [j \in Jobs |-> "absent"]
  /\ claimToken = [j \in Jobs |-> NoToken]
  /\ lease      = [j \in Jobs |-> 0]
  /\ due        = [j \in Jobs |-> FALSE]
  /\ attempts   = [j \in Jobs |-> 0]
  /\ issued     = 0
  /\ jobOf      = [t \in Tokens |-> NoJob]
  /\ runStatus  = [t \in Tokens |-> "none"]
  /\ owner      = [t \in Tokens |-> Nobody]
  /\ child      = [t \in Tokens |-> "none"]
  /\ pc         = [e \in Executors |-> "idle"]
  /\ tok        = [e \in Executors |-> NoToken]
  /\ keeper     = [e \in Executors |-> "off"]
  /\ deadline   = [e \in Executors |-> 0]
  /\ outcome    = [e \in Executors |-> "none"]
  /\ doomed     = [e \in Executors |-> {}]

-----------------------------------------------------------------------------
(* The queue and the clock *)

\* create_discovery_job: a new row is pending and due at once.
Enqueue(j) ==
  /\ jobStatus[j] = "absent"
  /\ jobStatus' = [jobStatus EXCEPT ![j] = "pending"]
  /\ due' = [due EXCEPT ![j] = TRUE]
  /\ UNCHANGED <<claimToken, lease, attempts, issued, jobOf, runVars, execVars>>

\* next_attempt_at of a rescheduled job passes.
BecomeDue(j) ==
  /\ jobStatus[j] = "pending" /\ ~due[j]
  /\ due' = [due EXCEPT ![j] = TRUE]
  /\ UNCHANGED <<jobStatus, claimToken, lease, attempts, issued, jobOf,
                 runVars, execVars>>

\* One unit of time: every lease and every keeper's deadline draws nearer.
Tick ==
  /\ \/ \E j \in Jobs : lease[j] > 0
     \/ \E e \in Executors : deadline[e] > 0
  /\ lease' = [j \in Jobs |-> IF lease[j] > 0 THEN lease[j] - 1 ELSE 0]
  /\ deadline' = [e \in Executors |->
                    IF deadline[e] > 0 THEN deadline[e] - 1 ELSE 0]
  /\ UNCHANGED <<jobStatus, claimToken, due, attempts, issued, jobOf, runVars,
                 pc, tok, keeper, outcome, doomed>>

-----------------------------------------------------------------------------
(* The dispatcher *)

Claimable(j) ==
  /\ jobStatus[j] = "pending"
  /\ due[j]
  /\ NoActiveRun(j)
  /\ claimToken[j] = NoToken \/ lease[j] = 0

\* claim_pending_discovery_jobs: the candidate query only proposes the row; the
\* UPDATE under the row lock repeats every condition, so the claim is one step.
Claim(e, j) ==
  LET t == issued + 1 IN
  /\ pc[e] = "idle" /\ issued < MaxClaims
  /\ Claimable(j)
  /\ issued' = t
  /\ jobOf' = [jobOf EXCEPT ![t] = j]
  /\ claimToken' = [claimToken EXCEPT ![j] = t]
  /\ lease' = [lease EXCEPT ![j] = LeaseTicks]
  /\ pc' = [pc EXCEPT ![e] = "claimed"]
  /\ tok' = [tok EXCEPT ![e] = t]
  /\ keeper' = [keeper EXCEPT ![e] = "owned"]
  /\ deadline' = [deadline EXCEPT ![e] = LeaseTicks]
  /\ UNCHANGED <<jobStatus, due, attempts, runVars, outcome, doomed>>

\* Profile lock, warm-up or settings fail before a run is reserved.
PrepareFails(e, o) ==
  /\ pc[e] = "claimed"
  /\ pc' = [pc EXCEPT ![e] = "leaving"]
  /\ outcome' = [outcome EXCEPT ![e] = o]
  /\ UNCHANGED <<jobVars, issued, jobOf, runVars, tok, keeper, deadline, doomed>>

\* Mutant of Reservable: a run is reserved for a job that merely exists.
ReservableUnchecked(t) == jobOf[t] \in Jobs

\* Mutant of Reservable: no look at the lease and the other runs of the job.
ReservableByStatus(t) == jobStatus[jobOf[t]] = "pending"

Reservable(t) ==
  /\ jobStatus[jobOf[t]] = "pending"
  /\ HoldsClaim(t)
  /\ NoActiveRun(jobOf[t])

\* create_run with a claim token: locks the job row and re-checks the claim.
ReserveRun(e) ==
  /\ pc[e] = "claimed" /\ Reservable(tok[e])
  /\ runStatus' = [runStatus EXCEPT ![tok[e]] = "queued"]
  /\ owner' = [owner EXCEPT ![tok[e]] = e]
  /\ pc' = [pc EXCEPT ![e] = "reserved"]
  /\ UNCHANGED <<jobVars, issued, jobOf, child, tok, keeper, deadline, outcome,
                 doomed>>

\* create_run raises StaleDiscoveryJobClaimError.
ReserveStale(e) ==
  /\ pc[e] = "claimed" /\ ~Reservable(tok[e])
  /\ pc' = [pc EXCEPT ![e] = "leaving"]
  /\ outcome' = [outcome EXCEPT ![e] = "stale"]
  /\ UNCHANGED <<jobVars, issued, jobOf, runVars, tok, keeper, deadline, doomed>>

\* Popen, the "spawned" run summary and the payload on the worker's stdin.
Spawn(e) ==
  /\ pc[e] = "reserved"
  /\ child' = [child EXCEPT ![tok[e]] = "alive"]
  /\ pc' = [pc EXCEPT ![e] = "observing"]
  /\ UNCHANGED <<jobVars, issued, jobOf, runStatus, owner, tok, keeper, deadline,
                 outcome, doomed>>

\* The worker could not be started: payload, Popen or summary update failed.
SpawnFails(e) ==
  /\ pc[e] = "reserved"
  /\ pc' = [pc EXCEPT ![e] = "completing"]
  /\ outcome' = [outcome EXCEPT ![e] = "error"]
  /\ UNCHANGED <<jobVars, issued, jobOf, runVars, tok, keeper, deadline, doomed>>

\* The worker exits and its validated result says succeeded or partial.
ObserveSuccess(e) ==
  /\ pc[e] = "observing" /\ runStatus[tok[e]] = "succeeded"
  /\ child[tok[e]] = "alive"
  /\ child' = [child EXCEPT ![tok[e]] = "gone"]
  /\ pc' = [pc EXCEPT ![e] = "leaving"]
  /\ outcome' = [outcome EXCEPT ![e] = "ok"]
  /\ UNCHANGED <<jobVars, issued, jobOf, runStatus, owner, tok, keeper, deadline,
                 doomed>>

\* Signal, timeout, bad exit or result, or cancellation by the lost lease: the
\* process group is killed before the run is completed.
ObserveFailure(e, o) ==
  /\ pc[e] = "observing"
  /\ child' = [child EXCEPT ![tok[e]] = "gone"]
  /\ pc' = [pc EXCEPT ![e] = "completing"]
  /\ outcome' = [outcome EXCEPT ![e] = o]
  /\ UNCHANGED <<jobVars, issued, jobOf, runStatus, owner, tok, keeper, deadline,
                 doomed>>

\* The worker group survives the kill: terminalization is given up.
ReapFails(e) ==
  /\ pc[e] = "observing"
  /\ pc' = [pc EXCEPT ![e] = "leaving"]
  /\ outcome' = [outcome EXCEPT ![e] = "incomplete"]
  /\ UNCHANGED <<jobVars, issued, jobOf, runVars, tok, keeper, deadline, doomed>>

\* complete_abnormal_run: fail the run if it is active; a run that turns out to
\* have completed wins over the dispatcher's error.
CompleteAbnormal(e) ==
  /\ pc[e] = "completing"
  /\ pc' = [pc EXCEPT ![e] = "leaving"]
  /\ runStatus' = [runStatus EXCEPT ![tok[e]] =
                     IF ActiveRun(tok[e]) THEN "failed" ELSE @]
  /\ outcome' = [outcome EXCEPT ![e] =
                   IF runStatus[tok[e]] = "succeeded" THEN "completed" ELSE @]
  /\ UNCHANGED <<jobVars, issued, jobOf, owner, child, tok, keeper, deadline,
                 doomed>>

\* The run's status could be neither written nor read back.
CompleteUnconfirmed(e) ==
  /\ pc[e] = "completing"
  /\ pc' = [pc EXCEPT ![e] = "leaving"]
  /\ outcome' = [outcome EXCEPT ![e] = "incomplete"]
  /\ UNCHANGED <<jobVars, issued, jobOf, runVars, tok, keeper, deadline, doomed>>

\* The executor turns to the next job, its keeper stopped.
Release(e) ==
  /\ pc' = [pc EXCEPT ![e] = "idle"]
  /\ tok' = [tok EXCEPT ![e] = NoToken]
  /\ keeper' = [keeper EXCEPT ![e] = "off"]
  /\ deadline' = [deadline EXCEPT ![e] = 0]
  /\ outcome' = [outcome EXCEPT ![e] = "none"]

\* ensure_owned on leaving the keeper's block: a completed run skips it.
LeaveStale(e) ==
  /\ pc[e] = "leaving"
  /\ \/ outcome[e] = "stale"
     \/ keeper[e] = "lost" /\ outcome[e] # "completed"
  /\ Release(e)
  /\ UNCHANGED <<jobVars, issued, jobOf, runVars, doomed>>

LeaveOwned(e) ==
  /\ pc[e] = "leaving" /\ outcome[e] # "stale"
  /\ keeper[e] = "owned" \/ outcome[e] = "completed"
  /\ pc' = [pc EXCEPT ![e] = "settling"]
  /\ keeper' = [keeper EXCEPT ![e] = "off"]
  /\ deadline' = [deadline EXCEPT ![e] = 0]
  /\ UNCHANGED <<jobVars, issued, jobOf, runVars, tok, outcome, doomed>>

\* Mutant of Disposition: an unconfirmed end counts as done.
DispositionHopeful(o, tries) ==
  CASE o \in {"ok", "incomplete"} -> "dispatched"
    [] o = "nonretriable" \/ tries + 1 >= MaxAttempts -> "failed"
    [] OTHER -> "pending"

\* The disposition process_job asks record_discovery_job_attempt to write.  While
\* the token is current nobody else counts an attempt, so attempts[j] is still
\* the attempt_count the executor read when it claimed.
Disposition(o, tries) ==
  CASE o = "ok" -> "dispatched"
    [] o = "nonretriable" \/ (o = "error" /\ tries + 1 >= MaxAttempts) -> "failed"
    [] OTHER -> "pending"

WriteAttempt(j, status) ==
  /\ jobStatus' = [jobStatus EXCEPT ![j] = status]
  /\ attempts' = [attempts EXCEPT ![j] = @ + 1]
  /\ claimToken' = [claimToken EXCEPT ![j] = NoToken]
  /\ lease' = [lease EXCEPT ![j] = 0]
  /\ due' = [due EXCEPT ![j] = (status # "pending")]

\* Mutant of RecordAttempt: the caller's token is not compared.
RecordAnyClaim(e) ==
  /\ pc[e] = "settling" /\ outcome[e] # "completed"
  /\ WriteAttempt(Job(e), Disposition(outcome[e], attempts[Job(e)]))
  /\ Release(e)
  /\ UNCHANGED <<issued, jobOf, runVars, doomed>>

\* record_discovery_job_attempt with the caller's token current and live.
RecordAttempt(e) ==
  /\ pc[e] = "settling" /\ outcome[e] # "completed"
  /\ HoldsClaim(tok[e])
  /\ WriteAttempt(Job(e), Disposition(outcome[e], attempts[Job(e)]))
  /\ Release(e)
  /\ UNCHANGED <<issued, jobOf, runVars, doomed>>

\* The claim is stale, or the database refuses: the row is left as it is.
RecordRefused(e) ==
  /\ pc[e] = "settling"
  /\ Release(e)
  /\ UNCHANGED <<jobVars, issued, jobOf, runVars, doomed>>

\* recover_completed_discovery_job: looks for a completed run of the job, and at
\* neither the job's status nor its token.
RecoverCompleted(e) ==
  /\ pc[e] = "settling" /\ outcome[e] = "completed"
  /\ CompletedRun(Job(e))
  /\ WriteAttempt(Job(e), "dispatched")
  /\ Release(e)
  /\ UNCHANGED <<issued, jobOf, runVars, doomed>>

-----------------------------------------------------------------------------
(* The lease keeper's thread *)

\* Mutant of Renewable: the token is not compared.
RenewableAnyClaim(t) == jobStatus[jobOf[t]] = "pending"

Renewable(t) == jobStatus[jobOf[t]] = "pending" /\ HoldsClaim(t)

\* renew_discovery_job_lease succeeds; the answer may be lost on the way back.
Renew(e, answered) ==
  /\ keeper[e] = "owned" /\ Renewable(tok[e])
  /\ lease' = [lease EXCEPT ![Job(e)] = LeaseTicks]
  /\ deadline' = IF answered THEN [deadline EXCEPT ![e] = LeaseTicks] ELSE deadline
  /\ UNCHANGED <<jobStatus, claimToken, due, attempts, issued, jobOf, runVars,
                 pc, tok, keeper, outcome, doomed>>

\* Renewal is refused as stale, or the last confirmed expiry has passed.
LoseLease(e) ==
  /\ keeper[e] = "owned"
  /\ ~Renewable(tok[e]) \/ deadline[e] = 0
  /\ keeper' = [keeper EXCEPT ![e] = "lost"]
  /\ UNCHANGED <<jobVars, issued, jobOf, runVars, pc, tok, deadline, outcome,
                 doomed>>

-----------------------------------------------------------------------------
(* The worker process: run_discover_workflow *)

WorkerStart(t) ==
  /\ child[t] = "alive" /\ runStatus[t] = "queued"
  /\ runStatus' = [runStatus EXCEPT ![t] = "running"]
  /\ UNCHANGED <<jobVars, issued, jobOf, owner, child, execVars>>

\* mark_run_finished writes only over an active status.
WorkerFinish(t, status) ==
  /\ child[t] = "alive" /\ runStatus[t] = "running"
  /\ runStatus' = [runStatus EXCEPT ![t] = status]
  /\ UNCHANGED <<jobVars, issued, jobOf, owner, child, execVars>>

WorkerDies(t) ==
  /\ child[t] = "alive"
  /\ child' = [child EXCEPT ![t] = "gone"]
  /\ UNCHANGED <<jobVars, issued, jobOf, runStatus, owner, execVars>>

-----------------------------------------------------------------------------
(* Crashes and reconciliation *)

\* The executor process dies and is started again under another pid.  Its worker,
\* the leader of its own session, lives on; its runs have no owner any more.  (A
\* process that owns nothing loses only its pass, like a pass that finds nothing.)
Crash(e) ==
  /\ pc[e] \notin {"idle", "reconciling"} \/ \E t \in Tokens : owner[t] = e
  /\ Release(e)
  /\ owner' = [t \in Tokens |-> IF owner[t] = e THEN Nobody ELSE owner[t]]
  /\ doomed' = [doomed EXCEPT ![e] = {}]
  /\ UNCHANGED <<jobVars, issued, jobOf, runStatus, child>>

\* Mutant of WorkerMissing: process visibility overrides a live claim.
WorkerMissingDespiteClaim(e, t, inactive) ==
  \/ jobStatus[jobOf[t]] = "failed"
  \/ t \in inactive
  \/ owner[t] = e /\ child[t] # "alive"

\* Mutant of WorkerMissing: only runs of this very process are looked at.
WorkerMissingHere(e, t, inactive) ==
  \/ jobStatus[jobOf[t]] = "failed"
  \/ ~ClaimLive(jobOf[t]) /\ owner[t] = e /\ child[t] # "alive"

\* fail_runs_with_missing_workers, seen from process e.  Inactive names the runs
\* with no activity for LEGACY_RESERVATION_STALE_SECONDS.
WorkerMissing(e, t, inactive) ==
  \/ jobStatus[jobOf[t]] = "failed"
  \/ /\ ~ClaimLive(jobOf[t])
     /\ \/ t \in inactive
        \/ owner[t] = e /\ child[t] # "alive"

ReconcileRead(e, inactive) ==
  /\ pc[e] = "idle"
  /\ pc' = [pc EXCEPT ![e] = "reconciling"]
  /\ doomed' = [doomed EXCEPT ![e] =
                  {t \in Tokens : ActiveRun(t) /\ WorkerMissing(e, t, inactive)}]
  /\ UNCHANGED <<jobVars, issued, jobOf, runVars, tok, keeper, deadline, outcome>>

\* The UPDATEs that follow the SELECT repeat the status test, not the others.
ReconcileWrite(e) ==
  /\ pc[e] = "reconciling"
  /\ pc' = [pc EXCEPT ![e] = "idle"]
  /\ doomed' = [doomed EXCEPT ![e] = {}]
  /\ runStatus' = [t \in Tokens |->
                     IF t \in doomed[e] /\ ActiveRun(t) THEN "failed"
                                                        ELSE runStatus[t]]
  /\ UNCHANGED <<jobVars, issued, jobOf, owner, child, tok, keeper, deadline,
                 outcome>>

-----------------------------------------------------------------------------
Failures == {"error", "nonretriable"}

Worker(t) ==
  \/ WorkerStart(t)
  \/ \E status \in {"succeeded", "failed"} : WorkerFinish(t, status)
  \/ WorkerDies(t)

Settle(e) == RecordAttempt(e) \/ RecordRefused(e) \/ RecoverCompleted(e)

\* The dispatcher's own steps once it holds a claim.
Dispatch(e) ==
  \/ ReserveRun(e) \/ ReserveStale(e) \/ Spawn(e) \/ SpawnFails(e)
  \/ \E o \in Failures : PrepareFails(e, o) \/ ObserveFailure(e, o)
  \/ ObserveSuccess(e) \/ ReapFails(e)
  \/ CompleteAbnormal(e) \/ CompleteUnconfirmed(e)
  \/ LeaveStale(e) \/ LeaveOwned(e)
  \/ Settle(e)

Keep(e) == LoseLease(e) \/ \E answered \in BOOLEAN : Renew(e, answered)

Reconcile(e) ==
  \/ \E inactive \in SUBSET {t \in Tokens : ActiveRun(t)} : ReconcileRead(e, inactive)
  \/ ReconcileWrite(e)

Next ==
  \/ Tick
  \/ \E j \in Jobs : Enqueue(j) \/ BecomeDue(j)
  \/ \E e \in Executors :
       \/ \E j \in Jobs : Claim(e, j)
       \/ Dispatch(e) \/ Keep(e) \/ Reconcile(e) \/ Crash(e)
  \/ \E t \in Tokens : Worker(t)

Spec == Init /\ [][Next]_vars

\* Fairness.  Each executor's loop keeps running, its keeper's thread keeps time,
\* a dispatched worker ends or times out, next_attempt_at and leases pass, and an
\* idle executor keeps claiming and reconciling; a run left alone stays inactive,
\* so a pass that finds every such run inactive comes round again and again.
Fairness ==
  /\ WF_vars(Tick)
  /\ \A j \in Jobs : WF_vars(BecomeDue(j))
  /\ \A e \in Executors :
       /\ WF_vars(Dispatch(e)) /\ WF_vars(LoseLease(e))
       /\ WF_vars(ReconcileWrite(e))
       /\ SF_vars(ReconcileRead(e, {t \in Tokens : ActiveRun(t)}))

FairSpec == Spec /\ Fairness

-----------------------------------------------------------------------------
(* Properties *)

JobStatuses == {"absent", "pending", "dispatched", "failed"}
RunStatuses == {"none", "queued", "running", "succeeded", "failed"}
Stages      == {"idle", "claimed", "reserved", "observing", "completing",
                "leaving", "settling", "reconciling"}
Outcomes    == {"none", "ok", "stale", "completed", "incomplete"} \cup Failures

\* Every column and every local variable keeps its type.
TypeOK ==
  /\ jobStatus \in [Jobs -> JobStatuses]
  /\ claimToken \in [Jobs -> 0 .. MaxClaims]
  /\ lease \in [Jobs -> 0 .. LeaseTicks]
  /\ due \in [Jobs -> BOOLEAN]
  /\ attempts \in [Jobs -> Nat]
  /\ issued \in 0 .. MaxClaims
  /\ jobOf \in [Tokens -> Jobs \cup {NoJob}]
  /\ runStatus \in [Tokens -> RunStatuses]
  /\ owner \in [Tokens -> Executors \cup {Nobody}]
  /\ child \in [Tokens -> {"none", "alive", "gone"}]
  /\ pc \in [Executors -> Stages]
  /\ tok \in [Executors -> 0 .. MaxClaims]
  /\ keeper \in [Executors -> {"off", "owned", "lost"}]
  /\ deadline \in [Executors -> 0 .. LeaseTicks]
  /\ outcome \in [Executors -> Outcomes]
  /\ doomed \in [Executors -> SUBSET Tokens]

\* The executor believes its lease is good: its keeper has not given up and the
\* last expiry it confirmed has not passed.
Believes(e) == keeper[e] = "owned" /\ deadline[e] > 0

\* No two executors ever believe they own the same job, whatever renewals were
\* lost or refused (claim_pending_discovery_jobs, DiscoveryJobLeaseKeeper).
ExclusiveBelief ==
  \A e, f \in Executors :
    Believes(e) /\ Believes(f) /\ Job(e) = Job(f) => e = f

\* A job never has two crawls in flight: the claim's and create_run's active-run
\* checks hold against expired claims, crashed owners and late reservations.
OneActiveRun ==
  \A t, u \in Tokens :
    ActiveRun(t) /\ ActiveRun(u) /\ jobOf[t] = jobOf[u] => t = u

\* A job marked dispatched has a run that really completed; neither the worker's
\* word nor a reconciler that failed its run meanwhile can make it otherwise.
DispatchedMeansCompleted ==
  \A j \in Jobs : jobStatus[j] = "dispatched" => CompletedRun(j)

\* A run that has ended keeps its status, though the reconciler decides from rows
\* it read before it writes and a worker may finish late.
EndedRunsStay ==
  [][\A t \in Tokens :
       runStatus[t] \in {"succeeded", "failed"} => runStatus'[t] = runStatus[t]]_vars

\* The executor that writes an attempt holds the current, unexpired token.
HolderSettles(j) ==
  \E e \in Executors :
    /\ pc[e] = "settling" /\ pc'[e] = "idle"
    /\ tok[e] # NoToken /\ claimToken[j] = tok[e] /\ lease[j] > 0


\* What the code does guarantee: whoever lacks the current claim can only mark
\* the job dispatched, and only when one of its runs completed; it never sends
\* the job back to the queue or fails it.
StaleClaimOnlyCompletes ==
  [][\A j \in Jobs :
       \/ attempts'[j] # attempts[j]
       \/ jobStatus[j] # "absent" /\ jobStatus'[j] # jobStatus[j]
       => \/ HolderSettles(j)
          \/ jobStatus'[j] = "dispatched" /\ CompletedRun(j)]_vars

\* Reconciliation never fails the run of a claim that is current and unexpired at
\* the moment it writes, however old the rows it decided from.
LiveClaimKeepsRun ==
  [][\A e \in Executors : ReconcileWrite(e) =>
       \A t \in doomed[e] : ActiveRun(t) => ~HoldsClaim(t)]_vars

\* No job is stranded: a pending job is settled or becomes claimable again,
\* whatever happened to the executor that claimed it.
NeverStranded ==
  \A j \in Jobs : jobStatus[j] = "pending" ~>
    (jobStatus[j] \in {"dispatched", "failed"} \/ Claimable(j))

-----------------------------------------------------------------------------
(* What the queue promises *)

Promise == INSTANCE SingleFlight WITH
  status  <- jobStatus,
  flying  <- {j \in Jobs : ~NoActiveRun(j)},
  crawled <- {j \in Jobs : CompletedRun(j)}

\* The queue with its claims, leases, crashes and reconciliation implements the
\* single-flight promise.
KeepsPromise == Promise!Spec

=============================================================================
