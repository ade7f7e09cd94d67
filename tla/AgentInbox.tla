----------------------------- MODULE AgentInbox -----------------------------
(***************************************************************************)
(* The crawler-agent contract: jobs claimed over HTTP by remote agents or, *)
(* for legacy jobs, by local dispatchers that may report what they found   *)
(* as a shadow of an agent's result; the inbox of posted results; and the  *)
(* processors that drain it under leases of their own.                     *)
(*                                                                         *)
(* A claim posts at most one result, so the inbox row is named by the      *)
(* claim's token, as in crawler_agent_results_claim_key.  Leases are live  *)
(* or not: a renewal leaves a live lease live.                             *)
(***************************************************************************)
EXTENDS Integers, FiniteSets

CONSTANTS
  AgentJobs,     \* discovery_jobs with execution_backend = 'agent'
  LegacyJobs,    \* and with execution_backend = 'legacy'
  Processors,    \* inbox processors
  NoJob,         \* the job of a token that was never issued
  Nobody,        \* no processor
  MaxAttempts,   \* MAX_ATTEMPTS_BEFORE_REJECT
  Modes,         \* the protocols the operator may configure
  MaxClaims,     \* bound: claims in a behaviour
  MayFail        \* whether processors may be killed or outlive their leases

ASSUME InboxAssumption ==
  /\ AgentJobs \cap LegacyJobs = {}
  /\ NoJob \notin AgentJobs \cup LegacyJobs
  /\ Nobody \notin Processors
  /\ MaxAttempts \in Nat \ {0}
  /\ Modes \subseteq {"off", "shadow", "primary"} /\ Modes # {}
  /\ MaxClaims \in Nat
  /\ MayFail \in BOOLEAN

VARIABLES
  protocol,    \* EGP_CRAWLER_AGENT_PROTOCOL of the API
  jobStatus,   \* discovery_jobs.job_status
  claimToken,  \* discovery_jobs.claim_token
  leased,      \* lease_expires_at > now
  issued,      \* how many tokens have been issued
  jobOf,       \* the job a token was issued for
  crawl,       \* what the holder of a token has done
  sent,        \* tokens whose result is on its way, perhaps more than once
  status,      \* crawler_agent_results.inbox_status
  mode,        \* delivery_mode
  tries,       \* attempt_count
  holder,      \* processor_token: the processor it was issued to
  held,        \* processing_expires_at > now
  stage,       \* where a processor stands in process_once
  work,        \* the row it has claimed
  ingested,    \* rows every project of which went through project ingest
  stormy       \* processors may still be killed or outlive their leases

jobVars  == <<jobStatus, claimToken, leased>>
rowVars  == <<status, mode, tries, holder, held>>
procVars == <<stage, work>>
vars     == <<protocol, jobVars, issued, jobOf, crawl, sent, rowVars, procVars,
              ingested, stormy>>

NoToken == 0
Tokens  == 1 .. MaxClaims
Jobs    == AgentJobs \cup LegacyJobs

HoldsClaim(t) ==
  /\ jobStatus[jobOf[t]] = "pending"
  /\ claimToken[jobOf[t]] = t
  /\ leased[jobOf[t]]

Init ==
  /\ protocol \in Modes
  /\ jobStatus  = [j \in Jobs |-> "pending"]
  /\ claimToken = [j \in Jobs |-> NoToken]
  /\ leased     = [j \in Jobs |-> FALSE]
  /\ issued     = 0
  /\ jobOf      = [t \in Tokens |-> NoJob]
  /\ crawl      = [t \in Tokens |-> "none"]
  /\ sent       = {}
  /\ status     = [t \in Tokens |-> "none"]
  /\ mode       = [t \in Tokens |-> "none"]
  /\ tries      = [t \in Tokens |-> 0]
  /\ holder     = [t \in Tokens |-> Nobody]
  /\ held       = [t \in Tokens |-> FALSE]
  /\ stage      = [p \in Processors |-> "idle"]
  /\ work       = [p \in Processors |-> NoToken]
  /\ ingested   = {}
  /\ stormy     = MayFail

-----------------------------------------------------------------------------
(* Claims: agents and legacy dispatchers *)

\* The API is restarted under another protocol.
Configure(m) ==
  /\ protocol # m
  /\ protocol' = m
  /\ UNCHANGED <<jobVars, issued, jobOf, crawl, sent, rowVars, procVars, ingested,
                 stormy>>

\* claim_agent_job behind the gate; claim_pending_discovery_jobs knows no gate.
Claimable(j) ==
  /\ jobStatus[j] = "pending"
  /\ claimToken[j] = NoToken \/ ~leased[j]
  /\ j \in AgentJobs => protocol # "off"

Claim(j) ==
  LET t == issued + 1 IN
  /\ Claimable(j) /\ issued < MaxClaims
  /\ issued' = t
  /\ jobOf' = [jobOf EXCEPT ![t] = j]
  /\ crawl' = [crawl EXCEPT ![t] = "crawling"]
  /\ claimToken' = [claimToken EXCEPT ![j] = t]
  /\ leased' = [leased EXCEPT ![j] = TRUE]
  /\ UNCHANGED <<protocol, jobStatus, sent, rowVars, procVars, ingested, stormy>>

\* The holder stops renewing, or its renewals come too late.
LeaseLapses(j) ==
  /\ leased[j]
  /\ leased' = [leased EXCEPT ![j] = FALSE]
  /\ UNCHANGED <<protocol, jobStatus, claimToken, issued, jobOf, crawl, sent,
                 rowVars, procVars, ingested, stormy>>

\* The crawl succeeds; it may also never end.
CrawlSucceeds(t) ==
  /\ crawl[t] = "crawling"
  /\ crawl' = [crawl EXCEPT ![t] = "succeeded"]
  /\ UNCHANGED <<protocol, jobVars, issued, jobOf, sent, rowVars, procVars, ingested,
                 stormy>>

\* submit_result: an agent's result, or the shadow report of a legacy crawl.  The
\* request may be lost, delayed or delivered twice.
Submit(t) ==
  /\ crawl[t] = "succeeded" /\ t \notin sent
  /\ sent' = sent \cup {t}
  /\ UNCHANGED <<protocol, jobVars, issued, jobOf, crawl, rowVars, procVars,
                 ingested, stormy>>

\* process_job of a legacy dispatcher settles its job: dispatched when the crawl
\* succeeded, otherwise retried or failed.  Only the current claim may do so,
\* unless the run turned out to have succeeded after an error: then
\* recover_completed_discovery_job looks at neither token nor status.
LegacySettles(t, st) ==
  /\ jobOf[t] \in LegacyJobs /\ crawl[t] \in {"crawling", "succeeded"}
  /\ IF crawl[t] = "succeeded" THEN st = "dispatched"
                               ELSE HoldsClaim(t) /\ st \in {"pending", "failed"}
  /\ crawl' = [crawl EXCEPT ![t] = IF @ = "crawling" THEN "failed" ELSE "settled"]
  /\ jobStatus' = [jobStatus EXCEPT ![jobOf[t]] = st]
  /\ claimToken' = [claimToken EXCEPT ![jobOf[t]] = NoToken]
  /\ leased' = [leased EXCEPT ![jobOf[t]] = FALSE]
  /\ UNCHANGED <<protocol, issued, jobOf, sent, rowVars, procVars, ingested, stormy>>

-----------------------------------------------------------------------------
(* Acceptance: record_result_envelope *)

Deliver(t, m) ==
  /\ status' = [status EXCEPT ![t] = "pending"]
  /\ mode' = [mode EXCEPT ![t] = m]
  /\ UNCHANGED <<tries, holder, held>>

\* In shadow the claim is checked under the row lock and left alone.
AcceptShadow(t) ==
  /\ protocol = "shadow" /\ t \in sent /\ status[t] = "none"
  /\ HoldsClaim(t)
  /\ Deliver(t, "shadow")
  /\ UNCHANGED <<protocol, jobVars, issued, jobOf, crawl, sent, procVars, ingested,
                 stormy>>

\* Mutant of AcceptPrimary: the claim is given back, but the job stays pending.
AcceptPrimaryStillPending(t) ==
  /\ protocol = "primary" /\ t \in sent /\ status[t] = "none"
  /\ HoldsClaim(t)
  /\ claimToken' = [claimToken EXCEPT ![jobOf[t]] = NoToken]
  /\ leased' = [leased EXCEPT ![jobOf[t]] = FALSE]
  /\ Deliver(t, "primary")
  /\ UNCHANGED <<protocol, jobStatus, issued, jobOf, crawl, sent, procVars, ingested,
                 stormy>>

\* In primary the claim is consumed.  A replay finds its row and changes nothing;
\* so does a stale claim, and a replay under the other mode.
AcceptPrimary(t) ==
  /\ protocol = "primary" /\ t \in sent /\ status[t] = "none"
  /\ HoldsClaim(t)
  /\ jobStatus' = [jobStatus EXCEPT ![jobOf[t]] = "result_received"]
  /\ claimToken' = [claimToken EXCEPT ![jobOf[t]] = NoToken]
  /\ leased' = [leased EXCEPT ![jobOf[t]] = FALSE]
  /\ Deliver(t, "primary")
  /\ UNCHANGED <<protocol, issued, jobOf, crawl, sent, procVars, ingested, stormy>>

-----------------------------------------------------------------------------
(* Processing: process_once *)

\* Bound: past the budget, attempts are no longer counted.
Count(n) == IF n > MaxAttempts THEN n ELSE n + 1

\* Mutant of Reclaim: rows whose processor died are not looked for.
ReclaimNothing(p) ==
  /\ stage[p] = "idle"
  /\ stage' = [stage EXCEPT ![p] = "claiming"]
  /\ UNCHANGED <<protocol, jobVars, issued, jobOf, crawl, sent, rowVars, work,
                 ingested, stormy>>

\* reclaim_expired_processing, the first step of every pass.
Reclaim(p) ==
  LET expired == {t \in Tokens : status[t] = "processing" /\ ~held[t]} IN
  /\ stage[p] = "idle"
  /\ stage' = [stage EXCEPT ![p] = "claiming"]
  /\ status' = [t \in Tokens |-> IF t \in expired THEN "pending" ELSE status[t]]
  /\ holder' = [t \in Tokens |-> IF t \in expired THEN Nobody ELSE holder[t]]
  /\ tries' = [t \in Tokens |-> IF t \in expired THEN Count(tries[t]) ELSE tries[t]]
  /\ UNCHANGED <<protocol, jobVars, issued, jobOf, crawl, sent, mode, held, work,
                 ingested, stormy>>

\* Mutant of Drainable: rejected rows are tried again.
DrainableUnlessApplied(t) == status[t] \in {"pending", "failed", "rejected"}

Drainable(t) == status[t] \in {"pending", "failed"}

\* claim_next_result; a failed row is claimed once its backoff has passed, which
\* it may have done at any time.
Take(p, t) ==
  /\ stage[p] = "claiming" /\ Drainable(t)
  /\ stage' = [stage EXCEPT ![p] = "applying"]
  /\ work' = [work EXCEPT ![p] = t]
  /\ status' = [status EXCEPT ![t] = "processing"]
  /\ holder' = [holder EXCEPT ![t] = p]
  /\ held' = [held EXCEPT ![t] = TRUE]
  /\ UNCHANGED <<protocol, jobVars, issued, jobOf, crawl, sent, mode, tries, ingested,
                 stormy>>

TakeNothing(p) ==
  /\ stage[p] = "claiming" /\ ~\E t \in Tokens : Drainable(t)
  /\ stage' = [stage EXCEPT ![p] = "idle"]
  /\ UNCHANGED <<protocol, jobVars, issued, jobOf, crawl, sent, rowVars, work,
                 ingested, stormy>>

\* The processor died, or is slower than its lease, which it never renews.
ProcessorLeaseLapses(t) ==
  /\ held[t]
  /\ stormy \/ \A p \in Processors : work[p] # t
  /\ held' = [held EXCEPT ![t] = FALSE]
  /\ UNCHANGED <<protocol, jobVars, issued, jobOf, crawl, sent, status, mode, tries,
                 holder, procVars, ingested, stormy>>

\* _apply ingests every project of a primary envelope; _compare_shadow reads.
Apply(p) ==
  /\ stage[p] = "applying"
  /\ stage' = [stage EXCEPT ![p] = "applied"]
  /\ ingested' = IF mode[work[p]] = "primary" THEN ingested \cup {work[p]} ELSE ingested
  /\ UNCHANGED <<protocol, jobVars, issued, jobOf, crawl, sent, rowVars, work, stormy>>

\* Mutant of ApplyFails: the failure is logged and the row marked applied.
ApplyFailsQuietly(p, permanent) ==
  /\ stage[p] = "applying"
  /\ stage' = [stage EXCEPT ![p] = "applied"]
  /\ UNCHANGED <<protocol, jobVars, issued, jobOf, crawl, sent, rowVars, work,
                 ingested, stormy>>

\* The envelope can never be applied, or its attempts are spent; or it is retried.
\* While the processor's lease is live nobody else counts an attempt.
ApplyFails(p, permanent) ==
  /\ stage[p] = "applying"
  /\ stage' = [stage EXCEPT ![p] =
                 IF permanent \/ tries[work[p]] + 1 >= MaxAttempts
                 THEN "rejecting" ELSE "retrying"]
  /\ UNCHANGED <<protocol, jobVars, issued, jobOf, crawl, sent, rowVars, work,
                 ingested, stormy>>

Owns(p) ==
  LET t == work[p] IN status[t] = "processing" /\ holder[t] = p /\ held[t]

\* The transaction that ends the processor's claim of its row.
EndRow(p, st) ==
  /\ status' = [status EXCEPT ![work[p]] = st]
  /\ holder' = [holder EXCEPT ![work[p]] = Nobody]
  /\ held' = [held EXCEPT ![work[p]] = FALSE]
  /\ stage' = [stage EXCEPT ![p] = "idle"]
  /\ work' = [work EXCEPT ![p] = NoToken]
  /\ UNCHANGED mode

\* Mutant of ReleaseJob: the job is left as it is.
ReleaseNothing(j, st) == UNCHANGED jobStatus

\* The job leaves result_received with its row, or the transaction fails.
ReleaseJob(j, st) ==
  /\ jobStatus[j] = "result_received"
  /\ jobStatus' = [jobStatus EXCEPT ![j] = st]

\* mark_result_applied
MarkApplied(p) ==
  /\ stage[p] = "applied" /\ mode[work[p]] = "primary" /\ Owns(p)
  /\ ReleaseJob(jobOf[work[p]], "dispatched")
  /\ EndRow(p, "applied")
  /\ UNCHANGED <<protocol, claimToken, leased, issued, jobOf, crawl, sent, tries,
                 ingested, stormy>>

\* mark_shadow_compared
MarkCompared(p) ==
  /\ stage[p] = "applied" /\ mode[work[p]] = "shadow" /\ Owns(p)
  /\ EndRow(p, "applied")
  /\ UNCHANGED <<protocol, jobVars, issued, jobOf, crawl, sent, tries, ingested,
                 stormy>>

\* mark_result_rejected, which does not look at the delivery mode
MarkRejected(p) ==
  /\ stage[p] = "rejecting" /\ Owns(p)
  /\ ReleaseJob(jobOf[work[p]], "failed")
  /\ EndRow(p, "rejected")
  /\ UNCHANGED <<protocol, claimToken, leased, issued, jobOf, crawl, sent, tries,
                 ingested, stormy>>

\* mark_result_retry
MarkRetry(p) ==
  /\ stage[p] = "retrying" /\ Owns(p)
  /\ tries' = [tries EXCEPT ![work[p]] = Count(@)]
  /\ EndRow(p, "failed")
  /\ UNCHANGED <<protocol, jobVars, issued, jobOf, crawl, sent, ingested, stormy>>

Abandon(p) ==
  /\ stage' = [stage EXCEPT ![p] = "idle"]
  /\ work' = [work EXCEPT ![p] = NoToken]
  /\ UNCHANGED <<protocol, jobVars, issued, jobOf, crawl, sent, rowVars, ingested>>

ReleasesJob(p) ==
  stage[p] = "rejecting" \/ (stage[p] = "applied" /\ mode[work[p]] = "primary")

\* The mark finds that the lease is lost, or raises JobReleaseFailedError: its
\* transaction is rolled back, the process ends and is started again.
MarkRefused(p) ==
  /\ \/ stage[p] \in {"applied", "rejecting", "retrying"} /\ ~Owns(p)
     \/ ReleasesJob(p) /\ jobStatus[jobOf[work[p]]] # "result_received"
  /\ Abandon(p)
  /\ UNCHANGED stormy

\* The processor is killed (SIGKILL, out of memory, a deploy) and started again.
Killed(p) ==
  /\ stage[p] \notin {"idle", "claiming"} /\ stormy
  /\ Abandon(p)
  /\ UNCHANGED stormy

\* Processors are killed and delayed any number of times, but not for ever.
Calm ==
  /\ stormy
  /\ stormy' = FALSE
  /\ UNCHANGED <<protocol, jobVars, issued, jobOf, crawl, sent, rowVars, procVars,
                 ingested>>

-----------------------------------------------------------------------------
Accept(t) == AcceptShadow(t) \/ AcceptPrimary(t)

Mark(p) ==
  MarkApplied(p) \/ MarkCompared(p) \/ MarkRejected(p) \/ MarkRetry(p) \/ MarkRefused(p)

Process(p) ==
  \/ Reclaim(p) \/ TakeNothing(p)
  \/ \E t \in Tokens : Take(p, t)
  \/ Apply(p) \/ \E permanent \in BOOLEAN : ApplyFails(p, permanent)
  \/ Mark(p)

Next ==
  \/ \E m \in Modes : Configure(m)
  \/ \E j \in Jobs : Claim(j) \/ LeaseLapses(j)
  \/ \E t \in Tokens :
       \/ CrawlSucceeds(t) \/ Submit(t) \/ Accept(t) \/ ProcessorLeaseLapses(t)
       \/ \E st \in {"dispatched", "pending", "failed"} : LegacySettles(t, st)
  \/ \E p \in Processors : Process(p) \/ Killed(p)
  \/ Calm

Spec == Init /\ [][Next]_vars

\* Fairness.  Compose restarts a processor that ends, so each keeps passing; time
\* passes for the lease of one that died; the trouble ends.
Fairness ==
  /\ \A p \in Processors : WF_vars(Process(p))
  /\ \A t \in Tokens :
       WF_vars((\A p \in Processors : work[p] # t) /\ ProcessorLeaseLapses(t))
  /\ WF_vars(Calm)

FairSpec == Spec /\ Fairness

-----------------------------------------------------------------------------
(* Properties *)

Unsettled == {"pending", "processing", "failed"}
Settled   == {"applied", "rejected"}
Results(j) == {t \in Tokens : jobOf[t] = j /\ mode[t] = "primary"}

\* Every column and every local variable keeps its type.
TypeOK ==
  /\ protocol \in Modes
  /\ jobStatus \in [Jobs -> {"pending", "result_received", "dispatched", "failed"}]
  /\ claimToken \in [Jobs -> 0 .. MaxClaims]
  /\ leased \in [Jobs -> BOOLEAN]
  /\ issued \in 0 .. MaxClaims
  /\ jobOf \in [Tokens -> Jobs \cup {NoJob}]
  /\ crawl \in [Tokens -> {"none", "crawling", "succeeded", "failed", "settled"}]
  /\ sent \subseteq Tokens
  /\ status \in [Tokens -> Unsettled \cup Settled \cup {"none"}]
  /\ mode \in [Tokens -> {"none", "shadow", "primary"}]
  /\ tries \in [Tokens -> 0 .. MaxAttempts + 1]
  /\ holder \in [Tokens -> Processors \cup {Nobody}]
  /\ held \in [Tokens -> BOOLEAN]
  /\ stage \in [Processors -> {"idle", "claiming", "applying", "applied",
                              "rejecting", "retrying"}]
  /\ work \in [Processors -> 0 .. MaxClaims]
  /\ ingested \subseteq Tokens
  /\ stormy \in BOOLEAN

\* A job yields at most one result, however often its lease lapsed, its requests
\* were repeated or its processor was replaced (record_result_envelope).
OneResultPerJob ==
  \A j \in Jobs : \A t, u \in Results(j) : t = u

\* A job in result_received has an unsettled result that will release it, so it
\* never counts as in flight for ever (mark_result_applied, mark_result_rejected).
InFlightHasResult ==
  \A j \in Jobs : jobStatus[j] = "result_received" =>
    \E t \in Results(j) : status[t] \in Unsettled

\* An agent's job is dispatched only when its result was applied, by a processor
\* that had ingested all of it, and fails only when a row of it was rejected.
AgentJobsJustified ==
  \A j \in AgentJobs :
    /\ jobStatus[j] = "dispatched" =>
         \E t \in Results(j) : status[t] = "applied" /\ t \in ingested
    /\ jobStatus[j] = "failed" =>
         \E t \in Tokens : jobOf[t] = j /\ status[t] = "rejected"

\* A settled row stays settled: a processor that was replaced, or comes back after
\* its lease, cannot change the verdict.
SettledStays ==
  [][\A t \in Tokens : status[t] \in Settled => status'[t] = status[t]]_vars

\* Every accepted result is applied or rejected in the end, even when the protocol
\* is switched off, and so its job is released.
ResultsSettle == \A t \in Tokens : status[t] \in Unsettled ~> status[t] \in Settled

=============================================================================
