# A formal model of the EGP crawler platform

EGP crawls a public procurement site for the keywords of its tenants, keeps the
projects and documents it finds, tells tenants about them, and bills them.  This
directory models the parts of it whose correctness depends on *order*: who may
crawl a job and when, whose result counts, what survives a crash.  TLC checks
the models on small instances; TLAPS proves the main safety theorems for
instances of every size.

Paths below are relative to `src/`.  `R/` stands for
`packages/db/src/egp_db/repositories/`, `API/` for `apps/api/src/egp_api/`, `W/`
for `apps/worker/src/egp_worker/`.

## 1. The system and its parts

| Part | Code | State it keeps | Operations | Talks to |
|---|---|---|---|---|
| Discovery queue | `R/discovery_job_repo.py` | `discovery_jobs`: status, claim token, lease expiry, next attempt, attempt count | enqueue, claim, renew, record attempt, recover completed | rules and recrawl services (enqueue), dispatcher (claim) |
| Dispatcher | `API/executors/discovery_dispatch.py`, `API/services/discovery_dispatch.py`, `API/services/discovery_worker_dispatcher.py` | threads and a lease keeper per job, worker processes, profile lock | claim, reserve run, spawn, observe, kill, settle, reconcile | queue, runs, worker processes |
| Runs | `R/run_repo.py`, `packages/db/src/egp_db/abnormal_run_completion.py` | `crawl_runs`, `crawl_tasks` | reserve, start, finish, fail runs with missing workers | dispatcher, worker |
| Worker | `W/main.py`, `W/workflows/discover.py`, `W/browser_discovery.py` | a browser, the keys already seen, counters | crawl keywords page by page, persist, finish the run | runs, ledger, projects, documents |
| Candidate ledger | `R/candidate_attempt_repo.py`, `W/workflows/discover.py` | `discovery_candidate_attempts`: a row per accepted search hit | accept, finalize, reconcile open rows | worker, abnormal completion |
| Remote agents | `R/crawler_agent_repo.py`, `W/agent_runtime.py`, `API/services/crawler_agent_service.py` | agent credentials, jobs routed to an agent, leases | claim, renew, post a result | queue, inbox |
| Agent result inbox | `R/crawler_agent_repo.py`, `API/executors/crawler_agent_results.py` | `crawler_agent_results`: envelope, status, processor lease, attempts | receive, claim, apply, retry, reject, reclaim | agents, projects, queue |
| Projects | `R/project_persistence.py`, `R/project_lifecycle.py`, `packages/crawler-core` | `projects`, aliases, state | upsert by alias, close by rule, reopen | worker, ingest, notifications |
| Documents | `R/document_persistence.py`, `packages/document-classifier` | versions, diffs, review cases | store, classify, compare, review | worker, storage |
| Document backfill | `R/document_capture_attempt_repo.py`, `API/executors/document_backfill_enqueue.py` | capture attempts per project | list due, enqueue, throttle | queue |
| Recrawl requests | `R/recrawl_request_repo.py`, `API/services/rules_service.py` | a request, the jobs correlated with it | create (idempotent), adopt jobs, report status | queue, runs |
| Close check | `W/workflows/close_check.py` | runs and tasks | re-open stale projects' pages, close | projects |
| Notifications and webhooks | `R/notification_repo.py`, `packages/notification-core` | notifications, preferences, webhook deliveries | emit, claim a batch, post, record the attempt | projects, runs |
| Billing | `R/billing_*.py`, `API/services/billing_service.py`, `payment_provider.py` | records, payments, subscriptions, payment requests | bill, record payment, reconcile, activate, upgrade | entitlements |
| LINE slips | `R/line_payment_repo.py`, `API/services/line_slip_service.py` | slip rows and their status | receive, match, claim, verify, reject, revert | billing |
| Rate limiter | `packages/crawler-core/src/egp_crawler_core/rate_limiter.py` | a JSON file under flock: next slot, circuit | wait for a slot, record 429 and errors | worker |
| Authentication | `R/auth_repo.py`, `API/services/auth_service.py` | users, sessions, one-time tokens, MFA | log in, rotate, claim a token | all routes |
| Entitlements | `API/services/entitlement_service.py` | derived from subscriptions | keyword limits, run permission | queue, rules |
| Storage | `API/services/storage_settings_service.py`, `packages/db/src/egp_db/*storage*` | per-tenant storage configuration | connect, test, store artifacts | documents |
| Tenants, support, audit | `R/admin_repo.py`, `R/support_repo.py`, `R/audit_repo.py` | tenants, settings, the audit log | edit settings, record an event, queries | all |
| Rules and schedule | `API/services/rules_service.py`, `R/profile_repo.py`, `API/executors/scheduled_discovery_enqueue.py` | profiles and keywords | edit a profile, enqueue what is due | queue, recrawl requests |
| Heartbeats, metrics | `R/crawler_runtime_repo.py`, `packages/observability` | a snapshot per crawler | record, read | operators |
| Web client | `apps/web` | browser state | forms and polling | API |
| Migrations and operation | `packages/db/src/migrations`, `scripts`, `deploy` | schema | apply in order | database |

What is hard here.  Several dispatchers, on several machines, share one
PostgreSQL queue and nothing else.  Each owns a job only as long as a lease it
must renew from a background thread; the process it drives outlives it; the row
that says whether the crawl succeeded is written by a third process.  Timeouts
race with completions, a reconciler decides from rows that age while it decides,
and several repository methods write without comparing the state they read.
Outside the queue the same pattern comes back: a series of short transactions at
READ COMMITTED, each of which acts on what an earlier one has read, with an
object store, an HTTP endpoint or a payment provider in between that no
transaction covers.

### What makes each part correct

* **Queue, dispatcher, runs** - one owner per job and one crawl in flight per
  job; a job is dispatched only after a crawl completed; a superseded owner can at
  most say so; whatever dies, every job is settled or claimable again.
  *`DiscoveryQueue`, `SingleFlight`.*
* **Ledger** - an accepted candidate ends in exactly one terminal state; a run
  that succeeded has none open, and accounts for every project it wrote; the open
  rows of a failed run are closed.  *`CandidateLedger`.*
* **Agent inbox** - a job yields one result, for the lease it was produced
  under; every envelope is applied or rejected in the end and then stays so; a
  job waits on a result only while there is one.  *`AgentInbox`.*
* **Recrawl requests** - a request counts the jobs it is correlated with,
  requests that overlap share them, and a request becomes terminal when its jobs
  have.  *`RecrawlRequest`.*
* **Projects** - a tender has one project, which is announced once it exists and,
  if close checks get to see it, closed for good once the tender is decided.
  *`ProjectRegistry`.*
* **Documents** - a version gives way only to a newer one, the versions of a
  document form a chain that is compared and reviewed link by link, and the
  artifact of a document stays.  *`DocumentVersions`.*
* **Document backfill** - failed retries are bounded; retries come to an end, and no
  project that is due is passed over for ever, as long as runs do not go on to
  succeed with documents of other types.  *`DocumentBackfill`.*
* **Webhooks** - every delivery ends delivered or failed; an outcome is final;
  an endpoint is asked a bounded number of times.  *`WebhookDelivery`.*
* **Slips and billing** - a slip, and a provider event, are settled once; a
  verified slip was settled; a subscription is active only if it is paid for.
  *`SlipSettlement`.*
* **Rate limiter** - workers together keep to the rate and to the rests the site
  is given, and do not starve.  *`RateLimiter`, `RequestBudget`.*

## 2. The modules

| Module | What it is |
|---|---|
| `SingleFlight` | Abstract specification of the queue: no claims, leases, processes or clocks |
| `DiscoveryQueue` | Queue, dispatchers, lease keepers, workers, runs and reconciler |
| `AgentInbox` | Claims of agents and legacy dispatchers, posted results, and the processors that drain them |
| `CandidateLedger` | One crawl run: the walk over the results, the ledger of candidates, publication, abnormal completion and repair |
| `RecrawlRequest` | Requests, the jobs they create, extend and adopt, and the status computed from jobs and runs |
| `ProjectRegistry` | Crawlers that ingest sightings and close checks that end projects |
| `DocumentVersions` | `store_document`: rows, diffs, reviews and artifacts |
| `DocumentBackfill` | The policy that goes back for missing documents, its enqueuer and the runs |
| `WebhookDelivery` | The delivery queue and its processors |
| `SlipSettlement` | Slips, provider events and console payments of one billing record |
| `RequestBudget` | Abstract specification of the limiter: a bucket, a rest, requests that are out |
| `RateLimiter` | The limiter's file and the workers that share it |
| `Sublists` | `Only`, what a query leaves of a list, for `WebhookDelivery` and `DocumentBackfill` |
| `<Component>Proofs` | Theorems about a component and their proofs (seven of them, section 4) |
| `RetriesProofs` | The same for `RateLimiter`, `WebhookDelivery` and `DocumentBackfill` together |
| `MC<Component>` | The instances TLC checks |

How they fit together.  `RecrawlRequest` and `DocumentBackfill` put jobs in the
queue; they keep of a job's life what they can tell apart, and rest on what
`DiscoveryQueue` and `AgentInbox` show of it (a claimed job is settled or
claimable again, a result is applied in the end).  `CandidateLedger` is what
happens inside one run of `DiscoveryQueue`.  Its `RecordProject`, like the
`Apply` of `AgentInbox`, is one step: `ProjectRegistry` and `DocumentVersions`
take that step apart into its transactions, and let any number of runs do it at
once.  `RateLimiter` is what the browser steps of all workers wait for.
`WebhookDelivery` takes up where `ProjectRegistry` announces a project.

### DiscoveryQueue

One module holds the queue together with everything that moves it, because none
of its properties belongs to one part alone.

*State.*  A token stands for one claim.  In the code it is a fresh uuid; here
tokens are numbered as they are issued and 0 is NULL.  A claim reserves at most
one run, so the run is named by the token: `runStatus[t]`, `owner[t]`
(`summary_json.worker_owner_pid`) and `child[t]` (the process) belong to the run
of token `t`.  The columns of `discovery_jobs` are `jobStatus`, `claimToken`,
`lease`, `due` and `attempts`.  An executor's position in `process_job` is `pc`,
and `tok`, `keeper`, `deadline`, `outcome` are its local state.  `doomed[e]` is
what a reconciliation pass has selected and not yet written.

*Steps.*  An action is one database transaction or one step of a process that
others can observe.  `Claim` is a single action because the `UPDATE` repeats
under the row lock every condition the candidate query tested.  The reconciler
is two actions because its updates repeat only the status test.

*Time.*  `lease` and `deadline` count down to 0 with `Tick`; leases are written
and compared by each host's own clock (`_now()` of the repository), which are assumed
to agree, and the keeper's deadline by a monotonic clock started *before* the
renewal is sent, so both count the same ticks.  A
renewal whose answer is lost extends the row and not the keeper's deadline.

*Outcomes.*  The many ways a worker may end are reduced to what `process_job`
tells apart: `ok`, `stale`, `completed` (an error, but the run turned out to
have completed), `incomplete` (the end of the run could not be confirmed),
`nonretriable` and `error`.

*Left out.*  Exact-canary scoping and fault injection (test instrumentation),
fairness among tenants and the size of a batch (they choose which claimable job
is claimed, which the model leaves open), the summaries in `summary_json` other
than the owner, and skew between the clocks of the hosts.  A
run's inactivity, a time comparison in the code, is chosen freely by
`ReconcileRead`: the reconciler may find any set of active runs inactive.
`crawl_runs.status` has `partial` too; the queue treats it as `succeeded`.

### AgentInbox

The second way through the queue: an agent claims a job over HTTP, crawls, and
posts an envelope; the API stores it as an inbox row and a processor applies it.
A legacy dispatcher may post its own result as a *shadow*, to be compared only.

*State.*  A claim posts at most one envelope (`crawler_agent_results_claim_key`),
so tokens are numbered as in `DiscoveryQueue` and name the rows as well:
`status`, `mode`, `tries`, `holder` and `held` are the columns of the row of a
token, `jobStatus`, `claimToken` and `leased` those of a job.  `sent` holds the
tokens whose request is on its way, for as long as it may be delivered once
more.  `stage` and `work` are the position of a processor in `process_once`.
`protocol` is the gate of `CrawlerAgentService`, and changes when the API is
restarted under another `EGP_CRAWLER_AGENT_PROTOCOL`.

*Steps.*  One action per transaction of `crawler_agent_repo.py`, and one per
step of `process_once` between two of them, so that leases run out and
processors are killed in between.  A mark whose compare-and-swap fails, or whose
job is not in `result_received`, rolls its transaction back (`MarkRefused`).

*Abstractions.*  A lease is live or it is not, and may lapse at any time: a
renewal of a live lease changes nothing, and one of a lapsed lease is refused.
What `process_job` does between claim and settlement is the business of
`DiscoveryQueue`; here a legacy claim settles in one step.  The ingestion of all
projects of an envelope is one step.  `tries` stops at one more than
`MaxAttempts`.  Claims beyond `MaxClaims` are not issued.  While `stormy`,
processors may be killed and outlive their leases; `MayFail` says whether they
do at all.

*Left out.*  Heartbeats, credentials, health queries and operator requeues;
envelope validation (an invalid one is refused before anything is stored).

### CandidateLedger

What happens inside one run of `DiscoveryQueue`: the worker accepts a candidate
in the ledger *before* it opens it, gives it a verdict, and at the end publishes
the run by what the ledger says - while others may give it up.

*State.*  `ledger` is `candidate_status` together with `terminal_reason`:
dropped is `late_stage` or `duplicate`; failed is `anomaly` or `skipped` (the
detail page yielded nothing), `unclassified` or `persist_error`.  `linked` is
`project_id`.  `at`, `page`, `todo`, `row` and `seen` are where
`_collect_keyword_projects` stands and its `seen_keys`; `kept` is
`persisted_projects`; `conflicts`, `unsure` and `errors` say which of the
workflow's counters are above zero.  `recorded` is what the event sink has
committed.  `closing` is a caller of `complete_abnormal_run` between failing the
run and closing its rows.

*Rows and their names.*  A row has three identities in the code, and here: its
candidate key (`KeyOf`), the key by which a parsed row is skipped (`RowKey`), and
the key of the project its detail page turns out to show (`ProjectOf`).  The
pages of all keywords are numbered through.  What a page shows is fixed, so a
rescan sees the rows of the first scan.  The rows of a page are visited in any
order.

*Steps.*  One action per transaction or browser step.  `Finalize` is the part of
an action that ends a candidate: `_finalize_candidate` never raises, so the
action goes on whether the write succeeded, conflicted, or failed.  An exception
in a row leads to `RowRecovered`, `RowAbandoned`, `BrowserClosed` or `ScanStops`,
one for each way the handlers end.  `Dies` is every end without publication: a
kill, a ledger that does not accept, an entitlement withdrawn.

*Closers.*  The dispatcher's timeout, the reconciler's pass and the worker's own
last resort call the same function; the model has a set of callers that may act
at any time, also while the worker is alive and unaware.

*Troubles* is the set of what may go wrong, so that a run can ask what happens
when nothing does.

*Left out.*  Payloads handed to the workflow without a browser, the canary
proof, scan statistics, capture attempts; the ingestion of documents is part of
`RecordProject` and of its failure.  Detail reasons that share a class count as
one verdict, and a project is the key it is deduplicated by.

### RecrawlRequest

*State.*  The jobs of the tenant in the order of `created_at`, with `keyword`,
`state` (`job_status`, and whether a pending job is claimed), `attempts` and
`request` (`recrawl_request_id`); `manual` are those a recrawl has created.
`handed[j]` is the request the job carried when its claim was handed out, which
is what the run it leads to will carry: the code copies it at the claim and again
at `create_run`.  `runs[j]` are the runs with the job's id, `requested[r]` is
`requested_keyword_count`.

*Steps.*  `NewRequest` is `create_request` whole: under a lock on the tenant it
returns the one request the jobs in flight belong to, extends it, adopts jobs
that carry none, or creates a request and its jobs.  `SameRequest` is the case of
jobs that belong to two requests, where it raises.  `IsTerminal` is `get_status`,
which computes everything and stores nothing.

*Abstractions.*  What happens to a job between claim and settlement is that a
run is reserved and ends.  A claim may lapse, which is bounded together with
failing crawls.  *Left out:* admission and entitlements, the texts of a status.

### ProjectRegistry

*State.*  A project is a row with `canon` (unique), `number`, its strong
`aliases` and `state`.  A tender is called by its project number; a fingerprint
stands for the hash of name, organization, date and budget, and a tender may show
several in the course of time.  A worker is a crawler that ingests a sighting
(`sighted`, `looked`, `selected`, `noted`) or a close check (`checked`, `read`);
`sight`, `want`, `fresh` and `row` are what it has read.  `invited` are the projects
with a stored document of the invitation stage, and `buried` those that 200 others of
the list have changed after: a close check lists the first and, at `limit=200` by
`last_changed_at`, not the second (`Listed`).

*Steps.*  One action per transaction: `find_existing_project`, the `SELECT` of
`upsert_project` and its write are three, and the write compares nothing but the
id (`Update`) or runs into the unique canonical id and is tried again as an update
(`Insert`, `InsertConflicts`).  `Announce` comes after the commit.  `Progress` is
the site.  `Capture` is a document stored by somebody else.  A write that changes a
project brings it to the front of the list (`Surfaces`), and `Crowd` is what all other
projects of the tenant do to its place in it, at any time and in either direction.
`orphaned` remembers whose crawler was killed in between.

*Left out.*  Projects without a number, which the live crawl drops before they
get here; weak aliases, status events, the other columns; the evaluation of
timeouts, whose result nothing stores; a crawl without a notification dispatcher.

### DocumentVersions

*State.*  `doc`, `current` (`is_current`), `prev` (`supersedes_document_id`),
`compared` and `reviewed` (the diff of a version and its review) are the rows;
`blobs` is the object store, keyed by bytes and file name only.  A class is a
document type and phase; `Sibling` is the other phase of a TOR.  `shared`,
`twice`, `cleaned` and `dropped` record what overlapped and what was removed, so
that the properties can say under which circumstances they hold.

*Steps.*  A store is one transaction, but none of its reads locks anything, so
the model has an action per statement others can come between: the lookups
(`Look`, `FindCurrent`, `FindTransition`), the write of the artifact (`Put`), the
row lock of `Supersede`, the insert, which waits for the unique key and may
conflict, and the commit with diff and review.  An error (`Rollback`) leads to
`Cleanup`, a death (`Killed`) does not.  `Replay` and `Repair` are the store of
an artifact that is there already.

*Left out.*  Decisions on reviews and their notification, the backup copy, the
reads, and the text extraction and comparison, of which the model keeps whether
there is something to compare with.

### DocumentBackfill

*State.*  The attempt log is abstracted to what the policy reads of it: per
project the outcome and age of the latest attempt, the number of failures, the
age of the first attempt without documents, whether a job was enqueued since and
when, and `line`, the order of the latest attempts.  `runs` is what the queue
still does with the project's job.  `todo` and `made` are the position of the
enqueuer.

*Steps.*  `List` evaluates the query: filter, order by the latest attempt, fetch
five times the limit, filter by what is due, cut.  `Create` and `RecordEnqueued`
are its two transactions per candidate; between them it may die, or the crawler be
quicker.  `Captures`, `FindsNone`, `Fails`, `SucceedsOtherwise` (with documents of
other types only) and `LeavesNothing` (it dies) are the ends of a run, and
`FailsUncounted` is a failed one whose dispatcher dies before it counts the attempt,
so that the job has that run once more.  The last two share the bound `MaxLosses`;
`SucceedsOtherwise`, an ordinary result that a site may give for ever, has none.  A
project that is not `wanted` is forgotten, for nothing reads its log
again.

*Left out.*  The profile a job is created with, and the attempts of the exact
canary.

### WebhookDelivery

*State.*  `status`, `attempts`, `delivered`, and the two queues `due` and `later`
in the order of `next_attempt_at`; `started` counts the ticks since
`processing_started_at`.  A processor has a batch, the attempt counts it read
with it, the answer to the post it is at, and a clock.

*Steps.*  A claim takes a whole batch and is nothing but a timestamp; the batch
is then posted and recorded one by one, which takes up to `Timeout` ticks each
(the watchdog of the transport).  A claim may be replaced once it is `Stale`.
That processors are kept apart at all is arithmetic:
`DeliveryAssumption` has `ClaimLimit * Timeout < Stale`, as the defaults of the
executor do; its `--limit` option has no upper bound, and without the assumption
TLC finds `OneHolder` violated.

*Left out.*  E-mail, in-app rows, preferences, the endpoint policy.

### SlipSettlement

*State.*  One billing record with its `status` and `sub` (the payment that
activated its subscription), the payments with their `source` (the marker in the
note, or the event), the payment `request` and the `noted` events, and the slips.
`"lapsed"` is a slip in verification whose lease of ten minutes is over.

*Steps.*  A caller is a request in progress.  Whoever it serves, it ends in
`reconcile_payment`, whose transaction has two halves: `Count` updates the
payment and sums what is committed, `Commit` does the rest under the lock of the
record.  `Scan` is the retry of `verify_manual_payment`: it looks for the marker
before it records anything.  A callback is `Call`, `Note`, `SettleRequest`,
`Record`, each a transaction of its own.

*Troubles* names what may go wrong: `crash`; `slow`, a verification that outlives
its lease; `rematch`, a text that matches a slip its image handler has not
matched yet; `contest`, two admins who decide a payment differently.  The runs have
`crash` only: with each of the others TLC breaks a property (below).

*Left out.*  Images, notifications, ambiguous references; the creation of
records, upgrades, trials and periods.

### RateLimiter

*State.*  The file under flock: `tokens` as written and their `age`, `open`,
`opened`, the two counters and the next cooldown.  Instants are kept as distances
from the present; a token is `Period` units, so a fraction of a token is a number
of ticks.

*Steps.*  An access to the file is one action, for the lock is held throughout;
a worker sleeps without it.  `Answer` reports any outcome, late or not.  `Torn`
is a worker killed between `truncate` and `dump`: the next reads an empty file.

`RequestBudget` is what is promised: a request goes out against a full token and
never during a rest; rests are prolonged, never cut short; what was known may be
lost.  `RateLimiter` implements it with `level <- Refilled`, `rest <- open`.

*Left out.*  The limit on a wait, which no caller sets; the peek, which reads; a
rate of zero, which turns the limiter off.

## 3. The runs

| Run | Instance | Question |
|---|---|---|
| `queue` | 1 job, 2 executors, 2 claims, lease 1 tick, 2 attempts, with fairness | Is ownership exclusive, is one crawl in flight, does the queue implement `SingleFlight`, and is every job settled or claimable again? |
| `inbox_safety` | an agent's and a legacy job, 2 claims, 2 processors, 2 attempts, shadow and primary | Does a job yield one result, are verdicts final and justified, is nothing left in `result_received`? |
| `inbox_liveness` | 1 job, 2 claims, 2 processors, primary switched off and on, with fairness | Is every accepted result settled? |
| `ledger` | 3 rows on 2 pages, two of them one project, 1 closer, everything may fail, with fairness | Does a published status say what the ledger says, are verdicts final, are the open rows of a failed run closed? |
| `slip_settlement` | 1 slip, 1 event, 1 transfer, 2 requests at a time, due 2 units paid by ones or at once, crashes, with fairness | Do slip and event yield one payment each, is an active subscription paid for, does no slip stay in verification? |
| `lost_callback` | the same | Does every provider event that was noted lead to a payment? (It does not.) |
| `webhook_delivery` | 2 deliveries, 2 processors, a batch of 2, 2 attempts, 2 troubles, with fairness | Do timestamps keep processors apart, are posts bounded and outcomes final, is every delivery settled? |
| `recrawl` | 2 keywords (one of an agent), 2 requests, 3 jobs (2 of schedules), 2 attempts, 2 troubles, with fairness | Are counts right, are jobs shared, do requests end? |
| `projects` | 1 tender, 2 fingerprints, 2 rows, 2 workers, one of which may be killed, documents stored and places in the list lost at any time, with fairness | Does the tender keep one project, is it announced, is it closed in the end if it is listed? |
| `documents` | 5 artifacts (3 versions, one of them under two names and in two phases), 2 storers, 3 stores, 1 failure, with fairness | Do versions give way to newer ones only, do they form a chain, do artifacts stay, does every store end? |
| `backfill` | 2 projects for 1 place in the list, 2 attempts, 1 trouble, with fairness | Are failures bounded; unless runs go on to succeed otherwise, do retries end, is nobody passed over? |
| `rate_limiter` | 3 workers, a token every 2 ticks, burst 2, both circuits at threshold 2, 2 deaths, with fairness | Does the limiter implement `RequestBudget`, does a request go out in the end? |

Nothing but what the properties state is checked by these runs; the type
invariants are proved instead (`TypeCorrect`, section 4).  `CHECK_DEADLOCK FALSE`
stands in the configurations whose behaviours end, because claims, jobs, payments
or the site's course are bounded, or because everything is settled.

*Why the bounds are enough.*  Jobs interact only through executors, and an
executor holds one job at a time, so one job with two executors meets every
conflict over a row.  Two claims give an owner and the one that supersedes it.  A
lease of one tick is a lease that is live or not: more ticks add renewals in
mid-lease, which change nothing a property tells apart.  Two attempts separate
the last attempt from the others.

The inbox has rows that meet only in their job: two claims give one job two
rows, or two jobs one each; one processor supersedes the other; with two
attempts the last one differs from the first.

In the ledger, rows meet in a key, in a project, or on a page: two rows of one
project on one page and a third row on the next page give every combination a
verdict can depend on.

In the settlement three sources of payment meet in one record; two callers
overlap with each other, and the third takes up what a dead one left, for a caller
that was killed is a new one.  A due of two units lets a payment cover the record
or not, alone or with another.  Webhook deliveries meet in a batch and in the
limit of a claim.  Requests overlap in a keyword or not; three jobs let a keyword
be crawled again after its first job.  Two workers overlap in a tender; three
that overlap in all three steps are left to the proofs, which hold for any
number.  Three stores give a version, one that supersedes it, and one that comes
between; three storers were found to add nothing for the invariants (1.25 million
states), and the proofs hold for any number.  Two projects with one place between
them, in the list and in what is fetched for it, are what makes one of them wait.
The limiter's numbers are the smallest at which a token has a fraction, a burst
is more than one token, and an error short of a threshold differs from one that
reaches it; the third worker sleeps while two others report.

The proofs hold for every value of all of these.

*Fairness.*  The `FairSpec` of `DiscoveryQueue` assumes that the clock advances,
that executors keep taking the steps of `process_job` (every wait in it has a
timeout, so an observed worker ends or is killed), that a keeper's thread notices
a lost lease (its loop waits with a timeout), that `next_attempt_at` passes, and
that idle executors keep reconciling (`run_discovery_dispatch_once` starts with
it on every poll).  The reconciling read is strongly fair for the set of all
active runs: a run with no process left behind it stays inactive, and a pass that
finds all such runs inactive comes round again and again.  Nothing is assumed of
crashes, of workers, of renewals, or of an executor's wish to claim.

That of `AgentInbox` assumes that processors keep taking the steps of
`process_once` (the deployment restarts one that ends), that the lease of a dead
processor runs out, and that kills and stalls stop some day: a row that kills
every processor that takes it is never settled (see below).  Nothing is assumed
of agents, requests or the operator.

That of `CandidateLedger` assumes that the reconciler comes round
(`reconcile_missing_workers` on every poll of the dispatcher) and that a cleanup
which is attempted again and again succeeds some day, i.e. that the database
answers in the end.  Nothing is assumed of the worker.

`SlipSettlement`: a caller that is not killed takes its next step, and gets the
row lock it waits for even if others come and go (PostgreSQL queues waiters); a
lease runs out; an admin who sees a slip in verification after that clicks again.
`WebhookDelivery`: time passes and the executor's loop polls for ever, restarted
by the deployment; troubles are bounded.  `RecrawlRequest`: dispatcher, agents
and inbox keep working and runs end, which is what the three modules above show
of them.  `ProjectRegistry`: a worker ends what it began, and close checks come
round to every project that is on their list again and again, strongly fair because a
worker that is busy does not look.  Nothing is assumed of documents or of the other
projects: `ClosedInTheEnd` asks for a project with a document of the invitation, and
excepts one that is again and again, while open, behind the 200.  `DocumentVersions`: a store that has begun runs
on and is granted the locks it waits for; nobody has to begin one.
`DocumentBackfill`: the timer starts the enqueuer, which runs on, time passes, and
a crawler takes every job; nothing is assumed of what its runs bring, so `RetriesEnd`
and `DueIsTried` except projects whose runs succeed otherwise again and again.
`RateLimiter`: time passes, and a worker that has
slept long enough gets the lock; no answer is assumed ever to come.

### Where the code departs from its words

*A payment that is lost* (`lost_callback`).  `API/services/billing_service.py:332-337`
says that a callback leaves no half-state which a retry would take for done.
It is right about validation, which it comments on; but the event is committed on
its own, and when the process dies before `record_payment`, the retry meets the
unique index of the event and returns without recording a payment.

The rest was met while modelling.  It has no run of its own, since the models
show it as a matter of course; where a property has to except it, this says so.

*Superseded claims.*  `docs/REMOTE_LOCAL_CRAWLER.md:286-287` and
`docs/DEPLOYMENT.md:109-110` say that only the current, unexpired token may
finish a job.  `recover_completed_discovery_job` compares neither the token nor
the status, so an executor whose lease ran out, and whose own run had completed,
marks the job dispatched and clears the token another executor acquired in the
meantime.  `StaleClaimOnlyCompletes` says what does hold: such a write can only
mark a job dispatched that has a completed run.

*Spent rows.*  `API/executors/crawler_agent_results.py:264` says "Retry until the
attempt budget is spent, then stop looping forever".  A shadow row whose
comparison keeps failing does not stop: at the end of its budget
`mark_result_rejected` wants to release a job that was never in
`result_received`, raises, and rolls the rejection back; the row is reclaimed and
claimed again.  The same goes for any row that kills its processor:
`reclaim_expired_processing` counts the lost attempt, but the budget is compared
only after an attempt has raised, never by `claim_next_result`.

*Shadow rows and jobs.*  The same call tests no delivery mode, so when a later
claim of the job has put it in `result_received` under primary, the rejection of
the old shadow row fails that job.

*Misconfiguration.*  `docs/REMOTE_LOCAL_CRAWLER.md:482-484` says that a
misconfigured shadow costs verdicts, never crawls.  `record_result_envelope`
looks at the mode alone: with the API in primary, the report of a legacy crawl
consumes the claim of the dispatcher that sent it.

*Two verdicts.*  A candidate that is finalized twice with different verdicts is a
conflict, and one conflict makes the workflow publish the whole run as failed.
The crawl gets there by itself in three ways.  Rows of a page are tested against
`seen_keys` before any of them is opened, so of two rows equal in every column
the second is opened, found to be a duplicate, and dropped under the key that
already says persisted.  When the way back to the results fails after a row has
had its verdict, the handlers finalize it once more, as failed.  And a row
recovered that way is not put into `seen_keys`, so after the death of the browser
the rescan opens it again.  In all three ways no project is lost; the run's status
is what suffers.

*Settlement.*  `reconcile_payment` sums before it holds the lock of the record:
of two reconciliations that overlap neither sees the other, and a record that is
covered stays `payment_detected` without a subscription.  `match_slip` overwrites
whatever status a slip has, so a text handled beside the image puts a slip in
verification back to matched (`rematch`), and a verification that outlives its
lease is overtaken by another one (`slow`): either way a slip is paid for twice.
Two admins who decide one payment differently (`contest`) leave a subscription
that no reconciled payment covers, and a verified slip whose payment is rejected.

*Recrawls.*  The run of a job that a remote agent has crawled carries neither the
job nor the request, so the job of an applied result is shown as queued
(`recrawl_request_repo.py:624-630`) and its request is never terminal; nor is that
of a job of a schedule which was adopted while its claim was out.  `RequestsEnd`
excepts both.  When jobs in flight cover every keyword, those without a request
are not adopted, and the request that is returned ends without them.

*Identity.*  A strong alias is compared without regard to the number: a tender
that repeats another one word for word, or is published anew under another number,
merges with the old project.  `NoDuplicates` assumes that fingerprints differ.

*Closing.*  A close check looks only at projects of which a document of the invitation
was stored, and at 200 of those.  A tender without one, or one that stays behind 200
that changed later, stays open although the site shows it decided; `ClosedInTheEnd`
fails without either of its exceptions.

*Documents.*  Two stores of one artifact at the same time leave its class without
a current version (`docs/DOCUMENT_INGEST_CONTRACT.md:25` calls a retry
idempotent, which it is one after the other); two versions of a class stored at
once may both stay current.  The cleanup of a failed store, or of one that found
its row taken, removes an artifact that a document of another class refers to,
because artifacts are keyed by bytes and name alone.  `OnlyNewerReplace`,
`VersionsChain` and `ArtifactKept` name these exceptions.

*Backfill.*  A run that succeeded with documents of other types counts as nothing,
as the code says it should; but nothing else counts either, so the project stays
first in the list and gets a job every three hours until it closes.  `RetriesEnd`
excepts such a project, and `DueIsTried` the projects behind it: hundreds of them
would keep the others from the list.

## 4. The proofs

Eight modules: seven `EXTEND` one component and `TLAPS`, and `RetriesProofs` three
components that share the lemmas about lists.  A theorem holds for every value of the
constants that the component's `ASSUME` allows, whatever the bounds.  The keywords of
`RecrawlRequest` and the projects of `DocumentBackfill` are finite sets (both modules
count them) and the payments of `SlipSettlement` are an interval; the other sets of
processes and rows may be infinite.

`DiscoveryQueueProofs` proves, for any set of jobs and executors and any lease,
attempt and claim bounds allowed by `DiscoveryAssumption`:

* `TypeCorrect`, `LeasesExclusive`, `RunsExclusive`, `DispatchesJustified`:
  `Spec => []TypeOK`, `[]ExclusiveBelief`, `[]OneActiveRun`,
  `[]DispatchedMeansCompleted`;
* `ReconciliationSpares`, `RunsStayEnded`: `Spec => LiveClaimKeepsRun`,
  `Spec => EndedRunsStay`;
* `StaleClaimsComplete`: `Spec => StaleClaimOnlyCompletes`;
* `PromiseKept`: `Spec => KeepsPromise`, the refinement of `SingleFlight`.

None of these invariants is inductive.  `IInv` adds to them

* `TokenInv`: tokens are issued in order and belong to one job; a row's token
  has been issued.  Without it a fresh token could equal one still held.
* `ClaimInv`: the token an executor works on was issued and no other executor
  works on it, and a job's token is its last.
* `WorkInv`: where an executor stands says what its run can be: no run before
  the reservation, and an outcome of `ok` or `completed` only with a run that
  succeeded.
* `BeliefInv`: the keeper's deadline is never later than the row's expiry, and a
  keeper with time left holds the row's token, unless the job was dispatched under
  its feet by `recover_completed_discovery_job`.  This is the heart of
  exclusiveness: two beliefs about one job would be two values of one column.
* `DoomedInv`: what a pass has selected was not covered by a live claim when it
  was read, and cannot be covered later, because a claim that has died is never
  renewed and a run is reserved only under a live claim.

`Inductive` proves that `IInv` holds initially and is kept by each action, one
lemma per action; the theorems follow from it.

`PromiseKept` needs one thing more, `Enlisted`: the job of a token that was issued
is in the queue, so that whoever records the outcome of its run, even with a claim
that is long superseded, changes a job that `SingleFlight` has.  What the
refinement sees of a state is the status of the jobs and two sets, the jobs in
flight (`Flying`) and those crawled (`Crawled`).  Most actions leave the runs
alone (`RunsKept`); whatever fails runs, a watchdog, a lost lease, an abandoned
worker or a pass of the reconciler over many of them, is one step `Fall` of the
jobs whose runs end (`RunsFail`), because a job has one active run at most.

`CandidateLedgerProofs` proves, for any rows, pages, identities, closers and
troubles allowed by `LedgerAssumption`:

* `TypeCorrect`, `PublishedClosed`, `PartialPersists`, `SuccessAccounts`:
  `Spec => []TypeOK`, `[]PublishedIsClosed`, `[]PartialHasProjects`,
  `[]SucceededAccounts`;
* `VerdictsFinal`: `Spec => VerdictStays`.

Its `IInv` adds to the type invariant what the worker's counters owe to the
ledger.  `RecordInv` is the heart: a project that was recorded has a persisted
candidate linked to it, or the worker stands right before that verdict, or one
of the counters says that something went wrong, or the worker ended without a
success.  `KeptInv` says the same of `persisted_projects`.  `JudgeInv` carries
the judgement over the steps between reading the ledger and publishing the run,
in which closers may act: they can close rows, but only of a run that is already
failed, and only the worker can open any.  `RowInv` and `LinkInv` tie the row in
hand to what was recorded, and a persisted candidate to a project.

`AgentInboxProofs` proves, for any jobs, modes and processors and any bound on
claims and attempts allowed by `InboxAssumption`:

* `TypeCorrect`, `ResultsUnique`, `InFlightJustified`, `VerdictsJustified`:
  `Spec => []TypeOK`, `[]OneResultPerJob`, `[]InFlightHasResult`,
  `[]AgentJobsJustified`;
* `VerdictsStay`: `Spec => SettledStays`.

Here the checked invariants are nearly inductive.  `TokenInv` says that an
unissued token has no job, crawl or request, and that a row belongs to a token
that was sent; `WorkInv` that a processor past its claim is at a row, and has
ingested a primary result before it marks it.  `SpentInv` is what uniqueness
rests on: a job that has yielded a result is never pending again, so it is never
claimed again, and no second token can be the one its row compares.

`SlipSettlementProofs`: `TypeCorrect`; `EventsPayOnce` (`Spec =>
[]OnePaymentPerEvent`); `SlipsPayOnce`, under `Prompt` (neither `slow` nor
`rematch` among the troubles); `VerifiedWasSettled`, under `Uncontested` (no
`contest`).  For an event,
the caller that may still record is the one that noted it (`Payers`), and nobody
notes twice (`EventOnce`).  For a slip, `VerifiedByOne` says that at most one caller
verifies it, that none does outside the verification states, and that a slip which
is still to be matched has no verifier; `RecordedOnce` that whoever records for it
finds no payment.  `Prompt` is used in the step in which a lease lapses under a
verifier and the one in which a text arrives behind his back.  `SettledInv` says what
a verdict rests on between the payment and the slip's last write (`Verifies`), and
`Uncontested` is used where a payment is decided by somebody else.

`ActiveWasCovered` (`[]ActiveIsCovered`), also under `Uncontested`, is about money
that is summed at one moment and acted upon at a later one.  `CoverInv` says that
what a caller has read is still true when it writes (`StillTrue`): the payments it
found to cover the amount due still do, since a payment that was reconciled stays
so, keeps its amount, and others only add to it; and the payment it is about to
reject has not been reconciled by another, since all who work on one payment agree
on rejecting it (`Agree`).  The sums are `MapThenSumSet` of the community modules,
a recursive fold over a set.  The section on sums proves of it what is needed: its
value is that of a fold along any order of the set (`FoldsAgree`), hence the empty
sum, the sum with one element added or removed, and that it is monotonic.  Induction
over sets is by the least counterexample among the naturals (`NatMin`).

`RecrawlRequestProofs`: `TypeCorrect`; `CountsMatch` (`[]CountMatches`);
`JobsShared` (`[]RecrawlsShareJobs`).  Both rest on what "the newest job in flight
for a keyword" is, a maximum over a set of jobs whose existence is proved first
by well-founded induction on the naturals; counting is `FS_` lemmas on
the jobs a request gains.

`RetriesProofs`, the limiter: `TypeCorrect`, in which the cooldown keeps to its maximum and
the circuit is open no longer than the longest reset; `BudgetKept` (`Spec =>
KeepsBudget`), the refinement, step by step: `Refilled` after an access is what it
was before minus what was consumed, and no report shortens `open`.

`RetriesProofs`, lists: `OnlyFacts` says that `Only` returns elements of the list and
of the set, each as often as it was.  `Only` is a recursive function; that its
definition has a solution, and one only, is proved up to each length (`KeepsExists`,
`KeepsAgree`).

`RetriesProofs`, deliveries: `OneHolderAlways` (`DeliverySpec => []OneHolder`),
`PostsBounded` (`[]PostsAreBounded`), `OutcomesStay` (`OutcomeStays`).  The heart of
`DeliveryInv` is `InTime`: the age of a claim and the time for what is left of the
batch never exceed `ClaimLimit * Timeout` by more than what the clock of the
post under way shows.  Since that is less than `Stale`, nobody else finds the claim
free.  From this, what is in a batch is pending and has the attempt count it was
read with, although recording compares neither; so the count that decides between
another attempt and giving up is the true one (`Counted`), and a final outcome has
no holder who could overwrite it.

`RetriesProofs`, documents: `FailuresAreBounded` (`BackfillSpec =>
[]FailuresBounded`).  `BackfillInv` says that no project is twice in the log or in
the list of the enqueuer, and what each place in it is worth (`InFlight`): the
failures of a project and the runs its job has left stay below the cap plus one job
while it waits in the list, plus two once the job is made, however the list and the
runs interleave.  A run turns what was left into a failure and adds nothing, but for one whose dispatcher
dies before it counts the attempt: that failure is counted with the losses.

`ProjectRegistryProofs`: `TypeCorrect`; `NewProjectsAnnounced`
(`[]NewIsAnnounced`); `NoDuplicates` (`[]AliasesDistinct`), under `PrintsDiffer`.
What a crawler carries over from one transaction to the next is the subject: one
that found something will find something again, for aliases are never taken away,
so whoever inserts found nothing before and announces; and the row it found is of
its own tender, so it adds only that tender's aliases to it.

`DocumentVersionsProofs`: `TypeCorrect`; `NewestStays` (`[]OnlyNewerReplace`);
`ChainOfVersions` (`[]VersionsChain`); `ArtifactsStay` (`[]ArtifactKept`).  The
invariant `DocInv` adds to the types

* `NumbersOK` and `AheadOK`: ids are given once and are later than what the store
  has seen, and the stores ahead of their id leave room for one each, which is an
  argument by cardinality;
* `MeetsOK`: a store meets its own artifact, in another's hands or as a row, only in
  the classes on record in `twice`;
* `KeysOK`: no two rows have one key, and whoever has inserted has it alone;
* `HeldOK`: whoever has written an artifact still has it in the store, or is going to
  find its row taken;
* `ChainOK`: in a class that is not on record in `shared` one store is under way, and
  what it has found is the newest version and the current one.

*Only model-checked.*  All liveness (`NeverStranded`, `ResultsSettle`,
`OpenRowsClose`, `ClaimsEnd`, `DeliveriesSettle`, `RequestsEnd`, `ClosedInTheEnd`,
`StoresEnd`, `RetriesEnd`, `DueIsTried`, `SomeoneFetches`), which is out of the
prover's reach.  Every invariant, action property and refinement that a passing
run checks is a theorem.  `SlipsPayOnce`, `VerifiedWasSettled`, `ActiveWasCovered`
and `NoDuplicates` have a hypothesis, which their run meets by its constants, and
section 3 says under *Settlement* and *Identity* what happens without it.

*Proved, and in no run:* the type invariants, the inductive invariants, `PartialHasProjects`
and `EndedRunsStay`; the last is part of what `KeepsPromise` says.

## 5. Not modelled

* **Authentication, sessions, one-time tokens.**  What could go wrong here is a
  matter of security, which this development does not treat.
* **Entitlements.**  A pure function of subscription rows and the date, covered by
  unit tests.  Admission by entitlement is left out of `RecrawlRequest`.
* **Storage configuration and credentials, the backup copy of documents.**  I/O
  against external stores; the one place where its order matters, the artifact
  beside the row, is in `DocumentVersions`.
* **Decisions on document reviews.**  Two reviewers who read a review as pending
  both decide, and `TOR_CHANGED` may be sent twice or never; a death between
  approval and dispatch loses it.  This is visible from the code without a model.
* **Notifications by e-mail and in the application, preferences.**  Rows that are
  inserted and read.
* **Billing beyond settlement**: creation of records, upgrades, trials, periods,
  and the adapters of the payment providers.
* **The browser**: selectors, downloads, page parsing.  `CandidateLedger` has its
  control flow; what a page contains is external.  A browser that dies at every
  attempt is restarted without a bound of its own; the dispatcher's worker timeout
  ends it.
* **`egp_crawler.py`**, the crawler that preceded the worker, and `scripts/`: run by
  hand, one process, no shared state.
* **Rules, crawl profiles and the schedule.**  Rows a tenant edits and a timer that
  enqueues jobs of them; the enqueueing is an action of `DiscoveryQueue` and
  `RecrawlRequest`.
* **Classification and comparison of documents**, pure functions of texts.
* **Tenants, settings, support and audit**, rows that are edited one at a time, an
  append-only log, and reads of what other parts own; **heartbeats, readiness and
  metrics**, which nothing acts on; **the web client**, which keeps no state the
  system relies on; **migrations and deployment**.

`RecrawlRequest` and `RateLimiter` have every operation of their parts.  For the
others section 2 says under *Left out* what is missing, and `PROJECT.json` has them
as *partly* modelled for that reason.

## 6. What is left

In order of what it would add: the decisions on document reviews together with
their notification; the creation and upgrade of billing records; a composition of
`RecrawlRequest` with `AgentInbox` once the run of an agent's job carries the job.
