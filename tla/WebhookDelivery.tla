-------------------------- MODULE WebhookDelivery --------------------------
(* The delivery of notifications to the tenants' webhooks: deliveries are queued in
   webhook_deliveries, and processors claim them in batches, post them one by one
   and record what came of it (notification_repo.py, webhook_delivery.py).

   Nothing but time keeps two processors apart: a claim is a timestamp that anybody
   may replace once it is older than Stale, recording compares nothing, and a claim
   is taken for a whole batch at once.  Time is counted in ticks; the watchdog of
   the transport ends a post within Timeout of them. *)
EXTENDS Naturals, Sequences, SequencesExt, Sublists

CONSTANTS
  Deliveries,   \* events for one webhook
  Processors,
  ClaimLimit,   \* claim_limit
  Timeout,      \* timeout_seconds, in ticks
  Stale,        \* claim_stale_after_seconds, in ticks
  MaxAttempts,
  MaxTroubles,  \* bound on processors killed and records that fail
  None

\* 2xx; 4xx; 429, 5xx or no answer; refused by the endpoint policy.
Answers == {"accepted", "rejected", "unavailable", "blocked"}

ASSUME DeliveryAssumption ==
  /\ ClaimLimit \in Nat \ {0} /\ Timeout \in Nat \ {0} /\ MaxAttempts \in Nat \ {0}
  /\ Stale \in Nat /\ ClaimLimit * Timeout < Stale
  /\ MaxTroubles \in Nat /\ None \notin Answers

VARIABLES
  active,     \* whether the webhook has not been deleted
  status,     \* delivery_status
  attempts,   \* attempt_count
  delivered,  \* deliveries with a delivered_at
  due,        \* pending deliveries whose next_attempt_at has come, in its order
  later,      \* those whose next_attempt_at has not
  started,    \* ticks since processing_started_at; Stale when that is long ago or null
  batch,      \* what a processor has claimed and not finished, in order
  count,      \* the attempt_count it read when it claimed a delivery, 0 for the others
  answer,     \* of the endpoint to the post it is at; None before it posted
  clock,      \* ticks it has spent on the first delivery of its batch
  posts,      \* requests the endpoint of a delivery received
  troubles    \* how often something failed so far

rowVars  == <<status, attempts, delivered, due, later>>
workVars == <<batch, count, answer, clock>>
deliveryVars == <<active, rowVars, started, workVars, posts, troubles>>

Pending(d) == status[d] = "pending"
Holders(d) == {p \in Processors : d \in ToSet(batch[p])}

DeliveryInit ==
  /\ active = TRUE
  /\ status = [d \in Deliveries |-> "none"] /\ attempts = [d \in Deliveries |-> 0]
  /\ delivered = {} /\ due = <<>> /\ later = <<>>
  /\ started = [d \in Deliveries |-> Stale]
  /\ batch = [p \in Processors |-> <<>>]
  /\ count = [p \in Processors |-> [d \in Deliveries |-> 0]]
  /\ answer = [p \in Processors |-> None] /\ clock = [p \in Processors |-> 0]
  /\ posts = [d \in Deliveries |-> 0] /\ troubles = 0

-----------------------------------------------------------------------------
(* The API *)

\* create_or_get_webhook_delivery, for an active subscription.
Enqueue(d) ==
  /\ status[d] = "none" /\ active
  /\ status' = [status EXCEPT ![d] = "pending"]
  /\ due' = Append(due, d)
  /\ UNCHANGED <<active, attempts, delivered, later, started, workVars, posts, troubles>>

\* deactivate_webhook_subscription
Deactivate ==
  /\ active
  /\ active' = FALSE
  /\ UNCHANGED <<rowVars, started, workVars, posts, troubles>>

-----------------------------------------------------------------------------
(* A processor *)

Turn(p)  == Head(batch[p])
Works(p) == batch[p] # <<>>

\* Mutant of Free: whether somebody is at it is not asked.
FreeAlways(d) == d \notin delivered

Free(d) == d \notin delivered /\ started[d] = Stale

\* claim_pending_webhook_deliveries: the first rows that are due, without those that
\* are taken; these count towards the limit.
Selected ==
  LET front == SubSeq(due, 1, IF Len(due) < ClaimLimit THEN Len(due) ELSE ClaimLimit)
  IN  Only(front, {d \in Deliveries : Free(d)})

Claim(p) ==
  /\ ~Works(p) /\ Selected # <<>>
  /\ batch' = [batch EXCEPT ![p] = Selected]
  /\ count' = [count EXCEPT ![p] = [d \in Deliveries |->
                                       IF d \in ToSet(Selected) THEN attempts[d] ELSE 0]]
  /\ started' = [d \in Deliveries |-> IF d \in ToSet(Selected) THEN 0 ELSE started[d]]
  /\ UNCHANGED <<active, rowVars, answer, clock, posts, troubles>>

\* process_delivery up to the answer; a post that is given up may have been received.
Post(p) ==
  /\ Works(p) /\ answer[p] = None
  /\ IF active
     THEN \E a \in Answers :
            /\ answer' = [answer EXCEPT ![p] = a]
            /\ \/ a # "blocked" /\ posts' = [posts EXCEPT ![Turn(p)] = @ + 1]
               \/ a \in {"blocked", "unavailable"} /\ UNCHANGED posts
     ELSE answer' = [answer EXCEPT ![p] = "rejected"] /\ UNCHANGED posts
  /\ UNCHANGED <<active, rowVars, started, batch, count, clock, troubles>>

\* Mutant of Verdict: the attempt that is being recorded is not counted.
VerdictLate(p) ==
  CASE answer[p] = "accepted" -> "delivered"
    [] answer[p] = "unavailable" /\ count[p][Turn(p)] < MaxAttempts -> "pending"
    [] OTHER -> "failed"

Verdict(p) ==
  CASE answer[p] = "accepted" -> "delivered"
    [] answer[p] = "unavailable" /\ count[p][Turn(p)] + 1 < MaxAttempts -> "pending"
    [] OTHER -> "failed"

Proceeds(p) ==
  /\ batch' = [batch EXCEPT ![p] = Tail(@)]
  /\ answer' = [answer EXCEPT ![p] = None]
  /\ clock' = [clock EXCEPT ![p] = 0]
  /\ count' = [count EXCEPT ![p][Turn(p)] = 0]

Gone(d, queue) == Only(queue, Deliveries \ {d})

\* Mutant of Postponed: no next_attempt_at is set.
PostponedNever(d, verdict) == Gone(d, later)

Postponed(d, verdict) ==
  IF verdict = "pending" THEN Append(Gone(d, later), d) ELSE Gone(d, later)

\* record_webhook_delivery_attempt: it neither compares the status it replaces nor
\* asks whose claim it ends.
RecordAttempt(p) ==
  LET d == Turn(p) IN
  /\ Works(p) /\ answer[p] # None
  /\ status' = [status EXCEPT ![d] = Verdict(p)]
  /\ attempts' = [attempts EXCEPT ![d] = @ + 1]
  /\ delivered' = IF answer[p] = "accepted" THEN delivered \cup {d} ELSE delivered
  /\ due' = Gone(d, due)
  /\ later' = Postponed(d, Verdict(p))
  /\ started' = [started EXCEPT ![d] = Stale]
  /\ Proceeds(p)
  /\ UNCHANGED <<active, posts, troubles>>

Trouble == troubles < MaxTroubles /\ troubles' = troubles + 1

\* The answer cannot be recorded.  Inside the try that counts as a failure of the
\* transport, which is recorded next; outside, the batch is abandoned.
RecordFails(p) ==
  /\ Works(p) /\ answer[p] \in {"accepted", "rejected"} /\ Trouble
  /\ answer' = [answer EXCEPT ![p] = "unavailable"]
  /\ UNCHANGED <<active, rowVars, started, batch, count, clock, posts>>

Abandon(p) ==
  /\ Works(p) /\ Trouble
  /\ batch' = [batch EXCEPT ![p] = <<>>]
  /\ answer' = [answer EXCEPT ![p] = None]
  /\ clock' = [clock EXCEPT ![p] = 0]
  /\ count' = [count EXCEPT ![p] = [d \in Deliveries |-> 0]]
  /\ UNCHANGED <<active, rowVars, started, posts>>

-----------------------------------------------------------------------------
(* Time *)

Aged(d) == IF started[d] < Stale THEN started[d] + 1 ELSE Stale

Elapse ==
  /\ \E d \in Deliveries : started[d] < Stale
  /\ \A p \in Processors : Works(p) => clock[p] < Timeout
  /\ started' = [d \in Deliveries |-> Aged(d)]
  /\ clock' = [p \in Processors |-> IF Works(p) THEN clock[p] + 1 ELSE 0]
  /\ UNCHANGED <<active, rowVars, batch, count, answer, posts, troubles>>

\* A next_attempt_at comes: retry_delay_seconds is the same for all.
Ripen ==
  /\ later # <<>>
  /\ due' = Append(due, Head(later))
  /\ later' = Tail(later)
  /\ UNCHANGED <<active, status, attempts, delivered, started, workVars, posts, troubles>>

-----------------------------------------------------------------------------
Process(p) == Claim(p) \/ Post(p) \/ RecordAttempt(p)

DeliveryNext ==
  \/ \E d \in Deliveries : Enqueue(d)
  \/ \E p \in Processors : Process(p) \/ RecordFails(p) \/ Abandon(p)
  \/ Deactivate \/ Elapse \/ Ripen

DeliverySpec == DeliveryInit /\ [][DeliveryNext]_deliveryVars

\* The loop polls for ever, and a processor that was killed is started again; time passes.
Fairness ==
  /\ WF_deliveryVars(Elapse) /\ WF_deliveryVars(Ripen)
  /\ \A p \in Processors : WF_deliveryVars(Process(p))

FairDelivery == DeliverySpec /\ Fairness

-----------------------------------------------------------------------------
(* Properties *)

\* A delivery is in the hands of one processor at most, although a claim is nothing
\* but a timestamp: the last of a batch is posted before its claim is stale.
OneHolder == \A d \in Deliveries : \A p, q \in Holders(d) : p = q

\* An endpoint is not asked more often than max_attempts, except for posts whose
\* outcome was never recorded.
PostsAreBounded == \A d \in Deliveries : posts[d] <= MaxAttempts + troubles

\* A late outcome does not overwrite a final one.
OutcomeStays ==
  [][\A d \in Deliveries : status[d] \in {"delivered", "failed"}
                          => status'[d] = status[d]]_deliveryVars

\* Whatever is queued is delivered or given up, although processors die with a batch
\* in their hands and their claims keep others from the head of the queue.
DeliveriesSettle == \A d \in Deliveries : Pending(d) ~> ~Pending(d)
=============================================================================
