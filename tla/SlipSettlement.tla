--------------------------- MODULE SlipSettlement ---------------------------
(* How a billing record gets paid.  A customer sends photographs of transfer slips
   over LINE and names the record in a text; an admin verifies a slip; a payment
   provider calls back; the console records, reconciles and rejects payments and
   changes the record's status.  All of them end in reconcile_payment, which sums
   what was paid and activates the subscription (line_slip_service.py,
   line_payment_repo.py, billing_service.py, billing_payments.py).

   One record, to which every slip and the one payment request refer.  Callers
   are requests in progress; each of their steps is one database transaction,
   except reconcile_payment's own, which has two: it reads the other payments
   before it holds the lock of the record. *)
EXTENDS Naturals, FiniteSets, FiniteSetsExt

CONSTANTS
  Slips,        \* LINE messages with a slip
  Events,       \* provider events "settled" for the payment request
  Console,      \* the source of a payment that neither of them brought
  Callers,      \* requests the API serves at the same time
  Due,          \* amount_due, in units
  Amounts,      \* what a slip or a transfer may be about
  MaxPayments,  \* bound on the payments recorded
  MaxTransfers, \* bound on those of the console
  Troubles      \* what may go wrong

ASSUME SettlementAssumption ==
  /\ Due \in Nat \ {0} /\ Amounts \subseteq 1..Due /\ MaxPayments \in Nat /\ MaxTransfers \in Nat
  /\ Slips \cap Events = {} /\ Console \notin Slips \cup Events
  /\ Troubles \subseteq {"crash", "slow", "rematch", "contest"}

VARIABLES
  slip,       \* verification_status of a slip; "lapsed": in verification, but its lease is over
  context,    \* whether the customer has named the record
  imaging,    \* slips whose image handler has not matched them yet
  listed,     \* slips a text handler has listed as pending and not matched yet
  status,     \* of the billing record
  sub,        \* activated_by_payment_id of the record's subscription, 0 if there is none
  recorded,   \* number of payments
  payment,    \* payment_status
  source,     \* what brought a payment: the marker in its note, or the event
  amount,
  request,    \* status of the payment request
  noted,      \* events in billing_provider_events
  stage,      \* where a caller stands
  task,       \* what it works on
  work,       \* the payment it is reconciling, 0 if none
  seen        \* what it has read and will act upon

slipVars    == <<slip, context, imaging, listed>>
recordVars  == <<status, sub>>
paymentVars == <<recorded, payment, source, amount>>
eventVars   == <<request, noted>>
callerVars  == <<stage, task, work, seen>>
vars == <<slipVars, recordVars, paymentVars, eventVars, callerVars>>

Payments == 1..MaxPayments
Sources  == Slips \cup Events \cup {Console}
Final    == {"paid", "cancelled"}      \* nothing may be paid any more
\* awaiting_payment stands for overdue and failed as well.
Statuses == {"awaiting_payment", "payment_detected"} \cup Final
InVerification == {"verifying", "lapsed"}
Stages   == {"idle", "claimed", "failing", "called", "noted", "recording", "reconciling",
             "summing", "writing", "settled", "transition"}

\* PaidBy(S): reconciled_total of the payments S.  FROM counts only what is committed.
PaidBy(S)  == MapThenSumSet(LAMBDA p : amount[p], S)
Reconciled == {p \in Payments : payment[p] = "reconciled"}
Marked(s)  == {p \in Payments : payment[p] # "none" /\ source[p] = s}

Init ==
  /\ slip = [s \in Slips |-> "absent"]
  /\ context = FALSE /\ imaging = {} /\ listed = {}
  /\ status = "awaiting_payment" /\ sub = 0
  /\ recorded = 0 /\ payment = [p \in Payments |-> "none"]
  /\ source = [p \in Payments |-> Console] /\ amount = [p \in Payments |-> 0]
  /\ request = "pending" /\ noted = {}
  /\ stage = [c \in Callers |-> "idle"] /\ task = [c \in Callers |-> Console]
  /\ work = [c \in Callers |-> 0] /\ seen = [c \in Callers |-> "nothing"]

-----------------------------------------------------------------------------
(* The LINE webhook *)

\* _handle_image up to the match: create_slip is idempotent per message, so a
\* message that is delivered again does nothing.
SlipArrives(s) ==
  /\ slip[s] = "absent"
  /\ slip' = [slip EXCEPT ![s] = "pending"]
  /\ imaging' = imaging \cup {s}
  /\ UNCHANGED <<context, listed, recordVars, paymentVars, eventVars, callerVars>>

\* _handle_text: a reference to a payable record becomes the context, and the slips
\* that are pending are listed to be matched; without the trouble, only those their
\* image handlers have left alone.
TextArrives ==
  /\ status \notin Final
  /\ context' = TRUE
  /\ listed' = listed \cup
       {s \in Slips : slip[s] = "pending" /\ (s \notin imaging \/ "rematch" \in Troubles)}
  /\ UNCHANGED <<slip, imaging, recordVars, paymentVars, eventVars, callerVars>>

\* match_slip does not compare the status it overwrites.
Match(s) ==
  /\ slip' = [slip EXCEPT ![s] = "matched"]
  /\ UNCHANGED <<context, recordVars, paymentVars, eventVars, callerVars>>

\* _match_slip: the image handler finds the customer's latest context, or gives up.
ImageMatches(s) ==
  /\ s \in imaging
  /\ imaging' = imaging \ {s}
  /\ UNCHANGED listed
  /\ IF context THEN Match(s)
     ELSE UNCHANGED <<slip, context, recordVars, paymentVars, eventVars, callerVars>>

TextMatches(s) ==
  /\ s \in listed
  /\ listed' = listed \ {s}
  /\ UNCHANGED imaging
  /\ Match(s)

-----------------------------------------------------------------------------
(* reconcile_payment *)

Goes(c, to) == stage' = [stage EXCEPT ![c] = to]

Ends(c) ==
  /\ Goes(c, "idle")
  /\ task' = [task EXCEPT ![c] = Console]
  /\ work' = [work EXCEPT ![c] = 0]
  /\ seen' = [seen EXCEPT ![c] = "nothing"]

\* Whoever asked for a reconciliation goes on: the slip is finalized, all others are done.
Done(c)  == IF task[c] \in Slips THEN Goes(c, "settled") /\ UNCHANGED <<task, work, seen>>
            ELSE Ends(c)
\* An exception: the slip's claim is to be reverted.
Fails(c) == IF task[c] \in Slips THEN Goes(c, "failing") /\ UNCHANGED <<task, work, seen>>
            ELSE Ends(c)

\* record_payment: a pending payment, with the marker of its slip in the note.  The
\* admin reads an amount off the slip; an event is refused if it does not bring the
\* balance its request was made for.
Record(c, a) ==
  /\ stage[c] = "recording" /\ recorded < MaxPayments
  /\ IF task[c] \in Events THEN a = Due ELSE a \in Amounts
  /\ recorded' = recorded + 1
  /\ payment' = [payment EXCEPT ![recorded + 1] = "pending"]
  /\ source' = [source EXCEPT ![recorded + 1] = task[c]]
  /\ amount' = [amount EXCEPT ![recorded + 1] = a]
  /\ work' = [work EXCEPT ![c] = recorded + 1]
  /\ seen' = [seen EXCEPT ![c] = "reconciled"]
  /\ Goes(c, "reconciling")
  /\ UNCHANGED <<task, slipVars, recordVars, eventVars>>

\* The checks before the transaction: only a pending payment is decided.
ReadPayment(c) ==
  /\ stage[c] = "reconciling"
  /\ IF payment[work[c]] = "pending" THEN Goes(c, "summing") /\ UNCHANGED <<task, work, seen>>
     ELSE IF payment[work[c]] = seen[c] THEN Done(c) ELSE Fails(c)
  /\ UNCHANGED <<slipVars, recordVars, paymentVars, eventVars>>

\* Mutant of Covered: payments that are not decided count.
CoveredByAll(c) == PaidBy({p \in Payments : payment[p] \in {"pending", "reconciled"}}) >= Due

\* The transaction updates the payment, whose row it now holds, and reads the
\* payments that are committed.
Covered(c) == PaidBy(Reconciled \cup {work[c]}) >= Due

Count(c) ==
  /\ stage[c] = "summing"
  /\ \A d \in Callers \ {c} : stage[d] = "writing" => work[d] # work[c]
  /\ Goes(c, "writing")
  /\ seen' = [seen EXCEPT ![c] = IF @ = "rejected" THEN @
                                 ELSE IF Covered(c) THEN "paid" ELSE "payment_detected"]
  /\ UNCHANGED <<task, work, slipVars, recordVars, paymentVars, eventVars>>

\* The rest of it, under the lock of the record: a paid record gets its subscription.
Activates(c) == seen[c] = "paid" /\ sub = 0

Commit(c) ==
  /\ stage[c] = "writing"
  /\ payment' = [payment EXCEPT ![work[c]] =
                   IF seen[c] = "rejected" THEN "rejected" ELSE "reconciled"]
  /\ status' = IF seen[c] = "rejected" THEN status ELSE seen[c]
  /\ sub' = IF Activates(c) THEN work[c] ELSE sub
  /\ Done(c)
  /\ UNCHANGED <<recorded, source, amount, slipVars, eventVars>>

-----------------------------------------------------------------------------
(* The verification of a slip *)

Starts(c, t, to) ==
  /\ stage[c] = "idle"
  /\ task' = [task EXCEPT ![c] = t]
  /\ Goes(c, to)
  /\ UNCHANGED work

\* Mutant of Claim: the claim does not compare the status it replaces.
ClaimAgain(c, s) ==
  /\ slip[s] \in {"matched", "verifying"}
  /\ Starts(c, s, "claimed")
  /\ slip' = [slip EXCEPT ![s] = "verifying"]
  /\ UNCHANGED <<seen, context, imaging, listed, recordVars, paymentVars, eventVars>>

\* claim_slip_for_verification, after the checks of verify_slip.
Claim(c, s) ==
  /\ slip[s] = "matched"
  /\ Starts(c, s, "claimed")
  /\ slip' = [slip EXCEPT ![s] = "verifying"]
  /\ UNCHANGED <<seen, context, imaging, listed, recordVars, paymentVars, eventVars>>

Verifier(s) == {c \in Callers : task[c] = s}

\* Ten minutes pass: longer than any verification takes, unless callers are slow.
LeaseLapses(s) ==
  /\ slip[s] = "verifying"
  /\ "slow" \in Troubles \/ Verifier(s) = {}
  /\ slip' = [slip EXCEPT ![s] = "lapsed"]
  /\ UNCHANGED <<context, imaging, listed, recordVars, paymentVars, eventVars, callerVars>>

\* Mutant of Reclaim: the lease is renewed for a verifier that is dead.
ReclaimRenews(s) ==
  /\ slip[s] = "lapsed"
  /\ slip' = [slip EXCEPT ![s] = "verifying"]
  /\ UNCHANGED <<context, imaging, listed, recordVars, paymentVars, eventVars, callerVars>>

\* revert_stale_verifying_to_matched: the admin clicks again.
Reclaim(s) ==
  /\ slip[s] = "lapsed"
  /\ slip' = [slip EXCEPT ![s] = "matched"]
  /\ UNCHANGED <<context, imaging, listed, recordVars, paymentVars, eventVars, callerVars>>

\* Mutant of Resume: a payment with the marker is taken for a settled one.
ResumeSettled(c, p) == Goes(c, "settled") /\ UNCHANGED <<work, seen>>

\* A payment with the slip's marker is taken up where it was left.
Resume(c, p) ==
  IF payment[p] = "pending"
  THEN /\ Goes(c, "reconciling")
       /\ work' = [work EXCEPT ![c] = p]
       /\ seen' = [seen EXCEPT ![c] = "reconciled"]
  ELSE Goes(c, "settled") /\ UNCHANGED <<work, seen>>

\* verify_manual_payment up to record_payment: without a marker, the record must be payable.
Scan(c) ==
  /\ stage[c] = "claimed"
  /\ \/ /\ Marked(task[c]) = {} /\ status \notin Final /\ PaidBy(Reconciled) < Due
        /\ Goes(c, "recording") /\ UNCHANGED <<work, seen>>
     \/ /\ Marked(task[c]) = {} /\ (status \in Final \/ PaidBy(Reconciled) >= Due)
        /\ Goes(c, "failing") /\ UNCHANGED <<work, seen>>
     \/ \E p \in Marked(task[c]) :
          /\ \A q \in Marked(task[c]) : p <= q
          /\ Resume(c, p)
  /\ UNCHANGED <<task, slipVars, recordVars, paymentVars, eventVars>>

\* finalize_verification compares nothing either.
Finalize(c) ==
  /\ stage[c] = "settled"
  /\ slip' = [slip EXCEPT ![task[c]] = "verified"]
  /\ Ends(c)
  /\ UNCHANGED <<context, imaging, listed, recordVars, paymentVars, eventVars>>

\* revert_claim_to_matched
Revert(c) ==
  /\ stage[c] = "failing"
  /\ slip' = [slip EXCEPT ![task[c]] = IF @ \in InVerification THEN "matched" ELSE @]
  /\ Ends(c)
  /\ UNCHANGED <<context, imaging, listed, recordVars, paymentVars, eventVars>>

\* reject_slip, whatever became of the slip.
RejectSlip(s) ==
  /\ slip[s] \notin {"absent", "rejected"}
  /\ slip' = [slip EXCEPT ![s] = "rejected"]
  /\ UNCHANGED <<context, imaging, listed, recordVars, paymentVars, eventVars, callerVars>>

-----------------------------------------------------------------------------
(* The payment provider *)

\* _process_payment_callback reads the request; the provider may deliver an event
\* several times.
Call(c, e) ==
  /\ Starts(c, e, "called")
  /\ seen' = [seen EXCEPT ![c] = request]
  /\ UNCHANGED <<slipVars, recordVars, paymentVars, eventVars>>

\* Mutant of Note: a redelivery is not told.
NoteAgain(c) ==
  /\ stage[c] = "called"
  /\ noted' = noted \cup {task[c]}
  /\ Goes(c, "noted")
  /\ UNCHANGED <<task, work, seen, request, slipVars, recordVars, paymentVars>>

\* record_provider_callback: the unique index tells a redelivery.
Note(c) ==
  /\ stage[c] = "called"
  /\ noted' = noted \cup {task[c]}
  /\ IF task[c] \in noted THEN Ends(c)
     ELSE Goes(c, "noted") /\ UNCHANGED <<task, work, seen>>
  /\ UNCHANGED <<request, slipVars, recordVars, paymentVars>>

\* update_payment_request_status; a payment is due unless the request was settled
\* when it was read.
SettleRequest(c) ==
  /\ stage[c] = "noted"
  /\ request' = "settled"
  /\ IF seen[c] = "settled" THEN Ends(c)
     ELSE Goes(c, "recording") /\ UNCHANGED <<task, work, seen>>
  /\ UNCHANGED <<noted, slipVars, recordVars, paymentVars>>

-----------------------------------------------------------------------------
(* The console *)

\* record_bank_transfer_payment
Transfer(a) ==
  /\ recorded < MaxPayments /\ Cardinality(Marked(Console)) < MaxTransfers
  /\ recorded' = recorded + 1
  /\ payment' = [payment EXCEPT ![recorded + 1] = "pending"]
  /\ source' = [source EXCEPT ![recorded + 1] = Console]
  /\ amount' = [amount EXCEPT ![recorded + 1] = a]
  /\ UNCHANGED <<slipVars, recordVars, eventVars, callerVars>>

\* reconcile_payment, of any payment the admin sees; without the trouble, nobody
\* rejects what a slip or an event brought, or what somebody else is deciding otherwise.
Contested(p, target) ==
  \/ target = "rejected" /\ source[p] # Console
  \/ \E d \in Callers : work[d] = p /\ "rejected" \in {target, seen[d]}

Decide(c, p, target) ==
  /\ payment[p] = "pending"
  /\ Contested(p, target) => "contest" \in Troubles
  /\ stage[c] = "idle"
  /\ Goes(c, "reconciling")
  /\ work' = [work EXCEPT ![c] = p]
  /\ seen' = [seen EXCEPT ![c] = target]
  /\ UNCHANGED <<task, slipVars, recordVars, paymentVars, eventVars>>

\* transition_billing_record_status reads the record, then overwrites its status.
Allowed(st) == IF st \in Final THEN {} ELSE {"awaiting_payment", "cancelled"}

ReadRecord(c) ==
  /\ Starts(c, Console, "transition")
  /\ seen' = [seen EXCEPT ![c] = status]
  /\ UNCHANGED <<slipVars, recordVars, paymentVars, eventVars>>

WriteRecord(c) ==
  /\ stage[c] = "transition"
  /\ \E st \in Allowed(seen[c]) : status' = st
  /\ Ends(c)
  /\ UNCHANGED <<sub, slipVars, paymentVars, eventVars>>

\* The process that serves the request dies; its transaction is rolled back.
Crash(c) ==
  /\ "crash" \in Troubles /\ stage[c] # "idle"
  /\ Ends(c)
  /\ UNCHANGED <<slipVars, recordVars, paymentVars, eventVars>>

-----------------------------------------------------------------------------
Handle(c) ==
  \/ \E a \in 1..Due : Record(c, a)
  \/ ReadPayment(c) \/ Count(c) \/ Commit(c)
  \/ Scan(c) \/ Finalize(c) \/ Revert(c)
  \/ Note(c) \/ SettleRequest(c) \/ WriteRecord(c)

Ask(c) ==
  \/ \E s \in Slips : Claim(c, s)
  \/ \E e \in Events : Call(c, e)
  \/ \E p \in Payments, target \in {"reconciled", "rejected"} : Decide(c, p, target)
  \/ ReadRecord(c)

Line(s) ==
  \/ SlipArrives(s) \/ ImageMatches(s) \/ TextMatches(s)
  \/ LeaseLapses(s) \/ Reclaim(s) \/ RejectSlip(s)

Next ==
  \/ \E c \in Callers : Handle(c) \/ Ask(c) \/ Crash(c)
  \/ \E s \in Slips : Line(s)
  \/ TextArrives
  \/ \E a \in Amounts : Transfer(a)

Spec == Init /\ [][Next]_vars
-----------------------------------------------------------------------------
(* A caller that is not killed takes its next step, and is granted the row it waits
   for even if others come and go; time passes; an admin who sees
   a slip in verification for longer than the lease clicks again. *)
Fairness ==
  /\ \A c \in Callers : WF_vars(Handle(c)) /\ SF_vars(Count(c))
  /\ \A s \in Slips : WF_vars(LeaseLapses(s)) /\ WF_vars(Reclaim(s))

FairSpec == Spec /\ Fairness

-----------------------------------------------------------------------------
(* Properties *)

TypeOK ==
  /\ slip \in [Slips -> {"absent", "pending", "matched", "verified", "rejected"} \cup InVerification]
  /\ context \in BOOLEAN /\ imaging \subseteq Slips /\ listed \subseteq Slips
  /\ status \in Statuses /\ sub \in 0..MaxPayments
  /\ recorded \in 0..MaxPayments
  /\ payment \in [Payments -> {"none", "pending", "reconciled", "rejected"}]
  /\ source \in [Payments -> Sources] /\ amount \in [Payments -> 0..Due]
  /\ request \in {"pending", "settled"} /\ noted \subseteq Events
  /\ stage \in [Callers -> Stages] /\ task \in [Callers -> Sources]
  /\ work \in [Callers -> 0..MaxPayments]
  /\ seen \in [Callers -> Statuses \cup {"nothing", "pending", "settled", "reconciled", "rejected"}]

\* A slip is settled once: however often it is claimed, reclaimed after a crash and
\* verified again, it yields one payment (claim_slip_for_verification).
OnePaymentPerSlip == \A s \in Slips : Cardinality(Marked(s)) <= 1

\* A provider event that is delivered again yields no second payment.
OnePaymentPerEvent == \A e \in Events : Cardinality(Marked(e)) <= 1

\* A slip is marked verified only after its settlement has succeeded.
VerifiedIsSettled ==
  \A s \in Slips : slip[s] = "verified" => \E p \in Marked(s) : payment[p] = "reconciled"

\* The subscription of a record was activated by a payment that counts, and together
\* with the others it covered what was due.
ActiveIsCovered == sub # 0 => sub \in Reconciled /\ PaidBy(Reconciled) >= Due

\* An event that was noted is not lost: a payment came of it, or the request had
\* been settled already, or somebody is at it.
EventsArePaid ==
  \A e \in noted : Marked(e) # {} \/ Cardinality(noted) > 1 \/ \E c \in Callers : task[c] = e

\* Whatever dies, a slip somebody began to verify does not stay in verification.
ClaimsEnd == \A s \in Slips : slip[s] \in InVerification ~> slip[s] \notin InVerification
=============================================================================
