------------------------ MODULE SlipSettlementProofs ------------------------
(* What holds of the settlement for any number of slips, events, callers and payments.
   A slip and an event are paid for once, a verified slip was settled, and what is active
   was paid in full; each proof says which of the troubles it has to rule out, and uses it
   at one step. *)
EXTENDS SlipSettlement, FiniteSetTheorems, WellFoundedInduction, TLAPS

\* TypeOK, part by part.
SlipOK ==
  /\ slip \in [Slips -> {"absent", "pending", "matched", "verified", "rejected"} \cup InVerification]
  /\ context \in BOOLEAN /\ imaging \subseteq Slips /\ listed \subseteq Slips
RecordOK  == status \in Statuses /\ sub \in 0..MaxPayments
PaymentOK ==
  /\ recorded \in 0..MaxPayments
  /\ payment \in [Payments -> {"none", "pending", "reconciled", "rejected"}]
  /\ source \in [Payments -> Sources] /\ amount \in [Payments -> 0..Due]
EventOK  == request \in {"pending", "settled"} /\ noted \subseteq Events
CallerOK ==
  /\ stage \in [Callers -> Stages] /\ task \in [Callers -> Sources]
  /\ work \in [Callers -> 0..MaxPayments]
  /\ seen \in [Callers -> Statuses \cup {"nothing", "pending", "settled", "reconciled", "rejected"}]

LEMMA TypeParts == TypeOK <=> SlipOK /\ RecordOK /\ PaymentOK /\ EventOK /\ CallerOK
BY DEF TypeOK, SlipOK, RecordOK, PaymentOK, EventOK, CallerOK

\* What a caller works on, by where it stands.
StageFits(c) ==
  /\ stage[c] = "idle" => task[c] = Console /\ work[c] = 0
  /\ stage[c] \in {"called", "noted"} => task[c] \in Events
  /\ stage[c] \in {"claimed", "failing", "settled"} => task[c] \in Slips
  /\ stage[c] = "recording" => task[c] \in Slips \cup Events
  /\ stage[c] = "transition" => task[c] = Console
  /\ stage[c] = "writing" => seen[c] \in {"rejected", "paid", "payment_detected"}
StageOK == \A c \in Callers : StageFits(c)

\* The payments recorded are the first ones, and whoever works on one works on one of them.
RecordedOK == \A p \in Payments : payment[p] # "none" => p <= recorded
WorkOK     == \A c \in Callers : work[c] # 0 => payment[work[c]] # "none"

Typed == TypeOK /\ StageOK /\ RecordedOK /\ WorkOK

-----------------------------------------------------------------------------
(* How the state of a caller changes *)

\* c's state is replaced by a state of that type, everybody else's is kept.
Replaced(c, st, t, p, v) ==
  /\ stage' = [stage EXCEPT ![c] = st] /\ task' = [task EXCEPT ![c] = t]
  /\ work' = [work EXCEPT ![c] = p] /\ seen' = [seen EXCEPT ![c] = v]

LEMMA ReplacedFacts ==
  ASSUME CallerOK, NEW c \in Callers, NEW st, NEW t, NEW p, NEW v, Replaced(c, st, t, p, v)
  PROVE  /\ stage'[c] = st /\ task'[c] = t /\ work'[c] = p /\ seen'[c] = v
         /\ \A d \in Callers \ {c} : /\ stage'[d] = stage[d] /\ task'[d] = task[d]
                                     /\ work'[d] = work[d] /\ seen'[d] = seen[d]
         /\ st \in Stages /\ t \in Sources /\ p \in 0..MaxPayments
            /\ v \in Statuses \cup {"nothing", "pending", "settled", "reconciled", "rejected"}
            => CallerOK'
BY DEF CallerOK, Replaced

\* What a step of a caller does with its state.
Moves(c) == \E st \in Stages, t \in Sources, p \in 0..MaxPayments,
               v \in Statuses \cup {"nothing", "pending", "settled", "reconciled", "rejected"} :
              Replaced(c, st, t, p, v)

LEMMA GoesMoves ==
  ASSUME CallerOK, NEW c \in Callers, NEW to \in Stages, Goes(c, to), UNCHANGED <<task, work, seen>>
  PROVE  Replaced(c, to, task[c], work[c], seen[c])
BY DEF CallerOK, Goes, Replaced

LEMMA EndsMoves ==
  ASSUME CallerOK, NEW c \in Callers, Ends(c)
  PROVE  Replaced(c, "idle", Console, 0, "nothing")
BY DEF CallerOK, Goes, Ends, Replaced

LEMMA DoneMoves ==
  ASSUME CallerOK, NEW c \in Callers, Done(c)
  PROVE  IF task[c] \in Slips THEN Replaced(c, "settled", task[c], work[c], seen[c])
         ELSE Replaced(c, "idle", Console, 0, "nothing")
BY GoesMoves, EndsMoves DEF Done, Stages

LEMMA FailsMoves ==
  ASSUME CallerOK, NEW c \in Callers, Fails(c)
  PROVE  IF task[c] \in Slips THEN Replaced(c, "failing", task[c], work[c], seen[c])
         ELSE Replaced(c, "idle", Console, 0, "nothing")
BY GoesMoves, EndsMoves DEF Fails, Stages

LEMMA StartsMoves ==
  ASSUME Typed, NEW c \in Callers, NEW t \in Sources, NEW to \in Stages, Starts(c, t, to),
         NEW v, seen' = [seen EXCEPT ![c] = v]
  PROVE  Replaced(c, to, t, 0, v) /\ stage[c] = "idle"
<1>1. work[c] = 0 BY DEF Typed, StageOK, StageFits, Starts
<1> QED BY <1>1, TypeParts DEF Typed, CallerOK, Starts, Goes, Replaced

\* A slip, an event and the console are different sources.
LEMMA SourcesDiffer ==
  /\ \A s \in Slips : s \notin Events /\ s # Console
  /\ \A e \in Events : e \notin Slips /\ e # Console
  /\ Slips \subseteq Sources /\ Events \subseteq Sources /\ Console \in Sources
BY SettlementAssumption DEF Sources

-----------------------------------------------------------------------------
(* The steps of a caller, one by one: what its state becomes *)

LEMMA ScanMoves ==
  ASSUME Typed, NEW c \in Callers, Scan(c)
  PROVE  /\ stage[c] = "claimed" /\ task[c] \in Slips
         /\ \/ Marked(task[c]) = {} /\ Replaced(c, "recording", task[c], work[c], seen[c])
            \/ Replaced(c, "failing", task[c], work[c], seen[c])
            \/ \E p \in Marked(task[c]) :
                 \/ payment[p] = "pending" /\ Replaced(c, "reconciling", task[c], p, "reconciled")
                 \/ payment[p] # "pending" /\ Replaced(c, "settled", task[c], work[c], seen[c])
<1> USE TypeParts DEF Typed, Stages
<1>1. stage[c] = "claimed" /\ task[c] \in Slips BY DEF Scan, StageOK, StageFits
<1>2. ASSUME NEW p \in Marked(task[c]), Resume(c, p), UNCHANGED task
      PROVE  \/ payment[p] = "pending" /\ Replaced(c, "reconciling", task[c], p, "reconciled")
             \/ payment[p] # "pending" /\ Replaced(c, "settled", task[c], work[c], seen[c])
  <2>1. CASE payment[p] = "pending"
    BY <1>2, <2>1 DEF Resume, Goes, Replaced, CallerOK
  <2>2. CASE payment[p] # "pending"
    BY <1>2, <2>2, GoesMoves DEF Resume
  <2> QED BY <2>1, <2>2
<1>3. CASE \E p \in Marked(task[c]) : Resume(c, p)
  BY <1>1, <1>2, <1>3 DEF Scan
<1>4. CASE Goes(c, "recording") /\ UNCHANGED <<work, seen>> /\ Marked(task[c]) = {}
  BY <1>1, <1>4, GoesMoves DEF Scan
<1>5. CASE Goes(c, "failing") /\ UNCHANGED <<work, seen>>
  BY <1>1, <1>5, GoesMoves DEF Scan
<1> QED BY <1>3, <1>4, <1>5 DEF Scan

LEMMA RecordMoves ==
  ASSUME Typed, NEW c \in Callers, NEW a \in 1..Due, Record(c, a)
  PROVE  /\ stage[c] = "recording" /\ recorded + 1 \in Payments
         /\ Replaced(c, "reconciling", task[c], recorded + 1, "reconciled")
<1>1. recorded + 1 \in Payments
  BY TypeParts, SettlementAssumption DEF Typed, Record, PaymentOK, Payments
<1>2. task' = [task EXCEPT ![c] = task[c]] BY TypeParts DEF Typed, Record, CallerOK
<1> QED BY <1>1, <1>2 DEF Record, Goes, Replaced

LEMMA ReadPaymentMoves ==
  ASSUME Typed, NEW c \in Callers, ReadPayment(c)
  PROVE  /\ stage[c] = "reconciling"
         /\ \/ Replaced(c, "summing", task[c], work[c], seen[c])
            \/ /\ task[c] \notin Slips
               /\ Replaced(c, "idle", Console, 0, "nothing")
            \/ /\ task[c] \in Slips /\ payment[work[c]] = seen[c]
               /\ Replaced(c, "settled", task[c], work[c], seen[c])
            \/ /\ task[c] \in Slips
               /\ Replaced(c, "failing", task[c], work[c], seen[c])
<1> USE TypeParts DEF Typed, Stages
<1>1. CASE Goes(c, "summing") /\ UNCHANGED <<task, work, seen>>
  BY <1>1, GoesMoves DEF ReadPayment
<1>2. CASE Done(c) /\ payment[work[c]] = seen[c]
  BY <1>2, DoneMoves DEF ReadPayment
<1>3. CASE Fails(c)
  BY <1>3, FailsMoves DEF ReadPayment
<1> QED BY <1>1, <1>2, <1>3 DEF ReadPayment

LEMMA CountMoves ==
  ASSUME Typed, NEW c \in Callers, Count(c)
  PROVE  /\ stage[c] = "summing"
         /\ \E v \in {"rejected", "paid", "payment_detected"} :
              /\ v = "rejected" <=> seen[c] = "rejected"
              /\ Replaced(c, "writing", task[c], work[c], v)
<1> DEFINE v == IF seen[c] = "rejected" THEN "rejected"
                ELSE IF Covered(c) THEN "paid" ELSE "payment_detected"
<1>1. v \in {"rejected", "paid", "payment_detected"} /\ (v = "rejected" <=> seen[c] = "rejected")
  OBVIOUS
<1>2. seen' = [seen EXCEPT ![c] = v] BY TypeParts DEF Count, Typed, CallerOK
<1>3. Replaced(c, "writing", task[c], work[c], v)
  BY <1>2, TypeParts DEF Count, Typed, CallerOK, Goes, Replaced
<1> QED BY <1>1, <1>3 DEF Count

LEMMA CommitMoves ==
  ASSUME Typed, NEW c \in Callers, Commit(c)
  PROVE  /\ stage[c] = "writing" /\ seen[c] \in {"rejected", "paid", "payment_detected"}
         /\ \/ task[c] \in Slips /\ Replaced(c, "settled", task[c], work[c], seen[c])
            \/ task[c] \notin Slips /\ Replaced(c, "idle", Console, 0, "nothing")
BY TypeParts, DoneMoves DEF Typed, Commit, StageOK, StageFits

LEMMA EventMoves ==
  ASSUME Typed, NEW c \in Callers, Note(c) \/ SettleRequest(c)
  PROVE  /\ task[c] \in Events
         /\ \/ Replaced(c, "idle", Console, 0, "nothing")
            \/ /\ Note(c) /\ stage[c] = "called" /\ task[c] \notin noted
               /\ Replaced(c, "noted", task[c], work[c], seen[c])
            \/ /\ SettleRequest(c) /\ stage[c] = "noted"
               /\ Replaced(c, "recording", task[c], work[c], seen[c])
BY TypeParts, GoesMoves, EndsMoves DEF Typed, Note, SettleRequest, StageOK, StageFits, Stages

LEMMA EndMoves ==
  ASSUME Typed, NEW c \in Callers, Finalize(c) \/ Revert(c) \/ WriteRecord(c) \/ Crash(c)
  PROVE  Replaced(c, "idle", Console, 0, "nothing")
BY TypeParts, EndsMoves DEF Typed, Finalize, Revert, WriteRecord, Crash

LEMMA AskMoves ==
  ASSUME Typed, NEW c \in Callers, Ask(c)
  PROVE  /\ stage[c] = "idle" /\ task[c] = Console
         /\ \/ \E s \in Slips : /\ Claim(c, s) /\ slip[s] = "matched"
                                /\ Replaced(c, "claimed", s, 0, seen[c])
            \/ \E e \in Events : Call(c, e) /\ Replaced(c, "called", e, 0, request)
            \/ \E p \in Payments, target \in {"reconciled", "rejected"} :
                 Decide(c, p, target) /\ Replaced(c, "reconciling", Console, p, target)
            \/ ReadRecord(c) /\ Replaced(c, "transition", Console, 0, status)
<1> USE TypeParts DEF Typed, Stages
<1>1. stage[c] = "idle" => task[c] = Console BY DEF StageOK, StageFits
<1>2. ASSUME NEW s \in Slips, Claim(c, s)
      PROVE  Replaced(c, "claimed", s, 0, seen[c]) /\ stage[c] = "idle" /\ slip[s] = "matched"
  <2>1. seen' = [seen EXCEPT ![c] = seen[c]] BY <1>2 DEF Claim, CallerOK
  <2> QED BY <1>2, <2>1, SourcesDiffer, StartsMoves DEF Claim
<1>3. ASSUME NEW e \in Events, Call(c, e)
      PROVE  Replaced(c, "called", e, 0, request) /\ stage[c] = "idle"
  BY <1>3, SourcesDiffer, StartsMoves DEF Call
<1>4. ASSUME NEW p \in Payments, NEW target \in {"reconciled", "rejected"}, Decide(c, p, target)
      PROVE  Replaced(c, "reconciling", Console, p, target) /\ stage[c] = "idle"
  BY <1>1, <1>4 DEF Decide, Goes, Replaced, CallerOK
<1>5. ASSUME ReadRecord(c)
      PROVE  Replaced(c, "transition", Console, 0, status) /\ stage[c] = "idle"
  BY <1>5, SourcesDiffer, StartsMoves DEF ReadRecord
<1> QED BY <1>1, <1>2, <1>3, <1>4, <1>5 DEF Ask

-----------------------------------------------------------------------------
(* Types *)

\* What a step leaves of the payments recorded.
LEMMA PaymentsKept ==
  ASSUME Typed, UNCHANGED paymentVars
  PROVE  PaymentOK' /\ RecordedOK' /\ \A x : Marked(x)' = Marked(x)
BY TypeParts DEF Typed, PaymentOK, RecordedOK, paymentVars, Marked, Payments

\* The payment that is recorded next, by the handler of the source x.
Adds(x) ==
  \E a \in 1..Due :
    /\ recorded + 1 \in Payments /\ recorded' = recorded + 1
    /\ payment' = [payment EXCEPT ![recorded + 1] = "pending"]
    /\ source' = [source EXCEPT ![recorded + 1] = x]
    /\ amount' = [amount EXCEPT ![recorded + 1] = a]

LEMMA AddsFacts ==
  ASSUME Typed, NEW x \in Sources, Adds(x)
  PROVE  /\ PaymentOK' /\ RecordedOK'
         /\ \A y : Marked(y)' = Marked(y) \cup (IF x = y THEN {recorded + 1} ELSE {})
         /\ recorded + 1 \in Payments /\ payment[recorded + 1] = "none"
         /\ payment' = [payment EXCEPT ![recorded + 1] = "pending"]
         /\ source' = [source EXCEPT ![recorded + 1] = x]
<1> USE TypeParts
<1>1. recorded \in Nat /\ recorded + 1 \in Payments /\ MaxPayments \in Nat
  BY SettlementAssumption DEF Typed, PaymentOK, Adds
<1>2. payment[recorded + 1] = "none" BY <1>1 DEF Typed, RecordedOK, Payments
<1>3. PaymentOK'
  <2>1. recorded' \in 0..MaxPayments BY <1>1 DEF Adds, Payments
  <2>2. amount' \in [Payments -> 0..Due]
    BY SettlementAssumption DEF Adds, Typed, PaymentOK
  <2> QED BY <2>1, <2>2 DEF Adds, Typed, PaymentOK
<1>4. RecordedOK' BY <1>1 DEF Adds, Typed, PaymentOK, RecordedOK, Payments
<1>5. ASSUME NEW y PROVE Marked(y)' = Marked(y) \cup (IF x = y THEN {recorded + 1} ELSE {})
  <2>1. \A p \in Payments : p # recorded + 1 => payment'[p] = payment[p] /\ source'[p] = source[p]
    BY DEF Adds, Typed, PaymentOK
  <2>2. payment'[recorded + 1] = "pending" /\ source'[recorded + 1] = x
    BY <1>1 DEF Adds, Typed, PaymentOK
  <2> QED BY <1>1, <1>2, <2>1, <2>2 DEF Marked
<1> QED BY <1>1, <1>2, <1>3, <1>4, <1>5 DEF Adds

LEMMA Recordings ==
  /\ \A c \in Callers, a \in 1..Due :
       Typed /\ Record(c, a) => Adds(task[c]) /\ task[c] \in Slips \cup Events
  /\ \A a \in Amounts : Typed /\ Transfer(a) => Adds(Console)
<1>1. ASSUME Typed, recorded < MaxPayments PROVE recorded + 1 \in Payments
  BY <1>1, TypeParts, SettlementAssumption DEF Typed, PaymentOK, Payments
<1>2. ASSUME NEW c \in Callers, NEW a \in 1..Due, Typed, Record(c, a)
      PROVE  Adds(task[c]) /\ task[c] \in Slips \cup Events
  BY <1>1, <1>2 DEF Record, Adds, Typed, StageOK, StageFits
<1>3. ASSUME NEW a \in Amounts, Typed, Transfer(a) PROVE Adds(Console)
  BY <1>1, <1>3, SettlementAssumption DEF Transfer, Adds
<1> QED BY <1>2, <1>3

LEMMA CommitFacts ==
  ASSUME Typed, NEW c \in Callers, Commit(c)
  PROVE  /\ PaymentOK' /\ RecordOK' /\ RecordedOK'
         /\ \A x : Marked(x)' = Marked(x)
         /\ \A p \in Payments : payment[p] # "none" <=> payment'[p] # "none"
         /\ UNCHANGED <<recorded, source>>
<1> USE TypeParts
<1> DEFINE v == IF seen[c] = "rejected" THEN "rejected" ELSE "reconciled"
<1>1. seen[c] \in {"rejected", "paid", "payment_detected"} BY CommitMoves
<1>2. payment' = [payment EXCEPT ![work[c]] = v] /\ UNCHANGED <<recorded, source, amount>>
  BY DEF Commit
<1>3. \A p \in Payments : payment[p] # "none" <=> payment'[p] # "none"
  BY <1>2, SettlementAssumption DEF Typed, WorkOK, PaymentOK, CallerOK, Payments
<1>4. PaymentOK' BY <1>2 DEF Typed, PaymentOK
<1>5. RecordOK'
  BY <1>1 DEF Commit, Typed, RecordOK, CallerOK, Statuses, Final
<1>6. \A x : Marked(x)' = Marked(x) BY <1>2, <1>3 DEF Marked
<1>7. RecordedOK' BY <1>2, <1>3 DEF Typed, RecordedOK
<1> QED BY <1>2, <1>3, <1>4, <1>5, <1>6, <1>7

\* What was recorded stays recorded.
LEMMA PaymentsStay ==
  ASSUME Typed, [Next]_vars
  PROVE  PaymentOK' /\ RecordedOK' /\ \A p \in Payments : payment[p] # "none" => payment'[p] # "none"
<1>1. CASE UNCHANGED paymentVars BY <1>1, PaymentsKept DEF paymentVars
<1>2. ASSUME NEW x \in Sources, Adds(x)
      PROVE  PaymentOK' /\ RecordedOK' /\ \A p \in Payments : payment[p] # "none" => payment'[p] # "none"
  BY <1>2, AddsFacts, TypeParts DEF Typed, PaymentOK
<1>3. ASSUME NEW c \in Callers, NEW a \in 1..Due, Record(c, a)
      PROVE  PaymentOK' /\ RecordedOK' /\ \A p \in Payments : payment[p] # "none" => payment'[p] # "none"
  BY <1>2, <1>3, Recordings, SourcesDiffer
<1>4. ASSUME NEW a \in Amounts, Transfer(a)
      PROVE  PaymentOK' /\ RecordedOK' /\ \A p \in Payments : payment[p] # "none" => payment'[p] # "none"
  BY <1>2, <1>4, Recordings, SourcesDiffer
<1>5. ASSUME NEW c \in Callers, Commit(c)
      PROVE  PaymentOK' /\ RecordedOK' /\ \A p \in Payments : payment[p] # "none" => payment'[p] # "none"
  BY <1>5, CommitFacts
<1>6. ASSUME NEW c \in Callers,
             \/ ReadPayment(c) \/ Count(c) \/ Scan(c) \/ Finalize(c) \/ Revert(c)
             \/ Note(c) \/ SettleRequest(c) \/ WriteRecord(c) \/ Ask(c) \/ Crash(c)
      PROVE  UNCHANGED paymentVars
  BY <1>6 DEF ReadPayment, Count, Scan, Finalize, Revert, Note, SettleRequest, WriteRecord,
              Ask, Claim, Call, Decide, ReadRecord, Crash
<1>7. ASSUME NEW s \in Slips, Line(s) PROVE UNCHANGED paymentVars
  BY <1>7 DEF Line, SlipArrives, ImageMatches, TextMatches, Match, LeaseLapses, Reclaim, RejectSlip
<1>8. CASE TextArrives \/ UNCHANGED vars
  BY <1>1, <1>8 DEF TextArrives, vars
<1> QED BY <1>1, <1>3, <1>4, <1>5, <1>6, <1>7, <1>8 DEF Next, Handle

\* After its step a caller works on what it should.
LEMMA CallerFits ==
  ASSUME Typed, [Next]_vars, NEW c \in Callers, Handle(c) \/ Ask(c) \/ Crash(c)
  PROVE  Moves(c) /\ StageFits(c)' /\ (work'[c] # 0 => payment'[work'[c]] # "none")
<1> USE TypeParts DEF Stages, Statuses, Final
<1>1. CallerOK /\ StageFits(c) /\ stage[c] \in Stages /\ task[c] \in Sources
      /\ work[c] \in 0..MaxPayments
      /\ seen[c] \in Statuses \cup {"nothing", "pending", "settled", "reconciled", "rejected"}
  BY DEF Typed, StageOK, CallerOK
<1>2. \A p \in Payments : p \in 0..MaxPayments /\ p # 0
  BY SettlementAssumption DEF Payments
<1>3. work[c] # 0 => payment'[work[c]] # "none"
  BY <1>1, PaymentsStay, SettlementAssumption DEF Typed, WorkOK, Payments
<1>4. 0 \in 0..MaxPayments BY SettlementAssumption
<1>5. ASSUME Replaced(c, "idle", Console, 0, "nothing")
      PROVE  Moves(c) /\ StageFits(c)' /\ (work'[c] # 0 => payment'[work'[c]] # "none")
  BY <1>1, <1>4, <1>5, ReplacedFacts, SourcesDiffer DEF Moves, StageFits
<1>6. ASSUME NEW to \in Stages, Replaced(c, to, task[c], work[c], seen[c]),
             \/ to \in {"settled", "failing"} /\ task[c] \in Slips
             \/ to = "noted" /\ task[c] \in Events
             \/ to = "recording" /\ task[c] \in Slips \cup Events
             \/ to = "summing"
      PROVE  Moves(c) /\ StageFits(c)' /\ (work'[c] # 0 => payment'[work'[c]] # "none")
  BY <1>1, <1>3, <1>6, ReplacedFacts DEF Moves, StageFits
<1>7. ASSUME NEW p \in Payments, NEW v \in {"reconciled", "rejected"}, payment'[p] # "none",
             NEW t \in Sources, Replaced(c, "reconciling", t, p, v)
      PROVE  Moves(c) /\ StageFits(c)' /\ (work'[c] # 0 => payment'[work'[c]] # "none")
  BY <1>1, <1>2, <1>7, ReplacedFacts DEF Moves, StageFits
<1>8. CASE \E a \in 1..Due : Record(c, a)
  <2>1. PICK a \in 1..Due : Record(c, a) BY <1>8
  <2>2. Adds(task[c]) /\ Replaced(c, "reconciling", task[c], recorded + 1, "reconciled")
    BY <2>1, Recordings, RecordMoves
  <2>3. recorded + 1 \in Payments /\ payment'[recorded + 1] # "none"
    BY <1>1, <2>2, AddsFacts DEF Typed, PaymentOK
  <2> QED BY <1>1, <1>7, <2>2, <2>3
<1>9. CASE ReadPayment(c)
  BY <1>5, <1>6, <1>9, ReadPaymentMoves
<1>10. CASE Count(c)
  <2>1. PICK v \in {"rejected", "paid", "payment_detected"} :
          Replaced(c, "writing", task[c], work[c], v)
    BY <1>10, CountMoves
  <2> QED BY <1>1, <1>3, <2>1, ReplacedFacts DEF Moves, StageFits
<1>11. CASE Commit(c)
  BY <1>5, <1>6, <1>11, CommitMoves
<1>12. CASE Scan(c)
  <2>1. task[c] \in Slips BY <1>12, ScanMoves
  <2>2. ASSUME NEW p \in Marked(task[c]), Replaced(c, "reconciling", task[c], p, "reconciled")
        PROVE  Moves(c) /\ StageFits(c)' /\ (work'[c] # 0 => payment'[work'[c]] # "none")
    <3>1. p \in Payments /\ payment'[p] # "none" BY PaymentsStay DEF Marked
    <3> QED BY <1>1, <1>7, <2>2, <3>1
  <2> QED BY <1>6, <1>12, <2>1, <2>2, ScanMoves
<1>13. CASE Note(c) \/ SettleRequest(c)
  BY <1>5, <1>6, <1>13, EventMoves
<1>14. CASE Finalize(c) \/ Revert(c) \/ WriteRecord(c) \/ Crash(c)
  BY <1>5, <1>14, EndMoves
<1>15. CASE Ask(c)
  <2>1. ASSUME NEW t \in Sources, NEW to \in {"claimed", "called", "transition"},
               NEW v \in Statuses \cup {"nothing", "pending", "settled", "reconciled", "rejected"},
               Replaced(c, to, t, 0, v),
               \/ to = "claimed" /\ t \in Slips
               \/ to = "called" /\ t \in Events
               \/ to = "transition" /\ t = Console
        PROVE  Moves(c) /\ StageFits(c)' /\ (work'[c] # 0 => payment'[work'[c]] # "none")
    BY <1>1, <1>4, <2>1, ReplacedFacts DEF Moves, StageFits
  <2>2. ASSUME NEW p \in Payments, NEW target \in {"reconciled", "rejected"},
               Decide(c, p, target), Replaced(c, "reconciling", Console, p, target)
        PROVE  Moves(c) /\ StageFits(c)' /\ (work'[c] # 0 => payment'[work'[c]] # "none")
    <3>1. payment'[p] # "none" BY <2>2, PaymentsStay DEF Decide
    <3> QED BY <1>7, <2>2, <3>1, SourcesDiffer
  <2>3. request \in {"pending", "settled"} /\ status \in Statuses
    BY DEF Typed, EventOK, RecordOK
  <2> QED BY <1>1, <1>15, <2>1, <2>2, <2>3, AskMoves, SourcesDiffer
<1> QED BY <1>8, <1>9, <1>10, <1>11, <1>12, <1>13, <1>14, <1>15 DEF Handle

\* A step of one caller leaves the others where they are.
LEMMA Others ==
  ASSUME Typed, [Next]_vars, NEW c \in Callers, Handle(c) \/ Ask(c) \/ Crash(c),
         NEW d \in Callers, d # c
  PROVE  /\ stage'[d] = stage[d] /\ task'[d] = task[d]
         /\ work'[d] = work[d] /\ seen'[d] = seen[d]
BY CallerFits, ReplacedFacts, TypeParts DEF Moves, Typed

LEMMA CallersKeepType ==
  ASSUME Typed, [Next]_vars PROVE CallerOK' /\ StageOK' /\ WorkOK'
<1> USE TypeParts
<1>1. CASE UNCHANGED callerVars
  <2>1. CallerOK' /\ StageOK'
    BY <1>1 DEF Typed, CallerOK, StageOK, StageFits, callerVars
  <2>2. WorkOK'
    BY <1>1, PaymentsStay, SettlementAssumption
       DEF Typed, WorkOK, CallerOK, Payments, callerVars
  <2> QED BY <2>1, <2>2
<1>2. ASSUME NEW c \in Callers, Handle(c) \/ Ask(c) \/ Crash(c)
      PROVE  CallerOK' /\ StageOK' /\ WorkOK'
  <2>1. Moves(c) /\ StageFits(c)' /\ (work'[c] # 0 => payment'[work'[c]] # "none")
    BY <1>2, CallerFits
  <2>2. CallerOK' BY <2>1, ReplacedFacts DEF Moves, Typed
  <2>3. ASSUME NEW d \in Callers, d # c
        PROVE  StageFits(d)' /\ (work'[d] # 0 => payment'[work'[d]] # "none")
    <3>1. /\ stage'[d] = stage[d] /\ task'[d] = task[d]
          /\ work'[d] = work[d] /\ seen'[d] = seen[d]
      BY <1>2, <2>3, Others
    <3>2. StageFits(d)' BY <3>1 DEF Typed, StageOK, StageFits
    <3>3. work[d] # 0 => payment'[work[d]] # "none"
      BY PaymentsStay, SettlementAssumption DEF Typed, WorkOK, CallerOK, Payments
    <3> QED BY <3>1, <3>2, <3>3
  <2> QED BY <2>1, <2>2, <2>3 DEF StageOK, WorkOK
<1>3. ASSUME NEW s \in Slips, Line(s) PROVE UNCHANGED callerVars
  BY <1>3 DEF Line, SlipArrives, ImageMatches, TextMatches, Match, LeaseLapses, Reclaim, RejectSlip
<1>4. CASE TextArrives \/ UNCHANGED vars \/ \E a \in Amounts : Transfer(a)
  BY <1>1, <1>4 DEF TextArrives, Transfer, vars
<1> QED BY <1>1, <1>2, <1>3, <1>4 DEF Next

LEMMA RestKeepsType ==
  ASSUME Typed, [Next]_vars PROVE SlipOK' /\ RecordOK' /\ EventOK'
<1> USE TypeParts
<1>1. SlipOK /\ RecordOK /\ EventOK BY DEF Typed
<1>2. ASSUME NEW c \in Callers,
             \/ \E a \in 1..Due : Record(c, a)
             \/ ReadPayment(c) \/ Count(c) \/ Scan(c)
             \/ \E e \in Events : Call(c, e)
             \/ \E p \in Payments, target \in {"reconciled", "rejected"} : Decide(c, p, target)
             \/ ReadRecord(c) \/ Crash(c)
      PROVE  UNCHANGED <<slipVars, recordVars, eventVars>>
  BY <1>2 DEF Record, ReadPayment, Count, Scan, Call, Decide, ReadRecord, Crash
<1>3. ASSUME UNCHANGED slipVars PROVE SlipOK' BY <1>1, <1>3 DEF SlipOK, slipVars
<1>4. ASSUME UNCHANGED recordVars PROVE RecordOK' BY <1>1, <1>4 DEF RecordOK, recordVars
<1>5. ASSUME UNCHANGED eventVars PROVE EventOK' BY <1>1, <1>5 DEF EventOK, eventVars
<1>6. ASSUME NEW c \in Callers, Commit(c) PROVE SlipOK' /\ RecordOK' /\ EventOK'
  BY <1>3, <1>5, <1>6, CommitFacts DEF Commit
<1>7. ASSUME NEW c \in Callers, Finalize(c) \/ Revert(c) \/ \E s \in Slips : Claim(c, s)
      PROVE  SlipOK' /\ RecordOK' /\ EventOK'
  <2>1. UNCHANGED <<context, imaging, listed, recordVars, eventVars>>
    BY <1>7 DEF Finalize, Revert, Claim
  <2>2. \E s, st : /\ slip' = [slip EXCEPT ![s] = st]
                   /\ st \in {"verified", "matched", "verifying", slip[s]}
    BY <1>7 DEF Finalize, Revert, Claim
  <2>3. SlipOK' BY <1>1, <2>1, <2>2 DEF SlipOK, InVerification
  <2> QED BY <1>4, <1>5, <2>1, <2>3
<1>8. ASSUME NEW c \in Callers, Note(c) \/ SettleRequest(c)
      PROVE  SlipOK' /\ RecordOK' /\ EventOK'
  <2>1. task[c] \in Events BY <1>8, EventMoves
  <2>2. EventOK' BY <1>1, <1>8, <2>1 DEF EventOK, Note, SettleRequest
  <2> QED BY <1>3, <1>4, <1>8, <2>2 DEF Note, SettleRequest
<1>9. ASSUME NEW c \in Callers, WriteRecord(c) PROVE SlipOK' /\ RecordOK' /\ EventOK'
  <2>1. status' \in Statuses BY <1>9 DEF WriteRecord, Allowed, Statuses, Final
  <2>2. RecordOK' BY <1>1, <1>9, <2>1 DEF RecordOK, WriteRecord
  <2> QED BY <1>3, <1>5, <1>9, <2>2 DEF WriteRecord
<1>10. ASSUME NEW s \in Slips, Line(s) PROVE SlipOK' /\ RecordOK' /\ EventOK'
  <2>1. UNCHANGED <<context, recordVars, eventVars>>
    BY <1>10 DEF Line, SlipArrives, ImageMatches, TextMatches, Match, LeaseLapses, Reclaim, RejectSlip
  <2>2. /\ \/ slip' = slip
           \/ \E st \in {"pending", "matched", "lapsed", "rejected"} :
                slip' = [slip EXCEPT ![s] = st]
        /\ imaging' \subseteq imaging \cup {s} /\ listed' \subseteq listed
    BY <1>10 DEF Line, SlipArrives, ImageMatches, TextMatches, Match, LeaseLapses, Reclaim, RejectSlip
  <2>3. SlipOK' BY <1>1, <2>1, <2>2 DEF SlipOK, InVerification
  <2> QED BY <1>4, <1>5, <2>1, <2>3
<1>11. CASE TextArrives
  <2>1. SlipOK' BY <1>1, <1>11 DEF SlipOK, TextArrives
  <2> QED BY <1>4, <1>5, <1>11, <2>1 DEF TextArrives
<1>12. CASE UNCHANGED vars \/ \E a \in Amounts : Transfer(a)
  BY <1>3, <1>4, <1>5, <1>12 DEF vars, Transfer
<1> QED BY <1>2, <1>3, <1>4, <1>5, <1>6, <1>7, <1>8, <1>9, <1>10, <1>11, <1>12
   DEF Next, Handle, Ask

LEMMA StepKeepsType == Typed /\ [Next]_vars => Typed'
<1> SUFFICES ASSUME Typed, [Next]_vars PROVE Typed'
  OBVIOUS
<1>1. TypeOK' <=> SlipOK' /\ RecordOK' /\ PaymentOK' /\ EventOK' /\ CallerOK'
  BY TypeParts, PTL
<1> QED BY <1>1, PaymentsStay, CallersKeepType, RestKeepsType DEF Typed

LEMMA InitTyped == Init => Typed
<1> SUFFICES ASSUME Init PROVE Typed
  OBVIOUS
<1>1. SlipOK /\ RecordOK /\ EventOK
  <2>1. context \in BOOLEAN BY Zenon DEF Init
  <2>2. SlipOK BY <2>1 DEF Init, SlipOK
  <2>3. RecordOK /\ EventOK BY SettlementAssumption DEF Init, RecordOK, EventOK, Statuses
  <2> QED BY <2>2, <2>3
<1>2. PaymentOK /\ RecordedOK
  BY SettlementAssumption, SourcesDiffer DEF Init, PaymentOK, RecordedOK, Payments
<1>3. CallerOK /\ StageOK /\ WorkOK
  BY SettlementAssumption, SourcesDiffer
     DEF Init, CallerOK, Stages, StageOK, StageFits, WorkOK
<1> QED BY <1>1, <1>2, <1>3, TypeParts DEF Typed

\* Every variable keeps its type, and nobody works on a payment there is not.
THEOREM TypeCorrect == Spec => []TypeOK
<1>1. Typed => TypeOK BY DEF Typed
<1> QED BY <1>1, InitTyped, StepKeepsType, PTL DEF Spec

-----------------------------------------------------------------------------
(* What brings a payment *)

\* A payment with the mark of a slip or an event is recorded by somebody who records it,
\* and then does no longer.
LEMMA MarkedGrows ==
  ASSUME Typed, [Next]_vars, NEW x \in Slips \cup Events
  PROVE  \/ Marked(x)' = Marked(x)
         \/ \E c \in Callers :
              /\ stage[c] = "recording" /\ task[c] = x
              /\ Marked(x)' = Marked(x) \cup {recorded + 1}
              /\ stage'[c] = "reconciling" /\ UNCHANGED <<slipVars, eventVars>>
              /\ \A d \in Callers : task'[d] = task[d] /\ (d # c => stage'[d] = stage[d])
<1> USE TypeParts
<1>1. x \in Sources /\ x # Console BY SourcesDiffer
<1>2. CASE UNCHANGED paymentVars BY <1>2, PaymentsKept
<1>3. ASSUME NEW c \in Callers, NEW a \in 1..Due, Record(c, a)
      PROVE  \/ Marked(x)' = Marked(x)
             \/ /\ stage[c] = "recording" /\ task[c] = x
                /\ Marked(x)' = Marked(x) \cup {recorded + 1}
                /\ stage'[c] = "reconciling" /\ UNCHANGED <<slipVars, eventVars>>
                /\ \A d \in Callers : task'[d] = task[d] /\ (d # c => stage'[d] = stage[d])
  <2>1. task[c] \in Sources /\ Adds(task[c]) BY <1>3, Recordings, SourcesDiffer
  <2>2. Marked(x)' = Marked(x) \cup (IF task[c] = x THEN {recorded + 1} ELSE {})
    BY <2>1, AddsFacts
  <2>3. stage[c] = "recording" /\ Replaced(c, "reconciling", task[c], recorded + 1, "reconciled")
    BY <1>3, RecordMoves
  <2>4. /\ stage'[c] = "reconciling"
        /\ \A d \in Callers : task'[d] = task[d] /\ (d # c => stage'[d] = stage[d])
    BY <2>3, ReplacedFacts DEF Typed
  <2> QED BY <1>3, <2>2, <2>3, <2>4 DEF Record
<1>4. ASSUME NEW a \in Amounts, Transfer(a) PROVE Marked(x)' = Marked(x)
  <2>1. Adds(Console) /\ Console \in Sources BY <1>4, Recordings, SourcesDiffer
  <2>2. Marked(x)' = Marked(x) \cup (IF Console = x THEN {recorded + 1} ELSE {})
    BY <2>1, AddsFacts
  <2> QED BY <1>1, <2>2
<1>5. ASSUME NEW c \in Callers, Commit(c) PROVE Marked(x)' = Marked(x)
  BY <1>5, CommitFacts
<1>6. ASSUME NEW c \in Callers,
             \/ ReadPayment(c) \/ Count(c) \/ Scan(c) \/ Finalize(c) \/ Revert(c)
             \/ Note(c) \/ SettleRequest(c) \/ WriteRecord(c) \/ Ask(c) \/ Crash(c)
      PROVE  UNCHANGED paymentVars
  BY <1>6 DEF ReadPayment, Count, Scan, Finalize, Revert, Note, SettleRequest, WriteRecord,
              Ask, Claim, Call, Decide, ReadRecord, Crash
<1>7. ASSUME NEW s \in Slips, Line(s) PROVE UNCHANGED paymentVars
  BY <1>7 DEF Line, SlipArrives, ImageMatches, TextMatches, Match, LeaseLapses, Reclaim, RejectSlip
<1>8. CASE TextArrives \/ UNCHANGED vars
  BY <1>2, <1>8 DEF TextArrives, vars
<1> QED BY <1>2, <1>3, <1>4, <1>5, <1>6, <1>7, <1>8 DEF Next, Handle

\* Who begins to record: a verifier whose slip has no payment, or the caller an event was
\* noted for; who is noted for one: a caller whose event was not noted before.
LEMMA WhoRecords ==
  ASSUME Typed, [Next]_vars, NEW c \in Callers
  PROVE  /\ stage'[c] = "recording" /\ stage[c] # "recording" =>
              /\ task'[c] = task[c]
              /\ \/ task[c] \in Slips /\ Marked(task[c]) = {}
                 \/ task[c] \in Events /\ stage[c] = "noted"
         /\ stage'[c] = "noted" /\ stage[c] # "noted" =>
              Note(c) /\ task[c] \in Events \ noted
         /\ stage'[c] \in {"recording", "noted"} => task'[c] = task[c]
<1> USE TypeParts
<1>1. CASE stage'[c] = stage[c] /\ task'[c] = task[c]
  BY <1>1
<1>2. ASSUME NEW to, NEW t, NEW p, NEW v, Replaced(c, to, t, p, v)
      PROVE  stage'[c] = to /\ task'[c] = t
  BY <1>2, ReplacedFacts DEF Typed
<1>3. CASE \E a \in 1..Due : Record(c, a) BY <1>2, <1>3, RecordMoves
<1>4. CASE ReadPayment(c) BY <1>2, <1>4, ReadPaymentMoves
<1>5. CASE Count(c) BY <1>2, <1>5, CountMoves
<1>6. CASE Commit(c) BY <1>2, <1>6, CommitMoves
<1>7. CASE Scan(c) BY <1>2, <1>7, ScanMoves
<1>8. CASE Note(c) \/ SettleRequest(c) BY <1>2, <1>8, EventMoves
<1>9. CASE Finalize(c) \/ Revert(c) \/ WriteRecord(c) \/ Crash(c) BY <1>2, <1>9, EndMoves
<1>10. CASE Ask(c) BY <1>2, <1>10, AskMoves
<1>11. ASSUME NEW d \in Callers, Handle(d) \/ Ask(d) \/ Crash(d), d # c
       PROVE  stage'[c] = stage[c] /\ task'[c] = task[c]
  BY <1>11, Others
<1>12. ASSUME NEW s \in Slips, Line(s) PROVE UNCHANGED callerVars
  BY <1>12 DEF Line, SlipArrives, ImageMatches, TextMatches, Match, LeaseLapses, Reclaim, RejectSlip
<1>13. CASE TextArrives \/ UNCHANGED vars \/ \E a \in Amounts : Transfer(a)
  BY <1>1, <1>13 DEF TextArrives, Transfer, vars, callerVars
<1>14. CASE UNCHANGED callerVars
  BY <1>1, <1>14 DEF callerVars
<1>15. CASE Handle(c)
  BY <1>3, <1>4, <1>5, <1>6, <1>7, <1>8, <1>9, <1>15 DEF Handle
<1> QED BY <1>1, <1>9, <1>10, <1>11, <1>12, <1>13, <1>14, <1>15 DEF Next

-----------------------------------------------------------------------------
(* An event is paid for once *)

\* The callers that are to record what the event e brings.
Payers(e) == {c \in Callers : stage[c] \in {"noted", "recording"} /\ task[c] = e}

EventOnce(e) ==
  /\ \A c, d \in Payers(e) : c = d
  /\ Payers(e) # {} => Marked(e) = {}
  /\ e \notin noted => Payers(e) = {} /\ Marked(e) = {}
  /\ \A p, q \in Marked(e) : p = q

EventInv == Typed /\ \A e \in Events : EventOnce(e)

LEMMA NotedGrows == [Next]_vars => noted \subseteq noted'
<1>1. [Next]_vars =>
        \/ noted' = noted
        \/ \E c \in Callers : noted' = noted \cup {task[c]}
  BY DEF Next, Handle, Ask, Crash, Line, vars, eventVars, Record, ReadPayment, Count, Commit,
         Scan, Finalize, Revert, Note, SettleRequest, WriteRecord, Claim, Call, Decide, ReadRecord,
         SlipArrives, ImageMatches, TextMatches, Match, LeaseLapses, Reclaim, RejectSlip,
         TextArrives, Transfer
<1> QED BY <1>1

LEMMA StepPaysOnce ==
  ASSUME EventInv, [Next]_vars, NEW e \in Events PROVE EventOnce(e)'
<1> USE DEF EventInv
<1>1. EventOnce(e) /\ noted \subseteq noted' BY NotedGrows
<1>2. \A c \in Payers(e)' :
        c \in Payers(e) \/ (Note(c) /\ e \notin noted /\ task[c] = e)
  BY WhoRecords, SourcesDiffer DEF Payers
<1>3. CASE \E c \in Callers : Note(c) /\ task[c] = e /\ e \notin noted
  <2>1. PICK c \in Callers : Note(c) /\ task[c] = e /\ e \notin noted BY <1>3
  <2>2. Payers(e) = {} /\ Marked(e) = {} BY <1>1, <2>1 DEF EventOnce
  <2>3. Payers(e)' \subseteq {c}
    <3>1. \A d \in Callers \ {c} : stage'[d] = stage[d] /\ task'[d] = task[d]
      BY <2>1, Others DEF Handle
    <3> QED BY <2>2, <3>1 DEF Payers
  <2>4. e \in noted' BY <2>1 DEF Note
  <2>5. Marked(e)' = {} BY <2>1, <2>2, PaymentsKept DEF Note
  <2> QED BY <2>3, <2>4, <2>5 DEF EventOnce
<1>4. CASE Payers(e)' \subseteq Payers(e)
  <2>1. CASE Marked(e)' = Marked(e) BY <1>1, <1>4, <2>1 DEF EventOnce
  <2>2. CASE Marked(e)' # Marked(e)
    <3>1. PICK c \in Callers :
            /\ stage[c] = "recording" /\ task[c] = e
            /\ Marked(e)' = Marked(e) \cup {recorded + 1}
            /\ stage'[c] = "reconciling"
      BY <2>2, MarkedGrows
    <3>2. c \in Payers(e) /\ Marked(e) = {} /\ Payers(e) \subseteq {c} /\ e \in noted
      BY <1>1, <3>1 DEF EventOnce, Payers
    <3>3. Payers(e)' = {} BY <1>4, <3>1, <3>2 DEF Payers
    <3> QED BY <1>1, <3>1, <3>2, <3>3 DEF EventOnce
  <2> QED BY <2>1, <2>2
<1>5. Payers(e)' \subseteq Callers BY DEF Payers
<1> QED BY <1>2, <1>3, <1>4, <1>5

LEMMA AtMostOne ==
  ASSUME NEW S, \A p, q \in S : p = q PROVE Cardinality(S) <= 1
<1>1. CASE S = {} BY <1>1, FS_EmptySet
<1>2. CASE S # {}
  <2>1. PICK p \in S : S = {p} BY <1>2
  <2>2. Cardinality({p}) = 1 BY FS_Singleton
  <2> QED BY <2>1, <2>2
<1> QED BY <1>1, <1>2

\* However often an event of the provider is delivered, and to however many callers at
\* once, one payment is recorded for it.
THEOREM EventsPayOnce == Spec => []OnePaymentPerEvent
<1>1. Init => EventInv
  <2>1. ASSUME Init, NEW e \in Events PROVE EventOnce(e)
    BY <2>1 DEF Init, EventOnce, Payers, Marked
  <2> QED BY <2>1, InitTyped DEF EventInv
<1>2. EventInv /\ [Next]_vars => EventInv'
  <2>1. ASSUME EventInv, [Next]_vars, NEW e \in Events PROVE EventOnce(e)'
    BY <2>1, StepPaysOnce
  <2> QED BY <2>1, StepKeepsType DEF EventInv
<1>3. EventInv => OnePaymentPerEvent
  BY AtMostOne DEF EventInv, EventOnce, OnePaymentPerEvent
<1> QED BY <1>1, <1>2, <1>3, PTL DEF Spec

-----------------------------------------------------------------------------
(* A slip is settled once *)

\* The lease outlives a verification, and the handler of a text leaves alone the slips
\* whose image handler is not done.
Prompt == "slow" \notin Troubles /\ "rematch" \notin Troubles

\* One caller at most verifies a slip, and only one that is nobody's turn to match.
VerifiedByOne(s) ==
  /\ \A c, d \in Verifier(s) : c = d
  /\ slip[s] \in {"absent", "pending", "matched", "lapsed"} => Verifier(s) = {}
  /\ s \in listed \cup imaging => slip[s] \in {"pending", "rejected"} /\ Verifier(s) = {}
  /\ s \notin listed \cap imaging

\* Who records for a slip is the first to do so.
RecordedOnce(s) ==
  /\ \A c \in Verifier(s) : stage[c] = "recording" => Marked(s) = {}
  /\ \A p, q \in Marked(s) : p = q

SlipInv == Typed /\ \A s \in Slips : VerifiedByOne(s) /\ RecordedOnce(s)

\* Only who claims a slip begins to verify it.
LEMMA WhoVerifies ==
  ASSUME Typed, [Next]_vars, NEW c \in Callers, NEW s \in Slips, task'[c] = s
  PROVE  task[c] = s \/ Claim(c, s)
<1> USE TypeParts
<1>1. s # Console /\ s \notin Events BY SourcesDiffer
<1>2. ASSUME NEW to, NEW t, NEW p, NEW v, Replaced(c, to, t, p, v) PROVE t = s
  BY <1>2, ReplacedFacts DEF Typed
<1>3. CASE \E a \in 1..Due : Record(c, a) BY <1>2, <1>3, RecordMoves
<1>4. CASE ReadPayment(c) BY <1>1, <1>2, <1>4, ReadPaymentMoves
<1>5. CASE Count(c) BY <1>2, <1>5, CountMoves
<1>6. CASE Commit(c) BY <1>1, <1>2, <1>6, CommitMoves
<1>7. CASE Scan(c) BY <1>2, <1>7, ScanMoves
<1>8. CASE Note(c) \/ SettleRequest(c) BY <1>1, <1>2, <1>8, EventMoves
<1>9. CASE Finalize(c) \/ Revert(c) \/ WriteRecord(c) \/ Crash(c) BY <1>1, <1>2, <1>9, EndMoves
<1>10. CASE Ask(c) BY <1>1, <1>2, <1>10, AskMoves
<1>11. ASSUME NEW d \in Callers, Handle(d) \/ Ask(d) \/ Crash(d), d # c PROVE task[c] = s
  BY <1>11, Others
<1>12. ASSUME NEW t \in Slips, Line(t) PROVE UNCHANGED callerVars
  BY <1>12 DEF Line, SlipArrives, ImageMatches, TextMatches, Match, LeaseLapses, Reclaim, RejectSlip
<1>13. CASE TextArrives \/ UNCHANGED vars \/ \E a \in Amounts : Transfer(a)
  BY <1>13 DEF TextArrives, Transfer, vars, callerVars
<1>14. CASE UNCHANGED callerVars
  BY <1>14 DEF callerVars
<1>15. CASE Handle(c)
  BY <1>3, <1>4, <1>5, <1>6, <1>7, <1>8, <1>9, <1>15 DEF Handle
<1> QED BY <1>9, <1>10, <1>11, <1>12, <1>13, <1>14, <1>15 DEF Next

\* No two callers verify a slip: not after a lease has lapsed, and not after a late match.
LEMMA StepVerifiedByOne ==
  ASSUME Prompt, SlipInv, [Next]_vars, NEW s \in Slips PROVE VerifiedByOne(s)'
<1> USE TypeParts DEF SlipInv
<1>1. VerifiedByOne(s) /\ slip \in [Slips -> {"absent", "pending", "matched", "verified", "rejected"}
                                               \cup InVerification]
  BY DEF Typed, SlipOK
<1>2. CASE Verifier(s)' \subseteq Verifier(s) /\ slip'[s] = slip[s]
           /\ UNCHANGED <<listed, imaging>>
  BY <1>1, <1>2 DEF VerifiedByOne
<1>3. ASSUME NEW c \in Callers, Claim(c, s) PROVE VerifiedByOne(s)'
  <2>1. Verifier(s) = {} /\ s \notin listed \cup imaging
    BY <1>1, <1>3 DEF Claim, VerifiedByOne
  <2>2. Verifier(s)' \subseteq {c}
    <3>1. \A d \in Callers \ {c} : task'[d] = task[d] BY <1>3, Others DEF Ask
    <3> QED BY <2>1, <3>1 DEF Verifier
  <2>3. slip'[s] = "verifying" /\ UNCHANGED <<listed, imaging>> BY <1>1, <1>3 DEF Claim
  <2> QED BY <2>1, <2>2, <2>3 DEF VerifiedByOne
<1>4. ASSUME ~(slip[s] = "matched" /\ slip'[s] = "verifying")
      PROVE  Verifier(s)' \subseteq Verifier(s)
  <2>1. ~ \E c \in Callers : Claim(c, s) BY <1>1, <1>4 DEF Claim
  <2> QED BY <2>1, WhoVerifies DEF Verifier
<1>5. ASSUME NEW c \in Callers, Finalize(c) PROVE VerifiedByOne(s)'
  <2>1. CASE task[c] = s
    <3>1. c \in Verifier(s) /\ s \notin listed \cup imaging
      BY <1>1, <2>1 DEF Verifier, VerifiedByOne
    <3>2. slip'[s] = "verified" /\ UNCHANGED <<listed, imaging>>
      BY <1>1, <1>5, <2>1 DEF Finalize
    <3>3. Verifier(s)' \subseteq Verifier(s) BY <1>4, <3>2
    <3> QED BY <1>1, <3>1, <3>2, <3>3 DEF VerifiedByOne
  <2>2. CASE task[c] # s
    <3>1. slip'[s] = slip[s] /\ UNCHANGED <<listed, imaging>>
      BY <1>1, <1>5, <2>2 DEF Finalize
    <3> QED BY <1>2, <1>4, <3>1
  <2> QED BY <2>1, <2>2
<1>6. ASSUME NEW c \in Callers, Revert(c) PROVE VerifiedByOne(s)'
  <2>1. CASE task[c] = s
    <3>1. c \in Verifier(s) /\ Verifier(s) \subseteq {c} /\ s \notin listed \cup imaging
      BY <1>1, <2>1 DEF Verifier, VerifiedByOne
    <3>2. slip'[s] \in {"matched", slip[s]} /\ UNCHANGED <<listed, imaging>>
      BY <1>1, <1>6, <2>1 DEF Revert
    <3>3. task'[c] = Console BY <1>6, EndMoves, ReplacedFacts DEF Typed
    <3>4. Verifier(s)' = {}
      <4>1. Verifier(s)' \subseteq Verifier(s) BY <1>4, <3>2
      <4> QED BY <3>1, <3>3, <4>1, SourcesDiffer DEF Verifier
    <3> QED BY <1>1, <3>1, <3>2, <3>4 DEF VerifiedByOne
  <2>2. CASE task[c] # s
    <3>1. slip'[s] = slip[s] /\ UNCHANGED <<listed, imaging>>
      BY <1>1, <1>6, <2>2 DEF Revert
    <3> QED BY <1>2, <1>4, <3>1
  <2> QED BY <2>1, <2>2
<1>7. ASSUME NEW c \in Callers, NEW t \in Slips, t # s, Claim(c, t) PROVE VerifiedByOne(s)'
  <2>1. slip'[s] = slip[s] /\ UNCHANGED <<listed, imaging>> BY <1>1, <1>7 DEF Claim
  <2> QED BY <1>2, <1>4, <2>1
<1>8. ASSUME NEW c \in Callers,
             \/ \E a \in 1..Due : Record(c, a)
             \/ ReadPayment(c) \/ Count(c) \/ Commit(c) \/ Scan(c)
             \/ Note(c) \/ SettleRequest(c) \/ WriteRecord(c)
             \/ \E e \in Events : Call(c, e)
             \/ \E p \in Payments, target \in {"reconciled", "rejected"} : Decide(c, p, target)
             \/ ReadRecord(c) \/ Crash(c)
      PROVE  VerifiedByOne(s)'
  <2>1. UNCHANGED slipVars
    BY <1>8 DEF Record, ReadPayment, Count, Commit, Scan, Note, SettleRequest, WriteRecord, Call,
                Decide, ReadRecord, Crash
  <2> QED BY <1>2, <1>4, <2>1 DEF slipVars
<1>9. ASSUME UNCHANGED callerVars PROVE Verifier(s)' = Verifier(s)
  BY <1>9 DEF Verifier, callerVars
<1>10. ASSUME NEW t \in Slips, Line(t) PROVE VerifiedByOne(s)'
  <2>1. Verifier(s)' = Verifier(s)
    BY <1>9, <1>10 DEF Line, SlipArrives, ImageMatches, TextMatches, Match, LeaseLapses, Reclaim,
                       RejectSlip
  <2>2. CASE t # s
    <3>1. slip'[s] = slip[s] /\ (s \in listed' <=> s \in listed) /\ (s \in imaging' <=> s \in imaging)
      BY <1>1, <1>10, <2>2 DEF Line, SlipArrives, ImageMatches, TextMatches, Match, LeaseLapses,
                               Reclaim, RejectSlip
    <3> QED BY <1>1, <2>1, <3>1 DEF VerifiedByOne
  <2>3. CASE t = s
    <3>1. CASE SlipArrives(s) BY <1>1, <2>1, <3>1 DEF SlipArrives, VerifiedByOne
    <3>2. CASE ImageMatches(s) BY <1>1, <2>1, <3>2 DEF ImageMatches, Match, VerifiedByOne
    <3>3. CASE TextMatches(s) BY <1>1, <2>1, <3>3 DEF TextMatches, Match, VerifiedByOne
    <3>4. CASE LeaseLapses(s) BY <1>1, <2>1, <3>4 DEF LeaseLapses, VerifiedByOne, Prompt
    <3>5. CASE Reclaim(s) BY <1>1, <2>1, <3>5 DEF Reclaim, VerifiedByOne
    <3>6. CASE RejectSlip(s) BY <1>1, <2>1, <3>6 DEF RejectSlip, VerifiedByOne
    <3> QED BY <1>10, <2>3, <3>1, <3>2, <3>3, <3>4, <3>5, <3>6 DEF Line
  <2> QED BY <2>2, <2>3
<1>11. CASE TextArrives
  BY <1>1, <1>9, <1>11 DEF TextArrives, VerifiedByOne, Prompt
<1>12. CASE UNCHANGED vars \/ \E a \in Amounts : Transfer(a)
  BY <1>2, <1>9, <1>12 DEF Transfer, vars, slipVars
<1> QED BY <1>3, <1>5, <1>6, <1>7, <1>8, <1>10, <1>11, <1>12 DEF Next, Handle, Ask

LEMMA StepRecordedOnce ==
  ASSUME SlipInv, [Next]_vars, NEW s \in Slips PROVE RecordedOnce(s)'
<1> USE DEF SlipInv
<1>1. VerifiedByOne(s) /\ RecordedOnce(s) OBVIOUS
<1>2. CASE Marked(s)' = Marked(s)
  <2>1. ASSUME NEW c \in Callers, task'[c] = s, stage'[c] = "recording" PROVE Marked(s) = {}
    <3>1. task[c] = s BY <2>1, WhoRecords
    <3>2. CASE stage[c] = "recording" BY <1>1, <3>1, <3>2 DEF RecordedOnce, Verifier
    <3>3. CASE stage[c] # "recording"
      BY <2>1, <3>1, <3>3, WhoRecords, SourcesDiffer
    <3> QED BY <3>2, <3>3
  <2> QED BY <1>1, <1>2, <2>1 DEF RecordedOnce, Verifier
<1>3. CASE Marked(s)' # Marked(s)
  <2>1. PICK c \in Callers :
          /\ stage[c] = "recording" /\ task[c] = s
          /\ Marked(s)' = Marked(s) \cup {recorded + 1}
          /\ stage'[c] = "reconciling"
          /\ \A d \in Callers : task'[d] = task[d] /\ (d # c => stage'[d] = stage[d])
    BY <1>3, MarkedGrows
  <2>2. c \in Verifier(s) /\ Verifier(s) \subseteq {c} /\ Marked(s) = {}
    BY <1>1, <2>1 DEF VerifiedByOne, RecordedOnce, Verifier
  <2>3. Verifier(s)' \subseteq {c} BY <2>1, <2>2 DEF Verifier
  <2> QED BY <2>1, <2>2, <2>3 DEF RecordedOnce
<1> QED BY <1>2, <1>3

\* However often a slip is claimed, reclaimed after a crash, and verified again, it yields
\* one payment, if leases outlive verifications and matches are not late.  Both are
\* needed: with either trouble TLC finds a slip that is paid for twice.
THEOREM SlipsPayOnce == ASSUME Prompt PROVE Spec => []OnePaymentPerSlip
<1>1. Init => SlipInv
  <2>1. ASSUME Init, NEW s \in Slips PROVE VerifiedByOne(s) /\ RecordedOnce(s)
    BY <2>1, SourcesDiffer DEF Init, VerifiedByOne, RecordedOnce, Verifier, Marked
  <2> QED BY <2>1, InitTyped DEF SlipInv
<1>2. SlipInv /\ [Next]_vars => SlipInv'
  <2>1. ASSUME SlipInv, [Next]_vars, NEW s \in Slips PROVE (VerifiedByOne(s) /\ RecordedOnce(s))'
    BY <2>1, StepVerifiedByOne, StepRecordedOnce
  <2> QED BY <2>1, StepKeepsType DEF SlipInv
<1>3. SlipInv => OnePaymentPerSlip
  BY AtMostOne DEF SlipInv, RecordedOnce, OnePaymentPerSlip
<1> QED BY <1>1, <1>2, <1>3, PTL DEF Spec

-----------------------------------------------------------------------------
(* A verified slip was settled *)

\* Nobody rejects what a slip or an event brought.
Uncontested == "contest" \notin Troubles

Settled(s) == \E p \in Marked(s) : payment[p] = "reconciled"

\* Only payments of the console are rejected, or about to be.
RejectedOK ==
  /\ \A p \in Payments : payment[p] = "rejected" => source[p] = Console
  /\ \A c \in Callers : work[c] # 0 /\ seen[c] = "rejected" => source[work[c]] = Console

\* A verifier reconciles a payment of its slip, and goes on when that is done.
Verifies(c) ==
  task[c] \in Slips =>
    /\ stage[c] \in {"reconciling", "summing", "writing"} => work[c] \in Marked(task[c])
    /\ stage[c] \in {"reconciling", "summing"} => seen[c] = "reconciled"
    /\ stage[c] = "writing" => seen[c] # "rejected"
    /\ stage[c] = "settled" => Settled(task[c])

SettledInv ==
  Typed /\ RejectedOK /\ (\A c \in Callers : Verifies(c)) /\ VerifiedIsSettled

\* What was recorded keeps its source, and is decided by who commits a decision of it.
LEMMA WhoDecides ==
  ASSUME Typed, [Next]_vars, NEW p \in Payments
  PROVE  /\ payment[p] # "none" => source'[p] = source[p] /\ payment'[p] # "none"
         /\ payment'[p] \in {payment[p], "pending"}
            \/ \E c \in Callers :
                 /\ Commit(c) /\ work[c] = p
                 /\ payment'[p] = IF seen[c] = "rejected" THEN "rejected" ELSE "reconciled"
         /\ payment'[p] # payment[p] /\ payment'[p] = "pending" => payment[p] = "none"
<1> USE TypeParts
<1>1. CASE UNCHANGED paymentVars BY <1>1 DEF paymentVars
<1>2. ASSUME NEW x \in Sources, Adds(x)
      PROVE  /\ payment[p] # "none" => source'[p] = source[p] /\ payment'[p] # "none"
             /\ payment'[p] \in {payment[p], "pending"}
             /\ payment'[p] # payment[p] /\ payment'[p] = "pending" => payment[p] = "none"
  BY <1>2, AddsFacts DEF Typed, PaymentOK
<1>3. ASSUME NEW c \in Callers, NEW a \in 1..Due, Record(c, a)
      PROVE  \E x \in Sources : Adds(x)
  BY <1>3, Recordings, SourcesDiffer
<1>4. ASSUME NEW a \in Amounts, Transfer(a) PROVE \E x \in Sources : Adds(x)
  BY <1>4, Recordings, SourcesDiffer
<1>5. ASSUME NEW c \in Callers, Commit(c)
      PROVE  /\ source'[p] = source[p] /\ (payment[p] # "none" => payment'[p] # "none")
             /\ payment'[p] = payment[p]
                \/ /\ work[c] = p
                   /\ payment'[p] = IF seen[c] = "rejected" THEN "rejected" ELSE "reconciled"
  <2>1. CASE work[c] = p BY <1>5, <2>1 DEF Commit, Typed, PaymentOK
  <2>2. CASE work[c] # p BY <1>5, <2>2 DEF Commit, Typed, PaymentOK
  <2> QED BY <2>1, <2>2
<1>6. ASSUME NEW c \in Callers,
             \/ ReadPayment(c) \/ Count(c) \/ Scan(c) \/ Finalize(c) \/ Revert(c)
             \/ Note(c) \/ SettleRequest(c) \/ WriteRecord(c) \/ Ask(c) \/ Crash(c)
      PROVE  UNCHANGED paymentVars
  BY <1>6 DEF ReadPayment, Count, Scan, Finalize, Revert, Note, SettleRequest, WriteRecord,
              Ask, Claim, Call, Decide, ReadRecord, Crash
<1>7. ASSUME NEW s \in Slips, Line(s) PROVE UNCHANGED paymentVars
  BY <1>7 DEF Line, SlipArrives, ImageMatches, TextMatches, Match, LeaseLapses, Reclaim, RejectSlip
<1>8. CASE TextArrives \/ UNCHANGED vars
  BY <1>1, <1>8 DEF TextArrives, vars
<1>9. CASE \E c \in Callers : Commit(c)
  BY <1>5, <1>9
<1> QED BY <1>1, <1>2, <1>3, <1>4, <1>6, <1>7, <1>8, <1>9 DEF Next, Handle

LEMMA MarkedStays ==
  ASSUME Typed, [Next]_vars, NEW s, NEW p \in Marked(s) PROVE p \in Marked(s)'
BY WhoDecides DEF Marked

\* The payment that settled a slip is not rejected afterwards.
LEMMA SettledStays ==
  ASSUME SettledInv, [Next]_vars, NEW s \in Slips, Settled(s) PROVE Settled(s)'
<1>1. PICK p \in Marked(s) : payment[p] = "reconciled" BY DEF Settled
<1>2. p \in Payments /\ source[p] = s /\ p # 0 BY SettlementAssumption DEF Marked, Payments
<1>3. p \in Marked(s)' BY MarkedStays DEF SettledInv
<1>4. ASSUME NEW c \in Callers, work[c] = p PROVE seen[c] # "rejected"
  BY <1>2, <1>4, SourcesDiffer DEF SettledInv, RejectedOK
<1>5. payment'[p] = "reconciled" BY <1>1, <1>2, <1>4, WhoDecides DEF SettledInv
<1> QED BY <1>3, <1>5 DEF Settled

\* Only who decides on a payment is about to reject it.
LEMMA StepRejectedOK ==
  ASSUME Uncontested, SettledInv, [Next]_vars PROVE RejectedOK'
<1> USE TypeParts DEF SettledInv
<1>1. ASSUME NEW p \in Payments, payment'[p] = "rejected" PROVE source'[p] = Console
  <2>1. CASE payment[p] = "rejected" BY <1>1, <2>1, WhoDecides DEF RejectedOK
  <2>2. CASE payment[p] # "rejected"
    <3>1. PICK c \in Callers : Commit(c) /\ work[c] = p /\ seen[c] = "rejected"
      BY <1>1, <2>2, WhoDecides
    <3>2. source[p] = Console /\ payment[p] # "none"
      BY <3>1, SettlementAssumption DEF RejectedOK, Typed, WorkOK, Payments
    <3> QED BY <3>2, WhoDecides
  <2> QED BY <2>1, <2>2
<1>2. ASSUME NEW c \in Callers, work[c] # 0, seen[c] = "rejected" PROVE source'[work[c]] = Console
  <2>1. work[c] \in Payments /\ payment[work[c]] # "none" /\ source[work[c]] = Console
    BY <1>2, SettlementAssumption DEF RejectedOK, Typed, WorkOK, CallerOK, Payments
  <2> QED BY <2>1, WhoDecides
<1>3. ASSUME NEW c \in Callers, work'[c] # 0, seen'[c] = "rejected" PROVE source'[work'[c]] = Console
  <2>1. CASE work'[c] = work[c] /\ seen'[c] = seen[c] BY <1>2, <1>3, <2>1
  <2>2. ASSUME NEW to, NEW t, NEW p, NEW v, Replaced(c, to, t, p, v)
        PROVE  p = work'[c] /\ v = seen'[c]
    BY <2>2, ReplacedFacts DEF Typed
  <2>3. CASE \E a \in 1..Due : Record(c, a)
    BY <1>3, <2>2, <2>3, RecordMoves
  <2>4. CASE ReadPayment(c) BY <1>3, <2>1, <2>2, <2>4, ReadPaymentMoves
  <2>5. CASE Count(c)
    <3>1. PICK v \in {"rejected", "paid", "payment_detected"} :
            /\ v = "rejected" <=> seen[c] = "rejected"
            /\ Replaced(c, "writing", task[c], work[c], v)
      BY <2>5, CountMoves
    <3> QED BY <1>2, <1>3, <2>2, <3>1
  <2>6. CASE Commit(c) BY <1>3, <2>1, <2>2, <2>6, CommitMoves
  <2>7. CASE Scan(c) BY <1>3, <2>1, <2>2, <2>7, ScanMoves
  <2>8. CASE Note(c) \/ SettleRequest(c) BY <1>3, <2>1, <2>2, <2>8, EventMoves
  <2>9. CASE Finalize(c) \/ Revert(c) \/ WriteRecord(c) \/ Crash(c)
    BY <1>3, <2>2, <2>9, EndMoves
  <2>10. CASE Ask(c)
    <3>1. ASSUME NEW p \in Payments, NEW target \in {"reconciled", "rejected"},
                 Decide(c, p, target), Replaced(c, "reconciling", Console, p, target)
          PROVE  source'[work'[c]] = Console
      <4>1. target = "rejected" /\ p = work'[c] BY <1>3, <2>2, <3>1
      <4>2. source[p] = Console BY <3>1, <4>1 DEF Decide, Contested, Uncontested
      <4>3. source' = source BY <3>1 DEF Decide, paymentVars
      <4> QED BY <4>1, <4>2, <4>3
    <3> QED BY <1>3, <2>2, <2>10, <3>1, AskMoves
  <2>11. ASSUME NEW d \in Callers, Handle(d) \/ Ask(d) \/ Crash(d), d # c
         PROVE  work'[c] = work[c] /\ seen'[c] = seen[c]
    BY <2>11, Others
  <2>12. ASSUME NEW s \in Slips, Line(s) PROVE UNCHANGED callerVars
    BY <2>12 DEF Line, SlipArrives, ImageMatches, TextMatches, Match, LeaseLapses, Reclaim, RejectSlip
  <2>13. CASE TextArrives \/ UNCHANGED vars \/ \E a \in Amounts : Transfer(a)
    BY <2>1, <2>13 DEF TextArrives, Transfer, vars, callerVars
  <2>14. CASE UNCHANGED callerVars BY <2>1, <2>14 DEF callerVars
  <2>15. CASE Handle(c)
    BY <2>3, <2>4, <2>5, <2>6, <2>7, <2>8, <2>9, <2>15 DEF Handle
  <2> QED BY <2>1, <2>9, <2>10, <2>11, <2>12, <2>13, <2>14, <2>15 DEF Next
<1> QED BY <1>1, <1>3 DEF RejectedOK

\* A verifier is done only when its slip is settled.
LEMMA StepVerifies ==
  ASSUME Uncontested, SettledInv, [Next]_vars, NEW c \in Callers PROVE Verifies(c)'
<1> USE TypeParts DEF SettledInv
<1> SUFFICES ASSUME task'[c] \in Slips PROVE Verifies(c)'
  BY DEF Verifies
<1>1. task'[c] # Console /\ task'[c] \notin Events BY SourcesDiffer
<1>2. CASE stage'[c] = stage[c] /\ task'[c] = task[c] /\ work'[c] = work[c] /\ seen'[c] = seen[c]
  <2>1. PICK s \in Slips : s = task[c] /\ s = task'[c] BY <1>2
  <2>2. Marked(task[c]) = Marked(s) /\ Marked(task[c])' = Marked(s)' BY <2>1 DEF Marked
  <2>3. \A p \in Marked(s) : p \in Marked(s)' BY MarkedStays
  <2>4. Settled(s) => Settled(s)' BY SettledStays
  <2>5. Settled(task[c]) = Settled(s) /\ Settled(task[c])' = Settled(s)' BY <2>2 DEF Settled
  <2> QED BY <1>2, <2>1, <2>2, <2>3, <2>4, <2>5 DEF Verifies
<1>3. ASSUME NEW to, NEW t, NEW p, NEW v, Replaced(c, to, t, p, v)
      PROVE  stage'[c] = to /\ task'[c] = t /\ work'[c] = p /\ seen'[c] = v
  BY <1>3, ReplacedFacts DEF Typed
<1>4. ASSUME stage'[c] \notin {"reconciling", "summing", "writing", "settled"}
      PROVE  Verifies(c)'
  BY <1>4 DEF Verifies
<1>5. CASE \E a \in 1..Due : Record(c, a)
  <2>1. PICK a \in 1..Due : Record(c, a) BY <1>5
  <2>2. Replaced(c, "reconciling", task[c], recorded + 1, "reconciled") /\ Adds(task[c])
    BY <2>1, RecordMoves, Recordings
  <2>3. task[c] \in Sources /\ task'[c] = task[c] BY <1>3, <2>2, SourcesDiffer
  <2>4. recorded + 1 \in Marked(task[c])' BY <2>2, <2>3, AddsFacts
  <2>5. work'[c] \in Marked(task[c])' BY <1>3, <2>2, <2>3, <2>4 DEF Marked
  <2>6. stage'[c] = "reconciling" /\ seen'[c] = "reconciled" BY <1>3, <2>2
  <2> QED BY <2>5, <2>6 DEF Verifies
<1>6. CASE ReadPayment(c)
  <2>1. task'[c] = task[c] /\ stage[c] = "reconciling" /\ work'[c] = work[c] /\ seen'[c] = seen[c]
        /\ \/ stage'[c] = "summing" \/ stage'[c] = "failing"
           \/ stage'[c] = "settled" /\ payment[work[c]] = seen[c]
    BY <1>1, <1>3, <1>6, ReadPaymentMoves
  <2>2. Marked(task[c])' = Marked(task[c]) /\ payment' = payment
    BY <1>6, <2>1 DEF ReadPayment, paymentVars, Marked
  <2>3. work[c] \in Marked(task[c]) /\ seen[c] = "reconciled" BY <2>1 DEF Verifies
  <2> QED BY <2>1, <2>2, <2>3 DEF Verifies, Settled
<1>7. CASE Count(c)
  <2>1. PICK v \in {"rejected", "paid", "payment_detected"} :
          /\ v = "rejected" <=> seen[c] = "rejected"
          /\ Replaced(c, "writing", task[c], work[c], v)
    BY <1>7, CountMoves
  <2>2. stage'[c] = "writing" /\ task'[c] = task[c] /\ work'[c] = work[c] /\ seen'[c] = v
    BY <1>3, <2>1
  <2>3. stage[c] = "summing" BY <1>7, CountMoves
  <2>4. work[c] \in Marked(task[c]) /\ seen[c] = "reconciled" BY <2>2, <2>3 DEF Verifies
  <2>5. Marked(task[c])' = Marked(task[c]) BY <1>7, <2>2 DEF Count, paymentVars, Marked
  <2> QED BY <2>1, <2>2, <2>4, <2>5 DEF Verifies
<1>8. CASE Commit(c)
  <2>1. task[c] \in Slips /\ Replaced(c, "settled", task[c], work[c], seen[c]) /\ stage[c] = "writing"
    BY <1>1, <1>3, <1>8, CommitMoves
  <2>2. stage'[c] = "settled" /\ task'[c] = task[c] BY <1>3, <2>1
  <2>3. work[c] \in Marked(task[c]) /\ seen[c] # "rejected" BY <2>1 DEF Verifies
  <2>4. work[c] \in Payments /\ payment'[work[c]] = "reconciled"
    BY <1>8, <2>3 DEF Commit, Typed, PaymentOK, Marked
  <2>5. work[c] \in Marked(task[c])'
    BY <1>8, <2>2, <2>3, <2>4 DEF Commit, Marked
  <2> QED BY <2>2, <2>4, <2>5 DEF Verifies, Settled
<1>9. CASE Scan(c)
  <2>1. task[c] \in Slips /\ task'[c] = task[c] BY <1>3, <1>9, ScanMoves
  <2>2. Marked(task[c])' = Marked(task[c]) /\ payment' = payment
    BY <1>9, <2>1 DEF Scan, paymentVars, Marked
  <2>3. ASSUME NEW p \in Marked(task[c]), payment[p] # "pending" PROVE payment[p] = "reconciled"
    <3>1. p \in Payments /\ payment[p] # "none" /\ source[p] # Console
      BY <2>1, SourcesDiffer DEF Marked
    <3> QED BY <2>3, <3>1 DEF RejectedOK, Typed, PaymentOK
  <2>4. CASE \/ Replaced(c, "recording", task[c], work[c], seen[c])
             \/ Replaced(c, "failing", task[c], work[c], seen[c])
    BY <1>3, <1>4, <2>4
  <2>5. ASSUME NEW p \in Marked(task[c]), Replaced(c, "reconciling", task[c], p, "reconciled")
        PROVE  Verifies(c)'
    <3>1. stage'[c] = "reconciling" /\ work'[c] = p /\ seen'[c] = "reconciled" BY <1>3, <2>5
    <3> QED BY <2>2, <3>1 DEF Verifies
  <2>6. ASSUME NEW p \in Marked(task[c]), payment[p] # "pending",
               Replaced(c, "settled", task[c], work[c], seen[c])
        PROVE  Verifies(c)'
    <3>1. stage'[c] = "settled" BY <1>3, <2>6
    <3>2. Settled(task[c])' BY <2>2, <2>3, <2>6 DEF Settled
    <3> QED BY <3>1, <3>2 DEF Verifies
  <2> QED BY <1>9, <2>4, <2>5, <2>6, ScanMoves
<1>10. CASE Note(c) \/ SettleRequest(c) BY <1>1, <1>3, <1>10, EventMoves
<1>11. CASE Finalize(c) \/ Revert(c) \/ WriteRecord(c) \/ Crash(c)
  BY <1>1, <1>3, <1>11, EndMoves
<1>12. CASE Ask(c) BY <1>1, <1>3, <1>4, <1>12, AskMoves
<1>13. ASSUME NEW d \in Callers, Handle(d) \/ Ask(d) \/ Crash(d), d # c
       PROVE  stage'[c] = stage[c] /\ task'[c] = task[c] /\ work'[c] = work[c] /\ seen'[c] = seen[c]
  BY <1>13, Others
<1>14. ASSUME NEW s \in Slips, Line(s) PROVE UNCHANGED callerVars
  BY <1>14 DEF Line, SlipArrives, ImageMatches, TextMatches, Match, LeaseLapses, Reclaim, RejectSlip
<1>15. CASE TextArrives \/ UNCHANGED vars \/ \E a \in Amounts : Transfer(a)
  BY <1>2, <1>15 DEF TextArrives, Transfer, vars, callerVars
<1>16. CASE UNCHANGED callerVars BY <1>2, <1>16 DEF callerVars
<1>17. CASE Handle(c)
  BY <1>5, <1>6, <1>7, <1>8, <1>9, <1>10, <1>11, <1>17 DEF Handle
<1> QED BY <1>2, <1>11, <1>12, <1>13, <1>14, <1>15, <1>16, <1>17 DEF Next

LEMMA WhoFinalizes ==
  ASSUME Typed, [Next]_vars, NEW s \in Slips, slip'[s] = "verified", slip[s] # "verified"
  PROVE  \E c \in Callers : stage[c] = "settled" /\ task[c] = s
<1> USE TypeParts
<1>1. slip \in [Slips -> {"absent", "pending", "matched", "verified", "rejected"}
                          \cup InVerification]
  BY DEF Typed, SlipOK
<1>2. slip' # slip OBVIOUS
<1>3. ASSUME NEW t \in Slips, Line(t) PROVE FALSE
  BY <1>1, <1>3 DEF Line, SlipArrives, ImageMatches, TextMatches, Match, LeaseLapses, Reclaim,
                    RejectSlip
<1>4. ASSUME NEW c \in Callers, Revert(c) \/ \E t \in Slips : Claim(c, t) PROVE FALSE
  BY <1>1, <1>4 DEF Revert, Claim
<1>5. ASSUME NEW c \in Callers, Finalize(c) PROVE stage[c] = "settled" /\ task[c] = s
  BY <1>1, <1>5 DEF Finalize
<1> QED BY <1>2, <1>3, <1>4, <1>5
   DEF Next, Handle, Ask, Record, ReadPayment, Count, Commit, Scan, Note, SettleRequest,
       WriteRecord, Call, Decide, ReadRecord, Crash, TextArrives, Transfer, vars, slipVars

LEMMA StepKeepsSettled ==
  ASSUME Uncontested, SettledInv, [Next]_vars PROVE SettledInv'
<1>1. ASSUME NEW s \in Slips, slip'[s] = "verified" PROVE Settled(s)'
  <2>1. CASE slip[s] = "verified"
    BY <2>1, SettledStays DEF SettledInv, VerifiedIsSettled, Settled
  <2>2. CASE slip[s] # "verified"
    <3>1. PICK c \in Callers : stage[c] = "settled" /\ task[c] = s
      BY <1>1, <2>2, WhoFinalizes DEF SettledInv
    <3>2. Settled(s) BY <3>1 DEF SettledInv, Verifies
    <3> QED BY <3>2, SettledStays
  <2> QED BY <2>1, <2>2
<1>2. VerifiedIsSettled' BY <1>1 DEF VerifiedIsSettled, Settled
<1>3. RejectedOK' /\ \A c \in Callers : Verifies(c)' BY StepRejectedOK, StepVerifies
<1> QED BY <1>2, <1>3, StepKeepsType DEF SettledInv

\* A slip is marked verified only when a payment with its mark is reconciled, unless
\* somebody rejects that payment behind the verifier's back.
THEOREM VerifiedWasSettled == ASSUME Uncontested PROVE Spec => []VerifiedIsSettled
<1>1. Init => SettledInv
  <2>1. ASSUME Init PROVE RejectedOK /\ \A c \in Callers : Verifies(c)
    BY <2>1, SourcesDiffer DEF Init, RejectedOK, Verifies
  <2>2. Init => VerifiedIsSettled BY DEF Init, VerifiedIsSettled
  <2> QED BY <2>1, <2>2, InitTyped DEF SettledInv
<1>2. SettledInv /\ [Next]_vars => SettledInv' BY StepKeepsSettled
<1>3. SettledInv => VerifiedIsSettled BY DEF SettledInv
<1> QED BY <1>1, <1>2, <1>3, PTL DEF Spec

-----------------------------------------------------------------------------
(* Sums over finite sets.  What is paid is a fold, which takes its elements in the order
   in which CHOOSE names them: it says nothing of any other order before that is
   proved, by a smallest set for which it fails. *)

First(S) == CHOOSE x \in S : TRUE

\* g is the fold of f over every subset of S.
IsFold(f, S, g) ==
  g = [T \in SUBSET S |-> IF T = {} THEN 0 ELSE f[First(T)] + g[T \ {First(T)}]]
Total(f, S) == (CHOOSE g : IsFold(f, S, g))[S]

LEMMA PaidByTotal == ASSUME NEW S PROVE PaidBy(S) = Total(amount, S)
BY Zenon DEF PaidBy, Total, MapThenSumSet, MapThenFoldSet, IsFold, First

LEMMA NatMin ==
  ASSUME NEW T, T \subseteq Nat, T # {}
  PROVE  \E x \in T : \A y \in T : x <= y
<1> DEFINE R == {ss \in Nat \X Nat : ss[1] < ss[2]}
<1>1. IsWellFoundedOn(R, Nat)
  BY NatLessThanWellFounded DEF OpToRel
<1> HIDE DEF R
<1>2. \E x \in T : \A y \in T : ~(<<y, x>> \in R) BY <1>1, WFMin
<1>3. PICK x \in T : \A y \in T : ~(<<y, x>> \in R) BY <1>2
<1>4. ASSUME NEW y \in T, y < x PROVE <<y, x>> \in R
  <2>1. <<y, x>> \in Nat \X Nat OBVIOUS
  <2> QED BY <1>4, <2>1 DEF R
<1>5. \A y \in T : x \in Nat /\ y \in Nat /\ ~(y < x) BY <1>3, <1>4
<1> QED BY <1>5

\* A smallest of a collection of finite sets: all that lose an element of it are outside.
LEMMA Smallest ==
  ASSUME NEW S, IsFiniteSet(S), NEW C \in SUBSET SUBSET S, C # {}
  PROVE  \E T \in C : \A U \in SUBSET T : U # T => U \notin C
<1> DEFINE N == {Cardinality(T) : T \in C}
<1>1. \A T \in SUBSET S : IsFiniteSet(T) /\ Cardinality(T) \in Nat
  BY FS_Subset, FS_CardinalityType
<1>2. N \subseteq Nat /\ N # {} BY <1>1
<1>3. PICK n \in N : \A m \in N : n <= m BY <1>2, NatMin
<1>4. PICK T \in C : n = Cardinality(T) OBVIOUS
<1>5. ASSUME NEW U \in SUBSET T, U # T, U \in C PROVE FALSE
  <2>1. Cardinality(U) < Cardinality(T) BY <1>1, <1>5, FS_Subset
  <2>2. n <= Cardinality(U) BY <1>3, <1>5
  <2> QED BY <1>1, <1>4, <1>5, <2>1, <2>2
<1> QED BY <1>5

LEMMA FirstFacts == ASSUME NEW S, S # {} PROVE First(S) \in S
BY DEF First

\* A fold of f, said of one subset at a time.
LEMMA FoldsEmpty == ASSUME NEW f, NEW S, NEW g, IsFold(f, S, g) PROVE g[{}] = 0
<1>1. {} \in SUBSET S OBVIOUS
<1> QED BY <1>1 DEF IsFold

LEMMA FoldsStep ==
  ASSUME NEW f, NEW S, NEW g, IsFold(f, S, g), NEW T \in SUBSET S, T # {}
  PROVE  g[T] = f[First(T)] + g[T \ {First(T)}]
BY DEF IsFold

\* Two folds of functions that agree on the elements agree.
LEMMA FoldsAgree ==
  ASSUME NEW S, IsFiniteSet(S), NEW f, NEW h, \A x \in S : f[x] = h[x],
         NEW A, NEW B, NEW g, NEW k, S \in SUBSET A, S \in SUBSET B,
         IsFold(f, A, g), IsFold(h, B, k)
  PROVE  g[S] = k[S]
<1> DEFINE C == {T \in SUBSET S : g[T] # k[T]}
<1> SUFFICES ASSUME C # {} PROVE FALSE
  OBVIOUS
<1>1. PICK T \in C : \A U \in SUBSET T : U # T => U \notin C
  <2> HIDE DEF C
  <2>1. C \in SUBSET SUBSET S BY DEF C
  <2> QED BY <2>1, Smallest
<1>2. T \in SUBSET A /\ T \in SUBSET B /\ T \in SUBSET S /\ g[T] # k[T] OBVIOUS
<1>5. ASSUME NEW U \in SUBSET T, U # T PROVE g[U] = k[U] BY <1>1, <1>5
<1> HIDE DEF C
<1>3. T # {}
  <2>1. g[{}] = 0 /\ k[{}] = 0 BY FoldsEmpty
  <2> QED BY <1>2, <2>1
<1>4. First(T) \in T BY <1>3, FirstFacts
<1>10. g[T \ {First(T)}] = k[T \ {First(T)}] BY <1>4, <1>5
<1>6. g[T] = f[First(T)] + g[T \ {First(T)}] BY <1>2, <1>3, FoldsStep
<1>7. k[T] = h[First(T)] + k[T \ {First(T)}] BY <1>2, <1>3, FoldsStep
<1>8. f[First(T)] = h[First(T)] BY <1>2, <1>4
<1> QED BY <1>2, <1>10, <1>6, <1>7, <1>8

LEMMA FoldExists ==
  ASSUME NEW S, IsFiniteSet(S), NEW f
  PROVE  \E g : IsFold(f, S, g)
<1> DEFINE C == {T \in SUBSET S : ~ \E g : IsFold(f, T, g)}
<1> SUFFICES ASSUME C # {} PROVE FALSE
  OBVIOUS
<1>1. PICK T \in C : \A U \in SUBSET T : U # T => U \notin C
  <2> HIDE DEF C
  <2>1. C \in SUBSET SUBSET S BY DEF C
  <2> QED BY <2>1, Smallest
<1>2. T \in SUBSET S /\ ~ \E g : IsFold(f, T, g) OBVIOUS
<1> DEFINE G(U) == CHOOSE g : IsFold(f, U, g)
           h == [U \in SUBSET T |-> IF U = {} THEN 0
                                    ELSE f[First(U)] + G(U \ {First(U)})[U \ {First(U)}]]
<1>3. ASSUME NEW U \in SUBSET T, U # T PROVE IsFold(f, U, G(U))
  <2>1. U \in SUBSET S /\ U \notin C BY <1>1, <1>2, <1>3
  <2>2. \E g : IsFold(f, U, g) BY <2>1
  <2> QED BY <2>2
<1>4. ASSUME NEW U \in SUBSET T, U # {}
      PROVE  h[U \ {First(U)}] = G(U \ {First(U)})[U \ {First(U)}]
  <2> DEFINE V == U \ {First(U)}
  <2>1. First(U) \in U BY <1>4, FirstFacts
  <2>2. V \in SUBSET T /\ V # T /\ V \in SUBSET V BY <2>1
  <2>3. IsFold(f, V, G(V)) BY <1>3, <2>2
  <2> HIDE DEF V, G
  <2>4. CASE V = {}
    <3>1. h[V] = 0 BY <2>2, <2>4
    <3>2. G(V)[{}] = 0 BY <2>3, FoldsEmpty
    <3> QED BY <2>4, <3>1, <3>2 DEF V
  <2>5. CASE V # {}
    <3> DEFINE W == V \ {First(V)}
    <3>1. First(V) \in V /\ W \in SUBSET V /\ W # T /\ W \in SUBSET T /\ W \in SUBSET W
      BY <2>2, <2>5, FirstFacts
    <3>2. IsFold(f, W, G(W)) BY <1>3, <3>1
    <3>3. IsFiniteSet(W) BY <1>2, <3>1, FS_Subset
    <3>4. G(V)[W] = G(W)[W]
      <4> HIDE DEF W
      <4> QED BY <2>3, <3>1, <3>2, <3>3, FoldsAgree
    <3>5. h[V] = f[First(V)] + G(W)[W] BY <2>2, <2>5
    <3>6. G(V)[V] = f[First(V)] + G(V)[W] BY <2>2, <2>3, <2>5, FoldsStep
    <3> QED BY <3>4, <3>5, <3>6 DEF V
  <2> QED BY <2>4, <2>5
<1>5. \A U \in SUBSET T : h[U] = IF U = {} THEN 0 ELSE f[First(U)] + h[U \ {First(U)}]
  <2> TAKE U \in SUBSET T
  <2>1. h[U] = IF U = {} THEN 0 ELSE f[First(U)] + G(U \ {First(U)})[U \ {First(U)}]
    OBVIOUS
  <2> HIDE DEF h, G
  <2> QED BY <1>4, <2>1
<1>6. h = [U \in SUBSET T |-> h[U]] OBVIOUS
<1> HIDE DEF h
<1>7. h = [U \in SUBSET T |-> IF U = {} THEN 0 ELSE f[First(U)] + h[U \ {First(U)}]]
  BY <1>5, <1>6
<1>8. IsFold(f, T, h) BY <1>7 DEF IsFold
<1> QED BY <1>2, <1>8

\* What a sum is, taken from the first element on.
LEMMA TotalEmpty == ASSUME NEW f PROVE Total(f, {}) = 0
<1> DEFINE g == CHOOSE g : IsFold(f, {}, g)
<1>1. IsFiniteSet({}) BY FS_EmptySet
<1>2. IsFold(f, {}, g) BY <1>1, FoldExists
<1>3. Total(f, {}) = g[{}] BY DEF Total
<1> HIDE DEF g
<1> QED BY <1>2, <1>3, FoldsEmpty

LEMMA TotalStep ==
  ASSUME NEW S, IsFiniteSet(S), S # {}, NEW f
  PROVE  First(S) \in S /\ Total(f, S) = f[First(S)] + Total(f, S \ {First(S)})
<1> DEFINE G(T) == CHOOSE g : IsFold(f, T, g)
<1>1. ASSUME NEW T \in SUBSET S PROVE IsFiniteSet(T) /\ IsFold(f, T, G(T))
  <2>1. IsFiniteSet(T) BY FS_Subset
  <2>2. \E g : IsFold(f, T, g) BY <2>1, FoldExists
  <2> QED BY <2>1, <2>2
<1>2. \A T : Total(f, T) = G(T)[T] BY DEF Total
<1> HIDE DEF G
<1> DEFINE T == S \ {First(S)}
<1>3. First(S) \in S /\ T \in SUBSET S /\ T \in SUBSET T BY FirstFacts
<1>4. IsFold(f, S, G(S)) /\ IsFold(f, T, G(T)) /\ IsFiniteSet(T) BY <1>1, <1>3
<1>5. G(S)[S] = f[First(S)] + G(S)[T] BY <1>4, FoldsStep
<1>6. G(S)[T] = G(T)[T]
  <2> HIDE DEF T
  <2> QED BY <1>3, <1>4, FoldsAgree
<1> QED BY <1>2, <1>3, <1>5, <1>6

LEMMA TotalNat ==
  ASSUME NEW S, IsFiniteSet(S), NEW f, \A x \in S : f[x] \in Nat
  PROVE  Total(f, S) \in Nat
<1> DEFINE C == {T \in SUBSET S : Total(f, T) \notin Nat}
<1> SUFFICES ASSUME C # {} PROVE FALSE
  OBVIOUS
<1>1. PICK T \in C : \A U \in SUBSET T : U # T => U \notin C
  <2> HIDE DEF C
  <2>1. C \in SUBSET SUBSET S BY DEF C
  <2> QED BY <2>1, Smallest
<1>2. IsFiniteSet(T) /\ T \in SUBSET S BY FS_Subset
<1>3. T # {} BY TotalEmpty
<1>4. First(T) \in T /\ Total(f, T) = f[First(T)] + Total(f, T \ {First(T)})
  BY <1>2, <1>3, TotalStep
<1>5. Total(f, T \ {First(T)}) \in Nat BY <1>1, <1>2, <1>4
<1> QED BY <1>2, <1>4, <1>5

\* The order does not matter: any element may be taken off.
LEMMA TotalRemove ==
  ASSUME NEW S, IsFiniteSet(S), NEW f, \A x \in S : f[x] \in Nat, NEW e \in S
  PROVE  Total(f, S) = f[e] + Total(f, S \ {e})
<1> DEFINE C == {T \in SUBSET S : \E x \in T : Total(f, T) # f[x] + Total(f, T \ {x})}
<1> SUFFICES ASSUME C # {} PROVE FALSE
  OBVIOUS
<1>1. PICK T \in C : \A U \in SUBSET T : U # T => U \notin C
  <2> HIDE DEF C
  <2>1. C \in SUBSET SUBSET S BY DEF C
  <2> QED BY <2>1, Smallest
<1>2. T \in SUBSET S OBVIOUS
<1>3. PICK x \in T : Total(f, T) # f[x] + Total(f, T \ {x}) OBVIOUS
<1>4. ASSUME NEW U \in SUBSET T, U # T, NEW y \in U PROVE Total(f, U) = f[y] + Total(f, U \ {y})
  <2>1. U \in SUBSET S /\ U \notin C BY <1>1, <1>2, <1>4
  <2> QED BY <1>4, <2>1
<1>5. ASSUME NEW U \in SUBSET T PROVE IsFiniteSet(U) /\ Total(f, U) \in Nat
  <2>1. U \in SUBSET S BY <1>2
  <2>2. IsFiniteSet(U) BY <2>1, FS_Subset
  <2> QED BY <2>1, <2>2, TotalNat
<1> HIDE DEF C
<1> DEFINE y == First(T)
<1>6. y \in T /\ Total(f, T) = f[y] + Total(f, T \ {y}) BY <1>3, <1>5, TotalStep
<1> HIDE DEF y
<1>7. x # y BY <1>3, <1>6
<1> DEFINE V == (T \ {y}) \ {x}
<1>8. Total(f, T \ {y}) = f[x] + Total(f, V) BY <1>4, <1>6, <1>7
<1>9. Total(f, T \ {x}) = f[y] + Total(f, (T \ {x}) \ {y})
  BY <1>4, <1>6, <1>7
<1>10. (T \ {x}) \ {y} = V OBVIOUS
<1>11. V \in SUBSET T /\ f[x] \in Nat /\ f[y] \in Nat BY <1>2, <1>3, <1>6
<1>12. Total(f, V) \in Nat BY <1>5, <1>11
<1> HIDE DEF V
<1>13. Total(f, T) = f[y] + (f[x] + Total(f, V)) BY <1>6, <1>8
<1>14. Total(f, T \ {x}) = f[y] + Total(f, V) BY <1>9, <1>10
<1> QED BY <1>3, <1>11, <1>12, <1>13, <1>14

\* More payments, as much or more paid.
LEMMA TotalMonotonic ==
  ASSUME NEW S, IsFiniteSet(S), NEW f, \A x \in S : f[x] \in Nat, NEW R \in SUBSET S
  PROVE  Total(f, R) <= Total(f, S)
<1> DEFINE C == {T \in SUBSET S : R \in SUBSET T /\ ~ Total(f, R) <= Total(f, T)}
<1> SUFFICES ASSUME C # {} PROVE FALSE
  OBVIOUS
<1>1. PICK T \in C : \A U \in SUBSET T : U # T => U \notin C
  <2> HIDE DEF C
  <2>1. C \in SUBSET SUBSET S BY DEF C
  <2> QED BY <2>1, Smallest
<1>2. T \in SUBSET S /\ R \in SUBSET T /\ ~ Total(f, R) <= Total(f, T) OBVIOUS
<1>3. ASSUME NEW U \in SUBSET T PROVE Total(f, U) \in Nat
  <2>1. U \in SUBSET S BY <1>2
  <2>2. IsFiniteSet(U) BY <2>1, FS_Subset
  <2> QED BY <2>1, <2>2, TotalNat
<1>4. R # T BY <1>2, <1>3
<1>5. PICK x \in T : x \notin R BY <1>2, <1>4
<1>6. Total(f, R) <= Total(f, T \ {x}) BY <1>1, <1>2, <1>5
<1>7. Total(f, T) = f[x] + Total(f, T \ {x})
  <2>1. IsFiniteSet(T) BY <1>2, FS_Subset
  <2> QED BY <1>2, <1>5, <2>1, TotalRemove
<1>8. f[x] \in Nat /\ Total(f, T) \in Nat /\ Total(f, R) \in Nat /\ Total(f, T \ {x}) \in Nat
  BY <1>2, <1>3, <1>5
<1> QED BY <1>2, <1>6, <1>7, <1>8

LEMMA TotalAgrees ==
  ASSUME NEW S, IsFiniteSet(S), NEW f, NEW h, \A x \in S : f[x] = h[x]
  PROVE  Total(f, S) = Total(h, S)
<1> DEFINE G(k) == CHOOSE g : IsFold(k, S, g)
<1>1. \E g : IsFold(f, S, g) BY FoldExists
<1>2. \E g : IsFold(h, S, g) BY FoldExists
<1>3. IsFold(f, S, G(f)) BY <1>1
<1>4. IsFold(h, S, G(h)) BY <1>2
<1>5. Total(f, S) = G(f)[S] /\ Total(h, S) = G(h)[S] BY DEF Total
<1> HIDE DEF G
<1>6. G(f)[S] = G(h)[S] BY <1>3, <1>4, FoldsAgree
<1> QED BY <1>5, <1>6

-----------------------------------------------------------------------------
(* What was paid for *)

AtWork == {"reconciling", "summing", "writing"}

\* Whoever works on the payment that somebody rejects, rejects it too.
Agree ==
  \A c, d \in Callers : work[c] # 0 /\ work[c] = work[d] /\ seen[c] = "rejected"
                        => seen[d] = "rejected"

\* What a caller has read still holds when it writes: the payment it rejects was not
\* reconciled meanwhile, and the payments it found to cover what is due still do.
StillTrue(c) ==
  /\ stage[c] \in AtWork => work[c] # 0
  /\ stage[c] \in {"summing", "writing"} /\ seen[c] = "rejected"
     => payment[work[c]] # "reconciled"
  /\ stage[c] = "writing" /\ seen[c] = "paid" => Covered(c)

CoverInv == SettledInv /\ Agree /\ (\A c \in Callers : StillTrue(c)) /\ ActiveIsCovered

LEMMA AmountsKept ==
  ASSUME Typed, [Next]_vars, NEW p \in Payments, payment[p] # "none"
  PROVE  amount'[p] = amount[p]
<1> USE TypeParts
<1>1. CASE UNCHANGED amount BY <1>1
<1>2. ASSUME NEW x \in Sources, Adds(x) PROVE amount'[p] = amount[p]
  <2>1. payment[recorded + 1] = "none" BY <1>2, AddsFacts
  <2> QED BY <1>2, <2>1 DEF Adds, Typed, PaymentOK
<1>3. ASSUME NEW c \in Callers, NEW a \in 1..Due, Record(c, a) PROVE amount'[p] = amount[p]
  BY <1>2, <1>3, Recordings, SourcesDiffer
<1>4. ASSUME NEW a \in Amounts, Transfer(a) PROVE amount'[p] = amount[p]
  BY <1>2, <1>4, Recordings, SourcesDiffer
<1> QED BY <1>1, <1>3, <1>4
   DEF Next, Handle, Ask, ReadPayment, Count, Commit, Scan, Finalize, Revert, Note, SettleRequest,
       WriteRecord, Claim, Call, Decide, ReadRecord, Crash, Line, SlipArrives, ImageMatches,
       TextMatches, Match, LeaseLapses, Reclaim, RejectSlip, TextArrives, vars, paymentVars

\* Payments that are counted again with others are worth as much as they were.
LEMMA PaidGrows ==
  ASSUME Typed, [Next]_vars, NEW R \in SUBSET Payments, NEW S \in SUBSET Payments, R \subseteq S,
         \A p \in R : payment[p] # "none"
  PROVE  /\ PaidBy(R) = Total(amount, R) /\ Total(amount, R) \in Nat
         /\ Total(amount', S) \in Nat /\ Total(amount, R) <= Total(amount', S)
<1> USE TypeParts
<1>1. IsFiniteSet(R) /\ IsFiniteSet(S)
  <2>1. IsFiniteSet(Payments) BY SettlementAssumption, FS_Interval DEF Payments
  <2> QED BY <2>1, FS_Subset
<1>2. \A p \in R : amount[p] = amount'[p] BY AmountsKept
<1>3. \A p \in Payments : amount[p] \in Nat /\ amount'[p] \in Nat
  <2>1. PaymentOK /\ PaymentOK' BY PaymentsStay DEF Typed
  <2>2. 0..Due \subseteq Nat BY SettlementAssumption
  <2> QED BY <2>1, <2>2 DEF PaymentOK
<1>4. PaidBy(R) = Total(amount, R) BY PaidByTotal
<1>5. Total(amount, R) \in Nat BY <1>1, <1>3, TotalNat
<1>6. Total(amount', S) \in Nat BY <1>1, <1>3, TotalNat
<1>7. Total(amount, R) = Total(amount', R) BY <1>1, <1>2, TotalAgrees
<1>8. Total(amount', R) <= Total(amount', S) BY <1>1, <1>3, TotalMonotonic
<1> QED BY <1>4, <1>5, <1>6, <1>7, <1>8

\* What a step does to what a caller works on and decides.
LEMMA CallerSteps ==
  ASSUME Typed, [Next]_vars, NEW c \in Callers
  PROVE  \/ stage'[c] = stage[c] /\ work'[c] = work[c] /\ seen'[c] = seen[c]
         \/ work'[c] = 0 /\ stage'[c] \notin AtWork
         \/ stage'[c] \notin AtWork /\ work'[c] = work[c] /\ seen'[c] = seen[c]
         \/ /\ \E a \in 1..Due : Record(c, a)
            /\ stage'[c] = "reconciling" /\ work'[c] = recorded + 1 /\ seen'[c] = "reconciled"
         \/ /\ Scan(c) /\ task[c] \in Slips
            /\ stage'[c] = "reconciling" /\ work'[c] \in Marked(task[c]) /\ seen'[c] = "reconciled"
         \/ /\ Ask(c) /\ Decide(c, work'[c], seen'[c]) /\ work'[c] \in Payments
            /\ stage'[c] = "reconciling"
         \/ /\ ReadPayment(c) /\ stage[c] = "reconciling" /\ payment[work[c]] = "pending"
            /\ stage'[c] = "summing" /\ work'[c] = work[c] /\ seen'[c] = seen[c]
         \/ /\ Count(c) /\ stage[c] = "summing" /\ stage'[c] = "writing" /\ work'[c] = work[c]
            /\ seen'[c] = "rejected" <=> seen[c] = "rejected"
            /\ seen'[c] = "paid" => Covered(c)
<1> USE TypeParts DEF Typed, AtWork
<1>1. ASSUME NEW to, NEW t, NEW p, NEW v, Replaced(c, to, t, p, v)
      PROVE  stage'[c] = to /\ work'[c] = p /\ seen'[c] = v
  BY <1>1, ReplacedFacts
<1>2. CASE \E a \in 1..Due : Record(c, a) BY <1>1, <1>2, RecordMoves
<1>3. CASE ReadPayment(c)
  <2>1. CASE stage'[c] = "summing"
    <3>1. work'[c] = work[c] /\ seen'[c] = seen[c] /\ stage[c] = "reconciling"
      BY <1>1, <1>3, <2>1, ReadPaymentMoves
    <3>2. payment[work[c]] = "pending"
      BY <1>3, <2>1 DEF ReadPayment, Done, Fails, Ends, Goes, CallerOK
    <3> QED BY <1>3, <2>1, <3>1, <3>2
  <2>2. CASE stage'[c] # "summing" BY <1>1, <1>3, <2>2, ReadPaymentMoves
  <2> QED BY <2>1, <2>2
<1>4. CASE Count(c)
  <2>1. PICK v \in {"rejected", "paid", "payment_detected"} :
          /\ v = "rejected" <=> seen[c] = "rejected"
          /\ Replaced(c, "writing", task[c], work[c], v)
    BY <1>4, CountMoves
  <2>2. stage'[c] = "writing" /\ work'[c] = work[c] /\ seen'[c] = v /\ stage[c] = "summing"
    BY <1>1, <1>4, <2>1, CountMoves
  <2>3. seen'[c] = "paid" => Covered(c) BY <1>4, <2>1, <2>2 DEF Count, CallerOK
  <2> QED BY <1>4, <2>1, <2>2, <2>3
<1>5. CASE Commit(c) BY <1>1, <1>5, CommitMoves
<1>6. CASE Scan(c) BY <1>1, <1>6, ScanMoves
<1>7. CASE Note(c) \/ SettleRequest(c) BY <1>1, <1>7, EventMoves
<1>8. CASE Finalize(c) \/ Revert(c) \/ WriteRecord(c) \/ Crash(c) BY <1>1, <1>8, EndMoves
<1>9. CASE Ask(c)
  <2>1. ASSUME NEW p \in Payments, NEW target, Decide(c, p, target),
               Replaced(c, "reconciling", Console, p, target)
        PROVE  Decide(c, work'[c], seen'[c]) /\ work'[c] \in Payments /\ stage'[c] = "reconciling"
    <3>1. stage'[c] = "reconciling" /\ work'[c] = p /\ seen'[c] = target BY <1>1, <2>1
    <3> QED BY <2>1, <3>1
  <2> QED BY <1>1, <1>9, <2>1, AskMoves
<1>10. ASSUME NEW d \in Callers, Handle(d) \/ Ask(d) \/ Crash(d), d # c
       PROVE  stage'[c] = stage[c] /\ work'[c] = work[c] /\ seen'[c] = seen[c]
  BY <1>10, Others
<1>11. ASSUME NEW s \in Slips, Line(s) PROVE UNCHANGED callerVars
  BY <1>11 DEF Line, SlipArrives, ImageMatches, TextMatches, Match, LeaseLapses, Reclaim, RejectSlip
<1>12. CASE TextArrives \/ UNCHANGED vars \/ \E a \in Amounts : Transfer(a)
  BY <1>12 DEF TextArrives, Transfer, vars, callerVars
<1>13. CASE UNCHANGED callerVars BY <1>13 DEF callerVars
<1>14. CASE Handle(c) BY <1>2, <1>3, <1>4, <1>5, <1>6, <1>7, <1>8, <1>14 DEF Handle
<1> QED BY <1>8, <1>9, <1>10, <1>11, <1>12, <1>13, <1>14 DEF Next

\* A payment that is reconciled stays reconciled.
LEMMA ReconciledStays ==
  ASSUME CoverInv, [Next]_vars, NEW p \in Reconciled PROVE p \in Reconciled'
<1> USE DEF CoverInv, SettledInv, Reconciled
<1>1. p \in Payments /\ payment[p] = "reconciled" /\ p # 0
  BY SettlementAssumption DEF Payments
<1>2. ASSUME NEW c \in Callers, Commit(c), work[c] = p PROVE seen[c] # "rejected"
  BY <1>1, <1>2 DEF StillTrue, Commit
<1> QED BY <1>1, <1>2, WhoDecides

\* Where a caller begins to work on a payment, those who work on it decide alike.
LEMMA Judges ==
  ASSUME Uncontested, CoverInv, [Next]_vars, NEW c \in Callers
  PROVE  \/ work'[c] = work[c] /\ (seen'[c] = "rejected" <=> seen[c] = "rejected")
         \/ work'[c] = 0
         \/ /\ Handle(c) \/ Ask(c) \/ Crash(c)
            /\ \A d \in Callers : work[d] = work'[c]
                                  => (seen[d] = "rejected" <=> seen'[c] = "rejected")
<1> USE TypeParts DEF CoverInv, SettledInv
<1>1. CASE \E a \in 1..Due : Record(c, a) /\ work'[c] = recorded + 1 /\ seen'[c] = "reconciled"
  <2>1. recorded + 1 \in Payments /\ payment[recorded + 1] = "none"
    BY <1>1, Recordings, SourcesDiffer, AddsFacts
  <2>2. \A d \in Callers : work[d] # recorded + 1
    BY <2>1, SettlementAssumption DEF Typed, WorkOK, Payments
  <2> QED BY <1>1, <2>2 DEF Handle
<1>2. CASE /\ Scan(c) /\ task[c] \in Slips
           /\ work'[c] \in Marked(task[c]) /\ seen'[c] = "reconciled"
  <2>1. work'[c] # 0 /\ source[work'[c]] # Console
    BY <1>2, SourcesDiffer, SettlementAssumption DEF Marked, Payments
  <2>2. \A d \in Callers : work[d] = work'[c] => seen[d] # "rejected"
    BY <2>1 DEF RejectedOK
  <2> QED BY <1>2, <2>2 DEF Handle
<1>3. CASE Ask(c) /\ Decide(c, work'[c], seen'[c]) /\ work'[c] \in Payments
  <2>1. ~Contested(work'[c], seen'[c]) BY <1>3 DEF Decide, Uncontested
  <2> QED BY <1>3, <2>1 DEF Contested
<1> QED BY <1>1, <1>2, <1>3, CallerSteps

LEMMA StepAgree ==
  ASSUME Uncontested, CoverInv, [Next]_vars PROVE Agree'
<1> SUFFICES ASSUME NEW c \in Callers, NEW d \in Callers, work'[c] # 0, work'[c] = work'[d], c # d
             PROVE  seen'[c] = "rejected" => seen'[d] = "rejected"
  BY DEF Agree
<1>1. work[c] # 0 /\ work[c] = work[d] => (seen[c] = "rejected" <=> seen[d] = "rejected")
  BY DEF CoverInv, Agree
<1>2. ASSUME NEW a \in Callers, NEW b \in Callers, a # b, Handle(a) \/ Ask(a) \/ Crash(a)
      PROVE  work'[b] = work[b] /\ seen'[b] = seen[b]
  BY <1>2, Others DEF CoverInv, SettledInv
<1> QED BY <1>1, <1>2, Judges

LEMMA StepStillTrue ==
  ASSUME Uncontested, CoverInv, [Next]_vars, NEW c \in Callers PROVE StillTrue(c)'
<1> USE TypeParts DEF CoverInv, SettledInv
<1>1. StillTrue(c) OBVIOUS
<1>2. Typed' BY StepKeepsType
<1>3. stage'[c] \in AtWork => work'[c] # 0
  <2>1. 0 \notin Payments BY SettlementAssumption DEF Payments
  <2>2. recorded + 1 # 0 BY SettlementAssumption DEF Typed, PaymentOK
  <2> QED BY <1>1, <2>1, <2>2, CallerSteps DEF StillTrue, AtWork, Marked
<1>4. ASSUME stage'[c] \in {"summing", "writing"}, seen'[c] = "rejected"
      PROVE  payment'[work'[c]] # "reconciled"
  <2>1. work'[c] = work[c] /\ seen[c] = "rejected" /\ work[c] # 0 /\ stage[c] \in AtWork
        /\ (stage[c] = "reconciling" => payment[work[c]] = "pending")
    BY <1>1, <1>4, CallerSteps DEF StillTrue, AtWork
  <2>2. work[c] \in Payments /\ payment[work[c]] # "reconciled"
    BY <1>1, <2>1, SettlementAssumption DEF StillTrue, AtWork, Typed, CallerOK, Payments
  <2>3. ASSUME NEW d \in Callers, work[d] = work[c] PROVE seen[d] = "rejected"
    BY <2>1, <2>3 DEF Agree
  <2> QED BY <2>1, <2>2, <2>3, WhoDecides
<1>5. ASSUME stage'[c] = "writing", seen'[c] = "paid" PROVE Covered(c)'
  <2>1. work'[c] = work[c] /\ work[c] # 0 /\ Covered(c)
    BY <1>1, <1>5, CallerSteps DEF StillTrue, AtWork
  <2>2. work[c] \in Payments /\ payment[work[c]] # "none"
    BY <2>1, SettlementAssumption DEF Typed, WorkOK, CallerOK, Payments
  <2> DEFINE R == Reconciled \cup {work[c]}
             S == Reconciled' \cup {work[c]}
  <2>3. R \in SUBSET Payments /\ S \in SUBSET Payments /\ R \subseteq S
    BY <2>2, ReconciledStays DEF Reconciled
  <2>4. \A p \in R : payment[p] # "none" BY <2>2 DEF Reconciled
  <2>5. PaidBy(R) >= Due BY <2>1 DEF Covered
  <2>6. Covered(c)' <=> Total(amount', S) >= Due
    <3>1. (PaidBy(Reconciled \cup {work[c]}))' = Total(amount', Reconciled' \cup {work'[c]})
      BY Zenon DEF PaidBy, Total, MapThenSumSet, MapThenFoldSet, IsFold, First
    <3> QED BY <2>1, <3>1 DEF Covered
  <2> HIDE DEF R, S
  <2>7. Total(amount, R) <= Total(amount', S) /\ Total(amount, R) \in Nat /\ PaidBy(R) = Total(amount, R)
        /\ Total(amount', S) \in Nat
    BY <2>3, <2>4, PaidGrows
  <2> QED BY <2>5, <2>6, <2>7, SettlementAssumption
<1> QED BY <1>3, <1>4, <1>5 DEF StillTrue

LEMMA StepActiveIsCovered ==
  ASSUME Uncontested, CoverInv, [Next]_vars PROVE ActiveIsCovered'
<1> USE TypeParts DEF CoverInv, SettledInv
<1> SUFFICES ASSUME sub' # 0 PROVE sub' \in Reconciled' /\ (PaidBy(Reconciled))' >= Due
  BY DEF ActiveIsCovered
<1>1. PICK R \in SUBSET Payments : /\ R \subseteq Reconciled' /\ sub' \in Reconciled'
                                   /\ PaidBy(R) >= Due /\ \A p \in R : payment[p] # "none"
  <2>1. CASE sub' = sub
    <3>1. sub \in Reconciled /\ PaidBy(Reconciled) >= Due BY <2>1 DEF ActiveIsCovered
    <3>2. \A p \in Reconciled : p \in Payments /\ p \in Reconciled' /\ payment[p] # "none"
      BY ReconciledStays DEF Reconciled
    <3> QED BY <2>1, <3>1, <3>2
  <2>2. CASE sub' # sub
    <3>1. PICK c \in Callers : Commit(c)
      BY <2>2 DEF Next, Handle, Ask, Record, ReadPayment, Count, Scan, Finalize, Revert, Note,
         SettleRequest, WriteRecord, Claim, Call, Decide, ReadRecord, Crash, Line, SlipArrives,
         ImageMatches, TextMatches, Match, LeaseLapses, Reclaim, RejectSlip, TextArrives,
         Transfer, vars, recordVars
    <3>2. seen[c] = "paid" /\ sub' = work[c] /\ stage[c] = "writing"
      BY <2>2, <3>1 DEF Commit, Activates
    <3>3. work[c] # 0 /\ Covered(c) BY <3>2 DEF StillTrue, AtWork
    <3>4. work[c] \in Payments /\ payment[work[c]] # "none"
      BY <3>3, SettlementAssumption DEF Typed, WorkOK, CallerOK, Payments
    <3>5. work[c] \in Reconciled'
      BY <3>1, <3>2, <3>4 DEF Commit, Reconciled, Typed, PaymentOK
    <3>6. \A p \in Reconciled : p \in Payments /\ p \in Reconciled' /\ payment[p] # "none"
      BY ReconciledStays DEF Reconciled
    <3>7. PaidBy(Reconciled \cup {work[c]}) >= Due BY <3>3 DEF Covered
    <3> QED BY <3>2, <3>4, <3>5, <3>6, <3>7
  <2> QED BY <2>1, <2>2
<1>2. Reconciled' \in SUBSET Payments BY DEF Reconciled
<1>3. (PaidBy(Reconciled))' = Total(amount', Reconciled')
  BY Zenon DEF PaidBy, Total, MapThenSumSet, MapThenFoldSet, IsFold, First
<1>4. PaidBy(R) = Total(amount, R) /\ Total(amount, R) \in Nat
      /\ Total(amount', Reconciled') \in Nat /\ Total(amount, R) <= Total(amount', Reconciled')
  BY <1>1, <1>2, PaidGrows
<1> QED BY <1>1, <1>3, <1>4, SettlementAssumption

\* A subscription that is active was activated by a payment that counts, and what counts
\* covers what was due (reconcile_payment), unless two admins decide otherwise of one
\* payment: nobody else sums while the sum he acts upon may shrink.
THEOREM ActiveWasCovered == ASSUME Uncontested PROVE Spec => []ActiveIsCovered
<1>1. Init => CoverInv
  <2>1. ASSUME Init PROVE RejectedOK /\ (\A c \in Callers : Verifies(c)) /\ VerifiedIsSettled
    BY <2>1, SourcesDiffer DEF Init, RejectedOK, Verifies, VerifiedIsSettled
  <2>2. ASSUME Init PROVE Agree /\ (\A c \in Callers : StillTrue(c)) /\ ActiveIsCovered
    BY <2>2 DEF Init, Agree, StillTrue, AtWork, ActiveIsCovered
  <2> QED BY <2>1, <2>2, InitTyped DEF CoverInv, SettledInv
<1>2. CoverInv /\ [Next]_vars => CoverInv'
  <2>1. ASSUME CoverInv, [Next]_vars PROVE SettledInv'
    BY <2>1, StepKeepsSettled DEF CoverInv
  <2> QED BY <2>1, StepAgree, StepStillTrue, StepActiveIsCovered DEF CoverInv
<1>3. CoverInv => ActiveIsCovered BY DEF CoverInv
<1> QED BY <1>1, <1>2, <1>3, PTL DEF Spec
=============================================================================
