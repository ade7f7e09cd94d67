----------------------- MODULE CandidateLedgerProofs -----------------------
(* The inductive invariant of CandidateLedger and the theorems it yields. *)
EXTENDS CandidateLedger, TLAPS

\* The worker is at a row, and the project it finalizes has been recorded.
RowInv ==
  /\ at \in {"opening", "persisting", "finalizing", "summarizing", "returning"} =>
       row \in Rows
  /\ at = "finalizing" => ProjectOf[row] \in recorded

\* A project that was kept is persisted in the ledger, unless the ledger objected.
KeptInv == kept # {} => Persisted # {} \/ unsure \/ conflicts

\* A recorded project has a persisted candidate, or is about to have one, or the
\* worker knows that something went wrong, or it never got to publish a success.
RecordInv ==
  \A p \in recorded :
    \/ \E k \in Keys : linked[k] = p /\ ledger[k] = "persisted"
    \/ unsure \/ conflicts \/ errors
    \/ at = "finalizing" /\ ProjectOf[row] = p
    \/ at = "ended" /\ runStatus # "succeeded"

\* What the worker judged still holds when it publishes, and then for ever.
JudgeInv ==
  /\ at = "closing" => forced
  /\ at = "publishing" /\ ~forced =>
       /\ Open = {} /\ ~unsure /\ ~conflicts
       /\ ~partly => Incomplete = {}
  /\ runStatus \in {"succeeded", "partial"} => at = "ended" /\ Open = {}
  /\ runStatus = "partial" => Persisted # {}
  /\ runStatus = "succeeded" => Incomplete = {} /\ ~unsure /\ ~conflicts /\ ~errors

\* A persisted candidate has a project.
LinkInv == \A k \in Keys : ledger[k] = "persisted" => linked[k] \in Projects

IInv == TypeOK /\ RowInv /\ KeptInv /\ RecordInv /\ JudgeInv /\ LinkInv

-----------------------------------------------------------------------------
(* The writes of the ledger *)

\* A candidate of a row is a key, and its project is one of the projects.
LEMMA KeysOfRows ==
  ASSUME NEW r \in Rows
  PROVE  /\ KeyOf[r] \in Keys
         /\ ProjectOf[r] \in Projects
         /\ RowKey[r] \in {RowKey[s] : s \in Rows}
BY DEF Keys, Projects

\* _finalize changes the status of an accepted row and of no other.
LEMMA WriteSpares ==
  ASSUME TypeOK, row \in Rows, NEW k \in Keys, NEW verdict \in Verdicts,
         Write(k, verdict)
  PROVE  /\ ledger' \in [Keys -> Verdicts \cup {"none", "accepted"}]
         /\ linked' \in [Keys -> Projects \cup {NoProject}]
         /\ \A j \in Keys : ledger[j] # "accepted" =>
              ledger'[j] = ledger[j] /\ linked'[j] = linked[j]
         /\ ledger[k] = "accepted" =>
              /\ ledger'[k] = verdict
              /\ verdict = "persisted" => linked'[k] = ProjectOf[row]
<1>1. ProjectOf[row] \in Projects
  BY KeysOfRows
<1>2. CASE ledger[k] = "accepted"
  BY <1>1, <1>2 DEF TypeOK, Write, Link
<1>3. CASE ledger[k] # "accepted"
  BY <1>3 DEF TypeOK, Write, ledgerVars
<1>4. QED BY <1>2, <1>3

\* _finalize_candidate writes at most the verdict, and counts what it could not do.
LEMMA FinalizeSpares ==
  ASSUME IInv, row \in Rows, NEW verdict \in Verdicts, Finalize(verdict)
  PROVE  /\ ledger' \in [Keys -> Verdicts \cup {"none", "accepted"}]
         /\ linked' \in [Keys -> Projects \cup {NoProject}]
         /\ \A j \in Keys : ledger[j] # "accepted" =>
              ledger'[j] = ledger[j] /\ linked'[j] = linked[j]
         /\ LinkInv'
         /\ \/ /\ ledger'[KeyOf[row]] = verdict
               /\ verdict = "persisted" => linked'[KeyOf[row]] = ProjectOf[row]
            \/ unsure' \/ conflicts'
         /\ unsure' \in BOOLEAN /\ conflicts' \in BOOLEAN
         /\ unsure => unsure'
         /\ conflicts => conflicts'
<1> DEFINE k == KeyOf[row]
<1>1. k \in Keys /\ TypeOK /\ LinkInv /\ ProjectOf[row] \in Projects
  BY KeysOfRows DEF IInv
<1>2. CASE Write(k, verdict) /\ conflicts' = (conflicts \/ Conflicts(k, verdict))
           /\ UNCHANGED unsure
  <2>1. conflicts' \in BOOLEAN /\ unsure' \in BOOLEAN /\ (conflicts => conflicts')
    BY <1>1, <1>2, Zenon DEF TypeOK
  <2>2. CASE ledger[k] = "accepted"
    <3>1. LinkInv'
      BY <1>1, <1>2, <2>2, LedgerAssumption DEF LinkInv, Write, Link, TypeOK
    <3>2. QED BY <1>1, <1>2, <2>1, <2>2, <3>1, WriteSpares
  <2>3. CASE ledger[k] # "accepted"
    <3>1. UNCHANGED ledgerVars
      BY <1>2, <2>3 DEF Write
    <3>2. LinkInv'
      BY <1>1, <3>1 DEF LinkInv, ledgerVars
    <3>3. CASE Conflicts(k, verdict)
      BY <1>1, <1>2, <2>1, <2>3, <3>2, <3>3, WriteSpares
    <3>4. CASE ~Conflicts(k, verdict)
      <4>1. ledger[k] = verdict /\ (verdict = "persisted" => linked[k] = ProjectOf[row])
        BY <1>1, <2>3, <3>4, LedgerAssumption DEF Conflicts, LinkInv
      <4>2. QED
        BY <1>1, <1>2, <2>1, <2>3, <3>1, <3>2, <4>1, WriteSpares DEF ledgerVars
    <3>5. QED BY <3>3, <3>4
  <2>4. QED BY <2>2, <2>3
<1>3. CASE unsure' = TRUE /\ UNCHANGED <<ledgerVars, conflicts>>
  BY <1>1, <1>3 DEF TypeOK, LinkInv, ledgerVars
<1>4. QED BY <1>2, <1>3 DEF Finalize

\* reconcile_open_candidates closes the open rows and touches no other.
LEMMA ReconcileSpares ==
  ASSUME TypeOK, Reconcile
  PROVE  /\ ledger' \in [Keys -> Verdicts \cup {"none", "accepted"}]
         /\ linked' = linked
         /\ \A j \in Keys : ledger[j] # "accepted" => ledger'[j] = ledger[j]
         /\ \A j \in Keys : ledger'[j] # "accepted"
BY DEF TypeOK, Reconcile, Open, Verdicts


-----------------------------------------------------------------------------
(* Steps that leave the ledger alone *)

\* Parsing a page writes nothing.
LEMMA ScanPageKeeps ==
  ASSUME IInv, ScanPage
  PROVE  IInv'
BY LedgerAssumption DEF IInv, TypeOK, RowInv, KeptInv, RecordInv, JudgeInv, LinkInv,
  ledgerVars, ScanPage, scanVars, countVars, judgeVars, Open, Persisted, Incomplete

\* Turning the page writes nothing.
LEMMA NextPageKeeps ==
  ASSUME IInv, NextPage
  PROVE  IInv'
BY LedgerAssumption DEF IInv, TypeOK, RowInv, KeptInv, RecordInv, JudgeInv, LinkInv,
  ledgerVars, NextPage, LastOne, scanVars, countVars, judgeVars, Open, Persisted, Incomplete

\* The end of the scan writes nothing but the errors it saw.
LEMMA ScanEndsKeeps ==
  ASSUME IInv, NEW anomaly \in BOOLEAN, ScanEnds(anomaly)
  PROVE  IInv'
BY LedgerAssumption DEF IInv, TypeOK, RowInv, KeptInv, RecordInv, JudgeInv, LinkInv,
  ledgerVars, ScanEnds, scanVars, countVars, judgeVars, Open, Persisted, Incomplete

\* A crawl cut short leaves the ledger to be judged as it is.
LEMMA ScanStopsKeeps ==
  ASSUME IInv, ScanStops
  PROVE  IInv'
BY LedgerAssumption DEF IInv, TypeOK, RowInv, KeptInv, RecordInv, JudgeInv, LinkInv,
  ledgerVars, ScanStops, scanVars, countVars, judgeVars, Open, Persisted, Incomplete

\* Reading a detail page remembers the project, and writes nothing.
LEMMA DetailReadKeeps ==
  ASSUME IInv, DetailRead
  PROVE  IInv'
BY LedgerAssumption, KeysOfRows DEF IInv, TypeOK, RowInv, KeptInv, RecordInv, JudgeInv, LinkInv,
  ledgerVars, DetailRead, scanVars, countVars, judgeVars, Open, Persisted, Incomplete

\* The way back to the results writes nothing.
LEMMA ReturnKeeps ==
  ASSUME IInv, Return
  PROVE  IInv'
BY LedgerAssumption DEF IInv, TypeOK, RowInv, KeptInv, RecordInv, JudgeInv, LinkInv,
  ledgerVars, Return, scanVars, countVars, judgeVars, Open, Persisted, Incomplete

\* A row left behind keeps its status.
LEMMA RowAbandonedKeeps ==
  ASSUME IInv, RowAbandoned
  PROVE  IInv'
BY LedgerAssumption DEF IInv, TypeOK, RowInv, KeptInv, RecordInv, JudgeInv, LinkInv,
  ledgerVars, RowAbandoned, scanVars, countVars, judgeVars, Open, Persisted, Incomplete

\* The death of a browser leaves the ledger as it is.
LEMMA BrowserClosedKeeps ==
  ASSUME IInv, NEW marked \in BOOLEAN, BrowserClosed(marked)
  PROVE  IInv'
BY LedgerAssumption DEF IInv, TypeOK, RowInv, KeptInv, RecordInv, JudgeInv, LinkInv,
  ledgerVars, BrowserClosed, scanVars, countVars, judgeVars, Open, Persisted, Incomplete

\* A project recorded is owed a verdict by the row the worker is on.
LEMMA RecordProjectKeeps ==
  ASSUME IInv, RecordProject
  PROVE  IInv'
BY LedgerAssumption, KeysOfRows DEF IInv, TypeOK, RowInv, KeptInv, RecordInv, JudgeInv, LinkInv,
  ledgerVars, RecordProject, scanVars, countVars, judgeVars, Open, Persisted, Incomplete

\* The run summary touches neither the ledger nor the status.
LEMMA SummarizeKeeps ==
  ASSUME IInv, Summarize
  PROVE  IInv'
BY LedgerAssumption DEF IInv, TypeOK, RowInv, KeptInv, RecordInv, JudgeInv, LinkInv,
  ledgerVars, Summarize, scanVars, countVars, judgeVars, Open, Persisted, Incomplete

\* A worker that ends owes nothing any more: its run is no success.
LEMMA DiesKeeps ==
  ASSUME IInv, Dies
  PROVE  IInv'
BY LedgerAssumption DEF IInv, TypeOK, RowInv, KeptInv, RecordInv, JudgeInv, LinkInv,
  ledgerVars, Dies, scanVars, countVars, judgeVars, Open, Persisted, Incomplete

\* What is judged is what the ledger says, and stays so to the publication.
LEMMA JudgeKeeps ==
  ASSUME IInv, Judge
  PROVE  IInv'
<1>1. forced' \in BOOLEAN /\ partly' \in BOOLEAN
  BY Zenon DEF Judge, MustFail
<1>2. TypeOK'
  BY <1>1 DEF IInv, TypeOK, Judge, ledgerVars, scanVars, countVars
<1>3. RowInv' /\ KeptInv' /\ RecordInv'
  <2>1. at = "judging" /\ at' \in {"closing", "publishing"}
    BY DEF Judge
  <2>2. UNCHANGED <<runStatus, ledger, linked, recorded, row, kept, unsure, conflicts,
                    errors>>
    BY DEF Judge, ledgerVars, scanVars, countVars
  <2>3. QED BY <2>1, <2>2 DEF IInv, RowInv, KeptInv, RecordInv, Persisted
<1>4. JudgeInv'
  BY DEF IInv, TypeOK, JudgeInv, Judge, MustFail, ledgerVars, scanVars, countVars, Open, Persisted, Incomplete
<1>5. LinkInv'
  BY DEF IInv, LinkInv, Judge, ledgerVars
<1>6. QED BY <1>2, <1>3, <1>4, <1>5 DEF IInv

\* An unread ledger forces the run to fail.
LEMMA JudgeFailsKeeps ==
  ASSUME IInv, JudgeFails
  PROVE  IInv'
<1>1. forced' \in BOOLEAN /\ partly' \in BOOLEAN
  BY Zenon DEF JudgeFails
<1>2. TypeOK'
  BY <1>1 DEF IInv, TypeOK, JudgeFails, ledgerVars, scanVars, countVars
<1>3. RowInv' /\ KeptInv' /\ RecordInv'
  BY DEF IInv, TypeOK, RowInv, KeptInv, RecordInv, JudgeFails, ledgerVars, scanVars, countVars, Persisted
<1>4. JudgeInv'
  BY DEF IInv, TypeOK, JudgeInv, JudgeFails, MustFail, ledgerVars, scanVars, countVars, Open, Persisted, Incomplete
<1>5. LinkInv'
  BY DEF IInv, LinkInv, JudgeFails, ledgerVars
<1>6. QED BY <1>2, <1>3, <1>4, <1>5 DEF IInv

-----------------------------------------------------------------------------
(* Steps that write the ledger *)

\* An accepted candidate is open, or keeps the verdict it has.
LEMMA AcceptKeeps ==
  ASSUME IInv, NEW r \in Rows, Accept(r)
  PROVE  IInv'
<1>1. /\ ledger' \in [Keys -> Verdicts \cup {"none", "accepted"}]
      /\ \A j \in Keys : ledger[j] # "none" => ledger'[j] = ledger[j]
  BY KeysOfRows DEF IInv, TypeOK, Accept
<1>2. at = "choosing" /\ at' = "opening" /\ row' = r
  BY DEF Accept
<1>3. TypeOK' /\ RowInv'
  BY <1>1, <1>2 DEF IInv, TypeOK, RowInv, Accept, countVars, judgeVars
<1>4. KeptInv' /\ RecordInv'
  BY <1>1, <1>2, KeysOfRows DEF IInv, KeptInv, RecordInv, Accept, countVars, Persisted
<1>5. JudgeInv'
  BY <1>2 DEF IInv, JudgeInv, Accept
<1>6. LinkInv'
  BY <1>1, KeysOfRows DEF IInv, TypeOK, LinkInv, Accept
<1>7. QED BY <1>3, <1>4, <1>5, <1>6 DEF IInv

\* A duplicate is dropped, or conflicts.
LEMMA DetailRepeatsKeeps ==
  ASSUME IInv, DetailRepeats
  PROVE  IInv'
<1>1. TypeOK /\ row \in Rows /\ Finalize("duplicate")
  BY DEF IInv, RowInv, DetailRepeats
<1>2. "duplicate" \in Verdicts
  BY DEF Verdicts, Dropped, Failed
<1>3. QED
  BY <1>1, <1>2, FinalizeSpares, KeysOfRows, LedgerAssumption DEF IInv, TypeOK, RowInv, KeptInv, RecordInv, JudgeInv, LinkInv,
    ledgerVars, DetailRepeats, scanVars, countVars, judgeVars, Open, Persisted, Incomplete

\* A candidate without a payload fails, or conflicts.
LEMMA DetailMissingKeeps ==
  ASSUME IInv, NEW reason \in {"anomaly", "skipped"}, DetailMissing(reason)
  PROVE  IInv'
<1>1. TypeOK /\ row \in Rows /\ Finalize(reason)
  BY DEF IInv, RowInv, DetailMissing
<1>2. reason \in Verdicts
  BY DEF Verdicts, Dropped, Failed
<1>3. QED
  BY <1>1, <1>2, FinalizeSpares, KeysOfRows, LedgerAssumption DEF IInv, TypeOK, RowInv, KeptInv, RecordInv, JudgeInv, LinkInv,
    ledgerVars, DetailMissing, scanVars, countVars, judgeVars, Open, Persisted, Incomplete

\* A recovered row fails, or conflicts.
LEMMA RowRecoveredKeeps ==
  ASSUME IInv, RowRecovered
  PROVE  IInv'
<1>1. TypeOK /\ row \in Rows /\ Finalize("unclassified")
  BY DEF IInv, RowInv, RowRecovered
<1>2. "unclassified" \in Verdicts
  BY DEF Verdicts, Dropped, Failed
<1>3. QED
  BY <1>1, <1>2, FinalizeSpares, KeysOfRows, LedgerAssumption DEF IInv, TypeOK, RowInv, KeptInv, RecordInv, JudgeInv, LinkInv,
    ledgerVars, RowRecovered, scanVars, countVars, judgeVars, Open, Persisted, Incomplete

\* A project past its stage is dropped, or conflicts.
LEMMA LateStageKeeps ==
  ASSUME IInv, LateStage
  PROVE  IInv'
<1>1. TypeOK /\ row \in Rows /\ Finalize("late_stage")
  BY DEF IInv, RowInv, LateStage
<1>2. "late_stage" \in Verdicts
  BY DEF Verdicts, Dropped, Failed
<1>3. QED
  BY <1>1, <1>2, FinalizeSpares, KeysOfRows, LedgerAssumption DEF IInv, TypeOK, RowInv, KeptInv, RecordInv, JudgeInv, LinkInv,
    ledgerVars, LateStage, scanVars, countVars, judgeVars, Open, Persisted, Incomplete

\* The verdict of a recorded project: persisted, or the run is forced to fail.
LEMMA FinalizePersistedKeeps ==
  ASSUME IInv, FinalizePersisted
  PROVE  IInv'
<1>1. TypeOK /\ row \in Rows /\ Finalize("persisted")
  BY DEF IInv, RowInv, FinalizePersisted
<1>2. "persisted" \in Verdicts
  BY DEF Verdicts, Dropped, Failed
<1>3. QED
  BY <1>1, <1>2, FinalizeSpares, KeysOfRows, LedgerAssumption DEF IInv, TypeOK, RowInv, KeptInv, RecordInv, JudgeInv, LinkInv,
    ledgerVars, FinalizePersisted, scanVars, countVars, judgeVars, Open, Persisted, Incomplete

\* A persistence that failed is an error of the run.
LEMMA PersistFailsKeeps ==
  ASSUME IInv, PersistFails
  PROVE  IInv'
<1>1. TypeOK /\ row \in Rows /\ Finalize("persist_error")
  BY DEF IInv, RowInv, PersistFails
<1>2. "persist_error" \in Verdicts
  BY DEF Verdicts, Dropped, Failed
<1>3. QED
  BY <1>1, <1>2, FinalizeSpares, KeysOfRows, LedgerAssumption DEF IInv, TypeOK, RowInv, KeptInv, RecordInv, JudgeInv, LinkInv,
    ledgerVars, PersistFails, scanVars, countVars, judgeVars, Open, Persisted, Incomplete

\* The worker closes rows only in a run it is about to fail.
LEMMA CloseRowsKeeps ==
  ASSUME IInv, CloseRows
  PROVE  IInv'
<1>1. /\ ledger' \in [Keys -> Verdicts \cup {"none", "accepted"}]
      /\ \A j \in Keys : ledger[j] # "accepted" => ledger'[j] = ledger[j]
      /\ linked' = linked
      /\ \A j \in Keys : ledger'[j] = "persisted" => ledger[j] = "persisted"
      /\ Open = {} => \A j \in Keys : ledger'[j] = ledger[j]
  BY ReconcileSpares DEF IInv, TypeOK, Open, Reconcile, ledgerVars, CloseRows
<1>2. TypeOK' /\ RowInv'
  BY <1>1 DEF IInv, TypeOK, RowInv, CloseRows, scanVars, countVars, judgeVars
<1>3. KeptInv' /\ RecordInv'
  BY <1>1, KeysOfRows DEF IInv, KeptInv, RecordInv, CloseRows, scanVars, countVars, Persisted
<1>4. JudgeInv'
  BY <1>1 DEF IInv, JudgeInv, CloseRows, countVars, judgeVars, Open, Persisted, Incomplete
<1>5. LinkInv'
  BY <1>1 DEF IInv, LinkInv
<1>6. QED BY <1>2, <1>3, <1>4, <1>5 DEF IInv

\* A run is published as it was judged, if it is still active.
LEMMA PublishKeeps ==
  ASSUME IInv, NEW taskFails \in BOOLEAN, Publish(taskFails)
  PROVE  IInv'
BY DEF IInv, TypeOK, RowInv, KeptInv, RecordInv, JudgeInv, LinkInv,
  ledgerVars, Publish, Outcome, scanVars, countVars, judgeVars, Open, Persisted, Incomplete

\* A failed run is no success and no partial one.
LEMMA FailRunKeeps ==
  ASSUME IInv, NEW c \in Closers, FailRun(c)
  PROVE  IInv'
BY DEF IInv, TypeOK, RowInv, KeptInv, RecordInv, JudgeInv, LinkInv,
  ledgerVars, FailRun, scanVars, countVars, judgeVars, Open, Persisted, Incomplete

\* Finding a failed run to repair changes nothing yet.
LEMMA RepairKeeps ==
  ASSUME IInv, NEW c \in Closers, Repair(c)
  PROVE  IInv'
BY DEF IInv, TypeOK, RowInv, KeptInv, RecordInv, JudgeInv, LinkInv,
  ledgerVars, Repair, scanVars, countVars, judgeVars, Open, Persisted, Incomplete

\* A closer closes rows only in a failed run.
LEMMA CleanupKeeps ==
  ASSUME IInv, NEW c \in Closers, Cleanup(c)
  PROVE  IInv'
<1>1. /\ ledger' \in [Keys -> Verdicts \cup {"none", "accepted"}]
      /\ \A j \in Keys : ledger[j] # "accepted" => ledger'[j] = ledger[j]
      /\ linked' = linked
      /\ \A j \in Keys : ledger'[j] = "persisted" => ledger[j] = "persisted"
      /\ Open = {} => \A j \in Keys : ledger'[j] = ledger[j]
  BY ReconcileSpares DEF IInv, TypeOK, Open, Reconcile, ledgerVars, Cleanup
<1>2. TypeOK' /\ RowInv'
  BY <1>1 DEF IInv, TypeOK, RowInv, Cleanup, scanVars, countVars, judgeVars
<1>3. KeptInv' /\ RecordInv'
  BY <1>1, KeysOfRows DEF IInv, KeptInv, RecordInv, Cleanup, scanVars, countVars, Persisted
<1>4. JudgeInv'
  BY <1>1 DEF IInv, JudgeInv, Cleanup, countVars, judgeVars, Open, Persisted, Incomplete
<1>5. LinkInv'
  BY <1>1 DEF IInv, LinkInv
<1>6. QED BY <1>2, <1>3, <1>4, <1>5 DEF IInv

\* A cleanup that fails leaves the ledger as it is.
LEMMA CleanupFailsKeeps ==
  ASSUME IInv, NEW c \in Closers, CleanupFails(c)
  PROVE  IInv'
BY DEF IInv, TypeOK, RowInv, KeptInv, RecordInv, JudgeInv, LinkInv,
  ledgerVars, CleanupFails, scanVars, countVars, judgeVars, Open, Persisted, Incomplete

-----------------------------------------------------------------------------
(* The theorems *)

\* A run starts with an empty ledger.
LEMMA InitEstablishes == Init => IInv
<1> SUFFICES ASSUME Init PROVE IInv
  OBVIOUS
<1>1. 1 \in 1 .. LastPage
  BY LedgerAssumption
<1>2. TypeOK
  BY <1>1 DEF Init, TypeOK
<1>3. RowInv /\ KeptInv /\ RecordInv /\ JudgeInv /\ LinkInv
  BY DEF Init, RowInv, KeptInv, RecordInv, JudgeInv, LinkInv
<1>4. QED BY <1>2, <1>3 DEF IInv

\* A step that changes nothing keeps the invariant.
LEMMA StutterKeeps ==
  ASSUME IInv, UNCHANGED vars
  PROVE  IInv'
BY DEF IInv, TypeOK, RowInv, KeptInv, RecordInv, JudgeInv, LinkInv, vars, ledgerVars, scanVars, countVars,
  judgeVars, Open, Persisted, Incomplete

\* The invariant holds at first and is kept by every step.
LEMMA Inductive == Spec => []IInv
<1>1. IInv /\ [Next]_vars => IInv'
  <2> SUFFICES ASSUME IInv, [Next]_vars PROVE IInv'
    OBVIOUS
  <2>1. CASE Walk
    BY <2>1, ScanPageKeeps, NextPageKeeps, ScanStopsKeeps, ScanEndsKeeps, AcceptKeeps
    DEF Walk
  <2>2. CASE Visit
    BY <2>2, DetailReadKeeps, DetailRepeatsKeeps, ReturnKeeps, RowRecoveredKeeps,
      RowAbandonedKeeps, DetailMissingKeeps, BrowserClosedKeeps DEF Visit
  <2>3. CASE Persist
    BY <2>3, LateStageKeeps, RecordProjectKeeps, FinalizePersistedKeeps,
      SummarizeKeeps, PersistFailsKeeps DEF Persist
  <2>4. CASE Conclude
    BY <2>4, JudgeKeeps, JudgeFailsKeeps, CloseRowsKeeps, PublishKeeps DEF Conclude
  <2>5. CASE Dies
    BY <2>5, DiesKeeps
  <2>6. ASSUME NEW c \in Closers, Close(c) PROVE IInv'
    BY <2>6, FailRunKeeps, RepairKeeps, CleanupKeeps, CleanupFailsKeeps DEF Close
  <2>7. CASE UNCHANGED vars
    BY <2>7, StutterKeeps
  <2>8. QED BY <2>1, <2>2, <2>3, <2>4, <2>5, <2>6, <2>7 DEF Next
<1>2. QED BY InitEstablishes, <1>1, PTL DEF Spec

\* Every column and local variable keeps its type, for any pages and any closers.
THEOREM TypeCorrect == Spec => []TypeOK
<1>1. IInv => TypeOK
  BY DEF IInv
<1>2. QED BY Inductive, <1>1, PTL

\* However many closers there are, a run that was published as succeeded or partial
\* has no open candidate, then or later.
THEOREM PublishedClosed == Spec => []PublishedIsClosed
<1>1. IInv => PublishedIsClosed
  BY DEF IInv, JudgeInv, PublishedIsClosed
<1>2. QED BY Inductive, <1>1, PTL

\* A partial run has persisted a candidate.
THEOREM PartialPersists == Spec => []PartialHasProjects
<1>1. IInv => PartialHasProjects
  BY DEF IInv, JudgeInv, PartialHasProjects
<1>2. QED BY Inductive, <1>1, PTL

\* A run that succeeded lost nothing: no candidate failed, and every project it
\* recorded is the project of a persisted candidate.
THEOREM SuccessAccounts == Spec => []SucceededAccounts
<1>1. IInv => SucceededAccounts
  BY DEF IInv, JudgeInv, RecordInv, SucceededAccounts
<1>2. QED BY Inductive, <1>1, PTL

\* No step of the worker or of a closer changes a verdict.
LEMMA StepSparesVerdicts ==
  ASSUME IInv, [Next]_vars
  PROVE  \A k \in Keys : ledger[k] \in Verdicts => ledger'[k] = ledger[k]
<1>1. TypeOK /\ \A k \in Keys : ledger[k] \in Verdicts => ledger[k] \notin {"none", "accepted"}
  BY DEF IInv, Verdicts, Dropped, Failed
<1>2. ASSUME NEW r \in Rows, Accept(r)
      PROVE  \A k \in Keys : ledger[k] # "none" => ledger'[k] = ledger[k]
  BY <1>1, <1>2 DEF Accept, TypeOK
<1>3. ASSUME NEW verdict \in Verdicts, row \in Rows, Finalize(verdict)
      PROVE  \A k \in Keys : ledger[k] # "accepted" => ledger'[k] = ledger[k]
  BY <1>3, FinalizeSpares
<1>4. ASSUME Reconcile
      PROVE  \A k \in Keys : ledger[k] # "accepted" => ledger'[k] = ledger[k]
  BY <1>1, <1>4, ReconcileSpares
<1>5. CASE Walk
  BY <1>1, <1>2, <1>5 DEF Walk, ScanPage, NextPage, ScanEnds, ScanStops, ledgerVars
<1>6. CASE Visit
  BY <1>1, <1>3, <1>6 DEF IInv, RowInv, Visit, DetailRead, DetailRepeats, Return,
    RowRecovered, RowAbandoned, DetailMissing, BrowserClosed, ledgerVars, Verdicts, Dropped, Failed
<1>7. CASE Persist
  BY <1>1, <1>3, <1>7 DEF IInv, RowInv, Persist, LateStage, RecordProject,
    FinalizePersisted, Summarize, PersistFails, ledgerVars, Verdicts, Dropped, Failed
<1>8. CASE Conclude
  BY <1>1, <1>4, <1>8 DEF Conclude, Judge, JudgeFails, CloseRows, Publish, ledgerVars
<1>9. ASSUME NEW c \in Closers, Close(c)
      PROVE  \A k \in Keys : ledger[k] # "accepted" => ledger'[k] = ledger[k]
  BY <1>4, <1>9 DEF Close, FailRun, Repair, Cleanup, CleanupFails, ledgerVars
<1>10. CASE Dies \/ UNCHANGED vars
  BY <1>10 DEF Dies, vars, ledgerVars
<1>11. QED BY <1>1, <1>5, <1>6, <1>7, <1>8, <1>9, <1>10 DEF Next

\* A verdict is final, whatever the worker and the closers do after one another.
THEOREM VerdictsFinal == Spec => VerdictStays
<1>1. IInv /\ [Next]_vars =>
        [\A k \in Keys : ledger[k] \in Verdicts => ledger'[k] = ledger[k]]_vars
  BY StepSparesVerdicts
<1>2. QED BY Inductive, <1>1, PTL DEF Spec, VerdictStays

=============================================================================
