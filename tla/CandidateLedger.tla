-------------------------- MODULE CandidateLedger --------------------------
(***************************************************************************)
(* One crawl run and its candidate ledger: the worker walks the result     *)
(* pages, accepts each eligible row in the ledger before it opens it,      *)
(* gives it a verdict, and publishes the run by what the ledger says.      *)
(* Meanwhile closers (the dispatcher, the reconciler, the worker's own     *)
(* last resort) may fail the run and close the rows it left open.          *)
(***************************************************************************)
EXTENDS Integers, FiniteSets

CONSTANTS
  Rows,        \* eligible rows of the result pages of all keywords
  LastPage,    \* the pages, in the order they are visited
  PageOf,      \* the page a row is on
  KeyOf,       \* its candidate_key: project number, or name, organization...
  RowKey,      \* its dedupe key in the results: project number or name
  ProjectOf,   \* its dedupe key once the detail page was read
  NoRow,       \* no row
  NoProject,   \* no project
  Closers,     \* processes that may run complete_abnormal_run
  Troubles     \* what may go wrong: "site", "browser", "database"

Keys     == {KeyOf[r] : r \in Rows}
Projects == {ProjectOf[r] : r \in Rows}

ASSUME LedgerAssumption ==
  /\ LastPage \in Nat \ {0}
  /\ PageOf \in [Rows -> 1 .. LastPage]
  /\ DOMAIN KeyOf = Rows /\ DOMAIN RowKey = Rows /\ DOMAIN ProjectOf = Rows
  /\ NoRow \notin Rows
  /\ NoProject \notin Projects
  /\ Troubles \subseteq {"site", "browser", "database"}
  /\ \A r, s \in Rows : KeyOf[r] = KeyOf[s] => RowKey[r] = RowKey[s]

VARIABLES
  runStatus,   \* crawl_runs.status, of a run that was started
  ledger,      \* candidate_status and terminal_reason of each candidate
  linked,      \* project_id of each candidate
  recorded,    \* projects written through the event sink
  at,          \* where the worker stands
  page,        \* the page it is on
  todo,        \* rows of the page still to visit
  row,         \* the row it is working on
  seen,        \* seen_keys
  kept,        \* persisted_projects
  conflicts,   \* conflict_count > 0
  unsure,      \* finalization_error_count > 0
  errors,      \* error_count or live_crawl_anomaly_count > 0
  forced,      \* ledger_force_failed
  partly,      \* ledger_partial
  closing      \* where a closer stands in complete_abnormal_run

ledgerVars == <<ledger, linked>>
scanVars  == <<page, todo, row, seen>>
countVars == <<kept, conflicts, unsure, errors>>
judgeVars == <<forced, partly>>
vars      == <<runStatus, ledgerVars, recorded, at, scanVars, countVars, judgeVars,
               closing>>

Dropped  == {"late_stage", "duplicate"}
Failed   == {"anomaly", "skipped", "unclassified", "persist_error"}
Verdicts == Dropped \cup Failed \cup {"persisted", "unknown"}

Init ==
  /\ runStatus = "running"
  /\ ledger    = [k \in Keys |-> "none"]
  /\ linked    = [k \in Keys |-> NoProject]
  /\ recorded  = {}
  /\ at        = "scanning"
  /\ page      = 1
  /\ todo      = {}
  /\ row       = NoRow
  /\ seen      = {}
  /\ kept      = {}
  /\ conflicts = FALSE /\ unsure = FALSE /\ errors = FALSE
  /\ forced    = FALSE /\ partly = FALSE
  /\ closing   = [c \in Closers |-> "idle"]

-----------------------------------------------------------------------------
(* The ledger *)

Open == {k \in Keys : ledger[k] = "accepted"}

\* The project_id that comes with a verdict.
Link(k, verdict) ==
  linked' = [linked EXCEPT ![k] = IF verdict = "persisted" THEN ProjectOf[row] ELSE @]

\* Mutant of Write: the row's status is not tested.
WriteAnyRow(k, verdict) ==
  /\ ledger' = [ledger EXCEPT ![k] = verdict]
  /\ Link(k, verdict)

\* _finalize: only an accepted row takes a verdict.
Write(k, verdict) ==
  \/ /\ ledger[k] = "accepted"
     /\ ledger' = [ledger EXCEPT ![k] = verdict]
     /\ Link(k, verdict)
  \/ /\ ledger[k] # "accepted"
     /\ UNCHANGED ledgerVars

\* A replay is the same verdict, and the same project.
Conflicts(k, verdict) ==
  \/ ledger[k] \notin {"accepted", verdict}
  \/ verdict = "persisted" /\ linked[k] \notin {NoProject, ProjectOf[row]}

\* _finalize_candidate: a replay is accepted, anything else is a conflict; a failure
\* is counted and the crawl goes on.
Finalize(verdict) ==
  LET k == KeyOf[row] IN
  \/ /\ Write(k, verdict)
     /\ conflicts' = (conflicts \/ Conflicts(k, verdict))
     /\ UNCHANGED unsure
  \/ /\ "database" \in Troubles
     /\ unsure' = TRUE
     /\ UNCHANGED <<ledgerVars, conflicts>>

\* reconcile_open_candidates
Reconcile ==
  /\ ledger' = [k \in Keys |-> IF k \in Open THEN "unknown" ELSE ledger[k]]
  /\ UNCHANGED linked

-----------------------------------------------------------------------------
(* The result pages *)

\* Parsing a page: rows already seen are skipped, but two rows of one page are not
\* compared with each other.
ScanPage ==
  /\ at = "scanning"
  /\ at' = "choosing"
  /\ todo' = {r \in Rows : PageOf[r] = page /\ RowKey[r] \notin seen}
  /\ UNCHANGED <<runStatus, ledgerVars, recorded, page, row, seen, countVars,
                 judgeVars, closing>>

\* candidate_callback: record_accepted inserts the row, or leaves it as it is.
Accept(r) ==
  /\ at = "choosing" /\ r \in todo
  /\ at' = "opening"
  /\ row' = r
  /\ todo' = todo \ {r}
  /\ ledger' = [ledger EXCEPT ![KeyOf[r]] = IF @ = "none" THEN "accepted" ELSE @]
  /\ UNCHANGED <<runStatus, linked, recorded, page, seen, countVars, judgeVars,
                 closing>>

LastOne == page = LastPage

NextPage ==
  /\ at = "choosing" /\ todo = {} /\ ~LastOne
  /\ at' = "scanning"
  /\ page' = page + 1
  /\ UNCHANGED <<runStatus, ledgerVars, recorded, todo, row, seen, countVars,
                 judgeVars, closing>>

\* The scan summaries of the keywords may show an anomaly.
ScanEnds(anomaly) ==
  /\ at = "choosing" /\ todo = {} /\ LastOne
  /\ at' = "judging"
  /\ errors' = (errors \/ anomaly)
  /\ UNCHANGED <<runStatus, ledgerVars, recorded, scanVars, kept, conflicts, unsure,
                 judgeVars, closing>>

\* PaginationScanError, BrowserStartError, or a SearchPageStateError outside a row
\* or while a row that timed out is left: the crawl ends, what it found is kept.
ScanStops ==
  /\ Troubles \cap {"site", "browser"} # {}
  /\ at \in {"scanning", "opening"} \/ (at = "choosing" /\ todo = {})
  /\ at' = "judging"
  /\ errors' = TRUE
  /\ UNCHANGED <<runStatus, ledgerVars, recorded, scanVars, kept, conflicts, unsure,
                 judgeVars, closing>>

-----------------------------------------------------------------------------
(* One row *)

\* The detail page yields a payload: a project not met before is to be persisted.
DetailRead ==
  /\ at = "opening" /\ ProjectOf[row] \notin seen
  /\ at' = "persisting"
  /\ seen' = seen \cup {ProjectOf[row]}
  /\ UNCHANGED <<runStatus, ledgerVars, recorded, page, todo, row, countVars, judgeVars,
                 closing>>

\* The payload names a project met before.
DetailRepeats ==
  /\ at = "opening" /\ ProjectOf[row] \in seen
  /\ at' = "returning"
  /\ Finalize("duplicate")
  /\ UNCHANGED <<runStatus, recorded, scanVars, kept, errors, judgeVars, closing>>

\* No payload, after at most one retry: an anomaly of the crawl, or a stage out of
\* scope and other reasons that are none.
DetailMissing(reason) ==
  /\ at = "opening"
  /\ at' = "returning"
  /\ seen' = seen \cup {RowKey[row]}
  /\ Finalize(reason)
  /\ errors' = (errors \/ reason = "anomaly")
  /\ UNCHANGED <<runStatus, recorded, page, todo, row, kept, judgeVars, closing>>

Return ==
  /\ at = "returning"
  /\ at' = "choosing"
  /\ UNCHANGED <<runStatus, ledgerVars, recorded, scanVars, countVars, judgeVars,
                 closing>>

\* The way back to the results fails (or the detail times out) and is recovered:
\* the row is failed, whatever became of it before.
RowRecovered ==
  /\ "site" \in Troubles /\ at \in {"opening", "returning"}
  /\ at' = "choosing"
  /\ Finalize("unclassified")
  /\ UNCHANGED <<runStatus, recorded, scanVars, kept, errors, judgeVars, closing>>

\* The recovery fails too, but the results are there: the row is left as it is.
RowAbandoned ==
  /\ "site" \in Troubles /\ at \in {"opening", "returning"}
  /\ at' = "choosing"
  /\ UNCHANGED <<runStatus, ledgerVars, recorded, scanVars, countVars, judgeVars,
                 closing>>

\* BrowserClosedDuringKeyword: a new browser resumes the page.  A row is not visited
\* again if the browser died on the way back from it.
BrowserClosed(marked) ==
  /\ "browser" \in Troubles
  /\ at = "opening" \/ (at = "returning" /\ marked)
  /\ at' = "scanning"
  /\ seen' = IF marked THEN seen \cup {RowKey[row]} ELSE seen
  /\ UNCHANGED <<runStatus, ledgerVars, recorded, page, todo, row, countVars, judgeVars,
                 closing>>

-----------------------------------------------------------------------------
(* Persistence: _persist_discovered_project *)

LateStage ==
  /\ at = "persisting"
  /\ at' = "returning"
  /\ Finalize("late_stage")
  /\ UNCHANGED <<runStatus, recorded, scanVars, kept, errors, judgeVars, closing>>

\* record_discovery commits the project; its documents follow.
RecordProject ==
  /\ at = "persisting"
  /\ at' = "finalizing"
  /\ recorded' = recorded \cup {ProjectOf[row]}
  /\ UNCHANGED <<runStatus, ledgerVars, scanVars, countVars, judgeVars, closing>>

FinalizePersisted ==
  /\ at = "finalizing"
  /\ at' = "summarizing"
  /\ Finalize("persisted")
  /\ kept' = kept \cup {ProjectOf[row]}
  /\ UNCHANGED <<runStatus, recorded, scanVars, errors, judgeVars, closing>>

\* update_run_summary
Summarize ==
  /\ at = "summarizing"
  /\ at' = "returning"
  /\ UNCHANGED <<runStatus, ledgerVars, recorded, scanVars, countVars, judgeVars,
                 closing>>

\* Any step from the task to the run summary raises.
PersistFails ==
  /\ "database" \in Troubles /\ at \in {"persisting", "finalizing", "summarizing"}
  /\ at' = "returning"
  /\ Finalize("persist_error")
  /\ errors' = TRUE
  /\ UNCHANGED <<runStatus, recorded, scanVars, kept, judgeVars, closing>>

-----------------------------------------------------------------------------
(* Publication: _apply_candidate_ledger_authority and mark_run_finished *)

Persisted  == {k \in Keys : ledger[k] = "persisted"}
Incomplete == {k \in Keys : ledger[k] \in Failed \cup {"unknown"}}

\* Mutant of MustFail: rows still open do not count.
MustFailUnlessOpen == unsure \/ conflicts \/ (Incomplete # {} /\ Persisted = {})

MustFail == unsure \/ conflicts \/ Open # {} \/ (Incomplete # {} /\ Persisted = {})

\* Mutant of Judge: failed and unknown rows do not count.
JudgeOpenRows ==
  /\ at = "judging"
  /\ at' = IF Open # {} THEN "closing" ELSE "publishing"
  /\ forced' = (unsure \/ conflicts \/ Open # {})
  /\ partly' = FALSE
  /\ UNCHANGED <<runStatus, ledgerVars, recorded, scanVars, countVars, closing>>

Judge ==
  /\ at = "judging"
  /\ at' = IF Open # {} THEN "closing" ELSE "publishing"
  /\ forced' = MustFail
  /\ partly' = (~MustFail /\ Incomplete # {})
  /\ UNCHANGED <<runStatus, ledgerVars, recorded, scanVars, countVars, closing>>

\* The ledger cannot be read.
JudgeFails ==
  /\ "database" \in Troubles /\ at = "judging"
  /\ at' = "publishing"
  /\ forced' = TRUE /\ partly' = FALSE
  /\ UNCHANGED <<runStatus, ledgerVars, recorded, scanVars, countVars, closing>>

\* The worker closes its own open rows, or fails to.
CloseRows ==
  /\ at = "closing"
  /\ at' = "publishing"
  /\ Reconcile \/ ("database" \in Troubles /\ UNCHANGED ledgerVars)
  /\ UNCHANGED <<runStatus, recorded, scanVars, countVars, judgeVars, closing>>

\* A crawl without projects records a task of its own, which may fail.
Outcome(taskFails) ==
  CASE forced -> "failed"
    [] ~forced /\ (errors \/ partly \/ taskFails) ->
         IF kept # {} THEN "partial" ELSE "failed"
    [] OTHER -> "succeeded"

\* mark_run_finished: only an active run takes a status.
Publish(taskFails) ==
  /\ at = "publishing"
  /\ taskFails => "database" \in Troubles /\ recorded = {}
  /\ at' = "ended"
  /\ runStatus' = IF runStatus = "running" THEN Outcome(taskFails) ELSE runStatus
  /\ UNCHANGED <<ledgerVars, recorded, scanVars, countVars, judgeVars, closing>>

\* The worker is killed, or raises: the ledger cannot take a row, the results page
\* is lost for good, the tenant is no longer entitled.
Dies ==
  /\ at # "ended"
  /\ at' = "ended"
  /\ UNCHANGED <<runStatus, ledgerVars, recorded, scanVars, countVars, judgeVars,
                 closing>>

-----------------------------------------------------------------------------
(* complete_abnormal_run and the repair of failed runs *)

\* fail_run_if_active; the worker may be dead, about to die, or only slow.
FailRun(c) ==
  /\ closing[c] = "idle" /\ runStatus = "running"
  /\ runStatus' = "failed"
  /\ closing' = [closing EXCEPT ![c] = "cleanup"]
  /\ UNCHANGED <<ledgerVars, recorded, at, scanVars, countVars, judgeVars>>

\* Mutant of Repair: only the runs failed in this pass are cleaned up.
RepairNothing(c) == FALSE /\ UNCHANGED vars

\* list_open_candidate_runs finds a failed run with open rows.
Repair(c) ==
  /\ closing[c] = "idle" /\ runStatus = "failed" /\ Open # {}
  /\ closing' = [closing EXCEPT ![c] = "cleanup"]
  /\ UNCHANGED <<runStatus, ledgerVars, recorded, at, scanVars, countVars, judgeVars>>

Cleanup(c) ==
  /\ closing[c] = "cleanup"
  /\ closing' = [closing EXCEPT ![c] = "idle"]
  /\ Reconcile
  /\ UNCHANGED <<runStatus, recorded, at, scanVars, countVars, judgeVars>>

\* The ledger does not answer, or the closer is killed.
CleanupFails(c) ==
  /\ closing[c] = "cleanup" /\ "database" \in Troubles
  /\ closing' = [closing EXCEPT ![c] = "idle"]
  /\ UNCHANGED <<runStatus, ledgerVars, recorded, at, scanVars, countVars, judgeVars>>

-----------------------------------------------------------------------------
Walk ==
  \/ ScanPage \/ NextPage \/ ScanStops
  \/ \E anomaly \in BOOLEAN : ScanEnds(anomaly)
  \/ \E r \in Rows : Accept(r)

Visit ==
  \/ DetailRead \/ DetailRepeats \/ Return \/ RowRecovered \/ RowAbandoned
  \/ \E reason \in {"anomaly", "skipped"} : DetailMissing(reason)
  \/ \E marked \in BOOLEAN : BrowserClosed(marked)

Persist == LateStage \/ RecordProject \/ FinalizePersisted \/ Summarize \/ PersistFails

Conclude ==
  \/ Judge \/ JudgeFails \/ CloseRows
  \/ \E taskFails \in BOOLEAN : Publish(taskFails)

Close(c) == FailRun(c) \/ Repair(c) \/ Cleanup(c) \/ CleanupFails(c)

Next ==
  \/ Walk \/ Visit \/ Persist \/ Conclude \/ Dies
  \/ \E c \in Closers : Close(c)

Spec == Init /\ [][Next]_vars

\* The reconciler runs on every poll, and a ledger that fails again and again
\* answers some day.  Nothing is assumed of the worker.
Fairness == \A c \in Closers : WF_vars(Repair(c)) /\ SF_vars(Cleanup(c))

FairSpec == Spec /\ Fairness

-----------------------------------------------------------------------------
(* Properties *)

\* Every column and every local variable keeps its type.
TypeOK ==
  /\ runStatus \in {"running", "succeeded", "partial", "failed"}
  /\ ledger \in [Keys -> Verdicts \cup {"none", "accepted"}]
  /\ linked \in [Keys -> Projects \cup {NoProject}]
  /\ recorded \subseteq Projects
  /\ at \in {"scanning", "choosing", "opening", "persisting", "finalizing",
             "summarizing", "returning", "judging", "closing", "publishing",
             "ended"}
  /\ page \in 1 .. LastPage
  /\ todo \subseteq Rows
  /\ row \in Rows \cup {NoRow}
  /\ seen \subseteq {RowKey[r] : r \in Rows} \cup Projects
  /\ kept \subseteq recorded
  /\ conflicts \in BOOLEAN /\ unsure \in BOOLEAN /\ errors \in BOOLEAN
  /\ forced \in BOOLEAN /\ partly \in BOOLEAN
  /\ closing \in [Closers -> {"idle", "cleanup"}]

\* A verdict is final: neither a late worker nor a closer replaces it, and no row
\* is accepted again (_finalize, reconcile_open_candidates, record_accepted).
VerdictStays ==
  [][\A k \in Keys : ledger[k] \in Verdicts => ledger'[k] = ledger[k]]_vars

\* A run is published as succeeded or partial only with its ledger closed, and
\* nothing is accepted in it afterwards (_apply_candidate_ledger_authority).
PublishedIsClosed == runStatus \in {"succeeded", "partial"} => Open = {}

\* A run that succeeded accounts for everything: no candidate failed or was lost
\* sight of, and every project it wrote is the project of a persisted candidate.
SucceededAccounts ==
  runStatus = "succeeded" =>
    /\ Incomplete = {}
    /\ \A p \in recorded : \E k \in Keys :
         linked[k] = p /\ ledger[k] = "persisted"

\* A partial run has something to show: a candidate that was persisted.
PartialHasProjects == runStatus = "partial" => Persisted # {}

\* The open rows of a failed run are closed in the end, whoever failed it, whichever
\* cleanup failed, and whatever a worker that outlived its run still accepts.
OpenRowsClose ==
  \A k \in Keys :
    runStatus = "failed" /\ ledger[k] = "accepted" ~> ledger[k] # "accepted"

=============================================================================
