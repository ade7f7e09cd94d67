-------------------------- MODULE AgentInboxProofs --------------------------
(* Safety of AgentInbox for any number of jobs, claims and processors. *)
EXTENDS AgentInbox, TLAPS

-----------------------------------------------------------------------------
(* The inductive invariant *)

\* A token that was not issued has no job, no crawl and no request; a row is the
\* row of a token that was sent, and has a mode as soon as it exists.
TokenInv ==
  \A t \in Tokens :
    /\ t > issued => jobOf[t] = NoJob /\ crawl[t] = "none"
    /\ t <= issued => jobOf[t] \in Jobs
    /\ t \in sent => t <= issued
    /\ status[t] = "none" <=> mode[t] = "none"
    /\ status[t] # "none" => t \in sent

\* A processor past its claim is at a row; it has ingested a primary result that it
\* is about to mark applied.
WorkInv ==
  \A p \in Processors : stage[p] \notin {"idle", "claiming"} =>
    /\ work[p] \in Tokens
    /\ status[work[p]] # "none"
    /\ stage[p] = "applied" /\ mode[work[p]] = "primary" => work[p] \in ingested

\* A job that has yielded a result is never claimed again.
SpentInv ==
  \A t \in Tokens : mode[t] = "primary" => jobStatus[jobOf[t]] # "pending"

IInv ==
  /\ TypeOK /\ TokenInv /\ WorkInv /\ SpentInv
  /\ OneResultPerJob /\ InFlightHasResult /\ AgentJobsJustified

-----------------------------------------------------------------------------
(* Every step keeps the invariant: one lemma per action. *)

\* A subset that grows by at most one element of the set stays a subset.
LEMMA GrownSubset ==
  ASSUME NEW A, NEW B, NEW C, NEW x \in A, B \subseteq A, C \in {B, B \cup {x}}
  PROVE  C \subseteq A
OBVIOUS

USE InboxAssumption
USE DEF IInv, TypeOK, TokenInv, Jobs, Tokens, NoToken, Unsettled, Settled, Results,
        HoldsClaim, jobVars, rowVars, procVars

\* A processor past its claim is at the row of a job.
LEMMA AtRow ==
  ASSUME IInv, NEW p \in Processors, stage[p] \notin {"idle", "claiming"}
  PROVE  /\ work[p] \in Tokens
         /\ status[work[p]] # "none" /\ mode[work[p]] # "none"
         /\ jobOf[work[p]] \in Jobs
BY DEF WorkInv

\* The protocol decides what is accepted next, not what was.
LEMMA ConfigureKeeps ==
  ASSUME IInv, NEW m \in Modes, Configure(m)
  PROVE  IInv'
<1> USE DEF Configure
<1>1. TypeOK'
  OBVIOUS
<1>2. TokenInv' /\ WorkInv'
  BY DEF WorkInv
<1>3. SpentInv' /\ OneResultPerJob'
  BY DEF SpentInv, OneResultPerJob
<1>4. InFlightHasResult'
  BY DEF InFlightHasResult, OneResultPerJob
<1>5. AgentJobsJustified'
  BY DEF AgentJobsJustified, WorkInv
<1> QED BY <1>1, <1>2, <1>3, <1>4, <1>5

\* A claim is made of a job without a result, under a fresh token.
LEMMA ClaimKeeps ==
  ASSUME IInv, NEW j \in Jobs, Claim(j)
  PROVE  IInv'
<1> USE DEF Claim, Claimable
<1>1. TypeOK'
  OBVIOUS
<1>2. TokenInv' /\ WorkInv'
  BY DEF WorkInv
<1>3. SpentInv' /\ OneResultPerJob'
  BY DEF SpentInv, OneResultPerJob
<1>4. InFlightHasResult'
  BY DEF InFlightHasResult, OneResultPerJob
<1>5. AgentJobsJustified'
  BY DEF AgentJobsJustified, WorkInv
<1> QED BY <1>1, <1>2, <1>3, <1>4, <1>5

\* A lease that lapses changes no status.
LEMMA LeaseLapsesKeeps ==
  ASSUME IInv, NEW j \in Jobs, LeaseLapses(j)
  PROVE  IInv'
<1> USE DEF LeaseLapses
<1>1. TypeOK'
  OBVIOUS
<1>2. TokenInv' /\ WorkInv'
  BY DEF WorkInv
<1>3. SpentInv' /\ OneResultPerJob'
  BY DEF SpentInv, OneResultPerJob
<1>4. InFlightHasResult'
  BY DEF InFlightHasResult, OneResultPerJob
<1>5. AgentJobsJustified'
  BY DEF AgentJobsJustified, WorkInv
<1> QED BY <1>1, <1>2, <1>3, <1>4, <1>5

\* A crawl that succeeds changes no job and no row.
LEMMA CrawlSucceedsKeeps ==
  ASSUME IInv, NEW t \in Tokens, CrawlSucceeds(t)
  PROVE  IInv'
<1> USE DEF CrawlSucceeds
<1>1. TypeOK'
  OBVIOUS
<1>2. TokenInv' /\ WorkInv'
  BY DEF WorkInv
<1>3. SpentInv' /\ OneResultPerJob'
  BY DEF SpentInv, OneResultPerJob
<1>4. InFlightHasResult'
  BY DEF InFlightHasResult, OneResultPerJob
<1>5. AgentJobsJustified'
  BY DEF AgentJobsJustified, WorkInv
<1> QED BY <1>1, <1>2, <1>3, <1>4, <1>5

\* A request on its way has changed nothing yet.
LEMMA SubmitKeeps ==
  ASSUME IInv, NEW t \in Tokens, Submit(t)
  PROVE  IInv'
<1> USE DEF Submit
<1>1. TypeOK'
  OBVIOUS
<1>2. TokenInv' /\ WorkInv'
  BY DEF WorkInv
<1>3. SpentInv' /\ OneResultPerJob'
  BY DEF SpentInv, OneResultPerJob
<1>4. InFlightHasResult'
  BY DEF InFlightHasResult, OneResultPerJob
<1>5. AgentJobsJustified'
  BY DEF AgentJobsJustified, WorkInv
<1> QED BY <1>1, <1>2, <1>3, <1>4, <1>5

\* A dispatcher settles a legacy job; it puts one back only under a live claim.
LEMMA LegacySettlesKeeps ==
  ASSUME IInv, NEW t \in Tokens, NEW st \in {"dispatched", "pending", "failed"},
         LegacySettles(t, st)
  PROVE  IInv'
<1> USE DEF LegacySettles
<1>1. TypeOK'
  OBVIOUS
<1>2. TokenInv' /\ WorkInv'
  BY DEF WorkInv
<1>3. SpentInv' /\ OneResultPerJob'
  BY DEF SpentInv, OneResultPerJob
<1>4. InFlightHasResult'
  BY DEF InFlightHasResult, OneResultPerJob
<1>5. AgentJobsJustified'
  BY DEF AgentJobsJustified, WorkInv
<1> QED BY <1>1, <1>2, <1>3, <1>4, <1>5

\* A shadow is no result.
LEMMA AcceptShadowKeeps ==
  ASSUME IInv, NEW t \in Tokens, AcceptShadow(t)
  PROVE  IInv'
<1> USE DEF AcceptShadow, Deliver
<1>1. TypeOK'
  OBVIOUS
<1>2. TokenInv' /\ WorkInv'
  BY DEF WorkInv
<1>3. SpentInv' /\ OneResultPerJob'
  BY DEF SpentInv, OneResultPerJob
<1>4. InFlightHasResult'
  BY DEF InFlightHasResult, OneResultPerJob
<1>5. AgentJobsJustified'
  BY DEF AgentJobsJustified, WorkInv
<1> QED BY <1>1, <1>2, <1>3, <1>4, <1>5

\* A result is accepted of a pending job, which has none yet.
LEMMA AcceptPrimaryKeeps ==
  ASSUME IInv, NEW t \in Tokens, AcceptPrimary(t)
  PROVE  IInv'
<1> USE DEF AcceptPrimary, Deliver
<1>1. TypeOK'
  OBVIOUS
<1>2. TokenInv' /\ WorkInv'
  BY DEF WorkInv
<1>3. SpentInv' /\ OneResultPerJob'
  BY DEF SpentInv, OneResultPerJob
<1>4. InFlightHasResult'
  BY DEF InFlightHasResult, OneResultPerJob
<1>5. AgentJobsJustified'
  BY DEF AgentJobsJustified, WorkInv
<1> QED BY <1>1, <1>2, <1>3, <1>4, <1>5

\* A row reclaimed is unsettled still.
LEMMA ReclaimKeeps ==
  ASSUME IInv, NEW p \in Processors, Reclaim(p)
  PROVE  IInv'
<1> USE DEF Reclaim, Count
<1>1. TypeOK'
  OBVIOUS
<1>2. TokenInv' /\ WorkInv'
  BY DEF WorkInv
<1>3. SpentInv' /\ OneResultPerJob'
  BY DEF SpentInv, OneResultPerJob
<1>4. InFlightHasResult'
  BY DEF InFlightHasResult, OneResultPerJob
<1>5. AgentJobsJustified'
  BY DEF AgentJobsJustified, WorkInv
<1> QED BY <1>1, <1>2, <1>3, <1>4, <1>5

\* A row taken is unsettled still.
LEMMA TakeKeeps ==
  ASSUME IInv, NEW p \in Processors, NEW t \in Tokens, Take(p, t)
  PROVE  IInv'
<1> USE DEF Take, Drainable
<1>1. TypeOK'
  OBVIOUS
<1>2. TokenInv' /\ WorkInv'
  BY DEF WorkInv
<1>3. SpentInv' /\ OneResultPerJob'
  BY DEF SpentInv, OneResultPerJob
<1>4. InFlightHasResult'
  BY DEF InFlightHasResult, OneResultPerJob
<1>5. AgentJobsJustified'
  BY DEF AgentJobsJustified, WorkInv
<1> QED BY <1>1, <1>2, <1>3, <1>4, <1>5

\* An empty inbox sends the processor back to its pause.
LEMMA TakeNothingKeeps ==
  ASSUME IInv, NEW p \in Processors, TakeNothing(p)
  PROVE  IInv'
<1> USE DEF TakeNothing
<1>1. TypeOK'
  OBVIOUS
<1>2. TokenInv' /\ WorkInv'
  BY DEF WorkInv
<1>3. SpentInv' /\ OneResultPerJob'
  BY DEF SpentInv, OneResultPerJob
<1>4. InFlightHasResult'
  BY DEF InFlightHasResult, OneResultPerJob
<1>5. AgentJobsJustified'
  BY DEF AgentJobsJustified, WorkInv
<1> QED BY <1>1, <1>2, <1>3, <1>4, <1>5

\* A lease of a row that lapses changes no status.
LEMMA ProcessorLeaseLapsesKeeps ==
  ASSUME IInv, NEW t \in Tokens, ProcessorLeaseLapses(t)
  PROVE  IInv'
<1> USE DEF ProcessorLeaseLapses
<1>1. TypeOK'
  OBVIOUS
<1>2. TokenInv' /\ WorkInv'
  BY DEF WorkInv
<1>3. SpentInv' /\ OneResultPerJob'
  BY DEF SpentInv, OneResultPerJob
<1>4. InFlightHasResult'
  BY DEF InFlightHasResult, OneResultPerJob
<1>5. AgentJobsJustified'
  BY DEF AgentJobsJustified, WorkInv
<1> QED BY <1>1, <1>2, <1>3, <1>4, <1>5

\* A primary result is ingested before its row is marked.
LEMMA ApplyKeeps ==
  ASSUME IInv, NEW p \in Processors, Apply(p)
  PROVE  IInv'
<1> USE DEF Apply
<1>0. /\ work[p] \in Tokens /\ jobOf[work[p]] \in Jobs
      /\ status[work[p]] # "none" /\ mode[work[p]] # "none"
  BY AtRow
<1>1. TypeOK'
  <2>1. ingested' \in {ingested, ingested \cup {work[p]}}
    BY Zenon DEF Apply
  <2>2. ingested' \subseteq Tokens
    BY Zenon, <1>0, <2>1, GrownSubset DEF IInv, TypeOK
  <2>3. stage' \in [Processors -> {"idle", "claiming", "applying", "applied",
                                  "rejecting", "retrying"}]
    OBVIOUS
  <2>4. QED BY <2>2, <2>3
<1>2. TokenInv' /\ WorkInv'
  BY <1>0 DEF WorkInv
<1>3. SpentInv' /\ OneResultPerJob'
  BY <1>0 DEF SpentInv, OneResultPerJob
<1>4. InFlightHasResult'
  BY <1>0 DEF InFlightHasResult, OneResultPerJob
<1>5. AgentJobsJustified'
  BY <1>0 DEF AgentJobsJustified, WorkInv
<1> QED BY <1>1, <1>2, <1>3, <1>4, <1>5

\* A failure changes no row until it is marked.
LEMMA ApplyFailsKeeps ==
  ASSUME IInv, NEW p \in Processors, NEW permanent \in BOOLEAN, ApplyFails(p, permanent)
  PROVE  IInv'
<1> USE DEF ApplyFails
<1>1. TypeOK'
  OBVIOUS
<1>2. TokenInv' /\ WorkInv'
  BY DEF WorkInv
<1>3. SpentInv' /\ OneResultPerJob'
  BY DEF SpentInv, OneResultPerJob
<1>4. InFlightHasResult'
  BY DEF InFlightHasResult, OneResultPerJob
<1>5. AgentJobsJustified'
  BY DEF AgentJobsJustified, WorkInv
<1> QED BY <1>1, <1>2, <1>3, <1>4, <1>5

\* The only result of a job is applied, and the job leaves with it.
LEMMA MarkAppliedKeeps ==
  ASSUME IInv, NEW p \in Processors, MarkApplied(p)
  PROVE  IInv'
<1> USE DEF MarkApplied, ReleaseJob, EndRow, Owns
<1>0. /\ work[p] \in Tokens /\ jobOf[work[p]] \in Jobs
      /\ status[work[p]] # "none" /\ mode[work[p]] # "none"
  BY AtRow
<1>1. TypeOK'
  BY <1>0
<1>2. TokenInv' /\ WorkInv'
  BY <1>0 DEF WorkInv
<1>3. SpentInv' /\ OneResultPerJob'
  BY <1>0 DEF SpentInv, OneResultPerJob
<1>4. InFlightHasResult'
  BY <1>0 DEF InFlightHasResult, OneResultPerJob
<1>5. AgentJobsJustified'
  <2> DEFINE t == work[p]
  <2>1. mode[t] = "primary" /\ t \in ingested /\ status'[t] = "applied"
    <3>1. mode[t] = "primary" /\ stage[p] = "applied"
      OBVIOUS
    <3>2. t \in ingested
      BY <3>1 DEF WorkInv
    <3>3. status'[t] = "applied"
      BY <1>0
    <3>4. QED BY <3>1, <3>2, <3>3
  <2>2. \A u \in Tokens : status[u] \in Settled => status'[u] = status[u]
    BY <1>0
  <2>3. UNCHANGED <<mode, jobOf, ingested>>
    OBVIOUS
  <2>4. ASSUME NEW j \in AgentJobs, jobStatus'[j] = "dispatched"
        PROVE  \E u \in Results(j)' : status'[u] = "applied" /\ u \in ingested'
    <3>1. CASE j = jobOf[t]
      BY <1>0, <2>1, <2>3, <3>1
    <3>2. CASE j # jobOf[t]
      <4>1. jobStatus[j] = "dispatched"
        BY <2>4, <3>2
      <4>2. PICK u \in Results(j) : status[u] = "applied" /\ u \in ingested
        BY <4>1 DEF AgentJobsJustified
      <4>3. QED BY <2>2, <2>3, <4>2
    <3>3. QED BY <3>1, <3>2
  <2>5. ASSUME NEW j \in AgentJobs, jobStatus'[j] = "failed"
        PROVE  \E u \in Tokens : jobOf'[u] = j /\ status'[u] = "rejected"
    <3>1. jobStatus[j] = "failed"
      BY <1>0, <2>5
    <3>2. PICK u \in Tokens : jobOf[u] = j /\ status[u] = "rejected"
      BY <3>1 DEF AgentJobsJustified
    <3>3. QED BY <2>2, <2>3, <3>2
  <2>6. QED BY <2>4, <2>5 DEF AgentJobsJustified
<1> QED BY <1>1, <1>2, <1>3, <1>4, <1>5

\* A shadow that was compared releases no job.
LEMMA MarkComparedKeeps ==
  ASSUME IInv, NEW p \in Processors, MarkCompared(p)
  PROVE  IInv'
<1> USE DEF MarkCompared, EndRow, Owns
<1>0. /\ work[p] \in Tokens /\ jobOf[work[p]] \in Jobs
      /\ status[work[p]] # "none" /\ mode[work[p]] # "none"
  BY AtRow
<1>1. TypeOK'
  BY <1>0
<1>2. TokenInv' /\ WorkInv'
  BY <1>0 DEF WorkInv
<1>3. SpentInv' /\ OneResultPerJob'
  BY <1>0 DEF SpentInv, OneResultPerJob
<1>4. InFlightHasResult'
  BY <1>0 DEF InFlightHasResult, OneResultPerJob
<1>5. AgentJobsJustified'
  BY <1>0 DEF AgentJobsJustified, WorkInv
<1> QED BY <1>1, <1>2, <1>3, <1>4, <1>5

\* A job in flight fails with the row that was rejected.
LEMMA MarkRejectedKeeps ==
  ASSUME IInv, NEW p \in Processors, MarkRejected(p)
  PROVE  IInv'
<1> USE DEF MarkRejected, ReleaseJob, EndRow, Owns
<1>0. /\ work[p] \in Tokens /\ jobOf[work[p]] \in Jobs
      /\ status[work[p]] # "none" /\ mode[work[p]] # "none"
  BY AtRow
<1>1. TypeOK'
  BY <1>0
<1>2. TokenInv' /\ WorkInv'
  BY <1>0 DEF WorkInv
<1>3. SpentInv' /\ OneResultPerJob'
  BY <1>0 DEF SpentInv, OneResultPerJob
<1>4. InFlightHasResult'
  BY <1>0 DEF InFlightHasResult, OneResultPerJob
<1>5. AgentJobsJustified'
  BY <1>0 DEF AgentJobsJustified, WorkInv
<1> QED BY <1>1, <1>2, <1>3, <1>4, <1>5

\* A row to be retried is unsettled still.
LEMMA MarkRetryKeeps ==
  ASSUME IInv, NEW p \in Processors, MarkRetry(p)
  PROVE  IInv'
<1> USE DEF MarkRetry, EndRow, Owns, Count
<1>0. /\ work[p] \in Tokens /\ jobOf[work[p]] \in Jobs
      /\ status[work[p]] # "none" /\ mode[work[p]] # "none"
  BY AtRow
<1>1. TypeOK'
  BY SMTT(60), <1>0
<1>2. TokenInv' /\ WorkInv'
  BY <1>0 DEF WorkInv
<1>3. SpentInv' /\ OneResultPerJob'
  BY <1>0 DEF SpentInv, OneResultPerJob
<1>4. InFlightHasResult'
  BY <1>0 DEF InFlightHasResult, OneResultPerJob
<1>5. AgentJobsJustified'
  BY <1>0 DEF AgentJobsJustified, WorkInv
<1> QED BY <1>1, <1>2, <1>3, <1>4, <1>5

\* A mark refused changes no row and no job.
LEMMA MarkRefusedKeeps ==
  ASSUME IInv, NEW p \in Processors, MarkRefused(p)
  PROVE  IInv'
<1> USE DEF MarkRefused, Abandon
<1>1. TypeOK'
  OBVIOUS
<1>2. TokenInv' /\ WorkInv'
  BY DEF WorkInv
<1>3. SpentInv' /\ OneResultPerJob'
  BY DEF SpentInv, OneResultPerJob
<1>4. InFlightHasResult'
  BY DEF InFlightHasResult, OneResultPerJob
<1>5. AgentJobsJustified'
  BY DEF AgentJobsJustified, WorkInv
<1> QED BY <1>1, <1>2, <1>3, <1>4, <1>5

\* A processor that is killed leaves its row as it is.
LEMMA KilledKeeps ==
  ASSUME IInv, NEW p \in Processors, Killed(p)
  PROVE  IInv'
<1> USE DEF Killed, Abandon
<1>1. TypeOK'
  OBVIOUS
<1>2. TokenInv' /\ WorkInv'
  BY DEF WorkInv
<1>3. SpentInv' /\ OneResultPerJob'
  BY DEF SpentInv, OneResultPerJob
<1>4. InFlightHasResult'
  BY DEF InFlightHasResult, OneResultPerJob
<1>5. AgentJobsJustified'
  BY DEF AgentJobsJustified, WorkInv
<1> QED BY <1>1, <1>2, <1>3, <1>4, <1>5

\* The end of the trouble changes nothing else.
LEMMA CalmKeeps ==
  ASSUME IInv, Calm
  PROVE  IInv'
<1> USE DEF Calm
<1>1. TypeOK'
  OBVIOUS
<1>2. TokenInv' /\ WorkInv'
  BY DEF WorkInv
<1>3. SpentInv' /\ OneResultPerJob'
  BY DEF SpentInv, OneResultPerJob
<1>4. InFlightHasResult'
  BY DEF InFlightHasResult, OneResultPerJob
<1>5. AgentJobsJustified'
  BY DEF AgentJobsJustified, WorkInv
<1> QED BY <1>1, <1>2, <1>3, <1>4, <1>5

-----------------------------------------------------------------------------
(* The theorems *)

HIDE InboxAssumption
HIDE DEF IInv, TypeOK, TokenInv, Jobs, Tokens, NoToken, Unsettled, Settled, Results,
         HoldsClaim, jobVars, rowVars, procVars

\* An inbox without rows satisfies the invariant.
LEMMA InitIInv == Init => IInv
BY InboxAssumption DEF Init, IInv, TypeOK, TokenInv, Jobs, Tokens, NoToken,
  Unsettled, Settled, Results, WorkInv, SpentInv, OneResultPerJob, InFlightHasResult,
  AgentJobsJustified

\* A step that changes nothing keeps the invariant.
LEMMA StutterKeeps ==
  ASSUME IInv, UNCHANGED vars
  PROVE  IInv'
BY DEF vars, jobVars, rowVars, procVars, IInv, TypeOK, TokenInv, Unsettled,
  Results, HoldsClaim, WorkInv, SpentInv, OneResultPerJob, InFlightHasResult, AgentJobsJustified

\* The invariant holds in every reachable state.
LEMMA Inductive == Spec => []IInv
<1>1. IInv /\ [Next]_vars => IInv'
  <2> SUFFICES ASSUME IInv, [Next]_vars PROVE IInv'
    OBVIOUS
  <2>1. ASSUME NEW m \in Modes, Configure(m) PROVE IInv'
    BY <2>1, ConfigureKeeps
  <2>2. ASSUME NEW j \in Jobs, Claim(j) \/ LeaseLapses(j) PROVE IInv'
    BY <2>2, ClaimKeeps, LeaseLapsesKeeps
  <2>3. ASSUME NEW t \in Tokens,
               CrawlSucceeds(t) \/ Submit(t) \/ Accept(t) \/ ProcessorLeaseLapses(t)
        PROVE  IInv'
    BY <2>3, CrawlSucceedsKeeps, SubmitKeeps, AcceptShadowKeeps, AcceptPrimaryKeeps,
      ProcessorLeaseLapsesKeeps DEF Accept
  <2>4. ASSUME NEW t \in Tokens, NEW st \in {"dispatched", "pending", "failed"},
               LegacySettles(t, st)
        PROVE  IInv'
    BY <2>4, LegacySettlesKeeps
  <2>5. ASSUME NEW p \in Processors, Process(p) PROVE IInv'
    <3>1. CASE Mark(p)
      BY <3>1, MarkAppliedKeeps, MarkComparedKeeps, MarkRejectedKeeps, MarkRetryKeeps,
        MarkRefusedKeeps DEF Mark
    <3>2. CASE ~Mark(p)
      BY <2>5, <3>2, ReclaimKeeps, TakeNothingKeeps, TakeKeeps, ApplyKeeps,
        ApplyFailsKeeps DEF Process
    <3>3. QED BY <3>1, <3>2
  <2>6. ASSUME NEW p \in Processors, Killed(p) PROVE IInv'
    BY <2>6, KilledKeeps
  <2>7. CASE Calm
    BY <2>7, CalmKeeps
  <2>8. CASE UNCHANGED vars
    BY <2>8, StutterKeeps
  <2>9. QED BY <2>1, <2>2, <2>3, <2>4, <2>5, <2>6, <2>7, <2>8 DEF Next
<1>2. QED BY InitIInv, <1>1, PTL DEF Spec

\* Every column and local variable keeps its type, for any number of jobs, claims
\* and processors.
THEOREM TypeCorrect == Spec => []TypeOK
<1>1. IInv => TypeOK
  BY DEF IInv
<1>2. QED BY Inductive, <1>1, PTL

\* A job yields at most one result, however often it was claimed, its result sent,
\* and the protocol switched.
THEOREM ResultsUnique == Spec => []OneResultPerJob
<1>1. IInv => OneResultPerJob
  BY DEF IInv
<1>2. QED BY Inductive, <1>1, PTL

\* A job waits in result_received only as long as a result is there to release it.
THEOREM InFlightJustified == Spec => []InFlightHasResult
<1>1. IInv => InFlightHasResult
  BY DEF IInv
<1>2. QED BY Inductive, <1>1, PTL

\* An agent's job is dispatched only with all of its result ingested, and fails
\* only with a rejected row.
THEOREM VerdictsJustified == Spec => []AgentJobsJustified
<1>1. IInv => AgentJobsJustified
  BY DEF IInv
<1>2. QED BY Inductive, <1>1, PTL

\* No step changes the status of a settled row.
LEMMA StepSparesSettled ==
  ASSUME IInv, Next, NEW t \in Tokens, status[t] \in Settled
  PROVE  status'[t] = status[t]
<1>1. ASSUME NEW p \in Processors, NEW st \in Unsettled \cup Settled,
             Owns(p), EndRow(p, st)
      PROVE  status'[t] = status[t]
  BY <1>1 DEF Owns, EndRow, IInv, TypeOK, Settled
<1>2. ASSUME NEW p \in Processors, Mark(p)
      PROVE  status'[t] = status[t]
  BY <1>1, <1>2 DEF Mark, MarkApplied, MarkCompared, MarkRejected, MarkRetry,
    MarkRefused, Abandon, rowVars, Unsettled, Settled
<1>3. ASSUME NEW p \in Processors, Process(p) \/ Killed(p)
      PROVE  status'[t] = status[t]
  <2>1. CASE Reclaim(p)
    BY <2>1 DEF Reclaim, Settled
  <2>2. ASSUME NEW u \in Tokens, Take(p, u)
        PROVE  status'[t] = status[t]
    BY <2>2 DEF Take, Drainable, IInv, TypeOK, Settled
  <2>3. CASE TakeNothing(p) \/ Apply(p) \/ Killed(p)
    BY <2>3 DEF TakeNothing, Apply, Killed, Abandon, rowVars
  <2>4. ASSUME NEW permanent \in BOOLEAN, ApplyFails(p, permanent)
        PROVE  status'[t] = status[t]
    BY <2>4 DEF ApplyFails, rowVars
  <2>5. CASE Mark(p)
    BY <1>2, <2>5
  <2>6. QED BY <1>3, <2>1, <2>2, <2>3, <2>4, <2>5 DEF Process
<1>4. ASSUME NEW u \in Tokens, Accept(u)
      PROVE  status'[t] = status[t]
  BY <1>4 DEF Accept, AcceptShadow, AcceptPrimary, Deliver, IInv, TypeOK, Settled
<1>5. ASSUME NEW m \in Modes, Configure(m)
      PROVE  status'[t] = status[t]
  BY <1>5 DEF Configure, rowVars
<1>6. ASSUME NEW j \in Jobs, Claim(j) \/ LeaseLapses(j)
      PROVE  status'[t] = status[t]
  BY <1>6 DEF Claim, LeaseLapses, rowVars
<1>7. ASSUME NEW u \in Tokens, CrawlSucceeds(u) \/ Submit(u) \/ ProcessorLeaseLapses(u)
      PROVE  status'[t] = status[t]
  BY <1>7 DEF CrawlSucceeds, Submit, ProcessorLeaseLapses, rowVars
<1>8. ASSUME NEW u \in Tokens, NEW st \in {"dispatched", "pending", "failed"},
             LegacySettles(u, st)
      PROVE  status'[t] = status[t]
  BY <1>8 DEF LegacySettles, rowVars
<1>9. CASE Calm
  BY <1>9 DEF Calm, rowVars
<1>10. QED BY <1>3, <1>4, <1>5, <1>6, <1>7, <1>8, <1>9 DEF Next

\* A verdict about a result is final: a processor that was replaced, or comes back
\* after its lease, cannot change it.
THEOREM VerdictsStay == Spec => SettledStays
<1>1. IInv /\ [Next]_vars =>
        [\A t \in Tokens : status[t] \in Settled => status'[t] = status[t]]_vars
  BY StepSparesSettled DEF vars, rowVars
<1>2. QED BY Inductive, <1>1, PTL DEF Spec, SettledStays

=============================================================================
