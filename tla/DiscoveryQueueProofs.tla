------------------------ MODULE DiscoveryQueueProofs ------------------------
(***************************************************************************)
(* Safety of DiscoveryQueue for every number of jobs, executors and claims *)
(* and every lease length.                                                 *)
(***************************************************************************)
EXTENDS DiscoveryQueue, TLAPS

-----------------------------------------------------------------------------
(* The inductive invariant *)

\* Tokens are issued in order, each for one job, and held by one executor.
TokenInv ==
  /\ \A t \in Tokens : t > issued => jobOf[t] = NoJob /\ runStatus[t] = "none"
  /\ \A t \in Tokens : t <= issued => jobOf[t] \in Jobs
  /\ \A e \in Executors : tok[e] <= issued
  /\ \A e, f \in Executors : tok[e] = tok[f] /\ tok[e] # NoToken => e = f

\* A row's token was issued for that row, which is still pending.
ClaimInv ==
  \A j \in Jobs : claimToken[j] # NoToken =>
    /\ claimToken[j] <= issued
    /\ jobOf[claimToken[j]] = j
    /\ jobStatus[j] = "pending"

\* An executor holds a token exactly while it works on a job; only then does it
\* have a keeper; its run is missing before it reserves one, and has completed
\* when it is about to report success.
WorkInv ==
  \A e \in Executors :
    /\ pc[e] \in {"idle", "reconciling"} <=> tok[e] = NoToken
    /\ tok[e] = NoToken => keeper[e] = "off"
    /\ pc[e] = "settling" => keeper[e] = "off"
    /\ pc[e] = "claimed" => runStatus[tok[e]] = "none"
    /\ outcome[e] = "ok" => tok[e] # NoToken /\ runStatus[tok[e]] = "succeeded"

\* A believed lease is the row's lease and ends no later than it, unless the job
\* was dispatched under the believer's feet.
BeliefInv ==
  \A e \in Executors : Believes(e) =>
    \/ claimToken[Job(e)] = tok[e] /\ deadline[e] <= lease[Job(e)]
    \/ jobStatus[Job(e)] = "dispatched"

\* A run a reconciliation pass has condemned has lost its claim for good.
DoomedInv ==
  \A e \in Executors : \A t \in doomed[e] : t <= issued /\ ~HoldsClaim(t)

IInv ==
  /\ TypeOK
  /\ TokenInv /\ ClaimInv /\ WorkInv
  /\ BeliefInv /\ ExclusiveBelief
  /\ DoomedInv
  /\ OneActiveRun /\ DispatchedMeansCompleted

-----------------------------------------------------------------------------
(* Every step keeps the invariant: one lemma per action.  What all of them *)
(* need is in use throughout: the invariant's parts and state predicates.  *)

USE DiscoveryAssumption
USE DEF IInv, TypeOK, TokenInv, ClaimInv, WorkInv,
        JobStatuses, RunStatuses, Stages, Outcomes, Failures,
        NoToken, Tokens, ActiveRun, RunsOf, NoActiveRun, CompletedRun,
        HoldsClaim, Job, jobVars, runVars, execVars

\* An executor at work holds an issued token, and its job is a row of the queue.
LEMMA Working ==
  ASSUME IInv, NEW e \in Executors, pc[e] \notin {"idle", "reconciling"}
  PROVE  /\ tok[e] \in Tokens /\ tok[e] <= issued
         /\ Job(e) \in Jobs
<1>1. tok[e] # 0
  OBVIOUS
<1>2. tok[e] \in Tokens /\ tok[e] <= issued
  BY <1>1
<1> QED BY <1>2

-----------------------------------------------------------------------------
(* The queue and the clock *)

\* A new job has no claim and no run.
LEMMA EnqueueKeeps ==
  ASSUME IInv, NEW j \in Jobs, Enqueue(j)
  PROVE  IInv'
<1> USE DEF Enqueue
<1>1. TypeOK'
  OBVIOUS
<1>2. TokenInv' /\ ClaimInv' /\ WorkInv' /\ DoomedInv'
  BY DEF DoomedInv
<1>3. BeliefInv' /\ ExclusiveBelief'
  BY DEF BeliefInv, ExclusiveBelief, Believes
<1>4. OneActiveRun' /\ DispatchedMeansCompleted'
  BY DEF OneActiveRun, DispatchedMeansCompleted
<1> QED BY <1>1, <1>2, <1>3, <1>4

\* A job that becomes due keeps its claim and its runs.
LEMMA BecomeDueKeeps ==
  ASSUME IInv, NEW j \in Jobs, BecomeDue(j)
  PROVE  IInv'
<1> USE DEF BecomeDue
<1>1. TypeOK'
  OBVIOUS
<1>2. TokenInv' /\ ClaimInv' /\ WorkInv' /\ DoomedInv'
  BY DEF DoomedInv
<1>3. BeliefInv' /\ ExclusiveBelief'
  BY DEF BeliefInv, ExclusiveBelief, Believes
<1>4. OneActiveRun' /\ DispatchedMeansCompleted'
  BY DEF OneActiveRun, DispatchedMeansCompleted
<1> QED BY <1>1, <1>2, <1>3, <1>4

\* A belief runs out with the lease it rests on, or before it.
LEMMA TickKeeps ==
  ASSUME IInv, Tick
  PROVE  IInv'
<1> USE DEF Tick
<1>1. TypeOK'
  OBVIOUS
<1>2. TokenInv' /\ ClaimInv' /\ WorkInv' /\ DoomedInv'
  BY DEF DoomedInv
<1>3. BeliefInv' /\ ExclusiveBelief'
  BY SMTT(60) DEF BeliefInv, ExclusiveBelief, Believes
<1>4. OneActiveRun' /\ DispatchedMeansCompleted'
  BY DEF OneActiveRun, DispatchedMeansCompleted
<1> QED BY <1>1, <1>2, <1>3, <1>4

-----------------------------------------------------------------------------
(* The dispatcher *)

\* A fresh token supersedes a dead claim, and nobody else believes in it.
LEMMA ClaimKeeps ==
  ASSUME IInv, NEW e \in Executors, NEW j \in Jobs, Claim(e, j)
  PROVE  IInv'
<1> USE DEF Claim, Claimable
<1>1. TypeOK'
  OBVIOUS
<1>2. TokenInv' /\ ClaimInv' /\ WorkInv' /\ DoomedInv'
  <2>1. TokenInv'
    OBVIOUS
  <2>2. ClaimInv'
    BY SMTT(60)
  <2>3. WorkInv'
    OBVIOUS
  <2>4. DoomedInv'
    BY DEF DoomedInv
  <2> QED BY <2>1, <2>2, <2>3, <2>4
<1>3. ASSUME NEW f \in Executors, Believes(f), Job(f) = j
      PROVE  FALSE
  <2>1. keeper[f] = "owned" /\ deadline[f] > 0 /\ tok[f] # 0
    BY <1>3 DEF Believes
  <2>2. claimToken[j] = tok[f] /\ lease[j] > 0
    BY SMTT(60), <1>3, <2>1 DEF BeliefInv
  <2> QED BY <2>1, <2>2
<1>4. ASSUME NEW f \in Executors, f # e, Believes(f)'
      PROVE  Believes(f) /\ Job(f)' = Job(f) /\ Job(f) # j
  <2>1. Believes(f)
    BY <1>4 DEF Believes
  <2>2. tok[f] # 0
    BY <2>1 DEF Believes
  <2>3. tok[f] \in Tokens /\ tok[f] <= issued
    BY <2>2
  <2>4. Job(f)' = Job(f)
    BY <1>4, <2>3
  <2> QED BY <1>3, <2>1, <2>4
<1>5. Job(e)' = j /\ tok'[e] = issued + 1 /\ deadline'[e] = lease'[j]
      /\ claimToken'[j] = issued + 1
  OBVIOUS
<1>6. BeliefInv'
  <2> SUFFICES ASSUME NEW f \in Executors, Believes(f)'
               PROVE  \/ /\ claimToken'[Job(f)'] = tok'[f]
                         /\ deadline'[f] <= lease'[Job(f)']
                      \/ jobStatus'[Job(f)'] = "dispatched"
    BY DEF BeliefInv
  <2>1. CASE f = e
    BY <1>5, <2>1
  <2>2. CASE f # e
    <3>1. Believes(f) /\ Job(f)' = Job(f) /\ Job(f) # j
      BY <1>4, <2>2
    <3>2. tok[f] # 0 /\ tok[f] \in Tokens /\ Job(f) \in Jobs
      BY <3>1 DEF Believes
    <3> QED BY <2>2, <3>1, <3>2 DEF BeliefInv
  <2> QED BY <2>1, <2>2
<1>7. ExclusiveBelief'
  <2> SUFFICES ASSUME NEW f \in Executors, NEW g \in Executors,
                      Believes(f)', Believes(g)', Job(f)' = Job(g)'
               PROVE  f = g
    BY DEF ExclusiveBelief
  <2>1. CASE f # e /\ g # e
    <3>1. Believes(f) /\ Believes(g) /\ Job(f) = Job(g)
      BY <1>4, <2>1
    <3> QED BY <3>1 DEF ExclusiveBelief
  <2>2. CASE f = e \/ g = e
    BY <1>4, <1>5, <2>2
  <2> QED BY <2>1, <2>2
<1>8. OneActiveRun' /\ DispatchedMeansCompleted'
  BY DEF OneActiveRun, DispatchedMeansCompleted
<1> QED BY <1>1, <1>2, <1>3, <1>4, <1>5, <1>6, <1>7, <1>8

\* A failed preparation has no run yet, and stops the keeper.
LEMMA PrepareFailsKeeps ==
  ASSUME IInv, NEW e \in Executors, NEW o \in Failures, PrepareFails(e, o)
  PROVE  IInv'
<1> USE DEF PrepareFails
<1>1. TypeOK'
  OBVIOUS
<1>2. TokenInv' /\ ClaimInv' /\ WorkInv' /\ DoomedInv'
  BY SMTT(60) DEF DoomedInv
<1>3. BeliefInv' /\ ExclusiveBelief'
  BY DEF BeliefInv, ExclusiveBelief, Believes
<1>4. OneActiveRun' /\ DispatchedMeansCompleted'
  BY DEF OneActiveRun, DispatchedMeansCompleted
<1> QED BY <1>1, <1>2, <1>3, <1>4

\* A run is reserved only while the job has no other active one.
LEMMA ReserveRunKeeps ==
  ASSUME IInv, NEW e \in Executors, ReserveRun(e)
  PROVE  IInv'
<1>0. tok[e] \in Tokens /\ tok[e] <= issued /\ Job(e) \in Jobs
  BY Working DEF ReserveRun, IInv, TypeOK
<1> USE DEF ReserveRun, Reservable
<1>1. TypeOK'
  BY <1>0
<1>2. TokenInv' /\ ClaimInv'
  BY <1>0
<1>3. WorkInv'
  BY SMTT(60), <1>0
<1>4. DoomedInv'
  BY <1>0 DEF DoomedInv
<1>5. BeliefInv' /\ ExclusiveBelief'
  BY <1>0 DEF BeliefInv, ExclusiveBelief, Believes
<1>6. OneActiveRun' /\ DispatchedMeansCompleted'
  BY SMTT(60), <1>0 DEF OneActiveRun, DispatchedMeansCompleted
<1> QED BY <1>1, <1>2, <1>3, <1>4, <1>5, <1>6

\* A reservation refused reserves nothing.
LEMMA ReserveStaleKeeps ==
  ASSUME IInv, NEW e \in Executors, ReserveStale(e)
  PROVE  IInv'
<1> USE DEF ReserveStale
<1>1. TypeOK'
  OBVIOUS
<1>2. TokenInv' /\ ClaimInv' /\ WorkInv' /\ DoomedInv'
  BY DEF DoomedInv
<1>3. BeliefInv' /\ ExclusiveBelief'
  BY DEF BeliefInv, ExclusiveBelief, Believes
<1>4. OneActiveRun' /\ DispatchedMeansCompleted'
  BY DEF OneActiveRun, DispatchedMeansCompleted
<1> QED BY <1>1, <1>2, <1>3, <1>4

\* A worker is started for the run that was reserved.
LEMMA SpawnKeeps ==
  ASSUME IInv, NEW e \in Executors, Spawn(e)
  PROVE  IInv'
<1>0. tok[e] \in Tokens /\ tok[e] <= issued /\ Job(e) \in Jobs
  BY Working DEF Spawn, IInv, TypeOK
<1> USE DEF Spawn
<1>1. TypeOK'
  BY <1>0
<1>2. TokenInv' /\ ClaimInv' /\ WorkInv' /\ DoomedInv'
  BY SMTT(60), <1>0 DEF DoomedInv
<1>3. BeliefInv' /\ ExclusiveBelief'
  BY <1>0 DEF BeliefInv, ExclusiveBelief, Believes
<1>4. OneActiveRun' /\ DispatchedMeansCompleted'
  BY <1>0 DEF OneActiveRun, DispatchedMeansCompleted
<1> QED BY <1>1, <1>2, <1>3, <1>4

\* No worker, no completion: the run stays active.
LEMMA SpawnFailsKeeps ==
  ASSUME IInv, NEW e \in Executors, SpawnFails(e)
  PROVE  IInv'
<1> USE DEF SpawnFails
<1>1. TypeOK'
  OBVIOUS
<1>2. TokenInv' /\ ClaimInv' /\ WorkInv' /\ DoomedInv'
  BY DEF DoomedInv
<1>3. BeliefInv' /\ ExclusiveBelief'
  BY DEF BeliefInv, ExclusiveBelief, Believes
<1>4. OneActiveRun' /\ DispatchedMeansCompleted'
  BY DEF OneActiveRun, DispatchedMeansCompleted
<1> QED BY <1>1, <1>2, <1>3, <1>4

\* Success is reported only of a run that has completed.
LEMMA ObserveSuccessKeeps ==
  ASSUME IInv, NEW e \in Executors, ObserveSuccess(e)
  PROVE  IInv'
<1>0. tok[e] \in Tokens /\ tok[e] <= issued /\ Job(e) \in Jobs
  BY Working DEF ObserveSuccess, IInv, TypeOK
<1> USE DEF ObserveSuccess
<1>1. TypeOK'
  BY <1>0
<1>2. TokenInv' /\ ClaimInv' /\ WorkInv' /\ DoomedInv'
  BY SMTT(60), <1>0 DEF DoomedInv
<1>3. BeliefInv' /\ ExclusiveBelief'
  BY <1>0 DEF BeliefInv, ExclusiveBelief, Believes
<1>4. OneActiveRun' /\ DispatchedMeansCompleted'
  BY <1>0 DEF OneActiveRun, DispatchedMeansCompleted
<1> QED BY <1>1, <1>2, <1>3, <1>4

\* A failure that is observed ends no run.
LEMMA ObserveFailureKeeps ==
  ASSUME IInv, NEW e \in Executors, NEW o \in Failures, ObserveFailure(e, o)
  PROVE  IInv'
<1>0. tok[e] \in Tokens /\ tok[e] <= issued /\ Job(e) \in Jobs
  BY Working DEF ObserveFailure, IInv, TypeOK
<1> USE DEF ObserveFailure
<1>1. TypeOK'
  BY <1>0
<1>2. TokenInv' /\ ClaimInv' /\ WorkInv' /\ DoomedInv'
  BY SMTT(60), <1>0 DEF DoomedInv
<1>3. BeliefInv' /\ ExclusiveBelief'
  BY <1>0 DEF BeliefInv, ExclusiveBelief, Believes
<1>4. OneActiveRun' /\ DispatchedMeansCompleted'
  BY <1>0 DEF OneActiveRun, DispatchedMeansCompleted
<1> QED BY <1>1, <1>2, <1>3, <1>4

\* A worker that cannot be reaped leaves the run to the reconciler.
LEMMA ReapFailsKeeps ==
  ASSUME IInv, NEW e \in Executors, ReapFails(e)
  PROVE  IInv'
<1> USE DEF ReapFails
<1>1. TypeOK'
  OBVIOUS
<1>2. TokenInv' /\ ClaimInv' /\ WorkInv' /\ DoomedInv'
  BY DEF DoomedInv
<1>3. BeliefInv' /\ ExclusiveBelief'
  BY DEF BeliefInv, ExclusiveBelief, Believes
<1>4. OneActiveRun' /\ DispatchedMeansCompleted'
  BY DEF OneActiveRun, DispatchedMeansCompleted
<1> QED BY <1>1, <1>2, <1>3, <1>4

\* The abnormal completion fails an active run, and spares a completed one.
LEMMA CompleteAbnormalKeeps ==
  ASSUME IInv, NEW e \in Executors, CompleteAbnormal(e)
  PROVE  IInv'
<1>0. tok[e] \in Tokens /\ tok[e] <= issued /\ Job(e) \in Jobs
  BY Working DEF CompleteAbnormal, IInv, TypeOK
<1> USE DEF CompleteAbnormal
<1>1. TypeOK'
  BY SMTT(60), <1>0
<1>2. TokenInv' /\ ClaimInv'
  BY <1>0
<1>3. WorkInv'
  BY SMTT(60), <1>0
<1>4. DoomedInv'
  BY <1>0 DEF DoomedInv
<1>5. BeliefInv' /\ ExclusiveBelief'
  BY <1>0 DEF BeliefInv, ExclusiveBelief, Believes
<1>6. OneActiveRun' /\ DispatchedMeansCompleted'
  BY <1>0 DEF OneActiveRun, DispatchedMeansCompleted
<1> QED BY <1>1, <1>2, <1>3, <1>4, <1>5, <1>6

\* A completion that cannot be confirmed changes no run.
LEMMA CompleteUnconfirmedKeeps ==
  ASSUME IInv, NEW e \in Executors, CompleteUnconfirmed(e)
  PROVE  IInv'
<1> USE DEF CompleteUnconfirmed
<1>1. TypeOK'
  OBVIOUS
<1>2. TokenInv' /\ ClaimInv' /\ WorkInv' /\ DoomedInv'
  BY DEF DoomedInv
<1>3. BeliefInv' /\ ExclusiveBelief'
  BY DEF BeliefInv, ExclusiveBelief, Believes
<1>4. OneActiveRun' /\ DispatchedMeansCompleted'
  BY DEF OneActiveRun, DispatchedMeansCompleted
<1> QED BY <1>1, <1>2, <1>3, <1>4

\* A superseded executor lets go of its token.
LEMMA LeaveStaleKeeps ==
  ASSUME IInv, NEW e \in Executors, LeaveStale(e)
  PROVE  IInv'
<1>0. tok[e] \in Tokens /\ tok[e] <= issued /\ Job(e) \in Jobs
  BY Working DEF LeaveStale, IInv, TypeOK
<1> USE DEF LeaveStale, Release
<1>1. TypeOK'
  <2>1. Release(e) /\ UNCHANGED <<jobVars, issued, jobOf, runVars, doomed>>
    BY DEF LeaveStale
  <2> HIDE DEF LeaveStale
  <2> QED BY <2>1
<1>2. TokenInv' /\ ClaimInv'
  BY SMTT(60), <1>0
<1>3. WorkInv'
  BY <1>0
<1>4. DoomedInv'
  BY <1>0 DEF DoomedInv
<1>5. BeliefInv'
  BY <1>0 DEF BeliefInv, Believes
<1>6. ExclusiveBelief'
  BY <1>0 DEF BeliefInv, ExclusiveBelief, Believes
<1>7. OneActiveRun' /\ DispatchedMeansCompleted'
  BY <1>0 DEF OneActiveRun, DispatchedMeansCompleted
<1> QED BY <1>1, <1>2, <1>3, <1>4, <1>5, <1>6, <1>7

\* An executor that still owns its claim goes on to settle it.
LEMMA LeaveOwnedKeeps ==
  ASSUME IInv, NEW e \in Executors, LeaveOwned(e)
  PROVE  IInv'
<1>0. tok[e] \in Tokens /\ tok[e] <= issued /\ Job(e) \in Jobs
  BY Working DEF LeaveOwned, IInv, TypeOK
<1> USE DEF LeaveOwned
<1>1. TypeOK'
  BY SMTT(60), <1>0
<1>2. TokenInv' /\ ClaimInv' /\ WorkInv' /\ DoomedInv'
  BY SMTT(60), <1>0 DEF DoomedInv
<1>3. BeliefInv' /\ ExclusiveBelief'
  BY SMTT(60), <1>0 DEF BeliefInv, ExclusiveBelief, Believes
<1>4. OneActiveRun' /\ DispatchedMeansCompleted'
  BY <1>0 DEF OneActiveRun, DispatchedMeansCompleted
<1> QED BY <1>1, <1>2, <1>3, <1>4

\* A settled job loses its token; it is dispatched only if its run completed.
LEMMA RecordAttemptKeeps ==
  ASSUME IInv, NEW e \in Executors, RecordAttempt(e)
  PROVE  IInv'
<1>0. tok[e] \in Tokens /\ tok[e] <= issued /\ Job(e) \in Jobs
  BY Working DEF RecordAttempt, IInv, TypeOK
<1> USE DEF RecordAttempt, Release, WriteAttempt, Disposition
<1>1. TypeOK'
  <2>1. Disposition(outcome[e], attempts[Job(e)]) \in JobStatuses
    BY <1>0
  <2> HIDE DEF Disposition
  <2> QED BY SMTT(60), <1>0, <2>1
<1>2. TokenInv' /\ ClaimInv' /\ WorkInv' /\ DoomedInv'
  BY <1>0 DEF DoomedInv
<1>3. BeliefInv'
  BY <1>0 DEF BeliefInv, Believes
<1>4. ExclusiveBelief'
  BY <1>0 DEF BeliefInv, ExclusiveBelief, Believes
<1>5. OneActiveRun'
  BY DEF OneActiveRun
<1>6. DispatchedMeansCompleted'
  <2> SUFFICES ASSUME NEW j \in Jobs, jobStatus'[j] = "dispatched"
               PROVE  CompletedRun(j)'
    BY DEF DispatchedMeansCompleted
  <2>1. CASE j = Job(e)
    <3>1. outcome[e] = "ok"
      BY <1>0, <2>1
    <3> QED BY <1>0, <2>1, <3>1
  <2>2. CASE j # Job(e)
    BY <1>0, <2>2 DEF DispatchedMeansCompleted
  <2> QED BY <2>1, <2>2
<1> QED BY <1>1, <1>2, <1>3, <1>4, <1>5, <1>6

\* A settlement refused changes nothing but the executor.
LEMMA RecordRefusedKeeps ==
  ASSUME IInv, NEW e \in Executors, RecordRefused(e)
  PROVE  IInv'
<1>0. tok[e] \in Tokens /\ tok[e] <= issued /\ Job(e) \in Jobs
  BY Working DEF RecordRefused, IInv, TypeOK
<1> USE DEF RecordRefused, Release
<1>1. TypeOK'
  BY SMTT(60), <1>0
<1>2. TokenInv' /\ ClaimInv' /\ WorkInv' /\ DoomedInv'
  BY SMTT(60), <1>0 DEF DoomedInv
<1>3. BeliefInv'
  BY <1>0 DEF BeliefInv, Believes
<1>4. ExclusiveBelief'
  BY <1>0 DEF BeliefInv, ExclusiveBelief, Believes
<1>5. OneActiveRun' /\ DispatchedMeansCompleted'
  BY <1>0 DEF OneActiveRun, DispatchedMeansCompleted
<1> QED BY <1>1, <1>2, <1>3, <1>4, <1>5

\* The recovery compares no token: beliefs in the job survive its dispatch.
LEMMA RecoverCompletedKeeps ==
  ASSUME IInv, NEW e \in Executors, RecoverCompleted(e)
  PROVE  IInv'
<1>0. tok[e] \in Tokens /\ tok[e] <= issued /\ Job(e) \in Jobs
  BY Working DEF RecoverCompleted, IInv, TypeOK
<1> USE DEF RecoverCompleted, Release, WriteAttempt
<1>1. TypeOK'
  BY SMTT(60), <1>0
<1>2. TokenInv' /\ ClaimInv' /\ WorkInv' /\ DoomedInv'
  BY SMTT(60), <1>0 DEF DoomedInv
<1>3. BeliefInv'
  BY SMTT(60), <1>0 DEF BeliefInv, Believes
<1>4. ExclusiveBelief'
  BY <1>0 DEF BeliefInv, ExclusiveBelief, Believes
<1>5. OneActiveRun' /\ DispatchedMeansCompleted'
  BY <1>0 DEF OneActiveRun, DispatchedMeansCompleted
<1> QED BY <1>1, <1>2, <1>3, <1>4, <1>5

-----------------------------------------------------------------------------
(* The lease keeper's thread *)

\* A renewal extends the lease of the token that asks, and of no other.
LEMMA RenewKeeps ==
  ASSUME IInv, NEW e \in Executors, NEW a \in BOOLEAN, Renew(e, a)
  PROVE  IInv'
<1>a. pc[e] \notin {"idle", "reconciling"}
  BY DEF Renew, IInv, WorkInv
<1>0. tok[e] \in Tokens /\ tok[e] <= issued /\ Job(e) \in Jobs
  BY <1>a, Working
<1> USE DEF Renew, Renewable
<1>1. TypeOK'
  <2>1. lease' \in [Jobs -> 0 .. LeaseTicks]
    BY <1>0
  <2>2. deadline' \in [Executors -> 0 .. LeaseTicks]
    BY <1>0
  <2> QED BY <2>1, <2>2
<1>2. TokenInv' /\ ClaimInv' /\ WorkInv' /\ DoomedInv'
  BY <1>0 DEF DoomedInv
<1>3. BeliefInv'
  BY SMTT(60), <1>0 DEF BeliefInv, Believes
<1>4. ExclusiveBelief'
  <2>1. ASSUME NEW f \in Executors, Believes(f), Job(f) = Job(e)
        PROVE  f = e
    <3>1. claimToken[Job(f)] = tok[f]
      BY <1>0, <2>1 DEF BeliefInv
    <3>2. claimToken[Job(e)] = tok[e] /\ tok[e] # 0
      BY <1>0
    <3>3. tok[f] = tok[e]
      BY <2>1, <3>1, <3>2
    <3>4. TokenInv
      OBVIOUS
    <3> QED BY ONLY <3>2, <3>3, <3>4 DEF TokenInv, NoToken
  <2>2. ASSUME NEW f \in Executors, f # e, Believes(f)'
        PROVE  Believes(f)
    BY <2>2 DEF Believes
  <2> SUFFICES ASSUME NEW f \in Executors, NEW g \in Executors,
                      Believes(f)', Believes(g)', Job(f)' = Job(g)'
               PROVE  f = g
    BY DEF ExclusiveBelief
  <2>3. Job(f) = Job(g) /\ (f # e => Believes(f)) /\ (g # e => Believes(g))
    BY <2>2
  <2>4. CASE f # e /\ g # e
    BY <2>3, <2>4 DEF ExclusiveBelief
  <2>5. CASE f = e \/ g = e
    BY <2>1, <2>3, <2>5
  <2> QED BY <2>4, <2>5
<1>5. OneActiveRun' /\ DispatchedMeansCompleted'
  BY <1>0 DEF OneActiveRun, DispatchedMeansCompleted
<1> QED BY <1>1, <1>2, <1>3, <1>4, <1>5

\* A keeper that gives up believes nothing any more.
LEMMA LoseLeaseKeeps ==
  ASSUME IInv, NEW e \in Executors, LoseLease(e)
  PROVE  IInv'
<1> USE DEF LoseLease
<1>1. TypeOK'
  OBVIOUS
<1>2. TokenInv' /\ ClaimInv' /\ WorkInv' /\ DoomedInv'
  BY DEF DoomedInv
<1>3. BeliefInv' /\ ExclusiveBelief'
  BY DEF BeliefInv, ExclusiveBelief, Believes
<1>4. OneActiveRun' /\ DispatchedMeansCompleted'
  BY DEF OneActiveRun, DispatchedMeansCompleted
<1> QED BY <1>1, <1>2, <1>3, <1>4

-----------------------------------------------------------------------------
(* The worker process *)

\* A worker starts an active run.
LEMMA WorkerStartKeeps ==
  ASSUME IInv, NEW t \in Tokens, WorkerStart(t)
  PROVE  IInv'
<1> USE DEF WorkerStart
<1>1. TypeOK'
  OBVIOUS
<1>2. TokenInv' /\ ClaimInv' /\ WorkInv' /\ DoomedInv'
  BY DEF DoomedInv
<1>3. BeliefInv' /\ ExclusiveBelief'
  BY DEF BeliefInv, ExclusiveBelief, Believes
<1>4. OneActiveRun' /\ DispatchedMeansCompleted'
  BY DEF OneActiveRun, DispatchedMeansCompleted
<1> QED BY <1>1, <1>2, <1>3, <1>4

\* A worker ends its own run, once.
LEMMA WorkerFinishKeeps ==
  ASSUME IInv, NEW t \in Tokens, NEW s \in {"succeeded", "failed"},
        WorkerFinish(t, s)
  PROVE  IInv'
<1> USE DEF WorkerFinish
<1>1. TypeOK'
  OBVIOUS
<1>2. TokenInv' /\ ClaimInv' /\ WorkInv' /\ DoomedInv'
  BY DEF DoomedInv
<1>3. BeliefInv' /\ ExclusiveBelief'
  BY DEF BeliefInv, ExclusiveBelief, Believes
<1>4. OneActiveRun' /\ DispatchedMeansCompleted'
  BY DEF OneActiveRun, DispatchedMeansCompleted
<1> QED BY <1>1, <1>2, <1>3, <1>4

\* A worker that dies leaves its run active.
LEMMA WorkerDiesKeeps ==
  ASSUME IInv, NEW t \in Tokens, WorkerDies(t)
  PROVE  IInv'
<1> USE DEF WorkerDies
<1>1. TypeOK'
  OBVIOUS
<1>2. TokenInv' /\ ClaimInv' /\ WorkInv' /\ DoomedInv'
  BY DEF DoomedInv
<1>3. BeliefInv' /\ ExclusiveBelief'
  BY DEF BeliefInv, ExclusiveBelief, Believes
<1>4. OneActiveRun' /\ DispatchedMeansCompleted'
  BY DEF OneActiveRun, DispatchedMeansCompleted
<1> QED BY <1>1, <1>2, <1>3, <1>4

-----------------------------------------------------------------------------
(* Crashes and reconciliation *)

\* A crashed executor holds nothing; its rows stay as they were.
LEMMA CrashKeeps ==
  ASSUME IInv, NEW e \in Executors, Crash(e)
  PROVE  IInv'
<1> USE DEF Crash, Release
<1>1. TypeOK'
  OBVIOUS
<1>2. TokenInv' /\ ClaimInv' /\ WorkInv' /\ DoomedInv'
  BY DEF DoomedInv
<1>3. BeliefInv'
  BY DEF BeliefInv, Believes
<1>4. ExclusiveBelief'
  BY DEF BeliefInv, ExclusiveBelief, Believes
<1>5. OneActiveRun' /\ DispatchedMeansCompleted'
  BY DEF OneActiveRun, DispatchedMeansCompleted
<1> QED BY <1>1, <1>2, <1>3, <1>4, <1>5

\* What a pass selects has no live claim, and no token it holds can revive.
LEMMA ReconcileReadKeeps ==
  ASSUME IInv, NEW e \in Executors, NEW i \in SUBSET Tokens, ReconcileRead(e, i)
  PROVE  IInv'
<1> USE DEF ReconcileRead, WorkerMissing, ClaimLive
<1>1. TypeOK'
  OBVIOUS
<1>2. TokenInv' /\ ClaimInv' /\ WorkInv' /\ DoomedInv'
  BY DEF DoomedInv
<1>3. BeliefInv' /\ ExclusiveBelief'
  BY DEF BeliefInv, ExclusiveBelief, Believes
<1>4. OneActiveRun' /\ DispatchedMeansCompleted'
  BY DEF OneActiveRun, DispatchedMeansCompleted
<1> QED BY <1>1, <1>2, <1>3, <1>4

\* What a pass fails has no live claim still.
LEMMA ReconcileWriteKeeps ==
  ASSUME IInv, NEW e \in Executors, ReconcileWrite(e)
  PROVE  IInv'
<1> USE DEF ReconcileWrite
<1>1. TypeOK'
  OBVIOUS
<1>2. TokenInv' /\ ClaimInv' /\ WorkInv' /\ DoomedInv'
  BY SMTT(60) DEF DoomedInv
<1>3. BeliefInv' /\ ExclusiveBelief'
  BY DEF BeliefInv, ExclusiveBelief, Believes
<1>4. OneActiveRun'
  BY DEF OneActiveRun
<1>5. DispatchedMeansCompleted'
  <2>1. ASSUME NEW t \in Tokens, runStatus[t] = "succeeded"
        PROVE  runStatus'[t] = "succeeded"
    BY <2>1
  <2>2. ASSUME NEW j \in Jobs, CompletedRun(j)
        PROVE  CompletedRun(j)'
    BY <2>1, <2>2
  <2>3. jobStatus' = jobStatus
    OBVIOUS
  <2> HIDE DEF CompletedRun, ReconcileWrite
  <2> QED BY <2>2, <2>3 DEF DispatchedMeansCompleted
<1> QED BY <1>1, <1>2, <1>3, <1>4, <1>5

-----------------------------------------------------------------------------
(* The theorems *)

\* An empty queue satisfies the invariant.
LEMMA InitIInv == Init => IInv
BY DEF Init, BeliefInv, Believes, ExclusiveBelief, DoomedInv, OneActiveRun,
       DispatchedMeansCompleted

\* A step that changes nothing keeps the invariant.
LEMMA StutterKeeps ==
  ASSUME IInv, UNCHANGED vars
  PROVE  IInv'
<1> USE DEF vars
<1>1. TypeOK' /\ TokenInv' /\ ClaimInv' /\ WorkInv' /\ DoomedInv'
  BY DEF DoomedInv
<1>2. BeliefInv' /\ ExclusiveBelief'
  BY DEF BeliefInv, ExclusiveBelief, Believes
<1>3. OneActiveRun' /\ DispatchedMeansCompleted'
  BY DEF OneActiveRun, DispatchedMeansCompleted
<1> QED BY <1>1, <1>2, <1>3

HIDE DiscoveryAssumption
HIDE DEF IInv, TypeOK, TokenInv, ClaimInv, WorkInv,
         JobStatuses, RunStatuses, Stages, Outcomes, Failures,
         NoToken, Tokens, ActiveRun, RunsOf, NoActiveRun, CompletedRun,
         HoldsClaim, Job, jobVars, runVars, execVars

\* Every step keeps the invariant.
LEMMA StepKeeps == IInv /\ [Next]_vars => IInv'
<1> SUFFICES ASSUME IInv, [Next]_vars
             PROVE  IInv'
  OBVIOUS
<1>1. CASE Tick
  BY <1>1, TickKeeps
<1>2. ASSUME NEW j \in Jobs, Enqueue(j) \/ BecomeDue(j)
      PROVE  IInv'
  BY <1>2, EnqueueKeeps, BecomeDueKeeps
<1>3. ASSUME NEW e \in Executors, NEW j \in Jobs, Claim(e, j)
      PROVE  IInv'
  BY <1>3, ClaimKeeps
<1>4. ASSUME NEW e \in Executors, Dispatch(e)
      PROVE  IInv'
  <2>1. CASE ReserveRun(e) \/ ReserveStale(e) \/ Spawn(e) \/ SpawnFails(e)
    BY <2>1, ReserveRunKeeps, ReserveStaleKeeps, SpawnKeeps, SpawnFailsKeeps
  <2>2. CASE \E o \in Failures : PrepareFails(e, o) \/ ObserveFailure(e, o)
    BY <2>2, PrepareFailsKeeps, ObserveFailureKeeps
  <2>3. CASE ObserveSuccess(e) \/ ReapFails(e)
    BY <2>3, ObserveSuccessKeeps, ReapFailsKeeps
  <2>4. CASE CompleteAbnormal(e) \/ CompleteUnconfirmed(e)
    BY <2>4, CompleteAbnormalKeeps, CompleteUnconfirmedKeeps
  <2>5. CASE LeaveStale(e) \/ LeaveOwned(e)
    BY <2>5, LeaveStaleKeeps, LeaveOwnedKeeps
  <2>6. CASE Settle(e)
    BY <2>6, RecordAttemptKeeps, RecordRefusedKeeps,
          RecoverCompletedKeeps DEF Settle
  <2> QED BY <1>4, <2>1, <2>2, <2>3, <2>4, <2>5, <2>6 DEF Dispatch
<1>5. ASSUME NEW e \in Executors, Keep(e)
      PROVE  IInv'
  BY <1>5, RenewKeeps, LoseLeaseKeeps DEF Keep
<1>6. ASSUME NEW e \in Executors, Reconcile(e)
      PROVE  IInv'
  <2>1. CASE ReconcileWrite(e)
    BY <2>1, ReconcileWriteKeeps
  <2>2. ASSUME NEW inactive \in SUBSET {t \in Tokens : ActiveRun(t)},
               ReconcileRead(e, inactive)
        PROVE  IInv'
    BY <2>2, ReconcileReadKeeps
  <2> QED BY <1>6, <2>1, <2>2 DEF Reconcile
<1>7. ASSUME NEW e \in Executors, Crash(e)
      PROVE  IInv'
  BY <1>7, CrashKeeps
<1>8. ASSUME NEW t \in Tokens, Worker(t)
      PROVE  IInv'
  BY <1>8, WorkerStartKeeps, WorkerFinishKeeps, WorkerDiesKeeps DEF Worker
<1>9. CASE UNCHANGED vars
  BY <1>9, StutterKeeps
<1> QED BY <1>1, <1>2, <1>3, <1>4, <1>5, <1>6, <1>7, <1>8, <1>9 DEF Next

\* The invariant holds in every reachable state.
THEOREM Inductive == Spec => []IInv
BY InitIInv, StepKeeps, PTL DEF Spec

\* The columns of discovery_jobs and crawl_runs and the dispatcher's local
\* variables keep their types, for every queue and every lease length.
THEOREM TypeCorrect == Spec => []TypeOK
<1>1. IInv => TypeOK
  BY DEF IInv
<1> QED BY <1>1, Inductive, PTL

\* No two dispatchers ever both believe they own one job, however many they are
\* and whatever renewals are lost, late or refused.
THEOREM LeasesExclusive == Spec => []ExclusiveBelief
<1>1. IInv => ExclusiveBelief
  BY DEF IInv
<1> QED BY <1>1, Inductive, PTL

\* create_run never reserves a second active run for a job.
THEOREM RunsExclusive == Spec => []OneActiveRun
<1>1. IInv => OneActiveRun
  BY DEF IInv
<1> QED BY <1>1, Inductive, PTL

\* A job is dispatched only with a completed run, on every path that writes the
\* disposition: the live claim's and the token-blind recovery's.
THEOREM DispatchesJustified == Spec => []DispatchedMeansCompleted
<1>1. IInv => DispatchedMeansCompleted
  BY DEF IInv
<1> QED BY <1>1, Inductive, PTL

\* A reconciliation pass decided from old rows never fails the run of a claim
\* that is live when it writes: a claim once lost is never live again.
THEOREM ReconciliationSpares == Spec => LiveClaimKeepsRun
<1>1. IInv => \A e \in Executors : ReconcileWrite(e) =>
                \A t \in doomed[e] : ActiveRun(t) => ~HoldsClaim(t)
  BY DEF IInv, DoomedInv
<1> QED BY <1>1, Inductive, PTL DEF LiveClaimKeepsRun

\* No action changes the status of a run that ended.
LEMMA EndedRunStays ==
  ASSUME IInv, [Next]_vars, NEW t \in Tokens,
         runStatus[t] \in {"succeeded", "failed"}
  PROVE  runStatus'[t] = runStatus[t]
<1> USE DEF IInv, TypeOK, ActiveRun, runVars
<1>1. ASSUME NEW e \in Executors, ReserveRun(e)
      PROVE  runStatus'[t] = runStatus[t]
  <2>1. runStatus[tok[e]] = "none"
    BY <1>1 DEF ReserveRun, WorkInv
  <2> QED BY <1>1, <2>1 DEF ReserveRun
<1>2. ASSUME NEW e \in Executors, CompleteAbnormal(e)
      PROVE  runStatus'[t] = runStatus[t]
  BY <1>2 DEF CompleteAbnormal
<1>3. ASSUME NEW e \in Executors, ReconcileWrite(e)
      PROVE  runStatus'[t] = runStatus[t]
  BY <1>3 DEF ReconcileWrite
<1>4. ASSUME NEW u \in Tokens, Worker(u)
      PROVE  runStatus'[t] = runStatus[t]
  BY <1>4 DEF Worker, WorkerStart, WorkerFinish, WorkerDies
<1>5. ASSUME NEW e \in Executors, Dispatch(e), ~ReserveRun(e),
      ~CompleteAbnormal(e)
      PROVE  runStatus' = runStatus
  BY <1>5 DEF Dispatch, Settle, ReserveStale, Spawn, SpawnFails, PrepareFails,
              ObserveSuccess, ObserveFailure, ReapFails, CompleteUnconfirmed,
              LeaveStale, LeaveOwned, RecordAttempt, RecordRefused,
              RecoverCompleted
<1>6. ASSUME NEW e \in Executors,
             Keep(e) \/ Crash(e) \/ (\E j \in Jobs : Claim(e, j))
      PROVE  runStatus' = runStatus
  BY <1>6 DEF Keep, Renew, LoseLease, Crash, Claim
<1>7. ASSUME NEW e \in Executors, Reconcile(e), ~ReconcileWrite(e)
      PROVE  runStatus' = runStatus
  BY <1>7 DEF Reconcile, ReconcileRead
<1>8. ASSUME Tick \/ (\E j \in Jobs : Enqueue(j) \/ BecomeDue(j))
             \/ UNCHANGED vars
      PROVE  runStatus' = runStatus
  BY <1>8 DEF Tick, Enqueue, BecomeDue, vars
<1> HIDE DEF IInv, TypeOK, ActiveRun, runVars
<1> QED BY <1>1, <1>2, <1>3, <1>4, <1>5, <1>6, <1>7, <1>8 DEF Next

\* A run that has ended keeps its status: no worker, dispatcher or reconciler
\* writes over it.
THEOREM RunsStayEnded == Spec => EndedRunsStay
<1>1. IInv /\ [Next]_vars =>
        [\A t \in Tokens : runStatus[t] \in {"succeeded", "failed"}
                           => runStatus'[t] = runStatus[t]]_vars
  BY EndedRunStays
<1> QED BY <1>1, Inductive, PTL DEF Spec, EndedRunsStay

-----------------------------------------------------------------------------
(* Stale claims *)

\* Whoever counts an attempt or moves a job on has the current claim, or a completed
\* run to show.
LEMMA StaleStep ==
  ASSUME IInv, [Next]_vars, NEW j \in Jobs,
         \/ attempts'[j] # attempts[j]
         \/ jobStatus[j] # "absent" /\ jobStatus'[j] # jobStatus[j]
  PROVE  HolderSettles(j) \/ (jobStatus'[j] = "dispatched" /\ CompletedRun(j))
<1>1. ASSUME NEW e \in Executors, RecordAttempt(e)
      PROVE  HolderSettles(j)
  <2>1. tok[e] \in Tokens /\ Job(e) \in Jobs
    BY <1>1, Working DEF RecordAttempt
  <2>2. j = Job(e)
    BY <1>1, <2>1 DEF RecordAttempt, WriteAttempt, IInv, TypeOK
  <2>3. pc'[e] = "idle"
    BY <1>1 DEF RecordAttempt, Release, IInv, TypeOK
  <2> QED BY <1>1, <2>1, <2>2, <2>3
          DEF RecordAttempt, HoldsClaim, HolderSettles, Job, Tokens, NoToken
<1>2. ASSUME NEW e \in Executors, RecoverCompleted(e)
      PROVE  jobStatus'[j] = "dispatched" /\ CompletedRun(j)
  <2>1. Job(e) \in Jobs
    BY <1>2, Working DEF RecoverCompleted
  <2>2. j = Job(e)
    BY <1>2, <2>1 DEF RecoverCompleted, WriteAttempt, IInv, TypeOK
  <2> QED BY <1>2, <2>1, <2>2 DEF RecoverCompleted, WriteAttempt, IInv, TypeOK
<1>3. ASSUME NEW i \in Jobs, Enqueue(i)
      PROVE  FALSE
  BY <1>3 DEF Enqueue, IInv, TypeOK
<1>4. ASSUME NEW e \in Executors, Dispatch(e), ~RecordAttempt(e), ~RecoverCompleted(e)
      PROVE  UNCHANGED <<attempts, jobStatus>>
  BY <1>4 DEF Dispatch, Settle, ReserveRun, ReserveStale, Spawn, SpawnFails,
              PrepareFails, ObserveSuccess, ObserveFailure, ReapFails,
              CompleteAbnormal, CompleteUnconfirmed, LeaveStale, LeaveOwned,
              RecordRefused, jobVars
<1>5. ASSUME NEW e \in Executors,
             Keep(e) \/ Crash(e) \/ Reconcile(e) \/ (\E i \in Jobs : Claim(e, i))
      PROVE  UNCHANGED <<attempts, jobStatus>>
  BY <1>5 DEF Keep, Renew, LoseLease, Crash, Claim, Reconcile, ReconcileRead,
              ReconcileWrite, jobVars
<1>6. ASSUME \/ Tick \/ (\E i \in Jobs : BecomeDue(i)) \/ UNCHANGED vars
             \/ \E t \in Tokens : Worker(t)
      PROVE  UNCHANGED <<attempts, jobStatus>>
  BY <1>6 DEF Tick, BecomeDue, vars, jobVars, Worker, WorkerStart, WorkerFinish,
              WorkerDies
<1>7. ~UNCHANGED <<attempts, jobStatus>>
  OBVIOUS
<1> QED BY <1>1, <1>2, <1>3, <1>4, <1>5, <1>6, <1>7 DEF Next

\* An executor whose claim was superseded can change a job in one way only: mark it
\* dispatched when it has a completed run.
THEOREM StaleClaimsComplete == Spec => StaleClaimOnlyCompletes
<1>1. IInv /\ [Next]_vars =>
        [\A j \in Jobs :
           \/ attempts'[j] # attempts[j]
           \/ jobStatus[j] # "absent" /\ jobStatus'[j] # jobStatus[j]
           => \/ HolderSettles(j)
              \/ jobStatus'[j] = "dispatched" /\ CompletedRun(j)]_vars
  BY StaleStep
<1> QED BY <1>1, Inductive, PTL DEF Spec, StaleClaimOnlyCompletes

-----------------------------------------------------------------------------
(* The queue implements SingleFlight *)

Flying  == {j \in Jobs : ~NoActiveRun(j)}
Crawled == {j \in Jobs : CompletedRun(j)}

\* A step of the promise, or none.
Keeps == Promise!Next \/ UNCHANGED Promise!vars

\* A token is issued for a job that is there.
Enlisted == \A t \in Tokens : t <= issued => jobStatus[jobOf[t]] # "absent"

LEMMA StepEnlists == IInv /\ Enlisted /\ [Next]_vars => Enlisted'
<1> SUFFICES ASSUME IInv, Enlisted, [Next]_vars
             PROVE  Enlisted'
  OBVIOUS
<1> USE DEF IInv, TypeOK, Enlisted, Tokens, jobVars
<1>1. ASSUME NEW e \in Executors, NEW j \in Jobs, Claim(e, j)
      PROVE  Enlisted'
  BY <1>1, DiscoveryAssumption DEF Claim, Claimable, TokenInv
<1>2. ASSUME UNCHANGED <<issued, jobOf>>,
             \A j \in Jobs : jobStatus[j] # "absent" => jobStatus'[j] # "absent"
      PROVE  Enlisted'
  BY <1>2 DEF TokenInv
<1>3. ASSUME NEW e \in Executors, RecordAttempt(e) \/ RecoverCompleted(e)
      PROVE  Enlisted'
  <2>1. Job(e) \in Jobs
    BY <1>3, Working DEF RecordAttempt, RecoverCompleted
  <2>2. \A o, n : Disposition(o, n) # "absent"
    BY DEF Disposition
  <2> QED BY <1>2, <1>3, <2>1, <2>2 DEF RecordAttempt, RecoverCompleted, WriteAttempt
<1>4. ASSUME NEW i \in Jobs, Enqueue(i)
      PROVE  Enlisted'
  BY <1>2, <1>4 DEF Enqueue
<1>5. ASSUME NEW e \in Executors, Dispatch(e), ~RecordAttempt(e), ~RecoverCompleted(e)
      PROVE  UNCHANGED <<issued, jobOf, jobStatus>>
  BY <1>5 DEF Dispatch, Settle, ReserveRun, ReserveStale, Spawn, SpawnFails,
              PrepareFails, ObserveSuccess, ObserveFailure, ReapFails,
              CompleteAbnormal, CompleteUnconfirmed, LeaveStale, LeaveOwned,
              RecordRefused
<1>6. ASSUME NEW e \in Executors, Keep(e) \/ Crash(e) \/ Reconcile(e)
      PROVE  UNCHANGED <<issued, jobOf, jobStatus>>
  BY <1>6 DEF Keep, Renew, LoseLease, Crash, Reconcile, ReconcileRead, ReconcileWrite
<1>7. ASSUME \/ Tick \/ (\E i \in Jobs : BecomeDue(i)) \/ UNCHANGED vars
             \/ \E t \in Tokens : Worker(t)
      PROVE  UNCHANGED <<issued, jobOf, jobStatus>>
  BY <1>7 DEF Tick, BecomeDue, vars, Worker, WorkerStart, WorkerFinish, WorkerDies
<1> HIDE DEF IInv, TypeOK, Enlisted, Tokens, jobVars
<1> QED BY <1>1, <1>2, <1>3, <1>4, <1>5, <1>6, <1>7 DEF Next

\* Which crawls are in flight, and which have completed, depends on the runs alone.
LEMMA RunsKept ==
  ASSUME UNCHANGED <<runStatus, jobOf>>
  PROVE  Flying' = Flying /\ Crawled' = Crawled
BY DEF Flying, Crawled, NoActiveRun, CompletedRun, RunsOf, ActiveRun

LEMMA Stutters ==
  ASSUME UNCHANGED <<jobStatus, runStatus, jobOf>>
  PROVE  Keeps
BY RunsKept DEF Keeps, Promise!vars, Flying, Crawled

\* The runs of a set fail: the crawls they were are no longer in flight.
LEMMA RunsFail ==
  ASSUME IInv, UNCHANGED <<jobStatus, jobOf>>, NEW F \in SUBSET Tokens,
         \A t \in F : ActiveRun(t) /\ runStatus'[t] = "failed",
         \A t \in Tokens \ F : runStatus'[t] = runStatus[t]
  PROVE  Keeps
<1> DEFINE S == {j \in Jobs : \E t \in F : jobOf[t] = j}
<1>1. Crawled' = Crawled
  BY DEF Crawled, CompletedRun, RunsOf, ActiveRun
<1>2. \A j \in Flying \ S : j \in Flying'
  BY DEF Flying, NoActiveRun, RunsOf, ActiveRun
<1>3. \A j \in Flying' : j \in Flying \ S
  <2> SUFFICES ASSUME NEW j \in Jobs, NEW t \in Tokens, jobOf[t] = j, ActiveRun(t)'
               PROVE  j \in Flying \ S
    BY DEF Flying, NoActiveRun, RunsOf
  <2>1. t \notin F /\ ActiveRun(t)
    BY DEF ActiveRun
  <2>2. j \notin S
    BY <2>1 DEF IInv, OneActiveRun
  <2> QED BY <2>1, <2>2 DEF Flying, NoActiveRun, RunsOf
<1>4. S \subseteq Flying
  BY DEF Flying, NoActiveRun, RunsOf
<1>5. Flying' = Flying \ S
  BY <1>2, <1>3
<1>6. CASE S = {}
  BY <1>1, <1>5, <1>6 DEF Keeps, Promise!vars, Flying, Crawled
<1>7. CASE S # {}
  <2>1. Promise!Fall(S)
    BY <1>1, <1>4, <1>5, <1>7 DEF Promise!Fall, Flying, Crawled
  <2> QED BY <1>4, <2>1 DEF Keeps, Promise!Next, Flying
<1> QED BY <1>6, <1>7

\* The crawl of a run that is reserved takes off.
LEMMA ReserveTakesOff ==
  ASSUME IInv, NEW e \in Executors, ReserveRun(e)
  PROVE  Keeps
<1> DEFINE j == Job(e)
<1>1. tok[e] \in Tokens /\ j \in Jobs /\ jobOf[tok[e]] = j
  BY Working DEF ReserveRun, Job
<1>2. runStatus' = [runStatus EXCEPT ![tok[e]] = "queued"] /\ UNCHANGED <<jobOf, jobStatus>>
      /\ jobStatus[j] = "pending" /\ NoActiveRun(j)
  BY DEF ReserveRun, Reservable, Job, jobVars
<1>3. runStatus[tok[e]] = "none" /\ runStatus \in [Tokens -> RunStatuses]
  BY DEF ReserveRun, IInv, WorkInv, TypeOK
<1> HIDE DEF j
<1>4. Flying' = Flying \cup {j}
  BY <1>1, <1>2, <1>3 DEF Flying, NoActiveRun, RunsOf, ActiveRun
<1>5. Crawled' = Crawled
  BY <1>1, <1>2, <1>3 DEF Crawled, CompletedRun, RunsOf
<1>6. Promise!TakeOff(j)
  BY <1>1, <1>2, <1>4, <1>5 DEF Promise!TakeOff, Flying, Crawled
<1> QED BY <1>1, <1>6 DEF Keeps, Promise!Next

\* A worker that finishes lands the crawl of its run, or lets it fall.
LEMMA FinishLands ==
  ASSUME IInv, NEW t \in Tokens, WorkerFinish(t, "succeeded")
  PROVE  Keeps
<1> DEFINE j == jobOf[t]
<1>1. runStatus' = [runStatus EXCEPT ![t] = "succeeded"] /\ UNCHANGED <<jobOf, jobStatus>>
      /\ ActiveRun(t) /\ runStatus \in [Tokens -> RunStatuses]
  BY DEF WorkerFinish, ActiveRun, jobVars, IInv, TypeOK
<1>2. j \in Jobs
  BY <1>1 DEF IInv, TokenInv, TypeOK, ActiveRun, Tokens
<1>3. \A u \in Tokens : ActiveRun(u) /\ jobOf[u] = j => u = t
  BY <1>1 DEF IInv, OneActiveRun
<1> HIDE DEF j
<1>4. j \in Flying /\ Flying' = Flying \ {j}
  BY <1>1, <1>2, <1>3 DEF Flying, NoActiveRun, RunsOf, ActiveRun, j
<1>5. Crawled' = Crawled \cup {j}
  BY <1>1, <1>2 DEF Crawled, CompletedRun, RunsOf, ActiveRun, j
<1>6. Promise!Land(j)
  BY <1>1, <1>4, <1>5 DEF Promise!Land, Flying, Crawled
<1> QED BY <1>2, <1>6 DEF Keeps, Promise!Next

\* A job that is settled is dispatched, given up, or pending as before.
LEMMA SettlingKeeps ==
  ASSUME IInv, Enlisted, NEW e \in Executors, RecordAttempt(e) \/ RecoverCompleted(e)
  PROVE  Keeps
<1> DEFINE j == Job(e)
           d == IF RecordAttempt(e) THEN Disposition(outcome[e], attempts[j])
                                    ELSE "dispatched"
<1>1. tok[e] \in Tokens /\ tok[e] <= issued /\ j \in Jobs /\ jobOf[tok[e]] = j
  BY Working DEF RecordAttempt, RecoverCompleted, Job
<1>2. jobStatus' = [jobStatus EXCEPT ![j] = d] /\ Flying' = Flying /\ Crawled' = Crawled
  BY RunsKept DEF RecordAttempt, RecoverCompleted, WriteAttempt, runVars
<1>3. jobStatus[j] # "absent" /\ jobStatus \in [Jobs -> JobStatuses]
  BY <1>1 DEF Enlisted, IInv, TypeOK
<1>4. d \in {"pending", "dispatched", "failed"}
  BY DEF Disposition
<1>5. d # "dispatched" => jobStatus[j] = "pending"
  BY <1>1 DEF RecordAttempt, RecoverCompleted, HoldsClaim, IInv, ClaimInv, NoToken,
              Tokens, Job
<1>6. d = "dispatched" => j \in Crawled
  BY <1>1 DEF RecordAttempt, RecoverCompleted, Disposition, IInv, WorkInv, Crawled,
              CompletedRun, RunsOf
<1> HIDE DEF j, d
<1>7. CASE jobStatus[j] = d
  BY <1>2, <1>3, <1>7 DEF Keeps, Promise!vars, Flying, Crawled
<1>8. CASE d = "failed" /\ jobStatus[j] = "pending"
  <2>1. Promise!GiveUp(j)
    BY <1>2, <1>8 DEF Promise!GiveUp, Flying, Crawled
  <2> QED BY <1>1, <2>1 DEF Keeps, Promise!Next
<1>9. CASE d = "dispatched" /\ jobStatus[j] \in {"pending", "failed"}
  <2>1. Promise!MarkDispatched(j)
    BY <1>2, <1>6, <1>9 DEF Promise!MarkDispatched, Flying, Crawled
  <2> QED BY <1>1, <2>1 DEF Keeps, Promise!Next
<1> QED BY <1>1, <1>3, <1>4, <1>5, <1>7, <1>8, <1>9 DEF JobStatuses

\* The run a claim will reserve is not there yet.
LEMMA ClaimStutters ==
  ASSUME IInv, NEW e \in Executors, NEW j \in Jobs, Claim(e, j)
  PROVE  Keeps
<1>1. issued + 1 \in Tokens /\ runStatus[issued + 1] = "none" /\ jobOf[issued + 1] = NoJob
  BY DiscoveryAssumption DEF Claim, IInv, TokenInv, TypeOK, Tokens
<1>2. UNCHANGED <<jobStatus, runStatus>> /\ jobOf' = [jobOf EXCEPT ![issued + 1] = j]
      /\ jobOf \in [Tokens -> Jobs \cup {NoJob}]
  BY DEF Claim, runVars, IInv, TypeOK
<1>3. \A t \in Tokens : runStatus[t] # "none" => jobOf'[t] = jobOf[t]
  BY <1>1, <1>2
<1>4. Flying' = Flying /\ Crawled' = Crawled
  <2>1. \A i \in Jobs, t \in Tokens :
          runStatus[t] # "none" => (t \in RunsOf(i)' <=> t \in RunsOf(i))
    BY <1>3 DEF RunsOf
  <2> QED BY <1>2, <2>1 DEF Flying, Crawled, NoActiveRun, CompletedRun, ActiveRun, RunsOf
<1> QED BY <1>2, <1>4 DEF Keeps, Promise!vars, Flying, Crawled

\* A job that is enqueued is enqueued.
LEMMA EnqueueEnqueues ==
  ASSUME NEW j \in Jobs, Enqueue(j)
  PROVE  Keeps
<1>1. Flying' = Flying /\ Crawled' = Crawled
  BY RunsKept DEF Enqueue, runVars
<1>2. Promise!Enqueue(j)
  BY <1>1 DEF Promise!Enqueue, Enqueue, Flying, Crawled
<1> QED BY <1>2 DEF Keeps, Promise!Next

LEMMA DispatchKeepsPromise ==
  ASSUME IInv, Enlisted, NEW e \in Executors, Dispatch(e)
  PROVE  Keeps
<1>1. CASE ReserveRun(e)
  BY <1>1, ReserveTakesOff
<1>2. CASE CompleteAbnormal(e)
  <2>1. tok[e] \in Tokens
    BY <1>2, Working DEF CompleteAbnormal
  <2>2. UNCHANGED <<jobStatus, jobOf>>
        /\ runStatus' = [runStatus EXCEPT ![tok[e]] = IF ActiveRun(tok[e]) THEN "failed" ELSE @]
        /\ runStatus \in [Tokens -> RunStatuses]
    BY <1>2 DEF CompleteAbnormal, jobVars, IInv, TypeOK
  <2>3. CASE ActiveRun(tok[e])
    <3> DEFINE F == {tok[e]}
    <3>1. F \in SUBSET Tokens
          /\ (\A t \in F : ActiveRun(t) /\ runStatus'[t] = "failed")
          /\ (\A t \in Tokens \ F : runStatus'[t] = runStatus[t])
      BY <2>1, <2>2, <2>3
    <3> HIDE DEF F
    <3> QED BY <2>2, <3>1, RunsFail
  <2>4. CASE ~ActiveRun(tok[e])
    BY <2>1, <2>2, <2>4, Stutters
  <2> QED BY <2>3, <2>4
<1>3. CASE RecordAttempt(e) \/ RecoverCompleted(e)
  BY <1>3, SettlingKeeps
<1>4. CASE ~ReserveRun(e) /\ ~CompleteAbnormal(e) /\ ~RecordAttempt(e) /\ ~RecoverCompleted(e)
  <2>1. UNCHANGED <<jobStatus, runStatus, jobOf>>
    BY <1>4 DEF Dispatch, Settle, ReserveStale, Spawn, SpawnFails, PrepareFails,
                ObserveSuccess, ObserveFailure, ReapFails, CompleteUnconfirmed,
                LeaveStale, LeaveOwned, RecordRefused, jobVars, runVars
  <2> QED BY <2>1, Stutters
<1> QED BY <1>1, <1>2, <1>3, <1>4

LEMMA WorkerKeepsPromise ==
  ASSUME IInv, NEW t \in Tokens, Worker(t)
  PROVE  Keeps
<1>1. CASE WorkerFinish(t, "succeeded")
  BY <1>1, FinishLands
<1>2. CASE WorkerFinish(t, "failed")
  <2> DEFINE F == {t}
  <2>1. F \in SUBSET Tokens /\ UNCHANGED <<jobStatus, jobOf>>
        /\ (\A u \in F : ActiveRun(u) /\ runStatus'[u] = "failed")
        /\ (\A u \in Tokens \ F : runStatus'[u] = runStatus[u])
    BY <1>2 DEF WorkerFinish, ActiveRun, jobVars, IInv, TypeOK
  <2> HIDE DEF F
  <2> QED BY <2>1, RunsFail
<1>3. CASE WorkerStart(t)
  <2>1. UNCHANGED <<jobStatus, jobOf>> /\ \A u \in Tokens : ActiveRun(u)' = ActiveRun(u)
        /\ (runStatus'[u] = "succeeded" <=> runStatus[u] = "succeeded")
    BY <1>3 DEF WorkerStart, ActiveRun, jobVars, IInv, TypeOK
  <2>2. Flying' = Flying /\ Crawled' = Crawled
    BY <2>1 DEF Flying, Crawled, NoActiveRun, CompletedRun, RunsOf
  <2> QED BY <2>1, <2>2 DEF Keeps, Promise!vars, Flying, Crawled
<1>4. CASE WorkerDies(t)
  BY <1>4, Stutters DEF WorkerDies, jobVars
<1> QED BY <1>1, <1>2, <1>3, <1>4 DEF Worker

LEMMA StepKeepsPromise == IInv /\ Enlisted /\ [Next]_vars => [Promise!Next]_(Promise!vars)
<1> SUFFICES ASSUME IInv, Enlisted, [Next]_vars
             PROVE  Keeps
  BY DEF Keeps
<1>1. ASSUME NEW j \in Jobs, Enqueue(j)
      PROVE  Keeps
  BY <1>1, EnqueueEnqueues
<1>2. ASSUME NEW e \in Executors, NEW j \in Jobs, Claim(e, j)
      PROVE  Keeps
  BY <1>2, ClaimStutters
<1>3. ASSUME NEW e \in Executors, Dispatch(e)
      PROVE  Keeps
  BY <1>3, DispatchKeepsPromise
<1>4. ASSUME NEW e \in Executors, ReconcileWrite(e)
      PROVE  Keeps
  <2> DEFINE F == {t \in doomed[e] : ActiveRun(t)}
  <2>1. F \in SUBSET Tokens /\ UNCHANGED <<jobStatus, jobOf>>
        /\ (\A u \in F : ActiveRun(u) /\ runStatus'[u] = "failed")
        /\ (\A u \in Tokens \ F : runStatus'[u] = runStatus[u])
    BY <1>4 DEF ReconcileWrite, jobVars, IInv, TypeOK
  <2> HIDE DEF F
  <2> QED BY <2>1, RunsFail
<1>5. ASSUME NEW t \in Tokens, Worker(t)
      PROVE  Keeps
  BY <1>5, WorkerKeepsPromise
<1>6. ASSUME NEW e \in Executors,
             Keep(e) \/ Crash(e) \/ (Reconcile(e) /\ ~ReconcileWrite(e))
      PROVE  UNCHANGED <<jobStatus, runStatus, jobOf>>
  BY <1>6 DEF Keep, Renew, LoseLease, Crash, Reconcile, ReconcileRead, jobVars, runVars
<1>7. ASSUME Tick \/ (\E i \in Jobs : BecomeDue(i)) \/ UNCHANGED vars
      PROVE  UNCHANGED <<jobStatus, runStatus, jobOf>>
  BY <1>7 DEF Tick, BecomeDue, vars, jobVars, runVars
<1> QED BY <1>1, <1>2, <1>3, <1>4, <1>5, <1>6, <1>7, Stutters DEF Next

\* The queue with its claims, leases, keepers, crashes and reconciliation implements
\* SingleFlight: whatever it does to its rows is a step of a job that has one crawl in
\* flight at most, or none that the promise sees.
THEOREM PromiseKept == Spec => KeepsPromise
<1>1. Init => Promise!Init
  BY DEF Init, Promise!Init, NoActiveRun, CompletedRun, ActiveRun, RunsOf
<1>2. Init => Enlisted
  BY DEF Init, Enlisted, Tokens
<1>3. Spec => []Enlisted
  BY <1>2, StepEnlists, Inductive, PTL DEF Spec
<1> QED BY <1>1, <1>3, StepKeepsPromise, Inductive, PTL DEF Spec, KeepsPromise, Promise!Spec

=============================================================================
