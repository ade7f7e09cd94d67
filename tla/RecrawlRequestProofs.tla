------------------------ MODULE RecrawlRequestProofs ------------------------
(* What holds of recrawl requests for any number of keywords, requests and jobs: what a
   request counts is what it is correlated with, and recrawls that overlap share their
   jobs.  Both rest on what "the newest job in flight for a keyword" is. *)
EXTENDS RecrawlRequest, FiniteSetTheorems, WellFoundedInduction, TLAPS

-----------------------------------------------------------------------------
(* The latest of a set of jobs *)

LEMMA NatMin ==
  ASSUME NEW T, T \subseteq Nat, T # {}
  PROVE  \E x \in T : \A y \in T : x <= y
<1> DEFINE R == {ss \in Nat \X Nat : ss[1] < ss[2]}
<1>1. IsWellFoundedOn(R, Nat)
  BY NatLessThanWellFounded DEF OpToRel
<1> HIDE DEF R
<1>2. \E x \in T : \A y \in T : ~(<<y, x>> \in R)
  BY <1>1, WFMin
<1>3. PICK x \in T : \A y \in T : ~(<<y, x>> \in R)
  BY <1>2
<1>4. x \in Nat /\ \A y \in T : y \in Nat
  OBVIOUS
<1>5. \A y \in T : ~(y < x)
  <2> SUFFICES ASSUME NEW y \in T, y < x PROVE FALSE
    OBVIOUS
  <2>1. <<y, x>> \in Nat \X Nat OBVIOUS
  <2>2. <<y, x>> \in R BY <2>1 DEF R
  <2> QED BY <2>2, <1>3
<1> QED BY <1>4, <1>5

LEMMA LatestFacts ==
  ASSUME NEW S \in SUBSET Jobs
  PROVE  /\ S # {} => Latest(S) \in S
         /\ S = {} => Latest(S) = 0
         /\ Latest(S) # 0 => Latest(S) \in S
<1>1. CASE S = {} BY <1>1 DEF Latest
<1>2. CASE S # {}
  <2> DEFINE T == {MaxJobs - x : x \in S}
  <2>1. MaxJobs \in Nat /\ \A x \in S : x \in Nat /\ MaxJobs - x \in Nat
    BY RecrawlAssumption DEF Jobs
  <2>2. T \subseteq Nat /\ T # {} BY <1>2, <2>1
  <2>3. PICK m \in T : \A y \in T : m <= y BY <2>2, NatMin
  <2>4. PICK x \in S : m = MaxJobs - x OBVIOUS
  <2>5. \A y \in S : MaxJobs - y \in T OBVIOUS
  <2> HIDE DEF T
  <2>6. \A y \in S : x >= y
    <3> TAKE y \in S
    <3>1. MaxJobs - x <= MaxJobs - y BY <2>3, <2>4, <2>5
    <3> QED BY <2>1, <3>1
  <2>7. Max(S) \in S BY <2>6 DEF Max
  <2> QED BY <1>2, <2>7 DEF Latest
<1> QED BY <1>1, <1>2

-----------------------------------------------------------------------------
(* Types *)

JobsOK ==
  /\ created \in 0..MaxJobs /\ manual \subseteq 1..created
  /\ keyword \in [Jobs -> Keywords \cup {None}]
  /\ state \in [Jobs -> States] /\ attempts \in [Jobs -> 0..MaxAttempts]
  /\ \A j \in Jobs : /\ (j > created) = (keyword[j] = None)
                     /\ (j > created) = (state[j] = "absent")
  /\ request \in [Jobs -> Requests \cup {None}]
  /\ requested \in [Requests -> 0..MaxJobs]
ClaimsOK ==
  /\ handed \in [Jobs -> Requests \cup {None}]
  /\ served \subseteq {j \in Jobs : state[j] = "claimed"}
  /\ \A j \in Jobs : handed[j] # None => state[j] = "claimed"
RunsOK ==
  /\ runs \in [Jobs -> Seq([request : Requests \cup {None}, status : Finished \cup {"running"}])]
  /\ troubles \in 0..MaxTroubles

LEMMA TypeParts == TypeOK <=> JobsOK /\ ClaimsOK /\ RunsOK
BY DEF TypeOK, JobsOK, ClaimsOK, RunsOK

\* A job there is not has no request; a job that may be claimed has attempts left.
FreshOK ==
  \A j \in Jobs : /\ j > created => request[j] = None
                  /\ state[j] \in {"absent", "pending", "claimed"} => attempts[j] < MaxAttempts

Typed == TypeOK /\ FreshOK

\* The jobs that are not there yet.
LEMMA AbsentFacts ==
  ASSUME Typed
  PROVE  /\ created \in Nat /\ created <= MaxJobs
         /\ \A j \in Jobs : j > created <=> state[j] = "absent"
         /\ \A j \in Jobs : j > created <=> keyword[j] = None
         /\ \A j \in Jobs : InFlight(j) => state[j] # "absent"
<1> USE TypeParts DEF Typed
<1>1. created \in Nat /\ created <= MaxJobs BY RecrawlAssumption DEF JobsOK
<1>2. \A j \in Jobs : (j > created) = (state[j] = "absent") BY DEF JobsOK
<1>3. \A j \in Jobs : (j > created) = (keyword[j] = None) BY DEF JobsOK
<1> QED BY <1>1, <1>2, <1>3 DEF InFlight

LEMMA ExistingFacts ==
  ASSUME Typed, NEW k
  PROVE  /\ Existing(k) # 0 => /\ Existing(k) \in Jobs /\ keyword[Existing(k)] = k
                               /\ InFlight(Existing(k)) /\ state[Existing(k)] # "absent"
         /\ Existing(k) = 0 => \A j \in Jobs : keyword[j] = k => ~InFlight(j)
<1> DEFINE S == {j \in Jobs : keyword[j] = k /\ InFlight(j)}
<1>1. S \in SUBSET Jobs /\ 0 \notin S BY RecrawlAssumption DEF Jobs
<1>2. Existing(k) = Latest(S) BY DEF Existing
<1> HIDE DEF S
<1>3. Existing(k) # 0 => Existing(k) \in S BY <1>1, <1>2, LatestFacts
<1>4. Existing(k) = 0 => S = {} BY <1>1, <1>2, LatestFacts
<1> QED BY <1>3, <1>4, AbsentFacts DEF S

LEMMA CoverFacts ==
  ASSUME Typed, NEW k, NEW r
  PROVE  /\ Cover(r, k) # 0 => Cover(r, k) \in Jobs /\ state[Cover(r, k)] # "absent"
         /\ Cover(r, k) = 0 => Existing(k) = 0
<1> DEFINE S == {j \in JobsOf(r) : keyword[j] = k}
<1>1. S \in SUBSET Jobs BY DEF JobsOf
<1>2. Cover(r, k) = IF Existing(k) # 0 THEN Existing(k) ELSE Latest(S) BY DEF Cover
<1>3. \A j \in S : state[j] # "absent" BY DEF JobsOf
<1> HIDE DEF S
<1>4. Latest(S) # 0 => Latest(S) \in S BY <1>1, LatestFacts
<1> QED BY <1>1, <1>2, <1>3, <1>4, ExistingFacts

-----------------------------------------------------------------------------
(* What a request attaches *)

New(missing) == (created + 1)..(created + Cardinality(missing))
Adopted(covering) == {j \in covering : Adopts(j)}

\* The transaction of a request: the jobs it covers are there, what it lacks is not in
\* flight.
Attaches(r, covering, missing) ==
  /\ Attach(r, covering, missing)
  /\ covering \subseteq {j \in Jobs : state[j] # "absent"}
  /\ missing \in SUBSET Keywords
  /\ \A k \in missing : Existing(k) = 0

LEMMA RequestsAttach ==
  ASSUME Typed, NEW K \in SUBSET Keywords, NEW r \in Requests,
         NewRequest(K, r) \/ SameRequest(K, r)
  PROVE  UNCHANGED vars \/ \E covering, missing : Attaches(r, covering, missing)
<1>1. CASE NewRequest(K, r)
  <2> DEFINE covering == {Existing(k) : k \in K} \ {0}
             missing == {k \in K : Existing(k) = 0}
  <2>1. covering \subseteq {j \in Jobs : state[j] # "absent"} BY ExistingFacts
  <2>2. Attaches(r, covering, missing) BY <1>1, <2>1 DEF NewRequest, Attaches
  <2> QED BY <2>2
<1>2. CASE SameRequest(K, r)
  <2> DEFINE covering == {Cover(r, k) : k \in K} \ {0}
             missing == {k \in K : Cover(r, k) = 0}
  <2>1. covering \subseteq {j \in Jobs : state[j] # "absent"} BY CoverFacts
  <2>2. \A k \in missing : Existing(k) = 0 BY CoverFacts
  <2>3. UNCHANGED vars \/ Attaches(r, covering, missing)
    BY <1>2, <2>1, <2>2 DEF SameRequest, Attaches
  <2> QED BY <2>3
<1> QED BY <1>1, <1>2

LEMMA AttachFacts ==
  ASSUME Typed, NEW r \in Requests, NEW covering, NEW missing, Attaches(r, covering, missing)
  PROVE  /\ New(missing) \subseteq Jobs /\ Adopted(covering) \subseteq Jobs
         /\ created' \in 0..MaxJobs /\ created <= created'
         /\ \A j \in Jobs : j \in New(missing) <=> j > created /\ j <= created'
         /\ state' = [j \in Jobs |-> IF j \in New(missing) THEN "pending" ELSE state[j]]
         /\ request' = [j \in Jobs |-> IF j \in New(missing) \cup Adopted(covering) THEN r
                                       ELSE request[j]]
         /\ requested' = [requested EXCEPT ![r] =
                            Cardinality(JobsOf(r) \cup New(missing) \cup Adopted(covering))]
         /\ manual' = manual \cup New(missing)
         /\ \E f \in Injection(New(missing), missing) :
              keyword' = [j \in Jobs |-> IF j \in New(missing) THEN f[j] ELSE keyword[j]]
         /\ UNCHANGED <<attempts, claimVars, runs, troubles>>
<1>1. IsFiniteSet(missing) /\ Cardinality(missing) \in Nat
  BY RecrawlAssumption, FS_Subset, FS_CardinalityType DEF Attaches
<1>2. created \in Nat /\ MaxJobs \in Nat BY AbsentFacts, RecrawlAssumption
<1>3. /\ created + Cardinality(missing) <= MaxJobs
      /\ created' = created + Cardinality(missing)
  BY DEF Attaches, Attach
<1>4. /\ New(missing) \subseteq Jobs /\ created' \in 0..MaxJobs /\ created <= created'
      /\ \A j \in Jobs : j \in New(missing) <=> j > created /\ j <= created'
  BY <1>1, <1>2, <1>3 DEF New, Jobs
<1>5. IsFiniteSet(New(missing)) /\ Cardinality(New(missing)) = Cardinality(missing)
  <2> DEFINE a == created + 1
             b == created + Cardinality(missing)
  <2>1. a \in Int /\ b \in Int BY <1>1, <1>2
  <2>2. (IF a > b THEN 0 ELSE b - a + 1) = Cardinality(missing) BY <1>1, <1>2
  <2>3. New(missing) = a..b BY DEF New
  <2> HIDE DEF a, b
  <2>4. IsFiniteSet(a..b) /\ Cardinality(a..b) = IF a > b THEN 0 ELSE b - a + 1
    BY <2>1, FS_Interval
  <2> QED BY <2>2, <2>3, <2>4
<1>6. PICK f \in [New(missing) -> missing] :
        /\ \A k \in missing : \E j \in New(missing) : f[j] = k
        /\ keyword' = [j \in Jobs |-> IF j \in New(missing) THEN f[j] ELSE keyword[j]]
  BY DEF Attaches, Attach, New
<1>7. f \in Surjection(New(missing), missing) BY <1>6 DEF Surjection
<1>8. f \in Injection(New(missing), missing)
  BY <1>5, <1>7, FS_SurjSameCardinalityImpliesInj
<1>9. /\ state' = [j \in Jobs |-> IF j \in New(missing) THEN "pending" ELSE state[j]]
      /\ request' = [j \in Jobs |-> IF j \in New(missing) \cup Adopted(covering) THEN r
                                    ELSE request[j]]
      /\ requested' = [requested EXCEPT ![r] =
                         Cardinality(JobsOf(r) \cup New(missing) \cup Adopted(covering))]
      /\ manual' = manual \cup New(missing)
      /\ UNCHANGED <<attempts, claimVars, runs, troubles>>
  BY DEF Attaches, Attach, New, Adopted, Recount
<1>10. Adopted(covering) \subseteq Jobs BY DEF Attaches, Adopted
<1> QED BY <1>4, <1>6, <1>8, <1>9, <1>10

-----------------------------------------------------------------------------
(* The steps preserve the types *)

\* A job that there is changes its state.
LEMMA GoesKeeps ==
  ASSUME Typed, NEW j \in Jobs, state[j] # "absent", NEW to \in States \ {"absent"}, Goes(j, to),
         UNCHANGED <<jobVars, request, requested>>,
         \/ attempts' = attempts /\ (to \in {"pending", "claimed"} => attempts[j] < MaxAttempts)
         \/ /\ attempts[j] < MaxAttempts /\ attempts' = [attempts EXCEPT ![j] = @ + 1]
            /\ to \in {"pending", "claimed"} => attempts[j] + 1 < MaxAttempts
  PROVE  JobsOK' /\ FreshOK'
<1> USE TypeParts DEF Typed
<1>1. /\ created' = created /\ keyword' = keyword /\ manual' = manual
      /\ request' = request /\ requested' = requested
  BY DEF jobVars
<1>2. state' = [state EXCEPT ![j] = to] /\ state' \in [Jobs -> States]
  BY DEF Goes, JobsOK
<1>3. \A i \in Jobs : state'[i] = "absent" <=> state[i] = "absent"
  BY <1>2 DEF JobsOK
<1>4. attempts' \in [Jobs -> 0..MaxAttempts]
  BY RecrawlAssumption DEF JobsOK
<1>5. \A i \in Jobs : /\ (i > created') = (keyword'[i] = None)
                      /\ (i > created') = (state'[i] = "absent")
  BY <1>1, <1>3 DEF JobsOK
<1>6. JobsOK' BY <1>1, <1>2, <1>4, <1>5 DEF JobsOK
<1>7. FreshOK'
  <2>1. ASSUME NEW i \in Jobs, state'[i] \in {"absent", "pending", "claimed"}
        PROVE  attempts'[i] < MaxAttempts
    <3>1. CASE i = j
      <4>1. state'[i] = to /\ attempts[j] \in Nat BY <1>2, <3>1 DEF JobsOK
      <4>2. attempts'[j] = attempts[j] \/ attempts'[j] = attempts[j] + 1 BY DEF JobsOK
      <4> QED BY <2>1, <3>1, <4>1, <4>2 DEF JobsOK
    <3>2. CASE i # j
      <4>1. state'[i] = state[i] /\ attempts'[i] = attempts[i] BY <1>2, <3>2 DEF JobsOK
      <4> QED BY <2>1, <4>1 DEF FreshOK
    <3> QED BY <3>1, <3>2
  <2> QED BY <1>1, <2>1 DEF FreshOK
<1> QED BY <1>6, <1>7

LEMMA AttachKeepsType ==
  ASSUME Typed, NEW r \in Requests, NEW covering, NEW missing, Attaches(r, covering, missing)
  PROVE  JobsOK' /\ ClaimsOK' /\ RunsOK' /\ FreshOK'
<1> USE TypeParts DEF Typed
<1>1. /\ New(missing) \subseteq Jobs /\ Adopted(covering) \subseteq Jobs
      /\ created' \in 0..MaxJobs /\ created <= created'
      /\ \A j \in Jobs : j \in New(missing) <=> j > created /\ j <= created'
      /\ state' = [j \in Jobs |-> IF j \in New(missing) THEN "pending" ELSE state[j]]
      /\ request' = [j \in Jobs |-> IF j \in New(missing) \cup Adopted(covering) THEN r
                                    ELSE request[j]]
      /\ requested' = [requested EXCEPT ![r] =
                         Cardinality(JobsOf(r) \cup New(missing) \cup Adopted(covering))]
      /\ manual' = manual \cup New(missing)
      /\ UNCHANGED <<attempts, claimVars, runs, troubles>>
  BY AttachFacts
<1>2. PICK f \in [New(missing) -> missing] :
        keyword' = [j \in Jobs |-> IF j \in New(missing) THEN f[j] ELSE keyword[j]]
  <2>1. PICK f \in Injection(New(missing), missing) :
          keyword' = [j \in Jobs |-> IF j \in New(missing) THEN f[j] ELSE keyword[j]]
    BY AttachFacts
  <2>2. f \in [New(missing) -> missing] BY DEF Injection
  <2> QED BY <2>1, <2>2
<1>3. missing \subseteq Keywords /\ None \notin Keywords BY RecrawlAssumption DEF Attaches
<1>4. created \in Nat /\ MaxJobs \in Nat /\ \A j \in Jobs : j \in Nat
  BY AbsentFacts, RecrawlAssumption DEF Jobs
<1>5. keyword' \in [Jobs -> Keywords \cup {None}] BY <1>2, <1>3 DEF JobsOK
<1>6. state' \in [Jobs -> States] BY <1>1 DEF JobsOK, States
<1>7. request' \in [Jobs -> Requests \cup {None}] BY <1>1 DEF JobsOK
<1>8. requested' \in [Requests -> 0..MaxJobs]
  <2> DEFINE S == JobsOf(r) \cup New(missing) \cup Adopted(covering)
  <2>1. S \in SUBSET (1..MaxJobs) BY <1>1 DEF JobsOf, Jobs
  <2>2. IsFiniteSet(1..MaxJobs) /\ Cardinality(1..MaxJobs) = IF 1 > MaxJobs THEN 0 ELSE MaxJobs - 1 + 1
    BY <1>4, FS_Interval
  <2> HIDE DEF S
  <2>3. IsFiniteSet(S) /\ Cardinality(S) <= Cardinality(1..MaxJobs) BY <2>1, <2>2, FS_Subset
  <2>4. Cardinality(S) \in Nat BY <2>3, FS_CardinalityType
  <2>5. Cardinality(S) \in 0..MaxJobs BY <1>4, <2>2, <2>3, <2>4
  <2>6. requested' = [requested EXCEPT ![r] = Cardinality(S)] BY <1>1 DEF S
  <2> QED BY <2>5, <2>6 DEF JobsOK
<1>9. manual' \subseteq 1..created'
  BY <1>1, <1>4 DEF JobsOK, New, Jobs
<1>10. \A j \in Jobs : j > created <=> keyword[j] = None BY AbsentFacts
<1>11. \A j \in Jobs : j > created <=> state[j] = "absent" BY AbsentFacts
<1>12. ASSUME NEW j \in Jobs
       PROVE  (j > created' <=> keyword'[j] = None) /\ (j > created' <=> state'[j] = "absent")
  <2>1. CASE j \in New(missing)
    <3>1. keyword'[j] \in missing /\ state'[j] = "pending" BY <1>1, <1>2, <2>1
    <3> QED BY <1>1, <1>3, <1>4, <2>1, <3>1
  <2>2. CASE j \notin New(missing)
    <3>1. keyword'[j] = keyword[j] /\ state'[j] = state[j] BY <1>1, <1>2, <2>2
    <3>2. j > created' <=> j > created BY <1>1, <1>4, <2>2
    <3> QED BY <1>10, <1>11, <3>1, <3>2
  <2> QED BY <2>1, <2>2
<1>13. \A j \in Jobs : /\ (j > created') = (keyword'[j] = None)
                       /\ (j > created') = (state'[j] = "absent")
  BY <1>12
<1>14. JobsOK' BY <1>1, <1>5, <1>6, <1>7, <1>8, <1>9, <1>13 DEF JobsOK
<1>15. ClaimsOK'
  <2>1. handed' = handed /\ served' = served BY <1>1 DEF claimVars
  <2>2. \A j \in Jobs : state[j] = "claimed" => state'[j] = "claimed"
    BY <1>1, <1>11
  <2> QED BY <2>1, <2>2 DEF ClaimsOK
<1>16. RunsOK' BY <1>1 DEF RunsOK
<1>17. FreshOK'
  <2> SUFFICES ASSUME NEW j \in Jobs
               PROVE  /\ j > created' => request'[j] = None
                      /\ state'[j] \in {"absent", "pending", "claimed"} => attempts'[j] < MaxAttempts
    BY DEF FreshOK
  <2>1. state'[j] \in {"absent", "pending", "claimed"} => attempts'[j] < MaxAttempts
    BY <1>1, <1>11 DEF FreshOK
  <2>2. j > created' => request'[j] = None
    <3>1. SUFFICES ASSUME j > created' PROVE request'[j] = None
      OBVIOUS
    <3>2. j > created /\ j \notin New(missing) BY <1>1, <1>4, <3>1
    <3>3. j \notin Adopted(covering) BY <1>11, <3>2 DEF Adopted, Attaches
    <3> QED BY <1>1, <3>2, <3>3 DEF FreshOK
  <2> QED BY <2>1, <2>2
<1> QED BY <1>14, <1>15, <1>16, <1>17

LEMMA EnqueueKeepsType ==
  ASSUME Typed, NEW k \in Keywords, Enqueue(k) PROVE JobsOK' /\ ClaimsOK' /\ RunsOK' /\ FreshOK'
<1> USE TypeParts DEF Typed
<1>1. created \in Nat /\ MaxJobs \in Nat /\ (\A j \in Jobs : j \in Nat) /\ k # None
  BY AbsentFacts, RecrawlAssumption DEF Jobs
<1> DEFINE n == created + 1
<1>2. n \in Jobs /\ created' = n BY <1>1 DEF Enqueue, Jobs
<1>3. keyword' = [keyword EXCEPT ![n] = k] /\ state' = [state EXCEPT ![n] = "pending"]
  BY DEF Enqueue
<1>4. UNCHANGED <<manual, attempts, request, claimVars, runs, requested, troubles>> BY DEF Enqueue
<1>5. \A j \in Jobs : (j > created <=> keyword[j] = None) /\ (j > created <=> state[j] = "absent")
  BY AbsentFacts
<1>6. ASSUME NEW j \in Jobs
      PROVE  (j > created' <=> keyword'[j] = None) /\ (j > created' <=> state'[j] = "absent")
  <2>1. CASE j = n BY <1>1, <1>2, <1>3, <2>1 DEF JobsOK
  <2>2. CASE j # n
    <3>1. keyword'[j] = keyword[j] /\ state'[j] = state[j] BY <1>3, <2>2 DEF JobsOK
    <3>2. j > created' <=> j > created BY <1>1, <1>2, <2>2
    <3> QED BY <1>5, <3>1, <3>2
  <2> QED BY <2>1, <2>2
<1>7. \A j \in Jobs : /\ (j > created') = (keyword'[j] = None)
                      /\ (j > created') = (state'[j] = "absent")
  BY <1>6
<1>8. manual' \subseteq 1..created' BY <1>1, <1>2, <1>4 DEF JobsOK
<1>9. created' \in 0..MaxJobs BY <1>1, <1>2 DEF Jobs
<1>10. JobsOK' BY <1>3, <1>4, <1>7, <1>8, <1>9 DEF JobsOK, States
<1>11. \A j \in Jobs : state[j] = "claimed" => state'[j] = "claimed"
  BY <1>1, <1>2, <1>3, <1>5 DEF JobsOK
<1>12. ClaimsOK' BY <1>4, <1>11 DEF ClaimsOK, claimVars
<1>13. RunsOK' BY <1>4 DEF RunsOK
<1>14. FreshOK'
  <2>1. \A j \in Jobs : j > created' => j > created BY <1>1, <1>2
  <2>2. \A j \in Jobs : state'[j] \in {"absent", "pending", "claimed"} =>
          state[j] \in {"absent", "pending", "claimed"}
    BY <1>1, <1>2, <1>3, <1>5 DEF JobsOK
  <2> QED BY <1>4, <2>1, <2>2 DEF FreshOK
<1> QED BY <1>10, <1>12, <1>13, <1>14

LEMMA JobKeepsType ==
  ASSUME Typed, NEW j \in Jobs, Work(j) \/ Ends(j) \/ Reclaim(j)
  PROVE  JobsOK' /\ ClaimsOK' /\ RunsOK' /\ FreshOK'
<1> USE TypeParts DEF Typed
<1>1. ASSUME UNCHANGED <<jobVars, state, attempts, request, requested>> PROVE JobsOK' /\ FreshOK'
  BY <1>1 DEF JobsOK, FreshOK, jobVars
<1>2. request[j] \in Requests \cup {None} /\ handed[j] \in Requests \cup {None}
      /\ attempts[j] \in 0..MaxAttempts
  BY DEF JobsOK, ClaimsOK
<1>3. state[j] \in {"pending", "claimed"} => attempts[j] < MaxAttempts BY DEF FreshOK
<1>4. ASSUME handed' = [handed EXCEPT ![j] = request[j]], served' = served \ {j}, state'[j] = "claimed",
             \A i \in Jobs \ {j} : state'[i] = state[i]
      PROVE  ClaimsOK'
  BY <1>2, <1>4 DEF ClaimsOK
<1>5. ASSUME Free(j), \A i \in Jobs \ {j} : state'[i] = state[i] PROVE ClaimsOK'
  BY <1>5 DEF ClaimsOK, Free
<1>6. CASE Claim(j)
  <2>1. JobsOK' /\ FreshOK' BY <1>3, <1>6, GoesKeeps DEF Claim, States
  <2>2. ClaimsOK' BY <1>4, <1>6 DEF Claim, Goes, JobsOK
  <2>3. RunsOK' BY <1>6 DEF Claim, RunsOK
  <2> QED BY <2>1, <2>2, <2>3
<1>7. CASE Reclaim(j)
  <2>1. ClaimsOK' BY <1>4, <1>7 DEF Reclaim
  <2>2. troubles' \in 0..MaxTroubles
    <3>1. troubles \in 0..MaxTroubles /\ troubles < MaxTroubles /\ troubles' = troubles + 1
      BY <1>7 DEF Reclaim, Trouble, RunsOK
    <3> QED BY <3>1, RecrawlAssumption
  <2>3. RunsOK' BY <1>7, <2>2 DEF Reclaim, RunsOK
  <2> QED BY <1>1, <1>7, <2>1, <2>3 DEF Reclaim
<1>8. CASE Reserve(j)
  <2>1. ClaimsOK' BY <1>8 DEF Reserve, ClaimsOK
  <2>2. RunsOK'
    <3> DEFINE Run == [request : Requests \cup {None}, status : Finished \cup {"running"}]
               run == [request |-> Tag(j), status |-> "running"]
    <3>1. run \in Run BY <1>2 DEF Tag
    <3>2. runs \in [Jobs -> Seq(Run)] BY DEF RunsOK
    <3>3. runs' = [runs EXCEPT ![j] = Append(runs[j], run)] BY <1>8 DEF Reserve
    <3> HIDE DEF Run, run
    <3>4. runs' \in [Jobs -> Seq(Run)] BY <3>1, <3>2, <3>3
    <3>5. troubles' = troubles BY <1>8 DEF Reserve
    <3> QED BY <3>4, <3>5 DEF RunsOK, Run
  <2> QED BY <1>1, <1>8, <2>1, <2>2 DEF Reserve
<1>9. CASE Ends(j)
  <2>1. PICK status \in Finished : RunEnds(j, status) BY <1>9 DEF Ends
  <2>2. ClaimsOK' BY <2>1 DEF RunEnds, ClaimsOK, claimVars
  <2>3. Len(runs[j]) \in DOMAIN runs[j]
    <3>1. runs[j] \in Seq([request : Requests \cup {None}, status : Finished \cup {"running"}])
      BY DEF RunsOK
    <3>2. DOMAIN runs[j] # {} BY <2>1 DEF RunEnds, Active
    <3> QED BY <3>1, <3>2
  <2>4. runs' \in [Jobs -> Seq([request : Requests \cup {None}, status : Finished \cup {"running"}])]
    <3> DEFINE Run == [request : Requests \cup {None}, status : Finished \cup {"running"}]
               last == Len(runs[j])
               ended == [runs[j] EXCEPT ![last] = [runs[j][last] EXCEPT !.status = status]]
    <3>1. runs \in [Jobs -> Seq(Run)] BY DEF RunsOK
    <3>2. runs' = [runs EXCEPT ![j] = ended] BY <2>1 DEF RunEnds
    <3>3. \A run \in Run : [run EXCEPT !.status = status] \in Run BY DEF Finished
    <3>4. ended = [runs[j] EXCEPT ![last] = [runs[j][last] EXCEPT !.status = status]] OBVIOUS
    <3> HIDE DEF Run, ended
    <3>5. runs[j] \in Seq(Run) BY <3>1
    <3>6. runs[j][last] \in Run BY <2>3, <3>5
    <3>7. ended \in Seq(Run) BY <2>3, <3>3, <3>4, <3>5, <3>6
    <3>8. runs' \in [Jobs -> Seq(Run)] BY <3>1, <3>2, <3>7
    <3> QED BY <3>8 DEF Run
  <2>5. troubles' \in 0..MaxTroubles
    BY <2>1, RecrawlAssumption DEF RunEnds, Trouble, RunsOK
  <2> QED BY <1>1, <2>1, <2>2, <2>4, <2>5 DEF RunEnds, RunsOK
<1>10. CASE Settle(j)
  <2>1. JobsOK' /\ FreshOK'
    <3>1. CASE Retry(j)
      <4>1. CASE attempts[j] + 1 < MaxAttempts
        BY <1>3, <1>10, <3>1, <4>1, GoesKeeps DEF Settle, Retry, States
      <4>2. CASE ~(attempts[j] + 1 < MaxAttempts)
        BY <1>3, <1>10, <3>1, <4>2, GoesKeeps DEF Settle, Retry, States
      <4> QED BY <4>1, <4>2
    <3>2. CASE Goes(j, "dispatched") /\ UNCHANGED attempts
      BY <1>10, <3>2, GoesKeeps DEF Settle, States
    <3> QED BY <1>10, <3>1, <3>2 DEF Settle
  <2>2. \A i \in Jobs \ {j} : state'[i] = state[i]
    BY <1>10 DEF Settle, Retry, Goes, JobsOK
  <2>3. ClaimsOK' BY <1>5, <1>10, <2>2 DEF Settle
  <2>4. RunsOK' BY <1>10 DEF Settle, RunsOK
  <2> QED BY <2>1, <2>3, <2>4
<1>11. CASE AgentReports(j)
  <2>1. JobsOK' /\ FreshOK' BY <1>11, GoesKeeps DEF AgentReports, States
  <2>2. ClaimsOK' BY <1>5, <1>11 DEF AgentReports, Goes, JobsOK
  <2>3. RunsOK' BY <1>11 DEF AgentReports, RunsOK
  <2> QED BY <2>1, <2>2, <2>3
<1>12. CASE Apply(j)
  <2>1. JobsOK' /\ FreshOK' BY <1>12, GoesKeeps DEF Apply, States
  <2>2. ClaimsOK' BY <1>12 DEF Apply, Goes, JobsOK, ClaimsOK, claimVars
  <2>3. RunsOK' BY <1>12 DEF Apply, RunsOK
  <2> QED BY <2>1, <2>2, <2>3
<1> QED BY <1>6, <1>7, <1>8, <1>9, <1>10, <1>11, <1>12 DEF Work

LEMMA StepKeepsType == Typed /\ [Next]_vars => Typed'
<1> SUFFICES ASSUME Typed, [Next]_vars PROVE Typed'
  OBVIOUS
<1>1. TypeOK' <=> JobsOK' /\ ClaimsOK' /\ RunsOK' BY TypeParts, PTL
<1>2. CASE UNCHANGED vars
  <2>1. JobsOK' /\ FreshOK'
    BY <1>2, TypeParts DEF Typed, vars, JobsOK, FreshOK, jobVars
  <2>2. ClaimsOK' /\ RunsOK'
    BY <1>2, TypeParts DEF Typed, vars, ClaimsOK, RunsOK, claimVars
  <2> QED BY <1>1, <2>1, <2>2 DEF Typed
<1>3. ASSUME NEW K \in SUBSET Keywords, NEW r \in Requests, NewRequest(K, r) \/ SameRequest(K, r)
      PROVE  Typed'
  BY <1>1, <1>2, <1>3, RequestsAttach, AttachKeepsType DEF Typed
<1>4. ASSUME NEW k \in Keywords, Enqueue(k) PROVE Typed'
  BY <1>1, <1>4, EnqueueKeepsType DEF Typed
<1>5. ASSUME NEW j \in Jobs, Work(j) \/ Ends(j) \/ Reclaim(j) PROVE Typed'
  BY <1>1, <1>5, JobKeepsType DEF Typed
<1> QED BY <1>2, <1>3, <1>4, <1>5 DEF Next

LEMMA InitTyped == Init => Typed
<1> SUFFICES ASSUME Init PROVE Typed
  OBVIOUS
<1>1. \A j \in Jobs : j > 0 BY RecrawlAssumption DEF Jobs
<1>2. JobsOK
  <2>1. \A j \in Jobs : /\ (j > created) = (keyword[j] = None)
                        /\ (j > created) = (state[j] = "absent")
    BY <1>1 DEF Init
  <2> QED BY <2>1, RecrawlAssumption DEF Init, JobsOK, States
<1>3. ClaimsOK BY DEF Init, ClaimsOK
<1>4. RunsOK BY RecrawlAssumption DEF Init, RunsOK
<1>5. FreshOK BY RecrawlAssumption DEF Init, FreshOK
<1> QED BY <1>2, <1>3, <1>4, <1>5, TypeParts DEF Typed

\* Every variable keeps its type; the jobs that exist are the first ones, and a job that
\* may still be claimed has attempts left.
THEOREM TypeCorrect == Spec => []TypeOK
<1>1. Typed => TypeOK BY DEF Typed
<1> QED BY <1>1, InitTyped, StepKeepsType, PTL DEF Spec

-----------------------------------------------------------------------------
(* What a request counts *)

\* Only a request changes whose a job is, or what a request counts.
LEMMA OthersKeepCounts ==
  ASSUME Typed, CountMatches,
         UNCHANGED <<request, requested>>,
         \A j \in Jobs : request[j] # None => (state'[j] = "absent" <=> state[j] = "absent")
  PROVE  CountMatches'
<1> SUFFICES ASSUME NEW r \in Requests PROVE Cardinality(JobsOf(r)') = requested'[r]
  BY DEF CountMatches
<1>1. r # None BY RecrawlAssumption
<1>2. JobsOf(r)' = JobsOf(r) BY <1>1 DEF JobsOf
<1> QED BY <1>2 DEF CountMatches

LEMMA AttachCounts ==
  ASSUME Typed, CountMatches, NEW r \in Requests, NEW covering, NEW missing,
         Attaches(r, covering, missing)
  PROVE  CountMatches'
<1> SUFFICES ASSUME NEW q \in Requests PROVE Cardinality(JobsOf(q)') = requested'[q]
  BY DEF CountMatches
<1> DEFINE attached == New(missing) \cup Adopted(covering)
<1>1. /\ attached \subseteq Jobs
      /\ state' = [j \in Jobs |-> IF j \in New(missing) THEN "pending" ELSE state[j]]
      /\ request' = [j \in Jobs |-> IF j \in attached THEN r ELSE request[j]]
      /\ requested' = [requested EXCEPT ![r] = Cardinality(JobsOf(r) \cup attached)]
  <2>1. /\ New(missing) \subseteq Jobs /\ Adopted(covering) \subseteq Jobs
        /\ state' = [j \in Jobs |-> IF j \in New(missing) THEN "pending" ELSE state[j]]
        /\ request' = [j \in Jobs |-> IF j \in New(missing) \cup Adopted(covering) THEN r
                                      ELSE request[j]]
        /\ requested' = [requested EXCEPT ![r] =
                           Cardinality(JobsOf(r) \cup New(missing) \cup Adopted(covering))]
    BY AttachFacts
  <2>2. JobsOf(r) \cup New(missing) \cup Adopted(covering) = JobsOf(r) \cup attached
    OBVIOUS
  <2> QED BY <2>1, <2>2
<1>2. \A j \in attached : request[j] = None
  <2>1. \A j \in New(missing) : j \in Jobs /\ j > created BY AttachFacts
  <2>2. \A j \in New(missing) : request[j] = None BY <2>1 DEF Typed, FreshOK
  <2> QED BY <2>2 DEF Adopted, Adopts
<1>3. \A j \in Adopted(covering) : state[j] # "absent" BY DEF Adopted, Attaches
<1>4. requested \in [Requests -> 0..MaxJobs] BY TypeParts DEF Typed, JobsOK
<1>5. q # None BY RecrawlAssumption
<1>6. CASE q = r
  <2>1. \A j \in Jobs : request'[j] = q /\ state'[j] # "absent" <=>
                        j \in JobsOf(r) \/ j \in attached
    BY <1>1, <1>2, <1>3, <1>6 DEF JobsOf
  <2>2. JobsOf(q)' = JobsOf(r) \cup attached BY <1>1, <2>1 DEF JobsOf
  <2> QED BY <1>1, <1>4, <1>6, <2>2
<1>7. CASE q # r
  <2>1. \A j \in Jobs : request'[j] = q /\ state'[j] # "absent" <=>
                        request[j] = q /\ state[j] # "absent"
    BY <1>1, <1>2, <1>5, <1>7
  <2>2. JobsOf(q)' = JobsOf(q) BY <2>1 DEF JobsOf
  <2> QED BY <1>1, <1>4, <1>7, <2>2 DEF CountMatches
<1> QED BY <1>6, <1>7

LEMMA StepKeepsCounts == Typed /\ CountMatches /\ [Next]_vars => CountMatches'
<1> SUFFICES ASSUME Typed, CountMatches, [Next]_vars PROVE CountMatches'
  OBVIOUS
<1>1. CASE UNCHANGED vars BY <1>1, OthersKeepCounts DEF vars
<1>2. ASSUME NEW K \in SUBSET Keywords, NEW r \in Requests, NewRequest(K, r) \/ SameRequest(K, r)
      PROVE  CountMatches'
  BY <1>1, <1>2, RequestsAttach, AttachCounts
<1>3. ASSUME NEW k \in Keywords, Enqueue(k) PROVE CountMatches'
  <2>1. \A j \in Jobs : request[j] # None => j # created + 1
    BY AbsentFacts DEF Typed, FreshOK
  <2>2. \A j \in Jobs : request[j] # None => state'[j] = state[j]
    BY <1>3, <2>1, TypeParts DEF Typed, JobsOK, Enqueue
  <2> QED BY <1>3, <2>2, OthersKeepCounts DEF Enqueue
<1>4. ASSUME NEW j \in Jobs, Work(j) \/ Ends(j) \/ Reclaim(j) PROVE CountMatches'
  <2>1. UNCHANGED <<request, requested>>
    BY <1>4 DEF Work, Claim, Reserve, Settle, AgentReports, Apply, Ends, RunEnds, Reclaim
  <2>2. \A i \in Jobs : state'[i] = "absent" <=> state[i] = "absent"
    BY <1>4, TypeParts
    DEF Typed, JobsOK, Work, Claim, Reserve, Settle, Retry, AgentReports, Apply, Ends, RunEnds,
        Reclaim, Goes
  <2> QED BY <2>1, <2>2, OthersKeepCounts
<1> QED BY <1>1, <1>2, <1>3, <1>4 DEF Next

\* requested_keyword_count is the number of the jobs that carry the request, after any
\* number of requests, extensions and adoptions.
THEOREM CountsMatch == Spec => []CountMatches
<1>1. Init => CountMatches
  <2> SUFFICES ASSUME Init, NEW r \in Requests PROVE Cardinality(JobsOf(r)) = requested[r]
    BY DEF CountMatches
  <2>1. JobsOf(r) = {} BY DEF Init, JobsOf
  <2> QED BY <2>1, FS_EmptySet DEF Init
<1> QED BY <1>1, InitTyped, StepKeepsType, StepKeepsCounts, PTL DEF Spec

-----------------------------------------------------------------------------
(* What recrawls share *)

Done(j) == state[j] \in {"dispatched", "failed"}

\* Two jobs that one request creates are for two keywords, and what was there before is
\* done if it has the keyword of a new one.
LEMMA AttachShares ==
  ASSUME Typed, RecrawlsShareJobs, NEW r \in Requests, NEW covering, NEW missing,
         Attaches(r, covering, missing)
  PROVE  RecrawlsShareJobs'
<1> SUFFICES ASSUME NEW i \in manual', NEW j \in manual', i < j, keyword'[i] = keyword'[j]
             PROVE  state'[i] \in {"dispatched", "failed"}
  BY DEF RecrawlsShareJobs
<1>1. /\ New(missing) \subseteq Jobs
      /\ \A n \in Jobs : n \in New(missing) <=> n > created /\ n <= created'
      /\ state' = [n \in Jobs |-> IF n \in New(missing) THEN "pending" ELSE state[n]]
      /\ manual' = manual \cup New(missing)
  BY AttachFacts
<1>2. PICK f \in Injection(New(missing), missing) :
        keyword' = [n \in Jobs |-> IF n \in New(missing) THEN f[n] ELSE keyword[n]]
  BY AttachFacts
<1>3. /\ f \in [New(missing) -> missing]
      /\ \A a, b \in New(missing) : f[a] = f[b] => a = b
  BY DEF Injection, IsInjective
<1>4. created \in Nat /\ created <= MaxJobs /\ manual \subseteq 1..created
  BY AbsentFacts, TypeParts DEF Typed, JobsOK
<1>5. \A n \in manual : n \in Jobs /\ n <= created /\ n \notin New(missing)
  BY <1>1, <1>4, RecrawlAssumption DEF Jobs
<1>6. i \in Jobs /\ j \in Jobs /\ i \in Nat /\ j \in Nat BY <1>1, <1>5 DEF Jobs
<1>7. CASE i \in New(missing) /\ j \in New(missing)
  <2>1. f[i] = f[j] BY <1>2, <1>6, <1>7
  <2>2. i = j BY <1>3, <1>7, <2>1
  <2> QED BY <1>6, <2>2
<1>8. CASE i \in New(missing) /\ j \in manual
  BY <1>1, <1>4, <1>5, <1>6, <1>8
<1>9. CASE i \in manual /\ j \in New(missing)
  <2>1. keyword[i] = f[j] /\ f[j] \in missing BY <1>2, <1>3, <1>5, <1>6, <1>9
  <2>2. ~InFlight(i)
    <3>1. Existing(f[j]) = 0 BY <2>1 DEF Attaches
    <3> QED BY <1>6, <2>1, <3>1, ExistingFacts
  <2>3. state[i] # "absent" BY <1>4, <1>5, <1>6, <1>9, AbsentFacts
  <2>4. state[i] \in States BY <1>6, TypeParts DEF Typed, JobsOK
  <2>5. state'[i] = state[i] BY <1>1, <1>5, <1>9
  <2> QED BY <2>2, <2>3, <2>4, <2>5 DEF InFlight, States
<1>10. CASE i \in manual /\ j \in manual
  <2>1. keyword[i] = keyword[j] /\ state'[i] = state[i] BY <1>1, <1>2, <1>5, <1>6, <1>10
  <2> QED BY <1>10, <2>1 DEF RecrawlsShareJobs
<1> QED BY <1>1, <1>7, <1>8, <1>9, <1>10

\* The other steps neither add to what recrawls created nor revive a job that is done.
LEMMA OthersShare ==
  ASSUME RecrawlsShareJobs, manual' = manual, \A j \in manual : keyword'[j] = keyword[j],
         \A j \in manual : Done(j) => state'[j] \in {"dispatched", "failed"}
  PROVE  RecrawlsShareJobs'
BY DEF RecrawlsShareJobs, Done

LEMMA StepKeepsShares == Typed /\ RecrawlsShareJobs /\ [Next]_vars => RecrawlsShareJobs'
<1> SUFFICES ASSUME Typed, RecrawlsShareJobs, [Next]_vars PROVE RecrawlsShareJobs'
  OBVIOUS
<1>1. \A j \in manual : j \in Jobs /\ j <= created /\ j # created + 1
  BY AbsentFacts, TypeParts, RecrawlAssumption DEF Typed, JobsOK, Jobs
<1>2. CASE UNCHANGED vars BY <1>2, OthersShare DEF vars, jobVars, Done
<1>3. ASSUME NEW K \in SUBSET Keywords, NEW r \in Requests, NewRequest(K, r) \/ SameRequest(K, r)
      PROVE  RecrawlsShareJobs'
  BY <1>2, <1>3, RequestsAttach, AttachShares
<1>4. ASSUME NEW k \in Keywords, Enqueue(k) PROVE RecrawlsShareJobs'
  <2>1. \A j \in manual : keyword'[j] = keyword[j] /\ state'[j] = state[j]
    BY <1>1, <1>4, TypeParts DEF Typed, JobsOK, Enqueue
  <2>2. manual' = manual BY <1>4 DEF Enqueue
  <2> QED BY <2>1, <2>2, OthersShare DEF Done
<1>5. ASSUME NEW j \in Jobs, Work(j) \/ Ends(j) \/ Reclaim(j) PROVE RecrawlsShareJobs'
  <2>1. UNCHANGED jobVars
    BY <1>5 DEF Work, Claim, Reserve, Settle, AgentReports, Apply, Ends, RunEnds, Reclaim
  <2>2. \A i \in Jobs : Done(i) => state'[i] \in {"dispatched", "failed"}
    BY <1>5, TypeParts
    DEF Done, Typed, JobsOK, Work, Claim, Reserve, Settle, Retry, AgentReports, Apply, Ends,
        RunEnds, Reclaim, Goes
  <2> QED BY <1>1, <2>1, <2>2, OthersShare DEF jobVars
<1> QED BY <1>2, <1>3, <1>4, <1>5 DEF Next

\* However recrawls overlap, of two jobs they created for one keyword the older was done
\* before the other was created.
THEOREM JobsShared == Spec => []RecrawlsShareJobs
<1>1. Init => RecrawlsShareJobs BY DEF Init, RecrawlsShareJobs
<1> QED BY <1>1, InitTyped, StepKeepsType, StepKeepsShares, PTL DEF Spec
=============================================================================
