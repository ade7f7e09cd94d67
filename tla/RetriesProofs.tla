---------------------------- MODULE RetriesProofs ----------------------------
(* The components that pace and repeat requests: the rate limiter of the crawlers, the
   deliveries to webhooks and the jobs that go back for documents.

   What the limiter guarantees holds for any number of workers, rate, burst and
   thresholds: its state stays within bounds, and it implements RequestBudget.  The
   instants of RateLimiter are relative, so both follow from each step alone, by the
   arithmetic of Refilled and of the time the circuit stays open.  The other two work off
   lists that a query selected some time ago; their invariants say how far what the list
   promised can have changed by the time its last element is reached. *)
EXTENDS RateLimiter, WebhookDelivery, DocumentBackfill, FiniteSetTheorems,
        WellFoundedInduction, TLAPS

-----------------------------------------------------------------------------
(* The rate limiter *)

LEMMA FullFacts == Full \in Nat /\ Full >= Period
<1>1. Burst \in Nat /\ Burst >= 1 /\ Period \in Nat
  BY LimiterAssumption
<1>2. Burst * Period >= Period
  BY <1>1, SMTT(30)
<1> QED BY <1>1, <1>2 DEF Full

\* The longest time for which the circuit is open.
Longest == Most(Reset, SiteMax)

LEMMA LongestFacts ==
  /\ Longest \in Nat /\ Longest >= Reset /\ Longest >= SiteMax
  /\ FirstPause \in 0..SiteMax
BY LimiterAssumption DEF Longest, Most, FirstPause, Least

LEMMA MostFacts ==
  ASSUME NEW a \in Nat, NEW b \in Nat, NEW c \in Nat, a <= c, b <= c
  PROVE  Most(a, b) \in 0..c /\ Most(a, b) >= a /\ Most(a, b) >= b
BY DEF Most

\* TypeOK, part by part.
BucketOK == tokens \in 0..Full /\ age \in 0..Full
OpenOK   == open \in 0..Longest /\ opened \in BOOLEAN /\ (open > 0 => opened)
CountsOK ==
  refusals \in 0..Threshold /\ siteErrors \in 0..(SiteThreshold - 1) /\ pause \in 0..SiteMax
LocalOK ==
  /\ phase \in [Workers -> {"away", "waiting", "fetching", "viewing"}]
  /\ sleep \in [Workers -> Nat] /\ deaths \in 0..MaxDeaths

LEMMA TypeParts == TypeOK <=> BucketOK /\ OpenOK /\ CountsOK /\ LocalOK
BY DEF TypeOK, BucketOK, OpenOK, CountsOK, LocalOK, Longest

LEMMA OpenLonger ==
  ASSUME OpenOK, NEW n \in 0..Longest, Open(n)
  PROVE  OpenOK' /\ open' >= open
<1>1. open' \in 0..Longest /\ open' >= open
  BY LongestFacts, MostFacts DEF OpenOK, Open
<1>2. opened' = TRUE BY DEF Open
<1> QED BY <1>1, <1>2 DEF OpenOK

LEMMA ClearKeeps ==
  ASSUME OpenOK, Clear PROVE OpenOK' /\ open' >= open
<1>1. open' = open /\ open \in 0..Longest BY DEF Clear, OpenOK
<1>2. opened' = (open > 0) BY DEF Clear
<1>3. open' >= open BY <1>1, LongestFacts
<1>4. (open > 0) = (open' > 0) BY <1>1
<1>5. (open > 0) \in BOOLEAN OBVIOUS
<1>6. opened' \in BOOLEAN BY <1>2, <1>5, Zenon
<1>7. open' > 0 => opened' BY <1>2, <1>4, Zenon
<1> QED BY <1>1, <1>3, <1>6, <1>7 DEF OpenOK

LEMMA ClosedIsOK ==
  ASSUME open' = 0, opened' = FALSE PROVE OpenOK'
<1>1. open' \in 0..Longest /\ ~(open' > 0) BY LongestFacts
<1>2. opened' \in BOOLEAN /\ (open' > 0 => opened') BY <1>1, Zenon
<1> QED BY <1>1, <1>2 DEF OpenOK

LEMMA OpenStays ==
  ASSUME OpenOK, UNCHANGED <<open, opened>> PROVE OpenOK' /\ open' >= open
BY LongestFacts DEF OpenOK

\* A report prolongs the time the circuit is open, or leaves it.
LEMMA ReportKeeps ==
  ASSUME TypeOK, Refused \/ Served \/ Failed \/ Broken \/ Sound
  PROVE  OpenOK' /\ CountsOK' /\ open' >= open
<1> USE TypeParts, LimiterAssumption
<1>1. CASE Refused
  <2>1. CountsOK' BY <1>1 DEF Refused, CountsOK, Least
  <2>2. CASE refusals + 1 >= Threshold
    <3>1. Open(Reset) /\ Reset \in 0..Longest BY <1>1, <2>2, LongestFacts DEF Refused
    <3> QED BY <2>1, <3>1, OpenLonger
  <2>3. CASE ~(refusals + 1 >= Threshold)
    BY <1>1, <2>1, <2>3, OpenStays DEF Refused
  <2> QED BY <2>2, <2>3
<1>2. CASE Served
  <2>1. CountsOK' BY <1>2 DEF Served, CountsOK
  <2> QED BY <1>2, <2>1, ClearKeeps DEF Served
<1>3. CASE Failed
  <2>1. CountsOK' BY <1>3 DEF Failed, circuit, CountsOK
  <2> QED BY <1>3, <2>1, OpenStays DEF Failed, circuit
<1>4. CASE Broken
  <2>1. CASE siteErrors + 1 >= SiteThreshold
    <3>1. CountsOK' BY <1>4, <2>1 DEF Broken, Pause, CountsOK, Least
    <3>2. Open(pause) /\ pause \in 0..Longest
      BY <1>4, <2>1, LongestFacts DEF Broken, CountsOK
    <3> QED BY <3>1, <3>2, OpenLonger
  <2>2. CASE ~(siteErrors + 1 >= SiteThreshold)
    <3>1. CountsOK' BY <1>4, <2>2 DEF Broken, CountsOK
    <3> QED BY <1>4, <2>2, <3>1, OpenStays DEF Broken
  <2> QED BY <2>1, <2>2
<1>5. CASE Sound
  <2>1. CountsOK' BY <1>5, LongestFacts DEF Sound, CountsOK
  <2> QED BY <1>5, <2>1, ClearKeeps DEF Sound
<1> QED BY <1>1, <1>2, <1>3, <1>4, <1>5

LEMMA ExpireKeeps ==
  ASSUME TypeOK, open = 0, Expire PROVE OpenOK' /\ CountsOK'
<1> USE TypeParts
<1>1. CountsOK' BY LimiterAssumption DEF Expire, CountsOK
<1>2. open' = 0 /\ opened' = FALSE BY DEF Expire
<1>3. OpenOK' BY <1>2, ClosedIsOK
<1> QED BY <1>1, <1>3

LEMMA RefilledType ==
  ASSUME TypeOK PROVE Refilled \in 0..Full
BY FullFacts DEF TypeOK, Refilled, Least

\* Every variable keeps its type; in particular the cooldown stays below its maximum
\* and the circuit is never open for longer than the longest of the two resets.
LEMMA StepKeepsType == TypeOK /\ [Next]_vars => TypeOK'
<1> SUFFICES ASSUME TypeOK, [Next]_vars PROVE BucketOK' /\ OpenOK' /\ CountsOK' /\ LocalOK'
  BY TypeParts, PTL
<1> USE TypeParts
<1>1. CASE Tick
  <2>1. BucketOK' BY <1>1, FullFacts DEF Tick, BucketOK, Least
  <2>2. OpenOK'
    <3>1. open' \in 0..Longest /\ (open' > 0 => open > 0) /\ opened' = opened
      BY <1>1, LongestFacts DEF Tick, OpenOK
    <3> QED BY <3>1 DEF OpenOK
  <2>3. CountsOK' BY <1>1 DEF Tick, CountsOK
  <2>4. LocalOK' BY <1>1 DEF Tick, LocalOK
  <2> QED BY <2>1, <2>2, <2>3, <2>4
<1>2. CASE Probe
  <2>1. BucketOK' /\ LocalOK' BY <1>2 DEF Probe, bucket, BucketOK, LocalOK
  <2> QED BY <1>2, <2>1, ExpireKeeps DEF Probe
<1>3. ASSUME NEW w \in Workers, Arrive(w) \/ AwaitCircuit(w)
      PROVE  BucketOK' /\ OpenOK' /\ CountsOK' /\ LocalOK'
  <2>1. BucketOK' /\ OpenOK' /\ CountsOK'
    BY <1>3 DEF Arrive, AwaitCircuit, bucket, circuit, BucketOK, OpenOK, CountsOK
  <2>2. PICK n \in Nat : Sleeps(w, n)
    BY <1>3, LongestFacts DEF Arrive, AwaitCircuit, OpenOK
  <2>3. LocalOK' BY <1>3, <2>2 DEF Arrive, AwaitCircuit, Sleeps, Goes, LocalOK
  <2> QED BY <2>1, <2>3
<1>4. ASSUME NEW w \in Workers, Consume(w)
      PROVE  BucketOK' /\ OpenOK' /\ CountsOK' /\ LocalOK'
  <2>1. BucketOK'
    BY <1>4, RefilledType, LimiterAssumption, FullFacts DEF Consume, BucketOK
  <2>2. LocalOK' BY <1>4 DEF Consume, Goes, LocalOK
  <2> QED BY <1>4, <2>1, <2>2, ExpireKeeps DEF Consume
<1>5. ASSUME NEW w \in Workers, AwaitToken(w)
      PROVE  BucketOK' /\ OpenOK' /\ CountsOK' /\ LocalOK'
  <2>1. BucketOK' BY <1>5, RefilledType, FullFacts DEF AwaitToken, BucketOK
  <2>2. Period - Refilled \in Nat
    BY <1>5, RefilledType, LimiterAssumption, FullFacts DEF AwaitToken
  <2>3. LocalOK' BY <1>5, <2>2 DEF AwaitToken, Sleeps, Goes, LocalOK
  <2> QED BY <1>5, <2>1, <2>3, ExpireKeeps DEF AwaitToken
<1>6. ASSUME NEW w \in Workers, Answer(w) \/ View(w)
      PROVE  BucketOK' /\ OpenOK' /\ CountsOK' /\ LocalOK'
  <2>1. BucketOK' BY <1>6 DEF Answer, View, bucket, BucketOK
  <2>2. LocalOK' BY <1>6 DEF Answer, View, Goes, LocalOK
  <2>3. Refused \/ Served \/ Failed \/ Broken \/ Sound
    BY <1>6 DEF Answer, View, Failed
  <2> QED BY <2>1, <2>2, <2>3, ReportKeeps
<1>7. ASSUME NEW w \in Workers, Killed(w) \/ Torn(w)
      PROVE  BucketOK' /\ OpenOK' /\ CountsOK' /\ LocalOK'
  <2>1. LocalOK' BY <1>7, LimiterAssumption DEF Killed, Torn, Dies, Goes, LocalOK
  <2>2. CASE Killed(w)
    BY <2>1, <2>2 DEF Killed, bucket, circuit, BucketOK, OpenOK, CountsOK
  <2>3. CASE Torn(w)
    <3>1. BucketOK' BY <2>3, FullFacts DEF Torn, BucketOK
    <3>2. OpenOK' BY <2>3, ClosedIsOK DEF Torn
    <3>3. CountsOK' BY <2>3, LongestFacts, LimiterAssumption DEF Torn, CountsOK
    <3> QED BY <2>1, <3>1, <3>2, <3>3
  <2> QED BY <1>7, <2>2, <2>3
<1>8. CASE UNCHANGED vars
  BY <1>8 DEF vars, bucket, circuit, BucketOK, OpenOK, CountsOK, LocalOK
<1> QED BY <1>1, <1>2, <1>3, <1>4, <1>5, <1>6, <1>7, <1>8 DEF Next, Acquire

LEMMA InitType == Init => TypeOK
<1> SUFFICES ASSUME Init PROVE BucketOK /\ OpenOK /\ CountsOK /\ LocalOK
  BY TypeParts
<1>1. BucketOK BY FullFacts DEF Init, BucketOK
<1>2. open \in 0..Longest /\ ~(open > 0) BY LongestFacts DEF Init
<1>3. OpenOK BY <1>2, Zenon DEF Init, OpenOK
<1>4. CountsOK BY LongestFacts, LimiterAssumption DEF Init, CountsOK
<1>5. LocalOK BY LimiterAssumption DEF Init, LocalOK
<1> QED BY <1>1, <1>3, <1>4, <1>5

\* The state of the limiter keeps its type, the file that is lost halfway included.
THEOREM TypeCorrect == Spec => []TypeOK
BY InitType, StepKeepsType, PTL DEF Spec

-----------------------------------------------------------------------------
(* The refinement *)

LEMMA InitRefines == Init => Budget!Init
BY FullFacts DEF Init, Budget!Init, Budget!Full, Full, Refilled, Least, Fetching

\* A step at which no request goes out or comes back, and the bucket stays as full.
LEMMA Stutters ==
  ASSUME Refilled' = Refilled, open' = open, Fetching' = Fetching
  PROVE  UNCHANGED Budget!budgetVars
BY DEF Budget!budgetVars

LEMMA GoesElsewhere ==
  ASSUME TypeOK, NEW w \in Workers, NEW to, Goes(w, to), to # "fetching"
  PROVE  Fetching' = Fetching \ {w}
BY DEF TypeOK, Goes, Fetching

\* A report, or the end of a worker.
LEMMA Returns ==
  ASSUME TypeOK, TypeOK', NEW w \in Workers, NEW to, Goes(w, to), to # "fetching",
         UNCHANGED bucket, open' >= open
  PROVE  Budget!Return(w)
<1>1. Fetching' = Fetching \ {w} BY GoesElsewhere
<1>2. Refilled' = Refilled BY DEF Refilled, bucket
<1>3. open' \in Nat BY LimiterAssumption DEF TypeOK, Most
<1> QED BY <1>1, <1>2, <1>3 DEF Budget!Return

LEMMA TickRefines == TypeOK /\ Tick => Budget!Tick
<1> SUFFICES ASSUME TypeOK, Tick PROVE Budget!Tick
  OBVIOUS
<1>1. Refilled' = IF Refilled < Full THEN Refilled + 1 ELSE Full
  BY FullFacts DEF TypeOK, Tick, Refilled, Least
<1>2. Fetching' = Fetching
  BY DEF Tick, Fetching
<1> QED BY <1>1, <1>2 DEF Tick, Budget!Tick, Budget!Full, Full

LEMMA ConsumeRefines ==
  ASSUME TypeOK, NEW w \in Workers, Consume(w) PROVE Budget!Grant(w)
<1>1. Refilled' = Refilled - Period
  BY LimiterAssumption, FullFacts, RefilledType DEF Consume, Refilled, Least, TypeOK
<1>2. Fetching' = Fetching \cup {w}
  BY DEF Consume, Goes, Fetching, TypeOK
<1> QED BY <1>1, <1>2 DEF Consume, Expire, Awake, Budget!Grant

LEMMA AwaitTokenRefines ==
  ASSUME TypeOK, NEW w \in Workers, AwaitToken(w) PROVE UNCHANGED Budget!budgetVars
<1>1. Refilled' = Refilled
  <2>1. tokens' = Refilled /\ age' = 0 BY DEF AwaitToken
  <2> QED BY <2>1, FullFacts, RefilledType DEF Refilled, Least
<1>2. Fetching' = Fetching
  BY GoesElsewhere DEF AwaitToken, Awake, Sleeps, Fetching
<1>3. open' = open BY DEF AwaitToken, Expire
<1> QED BY <1>1, <1>2, <1>3, Stutters

LEMMA TornRefines ==
  ASSUME TypeOK, NEW w \in Workers, Torn(w) PROVE Budget!Forget
<1>1. Refilled' = Full BY FullFacts DEF Torn, Refilled, Least
<1>2. Fetching' = Fetching \ {w} BY GoesElsewhere DEF Torn, Dies
<1> QED BY <1>1, <1>2 DEF Torn, Budget!Forget, Budget!Full, Full

\* A step of a worker.
LEMMA WorkerRefines ==
  ASSUME TypeOK, TypeOK', NEW w \in Workers,
         Arrive(w) \/ Acquire(w) \/ Answer(w) \/ View(w) \/ Killed(w) \/ Torn(w)
  PROVE  [Budget!Next]_Budget!budgetVars
<1>1. CASE Arrive(w) \/ AwaitCircuit(w)
  <2>1. UNCHANGED bucket /\ open' = open /\ phase[w] # "fetching" /\ Goes(w, "waiting")
    BY <1>1 DEF Arrive, AwaitCircuit, Awake, Sleeps, circuit
  <2>2. Fetching' = Fetching BY <2>1, GoesElsewhere DEF Fetching
  <2>3. Refilled' = Refilled BY <2>1 DEF Refilled, bucket
  <2> QED BY <2>1, <2>2, <2>3, Stutters
<1>2. CASE Consume(w)
  BY <1>2, ConsumeRefines DEF Budget!Next
<1>3. CASE AwaitToken(w)
  BY <1>3, AwaitTokenRefines
<1>4. CASE Answer(w)
  <2>1. open' >= open BY <1>4, ReportKeeps DEF Answer
  <2> QED BY <1>4, <2>1, Returns DEF Answer, Budget!Next
<1>5. CASE View(w)
  <2>1. CASE Broken \/ Sound
    BY <2>1, ReportKeeps, <1>5, Returns DEF View, Budget!Next
  <2>2. CASE UNCHANGED circuit
    <3>1. open' >= open BY <2>2, LimiterAssumption DEF circuit, TypeOK, Most
    <3> QED BY <1>5, <3>1, Returns DEF View, Budget!Next
  <2> QED BY <1>5, <2>1, <2>2 DEF View
<1>6. CASE Killed(w)
  <2>1. open' >= open BY <1>6, LimiterAssumption DEF Killed, circuit, TypeOK, Most
  <2> QED BY <1>6, <2>1, Returns DEF Killed, Dies, Budget!Next
<1>7. CASE Torn(w)
  BY <1>7, TornRefines DEF Budget!Next
<1> QED BY <1>1, <1>2, <1>3, <1>4, <1>5, <1>6, <1>7 DEF Acquire

LEMMA StepRefines ==
  TypeOK /\ TypeOK' /\ [Next]_vars => [Budget!Next]_Budget!budgetVars
<1> SUFFICES ASSUME TypeOK, TypeOK', [Next]_vars
             PROVE  [Budget!Next]_Budget!budgetVars
  OBVIOUS
<1>1. CASE Tick
  BY <1>1, TickRefines DEF Budget!Next
<1>2. CASE Probe
  BY <1>2, Stutters DEF Probe, Expire, Refilled, Fetching, bucket
<1>3. CASE UNCHANGED vars
  BY <1>3, Stutters DEF vars, bucket, circuit, Refilled, Fetching
<1> QED BY <1>1, <1>2, <1>3, WorkerRefines DEF Next

\* The workers together keep to the budget of the site (KeepsBudget), however many they
\* are, whatever they report and whenever one of them is killed.
THEOREM BudgetKept == Spec => KeepsBudget
BY InitType, StepKeepsType, InitRefines, StepRefines, PTL DEF Spec, KeepsBudget, Budget!Spec

-----------------------------------------------------------------------------
(* Lists.  Only keeps the order of a list, and what is in it once. *)

NoRepeats(s) == \A i, j \in 1..Len(s) : s[i] = s[j] => i = j

LEMMA NatMin ==
  ASSUME NEW T, T \subseteq Nat, T # {}
  PROVE  \E x \in T : \A y \in T : x <= y
<1> DEFINE R == {ss \in Nat \X Nat : ss[1] < ss[2]}
<1>1. IsWellFoundedOn(R, Nat)
  BY NatLessThanWellFounded DEF OpToRel
<1> HIDE DEF R
<1>2. \E x \in T : \A y \in T : ~(<<y, x>> \in R) BY <1>1, WFMin
<1>3. PICK x \in T : \A y \in T : ~(<<y, x>> \in R) BY <1>2
<1>4. ASSUME NEW y \in T, y < x PROVE <<y, x>> \in R
  <2>1. <<y, x>> \in Nat \X Nat OBVIOUS
  <2> QED BY <1>4, <2>1 DEF R
<1>5. \A y \in T : x \in Nat /\ y \in Nat /\ ~(y < x) BY <1>3, <1>4
<1> QED BY <1>5

LEMMA ToSetFacts ==
  ASSUME NEW T, NEW s \in Seq(T)
  PROVE  /\ \A x : x \in ToSet(s) <=> \E i \in 1..Len(s) : s[i] = x
         /\ ToSet(s) \subseteq T
BY DEF ToSet

LEMMA TailFacts ==
  ASSUME NEW T, NEW s \in Seq(T), s # <<>>
  PROVE  /\ Head(s) \in ToSet(s) /\ Head(s) \in T
         /\ Tail(s) \in Seq(T) /\ ToSet(Tail(s)) \subseteq ToSet(s)
         /\ Len(s) \in Nat \ {0} /\ Len(Tail(s)) = Len(s) - 1
         /\ NoRepeats(s) => NoRepeats(Tail(s)) /\ Head(s) \notin ToSet(Tail(s))
<1> DEFINE t == Tail(s)
<1>1. /\ Len(s) \in Nat \ {0} /\ t \in Seq(T) /\ Len(t) = Len(s) - 1 /\ Head(s) = s[1]
      /\ \A i \in 1..Len(t) : t[i] = s[i + 1] /\ i + 1 \in 1..Len(s)
  OBVIOUS
<1> HIDE DEF t
<1>2. Head(s) \in ToSet(s) /\ Head(s) \in T BY <1>1, ToSetFacts
<1>3. ToSet(t) \subseteq ToSet(s)
  <2> SUFFICES ASSUME NEW x \in ToSet(t) PROVE x \in ToSet(s)
    OBVIOUS
  <2>1. PICK i \in 1..Len(t) : t[i] = x BY <1>1, ToSetFacts
  <2>2. s[i + 1] = x /\ i + 1 \in 1..Len(s) BY <1>1, <2>1
  <2> QED BY <2>2, ToSetFacts
<1>4. ASSUME NoRepeats(s) PROVE NoRepeats(t)
  BY <1>1, <1>4 DEF NoRepeats
<1>5. ASSUME NoRepeats(s), Head(s) \in ToSet(t) PROVE FALSE
  <2>1. PICK i \in 1..Len(t) : t[i] = Head(s) BY <1>1, <1>5, ToSetFacts
  <2>2. s[i + 1] = s[1] /\ i + 1 # 1 /\ 1 \in 1..Len(s) BY <1>1, <2>1
  <2> QED BY <1>1, <1>5, <2>1, <2>2 DEF NoRepeats
<1> QED BY <1>1, <1>2, <1>3, <1>4, <1>5 DEF t

LEMMA AppendFacts ==
  ASSUME NEW T, NEW s \in Seq(T), NEW x \in T
  PROVE  /\ Append(s, x) \in Seq(T) /\ Len(Append(s, x)) = Len(s) + 1
         /\ ToSet(Append(s, x)) = ToSet(s) \cup {x}
         /\ NoRepeats(s) /\ x \notin ToSet(s) => NoRepeats(Append(s, x))
<1> DEFINE t == Append(s, x)
<1>1. /\ t \in Seq(T) /\ Len(t) = Len(s) + 1 /\ Len(s) \in Nat
      /\ \A i \in 1..Len(s) + 1 : t[i] = IF i <= Len(s) THEN s[i] ELSE x
  OBVIOUS
<1> HIDE DEF t
<1>2. ASSUME NEW y \in ToSet(t) PROVE y \in ToSet(s) \/ y = x
  <2>1. PICK i \in 1..Len(t) : t[i] = y BY <1>1, <1>2, ToSetFacts
  <2>2. CASE i <= Len(s)
    <3>1. i \in 1..Len(s) /\ s[i] = y BY <1>1, <2>1, <2>2
    <3> QED BY <3>1, ToSetFacts
  <2>3. CASE ~(i <= Len(s)) BY <1>1, <2>1, <2>3
  <2> QED BY <2>2, <2>3
<1>3. ASSUME NEW y \in ToSet(s) PROVE y \in ToSet(t)
  <2>1. PICK i \in 1..Len(s) : s[i] = y BY <1>3, ToSetFacts
  <2>2. i \in 1..Len(t) /\ t[i] = y BY <1>1, <2>1
  <2> QED BY <1>1, <2>2, ToSetFacts
<1>4. x \in ToSet(t)
  <2>1. Len(s) + 1 \in 1..Len(t) /\ t[Len(s) + 1] = x BY <1>1
  <2> QED BY <1>1, <2>1, ToSetFacts
<1>5. ASSUME NoRepeats(s), x \notin ToSet(s) PROVE NoRepeats(t)
  <2>1. \A i \in 1..Len(s) : s[i] # x BY <1>5, ToSetFacts
  <2> QED BY <1>1, <1>5, <2>1 DEF NoRepeats
<1>6. ToSet(t) = ToSet(s) \cup {x} BY <1>2, <1>3, <1>4
<1> QED BY <1>1, <1>5, <1>6 DEF t

LEMMA FrontFacts ==
  ASSUME NEW T, NEW s \in Seq(T), NEW n \in 0..Len(s)
  PROVE  /\ SubSeq(s, 1, n) \in Seq(T) /\ Len(SubSeq(s, 1, n)) = n
         /\ ToSet(SubSeq(s, 1, n)) \subseteq ToSet(s)
         /\ NoRepeats(s) => NoRepeats(SubSeq(s, 1, n))
<1> DEFINE t == SubSeq(s, 1, n)
<1>1. /\ t \in Seq(T) /\ Len(t) = n /\ n \in Nat /\ Len(s) \in Nat
      /\ \A i \in 1..n : t[i] = s[i] /\ i \in 1..Len(s)
  OBVIOUS
<1> HIDE DEF t
<1>2. ToSet(t) \subseteq ToSet(s)
  <2> SUFFICES ASSUME NEW x \in ToSet(t) PROVE x \in ToSet(s)
    OBVIOUS
  <2>1. PICK i \in 1..Len(t) : t[i] = x BY <1>1, ToSetFacts
  <2>2. s[i] = x /\ i \in 1..Len(s) BY <1>1, <2>1
  <2> QED BY <2>2, ToSetFacts
<1>3. NoRepeats(s) => NoRepeats(t) BY <1>1 DEF NoRepeats
<1> QED BY <1>1, <1>2, <1>3 DEF t

\* f is what Only keeps, up to the n-th element.
Keeps(s, S, f, n) ==
  /\ f[0] = <<>>
  /\ \A m \in 1..n : f[m] = IF s[m] \in S THEN Append(f[m - 1], s[m]) ELSE f[m - 1]

LEMMA KeepsExists == ASSUME NEW s, NEW S, NEW n \in Nat PROVE \E f : Keeps(s, S, f, n)
<1> DEFINE C == {m \in Nat : ~ \E f : Keeps(s, S, f, m)}
<1> SUFFICES ASSUME C # {} PROVE FALSE
  OBVIOUS
<1>1. PICK m \in C : \A k \in C : m <= k
  <2> HIDE DEF C
  <2>1. C \subseteq Nat BY DEF C
  <2> QED BY <2>1, NatMin
<1>2. m \in Nat /\ ~ \E f : Keeps(s, S, f, m) OBVIOUS
<1>3. CASE m = 0
  <2> DEFINE g == [k \in {0} |-> <<>>]
  <2>1. Keeps(s, S, g, m) BY <1>3 DEF Keeps
  <2> QED BY <1>2, <2>1
<1>4. CASE m # 0
  <2>1. m - 1 \in Nat /\ m - 1 \notin C BY <1>1, <1>2, <1>4
  <2>2. PICK f : Keeps(s, S, f, m - 1) BY <2>1
  <2> DEFINE g == [k \in 0..m |->
                     IF k = m THEN IF s[m] \in S THEN Append(f[m - 1], s[m]) ELSE f[m - 1]
                     ELSE f[k]]
  <2>3. g[0] = <<>> BY <1>2, <1>4, <2>2 DEF Keeps
  <2>4. ASSUME NEW k \in 1..m
        PROVE  g[k] = IF s[k] \in S THEN Append(g[k - 1], s[k]) ELSE g[k - 1]
    <3>1. g[k - 1] = f[k - 1] BY <1>2, <2>4
    <3>2. CASE k = m
      <4>1. g[k] = IF s[m] \in S THEN Append(f[m - 1], s[m]) ELSE f[m - 1] BY <1>2, <3>2
      <4> HIDE DEF g
      <4> QED BY <3>1, <3>2, <4>1
    <3>3. CASE k # m
      <4>1. g[k] = f[k] /\ k \in 1..(m - 1) BY <1>2, <3>3
      <4> HIDE DEF g
      <4> QED BY <2>2, <3>1, <4>1 DEF Keeps
    <3> QED BY <3>2, <3>3
  <2> HIDE DEF g
  <2>5. Keeps(s, S, g, m) BY <2>3, <2>4 DEF Keeps
  <2> QED BY <1>2, <2>5
<1> QED BY <1>3, <1>4

LEMMA KeepsAgree ==
  ASSUME NEW s, NEW S, NEW f, NEW g, NEW n \in Nat, NEW k \in Nat,
         Keeps(s, S, f, n), Keeps(s, S, g, k), NEW m \in 0..n, m <= k
  PROVE  f[m] = g[m]
<1> DEFINE C == {i \in 0..m : f[i] # g[i]}
<1> SUFFICES ASSUME C # {} PROVE FALSE
  OBVIOUS
<1>1. PICK i \in C : \A j \in C : i <= j
  <2> HIDE DEF C
  <2>1. C \subseteq Nat BY DEF C
  <2> QED BY <2>1, NatMin
<1>2. i \in 0..m /\ f[i] # g[i] OBVIOUS
<1>3. i # 0 BY <1>2 DEF Keeps
<1>4. i - 1 \in 0..m /\ i - 1 \notin C BY <1>1, <1>2, <1>3
<1>5. f[i - 1] = g[i - 1] BY <1>4
<1> HIDE DEF C
<1>6. i \in 1..n /\ i \in 1..k BY <1>2, <1>3
<1>7. f[i] = IF s[i] \in S THEN Append(f[i - 1], s[i]) ELSE f[i - 1] BY <1>6 DEF Keeps
<1>8. g[i] = IF s[i] \in S THEN Append(g[i - 1], s[i]) ELSE g[i - 1] BY <1>6 DEF Keeps
<1> QED BY <1>2, <1>5, <1>7, <1>8

LEMMA OnlyKeeps ==
  ASSUME NEW s, NEW S, NEW n \in Nat
  PROVE  \E f : Keeps(s, S, f, n) /\ Only(s, S) = f[Len(s)]
<1> DEFINE G(m) == CHOOSE f : Keeps(s, S, f, m)
           F == [m \in Nat |-> G(m)[m]]
           IsOnly(f) == f = [m \in Nat |-> IF m = 0 THEN <<>>
                                           ELSE IF s[m] \in S THEN Append(f[m - 1], s[m])
                                           ELSE f[m - 1]]
<1>1. ASSUME NEW m \in Nat PROVE Keeps(s, S, G(m), m)
  BY KeepsExists
<1>2. \A m \in Nat : F[m] = G(m)[m] OBVIOUS
<1>3. F = [m \in Nat |-> F[m]] OBVIOUS
<1> HIDE DEF G, F
<1>4. ASSUME NEW m \in Nat
      PROVE  F[m] = IF m = 0 THEN <<>>
                    ELSE IF s[m] \in S THEN Append(F[m - 1], s[m]) ELSE F[m - 1]
  <2>1. CASE m = 0 BY <1>1, <1>2, <2>1 DEF Keeps
  <2>2. CASE m # 0
    <3>1. m - 1 \in Nat /\ m \in 1..m /\ m - 1 \in 0..m /\ m - 1 <= m - 1 BY <2>2
    <3>2. Keeps(s, S, G(m), m) /\ Keeps(s, S, G(m - 1), m - 1) BY <1>1, <3>1
    <3>3. G(m)[m] = IF s[m] \in S THEN Append(G(m)[m - 1], s[m]) ELSE G(m)[m - 1]
      BY <3>1, <3>2 DEF Keeps
    <3>4. G(m)[m - 1] = G(m - 1)[m - 1] BY <3>1, <3>2, KeepsAgree
    <3> QED BY <1>2, <2>2, <3>1, <3>3, <3>4
  <2> QED BY <2>1, <2>2
<1>5. IsOnly(F) BY <1>3, <1>4
<1> DEFINE K == CHOOSE f : IsOnly(f)
<1>6. IsOnly(K)
  <2> HIDE DEF IsOnly
  <2> QED BY <1>5
<1>7. Only(s, S) = K[Len(s)] BY Zenon DEF Only
<1>8. Keeps(s, S, K, n)
  <2> HIDE DEF K
  <2>1. \A m \in Nat : K[m] = IF m = 0 THEN <<>>
                              ELSE IF s[m] \in S THEN Append(K[m - 1], s[m]) ELSE K[m - 1]
    BY <1>6
  <2> HIDE DEF IsOnly
  <2>2. K[0] = <<>> BY <2>1
  <2>3. \A m \in 1..n : m \in Nat /\ m # 0 OBVIOUS
  <2> QED BY <2>1, <2>2, <2>3 DEF Keeps
<1> QED BY <1>7, <1>8

\* What Only returns: elements of the list and of the set, each as often as it was.
LEMMA OnlyFacts ==
  ASSUME NEW T, NEW s \in Seq(T), NEW S
  PROVE  /\ Only(s, S) \in Seq(T) /\ Len(Only(s, S)) <= Len(s)
         /\ ToSet(Only(s, S)) \subseteq ToSet(s) \cap S
         /\ NoRepeats(s) => NoRepeats(Only(s, S))
<1>1. Len(s) \in Nat OBVIOUS
<1>2. PICK f : Keeps(s, S, f, Len(s)) /\ Only(s, S) = f[Len(s)] BY <1>1, OnlyKeeps
<1> DEFINE Good(n) == /\ f[n] \in Seq(T) /\ Len(f[n]) <= n
                      /\ \A x \in ToSet(f[n]) : x \in S /\ \E j \in 1..n : s[j] = x
                      /\ NoRepeats(s) => NoRepeats(f[n])
           C == {n \in 0..Len(s) : ~Good(n)}
<1>3. Good(0)
  <2>1. f[0] = <<>> BY <1>2 DEF Keeps
  <2>2. ToSet(<<>>) = {} /\ NoRepeats(<<>>) BY DEF ToSet, NoRepeats
  <2> QED BY <2>1, <2>2
<1>4. ASSUME NEW n \in 1..Len(s), Good(n - 1) PROVE Good(n)
  <2>1. f[n] = IF s[n] \in S THEN Append(f[n - 1], s[n]) ELSE f[n - 1] BY <1>2, <1>4 DEF Keeps
  <2>2. s[n] \in T /\ n \in Nat /\ n - 1 \in Nat OBVIOUS
  <2>3. CASE s[n] \notin S BY <1>4, <2>1, <2>2, <2>3
  <2>4. CASE s[n] \in S
    <3>1. f[n] = Append(f[n - 1], s[n]) /\ f[n - 1] \in Seq(T) BY <1>4, <2>1, <2>4
    <3>2. f[n] \in Seq(T) /\ Len(f[n]) <= n BY <1>4, <2>2, <3>1, AppendFacts
    <3>3. ToSet(f[n]) = ToSet(f[n - 1]) \cup {s[n]} BY <2>2, <3>1, AppendFacts
    <3>4. \A x \in ToSet(f[n]) : x \in S /\ \E j \in 1..n : s[j] = x
      BY <1>4, <2>2, <2>4, <3>3
    <3>5. ASSUME NoRepeats(s) PROVE NoRepeats(f[n])
      <4>1. s[n] \notin ToSet(f[n - 1])
        <5> SUFFICES ASSUME s[n] \in ToSet(f[n - 1]) PROVE FALSE
          OBVIOUS
        <5>1. PICK j \in 1..(n - 1) : s[j] = s[n] BY <1>4
        <5> QED BY <1>1, <2>2, <3>5, <5>1 DEF NoRepeats
      <4> QED BY <1>4, <2>2, <3>1, <3>5, <4>1, AppendFacts
    <3> QED BY <3>2, <3>4, <3>5
  <2> QED BY <2>3, <2>4
<1> HIDE DEF Good
<1>5. C = {}
  <2> SUFFICES ASSUME C # {} PROVE FALSE
    OBVIOUS
  <2>1. PICK n \in C : \A m \in C : n <= m
    <3> HIDE DEF C
    <3>1. C \subseteq Nat BY <1>1 DEF C
    <3> QED BY <3>1, NatMin
  <2>2. n \in 0..Len(s) /\ ~Good(n) OBVIOUS
  <2>3. n # 0 BY <1>3, <2>2
  <2>4. n \in 1..Len(s) /\ n - 1 \in 0..Len(s) /\ n - 1 \notin C BY <1>1, <2>1, <2>2, <2>3
  <2>5. Good(n - 1) BY <2>4
  <2> QED BY <1>4, <2>2, <2>4, <2>5
<1>6. Good(Len(s)) BY <1>1, <1>5
<1> QED BY <1>2, <1>6, ToSetFacts DEF Good

LEMMA ConcatFacts ==
  ASSUME NEW T, NEW s \in Seq(T), NEW t \in Seq(T)
  PROVE  /\ s \o t \in Seq(T) /\ ToSet(s \o t) \subseteq ToSet(s) \cup ToSet(t)
         /\ NoRepeats(s) /\ NoRepeats(t) /\ ToSet(s) \cap ToSet(t) = {} => NoRepeats(s \o t)
<1> DEFINE u == s \o t
<1>1. /\ u \in Seq(T) /\ Len(u) = Len(s) + Len(t) /\ Len(s) \in Nat /\ Len(t) \in Nat
      /\ \A i \in 1..Len(u) : u[i] = IF i <= Len(s) THEN s[i] ELSE t[i - Len(s)]
  OBVIOUS
<1> HIDE DEF u
<1>2. ASSUME NEW i \in 1..Len(u)
      PROVE  \/ i \in 1..Len(s) /\ u[i] = s[i]
             \/ i \notin 1..Len(s) /\ i - Len(s) \in 1..Len(t) /\ u[i] = t[i - Len(s)]
  BY <1>1
<1>3. ToSet(u) \subseteq ToSet(s) \cup ToSet(t)
  <2> SUFFICES ASSUME NEW x \in ToSet(u) PROVE x \in ToSet(s) \cup ToSet(t)
    OBVIOUS
  <2>1. PICK i \in 1..Len(u) : u[i] = x BY <1>1, ToSetFacts
  <2> QED BY <1>2, <2>1, ToSetFacts
<1>4. ASSUME NoRepeats(s), NoRepeats(t), ToSet(s) \cap ToSet(t) = {} PROVE NoRepeats(u)
  <2> SUFFICES ASSUME NEW i \in 1..Len(u), NEW j \in 1..Len(u), u[i] = u[j] PROVE i = j
    BY DEF NoRepeats
  <2>1. \A k \in 1..Len(s), l \in 1..Len(t) : s[k] # t[l] BY <1>4, ToSetFacts
  <2>2. CASE i \in 1..Len(s)
    <3>1. u[i] = s[i] /\ j \in 1..Len(s) /\ u[j] = s[j] BY <1>1, <1>2, <2>1, <2>2
    <3> QED BY <1>4, <2>2, <3>1 DEF NoRepeats
  <2>3. CASE i \notin 1..Len(s)
    <3>1. i - Len(s) \in 1..Len(t) /\ u[i] = t[i - Len(s)] BY <1>2, <2>3
    <3>2. j \notin 1..Len(s) BY <1>1, <1>2, <2>1, <3>1
    <3>3. j - Len(s) \in 1..Len(t) /\ u[j] = t[j - Len(s)] BY <1>2, <3>2
    <3>4. i - Len(s) = j - Len(s) BY <1>4, <3>1, <3>3 DEF NoRepeats
    <3> QED BY <1>1, <3>4
  <2> QED BY <2>2, <2>3
<1> QED BY <1>1, <1>3, <1>4 DEF u

-----------------------------------------------------------------------------
(* Deliveries.  A claim is a timestamp, but it is given up before it is stale: at every
   moment a processor has Timeout ticks for each delivery it has left (ClaimsLast). *)

RowsOK ==
  /\ active \in BOOLEAN
  /\ status \in [Deliveries -> {"none", "pending", "delivered", "failed"}]
  /\ attempts \in [Deliveries -> Nat] /\ posts \in [Deliveries -> Nat] /\ troubles \in Nat
  /\ started \in [Deliveries -> 0..Stale]

WorkOK ==
  /\ batch \in [Processors -> Seq(Deliveries)]
  /\ count \in [Processors -> [Deliveries -> Nat]]
  /\ answer \in [Processors -> Answers \cup {None}]
  /\ clock \in [Processors -> 0..Timeout]
  /\ \A p \in Processors : Works(p) \/ clock[p] = 0

QueuesOK ==
  /\ due \in Seq(Deliveries) /\ later \in Seq(Deliveries)
  /\ NoRepeats(due) /\ NoRepeats(later) /\ ToSet(due) \cap ToSet(later) = {}
  /\ \A d \in ToSet(due) \cup ToSet(later) : Pending(d)

InTime(p, d) == started[d] + Len(batch[p]) * Timeout <= ClaimLimit * Timeout + clock[p]

ClaimsLast ==
  \A p \in Processors :
    /\ NoRepeats(batch[p]) /\ Len(batch[p]) <= ClaimLimit
    /\ \A d \in ToSet(batch[p]) : Pending(d) /\ count[p][d] = attempts[d] /\ InTime(p, d)

\* The post of a delivery that may have been received and is not counted yet.
Posting(d) == \E p \in Processors : Works(p) /\ Turn(p) = d /\ answer[p] # None
Uncounted(d) == IF Posting(d) THEN 1 ELSE 0

Counted ==
  \A d \in Deliveries :
    /\ attempts[d] <= MaxAttempts
    /\ status[d] \in {"none", "pending"} => attempts[d] < MaxAttempts
    /\ posts[d] <= attempts[d] + troubles + Uncounted(d)

DeliveryInv == RowsOK /\ WorkOK /\ QueuesOK /\ ClaimsLast /\ OneHolder /\ Counted

LEMMA TimesFacts ==
  ASSUME NEW n \in Nat
  PROVE  /\ n * Timeout \in Nat /\ ClaimLimit * Timeout \in Nat
         /\ n # 0 => n - 1 \in Nat /\ n * Timeout = (n - 1) * Timeout + Timeout
                     /\ (n - 1) * Timeout \in Nat
         /\ n <= ClaimLimit => n * Timeout <= ClaimLimit * Timeout
<1>1. Timeout \in Nat /\ ClaimLimit \in Nat BY DeliveryAssumption
<1>2. n * Timeout \in Nat /\ ClaimLimit * Timeout \in Nat BY <1>1, SMTT(30)
<1>3. ASSUME n # 0 PROVE n - 1 \in Nat /\ (n - 1) * Timeout \in Nat
  <2>1. n - 1 \in Nat BY <1>3
  <2> QED BY <1>1, <2>1, SMTT(30)
<1>4. (n - 1) * Timeout = n * Timeout - Timeout BY <1>1, SMTT(30)
<1>5. n # 0 => n * Timeout = (n - 1) * Timeout + Timeout BY <1>1, <1>2, <1>3, <1>4
<1>6. n <= ClaimLimit => n * Timeout <= ClaimLimit * Timeout BY <1>1, SMTT(30)
<1> QED BY <1>2, <1>3, <1>5, <1>6

LEMMA SelectedFacts ==
  ASSUME QueuesOK
  PROVE  /\ Selected \in Seq(Deliveries) /\ NoRepeats(Selected) /\ Len(Selected) <= ClaimLimit
         /\ ToSet(Selected) \subseteq {d \in ToSet(due) : Free(d)}
<1> DEFINE n == IF Len(due) < ClaimLimit THEN Len(due) ELSE ClaimLimit
           front == SubSeq(due, 1, n)
           S == {d \in Deliveries : Free(d)}
<1>1. due \in Seq(Deliveries) /\ NoRepeats(due) /\ n \in 0..Len(due) /\ n <= ClaimLimit
  BY DeliveryAssumption DEF QueuesOK
<1> HIDE DEF n
<1>2. /\ front \in Seq(Deliveries) /\ Len(front) = n /\ NoRepeats(front)
      /\ ToSet(front) \subseteq ToSet(due)
  BY <1>1, FrontFacts
<1>3. Selected = Only(front, S) BY DEF Selected, n
<1> HIDE DEF front
<1>4. /\ Only(front, S) \in Seq(Deliveries) /\ Len(Only(front, S)) <= n
      /\ ToSet(Only(front, S)) \subseteq ToSet(front) \cap S /\ NoRepeats(Only(front, S))
  BY <1>2, OnlyFacts
<1>5. n \in Nat /\ ClaimLimit \in Nat /\ Len(Only(front, S)) \in Nat BY <1>1, <1>4, DeliveryAssumption
<1> QED BY <1>1, <1>2, <1>3, <1>4, <1>5

LEMMA GoneFacts ==
  ASSUME NEW q \in Seq(Deliveries), NEW d \in Deliveries
  PROVE  /\ Gone(d, q) \in Seq(Deliveries) /\ ToSet(Gone(d, q)) \subseteq ToSet(q) \ {d}
         /\ NoRepeats(q) => NoRepeats(Gone(d, q))
BY OnlyFacts DEF Gone

\* What a processor is at.
LEMMA TurnFacts ==
  ASSUME DeliveryInv, NEW p \in Processors, Works(p)
  PROVE  /\ Turn(p) \in Deliveries /\ Turn(p) \in ToSet(batch[p]) /\ Pending(Turn(p))
         /\ \A q \in Processors : Turn(p) \in ToSet(batch[q]) => q = p
         /\ Tail(batch[p]) \in Seq(Deliveries) /\ Len(Tail(batch[p])) = Len(batch[p]) - 1
         /\ Len(batch[p]) \in Nat \ {0} /\ NoRepeats(Tail(batch[p]))
         /\ ToSet(Tail(batch[p])) \subseteq ToSet(batch[p]) \ {Turn(p)}
<1>1. batch[p] \in Seq(Deliveries) /\ batch[p] # <<>> BY DEF DeliveryInv, WorkOK, Works
<1>2. NoRepeats(batch[p]) BY DEF DeliveryInv, ClaimsLast
<1>3. /\ Turn(p) \in ToSet(batch[p]) /\ Turn(p) \in Deliveries
      /\ Tail(batch[p]) \in Seq(Deliveries) /\ Len(Tail(batch[p])) = Len(batch[p]) - 1
      /\ Len(batch[p]) \in Nat \ {0} /\ NoRepeats(Tail(batch[p]))
      /\ ToSet(Tail(batch[p])) \subseteq ToSet(batch[p])
      /\ Turn(p) \notin ToSet(Tail(batch[p]))
  BY <1>1, <1>2, TailFacts DEF Turn
<1>4. Pending(Turn(p)) BY <1>3 DEF DeliveryInv, ClaimsLast
<1>5. \A q \in Processors : Turn(p) \in ToSet(batch[q]) => q = p
  BY <1>3 DEF DeliveryInv, OneHolder, Holders
<1> QED BY <1>3, <1>4, <1>5

LEMMA HeldFacts ==
  ASSUME DeliveryInv, NEW p \in Processors, NEW d \in ToSet(batch[p])
  PROVE  d \in Deliveries /\ Pending(d) /\ started[d] < Stale
<1>1. batch[p] \in Seq(Deliveries) BY DEF DeliveryInv, WorkOK
<1>2. d \in Deliveries BY <1>1, ToSetFacts
<1>3. Pending(d) /\ InTime(p, d) /\ Len(batch[p]) <= ClaimLimit BY DEF DeliveryInv, ClaimsLast
<1>4. PICK i \in 1..Len(batch[p]) : batch[p][i] = d BY <1>1, ToSetFacts
<1>5. Len(batch[p]) \in Nat \ {0} BY <1>1, <1>4
<1> DEFINE n == Len(batch[p])
           P == (n - 1) * Timeout
           A == n * Timeout
           C == ClaimLimit * Timeout
<1>6. A = P + Timeout /\ P \in Nat /\ C \in Nat /\ A \in Nat
  BY <1>5, TimesFacts
<1>7. started[d] \in 0..Stale /\ clock[p] \in 0..Timeout
  BY <1>2 DEF DeliveryInv, RowsOK, WorkOK
<1>8. started[d] + A <= C + clock[p] BY <1>3 DEF InTime
<1>9. C < Stale /\ Timeout \in Nat /\ Stale \in Nat BY DeliveryAssumption
<1> HIDE DEF n, P, A, C
<1>10. started[d] < Stale BY <1>6, <1>7, <1>8, <1>9
<1> QED BY <1>2, <1>3, <1>10

LEMMA InitDeliveries == DeliveryInit => DeliveryInv
<1> SUFFICES ASSUME DeliveryInit PROVE DeliveryInv
  OBVIOUS
<1> USE DeliveryAssumption DEF DeliveryInit
<1>1. \A q \in {<<>>} : q \in Seq(Deliveries) /\ NoRepeats(q) /\ ToSet(q) = {} /\ Len(q) = 0
  BY DEF NoRepeats, ToSet
<1>2. RowsOK BY DEF RowsOK
<1>3. WorkOK BY <1>1 DEF WorkOK
<1>4. QueuesOK BY <1>1 DEF QueuesOK
<1>5. ClaimsLast BY <1>1 DEF ClaimsLast
<1>6. OneHolder BY <1>1 DEF OneHolder, Holders
<1>7. \A d \in Deliveries : Uncounted(d) = 0 BY DEF Uncounted, Posting, Works
<1>8. Counted BY <1>7 DEF Counted
<1> QED BY <1>2, <1>3, <1>4, <1>5, <1>6, <1>8 DEF DeliveryInv

\* A step that leaves the batches, their claims and what was counted.
LEMMA ClaimsStay ==
  ASSUME DeliveryInv, UNCHANGED <<attempts, started, batch, count, clock>>,
         \A d \in Deliveries : Pending(d) => Pending(d)'
  PROVE  ClaimsLast' /\ OneHolder'
<1>1. ClaimsLast'
  <2> SUFFICES ASSUME NEW p \in Processors
               PROVE  /\ NoRepeats(batch[p]') /\ Len(batch[p]') <= ClaimLimit
                      /\ \A d \in ToSet(batch[p]') :
                            Pending(d)' /\ count'[p][d] = attempts'[d] /\ InTime(p, d)'
    BY DEF ClaimsLast
  <2>1. NoRepeats(batch[p]) /\ Len(batch[p]) <= ClaimLimit BY DEF DeliveryInv, ClaimsLast
  <2>2. ASSUME NEW d \in ToSet(batch[p])
        PROVE  Pending(d)' /\ count'[p][d] = attempts'[d] /\ InTime(p, d)'
    <3>1. Pending(d)' BY HeldFacts
    <3>2. count[p][d] = attempts[d] /\ InTime(p, d) BY DEF DeliveryInv, ClaimsLast
    <3> QED BY <3>1, <3>2 DEF InTime
  <2> QED BY <2>1, <2>2
<1>2. OneHolder' BY DEF DeliveryInv, OneHolder, Holders
<1> QED BY <1>1, <1>2

LEMMA StepEnqueue ==
  ASSUME DeliveryInv, NEW d \in Deliveries, Enqueue(d) PROVE DeliveryInv'
<1> USE DEF Enqueue, rowVars, workVars
<1>1. RowsOK' BY DEF DeliveryInv, RowsOK
<1>2. WorkOK' BY DEF DeliveryInv, WorkOK, Works
<1>3. status[d] = "none" /\ \A e \in Deliveries \ {d} : status'[e] = status[e]
  BY DEF DeliveryInv, RowsOK
<1>4. status'[d] = "pending" BY DEF DeliveryInv, RowsOK
<1>5. \A e \in Deliveries : Pending(e) => Pending(e)' BY <1>3, <1>4 DEF Pending
<1>6. QueuesOK'
  <2>1. /\ due \in Seq(Deliveries) /\ later \in Seq(Deliveries)
        /\ NoRepeats(due) /\ NoRepeats(later) /\ ToSet(due) \cap ToSet(later) = {}
        /\ \A e \in ToSet(due) \cup ToSet(later) : Pending(e)
    BY DEF DeliveryInv, QueuesOK
  <2>2. d \notin ToSet(due) \cup ToSet(later) BY <1>3, <2>1 DEF Pending
  <2>3. due' \in Seq(Deliveries) /\ NoRepeats(due') /\ ToSet(due') = ToSet(due) \cup {d}
    BY <2>1, <2>2, AppendFacts
  <2>4. ToSet(due) \cup ToSet(later) \subseteq Deliveries BY <2>1, ToSetFacts
  <2>5. \A e \in ToSet(due') \cup ToSet(later) : Pending(e)'
    BY <1>4, <1>5, <2>1, <2>3, <2>4 DEF Pending
  <2> QED BY <2>1, <2>2, <2>3, <2>5 DEF QueuesOK
<1>7. ClaimsLast' /\ OneHolder' BY <1>5, ClaimsStay
<1>8. Counted'
  <2>1. \A e \in Deliveries : Uncounted(e)' = Uncounted(e) BY DEF Uncounted, Posting, Works, Turn
  <2> QED BY <1>3, <1>4, <2>1 DEF DeliveryInv, Counted
<1> QED BY <1>1, <1>2, <1>6, <1>7, <1>8 DEF DeliveryInv

LEMMA StepDeactivate == ASSUME DeliveryInv, Deactivate PROVE DeliveryInv'
<1> USE DEF Deactivate, rowVars, workVars
<1>1. RowsOK' BY DEF DeliveryInv, RowsOK
<1>2. WorkOK' BY DEF DeliveryInv, WorkOK, Works
<1>3. \A e \in Deliveries : Pending(e)' <=> Pending(e) BY DEF Pending
<1>4. QueuesOK'
  <2>1. QueuesOK BY DEF DeliveryInv
  <2>2. UNCHANGED <<due, later, status>> OBVIOUS
  <2> QED BY <2>1, <2>2 DEF QueuesOK, Pending
<1>5. ClaimsLast' /\ OneHolder' BY <1>3, ClaimsStay
<1>6. \A e \in Deliveries : Uncounted(e)' = Uncounted(e) BY DEF Uncounted, Posting, Works, Turn
<1>7. Counted' BY <1>6 DEF DeliveryInv, Counted
<1> QED BY <1>1, <1>2, <1>4, <1>5, <1>7 DEF DeliveryInv

LEMMA StepClaim ==
  ASSUME DeliveryInv, NEW p \in Processors, Claim(p) PROVE DeliveryInv'
<1> USE DEF Claim, rowVars
<1>1. /\ Selected \in Seq(Deliveries) /\ NoRepeats(Selected) /\ Len(Selected) <= ClaimLimit
      /\ ToSet(Selected) \subseteq {d \in ToSet(due) : Free(d)}
  BY SelectedFacts DEF DeliveryInv
<1>2. /\ batch' = [batch EXCEPT ![p] = Selected] /\ Selected # <<>> /\ ~Works(p)
      /\ count' = [count EXCEPT ![p] = [d \in Deliveries |->
                                          IF d \in ToSet(Selected) THEN attempts[d] ELSE 0]]
      /\ started' = [d \in Deliveries |-> IF d \in ToSet(Selected) THEN 0 ELSE started[d]]
      /\ UNCHANGED <<active, status, attempts, delivered, due, later, answer, clock, posts,
                     troubles>>
  OBVIOUS
<1>3. ASSUME NEW d \in ToSet(Selected)
      PROVE  /\ d \in Deliveries /\ Pending(d) /\ started[d] = Stale
             /\ \A q \in Processors : d \notin ToSet(batch[q])
  <2>1. d \in ToSet(due) /\ Free(d) BY <1>1
  <2>2. d \in Deliveries /\ Pending(d) BY <1>1, <2>1, ToSetFacts DEF DeliveryInv, QueuesOK
  <2>3. started[d] = Stale BY <2>1 DEF Free
  <2>4. ASSUME NEW q \in Processors, d \in ToSet(batch[q]) PROVE FALSE
    <3>1. started[d] < Stale BY <2>4, HeldFacts
    <3> QED BY <2>3, <3>1, DeliveryAssumption
  <2> QED BY <2>2, <2>3, <2>4
<1> DEFINE sel == Selected
<1> HIDE DEF Claim
<1>4. /\ sel \in Seq(Deliveries) /\ NoRepeats(sel) /\ Len(sel) <= ClaimLimit /\ sel # <<>>
      /\ batch' = [batch EXCEPT ![p] = sel]
      /\ count' = [count EXCEPT ![p] = [d \in Deliveries |->
                                          IF d \in ToSet(sel) THEN attempts[d] ELSE 0]]
      /\ started' = [d \in Deliveries |-> IF d \in ToSet(sel) THEN 0 ELSE started[d]]
      /\ \A d \in ToSet(sel) : /\ d \in Deliveries /\ Pending(d)
                               /\ \A q \in Processors : d \notin ToSet(batch[q])
  BY <1>1, <1>2, <1>3
<1> HIDE DEF sel
<1>5. RowsOK' BY <1>2, <1>4, DeliveryAssumption DEF DeliveryInv, RowsOK
<1>6. batch \in [Processors -> Seq(Deliveries)] BY DEF DeliveryInv, WorkOK
<1>7. batch'[p] = sel /\ \A q \in Processors \ {p} : batch'[q] = batch[q] BY <1>4, <1>6
<1>8. WorkOK'
  <2>1. attempts \in [Deliveries -> Nat] BY DEF DeliveryInv, RowsOK
  <2>2. count' \in [Processors -> [Deliveries -> Nat]] BY <1>4, <2>1 DEF DeliveryInv, WorkOK
  <2>3. batch' \in [Processors -> Seq(Deliveries)] BY <1>4, <1>6
  <2>4. \A q \in Processors : Works(q)' \/ clock'[q] = 0
    BY <1>2, <1>4, <1>7 DEF DeliveryInv, WorkOK, Works
  <2> QED BY <1>2, <2>2, <2>3, <2>4 DEF DeliveryInv, WorkOK
<1>9. QueuesOK'
  <2>1. UNCHANGED <<due, later, status>> BY <1>2
  <2> QED BY <2>1 DEF DeliveryInv, QueuesOK, Pending
<1>10. ClaimsLast'
  <2> SUFFICES ASSUME NEW q \in Processors
               PROVE  /\ NoRepeats(batch'[q]) /\ Len(batch'[q]) <= ClaimLimit
                      /\ \A d \in ToSet(batch'[q]) :
                            Pending(d)' /\ count'[q][d] = attempts'[d] /\ InTime(q, d)'
    BY DEF ClaimsLast
  <2>1. CASE q = p
    <3>1. NoRepeats(batch'[q]) /\ Len(batch'[q]) <= ClaimLimit BY <1>4, <1>7, <2>1
    <3>2. ASSUME NEW d \in ToSet(sel)
          PROVE  Pending(d)' /\ count'[q][d] = attempts'[d] /\ InTime(q, d)'
      <4>1. d \in Deliveries /\ Pending(d)' BY <1>2, <1>4 DEF Pending
      <4>2. count'[q][d] = attempts'[d]
        BY <1>2, <1>4, <2>1, <4>1 DEF DeliveryInv, WorkOK
      <4>3. started'[d] = 0 BY <1>4, <4>1
      <4>4. clock'[q] \in Nat BY <1>8 DEF WorkOK
      <4>5. Len(sel) \in Nat BY <1>4
      <4>6. Len(sel) * Timeout <= ClaimLimit * Timeout /\ Len(sel) * Timeout \in Nat
            /\ ClaimLimit * Timeout \in Nat
        BY <1>4, <4>5, TimesFacts
      <4> DEFINE L == Len(sel) * Timeout
                 C == ClaimLimit * Timeout
      <4>7. L <= C /\ L \in Nat /\ C \in Nat BY <4>6
      <4>8. InTime(q, d)' <=> started'[d] + L <= C + clock'[q] BY <1>7, <2>1 DEF InTime
      <4> HIDE DEF L, C
      <4>9. InTime(q, d)' BY <4>3, <4>4, <4>7, <4>8
      <4> QED BY <4>1, <4>2, <4>9
    <3> QED BY <1>7, <2>1, <3>1, <3>2
  <2>2. CASE q # p
    <3>1. batch'[q] = batch[q] BY <1>7, <2>2
    <3>2. NoRepeats(batch[q]) /\ Len(batch[q]) <= ClaimLimit BY DEF DeliveryInv, ClaimsLast
    <3>3. ASSUME NEW d \in ToSet(batch[q])
          PROVE  Pending(d)' /\ count'[q][d] = attempts'[d] /\ InTime(q, d)'
      <4>1. d \in Deliveries /\ Pending(d) BY HeldFacts
      <4>2. count[q][d] = attempts[d] /\ InTime(q, d) BY DEF DeliveryInv, ClaimsLast
      <4>3. started'[d] = started[d] BY <1>4, <4>1
      <4>4. count'[q] = count[q] BY <1>4, <2>2 DEF DeliveryInv, WorkOK
      <4>5. Pending(d)' BY <1>2, <4>1 DEF Pending
      <4>6. InTime(q, d)' BY <1>2, <3>1, <4>2, <4>3 DEF InTime
      <4> QED BY <1>2, <4>2, <4>4, <4>5, <4>6
    <3> QED BY <3>1, <3>2, <3>3
  <2> QED BY <2>1, <2>2
<1>11. OneHolder'
  <2> SUFFICES ASSUME NEW d \in Deliveries, NEW q \in Processors, NEW r \in Processors,
                      d \in ToSet(batch'[q]), d \in ToSet(batch'[r])
               PROVE  q = r
    BY DEF OneHolder, Holders
  <2>1. CASE q # p /\ r # p
    <3>1. d \in ToSet(batch[q]) /\ d \in ToSet(batch[r]) BY <1>7, <2>1
    <3> QED BY <3>1 DEF DeliveryInv, OneHolder, Holders
  <2>2. CASE q = p \/ r = p BY <1>4, <1>7, <2>2
  <2> QED BY <2>1, <2>2
<1>12. Counted'
  <2>1. ASSUME NEW d \in Deliveries, Posting(d) PROVE Posting(d)'
    <3>1. PICK q \in Processors : Works(q) /\ Turn(q) = d /\ answer[q] # None
      BY <2>1 DEF Posting
    <3>2. q # p BY <1>2, <3>1
    <3>3. batch'[q] = batch[q] /\ answer'[q] = answer[q] BY <1>2, <1>7, <3>2
    <3> QED BY <3>1, <3>3 DEF Posting, Works, Turn
  <2>2. \A d \in Deliveries : Uncounted(d) \in {0, 1} /\ Uncounted(d)' \in {0, 1}
    BY DEF Uncounted
  <2>3. \A d \in Deliveries : Uncounted(d) <= Uncounted(d)' BY <2>1, <2>2 DEF Uncounted
  <2>4. \A d \in Deliveries : attempts[d] \in Nat /\ posts[d] \in Nat /\ troubles \in Nat
    BY DEF DeliveryInv, RowsOK
  <2>5. UNCHANGED <<status, attempts, posts, troubles>> BY <1>2
  <2> HIDE DEF Uncounted
  <2> QED BY <2>2, <2>3, <2>4, <2>5 DEF DeliveryInv, Counted
<1> QED BY <1>5, <1>8, <1>9, <1>10, <1>11, <1>12 DEF DeliveryInv

LEMMA StepPost ==
  ASSUME DeliveryInv, NEW p \in Processors, Post(p) PROVE DeliveryInv'
<1> USE DEF Post, rowVars
<1>1. /\ UNCHANGED <<active, status, attempts, delivered, due, later, started, batch, count,
                     clock, troubles>>
      /\ Works(p) /\ answer[p] = None
  OBVIOUS
<1>2. PICK a \in Answers : answer' = [answer EXCEPT ![p] = a] BY DEF Answers
<1>3. posts' = posts \/ posts' = [posts EXCEPT ![Turn(p)] = @ + 1] OBVIOUS
<1> HIDE DEF Post
<1> PICK d \in Deliveries : d = Turn(p) BY <1>1, TurnFacts
<1>4. posts' = posts \/ posts' = [posts EXCEPT ![d] = @ + 1] BY <1>3
<1>5. RowsOK' BY <1>1, <1>4 DEF DeliveryInv, RowsOK
<1>6. WorkOK' BY <1>1, <1>2 DEF DeliveryInv, WorkOK, Works
<1>7. QueuesOK' BY <1>1 DEF DeliveryInv, QueuesOK, Pending
<1>8. ClaimsLast' /\ OneHolder' BY <1>1, ClaimsStay DEF Pending
<1>9. answer'[p] # None /\ \A q \in Processors \ {p} : answer'[q] = answer[q]
  BY <1>2, DeliveryAssumption DEF DeliveryInv, WorkOK
<1>10. Counted'
  <2>1. ~Posting(d)
    <3> SUFFICES ASSUME NEW q \in Processors, Works(q), Turn(q) = d, answer[q] # None
                 PROVE  FALSE
      BY DEF Posting
    <3>1. Turn(q) \in ToSet(batch[q]) BY TurnFacts
    <3>2. \A r \in Processors : d \in ToSet(batch[r]) => r = p BY <1>1, TurnFacts
    <3> QED BY <1>1, <3>1, <3>2
  <2>2. Posting(d)' BY <1>1, <1>9 DEF Posting, Works, Turn
  <2>3. ASSUME NEW e \in Deliveries, Posting(e) PROVE Posting(e)'
    <3>1. PICK q \in Processors : Works(q) /\ Turn(q) = e /\ answer[q] # None
      BY <2>3 DEF Posting
    <3>2. q # p BY <1>1, <3>1
    <3> QED BY <1>1, <1>9, <3>1, <3>2 DEF Posting, Works, Turn
  <2>4. \A e \in Deliveries : Uncounted(e) \in {0, 1} /\ Uncounted(e)' \in {0, 1}
    BY DEF Uncounted
  <2>5. \A e \in Deliveries : Uncounted(e) <= Uncounted(e)' BY <2>3, <2>4 DEF Uncounted
  <2>6. Uncounted(d) = 0 /\ Uncounted(d)' = 1 BY <2>1, <2>2 DEF Uncounted
  <2>7. \A e \in Deliveries : attempts[e] \in Nat /\ posts[e] \in Nat /\ troubles \in Nat
    BY DEF DeliveryInv, RowsOK
  <2>8. \A e \in Deliveries :
           posts'[e] = posts[e] \/ (e = d /\ posts'[e] = posts[e] + 1)
    BY <1>4 DEF DeliveryInv, RowsOK
  <2> SUFFICES ASSUME NEW e \in Deliveries
               PROVE  posts'[e] <= attempts[e] + troubles + Uncounted(e)'
    BY <1>1 DEF DeliveryInv, Counted
  <2>9. posts[e] <= attempts[e] + troubles + Uncounted(e) BY DEF DeliveryInv, Counted
  <2> HIDE DEF Uncounted
  <2>10. CASE posts'[e] = posts[e] BY <2>4, <2>5, <2>7, <2>9, <2>10
  <2>11. CASE e = d /\ posts'[e] = posts[e] + 1
    BY <2>4, <2>6, <2>7, <2>9, <2>11
  <2> QED BY <2>8, <2>10, <2>11
<1> QED BY <1>5, <1>6, <1>7, <1>8, <1>10 DEF DeliveryInv

\* What a record leaves behind: the outcome, counted.
LEMMA VerdictFacts ==
  ASSUME DeliveryInv, NEW p \in Processors, Works(p)
  PROVE  /\ Verdict(p) \in {"pending", "delivered", "failed"}
         /\ attempts[Turn(p)] \in Nat /\ attempts[Turn(p)] < MaxAttempts
         /\ Verdict(p) = "pending" => attempts[Turn(p)] + 1 < MaxAttempts
<1>1. /\ Turn(p) \in Deliveries /\ Turn(p) \in ToSet(batch[p]) /\ Pending(Turn(p))
  BY TurnFacts
<1>2. attempts[Turn(p)] \in Nat BY <1>1 DEF DeliveryInv, RowsOK
<1>3. attempts[Turn(p)] < MaxAttempts BY <1>1 DEF DeliveryInv, Counted, Pending
<1>4. count[p][Turn(p)] = attempts[Turn(p)] BY <1>1 DEF DeliveryInv, ClaimsLast
<1> QED BY <1>2, <1>3, <1>4 DEF Verdict

LEMMA StepRecordAttempt ==
  ASSUME DeliveryInv, NEW p \in Processors, RecordAttempt(p) PROVE DeliveryInv'
<1>0. Works(p) BY DEF RecordAttempt
<1> PICK d \in Deliveries : d = Turn(p) BY <1>0, TurnFacts
<1> USE DEF RecordAttempt, Proceeds
<1>1. /\ Works(p) /\ answer[p] # None
      /\ status' = [status EXCEPT ![d] = Verdict(p)]
      /\ attempts' = [attempts EXCEPT ![d] = @ + 1]
      /\ due' = Gone(d, due) /\ later' = Postponed(d, Verdict(p))
      /\ started' = [started EXCEPT ![d] = Stale]
      /\ batch' = [batch EXCEPT ![p] = Tail(@)]
      /\ answer' = [answer EXCEPT ![p] = None]
      /\ clock' = [clock EXCEPT ![p] = 0]
      /\ count' = [count EXCEPT ![p][d] = 0]
      /\ UNCHANGED <<active, posts, troubles>>
  OBVIOUS
<1> HIDE DEF RecordAttempt, Proceeds
<1> DEFINE rest == Tail(batch[p])
<1>2. /\ \A q \in Processors : d \in ToSet(batch[q]) => q = p
      /\ rest \in Seq(Deliveries) /\ Len(rest) = Len(batch[p]) - 1
      /\ Len(batch[p]) \in Nat \ {0} /\ NoRepeats(rest)
      /\ ToSet(rest) \subseteq ToSet(batch[p]) \ {d}
  BY <1>0, TurnFacts
<1>3. /\ Verdict(p) \in {"pending", "delivered", "failed"}
      /\ attempts[d] \in Nat /\ attempts[d] < MaxAttempts
      /\ Verdict(p) = "pending" => attempts[d] + 1 < MaxAttempts
  BY <1>0, VerdictFacts
<1> HIDE DEF rest
<1>4. RowsOK'
  <2>1. Stale \in 0..Stale BY DeliveryAssumption
  <2>2. started' \in [Deliveries -> 0..Stale] BY <1>1, <2>1 DEF DeliveryInv, RowsOK
  <2>3. attempts' \in [Deliveries -> Nat] BY <1>1, <1>3 DEF DeliveryInv, RowsOK
  <2>4. status' \in [Deliveries -> {"none", "pending", "delivered", "failed"}]
    BY <1>1, <1>3 DEF DeliveryInv, RowsOK
  <2> QED BY <1>1, <2>2, <2>3, <2>4 DEF DeliveryInv, RowsOK
<1>5. batch \in [Processors -> Seq(Deliveries)] BY DEF DeliveryInv, WorkOK
<1>6. batch'[p] = rest /\ \A q \in Processors \ {p} : batch'[q] = batch[q]
  BY <1>1, <1>5 DEF rest
<1>7. WorkOK'
  <2>1. batch' \in [Processors -> Seq(Deliveries)] BY <1>1, <1>2, <1>5 DEF rest
  <2>2. count' \in [Processors -> [Deliveries -> Nat]] BY <1>1, <1>2 DEF DeliveryInv, WorkOK
  <2>3. answer' \in [Processors -> Answers \cup {None}] BY <1>1 DEF DeliveryInv, WorkOK
  <2>4. clock' \in [Processors -> 0..Timeout]
    <3>1. clock \in [Processors -> 0..Timeout] BY DEF DeliveryInv, WorkOK
    <3>2. 0 \in 0..Timeout BY DeliveryAssumption
    <3>3. clock' = [clock EXCEPT ![p] = 0] BY <1>1
    <3> QED BY <3>1, <3>2, <3>3
  <2>5. \A q \in Processors : Works(q)' \/ clock'[q] = 0
    BY <1>1, <1>6 DEF DeliveryInv, WorkOK, Works
  <2> QED BY <2>1, <2>2, <2>3, <2>4, <2>5 DEF WorkOK
<1>8. status'[d] = Verdict(p) /\ \A e \in Deliveries \ {d} : status'[e] = status[e]
  BY <1>1, <1>2 DEF DeliveryInv, RowsOK
<1>9. QueuesOK'
  <2>1. /\ due \in Seq(Deliveries) /\ later \in Seq(Deliveries)
        /\ NoRepeats(due) /\ NoRepeats(later) /\ ToSet(due) \cap ToSet(later) = {}
        /\ \A e \in ToSet(due) \cup ToSet(later) : Pending(e)
    BY DEF DeliveryInv, QueuesOK
  <2>2. ToSet(due) \cup ToSet(later) \subseteq Deliveries BY <2>1, ToSetFacts
  <2>3. /\ due' \in Seq(Deliveries) /\ ToSet(due') \subseteq ToSet(due) \ {d} /\ NoRepeats(due')
    BY <1>1, <1>2, <2>1, GoneFacts
  <2> DEFINE others == Gone(d, later)
  <2>4. others \in Seq(Deliveries) /\ ToSet(others) \subseteq ToSet(later) \ {d} /\ NoRepeats(others)
    BY <1>2, <2>1, GoneFacts
  <2>5. later' = IF Verdict(p) = "pending" THEN Append(others, d) ELSE others
    BY <1>1 DEF Postponed
  <2> HIDE DEF others
  <2>6. CASE Verdict(p) = "pending"
    <3>1. d \notin ToSet(others) BY <2>4
    <3>2. /\ later' \in Seq(Deliveries) /\ NoRepeats(later')
          /\ ToSet(later') = ToSet(others) \cup {d}
      BY <1>2, <2>4, <2>5, <2>6, <3>1, AppendFacts
    <3>3. \A e \in ToSet(due') \cup ToSet(later') : Pending(e)'
      BY <1>8, <2>1, <2>2, <2>3, <2>4, <2>6, <3>2 DEF Pending
    <3> QED BY <2>1, <2>3, <2>4, <3>2, <3>3 DEF QueuesOK
  <2>7. CASE Verdict(p) # "pending"
    <3>1. later' = others BY <2>5, <2>7
    <3>2. \A e \in ToSet(due') \cup ToSet(later') : Pending(e)'
      BY <1>8, <2>1, <2>2, <2>3, <2>4, <3>1 DEF Pending
    <3> QED BY <2>1, <2>3, <2>4, <3>1, <3>2 DEF QueuesOK
  <2> QED BY <2>6, <2>7
<1>10. ASSUME NEW q \in Processors, NEW e \in ToSet(batch'[q])
       PROVE  /\ e \in ToSet(batch[q]) /\ e # d /\ e \in Deliveries /\ Pending(e)
              /\ started'[e] = started[e] /\ attempts'[e] = attempts[e]
              /\ count'[q][e] = count[q][e] /\ Pending(e)'
  <2>1. e \in ToSet(batch[q]) /\ e # d
    BY <1>2, <1>6, <1>10
  <2>2. e \in Deliveries /\ Pending(e) BY <2>1, HeldFacts
  <2>3. started'[e] = started[e] /\ attempts'[e] = attempts[e]
    BY <1>1, <2>1, <2>2 DEF DeliveryInv, RowsOK
  <2>4. count'[q][e] = count[q][e] BY <1>1, <2>1, <2>2 DEF DeliveryInv, WorkOK
  <2>5. Pending(e)' BY <1>8, <2>1, <2>2 DEF Pending
  <2> QED BY <2>1, <2>2, <2>3, <2>4, <2>5
<1>11. ClaimsLast'
  <2> SUFFICES ASSUME NEW q \in Processors
               PROVE  /\ NoRepeats(batch'[q]) /\ Len(batch'[q]) <= ClaimLimit
                      /\ \A e \in ToSet(batch'[q]) :
                            Pending(e)' /\ count'[q][e] = attempts'[e] /\ InTime(q, e)'
    BY DEF ClaimsLast
  <2>1. /\ NoRepeats(batch[q]) /\ Len(batch[q]) <= ClaimLimit
        /\ \A e \in ToSet(batch[q]) : count[q][e] = attempts[e] /\ InTime(q, e)
    BY DEF DeliveryInv, ClaimsLast
  <2>2. NoRepeats(batch'[q]) /\ Len(batch'[q]) <= ClaimLimit
    <3>1. CASE q = p
      <4>1. ClaimLimit \in Nat BY DeliveryAssumption
      <4>2. Len(batch'[q]) <= ClaimLimit BY <1>2, <1>6, <2>1, <3>1, <4>1
      <4> QED BY <1>2, <1>6, <3>1, <4>2
    <3>2. CASE q # p
      <4>1. batch'[q] = batch[q] BY <1>6, <3>2
      <4> QED BY <2>1, <4>1
    <3> QED BY <3>1, <3>2
  <2>3. ASSUME NEW e \in ToSet(batch'[q]) PROVE InTime(q, e)'
    <3>1. started'[e] = started[e] /\ InTime(q, e) /\ e \in Deliveries BY <1>10, <2>1
    <3>2. CASE q # p
      <4>1. clock'[q] = clock[q] BY <1>1, <3>2 DEF DeliveryInv, WorkOK
      <4> QED BY <1>6, <3>1, <3>2, <4>1 DEF InTime
    <3>3. CASE q = p
      <4>1. clock'[p] = 0 BY <1>1 DEF DeliveryInv, WorkOK
      <4>2. clock[p] \in 0..Timeout /\ started[e] \in Nat
        BY <3>1 DEF DeliveryInv, WorkOK, RowsOK
      <4> DEFINE n == Len(batch[p])
                 P == (n - 1) * Timeout
                 A == n * Timeout
                 C == ClaimLimit * Timeout
      <4>3. A = P + Timeout /\ A \in Nat /\ P \in Nat /\ C \in Nat /\ Timeout \in Nat
        <5>1. n \in Nat /\ n # 0 BY <1>2
        <5>2. Timeout \in Nat BY DeliveryAssumption
        <5> HIDE DEF n
        <5> QED BY <5>1, <5>2, TimesFacts
      <4>4. Len(batch'[p]) = n - 1 BY <1>2, <1>6
      <4>5. InTime(p, e)' <=> started'[e] + P <= C + clock'[p] BY <4>4 DEF InTime
      <4>6. started[e] + A <= C + clock[p] BY <3>1, <3>3 DEF InTime
      <4> HIDE DEF n, P, A, C
      <4>7. started[e] + P <= C BY <4>2, <4>3, <4>6
      <4>8. InTime(p, e)' BY <3>1, <4>1, <4>2, <4>3, <4>5, <4>7
      <4> QED BY <3>3, <4>8
    <3> QED BY <3>2, <3>3
  <2> QED BY <1>10, <2>1, <2>2, <2>3
<1>12. OneHolder' BY <1>10 DEF DeliveryInv, OneHolder, Holders
<1>13. Counted'
  <2>1. Posting(d) BY <1>1 DEF Posting
  <2>2. ASSUME NEW e \in Deliveries \ {d}, Posting(e) PROVE Posting(e)'
    <3>1. PICK q \in Processors : Works(q) /\ Turn(q) = e /\ answer[q] # None
      BY <2>2 DEF Posting
    <3>2. q # p BY <3>1
    <3>3. batch'[q] = batch[q] /\ answer'[q] = answer[q]
      BY <1>1, <1>6, <3>2 DEF DeliveryInv, WorkOK
    <3> QED BY <3>1, <3>3 DEF Posting, Works, Turn
  <2>3. \A e \in Deliveries : Uncounted(e) \in {0, 1} /\ Uncounted(e)' \in {0, 1}
    BY DEF Uncounted
  <2>4. \A e \in Deliveries \ {d} : Uncounted(e) <= Uncounted(e)'
    BY <2>2, <2>3 DEF Uncounted
  <2>5. Uncounted(d) = 1 BY <2>1 DEF Uncounted
  <2>6. attempts'[d] = attempts[d] + 1 /\ \A e \in Deliveries \ {d} : attempts'[e] = attempts[e]
    BY <1>1, <1>2 DEF DeliveryInv, RowsOK
  <2>7. \A e \in Deliveries : attempts[e] \in Nat /\ posts[e] \in Nat /\ troubles \in Nat
    BY DEF DeliveryInv, RowsOK
  <2> SUFFICES ASSUME NEW e \in Deliveries
               PROVE  /\ attempts'[e] <= MaxAttempts
                      /\ status'[e] \in {"none", "pending"} => attempts'[e] < MaxAttempts
                      /\ posts'[e] <= attempts'[e] + troubles' + Uncounted(e)'
    BY DEF Counted
  <2>8. /\ attempts[e] <= MaxAttempts
        /\ status[e] \in {"none", "pending"} => attempts[e] < MaxAttempts
        /\ posts[e] <= attempts[e] + troubles + Uncounted(e)
    BY DEF DeliveryInv, Counted
  <2> HIDE DEF Uncounted
  <2>9. posts'[e] <= attempts'[e] + troubles' + Uncounted(e)'
    <3>1. posts'[e] = posts[e] /\ troubles' = troubles BY <1>1
    <3>2. CASE e = d BY <2>3, <2>5, <2>6, <2>7, <2>8, <3>1, <3>2
    <3>3. CASE e # d BY <2>3, <2>4, <2>6, <2>7, <2>8, <3>1, <3>3
    <3> QED BY <3>2, <3>3
  <2>10. MaxAttempts \in Nat BY DeliveryAssumption
  <2>11. CASE e = d BY <1>3, <1>8, <2>6, <2>7, <2>9, <2>10, <2>11
  <2>12. CASE e # d BY <1>8, <2>6, <2>8, <2>9, <2>12
  <2> QED BY <2>11, <2>12
<1> QED BY <1>4, <1>7, <1>9, <1>11, <1>12, <1>13 DEF DeliveryInv

LEMMA StepRecordFails ==
  ASSUME DeliveryInv, NEW p \in Processors, RecordFails(p) PROVE DeliveryInv'
<1> USE DEF RecordFails, rowVars, Trouble
<1>1. /\ UNCHANGED <<active, status, attempts, delivered, due, later, started, batch, count,
                     clock, posts>>
      /\ answer' = [answer EXCEPT ![p] = "unavailable"] /\ troubles' = troubles + 1
  OBVIOUS
<1>2. "unavailable" \in Answers BY DEF Answers
<1> HIDE DEF RecordFails
<1>3. RowsOK' BY <1>1 DEF DeliveryInv, RowsOK
<1>4. WorkOK' BY <1>1, <1>2 DEF DeliveryInv, WorkOK, Works
<1>5. QueuesOK' BY <1>1 DEF DeliveryInv, QueuesOK, Pending
<1>6. ClaimsLast' /\ OneHolder' BY <1>1, ClaimsStay DEF Pending
<1>7. Counted'
  <2>1. \A q \in Processors : answer[q] # None => answer'[q] # None
    BY <1>1, <1>2, DeliveryAssumption DEF DeliveryInv, WorkOK
  <2>2. \A d \in Deliveries : Posting(d) => Posting(d)'
    BY <1>1, <2>1 DEF Posting, Works, Turn
  <2>3. \A d \in Deliveries : Uncounted(d) \in {0, 1} /\ Uncounted(d)' \in {0, 1}
    BY DEF Uncounted
  <2>4. \A d \in Deliveries : Uncounted(d) <= Uncounted(d)' BY <2>2, <2>3 DEF Uncounted
  <2>5. \A d \in Deliveries : attempts[d] \in Nat /\ posts[d] \in Nat /\ troubles \in Nat
    BY DEF DeliveryInv, RowsOK
  <2> HIDE DEF Uncounted
  <2> QED BY <1>1, <2>3, <2>4, <2>5 DEF DeliveryInv, Counted
<1> QED BY <1>3, <1>4, <1>5, <1>6, <1>7 DEF DeliveryInv

LEMMA StepAbandon ==
  ASSUME DeliveryInv, NEW p \in Processors, Abandon(p) PROVE DeliveryInv'
<1> USE DEF Abandon, rowVars, Trouble
<1>1. /\ UNCHANGED <<active, status, attempts, delivered, due, later, started, posts>>
      /\ batch' = [batch EXCEPT ![p] = <<>>]
      /\ answer' = [answer EXCEPT ![p] = None]
      /\ clock' = [clock EXCEPT ![p] = 0]
      /\ count' = [count EXCEPT ![p] = [d \in Deliveries |-> 0]]
      /\ troubles' = troubles + 1 /\ Works(p)
  OBVIOUS
<1> HIDE DEF Abandon
<1>2. RowsOK' BY <1>1 DEF DeliveryInv, RowsOK
<1>3. batch \in [Processors -> Seq(Deliveries)] /\ clock \in [Processors -> 0..Timeout]
  BY DEF DeliveryInv, WorkOK
<1>4. batch'[p] = <<>> /\ \A q \in Processors \ {p} : batch'[q] = batch[q] BY <1>1, <1>3
<1>5. clock'[p] = 0 /\ \A q \in Processors \ {p} : clock'[q] = clock[q] BY <1>1, <1>3
<1>6. WorkOK'
  <2>1. batch' \in [Processors -> Seq(Deliveries)] BY <1>1, <1>3
  <2>2. 0 \in 0..Timeout BY DeliveryAssumption
  <2>3. clock' \in [Processors -> 0..Timeout] BY <1>1, <1>3, <2>2
  <2>4. count' \in [Processors -> [Deliveries -> Nat]] BY <1>1 DEF DeliveryInv, WorkOK
  <2>5. answer' \in [Processors -> Answers \cup {None}] BY <1>1 DEF DeliveryInv, WorkOK
  <2>6. \A q \in Processors : Works(q)' \/ clock'[q] = 0
    BY <1>4, <1>5 DEF DeliveryInv, WorkOK, Works
  <2> QED BY <2>1, <2>3, <2>4, <2>5, <2>6 DEF WorkOK
<1>7. QueuesOK' BY <1>1 DEF DeliveryInv, QueuesOK, Pending
<1>8. ToSet(<<>>) = {} /\ NoRepeats(<<>>) /\ Len(<<>>) = 0 BY DEF ToSet, NoRepeats
<1>9. ClaimsLast'
  <2> SUFFICES ASSUME NEW q \in Processors
               PROVE  /\ NoRepeats(batch'[q]) /\ Len(batch'[q]) <= ClaimLimit
                      /\ \A d \in ToSet(batch'[q]) :
                            Pending(d)' /\ count'[q][d] = attempts'[d] /\ InTime(q, d)'
    BY DEF ClaimsLast
  <2>1. CASE q = p
    <3>1. 0 <= ClaimLimit BY DeliveryAssumption
    <3> QED BY <1>4, <1>8, <2>1, <3>1
  <2>2. CASE q # p
    <3>1. /\ NoRepeats(batch[q]) /\ Len(batch[q]) <= ClaimLimit
          /\ \A d \in ToSet(batch[q]) : Pending(d) /\ count[q][d] = attempts[d] /\ InTime(q, d)
      BY DEF DeliveryInv, ClaimsLast
    <3>2. batch'[q] = batch[q] /\ clock'[q] = clock[q] BY <1>4, <1>5, <2>2
    <3>3. count'[q] = count[q] BY <1>1, <2>2 DEF DeliveryInv, WorkOK
    <3>4. \A d \in ToSet(batch[q]) : Pending(d)' /\ InTime(q, d)'
      BY <1>1, <3>1, <3>2 DEF Pending, InTime
    <3> QED BY <1>1, <3>1, <3>2, <3>3, <3>4
  <2> QED BY <2>1, <2>2
<1>10. OneHolder' BY <1>4, <1>8 DEF DeliveryInv, OneHolder, Holders
<1>11. Counted'
  <2>1. \A d \in Deliveries : Uncounted(d) \in {0, 1} /\ Uncounted(d)' \in {0, 1}
    BY DEF Uncounted
  <2>2. \A d \in Deliveries : attempts[d] \in Nat /\ posts[d] \in Nat /\ troubles \in Nat
    BY DEF DeliveryInv, RowsOK
  <2> HIDE DEF Uncounted
  <2> QED BY <1>1, <2>1, <2>2 DEF DeliveryInv, Counted
<1> QED BY <1>2, <1>6, <1>7, <1>9, <1>10, <1>11 DEF DeliveryInv

LEMMA StepElapse == ASSUME DeliveryInv, Elapse PROVE DeliveryInv'
<1> USE DEF Elapse, rowVars
<1>1. /\ UNCHANGED <<active, status, attempts, delivered, due, later, batch, count, answer,
                     posts, troubles>>
      /\ \A p \in Processors : Works(p) => clock[p] < Timeout
      /\ started' = [d \in Deliveries |-> Aged(d)]
      /\ clock' = [p \in Processors |-> IF Works(p) THEN clock[p] + 1 ELSE 0]
  OBVIOUS
<1> HIDE DEF Elapse
<1>2. Stale \in Nat /\ Timeout \in Nat BY DeliveryAssumption
<1>3. \A d \in Deliveries : /\ started[d] \in 0..Stale /\ Aged(d) \in 0..Stale
                            /\ Aged(d) <= started[d] + 1
  BY <1>2 DEF DeliveryInv, RowsOK, Aged
<1>4. RowsOK' BY <1>1, <1>3 DEF DeliveryInv, RowsOK
<1>5. clock \in [Processors -> 0..Timeout] BY DEF DeliveryInv, WorkOK
<1>6. WorkOK'
  <2>1. clock' \in [Processors -> 0..Timeout] BY <1>1, <1>2, <1>5
  <2>2. \A p \in Processors : Works(p)' \/ clock'[p] = 0 BY <1>1 DEF Works
  <2> QED BY <1>1, <2>1, <2>2 DEF DeliveryInv, WorkOK
<1>7. QueuesOK' BY <1>1 DEF DeliveryInv, QueuesOK, Pending
<1>8. ClaimsLast'
  <2> SUFFICES ASSUME NEW p \in Processors
               PROVE  /\ NoRepeats(batch[p]) /\ Len(batch[p]) <= ClaimLimit
                      /\ \A d \in ToSet(batch[p]) :
                            Pending(d)' /\ count[p][d] = attempts[d] /\ InTime(p, d)'
    BY <1>1 DEF ClaimsLast
  <2>1. /\ NoRepeats(batch[p]) /\ Len(batch[p]) <= ClaimLimit
        /\ \A d \in ToSet(batch[p]) : Pending(d) /\ count[p][d] = attempts[d] /\ InTime(p, d)
    BY DEF DeliveryInv, ClaimsLast
  <2>2. ASSUME NEW d \in ToSet(batch[p]) PROVE InTime(p, d)'
    <3>1. d \in Deliveries /\ Works(p)
      <4>1. batch[p] \in Seq(Deliveries) BY DEF DeliveryInv, WorkOK
      <4>2. ToSet(<<>>) = {} BY DEF ToSet
      <4> QED BY <4>1, <4>2, HeldFacts DEF Works
    <3>2. started'[d] = Aged(d) /\ clock'[p] = clock[p] + 1 BY <1>1, <3>1
    <3> DEFINE L == Len(batch[p]) * Timeout
               C == ClaimLimit * Timeout
    <3>3. L \in Nat /\ C \in Nat
      <4>1. Len(batch[p]) \in Nat BY DEF DeliveryInv, WorkOK
      <4> QED BY <4>1, TimesFacts
    <3>4. started[d] + L <= C + clock[p] BY <2>1 DEF InTime
    <3>5. InTime(p, d)' <=> started'[d] + L <= C + clock'[p] BY <1>1 DEF InTime
    <3> HIDE DEF L, C
    <3>6. clock[p] \in Nat /\ started[d] \in Nat /\ Aged(d) \in Nat /\ Aged(d) <= started[d] + 1
      BY <1>2, <1>3, <1>5, <3>1
    <3> QED BY <3>2, <3>3, <3>4, <3>5, <3>6
  <2> QED BY <1>1, <2>1, <2>2 DEF Pending
<1>9. OneHolder' BY <1>1 DEF DeliveryInv, OneHolder, Holders
<1>10. Counted'
  <2>1. \A d \in Deliveries : Uncounted(d)' = Uncounted(d)
    BY <1>1 DEF Uncounted, Posting, Works, Turn
  <2> QED BY <1>1, <2>1 DEF DeliveryInv, Counted
<1> QED BY <1>4, <1>6, <1>7, <1>8, <1>9, <1>10 DEF DeliveryInv

LEMMA StepRipen == ASSUME DeliveryInv, Ripen PROVE DeliveryInv'
<1> USE DEF Ripen, workVars
<1>1. /\ UNCHANGED <<active, status, attempts, delivered, started, batch, count, answer, clock,
                     posts, troubles>>
      /\ later # <<>> /\ due' = Append(due, Head(later)) /\ later' = Tail(later)
  OBVIOUS
<1> HIDE DEF Ripen
<1>2. RowsOK' BY <1>1 DEF DeliveryInv, RowsOK
<1>3. WorkOK' BY <1>1 DEF DeliveryInv, WorkOK, Works
<1>4. QueuesOK'
  <2>1. /\ due \in Seq(Deliveries) /\ later \in Seq(Deliveries)
        /\ NoRepeats(due) /\ NoRepeats(later) /\ ToSet(due) \cap ToSet(later) = {}
        /\ \A d \in ToSet(due) \cup ToSet(later) : Pending(d)
    BY DEF DeliveryInv, QueuesOK
  <2> DEFINE d == Head(later)
             rest == Tail(later)
  <2>2. /\ d \in ToSet(later) /\ d \in Deliveries
        /\ rest \in Seq(Deliveries) /\ ToSet(rest) \subseteq ToSet(later)
        /\ NoRepeats(rest) /\ d \notin ToSet(rest)
    BY <1>1, <2>1, TailFacts
  <2>3. due' = Append(due, d) /\ later' = rest BY <1>1
  <2> HIDE DEF d, rest
  <2>4. d \notin ToSet(due) BY <2>1, <2>2
  <2>5. due' \in Seq(Deliveries) /\ NoRepeats(due') /\ ToSet(due') = ToSet(due) \cup {d}
    BY <2>1, <2>2, <2>3, <2>4, AppendFacts
  <2>6. ToSet(due') \cup ToSet(later') \subseteq ToSet(due) \cup ToSet(later)
    BY <2>2, <2>3, <2>5
  <2>7. \A e \in ToSet(due') \cup ToSet(later') : Pending(e)' BY <1>1, <2>1, <2>6 DEF Pending
  <2> QED BY <2>1, <2>2, <2>3, <2>5, <2>7 DEF QueuesOK
<1>5. ClaimsLast' /\ OneHolder' BY <1>1, ClaimsStay DEF Pending
<1>6. Counted'
  <2>1. \A d \in Deliveries : Uncounted(d)' = Uncounted(d)
    BY <1>1 DEF Uncounted, Posting, Works, Turn
  <2> QED BY <1>1, <2>1 DEF DeliveryInv, Counted
<1> QED BY <1>2, <1>3, <1>4, <1>5, <1>6 DEF DeliveryInv

LEMMA StepKeepsDeliveries == DeliveryInv /\ [DeliveryNext]_deliveryVars => DeliveryInv'
<1> SUFFICES ASSUME DeliveryInv, [DeliveryNext]_deliveryVars PROVE DeliveryInv'
  OBVIOUS
<1>1. ASSUME NEW d \in Deliveries, Enqueue(d) PROVE DeliveryInv' BY <1>1, StepEnqueue
<1>2. ASSUME NEW p \in Processors, Process(p) PROVE DeliveryInv'
  BY <1>2, StepClaim, StepPost, StepRecordAttempt DEF Process
<1>3. ASSUME NEW p \in Processors, RecordFails(p) PROVE DeliveryInv' BY <1>3, StepRecordFails
<1>4. ASSUME NEW p \in Processors, Abandon(p) PROVE DeliveryInv' BY <1>4, StepAbandon
<1>5. CASE Deactivate BY <1>5, StepDeactivate
<1>6. CASE Elapse BY <1>6, StepElapse
<1>7. CASE Ripen BY <1>7, StepRipen
<1>8. CASE UNCHANGED deliveryVars
  <2> USE <1>8 DEF deliveryVars, rowVars, workVars
  <2>1. RowsOK' BY DEF DeliveryInv, RowsOK
  <2>2. WorkOK' BY DEF DeliveryInv, WorkOK, Works
  <2>3. QueuesOK' BY DEF DeliveryInv, QueuesOK, Pending
  <2>4. ClaimsLast' /\ OneHolder' BY ClaimsStay DEF Pending
  <2>5. \A d \in Deliveries : Uncounted(d)' = Uncounted(d) BY DEF Uncounted, Posting, Works, Turn
  <2>6. Counted' BY <2>5 DEF DeliveryInv, Counted
  <2> QED BY <2>1, <2>2, <2>3, <2>4, <2>6 DEF DeliveryInv
<1> QED BY <1>1, <1>2, <1>3, <1>4, <1>5, <1>6, <1>7, <1>8 DEF DeliveryNext

\* The invariant of the deliveries: what is claimed is pending, counted as it was read, in
\* one hand, and in time (claim_pending_webhook_deliveries, record_webhook_delivery_attempt).
THEOREM DeliveriesAreInv == DeliverySpec => []DeliveryInv
BY InitDeliveries, StepKeepsDeliveries, PTL DEF DeliverySpec

\* OneHolder: two processors never post the same delivery, for any number of them and any
\* limit and timeouts under which a whole batch can be posted before its claim is stale
\* (claim_pending_webhook_deliveries, the watchdog of the transport).
THEOREM OneHolderAlways == DeliverySpec => []OneHolder
<1>1. DeliveryInv => OneHolder BY DEF DeliveryInv
<1> QED BY <1>1, DeliveriesAreInv, PTL

\* PostsAreBounded: the attempt that is recorded is counted (record_webhook_delivery_attempt),
\* so an endpoint sees max_attempts posts and those that were never recorded.
THEOREM PostsBounded == DeliverySpec => []PostsAreBounded
<1>1. DeliveryInv => PostsAreBounded
  <2> SUFFICES ASSUME DeliveryInv, NEW d \in Deliveries
               PROVE  posts[d] <= MaxAttempts + troubles
    BY DEF PostsAreBounded
  <2>1. /\ attempts[d] <= MaxAttempts
        /\ status[d] \in {"none", "pending"} => attempts[d] < MaxAttempts
        /\ posts[d] <= attempts[d] + troubles + Uncounted(d)
    BY DEF DeliveryInv, Counted
  <2>2. attempts[d] \in Nat /\ posts[d] \in Nat /\ troubles \in Nat /\ MaxAttempts \in Nat
    BY DeliveryAssumption DEF DeliveryInv, RowsOK
  <2>3. CASE Posting(d)
    <3>1. PICK p \in Processors : Works(p) /\ Turn(p) = d BY <2>3 DEF Posting
    <3>2. Pending(d) BY <3>1, TurnFacts
    <3>3. attempts[d] < MaxAttempts BY <2>1, <3>2 DEF Pending
    <3>4. Uncounted(d) = 1 BY <2>3 DEF Uncounted
    <3> QED BY <2>1, <2>2, <3>3, <3>4
  <2>4. CASE ~Posting(d)
    <3>1. Uncounted(d) = 0 BY <2>4 DEF Uncounted
    <3> QED BY <2>1, <2>2, <3>1
  <2> QED BY <2>3, <2>4
<1> QED BY <1>1, DeliveriesAreInv, PTL

\* OutcomeStays: recording compares no status (record_webhook_delivery_attempt), but what a
\* processor holds is pending until it is recorded.
THEOREM OutcomesStay == DeliverySpec => OutcomeStays
<1> DEFINE Final(d) == status[d] \in {"delivered", "failed"}
<1>1. DeliveryInv /\ [DeliveryNext]_deliveryVars
        => [\A d \in Deliveries : Final(d) => status'[d] = status[d]]_deliveryVars
  <2> SUFFICES ASSUME DeliveryInv, DeliveryNext, NEW d \in Deliveries, Final(d)
               PROVE  status'[d] = status[d]
    OBVIOUS
  <2>1. status \in [Deliveries -> {"none", "pending", "delivered", "failed"}]
    BY DEF DeliveryInv, RowsOK
  <2>2. ASSUME NEW e \in Deliveries, Enqueue(e) PROVE status'[d] = status[d]
    BY <2>1, <2>2 DEF Enqueue
  <2>3. ASSUME NEW p \in Processors, RecordAttempt(p) PROVE status'[d] = status[d]
    <3>1. Pending(Turn(p)) BY <2>3, TurnFacts DEF RecordAttempt
    <3>2. Turn(p) # d BY <3>1 DEF Pending
    <3> QED BY <2>1, <2>3, <3>2 DEF RecordAttempt
  <2>4. ASSUME NEW p \in Processors, Claim(p) \/ Post(p) \/ RecordFails(p) \/ Abandon(p)
        PROVE  status'[d] = status[d]
    BY <2>4 DEF Claim, Post, RecordFails, Abandon, rowVars
  <2>5. CASE Deactivate \/ Elapse \/ Ripen BY <2>5 DEF Deactivate, Elapse, Ripen, rowVars
  <2> QED BY <2>2, <2>3, <2>4, <2>5 DEF DeliveryNext, Process
<1> QED BY <1>1, DeliveriesAreInv, PTL DEF DeliverySpec, OutcomeStays

-----------------------------------------------------------------------------
(* Documents.  A job is created for what a list read long ago calls eligible: a project may
   fail in the meantime as often as the job in flight lets it, and once more as often when
   another job has been created, and a run of a dispatcher that died comes on top (InFlight). *)

LogOK ==
  /\ last \in [Projects -> {"never", "failed", "none"}]
  /\ fails \in [Projects -> Nat] /\ runs \in [Projects -> 0..JobRuns] /\ bare \subseteq Projects
  /\ losses \in Nat
  /\ \A p \in Projects : (last[p] = "never" => fails[p] = 0) /\ (last[p] = "none" => p \in bare)

LineOK == line \in Seq(Projects) /\ NoRepeats(line) /\ \A p \in ToSet(line) : last[p] # "never"

TodoOK ==
  /\ todo \in Seq(Projects) /\ NoRepeats(todo)
  /\ made = NoProject \/ (todo # <<>> /\ made = Head(todo))

InFlight ==
  \A p \in Projects \ bare :
    /\ fails[p] + runs[p] <= MostRuns + losses
    /\ p \in ToSet(todo) /\ made # p => fails[p] + runs[p] <= MostRuns - JobRuns + losses

BackfillInv == LogOK /\ LineOK /\ TodoOK /\ InFlight

LEMMA MostRunsFacts ==
  /\ MostRuns \in Nat /\ JobRuns \in Nat /\ MaxFailures \in Nat
  /\ MostRuns - JobRuns = (MaxFailures - 1) + JobRuns
  /\ MostRuns - JobRuns \in Nat /\ JobRuns <= MostRuns - JobRuns
<1>1. MaxFailures \in Nat \ {0} /\ JobRuns \in Nat \ {0} BY BackfillAssumption
<1> QED BY <1>1 DEF MostRuns

LEMMA TakeFacts ==
  ASSUME NEW s \in Seq(Projects), NEW n \in Nat
  PROVE  /\ Take(s, n) \in Seq(Projects) /\ ToSet(Take(s, n)) \subseteq ToSet(s)
         /\ NoRepeats(s) => NoRepeats(Take(s, n))
<1>1. Cap(n, Len(s)) \in 0..Len(s) BY DEF Cap
<1> QED BY <1>1, FrontFacts DEF Take

\* Whoever has not been tried comes first, and nobody twice.
LEMMA OrdersFacts ==
  ASSUME LineOK, NEW order \in Orders PROVE order \in Seq(Projects) /\ NoRepeats(order)
<1>1. PICK s \in SetToSeqs(New) : order = s \o line BY DEF Orders
<1>2. IsFiniteSet(New) BY FS_Subset, BackfillAssumption DEF New
<1> DEFINE n == Cardinality(New)
<1>3. n \in Nat BY <1>2, FS_CardinalityType
<1>4. s \in [1..n -> New] /\ \A i, j \in 1..n : i # j => s[i] # s[j] BY <1>1 DEF SetToSeqs
<1> HIDE DEF n
<1>5. New \subseteq Projects BY DEF New
<1>6. s \in [1..n -> Projects] BY <1>4, <1>5
<1>7. s \in Seq(Projects) /\ Len(s) = n BY <1>3, <1>6
<1>8. NoRepeats(s) BY <1>4, <1>7 DEF NoRepeats
<1>9. ToSet(s) \subseteq New
  <2> SUFFICES ASSUME NEW p \in ToSet(s) PROVE p \in New
    OBVIOUS
  <2>1. PICK i \in 1..n : s[i] = p BY <1>7, ToSetFacts
  <2> QED BY <1>4, <2>1
<1>10. ToSet(s) \cap ToSet(line) = {} BY <1>9 DEF LineOK, New
<1> QED BY <1>1, <1>7, <1>8, <1>10, ConcatFacts DEF LineOK

LEMMA CandidatesFacts ==
  ASSUME LineOK, NEW order \in Orders
  PROVE  /\ Candidates(order) \in Seq(Projects) /\ NoRepeats(Candidates(order))
         /\ \A p \in ToSet(Candidates(order)) : p \in Projects /\ Eligible(p)
<1> DEFINE E == {p \in Projects : Eligible(p)}
           D == {p \in Projects : Ripe(p)}
           able == Only(order, E)
           rows == Take(able, Prefetch)
           ripe == Only(rows, D)
<1>0. Limit \in Nat /\ Prefetch \in Nat BY BackfillAssumption
<1>1. order \in Seq(Projects) /\ NoRepeats(order) BY OrdersFacts
<1>2. able \in Seq(Projects) /\ NoRepeats(able) /\ ToSet(able) \subseteq E
  <2> HIDE DEF E
  <2> QED BY <1>1, OnlyFacts
<1> HIDE DEF able
<1>3. rows \in Seq(Projects) /\ NoRepeats(rows) /\ ToSet(rows) \subseteq E
  BY <1>0, <1>2, TakeFacts
<1> HIDE DEF rows
<1>4. ripe \in Seq(Projects) /\ NoRepeats(ripe) /\ ToSet(ripe) \subseteq E
  <2> HIDE DEF E, D
  <2> QED BY <1>3, OnlyFacts
<1>5. Candidates(order) = Take(ripe, Limit) BY DEF Candidates, ripe, rows, able
<1> HIDE DEF ripe
<1>6. /\ Candidates(order) \in Seq(Projects) /\ NoRepeats(Candidates(order))
      /\ ToSet(Candidates(order)) \subseteq E
  BY <1>0, <1>4, <1>5, TakeFacts
<1> QED BY <1>6

LEMMA InitBackfill == BackfillInit => BackfillInv
<1> SUFFICES ASSUME BackfillInit PROVE BackfillInv
  OBVIOUS
<1> USE MostRunsFacts DEF BackfillInit
<1>1. ToSet(<<>>) = {} /\ NoRepeats(<<>>) /\ <<>> \in Seq(Projects) BY DEF ToSet, NoRepeats
<1>2. LogOK BY DEF LogOK
<1>3. LineOK BY <1>1 DEF LineOK
<1>4. TodoOK BY <1>1 DEF TodoOK
<1>5. InFlight BY <1>1 DEF InFlight
<1> QED BY <1>2, <1>3, <1>4, <1>5 DEF BackfillInv

LEMMA StepList == ASSUME BackfillInv, List PROVE BackfillInv'
<1>1. UNCHANGED <<wanted, last, elapsed, fails, bare, first, line, runs, made, losses>> /\ made = NoProject
  BY DEF List, log
<1>2. PICK order \in Orders : todo' = Candidates(order) BY DEF List
<1>3. /\ todo' \in Seq(Projects) /\ NoRepeats(todo')
      /\ \A p \in ToSet(todo') : p \in Projects /\ Eligible(p)
  BY <1>2, CandidatesFacts DEF BackfillInv
<1>4. LogOK' BY <1>1 DEF BackfillInv, LogOK
<1>5. LineOK' BY <1>1 DEF BackfillInv, LineOK
<1>6. TodoOK' BY <1>1, <1>3 DEF TodoOK
<1>7. InFlight'
  <2> SUFFICES ASSUME NEW p \in Projects \ bare
               PROVE  /\ fails[p] + runs[p] <= MostRuns + losses
                      /\ p \in ToSet(todo') => fails[p] + runs[p] <= MostRuns - JobRuns + losses
    BY <1>1 DEF InFlight
  <2>1. fails[p] + runs[p] <= MostRuns + losses BY DEF BackfillInv, InFlight
  <2>2. /\ fails[p] \in Nat /\ runs[p] \in 0..JobRuns /\ last[p] \in {"never", "failed"}
        /\ last[p] = "never" => fails[p] = 0
    BY DEF BackfillInv, LogOK
  <2>3. ASSUME p \in ToSet(todo') PROVE fails[p] <= MaxFailures - 1
    <3>1. ~Exhausted(p) BY <1>3, <2>3 DEF Eligible
    <3>2. MaxFailures \in Nat \ {0} BY BackfillAssumption
    <3> QED BY <2>2, <3>1, <3>2 DEF Exhausted
  <2>4. losses \in Nat BY DEF BackfillInv, LogOK
  <2> QED BY <2>1, <2>2, <2>3, <2>4, MostRunsFacts
<1> QED BY <1>4, <1>5, <1>6, <1>7 DEF BackfillInv

LEMMA StepCreate == ASSUME BackfillInv, Create PROVE BackfillInv'
<1>1. /\ UNCHANGED <<wanted, last, elapsed, fails, bare, first, line, losses>>
      /\ todo # <<>> /\ made = NoProject
  BY DEF Create, log
<1> DEFINE p == Head(todo)
           rest == Tail(todo)
<1>2. /\ p \in ToSet(todo) /\ p \in Projects
      /\ rest \in Seq(Projects) /\ ToSet(rest) \subseteq ToSet(todo) /\ NoRepeats(rest)
  BY <1>1, TailFacts DEF BackfillInv, TodoOK
<1>3. \/ runs[p] > 0 /\ todo' = rest /\ UNCHANGED <<runs, made>>
      \/ ~(runs[p] > 0) /\ runs' = [runs EXCEPT ![p] = JobRuns] /\ made' = p /\ UNCHANGED todo
  BY DEF Create
<1>4. p # NoProject BY <1>2, BackfillAssumption
<1>5. p = Head(todo) OBVIOUS
<1> HIDE DEF p, rest
<1>6. LineOK' BY <1>1 DEF BackfillInv, LineOK
<1>7. CASE runs[p] > 0
  <2>1. todo' = rest /\ UNCHANGED <<runs, made>> BY <1>3, <1>7
  <2>2. LogOK' BY <1>1, <2>1 DEF BackfillInv, LogOK
  <2>3. TodoOK' BY <1>1, <1>2, <2>1 DEF TodoOK
  <2>4. InFlight' BY <1>1, <1>2, <2>1 DEF BackfillInv, InFlight
  <2> QED BY <1>6, <2>2, <2>3, <2>4 DEF BackfillInv
<1>8. CASE ~(runs[p] > 0)
  <2>1. runs' = [runs EXCEPT ![p] = JobRuns] /\ made' = p /\ UNCHANGED todo BY <1>3, <1>8
  <2>2. JobRuns \in 0..JobRuns BY MostRunsFacts
  <2>3. LogOK' BY <1>1, <2>1, <2>2 DEF BackfillInv, LogOK
  <2>4. TodoOK' BY <1>1, <1>5, <2>1 DEF BackfillInv, TodoOK
  <2>5. runs \in [Projects -> 0..JobRuns] /\ fails \in [Projects -> Nat] BY DEF BackfillInv, LogOK
  <2>6. runs'[p] = JobRuns /\ \A q \in Projects \ {p} : runs'[q] = runs[q]
    BY <1>2, <2>1, <2>5
  <2>7. InFlight'
    <3> SUFFICES ASSUME NEW q \in Projects \ bare
                 PROVE  /\ fails[q] + runs'[q] <= MostRuns + losses
                        /\ q \in ToSet(todo) /\ p # q
                             => fails[q] + runs'[q] <= MostRuns - JobRuns + losses
      BY <1>1, <2>1 DEF InFlight
    <3>1. /\ fails[q] + runs[q] <= MostRuns + losses
          /\ q \in ToSet(todo) /\ made # q => fails[q] + runs[q] <= MostRuns - JobRuns + losses
      BY DEF BackfillInv, InFlight
    <3>2. CASE q # p BY <1>1, <2>6, <3>1, <3>2, BackfillAssumption
    <3>3. CASE q = p
      <4>1. fails[p] + runs[p] <= MostRuns - JobRuns + losses BY <1>1, <1>2, <1>4, <3>1, <3>3
      <4>2. fails[p] \in Nat /\ runs[p] \in Nat /\ losses \in Nat
        BY <1>2, <2>5 DEF BackfillInv, LogOK
      <4>3. fails[p] + JobRuns <= MostRuns + losses BY <4>1, <4>2, MostRunsFacts
      <4> QED BY <2>6, <3>3, <4>3
    <3> QED BY <3>2, <3>3
  <2> QED BY <1>6, <2>3, <2>4, <2>7 DEF BackfillInv
<1> QED BY <1>7, <1>8

LEMMA StepRecordEnqueued == ASSUME BackfillInv, RecordEnqueued PROVE BackfillInv'
<1>1. /\ UNCHANGED <<wanted, last, elapsed, fails, bare, first, line, runs, losses>>
      /\ made # NoProject /\ made' = NoProject /\ todo' = Tail(todo)
  BY DEF RecordEnqueued, log
<1>2. todo \in Seq(Projects) /\ NoRepeats(todo) /\ todo # <<>> /\ made = Head(todo)
  BY <1>1 DEF BackfillInv, TodoOK
<1>3. /\ todo' \in Seq(Projects) /\ NoRepeats(todo')
      /\ ToSet(todo') \subseteq ToSet(todo) \ {made}
  BY <1>1, <1>2, TailFacts
<1>4. LogOK' BY <1>1 DEF BackfillInv, LogOK
<1>5. LineOK' BY <1>1 DEF BackfillInv, LineOK
<1>6. TodoOK' BY <1>1, <1>3 DEF TodoOK
<1>7. InFlight' BY <1>1, <1>3 DEF BackfillInv, InFlight
<1> QED BY <1>4, <1>5, <1>6, <1>7 DEF BackfillInv

LEMMA StepEnqueuerDies == ASSUME BackfillInv, EnqueuerDies PROVE BackfillInv'
<1>1. /\ UNCHANGED <<wanted, last, elapsed, fails, bare, first, line, runs>>
      /\ made' = NoProject /\ todo' = <<>> /\ losses' = losses + 1 /\ losses \in Nat
  BY DEF EnqueuerDies, Loss, log, BackfillInv, LogOK
<1>2. ToSet(<<>>) = {} /\ NoRepeats(<<>>) /\ <<>> \in Seq(Projects) BY DEF ToSet, NoRepeats
<1>3. LogOK' BY <1>1 DEF BackfillInv, LogOK
<1>4. LineOK' BY <1>1 DEF BackfillInv, LineOK
<1>5. TodoOK' BY <1>1, <1>2 DEF TodoOK
<1>6. InFlight'
  <2> SUFFICES ASSUME NEW p \in Projects \ bare PROVE fails[p] + runs[p] <= MostRuns + losses'
    BY <1>1, <1>2 DEF InFlight
  <2>1. fails[p] + runs[p] <= MostRuns + losses BY DEF BackfillInv, InFlight
  <2>2. fails[p] \in Nat /\ runs[p] \in 0..JobRuns BY DEF BackfillInv, LogOK
  <2> QED BY <1>1, <2>1, <2>2, MostRunsFacts
<1> QED BY <1>3, <1>4, <1>5, <1>6 DEF BackfillInv

\* What is logged of p leaves the others.
LEMMA LogsFacts ==
  ASSUME BackfillInv, NEW p \in Projects, NEW how \in {"never", "failed", "none"},
         NEW failures \in Nat, NEW none \in BOOLEAN, Logs(p, how, failures, none),
         how = "never" => failures = 0, how = "none" => none
  PROVE  /\ LineOK'
         /\ last' \in [Projects -> {"never", "failed", "none"}]
         /\ fails' \in [Projects -> Nat] /\ bare' \subseteq Projects
         /\ \A q \in Projects : (last'[q] = "never" => fails'[q] = 0)
                                /\ (last'[q] = "none" => q \in bare')
         /\ fails'[p] = failures /\ (p \in bare' <=> none)
         /\ \A q \in Projects \ {p} : fails'[q] = fails[q] /\ (q \in bare' <=> q \in bare)
<1> DEFINE others == Only(line, Projects \ {p})
<1>1. /\ last' = [last EXCEPT ![p] = how] /\ fails' = [fails EXCEPT ![p] = failures]
      /\ line' = IF how = "never" THEN others ELSE Append(others, p)
      /\ bare' = IF none THEN bare \cup {p} ELSE bare \ {p}
  BY DEF Logs
<1>2. /\ last \in [Projects -> {"never", "failed", "none"}] /\ fails \in [Projects -> Nat]
      /\ bare \subseteq Projects
      /\ \A q \in Projects : (last[q] = "never" => fails[q] = 0)
                             /\ (last[q] = "none" => q \in bare)
  BY DEF BackfillInv, LogOK
<1>3. /\ last'[p] = how /\ \A q \in Projects \ {p} : last'[q] = last[q]
      /\ last' \in [Projects -> {"never", "failed", "none"}]
  BY <1>1, <1>2
<1>4. /\ fails'[p] = failures /\ \A q \in Projects \ {p} : fails'[q] = fails[q]
      /\ fails' \in [Projects -> Nat]
  BY <1>1, <1>2
<1>5. /\ (p \in bare' <=> none) /\ bare' \subseteq Projects
      /\ \A q \in Projects \ {p} : q \in bare' <=> q \in bare
  BY <1>1, <1>2
<1>6. line \in Seq(Projects) /\ NoRepeats(line) /\ \A q \in ToSet(line) : last[q] # "never"
  BY DEF BackfillInv, LineOK
<1>7. /\ others \in Seq(Projects) /\ ToSet(others) \subseteq ToSet(line) \cap (Projects \ {p})
      /\ NoRepeats(others)
  <2> DEFINE S == Projects \ {p}
  <2> HIDE DEF S
  <2>1. /\ Only(line, S) \in Seq(Projects) /\ ToSet(Only(line, S)) \subseteq ToSet(line) \cap S
        /\ NoRepeats(Only(line, S))
    BY <1>6, OnlyFacts
  <2> QED BY <2>1 DEF S
<1> HIDE DEF others
<1>8. LineOK'
  <2>1. CASE how = "never"
    <3>1. line' = others BY <1>1, <2>1
    <3>2. \A q \in ToSet(line') : last'[q] # "never" BY <1>3, <1>6, <1>7, <3>1
    <3> QED BY <1>7, <3>1, <3>2 DEF LineOK
  <2>2. CASE how # "never"
    <3>1. line' = Append(others, p) BY <1>1, <2>2
    <3>2. /\ line' \in Seq(Projects) /\ NoRepeats(line')
          /\ ToSet(line') = ToSet(others) \cup {p}
      BY <1>7, <3>1, AppendFacts
    <3>3. \A q \in ToSet(line') : last'[q] # "never" BY <1>3, <1>6, <1>7, <2>2, <3>2
    <3> QED BY <3>2, <3>3 DEF LineOK
  <2> QED BY <2>1, <2>2
<1> QED BY <1>2, <1>3, <1>4, <1>5, <1>8

\* A run does not increase what may still fail, but for one whose dispatcher dies.
LEMMA RunKeeps ==
  ASSUME BackfillInv, UNCHANGED <<todo, made>>, LineOK', LogOK', NEW p \in Projects,
         \A q \in Projects \ {p} :
            fails'[q] = fails[q] /\ runs'[q] = runs[q] /\ (q \in bare' <=> q \in bare),
         \/ p \in bare'
         \/ fails'[p] + runs'[p] <= JobRuns
         \/ p \notin bare /\ fails'[p] + runs'[p] + losses <= fails[p] + runs[p] + losses',
         losses' >= losses
  PROVE  BackfillInv'
<1>1. TodoOK' BY DEF BackfillInv, TodoOK
<1>2. InFlight'
  <2> SUFFICES ASSUME NEW q \in Projects, q \notin bare'
               PROVE  /\ fails'[q] + runs'[q] <= MostRuns + losses'
                      /\ q \in ToSet(todo) /\ made # q
                           => fails'[q] + runs'[q] <= MostRuns - JobRuns + losses'
    BY DEF InFlight
  <2>1. losses \in Nat /\ losses' \in Nat BY DEF BackfillInv, LogOK
  <2>2. q \notin bare => /\ fails[q] + runs[q] <= MostRuns + losses
                         /\ q \in ToSet(todo) /\ made # q
                              => fails[q] + runs[q] <= MostRuns - JobRuns + losses
    BY DEF BackfillInv, InFlight
  <2>3. CASE q # p
    <3>1. fails[q] \in Nat /\ runs[q] \in 0..JobRuns BY DEF BackfillInv, LogOK
    <3> QED BY <2>1, <2>2, <2>3, <3>1, MostRunsFacts
  <2>4. CASE q = p
    <3>1. /\ fails[p] \in Nat /\ runs[p] \in Nat /\ fails'[p] \in Nat /\ runs'[p] \in Nat
      BY MostRunsFacts DEF BackfillInv, LogOK
    <3>2. CASE fails'[p] + runs'[p] <= JobRuns BY <2>1, <2>4, <3>1, <3>2, MostRunsFacts
    <3>3. CASE p \notin bare /\ fails'[p] + runs'[p] + losses <= fails[p] + runs[p] + losses'
      BY <2>1, <2>2, <2>4, <3>1, <3>3, MostRunsFacts
    <3> QED BY <2>4, <3>2, <3>3
  <2> QED BY <2>3, <2>4
<1> QED BY <1>1, <1>2 DEF BackfillInv

LEMMA RunsFacts ==
  ASSUME BackfillInv, NEW p \in Projects, runs[p] > 0, Over(p) \/ Again(p)
  PROVE  /\ runs' \in [Projects -> 0..JobRuns] /\ runs[p] \in 0..JobRuns
         /\ runs'[p] < runs[p] /\ \A q \in Projects \ {p} : runs'[q] = runs[q]
         /\ Over(p) => runs'[p] = 0
<1>1. runs \in [Projects -> 0..JobRuns] /\ JobRuns \in Nat
  BY MostRunsFacts DEF BackfillInv, LogOK
<1>2. 0 \in 0..JobRuns /\ runs[p] - 1 \in 0..JobRuns BY <1>1
<1> QED BY <1>1, <1>2 DEF Over, Again

\* The end of a run, or of its dispatcher, before it is counted.
LEMMA EndFacts ==
  ASSUME BackfillInv, NEW p \in Projects, runs[p] > 0,
         \/ (Over(p) \/ Again(p)) /\ (UNCHANGED losses \/ Loss)
         \/ UNCHANGED runs /\ Loss
  PROVE  /\ runs' \in [Projects -> 0..JobRuns] /\ runs[p] \in 0..JobRuns
         /\ \A q \in Projects \ {p} : runs'[q] = runs[q]
         /\ Over(p) => runs'[p] = 0
         /\ losses \in Nat /\ losses' \in Nat /\ losses' >= losses
         /\ runs'[p] + 1 + losses <= runs[p] + losses'
<1>1. runs \in [Projects -> 0..JobRuns] /\ JobRuns \in Nat /\ losses \in Nat
  BY MostRunsFacts DEF BackfillInv, LogOK
<1>2. losses' = losses \/ losses' = losses + 1 BY DEF Loss
<1>3. CASE Over(p) \/ Again(p) BY <1>1, <1>2, <1>3, RunsFacts
<1>4. CASE UNCHANGED runs /\ Loss BY <1>1, <1>4 DEF Loss, Over
<1> QED BY <1>3, <1>4

LEMMA StepRun ==
  ASSUME BackfillInv, NEW p \in Projects, Run(p) \/ LeavesNothing(p) \/ FailsUncounted(p)
  PROVE  BackfillInv'
<1> DEFINE n == Cap(fails[p] + 1, MostRuns + MaxLosses + 1)
<1>1. /\ UNCHANGED <<todo, made>> /\ runs[p] > 0
      /\ \/ (Over(p) \/ Again(p)) /\ (UNCHANGED losses \/ Loss)
         \/ UNCHANGED runs /\ Loss
  BY DEF Run, Captures, FindsNone, Fails, SucceedsOtherwise, LeavesNothing, FailsUncounted,
         LogsFailure
<1>2. /\ runs' \in [Projects -> 0..JobRuns] /\ runs[p] \in 0..JobRuns
      /\ \A q \in Projects \ {p} : runs'[q] = runs[q]
      /\ Over(p) => runs'[p] = 0
      /\ losses \in Nat /\ losses' \in Nat /\ losses' >= losses
      /\ runs'[p] + 1 + losses <= runs[p] + losses'
  BY <1>1, EndFacts
<1>3. runs'[p] \in 0..JobRuns /\ JobRuns \in Nat BY <1>2, MostRunsFacts
<1>4. fails \in [Projects -> Nat] /\ fails[p] \in Nat BY DEF BackfillInv, LogOK
<1>5. CASE Logs(p, "never", 0, FALSE)
  <2>1. LogOK' /\ LineOK' BY <1>2, <1>5, LogsFacts DEF LogOK
  <2>2. fails'[p] = 0 BY <1>5, LogsFacts
  <2>3. \A q \in Projects \ {p} : fails'[q] = fails[q] /\ (q \in bare' <=> q \in bare)
    BY <1>5, LogsFacts
  <2>4. fails'[p] + runs'[p] <= JobRuns BY <1>3, <2>2
  <2> QED BY <1>1, <1>2, <2>1, <2>3, <2>4, RunKeeps
<1>6. CASE Logs(p, "none", fails[p], TRUE)
  <2>1. LogOK' /\ LineOK' BY <1>2, <1>4, <1>6, LogsFacts DEF LogOK
  <2>2. p \in bare' /\ \A q \in Projects \ {p} : fails'[q] = fails[q] /\ (q \in bare' <=> q \in bare)
    BY <1>4, <1>6, LogsFacts
  <2> QED BY <1>1, <1>2, <2>1, <2>2, RunKeeps
<1>7. CASE Logs(p, "failed", n, p \in bare)
  <2>1. n \in Nat /\ n <= fails[p] + 1
    BY <1>4, MostRunsFacts, BackfillAssumption DEF Cap
  <2> HIDE DEF n
  <2>2. (p \in bare => Logs(p, "failed", n, TRUE)) /\ (p \notin bare => Logs(p, "failed", n, FALSE))
    BY <1>7 DEF Logs
  <2>3. /\ LineOK'
        /\ last' \in [Projects -> {"never", "failed", "none"}]
        /\ fails' \in [Projects -> Nat] /\ bare' \subseteq Projects
        /\ \A q \in Projects : (last'[q] = "never" => fails'[q] = 0)
                               /\ (last'[q] = "none" => q \in bare')
        /\ fails'[p] = n /\ (p \in bare' <=> p \in bare)
        /\ \A q \in Projects \ {p} : fails'[q] = fails[q] /\ (q \in bare' <=> q \in bare)
    <3>1. CASE p \in bare BY <2>1, <2>2, <3>1, LogsFacts
    <3>2. CASE p \notin bare BY <2>1, <2>2, <3>2, LogsFacts
    <3> QED BY <3>1, <3>2
  <2>4. LogOK' BY <1>2, <2>3 DEF LogOK
  <2>5. fails'[p] + runs'[p] + losses <= fails[p] + runs[p] + losses'
    BY <1>2, <1>3, <1>4, <2>1, <2>3
  <2> QED BY <1>1, <1>2, <2>3, <2>4, <2>5, RunKeeps
<1>8. CASE UNCHANGED log
  <2>1. LogOK' /\ LineOK' BY <1>2, <1>8 DEF log, BackfillInv, LogOK, LineOK
  <2>2. UNCHANGED <<fails, bare>> BY <1>8 DEF log
  <2>3. fails'[p] + runs'[p] + losses <= fails[p] + runs[p] + losses'
    BY <1>2, <1>3, <1>4, <2>2
  <2> QED BY <1>1, <1>2, <2>1, <2>2, <2>3, RunKeeps
<1>9. \/ Logs(p, "never", 0, FALSE) \/ Logs(p, "none", fails[p], TRUE)
      \/ Logs(p, "failed", n, p \in bare) \/ UNCHANGED log
  BY DEF Run, Captures, FindsNone, Fails, SucceedsOtherwise, LeavesNothing, FailsUncounted,
         LogsFailure, Forget
<1> QED BY <1>5, <1>6, <1>7, <1>8, <1>9

LEMMA StepCloses == ASSUME BackfillInv, NEW p \in Projects, Closes(p) PROVE BackfillInv'
<1>1. Logs(p, "never", 0, FALSE) /\ UNCHANGED <<runs, todo, made, losses>> BY DEF Closes, Forget
<1>2. runs \in [Projects -> 0..JobRuns] /\ JobRuns \in Nat /\ losses \in Nat
  BY MostRunsFacts DEF BackfillInv, LogOK
<1>3. LogOK' /\ LineOK' BY <1>1, <1>2, LogsFacts DEF LogOK
<1>4. fails'[p] = 0 BY <1>1, LogsFacts
<1>5. \A q \in Projects \ {p} : fails'[q] = fails[q] /\ (q \in bare' <=> q \in bare)
  BY <1>1, LogsFacts
<1>6. fails'[p] + runs'[p] <= JobRuns BY <1>1, <1>2, <1>4
<1> QED BY <1>1, <1>2, <1>3, <1>5, <1>6, RunKeeps

LEMMA StepKeepsBackfill == BackfillInv /\ [BackfillNext]_backfillVars => BackfillInv'
<1> SUFFICES ASSUME BackfillInv, [BackfillNext]_backfillVars PROVE BackfillInv'
  OBVIOUS
<1>1. CASE List BY <1>1, StepList
<1>2. CASE Create BY <1>2, StepCreate
<1>3. CASE RecordEnqueued BY <1>3, StepRecordEnqueued
<1>4. CASE EnqueuerDies BY <1>4, StepEnqueuerDies
<1>5. ASSUME NEW p \in Projects, Run(p) \/ LeavesNothing(p) \/ FailsUncounted(p) PROVE BackfillInv'
  BY <1>5, StepRun
<1>6. ASSUME NEW p \in Projects, Closes(p) PROVE BackfillInv' BY <1>6, StepCloses
<1>7. CASE TimePasses \/ UNCHANGED backfillVars
  <2>1. UNCHANGED <<last, fails, bare, line, runs, todo, made, losses>>
    BY <1>7 DEF TimePasses, backfillVars, log
  <2>2. LogOK' /\ LineOK' /\ TodoOK' BY <2>1 DEF BackfillInv, LogOK, LineOK, TodoOK
  <2>3. InFlight' BY <2>1 DEF BackfillInv, InFlight
  <2> QED BY <2>2, <2>3 DEF BackfillInv
<1> QED BY <1>1, <1>2, <1>3, <1>4, <1>5, <1>6, <1>7 DEF BackfillNext

\* The invariant of the backfill: nobody is listed twice, a job was created for the head of
\* the list, and who waits on it may still fail one job's runs more (enqueue_document_backfill_jobs).
THEOREM BackfillIsInv == BackfillSpec => []BackfillInv
BY InitBackfill, StepKeepsBackfill, PTL DEF BackfillSpec

\* FailuresBounded: the cap on failures is read when a project is listed and not when its
\* job is created (list_due_backfill_candidates, create_pending_discovery_job_if_absent), so
\* the runs of two jobs come on top of it, and one for each crash, whatever the cap, the
\* runs and the delays are.
THEOREM FailuresAreBounded == BackfillSpec => []FailuresBounded
<1>1. BackfillInv => FailuresBounded
  <2> SUFFICES ASSUME BackfillInv, NEW p \in Projects \ bare PROVE fails[p] <= MostRuns + losses
    BY DEF FailuresBounded
  <2>1. fails[p] \in Nat /\ runs[p] \in 0..JobRuns /\ losses \in Nat BY DEF BackfillInv, LogOK
  <2>2. fails[p] + runs[p] <= MostRuns + losses BY DEF BackfillInv, InFlight
  <2> QED BY <2>1, <2>2, MostRunsFacts
<1> QED BY <1>1, BackfillIsInv, PTL
=============================================================================
