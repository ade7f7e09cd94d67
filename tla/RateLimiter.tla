---------------------------- MODULE RateLimiter ----------------------------
(* The limiter of requests to the procurement site.  All workers of a host share a token
   bucket and a circuit breaker, kept in one JSON file under flock; a worker acquires a
   token before each navigation, click or download and reports how it went
   (rate_limiter.py, browser_downloads.py, browser_discovery.py).

   Instants are kept as distances from the present: how long ago the bucket was
   refilled, how long the circuit stays open.  A token is Period units. *)
EXTENDS Naturals

CONSTANTS
  Workers,
  Period,          \* ticks for a token, the inverse of requests_per_second
  Burst,
  Threshold,       \* circuit_429_threshold
  Reset,           \* circuit_reset_seconds
  SiteThreshold,
  SiteBase,
  SiteMax,
  MaxDeaths        \* bound on workers that are killed

ASSUME LimiterAssumption ==
  /\ Period \in Nat \ {0} /\ Burst \in Nat \ {0} /\ MaxDeaths \in Nat
  /\ Threshold \in Nat \ {0} /\ Reset \in Nat
  /\ SiteThreshold \in Nat \ {0} /\ SiteBase \in Nat /\ SiteMax \in Nat

Full == Burst * Period
Least(a, b) == IF a <= b THEN a ELSE b
Most(a, b)  == IF a >= b THEN a ELSE b

VARIABLES
  tokens,      \* as they were written
  age,         \* ticks since updated_at, as far as they matter
  open,        \* ticks until circuit_open_until
  opened,      \* circuit_open_until is not 0
  refusals,    \* consecutive_429, up to the threshold
  siteErrors,  \* consecutive_site_errors
  pause,       \* what site_error_trip_count is kept for: the next cooldown
  phase,       \* of a worker
  sleep,       \* ticks that a worker still sleeps
  deaths

bucket  == <<tokens, age>>
circuit == <<open, opened, refusals, siteErrors, pause>>
vars == <<bucket, circuit, phase, sleep, deaths>>

FirstPause == Least(SiteMax, SiteBase)

Init ==
  /\ tokens = Full /\ age = 0
  /\ open = 0 /\ opened = FALSE /\ refusals = 0 /\ siteErrors = 0 /\ pause = FirstPause
  /\ phase = [w \in Workers |-> "away"] /\ sleep = [w \in Workers |-> 0]
  /\ deaths = 0

-----------------------------------------------------------------------------
(* acquire *)

Goes(w, to) == phase' = [phase EXCEPT ![w] = to]

Sleeps(w, ticks) ==
  /\ Goes(w, "waiting")
  /\ sleep' = [sleep EXCEPT ![w] = ticks]

\* The refill of _consume_or_wait.
Refilled == Least(Full, tokens + age)

Arrive(w) ==
  /\ phase[w] = "away"
  /\ Sleeps(w, 0)
  /\ UNCHANGED <<bucket, circuit, deaths>>

Awake(w) == phase[w] = "waiting" /\ sleep[w] = 0

AwaitCircuit(w) ==
  /\ Awake(w) /\ open > 0
  /\ Sleeps(w, open)
  /\ UNCHANGED <<bucket, circuit, deaths>>

\* A circuit that was open starts afresh.
Expire ==
  /\ opened' = FALSE
  /\ refusals' = IF opened THEN 0 ELSE refusals
  /\ UNCHANGED <<open, siteErrors, pause>>

Consume(w) ==
  /\ Awake(w) /\ open = 0 /\ Refilled >= Period
  /\ Expire
  /\ tokens' = Refilled - Period /\ age' = 0
  /\ Goes(w, "fetching")
  /\ UNCHANGED <<sleep, deaths>>

\* Mutant of AwaitToken: the refill is not written, its instant is.
AwaitTokenLoses(w) ==
  /\ Awake(w) /\ open = 0 /\ Refilled < Period
  /\ Expire
  /\ age' = 0
  /\ Sleeps(w, Period - Refilled)
  /\ UNCHANGED <<tokens, deaths>>

AwaitToken(w) ==
  /\ Awake(w) /\ open = 0 /\ Refilled < Period
  /\ Expire
  /\ tokens' = Refilled /\ age' = 0
  /\ Sleeps(w, Period - Refilled)
  /\ UNCHANGED deaths

-----------------------------------------------------------------------------
(* record_outcome *)

\* The circuit opens for that long, or stays open for longer.
Open(ticks) == open' = Most(open, ticks) /\ opened' = TRUE

Clear == opened' = (open > 0) /\ UNCHANGED open

\* 429, with a count that no longer matters above the threshold.
Refused ==
  /\ refusals' = Least(refusals + 1, Threshold)
  /\ IF refusals + 1 >= Threshold THEN Open(Reset) ELSE UNCHANGED <<open, opened>>
  /\ UNCHANGED <<siteErrors, pause>>

\* Mutant of Served: a late success closes the circuit.
ServedCloses ==
  /\ refusals' = 0
  /\ open' = 0 /\ opened' = FALSE
  /\ UNCHANGED <<siteErrors, pause>>

Served ==
  /\ refusals' = 0
  /\ Clear
  /\ UNCHANGED <<siteErrors, pause>>

\* An error of another kind, which only last_outcome shows.
Failed == UNCHANGED circuit

\* The outcome of the request.
Answer(w) ==
  /\ phase[w] = "fetching"
  /\ Refused \/ Served \/ Failed
  /\ Goes(w, "viewing")
  /\ UNCHANGED <<bucket, sleep, deaths>>

\* The cooldown doubles with each trip, up to the maximum.
Pause == pause' = Least(SiteMax, 2 * pause)

\* site_error: every SiteThreshold of them open the circuit, for twice as long each time.
Broken ==
  /\ IF siteErrors + 1 >= SiteThreshold
     THEN /\ siteErrors' = 0
          /\ Open(pause)
          /\ Pause
     ELSE /\ siteErrors' = siteErrors + 1
          /\ UNCHANGED <<open, opened, pause>>
  /\ UNCHANGED refusals

\* site_success
Sound ==
  /\ siteErrors' = 0 /\ pause' = FirstPause
  /\ Clear
  /\ UNCHANGED refusals

\* What the page shows: the toast of an error, the results of a search, or neither.
View(w) ==
  /\ phase[w] = "viewing"
  /\ Broken \/ Sound \/ UNCHANGED circuit
  /\ Goes(w, "away")
  /\ UNCHANGED <<bucket, sleep, deaths>>

\* get_circuit_snapshot, by a dispatcher about to claim a job.
Probe ==
  /\ opened /\ open = 0
  /\ Expire
  /\ UNCHANGED <<bucket, phase, sleep, deaths>>

-----------------------------------------------------------------------------
(* Time and trouble *)

Tick ==
  /\ age' = Least(Full, age + 1)
  /\ open' = IF open > 0 THEN open - 1 ELSE 0
  /\ sleep' = [w \in Workers |-> IF sleep[w] > 0 THEN sleep[w] - 1 ELSE 0]
  /\ UNCHANGED <<tokens, opened, refusals, siteErrors, pause, phase, deaths>>

Dies(w) ==
  /\ phase[w] # "away" /\ deaths < MaxDeaths
  /\ deaths' = deaths + 1
  /\ Goes(w, "away") /\ sleep' = [sleep EXCEPT ![w] = 0]

\* A worker is killed, between two accesses to the file.
Killed(w) == Dies(w) /\ UNCHANGED <<bucket, circuit>>

\* A worker is killed between truncate and dump: _decode_state reads nothing, and the
\* defaults of _normalize_state apply.
Torn(w) ==
  /\ Dies(w)
  /\ tokens' = Full /\ age' = 0
  /\ open' = 0 /\ opened' = FALSE
  /\ refusals' = 0 /\ siteErrors' = 0 /\ pause' = FirstPause

-----------------------------------------------------------------------------
Acquire(w) == AwaitCircuit(w) \/ Consume(w) \/ AwaitToken(w)

Next ==
  \/ Tick \/ Probe
  \/ \E w \in Workers :
       Arrive(w) \/ Acquire(w) \/ Answer(w) \/ View(w) \/ Killed(w) \/ Torn(w)

Spec == Init /\ [][Next]_vars

\* Time passes, and a worker that has slept long enough gets the lock.
FairSpec == Spec /\ WF_vars(Tick) /\ \A w \in Workers : WF_vars(Acquire(w))

-----------------------------------------------------------------------------
(* Properties *)

TypeOK ==
  /\ tokens \in 0..Full /\ age \in 0..Full
  /\ open \in 0..Most(Reset, SiteMax) /\ opened \in BOOLEAN /\ (open > 0 => opened)
  /\ refusals \in 0..Threshold /\ siteErrors \in 0..(SiteThreshold - 1)
  /\ pause \in 0..SiteMax
  /\ phase \in [Workers -> {"away", "waiting", "fetching", "viewing"}]
  /\ sleep \in [Workers -> Nat] /\ deaths \in 0..MaxDeaths

Fetching == {w \in Workers : phase[w] = "fetching"}

Budget == INSTANCE RequestBudget WITH level <- Refilled, rest <- open, out <- Fetching

\* The workers together keep to the budget, whichever of them reports what and when: it
\* takes a full token of the shared bucket to send a request, and once the circuit is
\* open neither a late answer nor a probe lets one out early.
KeepsBudget == Budget!Spec

\* While somebody waits, a request goes out in the end: a circuit does not stay open for
\* ever, and workers that poll do not keep each other's token from ripening.  (Which of
\* them it is the limiter leaves open; one of several may starve.)
SomeoneFetches ==
  (\E w \in Workers : phase[w] = "waiting")
    ~> (Fetching # {} \/ \A w \in Workers : phase[w] # "waiting")
=============================================================================
