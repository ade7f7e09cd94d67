---------------------------- MODULE SingleFlight ----------------------------
(***************************************************************************)
(* What the discovery queue promises, with no claims, leases, processes or *)
(* clocks in it: a job has at most one crawl in flight, starts one only    *)
(* while it is pending, and is dispatched only after a crawl completed.    *)
(***************************************************************************)
CONSTANTS Jobs

VARIABLES
  status,   \* "absent", "pending", "dispatched" or "failed"
  flying,   \* the jobs with a crawl in flight
  crawled   \* the jobs a crawl of which has completed

vars == <<status, flying, crawled>>

Init ==
  /\ status = [j \in Jobs |-> "absent"]
  /\ flying = {}
  /\ crawled = {}

Enqueue(j) ==
  /\ status[j] = "absent"
  /\ status' = [status EXCEPT ![j] = "pending"]
  /\ UNCHANGED <<flying, crawled>>

TakeOff(j) ==
  /\ status[j] = "pending" /\ j \notin flying
  /\ flying' = flying \cup {j}
  /\ UNCHANGED <<status, crawled>>

\* A crawl completes.
Land(j) ==
  /\ j \in flying
  /\ flying' = flying \ {j}
  /\ crawled' = crawled \cup {j}
  /\ UNCHANGED status

\* Crawls fail; one reconciliation pass may fail several.
Fall(S) ==
  /\ S # {} /\ S \subseteq flying
  /\ flying' = flying \ S
  /\ UNCHANGED <<status, crawled>>

\* A pending job is given up.
GiveUp(j) ==
  /\ status[j] = "pending"
  /\ status' = [status EXCEPT ![j] = "failed"]
  /\ UNCHANGED <<flying, crawled>>

\* A job with a completed crawl is dispatched, even one already given up.
MarkDispatched(j) ==
  /\ status[j] \in {"pending", "failed"} /\ j \in crawled
  /\ status' = [status EXCEPT ![j] = "dispatched"]
  /\ UNCHANGED <<flying, crawled>>

Next ==
  \/ \E j \in Jobs : Enqueue(j) \/ TakeOff(j) \/ Land(j) \/ GiveUp(j)
                     \/ MarkDispatched(j)
  \/ \E S \in SUBSET flying : Fall(S)

Spec == Init /\ [][Next]_vars

=============================================================================
