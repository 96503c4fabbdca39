---------------------------- MODULE RunLifecycle ----------------------------
(***************************************************************************)
(* What a workflow run promises to the panel that shows it, whatever the   *)
(* engines and the network between them do: it is queued once, claimed     *)
(* once, settled once, and what it reports of itself never changes after.  *)
(***************************************************************************)
CONSTANTS Runs, Outcomes, NoCount, Counts

VARIABLES status, count

lifecycle == <<status, count>>

Settled(r) == status[r] \in Outcomes

LInit ==
  /\ status = [r \in Runs |-> "none"]
  /\ count = [r \in Runs |-> NoCount]

\* The panel queues one run; the daily job queues several at once.
Queue(R) ==
  /\ R # {}
  /\ \A r \in R : status[r] = "none"
  /\ status' = [r \in Runs |-> IF r \in R THEN "queued" ELSE status[r]]
  /\ UNCHANGED count

Claim(r) ==
  /\ status[r] = "queued"
  /\ status' = [status EXCEPT ![r] = "running"]
  /\ UNCHANGED count

Settle(r, outcome, n) ==
  /\ status[r] = "running"
  /\ status' = [status EXCEPT ![r] = outcome]
  /\ count' = [count EXCEPT ![r] = n]

LNext ==
  \/ \E R \in SUBSET Runs : Queue(R)
  \/ \E r \in Runs : Claim(r)
  \/ \E r \in Runs, outcome \in Outcomes, n \in Counts : Settle(r, outcome, n)

LSpec == LInit /\ [][LNext]_lifecycle
=============================================================================
