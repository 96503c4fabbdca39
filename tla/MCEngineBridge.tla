--------------------------- MODULE MCEngineBridge ---------------------------
(***************************************************************************)
(* TLC instance of EngineBridge: behaviours of one run, r1, under every    *)
(* fault, and behaviours of two runs without faults.                       *)
(***************************************************************************)
EXTENDS EngineBridge, TLC

CONSTANTS r1, r2, f1

VARIABLE calm \* whether the behaviour is one without faults

Calm == INSTANCE EngineBridge WITH Faults <- {}, Findings <- {f1}

MCInit == calm \in BOOLEAN /\ Init
MCNext ==
  /\ calm' = calm
  /\ \/ calm /\ Calm!Next
     \/ ~calm /\ Next /\ status'[r2] = "none"

MCSpec == MCInit /\ [][MCNext]_<<vars, calm>> /\ Calm!Fairness

-----------------------------------------------------------------------------
\* Every queued run is eventually settled when nothing goes wrong, whatever
\* number of engines compete for the same polls.
QueuedRunsEnd ==
  \A r \in Runs :
    calm /\ status[r] = "queued" ~> status[r] \in {"completed", "failed"}
=============================================================================
