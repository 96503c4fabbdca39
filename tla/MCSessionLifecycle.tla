------------------------- MODULE MCSessionLifecycle -------------------------
(***************************************************************************)
(* TLC instances of SessionLifecycle: model values, the operations each    *)
(* configuration issues, and the symmetry of interchangeable processes.    *)
(***************************************************************************)
EXTENDS SessionLifecycle, TLC

AllOps == Kinds
OperatorOps == {"launch", "stop", "resume", "enforce", "recover"}
DaemonOps == {"launch", "enforce", "recover", "prune"}
ResumeOps == {"launch", "enforce", "resume"}

AllCrashes == {"runner", "caller"}
RunnerCrashes == {"runner"}
NoCrashes == {}

Symm == Permutations(Runners) \cup Permutations(Callers)
=============================================================================
