--------------------------- MODULE DaemonActivity ---------------------------
(***************************************************************************)
(* The row of daemon_activity in the database of ecc2: what the passes of  *)
(* the daemon have come to, and what that tells the next of its cycles.    *)
(* The row outlives the daemon.  Of the times in it only their order       *)
(* counts.                                                                 *)
(***************************************************************************)
EXTENDS Naturals

VARIABLES
  deferred, \* last_dispatch_deferred
  latest,   \* a dispatch, a recovery, or a dispatch after one
  streak,   \* chronic_saturation_streak
  at,       \* where the daemon is in its cycle
  dry,      \* history: dispatch passes on end that gave nothing out
  mute      \* history: something was given out, and that was not recorded

prefers_rebalance_first == deferred > 0 /\ latest \in {"dispatch", "later"}

dispatch_cooloff_active ==
  prefers_rebalance_first /\ (deferred >= 2 \/ streak >= 3)

stabilized_after_recovery == deferred = 0 /\ latest = "later"

\* A streak of n, from which the cooloff and the call for an operator follow,
\* says that n dispatch passes on end found the teams full: all but the first
\* of them gave nothing out, unless a pass broke off before it had recorded
\* what it gave out.
StreakMeansStuck == streak <= dry + 1 \/ at = "recover" \/ mute
=============================================================================
