--------------------------- MODULE MCBacklogCycle ---------------------------
(***************************************************************************)
(* TLC instances of BacklogCycle.  Two handoffs may wait at the lead l1,   *)
(* one at any other.  Streaks above MaxStreak, beyond the threshold of the *)
(* cooloff, are not told apart.                                            *)
(***************************************************************************)
EXTENDS BacklogCycle, TLC

CONSTANT l1

MCWaiting == [l \in Leads |-> IF l = l1 THEN 2 ELSE 1]
=============================================================================
