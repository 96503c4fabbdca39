--------------------------- MODULE MCWorktreeQueue ---------------------------
(***************************************************************************)
(* TLC instance of WorktreeQueue: the symmetry of interchangeable          *)
(* sessions, daemons and runners.                                          *)
(***************************************************************************)
EXTENDS WorktreeQueue, TLC

Symm == Permutations(Sessions) \cup Permutations(Daemons) \cup Permutations(Runners)

=============================================================================
