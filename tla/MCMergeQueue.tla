---------------------------- MODULE MCMergeQueue ----------------------------
(***************************************************************************)
(* TLC instance of MergeQueue: two branches that change the same line, or  *)
(* of which one changes none.                                              *)
(***************************************************************************)
EXTENDS MergeQueue, TLC

CONSTANTS s1, s2, x

MCWritten == {s1 :> E @@ s2 :> {x} : E \in SUBSET {x}}

=============================================================================
