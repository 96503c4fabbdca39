------------------------- MODULE MCDeveloperHandoff -------------------------
(***************************************************************************)
(* TLC instance of DeveloperHandoff: one file holds two findings of one    *)
(* rule whose code reads the same; requests are interchangeable.           *)
(***************************************************************************)
EXTENDS DeveloperHandoff, TLC

CONSTANTS app, f1, f2

OneFile == [f \in Findings |-> app]
OneRule == [f \in Findings |-> "PG003"]
Lines == f1 :> 1 @@ f2 :> 2
Copied == [f \in Findings |-> "token"]
AnyBatch == SUBSET Findings \ {{}}

HandoffSymmetry == Permutations(Requests)

=============================================================================
