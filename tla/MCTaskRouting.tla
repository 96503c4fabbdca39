---------------------------- MODULE MCTaskRouting ----------------------------
(***************************************************************************)
(* TLC instances of TaskRouting: one handoff waits for a delegate, a       *)
(* second task arrives by hand and a third as a request or an occurrence;  *)
(* the daemon d coordinates while somebody works at the command line c.    *)
(* Nobody hands off to himself.                                            *)
(***************************************************************************)
EXTENDS TaskRouting, TLC

CONSTANTS l0, s1, t1, t2, t3, d, c

MCBacklog == <<Message(l0, s1, t1)>>
MCArrivals ==
  [t \in Tasks |-> CASE t = t1 -> {}
                     [] t = t2 -> {"handoff", "assign"}
                     [] t = t3 -> {"pending", "due"}]
MCContacts == {<<f, l>> \in {l0, s1} \X Sessions : f # l}
MCPasses ==
  [k \in Coordinators |-> IF k = d THEN {"coordinate", "remote", "due"}
                          ELSE {"assign", "rebalance", "remote"}]
=============================================================================
