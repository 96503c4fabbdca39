------------------------------- MODULE MCStore -------------------------------
(***************************************************************************)
(* TLC instance of Store.  Its modules share no table, so a behaviour runs *)
(* one of them, chosen at first, and the others stay as they began: their  *)
(* states add up and do not multiply.                                      *)
(***************************************************************************)
EXTENDS Store, TLC

CONSTANTS p1, p2, p3, s1, s2, e1, e2, t1, t2

MCOwner == e1 :> s1 @@ e2 :> s2

(***************************************************************************)
(* The databases there may be: before any version, of two versions that    *)
(* the tests of the code migrate, and one that only lacks what came last.  *)
(***************************************************************************)
Has(t, names) == [table : {t}, name : names]
Old(ts, cs, r) == [tables |-> ts, columns |-> cs, rows |-> r]

MCLegacy ==
  LET all == Range(SchemaColumns) IN
  {Old({}, {}, FALSE),
   Old({"sessions", "tool_log"}, {}, TRUE),
   Old({"sessions"},
       Has("sessions", {"working_dir", "worktree_path", "worktree_branch",
         "worktree_base", "tokens_used", "tool_calls", "files_changed",
         "duration_secs", "cost_usd"}), TRUE),
   Old(SchemaTables,
       all \ ({SchemaHeartbeat} \cup Has("session_board", {"conflict_signal"})), TRUE)}

VARIABLE part \* which module runs

mcVars == <<storeVars, part>>

Parts == {"schema", "memory", "import", "alone", "board", "sync", "syncs"}

MCInit ==
  /\ StoreInit /\ part \in Parts
  /\ part # "schema" => tables = {}
  /\ part # "board" => \A s \in Sessions : row[s].label = 1
  /\ part \notin {"sync", "syncs"} =>
       kind = "markdown" /\ \A f \in Files : lines[f] = <<>>
  /\ part = "syncs" => lines[2] = <<>> /\ Len(lines[1]) <= 1

\* One dashboard imports by itself, and nothing fails.
ImportsAlone ==
  \/ \E s \in Sessions : Import!Start(s) \/ Import!WriteCost(s)
  \/ \E e \in Events : Import!WriteCall(e)
  \/ Import!Import(p1)
  \/ \E s \in Sessions : Import!DeleteCalls(p3, s) \/ Import!DeleteRow(p3, s)

\* A command imports as well, and both may fail; the logs are shorter.
ImportsAtOnce == Import!Next /\ Len(costs') <= 1 /\ Len(calls') <= 1

\* One sync after the other, of two files with a limit.
SyncsInTurn ==
  \/ \E f \in Files, c \in Sync!Contents : Sync!WriteOver(f, c) \/ Sync!Replace(f, c)
  \/ Sync!Step(p1)

\* Two syncs at once, which may fail, while a file of one record or none changes.
SyncsAtOnce ==
  Sync!Next /\ lines'[2] = <<>> /\ time'[2] = 1 /\ Len(lines'[inode'[1]]) <= 1

MCNext ==
  /\ part' = part
  /\ \/ part = "schema" /\ Next /\ UNCHANGED <<memoryVars, importVars, boardVars, syncVars>>
     \/ /\ part = "memory" /\ Memory!Next
        /\ UNCHANGED <<schemaVars, importVars, boardVars, syncVars>>
     \/ /\ UNCHANGED <<schemaVars, memoryVars, boardVars, syncVars>>
        /\ \/ part = "import" /\ ImportsAtOnce
           \/ part = "alone" /\ ImportsAlone
     \/ /\ part = "board" /\ Board!Next
        /\ UNCHANGED <<schemaVars, memoryVars, importVars, syncVars>>
     \/ /\ UNCHANGED <<schemaVars, memoryVars, importVars, boardVars>>
        /\ \/ part = "sync" /\ SyncsInTurn
           \/ part = "syncs" /\ SyncsAtOnce

\* The fairness of the parts whose copies are to catch up.
MCSpec ==
  /\ MCInit /\ [][MCNext]_mcVars
  /\ WF_schemaVars(part = "schema" /\ Step(p1)) /\ WF_schemaVars(part = "schema" /\ Step(p2))
  /\ WF_importVars(part = "alone" /\ Import!Import(p1))
  /\ WF_boardVars(part = "board" /\ Board!Tick(p1))
  /\ WF_boardVars(part = "board" /\ Board!Refresh(p1))
  /\ WF_boardVars(part = "board" /\ Board!Refresh(p2))
  /\ WF_syncVars(part = "sync" /\ Sync!Step(p1))

-----------------------------------------------------------------------------
\* What is derived from something else comes to agree with it: metrics with the
\* logs, the board with the sessions, the context graph with the connected files.
CopiesCatchUp ==
  <>[](/\ part = "alone" => Import!MetricsAreCurrent
       /\ part = "board" => Board!BoardMirrors
       /\ part = "sync" => Sync!EveryFileIsIn)
=============================================================================
