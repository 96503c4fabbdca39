------------------------------- MODULE Store -------------------------------
(***************************************************************************)
(* What ecc2 keeps in its database and is not about control: its schema,   *)
(* the observations of the context graph, the metrics of the sessions, the *)
(* board, and the checkpoints of the memory connectors.  The five share no *)
(* table, and each is a module of its own; here they run beside each other *)
(* in one database.                                                        *)
(***************************************************************************)
EXTENDS SchemaMigration, FiniteSets

CONSTANTS
  Entities, Texts, None, Retention, Limits, MaxAdds,             \* ContextMemory
  Sessions, Events, Owner, Dashboards, Commands, Users,          \* MetricsImport
  Unborn, Gone, MaxCosts, MaxCalls, Failures,
  Lanes, Inbox, Closed, Labels, Writers, BoardChanges,           \* SessionBoard
  Kinds, Files, Records, Limit, MaxRecords, FileChanges          \* MemoryConnector

VARIABLES
  obs, adds, ids, adding, torn, loose,
  costs, calls, metrics, tools, seen, importing,
  listing, row, unread, cards, showing, changes,
  kind, inode, lines, time, imported, check, syncing

schemaVars == vars
memoryVars == <<obs, adds, ids, adding, torn, loose>>
importVars == <<costs, calls, metrics, tools, seen, importing>>
boardVars == <<listing, row, unread, cards, showing, changes>>
syncVars == <<kind, inode, lines, time, imported, check, syncing>>
storeVars == <<schemaVars, memoryVars, importVars, boardVars, syncVars>>

Memory == INSTANCE ContextMemory WITH op <- adding
Import == INSTANCE MetricsImport WITH rows <- metrics, op <- importing
Board == INSTANCE SessionBoard WITH op <- showing, MaxChanges <- BoardChanges
Sync == INSTANCE MemoryConnector WITH op <- syncing, MaxChanges <- FileChanges

(***************************************************************************)
(* Numbers are numbers, an event is of a session, what stands for no row   *)
(* is none, and the files are numbered.                                    *)
(***************************************************************************)
ASSUME StoreAssumption ==
  /\ Retention \in Nat /\ Limits \subseteq Nat /\ MaxAdds \in Nat
  /\ Owner \in [Events -> Sessions]
  /\ {Unborn, Gone} \cap [tokens : Nat, calls : Nat] = {}
  /\ MaxCosts \in Nat /\ MaxCalls \in Nat
  /\ IsFiniteSet(Sessions) /\ Inbox \in Lanes /\ BoardChanges \in Nat
  /\ Limit \in Nat /\ MaxRecords \in Nat /\ FileChanges \in Nat
  /\ IsFiniteSet(Files) /\ 1 \in Files /\ Files = 1..Cardinality(Files)

StoreInit == Init /\ Memory!Init /\ Import!Init /\ Board!Init /\ Sync!Init

StoreNext ==
  \/ Next /\ UNCHANGED <<memoryVars, importVars, boardVars, syncVars>>
  \/ Memory!Next /\ UNCHANGED <<schemaVars, importVars, boardVars, syncVars>>
  \/ Import!Next /\ UNCHANGED <<schemaVars, memoryVars, boardVars, syncVars>>
  \/ Board!Next /\ UNCHANGED <<schemaVars, memoryVars, importVars, syncVars>>
  \/ Sync!Next /\ UNCHANGED <<schemaVars, memoryVars, importVars, boardVars>>

StoreSpec == StoreInit /\ [][StoreNext]_storeVars

-----------------------------------------------------------------------------
\* Every part keeps to its types, and no sync reads more than its limit.
StoreTypes ==
  TypeOK /\ Memory!TypeOK /\ Import!TypeOK /\ Board!TypeOK /\ Sync!TypeOK

\* However additions, compactions, pinning and kills interleave, the history of an
\* entity keeps no repeats and no more than its retention (ContextMemory).
MemoryIsCompact == Memory!NoRepeats /\ Memory!HistoryIsBounded

\* And compaction takes away neither what is pinned nor what was learned last.
MemoryStays == [][Memory!PinnedStays /\ Memory!LatestStays]_storeVars

\* Importing at once, again after failures and while sessions are deleted counts no
\* line twice and leaves no event of nobody (MetricsImport).
ImportsAreExact == Import!CountedOnce /\ Import!EventsHaveSessions

\* A file that the next sync would pass over has come in, however files change and
\* syncs overlap and fail, when the signature is taken before the file is opened
\* (MemoryConnector).
CheckpointMeansImported == Sync!CheckpointMeansImported
=============================================================================
