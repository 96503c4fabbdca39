--------------------------- MODULE SchemaMigration ---------------------------
(***************************************************************************)
(* How StateStore::open of ecc2 brings a database of an earlier version up *)
(* to date.  Every command, dashboard and daemon opens the database for    *)
(* itself; several may migrate it at once, and each may be killed half-way *)
(* through.  Every statement commits on its own.                           *)
(*                                                                         *)
(* Only the columns that were added to the tables over time are told       *)
(* apart.  Steps that leave tables and columns alone, and cannot fail on   *)
(* them, are left out: the other indexes and the backfill of harnesses.    *)
(***************************************************************************)
EXTENDS Naturals, Sequences, Functions

CONSTANTS
  Processes,
  Tables,
  Columns,    \* a table and a column each, in the order they are looked for
  Heartbeat,  \* the one whose values are taken from another column
  BoardIndex, \* the columns of the index made together with the tables
  Legacy      \* the databases there may be

ASSUME SchemaAssumption ==
  /\ Columns \in Seq([table : Tables, name : STRING])
  /\ Heartbeat \in Range(Columns) /\ BoardIndex \subseteq Range(Columns)
  /\ \A d \in Legacy : /\ d.tables \subseteq Tables /\ d.rows \in BOOLEAN
                       /\ d.columns \subseteq Range(Columns)

(***************************************************************************)
(* The columns that ensure_session_columns and ensure_session_board_columns *)
(* look for, table by table.  Columns, Heartbeat, BoardIndex and Tables are *)
(* given these values.                                                     *)
(***************************************************************************)
In(t, names) == [i \in DOMAIN names |-> [table |-> t, name |-> names[i]]]

SessionColumns == In("sessions", <<
  "working_dir", "pid", "project", "task_group", "harness",
  "detected_harnesses_json", "input_tokens", "output_tokens",
  "tokens_used", "tool_calls", "files_changed", "duration_secs",
  "cost_usd", "last_heartbeat_at", "worktree_path", "worktree_branch",
  "worktree_base">>)

ToolColumns == In("tool_log", <<
  "hook_event_id", "file_paths_json", "file_events_json",
  "input_params_json", "trigger_summary">>)

ObservationColumns == In("context_graph_observations", <<
  "priority", "pinned">>)

DaemonColumns == In("daemon_activity", <<
  "last_dispatch_deferred", "last_recovery_dispatch_at",
  "last_recovery_dispatch_routed", "last_recovery_dispatch_leads",
  "chronic_saturation_streak", "last_auto_merge_at",
  "last_auto_merge_merged", "last_auto_merge_active_skipped",
  "last_auto_merge_conflicted_skipped", "last_auto_merge_dirty_skipped",
  "last_auto_merge_failed", "last_auto_prune_at",
  "last_auto_prune_pruned", "last_auto_prune_active_skipped">>)

RequestColumns == In("remote_dispatch_requests", <<
  "request_kind", "target_url">>)

BoardColumns == In("session_board", <<
  "row_label", "previous_lane", "previous_row_label", "column_index",
  "row_index", "stack_index", "progress_percent", "status_detail",
  "movement_note", "activity_kind", "activity_note", "handoff_backlog",
  "conflict_signal">>)

SchemaColumns ==
  SessionColumns \o ToolColumns \o ObservationColumns \o DaemonColumns
    \o RequestColumns \o BoardColumns
SchemaTables == {SchemaColumns[i].table : i \in DOMAIN SchemaColumns}
SchemaHeartbeat == [table |-> "sessions", name |-> "last_heartbeat_at"]
SchemaBoardIndex ==
  {[table |-> "session_board", name |-> n] :
     n \in {"column_index", "row_index", "stack_index"}}

VARIABLES
  tables,
  columns, \* the columns there are, of those in Columns
  rows,    \* whether there are sessions
  nulls,   \* whether some session has no heartbeat
  at,      \* where each process is in opening the database
  col,     \* the column it looks for
  cut      \* history: what was broken off, an opening or even a backfill

vars == <<tables, columns, rows, nulls, at, col, cut>>

Init ==
  /\ \E d \in Legacy : tables = d.tables /\ columns = d.columns /\ rows = d.rows
  /\ nulls = FALSE
  /\ at = [p \in Processes |-> "closed"]
  /\ col = [p \in Processes |-> 1]
  /\ cut = "nothing"

Go(p, l) == at' = [at EXCEPT ![p] = l] /\ col' = col
\* Mutant: the next column counts as seen.
SkipColumn(p) == /\ at' = [at EXCEPT ![p] = "look"]
                 /\ col' = [col EXCEPT ![p] = @ + 2]
NextColumn(p) == /\ at' = [at EXCEPT ![p] = "look"]
                 /\ col' = [col EXCEPT ![p] = @ + 1]

Open(p) ==
  /\ at[p] = "closed"
  /\ at' = [at EXCEPT ![p] = "create"]
  /\ col' = [col EXCEPT ![p] = 1]
  /\ UNCHANGED <<tables, columns, rows, nulls, cut>>

(***************************************************************************)
(* init_schema: tables that are missing are created with all their columns,*)
(* then the indexes, one of which needs columns that are only added below. *)
(***************************************************************************)
CreateTable(p) ==
  /\ at[p] = "create"
  /\ \/ /\ tables = Tables /\ Go(p, "index")
        /\ UNCHANGED <<tables, columns>>
     \/ \E t \in Tables \ tables :
          /\ tables' = tables \cup {t}
          /\ columns' = columns \cup {c \in Range(Columns) : c.table = t}
          /\ UNCHANGED <<at, col>>
  /\ UNCHANGED <<rows, nulls, cut>>

\* Mutant: the index on hook events as well, whose column comes later.
IndexAll(p) ==
  /\ at[p] = "index"
  /\ Go(p, IF BoardIndex \cup {c \in Range(Columns) : c.name = "hook_event_id"}
                \subseteq columns THEN "look" ELSE "closed")
  /\ UNCHANGED <<tables, columns, rows, nulls, cut>>

CreateIndexes(p) ==
  /\ at[p] = "index"
  /\ Go(p, IF BoardIndex \subseteq columns THEN "look" ELSE "closed")
  /\ UNCHANGED <<tables, columns, rows, nulls, cut>>

(***************************************************************************)
(* ensure_session_columns and ensure_session_board_columns.                *)
(***************************************************************************)
HasColumn(p) ==
  /\ at[p] = "look"
  /\ CASE col[p] > Len(Columns) -> Go(p, "list")
       [] col[p] <= Len(Columns) /\ Columns[col[p]] \in columns -> NextColumn(p)
       [] OTHER -> Go(p, "add")
  /\ UNCHANGED <<tables, columns, rows, nulls, cut>>

\* Mutant: the new column is taken for filled.
AddUnfilled(p) ==
  /\ at[p] = "add"
  /\ LET c == Columns[col[p]] IN
       /\ columns' = columns \cup {c}
       /\ nulls' = (nulls \/ (c = Heartbeat /\ c \notin columns /\ rows))
       /\ IF c \in columns THEN Go(p, "closed") ELSE NextColumn(p)
  /\ UNCHANGED <<tables, rows, cut>>

\* A column that another process has added meanwhile is an error, and ends the
\* opening.
AddColumn(p) ==
  /\ at[p] = "add"
  /\ LET c == Columns[col[p]] IN
       \/ /\ c \in columns /\ Go(p, "closed")
          /\ UNCHANGED <<columns, nulls>>
       \/ /\ c \notin columns /\ columns' = columns \cup {c}
          /\ nulls' = (nulls \/ (c = Heartbeat /\ rows))
          /\ IF c = Heartbeat THEN Go(p, "backfill") ELSE NextColumn(p)
  /\ UNCHANGED <<tables, rows, cut>>

Backfill(p) ==
  /\ at[p] = "backfill"
  /\ nulls' = FALSE
  /\ NextColumn(p)
  /\ UNCHANGED <<tables, columns, rows, cut>>

(***************************************************************************)
(* refresh_session_board_meta lists the sessions, and a session without a  *)
(* heartbeat cannot be read.                                               *)
(***************************************************************************)
ListSessions(p) ==
  /\ at[p] = "list"
  /\ Go(p, IF nulls THEN "closed" ELSE "open")
  /\ UNCHANGED <<tables, columns, rows, nulls, cut>>

\* A process at work on the open database, which writes all columns of a session.
Work(p) ==
  /\ at[p] = "open"
  /\ \/ ~rows /\ rows' = TRUE /\ UNCHANGED <<at, col>>
     \/ Go(p, "closed") /\ rows' = rows
  /\ UNCHANGED <<tables, columns, nulls, cut>>

\* The process is killed, or a statement waits for the lock for too long.
Break(p) ==
  /\ at[p] \notin {"closed", "open"}
  /\ Go(p, "closed")
  /\ cut' = IF "backfill" \in {at[p], cut} THEN "backfill" ELSE "opening"
  /\ UNCHANGED <<tables, columns, rows, nulls>>

Step(p) ==
  \/ CreateTable(p) \/ CreateIndexes(p) \/ HasColumn(p) \/ AddColumn(p)
  \/ Backfill(p) \/ ListSessions(p)
Next == \E p \in Processes : Open(p) \/ Step(p) \/ Work(p) \/ Break(p)

Spec == Init /\ [][Next]_vars

\* An opening that has begun goes on, or is broken off.
FairSpec == Spec /\ \A p \in Processes : WF_vars(Step(p))

-----------------------------------------------------------------------------
TypeOK ==
  /\ tables \subseteq Tables /\ columns \subseteq Range(Columns)
  /\ rows \in BOOLEAN /\ nulls \in BOOLEAN
  /\ at \in [Processes -> {"closed", "create", "index", "look", "add", "backfill",
                           "list", "open"}]
  /\ col \in [Processes -> 1..(Len(Columns) + 1)]
  /\ cut \in {"nothing", "opening", "backfill"}

\* A process that has opened the database can use it: no column is missing and
\* every session can be read, whoever migrated it and whatever was cut short.
OpenedMeansUsable ==
  \A p \in Processes : at[p] = "open" => Range(Columns) \subseteq columns /\ ~nulls

\* Sessions of an earlier version get their heartbeats: the process that added
\* the column is about to fill it in.  Only when that very process is killed, or
\* locked out, between the two statements does a session stay without; nobody
\* else ever fills it in, and the database cannot be opened.
HeartbeatsAreFilled ==
  nulls => cut = "backfill" \/ \E p \in Processes : at[p] = "backfill"

\* Processes that migrate at once may make each other fail, but not all of them:
\* when one begins to open the database, it or another gets in, unless an opening
\* is broken off.
SomebodyGetsIn ==
  (\E p \in Processes : at[p] = "create") ~>
    (cut # "nothing" \/ \E p \in Processes : at[p] = "open")
=============================================================================
