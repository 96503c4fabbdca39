---------------------------- MODULE MetricsImport ----------------------------
(***************************************************************************)
(* How what the hooks of the agents write down becomes the metrics of the  *)
(* sessions: the cost log and the tool-activity log of ecc2 only grow, and *)
(* every dashboard and every command that shows sessions imports them.     *)
(*                                                                         *)
(* A dashboard imports a log when its length and time of change are not    *)
(* those it remembers; a command always does.  A log is read from its start*)
(* each time, line by line while others append, and what is stored is the  *)
(* total, one session after the other; every statement commits on its own. *)
(* A line costs one token.  Which sessions are written first is left open: *)
(* the code goes by a hash map and by the time of the last change.         *)
(***************************************************************************)
EXTENDS Naturals, Sequences, FiniteSets

CONSTANTS
  Sessions,
  Events,     \* the ids of tool calls
  Owner,      \* the session each of them is of
  Dashboards, \* processes that import again and again
  Commands,   \* processes that import when somebody runs them
  Users,      \* processes that delete sessions
  Unborn, Gone,
  MaxCosts, MaxCalls,  \* bounds: lines of the two logs
  Failures    \* whether a statement may fail, or a process be killed

Participants == Dashboards \cup Commands \cup Users

VARIABLES
  costs, \* costs.jsonl: whom each line is about
  calls, \* tool-usage.jsonl: the event of each line, perhaps one written before
  rows,  \* the sessions' tokens and tool calls
  tools, \* tool_log: the events in it
  seen,  \* the length of each log that a dashboard remembers
  op     \* what each process is doing

vars == <<costs, calls, rows, tools, seen, op>>

Live(s) == rows[s] \notin {Unborn, Gone}
LiveSessions == {s \in Sessions : Live(s)}

CostOf(s) == Cardinality({i \in DOMAIN costs : costs[i] = s})
EventsOf(s, E) == {e \in E : Owner[e] = s}
Logged == {calls[i] : i \in DOMAIN calls}

Idle ==
  [at |-> "idle",
   costs |-> [s \in Sessions |-> 0], \* what the cost log adds up to
   next |-> 1,                      \* the next line of the activity log
   counted |-> {},                  \* the events of the lines before
   spent |-> [s \in Sessions |-> 0], \* the tokens list_sessions has given
   todo |-> {}]                     \* the sessions still to be written

Init ==
  /\ costs = <<>> /\ calls = <<>>
  /\ rows = [s \in Sessions |-> Unborn] /\ tools = {}
  /\ seen = [d \in Dashboards |-> [costs |-> 0, calls |-> 0]]
  /\ op = [p \in Participants |-> Idle]

At(p, l) == op[p].at = l
Go(p, o) == op' = [op EXCEPT ![p] = o]
To(p, l) == Go(p, [op[p] EXCEPT !.at = l])

(***************************************************************************)
(* What goes on outside: sessions start, and their hooks write lines.      *)
(***************************************************************************)
Start(s) ==
  /\ rows[s] = Unborn
  /\ rows' = [rows EXCEPT ![s] = [tokens |-> 0, calls |-> 0]]
  /\ UNCHANGED <<costs, calls, tools, seen, op>>

WriteCost(s) ==
  /\ rows[s] # Unborn /\ Len(costs) < MaxCosts
  /\ costs' = Append(costs, s)
  /\ UNCHANGED <<calls, rows, tools, seen, op>>

WriteCall(e) ==
  /\ rows[Owner[e]] # Unborn /\ Len(calls) < MaxCalls
  /\ calls' = Append(calls, e)
  /\ UNCHANGED <<costs, rows, tools, seen, op>>

(***************************************************************************)
(* sync_cost_tracker_metrics.                                              *)
(***************************************************************************)
Unremembered(d, n, log) == d \in Commands \/ seen[d][log] # n

Remember(d, n, log) ==
  seen' = IF d \in Dashboards THEN [seen EXCEPT ![d][log] = n] ELSE seen

LookAtCosts(p) ==
  /\ p \in Dashboards \cup Commands /\ At(p, "idle")
  /\ Remember(p, Len(costs), "costs")
  /\ To(p, IF costs # <<>> /\ Unremembered(p, Len(costs), "costs")
           THEN "costs" ELSE "look")
  /\ UNCHANGED <<costs, calls, rows, tools>>

ReadCosts(p) ==
  /\ At(p, "costs")
  /\ Go(p, [op[p] EXCEPT !.at = "tokens", !.costs = [s \in Sessions |-> CostOf(s)],
                         !.todo = {s \in Sessions : CostOf(s) > 0}])
  /\ UNCHANGED <<costs, calls, rows, tools, seen>>

WriteTokens(p, s) ==
  /\ At(p, "tokens") /\ s \in op[p].todo
  /\ rows' = IF Live(s) THEN [rows EXCEPT ![s].tokens = op[p].costs[s]] ELSE rows
  /\ Go(p, [op[p] EXCEPT !.todo = @ \ {s}])
  /\ UNCHANGED <<costs, calls, tools, seen>>

EndOfCosts(p) ==
  /\ At(p, "tokens") /\ op[p].todo = {}
  /\ Go(p, [Idle EXCEPT !.at = "look"])
  /\ UNCHANGED <<costs, calls, rows, tools, seen>>

(***************************************************************************)
(* sync_tool_activity_metrics.                                             *)
(***************************************************************************)
LookAtCalls(p) ==
  /\ At(p, "look")
  /\ Remember(p, Len(calls), "calls")
  /\ To(p, IF calls # <<>> /\ Unremembered(p, Len(calls), "calls")
           THEN "insert" ELSE "idle")
  /\ UNCHANGED <<costs, calls, rows, tools>>

Line(p) == calls[op[p].next]

\* Mutant: no foreign key is looked at.
InsertForAnybody(p) ==
  /\ At(p, "insert") /\ op[p].next <= Len(calls)
  /\ tools' = tools \cup {Line(p)}
  /\ Go(p, [op[p] EXCEPT !.next = @ + 1, !.counted = @ \cup {Line(p)}])
  /\ UNCHANGED <<costs, calls, rows, seen>>

\* A repeated line is left out, an event the table has is not inserted again;
\* that the session exists is the foreign key's condition.
Insert(p) ==
  /\ At(p, "insert") /\ op[p].next <= Len(calls)
  /\ Line(p) \in op[p].counted \cup tools \/ Live(Owner[Line(p)])
  /\ tools' = IF Line(p) \in op[p].counted THEN tools ELSE tools \cup {Line(p)}
  /\ Go(p, [op[p] EXCEPT !.next = @ + 1, !.counted = @ \cup {Line(p)}])
  /\ UNCHANGED <<costs, calls, rows, seen>>

\* INSERT OR IGNORE does not ignore a session that is gone: the import ends there.
Refuse(p) ==
  /\ At(p, "insert") /\ op[p].next <= Len(calls)
  /\ Line(p) \notin op[p].counted \cup tools /\ ~Live(Owner[Line(p)])
  /\ Go(p, Idle)
  /\ UNCHANGED <<costs, calls, rows, tools, seen>>

ListSessions(p) ==
  /\ At(p, "insert") /\ op[p].next > Len(calls)
  /\ Go(p, [op[p] EXCEPT !.at = "update", !.todo = LiveSessions,
              !.spent = [s \in Sessions |-> IF Live(s) THEN rows[s].tokens ELSE 0]])
  /\ UNCHANGED <<costs, calls, rows, tools, seen>>

\* update_metrics: the whole row is written, the tokens as they were listed.
UpdateMetrics(p, s) ==
  /\ At(p, "update") /\ s \in op[p].todo
  /\ rows' = IF Live(s)
             THEN [rows EXCEPT ![s] =
                     [tokens |-> op[p].spent[s],
                      calls |-> Cardinality(EventsOf(s, op[p].counted))]]
             ELSE rows
  /\ Go(p, [op[p] EXCEPT !.todo = @ \ {s}])
  /\ UNCHANGED <<costs, calls, tools, seen>>

\* Mutant: the length is remembered when the import is through.
RememberCallsLate(p) ==
  /\ At(p, "update") /\ op[p].todo = {}
  /\ Remember(p, Len(calls), "calls") /\ Go(p, Idle)
  /\ UNCHANGED <<costs, calls, rows, tools>>

EndOfCalls(p) ==
  /\ At(p, "update") /\ op[p].todo = {}
  /\ Go(p, Idle)
  /\ UNCHANGED <<costs, calls, rows, tools, seen>>

(***************************************************************************)
(* delete_session: the tool log first, the row, which the log refers to,   *)
(* last.                                                                   *)
(***************************************************************************)
DeleteCalls(p, s) ==
  /\ p \in Users /\ At(p, "idle") /\ rows[s] # Unborn
  /\ tools' = tools \ EventsOf(s, tools)
  /\ Go(p, [Idle EXCEPT !.at = "delete", !.todo = {s}])
  /\ UNCHANGED <<costs, calls, rows, seen>>

\* An error when events have come in between, or the row is gone.
DeleteRow(p, s) ==
  /\ At(p, "delete") /\ s \in op[p].todo
  /\ rows' = IF EventsOf(s, tools) = {} THEN [rows EXCEPT ![s] = Gone] ELSE rows
  /\ Go(p, Idle)
  /\ UNCHANGED <<costs, calls, tools, seen>>

(***************************************************************************)
(* A statement of the import fails, the refresh of the board counted: a    *)
(* dashboard goes on with the other log, a command ends.                   *)
(***************************************************************************)
Fail(p) ==
  /\ Failures /\ ~At(p, "idle")
  /\ Go(p, IF p \in Dashboards /\ op[p].at \in {"costs", "tokens"}
           THEN [Idle EXCEPT !.at = "look"] ELSE Idle)
  /\ UNCHANGED <<costs, calls, rows, tools, seen>>

\* A dashboard is closed or killed, and opened again.
Reopen(d) ==
  /\ Failures
  /\ seen' = [seen EXCEPT ![d] = [costs |-> 0, calls |-> 0]]
  /\ Go(d, Idle)
  /\ UNCHANGED <<costs, calls, rows, tools>>

Import(p) ==
  \/ LookAtCosts(p) \/ ReadCosts(p) \/ (\E s \in Sessions : WriteTokens(p, s)) \/ EndOfCosts(p)
  \/ LookAtCalls(p) \/ Insert(p) \/ Refuse(p) \/ ListSessions(p)
  \/ (\E s \in Sessions : UpdateMetrics(p, s)) \/ EndOfCalls(p)

Next ==
  \/ \E s \in Sessions : Start(s) \/ WriteCost(s)
  \/ \E e \in Events : WriteCall(e)
  \/ \E p \in Participants :
       Import(p) \/ Fail(p) \/ \E s \in Sessions : DeleteCalls(p, s) \/ DeleteRow(p, s)
  \/ \E d \in Dashboards : Reopen(d)

Spec == Init /\ [][Next]_vars

\* The loop of a dashboard ticks for as long as it is open.
FairSpec == Spec /\ \A d \in Dashboards : WF_vars(Import(d))

-----------------------------------------------------------------------------
TypeOK ==
  /\ costs \in Seq(Sessions) /\ Len(costs) <= MaxCosts
  /\ calls \in Seq(Events) /\ Len(calls) <= MaxCalls
  /\ rows \in [Sessions -> {Unborn, Gone} \cup [tokens : Nat, calls : Nat]]
  /\ tools \subseteq Events
  /\ seen \in [Dashboards -> [costs : 0..MaxCosts, calls : 0..MaxCalls]]
  /\ op \in [Participants ->
       [at : {"idle", "costs", "tokens", "look", "insert", "update", "delete"},
        costs : [Sessions -> 0..MaxCosts], next : 1..(MaxCalls + 1),
        counted : SUBSET Events, spent : [Sessions -> Nat], todo : SUBSET Sessions]]

\* However often a log is imported, and by how many at a time, no line of it counts
\* twice.
CountedOnce ==
  \A s \in LiveSessions :
    /\ rows[s].tokens <= CostOf(s)
    /\ rows[s].calls <= Cardinality(EventsOf(s, Logged))

\* An import that goes on while a session is deleted leaves no event of nobody.
EventsHaveSessions == \A e \in tools : Live(Owner[e])

\* What one dashboard comes to, whatever is appended while it reads: every token is
\* accounted for, and every tool call while no line is about a deleted session.
MetricsAreCurrent ==
  \A s \in LiveSessions :
    /\ rows[s].tokens = CostOf(s)
    /\ (\A e \in Logged : Live(Owner[e])) =>
         rows[s].calls = Cardinality(EventsOf(s, Logged))
=============================================================================
