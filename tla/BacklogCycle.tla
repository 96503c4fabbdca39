---------------------------- MODULE BacklogCycle ----------------------------
(***************************************************************************)
(* How the daemon of ecc2 decides, in every loop, between giving out the   *)
(* handoffs that wait in the inboxes of leads (a dispatch pass) and        *)
(* relieving delegates that have too many (a rebalance pass).  It decides  *)
(* on what earlier passes have recorded in the row of daemon_activity.     *)
(*                                                                         *)
(* TaskRouting has the passes message by message.  Here they go lead by    *)
(* lead over the number of handoffs waiting at each and of places in its   *)
(* team, and visit no more leads than the limit; which of them come first  *)
(* (by priority, number and age of the handoffs, or by the last change of  *)
(* the row) is left open.  There is one daemon.                            *)
(***************************************************************************)
EXTENDS DaemonActivity, FiniteSets

CONSTANTS
  Leads,
  MaxTeam,    \* cfg.max_parallel_sessions
  Limit,      \* cfg.auto_dispatch_limit_per_session
  LeadLimit,  \* how many leads a pass visits; cfg.max_parallel_sessions, too, and
              \* apart from MaxTeam so that two leads can be more than that
  MaxWaiting, \* bound: handoffs waiting at each lead
  MaxStreak,  \* bound: where streaks are no longer told apart
  MaxMishaps  \* bound: cycles that fail, crashes of the daemon, leads deleted

ASSUME CycleAssumption ==
  /\ MaxTeam \in Nat /\ Limit \in Nat /\ LeadLimit \in Nat
  /\ MaxWaiting \in [Leads -> Nat] /\ MaxMishaps \in Nat
  /\ MaxStreak \in Nat /\ MaxStreak > 3

VARIABLES
  waiting,  \* unread handoffs of each lead
  room,     \* how many of them its team could take
  piled,    \* how many a rebalance would move off its busy delegates
  gone,     \* leads whose row was deleted
  mode,     \* what the row said when the cycle began
  todo,     \* leads the pass has still to visit
  routed,   \* handoffs the dispatch pass gave out
  held,     \* those it deferred
  moved,    \* those the rebalance pass moved
  mishaps   \* history: mishaps so far

backlog == <<waiting, room, piled, gone>>
activity == <<deferred, latest, streak>>
cycle == <<at, mode, todo, routed, held, moved>>
history == <<mishaps, dry, mute>>
vars == <<backlog, activity, cycle, history>>

Least(a, b) == IF a < b THEN a ELSE b
\* The first n of a set whose order is left open.
Pick(S, n) == {T \in SUBSET S : Cardinality(T) = Least(n, Cardinality(S))}

Init ==
  /\ waiting = [l \in Leads |-> 0]
  /\ room = [l \in Leads |-> MaxTeam]
  /\ piled = [l \in Leads |-> 0]
  /\ gone = {}
  /\ deferred = 0 /\ latest = "none" /\ streak = 0
  /\ at = "idle" /\ mode = "first" /\ todo = {}
  /\ routed = 0 /\ held = 0 /\ moved = 0
  /\ mishaps = 0 /\ dry = 0 /\ mute = FALSE

Mishap == mishaps < MaxMishaps /\ mishaps' = mishaps + 1

(***************************************************************************)
(* What users, agents and the other processes do to the backlog.           *)
(***************************************************************************)
HandOff(l) ==
  /\ l \notin gone /\ waiting[l] < MaxWaiting[l]
  /\ waiting' = [waiting EXCEPT ![l] = @ + 1]
  /\ UNCHANGED <<room, piled, gone, activity, cycle, history>>

\* mark_messages_read: somebody looks at the inbox.
View(l) ==
  /\ l \notin gone /\ waiting[l] > 0
  /\ waiting' = [waiting EXCEPT ![l] = 0]
  /\ UNCHANGED <<room, piled, gone, activity, cycle, history>>

\* Delegates read their inboxes, end, and are given work.  It takes a busy one
\* for a pile.
TeamChanges(l) ==
  /\ l \notin gone
  /\ \E r, n \in 0..MaxTeam :
       /\ n <= r /\ (n > 0 => r < MaxTeam)
       /\ <<r, n>> # <<room[l], piled[l]>>
       /\ room' = [room EXCEPT ![l] = r]
       /\ piled' = [piled EXCEPT ![l] = n]
  /\ UNCHANGED <<waiting, gone, activity, cycle, history>>

\* store.delete_session: the messages go before the row.
delete_session(l) ==
  /\ l \notin gone /\ Mishap
  /\ gone' = gone \cup {l}
  /\ waiting' = [waiting EXCEPT ![l] = 0]
  /\ UNCHANGED <<room, piled, activity, cycle, dry, mute>>

\* A handoff sent between the two, or by a pass that chose the session before
\* (TaskRouting): nobody will ever read it.
LateHandOff(l) ==
  /\ l \in gone /\ waiting[l] < MaxWaiting[l]
  /\ waiting' = [waiting EXCEPT ![l] = @ + 1]
  /\ UNCHANGED <<room, piled, gone, activity, cycle, history>>

(***************************************************************************)
(* The policy: DaemonActivity and coordinate_backlog_cycle_with.           *)
(***************************************************************************)
Rest ==
  /\ at' = "idle" /\ mode' = "first" /\ todo' = {}
  /\ routed' = 0 /\ held' = 0 /\ moved' = 0

\* unread_task_handoff_targets.
Waiters == {l \in Leads : waiting[l] > 0}
StartDispatch(m) ==
  /\ at' = "dispatch" /\ mode' = m
  /\ todo' \in Pick(Waiters, LeadLimit)
  /\ routed' = 0 /\ held' = 0 /\ moved' = 0

StartRebalance(m) ==
  /\ at' = "rebalance" /\ mode' = m
  /\ todo' \in Pick(Leads \ gone, LeadLimit)
  /\ held' = held /\ routed' = 0 /\ moved' = 0

\* The row is read once for the whole cycle.
Begin ==
  /\ at = "idle"
  /\ IF prefers_rebalance_first
     THEN StartRebalance(IF dispatch_cooloff_active THEN "cooloff" ELSE "relieve")
     ELSE StartDispatch(IF stabilized_after_recovery THEN "stable" ELSE "first")
  /\ UNCHANGED <<backlog, activity, history>>

\* drain_inbox: as many of a lead's handoffs as its team can take are given
\* out.  A smaller team has fewer to move.
Drain(l) ==
  LET batch == Least(waiting[l], Limit)
      given == Least(batch, room[l])
  IN
  /\ at = "dispatch" /\ l \in todo \ gone
  /\ waiting' = [waiting EXCEPT ![l] = @ - given]
  /\ room' = [room EXCEPT ![l] = @ - given]
  /\ piled' = [piled EXCEPT ![l] = Least(@, room[l] - given)]
  /\ todo' = todo \ {l}
  /\ routed' = routed + given /\ held' = held + (batch - given)
  /\ UNCHANGED <<gone, activity, at, mode, moved, history>>

\* record_daemon_dispatch_pass at the end of the pass, and what follows.
RecordDispatch ==
  /\ at = "dispatch" /\ todo = {}
  /\ deferred' = held
  /\ latest' = IF latest \in {"none", "dispatch"} THEN "dispatch" ELSE "later"
  /\ streak' = IF held > 0 THEN Least(streak + 1, MaxStreak) ELSE 0
  /\ dry' = IF routed > 0 THEN 0 ELSE Least(dry + 1, MaxStreak)
  /\ IF mode = "first" \/ (mode = "stable" /\ held > 0) THEN StartRebalance("first")
     ELSE IF mode # "stable" /\ routed > 0
     THEN at' = "recover" /\ UNCHANGED <<mode, todo, routed, held, moved>>
     ELSE Rest
  /\ UNCHANGED <<backlog, mishaps, mute>>

\* Mutant: the streak goes on after a recovery.
RecordRecoveryOnly ==
  /\ at = "recover"
  /\ latest' = "recovery" /\ UNCHANGED <<deferred, streak>>
  /\ Rest
  /\ UNCHANGED <<backlog, history>>

\* record_daemon_recovery_dispatch_pass.
RecordRecovery ==
  /\ at = "recover"
  /\ latest' = "recovery" /\ streak' = 0 /\ deferred' = deferred
  /\ Rest
  /\ UNCHANGED <<backlog, history>>

\* rebalance_team_backlog: each handoff that is moved takes a place.
Relieve(l) ==
  LET n == Least(piled[l], Limit) IN
  /\ at = "rebalance" /\ l \in todo \ gone
  /\ room' = [room EXCEPT ![l] = @ - n]
  /\ piled' = [piled EXCEPT ![l] = @ - n]
  /\ todo' = todo \ {l} /\ moved' = moved + n
  /\ UNCHANGED <<waiting, gone, activity, at, mode, routed, held, history>>

\* Mutant: a dispatch pass follows only on a rebalance that moved something.
RebalancedOrRest ==
  /\ at = "rebalance" /\ todo = {}
  /\ IF mode # "first" /\ moved > 0 THEN StartDispatch(mode)
     ELSE IF mode = "first" /\ held > 0 /\ moved > 0 THEN StartDispatch("again")
     ELSE Rest
  /\ UNCHANGED <<backlog, activity, history>>

\* The end of a rebalance pass, and what follows.
Rebalanced ==
  /\ at = "rebalance" /\ todo = {}
  /\ IF mode = "relieve" \/ (mode = "cooloff" /\ moved > 0) THEN StartDispatch(mode)
     ELSE IF mode = "first" /\ held > 0 /\ moved > 0 THEN StartDispatch("again")
     ELSE Rest
  /\ UNCHANGED <<backlog, activity, history>>

Abort ==
  /\ Rest
  /\ mute' = (mute \/ routed > 0)
  /\ UNCHANGED <<backlog, activity, dry>>

\* A pass that comes to a lead whose row is gone ends the cycle with an error
\* before anything of the pass is recorded.
LeadIsGone ==
  /\ todo \cap gone # {}
  /\ Abort /\ mishaps' = mishaps

\* Any other error, or a crash of the daemon, which is started again.
Fail ==
  /\ at # "idle"
  /\ Abort /\ Mishap

Cycle ==
  \/ Begin \/ RecordDispatch \/ RecordRecovery \/ Rebalanced \/ LeadIsGone
  \/ \E l \in Leads : Drain(l) \/ Relieve(l)

Environment ==
  \E l \in Leads : \/ HandOff(l) \/ View(l) \/ TeamChanges(l)
                  \/ delete_session(l) \/ LateHandOff(l)

Next == Environment \/ Cycle \/ Fail

Spec == Init /\ [][Next]_vars

\* The daemon's loop goes on.
FairSpec == Spec /\ WF_vars(Cycle)

(***************************************************************************)
(* Properties.                                                             *)
(***************************************************************************)
TypeOK ==
  /\ waiting \in [Leads -> Nat] /\ \A l \in Leads : waiting[l] <= MaxWaiting[l]
  /\ room \in [Leads -> 0..MaxTeam] /\ piled \in [Leads -> 0..MaxTeam]
  /\ \A l \in Leads : piled[l] <= room[l]
  /\ gone \subseteq Leads /\ todo \subseteq Leads
  /\ deferred \in Nat /\ streak \in 0..MaxStreak
  /\ latest \in {"none", "dispatch", "recovery", "later"}
  /\ at \in {"idle", "dispatch", "rebalance", "recover"}
  /\ mode \in {"first", "stable", "relieve", "cooloff", "again"}
  /\ routed \in Nat /\ held \in Nat /\ moved \in Nat
  /\ mishaps \in 0..MaxMishaps /\ dry \in 0..MaxStreak /\ mute \in BOOLEAN

Stalled(l) == l \notin gone /\ waiting[l] > 0 /\ room[l] > 0
Poisoned == \E l \in gone : waiting[l] > 0
Crowded == Cardinality(Waiters \ gone) > LeadLimit

\* While its team has room the handoffs of a lead do not wait for ever, unless
\* the daemon is in its cooloff, a handoff waits at a lead that is gone, or
\* they wait at more leads that are there than a pass visits.
RoomIsUsed ==
  \A l \in Leads :
    Stalled(l) ~> ~Stalled(l) \/ Poisoned \/ Crowded \/ dispatch_cooloff_active

\* The log calls the cooloff one of the immediate retry (daemon.rs:204): it
\* puts the handoffs off, it does not keep them for ever.
CooloffPutsOff ==
  \A l \in Leads : Stalled(l) ~> ~Stalled(l) \/ Poisoned \/ Crowded
=============================================================================
