---------------------------- MODULE WorktreeQueue ----------------------------
(***************************************************************************)
(* The worktree slots of ecc2.  A launch takes a free slot at once or puts *)
(* its session in the table pending_worktree_queue; the daemon's           *)
(* activation pass gives freed slots to queued sessions and starts them.   *)
(* The number of slots taken is the number of rows with a worktree.        *)
(*                                                                         *)
(* As in SessionLifecycle every process has its own SQLite connection, so  *)
(* a pass reads the count, the queue and each row at different moments.    *)
(* The runner is shortened here: update_state is one step (its two         *)
(* statements are told apart in SessionLifecycle), and an agent is the     *)
(* runner that waits for it.                                               *)
(***************************************************************************)
EXTENDS Naturals, Sequences, FiniteSets

CONSTANTS
  Sessions,  \* session ids, each launched at most once (they are random)
  Daemons,   \* `ecc daemon` processes: nothing keeps a second one out
  Clients,   \* command line and dashboard processes
  Runners,   \* runs ever started (bounds launches, activations, resumes)
  None,      \* no session, no daemon
  Slots,     \* cfg.max_parallel_worktrees
  MaxTouched,\* bound: how many sessions clients interfere with
  MaxBroken  \* bound: how many starts are cut off

ASSUME QueueAssumption ==
  /\ Slots \in Nat /\ MaxTouched \in Nat /\ MaxBroken \in Nat
  /\ IsFiniteSet(Sessions)
  /\ None \notin Sessions \cup Daemons
  /\ Daemons \cap Clients = {}

VARIABLES
  state,   \* sessions.state, or "none" before and "deleted" after the row
  tree,    \* sessions.worktree_path is not NULL
  pid,     \* sessions.pid is not NULL
  queue,   \* pending_worktree_queue in the order of requested_at
  disk,    \* the session's worktree and branch exist in git
  pass,    \* where a daemon is in its activation pass
  free,    \* available_slots of that pass
  todo,    \* the queued sessions it has still to look at, first the current
  pc,      \* where a client is in its operation
  on,      \* the session that operation is on
  had,     \* the worktree of the row it read, or the one it has created
  of,      \* the session a runner runs
  home,    \* the daemon a runner is a task of, or None for a process
  run,     \* where a runner is
  raced,   \* history: two allocators of slots were at work at one time
  touched, \* history: sessions a client stopped, resumed, cleaned or deleted
  broken   \* history: sessions whose start or launch was cut off

rowVars == <<state, tree, pid>>
passVars == <<pass, free, todo>>
opVars == <<pc, on, had>>
runVars == <<of, home, run>>
history == <<raced, touched, broken>>
vars == <<rowVars, queue, disk, passVars, opVars, runVars, history>>

Ended == {"Completed", "Failed", "Stopped"}
Present(s) == state[s] \notin {"none", "deleted"}
Attached == {s \in Sessions : tree[s]}
InQueue(s) == \E i \in 1..Len(queue) : queue[i] = s
\* A session is in the queue at most once, its id is the primary key.
Without(q, s) ==
  IF \E i \in 1..Len(q) : q[i] = s
  THEN LET n == CHOOSE i \in 1..Len(q) : q[i] = s
       IN  SubSeq(q, 1, n - 1) \o SubSeq(q, n + 1, Len(q))
  ELSE q

Init ==
  /\ state = [s \in Sessions |-> "none"]
  /\ tree = [s \in Sessions |-> FALSE]
  /\ pid = [s \in Sessions |-> FALSE]
  /\ disk = [s \in Sessions |-> FALSE]
  /\ queue = <<>>
  /\ pass = [d \in Daemons |-> "idle"]
  /\ free = [d \in Daemons |-> 0]
  /\ todo = [d \in Daemons |-> <<>>]
  /\ pc = [c \in Clients |-> "idle"]
  /\ on = [c \in Clients |-> None]
  /\ had = [c \in Clients |-> FALSE]
  /\ of = [r \in Runners |-> None]
  /\ home = [r \in Runners |-> None]
  /\ run = [r \in Runners |-> "unborn"]
  /\ raced = FALSE /\ touched = {} /\ broken = {}

\* Who has counted the slots and may still take one on that count.
Claims(c) == pc[c] \in {"make", "insert"} /\ (pc[c] = "make" \/ had[c])
Claimed == (\E d \in Daemons : pass[d] # "idle") \/ (\E c \in Clients : Claims(c))

\* update_state to Failed, which an ended session refuses.
Fail(s) == state' = [state EXCEPT ![s] = IF @ \in {"Pending", "Running"}
                                         THEN "Failed" ELSE @]

(***************************************************************************)
(* A launch: build_session_record, insert_session, then the queue or a     *)
(* runner.                                                                 *)
(***************************************************************************)
Break(S) == broken' = broken \cup S /\ Cardinality(broken') <= MaxBroken

Goto(c, l) == pc' = [pc EXCEPT ![c] = l] /\ UNCHANGED <<on, had>>

Leave(c) ==
  /\ pc' = [pc EXCEPT ![c] = "idle"]
  /\ on' = [on EXCEPT ![c] = None]
  /\ had' = [had EXCEPT ![c] = FALSE]

\* Mutant: one launch too many is let in.
HasSlotInclusive == Cardinality(Attached) <= Slots

HasSlot == Cardinality(Attached) < Slots

Launch(c, s) ==
  /\ pc[c] = "idle" /\ state[s] = "none" /\ s \notin broken
  /\ \A e \in Clients : on[e] # s
  /\ pc' = [pc EXCEPT ![c] = IF HasSlot THEN "make" ELSE "insert"]
  /\ on' = [on EXCEPT ![c] = s]
  /\ raced' = (raced \/ (HasSlot /\ Claimed))
  /\ UNCHANGED <<rowVars, queue, disk, passVars, had, runVars, touched, broken>>

MakeTree(c) ==
  /\ pc[c] = "make"
  /\ disk' = [disk EXCEPT ![on[c]] = TRUE]
  /\ had' = [had EXCEPT ![c] = TRUE]
  /\ pc' = [pc EXCEPT ![c] = "insert"]
  /\ UNCHANGED <<rowVars, queue, passVars, on, runVars, history>>

\* git refuses, and the launch ends before there is a row.
MakeTreeFails(c) ==
  /\ pc[c] = "make"
  /\ Leave(c)
  /\ Break({on[c]})
  /\ UNCHANGED <<rowVars, queue, disk, passVars, runVars, raced, touched>>

insert_session(c) ==
  /\ pc[c] = "insert"
  /\ state' = [state EXCEPT ![on[c]] = "Pending"]
  /\ tree' = [tree EXCEPT ![on[c]] = had[c]]
  /\ Goto(c, IF had[c] THEN "spawn" ELSE "enqueue")
  /\ UNCHANGED <<pid, queue, disk, passVars, runVars, history>>

\* The foreign key refuses a session that was stopped and deleted meanwhile.
enqueue_pending_worktree(c) ==
  LET s == on[c] IN
  /\ pc[c] = "enqueue"
  /\ queue' = IF Present(s) THEN Append(Without(queue, s), s) ELSE queue
  /\ Leave(c)
  /\ UNCHANGED <<rowVars, disk, passVars, runVars, history>>

StartRunner(r, s, d) ==
  /\ run[r] = "unborn"
  /\ of' = [of EXCEPT ![r] = s]
  /\ home' = [home EXCEPT ![r] = d]
  /\ run' = [run EXCEPT ![r] = "started"]

Spawn(c, r) ==
  /\ pc[c] \in {"spawn", "respawn"}
  /\ StartRunner(r, on[c], None)
  /\ Leave(c)
  /\ UNCHANGED <<rowVars, queue, disk, passVars, history>>

\* The launch fails its session and removes the worktree, unless update_state
\* is refused.
LaunchFails(c) ==
  LET s == on[c] IN
  /\ pc[c] = "spawn"
  /\ Fail(s)
  /\ IF state[s] \in {"Pending", "Running", "Failed"} THEN Goto(c, "unmake") ELSE Leave(c)
  /\ UNCHANGED <<tree, pid, queue, disk, passVars, runVars, history>>

\* The resumed session stays pending.
ResumeFails(c) ==
  /\ pc[c] = "respawn"
  /\ Leave(c)
  /\ Break({on[c]})
  /\ UNCHANGED <<rowVars, queue, disk, passVars, runVars, raced, touched>>

(***************************************************************************)
(* Stop, resume, cleanup (also prune and merge, which clear the worktree   *)
(* the same way) and delete: each begins with a read of the row.           *)
(***************************************************************************)
Begin(c, s, l, w) ==
  /\ pc[c] = "idle" /\ Present(s)
  /\ pc' = [pc EXCEPT ![c] = l]
  /\ on' = [on EXCEPT ![c] = s]
  /\ had' = [had EXCEPT ![c] = w]
  /\ touched' = touched \cup {s} /\ Cardinality(touched') <= MaxTouched
  /\ UNCHANGED <<rowVars, queue, disk, passVars, runVars, raced, broken>>

Stop(c, s, cleanup) == Begin(c, s, "stop", cleanup /\ tree[s])

Cleanup(c, s) == tree[s] /\ state[s] # "Running" /\ Begin(c, s, "rmClear", TRUE)

Delete(c, s) ==
  /\ state[s] \in Ended
  /\ Begin(c, s, IF tree[s] THEN "rmDelete" ELSE "delete", FALSE)

Resume(c, s) ==
  state[s] \in {"Pending", "Failed", "Stopped"} /\ Begin(c, s, "setPending", FALSE)

\* update_pid and update_state(Stopped), which every state allows.
StopRow(c) ==
  LET s == on[c] IN
  /\ pc[c] = "stop"
  /\ IF Present(s)
     THEN state' = [state EXCEPT ![s] = "Stopped"] /\ pid' = [pid EXCEPT ![s] = FALSE]
     ELSE UNCHANGED <<state, pid>>
  /\ IF Present(s) /\ had[c] THEN Goto(c, "rmClear") ELSE Leave(c)
  /\ UNCHANGED <<tree, queue, disk, passVars, runVars, history>>

RemoveTree(c) ==
  /\ \/ pc[c] = "rmClear" /\ Goto(c, "clear")
     \/ pc[c] = "rmDelete" /\ Goto(c, "delete")
     \/ pc[c] = "unmake" /\ Leave(c)
  /\ disk' = [disk EXCEPT ![on[c]] = FALSE]
  /\ UNCHANGED <<rowVars, queue, passVars, runVars, history>>

clear_worktree(c) ==
  /\ pc[c] = "clear"
  /\ tree' = [tree EXCEPT ![on[c]] = FALSE]
  /\ Leave(c)
  /\ UNCHANGED <<state, pid, queue, disk, passVars, runVars, history>>

\* The queue entry goes with the row (ON DELETE CASCADE).
delete_session(c) ==
  LET s == on[c] IN
  /\ pc[c] = "delete"
  /\ state' = [state EXCEPT ![s] = "deleted"]
  /\ tree' = [tree EXCEPT ![s] = FALSE]
  /\ pid' = [pid EXCEPT ![s] = FALSE]
  /\ queue' = Without(queue, s)
  /\ Leave(c)
  /\ UNCHANGED <<disk, passVars, runVars, history>>

SetPending(c) ==
  LET s == on[c] IN
  /\ pc[c] = "setPending"
  /\ IF Present(s)
     THEN /\ state' = [state EXCEPT ![s] = "Pending"]
          /\ pid' = [pid EXCEPT ![s] = FALSE]
          /\ Goto(c, "respawn")
     ELSE Leave(c) /\ UNCHANGED <<state, pid>>
  /\ UNCHANGED <<tree, queue, disk, passVars, runVars, history>>

ClientCrash(c) ==
  /\ pc[c] # "idle"
  /\ Leave(c)
  /\ Break({on[c]})
  /\ UNCHANGED <<rowVars, queue, disk, passVars, runVars, raced, touched>>

(***************************************************************************)
(* activate_pending_worktree_sessions, the last part of a daemon's loop.   *)
(***************************************************************************)
Current(d) == Head(todo[d])

Move(d, l) == pass' = [pass EXCEPT ![d] = l] /\ UNCHANGED <<free, todo>>

NextEntry(d) ==
  /\ pass' = [pass EXCEPT ![d] = "look"]
  /\ todo' = [todo EXCEPT ![d] = Tail(@)]

Over(d) ==
  /\ pass' = [pass EXCEPT ![d] = "idle"]
  /\ free' = [free EXCEPT ![d] = 0]
  /\ todo' = [todo EXCEPT ![d] = <<>>]

CountSlots(d) ==
  /\ pass[d] = "idle" /\ HasSlot
  /\ pass' = [pass EXCEPT ![d] = "queue"]
  /\ free' = [free EXCEPT ![d] = Slots - Cardinality(Attached)]
  /\ raced' = (raced \/ Claimed)
  /\ UNCHANGED <<rowVars, queue, disk, todo, opVars, runVars, touched, broken>>

\* SELECT ... ORDER BY requested_at LIMIT available_slots.
pending_worktree_queue(d) ==
  LET n == IF Len(queue) < free[d] THEN Len(queue) ELSE free[d] IN
  /\ pass[d] = "queue"
  /\ pass' = [pass EXCEPT ![d] = "look"]
  /\ todo' = [todo EXCEPT ![d] = SubSeq(queue, 1, n)]
  /\ UNCHANGED <<rowVars, queue, disk, free, opVars, runVars, history>>

Eligible(s) == state[s] = "Pending" /\ ~tree[s] /\ ~pid[s]

\* get_session; an entry that is gone or already served is only dequeued.
Look(d) ==
  /\ pass[d] = "look" /\ todo[d] # <<>>
  /\ Move(d, IF Eligible(Current(d)) THEN "create" ELSE "skip")
  /\ UNCHANGED <<rowVars, queue, disk, opVars, runVars, history>>

EndPass(d) ==
  /\ pass[d] = "look" /\ todo[d] = <<>>
  /\ Over(d)
  /\ UNCHANGED <<rowVars, queue, disk, opVars, runVars, history>>

\* dequeue_pending_worktree of an entry that is not started.
SkipEntry(d) ==
  /\ pass[d] = "skip"
  /\ queue' = Without(queue, Current(d))
  /\ NextEntry(d)
  /\ UNCHANGED <<rowVars, disk, free, opVars, runVars, history>>

\* Mutant: a worktree that is already there is taken over.
CreateTreeOver(d) ==
  /\ pass[d] = "create"
  /\ disk' = [disk EXCEPT ![Current(d)] = TRUE]
  /\ Move(d, "attach")
  /\ UNCHANGED <<rowVars, queue, opVars, runVars, history>>

\* git worktree add -b: the branch and the directory must be new.
CreateTree(d) ==
  /\ pass[d] = "create"
  /\ ~disk[Current(d)]
  /\ disk' = [disk EXCEPT ![Current(d)] = TRUE]
  /\ Move(d, "attach")
  /\ UNCHANGED <<rowVars, queue, opVars, runVars, history>>

CreateTreeFails(d) ==
  /\ pass[d] = "create"
  /\ queue' = Without(queue, Current(d))
  /\ Move(d, "fail")
  /\ UNCHANGED <<rowVars, disk, opVars, runVars, history>>

\* Mutant: an entry without a worktree is dropped and its row left pending.
DropEntry(d) ==
  /\ pass[d] = "fail"
  /\ NextEntry(d)
  /\ UNCHANGED <<rowVars, queue, disk, free, opVars, runVars, history>>

\* The ? on a refused update_state ends the pass.
FailEntry(d) ==
  LET s == Current(d) IN
  /\ pass[d] = "fail"
  /\ Fail(s)
  /\ IF state[s] \in {"Pending", "Running", "Failed"}
     THEN NextEntry(d) /\ UNCHANGED free
     ELSE Over(d)
  /\ UNCHANGED <<tree, pid, queue, disk, opVars, runVars, history>>

\* Mutant: the worktree stays when there is no row to attach it to.
AttachKeepsTree(d) ==
  LET s == Current(d) IN
  /\ pass[d] = "attach"
  /\ IF state[s] \in {"Pending", "Running"}
     THEN tree' = [tree EXCEPT ![s] = TRUE] /\ Move(d, "spawn")
     ELSE tree' = tree /\ Over(d)
  /\ UNCHANGED <<state, pid, queue, disk, opVars, runVars, history>>

\* An UPDATE by id, whatever the state of the row has become; without a row
\* the worktree is removed (the queue entry went with the row) and the pass
\* ends.
attach_worktree(d) ==
  LET s == Current(d) IN
  /\ pass[d] = "attach"
  /\ IF Present(s)
     THEN tree' = [tree EXCEPT ![s] = TRUE] /\ disk' = disk /\ Move(d, "spawn")
     ELSE tree' = tree /\ disk' = [disk EXCEPT ![s] = FALSE] /\ Over(d)
  /\ UNCHANGED <<state, pid, queue, opVars, runVars, history>>

\* run_session becomes a task of the daemon, which does not wait for it.
SpawnTask(d, r) ==
  /\ pass[d] = "spawn"
  /\ StartRunner(r, Current(d), d)
  /\ Move(d, "started")
  /\ UNCHANGED <<rowVars, queue, disk, opVars, history>>

EntryStarted(d) ==
  /\ pass[d] = "started"
  /\ queue' = Without(queue, Current(d))
  /\ IF free[d] = 1 THEN Over(d)
     ELSE NextEntry(d) /\ free' = [free EXCEPT ![d] = @ - 1]
  /\ UNCHANGED <<rowVars, disk, opVars, runVars, history>>

Working == {"started", "accepted", "recorded", "working"}
TasksOf(d) == {r \in Runners : home[r] = d /\ run[r] \in Working}
InHand(d) == {s \in Sessions : todo[d] # <<>> /\ s = Current(d)}

\* The daemon dies, and every session it runs with it; it is started again.
DaemonCrash(d) ==
  /\ pass[d] # "idle" \/ TasksOf(d) # {}
  /\ Over(d)
  /\ run' = [r \in Runners |-> IF r \in TasksOf(d) THEN "crashed" ELSE run[r]]
  /\ Break(InHand(d) \cup {of[r] : r \in TasksOf(d)})
  /\ UNCHANGED <<rowVars, queue, disk, opVars, of, home, raced, touched>>

(***************************************************************************)
(* A runner: run_session and capture_command_output, shortened.            *)
(***************************************************************************)
To(r, l) == run' = [run EXCEPT ![r] = l] /\ UNCHANGED <<of, home>>

Skip(r) ==
  /\ run[r] = "started" /\ state[of[r]] # "Pending"
  /\ To(r, "done")
  /\ UNCHANGED <<rowVars, queue, disk, passVars, opVars, history>>

Accept(r) ==
  /\ run[r] = "started" /\ state[of[r]] = "Pending"
  /\ To(r, "accepted")
  /\ UNCHANGED <<rowVars, queue, disk, passVars, opVars, history>>

\* No usable program for the harness: an error nobody writes to the row.
GiveUp(r) ==
  /\ run[r] = "started" /\ state[of[r]] = "Pending"
  /\ To(r, "done")
  /\ Break({of[r]})
  /\ UNCHANGED <<rowVars, queue, disk, passVars, opVars, raced, touched>>

RecordPid(r) ==
  LET s == of[r] IN
  /\ run[r] = "accepted"
  /\ pid' = [pid EXCEPT ![s] = Present(s)]
  /\ To(r, IF Present(s) THEN "recorded" ELSE "done")
  /\ UNCHANGED <<state, tree, queue, disk, passVars, opVars, history>>

\* An agent that does not start, or a transition that is refused.
RunFails(r) ==
  LET s == of[r] IN
  /\ \/ run[r] = "accepted"
     \/ run[r] = "recorded" /\ state[s] \notin {"Pending", "Running"}
  /\ Fail(s)
  /\ pid' = [pid EXCEPT ![s] = FALSE]
  /\ To(r, "done")
  /\ UNCHANGED <<tree, queue, disk, passVars, opVars, history>>

RecordRunning(r) ==
  LET s == of[r] IN
  /\ run[r] = "recorded" /\ state[s] \in {"Pending", "Running"}
  /\ state' = [state EXCEPT ![s] = "Running"]
  /\ To(r, "working")
  /\ UNCHANGED <<tree, pid, queue, disk, passVars, opVars, history>>

\* Completed is only reached from running; the error path fails the session.
Finish(r) ==
  LET s == of[r] IN
  /\ run[r] = "working"
  /\ \/ state[s] = "Running" /\ state' = [state EXCEPT ![s] = "Completed"]
     \/ Fail(s)
  /\ pid' = [pid EXCEPT ![s] = FALSE]
  /\ To(r, "done")
  /\ UNCHANGED <<tree, queue, disk, passVars, opVars, history>>

\* Startup recovery and heartbeat enforcement, for runners that are gone.
Recover(s) ==
  /\ state[s] = "Running"
  /\ \A r \in Runners : of[r] = s => run[r] \notin {"recorded", "working"}
  /\ state' = [state EXCEPT ![s] = "Failed"]
  /\ pid' = [pid EXCEPT ![s] = FALSE]
  /\ UNCHANGED <<tree, queue, disk, passVars, opVars, runVars, history>>

ClientStep(c) ==
  \/ MakeTree(c) \/ MakeTreeFails(c) \/ insert_session(c)
  \/ enqueue_pending_worktree(c) \/ LaunchFails(c) \/ ResumeFails(c)
  \/ StopRow(c) \/ RemoveTree(c) \/ clear_worktree(c) \/ delete_session(c)
  \/ SetPending(c) \/ ClientCrash(c)
  \/ \E r \in Runners : Spawn(c, r)
  \/ \E s \in Sessions : \/ Launch(c, s) \/ Cleanup(c, s) \/ Delete(c, s)
                         \/ Resume(c, s)
                         \/ \E cleanup \in BOOLEAN : Stop(c, s, cleanup)

DaemonStep(d) ==
  \/ CountSlots(d) \/ pending_worktree_queue(d) \/ Look(d) \/ EndPass(d)
  \/ SkipEntry(d) \/ CreateTree(d) \/ CreateTreeFails(d) \/ FailEntry(d)
  \/ attach_worktree(d) \/ EntryStarted(d)
  \/ \E r \in Runners : SpawnTask(d, r)

RunnerStep(r) ==
  \/ Skip(r) \/ Accept(r) \/ GiveUp(r) \/ RecordPid(r)
  \/ RunFails(r) \/ RecordRunning(r) \/ Finish(r)

Next ==
  \/ \E c \in Clients : ClientStep(c)
  \/ \E d \in Daemons : DaemonStep(d) \/ DaemonCrash(d)
  \/ \E r \in Runners : RunnerStep(r)
  \/ \E s \in Sessions : Recover(s)

Spec == Init /\ [][Next]_vars

(***************************************************************************)
(* Properties.                                                             *)
(***************************************************************************)
TypeOK ==
  /\ state \in [Sessions -> {"none", "deleted", "Pending", "Running"} \cup Ended]
  /\ tree \in [Sessions -> BOOLEAN]
  /\ pid \in [Sessions -> BOOLEAN]
  /\ disk \in [Sessions -> BOOLEAN]
  /\ queue \in Seq(Sessions)
  /\ pass \in [Daemons -> {"idle", "queue", "look", "skip", "create", "fail",
                           "attach", "spawn", "started"}]
  /\ free \in [Daemons -> 0..Slots]
  /\ todo \in [Daemons -> Seq(Sessions)]
  /\ pc \in [Clients -> {"idle", "make", "insert", "enqueue", "spawn", "unmake",
                         "stop", "rmClear", "rmDelete", "clear", "delete",
                         "setPending", "respawn"}]
  /\ on \in [Clients -> Sessions \cup {None}]
  /\ had \in [Clients -> BOOLEAN]
  /\ of \in [Runners -> Sessions \cup {None}]
  /\ home \in [Runners -> Daemons \cup {None}]
  /\ run \in [Runners -> Working \cup {"unborn", "done", "crashed"}]
  /\ raced \in BOOLEAN
  /\ touched \subseteq Sessions
  /\ broken \subseteq Sessions

\* The limit on worktrees is kept unless two allocators (a launch and an
\* activation pass, two launches, two daemons) had counted at the same time:
\* a pass that reads its count once never gives away more than it counted,
\* whatever is stopped, resumed, cleaned up or deleted meanwhile.
WithinLimit == ~raced => Cardinality(Attached) <= Slots

\* What is going to happen to a pending session.
Held(d, s) ==
  /\ pass[d] \in {"create", "attach", "spawn", "fail"}
  /\ Current(d) = s
Owed(s) ==
  \/ InQueue(s)
  \/ \E d \in Daemons : Held(d, s)
  \/ \E c \in Clients : on[c] = s /\ pc[c] \in {"enqueue", "spawn", "respawn"}
  \/ \E r \in Runners : of[r] = s /\ run[r] \in {"started", "accepted", "recorded"}

\* No pending session is forgotten: it is queued, or somebody is about to
\* start it, whatever stops, resumes and passes of two daemons dequeue in
\* between.  Only a crash, or a runner that cannot be started, strands one.
NoneStranded ==
  \A s \in Sessions : state[s] = "Pending" => Owed(s) \/ s \in broken

\* A worktree in git to which no row points is one that a process is creating
\* or removing, or that of a session that was cut off, or deleted by a client
\* who had read the row before the worktree was attached, or cleaned up while
\* two daemons gave it a worktree each.
TreesAreAccounted ==
  \A s \in Sessions : disk[s] /\ ~tree[s] =>
    \/ \E d \in Daemons : pass[d] = "attach" /\ Current(d) = s
    \/ \E c \in Clients : on[c] = s /\ pc[c] \in {"insert", "rmClear", "rmDelete"}
    \/ s \in broken \/ state[s] = "deleted" \/ (raced /\ s \in touched)

\* A session nobody interferes with gets one agent, even from two daemons
\* that both saw it waiting: git refuses the second worktree.
StartedOnce ==
  \A s \in Sessions \ touched :
    \A q, r \in Runners :
      /\ of[q] = s /\ run[q] \in Working
      /\ of[r] = s /\ run[r] \in Working
      => q = r
=============================================================================
