-------------------------- MODULE SessionLifecycle --------------------------
(***************************************************************************)
(* The session control plane of ecc2: the row of a session in the SQLite   *)
(* store, the background runner processes that execute it, the agent each  *)
(* runner starts, and the callers (command line, dashboard tick, daemon    *)
(* loop) that stop, resume, clean up, merge, prune, delete or fail it.     *)
(*                                                                         *)
(* Runners and callers are separate operating-system processes, each with  *)
(* its own SQLite connection in autocommit mode, so one SQL statement is   *)
(* one step.  In particular StateStore::update_state is two steps: the     *)
(* SELECT that checks the transition, and the UPDATE that makes it.        *)
(***************************************************************************)
EXTENDS Naturals, FiniteSets

CONSTANTS
  Sessions,        \* session ids
  Runners,         \* runner processes ever started (bounds launches + resumes)
  Callers,         \* processes that issue session operations
  None,            \* no pid, no session
  Ops,             \* the kinds of operation the callers issue
  AutoTerminate,   \* cfg.auto_terminate_stale_sessions
  HeartbeatLapses, \* a live runner may miss its heartbeat deadline
  Careful,         \* the operator resumes and stops only when it is safe
  Crashes          \* which of "runner" and "caller" may be killed

Kinds == {"launch", "stop", "pause", "resume", "cleanup", "prune", "merge",
          "delete", "enforce", "recover"}

ASSUME ConstantsAssumption ==
  /\ Sessions \cap Runners = {} /\ Sessions \cap Callers = {}
  /\ Runners \cap Callers = {}
  /\ None \notin Sessions \cup Runners \cup Callers
  /\ Ops \subseteq Kinds
  /\ AutoTerminate \in BOOLEAN /\ HeartbeatLapses \in BOOLEAN
  /\ Careful \in BOOLEAN
  /\ Crashes \subseteq {"runner", "caller"}

VARIABLES
  state,   \* sessions.state, or "fresh" (no row yet) or "deleted"
  pid,     \* sessions.pid: the agent's pid is named after its runner
  tree,    \* sessions.worktree_path is not NULL
  lapsed,  \* last_heartbeat_at is older than session_timeout_secs
  disk,    \* the session's git worktree exists on disk
  of,      \* the session a runner was started for
  at,      \* the runner's program counter
  agent,   \* the agent process a runner spawned
  op       \* what a caller is doing, with the row it read before doing it

rowVars == <<state, pid, tree, lapsed>>
runnerVars == <<of, at, agent>>
vars == <<state, pid, tree, lapsed, disk, of, at, agent, op>>

SessionStates == {"Pending", "Running", "Idle", "Stale", "Completed",
                  "Failed", "Stopped"}
Active == {"Pending", "Running", "Idle"}
Terminal == {"Completed", "Failed", "Stopped"}

Present(s) == state[s] \in SessionStates

\* Mutant: the edges a session takes when nothing goes wrong, and no other.
SunnyEdges ==
  {<<"Pending", "Running">>, <<"Running", "Completed">>, <<"Running", "Stopped">>,
   <<"Pending", "Stopped">>, <<"Running", "Idle">>, <<"Idle", "Running">>}

Edges ==
  {<<"Pending", t>> : t \in {"Running", "Failed", "Stopped"}}
    \cup {<<"Running", t>> : t \in {"Idle", "Stale"} \cup Terminal}
    \cup {<<"Idle", t>> : t \in {"Running", "Stale"} \cup Terminal}
    \cup {<<"Stale", t>> : t \in {"Running", "Idle"} \cup Terminal}
    \cup {<<"Completed", "Stopped">>, <<"Failed", "Stopped">>}

can_transition_to(from, to) == from = to \/ <<from, to>> \in Edges

NoOp == [kind |-> "none", on |-> None, at |-> "idle", p |-> None, w |-> FALSE]

Init ==
  /\ state = [s \in Sessions |-> "fresh"]
  /\ pid = [s \in Sessions |-> None]
  /\ tree = [s \in Sessions |-> FALSE]
  /\ lapsed = [s \in Sessions |-> FALSE]
  /\ disk = [s \in Sessions |-> FALSE]
  /\ of = [r \in Runners |-> None]
  /\ at = [r \in Runners |-> "unborn"]
  /\ agent = [r \in Runners |-> "none"]
  /\ op = [c \in Callers |-> NoOp]

(***************************************************************************)
(* Statements on a session row.  Every UPDATE of the store also refreshes  *)
(* last_heartbeat_at; none of them changes more than the columns named.    *)
(***************************************************************************)
Touch(s) == lapsed' = [lapsed EXCEPT ![s] = FALSE]

UpdateState(s, to) ==
  /\ state' = [state EXCEPT ![s] = to]
  /\ Touch(s)
  /\ UNCHANGED <<pid, tree>>

UpdatePid(s, p) ==
  /\ pid' = [pid EXCEPT ![s] = p]
  /\ Touch(s)
  /\ UNCHANGED <<state, tree>>

update_state_and_pid(s, to, p) ==
  /\ state' = [state EXCEPT ![s] = to]
  /\ pid' = [pid EXCEPT ![s] = p]
  /\ Touch(s)
  /\ UNCHANGED tree

(***************************************************************************)
(* A runner: `ecc run-session`, manager::run_session followed by           *)
(* runtime::capture_command_output.                                        *)
(***************************************************************************)
Goto(r, l) == at' = [at EXCEPT ![r] = l]

\* run_session leaves at once a session that is gone or no longer pending;
\* a harness with no usable program fails it before anything is written.
RunnerSkips(r) ==
  /\ at[r] = "started"
  /\ Goto(r, "done")
  /\ UNCHANGED <<rowVars, disk, of, agent, op>>

RunnerAccepts(r) ==
  /\ at[r] = "started"
  /\ state[of[r]] = "Pending"
  /\ Goto(r, "spawn")
  /\ UNCHANGED <<rowVars, disk, of, agent, op>>

AgentSpawns(r) ==
  /\ at[r] = "spawn"
  /\ agent' = [agent EXCEPT ![r] = "alive"]
  /\ Goto(r, "setPid")
  /\ UNCHANGED <<rowVars, disk, of, op>>

AgentSpawnFails(r) ==
  /\ at[r] = "spawn"
  /\ Goto(r, "errPid")
  /\ UNCHANGED <<rowVars, disk, of, agent, op>>

\* db_writer.update_pid: on a deleted row it fails and the runner gives up,
\* dropping the handle of a child that goes on running.
RunnerUpdatesPid(r, from, p, next) ==
  LET s == of[r] IN
  /\ at[r] = from
  /\ \/ Present(s) /\ UpdatePid(s, p) /\ Goto(r, next)
     \/ ~Present(s) /\ Goto(r, "errPid") /\ UNCHANGED rowVars
  /\ UNCHANGED <<disk, of, agent, op>>

\* db_writer.update_state, first statement: read the state, test the edge.
RunnerChecks(r, from, to, next, refused) ==
  /\ at[r] = from
  /\ Goto(r, IF can_transition_to(state[of[r]], to) THEN next ELSE refused)
  /\ UNCHANGED <<rowVars, disk, of, agent, op>>

\* db_writer.update_state, second statement: an UPDATE by id alone.
RunnerWrites(r, from, to, next, refused) ==
  LET s == of[r] IN
  /\ at[r] = from
  /\ \/ Present(s) /\ UpdateState(s, to) /\ Goto(r, next)
     \/ ~Present(s) /\ Goto(r, refused) /\ UNCHANGED rowVars
  /\ UNCHANGED <<disk, of, agent, op>>

\* Mutant: any exit but a recorded failure counts as success.
VerdictIgnoresExit(r) == IF agent[r] = "none" THEN "Failed" ELSE "Completed"

Verdict(r) == IF agent[r] = "ok" THEN "Completed" ELSE "Failed"

RecordPid(r) == RunnerUpdatesPid(r, "setPid", r, "checkRunning")
CheckRunning(r) ==
  RunnerChecks(r, "checkRunning", "Running", "writeRunning", "errPid")
WriteRunning(r) ==
  RunnerWrites(r, "writeRunning", "Running", "firstBeat", "errPid")

\* The first heartbeat must succeed; later ones only stop the ticker.
FirstBeat(r) ==
  /\ at[r] = "firstBeat"
  /\ \/ Present(of[r]) /\ Touch(of[r]) /\ Goto(r, "wait")
     \/ ~Present(of[r]) /\ Goto(r, "errPid") /\ UNCHANGED lapsed
  /\ UNCHANGED <<state, pid, tree, disk, of, agent, op>>

Beat(r) ==
  /\ at[r] = "wait"
  /\ Present(of[r]) /\ lapsed[of[r]]
  /\ Touch(of[r])
  /\ UNCHANGED <<state, pid, tree, disk, runnerVars, op>>

\* Mutant: waiting for the agent has a deadline.
ReapAgentTimesOut(r) ==
  /\ at[r] = "wait"
  /\ Goto(r, "clearPid")
  /\ UNCHANGED <<rowVars, disk, of, agent, op>>

ReapAgent(r) ==
  /\ at[r] = "wait"
  /\ agent[r] \in {"ok", "fail"}
  /\ Goto(r, "clearPid")
  /\ UNCHANGED <<rowVars, disk, of, agent, op>>

\* Mutant: the runner goes on to the verdict with its pid still in the row.
ClearPidSkipped(r) == RunnerUpdatesPid(r, "clearPid", pid[of[r]], "checkFinal")

ClearPid(r) == RunnerUpdatesPid(r, "clearPid", None, "checkFinal")
CheckFinal(r) ==
  RunnerChecks(r, "checkFinal", Verdict(r), "writeFinal", "errPid")
WriteFinal(r) ==
  RunnerWrites(r, "writeFinal", Verdict(r), "done", "errPid")

\* The error path: both updates are attempted and their errors dropped.
ErrClearPid(r) ==
  LET s == of[r] IN
  /\ at[r] = "errPid"
  /\ \/ Present(s) /\ UpdatePid(s, None)
     \/ ~Present(s) /\ UNCHANGED rowVars
  /\ Goto(r, "errCheck")
  /\ UNCHANGED <<disk, of, agent, op>>

ErrCheckFailed(r) == RunnerChecks(r, "errCheck", "Failed", "errWrite", "done")
ErrWriteFailed(r) == RunnerWrites(r, "errWrite", "Failed", "done", "done")

RunnerStep(r) ==
  \/ RunnerSkips(r) \/ RunnerAccepts(r)
  \/ AgentSpawns(r) \/ AgentSpawnFails(r)
  \/ RecordPid(r) \/ CheckRunning(r) \/ WriteRunning(r)
  \/ FirstBeat(r) \/ Beat(r) \/ ReapAgent(r)
  \/ ClearPid(r) \/ CheckFinal(r) \/ WriteFinal(r)
  \/ ErrClearPid(r) \/ ErrCheckFailed(r) \/ ErrWriteFailed(r)

(***************************************************************************)
(* Agents, the clock and process deaths.                                   *)
(***************************************************************************)
AtRestPcs == {"unborn", "done", "crashed"}
RunnerLive(r) == at[r] \notin AtRestPcs

AgentExits(r) ==
  /\ agent[r] = "alive"
  /\ \E code \in {"ok", "fail"} : agent' = [agent EXCEPT ![r] = code]
  /\ UNCHANGED <<rowVars, disk, of, at, op>>

\* A runner in "wait" beats every heartbeat_interval_secs, far below the
\* timeout; HeartbeatLapses lets the clock jump (a suspended machine) or the
\* ticker stop after a database error.
Expire(s) ==
  /\ state[s] \in {"Running", "Stale"}
  /\ HeartbeatLapses \/ \A r \in Runners : of[r] = s => ~RunnerLive(r)
  /\ lapsed' = [lapsed EXCEPT ![s] = TRUE]
  /\ UNCHANGED <<state, pid, tree, disk, runnerVars, op>>

\* The runner dies; the agent it started, if any, is not killed with it.
RunnerCrash(r) ==
  /\ "runner" \in Crashes
  /\ RunnerLive(r)
  /\ Goto(r, "crashed")
  /\ UNCHANGED <<rowVars, disk, of, agent, op>>

CallerCrash(c) ==
  /\ "caller" \in Crashes
  /\ op[c] # NoOp
  /\ op' = [op EXCEPT ![c] = NoOp]
  /\ UNCHANGED <<rowVars, disk, runnerVars>>

(***************************************************************************)
(* Operations of the callers.  Begin reads the row (resolve_session or     *)
(* list_sessions) and decides; every later statement acts on what was      *)
(* read then, whatever the row has become.                                 *)
(***************************************************************************)

\* kill(pid, 0): a zombie its runner has not waited for still answers.
Unreaped == {"setPid", "checkRunning", "writeRunning", "firstBeat", "wait"}
pid_is_alive(p) == p # None /\ (agent[p] = "alive" \/ at[p] \in Unreaped)

Supervised(s) ==
  \E r \in Runners : of[r] = s /\ (RunnerLive(r) \/ agent[r] = "alive")
Undisturbed(s) == \A c \in Callers : op[c].on # s

\* What a careful operator waits for before an operation of kind k.
OperatorAllows(k, s) ==
  CASE k = "resume" -> ~Supervised(s) /\ Undisturbed(s)
    [] k = "stop" -> pid[s] # None /\ Undisturbed(s)
    [] OTHER -> TRUE

\* The early returns and filters of the operation of kind k.
Admits(k, s) ==
  CASE k = "stop" -> Present(s)
    [] k = "pause" -> state[s] \in Active
    [] k = "resume" -> Present(s) /\ state[s] \notin {"Completed", "Running"}
    [] k = "cleanup" -> Present(s) /\ (state[s] = "Running" \/ tree[s])
    [] k = "prune" -> tree[s] /\ state[s] \notin Active
    [] k = "merge" -> tree[s] /\ state[s] \in Terminal
    [] k = "delete" -> Present(s) /\ state[s] \notin Active
    [] k = "enforce" -> /\ state[s] \in {"Running", "Stale"}
                        /\ lapsed[s]
                        /\ AutoTerminate \/ state[s] # "Stale"
    [] k = "recover" -> /\ state[s] = "Running"
                        /\ ~pid_is_alive(pid[s])
    [] OTHER -> FALSE

FirstStep(k, s) ==
  CASE k \in {"stop", "pause"} -> "kill"
    [] k = "resume" -> "setPending"
    [] k = "cleanup" -> IF state[s] = "Running" THEN "resolveStop" ELSE "rmTree"
    [] k = "prune" -> "resolveCleanup"
    [] k = "merge" -> "rmTree"
    [] k = "delete" -> IF tree[s] THEN "rmTree" ELSE "delRow"
    [] k = "enforce" -> IF AutoTerminate THEN "kill" ELSE "check"
    [] k = "recover" -> "forceFail"

Target(k) == CASE k = "launch" -> "Failed"
               [] k = "enforce" -> "Stale"
               [] OTHER -> "Stopped"

Step(c, l) == op' = [op EXCEPT ![c].at = l]
Done(c) == op' = [op EXCEPT ![c] = NoOp]
Snapshot(c, k, s, l) ==
  op' = [op EXCEPT ![c] =
           [kind |-> k, on |-> s, at |-> l, p |-> pid[s], w |-> tree[s]]]

Begin(c, s, k) ==
  /\ k \in Ops /\ op[c] = NoOp
  /\ Admits(k, s)
  /\ Careful => OperatorAllows(k, s)
  /\ Snapshot(c, k, s, FirstStep(k, s))
  /\ UNCHANGED <<rowVars, disk, runnerVars>>

\* queue_session up to insert_session: an existing repository checkout
\* (w = FALSE) or a worktree made for the session.
Launch(c, s, w) ==
  /\ "launch" \in Ops /\ op[c] = NoOp
  /\ state[s] = "fresh"
  /\ state' = [state EXCEPT ![s] = "Pending"]
  /\ tree' = [tree EXCEPT ![s] = w]
  /\ disk' = [disk EXCEPT ![s] = w]
  /\ op' = [op EXCEPT ![c] = [kind |-> "launch", on |-> s, at |-> "spawn",
                              p |-> None, w |-> w]]
  /\ UNCHANGED <<pid, lapsed, runnerVars>>

\* prune_inactive_worktrees calls cleanup_session_worktree, which resolves
\* the session again and decides on what it is by then.
ResolveCleanup(c) ==
  LET s == op[c].on IN
  /\ op[c].at = "resolveCleanup"
  /\ IF Admits("cleanup", s)
     THEN Snapshot(c, "cleanup", s, FirstStep("cleanup", s))
     ELSE Done(c)
  /\ UNCHANGED <<rowVars, disk, runnerVars>>

\* cleanup of a running session stops it, which resolves it once more, and
\* then clears the worktree columns whether or not there was a worktree.
ResolveStop(c) ==
  LET s == op[c].on IN
  /\ op[c].at = "resolveStop"
  /\ IF Present(s) THEN Snapshot(c, "cleanup", s, "kill") ELSE Done(c)
  /\ UNCHANGED <<rowVars, disk, runnerVars>>

\* Mutant: the signal never reaches the process.
KillNothing(c) ==
  /\ op[c].at = "kill"
  /\ Step(c, IF op[c].kind = "enforce" THEN "forceFail" ELSE "clearPid")
  /\ UNCHANGED <<rowVars, disk, runnerVars>>

\* kill_process: SIGTERM, then SIGKILL; no such process is success.
Kill(c) ==
  LET p == op[c].p IN
  /\ op[c].at = "kill"
  /\ agent' = [r \in Runners |->
                 IF r = p /\ agent[r] = "alive" THEN "fail" ELSE agent[r]]
  /\ Step(c, IF op[c].kind = "enforce" THEN "forceFail" ELSE "clearPid")
  /\ UNCHANGED <<rowVars, disk, of, at>>

OpClearPid(c) ==
  LET s == op[c].on IN
  /\ op[c].at = "clearPid"
  /\ \/ Present(s) /\ UpdatePid(s, None) /\ Step(c, "check")
     \/ ~Present(s) /\ Done(c) /\ UNCHANGED rowVars
  /\ UNCHANGED <<disk, runnerVars>>

OpCheck(c) ==
  /\ op[c].at = "check"
  /\ IF can_transition_to(state[op[c].on], Target(op[c].kind))
     THEN Step(c, "write") ELSE Done(c)
  /\ UNCHANGED <<rowVars, disk, runnerVars>>

\* What follows the state: stop and cleanup remove the worktree they saw, and
\* so does a launch whose runner could not be started.
AfterWrite(c) ==
  IF op[c].w /\ op[c].kind \in {"stop", "cleanup", "launch"} THEN Step(c, "rmTree")
  ELSE IF op[c].kind = "cleanup" THEN Step(c, "clearTree")
  ELSE Done(c)

OpWrite(c) ==
  LET s == op[c].on IN
  /\ op[c].at = "write"
  /\ \/ Present(s) /\ UpdateState(s, Target(op[c].kind)) /\ AfterWrite(c)
     \/ ~Present(s) /\ Done(c) /\ UNCHANGED rowVars
  /\ UNCHANGED <<disk, runnerVars>>

\* worktree::remove.  A failed launch leaves the row's pointer in place.
RemoveTree(c) ==
  /\ op[c].at = "rmTree"
  /\ disk' = [disk EXCEPT ![op[c].on] = FALSE]
  /\ IF op[c].kind = "launch" THEN Done(c)
     ELSE Step(c, IF op[c].kind = "delete" THEN "delRow" ELSE "clearTree")
  /\ UNCHANGED <<rowVars, runnerVars>>

ClearTree(c) ==
  LET s == op[c].on IN
  /\ op[c].at = "clearTree"
  /\ \/ Present(s) /\ tree' = [tree EXCEPT ![s] = FALSE] /\ Touch(s)
     \/ ~Present(s) /\ UNCHANGED <<tree, lapsed>>
  /\ Done(c)
  /\ UNCHANGED <<state, pid, disk, runnerVars>>

\* Mutant: only the pid is cleared.
ForceFailPidOnly(c) ==
  LET s == op[c].on IN
  /\ op[c].at = "forceFail"
  /\ \/ Present(s) /\ UpdatePid(s, None)
     \/ ~Present(s) /\ UNCHANGED rowVars
  /\ Done(c)
  /\ UNCHANGED <<disk, runnerVars>>

\* The unguarded update_state_and_pid(Failed, None) of the daemon.
ForceFail(c) ==
  LET s == op[c].on IN
  /\ op[c].at = "forceFail"
  /\ \/ Present(s) /\ update_state_and_pid(s, "Failed", None)
     \/ ~Present(s) /\ UNCHANGED rowVars
  /\ Done(c)
  /\ UNCHANGED <<disk, runnerVars>>

SetPending(c) ==
  LET s == op[c].on IN
  /\ op[c].at = "setPending"
  /\ \/ Present(s) /\ update_state_and_pid(s, "Pending", None) /\ Step(c, "spawn")
     \/ ~Present(s) /\ Done(c) /\ UNCHANGED rowVars
  /\ UNCHANGED <<disk, runnerVars>>

\* Mutant: the spawn is retried although it succeeded.
SpawnRetried(c, r) ==
  /\ op[c].at = "spawn"
  /\ at[r] = "unborn"
  /\ of' = [of EXCEPT ![r] = op[c].on]
  /\ Goto(r, "started")
  /\ UNCHANGED <<rowVars, disk, agent, op>>

Spawn(c, r) ==
  /\ op[c].at = "spawn"
  /\ at[r] = "unborn"
  /\ of' = [of EXCEPT ![r] = op[c].on]
  /\ Goto(r, "started")
  /\ Done(c)
  /\ UNCHANGED <<rowVars, disk, agent>>

\* A failed launch marks the row failed; a failed resume leaves it pending.
SpawnFails(c) ==
  /\ op[c].at = "spawn"
  /\ IF op[c].kind = "launch" THEN Step(c, "check") ELSE Done(c)
  /\ UNCHANGED <<rowVars, disk, runnerVars>>

DeleteRow(c) ==
  LET s == op[c].on IN
  /\ op[c].at = "delRow"
  /\ state' = [state EXCEPT ![s] = "deleted"]
  /\ pid' = [pid EXCEPT ![s] = None]
  /\ tree' = [tree EXCEPT ![s] = FALSE]
  /\ Touch(s)
  /\ Done(c)
  /\ UNCHANGED <<disk, runnerVars>>

\* A runner stored an output line between the DELETE of the session's output
\* and the DELETE of the row: the foreign key refuses the second.
DeleteRowFails(c) ==
  /\ op[c].at = "delRow"
  /\ \E r \in Runners : of[r] = op[c].on /\ at[r] = "wait"
  /\ Done(c)
  /\ UNCHANGED <<rowVars, disk, runnerVars>>

OpStep(c) ==
  \/ ResolveCleanup(c) \/ ResolveStop(c) \/ Kill(c) \/ OpClearPid(c)
  \/ OpCheck(c) \/ OpWrite(c) \/ RemoveTree(c) \/ ClearTree(c)
  \/ ForceFail(c) \/ SetPending(c) \/ SpawnFails(c)
  \/ DeleteRow(c) \/ DeleteRowFails(c)
  \/ \E r \in Runners : Spawn(c, r)

CallerStep(c) ==
  \/ \E s \in Sessions, w \in BOOLEAN : Launch(c, s, w)
  \/ \E s \in Sessions, k \in Ops : Begin(c, s, k)
  \/ OpStep(c)
  \/ CallerCrash(c)

Next ==
  \/ \E r \in Runners : RunnerStep(r) \/ AgentExits(r) \/ RunnerCrash(r)
  \/ \E s \in Sessions : Expire(s)
  \/ \E c \in Callers : CallerStep(c)

Spec == Init /\ [][Next]_vars

(***************************************************************************)
(* Fairness.  Runner processes are scheduled and agents terminate; the     *)
(* clock passes; a caller finishes what it began; and the daemon loop,     *)
(* which logs an error and goes on, comes back to the heartbeat check.     *)
(***************************************************************************)
Fairness ==
  /\ \A r \in Runners : WF_vars(RunnerStep(r)) /\ WF_vars(AgentExits(r))
  /\ \A s \in Sessions : WF_vars(Expire(s))
  /\ \A c \in Callers : WF_vars(OpStep(c))
  /\ \A s \in Sessions : SF_vars(\E c \in Callers : Begin(c, s, "enforce"))

FairSpec == Spec /\ Fairness

(***************************************************************************)
(* Properties.                                                             *)
(***************************************************************************)
RunnerPcs == {"unborn", "started", "spawn", "setPid", "checkRunning",
              "writeRunning", "firstBeat", "wait", "clearPid", "checkFinal",
              "writeFinal", "errPid", "errCheck", "errWrite", "done", "crashed"}
OpPcs == {"resolveCleanup", "resolveStop", "kill", "clearPid", "check",
          "write", "rmTree", "clearTree", "forceFail", "setPending", "spawn",
          "delRow"}

OpRecord == [kind : Kinds, on : Sessions, at : OpPcs,
             p : Runners \cup {None}, w : BOOLEAN]

TypeOK ==
  /\ state \in [Sessions -> SessionStates \cup {"fresh", "deleted"}]
  /\ pid \in [Sessions -> Runners \cup {None}]
  /\ tree \in [Sessions -> BOOLEAN]
  /\ lapsed \in [Sessions -> BOOLEAN]
  /\ disk \in [Sessions -> BOOLEAN]
  /\ of \in [Runners -> Sessions \cup {None}]
  /\ at \in [Runners -> RunnerPcs]
  /\ agent \in [Runners -> {"none", "alive", "ok", "fail"}]
  /\ op \in [Callers -> OpRecord \cup {NoOp}]

\* Where a runner still has to settle the state it wrote, and where the pid
\* it recorded may still be in the row.
Settling == {"firstBeat", "wait", "clearPid", "checkFinal", "writeFinal",
             "errPid", "errCheck", "errWrite"}
HoldingPid == {"checkRunning", "writeRunning", "firstBeat", "wait", "clearPid",
               "errPid"}

\* A row never says running unless a runner of that session is still going to
\* settle it, or died before it could: however stops, resumes, enforcement
\* and deletion interleave with the two statements of update_state, no run
\* is left "running" by a runner that returned.
RunningIsSupervised ==
  \A s \in Sessions : state[s] = "Running" =>
    \E r \in Runners : of[r] = s /\ at[r] \in Settling \cup {"crashed"}

\* The pid in a row, which stop and enforcement kill, is always one recorded
\* by a runner of that session that has not yet finished clearing it: a
\* returned runner never leaves a pid behind for a later stop to signal.
PidBelongsToItsRunner ==
  \A s \in Sessions : pid[s] # None =>
    of[pid[s]] = s /\ at[pid[s]] \in HoldingPid \cup {"crashed"}

\* A row says completed only if an agent of that session exited with success,
\* even when a second runner, a late stop or an enforcement pass wrote to the
\* row between the agent's exit and the verdict.
CompletedIsEarned ==
  \A s \in Sessions : state[s] = "Completed" =>
    \E r \in Runners : of[r] = s /\ agent[r] = "ok"

AgentsOf(s) == {r \in Runners : of[r] = s /\ agent[r] = "alive"}

\* An operator who resumes only sessions with no live process and no operation
\* in flight never gets two agents working on one session.
OneAgentPerSession ==
  Careful => \A s \in Sessions : \A q, r \in AgentsOf(s) : q = r

\* A stopped session has no agent left running.
StoppedMeansDead ==
  \A s \in Sessions : state[s] = "Stopped" => AgentsOf(s) = {}

\* An agent whose runner has not crashed is attended by it: no runner returns,
\* or gives up on the session, while its agent goes on.
AgentsAreAttended ==
  \A r \in Runners : agent[r] = "alive" => at[r] \in Unreaped \cup {"crashed"}

\* A session's worktree is not removed from disk while an agent works on it.
NoTreeRemovedUnderAgent ==
  [][\A s \in Sessions : disk[s] /\ ~disk'[s] => AgentsOf(s) = {}]_vars

\* No row says running for ever: its runner settles it, or the runner crashed
\* and heartbeat enforcement marks the session.
EveryRunEnds ==
  \A s \in Sessions : state[s] = "Running" ~> state[s] # "Running"
=============================================================================
