# A verification of PurpleGuardAI

PurpleGuardAI is a security assistant: it scans a repository, validates what it
finds, proposes and applies fixes, attacks the fixed code again, and keeps the
results in a backend with panels. The loop itself, from a finding to a verified
fix, runs in concurrent API requests and commands over shared files; around it
there are two control planes that are distributed and hard to test:

* **ecc2** (`ecc/ecc2`, Rust): launches coding agents as background sessions,
  supervises them, and manages their worktrees, queues and messages in one
  SQLite file that every process of the tool opens for itself;
* **the engine bridge** (`src/convex`, TypeScript, and `scripts/engine`,
  Python): validation runs queued in a Convex backend and executed by engines
  that poll, claim, push findings and post outcomes over HTTP.

The modules in this directory model these two and the developer handoff, the
part of the loop that changes source files. ecc2 takes twelve modules: one for
each protocol that its processes follow over the shared database, and `Store`,
which puts the five about stored data beside each other. Six are about
control: the life of one session, the slots for worktrees, the way of a task to a
session, the daemon's choice of passes, the merging of what sessions have done,
and the enforcement of limits. Five are about what is stored and shown: the
schema, the metrics, the board, the observations of the context graph, and the
connectors that feed it. The rest of the program is listed below, with what is planned for it.

## 1. Files

| file | what it is |
| --- | --- |
| `SessionLifecycle.tla` | session rows, runners, agents and the operations on them (ecc2) |
| `MCSessionLifecycle.tla` | the sets of operations and crashes for TLC, symmetry |
| `SessionLifecycleProofs.tla` | theorems about `SessionLifecycle` |
| `WorktreeQueue.tla` | slots for worktrees: launch, queue, activation by daemons (ecc2) |
| `MCWorktreeQueue.tla` | symmetry for TLC |
| `WorktreeQueueProofs.tla` | the limit on worktrees, one agent for a session, no session forgotten, no worktree lost |
| `TaskRouting.tla` | handoffs, requests and schedules on their way to sessions (ecc2) |
| `MCTaskRouting.tla` | backlog, arrivals and passes for TLC |
| `DaemonActivity.tla` | the row of `daemon_activity` that the daemon's policy reads (ecc2) |
| `BacklogCycle.tla` | how the daemon chooses between dispatching and rebalancing (ecc2) |
| `MCBacklogCycle.tla` | the instance for TLC |
| `RoutingProofs.tla` | theorems about `TaskRouting` and `BacklogCycle` |
| `MergeQueue.tla` | merging, rebasing and pruning by several processes (ecc2) |
| `MCMergeQueue.tla` | two branches for TLC |
| `MergeQueueProofs.tla` | that merging loses no work, and that what is ready merges |
| `Enforcement.tla` | budget and conflicts enforced by dashboards (ecc2) |
| `MCEnforcement.tla` | logs for TLC |
| `EnforcementProofs.tla` | the types of `Enforcement`, and that recorded conflicts are enforced |
| `SchemaMigration.tla` | opening a database of an earlier version (ecc2) |
| `MetricsImport.tla` | the import of the cost log and the tool-activity log (ecc2) |
| `SessionBoard.tla` | the cards of the board and their refresh (ecc2) |
| `ContextMemory.tla` | observations of the context graph: add, pin, compact (ecc2) |
| `MemoryConnector.tla` | the sync of memory connectors over changing files (ecc2) |
| `Store.tla` | the five modules about stored data in one database |
| `MCStore.tla` | earlier databases, events, and one part per behaviour for TLC |
| `StoreProofs.tla` | theorems about `SchemaMigration` and `Store` |
| `RunLifecycle.tla` | abstract: what a workflow run promises to the panel |
| `EngineBridge.tla` | the backend's handlers, the engine loop and the network between them |
| `MCEngineBridge.tla` | runs with and without faults for TLC |
| `EngineBridgeProofs.tla` | theorems about `EngineBridge`, with the refinement of `RunLifecycle` |
| `DeveloperHandoff.tla` | handing findings over, approval, patching, re-test, verdict, rollback |
| `MCDeveloperHandoff.tla` | files, rules and symmetry for TLC |
| `DeveloperHandoffProofs.tla` | theorems about `DeveloperHandoff` |
| `lifecycle_full.cfg`, `lifecycle_careful.cfg`, `lifecycle_daemon.cfg`, `worktree_queue.cfg`, `task_routing.cfg`, `backlog_cycle.cfg`, `merge_queue.cfg`, `enforcement.cfg`, `store.cfg`, `bridge.cfg`, `handoff.cfg` | runs that hold |
| `finding_cooloff.cfg` | a run in which TLC finds that the code breaks a promise it states |
| `PROJECT.json` | components, runs, mutants, source map, findings, hazards, theorems |

`PROJECT.json` maps every definition that models code to the lines it stands
for. Operators whose comment starts with "Mutant:" are plausible bugs: each is
substituted for the definition before it to see that the property it is listed
with notices. The type invariants are proved; of them only `StoreTypes`, the
conjunction of five, is also checked by a run.

## 2. Inventory

Source paths are relative to the repository.

### 2.1 Session lifecycle (`ecc/ecc2/src/session/{manager,runtime,daemon,store,mod}.rs`): modelled, partly

*State.* One row per session: state (pending, running, idle, stale, completed,
failed, stopped), pid of its agent, worktree columns, last heartbeat. Next to
it, in the operating system: the runner process (`ecc run-session`), the agent
it spawned, the worktree on disk.

*Operations.* Launch (`queue_session…`), run (`run_session` and
`capture_command_output`), stop, pause (`enforce_budget_hard_limits`), resume,
cleanup, prune, merge, delete, heartbeat enforcement, startup recovery.

*Interaction.* Every command, the dashboard and the daemon are processes of
their own with their own connection in autocommit mode. They never talk to each
other: they signal pids read from rows, and overwrite rows. A write is a single
SQL statement, and most operations are several of them.

*Hard.* Check-then-update in two statements (`update_state`), decisions on rows
read long before, a runner that gives up on a live agent, processes that die
between two statements, heartbeats that lapse although the agent works, zombies
that answer `kill(pid, 0)`.

*Correct when.* A row that says running has somebody who will settle it; a pid
in a row is that of a run of that session; completed means an agent succeeded;
one agent per session; a stopped session has no agent; a worktree is not taken
from under an agent; every run ends.

### 2.2 Engine bridge (`src/convex/{workflow,crons,findings,projects,engineHttp}.ts`, `scripts/engine/{orchestrator,validators}.py`): modelled, partly

*State.* `workflowRuns` (project, status, stamp of the engine, count of
findings), `projects`, `findings`; in each engine the runs of its poll, the one
it is handling, the findings not pushed yet and those acknowledged; requests
and answers on the network.

*Operations.* `startRun`, the daily job, `pendingForEngine`, `claimForEngine`,
`ingestFromEngine`, `resolveRun`; in the engine `poll_pass`, `claim_run`,
`handle_run`, `main`.

*Hard.* Several engines poll the same runs; a request times out and is handled
later, or never; an engine dies with a run claimed; errors are caught in some
places and not in others; the daily job looks at runs nobody may ever settle.

*Correct when.* A run is queued, claimed and settled once each, in this order,
whatever the network does; its count is exact; a failed run stored nothing; the
daily job does not pile up runs; without faults every queued run is settled.

### 2.3 Developer handoff (`security_workforce/developer_handoff.py`, `scanner/remediation/workflow.py`, `scanner/developer/session.py`, `api/server.py`, `main.py`): modelled, partly

*State.* `reports/..._handoff.json` with an item and a stage per finding; the
source files of the target and their `.purpleguard.bak`; in each request what it
has loaded and what it has still to do.

*Operations.* Hand over (`send`), approve (`approve_and_remediate`, with
`apply_patches` and `re_test`), secure the project (`secure_all`), roll a file
back.

*Interaction.* Requests of the API are served in threads (`app.run` without
`threaded=False`), commands are processes of their own. They share the handoff
file, the sources and the backups, and nothing takes a lock.

*Hard.* Load, change and replace of the whole handoff file; a source file that
is empty between its truncation and its writing; texts written that were read
before; requests that end in the middle; rollbacks that bring back an older text.

*Correct when.* No change without approval; "verified" only after a test of its
own, and true as long as nobody else works on the file; a request that breaks
off loses no source.

### 2.4 The other protocols of ecc2: modelled

| component | state | operations | hard | correct when |
| --- | --- | --- | --- | --- |
| worktree queue (`manager.rs:2448-2532, 2600-2690`, table `pending_worktree_queue`) | a FIFO of sessions without worktree; the slots taken are the rows with one | launch, enqueue, activate, dequeue | the count is read once; two activators; stop, resume or delete in between; starts that fail halfway | the limit holds, no pending session is forgotten, every worktree is accounted for, one agent for one launch |
| task handoff and routing (`manager.rs:903-1155, 1548-1694`, `comms/mod.rs`) | messages with a read flag; teams derived from who was handed a task | assign, drain, auto-dispatch, rebalance, coordinate | a message is settled after it was routed, on counts read before | no task lost, none routed twice without a crash or a race |
| remote dispatch and schedules (`manager.rs:116-156, 474-588`) | requests (pending, dispatched, failed), due tasks | request, run due, record | a crash or a second process between queueing and recording | what is reported is what happened |
| daemon coordination (`daemon.rs:172-384`, row `daemon_activity`) | last dispatch, rebalance and recovery, streak of saturation | `coordinate_backlog_cycle`, the two passes, the three records | the policy depends on what earlier passes recorded, and those fail and crash | room is used, a streak means what it says |
| merge queue (`manager.rs:1740-1946, 2040-2262`, `worktree/mod.rs`) | rows with worktrees, branches, the base | build, merge, rebase, prune | several processes and agents on one repository, each git command on its own | no work lost, the queue's order is sound, broken rows go away |
| enforcement (`manager.rs:1166-1412`, `dashboard.rs`) | logged tool calls, incidents by pair and file | budget and conflict enforcement | stopping takes seconds; incidents are looked at once; several dashboards | what is recorded is enforced, nothing is overlooked |
| database schema (`store.rs:159-910`) | tables, columns, rows of earlier versions | open: create, look for each column, add it, fill it in, refresh | every process migrates for itself, each statement commits | who gets in can use it; somebody gets in |
| session metrics (`store.rs:1560-1905`, `dashboard.rs:4012-4043`) | two logs of the hooks, metrics of the rows, the tool log | import by dashboards and commands | the logs grow while they are read; several importers; deleted sessions | nothing counted twice, nothing missed |
| session board (`store.rs:2250-2336, 4267-4400`) | a card per session | refresh after every write and with every tick | refreshes overlap and break off | the board comes to show the sessions |
| context graph (`store.rs:3162-3470`) | observations by entity | add, compact, pin | statements of several processes in turns | what is pinned and what is latest stays, the rest is bounded |
| memory connectors (`main.rs:2787-3406`) | a signature per file | sync with a limit | files written over or replaced while they are read | what is passed over as unchanged has come in |

They meet in the sessions table. `SessionLifecycle` has the life of one session
statement by statement; the other modules shorten it to the states they depend
on, and each says at its head what it leaves out. `BacklogCycle` is `TaskRouting`
counted by lead instead of message by message, over the whole loop of the
daemon.

### 2.5 Not modelled yet, planned

| component | state and operations | hard part | properties |
| --- | --- | --- | --- |
| approvals and revalidations (`src/convex/{approvals,revalidations}.ts`) | pending and resolved requests, verdicts in finding payloads | late and repeated outcomes, two approvals of one finding | an outcome is applied once; the newest verdict wins |
| findings upload (`findings.ts:95-124`) | findings replaced wholesale | duplicate ids against a unique index | ids stay unique |
| GitHub connection (`github.ts`) | one-time states with an expiry | a throw rolls back the consumption | a state is used once |
| target scope (`validators.py`) | pure | blocked paths, globs | nothing blocked is inspected |
| hacker orchestrator and verification (`hacker/orchestrator.py`, `hacker/reverification.py`, `scanner/verification/engine.py`) | stages and verdict of a hunt | partial remediation, empty lists | verified only after static checks, tests and re-attack |
| security workforce (`security_workforce/`, without the handoff) | agents, findings | order and failure of agents | every finding attributed once |
| development agent (`dev_agent/`) | task list in a file, status, memory | stale list written back | no task lost |

### 2.6 Not modelled, and why

The command line and the dashboard are callers of the operations above; the
largest part of the repository's lines (`tui/dashboard.rs`, `main.rs`, the
printing half of `manager.rs`) presents state, parses arguments or tests, and
has nothing a model checker could say more about than a unit test. Configuration,
notifications, risk scores, the entities and relations of the context graph
(upserts by key), its recall, reports, the knowledge base and the bridges to other
tools are parsing, formatting or sums. Session output is a bounded buffer in one process, written by one task. Scanner
rules, patch generation and code analysis rewrite or match source text: their
hard part is the text, which is not what TLC is for. Git and the authentication
library are external. The commands that work on one worktree at a user's word
(staging, hunks, pull requests) change nothing that another process of the tool
looks at.

## 3. Session lifecycle

### 3.1 State and code

| variable | in the code |
| --- | --- |
| `state`, `pid`, `tree`, `lapsed` | the columns `state`, `pid`, `worktree_path` (is it set), `last_heartbeat_at` (is it older than the timeout) of a session's row |
| `disk` | the worktree directory exists |
| `of`, `at` | a runner: its session, and its place in `run_session` / `capture_command_output` |
| `agent` | the runner's agent: not started, alive, exited with success or failure |
| `op` | a caller: the operation it is in, at which statement, with the pid and worktree it read at the beginning (`p`, `w`) |

The pid of an agent is named after the runner that started it, so pids are
unique: reuse of a pid by the operating system is not modelled.

**One statement, one step.** `update_state` is `CheckRunning`/`WriteRunning`,
`CheckFinal`/`WriteFinal`, `ErrCheckFailed`/`ErrWriteFailed` in the runner and
`OpCheck`/`OpWrite` in a caller. `update_pid`, `update_state_and_pid`,
`touch_heartbeat` and `clear_worktree` are one step. A statement on a deleted
row fails, and what the code does then is in the action: the runner takes its
error path, a caller's `?` ends the operation.

**Runner.** `started` (resolve the session, skip unless pending), `spawn`,
`setPid`, `checkRunning`, `writeRunning`, `firstBeat`, `wait`, `clearPid`,
`checkFinal`, `writeFinal`, `done`; every failure leads to `errPid`,
`errCheck`, `errWrite`, where the code drops the errors of both updates. The
child handle is dropped without a kill, so the agent survives its runner.

**Callers.** `Begin` is the reading of the row with all early returns and
filters of the operation (`Admits`); the steps that follow are its statements in
their order:

| operation | steps after `Begin` |
| --- | --- |
| launch | insert (in `Launch`), spawn; if that fails: check, write failed, remove the worktree (the pointer stays) |
| stop with cleanup | kill, clear pid, check, write stopped, remove and clear the worktree |
| pause | as stop; the worktree pointer read at the beginning is not used |
| resume | set pending and clear pid, spawn; if that fails the row stays pending |
| cleanup | running: resolve again, then as stop, and clear the worktree columns in any case; otherwise remove and clear |
| prune | resolve again, then as cleanup |
| merge | remove and clear (a merge that fails changes nothing) |
| delete | remove, delete the row; refused when a line of output was stored since |
| enforce | automatic termination: kill, write failed and clear pid; otherwise check, write stale |
| recover | write failed and clear pid |

A crash of a runner or a caller can come between any two steps.

### 3.2 Properties

`RunningIsSupervised`, `PidBelongsToItsRunner`, `CompletedIsEarned`,
`OneAgentPerSession`, `StoppedMeansDead`, `AgentsAreAttended`,
`NoTreeRemovedUnderAgent`, `EveryRunEnds` are stated with a comment each in the
module. Two of them hold only for a **careful** operator, and the model says
what that is (`OperatorAllows`): resume when nothing of the session is alive and
no operation is in flight, stop when the pid is recorded and no operation is in
flight. The code itself guards neither.

### 3.3 Runs

| run | bounds | shows |
| --- | --- | --- |
| `lifecycle_full` | 1 session, 2 runners, 1 caller, all operations, crashes, lapses | supervision, pids and verdicts under every operation |
| `lifecycle_careful` | 1 session, 3 runners, 2 callers; launch, stop, resume, enforce, recover; runner crashes | one agent, and none behind a stopped row |
| `lifecycle_daemon` | 1 session, 1 runner, 2 callers; launch, enforce with termination, recover, prune; runner crashes; fair | agents attended, worktrees safe, every run ends |

*Why the bounds are enough.* Rows of different sessions never meet: no statement
touches two rows and each runner belongs to one session, so one session shows
every interleaving on it, and the theorems cover any number. Two runners is the
smallest number with overlapping runs (a launch and a resume); the careful run
has three so that a second resume can follow a crash. One or two callers are the
operator and the daemon. `Runners` bounds launches and resumes; a session is
launched once (`fresh` to `Pending`), as ids are random. Deadlock is not checked
in these runs: when all runners are used the system may stop.

*Fairness* (`lifecycle_daemon`). Weak fairness for the steps of a runner and
for the exit of its agent (a process that is scheduled makes progress, an agent
that never ends is out of the promise), for the clock (`Expire`), and for the
steps of an operation once begun. The daemon loop (`daemon.rs:20-56`) calls the
heartbeat check in every pass for ever and only logs its errors: strong
fairness of beginning an enforcement, because the callers are at times busy with
other operations.

## 4. Engine bridge

### 4.1 State and code

`status`, `project`, `byCron`, `stamp`, `count` are the fields of a
`workflowRuns` row (`byCron` stands for the note of the daily job), `known` the
`projects` table, `payload` the `findings` table (whose payload a finding
holds). `landed` is a history variable: which findings were ever stored for a
run. An engine is `pc`, `todo` (the poll), `cur`, `left`, `pushed`; its HTTP
request is `req`, the answer `rep`, and requests that outlived the engine's 30
seconds are in `late`, from where they are handled or lost at any time, in any
order.

A Convex mutation is a serializable transaction: a handler is one step
(`claimForEngine`, `ingestFromEngine`, `resolveRun`, `pendingForEngine`), and a
mutation that throws changes nothing and becomes an error status
(`ServeFails`). `TimeOut` follows `api()`: only HTTP errors become the
`RuntimeError` that the loops catch, anything else leaves `handle_run` and
`poll_pass` and is logged in `main`, which forgets the pass (`Abandon`).
`Crash` is the death and restart of the process.

Abstractions: runs of a poll are handled in any order (the code: oldest first);
`validate()` returns any set of findings; a dry run, a failed fetch and an empty
target are one action, since all post a failed outcome with count 0; the stamp
is the engine itself instead of `py-<seconds>`; an exception inside
`validate()` is the same as a crash; approvals and revalidations, which the
engine only logs, are left out; a 5xx from a proxy after a committed mutation is
left out.

### 4.2 Abstract specification

`RunLifecycle` is what the panel relies on: a run is queued, claimed and settled
once each, and its outcome and count never change afterwards. `EngineBridge`
implements it under the mapping of `status` and `count` to themselves
(`RunsFollowTheirLifecycle`), although `resolveRun` looks at no status and
requests arrive late: the reason is that only the engine that was granted a
claim ever sends an outcome, and it sends at most one.

### 4.3 Runs

| run | bounds | shows |
| --- | --- | --- |
| `bridge` | 2 engines and either 1 run, 2 findings, timeouts, errors and crashes, or 2 runs of 1 project, 1 finding, no faults, fair | exclusive claims, true outcomes, no two active runs of a project by the daily job, refinement, queued runs end |

A behaviour of `MCEngineBridge` is of one sort or the other, as its variable
`calm` says from the beginning; the states of the two add up.

*Bounds.* Runs only meet in the polls and in the daily job: one run with two
engines has every race for a claim; two runs of one project let the daily job come
round while an earlier run, of its own or queued by hand, is in any state, and
the theorem `ScheduledOnce` covers any number of runs and projects. Two findings
let a push fail between two that succeed. `Runs` bounds the runs ever queued. Deadlock is
checked: an engine can always poll.

*Fairness.* The engine's steps and the backend's answers are weakly fair: the
main loop never ends and catches everything, and the backend answers every
request. Nothing obliges a late request to arrive. With timeouts or crashes
`QueuedRunsEnd` does not hold, and the code has nothing that would make it: a
claimed run that was abandoned stays "running", and the daily job then skips
its project (`crons.ts:25`). That is a hazard of the code, and the reason that
`QueuedRunsEnd` is about behaviours without faults.

## 5. Developer handoff

### 5.1 State and code

| variable | in the code |
| --- | --- |
| `stage` | the stage of each item of the handoff file ("none": no such item) |
| `source`, `backup` | the text of a file and of its `.purpleguard.bak` |
| `job` | a request: where it is, its finding (`item`), what it has still to patch (`todo`), the file and text it is writing, whether a patch was applied, the result of its test (`clear`) and its copy of the handoff file (`items`) |
| `approved`, `cleared` | history: findings a caller approved, findings a test found to be gone |
| `disturbed` | history: files that were rolled back, or that two requests worked on at the same time |

A text is the set of findings fixed in it. A finding is identified by its rule,
file and line (`correlation.py:28-40`), but a patch finds its place by the code
alone: `_replace_exact` rewrites the *first* occurrence in the file
(`patcher.py:40-48`). Findings of one rule whose code reads the same are `Twins`
(constants `Line` and `Code`), and a patch for one of them changes the first that
is not yet fixed, whichever was meant (`Patched`); so the order of patches does
not matter, but the line that changes may be one that nobody chose. `CanPatch` says
that a patch exists and that for each finding of a batch there is still such
code to replace. `Torn` is a file that was opened for writing and is still empty;
the scanner finds nothing in it. `Fires` is the scanner on one file,
`StillPresent` what `re_test` looks at: the rule, in any file of that base name
(`Kind`).

| code | actions |
| --- | --- |
| `send` | `Send` (load, set the stages), `Save` (`os.replace`) |
| `approve_and_remediate`, first lines | `Approve`; without approval the request is over |
| `secure_all` | `Secure` (scan, approval), `Select` (`can_auto_fix`) |
| `apply_patches`, per file | `ReadSource` (read and patch in memory, all findings of the file or none), `BackupOpen`, `BackupCopy` (`shutil.copy2`), `SourceOpen`, `SourceWrite` (`open(…, "w")`, `write`), `NextFile` |
| `re_test` | `TestGet`, `Scan`, `LoadTest`, `SaveTest` |
| `approve_and_remediate`, last lines | `Outcome`, `LoadFinal`, `Save` |
| `rollback` | `Rollback` (the backup exists; the source is opened), `Restore` |
| an exception, or the end of the process | `BreakOff`, at any step |

Abstractions: a scan is one step (it reads every file once; a file that is
truncated at that moment is seen empty); the findings a handover sends are any
set of `Batches`; nobody edits the sources by hand; patches introduce no new
findings; a finding keeps its line, although the import that some patches add
(`_ensure_import`) moves the lines below; the code of a finding does not occur
where the rule does not fire, and is gone once replaced (not so for PG002, whose
replacement may contain it); and a patch goes by the code, also for PG006, which
looks at the line as well. Left out: `apply` for one finding, which no route or command calls
with approval; a `target` given with the approval; the mirror of the handoff in
`dev_agent/status.json`, which no step of the handoff reads; `/secure`, which runs the
hacker pipeline and is planned.

### 5.2 Properties

`VerifiedWasTested`, `ChangesAreApproved`, `VerifiedIsFixed` and
`NothingIsLost`, with a comment each in the module. `ChangesAreApproved` is as
strong as the code is: a change needs the approval of its finding *or of a twin*.
That no other line changes is false: who approves the second of two findings with
the same code gets the first rewritten. The re-test does not notice, but does not
call it verified either, since the rule still fires in the file.
`VerifiedIsFixed` and
`NothingIsLost` leave out files that are `disturbed`. Nothing in the code keeps
two requests from working on one file, and then both fail: a re-test scans a
file that another request has just truncated and calls the finding verified; a
request writes the text it read earlier over the fix of another one. So the
properties say exactly how much care the code needs from those who call it.

### 5.3 Runs

| run | bounds | shows |
| --- | --- | --- |
| `handoff` | 1 file, 2 findings of one rule with the same code on 2 lines, 2 requests, any batch | the four safety properties (about 2 540 000 states) |

*Bounds.* Two requests are the smallest number that interleave; each begins
again and again, so sequences of any length are covered. Two findings in one
file give texts that overwrite each other, patches of several findings at once,
a rule that fires until the last of its findings is fixed, and, as they are twins,
patches that end up at the other's line. Findings with code of their own are the
easier case, in which `Covered` is `approved`. Several files in
one request (`NextFile` going on) need a second file and are covered by the
theorems, which hold for any number. Deadlock is checked: a request can always
begin. No fairness is assumed, since requests may break off anywhere and the
properties are about safety.

## 6. Worktree queue

### 6.1 State and code

| variable | in the code |
| --- | --- |
| `state`, `tree`, `pid` | the columns `state`, `worktree_path`, `pid` of a row (set or not) |
| `queue` | `pending_worktree_queue`, by `requested_at` |
| `disk` | the worktree directory and its branch |
| `pass`, `free`, `todo` | a daemon in `activate_pending_worktree_sessions_with`: its place, `available_slots`, the queue as it read it |
| `pc`, `on`, `had` | a client: its operation, the session, the worktree it read or made |
| `of`, `home`, `run` | a runner: its session, the daemon whose task it is, its place in `run_session` |
| `raced`, `touched`, `broken` | history, see below |

A launch counts the slots (`Launch`), makes the worktree, inserts the row, and
then enqueues the session or starts a process for it; each is a step, and each
may fail or be cut off. A daemon's pass counts once (`CountSlots`), reads the
queue once, and for every entry reads the row (`Look`), creates the worktree,
attaches it, starts a *task of its own process* (so the runs die with the
daemon, `DaemonCrash`), and dequeues the entry. Clients stop, clean up, delete
and resume in between. A runner is shortened to what decides who is started:
`SessionLifecycle` has the statements of `update_state` apart and the agent.

The three history variables say under which conditions a property is promised,
and each is as narrow as the code allows: `raced` is set when somebody begins to
count while another allocator has counted and not yet used its count; `touched`
are the sessions a client has worked on after their launch; `broken` are those
whose start was cut off by a crash or by a program that could not be started.

### 6.2 Properties

* `WithinLimit`: the limit holds unless two allocators counted at once. Nothing
  in the code keeps a launch from counting between a daemon's count and its last
  attachment, and then the limit is exceeded.
* `NoneStranded`: a pending session is queued or somebody is about to start it.
* `TreesAreAccounted`: every worktree without a row that names it is being made
  or removed, or belongs to a session that was cut off, deleted, or given two.
* `StartedOnce`: one agent for a session that nobody touches, although two
  daemons may both look at it: `git worktree add -b` refuses the second.

### 6.3 Run

| run | bounds | shows |
| --- | --- | --- |
| `worktree_queue` | 2 sessions, 2 daemons, 1 client, 2 runners, 1 slot; clients touch 1 session, 1 start is cut off | the four properties (about 920 000 states) |

With one slot and two sessions one waits while the other works, and the slot
passes on when that one is cleaned up. Two daemons and a client are the smallest
set with two activators, and an activator next to a launch. Two runners let both
daemons start one session, or a resume overlap a first start. One touched
session and one broken start are enough to see each interference alone; the
limit is proved for any number of everything. Deadlock is not checked: with all
runners used and the slot taken the system may stop.

## 7. Task routing

### 7.1 State and code

`stored` and `unread` are the table `messages`, as places in `sent`, all that was
ever sent; `origin` the status of a task
where it arrived (a handoff, `ecc assign`, a row of `remote_dispatch_requests`, an
occurrence of a schedule); `state`, `work` and `parent` the sessions, their tasks
and leads. `pass` is one pass of a process (the daemon, the command line, a
dashboard), as a record of the local variables of the code: the kind, the leads
still to visit, the messages read for the current one, the message at hand.

| code | actions |
| --- | --- |
| `auto_dispatch_backlog`, `drain_inbox` | `StartDispatch`, `NextLead`, `Decide`, `Queue`, `Send`, `SettleHandoff` |
| `rebalance_all_teams`, `rebalance_team_backlog` | `StartRebalance`, `NextLead`, `NextDelegate`, `NextMoved`, then as above, `SettleMoved` |
| `coordinate_backlog` | `StartDispatch` with `more`, `EndPass` |
| `assign_session…` | `Decide` (the team and its backlogs are read), `Queue` (a new delegate), `Send`, `Defer`, `LeadIsGone`, `QueueFails` |
| `run_remote_dispatch_requests…` | `StartRemote`, `SettleRequest`; an error becomes "failed" (`GiveUp`) |
| `run_due_schedules…` | `StartDue`, `record_scheduled_task_run` |
| `ecc assign`, `ecc messages send`, an inbox that is viewed | `StartAssign`, `HandOff`, `View` |
| `delete_session` | `DeleteMessages` (all messages from or to the session, `store.rs:2354`), then `DeleteRow`; every command and the daemon may act in between |
| the process dies | `Crash`, between any two statements |

A deletion takes unread handoffs with it (`erased`), and former ones no longer make
a session a delegate. A handoff sent between its two statements, or by a pass
that has chosen the session before, is stored all the same and unread for ever.

Abstractions: priorities and the match of delegates with the context graph only
order messages and delegates, so the order is arbitrary; one harness; Idle,
which nothing sets, is left out with the two branches that reuse idle
delegates; what a new session needs to start is in `WorktreeQueue` (`QueueFails`
is any failure of it); a request or an occurrence that arrives in the middle of
a pass is put before or after it, since the pass works on the list it has read.

### 7.2 Properties

* `NoTaskLost`: a task that has arrived is unread in an inbox, on record, or in
  work, whatever crashes; the exceptions name everybody who may
  take it out: a user who views the inbox, an `ecc assign` that refuses, the
  deletion of a session that had it unread or had sent it to where it was unread
  (nobody is told), and a rebalance that runs beside another pass, for it marks the handoff as read also
  when nobody took it (`manager.rs:1139-1143`).
* `RoutedOnce`: a handoff, a request and an occurrence lead to one assignment,
  unless a crash came between the assignment and its record, or two passes had
  both read it. The code has no claim on what it reads.
* `ReportedTruly`: "failed" was not dispatched and "dispatched" was, with the
  same two exceptions.

### 7.3 Run

| run | bounds | shows |
| --- | --- | --- |
| `task_routing` | 3 sessions (2 started), 3 tasks (a waiting handoff; a handoff or an assignment; a request or an occurrence), teams of 2, 4 messages, handed off by the 2 started sessions to any other, 3 passes of 2 processes that visit 1 lead or take 1 request each, 1 mishap | the three properties (about 1 100 000 states) |

Three sessions are a lead, a delegate it has, and one that is still to be
started. Four messages let a handoff be routed, piled on a delegate, and moved
again by a rebalance. Three passes let one overlap a second and a third come to
what they left. The processes differ in the passes they start (`MCPasses`), such
that each kind meets each other kind. `Contacts` leaves out handoffs of a session to
itself. The one mishap may be a session that ends and is then deleted, and the
runs reach both an unread handoff that is erased and one that arrives too late.
No deadlock check: with the bounds used up
nothing is left to do.

## 8. Backlog cycle

### 8.1 State and code

The daemon's loop, with the passes of `TaskRouting` counted by lead: `waiting`
handoffs (the unread ones), `room` in its team, `piled` handoffs that a rebalance would move.
`deferred`, `latest` and `streak` are what the policy reads of the row of
`daemon_activity`; of its three times only the order matters, which is `latest`.
`at`, `mode`, `todo`, `routed`, `held`, `moved` are the locals of
`coordinate_backlog_cycle_with`. `Begin` is the choice between the two orders
and the cooloff (`prefers_rebalance_first`, `dispatch_cooloff_active`,
`stabilized_after_recovery`, names of the code), `RecordDispatch` and
`RecordRecovery` are the writes of the row, `Rebalanced` what follows a
rebalance. A pass visits at most `LeadLimit` leads, any of those with handoffs
(`auto_dispatch_backlog`) or of those that are active (`rebalance_all_teams`): in
the code `max_parallel_sessions` of them (`daemon.rs:159`), by the priority, number
and age of their handoffs (`store.rs:2628-2637`) or by the last change of their rows.
`delete_session` empties an inbox before the row goes; `LateHandOff` is one that
was sent too late for that. An error of a pass ends the cycle before its record
(`Abort`).
`dry` and `mute` are history: passes on end that gave nothing out, and a pass
that gave out something and ended before its record.

### 8.2 Properties

* `StreakMeansStuck`: the streak, from which the cooloff and the call for an
  operator follow, counts passes that gave nothing out.
* `RoomIsUsed`: handoffs do not wait for ever at a team that has room, unless
  the daemon is in its cooloff; or a late handoff waits at a lead that is gone,
  which ends every dispatch pass that comes to it (`LeadIsGone`, `Poisoned`); or
  they wait at more leads than a pass visits (`Crowded`), for the pass takes those
  that are first in its order, and nothing makes that order fair. Each of the
  three is needed: without it TLC finds handoffs that wait for ever.
* `CooloffPutsOff`: the same without the cooloff among the excuses. The log says
  that the *immediate* retry is skipped during cooloff; TLC shows that it may be
  skipped for ever: a cooloff cycle only rebalances, and when that moves nothing
  no dispatch follows, so nothing is recorded that would end the cooloff
  (`finding_cooloff`).

### 8.3 Runs

| run | bounds | shows |
| --- | --- | --- |
| `backlog_cycle` | 2 leads of which a pass visits 1, teams of 2, 2 waiting handoffs at one lead and 1 at the other, streaks to 4, 1 mishap; fair | streaks, room used (about 544 000 states) |
| `finding_cooloff` | 1 lead, teams of 2, 2 waiting handoffs, no mishaps; fair | violated: a team with room and a lead whose handoffs wait for ever |

With two leads a pass may leave one of them out. `LeadLimit` and `MaxTeam` are one
setting in the code (`max_parallel_sessions`); they differ in the run, so that two
leads are more than a pass visits while a team has room for two. Two handoffs at
one lead let a pass give out one and defer the other. The theorem about streaks
holds for any limits.
A streak of 3 begins the cooloff, and 4 is where streaks are no longer told
apart. *Fairness*: weak fairness of the cycle as a whole; `run` loops for ever,
and an error in a pass is logged (`daemon.rs:38-40`). Deadlock is checked.

## 9. Merge queue

### 9.1 State and code

`state` and `tree` are a session's row; `disk`, `ahead`, `dirty`, `fork` and
`base` its worktree, branch, uncommitted changes, and the base branch. A commit
is the set of lines it changes, and two branches conflict when both have changed
a line since they parted: that is all `git merge-tree`, `git merge --ff` and
`git rebase` are asked in `worktree/mod.rs`. `proc` is a process in one of
`process_merge_queue` ("daemon", "merge"), `merge_ready_worktrees_one_pass`
("keep") and `prune_inactive_worktrees` ("prune"), as a record of its locals.

| code | actions |
| --- | --- |
| `build_merge_queue` | `Inspect`, a row at a time, the active ones last; a row in conflict with the base and without changes, active or not, can be rebased later |
| `merge_session_worktree` | `Resolve` (the row again), `GitMerge` or `GitMergeFails`, `RemoveTree`, `clear_worktree` |
| end of the entries | `Merged`: another round, or a rebase |
| `rebase_session_worktree` | `PickRebase`, `Rebase` or `RebaseFails` |
| `prune_inactive_worktrees` | `StartPrune`, `Prune`, `RemoveTree`, `clear_worktree`, `Pruned` |
| the daemon's loop | `Loop`, `Leave` (it prunes whatever became of the merging) |

Agents and users edit, commit, end, resume and delete at any time (`Work`,
`CommitToBase`, `Turn`, `delete_session`), and processes crash. Abstractions: one
base branch; a worktree and its branch are removed as one; retention 0, the
default; `auto_merge_ready_worktrees` on.

### 9.2 Properties

* `MergeLosesNothing`: worktrees are removed by force, and two processes may
  merge one session; still only what was written during the merge itself is
  lost. Pruning is not under this promise: with retention 0 it removes the
  unmerged work of sessions that ended, which is documented.
* `ReadyEntriesMerge`: the ready entries merge one after the other, unless
  somebody else changes the repository: the comparison of each branch with the
  base and with those ahead of it is enough.
* `BrokenRowsAreCleared`: a row whose worktree is gone ends every run of the
  queue with an error, and the pruning that follows gets rid of it.

### 9.3 Run

| run | bounds | shows |
| --- | --- | --- |
| `merge_queue` | 2 sessions, the daemon and 1 client, 1 line, 1 change, 1 run of the client; fair | the three properties (about 580 000 states) |

Two branches that change the one line conflict, two that change nothing do not,
and `Written` begins with both; one change by others is a write
during a merge, a commit to the base between inspection and merge, a crash, or a
session that comes back. The client's run meets the daemon's loop at every
step. *Fairness*: the steps of each process and the daemon's coming round.

## 10. Enforcement

### 10.1 State and code

`log` is the table of tool calls (one token, one file each), `incident` the
table of conflict incidents by pair and file, `told` the messages sent, `pass` a
dashboard in its tick: `enforce_budget_hard_limits` (`StartTick`,
`PauseForBudget`), then `enforce_conflict_resolution` (`Look` reads sessions and
activity once; `Check`, `upsert_conflict_incident`, `Pause`, `Tell` per
conflict). Of each session a pass reads the last file events only (`Window`, 64 in
the code, `manager.rs:1294`), whatever files they are about. Stopping takes more than a second, so agents, users and other
dashboards act between the steps. The runner behind a session is in
`SessionLifecycle`.

### 10.2 Properties

* `IncidentsAreEnforced`: an incident is looked at once, so the session that is
  to give way must be out of work afterwards, unless a user has resumed it, or
  the dashboard could not finish (`Fail`): then nobody ever stops it.
* `NothingIsOverlooked`: a budget that is used up leaves no active session, and
  two sessions that have written to one file get an incident, unless one of them
  no longer works, has read the file since, or has touched other files so often
  that its write is no longer listed (`OutOfSight`): such a conflict is never
  seen.

### 10.3 Run

| run | bounds | shows |
| --- | --- | --- |
| `enforcement` | 2 sessions, 2 files, 2 dashboards, the last 2 calls of each session listed, budget 5, 2 logs of 4 calls and 1 more, 1 turn, both strategies; fair | the two properties (about 96 000 states) |

A conflict has two sessions; a log of four calls is one below the budget, so
that a session may cross it while a conflict is handled; two dashboards handle
one conflict together. In the first log one of two writes to a file is out of
sight already, in the second the fifth call may push one out while a dashboard
is at work. Without `OutOfSight` TLC finds the overlooked conflict. `merge` pauses as `escalate` does. *Fairness*: an open
dashboard goes on ticking, weakly. Deadlock is checked: a dashboard can always
tick.

## 11. Stored data

`Store` puts five modules beside each other in one database: `SchemaMigration`
(which it extends), and `ContextMemory`, `MetricsImport`, `SessionBoard` and
`MemoryConnector` (instances, with variables of their own). No statement of one
reads what another writes, so a step of `Store` is a step of one of them. Its
properties are those of the five, under the names `StoreTypes`, `MemoryIsCompact`,
`MemoryStays`, `ImportsAreExact` and `CheckpointMeansImported`; `StoreProofs` proves
them of `StoreSpec`.

### 11.1 Database schema: state and code

`tables`, `columns`, `rows` and `nulls` are the database: which tables and, of
those that were added over time, which columns there are, whether there are
sessions, and whether one has no heartbeat. `at` and `col` are where a process is
in `StateStore::open`; `cut` is history: whether an opening was broken off, and
whether one between adding the heartbeats and filling them in. The columns are
those of the code, in its order (`SchemaColumns`, 53 of them in six tables).
`CreateTable` and `CreateIndexes` are the batch of `init_schema`, `HasColumn`,
`AddColumn` and `Backfill` the checks of `ensure_session_columns` and
`ensure_session_board_columns`, `ListSessions` what the refresh of the board at the
end depends on. Every statement commits on its own, and an `ALTER TABLE` for a
column that is there is an error.

* `OpenedMeansUsable`: who has got in finds every column and can read every
  session, whoever else migrates at the same time, fails or is killed.
* `HeartbeatsAreFilled`: sessions without a heartbeat are about to get one, unless
  the process that had added the column was killed, or found the database locked,
  before it had filled it in. Then nobody else does, and the database cannot be
  opened any more.
* `SomebodyGetsIn`: processes that migrate at once make each other fail, but not
  all of them, for who fails has found the column that another has added.

The earlier databases (`MCLegacy`) are none, two that the tests of the code
migrate, and one that lacks the heartbeats and a column of the board. A board of
before its coordinates is not among them: the batch makes an index on columns
that are only added afterwards, so that it could never be opened, but nothing
shows that such a board was ever released.

### 11.2 Context memory: state and code

`obs` is the table `context_graph_observations`; type and summary are one text.
`op` is a process in `add_context_observation` (`Add`, where the time is taken,
`Insert`, `Dedupe`, `Overflow`, `ReadBack`) or in a compaction by command
(`Compact`, `Dedupe`, `Overflow`). `Outranks` is the order of the window function
by which repeats are dropped, `Rank` that by which the history is cut. `SetPinned`
is one statement. `torn` and `loose` are history: where a process was killed, or
an observation unpinned, so that a compaction is due.

* `NoRepeats`, `HistoryIsBounded`: with additions and compactions by several
  processes between each other's statements, an entity has no repeats and no more
  than the retention beside what is pinned, unless somebody is at it or was killed.
* `PinnedStays`: what is pinned stays until it is unpinned, by itself or by a pinned
  copy; `LatestStays`: what was learned last about an entity is not compacted away,
  unless nothing is to be kept.

### 11.3 Session metrics: state and code

`costs` and `calls` are the logs `costs.jsonl` and `tool-usage.jsonl`, `rows` what
the sessions table says of tokens and tool calls, `tools` the table `tool_log`,
`seen` the signatures a dashboard remembers (`last_cost_metrics_signature`,
`last_tool_activity_signature`), shortened to the length, for the logs only grow.
`op` holds the locals of the two imports.

| code | actions |
| --- | --- |
| `sync_runtime_metrics`, `sync_runtime_session_metrics` | `LookAtCosts`, `LookAtCalls`: the first is remembered before the log is read |
| `sync_cost_tracker_metrics` | `ReadCosts` (the sums), `WriteTokens` per session, `EndOfCosts` |
| `sync_tool_activity_metrics` | `Insert` or `Refuse` per line, `ListSessions`, `UpdateMetrics` per session, `EndOfCalls` |
| `delete_session` | `DeleteCalls`, `DeleteRow` |
| errors, restarts | `Fail`, `Reopen` |

The cost log is read in one step: a line that is appended while it is read is
read or is not. A line is one token of one session.

* `CountedOnce`: imports over and over, by several at once, with failures on the
  way, count no line twice; `EventsHaveSessions`: an import that runs while its
  session is deleted leaves no event behind.
* `MetricsAreCurrent`, for one dashboard and in the end: every token is counted,
  and every tool call unless a line is about a session that was deleted. The last
  line of each log counts, although the log is only read when it looks different
  and may grow while it is read: the signature is older than the reading.

### 11.4 Session board: state and code

`listing` is the order in which `list_sessions` gives the sessions, `row` the lane
of a session's state and the label of what it works on, `unread` the handoffs not
read, `cards` the table `session_board`. A change is the statement of
`insert_session`, `update_state`, `attach_worktree` and the like, `send_message`,
`mark_messages_read`; each is followed by `refresh_session_board_meta`, which
reads the sessions (`ListSessions`), derives all cards (`RowIndex`, `StackIndex`,
`Card`: `derive_board_meta_map`, with `Place` the index of an entry among those of
its sort) and writes them one by one (`WriteCard`); a session deleted meanwhile
ends it (`RefuseCard`, the foreign key). A writer may be killed, or locked out,
anywhere after its change (`BreakOff`).

* `BoardMirrors`: the board comes to show lane, label and backlog of each session,
  whichever refresh broke off or wrote over a newer one, and no two cards lie in
  one place. It holds because an open dashboard refreshes the board with every
  tick; without one a refresh that broke off stays as it is until the next change.

### 11.5 Memory connectors: state and code

`inode`, `lines` and `time` are the files: what each path names, what is in it,
and its signature, which is new with every change (in the code length and time of
change). `imported` are the records that came in, `check` the table of
checkpoints. A sync takes the files in order with one limit for all; per file it
takes the signature (`Sign`), passes over what is unchanged (`Compare`), opens or
reads the file (`Open`), imports its records (`ImportRecord`) and remembers the
signature if it stopped short of the limit (`Checkpoint`). `jsonl_file` and
`dotenv_file` open the file first (`OpensFirst`); JSONL is read line by line from
the open file, the others as a whole (`Streams`).

* `CheckpointMeansImported`: what the next sync would pass over has come in as it
  is now. For directories and Markdown, where the signature is older than the
  text, this holds under every change, failure and second sync; for a JSONL or
  dotenv file that is replaced between its opening and its signature it does not.
* `EveryFileIsIn`, in the end: repeated syncs get to every file, if each is shorter
  than the limit. A file with as many records is never remembered, and keeps those
  after it from being read, as long as it is there.

A reader that holds lines in a buffer sees an older file than the model's, never
one older than its signature.

### 11.6 Run

| run | bounds | shows |
| --- | --- | --- |
| `store` | 2 processes and a user, and per part as below; fair | the types, usable databases and heartbeats, `SomebodyGetsIn`, `MemoryIsCompact`, `MemoryStays`, `ImportsAreExact`, `CheckpointMeansImported`, `CopiesCatchUp` (about 820 000 states) |

A behaviour of `MCStore` runs one part, which its variable `part` names, and the
others stay as they began: they share nothing, so interleaving them would
multiply states and show no more. The theorems are about all of them at once.

| part | bounds |
| --- | --- |
| `schema` | 2 processes that may fail, 4 earlier databases |
| `memory` | 1 entity, 2 texts, 2 processes, 3 additions, retention 1, commands that keep 0 or 2 |
| `import` | a dashboard and a command that may fail, a user; 2 sessions, 1 event each, 1 line of costs, 1 of activity |
| `alone` | the dashboard and the user, no failures, 2 lines of each log |
| `board` | 2 sessions, 3 lanes, 2 labels, 1 dashboard, 1 writer, 3 changes |
| `sync` | 2 files of up to 2 records, limit 3, 1 change, 1 process |
| `syncs` | 1 file of up to 1 record, 1 change, 2 processes that may fail |

Two processes are the smallest number that migrates, compacts, imports or syncs
at once. Compaction treats each entity for itself, which is why one is enough;
three additions of two texts have a repeat and overflow a retention of one.
Retention is 12 in the code, and only its comparison with a count matters. Two
lines of a log have one appended after a reading, or one about a deleted session.
Two sessions can share a cell, in either order, and three changes start both and
move one. Two files of two records exceed a limit of three, so that the second is
cut short and comes in with a later sync.

`CopiesCatchUp` says of `alone`, `board` and `sync` that `MetricsAreCurrent`,
`BoardMirrors` and `EveryFileIsIn` hold from some time on. *Fairness*, all of it
weak: an opening that has begun goes on (nobody has to begin one); an open
dashboard goes on ticking, importing and refreshing the board (`Dashboard::tick`),
and a writer finishes its refresh or breaks off; somebody syncs again and again.
Deadlock is checked.

## 12. What is proved

All theorems hold for any number of sessions, runners, callers, daemons, runs,
engines, projects, files, requests and dashboards and any finite set of findings
(the handoff: any set), for every limit, and without the bounds of the runs,
under the assumptions named in the modules (`ConstantsAssumption`,
`BridgeAssumption`, `HandoffAssumption`, `RoutingAssumption`, `CycleAssumption`,
`EnforcementAssumption`, `SchemaAssumption`, `StoreAssumption`, and the
`QueueAssumption` of `WorktreeQueue` and of `MergeQueue`: limits are numbers, the
sets are disjoint where they are mixed, options are Booleans, faults are known
ones, a finding is in a file, the sessions that share a slot or a board
and the files of a sync are finitely many). Every safety property that a
passing run checks is stated by a theorem, and so is the type of every module
that has theorems.

**`SessionLifecycleProofs`**

* `TypeCorrect`: `Spec => []TypeOK`.
* `RunningSupervised`: `Spec => []RunningIsSupervised`. A runner that writes
  "running" is in `Settling` until it has written a final state or crashed;
  that no path returns early needs the error path to test an edge from every
  state it can find, which is why the transition table appears in the proof.
* `PidBelongs`: `Spec => []PidBelongsToItsRunner`. Strengthened by what a runner
  in each place knows about its session.
* `CompletedEarned`: `Spec => []CompletedIsEarned`.
* `OneAgent`: `Spec => []OneAgentPerSession`. For a careful operator; the
  strengthening (`ClaimInv`) counts those who may still start an agent: a runner
  before its spawn, a caller before its spawn, a live agent; at most one of them
  exists.
* `StoppedDead`: `Spec => []StoppedMeansDead`, for a careful operator and without
  pause, cleanup and prune, which stop a session on a row they read earlier.
  `StopInv` on top of `ClaimInv`: a pid in the row is that of the only claim
  (`PidIsTheClaim`), so a stop that has read it kills all there is; whoever is
  about to spawn has cleared the row first (`SpawnsAfresh`); and between the kill
  and the write of "stopped" nobody begins a launch (`StopsClear`).
* `AgentsAttended`: `Spec => []AgentsAreAttended`, while only the daemon's
  operations and launches touch sessions. `DaemonInv`: a session has one runner in
  its life, whose row stays pending until it has written "running", and the
  daemon works only on sessions that are past that. A resume breaks this, which is
  why the hypothesis leaves it out.
* `TreesKeptUnderAgents`: `Spec => NoTreeRemovedUnderAgent`, an action property,
  for the same operations with automatic termination. `TreeInv`: no row is stale;
  a row in a terminal state has no agent; the pid in the row leads to the agent
  unless its runner has yet to record it, or died before (`PidKnown`); an
  operation past its kill is on a session without an agent (`NothingLeft`).
  Without automatic termination a stale session, with its agent alive, is pruned.

**`EngineBridgeProofs`**: one inductive invariant, `IndInv`, has four parts: the
type; `Owned` (a run that exists belongs to a project); `Talk` (what a request
or an answer in flight says matches where its engine is in `handle_run`);
`BridgeInv` (the right to settle a run: created by the grant of its claim, held
by one engine or by one outcome in flight, and lost with a late push; and what
its holder knows about the findings stored so far). From it:

* `BridgeTypeCorrect`, `ClaimsAreExclusive`, `OutcomesTrue`;
* `ScheduledOnce`: `Spec => []OneScheduledRun`. The daily job looks at all runs
  of a project and queues one in the same mutation, so the strengthening only
  says which runs are its own; every other step leaves the set of active runs as
  it is or smaller;
* `RunsImplementLifecycle`: `Spec => RunsFollowTheirLifecycle`, the refinement:
  Init maps to `LInit`, and each step to a queueing, a claim, a settlement or a
  stutter.

Why `OutcomesAreTrue` needs all of it: a completed run's count is right only
because an engine that lost an acknowledgement never posts an outcome, and
because no push of a run is in `late` while its engine is still counting.

**`DeveloperHandoffProofs`**: what each operation makes of its job is a lemma
per action; the theorems rest on four invariants built from them.

* `HandoffTypeCorrect`: `Spec => []TypeOK`, with the place of a request telling
  which file and item it works on.
* `VerifiedTested`: `Spec => []VerifiedWasTested`. Strengthened to `Believed`:
  the handoff file, any request's copy of it, or a test passed and not yet
  recorded. Only a scan begins a belief, every other step passes one on, and
  that is why lost updates of the file can bring back an old verdict but never
  invent one.
* `ChangesApproved`: `Spec => []ChangesAreApproved`. Strengthened by: what a
  request has still to patch was approved with it. That a patch stays among the
  twins of approved findings is a lemma on `Patched`: where it rewrites an
  occurrence, the batch holds a twin of it, by counting.
* `NothingLost`: `Spec => []NothingIsLost`. Needs `Alone` (the files of two
  requests meet only in disturbed ones, for requests give files up and take
  none after their beginning), from which `FileStep` follows: a file that stays
  undisturbed is touched by one request only, in the order backup, copy, open,
  write.
* `VerifiedFixed`: `Spec => []VerifiedIsFixed`. From `Alone` and `Believed`: a
  scan that finds the rule gone meets no request that is writing one of its
  files, and every text read afterwards keeps the fix.

**`WorktreeQueueProofs`**

* `LimitKept`: `Spec => []WithinLimit`. The invariant is `LimitInv`: the shapes
  it needs of the state; `SlotInHand` (a pass under way has a slot to give, an
  idle client no worktree in hand); and, unless somebody raced, `Exclusive` (at
  most one allocator is at work) and `Counted` (a launch that has counted still
  finds a slot; for a pass, the worktrees attached and the slots it still gives
  away are within the limit). Stops, cleanups and deletes only lower the count,
  and a resume takes no worktree, so clients may do what they like.

What the queue and the lists of the passes hold is
reduced to membership by four lemmas on sequences (an entry leaves the queue
alone, an append adds one, a pass reads a prefix and goes on with the tail);
all actions are then told in terms of who has a session in hand.

* `QueueTypesKept`: `Spec => []TypeOK`. Needs `SlotInHand`, for the count of free
  slots goes down by one per start, and `Placed` (where a pass has a current
  entry and a client or a runner a session).
* `OneAgentEach`: `Spec => []StartedOnce`. Strengthened, for a session nobody
  interferes with, to `InOne`: while its launch is under way nobody else has seen
  it; a daemon that has made its worktree is the only one, and it has no agent
  yet; an agent's worktree exists in git. That `git worktree add -b` refuses a
  worktree that exists is what closes the argument when two daemons have both
  found the session waiting.
* `NobodyIsForgotten`: `Spec => []NoneStranded`, also for sessions that clients
  stop and resume. Strengthened to `Fine`: a pending session that has a worktree
  or a pid, or that a pass is going to dequeue, is served (in the hands of a
  daemon, of a client about to start its runner, or of a runner that has not yet
  written its state). This is what makes it safe that a pass dequeues an entry on
  a row it read earlier.

* `NoTreeIsLost`: `Spec => []TreesAreAccounted`. Strengthened to `AccInv`, which
  rests on `OnceInv` and `StrandInv`: an entry is in the queue, and in the list of a
  pass, at most once; a session is enqueued before it has a worktree
  (`EnqueuedFirst`); the worktree of a session without row is in the hands of who
  is going to insert it (`NewTreeIsInserted`); a session with a worktree is in no
  list but that of the pass that has just started it (`InHandOnly`), so that nobody
  makes it a second one while a client removes the first; and when a client clears
  the columns of a row, what it removed is gone (`RemovedIsGone`).

**`RoutingProofs`**, about `TaskRouting`. `TypeInv` is the type with `Shapes`:
which local variables of a pass have a meaning where, that what it has in hand is
in the mailbox, and that messages are to sessions that have, or had, a row.

* `RoutingTypeCorrect`: `Spec => []TypeOK`.
* `NoTaskIsLost`: `Spec => []NoTaskLost`. `KeepInv` has one line, that the tasks
  are contained in the union of five sets: in work, waiting in an inbox where no
  pass is about to mark them read, on record where no pass is about to settle
  them, in the hands of `ecc assign`, or excused by name (viewed, erased with a
  session, refused, mislaid). Each action moves a task
  from one set to another, and the proof says where. A pass marks read on what it
  decided before; that this is not too early needs `RoomInv`, that a rebalance
  which found room in the team still has it unless somebody came in between.
* `RoutedOnlyOnce`: `Spec => []RoutedOnce`. `AloneInv`: two passes at work have set
  `raced`. `MailInv`: unless raced, what is unread has not been passed on, or its
  pass is about to mark it, or the routing was cut off. `ListInv` says the same of
  requests and occurrences, for which `OriginInv` keeps what a pass has in its
  list of the sort it was.
* `ReportsAreTrue`: `Spec => []ReportedTruly`, from `ListInv` for "failed" and from
  `DoneInv` (what is to be settled was passed on) for "dispatched".

About `BacklogCycle`, of which the module makes an instance, `Cycle`; so its
assumption is a hypothesis of the two theorems:

* `BacklogTypeCorrect`: `Cycle!Spec => []Cycle!TypeOK`.
* `StreaksMeanStuck`: `Cycle!Spec => []StreakMeansStuck`. Strengthened (`StreakInv`)
  by what the order of the cycle makes of the record: a cycle that begins with a
  rebalance found something deferred, a first dispatch ends a streak or begins
  one, and a recovery gave something out. Without them a pass that gave something
  out in the middle of a streak could not be excluded.

**`MergeQueueProofs`**

* `MergingLosesNothing`: `Spec => []MergeLosesNothing`. Strengthened by: a
  process about to remove a merged worktree finds nothing ahead and nothing
  uncommitted in it, unless it was written to while the process had it in hand.
  Two processes that merge one session therefore do not harm each other.
* `QueueTypeCorrect`: `Spec => []TypeOK`.
* `ReadyOnesMerge`: `Spec => []ReadyEntriesMerge`. `ReadyInv`: as long as nobody else
  changes the repository, every entry of a round that is ready and not yet merged
  can merge, and no two of them have changed the same line. Merging one moves the
  base by what it was ahead, which by this meets none of the others.

**`EnforcementProofs`**

* `EnforcementTypeCorrect`: `Spec => []TypeOK`.
* `ConflictsAreEnforced`: `Spec => []IncidentsAreEnforced`. Strengthened by
  `StoppedOnce` (whom a pass has stopped stays out of work or was resumed) and
  `PausedNext` (the dashboard that is about to stop somebody for an incident
  means the session that the incident names, and not the other of the two).

**`StoreProofs`**: first of `SchemaMigration` by itself,

* `SchemaTypesKept`: `Spec => []TypeOK`.
* `OpenedIsUsable`: `Spec => []OpenedMeansUsable`, for any columns in any order and
  any earlier databases, with failures. Strengthened (`UsableInv`) by: the columns a
  process has gone past are there (no column is ever dropped), and nobody has the
  database open while a heartbeat is missing. The latter needs that the column of
  the heartbeats is not added while somebody is past it.
* `HeartbeatsFilled`: `Spec => []HeartbeatsAreFilled`, from the same invariant: only
  one process adds the column, and it goes on to fill it in or is broken off.

then of the five together. `StoreParts` reduces a step of `Store` to a step of one
part, and each part has an invariant of its own.

* `StoreTypesKept`: `StoreSpec => []StoreTypes`. The parts' types need more than
  themselves: on the board that a refresh writes what it has read and that a
  place in a lane is no further than there are sessions (`BoardInv`), of a sync
  that paths name different files and that what is read of a file is within what
  the limit has left (`SyncTypes`), in the memory that there is an addition for
  every observation (`InsertsAreCounted`).
* `MemoryKeptCompact`: `StoreSpec => []MemoryIsCompact`. `MemoryInv`: ids tell
  observations apart; what a process is about to insert it compacts for its own
  entity; an entity with more than the retention is about to be cut to it
  (`LongIsCut`), a fact about cardinalities: the cut leaves those of rank below the
  retention, and there are no more of them than that.
* `MemoryKeptStays`: `StoreSpec => MemoryStays`, an action property: a repeat is
  dropped only where one that outranks it stays, and the latest has rank 0.
* `ImportsKeptExact`: `StoreSpec => []ImportsAreExact`. `ImportInv`: what an import has
  in hand was in the logs, which only grow, so whatever it writes later is no more
  than the logs have by then; and no event is in the table whose session is gone,
  since the foreign key refuses it and a deletion takes the events first.
* `CheckpointsAreTrue`: `StoreSpec => []CheckpointMeansImported`, for the kinds of
  connector that take the signature before they open the file. `SyncInv`: the
  signature that a sync holds is no newer than the file's; as long as it is equal,
  the text in hand is the file's and what was read of it is in. The other kinds
  break this, see section 14.

**Only model-checked**: the liveness properties `EveryRunEnds`, `QueuedRunsEnd`,
`RoomIsUsed`, `BrokenRowsAreCleared`, `NothingIsOverlooked`, `SomebodyGetsIn` and
`CopiesCatchUp`, since the prover does not handle fairness.

## 13. What is left out of the ecc2 and bridge models

* SQL statements that fail on a live database (`SQLITE_BUSY` after five
  seconds), in the six modules about control, except for the foreign key of
  `delete_session`. The five modules about stored data have them as steps of their
  own; what a refresh of the board that fails does to the board is in `SessionBoard`.
* In `SessionLifecycle` a launch gets its worktree at once or uses the checkout;
  what it does when no slot is free is in `WorktreeQueue`.
* Signals that fail for another reason than a missing process.
* Profiles, grouping, output lines, decisions: columns no transition reads.
* In `MetricsImport` durations, which are derived from clocks, and files changed,
  which are counted as calls are.
* In `SessionBoard` notes and signals, which describe the last change in words.
* Idle: nothing in production sets it, so the model reaches it from no action;
  it is in the transition table.

## 14. What disagrees with its documentation

Shown by a run: the log says that the daemon is "skipping immediate dispatch retry" while its
cooloff is active (`daemon.rs:202-206`); the retry may be skipped for ever,
with handoffs waiting and room in the team (`finding_cooloff`).

Found while modelling, and the reason for a condition in a property:

* A test has it that a database of before `last_heartbeat_at` opens
  (`store.rs:5164`); when the first opening is cut off between adding the column
  (`store.rs:559`) and filling it in, none ever does (`cut` in
  `HeartbeatsAreFilled`).
* "Pin an existing observation so compaction preserves it" (`main.rs:840`): the
  compaction that follows a pinned repeat deletes it, with its details, priority
  and time; what stays is the copy (`PinnedStays`).
* `tool-usage.jsonl` has "events that ECC2 can sync"
  (`ecc/docs/architecture/observability-readiness.md:31`): not after a line about
  a session that was deleted before the line was imported, where the foreign key
  ends every import (the condition in `MetricsAreCurrent`). The commands that
  import first (`main.rs:2781`) then fail as well.
* Sources are skipped because they are unchanged (`main.rs:11881`): a JSONL or
  dotenv file that is replaced while a sync begins is skipped without ever having been
  read (the hypothesis of `CheckpointsAreTrue`).
* Two dashboards or commands that import activity and costs at once set back the
  tokens of a session, until the cost log grows again: each import of activity
  writes them back as it has read them (`MetricsAreCurrent` is about one importer).
* `update_state` checks and writes in two statements (`store.rs:1106-1134`), so a
  completed session can go back to running.
* Pruning is documented for inactive sessions and takes stale ones, whose agent
  may be working (`manager.rs:2050`).
* "One bad finding must not kill the run" (`orchestrator.py:232`), but one timeout
  ends the pass.
* "Never regress a verified item back to awaiting_approval"
  (`developer_handoff.py:120`), but a handover that loaded the file before the
  verdict was saved does.
* `ecc assign` prints of a deferred task that it stayed in the inbox, where
  nothing was put (`main.rs:1525-1531`).
* Two conflicts of one session with two others may pause both sides
  (`manager.rs:1441`); incidents are never resolved, since
  `resolve_conflict_incidents_not_in` has no caller, so a session that was
  resumed is not paused again.
* The call for an operator at a streak of 5 (`manager.rs:4127`) comes from a
  streak that the cooloff at 3 keeps from growing when rebalancing moves nothing.
* A cleanup at a stop points the row at the removed worktree's path, so a later
  resume cannot start its agent and leaves the row pending.
* A daemon whose `git worktree add` is refused, because a second daemon was
  faster, marks the session failed that the other has just started.
* A handoff that arrives at a lead while it is deleted ends every dispatch pass
  that comes to it, and a row without its worktree every run of the merge queue.
* Deleting a session deletes the handoffs it has sent, too (`store.rs:2354`): a
  task that is unread at a delegate is gone with its lead.
* "Approval is a real gate" (`developer_handoff.py:15`), but the change may be made
  at another line than the one approved, where the code reads the same
  (`patcher.py:48`; `Covered` in `ChangesAreApproved`).
* Of two sessions that write to one file nobody is told when the older write has
  dropped off the last 64 events of its session (`manager.rs:1294`; `OutOfSight` in
  `NothingIsOverlooked`).

Others: the comment of `claimForEngine` says that a claim
moves a run to "claimed" while the code stores "running"; startup recovery can
fail a session that has just succeeded, between the clearing of its pid and its
verdict (`runtime.rs:215-216`, `daemon.rs:79-89`); a pause that read the row
before the pid was recorded stops the session and leaves its agent running
(`manager.rs:3583`), which is why a careful operator waits for the pid;
`ecc resume` is documented for failed and stopped sessions (`main.rs:415`) and
accepts stale, idle and pending ones (`manager.rs:1523`); the engine id that a
claim stamped on a run for traceability (`ENGINE_API.md:395`) is erased by the
outcome, which carries none (`workflow.ts:152`); rollback says that the original
source is restored (`workflow.py:201-204`), which after a second application is
the source with the first one in it, since the backup is overwritten; approving
a verified item again finds nothing to patch and calls it
remediation_unavailable (`developer_handoff.py:267`).

## 15. Plan

What is left, the most important first:

1. `VerdictWriteback`: approvals, revalidations, ingest and upload on one
   findings table. Theorem: an outcome is applied at most once.
2. `HuntVerdict`: the stages of the hacker orchestrator behind `/secure`, and its
   verdict against a reference definition; composed with the files and backups of
   `DeveloperHandoff`.
3. Smaller ones: `ScopeFilter`, `OauthStates`, `TaskWorker`.
4. Proofs: an abstract specification of the life of a session for
   `SessionLifecycle` and of a queue for `WorktreeQueue` to refine, as
   `EngineBridge` refines `RunLifecycle`; that `BacklogCycle` counts what
   `TaskRouting` does; the theorems of the modules above.
