----------------------------- MODULE MergeQueue -----------------------------
(***************************************************************************)
(* The merge queue of ecc2: the branches of ended sessions are merged into *)
(* the base branch, rebased when they conflict with it, and their          *)
(* worktrees removed.  The daemon does this in every loop and prunes what  *)
(* is left; the command line and the dashboard do the same beside it.      *)
(* Nothing but the rows of the sessions and the git repository is shared,  *)
(* and each git command is a step of its own.                              *)
(*                                                                         *)
(* A commit is the set of lines it changes: two branches conflict if both  *)
(* have changed a line since their common ancestor.  Sessions with one     *)
(* base branch are modelled, a worktree and its branch are removed as one, *)
(* worktree_retention_secs is 0, its default, and                          *)
(* auto_merge_ready_worktrees is on (without it the daemon only prunes).   *)
(***************************************************************************)
EXTENDS Naturals, Sequences, FiniteSets

CONSTANTS
  Sessions,   \* session ids
  Daemon,     \* the process that loops over merging and pruning
  Clients,    \* commands and dashboards
  Lines,      \* what edits can touch
  None,       \* no session
  Written,    \* what the branches have changed at the start
  MaxChanges, \* bound: changes by agents, users and crashes
  MaxRuns     \* bound: runs of the clients

Processes == {Daemon} \cup Clients

ASSUME QueueAssumption ==
  /\ MaxChanges \in Nat /\ MaxRuns \in Nat
  /\ None \notin Sessions \cup Processes /\ Daemon \notin Clients
  /\ Written \subseteq [Sessions -> SUBSET Lines]

VARIABLES
  state,    \* a session's row: "active", "stale", "ended" or "deleted"
  tree,     \* whether the row names a worktree
  disk,     \* whether the worktree and its branch exist
  ahead,    \* lines changed by the branch and not yet merged
  dirty,    \* whether the worktree has uncommitted changes
  fork,     \* how much of the base the branch contains
  base,     \* the commits on the base branch, with whose they are
  proc,     \* what each process is doing
  changes,  \* history: changes so far
  runs,     \* history: runs begun by clients
  late,     \* history: sessions worked on while a merge of them was under way
  lost      \* history: sessions whose work went with their merged worktree

rows == <<state, tree>>
repo == <<disk, ahead, dirty, fork, base>>
history == <<changes, runs, late, lost>>
vars == <<rows, repo, proc, history>>

Least(a, b) == IF a < b THEN a ELSE b

Idle ==
  [job |-> "none",    \* "daemon", "merge", "keep" or "prune"
   at |-> "idle",
   todo |-> {},       \* rows listed and not yet looked at
   busy |-> {},       \* those of them that were active when listed
   ready |-> {},      \* entries to be merged
   stuck |-> {},      \* entries to be rebased
   tried |-> {},      \* sessions a rebase was attempted for, at which base
   merged |-> FALSE,  \* whether this round merged anything
   cur |-> None,      \* the session at work
   calm |-> FALSE]    \* history: nobody else changed the repository this round

Init ==
  /\ state = [s \in Sessions |-> "ended"]
  /\ tree = [s \in Sessions |-> TRUE]
  /\ disk = [s \in Sessions |-> TRUE]
  /\ ahead \in Written
  /\ dirty = [s \in Sessions |-> FALSE]
  /\ fork = [s \in Sessions |-> 0]
  /\ base = <<>>
  /\ proc = [k \in Processes |-> Idle]
  /\ changes = 0 /\ runs = 0 /\ late = {} /\ lost = {}

Present(s) == state[s] # "deleted"
Busy(s) == state[s] \in {"active", "stale"}

\* What the base has and the branch does not.
Theirs(s) ==
  UNION {base[i].edits :
           i \in {j \in (fork[s] + 1)..Len(base) : base[j].by # s}}
Conflicted(s) == ahead[s] \cap Theirs(s) # {}

\* merge_readiness_for_branches of two branches: what each has changed since
\* the older of the two points at which they left the base.
Since(s, n) == ahead[s] \cup UNION {base[i].edits : i \in (n + 1)..fork[s]}
Clash(s, r) ==
  LET n == Least(fork[s], fork[r]) IN Since(s, n) \cap Since(r, n) # {}

At(k, l) == proc[k].at = l
Go(k, p) == proc' = [proc EXCEPT ![k] = p]
\* The same for a step that changes the repository.
GoAndChange(k, p) ==
  proc' = [j \in Processes |->
             IF j = k THEN p ELSE [proc[j] EXCEPT !.calm = FALSE]]

(***************************************************************************)
(* Agents, users and crashes.                                              *)
(***************************************************************************)
Change == changes < MaxChanges /\ changes' = changes + 1

\* Somebody edits, commits, or merges the base into the branch.
Work(s) ==
  /\ disk[s] /\ Change
  /\ \E E \in SUBSET Lines, d \in BOOLEAN, n \in {fork[s], Len(base)} :
       /\ ahead' = [ahead EXCEPT ![s] = @ \cup E]
       /\ dirty' = [dirty EXCEPT ![s] = d]
       /\ fork' = [fork EXCEPT ![s] = n]
       /\ <<ahead[s], dirty[s], fork[s]>> # <<ahead'[s], d, n>>
  /\ late' = late \cup {r \in {s} : \E k \in Processes : proc[k].cur = r}
  /\ GoAndChange(None, Idle)
  /\ UNCHANGED <<rows, disk, base, runs, lost>>

CommitToBase ==
  /\ Change
  /\ \E l \in Lines : base' = Append(base, [by |-> None, edits |-> {l}])
  /\ GoAndChange(None, Idle)
  /\ UNCHANGED <<rows, disk, ahead, dirty, fork, runs, late, lost>>

\* A session ends, loses its heartbeat or is resumed.
Turn(s, from, to) ==
  /\ state[s] \in from /\ Change
  /\ state' = [state EXCEPT ![s] = to]
  /\ UNCHANGED <<tree, repo, proc, runs, late, lost>>

delete_session(s) ==
  /\ state[s] \in {"ended", "stale"} /\ Change
  /\ state' = [state EXCEPT ![s] = "deleted"]
  /\ tree' = [tree EXCEPT ![s] = FALSE]
  /\ disk' = [disk EXCEPT ![s] = disk[s] /\ ~tree[s]]
  /\ ahead' = [ahead EXCEPT ![s] = {}]
  /\ dirty' = [dirty EXCEPT ![s] = FALSE]
  /\ GoAndChange(None, Idle)
  /\ UNCHANGED <<fork, base, runs, late, lost>>

Crash(k) ==
  /\ ~At(k, "idle") /\ Change
  /\ Go(k, Idle)
  /\ UNCHANGED <<rows, repo, runs, late, lost>>

(***************************************************************************)
(* process_merge_queue: rounds of building the queue and merging its ready *)
(* entries, or else rebasing one of those in conflict with the base.       *)
(***************************************************************************)
Listed == {s \in Sessions : tree[s]}

\* All rows are looked at: on to the ready entries.
Inspected(p) ==
  IF p.todo = {} /\ p.job # "keep" THEN [p EXCEPT !.at = "merge", !.busy = {}] ELSE p

Round(p) ==
  Inspected([p EXCEPT !.at = "inspect",
                      !.todo = Listed, !.busy = {s \in Listed : Busy(s)},
                      !.ready = {}, !.stuck = {}, !.merged = FALSE,
                      !.cur = None, !.calm = TRUE])

\* prune_inactive_worktrees.
Pruning ==
  [Idle EXCEPT !.job = "prune", !.at = "prune",
               !.todo = {s \in Listed : state[s] # "active"}]

Start(k, p) ==
  /\ At(k, "idle")
  /\ Go(k, p)
  /\ IF k = Daemon THEN runs' = runs ELSE runs < MaxRuns /\ runs' = runs + 1
  /\ UNCHANGED <<rows, repo, changes, late, lost>>

StartQueue(k, j) == Start(k, Round([Idle EXCEPT !.job = j]))

\* Mutant: the error of a merge pass ends the daemon's turn.
LeaveAtOnce(k) == Go(k, Idle)

\* The daemon prunes after merging, whether or not that went well.
Leave(k) == Go(k, IF proc[k].job = "daemon" THEN Pruning ELSE Idle)

\* Mutant: a branch is compared with the base only.
NeverHeldBack(s, R) == FALSE
HeldBack(s, R) == \E r \in R : Clash(s, r)

\* build_merge_queue: one row, the active ones last.  The error of one
\* worktree that is gone ends the whole run.  A row in conflict with the base
\* is one to be rebased, though its session may still be active.
Inspect(k) ==
  LET p == proc[k] IN
  /\ At(k, "inspect") /\ p.job \in {"daemon", "merge"}
  /\ \E s \in p.todo :
       LET q == Inspected([p EXCEPT !.todo = @ \ {s}]) IN
       /\ s \in p.busy => p.todo \subseteq p.busy
       /\ \/ ~disk[s] /\ Leave(k)
          \/ /\ disk[s]
             /\ s \in p.busy \/ Conflicted(s) \/ dirty[s]
             /\ Go(k, IF Conflicted(s) /\ ~dirty[s]
                      THEN [q EXCEPT !.stuck = @ \cup {s}] ELSE q)
          \/ /\ disk[s] /\ s \notin p.busy /\ ~Conflicted(s) /\ ~dirty[s]
             /\ IF \E r \in p.ready : ~disk[r] THEN Leave(k)
                ELSE Go(k, IF HeldBack(s, p.ready) THEN q
                           ELSE [q EXCEPT !.ready = @ \cup {s}])
  /\ UNCHANGED <<rows, repo, history>>

\* merge_ready_worktrees_one_pass, which keeps the worktrees: one row.
InspectKept(k) ==
  LET p == proc[k] IN
  /\ At(k, "inspect") /\ p.job = "keep"
  /\ \E s \in p.todo :
       LET q == [p EXCEPT !.todo = @ \ {s}] IN
       Go(k, IF s \in p.busy \/ ~disk[s] \/ Conflicted(s) \/ dirty[s] THEN q
             ELSE [q EXCEPT !.at = "merge", !.ready = {s}])
  /\ UNCHANGED <<rows, repo, history>>

NextEntry(p) ==
  [p EXCEPT !.at = IF p.job = "keep" THEN "inspect" ELSE "merge", !.cur = None]

\* merge_session_worktree reads the row again.
Resolve(k) ==
  LET p == proc[k] IN
  /\ At(k, "merge")
  /\ \E s \in p.ready :
       LET q == [p EXCEPT !.ready = @ \ {s}] IN
       Go(k, IF Present(s) /\ ~Busy(s) /\ tree[s]
             THEN [q EXCEPT !.at = "git", !.cur = s] ELSE NextEntry(q))
  /\ UNCHANGED <<rows, repo, history>>

CanMerge(s) == disk[s] /\ ~Conflicted(s) /\ ~dirty[s]

\* Mutant: uncommitted changes do not keep a branch from being merged.
GitMergeDirty(k) ==
  LET p == proc[k] s == p.cur IN
  /\ At(k, "git") /\ disk[s] /\ ~Conflicted(s)
  /\ base' = IF ahead[s] = {} THEN base
             ELSE Append(base, [by |-> s, edits |-> ahead[s]])
  /\ ahead' = [ahead EXCEPT ![s] = {}]
  /\ GoAndChange(k, IF p.job = "keep" THEN NextEntry(p) ELSE [p EXCEPT !.at = "remove"])
  /\ UNCHANGED <<rows, disk, dirty, fork, history>>

\* merge_into_base.
GitMerge(k) ==
  LET p == proc[k] s == p.cur IN
  /\ At(k, "git") /\ CanMerge(s)
  /\ base' = IF ahead[s] = {} THEN base
             ELSE Append(base, [by |-> s, edits |-> ahead[s]])
  /\ ahead' = [ahead EXCEPT ![s] = {}]
  /\ GoAndChange(k, IF p.job = "keep" THEN NextEntry(p) ELSE [p EXCEPT !.at = "remove"])
  /\ UNCHANGED <<rows, disk, dirty, fork, history>>

\* merge_into_base refuses, or git does: the base is not checked out or not
\* clean, a lock, a hook.
GitMergeFails(k) ==
  /\ At(k, "git")
  /\ Go(k, NextEntry(proc[k]))
  /\ UNCHANGED <<rows, repo, history>>

\* worktree::remove, by force.
RemoveTree(k) ==
  LET p == proc[k] s == p.cur IN
  /\ At(k, "remove")
  /\ disk' = [disk EXCEPT ![s] = FALSE]
  /\ ahead' = [ahead EXCEPT ![s] = {}]
  /\ dirty' = [dirty EXCEPT ![s] = FALSE]
  /\ lost' = IF p.job # "prune" /\ (ahead[s] # {} \/ dirty[s])
             THEN lost \cup {s} ELSE lost
  /\ GoAndChange(k, [p EXCEPT !.at = "clear"])
  /\ UNCHANGED <<rows, fork, base, changes, runs, late>>

clear_worktree(k) ==
  LET p == proc[k] s == p.cur IN
  /\ At(k, "clear")
  /\ tree' = [tree EXCEPT ![s] = FALSE]
  /\ Go(k, IF p.job = "prune" THEN [p EXCEPT !.at = "prune", !.cur = None]
           ELSE [NextEntry(p) EXCEPT !.merged = p.merged \/ Present(s)])
  /\ UNCHANGED <<state, repo, history>>

\* All ready entries were tried: another round if one was merged, or else a
\* rebase.
Merged(k) ==
  LET p == proc[k] IN
  /\ At(k, "merge") /\ p.ready = {}
  /\ IF p.merged THEN Go(k, Round(p))
     ELSE IF p.stuck = {} THEN Leave(k)
     ELSE Go(k, [p EXCEPT !.at = "rebase", !.calm = FALSE])
  /\ UNCHANGED <<rows, repo, history>>

\* An entry in conflict is rebased once for each head of the base.
PickRebase(k) ==
  LET p == proc[k] IN
  /\ At(k, "rebase")
  /\ \E s \in p.stuck :
       LET q == [p EXCEPT !.stuck = @ \ {s}] IN
       IF ~Present(s) \/ (tree[s] /\ ~disk[s]) THEN Leave(k)
       ELSE Go(k, IF ~tree[s] \/ <<s, Len(base)>> \in p.tried THEN q
                  ELSE [q EXCEPT !.at = "onto", !.cur = s,
                                 !.tried = @ \cup {<<s, Len(base)>>}])
  /\ UNCHANGED <<rows, repo, history>>

\* rebase_onto_base: commit by commit it may succeed where the merge of the
\* whole would not.
Rebase(k) ==
  LET p == proc[k] s == p.cur IN
  /\ At(k, "onto")
  /\ Present(s) /\ ~Busy(s) /\ disk[s] /\ ~dirty[s]
  /\ fork' = [fork EXCEPT ![s] = Len(base)]
  /\ GoAndChange(k, Round(p))
  /\ UNCHANGED <<rows, disk, ahead, dirty, base, history>>

RebaseFails(k) ==
  /\ At(k, "onto")
  /\ Go(k, [proc[k] EXCEPT !.at = "rebase", !.cur = None])
  /\ UNCHANGED <<rows, repo, history>>

Finish(k) ==
  LET p == proc[k] IN
  /\ \/ At(k, "rebase") /\ p.stuck = {}
     \/ At(k, "inspect") /\ p.job = "keep" /\ p.todo = {}
  /\ Leave(k)
  /\ UNCHANGED <<rows, repo, history>>

\* cleanup_session_worktree stops a session that runs again by now; one that
\* was deleted ends the pass.
Prune(k) ==
  LET p == proc[k] IN
  /\ At(k, "prune")
  /\ \E s \in p.todo :
       LET q == [p EXCEPT !.todo = @ \ {s}] IN
       /\ Go(k, IF ~Present(s) THEN Idle
                ELSE IF tree[s] THEN [q EXCEPT !.at = "remove", !.cur = s] ELSE q)
       /\ state' = IF state[s] = "active" THEN [state EXCEPT ![s] = "ended"] ELSE state
  /\ UNCHANGED <<tree, repo, history>>

Pruned(k) ==
  /\ At(k, "prune") /\ proc[k].todo = {}
  /\ Go(k, Idle)
  /\ UNCHANGED <<rows, repo, history>>

StartPrune(k) == Start(k, Pruning)

Step(k) ==
  \/ Inspect(k) \/ InspectKept(k) \/ Resolve(k)
  \/ GitMerge(k) \/ GitMergeFails(k) \/ RemoveTree(k) \/ clear_worktree(k)
  \/ Merged(k) \/ PickRebase(k) \/ Rebase(k) \/ RebaseFails(k) \/ Finish(k)
  \/ Prune(k) \/ Pruned(k)

Loop == StartQueue(Daemon, "daemon")

Environment ==
  \/ \E s \in Sessions :
       \/ Work(s) \/ delete_session(s)
       \/ Turn(s, {"active", "stale"}, "ended") \/ Turn(s, {"active"}, "stale")
       \/ Turn(s, {"ended", "stale"}, "active")
  \/ CommitToBase
  \/ \E k \in Processes : Crash(k)

Next ==
  \/ Environment \/ Loop
  \/ \E k \in Processes : Step(k)
  \/ \E k \in Clients : StartPrune(k) \/ \E j \in {"merge", "keep"} : StartQueue(k, j)

Spec == Init /\ [][Next]_vars

\* Processes go on, and the daemon comes round again.
Fairness == WF_vars(Loop) /\ \A k \in Processes : WF_vars(Step(k))

FairSpec == Spec /\ Fairness

(***************************************************************************)
(* Properties.                                                             *)
(***************************************************************************)
TypeOK ==
  /\ state \in [Sessions -> {"active", "stale", "ended", "deleted"}]
  /\ tree \in [Sessions -> BOOLEAN] /\ disk \in [Sessions -> BOOLEAN]
  /\ ahead \in [Sessions -> SUBSET Lines] /\ dirty \in [Sessions -> BOOLEAN]
  /\ base \in Seq([by : Sessions \cup {None}, edits : SUBSET Lines])
  /\ fork \in [Sessions -> 0..Len(base)]
  /\ \A k \in Processes :
       /\ proc[k].todo \cup proc[k].ready \cup proc[k].stuck \subseteq Sessions
       /\ proc[k].cur \in IF proc[k].at \in {"git", "remove", "clear", "onto"}
                          THEN Sessions ELSE {None}
  /\ changes \in 0..MaxChanges /\ runs \in 0..MaxRuns
  /\ late \cup lost \subseteq Sessions

\* Merging removes worktrees by force, with whatever is in them, and two
\* processes may merge one session at a time: still nothing is lost that was
\* not written while the merge was under way.
MergeLosesNothing == lost \subseteq late

\* The queue compares a branch with the base and with the branches ahead of
\* it: merged one after the other the ready ones do not conflict, unless
\* somebody else has changed the repository since.
ReadyEntriesMerge ==
  \A k \in Processes :
    At(k, "git") /\ proc[k].calm => CanMerge(proc[k].cur)

\* The row of an ended session whose worktree is gone, after a crash or a
\* launch that failed, ends every run of the queue with an error: the daemon's
\* pruning gets rid of it.
BrokenRowsAreCleared ==
  \A s \in Sessions :
    state[s] = "ended" /\ tree[s] /\ ~disk[s] ~> ~tree[s] \/ state[s] # "ended"
=============================================================================
