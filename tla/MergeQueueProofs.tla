-------------------------- MODULE MergeQueueProofs --------------------------
(***************************************************************************)
(* The types of the merge queue, that merging loses no work, and that what *)
(* the queue reports ready can be merged, proved for any number of         *)
(* sessions, processes, lines and commits.                                 *)
(***************************************************************************)
EXTENDS MergeQueue, TLAPS

Fields == {"job", "at", "todo", "busy", "ready", "stuck", "tried", "merged", "cur",
           "calm"}

\* What holds of a process by itself.
WellFormed(p) ==
  /\ DOMAIN p = Fields
  /\ p.todo \cup p.ready \cup p.stuck \subseteq Sessions
  /\ p.cur \in IF p.at \in {"git", "remove", "clear", "onto"} THEN Sessions ELSE {None}
  /\ p.at = "prune" => p.job = "prune"
  /\ p.job = "prune" => p.at \in {"prune", "remove", "clear"}

Clean(s) == ahead[s] = {} /\ ~dirty[s]

\* A process that is about to remove a worktree it has merged removes nothing,
\* unless somebody has worked there since it chose the session.
RemovesNothing(p) ==
  p.at = "remove" /\ p.job # "prune" => Clean(p.cur) \/ p.cur \in late

NothingLostInv ==
  /\ DOMAIN ahead = Sessions /\ DOMAIN dirty = Sessions /\ DOMAIN proc = Processes
  /\ \A k \in Processes : WellFormed(proc[k]) /\ RemovesNothing(proc[k])
  /\ MergeLosesNothing

LEMMA IdleForm == WellFormed(Idle) /\ Idle.at = "idle"
BY DEF Idle, WellFormed, Fields

LEMMA PruningForm == WellFormed(Pruning) /\ Pruning.at = "prune" /\ Pruning.job = "prune"
BY IdleForm DEF Pruning, WellFormed, Fields, Listed

LEMMA RoundForm ==
  ASSUME NEW p, WellFormed(p), p.job # "prune"
  PROVE  WellFormed(Round(p)) /\ Round(p).at \in {"inspect", "merge"}
BY DEF WellFormed, Fields, Inspected, Listed, Round

LEMMA NextEntryForm ==
  ASSUME NEW p, WellFormed(p), p.job # "prune"
  PROVE  WellFormed(NextEntry(p)) /\ NextEntry(p).at \in {"inspect", "merge"}
BY DEF WellFormed, Fields, NextEntry

LEMMA InspectedForm ==
  ASSUME NEW p, WellFormed(p), p.at = "inspect"
  PROVE  WellFormed(Inspected(p)) /\ Inspected(p).at \in {"inspect", "merge"}
BY DEF WellFormed, Fields, Inspected

(***************************************************************************)
(* A process goes on to q, and the repository stays as it is.              *)
(***************************************************************************)
LEMMA OwnStep ==
  ASSUME NothingLostInv, NEW k \in Processes, NEW q, WellFormed(q),
         q.at # "remove" \/ q.job = "prune",
         proc' = [proc EXCEPT ![k] = q],
         UNCHANGED <<ahead, dirty, late, lost>>
  PROVE  NothingLostInv'
<1>1. ASSUME NEW j \in Processes PROVE WellFormed(proc'[j]) /\ RemovesNothing(proc[j])'
  <2>1. CASE j = k
    <3>1. proc'[j] = q
      BY <2>1 DEF NothingLostInv
    <3>2. QED
      BY <3>1 DEF RemovesNothing
  <2>2. CASE j # k
    <3>1. proc'[j] = proc[j]
      BY <2>2 DEF NothingLostInv
    <3>2. QED
      BY <3>1 DEF NothingLostInv, RemovesNothing, Clean
  <2>3. QED
    BY <2>1, <2>2
<1>2. QED
  BY <1>1 DEF NothingLostInv, MergeLosesNothing, WellFormed

(***************************************************************************)
(* The repository changes under the processes J: a session one of them has *)
(* at hand stays clean, or is noted as late.                               *)
(***************************************************************************)
LEMMA SharedStep ==
  ASSUME NothingLostInv, NEW J \in SUBSET Processes,
         DOMAIN ahead' = Sessions, DOMAIN dirty' = Sessions, DOMAIN proc' = Processes,
         late \subseteq late', lost' \subseteq late',
         \A j \in J : /\ proc'[j] = [proc[j] EXCEPT !.calm = FALSE]
                      /\ \A s \in Sessions :
                           proc[j].cur = s /\ Clean(s) => Clean(s)' \/ s \in late',
         \A j \in Processes \ J : WellFormed(proc'[j]) /\ RemovesNothing(proc[j])'
  PROVE  NothingLostInv'
<1>1. ASSUME NEW j \in J PROVE WellFormed(proc'[j]) /\ RemovesNothing(proc[j])'
  <2> DEFINE p == proc[j] q == [p EXCEPT !.calm = FALSE]
  <2>1. WellFormed(p) /\ RemovesNothing(p) /\ proc'[j] = q
    BY DEF NothingLostInv
  <2>2. \A s \in Sessions : p.cur = s /\ Clean(s) => Clean(s)' \/ s \in late'
    OBVIOUS
  <2> HIDE DEF p
  <2>3. /\ DOMAIN q = Fields /\ q.at = p.at /\ q.job = p.job /\ q.cur = p.cur
        /\ q.todo = p.todo /\ q.ready = p.ready /\ q.stuck = p.stuck
    BY <2>1 DEF WellFormed, Fields
  <2> HIDE DEF q
  <2>4. WellFormed(q)
    BY <2>1, <2>3 DEF WellFormed
  <2>5. ASSUME q.at = "remove", q.job # "prune"
        PROVE  (ahead'[q.cur] = {} /\ ~dirty'[q.cur]) \/ q.cur \in late'
    <3>1. p.cur \in Sessions /\ (Clean(p.cur) \/ p.cur \in late)
      BY <2>1, <2>3, <2>5 DEF WellFormed, RemovesNothing
    <3>2. QED
      BY <2>2, <2>3, <3>1 DEF Clean
  <2>6. RemovesNothing(proc[j])'
    BY <2>1, <2>5 DEF RemovesNothing, Clean
  <2>7. QED
    BY <2>1, <2>4, <2>6
<1>2. QED
  BY <1>1 DEF NothingLostInv, MergeLosesNothing

\* A process changes the repository.
LEMMA RepoStep ==
  ASSUME NothingLostInv, NEW k \in Processes, NEW q, WellFormed(q),
         GoAndChange(k, q),
         DOMAIN ahead' = Sessions, DOMAIN dirty' = Sessions,
         late' = late, lost' \subseteq late,
         \A r \in Sessions : Clean(r) => Clean(r)',
         q.at = "remove" /\ q.job # "prune" =>
           (ahead'[q.cur] = {} /\ ~dirty'[q.cur]) \/ q.cur \in late
  PROVE  NothingLostInv'
<1>1. DOMAIN proc' = Processes /\ proc'[k] = q
  BY DEF GoAndChange
<1>2. \A j \in Processes \ {k} : proc'[j] = [proc[j] EXCEPT !.calm = FALSE]
  BY DEF GoAndChange
<1>3. WellFormed(proc'[k]) /\ RemovesNothing(proc[k])'
  BY <1>1 DEF RemovesNothing, Clean
<1>4. QED
  BY <1>1, <1>2, <1>3, SharedStep

\* Somebody else changes it.
LEMMA OutsideStep ==
  ASSUME NothingLostInv, GoAndChange(None, Idle),
         DOMAIN ahead' = Sessions, DOMAIN dirty' = Sessions,
         late \subseteq late', lost' = lost,
         \A k \in Processes : \A s \in Sessions :
           proc[k].cur = s /\ Clean(s) => Clean(s)' \/ s \in late'
  PROVE  NothingLostInv'
<1>1. \A k \in Processes : proc'[k] = [proc[k] EXCEPT !.calm = FALSE]
  BY QueueAssumption DEF GoAndChange, QueueAssumption
<1>2. DOMAIN proc' = Processes /\ lost' \subseteq late'
  BY DEF GoAndChange, NothingLostInv, MergeLosesNothing
<1>3. QED
  BY <1>1, <1>2, SharedStep

LEMMA EnvironmentKeeps ==
  ASSUME NothingLostInv, Environment
  PROVE  NothingLostInv'
<1>t. DOMAIN ahead = Sessions /\ DOMAIN dirty = Sessions
  BY DEF NothingLostInv
<1>1. ASSUME NEW s \in Sessions, Work(s) PROVE NothingLostInv'
  <2>1. PICK E \in SUBSET Lines, d \in BOOLEAN :
          /\ ahead' = [ahead EXCEPT ![s] = @ \cup E]
          /\ dirty' = [dirty EXCEPT ![s] = d]
    BY <1>1 DEF Work
  <2>2. /\ late' = late \cup {r \in {s} : \E k \in Processes : proc[k].cur = r}
        /\ GoAndChange(None, Idle) /\ lost' = lost
    BY <1>1 DEF Work
  <2>3. \A k \in Processes : \A r \in Sessions :
          proc[k].cur = r /\ Clean(r) => Clean(r)' \/ r \in late'
    BY <2>1, <2>2, <1>t DEF Clean
  <2>4. QED
    BY <2>1, <2>2, <2>3, <1>t, OutsideStep
<1>2. CASE CommitToBase
  <2>1. /\ UNCHANGED <<ahead, dirty, late, lost>> /\ GoAndChange(None, Idle)
    BY <1>2 DEF CommitToBase
  <2>2. QED
    BY <2>1, <1>t, OutsideStep DEF Clean
<1>3. ASSUME NEW s \in Sessions, delete_session(s) PROVE NothingLostInv'
  <2>1. /\ ahead' = [ahead EXCEPT ![s] = {}] /\ dirty' = [dirty EXCEPT ![s] = FALSE]
        /\ UNCHANGED <<late, lost>> /\ GoAndChange(None, Idle)
    BY <1>3 DEF delete_session
  <2>2. \A r \in Sessions : Clean(r) => Clean(r)'
    BY <2>1, <1>t DEF Clean
  <2>3. QED
    BY <2>1, <2>2, <1>t, OutsideStep
<1>4. ASSUME NEW s \in Sessions, NEW from, NEW to, Turn(s, from, to)
      PROVE  NothingLostInv'
  BY <1>4 DEF Turn, repo, NothingLostInv, MergeLosesNothing, RemovesNothing, Clean
<1>5. ASSUME NEW k \in Processes, Crash(k) PROVE NothingLostInv'
  <2>1. proc' = [proc EXCEPT ![k] = Idle] /\ UNCHANGED <<ahead, dirty, late, lost>>
    BY <1>5 DEF Crash, Go, repo
  <2>2. QED
    BY <2>1, IdleForm, OwnStep
<1>6. QED
  BY <1>1, <1>2, <1>3, <1>4, <1>5 DEF Environment

(***************************************************************************)
(* The steps of a process.                                                 *)
(***************************************************************************)
\* Most steps leave the repository alone.
LEMMA GoStep ==
  ASSUME NothingLostInv, NEW k \in Processes, NEW q, Go(k, q), WellFormed(q),
         q.at # "remove", UNCHANGED <<repo, late, lost>>
  PROVE  NothingLostInv'
BY OwnStep DEF Go, repo

LEMMA LeaveStep ==
  ASSUME NothingLostInv, NEW k \in Processes, Leave(k), UNCHANGED <<repo, late, lost>>
  PROVE  NothingLostInv'
<1>1. Go(k, Pruning) \/ Go(k, Idle)
  BY DEF Leave
<1>2. QED
  BY <1>1, IdleForm, PruningForm, GoStep

LEMMA StartStep ==
  ASSUME NothingLostInv, NEW k \in Processes,
         StartPrune(k) \/ \E j \in {"daemon", "merge", "keep"} : StartQueue(k, j)
  PROVE  NothingLostInv'
<1>1. CASE StartPrune(k)
  <2>1. Go(k, Pruning) /\ UNCHANGED <<repo, late, lost>>
    BY <1>1 DEF StartPrune, Start
  <2>2. QED
    BY <2>1, PruningForm, GoStep
<1>2. ASSUME NEW j \in {"daemon", "merge", "keep"}, StartQueue(k, j) PROVE NothingLostInv'
  <2> DEFINE p == [Idle EXCEPT !.job = j]
  <2>1. WellFormed(p) /\ p.job # "prune"
    BY IdleForm DEF WellFormed, Fields
  <2>2. Go(k, Round(p)) /\ UNCHANGED <<repo, late, lost>>
    BY <1>2 DEF StartQueue, Start
  <2> HIDE DEF p
  <2>3. QED
    BY <2>1, <2>2, RoundForm, GoStep
<1>3. QED
  BY <1>1, <1>2

LEMMA InspectStep ==
  ASSUME NothingLostInv, NEW k \in Processes, Inspect(k)
  PROVE  NothingLostInv'
<1> DEFINE p == proc[k]
<1>1. WellFormed(p) /\ p.at = "inspect" /\ UNCHANGED <<repo, late, lost>>
  BY DEF NothingLostInv, Inspect, At, history
<1>2. PICK s \in p.todo :
        LET q == Inspected([p EXCEPT !.todo = @ \ {s}]) IN
        \/ Leave(k) \/ Go(k, q) \/ Go(k, [q EXCEPT !.stuck = @ \cup {s}])
        \/ Go(k, [q EXCEPT !.ready = @ \cup {s}])
  BY DEF Inspect
<1> DEFINE r == [p EXCEPT !.todo = @ \ {s}] q == Inspected(r)
<1>3. Leave(k) \/ Go(k, q) \/ Go(k, [q EXCEPT !.stuck = @ \cup {s}])
      \/ Go(k, [q EXCEPT !.ready = @ \cup {s}])
  BY <1>2
<1> HIDE DEF p
<1>4. WellFormed(r) /\ r.at = "inspect" /\ s \in Sessions
  BY <1>1 DEF WellFormed, Fields
<1> HIDE DEF r
<1>5. WellFormed(q) /\ q.at \in {"inspect", "merge"}
  BY <1>4, InspectedForm
<1> HIDE DEF q
<1> DEFINE stuck == [q EXCEPT !.stuck = @ \cup {s}] ready == [q EXCEPT !.ready = @ \cup {s}]
<1>6. /\ WellFormed(stuck) /\ stuck.at = q.at
      /\ WellFormed(ready) /\ ready.at = q.at
  BY <1>4, <1>5 DEF WellFormed, Fields
<1> HIDE DEF stuck, ready
<1>7. Leave(k) \/ Go(k, q) \/ Go(k, stuck) \/ Go(k, ready)
  BY <1>3 DEF stuck, ready
<1>8. QED
  BY <1>1, <1>5, <1>6, <1>7, LeaveStep, GoStep

LEMMA ChoiceStep ==
  ASSUME NothingLostInv, NEW k \in Processes,
         InspectKept(k) \/ Resolve(k) \/ PickRebase(k)
  PROVE  NothingLostInv'
<1> DEFINE p == proc[k]
<1>1. WellFormed(p) /\ UNCHANGED <<repo, late, lost>>
  BY DEF NothingLostInv, InspectKept, Resolve, PickRebase, history
<1>2. CASE InspectKept(k)
  <2>1. PICK s \in p.todo :
          LET q == [p EXCEPT !.todo = @ \ {s}] IN
          Go(k, q) \/ Go(k, [q EXCEPT !.at = "merge", !.ready = {s}])
    BY <1>2 DEF InspectKept
  <2> DEFINE q == [p EXCEPT !.todo = @ \ {s}] r == [q EXCEPT !.at = "merge", !.ready = {s}]
  <2>2. (Go(k, q) \/ Go(k, r)) /\ p.at = "inspect"
    BY <2>1, <1>2 DEF InspectKept, At
  <2> HIDE DEF p
  <2>3. WellFormed(q) /\ q.at = "inspect" /\ s \in Sessions
    BY <1>1, <2>2 DEF WellFormed, Fields
  <2> HIDE DEF q
  <2>4. WellFormed(r) /\ r.at = "merge"
    BY <2>3 DEF WellFormed, Fields
  <2> HIDE DEF r
  <2>5. QED
    BY <1>1, <2>2, <2>3, <2>4, GoStep
<1>3. CASE Resolve(k)
  <2>1. PICK s \in p.ready :
          LET q == [p EXCEPT !.ready = @ \ {s}] IN
          Go(k, [q EXCEPT !.at = "git", !.cur = s]) \/ Go(k, NextEntry(q))
    BY <1>3 DEF Resolve
  <2> DEFINE q == [p EXCEPT !.ready = @ \ {s}] r == [q EXCEPT !.at = "git", !.cur = s]
  <2>2. (Go(k, r) \/ Go(k, NextEntry(q))) /\ p.at = "merge"
    BY <2>1, <1>3 DEF Resolve, At
  <2> HIDE DEF p
  <2>3. WellFormed(q) /\ q.at = "merge" /\ q.job # "prune" /\ s \in Sessions
    BY <1>1, <2>2 DEF WellFormed, Fields
  <2> HIDE DEF q
  <2>4. WellFormed(r) /\ r.at = "git"
    BY <2>3 DEF WellFormed, Fields
  <2> HIDE DEF r
  <2>5. QED
    BY <1>1, <2>2, <2>3, <2>4, NextEntryForm, GoStep
<1>4. CASE PickRebase(k)
  <2>1. PICK s \in p.stuck :
          LET q == [p EXCEPT !.stuck = @ \ {s}] IN
          \/ Leave(k) \/ Go(k, q)
          \/ Go(k, [q EXCEPT !.at = "onto", !.cur = s, !.tried = @ \cup {<<s, Len(base)>>}])
    BY <1>4 DEF PickRebase
  <2> DEFINE q == [p EXCEPT !.stuck = @ \ {s}]
             r == [q EXCEPT !.at = "onto", !.cur = s, !.tried = @ \cup {<<s, Len(base)>>}]
  <2>2. (Leave(k) \/ Go(k, q) \/ Go(k, r)) /\ p.at = "rebase"
    BY <2>1, <1>4 DEF PickRebase, At
  <2> HIDE DEF p
  <2>3. WellFormed(q) /\ q.at = "rebase" /\ s \in Sessions
    BY <1>1, <2>2 DEF WellFormed, Fields
  <2> HIDE DEF q
  <2>4. WellFormed(r) /\ r.at = "onto"
    BY <2>3 DEF WellFormed, Fields
  <2> HIDE DEF r
  <2>5. QED
    BY <1>1, <2>2, <2>3, <2>4, LeaveStep, GoStep
<1>5. QED
  BY <1>2, <1>3, <1>4

\* The branch is merged before its worktree is removed.
LEMMA GitMergeStep ==
  ASSUME NothingLostInv, NEW k \in Processes, GitMerge(k)
  PROVE  NothingLostInv'
<1> DEFINE p == proc[k] s == p.cur q == [p EXCEPT !.at = "remove"]
<1>1. WellFormed(p) /\ p.at = "git" /\ DOMAIN ahead = Sessions /\ DOMAIN dirty = Sessions
  BY DEF NothingLostInv, GitMerge, At
<1>2. /\ ~dirty[s] /\ ahead' = [ahead EXCEPT ![s] = {}]
      /\ dirty' = dirty /\ late' = late /\ lost' = lost
      /\ GoAndChange(k, IF p.job = "keep" THEN NextEntry(p) ELSE q)
  BY DEF GitMerge, CanMerge, history
<1>3. lost' \subseteq late
  BY <1>2 DEF NothingLostInv, MergeLosesNothing
<1>4. \A r \in Sessions : Clean(r) => Clean(r)'
  BY <1>1, <1>2 DEF Clean
<1>5. CASE p.job = "keep"
  <2>1. WellFormed(NextEntry(p)) /\ NextEntry(p).at # "remove" /\ GoAndChange(k, NextEntry(p))
    BY <1>1, <1>2, <1>5, NextEntryForm
  <2>2. QED
    BY <1>1, <1>2, <1>3, <1>4, <2>1, RepoStep
<1>6. CASE p.job # "keep"
  <2>0. GoAndChange(k, q)
    BY <1>2, <1>6
  <2> HIDE DEF p
  <2>1. WellFormed(q) /\ q.cur = p.cur /\ q.job = p.job
    BY <1>1 DEF WellFormed, Fields
  <2>2. q.job # "prune" => ahead'[q.cur] = {} /\ ~dirty'[q.cur]
    BY <1>1, <1>2, <2>1 DEF WellFormed
  <2> HIDE DEF q
  <2>3. QED
    BY <1>1, <1>2, <1>3, <1>4, <2>0, <2>1, <2>2, RepoStep
<1>7. QED
  BY <1>5, <1>6

LEMMA RemoveTreeStep ==
  ASSUME NothingLostInv, NEW k \in Processes, RemoveTree(k)
  PROVE  NothingLostInv'
<1> DEFINE p == proc[k] s == p.cur q == [p EXCEPT !.at = "clear"]
<1>1. /\ WellFormed(p) /\ RemovesNothing(p) /\ p.at = "remove"
      /\ DOMAIN ahead = Sessions /\ DOMAIN dirty = Sessions
  BY DEF NothingLostInv, RemoveTree, At
<1>2. /\ ahead' = [ahead EXCEPT ![s] = {}] /\ dirty' = [dirty EXCEPT ![s] = FALSE]
      /\ late' = late /\ GoAndChange(k, q)
      /\ lost' = IF p.job # "prune" /\ (ahead[s] # {} \/ dirty[s])
                 THEN lost \cup {s} ELSE lost
  BY DEF RemoveTree
<1>3. lost' \subseteq late
  BY <1>1, <1>2 DEF RemovesNothing, Clean, NothingLostInv, MergeLosesNothing
<1>4. \A r \in Sessions : Clean(r) => Clean(r)'
  BY <1>1, <1>2 DEF Clean
<1> HIDE DEF p
<1>5. WellFormed(q) /\ q.at = "clear"
  BY <1>1 DEF WellFormed, Fields
<1> HIDE DEF q
<1>6. QED
  BY <1>1, <1>2, <1>3, <1>4, <1>5, RepoStep

LEMMA RebaseStep ==
  ASSUME NothingLostInv, NEW k \in Processes, Rebase(k)
  PROVE  NothingLostInv'
<1>1. /\ WellFormed(proc[k]) /\ proc[k].at = "onto" /\ GoAndChange(k, Round(proc[k]))
      /\ UNCHANGED <<ahead, dirty, late, lost>>
      /\ DOMAIN ahead = Sessions /\ DOMAIN dirty = Sessions /\ lost \subseteq late
  BY DEF NothingLostInv, MergeLosesNothing, Rebase, At, history
<1>2. WellFormed(Round(proc[k])) /\ Round(proc[k]).at # "remove"
  BY <1>1, RoundForm DEF WellFormed
<1>3. QED
  BY <1>1, <1>2, RepoStep DEF Clean

LEMMA ClearStep ==
  ASSUME NothingLostInv, NEW k \in Processes, clear_worktree(k)
  PROVE  NothingLostInv'
<1> DEFINE p == proc[k] n == NextEntry(p)
           q == [p EXCEPT !.at = "prune", !.cur = None]
           r == [n EXCEPT !.merged = p.merged \/ Present(p.cur)]
<1>1. WellFormed(p) /\ UNCHANGED <<repo, late, lost>>
  BY DEF NothingLostInv, clear_worktree, history
<1>2. (p.job = "prune" /\ Go(k, q)) \/ (p.job # "prune" /\ Go(k, r))
  BY DEF clear_worktree
<1> HIDE DEF p
<1>3. p.job = "prune" => WellFormed(q) /\ q.at = "prune"
  BY <1>1 DEF WellFormed, Fields
<1>4. p.job # "prune" => WellFormed(n) /\ n.at \in {"inspect", "merge"}
  BY <1>1, NextEntryForm
<1> HIDE DEF n
<1>5. p.job # "prune" => WellFormed(r) /\ r.at = n.at
  BY <1>4 DEF WellFormed, Fields
<1> HIDE DEF q, r
<1>6. QED
  BY <1>1, <1>2, <1>3, <1>4, <1>5, GoStep

LEMMA PruneStep ==
  ASSUME NothingLostInv, NEW k \in Processes, Prune(k)
  PROVE  NothingLostInv'
<1> DEFINE p == proc[k]
<1>1. WellFormed(p) /\ p.at = "prune" /\ UNCHANGED <<ahead, dirty, late, lost>>
  BY DEF NothingLostInv, Prune, At, repo, history
<1>2. PICK s \in p.todo :
        LET q == [p EXCEPT !.todo = @ \ {s}] IN
        Go(k, Idle) \/ Go(k, [q EXCEPT !.at = "remove", !.cur = s]) \/ Go(k, q)
  BY DEF Prune
<1> DEFINE q == [p EXCEPT !.todo = @ \ {s}] r == [q EXCEPT !.at = "remove", !.cur = s]
<1>3. \/ proc' = [proc EXCEPT ![k] = Idle] \/ proc' = [proc EXCEPT ![k] = q]
      \/ proc' = [proc EXCEPT ![k] = r]
  BY <1>2 DEF Go
<1> HIDE DEF p
<1>4. WellFormed(q) /\ q.at = "prune" /\ q.job = "prune" /\ s \in Sessions
  BY <1>1 DEF WellFormed, Fields
<1> HIDE DEF q
<1>5. WellFormed(r) /\ r.at = "remove" /\ r.job = "prune"
  BY <1>4 DEF WellFormed, Fields
<1> HIDE DEF r
<1>6. QED
  BY <1>1, <1>3, <1>4, <1>5, IdleForm, OwnStep

LEMMA OtherSteps ==
  ASSUME NothingLostInv, NEW k \in Processes,
         GitMergeFails(k) \/ Merged(k) \/ RebaseFails(k) \/ Finish(k) \/ Pruned(k)
  PROVE  NothingLostInv'
<1> DEFINE p == proc[k]
           q == [p EXCEPT !.at = "rebase", !.calm = FALSE]
           r == [p EXCEPT !.at = "rebase", !.cur = None]
<1>1. WellFormed(p) /\ UNCHANGED <<repo, late, lost>>
  BY DEF NothingLostInv, GitMergeFails, Merged, RebaseFails, Finish, Pruned, history
<1>2. \/ p.at \in {"git", "merge"} /\ (Go(k, NextEntry(p)) \/ Go(k, Round(p)))
      \/ p.at = "merge" /\ Go(k, q)
      \/ Leave(k)
      \/ Go(k, Idle)
      \/ p.at = "onto" /\ Go(k, r)
  <2>1. CASE Merged(k)
    BY <2>1 DEF Merged, At
  <2>2. CASE GitMergeFails(k) \/ RebaseFails(k) \/ Finish(k) \/ Pruned(k)
    BY <2>2 DEF GitMergeFails, RebaseFails, Finish, Pruned, At
  <2>3. QED
    BY <2>1, <2>2
<1> HIDE DEF p
<1>3. CASE p.at \in {"git", "merge"} /\ (Go(k, NextEntry(p)) \/ Go(k, Round(p)))
  <2>1. p.job # "prune"
    BY <1>1, <1>3 DEF WellFormed
  <2>2. QED
    BY <1>1, <1>3, <2>1, RoundForm, NextEntryForm, GoStep
<1>4. CASE p.at = "merge" /\ Go(k, q)
  <2>1. WellFormed(q) /\ q.at = "rebase"
    BY <1>1, <1>4 DEF WellFormed, Fields
  <2> HIDE DEF q
  <2>2. QED
    BY <1>1, <1>4, <2>1, GoStep
<1>5. CASE p.at = "onto" /\ Go(k, r)
  <2>1. WellFormed(r) /\ r.at = "rebase"
    BY <1>1, <1>5 DEF WellFormed, Fields
  <2> HIDE DEF r
  <2>2. QED
    BY <1>1, <1>5, <2>1, GoStep
<1>6. QED
  BY <1>1, <1>2, <1>3, <1>4, <1>5, IdleForm, LeaveStep, GoStep

LEMMA NothingLostStep ==
  ASSUME NothingLostInv, [Next]_vars
  PROVE  NothingLostInv'
<1>1. ASSUME NEW k \in Processes, Step(k) PROVE NothingLostInv'
  BY <1>1, InspectStep, ChoiceStep, GitMergeStep, RemoveTreeStep, ClearStep,
     RebaseStep, PruneStep, OtherSteps DEF Step
<1>2. CASE Loop
  BY <1>2, StartStep DEF Loop, Processes
<1>3. ASSUME NEW k \in Clients, StartPrune(k) \/ \E j \in {"merge", "keep"} : StartQueue(k, j)
      PROVE  NothingLostInv'
  BY <1>3, StartStep DEF Processes
<1>4. CASE UNCHANGED vars
  BY <1>4 DEF vars, repo, history, NothingLostInv, MergeLosesNothing, RemovesNothing, Clean
<1>5. QED
  BY <1>1, <1>2, <1>3, <1>4, EnvironmentKeeps DEF Next

LEMMA NothingLostInit == Init => NothingLostInv
<1> SUFFICES ASSUME Init PROVE NothingLostInv
  OBVIOUS
<1>1. ahead \in [Sessions -> SUBSET Lines]
  BY QueueAssumption DEF Init, QueueAssumption
<1>2. proc = [k \in Processes |-> Idle] /\ lost = {} /\ DOMAIN dirty = Sessions
  BY DEF Init
<1>3. QED
  BY <1>1, <1>2, IdleForm DEF NothingLostInv, MergeLosesNothing, RemovesNothing

\* Merging loses no work (merge_session_worktree removes the worktree by force
\* after it has merged): what goes with a merged worktree was written by
\* somebody who went on while the merge was under way, for any number of
\* sessions merged, rebased and pruned by any number of processes.
THEOREM MergingLosesNothing == Spec => []MergeLosesNothing
<1>1. NothingLostInv => MergeLosesNothing
  BY DEF NothingLostInv
<1>2. NothingLostInv /\ [Next]_vars => NothingLostInv'
  BY NothingLostStep
<1>3. QED
  BY NothingLostInit, <1>1, <1>2, PTL DEF Spec

(***************************************************************************)
(* Type correctness: what holds of a process by itself is known by now.    *)
(***************************************************************************)
Commits == [by : Sessions \cup {None}, edits : SUBSET Lines]

RowTypes ==
  /\ state \in [Sessions -> {"active", "stale", "ended", "deleted"}]
  /\ tree \in [Sessions -> BOOLEAN]
  /\ changes \in 0..MaxChanges /\ runs \in 0..MaxRuns
  /\ late \cup lost \subseteq Sessions

RepoTypes ==
  /\ disk \in [Sessions -> BOOLEAN] /\ dirty \in [Sessions -> BOOLEAN]
  /\ ahead \in [Sessions -> SUBSET Lines]
  /\ base \in Seq(Commits) /\ fork \in [Sessions -> 0..Len(base)]

TypeInv == NothingLostInv /\ RowTypes /\ RepoTypes

LEMMA Counted ==
  ASSUME RowTypes, Change
  PROVE  changes' \in 0..MaxChanges
BY QueueAssumption DEF RowTypes, Change, QueueAssumption

\* The base only grows, by one commit at a time.
LEMMA BaseGrows ==
  ASSUME RepoTypes, NEW c \in Commits, base' = Append(base, c), fork' = fork
  PROVE  base' \in Seq(Commits) /\ fork' \in [Sessions -> 0..Len(base')]
<1>1. base' \in Seq(Commits) /\ Len(base') = Len(base) + 1 /\ Len(base) \in Nat
  BY DEF RepoTypes
<1>2. 0..Len(base) \subseteq 0..Len(base')
  BY <1>1
<1>3. QED
  BY <1>1, <1>2 DEF RepoTypes

LEMMA EnvironmentTypes ==
  ASSUME TypeInv, Environment
  PROVE  RowTypes' /\ RepoTypes'
<1>1. ASSUME NEW s \in Sessions, Work(s) PROVE RowTypes' /\ RepoTypes'
  <2>1. PICK E \in SUBSET Lines, d \in BOOLEAN, n \in {fork[s], Len(base)} :
          /\ ahead' = [ahead EXCEPT ![s] = @ \cup E]
          /\ dirty' = [dirty EXCEPT ![s] = d]
          /\ fork' = [fork EXCEPT ![s] = n]
    BY <1>1 DEF Work
  <2>2. n \in 0..Len(base)
    BY DEF TypeInv, RepoTypes
  <2>3. RepoTypes'
    BY <1>1, <2>1, <2>2 DEF TypeInv, RepoTypes, Work
  <2>4. RowTypes'
    BY <1>1, Counted DEF TypeInv, RowTypes, Work, rows
  <2>5. QED
    BY <2>3, <2>4
<1>2. CASE CommitToBase
  <2>1. PICK l \in Lines : base' = Append(base, [by |-> None, edits |-> {l}])
    BY <1>2 DEF CommitToBase
  <2>2. [by |-> None, edits |-> {l}] \in Commits
    BY DEF Commits
  <2>3. RepoTypes'
    BY <1>2, <2>1, <2>2, BaseGrows DEF TypeInv, RepoTypes, CommitToBase
  <2>4. RowTypes'
    BY <1>2, Counted DEF TypeInv, RowTypes, CommitToBase, rows
  <2>5. QED
    BY <2>3, <2>4
<1>3. ASSUME NEW s \in Sessions, delete_session(s) PROVE RowTypes' /\ RepoTypes'
  <2>1. RepoTypes'
    BY <1>3 DEF TypeInv, RepoTypes, RowTypes, delete_session
  <2>2. RowTypes'
    BY <1>3, Counted DEF TypeInv, RowTypes, delete_session
  <2>3. QED
    BY <2>1, <2>2
<1>4. ASSUME NEW s \in Sessions, NEW from, NEW to \in {"ended", "stale", "active"},
             Turn(s, from, to)
      PROVE  RowTypes' /\ RepoTypes'
  BY <1>4, Counted DEF TypeInv, RowTypes, RepoTypes, Turn, repo
<1>5. ASSUME NEW k \in Processes, Crash(k) PROVE RowTypes' /\ RepoTypes'
  BY <1>5, Counted DEF TypeInv, RowTypes, RepoTypes, Crash, rows, repo
<1>6. QED
  BY <1>1, <1>2, <1>3, <1>4, <1>5 DEF Environment

LEMMA ProcessTypes ==
  ASSUME TypeInv, NEW k \in Processes, Step(k)
  PROVE  RowTypes' /\ RepoTypes'
<1> DEFINE p == proc[k]
<1>1. p.at \in {"git", "remove", "clear", "onto"} => p.cur \in Sessions
  BY DEF TypeInv, NothingLostInv, WellFormed
<1>2. CASE UNCHANGED <<rows, repo, history>>
  BY <1>2 DEF TypeInv, RowTypes, RepoTypes, rows, repo, history
<1>3. CASE GitMerge(k)
  <2>1. RepoTypes'
    <3>1. CASE ahead[p.cur] = {}
      BY <1>3, <3>1 DEF GitMerge, TypeInv, RepoTypes
    <3>2. CASE ahead[p.cur] # {}
      <4>1. p.cur \in Sessions /\ base' = Append(base, [by |-> p.cur, edits |-> ahead[p.cur]])
        BY <1>1, <1>3, <3>2 DEF GitMerge, At
      <4>2. [by |-> p.cur, edits |-> ahead[p.cur]] \in Commits
        BY <4>1 DEF Commits, TypeInv, RepoTypes
      <4>3. ahead' = [ahead EXCEPT ![p.cur] = {}] /\ UNCHANGED <<disk, dirty, fork>>
        BY <1>3 DEF GitMerge
      <4>4. QED
        BY <4>1, <4>2, <4>3, BaseGrows DEF TypeInv, RepoTypes
    <3>3. QED
      BY <3>1, <3>2
  <2>2. RowTypes'
    BY <1>3 DEF GitMerge, TypeInv, RowTypes, rows, history
  <2>3. QED
    BY <2>1, <2>2
<1>4. CASE RemoveTree(k)
  <2>1. RepoTypes'
    BY <1>4 DEF RemoveTree, TypeInv, RepoTypes
  <2>2. p.cur \in Sessions
    BY <1>1, <1>4 DEF RemoveTree, At
  <2>3. RowTypes'
    BY <1>4, <2>2 DEF RemoveTree, TypeInv, RowTypes, rows
  <2>4. QED
    BY <2>1, <2>3
<1>5. CASE clear_worktree(k)
  BY <1>5 DEF clear_worktree, TypeInv, RowTypes, RepoTypes, repo, history
<1>6. CASE Rebase(k)
  <2>1. fork' = [fork EXCEPT ![p.cur] = Len(base)] /\ Len(base) \in 0..Len(base)
    BY <1>6 DEF Rebase, TypeInv, RepoTypes
  <2>2. RepoTypes'
    BY <1>6, <2>1 DEF Rebase, TypeInv, RepoTypes
  <2>3. RowTypes'
    BY <1>6 DEF Rebase, TypeInv, RowTypes, rows, history
  <2>4. QED
    BY <2>2, <2>3
<1>7. CASE Prune(k)
  <2>1. state' = state \/ \E s \in Sessions : state' = [state EXCEPT ![s] = "ended"]
    BY <1>7 DEF Prune, TypeInv, NothingLostInv, WellFormed
  <2>2. QED
    BY <1>7, <2>1 DEF Prune, TypeInv, RowTypes, RepoTypes, repo, history
<1>8. QED
  BY <1>2, <1>3, <1>4, <1>5, <1>6, <1>7
     DEF Step, Inspect, InspectKept, Resolve, GitMergeFails, Merged, PickRebase,
         RebaseFails, Finish, Pruned

LEMMA TypeStep ==
  ASSUME TypeInv, [Next]_vars
  PROVE  TypeInv'
<1>1. NothingLostInv'
  BY NothingLostStep DEF TypeInv
<1>2. ASSUME NEW k, NEW p, Start(k, p) PROVE RowTypes' /\ RepoTypes'
  <2>1. runs' \in 0..MaxRuns
    BY <1>2, QueueAssumption DEF Start, QueueAssumption, TypeInv, RowTypes
  <2>2. QED
    BY <1>2, <2>1 DEF Start, TypeInv, RowTypes, RepoTypes, rows, repo
<1>3. CASE UNCHANGED vars
  BY <1>1, <1>3 DEF TypeInv, RowTypes, RepoTypes, vars, rows, repo, history
<1>4. CASE Next
  <2>1. RowTypes' /\ RepoTypes'
    BY <1>2, <1>4, EnvironmentTypes, ProcessTypes
       DEF Next, Loop, StartQueue, StartPrune
  <2>2. QED
    BY <1>1, <2>1 DEF TypeInv
<1>5. QED
  BY <1>3, <1>4

LEMMA TypeInit == Init => TypeInv
<1> SUFFICES ASSUME Init PROVE TypeInv
  OBVIOUS
<1>1. RowTypes
  BY QueueAssumption DEF Init, RowTypes, QueueAssumption
<1>2. ahead \in [Sessions -> SUBSET Lines] /\ base = <<>>
  BY QueueAssumption DEF Init, QueueAssumption
<1>3. base \in Seq(Commits) /\ Len(base) = 0
  BY <1>2
<1>4. RepoTypes
  BY <1>2, <1>3 DEF Init, RepoTypes
<1>5. QED
  BY <1>1, <1>4, NothingLostInit DEF TypeInv

\* Type correctness of the merge queue, for any number of sessions and
\* processes: a process works on a session exactly where it names one, and no
\* branch is forked from a commit the base does not have.
THEOREM QueueTypeCorrect == Spec => []TypeOK
<1>1. TypeInv => TypeOK
  BY DEF TypeInv, TypeOK, RowTypes, RepoTypes, Commits, NothingLostInv, WellFormed
<1>2. TypeInv /\ [Next]_vars => TypeInv'
  BY TypeStep
<1>3. QED
  BY TypeInit, <1>1, <1>2, PTL DEF Spec

(***************************************************************************)
(* The ready entries of a round can be merged one after the other, as long *)
(* as nobody else changes the repository: no two of them have changed the  *)
(* same line, so that merging one brings none of the others into conflict  *)
(* with the base.                                                          *)
(***************************************************************************)
Apart(s, r) == ahead[s] \cap ahead[r] = {}

InTurn(p) ==
  p.calm =>
    /\ p.job # "prune" /\ p.at \in {"inspect", "merge", "git", "remove", "clear"}
    /\ \A s \in p.ready : CanMerge(s) /\ \A r \in p.ready : s # r => Apart(s, r)
    /\ p.at \in {"git", "remove", "clear"} => p.cur \notin p.ready
    /\ p.at = "git" => CanMerge(p.cur) /\ \A r \in p.ready : Apart(p.cur, r)

AllInTurn == \A k \in Processes : InTurn(proc[k])

ReadyInv == TypeInv /\ AllInTurn

\* Each of two branches that do not clash has, among what it changed, what it
\* is ahead of the base.
LEMMA ClashMeansShared ==
  ASSUME NEW s, NEW r, ~Clash(s, r)
  PROVE  Apart(s, r) /\ Apart(r, s)
BY DEF Clash, Since, Apart

\* The others are not brought into conflict by a merge.
LEMMA MergedApart ==
  ASSUME TypeInv, NEW s \in Sessions, NEW r \in Sessions, s # r, Apart(s, r), CanMerge(r),
         base' = IF ahead[s] = {} THEN base
                 ELSE Append(base, [by |-> s, edits |-> ahead[s]]),
         ahead' = [ahead EXCEPT ![s] = {}], UNCHANGED <<disk, dirty, fork>>
  PROVE  CanMerge(r)'
<1>1. /\ base \in Seq(Commits) /\ Len(base) \in Nat /\ fork[r] \in Nat
      /\ ahead'[r] = ahead[r] /\ ahead[s] \in SUBSET Lines
  BY DEF TypeInv, RepoTypes
<1>2. Theirs(r)' \subseteq Theirs(r) \cup ahead[s]
  <2>1. CASE ahead[s] = {}
    BY <2>1 DEF Theirs
  <2>2. CASE ahead[s] # {}
    <3> DEFINE c == [by |-> s, edits |-> ahead[s]]
    <3>1. c \in Commits /\ base' = Append(base, c)
      BY <1>1, <2>2 DEF Commits
    <3>2. /\ Len(base') = Len(base) + 1 /\ base'[Len(base) + 1] = c
          /\ \A i \in 1..Len(base) : base'[i] = base[i]
      BY <1>1, <3>1
    <3>3. ASSUME NEW x \in Theirs(r)' PROVE x \in Theirs(r) \cup ahead[s]
      <4>1. PICK i \in (fork[r] + 1)..Len(base') : base'[i].by # r /\ x \in base'[i].edits
        BY <3>3 DEF Theirs
      <4>2. CASE i = Len(base) + 1
        BY <3>2, <4>1, <4>2
      <4>3. CASE i # Len(base) + 1
        <5>1. i \in (fork[r] + 1)..Len(base) /\ base'[i] = base[i]
          BY <1>1, <3>2, <4>1, <4>3
        <5>2. QED
          BY <4>1, <5>1 DEF Theirs
      <4>4. QED
        BY <4>2, <4>3
    <3>4. QED
      BY <3>3
  <2>3. QED
    BY <2>1, <2>2
<1>3. ahead[r] \cap Theirs(r)' = {}
  BY <1>2 DEF Apart, CanMerge, Conflicted
<1>4. QED
  BY <1>1, <1>3 DEF CanMerge, Conflicted

\* A process goes on, and the repository stays as it is.
LEMMA InTurnGo ==
  ASSUME ReadyInv, NEW k \in Processes, NEW q, Go(k, q), InTurn(q), UNCHANGED repo
  PROVE  AllInTurn'
<1>1. proc' = [proc EXCEPT ![k] = q] /\ DOMAIN proc = Processes
  BY DEF Go, ReadyInv, AllInTurn, TypeInv, NothingLostInv
<1>2. \A s : CanMerge(s)' = CanMerge(s)
  BY DEF CanMerge, Conflicted, Theirs, repo
<1>3. \A s, r : Apart(s, r)' = Apart(s, r)
  BY DEF Apart, repo
<1>4. ASSUME NEW j \in Processes PROVE InTurn(proc[j])'
  <2>1. InTurn(proc'[j])
    BY <1>1 DEF ReadyInv, AllInTurn
  <2>2. QED
    BY <1>2, <1>3, <2>1 DEF InTurn
<1>5. QED
  BY <1>4 DEF AllInTurn

\* A process, or somebody else, changes the repository under the others.
LEMMA InTurnChange ==
  ASSUME ReadyInv, NEW k, NEW q, GoAndChange(k, q),
         k \in Processes => InTurn(proc[k])'
  PROVE  AllInTurn'
<1>1. ASSUME NEW j \in Processes, j # k PROVE InTurn(proc[j])'
  <2>1. proc'[j] = [proc[j] EXCEPT !.calm = FALSE] /\ "calm" \in DOMAIN proc[j]
    BY <1>1 DEF GoAndChange, ReadyInv, AllInTurn, TypeInv, NothingLostInv, WellFormed, Fields
  <2>2. ~proc'[j].calm
    BY <2>1
  <2>3. QED
    BY <2>2 DEF InTurn
<1>2. QED
  BY <1>1 DEF AllInTurn

LEMMA IdleInTurn == InTurn(Idle) /\ InTurn(Pruning)
<1>1. ~Idle.calm
  BY DEF Idle
<1>2. ~Pruning.calm
  BY DEF Idle, Pruning
<1>3. QED
  BY <1>1, <1>2 DEF InTurn

LEMMA LeaveInTurn ==
  ASSUME ReadyInv, NEW k \in Processes, Leave(k), UNCHANGED repo
  PROVE  AllInTurn'
<1>1. Go(k, Pruning) \/ Go(k, Idle)
  BY DEF Leave
<1>2. QED
  BY <1>1, IdleInTurn, InTurnGo

\* A round begins with no entries.
LEMMA RoundInTurn ==
  ASSUME NEW p, WellFormed(p), p.job # "prune"
  PROVE  InTurn(Round(p))
<1>1. Round(p).ready = {} /\ Round(p).at \in {"inspect", "merge"} /\ Round(p).job = p.job
  BY DEF WellFormed, Fields, Round, Inspected
<1>2. QED
  BY <1>1 DEF InTurn

LEMMA NextEntryInTurn ==
  ASSUME NEW p, WellFormed(p), InTurn(p)
  PROVE  InTurn(NextEntry(p))
<1>1. /\ NextEntry(p).ready = p.ready /\ NextEntry(p).calm = p.calm
      /\ NextEntry(p).job = p.job /\ NextEntry(p).at \in {"inspect", "merge"}
  BY DEF WellFormed, Fields, NextEntry
<1>2. QED
  BY <1>1 DEF InTurn

\* An entry joins those before it in the queue.
LEMMA InspectInTurn ==
  ASSUME ReadyInv, NEW k \in Processes, Inspect(k)
  PROVE  AllInTurn'
<1> DEFINE p == proc[k]
<1>1. /\ WellFormed(p) /\ InTurn(p) /\ p.at = "inspect" /\ p.job # "prune"
      /\ UNCHANGED repo
  BY DEF ReadyInv, AllInTurn, TypeInv, NothingLostInv, Inspect, At
<1>2. PICK s \in p.todo :
        LET q == Inspected([p EXCEPT !.todo = @ \ {s}]) IN
        \/ Leave(k) \/ Go(k, q) \/ Go(k, [q EXCEPT !.stuck = @ \cup {s}])
        \/ /\ disk[s] /\ ~Conflicted(s) /\ ~dirty[s] /\ ~HeldBack(s, p.ready)
           /\ Go(k, [q EXCEPT !.ready = @ \cup {s}])
  BY DEF Inspect
<1> DEFINE t == [p EXCEPT !.todo = @ \ {s}] q == Inspected(t)
           stuck == [q EXCEPT !.stuck = @ \cup {s}] ready == [q EXCEPT !.ready = @ \cup {s}]
<1>3. \/ Leave(k) \/ Go(k, q) \/ Go(k, stuck)
      \/ CanMerge(s) /\ ~HeldBack(s, p.ready) /\ Go(k, ready)
  BY <1>2 DEF CanMerge
<1> HIDE DEF p
<1>4. /\ WellFormed(t) /\ t.at = "inspect" /\ t.job = p.job
      /\ t.ready = p.ready /\ t.calm = p.calm
  BY <1>1 DEF WellFormed, Fields
<1> HIDE DEF t
<1>5. /\ WellFormed(q) /\ q.at \in {"inspect", "merge"} /\ q.job = p.job
      /\ q.ready = p.ready /\ q.calm = p.calm
  BY <1>4 DEF WellFormed, Fields, Inspected
<1> HIDE DEF q
<1>6. /\ stuck.at = q.at /\ stuck.job = p.job /\ stuck.ready = p.ready /\ stuck.calm = p.calm
      /\ ready.at = q.at /\ ready.job = p.job /\ ready.ready = p.ready \cup {s}
      /\ ready.calm = p.calm
  BY <1>5 DEF WellFormed, Fields
<1> HIDE DEF stuck, ready
<1>7. InTurn(q) /\ InTurn(stuck)
  BY <1>1, <1>5, <1>6 DEF InTurn
<1>8. ASSUME CanMerge(s), ~HeldBack(s, p.ready) PROVE InTurn(ready)
  <2>1. \A r \in p.ready : Apart(s, r) /\ Apart(r, s)
    BY <1>8, ClashMeansShared DEF HeldBack
  <2>2. QED
    BY <1>1, <1>5, <1>6, <1>8, <2>1 DEF InTurn
<1>9. QED
  BY <1>1, <1>3, <1>7, <1>8, LeaveInTurn, InTurnGo

LEMMA InspectKeptInTurn ==
  ASSUME ReadyInv, NEW k \in Processes, InspectKept(k)
  PROVE  AllInTurn'
<1> DEFINE p == proc[k]
<1>1. WellFormed(p) /\ InTurn(p) /\ p.at = "inspect" /\ UNCHANGED repo
  BY DEF ReadyInv, AllInTurn, TypeInv, NothingLostInv, InspectKept, At
<1>2. PICK s \in p.todo :
        LET q == [p EXCEPT !.todo = @ \ {s}] IN
        \/ Go(k, q)
        \/ CanMerge(s) /\ Go(k, [q EXCEPT !.at = "merge", !.ready = {s}])
  BY DEF InspectKept, CanMerge
<1> DEFINE q == [p EXCEPT !.todo = @ \ {s}] r == [q EXCEPT !.at = "merge", !.ready = {s}]
<1>3. Go(k, q) \/ (CanMerge(s) /\ Go(k, r))
  BY <1>2
<1> HIDE DEF p
<1>4. /\ q.at = "inspect" /\ q.job = p.job /\ q.ready = p.ready /\ q.calm = p.calm
      /\ r.at = "merge" /\ r.job = p.job /\ r.ready = {s} /\ r.calm = p.calm
  BY <1>1 DEF WellFormed, Fields
<1> HIDE DEF q, r
<1>5. InTurn(q) /\ (CanMerge(s) => InTurn(r))
  BY <1>1, <1>4 DEF InTurn
<1>6. QED
  BY <1>1, <1>3, <1>5, InTurnGo

LEMMA ResolveInTurn ==
  ASSUME ReadyInv, NEW k \in Processes, Resolve(k)
  PROVE  AllInTurn'
<1> DEFINE p == proc[k]
<1>1. WellFormed(p) /\ InTurn(p) /\ p.at = "merge" /\ UNCHANGED repo
  BY DEF ReadyInv, AllInTurn, TypeInv, NothingLostInv, Resolve, At
<1>2. PICK s \in p.ready :
        LET q == [p EXCEPT !.ready = @ \ {s}] IN
        Go(k, [q EXCEPT !.at = "git", !.cur = s]) \/ Go(k, NextEntry(q))
  BY DEF Resolve
<1> DEFINE q == [p EXCEPT !.ready = @ \ {s}] r == [q EXCEPT !.at = "git", !.cur = s]
<1>3. Go(k, r) \/ Go(k, NextEntry(q))
  BY <1>2
<1> HIDE DEF p
<1>4. /\ WellFormed(q) /\ q.at = "merge" /\ q.job = p.job /\ q.ready = p.ready \ {s}
      /\ q.calm = p.calm
  BY <1>1 DEF WellFormed, Fields
<1> HIDE DEF q
<1>5. /\ r.at = "git" /\ r.job = p.job /\ r.ready = p.ready \ {s} /\ r.calm = p.calm
      /\ r.cur = s
  BY <1>4 DEF WellFormed, Fields
<1> HIDE DEF r
<1>6. InTurn(q) /\ InTurn(r)
  BY <1>1, <1>2, <1>4, <1>5 DEF InTurn
<1>7. QED
  BY <1>1, <1>3, <1>4, <1>6, NextEntryInTurn, InTurnGo

\* Merging an entry leaves the others ready.
LEMMA GitMergeInTurn ==
  ASSUME ReadyInv, NEW k \in Processes, GitMerge(k)
  PROVE  AllInTurn'
<1> DEFINE p == proc[k] s == p.cur r == [p EXCEPT !.at = "remove"]
           q == IF p.job = "keep" THEN NextEntry(p) ELSE r
<1>1. WellFormed(p) /\ InTurn(p) /\ p.at = "git" /\ s \in Sessions /\ p.ready \subseteq Sessions
  BY DEF ReadyInv, AllInTurn, TypeInv, NothingLostInv, GitMerge, At, WellFormed
<1>2. /\ base' = IF ahead[s] = {} THEN base
                 ELSE Append(base, [by |-> s, edits |-> ahead[s]])
      /\ ahead' = [ahead EXCEPT ![s] = {}] /\ UNCHANGED <<disk, dirty, fork>>
      /\ GoAndChange(k, q) /\ DOMAIN ahead = Sessions
  BY DEF GitMerge, ReadyInv, AllInTurn, TypeInv, NothingLostInv
<1>3. ASSUME p.calm, NEW e \in p.ready
      PROVE  CanMerge(e)' /\ \A f \in p.ready : e # f => Apart(e, f)'
  <2>1. e # s /\ Apart(s, e) /\ CanMerge(e) /\ e \in Sessions
    BY <1>1, <1>3 DEF InTurn
  <2>2. CanMerge(e)'
    BY <1>1, <1>2, <2>1, MergedApart DEF ReadyInv
  <2>3. \A f \in p.ready : e # f => Apart(e, f)'
    BY <1>1, <1>2, <1>3 DEF InTurn, Apart
  <2>4. QED
    BY <2>2, <2>3
<1>4. proc'[k] = q
  BY <1>2 DEF GoAndChange
<1> HIDE DEF p
<1>5. /\ q.ready = p.ready /\ q.calm = p.calm /\ q.job = p.job
      /\ q.at \in {"inspect", "merge", "remove"} /\ (q.at = "remove" => q.cur = p.cur)
  BY <1>1 DEF WellFormed, Fields, NextEntry
<1> HIDE DEF q
<1>6. p.calm => p.job # "prune" /\ p.cur \notin p.ready
  BY <1>1 DEF InTurn
<1>7. InTurn(proc[k])'
  BY <1>3, <1>4, <1>5, <1>6 DEF InTurn
<1>8. QED
  BY <1>2, <1>7, InTurnChange

\* The worktree removed is not one of those that wait.
LEMMA RemoveTreeInTurn ==
  ASSUME ReadyInv, NEW k \in Processes, RemoveTree(k)
  PROVE  AllInTurn'
<1> DEFINE p == proc[k] s == p.cur q == [p EXCEPT !.at = "clear"]
<1>1. WellFormed(p) /\ InTurn(p) /\ p.at = "remove" /\ p.ready \subseteq Sessions
  BY DEF ReadyInv, AllInTurn, TypeInv, NothingLostInv, RemoveTree, At, WellFormed
<1>2. /\ disk' = [disk EXCEPT ![s] = FALSE] /\ ahead' = [ahead EXCEPT ![s] = {}]
      /\ dirty' = [dirty EXCEPT ![s] = FALSE] /\ UNCHANGED <<fork, base>>
      /\ GoAndChange(k, q)
  BY DEF RemoveTree
<1>3. ASSUME p.calm, NEW e \in p.ready
      PROVE  CanMerge(e)' /\ \A f \in p.ready : e # f => Apart(e, f)'
  <2>0. s \notin p.ready
    BY <1>1, <1>3 DEF InTurn
  <2>1. /\ \A f \in p.ready : ahead'[f] = ahead[f]
        /\ disk'[e] = disk[e] /\ dirty'[e] = dirty[e]
    BY <1>1, <1>2, <1>3, <2>0 DEF ReadyInv, TypeInv, RepoTypes
  <2>2. Theirs(e)' = Theirs(e)
    BY <1>2 DEF Theirs
  <2>3. CanMerge(e)'
    BY <1>1, <1>3, <2>1, <2>2 DEF InTurn, CanMerge, Conflicted
  <2>4. QED
    BY <1>1, <1>3, <2>1, <2>3 DEF InTurn, Apart
<1>4. proc'[k] = q
  BY <1>2 DEF GoAndChange
<1> HIDE DEF p
<1>5. /\ q.ready = p.ready /\ q.calm = p.calm /\ q.job = p.job
      /\ q.at = "clear" /\ q.cur = p.cur
  BY <1>1 DEF WellFormed, Fields
<1> HIDE DEF q
<1>6. p.calm => p.job # "prune" /\ p.cur \notin p.ready
  BY <1>1 DEF InTurn
<1>7. InTurn(proc[k])'
  BY <1>3, <1>4, <1>5, <1>6 DEF InTurn
<1>8. QED
  BY <1>2, <1>7, InTurnChange

LEMMA ClearInTurn ==
  ASSUME ReadyInv, NEW k \in Processes, clear_worktree(k)
  PROVE  AllInTurn'
<1> DEFINE p == proc[k] n == NextEntry(p)
           q == [p EXCEPT !.at = "prune", !.cur = None]
           r == [n EXCEPT !.merged = p.merged \/ Present(p.cur)]
<1>1. WellFormed(p) /\ InTurn(p) /\ UNCHANGED repo
  BY DEF ReadyInv, AllInTurn, TypeInv, NothingLostInv, clear_worktree
<1>2. (p.job = "prune" /\ Go(k, q)) \/ (p.job # "prune" /\ Go(k, r))
  BY DEF clear_worktree
<1> HIDE DEF p
<1>3. p.job # "prune" => WellFormed(n) /\ InTurn(n)
  BY <1>1, NextEntryForm, NextEntryInTurn
<1>4. p.job = "prune" => InTurn(q)
  <2>1. q.calm = p.calm
    BY <1>1 DEF WellFormed, Fields
  <2>2. QED
    BY <1>1, <2>1 DEF InTurn
<1> HIDE DEF n
<1>5. p.job # "prune" =>
        /\ r.at = n.at /\ r.job = n.job /\ r.ready = n.ready /\ r.calm = n.calm
        /\ r.cur = n.cur
  BY <1>3 DEF WellFormed, Fields
<1> HIDE DEF q, r
<1>6. p.job # "prune" => InTurn(r)
  BY <1>3, <1>5 DEF InTurn
<1>7. QED
  BY <1>1, <1>2, <1>4, <1>6, InTurnGo

\* What goes on outside the rounds is not calm.
LEMMA RebasingInTurn ==
  ASSUME ReadyInv, NEW k \in Processes,
         PickRebase(k) \/ RebaseFails(k) \/ Prune(k) \/ Pruned(k) \/ Finish(k)
  PROVE  AllInTurn'
<1> DEFINE p == proc[k]
<1>1. WellFormed(p) /\ InTurn(p) /\ UNCHANGED repo
  BY DEF ReadyInv, AllInTurn, TypeInv, NothingLostInv, PickRebase, RebaseFails, Prune, Pruned, Finish
<1>2. CASE Finish(k)
  BY <1>1, <1>2, LeaveInTurn DEF Finish
<1>3. CASE PickRebase(k) \/ RebaseFails(k) \/ Prune(k) \/ Pruned(k)
  <2>1. ~p.calm
    BY <1>1, <1>3 DEF InTurn, PickRebase, RebaseFails, Prune, Pruned, At
  <2>2. Leave(k) \/ Go(k, Idle) \/ \E q : Go(k, q) /\ ~q.calm
    <3>1. CASE PickRebase(k)
      <4>1. PICK s \in p.stuck :
              LET q == [p EXCEPT !.stuck = @ \ {s}] IN
              \/ Leave(k) \/ Go(k, q)
              \/ Go(k, [q EXCEPT !.at = "onto", !.cur = s,
                                 !.tried = @ \cup {<<s, Len(base)>>}])
        BY <3>1 DEF PickRebase
      <4> DEFINE q == [p EXCEPT !.stuck = @ \ {s}]
                 r == [q EXCEPT !.at = "onto", !.cur = s,
                                !.tried = @ \cup {<<s, Len(base)>>}]
      <4>2. Leave(k) \/ Go(k, q) \/ Go(k, r)
        BY <4>1
      <4> HIDE DEF p
      <4>3. ~q.calm /\ ~r.calm
        BY <1>1, <2>1 DEF WellFormed, Fields
      <4>4. QED
        BY <4>2, <4>3
    <3>2. CASE RebaseFails(k)
      <4> DEFINE q == [p EXCEPT !.at = "rebase", !.cur = None]
      <4>1. Go(k, q)
        BY <3>2 DEF RebaseFails
      <4> HIDE DEF p
      <4>2. ~q.calm
        BY <1>1, <2>1 DEF WellFormed, Fields
      <4>3. QED
        BY <4>1, <4>2
    <3>3. CASE Prune(k)
      <4>1. PICK s \in p.todo :
              LET q == [p EXCEPT !.todo = @ \ {s}] IN
              Go(k, Idle) \/ Go(k, [q EXCEPT !.at = "remove", !.cur = s]) \/ Go(k, q)
        BY <3>3 DEF Prune
      <4> DEFINE q == [p EXCEPT !.todo = @ \ {s}] r == [q EXCEPT !.at = "remove", !.cur = s]
      <4>2. Go(k, Idle) \/ Go(k, q) \/ Go(k, r)
        BY <4>1
      <4> HIDE DEF p
      <4>3. ~q.calm /\ ~r.calm
        BY <1>1, <2>1 DEF WellFormed, Fields
      <4>4. QED
        BY <4>2, <4>3
    <3>4. CASE Pruned(k)
      BY <3>4 DEF Pruned
    <3>5. QED
      BY <1>3, <3>1, <3>2, <3>3, <3>4
  <2>3. \A q : ~q.calm => InTurn(q)
    BY DEF InTurn
  <2>4. QED
    BY <1>1, <2>2, <2>3, IdleInTurn, LeaveInTurn, InTurnGo
<1>4. QED
  BY <1>2, <1>3

LEMMA MergedInTurn ==
  ASSUME ReadyInv, NEW k \in Processes, Merged(k) \/ GitMergeFails(k)
  PROVE  AllInTurn'
<1> DEFINE p == proc[k] q == [p EXCEPT !.at = "rebase", !.calm = FALSE]
<1>1. WellFormed(p) /\ InTurn(p) /\ p.job # "prune" /\ UNCHANGED repo
  BY DEF ReadyInv, AllInTurn, TypeInv, NothingLostInv, WellFormed, Merged, GitMergeFails, At
<1>2. Go(k, NextEntry(p)) \/ Go(k, Round(p)) \/ Leave(k) \/ Go(k, q)
  BY DEF Merged, GitMergeFails
<1> HIDE DEF p
<1>3. ~q.calm
  BY <1>1 DEF WellFormed, Fields
<1> HIDE DEF q
<1>4. InTurn(q) /\ InTurn(Round(p)) /\ InTurn(NextEntry(p))
  BY <1>1, <1>3, RoundInTurn, NextEntryInTurn DEF InTurn
<1>5. QED
  BY <1>1, <1>2, <1>4, LeaveInTurn, InTurnGo

LEMMA RebaseInTurn ==
  ASSUME ReadyInv, NEW k \in Processes, Rebase(k)
  PROVE  AllInTurn'
<1>1. WellFormed(proc[k]) /\ proc[k].job # "prune" /\ GoAndChange(k, Round(proc[k]))
  BY DEF ReadyInv, AllInTurn, TypeInv, NothingLostInv, WellFormed, Rebase, At
<1>2. proc'[k] = Round(proc[k]) /\ Round(proc[k]).ready = {}
      /\ Round(proc[k]).at \in {"inspect", "merge"} /\ Round(proc[k]).job # "prune"
  BY <1>1, RoundForm DEF GoAndChange, WellFormed, Fields, Round, Inspected
<1>3. InTurn(proc[k])'
  BY <1>2 DEF InTurn
<1>4. QED
  BY <1>1, <1>3, InTurnChange

LEMMA StartInTurn ==
  ASSUME ReadyInv, NEW k \in Processes,
         StartPrune(k) \/ \E j \in {"daemon", "merge", "keep"} : StartQueue(k, j)
  PROVE  AllInTurn'
<1>1. CASE StartPrune(k)
  BY <1>1, IdleInTurn, InTurnGo DEF StartPrune, Start
<1>2. ASSUME NEW j \in {"daemon", "merge", "keep"}, StartQueue(k, j)
      PROVE  AllInTurn'
  <2> DEFINE p == [Idle EXCEPT !.job = j]
  <2>1. WellFormed(p) /\ p.job # "prune"
    BY IdleForm DEF WellFormed, Fields
  <2>2. Go(k, Round(p)) /\ UNCHANGED repo
    BY <1>2 DEF StartQueue, Start
  <2> HIDE DEF p
  <2>3. QED
    BY <2>1, <2>2, RoundInTurn, InTurnGo
<1>3. QED
  BY <1>1, <1>2

LEMMA EnvironmentInTurn ==
  ASSUME ReadyInv, Environment
  PROVE  AllInTurn'
<1>1. CASE GoAndChange(None, Idle)
  BY <1>1, InTurnChange, QueueAssumption DEF QueueAssumption
<1>2. CASE UNCHANGED <<repo, proc>>
  BY <1>2 DEF ReadyInv, AllInTurn, InTurn, Apart, CanMerge, Conflicted, Theirs, repo
<1>3. ASSUME NEW k \in Processes, Crash(k)
      PROVE  AllInTurn'
  BY <1>3, IdleInTurn, InTurnGo DEF Crash
<1>4. QED
  BY <1>1, <1>2, <1>3 DEF Environment, Work, delete_session, Turn, CommitToBase

LEMMA ReadyStep ==
  ASSUME ReadyInv, [Next]_vars
  PROVE  ReadyInv'
<1>1. TypeInv'
  BY TypeStep DEF ReadyInv
<1> SUFFICES AllInTurn'
  BY <1>1 DEF ReadyInv
<1>2. ASSUME NEW k \in Processes, Step(k) PROVE AllInTurn'
  BY <1>2, InspectInTurn, InspectKeptInTurn, ResolveInTurn, GitMergeInTurn,
     RemoveTreeInTurn, ClearInTurn, RebasingInTurn, MergedInTurn, RebaseInTurn DEF Step
<1>3. CASE Loop
  BY <1>3, StartInTurn DEF Loop, Processes
<1>4. ASSUME NEW k \in Clients, StartPrune(k) \/ \E j \in {"merge", "keep"} : StartQueue(k, j)
      PROVE  AllInTurn'
  BY <1>4, StartInTurn DEF Processes
<1>5. CASE UNCHANGED vars
  BY <1>5 DEF vars, repo, ReadyInv, AllInTurn, InTurn, Apart, CanMerge, Conflicted, Theirs
<1>6. QED
  BY <1>2, <1>3, <1>4, <1>5, EnvironmentInTurn DEF Next

\* The entries the queue calls ready can be merged one after the other: what
\* merge_session_worktree is about to merge in a round nobody has disturbed
\* exists, is clean and does not conflict with the base as it is by then, with
\* everything the round has merged into it before, for any number of sessions,
\* processes, lines and commits.
THEOREM ReadyOnesMerge == Spec => []ReadyEntriesMerge
<1>1. ReadyInv => ReadyEntriesMerge
  BY DEF ReadyInv, AllInTurn, ReadyEntriesMerge, InTurn, At
<1>2. ReadyInv /\ [Next]_vars => ReadyInv'
  BY ReadyStep
<1>3. Init => ReadyInv
  BY TypeInit, IdleInTurn DEF Init, ReadyInv, AllInTurn
<1>4. QED
  BY <1>1, <1>2, <1>3, PTL DEF Spec
=============================================================================
