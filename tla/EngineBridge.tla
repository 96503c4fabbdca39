---------------------------- MODULE EngineBridge ----------------------------
(***************************************************************************)
(* The security loop as executable work: workflow runs kept by the Convex  *)
(* backend (workflow.ts, crons.ts, findings.ts) and the Python engines     *)
(* (orchestrator.py) that poll, claim, execute and resolve them over HTTP. *)
(*                                                                         *)
(* A Convex mutation is a serializable transaction, so a request is        *)
(* handled in one step.  The engine waits 30 seconds for the answer; a     *)
(* request it gave up on may still reach the backend later, or never.      *)
(***************************************************************************)
EXTENDS Naturals, FiniteSets

CONSTANTS
  Runs,      \* ids of the rows of workflowRuns (bounds the runs ever queued)
  Projects,  \* repositories
  Engines,   \* processes running orchestrator.py
  Findings,  \* finding ids the validators can produce
  None,      \* no run, no project, no engine, no count
  Faults     \* what may go wrong: "timeout", "error", "crash"

ASSUME BridgeAssumption ==
  /\ IsFiniteSet(Findings)
  /\ None \notin Runs \cup Projects \cup Engines \cup Findings \cup Nat
  /\ Faults \subseteq {"timeout", "error", "crash"}

VARIABLES
  status,   \* workflowRuns.status, "none" before the row exists
  project,  \* workflowRuns.projectId
  byCron,   \* the run was queued by the daily job
  stamp,    \* workflowRuns.engineRunId
  count,    \* workflowRuns.findingsIngested
  known,    \* rows of the projects table; some may be older than any run
  payload,  \* findings table: the run whose payload a finding holds
  landed,   \* history: the findings stored for a run
  pc,       \* where an engine is in poll_pass / handle_run
  todo,     \* the polled runs the engine has not handled yet
  cur,      \* the run it is handling
  left,     \* findings validate() returned that are not pushed yet
  pushed,   \* findings whose push was acknowledged
  req,      \* the engine's HTTP request in flight
  rep,      \* the answer on its way back
  late      \* requests whose engine no longer waits for the answer

rowVars == <<status, project, byCron, stamp, count, known>>
dataVars == <<payload, landed>>
engineVars == <<pc, todo, cur, left, pushed>>
netVars == <<req, rep, late>>
vars == <<rowVars, dataVars, engineVars, netVars>>

NoReq == [kind |-> "none", by |-> None, run |-> None, finding |-> None,
          ok |-> FALSE, n |-> None]
NoRep == [result |-> "none", runs |-> {}, finding |-> None]

Init ==
  /\ status = [r \in Runs |-> "none"]
  /\ project = [r \in Runs |-> None]
  /\ byCron = [r \in Runs |-> FALSE]
  /\ stamp = [r \in Runs |-> None]
  /\ count = [r \in Runs |-> None]
  /\ known \in SUBSET Projects
  /\ payload = [f \in Findings |-> None]
  /\ landed = [r \in Runs |-> {}]
  /\ pc = [e \in Engines |-> "idle"]
  /\ todo = [e \in Engines |-> {}]
  /\ cur = [e \in Engines |-> None]
  /\ left = [e \in Engines |-> {}]
  /\ pushed = [e \in Engines |-> {}]
  /\ req = [e \in Engines |-> NoReq]
  /\ rep = [e \in Engines |-> NoRep]
  /\ late = {}

(***************************************************************************)
(* Queueing: the panel's startRun and the daily job.                       *)
(***************************************************************************)
Active(r) == status[r] \in {"queued", "running"}
Unborn == {r \in Runs : status[r] = "none"}

startRun(r, p) ==
  /\ r \in Unborn
  /\ status' = [status EXCEPT ![r] = "queued"]
  /\ project' = [project EXCEPT ![r] = p]
  /\ known' = known \cup {p}
  /\ UNCHANGED <<byCron, stamp, count, dataVars, engineVars, netVars>>

\* Mutant: the job looks only at runs nobody has claimed yet.
UnclaimedOnly == {p \in known : \E r \in Runs : status[r] = "queued" /\ project[r] = p}

Busy == {p \in known : \E r \in Runs : Active(r) /\ project[r] = p}

\* One revalidation for every known project without an active run.
queueDailyRevalidations(N, g) ==
  /\ known \ Busy # {}
  /\ N \subseteq Unborn
  /\ \A p \in known \ Busy : \E r \in N : g[r] = p
  /\ \A q, r \in N : g[q] = g[r] => q = r
  /\ status' = [r \in Runs |-> IF r \in N THEN "queued" ELSE status[r]]
  /\ project' = [r \in Runs |-> IF r \in N THEN g[r] ELSE project[r]]
  /\ byCron' = [r \in Runs |-> r \in N \/ byCron[r]]
  /\ UNCHANGED <<stamp, count, known, dataVars, engineVars, netVars>>

(***************************************************************************)
(* The backend's handlers, one transaction each.                           *)
(***************************************************************************)

\* Mutant: the claim does not look at the status.
claimUnguarded(m, result) ==
  /\ m.kind = "claim"
  /\ result = "granted"
  /\ status' = [status EXCEPT ![m.run] = "running"]
  /\ stamp' = [stamp EXCEPT ![m.run] = m.by]
  /\ UNCHANGED <<project, byCron, count, known, dataVars>>

claimForEngine(m, result) ==
  /\ m.kind = "claim"
  /\ \/ /\ status[m.run] = "queued"
        /\ result = "granted"
        /\ status' = [status EXCEPT ![m.run] = "running"]
        /\ stamp' = [stamp EXCEPT ![m.run] = m.by]
     \/ /\ status[m.run] # "queued"
        /\ result = "refused"
        /\ UNCHANGED <<status, stamp>>
  /\ UNCHANGED <<project, byCron, count, known, dataVars>>

\* upsertFinding replaces the stored payload by this run's.
ingestFromEngine(m, result) ==
  /\ m.kind = "ingest"
  /\ result = "ok"
  /\ payload' = [payload EXCEPT ![m.finding] = m.run]
  /\ landed' = [landed EXCEPT ![m.run] = @ \cup {m.finding}]
  /\ known' = known \cup {project[m.run]}
  /\ UNCHANGED <<status, project, byCron, stamp, count>>

\* resolveRun does not look at the status.  The engine sends no engineRunId
\* with the outcome, and patching with undefined removes the field.
resolveRun(m, result) ==
  /\ m.kind = "resolve"
  /\ result = "ok"
  /\ status' = [status EXCEPT ![m.run] = IF m.ok THEN "completed" ELSE "failed"]
  /\ count' = [count EXCEPT ![m.run] = m.n]
  /\ stamp' = [stamp EXCEPT ![m.run] = None]
  /\ known' = known \cup {project[m.run]}
  /\ UNCHANGED <<project, byCron, dataVars>>

pendingForEngine(m, result) ==
  /\ m.kind = "pending"
  /\ result = "ok"
  /\ UNCHANGED <<rowVars, dataVars>>

Handle(m, result) ==
  \/ pendingForEngine(m, result) \/ claimForEngine(m, result)
  \/ ingestFromEngine(m, result) \/ resolveRun(m, result)

Results == {"ok", "granted", "refused"}
Queued == {r \in Runs : status[r] = "queued"}

Serve(e) ==
  /\ req[e] # NoReq
  /\ \E result \in Results :
       /\ Handle(req[e], result)
       /\ rep' = [rep EXCEPT ![e] = [result |-> result, runs |-> Queued,
                                     finding |-> req[e].finding]]
  /\ req' = [req EXCEPT ![e] = NoReq]
  /\ UNCHANGED <<engineVars, late>>

\* An HTTP error status: the mutation threw and was rolled back.
ServeFails(e) ==
  /\ "error" \in Faults
  /\ req[e] # NoReq
  /\ rep' = [rep EXCEPT ![e] = [result |-> "error", runs |-> {},
                                finding |-> req[e].finding]]
  /\ req' = [req EXCEPT ![e] = NoReq]
  /\ UNCHANGED <<rowVars, dataVars, engineVars, late>>

ServeLate(m) ==
  /\ m \in late
  /\ \E result \in Results : Handle(m, result)
  /\ late' = late \ {m}
  /\ UNCHANGED <<engineVars, req, rep>>

LoseLate(m) ==
  /\ m \in late
  /\ late' = late \ {m}
  /\ UNCHANGED <<rowVars, dataVars, engineVars, req, rep>>

(***************************************************************************)
(* The engine.  A pass handles the runs of one poll, oldest first (any     *)
(* order here); the approvals and revalidations it polls are only logged.  *)
(***************************************************************************)
Goto(e, l) == pc' = [pc EXCEPT ![e] = l]

Send(e, kind, r, f, ok, n) ==
  /\ req' = [req EXCEPT ![e] = [kind |-> kind, by |-> e, run |-> r,
                                finding |-> f, ok |-> ok, n |-> n]]
  /\ UNCHANGED <<rep, late>>

Answered(e, l, results) == pc[e] = l /\ rep[e].result \in results

Consume(e) ==
  /\ rep' = [rep EXCEPT ![e] = NoRep]
  /\ UNCHANGED <<req, late>>

backend == <<rowVars, dataVars>>

Poll(e) ==
  /\ pc[e] = "idle"
  /\ Send(e, "pending", None, None, FALSE, None)
  /\ Goto(e, "polling")
  /\ UNCHANGED <<backend, todo, cur, left, pushed>>

Polled(e) ==
  /\ Answered(e, "polling", {"ok"})
  /\ todo' = [todo EXCEPT ![e] = rep[e].runs]
  /\ Goto(e, "next")
  /\ Consume(e)
  /\ UNCHANGED <<backend, cur, left, pushed>>

PollFailed(e) ==
  /\ Answered(e, "polling", {"error"})
  /\ Goto(e, "idle")
  /\ Consume(e)
  /\ UNCHANGED <<backend, todo, cur, left, pushed>>

ClaimNext(e, r) ==
  /\ pc[e] = "next"
  /\ r \in todo[e]
  /\ todo' = [todo EXCEPT ![e] = @ \ {r}]
  /\ cur' = [cur EXCEPT ![e] = r]
  /\ Send(e, "claim", r, None, FALSE, None)
  /\ Goto(e, "claiming")
  /\ UNCHANGED <<backend, left, pushed>>

PassEnds(e) ==
  /\ pc[e] = "next"
  /\ todo[e] = {}
  /\ Goto(e, "idle")
  /\ UNCHANGED <<backend, todo, cur, left, pushed, netVars>>

Claimed(e) ==
  /\ Answered(e, "claiming", {"granted"})
  /\ Goto(e, "working")
  /\ Consume(e)
  /\ UNCHANGED <<backend, todo, cur, left, pushed>>

NotClaimed(e) ==
  /\ Answered(e, "claiming", {"refused", "error"})
  /\ Goto(e, "next")
  /\ Consume(e)
  /\ UNCHANGED <<backend, todo, cur, left, pushed>>

\* Mutant: a run whose target cannot be fetched is skipped, not resolved.
SkipUnfetchable(e) ==
  /\ pc[e] = "working"
  /\ Goto(e, "next")
  /\ UNCHANGED <<backend, todo, cur, left, pushed, netVars>>

\* A dry run, a failed fetch or an empty target: resolved as failed, with
\* nothing pushed.
NothingToValidate(e) ==
  /\ pc[e] = "working"
  /\ Send(e, "resolve", cur[e], None, FALSE, 0)
  /\ Goto(e, "resolving")
  /\ UNCHANGED <<backend, todo, cur, left, pushed>>

\* validate() returns findings with distinct ids, possibly none.
Validate(e, F) ==
  /\ pc[e] = "working"
  /\ left' = [left EXCEPT ![e] = F]
  /\ pushed' = [pushed EXCEPT ![e] = {}]
  /\ Goto(e, "pushing")
  /\ UNCHANGED <<backend, todo, cur, netVars>>

Push(e, f) ==
  /\ pc[e] = "pushing"
  /\ f \in left[e]
  /\ left' = [left EXCEPT ![e] = @ \ {f}]
  /\ Send(e, "ingest", cur[e], f, FALSE, None)
  /\ Goto(e, "ingesting")
  /\ UNCHANGED <<backend, todo, cur, pushed>>

\* Mutant: a push that failed is counted with the others.
CountAnyPush(e) ==
  /\ Answered(e, "ingesting", {"ok", "error"})
  /\ pushed' = [pushed EXCEPT ![e] = @ \cup {rep[e].finding}]
  /\ Goto(e, "pushing")
  /\ Consume(e)
  /\ UNCHANGED <<backend, todo, cur, left>>

\* One bad finding must not kill the run: an error answer is recorded.
PushAnswered(e) ==
  /\ Answered(e, "ingesting", {"ok", "error"})
  /\ pushed' = [pushed EXCEPT ![e] =
                  IF rep[e].result = "ok" THEN @ \cup {rep[e].finding} ELSE @]
  /\ Goto(e, "pushing")
  /\ Consume(e)
  /\ UNCHANGED <<backend, todo, cur, left>>

Resolve(e) ==
  /\ pc[e] = "pushing"
  /\ left[e] = {}
  /\ Send(e, "resolve", cur[e], None, TRUE, Cardinality(pushed[e]))
  /\ Goto(e, "resolving")
  /\ UNCHANGED <<backend, todo, cur, left, pushed>>

Resolved(e) ==
  /\ Answered(e, "resolving", {"ok"})
  /\ Goto(e, "next")
  /\ Consume(e)
  /\ UNCHANGED <<backend, todo, cur, left, pushed>>

\* An exception nobody on the way catches ends the pass: the main loop logs
\* it and polls again, the claimed run and the rest of the poll forgotten.
Abandon(e) ==
  /\ Goto(e, "idle")
  /\ todo' = [todo EXCEPT ![e] = {}]
  /\ cur' = [cur EXCEPT ![e] = None]
  /\ left' = [left EXCEPT ![e] = {}]
  /\ pushed' = [pushed EXCEPT ![e] = {}]

ResolveFailed(e) ==
  /\ Answered(e, "resolving", {"error"})
  /\ Abandon(e)
  /\ Consume(e)
  /\ UNCHANGED backend

\* The request in flight outlives the engine's wait for it.
Orphan(e) ==
  /\ late' = IF req[e] = NoReq THEN late ELSE late \cup {req[e]}
  /\ req' = [req EXCEPT ![e] = NoReq]
  /\ rep' = [rep EXCEPT ![e] = NoRep]

\* urlopen raises URLError or a timeout, which api() does not turn into the
\* RuntimeError the callers catch; the answer may have been on its way.
TimeOut(e) ==
  /\ "timeout" \in Faults
  /\ req[e] # NoReq \/ rep[e] # NoRep
  /\ Abandon(e)
  /\ Orphan(e)
  /\ UNCHANGED backend

\* The engine process dies and is started again.
Crash(e) ==
  /\ "crash" \in Faults
  /\ pc[e] # "idle"
  /\ Abandon(e)
  /\ Orphan(e)
  /\ UNCHANGED backend

EngineStep(e) ==
  \/ Poll(e) \/ Polled(e) \/ PollFailed(e) \/ PassEnds(e)
  \/ \E r \in Runs : ClaimNext(e, r)
  \/ Claimed(e) \/ NotClaimed(e)
  \/ NothingToValidate(e)
  \/ \E F \in SUBSET Findings : Validate(e, F)
  \/ \E f \in Findings : Push(e, f)
  \/ PushAnswered(e) \/ Resolve(e) \/ Resolved(e) \/ ResolveFailed(e)

Queueing ==
  \/ \E r \in Runs, p \in Projects : startRun(r, p)
  \/ \E N \in SUBSET Runs : \E g \in [N -> known \ Busy] :
       queueDailyRevalidations(N, g)

Next ==
  \/ Queueing
  \/ \E e \in Engines : EngineStep(e) \/ Serve(e) \/ ServeFails(e)
                           \/ TimeOut(e) \/ Crash(e)
  \/ \E m \in late : ServeLate(m) \/ LoseLate(m)

Spec == Init /\ [][Next]_vars

(***************************************************************************)
(* Fairness: an engine keeps executing and the backend answers what it is  *)
(* asked.  Nothing obliges anyone to queue a run, or a late request to     *)
(* arrive.                                                                 *)
(***************************************************************************)
Fairness == \A e \in Engines : WF_vars(EngineStep(e)) /\ WF_vars(Serve(e))

FairSpec == Spec /\ Fairness

(***************************************************************************)
(* Properties.                                                             *)
(***************************************************************************)
Statuses == {"none", "queued", "running", "completed", "failed"}
Pcs == {"idle", "polling", "next", "claiming", "working", "pushing",
        "ingesting", "resolving"}
Counts == 0 .. Cardinality(Findings)
Requests ==
  [kind : {"pending", "claim", "ingest", "resolve"}, by : Engines,
   run : Runs \cup {None}, finding : Findings \cup {None}, ok : BOOLEAN,
   n : Counts \cup {None}]
Replies ==
  [result : Results \cup {"none", "error"}, runs : SUBSET Runs,
   finding : Findings \cup {None}]

TypeOK ==
  /\ status \in [Runs -> Statuses]
  /\ project \in [Runs -> Projects \cup {None}]
  /\ byCron \in [Runs -> BOOLEAN]
  /\ stamp \in [Runs -> Engines \cup {None}]
  /\ count \in [Runs -> Counts \cup {None}]
  /\ known \subseteq Projects
  /\ payload \in [Findings -> Runs \cup {None}]
  /\ landed \in [Runs -> SUBSET Findings]
  /\ pc \in [Engines -> Pcs]
  /\ todo \in [Engines -> SUBSET Runs]
  /\ cur \in [Engines -> Runs \cup {None}]
  /\ left \in [Engines -> SUBSET Findings]
  /\ pushed \in [Engines -> SUBSET Findings]
  /\ req \in [Engines -> Requests \cup {NoReq}]
  /\ rep \in [Engines -> Replies]
  /\ late \subseteq Requests

\* Between the grant of a claim and the outcome of the run an engine holds
\* the right to settle it: it has the grant, works on the run, or has sent an
\* outcome that the backend has not handled.
Holds(e, r) ==
  /\ cur[e] = r
  /\ \/ pc[e] = "claiming" /\ rep[e].result = "granted"
     \/ pc[e] \in {"working", "pushing", "ingesting"}
     \/ pc[e] = "resolving" /\ req[e].kind = "resolve"

\* No two engines ever work on the same run, however polls, claims, timeouts
\* and claims the backend handles late interleave.
ClaimIsExclusive ==
  \A r \in Runs : \A d, e \in Engines : Holds(d, r) /\ Holds(e, r) => d = e

\* The count a completed run reports is the number of its findings that the
\* backend stored, although acknowledgements are lost and pushes arrive late.
CountIsExact ==
  \A r \in Runs : status[r] = "completed" => count[r] = Cardinality(landed[r])

\* A run that was resolved as failed (dry run, nothing fetched) has stored no
\* finding, and never will.
FailedRunsPushNothing ==
  \A r \in Runs : status[r] = "failed" => landed[r] = {}

\* What a settled run reports is what it stored, whatever was lost or came late.
OutcomesAreTrue == CountIsExact /\ FailedRunsPushNothing

\* The daily job never has two of its runs active for one project
\* (crons.ts: "De-duped per project").
OneScheduledRun ==
  \A q, r \in Runs : byCron[q] /\ byCron[r] /\ Active(q) /\ Active(r)
    /\ project[q] = project[r] => q = r

\* Runs as the panel sees them: queued, claimed and settled once each.
Lifecycle == INSTANCE RunLifecycle
  WITH Outcomes <- {"completed", "failed"}, NoCount <- None

RunsFollowTheirLifecycle == Lifecycle!LSpec

\* QueuedRunsEnd, for behaviours without faults, is stated in MCEngineBridge.
=============================================================================
