------------------------- MODULE EngineBridgeProofs -------------------------
EXTENDS EngineBridge, FiniteSetTheorems, TLAPS

(***************************************************************************)
(* The conversation of one engine with the backend: what is in flight at   *)
(* each place of handle_run, and which run it is about.                    *)
(***************************************************************************)
Quiet(e) == req[e] = NoReq /\ rep[e] = NoRep

Asks(e, kind) ==
  /\ req[e] \in Requests /\ req[e].kind = kind /\ req[e].run = cur[e]
  /\ rep[e] = NoRep

Answers(e, results) == req[e] = NoReq /\ rep[e].result \in results

Conversation(e) ==
  /\ pc[e] \in {"idle", "next", "working", "pushing"} => Quiet(e)
  /\ pc[e] = "polling" =>
       \/ req[e].kind = "pending" /\ rep[e] = NoRep
       \/ Answers(e, {"ok", "error"})
  /\ pc[e] = "claiming" =>
       \/ Asks(e, "claim") /\ req[e].by = e
       \/ Answers(e, {"granted", "refused", "error"})
  /\ pc[e] = "ingesting" =>
       \/ Asks(e, "ingest") /\ req[e].finding \in Findings
       \/ Answers(e, {"ok", "error"}) /\ rep[e].finding \in Findings
  /\ pc[e] = "resolving" =>
       \/ Asks(e, "resolve") /\ req[e].n \in Counts
       \/ Answers(e, {"ok", "error"})
  /\ pc[e] \in {"claiming", "working", "pushing", "ingesting", "resolving"}
       => cur[e] \in Runs

LateShape(m) ==
  /\ m.kind # "pending" => m.run \in Runs
  /\ m.kind = "ingest" => m.finding \in Findings
  /\ m.kind = "resolve" => m.n \in Counts

Talk == (\A e \in Engines : Conversation(e)) /\ (\A m \in late : LateShape(m))

(***************************************************************************)
(* The right to settle a run.  It is created by the grant of the claim and *)
(* has at most one holder: an engine, or an outcome sent by an engine that *)
(* no longer waits.  A push that arrives late belongs to a run whose right *)
(* is lost, so that run is never settled and its count never reported.     *)
(***************************************************************************)
LateOutcome(m, r) == m \in late /\ m.kind = "resolve" /\ m.run = r
LatePush(m, r) == m \in late /\ m.kind = "ingest" /\ m.run = r

HeldIsRunning ==
  \A e \in Engines, r \in Runs : Holds(e, r) => status[r] = "running"

LateOutcomeIsAlone ==
  \A m \in late, r \in Runs : LateOutcome(m, r) =>
    /\ status[r] = "running"
    /\ \A e \in Engines : ~Holds(e, r)
    /\ \A k \in late : LateOutcome(k, r) => k = m

LatePushIsLost ==
  \A m \in late, r \in Runs : LatePush(m, r) =>
    /\ status[r] = "running"
    /\ \A e \in Engines : ~Holds(e, r)
    /\ \A k \in late : ~LateOutcome(k, r)

\* What an outcome reports about the findings of its run.
Truthful(m) ==
  IF m.ok THEN m.n = Cardinality(landed[m.run]) ELSE landed[m.run] = {}

\* What the engine holding a run knows of the findings stored for it.
LedgerOf(e, r) ==
  /\ pc[e] \in {"claiming", "working"} => landed[r] = {}
  /\ pc[e] = "pushing" => landed[r] = pushed[e]
  /\ pc[e] = "ingesting" =>
       landed[r] = IF rep[e].result = "ok" THEN pushed[e] \cup {rep[e].finding}
                                           ELSE pushed[e]
  /\ pc[e] = "resolving" => Truthful(req[e])

Ledger ==
  \A e \in Engines, r \in Runs : Holds(e, r) => LedgerOf(e, r)

LateLedger == \A m \in late, r \in Runs : LateOutcome(m, r) => Truthful(m)

Untouched ==
  \A r \in Runs : status[r] \in {"none", "queued"} => landed[r] = {}

\* A run that was queued belongs to a project, so the handlers that touch
\* the run's project touch one.
Owned == \A r \in Runs : status[r] # "none" => project[r] \in Projects

BridgeInv ==
  /\ HeldIsRunning /\ ClaimIsExclusive
  /\ LateOutcomeIsAlone /\ LatePushIsLost
  /\ Ledger /\ LateLedger /\ Untouched
  /\ CountIsExact /\ FailedRunsPushNothing

IndInv == TypeOK /\ Owned /\ Talk /\ BridgeInv

LEMMA CountsOfFindings ==
  ASSUME NEW F \in SUBSET Findings
  PROVE  Cardinality(F) \in Counts
<1>1. IsFiniteSet(F) /\ Cardinality(F) <= Cardinality(Findings)
  BY FS_Subset, BridgeAssumption
<1>2. Cardinality(F) \in Nat /\ Cardinality(Findings) \in Nat
  BY <1>1, FS_CardinalityType, BridgeAssumption
<1> QED
  BY <1>1, <1>2 DEF Counts

LEMMA ZeroIsACount == 0 \in Counts
  BY FS_EmptySet, CountsOfFindings

-----------------------------------------------------------------------------
(***************************************************************************)
(* Steps of an engine: the backend stands still.                           *)
(***************************************************************************)
Moves(e) == EngineStep(e) \/ TimeOut(e) \/ Crash(e)

LEMMA EngineTypes ==
  ASSUME TypeOK, Talk, NEW e \in Engines, Moves(e)
  PROVE  TypeOK'
<1>1. CASE Poll(e)
  BY <1>1 DEF Poll, Send, Goto, TypeOK, Pcs, rowVars, dataVars, netVars, backend, Requests
<1>2. CASE Polled(e)
  BY <1>2 DEF Polled, Consume, Answered, Goto, TypeOK, Pcs, rowVars, dataVars, netVars, backend, Replies, NoRep
<1>3. CASE PollFailed(e)
  BY <1>3 DEF PollFailed, Consume, Answered, Goto, TypeOK, Pcs, rowVars, dataVars, netVars, backend, Replies, NoRep
<1>4. CASE PassEnds(e)
  BY <1>4 DEF PassEnds, Goto, TypeOK, Pcs, rowVars, dataVars, netVars, backend
<1>5. CASE Claimed(e)
  BY <1>5 DEF Claimed, Consume, Answered, Goto, TypeOK, Pcs, rowVars, dataVars, netVars, backend, Replies, NoRep
<1>6. CASE NotClaimed(e)
  BY <1>6 DEF NotClaimed, Consume, Answered, Goto, TypeOK, Pcs, rowVars, dataVars, netVars, backend, Replies, NoRep
<1>7. CASE NothingToValidate(e)
  BY <1>7, ZeroIsACount DEF NothingToValidate, Send, Goto, TypeOK, Pcs, rowVars, dataVars, netVars, backend, Requests
<1>8. CASE PushAnswered(e)
  BY <1>8 DEF PushAnswered, Consume, Answered, Goto, TypeOK, Pcs, rowVars, dataVars, netVars, backend, Replies, NoRep, Talk, Conversation, Answers, Quiet, Asks, NoReq, Requests
<1>9. CASE Resolve(e)
  BY <1>9, CountsOfFindings DEF Resolve, Send, Goto, TypeOK, Pcs, rowVars, dataVars, netVars, backend, Requests
<1>10. CASE Resolved(e)
  BY <1>10 DEF Resolved, Consume, Answered, Goto, TypeOK, Pcs, rowVars, dataVars, netVars, backend, Replies, NoRep
<1>11. CASE ResolveFailed(e)
  BY <1>11 DEF ResolveFailed, Consume, Answered, Abandon, Goto, TypeOK, Pcs, rowVars, dataVars, netVars, backend, Replies, NoRep
<1>12. CASE TimeOut(e)
  BY <1>12 DEF TimeOut, Abandon, Orphan, Goto, TypeOK, Pcs, rowVars, dataVars, netVars, backend, Replies, NoRep
<1>13. CASE Crash(e)
  BY <1>13 DEF Crash, Abandon, Orphan, Goto, TypeOK, Pcs, rowVars, dataVars, netVars, backend, Replies, NoRep
<1>14. ASSUME NEW r \in Runs, ClaimNext(e, r) PROVE TypeOK'
  BY <1>14 DEF ClaimNext, Send, Goto, TypeOK, Pcs, rowVars, dataVars, netVars, backend, Requests
<1>15. ASSUME NEW F \in SUBSET Findings, Validate(e, F) PROVE TypeOK'
  BY <1>15 DEF Validate, Goto, TypeOK, Pcs, rowVars, dataVars, netVars, backend
<1>16. ASSUME NEW f \in Findings, Push(e, f) PROVE TypeOK'
  BY <1>16 DEF Push, Send, Goto, TypeOK, Pcs, rowVars, dataVars, netVars, backend, Requests
<1> QED
  BY <1>1, <1>2, <1>3, <1>4, <1>5, <1>6, <1>7, <1>8, <1>9, <1>10, <1>11, <1>12, <1>13, <1>14, <1>15, <1>16 DEF Moves, EngineStep

\* An engine changes nothing of another engine, nor of the backend.
LEMMA EngineFrame ==
  ASSUME TypeOK, NEW e \in Engines, Moves(e)
  PROVE  /\ UNCHANGED backend
         /\ \A d \in Engines : d # e =>
              /\ pc'[d] = pc[d] /\ cur'[d] = cur[d] /\ pushed'[d] = pushed[d]
              /\ req'[d] = req[d] /\ rep'[d] = rep[d]
<1>1. CASE Poll(e)
  BY <1>1 DEF Poll, Send, Goto, TypeOK, netVars
<1>2. CASE Polled(e)
  BY <1>2 DEF Polled, Consume, Answered, Goto, TypeOK, netVars
<1>3. CASE PollFailed(e)
  BY <1>3 DEF PollFailed, Consume, Answered, Goto, TypeOK, netVars
<1>4. CASE PassEnds(e)
  BY <1>4 DEF PassEnds, Goto, TypeOK, netVars
<1>5. CASE Claimed(e)
  BY <1>5 DEF Claimed, Consume, Answered, Goto, TypeOK, netVars
<1>6. CASE NotClaimed(e)
  BY <1>6 DEF NotClaimed, Consume, Answered, Goto, TypeOK, netVars
<1>7. CASE NothingToValidate(e)
  BY <1>7 DEF NothingToValidate, Send, Goto, TypeOK, netVars
<1>8. CASE PushAnswered(e)
  BY <1>8 DEF PushAnswered, Consume, Answered, Goto, TypeOK, netVars
<1>9. CASE Resolve(e)
  BY <1>9 DEF Resolve, Send, Goto, TypeOK, netVars
<1>10. CASE Resolved(e)
  BY <1>10 DEF Resolved, Consume, Answered, Goto, TypeOK, netVars
<1>11. CASE ResolveFailed(e)
  BY <1>11 DEF ResolveFailed, Consume, Answered, Abandon, Goto, TypeOK, netVars
<1>12. CASE TimeOut(e)
  BY <1>12 DEF TimeOut, Abandon, Orphan, Goto, TypeOK, netVars
<1>13. CASE Crash(e)
  BY <1>13 DEF Crash, Abandon, Orphan, Goto, TypeOK, netVars
<1>14. ASSUME NEW r \in Runs, ClaimNext(e, r) PROVE /\ UNCHANGED backend
         /\ \A d \in Engines : d # e =>
              /\ pc'[d] = pc[d] /\ cur'[d] = cur[d] /\ pushed'[d] = pushed[d]
              /\ req'[d] = req[d] /\ rep'[d] = rep[d]
  BY <1>14 DEF ClaimNext, Send, Goto, TypeOK, netVars
<1>15. ASSUME NEW F \in SUBSET Findings, Validate(e, F) PROVE /\ UNCHANGED backend
         /\ \A d \in Engines : d # e =>
              /\ pc'[d] = pc[d] /\ cur'[d] = cur[d] /\ pushed'[d] = pushed[d]
              /\ req'[d] = req[d] /\ rep'[d] = rep[d]
  BY <1>15 DEF Validate, Goto, TypeOK, netVars
<1>16. ASSUME NEW f \in Findings, Push(e, f) PROVE /\ UNCHANGED backend
         /\ \A d \in Engines : d # e =>
              /\ pc'[d] = pc[d] /\ cur'[d] = cur[d] /\ pushed'[d] = pushed[d]
              /\ req'[d] = req[d] /\ rep'[d] = rep[d]
  BY <1>16 DEF Push, Send, Goto, TypeOK, netVars
<1> QED
  BY <1>1, <1>2, <1>3, <1>4, <1>5, <1>6, <1>7, <1>8, <1>9, <1>10, <1>11, <1>12, <1>13, <1>14, <1>15, <1>16 DEF Moves, EngineStep

\* It takes its conversation from one place of the protocol to the next.
LEMMA EngineTalks ==
  ASSUME TypeOK, NEW e \in Engines, Conversation(e), Moves(e)
  PROVE  Conversation(e)'
<1>1. CASE Poll(e)
  BY <1>1 DEF Poll, Send, Goto, TypeOK, Conversation, Quiet, Asks, Answers, NoReq, NoRep, Results, Requests, netVars
<1>2. CASE Polled(e)
  BY <1>2 DEF Polled, Consume, Answered, Goto, TypeOK, Conversation, Quiet, Asks, Answers, NoReq, NoRep, Results, Requests, netVars
<1>3. CASE PollFailed(e)
  BY <1>3 DEF PollFailed, Consume, Answered, Goto, TypeOK, Conversation, Quiet, Asks, Answers, NoReq, NoRep, Results, Requests, netVars
<1>4. CASE PassEnds(e)
  BY <1>4 DEF PassEnds, Goto, TypeOK, Conversation, Quiet, Asks, Answers, NoReq, NoRep, Results, Requests, netVars
<1>5. CASE Claimed(e)
  BY <1>5 DEF Claimed, Consume, Answered, Goto, TypeOK, Conversation, Quiet, Asks, Answers, NoReq, NoRep, Results, Requests, netVars
<1>6. CASE NotClaimed(e)
  BY <1>6 DEF NotClaimed, Consume, Answered, Goto, TypeOK, Conversation, Quiet, Asks, Answers, NoReq, NoRep, Results, Requests, netVars
<1>7. CASE NothingToValidate(e)
  BY <1>7, ZeroIsACount, BridgeAssumption DEF NothingToValidate, Send, Goto, TypeOK, Conversation, Quiet, Asks, Answers, NoReq, NoRep, Results, Requests, netVars
<1>8. CASE PushAnswered(e)
  BY <1>8 DEF PushAnswered, Consume, Answered, Goto, TypeOK, Conversation, Quiet, Asks, Answers, NoReq, NoRep, Results, Requests, netVars
<1>9. CASE Resolve(e)
  BY <1>9, CountsOfFindings, BridgeAssumption DEF Resolve, Send, Goto, TypeOK, Conversation, Quiet, Asks, Answers, NoReq, NoRep, Results, Requests, netVars
<1>10. CASE Resolved(e)
  BY <1>10 DEF Resolved, Consume, Answered, Goto, TypeOK, Conversation, Quiet, Asks, Answers, NoReq, NoRep, Results, Requests, netVars
<1>11. CASE ResolveFailed(e)
  BY <1>11 DEF ResolveFailed, Consume, Answered, Abandon, Goto, TypeOK, Conversation, Quiet, Asks, Answers, NoReq, NoRep, Results, Requests, netVars
<1>12. CASE TimeOut(e)
  BY <1>12 DEF TimeOut, Abandon, Orphan, Goto, TypeOK, Conversation, Quiet, Asks, Answers, NoReq, NoRep, Results, Requests, netVars
<1>13. CASE Crash(e)
  BY <1>13 DEF Crash, Abandon, Orphan, Goto, TypeOK, Conversation, Quiet, Asks, Answers, NoReq, NoRep, Results, Requests, netVars
<1>14. ASSUME NEW r \in Runs, ClaimNext(e, r) PROVE Conversation(e)'
  BY <1>14 DEF ClaimNext, Send, Goto, TypeOK, Conversation, Quiet, Asks, Answers, NoReq, NoRep, Results, Requests, netVars
<1>15. ASSUME NEW F \in SUBSET Findings, Validate(e, F) PROVE Conversation(e)'
  BY <1>15 DEF Validate, Goto, TypeOK, Conversation, Quiet, Asks, Answers, NoReq, NoRep, Results, Requests, netVars
<1>16. ASSUME NEW f \in Findings, Push(e, f) PROVE Conversation(e)'
  BY <1>16 DEF Push, Send, Goto, TypeOK, Conversation, Quiet, Asks, Answers, NoReq, NoRep, Results, Requests, netVars
<1> QED
  BY <1>1, <1>2, <1>3, <1>4, <1>5, <1>6, <1>7, <1>8, <1>9, <1>10, <1>11, <1>12, <1>13, <1>14, <1>15, <1>16 DEF Moves, EngineStep

\* Its steps create no right, and keep its account of what was stored.
LEMMA EngineLedger ==
  ASSUME TypeOK, NEW e \in Engines, Conversation(e),
         \A r \in Runs : Holds(e, r) => LedgerOf(e, r),
         Moves(e)
  PROVE  \A r \in Runs : Holds(e, r)' => Holds(e, r) /\ LedgerOf(e, r)'
<1>1. CASE Poll(e)
  BY <1>1 DEF Poll, Send, Goto, TypeOK, Holds, LedgerOf, Truthful, Conversation, Quiet, Asks, Answers, NoReq, NoRep, netVars, backend, dataVars
<1>2. CASE Polled(e)
  BY <1>2 DEF Polled, Consume, Answered, Goto, TypeOK, Holds, LedgerOf, Truthful, Conversation, Quiet, Asks, Answers, NoReq, NoRep, netVars, backend, dataVars
<1>3. CASE PollFailed(e)
  BY <1>3 DEF PollFailed, Consume, Answered, Goto, TypeOK, Holds, LedgerOf, Truthful, Conversation, Quiet, Asks, Answers, NoReq, NoRep, netVars, backend, dataVars
<1>4. CASE PassEnds(e)
  BY <1>4 DEF PassEnds, Goto, TypeOK, Holds, LedgerOf, Truthful, Conversation, Quiet, Asks, Answers, NoReq, NoRep, netVars, backend, dataVars
<1>5. CASE Claimed(e)
  BY <1>5 DEF Claimed, Consume, Answered, Goto, TypeOK, Holds, LedgerOf, Truthful, Conversation, Quiet, Asks, Answers, NoReq, NoRep, netVars, backend, dataVars
<1>6. CASE NotClaimed(e)
  BY <1>6 DEF NotClaimed, Consume, Answered, Goto, TypeOK, Holds, LedgerOf, Truthful, Conversation, Quiet, Asks, Answers, NoReq, NoRep, netVars, backend, dataVars
<1>7. CASE NothingToValidate(e)
  BY <1>7, FS_EmptySet DEF NothingToValidate, Send, Goto, TypeOK, Holds, LedgerOf, Truthful, Conversation, Quiet, Asks, Answers, NoReq, NoRep, netVars, backend, dataVars
<1>8. CASE PushAnswered(e)
  BY <1>8 DEF PushAnswered, Consume, Answered, Goto, TypeOK, Holds, LedgerOf, Truthful, Conversation, Quiet, Asks, Answers, NoReq, NoRep, netVars, backend, dataVars
<1>9. CASE Resolve(e)
  BY <1>9 DEF Resolve, Send, Goto, TypeOK, Holds, LedgerOf, Truthful, Conversation, Quiet, Asks, Answers, NoReq, NoRep, netVars, backend, dataVars
<1>10. CASE Resolved(e)
  BY <1>10 DEF Resolved, Consume, Answered, Goto, TypeOK, Holds, LedgerOf, Truthful, Conversation, Quiet, Asks, Answers, NoReq, NoRep, netVars, backend, dataVars
<1>11. CASE ResolveFailed(e)
  BY <1>11 DEF ResolveFailed, Consume, Answered, Abandon, Goto, TypeOK, Holds, LedgerOf, Truthful, Conversation, Quiet, Asks, Answers, NoReq, NoRep, netVars, backend, dataVars
<1>12. CASE TimeOut(e)
  BY <1>12 DEF TimeOut, Abandon, Orphan, Goto, TypeOK, Holds, LedgerOf, Truthful, Conversation, Quiet, Asks, Answers, NoReq, NoRep, netVars, backend, dataVars
<1>13. CASE Crash(e)
  BY <1>13 DEF Crash, Abandon, Orphan, Goto, TypeOK, Holds, LedgerOf, Truthful, Conversation, Quiet, Asks, Answers, NoReq, NoRep, netVars, backend, dataVars
<1>14. ASSUME NEW q \in Runs, ClaimNext(e, q) PROVE \A r \in Runs : Holds(e, r)' => Holds(e, r) /\ LedgerOf(e, r)'
  BY <1>14 DEF ClaimNext, Send, Goto, TypeOK, Holds, LedgerOf, Truthful, Conversation, Quiet, Asks, Answers, NoReq, NoRep, netVars, backend, dataVars
<1>15. ASSUME NEW F \in SUBSET Findings, Validate(e, F) PROVE \A r \in Runs : Holds(e, r)' => Holds(e, r) /\ LedgerOf(e, r)'
  BY <1>15 DEF Validate, Goto, TypeOK, Holds, LedgerOf, Truthful, Conversation, Quiet, Asks, Answers, NoReq, NoRep, netVars, backend, dataVars
<1>16. ASSUME NEW f \in Findings, Push(e, f) PROVE \A r \in Runs : Holds(e, r)' => Holds(e, r) /\ LedgerOf(e, r)'
  BY <1>16 DEF Push, Send, Goto, TypeOK, Holds, LedgerOf, Truthful, Conversation, Quiet, Asks, Answers, NoReq, NoRep, netVars, backend, dataVars
<1> QED
  BY <1>1, <1>2, <1>3, <1>4, <1>5, <1>6, <1>7, <1>8, <1>9, <1>10, <1>11, <1>12, <1>13, <1>14, <1>15, <1>16 DEF Moves, EngineStep

\* What it leaves behind: only its own request, whose run it then lets go.
LEMMA EngineLeaves ==
  ASSUME TypeOK, NEW e \in Engines, Moves(e)
  PROVE  \/ late' = late
         \/ /\ req[e] # NoReq /\ late' = late \cup {req[e]}
            /\ \A r \in Runs : ~Holds(e, r)'
<1>1. CASE Poll(e)
  BY <1>1 DEF Poll, Send, Goto, TypeOK, netVars, Holds
<1>2. CASE Polled(e)
  BY <1>2 DEF Polled, Consume, Answered, Goto, TypeOK, netVars, Holds
<1>3. CASE PollFailed(e)
  BY <1>3 DEF PollFailed, Consume, Answered, Goto, TypeOK, netVars, Holds
<1>4. CASE PassEnds(e)
  BY <1>4 DEF PassEnds, Goto, TypeOK, netVars, Holds
<1>5. CASE Claimed(e)
  BY <1>5 DEF Claimed, Consume, Answered, Goto, TypeOK, netVars, Holds
<1>6. CASE NotClaimed(e)
  BY <1>6 DEF NotClaimed, Consume, Answered, Goto, TypeOK, netVars, Holds
<1>7. CASE NothingToValidate(e)
  BY <1>7 DEF NothingToValidate, Send, Goto, TypeOK, netVars, Holds
<1>8. CASE PushAnswered(e)
  BY <1>8 DEF PushAnswered, Consume, Answered, Goto, TypeOK, netVars, Holds
<1>9. CASE Resolve(e)
  BY <1>9 DEF Resolve, Send, Goto, TypeOK, netVars, Holds
<1>10. CASE Resolved(e)
  BY <1>10 DEF Resolved, Consume, Answered, Goto, TypeOK, netVars, Holds
<1>11. CASE ResolveFailed(e)
  BY <1>11 DEF ResolveFailed, Consume, Answered, Abandon, Goto, TypeOK, netVars, Holds
<1>12. CASE TimeOut(e)
  BY <1>12 DEF TimeOut, Abandon, Orphan, Goto, TypeOK, netVars, Holds
<1>13. CASE Crash(e)
  BY <1>13 DEF Crash, Abandon, Orphan, Goto, TypeOK, netVars, Holds
<1>14. ASSUME NEW q \in Runs, ClaimNext(e, q) PROVE \/ late' = late
         \/ /\ req[e] # NoReq /\ late' = late \cup {req[e]}
            /\ \A r \in Runs : ~Holds(e, r)'
  BY <1>14 DEF ClaimNext, Send, Goto, TypeOK, netVars, Holds
<1>15. ASSUME NEW F \in SUBSET Findings, Validate(e, F) PROVE \/ late' = late
         \/ /\ req[e] # NoReq /\ late' = late \cup {req[e]}
            /\ \A r \in Runs : ~Holds(e, r)'
  BY <1>15 DEF Validate, Goto, TypeOK, netVars, Holds
<1>16. ASSUME NEW f \in Findings, Push(e, f) PROVE \/ late' = late
         \/ /\ req[e] # NoReq /\ late' = late \cup {req[e]}
            /\ \A r \in Runs : ~Holds(e, r)'
  BY <1>16 DEF Push, Send, Goto, TypeOK, netVars, Holds
<1> QED
  BY <1>1, <1>2, <1>3, <1>4, <1>5, <1>6, <1>7, <1>8, <1>9, <1>10, <1>11, <1>12, <1>13, <1>14, <1>15, <1>16 DEF Moves, EngineStep

LEMMA EngineKeepsInv ==
  ASSUME IndInv, NEW e \in Engines, Moves(e)
  PROVE  IndInv'
<1> USE DEF IndInv
<1>1. TypeOK'
  BY EngineTypes
<1>2. /\ UNCHANGED backend
      /\ \A d \in Engines : d # e =>
           /\ pc'[d] = pc[d] /\ cur'[d] = cur[d] /\ pushed'[d] = pushed[d]
           /\ req'[d] = req[d] /\ rep'[d] = rep[d]
  BY EngineFrame
<1>3. Conversation(e)'
  BY EngineTalks DEF Talk
<1>4. \A d \in Engines : d # e => (Conversation(d)' <=> Conversation(d))
  BY <1>2 DEF Conversation, Quiet, Asks, Answers
<1>5. \A d \in Engines, r \in Runs : d # e =>
        (Holds(d, r)' <=> Holds(d, r)) /\ (LedgerOf(d, r)' <=> LedgerOf(d, r))
  <2>1. landed' = landed
    BY <1>2 DEF backend, dataVars
  <2>2. ASSUME NEW d \in Engines, NEW r \in Runs, d # e
        PROVE  Holds(d, r)' <=> Holds(d, r)
    BY <1>2, <2>2 DEF Holds
  <2>3. ASSUME NEW d \in Engines, NEW r \in Runs, d # e
        PROVE  LedgerOf(d, r)' <=> LedgerOf(d, r)
    <3>1. Truthful(req[d])' <=> Truthful(req[d])
      BY <1>2, <2>1, <2>3 DEF Truthful
    <3> QED
      BY <1>2, <2>1, <2>3, <3>1 DEF LedgerOf
  <2> QED
    BY <2>2, <2>3
<1>6. \A r \in Runs : Holds(e, r)' => Holds(e, r) /\ LedgerOf(e, r)'
  BY EngineLedger DEF Talk, BridgeInv, Ledger
<1>7. \/ late' = late
      \/ /\ req[e] # NoReq /\ late' = late \cup {req[e]}
         /\ \A r \in Runs : ~Holds(e, r)'
  BY EngineLeaves
<1>8. \A m \in late' : m \in late \/ m = req[e]
  BY <1>7
<1>9. ASSUME req[e] # NoReq
      PROVE  /\ LateShape(req[e])
             /\ req[e].kind \in {"ingest", "resolve"} => Holds(e, req[e].run)
             /\ req[e].kind = "resolve" => Truthful(req[e])
             /\ req[e].kind = "ingest" => pc[e] # "resolving"
             /\ req[e].kind = "resolve" => pc[e] = "resolving"
  <2>1. Conversation(e) /\ req[e] \in Requests
    BY <1>9 DEF Talk, TypeOK
  <2>2. /\ LateShape(req[e])
        /\ req[e].kind = "ingest" => pc[e] = "ingesting" /\ cur[e] = req[e].run
        /\ req[e].kind = "resolve" => pc[e] = "resolving" /\ cur[e] = req[e].run
        /\ req[e].kind \in {"ingest", "resolve"} => req[e].run \in Runs
    BY <1>9, <2>1 DEF Conversation, Quiet, Asks, Answers, LateShape, TypeOK, Pcs
  <2>3. req[e].kind = "resolve" => Truthful(req[e])
    BY <2>2 DEF BridgeInv, Ledger, LedgerOf, Holds
  <2> QED
    BY <2>2, <2>3 DEF Holds
<1>10. Talk'
  BY <1>3, <1>4, <1>7, <1>9 DEF Talk, LateShape
<1>11. Owned'
  BY <1>2 DEF Owned, backend, rowVars
<1>12. HeldIsRunning' /\ ClaimIsExclusive' /\ Ledger'
  BY <1>2, <1>5, <1>6
  DEF BridgeInv, HeldIsRunning, ClaimIsExclusive, Ledger, backend, rowVars
<1>13. LateOutcomeIsAlone' /\ LatePushIsLost' /\ LateLedger'
  <2>1. status' = status /\ landed' = landed
    BY <1>2 DEF backend, rowVars, dataVars
  <2>2. \A d \in Engines, r \in Runs : Holds(d, r)' => Holds(d, r)
    BY <1>5, <1>6
  <2>3. CASE late' = late
    BY <2>1, <2>2, <2>3
    DEF BridgeInv, LateOutcomeIsAlone, LatePushIsLost, LateLedger, LateOutcome,
        LatePush, Truthful
  <2>4. CASE req[e] # NoReq /\ late' = late \cup {req[e]}
             /\ \A r \in Runs : ~Holds(e, r)'
    <3>1. \A r \in Runs : Holds(e, r) => status[r] = "running"
             /\ \A d \in Engines : ~Holds(d, r)'
      BY <1>5, <2>4 DEF BridgeInv, HeldIsRunning, ClaimIsExclusive
    <3>2. \A r \in Runs, m \in late : Holds(e, r) => ~LateOutcome(m, r) /\ ~LatePush(m, r)
      BY DEF BridgeInv, LateOutcomeIsAlone, LatePushIsLost
    <3>3. LateOutcomeIsAlone'
      BY <1>9, <2>1, <2>2, <2>4, <3>1, <3>2
      DEF BridgeInv, LateOutcomeIsAlone, LateOutcome, LatePush, LateShape
    <3>4. LatePushIsLost'
      BY <1>9, <2>1, <2>2, <2>4, <3>1, <3>2
      DEF BridgeInv, LatePushIsLost, LateOutcome, LatePush, LateShape
    <3>5. LateLedger'
      BY <1>9, <2>1, <2>4 DEF BridgeInv, LateLedger, LateOutcome, Truthful
    <3> QED
      BY <3>3, <3>4, <3>5
  <2> QED
    BY <1>7, <2>3, <2>4
<1>14. Untouched' /\ CountIsExact' /\ FailedRunsPushNothing'
  BY <1>2
  DEF BridgeInv, Untouched, CountIsExact, FailedRunsPushNothing, backend, rowVars, dataVars
<1> QED
  BY <1>1, <1>10, <1>11, <1>12, <1>13, <1>14 DEF BridgeInv

-----------------------------------------------------------------------------
(***************************************************************************)
(* Steps of the backend: it handles the request of an engine that waits    *)
(* for the answer, or of one that no longer does.                          *)
(***************************************************************************)
LEMMA HandlerTypes ==
  ASSUME TypeOK, Owned, NEW m \in Requests, LateShape(m), NEW result, Handle(m, result),
         m.kind \in {"ingest", "resolve"} => status[m.run] # "none"
  PROVE  /\ status' \in [Runs -> Statuses] /\ UNCHANGED <<project, byCron>>
         /\ stamp' \in [Runs -> Engines \cup {None}]
         /\ count' \in [Runs -> Counts \cup {None}]
         /\ known' \subseteq Projects
         /\ payload' \in [Findings -> Runs \cup {None}]
         /\ landed' \in [Runs -> SUBSET Findings]
         /\ Owned'
<1>1. CASE pendingForEngine(m, result)
  BY <1>1 DEF pendingForEngine, rowVars, dataVars, TypeOK, Owned
<1>2. CASE claimForEngine(m, result)
  <2>1. m.run \in Runs /\ m.by \in Engines
    BY <1>2 DEF claimForEngine, LateShape, Requests
  <2>2. CASE status[m.run] = "queued"
    BY <1>2, <2>1, <2>2 DEF claimForEngine, dataVars, TypeOK, Owned, Statuses
  <2>3. CASE status[m.run] # "queued"
    BY <1>2, <2>1, <2>3 DEF claimForEngine, dataVars, TypeOK, Owned
  <2> QED
    BY <2>2, <2>3
<1>3. CASE ingestFromEngine(m, result)
  BY <1>3 DEF ingestFromEngine, TypeOK, Owned, LateShape
<1>4. CASE resolveRun(m, result)
  <2>1. m.run \in Runs /\ m.n \in Counts
    BY <1>4 DEF resolveRun, LateShape
  <2>2. PICK s \in {"completed", "failed"} : status' = [status EXCEPT ![m.run] = s]
    BY <1>4 DEF resolveRun
  <2>3. status' \in [Runs -> Statuses]
    BY <2>1, <2>2 DEF TypeOK, Statuses
  <2>4. known' \subseteq Projects
    BY <1>4, <2>1 DEF resolveRun, Owned, TypeOK
  <2>5. Owned'
    BY <1>4, <2>1, <2>2 DEF resolveRun, Owned, TypeOK
  <2> QED
    BY <1>4, <2>1, <2>3, <2>4, <2>5 DEF resolveRun, TypeOK, dataVars
<1> QED
  BY <1>1, <1>2, <1>3, <1>4 DEF Handle

\* A waiting engine's request is well formed, and its ingest and resolve
\* requests are about the run it holds.
LEMMA WaitingRequest ==
  ASSUME TypeOK, NEW e \in Engines, Conversation(e), req[e] # NoReq
  PROVE  /\ req[e] \in Requests /\ LateShape(req[e])
         /\ rep[e] = NoRep
         /\ req[e].kind = "pending" => pc[e] = "polling"
         /\ req[e].kind = "claim" =>
              pc[e] = "claiming" /\ cur[e] = req[e].run /\ req[e].by = e
         /\ req[e].kind = "ingest" => pc[e] = "ingesting" /\ cur[e] = req[e].run
         /\ req[e].kind = "resolve" => pc[e] = "resolving" /\ cur[e] = req[e].run
BY DEF Conversation, Quiet, Asks, Answers, LateShape, TypeOK, Pcs

\* The three handlers that touch a run's record, seen by the invariant: the
\* run becomes running, gains one finding, or is settled.
LEMMA HandlerEffect ==
  ASSUME TypeOK, NEW m \in Requests, LateShape(m), NEW result, Handle(m, result)
  PROVE  /\ m.kind = "pending" => result = "ok" /\ UNCHANGED <<status, count, landed>>
         /\ m.kind = "claim" =>
              /\ UNCHANGED <<count, landed>>
              /\ \/ status[m.run] = "queued" /\ result = "granted"
                    /\ status' = [status EXCEPT ![m.run] = "running"]
                 \/ result = "refused" /\ status' = status
         /\ m.kind = "ingest" =>
              /\ result = "ok" /\ UNCHANGED <<status, count>>
              /\ landed' = [landed EXCEPT ![m.run] = landed[m.run] \cup {m.finding}]
         /\ m.kind = "resolve" =>
              /\ result = "ok" /\ landed' = landed
              /\ count' = [count EXCEPT ![m.run] = m.n]
              /\ \E s \in {"completed", "failed"} :
                   /\ status' = [status EXCEPT ![m.run] = s]
                   /\ s = "completed" <=> m.ok
         /\ m.kind \in {"pending", "claim", "ingest", "resolve"}
<1>1. CASE pendingForEngine(m, result)
  BY <1>1 DEF pendingForEngine, rowVars, dataVars
<1>2. CASE claimForEngine(m, result)
  BY <1>2 DEF claimForEngine, dataVars
<1>3. CASE ingestFromEngine(m, result)
  BY <1>3 DEF ingestFromEngine
<1>4. CASE resolveRun(m, result)
  <2>1. CASE m.ok
    BY <1>4, <2>1 DEF resolveRun, dataVars
  <2>2. CASE ~m.ok
    BY <1>4, <2>2 DEF resolveRun, dataVars
  <2> QED
    BY <2>1, <2>2
<1> QED
  BY <1>1, <1>2, <1>3, <1>4 DEF Handle

LEMMA ServeTypes ==
  ASSUME IndInv, NEW e \in Engines, Serve(e)
  PROVE  TypeOK' /\ Owned' /\ Talk'
<1> USE DEF IndInv
<1>1. PICK result \in Results :
        /\ Handle(req[e], result)
        /\ rep' = [rep EXCEPT ![e] = [result |-> result, runs |-> Queued,
                                      finding |-> req[e].finding]]
  BY DEF Serve
<1>2. /\ req[e] # NoReq /\ req' = [req EXCEPT ![e] = NoReq]
      /\ UNCHANGED <<pc, todo, cur, left, pushed, late>>
  BY DEF Serve, engineVars
<1>3. Conversation(e)
  BY DEF Talk
<1>4. /\ req[e] \in Requests /\ LateShape(req[e])
      /\ rep[e] = NoRep
      /\ req[e].kind = "pending" => pc[e] = "polling"
      /\ req[e].kind = "claim" =>
           pc[e] = "claiming" /\ cur[e] = req[e].run /\ req[e].by = e
      /\ req[e].kind = "ingest" => pc[e] = "ingesting" /\ cur[e] = req[e].run
      /\ req[e].kind = "resolve" => pc[e] = "resolving" /\ cur[e] = req[e].run
  BY <1>2, <1>3, WaitingRequest
<1>5. req[e].kind \in {"ingest", "resolve"} => status[req[e].run] # "none"
  BY <1>4 DEF BridgeInv, HeldIsRunning, Holds, LateShape
<1>6. /\ status' \in [Runs -> Statuses] /\ UNCHANGED <<project, byCron>>
      /\ stamp' \in [Runs -> Engines \cup {None}]
      /\ count' \in [Runs -> Counts \cup {None}]
      /\ known' \subseteq Projects
      /\ payload' \in [Findings -> Runs \cup {None}]
      /\ landed' \in [Runs -> SUBSET Findings]
      /\ Owned'
  BY <1>1, <1>4, <1>5, HandlerTypes
<1>7. req[e].finding \in Findings \cup {None} /\ Queued \subseteq Runs
  BY <1>4 DEF Requests, Queued
<1>8. rep' \in [Engines -> Replies] /\ req' \in [Engines -> Requests \cup {NoReq}]
  BY <1>1, <1>2, <1>7 DEF TypeOK, Replies
<1>9. TypeOK'
  BY <1>2, <1>6, <1>8 DEF TypeOK
<1>10. /\ req[e].kind \in {"pending", "ingest", "resolve"} => result = "ok"
       /\ req[e].kind = "claim" => result \in {"granted", "refused"}
       /\ req[e].kind \in {"pending", "claim", "ingest", "resolve"}
  BY <1>1, <1>4, HandlerEffect
<1>11. req'[e] = NoReq /\ rep'[e].result = result /\ rep'[e].finding = req[e].finding
  BY <1>1, <1>2 DEF TypeOK
<1>12. Conversation(e)'
  BY <1>2, <1>4, <1>10, <1>11 DEF Conversation, Quiet, Asks, Answers, LateShape
<1>13. ASSUME NEW d \in Engines, d # e PROVE Conversation(d)'
  <2>1. req'[d] = req[d] /\ rep'[d] = rep[d] /\ pc'[d] = pc[d] /\ cur'[d] = cur[d]
    BY <1>1, <1>2, <1>13 DEF TypeOK
  <2>2. Conversation(d)
    BY DEF Talk
  <2> QED
    BY <2>1, <2>2 DEF Conversation, Quiet, Asks, Answers
<1> QED
  BY <1>2, <1>6, <1>9, <1>12, <1>13 DEF Talk, LateShape

LEMMA ServeKeepsInv ==
  ASSUME IndInv, NEW e \in Engines, Serve(e)
  PROVE  IndInv'
<1> USE DEF IndInv
<1>1. PICK result \in Results :
        /\ Handle(req[e], result)
        /\ rep' = [rep EXCEPT ![e] = [result |-> result, runs |-> Queued,
                                      finding |-> req[e].finding]]
  BY DEF Serve
<1>2. /\ req[e] # NoReq /\ req' = [req EXCEPT ![e] = NoReq]
      /\ UNCHANGED <<pc, cur, pushed, late>>
  BY DEF Serve, engineVars
<1>3. /\ req[e] \in Requests /\ LateShape(req[e])
      /\ rep[e] = NoRep
      /\ req[e].kind = "pending" => pc[e] = "polling"
      /\ req[e].kind = "claim" =>
           pc[e] = "claiming" /\ cur[e] = req[e].run /\ req[e].by = e
      /\ req[e].kind = "ingest" => pc[e] = "ingesting" /\ cur[e] = req[e].run
      /\ req[e].kind = "resolve" => pc[e] = "resolving" /\ cur[e] = req[e].run
  BY <1>2, WaitingRequest DEF Talk
<1>4. /\ req'[e] = NoReq /\ rep'[e].result = result
      /\ rep'[e].finding = req[e].finding
      /\ \A d \in Engines : d # e => req'[d] = req[d] /\ rep'[d] = rep[d]
  BY <1>1, <1>2 DEF TypeOK
<1>5. \A d \in Engines, r \in Runs : d # e => (Holds(d, r)' <=> Holds(d, r))
  BY <1>2, <1>4 DEF Holds
<1>6. \A m, r : /\ LateOutcome(m, r)' <=> LateOutcome(m, r)
                /\ LatePush(m, r)' <=> LatePush(m, r)
  BY <1>2 DEF LateOutcome, LatePush
<1>7. TypeOK' /\ Owned' /\ Talk'
  BY ServeTypes
<1>8. \A d \in Engines, r \in Runs :
        Holds(d, r) /\ pc[d] = "resolving" => req[d].run = r
  <2>1. ASSUME NEW d \in Engines, NEW r \in Runs, Holds(d, r), pc[d] = "resolving"
        PROVE  req[d].run = r
    <3>1. req[d] # NoReq
      BY <2>1 DEF Holds, NoReq
    <3> QED
      BY <2>1, <3>1, WaitingRequest DEF Holds, Talk
  <2> QED
    BY <2>1
\* Engines and late outcomes whose run is not concerned keep their account.
<1>9. ASSUME NEW d \in Engines, d # e, NEW r \in Runs, Holds(d, r),
             landed'[r] = landed[r]
      PROVE  LedgerOf(d, r)'
  <2>1. LedgerOf(d, r)
    BY <1>9 DEF BridgeInv, Ledger
  <2>2. pc[d] = "resolving" => (Truthful(req[d])' <=> Truthful(req[d]))
    BY <1>4, <1>8, <1>9 DEF Truthful
  <2> QED
    BY <1>2, <1>4, <1>9, <2>1, <2>2 DEF LedgerOf
<1>10. CASE req[e].kind = "pending"
  <2>1. UNCHANGED <<status, count, landed>>
    BY <1>1, <1>3, <1>10, HandlerEffect
  <2>2. \A r \in Runs : ~Holds(e, r) /\ ~Holds(e, r)'
    BY <1>2, <1>3, <1>10 DEF Holds
  <2>3. HeldIsRunning' /\ ClaimIsExclusive'
    BY <1>5, <2>1, <2>2 DEF BridgeInv, HeldIsRunning, ClaimIsExclusive
  <2>4. LateOutcomeIsAlone' /\ LatePushIsLost' /\ LateLedger'
    BY <1>2, <1>5, <1>6, <2>1, <2>2
    DEF BridgeInv, LateOutcomeIsAlone, LatePushIsLost, LateLedger, Truthful
  <2>5. Ledger'
    BY <1>5, <1>9, <2>1, <2>2 DEF Ledger
  <2>6. Untouched' /\ CountIsExact' /\ FailedRunsPushNothing'
    BY <2>1 DEF BridgeInv, Untouched, CountIsExact, FailedRunsPushNothing
  <2> QED
    BY <1>7, <2>3, <2>4, <2>5, <2>6 DEF BridgeInv
<1>11. CASE req[e].kind = "claim"
  <2>0. PICK c \in Runs : c = req[e].run
    BY <1>3, <1>11 DEF LateShape
  <2>1. c \in Runs /\ c = cur[e] /\ pc[e] = "claiming"
    BY <1>3, <1>11, <2>0 DEF LateShape
  <2>2. UNCHANGED <<count, landed>>
    BY <1>1, <1>3, <1>11, <2>0, HandlerEffect
  <2>3. \/ status[c] = "queued" /\ result = "granted"
           /\ status' = [status EXCEPT ![c] = "running"]
        \/ result = "refused" /\ status' = status
    BY <1>1, <1>3, <1>11, <2>0, HandlerEffect
  <2>4. \A r \in Runs : ~Holds(e, r)
    BY <1>3, <2>1 DEF Holds, NoRep
  <2>5. CASE result = "refused" /\ status' = status
    <3>1. \A r \in Runs : ~Holds(e, r)'
      BY <1>2, <1>4, <2>1, <2>5 DEF Holds
    <3>2. HeldIsRunning' /\ ClaimIsExclusive'
      BY <1>5, <2>5, <3>1 DEF BridgeInv, HeldIsRunning, ClaimIsExclusive
    <3>3. LateOutcomeIsAlone' /\ LatePushIsLost' /\ LateLedger'
      BY <1>2, <1>5, <1>6, <2>2, <2>5, <3>1
      DEF BridgeInv, LateOutcomeIsAlone, LatePushIsLost, LateLedger, Truthful
    <3>4. Ledger'
      BY <1>5, <1>9, <2>2, <3>1 DEF Ledger
    <3>5. Untouched' /\ CountIsExact' /\ FailedRunsPushNothing'
      BY <2>2, <2>5 DEF BridgeInv, Untouched, CountIsExact, FailedRunsPushNothing
    <3> QED
      BY <1>7, <3>2, <3>3, <3>4, <3>5 DEF BridgeInv
  <2>6. CASE status[c] = "queued" /\ result = "granted"
             /\ status' = [status EXCEPT ![c] = "running"]
    <3>1. /\ status'[c] = "running" /\ landed'[c] = {}
          /\ \A r \in Runs : r # c => status'[r] = status[r]
      BY <2>1, <2>2, <2>6 DEF TypeOK, BridgeInv, Untouched
    <3>2. /\ \A d \in Engines : ~Holds(d, c)
          /\ \A m \in late : ~LateOutcome(m, c) /\ ~LatePush(m, c)
      BY <2>1, <2>6
      DEF BridgeInv, HeldIsRunning, LateOutcomeIsAlone, LatePushIsLost
    <3>3. \A r \in Runs : Holds(e, r)' => r = c
      BY <1>2, <2>1 DEF Holds
    <3>4. HeldIsRunning' /\ ClaimIsExclusive'
      BY <1>5, <3>1, <3>2, <3>3 DEF BridgeInv, HeldIsRunning, ClaimIsExclusive
    <3>5. LateOutcomeIsAlone' /\ LatePushIsLost'
      BY <1>2, <1>5, <1>6, <3>1, <3>2, <3>3
      DEF BridgeInv, LateOutcomeIsAlone, LatePushIsLost
    <3>6. LateLedger'
      BY <1>2, <1>6, <2>2 DEF BridgeInv, LateLedger, Truthful
    <3>7. LedgerOf(e, c)'
      BY <1>2, <2>1, <3>1 DEF LedgerOf
    <3>8. Ledger'
      BY <1>5, <1>9, <2>2, <3>3, <3>7 DEF Ledger
    <3>9. Untouched' /\ CountIsExact' /\ FailedRunsPushNothing'
      BY <2>2, <3>1 DEF BridgeInv, Untouched, CountIsExact, FailedRunsPushNothing
    <3> QED
      BY <1>7, <3>4, <3>5, <3>6, <3>8, <3>9 DEF BridgeInv
  <2> QED
    BY <2>3, <2>5, <2>6
<1>12. CASE req[e].kind = "ingest"
  <2>0. PICK c \in Runs : c = req[e].run
    BY <1>3, <1>12 DEF LateShape
  <2>1. c \in Runs /\ c = cur[e] /\ pc[e] = "ingesting" /\ req[e].finding \in Findings
    BY <1>3, <1>12, <2>0 DEF LateShape
  <2>2. /\ result = "ok" /\ UNCHANGED <<status, count>>
        /\ landed' = [landed EXCEPT ![c] = landed[c] \cup {req[e].finding}]
    BY <1>1, <1>3, <1>12, <2>0, HandlerEffect
  <2>3. /\ landed'[c] = landed[c] \cup {req[e].finding}
        /\ \A r \in Runs : r # c => landed'[r] = landed[r]
    BY <2>1, <2>2 DEF TypeOK
  <2>4. /\ \A r \in Runs : Holds(e, r) <=> r = c
        /\ \A r \in Runs : Holds(e, r)' <=> r = c
    BY <1>2, <2>1 DEF Holds
  <2>5. /\ status[c] = "running" /\ status' = status
        /\ \A d \in Engines : Holds(d, c) => d = e
        /\ \A m \in late : ~LateOutcome(m, c)
    BY <2>1, <2>2, <2>4
    DEF BridgeInv, HeldIsRunning, ClaimIsExclusive, LateOutcomeIsAlone
  <2>6. HeldIsRunning' /\ ClaimIsExclusive'
    BY <1>5, <2>4, <2>5 DEF BridgeInv, HeldIsRunning, ClaimIsExclusive
  <2>7. LateOutcomeIsAlone' /\ LatePushIsLost'
    BY <1>2, <1>5, <1>6, <2>4, <2>5
    DEF BridgeInv, LateOutcomeIsAlone, LatePushIsLost
  <2>8. LateLedger'
    <3>1. ASSUME NEW m \in late, NEW r \in Runs, LateOutcome(m, r)
          PROVE  Truthful(m)'
      BY <2>3, <2>5, <3>1 DEF BridgeInv, LateLedger, LateOutcome, Truthful
    <3> QED
      BY <1>2, <1>6, <3>1 DEF LateLedger
  <2>9. LedgerOf(e, c)'
    <3>1. landed[c] = pushed[e]
      <4>1. LedgerOf(e, c)
        BY <2>4 DEF BridgeInv, Ledger
      <4>2. rep[e].result = "none"
        BY <1>3 DEF NoRep
      <4> QED
        BY <2>1, <4>1, <4>2 DEF LedgerOf
    <3> QED
      BY <1>2, <1>4, <2>1, <2>2, <2>3, <3>1 DEF LedgerOf
  <2>10. Ledger'
    <3>1. ASSUME NEW d \in Engines, NEW r \in Runs, Holds(d, r)', d # e
          PROVE  LedgerOf(d, r)'
      <4>1. Holds(d, r) /\ r # c
        BY <1>5, <2>5, <3>1
      <4> QED
        BY <1>9, <2>3, <3>1, <4>1
    <3> QED
      BY <2>4, <2>9, <3>1 DEF Ledger
  <2>11. Untouched' /\ CountIsExact' /\ FailedRunsPushNothing'
    BY <2>2, <2>3, <2>5 DEF BridgeInv, Untouched, CountIsExact, FailedRunsPushNothing
  <2> QED
    BY <1>7, <2>6, <2>7, <2>8, <2>10, <2>11 DEF BridgeInv
<1>13. CASE req[e].kind = "resolve"
  <2>0. PICK c \in Runs : c = req[e].run
    BY <1>3, <1>13 DEF LateShape
  <2>1. c \in Runs /\ c = cur[e] /\ pc[e] = "resolving" /\ req[e].n \in Counts
    BY <1>3, <1>13, <2>0 DEF LateShape
  <2>2. landed' = landed /\ count' = [count EXCEPT ![c] = req[e].n]
    BY <1>1, <1>3, <1>13, <2>0, HandlerEffect
  <2>3. PICK s \in {"completed", "failed"} :
          status' = [status EXCEPT ![c] = s] /\ (s = "completed" <=> req[e].ok)
    BY <1>1, <1>3, <1>13, <2>0, HandlerEffect
  <2>4. /\ status'[c] = s /\ count'[c] = req[e].n
        /\ \A r \in Runs : r # c => status'[r] = status[r] /\ count'[r] = count[r]
    BY <2>1, <2>2, <2>3 DEF TypeOK
  <2>5. /\ Holds(e, c)
        /\ \A r \in Runs : ~Holds(e, r)'
    BY <1>2, <1>4, <1>13, <2>1 DEF Holds, NoReq
  <2>6. /\ \A d \in Engines : Holds(d, c) => d = e
        /\ \A m \in late : ~LateOutcome(m, c) /\ ~LatePush(m, c)
    BY <2>1, <2>5 DEF BridgeInv, ClaimIsExclusive, LateOutcomeIsAlone, LatePushIsLost
  <2>7. Truthful(req[e])
    BY <2>1, <2>5 DEF BridgeInv, Ledger, LedgerOf
  <2>8. HeldIsRunning' /\ ClaimIsExclusive'
    BY <1>5, <2>4, <2>5, <2>6 DEF BridgeInv, HeldIsRunning, ClaimIsExclusive
  <2>9. LateOutcomeIsAlone' /\ LatePushIsLost'
    BY <1>2, <1>5, <1>6, <2>4, <2>5, <2>6
    DEF BridgeInv, LateOutcomeIsAlone, LatePushIsLost
  <2>10. LateLedger'
    BY <1>2, <1>6, <2>2 DEF BridgeInv, LateLedger, Truthful
  <2>11. Ledger'
    BY <1>5, <1>9, <2>2, <2>5 DEF Ledger
  <2>12. Untouched' /\ CountIsExact' /\ FailedRunsPushNothing'
    BY <2>0, <2>2, <2>3, <2>4, <2>7
    DEF BridgeInv, Untouched, CountIsExact, FailedRunsPushNothing, Truthful
  <2> QED
    BY <1>7, <2>8, <2>9, <2>10, <2>11, <2>12 DEF BridgeInv
<1> QED
  BY <1>3, <1>10, <1>11, <1>12, <1>13 DEF Requests

\* A request that fails changes nothing but the conversation, and may end the
\* right of an outcome that is refused.
LEMMA ServeFailsKeepsInv ==
  ASSUME IndInv, NEW e \in Engines, ServeFails(e)
  PROVE  IndInv'
<1> USE DEF IndInv
<1>1. /\ req[e] # NoReq /\ req' = [req EXCEPT ![e] = NoReq]
      /\ rep' = [rep EXCEPT ![e] = [result |-> "error", runs |-> {},
                                    finding |-> req[e].finding]]
      /\ UNCHANGED <<pc, todo, cur, left, pushed, late>>
  BY DEF ServeFails, engineVars
<1>2. UNCHANGED <<status, project, byCron, stamp, count, known, payload, landed>>
  BY DEF ServeFails, rowVars, dataVars
<1>3. /\ req[e] \in Requests /\ LateShape(req[e])
      /\ rep[e] = NoRep
      /\ req[e].kind = "pending" => pc[e] = "polling"
      /\ req[e].kind = "claim" =>
           pc[e] = "claiming" /\ cur[e] = req[e].run /\ req[e].by = e
      /\ req[e].kind = "ingest" => pc[e] = "ingesting" /\ cur[e] = req[e].run
      /\ req[e].kind = "resolve" => pc[e] = "resolving" /\ cur[e] = req[e].run
  BY <1>1, WaitingRequest DEF Talk
<1>4. /\ req'[e] = NoReq /\ rep'[e].result = "error"
      /\ rep'[e].finding = req[e].finding
      /\ \A d \in Engines : d # e => req'[d] = req[d] /\ rep'[d] = rep[d]
  BY <1>1 DEF TypeOK
<1>5. TypeOK'
  <2>1. req[e].finding \in Findings \cup {None}
    BY <1>3 DEF Requests
  <2>2. rep' \in [Engines -> Replies] /\ req' \in [Engines -> Requests \cup {NoReq}]
    BY <1>1, <2>1 DEF TypeOK, Replies
  <2> QED
    BY <1>1, <1>2, <2>2 DEF TypeOK
<1>6. Talk'
  <2>1. Conversation(e)'
    BY <1>1, <1>3, <1>4 DEF Talk, Conversation, Quiet, Asks, Answers, LateShape, Requests
  <2>2. \A d \in Engines : d # e => (Conversation(d)' <=> Conversation(d))
    BY <1>1, <1>4 DEF Conversation, Quiet, Asks, Answers
  <2> QED
    BY <1>1, <2>1, <2>2 DEF Talk, LateShape
<1>7. \A d \in Engines, r \in Runs :
        Holds(d, r)' => Holds(d, r) /\ LedgerOf(d, r)'
  <2>1. ASSUME NEW d \in Engines, NEW r \in Runs, Holds(d, r)'
        PROVE  Holds(d, r)
    BY <1>1, <1>4, <2>1 DEF Holds, NoReq
  <2>2. ASSUME NEW d \in Engines, NEW r \in Runs, Holds(d, r)', d # e
        PROVE  LedgerOf(d, r)'
    <3>1. LedgerOf(d, r)
      BY <2>1, <2>2 DEF BridgeInv, Ledger
    <3>2. Truthful(req[d])' <=> Truthful(req[d])
      BY <1>2, <1>4, <2>2 DEF Truthful
    <3> QED
      BY <1>1, <1>2, <1>4, <2>2, <3>1, <3>2 DEF LedgerOf
  <2>3. ASSUME NEW r \in Runs, Holds(e, r)'
        PROVE  LedgerOf(e, r)'
    <3>1. LedgerOf(e, r)
      BY <2>1, <2>3 DEF BridgeInv, Ledger
    <3>2. pc[e] # "resolving"
      BY <1>1, <1>4, <2>3 DEF Holds, NoReq
    <3> QED
      BY <1>1, <1>2, <1>3, <1>4, <3>1, <3>2 DEF LedgerOf, NoRep
  <2> QED
    BY <2>1, <2>2, <2>3
<1>8. Owned' /\ Untouched' /\ CountIsExact' /\ FailedRunsPushNothing'
  BY <1>2 DEF BridgeInv, Owned, Untouched, CountIsExact, FailedRunsPushNothing
<1>9. HeldIsRunning' /\ ClaimIsExclusive' /\ Ledger'
  BY <1>2, <1>7 DEF BridgeInv, HeldIsRunning, ClaimIsExclusive, Ledger
<1>10. LateOutcomeIsAlone' /\ LatePushIsLost' /\ LateLedger'
  BY <1>1, <1>2, <1>7
  DEF BridgeInv, LateOutcomeIsAlone, LatePushIsLost, LateLedger, LateOutcome,
      LatePush, Truthful
<1> QED
  BY <1>5, <1>6, <1>8, <1>9, <1>10 DEF BridgeInv

\* A request handled late is about a run no engine holds: a late claim makes
\* a run running for ever, a late push belongs to such a run, and a late
\* outcome settles its run in the engine's place.
LEMMA ServeLateKeepsInv ==
  ASSUME IndInv, NEW m \in late, ServeLate(m)
  PROVE  IndInv'
<1> USE DEF IndInv
<1>1. PICK result \in Results : Handle(m, result)
  BY DEF ServeLate
<1>2. late' = late \ {m} /\ UNCHANGED <<pc, todo, cur, left, pushed, req, rep>>
  BY DEF ServeLate, engineVars
<1>3. m \in Requests /\ LateShape(m)
  BY DEF TypeOK, Talk
<1>4. m.kind \in {"ingest", "resolve"} => m.run \in Runs /\ status[m.run] = "running"
  BY <1>3
  DEF LateShape, BridgeInv, LateOutcomeIsAlone, LatePushIsLost, LateOutcome, LatePush
<1>5. TypeOK' /\ Owned'
  <2>1. /\ status' \in [Runs -> Statuses] /\ UNCHANGED <<project, byCron>>
        /\ stamp' \in [Runs -> Engines \cup {None}]
        /\ count' \in [Runs -> Counts \cup {None}]
        /\ known' \subseteq Projects
        /\ payload' \in [Findings -> Runs \cup {None}]
        /\ landed' \in [Runs -> SUBSET Findings]
        /\ Owned'
    BY <1>1, <1>3, <1>4, HandlerTypes
  <2> QED
    BY <1>2, <2>1 DEF TypeOK
<1>6. Talk'
  BY <1>2 DEF Talk, Conversation, Quiet, Asks, Answers, LateShape
<1>7. \A d \in Engines, r \in Runs : Holds(d, r)' <=> Holds(d, r)
  BY <1>2 DEF Holds
<1>8. /\ \A k \in late' : k \in late /\ k # m
      /\ \A k \in late', r \in Runs : LateOutcome(k, r)' <=> LateOutcome(k, r)
      /\ \A k \in late', r \in Runs : LatePush(k, r)' <=> LatePush(k, r)
  BY <1>2 DEF LateOutcome, LatePush
<1>9. \A d \in Engines, r \in Runs :
        Holds(d, r) /\ pc[d] = "resolving" => req[d].run = r
  <2>1. ASSUME NEW d \in Engines, NEW r \in Runs, Holds(d, r), pc[d] = "resolving"
        PROVE  req[d].run = r
    <3>1. req[d] # NoReq
      BY <2>1 DEF Holds, NoReq
    <3> QED
      BY <2>1, <3>1, WaitingRequest DEF Holds, Talk
  <2> QED
    BY <2>1
<1>10. ASSUME NEW d \in Engines, NEW r \in Runs, Holds(d, r), landed'[r] = landed[r]
       PROVE  LedgerOf(d, r)'
  <2>1. LedgerOf(d, r)
    BY <1>10 DEF BridgeInv, Ledger
  <2>2. pc[d] = "resolving" => (Truthful(req[d])' <=> Truthful(req[d]))
    BY <1>2, <1>9, <1>10 DEF Truthful
  <2> QED
    BY <1>2, <1>10, <2>1, <2>2 DEF LedgerOf
<1>11. CASE m.kind = "pending"
  <2>1. UNCHANGED <<status, count, landed>>
    BY <1>1, <1>3, <1>11, HandlerEffect
  <2>2. HeldIsRunning' /\ ClaimIsExclusive'
    BY <1>7, <2>1 DEF BridgeInv, HeldIsRunning, ClaimIsExclusive
  <2>3. LateOutcomeIsAlone' /\ LatePushIsLost' /\ LateLedger'
    BY <1>7, <1>8, <2>1
    DEF BridgeInv, LateOutcomeIsAlone, LatePushIsLost, LateLedger, Truthful
  <2>4. Ledger'
    BY <1>7, <1>10, <2>1 DEF Ledger
  <2>5. Untouched' /\ CountIsExact' /\ FailedRunsPushNothing'
    BY <2>1 DEF BridgeInv, Untouched, CountIsExact, FailedRunsPushNothing
  <2> QED
    BY <1>5, <1>6, <2>2, <2>3, <2>4, <2>5 DEF BridgeInv
<1>12. CASE m.kind = "claim"
  <2>1. m.run \in Runs
    BY <1>3, <1>12 DEF LateShape
  <2>2. UNCHANGED <<count, landed>>
    BY <1>1, <1>3, <1>12, HandlerEffect
  <2>3. \/ status' = status
        \/ status[m.run] = "queued" /\ status' = [status EXCEPT ![m.run] = "running"]
    BY <1>1, <1>3, <1>12, HandlerEffect
  <2>4. \A r \in Runs :
          \/ status'[r] = status[r]
          \/ status[r] = "queued" /\ status'[r] = "running"
    BY <2>1, <2>3 DEF TypeOK
  <2>5. HeldIsRunning' /\ ClaimIsExclusive'
    BY <1>7, <2>4 DEF BridgeInv, HeldIsRunning, ClaimIsExclusive
  <2>6. LateOutcomeIsAlone' /\ LatePushIsLost'
    BY <1>7, <1>8, <2>4 DEF BridgeInv, LateOutcomeIsAlone, LatePushIsLost
  <2>7. Ledger' /\ LateLedger'
    BY <1>7, <1>8, <1>10, <2>2 DEF BridgeInv, Ledger, LateLedger, Truthful
  <2>8. Untouched' /\ CountIsExact' /\ FailedRunsPushNothing'
    BY <2>2, <2>4 DEF BridgeInv, Untouched, CountIsExact, FailedRunsPushNothing
  <2> QED
    BY <1>5, <1>6, <2>5, <2>6, <2>7, <2>8 DEF BridgeInv
<1>13. CASE m.kind = "ingest"
  <2>1. m.run \in Runs /\ LatePush(m, m.run)
    BY <1>3, <1>13 DEF LateShape, LatePush
  <2>2. /\ status' = status /\ count' = count
        /\ landed' = [landed EXCEPT ![m.run] = landed[m.run] \cup {m.finding}]
    BY <1>1, <1>3, <1>13, HandlerEffect
  <2>3. \A r \in Runs : r # m.run => landed'[r] = landed[r]
    BY <2>1, <2>2 DEF TypeOK
  <2>4. /\ status[m.run] = "running"
        /\ \A d \in Engines : ~Holds(d, m.run)
        /\ \A k \in late : ~LateOutcome(k, m.run)
    BY <2>1 DEF BridgeInv, LatePushIsLost
  <2>5. HeldIsRunning' /\ ClaimIsExclusive'
    BY <1>7, <2>2 DEF BridgeInv, HeldIsRunning, ClaimIsExclusive
  <2>6. LateOutcomeIsAlone' /\ LatePushIsLost'
    BY <1>7, <1>8, <2>2 DEF BridgeInv, LateOutcomeIsAlone, LatePushIsLost
  <2>7. Ledger'
    BY <1>7, <1>10, <2>3, <2>4 DEF Ledger
  <2>8. LateLedger'
    <3>1. ASSUME NEW k \in late, NEW r \in Runs, LateOutcome(k, r)
          PROVE  Truthful(k)'
      BY <2>3, <2>4, <3>1 DEF BridgeInv, LateLedger, LateOutcome, Truthful
    <3> QED
      BY <1>8, <3>1 DEF LateLedger
  <2>9. Untouched' /\ CountIsExact' /\ FailedRunsPushNothing'
    BY <2>2, <2>3, <2>4 DEF BridgeInv, Untouched, CountIsExact, FailedRunsPushNothing
  <2> QED
    BY <1>5, <1>6, <2>5, <2>6, <2>7, <2>8, <2>9 DEF BridgeInv
<1>14. CASE m.kind = "resolve"
  <2>1. m.run \in Runs /\ LateOutcome(m, m.run)
    BY <1>3, <1>14 DEF LateShape, LateOutcome
  <2>2. landed' = landed /\ count' = [count EXCEPT ![m.run] = m.n]
    BY <1>1, <1>3, <1>14, HandlerEffect
  <2>3. PICK s \in {"completed", "failed"} :
          status' = [status EXCEPT ![m.run] = s] /\ (s = "completed" <=> m.ok)
    BY <1>1, <1>3, <1>14, HandlerEffect
  <2>4. /\ status'[m.run] = s /\ count'[m.run] = m.n
        /\ \A r \in Runs : r # m.run => status'[r] = status[r] /\ count'[r] = count[r]
    BY <2>1, <2>2, <2>3 DEF TypeOK
  <2>5. /\ \A d \in Engines : ~Holds(d, m.run)
        /\ \A k \in late : LateOutcome(k, m.run) => k = m
        /\ \A k \in late : ~LatePush(k, m.run)
    BY <2>1 DEF BridgeInv, LateOutcomeIsAlone, LatePushIsLost
  <2>6. Truthful(m)
    BY <2>1 DEF BridgeInv, LateLedger
  <2>7. HeldIsRunning' /\ ClaimIsExclusive'
    BY <1>7, <2>4, <2>5 DEF BridgeInv, HeldIsRunning, ClaimIsExclusive
  <2>8. LateOutcomeIsAlone' /\ LatePushIsLost'
    BY <1>7, <1>8, <2>4, <2>5 DEF BridgeInv, LateOutcomeIsAlone, LatePushIsLost
  <2>9. Ledger' /\ LateLedger'
    BY <1>7, <1>8, <1>10, <2>2 DEF BridgeInv, Ledger, LateLedger, Truthful
  <2>10. Untouched' /\ CountIsExact' /\ FailedRunsPushNothing'
    BY <2>2, <2>3, <2>4, <2>6
    DEF BridgeInv, Untouched, CountIsExact, FailedRunsPushNothing, Truthful
  <2> QED
    BY <1>5, <1>6, <2>7, <2>8, <2>9, <2>10 DEF BridgeInv
<1> QED
  BY <1>3, <1>11, <1>12, <1>13, <1>14 DEF Requests

LEMMA LoseLateKeepsInv ==
  ASSUME IndInv, NEW m \in late, LoseLate(m)
  PROVE  IndInv'
<1> USE DEF IndInv
<1>1. /\ late' = late \ {m}
      /\ UNCHANGED <<status, project, byCron, stamp, count, known, payload, landed,
                     pc, todo, cur, left, pushed, req, rep>>
  BY DEF LoseLate, rowVars, dataVars, engineVars
<1>2. TypeOK' /\ Owned' /\ Talk'
  BY <1>1 DEF TypeOK, Owned, Talk, Conversation, Quiet, Asks, Answers, LateShape
<1>3. HeldIsRunning' /\ ClaimIsExclusive'
  BY <1>1 DEF BridgeInv, HeldIsRunning, ClaimIsExclusive, Holds
<1>4. LateOutcomeIsAlone' /\ LatePushIsLost' /\ LateLedger'
  BY <1>1 DEF BridgeInv, LateOutcomeIsAlone, LatePushIsLost, LateLedger, LateOutcome,
              LatePush, Truthful, Holds
<1>5. Ledger'
  BY <1>1 DEF BridgeInv, Ledger, LedgerOf, Truthful, Holds
<1>6. Untouched' /\ CountIsExact' /\ FailedRunsPushNothing'
  BY <1>1 DEF BridgeInv, Untouched, CountIsExact, FailedRunsPushNothing
<1> QED
  BY <1>2, <1>3, <1>4, <1>5, <1>6 DEF BridgeInv

-----------------------------------------------------------------------------
(***************************************************************************)
(* Queueing creates runs that nobody knows yet.                            *)
(***************************************************************************)
LEMMA QueueingEffect ==
  ASSUME TypeOK, Owned, Queueing
  PROVE  /\ TypeOK' /\ Owned'
         /\ UNCHANGED <<count, landed, pc, todo, cur, left, pushed, req, rep, late>>
         /\ \E R \in SUBSET Runs :
              /\ R # {} /\ \A r \in R : status[r] = "none"
              /\ status' = [r \in Runs |-> IF r \in R THEN "queued" ELSE status[r]]
<1>1. ASSUME NEW r \in Runs, NEW p \in Projects, startRun(r, p)
      PROVE  /\ TypeOK' /\ Owned'
             /\ UNCHANGED <<count, landed, pc, todo, cur, left, pushed, req, rep, late>>
             /\ \E R \in SUBSET Runs :
                  /\ R # {} /\ \A q \in R : status[q] = "none"
                  /\ status' = [q \in Runs |-> IF q \in R THEN "queued" ELSE status[q]]
  <2>1. TypeOK' /\ Owned'
    BY <1>1 DEF startRun, Unborn, TypeOK, Statuses, Owned, dataVars, engineVars, netVars
  <2>2. /\ {r} \in SUBSET Runs /\ \A q \in {r} : status[q] = "none"
        /\ status' = [q \in Runs |-> IF q \in {r} THEN "queued" ELSE status[q]]
    BY <1>1 DEF startRun, Unborn, TypeOK
  <2> QED
    BY <1>1, <2>1, <2>2 DEF startRun, dataVars, engineVars, netVars
<1>2. ASSUME NEW N \in SUBSET Runs, NEW g \in [N -> known \ Busy],
             queueDailyRevalidations(N, g)
      PROVE  /\ TypeOK' /\ Owned'
             /\ UNCHANGED <<count, landed, pc, todo, cur, left, pushed, req, rep, late>>
             /\ \E R \in SUBSET Runs :
                  /\ R # {} /\ \A q \in R : status[q] = "none"
                  /\ status' = [q \in Runs |-> IF q \in R THEN "queued" ELSE status[q]]
  <2>1. /\ UNCHANGED <<stamp, count, known, payload, landed,
                       pc, todo, cur, left, pushed, req, rep, late>>
        /\ N # {} /\ \A q \in N : status[q] = "none"
        /\ status' = [q \in Runs |-> IF q \in N THEN "queued" ELSE status[q]]
        /\ project' = [q \in Runs |-> IF q \in N THEN g[q] ELSE project[q]]
        /\ byCron' = [q \in Runs |-> q \in N \/ byCron[q]]
    BY <1>2 DEF queueDailyRevalidations, Unborn, dataVars, engineVars, netVars
  <2>2. \A q \in N : g[q] \in Projects
    BY DEF TypeOK
  <2>3. status' \in [Runs -> Statuses] /\ project' \in [Runs -> Projects \cup {None}]
    BY <2>1, <2>2 DEF TypeOK, Statuses
  <2>4. byCron' \in [Runs -> BOOLEAN]
    BY <2>1
  <2>5. TypeOK'
    BY <2>1, <2>3, <2>4 DEF TypeOK
  <2>6. Owned'
    BY <2>1, <2>2 DEF Owned
  <2> QED
    BY <2>1, <2>5, <2>6
<1> QED
  BY <1>1, <1>2 DEF Queueing

LEMMA QueueingKeepsInv ==
  ASSUME IndInv, Queueing
  PROVE  IndInv'
<1> USE DEF IndInv
<1>1. /\ TypeOK' /\ Owned'
      /\ UNCHANGED <<count, landed, pc, todo, cur, left, pushed, req, rep, late>>
  BY QueueingEffect
<1>2. \A r \in Runs : \/ status'[r] = status[r]
                      \/ status[r] = "none" /\ status'[r] = "queued"
  BY QueueingEffect
<1>3. Talk'
  BY <1>1 DEF Talk, Conversation, Quiet, Asks, Answers
<1>4. HeldIsRunning' /\ ClaimIsExclusive'
  BY <1>1, <1>2 DEF BridgeInv, HeldIsRunning, ClaimIsExclusive, Holds
<1>5. LateOutcomeIsAlone' /\ LatePushIsLost' /\ LateLedger'
  BY <1>1, <1>2 DEF BridgeInv, LateOutcomeIsAlone, LatePushIsLost, LateLedger,
                    LateOutcome, LatePush, Truthful, Holds
<1>6. Ledger'
  BY <1>1 DEF BridgeInv, Ledger, LedgerOf, Truthful, Holds
<1>7. Untouched' /\ CountIsExact' /\ FailedRunsPushNothing'
  BY <1>1, <1>2 DEF BridgeInv, Untouched, CountIsExact, FailedRunsPushNothing
<1> QED
  BY <1>1, <1>3, <1>4, <1>5, <1>6, <1>7 DEF BridgeInv

-----------------------------------------------------------------------------
(***************************************************************************)
(* The inductive invariant and what follows from it.                       *)
(***************************************************************************)
LEMMA InitHasInv == Init => IndInv
<1> SUFFICES ASSUME Init PROVE IndInv
  OBVIOUS
<1>1. TypeOK
  BY DEF Init, TypeOK, Statuses, Pcs, Requests, Replies, NoReq, NoRep, Results
<1>2. Talk /\ Owned
  BY DEF Init, Talk, Owned, Conversation, Quiet
<1>3. \A e \in Engines, r \in Runs : ~Holds(e, r)
  BY DEF Init, Holds
<1>4. BridgeInv
  BY <1>3 DEF Init, BridgeInv, HeldIsRunning, ClaimIsExclusive, LateOutcomeIsAlone,
     LatePushIsLost, Ledger, LateLedger, Untouched, CountIsExact,
     FailedRunsPushNothing, LateOutcome, LatePush
<1> QED
  BY <1>1, <1>2, <1>4 DEF IndInv

LEMMA StepKeepsInv == IndInv /\ [Next]_vars => IndInv'
<1> SUFFICES ASSUME IndInv, [Next]_vars PROVE IndInv'
  OBVIOUS
<1>1. CASE UNCHANGED vars
  <2>1. UNCHANGED <<status, project, byCron, stamp, count, known, payload, landed,
                    pc, todo, cur, left, pushed, req, rep, late>>
    BY <1>1 DEF vars, rowVars, dataVars, engineVars, netVars
  <2>2. TypeOK' /\ Owned' /\ Talk'
    BY <2>1
    DEF IndInv, TypeOK, Owned, Talk, Conversation, Quiet, Asks, Answers, LateShape
  <2>3. BridgeInv'
    BY <2>1
    DEF IndInv, BridgeInv, HeldIsRunning, ClaimIsExclusive, LateOutcomeIsAlone,
        LatePushIsLost, Ledger, LedgerOf, LateLedger, Untouched, CountIsExact,
        FailedRunsPushNothing, LateOutcome, LatePush, Holds, Truthful
  <2> QED
    BY <2>2, <2>3 DEF IndInv
<1>2. CASE Queueing
  BY <1>2, QueueingKeepsInv
<1>3. ASSUME NEW e \in Engines,
             EngineStep(e) \/ Serve(e) \/ ServeFails(e) \/ TimeOut(e) \/ Crash(e)
      PROVE  IndInv'
  BY <1>3, EngineKeepsInv, ServeKeepsInv, ServeFailsKeepsInv DEF Moves
<1>4. ASSUME NEW m \in late, ServeLate(m) \/ LoseLate(m)
      PROVE  IndInv'
  BY <1>4, ServeLateKeepsInv, LoseLateKeepsInv
<1> QED
  BY <1>1, <1>2, <1>3, <1>4 DEF Next

LEMMA InvHolds == Spec => []IndInv
  BY InitHasInv, StepKeepsInv, PTL DEF Spec

\* The state of the backend, of the engines and of everything in flight stays
\* in its types, the counts of outcomes included.
THEOREM BridgeTypeCorrect == Spec => []TypeOK
<1>1. IndInv => TypeOK
  BY DEF IndInv
<1> QED
  BY <1>1, InvHolds, PTL

\* No two engines ever hold the right to settle the same run, whatever number
\* of engines poll, time out and crash (claimForEngine checks and patches in
\* one transaction).
THEOREM ClaimsAreExclusive == Spec => []ClaimIsExclusive
<1>1. IndInv => ClaimIsExclusive
  BY DEF IndInv, BridgeInv
<1> QED
  BY <1>1, InvHolds, PTL

\* findingsIngested of a completed run is the number of findings the backend
\* stored for it, for every set of findings and every loss or delay.
LEMMA CountsAreExact == Spec => []CountIsExact
<1>1. IndInv => CountIsExact
  BY DEF IndInv, BridgeInv
<1> QED
  BY <1>1, InvHolds, PTL

\* A run resolved as failed has no finding in the backend.
LEMMA FailedRunsAreEmpty == Spec => []FailedRunsPushNothing
<1>1. IndInv => FailedRunsPushNothing
  BY DEF IndInv, BridgeInv
<1> QED
  BY <1>1, InvHolds, PTL

\* What a settled run reports is what the backend stored for it.
THEOREM OutcomesTrue == Spec => []OutcomesAreTrue
<1>1. CountIsExact /\ FailedRunsPushNothing => OutcomesAreTrue
  BY DEF OutcomesAreTrue
<1> QED
  BY <1>1, CountsAreExact, FailedRunsAreEmpty, PTL

-----------------------------------------------------------------------------
(***************************************************************************)
(* Refinement: the bridge implements the life cycle of RunLifecycle.       *)
(***************************************************************************)
LEMMA EngineRefines ==
  ASSUME TypeOK, NEW e \in Engines, Moves(e)
  PROVE  UNCHANGED <<status, count>>
BY EngineFrame DEF backend, rowVars

LEMMA HandlerRefines ==
  ASSUME TypeOK, NEW m \in Requests, LateShape(m), NEW result, Handle(m, result),
         m.kind = "resolve" => status[m.run] = "running"
  PROVE  [Lifecycle!LNext]_<<status, count>>
<1>1. CASE m.kind \in {"pending", "ingest"}
  BY <1>1, HandlerEffect
<1>2. CASE m.kind = "claim"
  <2>1. m.run \in Runs
    BY <1>2 DEF LateShape
  <2>2. count' = count
    BY <1>2, HandlerEffect
  <2>3. \/ status' = status
        \/ status[m.run] = "queued" /\ status' = [status EXCEPT ![m.run] = "running"]
    BY <1>2, HandlerEffect
  <2> QED
    BY <2>1, <2>2, <2>3 DEF Lifecycle!LNext, Lifecycle!Claim
<1>3. CASE m.kind = "resolve"
  <2>1. m.run \in Runs /\ m.n \in Counts /\ status[m.run] = "running"
    BY <1>3 DEF LateShape
  <2>2. count' = [count EXCEPT ![m.run] = m.n]
    BY <1>3, HandlerEffect
  <2>3. PICK s \in {"completed", "failed"} : status' = [status EXCEPT ![m.run] = s]
    BY <1>3, HandlerEffect
  <2>4. Lifecycle!Settle(m.run, s, m.n)
    BY <2>1, <2>2, <2>3 DEF Lifecycle!Settle
  <2> QED
    BY <2>1, <2>4 DEF Lifecycle!LNext
<1> QED
  BY <1>1, <1>2, <1>3 DEF Requests

LEMMA StepRefines ==
  IndInv /\ [Next]_vars => [Lifecycle!LNext]_<<status, count>>
<1> SUFFICES ASSUME IndInv, [Next]_vars PROVE [Lifecycle!LNext]_<<status, count>>
  OBVIOUS
<1> USE DEF IndInv
<1>1. CASE UNCHANGED vars
  BY <1>1 DEF vars, rowVars
<1>2. CASE Queueing
  BY <1>2, QueueingEffect DEF Lifecycle!LNext, Lifecycle!Queue
<1>3. ASSUME NEW e \in Engines, EngineStep(e) \/ TimeOut(e) \/ Crash(e)
      PROVE  UNCHANGED <<status, count>>
  BY <1>3, EngineRefines DEF Moves
<1>4. ASSUME NEW e \in Engines, ServeFails(e)
      PROVE  UNCHANGED <<status, count>>
  BY <1>4 DEF ServeFails, rowVars
<1>5. ASSUME NEW e \in Engines, Serve(e)
      PROVE  [Lifecycle!LNext]_<<status, count>>
  <2>1. PICK result \in Results : Handle(req[e], result)
    BY <1>5 DEF Serve
  <2>2. req[e] # NoReq /\ Conversation(e)
    BY <1>5 DEF Serve, Talk
  <2>3. req[e] \in Requests /\ LateShape(req[e])
    BY <2>2, WaitingRequest
  <2>4. req[e].kind = "resolve" => pc[e] = "resolving" /\ cur[e] = req[e].run
    BY <2>2, WaitingRequest
  <2>5. req[e].kind = "resolve" => status[req[e].run] = "running"
    BY <2>3, <2>4 DEF BridgeInv, HeldIsRunning, Holds, LateShape
  <2> QED
    BY <2>1, <2>3, <2>5, HandlerRefines
<1>6. ASSUME NEW m \in late, ServeLate(m)
      PROVE  [Lifecycle!LNext]_<<status, count>>
  <2>1. PICK result \in Results : Handle(m, result)
    BY <1>6 DEF ServeLate
  <2>2. m \in Requests /\ LateShape(m)
    BY DEF TypeOK, Talk
  <2>3. m.kind = "resolve" => status[m.run] = "running"
    BY <2>2 DEF BridgeInv, LateOutcomeIsAlone, LateOutcome, LateShape
  <2> QED
    BY <2>1, <2>2, <2>3, HandlerRefines
<1>7. ASSUME NEW m \in late, LoseLate(m)
      PROVE  UNCHANGED <<status, count>>
  BY <1>7 DEF LoseLate, rowVars
<1> QED
  BY <1>1, <1>2, <1>3, <1>4, <1>5, <1>6, <1>7 DEF Next

\* The workflow runs the backend keeps are queued, claimed and settled once
\* each, from running only and with a count of findings, although resolveRun
\* itself looks at no status: the bridge implements RunLifecycle.
THEOREM RunsImplementLifecycle == Spec => RunsFollowTheirLifecycle
<1>1. Init => Lifecycle!LInit
  BY DEF Init, Lifecycle!LInit
<1> QED
  BY <1>1, InvHolds, StepRefines, PTL
  DEF Spec, RunsFollowTheirLifecycle, Lifecycle!LSpec, Lifecycle!lifecycle

-----------------------------------------------------------------------------
(***************************************************************************)
(* The daily job: nothing but queueing makes a run active or assigns it to *)
(* a project, and the job passes over the projects that have one.          *)
(***************************************************************************)
Scheduled == \A r \in Runs : byCron[r] => status[r] # "none"
ScheduleInv == OneScheduledRun /\ Scheduled

LEMMA HandlerActivatesNothing ==
  ASSUME TypeOK, NEW m, NEW result, Handle(m, result)
  PROVE  /\ UNCHANGED <<project, byCron>>
         /\ \A r \in Runs : /\ Active(r)' => Active(r)
                            /\ status[r] # "none" => status'[r] # "none"
<1>1. CASE pendingForEngine(m, result)
  BY <1>1 DEF pendingForEngine, rowVars, Active
<1>2. CASE claimForEngine(m, result)
  BY <1>2 DEF claimForEngine, TypeOK, Active
<1>3. CASE ingestFromEngine(m, result)
  BY <1>3 DEF ingestFromEngine, Active
<1>4. CASE resolveRun(m, result)
  <2>1. PICK s \in {"completed", "failed"} : status' = [status EXCEPT ![m.run] = s]
    BY <1>4 DEF resolveRun
  <2>2. UNCHANGED <<project, byCron>>
    BY <1>4 DEF resolveRun
  <2> QED
    BY <2>1, <2>2 DEF TypeOK, Active
<1> QED
  BY <1>1, <1>2, <1>3, <1>4 DEF Handle

LEMMA OthersActivateNothing ==
  ASSUME TypeOK, [Next]_vars, ~Queueing
  PROVE  /\ UNCHANGED <<project, byCron>>
         /\ \A r \in Runs : /\ Active(r)' => Active(r)
                            /\ status[r] # "none" => status'[r] # "none"
<1>1. CASE UNCHANGED <<status, project, byCron>>
  BY <1>1 DEF Active
<1>2. CASE \E m, result : Handle(m, result)
  BY <1>2, HandlerActivatesNothing
<1>3. \/ UNCHANGED <<status, project, byCron>>
      \/ \E m, result : Handle(m, result)
  <2>1. CASE UNCHANGED vars
    BY <2>1 DEF vars, rowVars
  <2>2. ASSUME NEW e \in Engines, Moves(e)
        PROVE  UNCHANGED <<status, project, byCron>>
    BY <2>2, EngineFrame DEF backend, rowVars
  <2>3. ASSUME NEW e \in Engines, Serve(e) PROVE \E m, result : Handle(m, result)
    BY <2>3 DEF Serve
  <2>4. ASSUME NEW e \in Engines, ServeFails(e)
        PROVE  UNCHANGED <<status, project, byCron>>
    BY <2>4 DEF ServeFails, rowVars
  <2>5. ASSUME NEW m \in late, ServeLate(m) PROVE \E q, result : Handle(q, result)
    BY <2>5 DEF ServeLate
  <2>6. ASSUME NEW m \in late, LoseLate(m)
        PROVE  UNCHANGED <<status, project, byCron>>
    BY <2>6 DEF LoseLate, rowVars
  <2> QED
    BY <2>1, <2>2, <2>3, <2>4, <2>5, <2>6 DEF Next, Moves
<1> QED
  BY <1>1, <1>2, <1>3

LEMMA QueueingKeepsSchedule ==
  ASSUME TypeOK, ScheduleInv, Queueing
  PROVE  ScheduleInv'
<1>1. ASSUME NEW r \in Runs, NEW p \in Projects, startRun(r, p)
      PROVE  ScheduleInv'
  <2>1. /\ status[r] = "none" /\ byCron' = byCron
        /\ status' = [status EXCEPT ![r] = "queued"]
        /\ project' = [project EXCEPT ![r] = p]
    BY <1>1 DEF startRun, Unborn
  <2>2. ~byCron[r]
    BY <2>1 DEF ScheduleInv, Scheduled
  <2> QED
    BY <2>1, <2>2 DEF TypeOK, ScheduleInv, Scheduled, OneScheduledRun, Active
<1>2. ASSUME NEW N \in SUBSET Runs, NEW g \in [N -> known \ Busy],
             queueDailyRevalidations(N, g)
      PROVE  ScheduleInv'
  <2>1. /\ \A r \in N : status[r] = "none"
        /\ \A q, r \in N : g[q] = g[r] => q = r
        /\ \A r \in Runs : status'[r] = IF r \in N THEN "queued" ELSE status[r]
        /\ \A r \in Runs : project'[r] = IF r \in N THEN g[r] ELSE project[r]
        /\ \A r \in Runs : byCron'[r] <=> r \in N \/ byCron[r]
    BY <1>2 DEF queueDailyRevalidations, Unborn
  <2>2. \A r \in N, q \in Runs : Active(q) => project[q] # g[r]
    BY DEF Busy
  <2>3. Scheduled'
    BY <2>1 DEF ScheduleInv, Scheduled
  <2>4. ASSUME NEW q \in Runs, NEW r \in Runs, byCron'[q], byCron'[r],
               Active(q)', Active(r)', project'[q] = project'[r]
        PROVE  q = r
    <3>1. CASE q \in N /\ r \in N
      BY <2>1, <2>4, <3>1
    <3>2. CASE q \in N /\ r \notin N
      BY <2>1, <2>2, <2>4, <3>2 DEF Active
    <3>3. CASE q \notin N /\ r \in N
      BY <2>1, <2>2, <2>4, <3>3 DEF Active
    <3>4. CASE q \notin N /\ r \notin N
      BY <2>1, <2>4, <3>4 DEF ScheduleInv, OneScheduledRun, Active
    <3> QED
      BY <3>1, <3>2, <3>3, <3>4
  <2> QED
    BY <2>3, <2>4 DEF ScheduleInv, OneScheduledRun
<1> QED
  BY <1>1, <1>2 DEF Queueing

\* The daily job never has two of its runs active for one project, whatever
\* the panel queues and however engines time out, crash or answer late.
THEOREM ScheduledOnce == Spec => []OneScheduledRun
<1>1. Init => ScheduleInv
  BY DEF Init, ScheduleInv, Scheduled, OneScheduledRun
<1>2. IndInv /\ ScheduleInv /\ [Next]_vars => ScheduleInv'
  <2> SUFFICES ASSUME IndInv, ScheduleInv, [Next]_vars PROVE ScheduleInv'
    OBVIOUS
  <2>1. TypeOK
    BY DEF IndInv
  <2>2. CASE Queueing
    BY <2>1, <2>2, QueueingKeepsSchedule
  <2>3. CASE ~Queueing
    <3>1. /\ UNCHANGED <<project, byCron>>
          /\ \A r \in Runs : /\ Active(r)' => Active(r)
                             /\ status[r] # "none" => status'[r] # "none"
      BY <2>1, <2>3, OthersActivateNothing
    <3> QED
      BY <3>1 DEF ScheduleInv, Scheduled, OneScheduledRun
  <2> QED
    BY <2>2, <2>3
<1>3. ScheduleInv => OneScheduledRun
  BY DEF ScheduleInv
<1> QED
  BY <1>1, <1>2, <1>3, InvHolds, PTL DEF Spec
=============================================================================
