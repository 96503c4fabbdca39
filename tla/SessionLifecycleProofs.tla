----------------------- MODULE SessionLifecycleProofs -----------------------
(***************************************************************************)
(* The session control plane, proved for any number of sessions, runners   *)
(* and callers: its types, what the two statements of update_state cannot  *)
(* break, one agent per session, no agent in a stopped session, and what   *)
(* the daemon's own operations leave attended and on disk.                 *)
(***************************************************************************)
EXTENDS SessionLifecycle, TLAPS

LEMMA FirstStepType ==
  ASSUME NEW k \in Kinds, k # "launch", NEW s
  PROVE  FirstStep(k, s) \in OpPcs
  BY DEF FirstStep, Kinds, OpPcs

LEMMA TargetType == ASSUME NEW k PROVE Target(k) \in SessionStates
  BY DEF Target, SessionStates

\* What the four ways of moving a caller do to its record.
LEMMA Busy ==
  ASSUME TypeOK, NEW c \in Callers, op[c].at # "idle"
  PROVE  op[c] \in OpRecord
  BY DEF TypeOK, NoOp

LEMMA StepType ==
  ASSUME TypeOK, NEW c \in Callers, NEW l \in OpPcs, op[c].at # "idle", Step(c, l)
  PROVE  op' \in [Callers -> OpRecord \cup {NoOp}]
  <1>1. op[c] \in OpRecord
    BY Busy
  <1>2. [op[c] EXCEPT !.at = l] \in OpRecord
    BY <1>1 DEF OpRecord
  <1> QED
    BY <1>2, Zenon DEF Step, TypeOK

LEMMA DoneType ==
  ASSUME TypeOK, NEW c \in Callers, Done(c)
  PROVE  op' \in [Callers -> OpRecord \cup {NoOp}]
  BY DEF TypeOK, Done

LEMMA SnapshotType ==
  ASSUME TypeOK, NEW c \in Callers, NEW k \in Kinds, NEW s \in Sessions,
         NEW l \in OpPcs, Snapshot(c, k, s, l)
  PROVE  op' \in [Callers -> OpRecord \cup {NoOp}]
  BY DEF TypeOK, Snapshot, OpRecord

\* The row helpers keep the types of the columns they write.
LEMMA RowTypes ==
  ASSUME TypeOK, NEW s, NEW to \in SessionStates, NEW p \in Runners \cup {None}
  PROVE  /\ UpdateState(s, to) \/ UpdatePid(s, p) \/ update_state_and_pid(s, to, p)
           => /\ state' \in [Sessions -> SessionStates \cup {"fresh", "deleted"}]
              /\ pid' \in [Sessions -> Runners \cup {None}]
              /\ tree' \in [Sessions -> BOOLEAN]
              /\ lapsed' \in [Sessions -> BOOLEAN]
  <1>1. CASE UpdateState(s, to)
    BY <1>1 DEF TypeOK, UpdateState, Touch
  <1>2. CASE UpdatePid(s, p)
    BY <1>2 DEF TypeOK, UpdatePid, Touch
  <1>3. CASE update_state_and_pid(s, to, p)
    BY <1>3 DEF TypeOK, update_state_and_pid, Touch
  <1> QED
    BY <1>1, <1>2, <1>3

THEOREM TypeCorrect == Spec => []TypeOK
<1>1. Init => TypeOK
  BY ConstantsAssumption DEF Init, TypeOK, NoOp, SessionStates, RunnerPcs, OpPcs
<1>2. TypeOK /\ [Next]_vars => TypeOK'
  <2> SUFFICES ASSUME TypeOK, [Next]_vars PROVE TypeOK'
    OBVIOUS
  <2> USE ConstantsAssumption
  <2>1. ASSUME NEW r \in Runners, RunnerSkips(r)
        PROVE  TypeOK'
    BY <2>1 DEF TypeOK, OpRecord, SessionStates, RunnerPcs, OpPcs, RunnerSkips, Goto, rowVars, runnerVars
  <2>2. ASSUME NEW r \in Runners, RunnerAccepts(r)
        PROVE  TypeOK'
    BY <2>2 DEF TypeOK, OpRecord, SessionStates, RunnerPcs, OpPcs, RunnerAccepts, Goto, rowVars, runnerVars
  <2>3. ASSUME NEW r \in Runners, AgentSpawns(r)
        PROVE  TypeOK'
    BY <2>3 DEF TypeOK, OpRecord, SessionStates, RunnerPcs, OpPcs, AgentSpawns, Goto, rowVars, runnerVars
  <2>4. ASSUME NEW r \in Runners, AgentSpawnFails(r)
        PROVE  TypeOK'
    BY <2>4 DEF TypeOK, OpRecord, SessionStates, RunnerPcs, OpPcs, AgentSpawnFails, Goto, rowVars, runnerVars
  <2>5. ASSUME NEW r \in Runners, RecordPid(r)
        PROVE  TypeOK'
    <3>1. of' = of /\ agent' = agent /\ disk' = disk /\ op' = op
      BY <2>5 DEF RecordPid, RunnerUpdatesPid
    <3>2. at' \in [Runners -> RunnerPcs]
      BY <2>5 DEF RecordPid, RunnerUpdatesPid, Goto, TypeOK, RunnerPcs
    <3>3. UpdatePid(of[r], r) \/ UNCHANGED rowVars
      BY <2>5 DEF RecordPid, RunnerUpdatesPid
    <3> QED
      BY <3>1, <3>2, <3>3, RowTypes DEF TypeOK, rowVars, SessionStates
  <2>6. ASSUME NEW r \in Runners, CheckRunning(r)
        PROVE  TypeOK'
    BY <2>6 DEF TypeOK, OpRecord, SessionStates, RunnerPcs, OpPcs, CheckRunning, RunnerChecks, Goto, rowVars, runnerVars
  <2>7. ASSUME NEW r \in Runners, WriteRunning(r)
        PROVE  TypeOK'
    BY <2>7 DEF TypeOK, OpRecord, SessionStates, RunnerPcs, OpPcs, WriteRunning, RunnerWrites, UpdateState, Touch, Goto, rowVars, runnerVars
  <2>8. ASSUME NEW r \in Runners, FirstBeat(r)
        PROVE  TypeOK'
    BY <2>8 DEF TypeOK, OpRecord, SessionStates, RunnerPcs, OpPcs, FirstBeat, Touch, Goto, rowVars, runnerVars
  <2>9. ASSUME NEW r \in Runners, Beat(r)
        PROVE  TypeOK'
    BY <2>9 DEF TypeOK, OpRecord, SessionStates, RunnerPcs, OpPcs, Beat, Touch, rowVars, runnerVars
  <2>10. ASSUME NEW r \in Runners, ReapAgent(r)
        PROVE  TypeOK'
    BY <2>10 DEF TypeOK, OpRecord, SessionStates, RunnerPcs, OpPcs, ReapAgent, Goto, rowVars, runnerVars
  <2>11. ASSUME NEW r \in Runners, ClearPid(r)
        PROVE  TypeOK'
    BY <2>11 DEF TypeOK, OpRecord, SessionStates, RunnerPcs, OpPcs, ClearPid, RunnerUpdatesPid, UpdatePid, Touch, Goto, rowVars, runnerVars
  <2>12. ASSUME NEW r \in Runners, CheckFinal(r)
        PROVE  TypeOK'
    BY <2>12 DEF TypeOK, OpRecord, SessionStates, RunnerPcs, OpPcs, CheckFinal, RunnerChecks, Goto, rowVars, runnerVars
  <2>13. ASSUME NEW r \in Runners, WriteFinal(r)
        PROVE  TypeOK'
    BY <2>13 DEF TypeOK, OpRecord, SessionStates, RunnerPcs, OpPcs, WriteFinal, RunnerWrites, UpdateState, Touch, Goto, Verdict, rowVars, runnerVars
  <2>14. ASSUME NEW r \in Runners, ErrClearPid(r)
        PROVE  TypeOK'
    BY <2>14 DEF TypeOK, OpRecord, SessionStates, RunnerPcs, OpPcs, ErrClearPid, UpdatePid, Touch, Goto, rowVars, runnerVars
  <2>15. ASSUME NEW r \in Runners, ErrCheckFailed(r)
        PROVE  TypeOK'
    BY <2>15 DEF TypeOK, OpRecord, SessionStates, RunnerPcs, OpPcs, ErrCheckFailed, RunnerChecks, Goto, rowVars, runnerVars
  <2>16. ASSUME NEW r \in Runners, ErrWriteFailed(r)
        PROVE  TypeOK'
    BY <2>16 DEF TypeOK, OpRecord, SessionStates, RunnerPcs, OpPcs, ErrWriteFailed, RunnerWrites, UpdateState, Touch, Goto, rowVars, runnerVars
  <2>17. ASSUME NEW r \in Runners, AgentExits(r)
        PROVE  TypeOK'
    BY <2>17 DEF TypeOK, OpRecord, SessionStates, RunnerPcs, OpPcs, AgentExits, rowVars, runnerVars
  <2>18. ASSUME NEW r \in Runners, RunnerCrash(r)
        PROVE  TypeOK'
    BY <2>18 DEF TypeOK, OpRecord, SessionStates, RunnerPcs, OpPcs, RunnerCrash, Goto, rowVars, runnerVars
  <2>19. ASSUME NEW s \in Sessions, Expire(s)
        PROVE  TypeOK'
    BY <2>19 DEF TypeOK, OpRecord, SessionStates, RunnerPcs, OpPcs, Expire, rowVars, runnerVars
  <2>20. ASSUME NEW c \in Callers, CallerCrash(c)
        PROVE  TypeOK'
    BY <2>20, Busy, StepType, DoneType, SnapshotType, FirstStepType, TargetType DEF TypeOK, OpRecord, SessionStates, RunnerPcs, OpPcs, CallerCrash, rowVars, runnerVars
  <2>21. ASSUME NEW c \in Callers, ResolveCleanup(c)
        PROVE  TypeOK'
    <3>1. op[c] \in OpRecord
      BY <2>21, Busy DEF ResolveCleanup
    <3>2. FirstStep("cleanup", op[c].on) \in OpPcs
      BY FirstStepType DEF Kinds
    <3>3. op' \in [Callers -> OpRecord \cup {NoOp}]
      BY <2>21, <3>1, <3>2, SnapshotType, DoneType DEF ResolveCleanup, OpRecord, Kinds
    <3> QED
      BY <2>21, <3>3 DEF ResolveCleanup, TypeOK, rowVars, runnerVars
  <2>22. ASSUME NEW c \in Callers, ResolveStop(c)
        PROVE  TypeOK'
    <3>1. op[c] \in OpRecord
      BY <2>22, Busy DEF ResolveStop
    <3>2. op' \in [Callers -> OpRecord \cup {NoOp}]
      BY <2>22, <3>1, SnapshotType, DoneType DEF ResolveStop, OpRecord, Kinds, OpPcs
    <3> QED
      BY <2>22, <3>2 DEF ResolveStop, TypeOK, rowVars, runnerVars
  <2>23. ASSUME NEW c \in Callers, Kill(c)
        PROVE  TypeOK'
    BY <2>23, Busy, StepType, DoneType, SnapshotType, FirstStepType, TargetType DEF TypeOK, OpRecord, SessionStates, RunnerPcs, OpPcs, Kill, rowVars, runnerVars
  <2>24. ASSUME NEW c \in Callers, OpClearPid(c)
        PROVE  TypeOK'
    BY <2>24, Busy, StepType, DoneType, SnapshotType, FirstStepType, TargetType DEF TypeOK, OpRecord, SessionStates, RunnerPcs, OpPcs, OpClearPid, UpdatePid, Touch, rowVars, runnerVars
  <2>25. ASSUME NEW c \in Callers, OpCheck(c)
        PROVE  TypeOK'
    BY <2>25, Busy, StepType, DoneType, SnapshotType, FirstStepType, TargetType DEF TypeOK, OpRecord, SessionStates, RunnerPcs, OpPcs, OpCheck, rowVars, runnerVars
  <2>26. ASSUME NEW c \in Callers, OpWrite(c)
        PROVE  TypeOK'
    <3>1. op' \in [Callers -> OpRecord \cup {NoOp}]
      BY <2>26, StepType, DoneType DEF OpWrite, AfterWrite, OpPcs
    <3>2. UpdateState(op[c].on, Target(op[c].kind)) \/ UNCHANGED rowVars
      BY <2>26 DEF OpWrite
    <3> QED
      BY <2>26, <3>1, <3>2, RowTypes, TargetType
      DEF OpWrite, TypeOK, SessionStates, rowVars, runnerVars
  <2>27. ASSUME NEW c \in Callers, RemoveTree(c)
        PROVE  TypeOK'
    BY <2>27, Busy, StepType, DoneType, SnapshotType, FirstStepType, TargetType DEF TypeOK, OpRecord, SessionStates, RunnerPcs, OpPcs, RemoveTree, rowVars, runnerVars
  <2>28. ASSUME NEW c \in Callers, ClearTree(c)
        PROVE  TypeOK'
    BY <2>28, Busy, StepType, DoneType, SnapshotType, FirstStepType, TargetType DEF TypeOK, OpRecord, SessionStates, RunnerPcs, OpPcs, ClearTree, Touch, rowVars, runnerVars
  <2>29. ASSUME NEW c \in Callers, ForceFail(c)
        PROVE  TypeOK'
    <3>1. op' \in [Callers -> OpRecord \cup {NoOp}]
      BY <2>29, StepType, DoneType DEF ForceFail, OpPcs
    <3>2. update_state_and_pid(op[c].on, "Failed", None) \/ UNCHANGED rowVars
      BY <2>29 DEF ForceFail
    <3> QED
      BY <2>29, <3>1, <3>2, RowTypes, TargetType
      DEF ForceFail, TypeOK, SessionStates, rowVars, runnerVars
  <2>30. ASSUME NEW c \in Callers, SetPending(c)
        PROVE  TypeOK'
    <3>1. op' \in [Callers -> OpRecord \cup {NoOp}]
      BY <2>30, StepType, DoneType DEF SetPending, OpPcs
    <3>2. update_state_and_pid(op[c].on, "Pending", None) \/ UNCHANGED rowVars
      BY <2>30 DEF SetPending
    <3> QED
      BY <2>30, <3>1, <3>2, RowTypes, TargetType
      DEF SetPending, TypeOK, SessionStates, rowVars, runnerVars
  <2>31. ASSUME NEW c \in Callers, SpawnFails(c)
        PROVE  TypeOK'
    BY <2>31, Busy, StepType, DoneType, SnapshotType, FirstStepType, TargetType DEF TypeOK, OpRecord, SessionStates, RunnerPcs, OpPcs, SpawnFails, rowVars, runnerVars
  <2>32. ASSUME NEW c \in Callers, DeleteRow(c)
        PROVE  TypeOK'
    BY <2>32, Busy, StepType, DoneType, SnapshotType, FirstStepType, TargetType DEF TypeOK, OpRecord, SessionStates, RunnerPcs, OpPcs, DeleteRow, Touch, rowVars, runnerVars
  <2>33. ASSUME NEW c \in Callers, DeleteRowFails(c)
        PROVE  TypeOK'
    BY <2>33, Busy, StepType, DoneType, SnapshotType, FirstStepType, TargetType DEF TypeOK, OpRecord, SessionStates, RunnerPcs, OpPcs, DeleteRowFails, rowVars, runnerVars
  <2>34. ASSUME NEW c \in Callers, NEW r \in Runners, Spawn(c, r)
        PROVE  TypeOK'
    BY <2>34, Busy, StepType, DoneType, SnapshotType, FirstStepType, TargetType DEF TypeOK, OpRecord, SessionStates, RunnerPcs, OpPcs, Spawn, Goto, rowVars, runnerVars
  <2>35. ASSUME NEW c \in Callers, NEW s \in Sessions, NEW w \in BOOLEAN, Launch(c, s, w)
        PROVE  TypeOK'
    <3>1. op' \in [Callers -> OpRecord \cup {NoOp}]
      BY <2>35 DEF Launch, TypeOK, OpRecord, Kinds, OpPcs
    <3>2. /\ state' \in [Sessions -> SessionStates \cup {"fresh", "deleted"}]
          /\ tree' \in [Sessions -> BOOLEAN] /\ disk' \in [Sessions -> BOOLEAN]
      BY <2>35 DEF Launch, TypeOK, SessionStates
    <3> QED
      BY <2>35, <3>1, <3>2 DEF Launch, TypeOK, runnerVars
  <2>36. ASSUME NEW c \in Callers, NEW s \in Sessions, NEW k \in Ops, Begin(c, s, k)
        PROVE  TypeOK'
    <3>1. k \in Kinds /\ k # "launch"
      BY <2>36, ConstantsAssumption DEF Begin, Admits, Kinds
    <3>2. op' \in [Callers -> OpRecord \cup {NoOp}]
      BY <2>36, <3>1, FirstStepType, SnapshotType DEF Begin
    <3> QED
      BY <2>36, <3>2 DEF Begin, TypeOK, rowVars, runnerVars
  <2>37. CASE UNCHANGED vars
    BY <2>37 DEF TypeOK, OpRecord, SessionStates, RunnerPcs, OpPcs, vars
  <2> QED
    BY <2>1, <2>2, <2>3, <2>4, <2>5, <2>6, <2>7, <2>8, <2>9, <2>10, <2>11, <2>12, <2>13, <2>14, <2>15, <2>16, <2>17, <2>18, <2>19, <2>20, <2>21, <2>22, <2>23, <2>24, <2>25, <2>26, <2>27, <2>28, <2>29, <2>30, <2>31, <2>32, <2>33, <2>34, <2>35, <2>36, <2>37 DEF Next, RunnerStep, CallerStep, OpStep
<1>3. QED
  BY <1>1, <1>2, PTL DEF Spec

-----------------------------------------------------------------------------
(***************************************************************************)
(* What the two statements of update_state, performed by different         *)
(* processes, can never break.  The invariant is inductive with two facts  *)
(* added: a row that is not there has no pid, and a runner that has not    *)
(* reached its spawn has no agent.                                         *)
(***************************************************************************)
NoPidWithoutRow == \A s \in Sessions : ~Present(s) => pid[s] = None

NoAgentYet ==
  \A r \in Runners :
    /\ at[r] \in {"unborn", "started", "spawn"} => agent[r] = "none"
    /\ at[r] = "unborn" => of[r] = None

SafetyInv ==
  /\ NoPidWithoutRow
  /\ NoAgentYet
  /\ RunningIsSupervised
  /\ PidBelongsToItsRunner
  /\ CompletedIsEarned

\* All that a caller's step, an exit of an agent, the clock and a crash can do
\* to rows and runners: they never write running or completed, never record
\* a pid, and never move a runner other than to start or to crash it.
Frame ==
  /\ \A s \in Sessions :
       /\ state'[s] = state[s] \/ state'[s] \notin {"Running", "Completed"}
       /\ pid'[s] = pid[s] \/ pid'[s] = None
       /\ Present(s) /\ ~Present(s)' => pid'[s] = None
  /\ \A r \in Runners :
       /\ agent'[r] = agent[r] \/ agent[r] = "alive"
       /\ \/ of'[r] = of[r] /\ (at'[r] = at[r] \/ at'[r] = "crashed")
          \/ at[r] = "unborn" /\ at'[r] = "started"

LEMMA CallerFrame ==
  ASSUME TypeOK, NEW c \in Callers, CallerStep(c)
  PROVE  Frame
<1> USE DEF TypeOK, Frame, Present, SessionStates, rowVars, runnerVars
<1>1. CASE CallerCrash(c)
  BY <1>1 DEF CallerCrash
<1>2. CASE ResolveCleanup(c)
  BY <1>2 DEF ResolveCleanup
<1>3. CASE ResolveStop(c)
  BY <1>3 DEF ResolveStop
<1>4. CASE Kill(c)
  BY <1>4 DEF Kill
<1>5. CASE OpClearPid(c)
  BY <1>5 DEF OpClearPid, UpdatePid
<1>6. CASE OpCheck(c)
  BY <1>6 DEF OpCheck
<1>7. CASE OpWrite(c)
  BY <1>7 DEF OpWrite, UpdateState, Target
<1>8. CASE RemoveTree(c)
  BY <1>8 DEF RemoveTree
<1>9. CASE ClearTree(c)
  BY <1>9 DEF ClearTree
<1>10. CASE ForceFail(c)
  BY <1>10 DEF ForceFail, update_state_and_pid
<1>11. CASE SetPending(c)
  BY <1>11 DEF SetPending, update_state_and_pid
<1>12. CASE SpawnFails(c)
  BY <1>12 DEF SpawnFails
<1>13. CASE DeleteRow(c)
  BY <1>13 DEF DeleteRow
<1>14. CASE DeleteRowFails(c)
  BY <1>14 DEF DeleteRowFails
<1>15. ASSUME NEW r \in Runners, Spawn(c, r) PROVE Frame
  BY <1>15 DEF Spawn, Goto
<1>16. ASSUME NEW s \in Sessions, NEW w \in BOOLEAN, Launch(c, s, w) PROVE Frame
  BY <1>16 DEF Launch
<1>17. ASSUME NEW s \in Sessions, NEW k \in Ops, Begin(c, s, k) PROVE Frame
  BY <1>17 DEF Begin
<1> QED
  BY <1>1, <1>2, <1>3, <1>4, <1>5, <1>6, <1>7, <1>8, <1>9, <1>10, <1>11, <1>12, <1>13, <1>14, <1>15, <1>16, <1>17 DEF CallerStep, OpStep

LEMMA FrameKeepsSafety ==
  ASSUME TypeOK, TypeOK', SafetyInv, Frame
  PROVE  SafetyInv'
<1> USE DEF SafetyInv, Frame
<1>1. NoPidWithoutRow'
  BY DEF NoPidWithoutRow, Present
<1>2. NoAgentYet'
  BY DEF NoAgentYet
<1>3. RunningIsSupervised'
  BY DEF RunningIsSupervised, Settling
<1>4. PidBelongsToItsRunner'
  BY ConstantsAssumption DEF PidBelongsToItsRunner, HoldingPid, TypeOK
<1>5. CompletedIsEarned'
  BY DEF CompletedIsEarned, NoAgentYet
<1> QED
  BY <1>1, <1>2, <1>3, <1>4, <1>5

LEMMA RunnerKeepsSafety ==
  ASSUME TypeOK, TypeOK', SafetyInv, NEW r \in Runners, RunnerStep(r)
  PROVE  SafetyInv'
<1> USE ConstantsAssumption
        DEF SafetyInv, TypeOK, SessionStates, Present, rowVars, runnerVars
<1>1. CASE RunnerSkips(r)
  <2>1. NoPidWithoutRow' /\ NoAgentYet'
    BY <1>1 DEF RunnerSkips, Goto, NoPidWithoutRow, NoAgentYet
  <2>2. RunningIsSupervised'
    BY <1>1 DEF RunnerSkips, Goto, RunningIsSupervised, Settling
  <2>3. PidBelongsToItsRunner'
    BY <1>1 DEF RunnerSkips, Goto, PidBelongsToItsRunner, HoldingPid, NoPidWithoutRow
  <2>4. CompletedIsEarned'
    BY <1>1 DEF RunnerSkips, Goto, CompletedIsEarned, NoAgentYet
  <2> QED
    BY <2>1, <2>2, <2>3, <2>4
<1>2. CASE RunnerAccepts(r)
  <2>1. NoPidWithoutRow' /\ NoAgentYet'
    BY <1>2 DEF RunnerAccepts, Goto, NoPidWithoutRow, NoAgentYet
  <2>2. RunningIsSupervised'
    BY <1>2 DEF RunnerAccepts, Goto, RunningIsSupervised, Settling
  <2>3. PidBelongsToItsRunner'
    BY <1>2 DEF RunnerAccepts, Goto, PidBelongsToItsRunner, HoldingPid, NoPidWithoutRow
  <2>4. CompletedIsEarned'
    BY <1>2 DEF RunnerAccepts, Goto, CompletedIsEarned, NoAgentYet
  <2> QED
    BY <2>1, <2>2, <2>3, <2>4
<1>3. CASE AgentSpawns(r)
  <2>1. NoPidWithoutRow' /\ NoAgentYet'
    BY <1>3 DEF AgentSpawns, Goto, NoPidWithoutRow, NoAgentYet
  <2>2. RunningIsSupervised'
    BY <1>3 DEF AgentSpawns, Goto, RunningIsSupervised, Settling
  <2>3. PidBelongsToItsRunner'
    BY <1>3 DEF AgentSpawns, Goto, PidBelongsToItsRunner, HoldingPid, NoPidWithoutRow
  <2>4. CompletedIsEarned'
    BY <1>3 DEF AgentSpawns, Goto, CompletedIsEarned, NoAgentYet
  <2> QED
    BY <2>1, <2>2, <2>3, <2>4
<1>4. CASE AgentSpawnFails(r)
  <2>1. NoPidWithoutRow' /\ NoAgentYet'
    BY <1>4 DEF AgentSpawnFails, Goto, NoPidWithoutRow, NoAgentYet
  <2>2. RunningIsSupervised'
    BY <1>4 DEF AgentSpawnFails, Goto, RunningIsSupervised, Settling
  <2>3. PidBelongsToItsRunner'
    BY <1>4 DEF AgentSpawnFails, Goto, PidBelongsToItsRunner, HoldingPid, NoPidWithoutRow
  <2>4. CompletedIsEarned'
    BY <1>4 DEF AgentSpawnFails, Goto, CompletedIsEarned, NoAgentYet
  <2> QED
    BY <2>1, <2>2, <2>3, <2>4
<1>5. CASE RecordPid(r)
  <2>1. NoPidWithoutRow' /\ NoAgentYet'
    BY <1>5 DEF RecordPid, RunnerUpdatesPid, UpdatePid, Goto, NoPidWithoutRow, NoAgentYet
  <2>2. RunningIsSupervised'
    BY <1>5 DEF RecordPid, RunnerUpdatesPid, UpdatePid, Goto, RunningIsSupervised, Settling
  <2>3. PidBelongsToItsRunner'
    BY <1>5 DEF RecordPid, RunnerUpdatesPid, UpdatePid, Goto, PidBelongsToItsRunner, HoldingPid, NoPidWithoutRow
  <2>4. CompletedIsEarned'
    BY <1>5 DEF RecordPid, RunnerUpdatesPid, UpdatePid, Goto, CompletedIsEarned, NoAgentYet
  <2> QED
    BY <2>1, <2>2, <2>3, <2>4
<1>6. CASE CheckRunning(r)
  <2>1. NoPidWithoutRow' /\ NoAgentYet'
    BY <1>6 DEF CheckRunning, RunnerChecks, Goto, NoPidWithoutRow, NoAgentYet
  <2>2. RunningIsSupervised'
    BY <1>6 DEF CheckRunning, RunnerChecks, Goto, RunningIsSupervised, Settling
  <2>3. PidBelongsToItsRunner'
    BY <1>6 DEF CheckRunning, RunnerChecks, Goto, PidBelongsToItsRunner, HoldingPid, NoPidWithoutRow
  <2>4. CompletedIsEarned'
    BY <1>6 DEF CheckRunning, RunnerChecks, Goto, CompletedIsEarned, NoAgentYet
  <2> QED
    BY <2>1, <2>2, <2>3, <2>4
<1>7. CASE WriteRunning(r)
  <2>1. NoPidWithoutRow' /\ NoAgentYet'
    BY <1>7 DEF WriteRunning, RunnerWrites, UpdateState, Goto, NoPidWithoutRow, NoAgentYet
  <2>2. RunningIsSupervised'
    BY <1>7 DEF WriteRunning, RunnerWrites, UpdateState, Goto, RunningIsSupervised, Settling
  <2>3. PidBelongsToItsRunner'
    BY <1>7 DEF WriteRunning, RunnerWrites, UpdateState, Goto, PidBelongsToItsRunner, HoldingPid, NoPidWithoutRow
  <2>4. CompletedIsEarned'
    BY <1>7 DEF WriteRunning, RunnerWrites, UpdateState, Goto, CompletedIsEarned, NoAgentYet
  <2> QED
    BY <2>1, <2>2, <2>3, <2>4
<1>8. CASE FirstBeat(r)
  <2>1. NoPidWithoutRow' /\ NoAgentYet'
    BY <1>8 DEF FirstBeat, Goto, NoPidWithoutRow, NoAgentYet
  <2>2. RunningIsSupervised'
    BY <1>8 DEF FirstBeat, Goto, RunningIsSupervised, Settling
  <2>3. PidBelongsToItsRunner'
    BY <1>8 DEF FirstBeat, Goto, PidBelongsToItsRunner, HoldingPid, NoPidWithoutRow
  <2>4. CompletedIsEarned'
    BY <1>8 DEF FirstBeat, Goto, CompletedIsEarned, NoAgentYet
  <2> QED
    BY <2>1, <2>2, <2>3, <2>4
<1>9. CASE Beat(r)
  <2>1. NoPidWithoutRow' /\ NoAgentYet'
    BY <1>9 DEF Beat, NoPidWithoutRow, NoAgentYet
  <2>2. RunningIsSupervised'
    BY <1>9 DEF Beat, RunningIsSupervised, Settling
  <2>3. PidBelongsToItsRunner'
    BY <1>9 DEF Beat, PidBelongsToItsRunner, HoldingPid, NoPidWithoutRow
  <2>4. CompletedIsEarned'
    BY <1>9 DEF Beat, CompletedIsEarned, NoAgentYet
  <2> QED
    BY <2>1, <2>2, <2>3, <2>4
<1>10. CASE ReapAgent(r)
  <2>1. NoPidWithoutRow' /\ NoAgentYet'
    BY <1>10 DEF ReapAgent, Goto, NoPidWithoutRow, NoAgentYet
  <2>2. RunningIsSupervised'
    BY <1>10 DEF ReapAgent, Goto, RunningIsSupervised, Settling
  <2>3. PidBelongsToItsRunner'
    BY <1>10 DEF ReapAgent, Goto, PidBelongsToItsRunner, HoldingPid, NoPidWithoutRow
  <2>4. CompletedIsEarned'
    BY <1>10 DEF ReapAgent, Goto, CompletedIsEarned, NoAgentYet
  <2> QED
    BY <2>1, <2>2, <2>3, <2>4
<1>11. CASE ClearPid(r)
  <2>1. NoPidWithoutRow' /\ NoAgentYet'
    BY <1>11 DEF ClearPid, RunnerUpdatesPid, UpdatePid, Goto, NoPidWithoutRow, NoAgentYet
  <2>2. RunningIsSupervised'
    BY <1>11 DEF ClearPid, RunnerUpdatesPid, UpdatePid, Goto, RunningIsSupervised, Settling
  <2>3. PidBelongsToItsRunner'
    BY <1>11 DEF ClearPid, RunnerUpdatesPid, UpdatePid, Goto, PidBelongsToItsRunner, HoldingPid, NoPidWithoutRow
  <2>4. CompletedIsEarned'
    BY <1>11 DEF ClearPid, RunnerUpdatesPid, UpdatePid, Goto, CompletedIsEarned, NoAgentYet
  <2> QED
    BY <2>1, <2>2, <2>3, <2>4
<1>12. CASE CheckFinal(r)
  <2>1. NoPidWithoutRow' /\ NoAgentYet'
    BY <1>12 DEF CheckFinal, RunnerChecks, Goto, NoPidWithoutRow, NoAgentYet
  <2>2. RunningIsSupervised'
    BY <1>12 DEF CheckFinal, RunnerChecks, Goto, RunningIsSupervised, Settling
  <2>3. PidBelongsToItsRunner'
    BY <1>12 DEF CheckFinal, RunnerChecks, Goto, PidBelongsToItsRunner, HoldingPid, NoPidWithoutRow
  <2>4. CompletedIsEarned'
    BY <1>12 DEF CheckFinal, RunnerChecks, Goto, CompletedIsEarned, NoAgentYet
  <2> QED
    BY <2>1, <2>2, <2>3, <2>4
<1>13. CASE WriteFinal(r)
  <2>1. NoPidWithoutRow' /\ NoAgentYet'
    BY <1>13 DEF WriteFinal, RunnerWrites, UpdateState, Goto, Verdict, NoPidWithoutRow, NoAgentYet
  <2>2. RunningIsSupervised'
    BY <1>13 DEF WriteFinal, RunnerWrites, UpdateState, Goto, Verdict, RunningIsSupervised, Settling
  <2>3. PidBelongsToItsRunner'
    BY <1>13 DEF WriteFinal, RunnerWrites, UpdateState, Goto, Verdict, PidBelongsToItsRunner, HoldingPid, NoPidWithoutRow
  <2>4. CompletedIsEarned'
    BY <1>13 DEF WriteFinal, RunnerWrites, UpdateState, Goto, Verdict, CompletedIsEarned, NoAgentYet
  <2> QED
    BY <2>1, <2>2, <2>3, <2>4
<1>14. CASE ErrClearPid(r)
  <2>1. NoPidWithoutRow' /\ NoAgentYet'
    BY <1>14 DEF ErrClearPid, UpdatePid, Goto, NoPidWithoutRow, NoAgentYet
  <2>2. RunningIsSupervised'
    BY <1>14 DEF ErrClearPid, UpdatePid, Goto, RunningIsSupervised, Settling
  <2>3. PidBelongsToItsRunner'
    BY <1>14 DEF ErrClearPid, UpdatePid, Goto, PidBelongsToItsRunner, HoldingPid, NoPidWithoutRow
  <2>4. CompletedIsEarned'
    BY <1>14 DEF ErrClearPid, UpdatePid, Goto, CompletedIsEarned, NoAgentYet
  <2> QED
    BY <2>1, <2>2, <2>3, <2>4
<1>15. CASE ErrCheckFailed(r)
  <2>1. NoPidWithoutRow' /\ NoAgentYet'
    BY <1>15 DEF ErrCheckFailed, RunnerChecks, Goto, NoPidWithoutRow, NoAgentYet
  <2>2. RunningIsSupervised'
    <3>1. can_transition_to("Running", "Failed")
      BY DEF can_transition_to, Edges, Terminal
    <3> QED
      BY <1>15, <3>1 DEF ErrCheckFailed, RunnerChecks, Goto, RunningIsSupervised, Settling
  <2>3. PidBelongsToItsRunner'
    BY <1>15 DEF ErrCheckFailed, RunnerChecks, Goto, PidBelongsToItsRunner, HoldingPid, NoPidWithoutRow
  <2>4. CompletedIsEarned'
    BY <1>15 DEF ErrCheckFailed, RunnerChecks, Goto, CompletedIsEarned, NoAgentYet
  <2> QED
    BY <2>1, <2>2, <2>3, <2>4
<1>16. CASE ErrWriteFailed(r)
  <2>1. NoPidWithoutRow' /\ NoAgentYet'
    BY <1>16 DEF ErrWriteFailed, RunnerWrites, UpdateState, Goto, NoPidWithoutRow, NoAgentYet
  <2>2. RunningIsSupervised'
    BY <1>16 DEF ErrWriteFailed, RunnerWrites, UpdateState, Goto, RunningIsSupervised, Settling
  <2>3. PidBelongsToItsRunner'
    BY <1>16 DEF ErrWriteFailed, RunnerWrites, UpdateState, Goto, PidBelongsToItsRunner, HoldingPid, NoPidWithoutRow
  <2>4. CompletedIsEarned'
    BY <1>16 DEF ErrWriteFailed, RunnerWrites, UpdateState, Goto, CompletedIsEarned, NoAgentYet
  <2> QED
    BY <2>1, <2>2, <2>3, <2>4
<1> QED
  BY <1>1, <1>2, <1>3, <1>4, <1>5, <1>6, <1>7, <1>8, <1>9, <1>10, <1>11, <1>12, <1>13, <1>14, <1>15, <1>16 DEF RunnerStep

LEMMA SafetyInvariant == Spec => []SafetyInv
<1>1. Init => SafetyInv
  BY ConstantsAssumption
  DEF Init, SafetyInv, NoPidWithoutRow, NoAgentYet, RunningIsSupervised,
      PidBelongsToItsRunner, CompletedIsEarned
<1>2. TypeOK /\ TypeOK' /\ SafetyInv /\ [Next]_vars => SafetyInv'
  <2> SUFFICES ASSUME TypeOK, TypeOK', SafetyInv, [Next]_vars PROVE SafetyInv'
    OBVIOUS
  <2>1. ASSUME NEW r \in Runners, RunnerStep(r) PROVE SafetyInv'
    BY <2>1, RunnerKeepsSafety
  <2>2. ASSUME NEW c \in Callers, CallerStep(c) PROVE SafetyInv'
    BY <2>2, CallerFrame, FrameKeepsSafety
  <2>3. ASSUME NEW r \in Runners, AgentExits(r) \/ RunnerCrash(r) PROVE Frame
    BY <2>3 DEF TypeOK, Frame, AgentExits, RunnerCrash, Goto, Present, rowVars
  <2>4. ASSUME NEW s \in Sessions, Expire(s) PROVE Frame
    BY <2>4 DEF TypeOK, Frame, Expire, Present, runnerVars
  <2>5. CASE UNCHANGED vars
    <3>1. Frame
      BY <2>5 DEF Frame, Present, vars
    <3> QED
      BY <3>1, FrameKeepsSafety
  <2> QED
    BY <2>1, <2>2, <2>3, <2>4, <2>5, FrameKeepsSafety DEF Next
<1>3. QED
  BY <1>1, <1>2, TypeCorrect, PTL DEF Spec

\* No run is left "running" by a runner that returned, for any number of
\* sessions, runners, callers and operations in flight.
THEOREM RunningSupervised == Spec => []RunningIsSupervised
  BY SafetyInvariant, PTL DEF SafetyInv

\* The pid a stop would kill is never one a returned runner left behind.
THEOREM PidBelongs == Spec => []PidBelongsToItsRunner
  BY SafetyInvariant, PTL DEF SafetyInv

\* "completed" is only ever written for a session one of whose agents succeeded.
THEOREM CompletedEarned == Spec => []CompletedIsEarned
  BY SafetyInvariant, PTL DEF SafetyInv

-----------------------------------------------------------------------------
(***************************************************************************)
(* One agent per session under a careful operator.  A session is claimed   *)
(* by a runner that is alive or whose agent is, and by a caller that is    *)
(* about to start a runner; the invariant is that no session has two       *)
(* claims.  It is needed because the agent appears three steps after the   *)
(* operator looked: the claim bridges them.                                *)
(***************************************************************************)
Claims(r, s) == of[r] = s /\ (RunnerLive(r) \/ agent[r] = "alive")
Launching(c, s) == op[c].on = s /\ op[c].at \in {"setPending", "spawn"}

FreshIsUntouched ==
  \A s \in Sessions : state[s] = "fresh" =>
    /\ ~tree[s]
    /\ \A c \in Callers : op[c].on # s
    /\ \A r \in Runners : of[r] # s

OneClaim ==
  \A s \in Sessions :
    /\ \A q, r \in Runners : Claims(q, s) /\ Claims(r, s) => q = r
    /\ \A c \in Callers : Launching(c, s) =>
         /\ \A r \in Runners : ~Claims(r, s)
         /\ \A d \in Callers : Launching(d, s) => c = d

ClaimInv == FreshIsUntouched /\ (Careful => OneClaim)

\* Steps that start nothing: no row becomes fresh again, claims only lapse,
\* and no caller turns to a new session.
NothingStarts ==
  /\ \A s \in Sessions : state'[s] = "fresh" => state[s] = "fresh"
  /\ \A s \in Sessions : tree'[s] => tree[s]
  /\ of' = of
  /\ \A r \in Runners, s \in Sessions : Claims(r, s)' => Claims(r, s)
  /\ \A c \in Callers : op'[c].on \in {op[c].on, None}
  /\ \A c \in Callers, s \in Sessions : Launching(c, s)' => Launching(c, s)

LEMMA NothingStartsKeepsClaims ==
  ASSUME ClaimInv, NothingStarts
  PROVE  ClaimInv'
  BY ConstantsAssumption DEF ClaimInv, FreshIsUntouched, OneClaim, NothingStarts

\* The CASE tables, read off at the rows the argument needs.
LEMMA AdmitsRows ==
  ASSUME NEW k \in Kinds, NEW s \in Sessions, Admits(k, s)
  PROVE  state[s] # "fresh" \/ tree[s]
  BY DEF Admits, Kinds, Present, SessionStates, Active, Terminal

LEMMA LaunchingSteps ==
  ASSUME NEW k \in Kinds, k # "launch", k # "resume", NEW s
  PROVE  FirstStep(k, s) \notin {"setPending", "spawn"}
  BY DEF FirstStep, Kinds

LEMMA CarefulResume ==
  ASSUME NEW s, OperatorAllows("resume", s)
  PROVE  ~Supervised(s) /\ Undisturbed(s)
  BY DEF OperatorAllows

LEMMA StepEffect ==
  ASSUME TypeOK, NEW c \in Callers, op[c].at # "idle", NEW l \in OpPcs, Step(c, l)
  PROVE  /\ op'[c].on = op[c].on /\ op'[c].kind = op[c].kind
         /\ op'[c].p = op[c].p /\ op'[c].w = op[c].w /\ op'[c].at = l
         /\ \A d \in Callers : d # c => op'[d] = op[d]
<1>1. op[c] \in OpRecord
  BY Busy
<1>2. /\ [op[c] EXCEPT !.at = l].on = op[c].on
      /\ [op[c] EXCEPT !.at = l].kind = op[c].kind
      /\ [op[c] EXCEPT !.at = l].p = op[c].p
      /\ [op[c] EXCEPT !.at = l].w = op[c].w
      /\ [op[c] EXCEPT !.at = l].at = l
  BY <1>1 DEF OpRecord
<1>3. op'[c] = [op[c] EXCEPT !.at = l]
  BY Zenon DEF Step, TypeOK
<1>4. \A d \in Callers : d # c => op'[d] = op[d]
  BY Zenon DEF Step, TypeOK
<1> QED
  BY <1>2, <1>3, <1>4

LEMMA DoneEffect ==
  ASSUME TypeOK, NEW c \in Callers, Done(c)
  PROVE  /\ op'[c] = NoOp /\ op'[c].on = None /\ op'[c].at = "idle"
         /\ \A d \in Callers : d # c => op'[d] = op[d]
  BY DEF Done, NoOp, TypeOK

LEMMA SnapshotEffect ==
  ASSUME TypeOK, NEW c \in Callers, NEW k, NEW s, NEW l, Snapshot(c, k, s, l)
  PROVE  /\ op'[c].on = s /\ op'[c].at = l /\ op'[c].kind = k
         /\ op'[c].p = pid[s] /\ op'[c].w = tree[s]
         /\ \A d \in Callers : d # c => op'[d] = op[d]
  BY DEF Snapshot, TypeOK

LEMMA RunnersStartNothing ==
  ASSUME TypeOK, NEW r \in Runners, RunnerStep(r) \/ AgentExits(r) \/ RunnerCrash(r)
  PROVE  NothingStarts
<1> USE DEF TypeOK, NothingStarts, Claims, RunnerLive, AtRestPcs, Launching,
            Present, SessionStates, rowVars, runnerVars
<1>1. CASE RunnerSkips(r)
  BY <1>1 DEF RunnerSkips, Goto
<1>2. CASE RunnerAccepts(r)
  BY <1>2 DEF RunnerAccepts, Goto
<1>3. CASE AgentSpawns(r)
  BY <1>3 DEF AgentSpawns, Goto
<1>4. CASE AgentSpawnFails(r)
  BY <1>4 DEF AgentSpawnFails, Goto
<1>5. CASE RecordPid(r)
  BY <1>5 DEF RecordPid, RunnerUpdatesPid, UpdatePid, Goto
<1>6. CASE CheckRunning(r)
  BY <1>6 DEF CheckRunning, RunnerChecks, Goto
<1>7. CASE WriteRunning(r)
  BY <1>7 DEF WriteRunning, RunnerWrites, UpdateState, Goto
<1>8. CASE FirstBeat(r)
  BY <1>8 DEF FirstBeat, Goto
<1>9. CASE Beat(r)
  BY <1>9 DEF Beat
<1>10. CASE ReapAgent(r)
  BY <1>10 DEF ReapAgent, Goto
<1>11. CASE ClearPid(r)
  BY <1>11 DEF ClearPid, RunnerUpdatesPid, UpdatePid, Goto
<1>12. CASE CheckFinal(r)
  BY <1>12 DEF CheckFinal, RunnerChecks, Goto
<1>13. CASE WriteFinal(r)
  BY <1>13 DEF WriteFinal, RunnerWrites, UpdateState, Goto, Verdict
<1>14. CASE ErrClearPid(r)
  BY <1>14 DEF ErrClearPid, UpdatePid, Goto
<1>15. CASE ErrCheckFailed(r)
  BY <1>15 DEF ErrCheckFailed, RunnerChecks, Goto
<1>16. CASE ErrWriteFailed(r)
  BY <1>16 DEF ErrWriteFailed, RunnerWrites, UpdateState, Goto
<1>17. CASE AgentExits(r)
  BY <1>17 DEF AgentExits
<1>18. CASE RunnerCrash(r)
  BY <1>18 DEF RunnerCrash, Goto
<1> QED
  BY <1>1, <1>2, <1>3, <1>4, <1>5, <1>6, <1>7, <1>8, <1>9, <1>10, <1>11, <1>12, <1>13, <1>14, <1>15, <1>16, <1>17, <1>18 DEF RunnerStep

LEMMA OpWriteStartsNothing ==
  ASSUME TypeOK, NEW c \in Callers, OpWrite(c)
  PROVE  NothingStarts
<1>1. op[c].at = "write" /\ (Step(c, "rmTree") \/ Step(c, "clearTree") \/ Done(c))
  BY DEF OpWrite, AfterWrite
<1>2. /\ op'[c].on \in {op[c].on, None}
      /\ op'[c].at \in {"rmTree", "clearTree", "idle"}
      /\ \A d \in Callers : d # c => op'[d] = op[d]
  BY <1>1, StepEffect, DoneEffect DEF OpPcs
<1>3. tree' = tree /\ of' = of /\ at' = at /\ agent' = agent
  BY DEF OpWrite, UpdateState, rowVars, runnerVars
<1>4. \A s \in Sessions : state'[s] = "fresh" => state[s] = "fresh"
  <2>1. \/ state' = [state EXCEPT ![op[c].on] = Target(op[c].kind)]
        \/ state' = state
    BY DEF OpWrite, UpdateState, rowVars
  <2> QED
    BY <2>1, TargetType DEF SessionStates, TypeOK
<1>5. \A r \in Runners, s \in Sessions : Claims(r, s)' => Claims(r, s)
  BY <1>3 DEF Claims, RunnerLive
<1>6. \A d \in Callers, s \in Sessions : Launching(d, s)' => Launching(d, s)
  BY <1>2 DEF Launching
<1> QED
  BY <1>2, <1>3, <1>4, <1>5, <1>6 DEF NothingStarts

LEMMA SpawnFailsStartsNothing ==
  ASSUME TypeOK, NEW c \in Callers, SpawnFails(c)
  PROVE  NothingStarts
<1>1. op[c].at = "spawn" /\ (Step(c, "check") \/ Done(c))
  BY DEF SpawnFails
<1>2. /\ op'[c].on \in {op[c].on, None} /\ op'[c].at \in {"check", "idle"}
      /\ \A d \in Callers : d # c => op'[d] = op[d]
  BY <1>1, StepEffect, DoneEffect DEF OpPcs
<1>3. /\ state' = state /\ tree' = tree /\ of' = of
      /\ at' = at /\ agent' = agent
  BY DEF SpawnFails, rowVars, runnerVars
<1>4. \A r \in Runners, s \in Sessions : Claims(r, s)' => Claims(r, s)
  BY <1>3 DEF Claims, RunnerLive
<1>5. \A d \in Callers : op'[d].on \in {op[d].on, None}
  BY <1>2
<1>6. \A d \in Callers, s \in Sessions : Launching(d, s)' => Launching(d, s)
  BY <1>2 DEF Launching
<1> QED
  BY <1>3, <1>4, <1>5, <1>6 DEF NothingStarts

LEMMA CallersStartNothing ==
  ASSUME TypeOK, NEW c \in Callers, OpStep(c) \/ CallerCrash(c),
         ~\E r \in Runners : Spawn(c, r)
  PROVE  NothingStarts
<1> USE StepEffect, DoneEffect, SnapshotEffect
    DEF TypeOK, NothingStarts, Claims, RunnerLive, AtRestPcs, Launching, OpPcs,
        Present, SessionStates, rowVars, runnerVars
<1>1. CASE CallerCrash(c)
  BY <1>1 DEF CallerCrash, NoOp
<1>2. CASE ResolveCleanup(c)
  <2>1. FirstStep("cleanup", op[c].on) \in OpPcs \ {"setPending", "spawn"}
    BY FirstStepType, LaunchingSteps DEF Kinds
  <2>2. \/ Snapshot(c, "cleanup", op[c].on, FirstStep("cleanup", op[c].on))
        \/ Done(c)
    BY <1>2 DEF ResolveCleanup
  <2> QED
    BY <1>2, <2>1, <2>2 DEF ResolveCleanup
<1>3. CASE ResolveStop(c)
  BY <1>3 DEF ResolveStop
<1>4. CASE Kill(c)
  BY <1>4 DEF Kill
<1>5. CASE OpClearPid(c)
  BY <1>5 DEF OpClearPid, UpdatePid
<1>6. CASE OpCheck(c)
  BY <1>6 DEF OpCheck
<1>7. CASE OpWrite(c)
  BY <1>7, OpWriteStartsNothing
<1>8. CASE RemoveTree(c)
  BY <1>8 DEF RemoveTree
<1>9. CASE ClearTree(c)
  BY <1>9 DEF ClearTree
<1>10. CASE ForceFail(c)
  BY <1>10 DEF ForceFail, update_state_and_pid
<1>11. CASE SetPending(c)
  BY <1>11 DEF SetPending, update_state_and_pid
<1>12. CASE SpawnFails(c)
  BY <1>12, SpawnFailsStartsNothing
<1>13. CASE DeleteRow(c)
  BY <1>13 DEF DeleteRow
<1>14. CASE DeleteRowFails(c)
  BY <1>14 DEF DeleteRowFails
<1> QED
  BY <1>1, <1>2, <1>3, <1>4, <1>5, <1>6, <1>7, <1>8, <1>9, <1>10, <1>11, <1>12, <1>13, <1>14 DEF OpStep

LEMMA SpawnKeepsClaims ==
  ASSUME TypeOK, NoAgentYet, ClaimInv, NEW c \in Callers, NEW r \in Runners, Spawn(c, r)
  PROVE  ClaimInv'
<1>1. /\ op[c].at = "spawn" /\ at[r] = "unborn" /\ agent[r] = "none"
      /\ of' = [of EXCEPT ![r] = op[c].on] /\ agent' = agent /\ state' = state
      /\ tree' = tree /\ at' = [at EXCEPT ![r] = "started"]
  BY DEF Spawn, Goto, rowVars, NoAgentYet
<1>2. /\ op'[c].on = None /\ op'[c].at = "idle"
      /\ \A d \in Callers : d # c => op'[d] = op[d]
  BY DoneEffect DEF Spawn
<1>3. FreshIsUntouched'
  BY <1>1, <1>2, ConstantsAssumption DEF ClaimInv, FreshIsUntouched, TypeOK
<1>4. ASSUME Careful, NEW s \in Sessions, NEW q \in Runners, Claims(q, s)'
      PROVE  \/ q # r /\ Claims(q, s)
             \/ q = r /\ s = op[c].on
  BY <1>1, <1>4 DEF Claims, RunnerLive, TypeOK
<1>5. ASSUME NEW s \in Sessions, NEW d \in Callers, Launching(d, s)'
      PROVE  d # c /\ Launching(d, s)
  BY <1>2, <1>5, ConstantsAssumption DEF Launching
<1>6. ASSUME Careful PROVE OneClaim'
  <2>1. \A s \in Sessions : s = op[c].on => Launching(c, s)
    BY <1>1 DEF Launching
  <2> QED
    BY <1>4, <1>5, <1>6, <2>1 DEF ClaimInv, OneClaim
<1> QED
  BY <1>1, <1>3, <1>6 DEF ClaimInv, Spawn

LEMMA LaunchKeepsClaims ==
  ASSUME TypeOK, ClaimInv, NEW c \in Callers, NEW s \in Sessions, NEW w \in BOOLEAN,
         Launch(c, s, w)
  PROVE  ClaimInv'
<1>1. /\ state[s] = "fresh" /\ state' = [state EXCEPT ![s] = "Pending"]
      /\ tree' = [tree EXCEPT ![s] = w] /\ of' = of /\ at' = at /\ agent' = agent
  BY DEF Launch, runnerVars
<1>2. /\ op[c] = NoOp /\ op'[c].on = s
      /\ \A d \in Callers : d # c => op'[d] = op[d]
  BY DEF Launch, TypeOK
<1>3. FreshIsUntouched'
  BY <1>1, <1>2 DEF ClaimInv, FreshIsUntouched, TypeOK
<1>4. \A q \in Runners, x \in Sessions : Claims(q, x)' <=> (Claims(q, x) /\ x # s)
  BY <1>1 DEF ClaimInv, FreshIsUntouched, Claims, RunnerLive
<1>5. \A d \in Callers, x \in Sessions :
        Launching(d, x)' => (d = c /\ x = s) \/ (Launching(d, x) /\ x # s /\ d # c)
  <2> SUFFICES ASSUME NEW d \in Callers, NEW x \in Sessions, Launching(d, x)'
               PROVE  (d = c /\ x = s) \/ (Launching(d, x) /\ x # s /\ d # c)
    OBVIOUS
  <2>1. CASE d = c
    BY <1>2, <2>1 DEF Launching
  <2>2. CASE d # c
    BY <1>1, <1>2, <2>2 DEF ClaimInv, FreshIsUntouched, Launching
  <2> QED
    BY <2>1, <2>2
<1>6. Careful => OneClaim'
  BY <1>4, <1>5 DEF ClaimInv, OneClaim
<1> QED
  BY <1>3, <1>6 DEF ClaimInv

LEMMA BeginKeepsClaims ==
  ASSUME TypeOK, ClaimInv, NEW c \in Callers, NEW s \in Sessions, NEW k \in Ops,
         Begin(c, s, k)
  PROVE  ClaimInv'
<1>1. k \in Kinds /\ k # "launch"
  BY ConstantsAssumption DEF Begin, Admits, Kinds
<1>2. /\ state' = state /\ tree' = tree /\ of' = of /\ at' = at /\ agent' = agent
      /\ state[s] # "fresh"
  BY <1>1, AdmitsRows DEF Begin, rowVars, runnerVars, ClaimInv, FreshIsUntouched
<1>3. /\ op'[c].on = s /\ op'[c].at = FirstStep(k, s)
      /\ \A d \in Callers : d # c => op'[d] = op[d]
  BY SnapshotEffect DEF Begin
<1>4. FreshIsUntouched'
  BY <1>2, <1>3 DEF ClaimInv, FreshIsUntouched
<1>5. \A q \in Runners, x \in Sessions : Claims(q, x)' <=> Claims(q, x)
  BY <1>2 DEF Claims, RunnerLive
<1>6. CASE k = "resume"
  <2>1. ASSUME Careful
        PROVE  /\ \A q \in Runners : ~Claims(q, s)
               /\ \A d \in Callers : ~Launching(d, s)
    BY <1>6, <2>1, CarefulResume
    DEF Begin, Supervised, Undisturbed, Claims, Launching
  <2>2. \A d \in Callers, x \in Sessions :
          Launching(d, x)' => (d = c /\ x = s) \/ (d # c /\ Launching(d, x))
    <3> SUFFICES ASSUME NEW d \in Callers, NEW x \in Sessions, Launching(d, x)'
                 PROVE  (d = c /\ x = s) \/ (d # c /\ Launching(d, x))
      OBVIOUS
    <3>1. CASE d = c
      BY <1>3, <3>1 DEF Launching
    <3>2. CASE d # c
      BY <1>3, <3>2 DEF Launching
    <3> QED
      BY <3>1, <3>2
  <2> QED
    BY <1>4, <1>5, <2>1, <2>2 DEF ClaimInv, OneClaim
<1>7. CASE k # "resume"
  <2>1. \A d \in Callers, x \in Sessions : Launching(d, x)' => Launching(d, x)
    BY <1>1, <1>3, <1>7, LaunchingSteps DEF Launching
  <2> QED
    BY <1>4, <1>5, <2>1 DEF ClaimInv, OneClaim
<1> QED
  BY <1>6, <1>7

LEMMA ClaimInvariant == Spec => []ClaimInv
<1>1. Init => ClaimInv
  BY ConstantsAssumption
  DEF Init, ClaimInv, FreshIsUntouched, OneClaim, Claims, Launching, RunnerLive,
      AtRestPcs, NoOp
<1>2. TypeOK /\ SafetyInv /\ ClaimInv /\ [Next]_vars => ClaimInv'
  <2> SUFFICES ASSUME TypeOK, SafetyInv, ClaimInv, [Next]_vars PROVE ClaimInv'
    OBVIOUS
  <2>1. ASSUME NEW r \in Runners, RunnerStep(r) \/ AgentExits(r) \/ RunnerCrash(r)
        PROVE  ClaimInv'
    BY <2>1, RunnersStartNothing, NothingStartsKeepsClaims
  <2>2. ASSUME NEW s \in Sessions, Expire(s) PROVE ClaimInv'
    <3>1. NothingStarts
      BY <2>2 DEF Expire, NothingStarts, Claims, RunnerLive, Launching, runnerVars
    <3> QED
      BY <3>1, NothingStartsKeepsClaims
  <2>3. ASSUME NEW c \in Callers, CallerStep(c) PROVE ClaimInv'
    <3>1. ASSUME NEW r \in Runners, Spawn(c, r) PROVE ClaimInv'
      BY <3>1, SpawnKeepsClaims DEF SafetyInv
    <3>2. ASSUME NEW s \in Sessions, NEW w \in BOOLEAN, Launch(c, s, w) PROVE ClaimInv'
      BY <3>2, LaunchKeepsClaims
    <3>3. ASSUME NEW s \in Sessions, NEW k \in Ops, Begin(c, s, k) PROVE ClaimInv'
      BY <3>3, BeginKeepsClaims
    <3>4. ASSUME OpStep(c) \/ CallerCrash(c), ~\E r \in Runners : Spawn(c, r)
          PROVE  ClaimInv'
      BY <3>4, CallersStartNothing, NothingStartsKeepsClaims
    <3> QED
      BY <2>3, <3>1, <3>2, <3>3, <3>4 DEF CallerStep
  <2>4. CASE UNCHANGED vars
    BY <2>4 DEF vars, ClaimInv, FreshIsUntouched, OneClaim, Claims, Launching, RunnerLive
  <2> QED
    BY <2>1, <2>2, <2>3, <2>4 DEF Next
<1>3. QED
  BY <1>1, <1>2, TypeCorrect, SafetyInvariant, PTL DEF Spec

\* A careful operator never gets two agents on one session, whatever the
\* daemon and the other callers do in between.
THEOREM OneAgent == Spec => []OneAgentPerSession
<1>1. ClaimInv => OneAgentPerSession
  BY DEF ClaimInv, OneClaim, Claims, OneAgentPerSession, AgentsOf
<1> QED
  BY <1>1, ClaimInvariant, PTL

-----------------------------------------------------------------------------
(***************************************************************************)
(* Stopped means dead, under a careful operator and without the operations *)
(* that act on a pid they did not wait for (pause, cleanup, prune).  What  *)
(* a stop relies on is that between its kill and its write nobody can      *)
(* bring an agent back: the pid it read is the only claim on the session,  *)
(* no runner is about to spawn, and no resume has begun.                   *)
(***************************************************************************)
AboutToSpawn(r, s) == of[r] = s /\ at[r] \in {"started", "spawn"}
Alive(r, s) == of[r] = s /\ agent[r] = "alive"

StopPcs == {"kill", "clearPid", "check", "write"}
Stopping(c, s) == op[c].kind = "stop" /\ op[c].on = s /\ op[c].at \in StopPcs

\* A pid in the row is the only claim on the session.
PidIsTheClaim ==
  \A s \in Sessions, q \in Runners : pid[s] # None /\ Claims(q, s) => q = pid[s]

\* Only stop, enforcement and a launch that failed kill or write a state.
NoDetours ==
  \A c \in Callers :
    /\ op[c].at \notin {"resolveCleanup", "resolveStop"}
    /\ op[c].at \in StopPcs => op[c].kind \in {"stop", "enforce", "launch"}

\* A caller about to start a runner has cleared the row for it.
SpawnsAfresh ==
  \A c \in Callers : op[c].at = "spawn" =>
    pid[op[c].on] = None /\ state[op[c].on] # "Stopped"

StopsClear ==
  \A c \in Callers, s \in Sessions : Stopping(c, s) =>
    /\ \A d \in Callers : ~Launching(d, s)
    /\ \A r \in Runners :
         ~AboutToSpawn(r, s) /\ (Alive(r, s) => op[c].at = "kill" /\ r = op[c].p)

StoppedIsQuiet ==
  \A s \in Sessions : state[s] = "Stopped" =>
    \A r \in Runners : ~AboutToSpawn(r, s) /\ ~Alive(r, s)

StopInv ==
  /\ PidIsTheClaim /\ NoDetours /\ SpawnsAfresh
  /\ StopsClear /\ StoppedIsQuiet

\* A caller that moves on to a step which cannot disturb a stop.
MovesOn(c) ==
  /\ op'[c].on = op[c].on /\ op'[c].kind = op[c].kind
  /\ \/ op'[c].at \in {"rmTree", "clearTree", "delRow", "forceFail"}
     \/ /\ op'[c].at \in {"clearPid", "check", "write"}
        /\ \/ op[c].kind \in {"enforce", "launch"}
           \/ /\ op[c].kind = "stop" /\ op[c].at \in StopPcs
              /\ \A r \in Runners : ~Alive(r, op[c].on)'

\* Steps that start no agent, record no pid and write no "Stopped".
Calm ==
  /\ \A s \in Sessions : /\ pid'[s] \in {pid[s], None}
                         /\ state'[s] = state[s] \/ state'[s] # "Stopped"
  /\ \A r \in Runners, s \in Sessions :
       /\ Claims(r, s)' => Claims(r, s)
       /\ Alive(r, s)' => Alive(r, s)
       /\ AboutToSpawn(r, s)' => AboutToSpawn(r, s)
  /\ \A c \in Callers : op'[c] = op[c] \/ op'[c] = NoOp \/ MovesOn(c)

LEMMA CalmKeepsStops ==
  ASSUME TypeOK, StopInv, Calm
  PROVE  StopInv'
<1>1. PidIsTheClaim'
  BY DEF StopInv, Calm, PidIsTheClaim
<1>2. NoDetours'
  <2> SUFFICES ASSUME NEW c \in Callers
               PROVE  /\ op'[c].at \notin {"resolveCleanup", "resolveStop"}
                      /\ op'[c].at \in StopPcs =>
                           op'[c].kind \in {"stop", "enforce", "launch"}
    BY DEF NoDetours
  <2>1. CASE op'[c] = op[c]
    BY <2>1 DEF StopInv, NoDetours
  <2>2. CASE op'[c] = NoOp
    BY <2>2 DEF NoOp, StopPcs
  <2>3. CASE MovesOn(c)
    BY <2>3 DEF MovesOn, StopPcs
  <2> QED
    BY <2>1, <2>2, <2>3 DEF Calm
<1>3. \A c \in Callers, s \in Sessions : Launching(c, s)' => Launching(c, s) /\ op'[c] = op[c]
  BY ConstantsAssumption DEF Calm, MovesOn, NoOp, Launching
<1>4. SpawnsAfresh'
  <2> SUFFICES ASSUME NEW c \in Callers, op'[c].at = "spawn"
               PROVE  pid'[op'[c].on] = None /\ state'[op'[c].on] # "Stopped"
    BY DEF SpawnsAfresh
  <2>1. op'[c] = op[c]
    BY DEF Calm, MovesOn, NoOp
  <2>2. op[c].on \in Sessions
    BY <2>1, Busy DEF OpRecord
  <2> QED
    BY <2>1, <2>2 DEF StopInv, SpawnsAfresh, Calm
<1>5. StopsClear'
  <2> SUFFICES ASSUME NEW c \in Callers, NEW s \in Sessions, Stopping(c, s)'
               PROVE  /\ \A d \in Callers : ~Launching(d, s)'
                      /\ \A r \in Runners :
                           /\ ~AboutToSpawn(r, s)'
                           /\ Alive(r, s)' => op'[c].at = "kill" /\ r = op'[c].p
    BY DEF StopsClear
  <2>1. CASE op'[c] = op[c]
    BY <1>3, <2>1 DEF StopInv, StopsClear, Stopping, Calm
  <2>2. op'[c] # NoOp
    BY DEF Stopping, NoOp
  <2>3. CASE MovesOn(c)
    <3>1. Stopping(c, s) /\ \A r \in Runners : ~Alive(r, s)'
      BY <2>3 DEF MovesOn, Stopping, StopPcs
    <3> QED
      BY <1>3, <3>1 DEF StopInv, StopsClear, Calm
  <2> QED
    BY <2>1, <2>2, <2>3 DEF Calm
<1>6. StoppedIsQuiet'
  BY DEF StopInv, StoppedIsQuiet, Calm
<1> QED
  BY <1>1, <1>2, <1>4, <1>5, <1>6 DEF StopInv

LEMMA RunnersCalm ==
  ASSUME TypeOK, NEW r \in Runners,
         RunnerStep(r) \/ AgentExits(r) \/ RunnerCrash(r),
         ~AgentSpawns(r), ~RecordPid(r)
  PROVE  Calm
<1>1. \A q \in Runners, s \in Sessions : Claims(q, s)' => Claims(q, s)
  BY RunnersStartNothing DEF NothingStarts
<1> USE DEF TypeOK, Alive, AboutToSpawn, rowVars, runnerVars
<1> DEFINE Rest ==
      /\ op' = op
      /\ \A s \in Sessions : /\ pid'[s] \in {pid[s], None}
                             /\ state'[s] = state[s] \/ state'[s] # "Stopped"
      /\ \A q \in Runners, s \in Sessions :
           /\ Alive(q, s)' => Alive(q, s)
           /\ AboutToSpawn(q, s)' => AboutToSpawn(q, s)
<1>2. SUFFICES Rest
  BY <1>1 DEF Calm
<1>3. CASE RunnerSkips(r)
  BY <1>3 DEF RunnerSkips, Goto
<1>4. CASE RunnerAccepts(r)
  BY <1>4 DEF RunnerAccepts, Goto
<1>5. CASE AgentSpawnFails(r)
  BY <1>5 DEF AgentSpawnFails, Goto
<1>6. CASE CheckRunning(r)
  BY <1>6 DEF CheckRunning, RunnerChecks, Goto
<1>7. CASE WriteRunning(r)
  BY <1>7 DEF WriteRunning, RunnerWrites, UpdateState, Goto
<1>8. CASE FirstBeat(r)
  BY <1>8 DEF FirstBeat, Goto
<1>9. CASE Beat(r)
  BY <1>9 DEF Beat
<1>10. CASE ReapAgent(r)
  BY <1>10 DEF ReapAgent, Goto
<1>11. CASE ClearPid(r)
  BY <1>11 DEF ClearPid, RunnerUpdatesPid, UpdatePid, Goto
<1>12. CASE CheckFinal(r)
  BY <1>12 DEF CheckFinal, RunnerChecks, Goto
<1>13. CASE WriteFinal(r)
  BY <1>13 DEF WriteFinal, RunnerWrites, UpdateState, Goto, Verdict
<1>14. CASE ErrClearPid(r)
  BY <1>14 DEF ErrClearPid, UpdatePid, Goto
<1>15. CASE ErrCheckFailed(r)
  BY <1>15 DEF ErrCheckFailed, RunnerChecks, Goto
<1>16. CASE ErrWriteFailed(r)
  BY <1>16 DEF ErrWriteFailed, RunnerWrites, UpdateState, Goto
<1>17. CASE AgentExits(r)
  BY <1>17 DEF AgentExits
<1>18. CASE RunnerCrash(r)
  BY <1>18 DEF RunnerCrash, Goto
<1> QED
  BY <1>3, <1>4, <1>5, <1>6, <1>7, <1>8, <1>9, <1>10, <1>11, <1>12, <1>13, <1>14,
     <1>15, <1>16, <1>17, <1>18 DEF RunnerStep

\* An agent that appears: its runner was about to spawn, so nobody stops.
LEMMA AgentSpawnsKeepsStops ==
  ASSUME TypeOK, StopInv, NEW r \in Runners, AgentSpawns(r)
  PROVE  StopInv'
<1>1. /\ at[r] = "spawn" /\ at' = [at EXCEPT ![r] = "setPid"]
      /\ agent' = [agent EXCEPT ![r] = "alive"]
      /\ UNCHANGED <<state, pid, of, op>>
  BY DEF AgentSpawns, Goto, rowVars
<1>2. \A q \in Runners, s \in Sessions :
        /\ Claims(q, s)' => Claims(q, s)
        /\ AboutToSpawn(q, s)' => AboutToSpawn(q, s)
        /\ Alive(q, s)' => Alive(q, s) \/ AboutToSpawn(q, s)
  BY <1>1 DEF Claims, RunnerLive, AtRestPcs, AboutToSpawn, Alive, TypeOK
<1>3. \A c \in Callers, s \in Sessions :
        /\ Launching(c, s)' <=> Launching(c, s)
        /\ Stopping(c, s)' <=> Stopping(c, s)
  BY <1>1 DEF Launching, Stopping
<1>4. StopsClear'
  BY <1>1, <1>2, <1>3 DEF StopInv, StopsClear
<1> QED
  BY <1>1, <1>2, <1>4
  DEF StopInv, PidIsTheClaim, NoDetours, SpawnsAfresh, StoppedIsQuiet

\* A pid that is recorded: its runner claims the session, so it is the only
\* one that does, and nobody is about to start another.
LEMMA RecordPidKeepsStops ==
  ASSUME TypeOK, OneClaim, StopInv, NEW r \in Runners, RecordPid(r)
  PROVE  StopInv'
<1>1. /\ at[r] = "setPid" /\ UNCHANGED <<of, agent, op, state>>
      /\ at' = [at EXCEPT ![r] = "checkRunning"] \/ at' = [at EXCEPT ![r] = "errPid"]
      /\ pid' = [pid EXCEPT ![of[r]] = r] \/ pid' = pid
  BY DEF RecordPid, RunnerUpdatesPid, UpdatePid, Goto, rowVars
<1>2. \A q \in Runners, s \in Sessions :
        /\ Claims(q, s)' => Claims(q, s)
        /\ AboutToSpawn(q, s)' => AboutToSpawn(q, s)
        /\ Alive(q, s)' <=> Alive(q, s)
  BY <1>1 DEF Claims, RunnerLive, AtRestPcs, AboutToSpawn, Alive, TypeOK
<1>3. \A s \in Sessions : of[r] = s => Claims(r, s)
  BY <1>1 DEF Claims, RunnerLive, AtRestPcs
<1>4. \A s \in Sessions : pid'[s] = pid[s] \/ (of[r] = s /\ pid'[s] = r)
  BY <1>1 DEF TypeOK
<1>5. \A c \in Callers, s \in Sessions :
        /\ Launching(c, s)' <=> Launching(c, s)
        /\ Stopping(c, s)' <=> Stopping(c, s)
  BY <1>1 DEF Launching, Stopping
<1>6. PidIsTheClaim'
  BY <1>2, <1>3, <1>4 DEF StopInv, PidIsTheClaim, OneClaim
<1>7. SpawnsAfresh'
  <2> SUFFICES ASSUME NEW c \in Callers, op[c].at = "spawn"
               PROVE  pid'[op[c].on] = None /\ state[op[c].on] # "Stopped"
    BY <1>1 DEF SpawnsAfresh
  <2>1. op[c].on \in Sessions /\ Launching(c, op[c].on)
    BY Busy DEF OpRecord, Launching
  <2>2. of[r] # op[c].on
    BY <1>3, <2>1 DEF OneClaim
  <2> QED
    BY <1>4, <2>1, <2>2 DEF StopInv, SpawnsAfresh
<1>8. StopsClear'
  BY <1>1, <1>2, <1>5 DEF StopInv, StopsClear
<1> QED
  BY <1>1, <1>2, <1>6, <1>7, <1>8 DEF StopInv, NoDetours, StoppedIsQuiet

LEMMA KillCalm ==
  ASSUME TypeOK, StopInv, NEW c \in Callers, Kill(c)
  PROVE  Calm
<1>1. /\ op[c].at = "kill"
      /\ \/ op[c].kind = "enforce" /\ Step(c, "forceFail")
         \/ op[c].kind # "enforce" /\ Step(c, "clearPid")
      /\ UNCHANGED <<state, pid, of, at>>
      /\ \A r \in Runners : agent'[r] = "alive" => agent[r] = "alive" /\ r # op[c].p
  BY DEF Kill, rowVars
<1>2. \A r \in Runners, s \in Sessions :
        /\ Claims(r, s)' => Claims(r, s)
        /\ Alive(r, s)' => Alive(r, s) /\ r # op[c].p
        /\ AboutToSpawn(r, s)' => AboutToSpawn(r, s)
  BY <1>1 DEF Claims, RunnerLive, Alive, AboutToSpawn
<1>3. op[c].on \in Sessions /\ op[c].kind \in {"stop", "enforce", "launch"}
  BY <1>1, Busy DEF OpRecord, StopInv, NoDetours, StopPcs
<1>4. /\ op'[c].on = op[c].on /\ op'[c].kind = op[c].kind
      /\ op'[c].at = IF op[c].kind = "enforce" THEN "forceFail" ELSE "clearPid"
      /\ \A d \in Callers : d # c => op'[d] = op[d]
  BY <1>1, StepEffect DEF OpPcs
<1>5. op[c].kind = "stop" => \A r \in Runners : ~Alive(r, op[c].on)'
  BY <1>1, <1>2, <1>3, <1>4 DEF StopInv, StopsClear, Stopping, StopPcs
<1>6. MovesOn(c)
  BY <1>1, <1>3, <1>4, <1>5 DEF MovesOn, StopPcs
<1> QED
  BY <1>1, <1>2, <1>4, <1>6 DEF Calm

\* A caller's step that moves no process: what is left to show is where it
\* goes, and what it writes to the row.
LEMMA StillProcesses ==
  ASSUME UNCHANGED runnerVars
  PROVE  \A r \in Runners, s \in Sessions :
           /\ Claims(r, s)' <=> Claims(r, s)
           /\ Alive(r, s)' <=> Alive(r, s)
           /\ AboutToSpawn(r, s)' <=> AboutToSpawn(r, s)
  BY DEF runnerVars, Claims, RunnerLive, Alive, AboutToSpawn

LEMMA CallersCalm ==
  ASSUME TypeOK, StopInv, NEW c \in Callers, OpStep(c) \/ CallerCrash(c),
         ~(OpWrite(c) /\ op[c].kind = "stop"), ~SetPending(c),
         ~\E r \in Runners : Spawn(c, r)
  PROVE  Calm
<1>1. CASE Kill(c)
  BY <1>1, KillCalm
<1> DEFINE
      Moves(l) == op[c].at # "idle" /\ Step(c, l)
      Rows == \A s \in Sessions : /\ pid'[s] \in {pid[s], None}
                                  /\ state'[s] = state[s] \/ state'[s] # "Stopped"
      Later == {"rmTree", "clearTree", "delRow", "forceFail"}
      Middle == {"clearPid", "check", "write"}
<1>2. CASE UNCHANGED runnerVars
  <2>1. ASSUME Rows, Done(c) PROVE Calm
    BY <1>2, <2>1, StillProcesses, DoneEffect DEF Calm
  <2>2. ASSUME Rows, NEW l \in Later, Moves(l) PROVE Calm
    <3>1. MovesOn(c) /\ \A d \in Callers : d # c => op'[d] = op[d]
      BY <2>2, StepEffect DEF MovesOn, OpPcs
    <3> QED
      BY <1>2, <2>2, <3>1, StillProcesses DEF Calm
  <2>3. ASSUME Rows, NEW l \in Middle, Moves(l),
               op[c].at \in Middle \/ (op[c].at = "spawn" /\ op[c].kind = "launch")
        PROVE  Calm
    <3>1. op[c].at \in Middle => op[c].kind \in {"stop", "enforce", "launch"}
      BY DEF StopInv, NoDetours, StopPcs
    <3>2. op[c].on \in Sessions
      BY <2>3, Busy DEF OpRecord
    <3>3. op[c].kind = "stop" => \A r \in Runners : ~Alive(r, op[c].on)
      BY <2>3, <3>2 DEF StopInv, StopsClear, Stopping, StopPcs
    <3>4. MovesOn(c) /\ \A d \in Callers : d # c => op'[d] = op[d]
      BY <1>2, <2>3, <3>1, <3>2, <3>3, StepEffect, StillProcesses
      DEF MovesOn, OpPcs, StopPcs
    <3> QED
      BY <1>2, <2>3, <3>4, StillProcesses DEF Calm
  <2> HIDE DEF Moves, Rows, Later, Middle
  <2>4. ASSUME Rows /\ (Done(c) \/ \E l \in Later : Moves(l)) PROVE Calm
    BY <2>1, <2>2, <2>4
  <2> USE DEF TypeOK, rowVars
  <2>5. CASE OpClearPid(c)
    <3>1. Rows /\ (Done(c) \/ Moves("check")) /\ op[c].at = "clearPid"
      BY <2>5 DEF OpClearPid, UpdatePid, Rows, Moves
    <3> QED
      BY <2>1, <2>3, <3>1 DEF Middle
  <2>6. CASE OpCheck(c)
    <3>1. Rows /\ (Done(c) \/ Moves("write")) /\ op[c].at = "check"
      BY <2>6 DEF OpCheck, Rows, Moves
    <3> QED
      BY <2>1, <2>3, <3>1 DEF Middle
  <2>7. CASE OpWrite(c)
    <3>1. Rows
      <4>1. op[c].kind \in {"enforce", "launch"}
        BY <2>7 DEF StopInv, NoDetours, StopPcs, OpWrite
      <4>2. Target(op[c].kind) # "Stopped"
        BY <4>1 DEF Target
      <4> QED
        BY <2>7, <4>2 DEF OpWrite, UpdateState, Rows
    <3>2. Done(c) \/ Moves("rmTree") \/ Moves("clearTree")
      BY <2>7 DEF OpWrite, AfterWrite, Moves
    <3> QED
      BY <2>4, <3>1, <3>2 DEF Later
  <2>8. CASE RemoveTree(c)
    <3>1. Rows /\ (Done(c) \/ Moves("delRow") \/ Moves("clearTree"))
      BY <2>8 DEF RemoveTree, Moves, Rows
    <3> QED
      BY <2>4, <3>1 DEF Later
  <2>9. CASE SpawnFails(c)
    <3>1. /\ Rows /\ op[c].at = "spawn"
          /\ Done(c) \/ (Moves("check") /\ op[c].kind = "launch")
      BY <2>9 DEF SpawnFails, Rows, Moves
    <3> QED
      BY <2>1, <2>3, <3>1 DEF Middle
  <2>10. CASE ClearTree(c)
    BY <2>1, <2>10 DEF ClearTree, Rows
  <2>11. CASE ForceFail(c)
    BY <2>1, <2>11 DEF ForceFail, update_state_and_pid, Rows
  <2>12. CASE DeleteRow(c)
    BY <2>1, <2>12 DEF DeleteRow, Rows
  <2>13. CASE DeleteRowFails(c)
    BY <2>1, <2>13 DEF DeleteRowFails, Rows
  <2>14. CASE CallerCrash(c)
    BY <2>1, <2>14 DEF CallerCrash, Done, Rows
  <2>15. ~ResolveCleanup(c) /\ ~ResolveStop(c)
    BY DEF StopInv, NoDetours, ResolveCleanup, ResolveStop
  <2> QED
    BY <1>1, <2>5, <2>6, <2>7, <2>8, <2>9, <2>10, <2>11, <2>12, <2>13, <2>14, <2>15 DEF OpStep
<1>3. Kill(c) \/ UNCHANGED runnerVars
  BY DEF OpStep, CallerCrash, OpClearPid, OpCheck, OpWrite, RemoveTree, ClearTree,
     ForceFail, SpawnFails, DeleteRow, DeleteRowFails, ResolveCleanup, ResolveStop
<1> QED
  BY <1>1, <1>2, <1>3

\* The write of a stop: nothing is alive, and nobody is about to start.
LEMMA StopWriteKeepsStops ==
  ASSUME TypeOK, StopInv, NEW c \in Callers, OpWrite(c), op[c].kind = "stop"
  PROVE  StopInv'
<1>1. /\ op[c].on \in Sessions /\ op[c].at = "write" /\ Stopping(c, op[c].on)
      /\ UNCHANGED runnerVars /\ pid' = pid
      /\ state' = [state EXCEPT ![op[c].on] = "Stopped"] \/ state' = state
      /\ Done(c) \/ Step(c, "rmTree")
  BY Busy DEF OpWrite, AfterWrite, UpdateState, Target, rowVars, OpRecord,
              Stopping, StopPcs
<1>2. /\ op'[c].at \in {"idle", "rmTree"}
      /\ \A d \in Callers : d # c => op'[d] = op[d]
  BY <1>1, StepEffect, DoneEffect DEF OpPcs
<1>3. \A d \in Callers, s \in Sessions :
        /\ Launching(d, s)' => Launching(d, s) /\ op'[d] = op[d]
        /\ Stopping(d, s)' => Stopping(d, s) /\ op'[d] = op[d]
  BY <1>2 DEF Launching, Stopping, StopPcs
<1>4. PidIsTheClaim' /\ StopsClear'
  BY <1>1, <1>3, StillProcesses DEF StopInv, PidIsTheClaim, StopsClear
<1>5. NoDetours'
  BY <1>2 DEF StopInv, NoDetours, StopPcs
<1>6. SpawnsAfresh'
  <2> SUFFICES ASSUME NEW d \in Callers, op'[d].at = "spawn"
               PROVE  pid'[op'[d].on] = None /\ state'[op'[d].on] # "Stopped"
    BY DEF SpawnsAfresh
  <2>1. op'[d] = op[d] /\ op[d].on \in Sessions /\ Launching(d, op[d].on)
    BY <1>2, Busy DEF OpRecord, Launching
  <2>2. op[d].on # op[c].on
    BY <1>1, <2>1 DEF StopInv, StopsClear
  <2> QED
    BY <1>1, <2>1, <2>2 DEF StopInv, SpawnsAfresh, TypeOK
<1>7. StoppedIsQuiet'
  <2> SUFFICES ASSUME NEW s \in Sessions, state'[s] = "Stopped"
               PROVE  \A r \in Runners : ~AboutToSpawn(r, s) /\ ~Alive(r, s)
    BY <1>1, StillProcesses DEF StoppedIsQuiet
  <2>1. CASE s = op[c].on
    BY <1>1, <2>1 DEF StopInv, StopsClear
  <2>2. CASE s # op[c].on
    BY <1>1, <2>2 DEF StopInv, StoppedIsQuiet, TypeOK
  <2> QED
    BY <2>1, <2>2
<1> QED
  BY <1>4, <1>5, <1>6, <1>7 DEF StopInv

LEMMA SetPendingKeepsStops ==
  ASSUME TypeOK, StopInv, NEW c \in Callers, SetPending(c)
  PROVE  StopInv'
<1>1. CASE UNCHANGED rowVars /\ Done(c)
  <2>1. Calm
    BY <1>1, DoneEffect, StillProcesses DEF SetPending, Calm, rowVars
  <2> QED
    BY <2>1, CalmKeepsStops
<1>2. CASE update_state_and_pid(op[c].on, "Pending", None) /\ Step(c, "spawn")
  <2>1. /\ op[c].on \in Sessions /\ Launching(c, op[c].on) /\ UNCHANGED runnerVars
        /\ state' = [state EXCEPT ![op[c].on] = "Pending"]
        /\ pid' = [pid EXCEPT ![op[c].on] = None]
    BY <1>2, Busy DEF SetPending, update_state_and_pid, OpRecord, Launching
  <2>2. /\ op'[c].at = "spawn" /\ op'[c].on = op[c].on
        /\ \A d \in Callers : d # c => op'[d] = op[d]
    BY <1>2, StepEffect DEF SetPending, OpPcs
  <2>3. \A d \in Callers, s \in Sessions :
          /\ Launching(d, s)' <=> Launching(d, s)
          /\ Stopping(d, s)' => Stopping(d, s) /\ op'[d] = op[d]
    BY <2>1, <2>2 DEF Launching, Stopping, StopPcs
  <2>4. PidIsTheClaim' /\ StopsClear' /\ StoppedIsQuiet'
    BY <2>1, <2>3, StillProcesses
    DEF StopInv, PidIsTheClaim, StopsClear, StoppedIsQuiet, TypeOK
  <2>5. NoDetours'
    BY <2>2 DEF StopInv, NoDetours, StopPcs
  <2>6. SpawnsAfresh'
    <3> SUFFICES ASSUME NEW d \in Callers, op'[d].at = "spawn"
                 PROVE  pid'[op'[d].on] = None /\ state'[op'[d].on] # "Stopped"
      BY DEF SpawnsAfresh
    <3>1. CASE d = c
      BY <2>1, <2>2, <3>1 DEF TypeOK
    <3>2. CASE d # c
      <4>1. op'[d] = op[d] /\ op[d].on \in Sessions
        BY <2>2, <3>2, Busy DEF OpRecord
      <4> QED
        BY <2>1, <4>1 DEF StopInv, SpawnsAfresh, TypeOK
    <3> QED
      BY <3>1, <3>2
  <2> QED
    BY <2>4, <2>5, <2>6 DEF StopInv
<1> QED
  BY <1>1, <1>2 DEF SetPending

LEMMA SpawnKeepsStops ==
  ASSUME TypeOK, NoAgentYet, StopInv, NEW c \in Callers, NEW r \in Runners, Spawn(c, r)
  PROVE  StopInv'
<1>1. /\ op[c].at = "spawn" /\ op[c].on \in Sessions /\ Launching(c, op[c].on)
      /\ at[r] = "unborn" /\ agent[r] = "none" /\ agent' = agent
      /\ state' = state /\ pid' = pid
      /\ of' = [of EXCEPT ![r] = op[c].on] /\ at' = [at EXCEPT ![r] = "started"]
  BY Busy DEF Spawn, Goto, rowVars, NoAgentYet, OpRecord, Launching
<1>2. op'[c] = NoOp /\ \A d \in Callers : d # c => op'[d] = op[d]
  BY DoneEffect DEF Spawn
<1>3. /\ pid[op[c].on] = None /\ state[op[c].on] # "Stopped"
      /\ \A d \in Callers : ~Stopping(d, op[c].on)
  BY <1>1 DEF StopInv, SpawnsAfresh, StopsClear
<1>4. \A q \in Runners, s \in Sessions :
        /\ Alive(q, s)' => Alive(q, s)
        /\ s # op[c].on => (Claims(q, s)' => Claims(q, s))
        /\ s # op[c].on => (AboutToSpawn(q, s)' => AboutToSpawn(q, s))
  BY <1>1 DEF Claims, RunnerLive, Alive, AboutToSpawn, TypeOK
<1>5. \A d \in Callers, s \in Sessions :
        /\ Launching(d, s)' => Launching(d, s) /\ op'[d] = op[d]
        /\ Stopping(d, s)' => Stopping(d, s) /\ op'[d] = op[d]
  BY <1>2, ConstantsAssumption DEF Launching, Stopping, NoOp, StopPcs
<1>6. PidIsTheClaim' /\ StopsClear' /\ StoppedIsQuiet'
  BY <1>1, <1>3, <1>4, <1>5 DEF StopInv, PidIsTheClaim, StopsClear, StoppedIsQuiet
<1>7. NoDetours' /\ SpawnsAfresh'
  BY <1>1, <1>2 DEF StopInv, NoDetours, SpawnsAfresh, NoOp, StopPcs
<1> QED
  BY <1>6, <1>7 DEF StopInv

LEMMA LaunchKeepsStops ==
  ASSUME TypeOK, NoPidWithoutRow, FreshIsUntouched, StopInv,
         NEW c \in Callers, NEW s \in Sessions, NEW w \in BOOLEAN, Launch(c, s, w)
  PROVE  StopInv'
<1>1. /\ state[s] = "fresh" /\ pid[s] = None /\ UNCHANGED runnerVars /\ pid' = pid
      /\ state' = [state EXCEPT ![s] = "Pending"]
      /\ \A r \in Runners : of[r] # s
      /\ \A d \in Callers : op[d].on # s
  BY DEF Launch, NoPidWithoutRow, Present, SessionStates, FreshIsUntouched
<1>2. /\ op'[c].on = s /\ op'[c].at = "spawn" /\ op'[c].kind = "launch"
      /\ \A d \in Callers : d # c => op'[d] = op[d]
  BY DEF Launch, TypeOK
<1>3. \A d \in Callers, x \in Sessions :
        /\ Launching(d, x)' /\ x # s => Launching(d, x)
        /\ Stopping(d, x)' => Stopping(d, x) /\ op'[d] = op[d] /\ x # s
  BY <1>1, <1>2 DEF Launching, Stopping, StopPcs
<1>4. PidIsTheClaim' /\ StopsClear' /\ StoppedIsQuiet'
  BY <1>1, <1>3, StillProcesses
  DEF StopInv, PidIsTheClaim, StopsClear, StoppedIsQuiet, TypeOK
<1>5. NoDetours'
  BY <1>2 DEF StopInv, NoDetours, StopPcs
<1>6. SpawnsAfresh'
  <2> SUFFICES ASSUME NEW d \in Callers, op'[d].at = "spawn"
               PROVE  pid'[op'[d].on] = None /\ state'[op'[d].on] # "Stopped"
    BY DEF SpawnsAfresh
  <2>1. CASE d = c
    BY <1>1, <1>2, <2>1 DEF TypeOK
  <2>2. CASE d # c
    <3>1. op'[d] = op[d] /\ op[d].on \in Sessions
      BY <1>2, <2>2, Busy DEF OpRecord
    <3> QED
      BY <1>1, <3>1 DEF StopInv, SpawnsAfresh, TypeOK
  <2> QED
    BY <2>1, <2>2
<1> QED
  BY <1>4, <1>5, <1>6 DEF StopInv

\* A stop begins by reading the one pid there can be; a resume begins where
\* no operation is under way.
LEMMA BeginKeepsStops ==
  ASSUME TypeOK, PidBelongsToItsRunner, StopInv, Careful,
         Ops \cap {"pause", "cleanup", "prune"} = {},
         NEW c \in Callers, NEW s \in Sessions, NEW k \in Ops, Begin(c, s, k)
  PROVE  StopInv'
<1>1. k \in {"stop", "resume", "merge", "delete", "enforce", "recover"}
  BY ConstantsAssumption DEF Begin, Admits, Kinds
<1>2. /\ UNCHANGED runnerVars /\ state' = state /\ pid' = pid
      /\ OperatorAllows(k, s)
      /\ op'[c].on = s /\ op'[c].kind = k /\ op'[c].at = FirstStep(k, s)
      /\ op'[c].p = pid[s]
      /\ \A d \in Callers : d # c => op'[d] = op[d]
  BY SnapshotEffect DEF Begin, rowVars
<1>3. CASE k = "stop"
  <2>1. /\ op'[c].at = "kill" /\ pid[s] # None
        /\ \A d \in Callers : op[d].on # s
    BY <1>2, <1>3 DEF FirstStep, OperatorAllows, Undisturbed
  <2>2. \A r \in Runners : ~AboutToSpawn(r, s) /\ (Alive(r, s) => r = pid[s])
    <3> SUFFICES ASSUME NEW r \in Runners
                 PROVE  ~AboutToSpawn(r, s) /\ (Alive(r, s) => r = pid[s])
      OBVIOUS
    <3>1. Alive(r, s) \/ AboutToSpawn(r, s) => Claims(r, s)
      BY DEF Alive, AboutToSpawn, Claims, RunnerLive, AtRestPcs
    <3>2. Alive(r, s) \/ AboutToSpawn(r, s) => r = pid[s]
      BY <2>1, <3>1 DEF StopInv, PidIsTheClaim
    <3>3. at[pid[s]] \notin {"started", "spawn"}
      BY <2>1 DEF PidBelongsToItsRunner, HoldingPid
    <3> QED
      BY <3>2, <3>3 DEF AboutToSpawn
  <2>3. \A d \in Callers, x \in Sessions :
          /\ Launching(d, x)' => Launching(d, x) /\ op'[d] = op[d] /\ x # s
          /\ Stopping(d, x)' /\ d # c => Stopping(d, x) /\ op'[d] = op[d]
          /\ Stopping(c, x)' => x = s
    BY <1>2, <2>1 DEF Launching, Stopping
  <2>4. StopsClear'
    <3> SUFFICES ASSUME NEW d \in Callers, NEW x \in Sessions, Stopping(d, x)'
                 PROVE  /\ \A e \in Callers : ~Launching(e, x)'
                        /\ \A r \in Runners :
                             /\ ~AboutToSpawn(r, x)'
                             /\ Alive(r, x)' => op'[d].at = "kill" /\ r = op'[d].p
      BY DEF StopsClear
    <3>1. CASE d = c
      BY <1>2, <2>1, <2>2, <2>3, <3>1, StillProcesses
    <3>2. CASE d # c
      BY <1>2, <2>3, <3>2, StillProcesses DEF StopInv, StopsClear
    <3> QED
      BY <3>1, <3>2
  <2> QED
    BY <1>2, <1>3, <2>1, <2>4, StillProcesses
    DEF StopInv, PidIsTheClaim, StoppedIsQuiet, NoDetours, SpawnsAfresh, StopPcs
<1>4. CASE k # "stop"
  <2>1. /\ op'[c].at \notin {"resolveCleanup", "resolveStop", "spawn"}
        /\ op'[c].at \in StopPcs => k = "enforce"
        /\ op'[c].at = "setPending" => k = "resume"
    BY <1>1, <1>2, <1>4 DEF FirstStep, StopPcs
  <2>2. \A d \in Callers, x \in Sessions :
          Stopping(d, x)' => Stopping(d, x) /\ op'[d] = op[d] /\ (k = "resume" => x # s)
    BY <1>2, <1>4, <2>1, CarefulResume DEF Stopping, StopPcs, Undisturbed
  <2>3. \A d \in Callers, x \in Sessions :
          Launching(d, x)' => Launching(d, x) \/ (x = s /\ k = "resume")
    BY <1>2, <2>1 DEF Launching
  <2> QED
    BY <1>2, <2>1, <2>2, <2>3, StillProcesses
    DEF StopInv, PidIsTheClaim, StopsClear, StoppedIsQuiet, NoDetours, SpawnsAfresh, StopPcs
<1> QED
  BY <1>3, <1>4

LEMMA StopInvariant ==
  ASSUME Careful, Ops \cap {"pause", "cleanup", "prune"} = {}
  PROVE  Spec => []StopInv
<1>1. Init => StopInv
  BY ConstantsAssumption
  DEF Init, StopInv, PidIsTheClaim, NoDetours, SpawnsAfresh, StopsClear,
      StoppedIsQuiet, Stopping, StopPcs, NoOp, Alive
<1>2. TypeOK /\ SafetyInv /\ ClaimInv /\ StopInv /\ [Next]_vars => StopInv'
  <2> SUFFICES ASSUME TypeOK, SafetyInv, ClaimInv, StopInv, [Next]_vars PROVE StopInv'
    OBVIOUS
  <2>1. ASSUME NEW r \in Runners, RunnerStep(r) \/ AgentExits(r) \/ RunnerCrash(r)
        PROVE  StopInv'
    BY <2>1, RunnersCalm, CalmKeepsStops, AgentSpawnsKeepsStops, RecordPidKeepsStops
    DEF ClaimInv
  <2>2. ASSUME NEW s \in Sessions, Expire(s) PROVE StopInv'
    <3>1. Calm
      BY <2>2, StillProcesses DEF Expire, Calm
    <3> QED
      BY <3>1, CalmKeepsStops
  <2>3. ASSUME NEW c \in Callers, CallerStep(c) PROVE StopInv'
    <3>1. ASSUME NEW r \in Runners, Spawn(c, r) PROVE StopInv'
      BY <3>1, SpawnKeepsStops DEF SafetyInv
    <3>2. ASSUME NEW s \in Sessions, NEW w \in BOOLEAN, Launch(c, s, w) PROVE StopInv'
      BY <3>2, LaunchKeepsStops DEF SafetyInv, ClaimInv
    <3>3. ASSUME NEW s \in Sessions, NEW k \in Ops, Begin(c, s, k) PROVE StopInv'
      BY <3>3, BeginKeepsStops DEF SafetyInv
    <3>4. CASE SetPending(c)
      BY <3>4, SetPendingKeepsStops
    <3>5. CASE OpWrite(c) /\ op[c].kind = "stop"
      BY <3>5, StopWriteKeepsStops
    <3>6. ASSUME OpStep(c) \/ CallerCrash(c), ~\E r \in Runners : Spawn(c, r),
                 ~SetPending(c), ~(OpWrite(c) /\ op[c].kind = "stop")
          PROVE  StopInv'
      BY <3>6, CallersCalm, CalmKeepsStops
    <3> QED
      BY <2>3, <3>1, <3>2, <3>3, <3>4, <3>5, <3>6 DEF CallerStep
  <2>4. CASE UNCHANGED vars
    <3>1. Calm
      BY <2>4, StillProcesses DEF vars, runnerVars, Calm
    <3> QED
      BY <3>1, CalmKeepsStops
  <2> QED
    BY <2>1, <2>2, <2>3, <2>4 DEF Next
<1>3. QED
  BY <1>1, <1>2, TypeCorrect, SafetyInvariant, ClaimInvariant, PTL DEF Spec

\* Where the operator stops and resumes with care and nobody pauses, cleans up
\* or prunes, a session that says stopped has no agent: no resume, enforcement,
\* recovery, merge or delete between the kill and the write brings one back.
THEOREM StoppedDead ==
  ASSUME Careful, Ops \cap {"pause", "cleanup", "prune"} = {}
  PROVE  Spec => []StoppedMeansDead
<1>1. StopInv => StoppedMeansDead
  BY DEF StopInv, StoppedIsQuiet, StoppedMeansDead, AgentsOf, Alive
<1> QED
  BY <1>1, StopInvariant, PTL

-----------------------------------------------------------------------------
(***************************************************************************)
(* Sessions that only the daemon touches: launched, enforced, recovered,   *)
(* merged and pruned, never stopped, paused, resumed, cleaned up or        *)
(* deleted by hand.  A session then has one runner for ever, and its row   *)
(* is pending from the launch until that runner says running; every        *)
(* operation of the daemon looks at a session that is past that, and finds *)
(* every agent of it through the pid in the row.  The part about worktrees *)
(* needs auto_terminate_stale_sessions: without it a session is marked     *)
(* stale with its agent alive, and a stale session can be pruned.          *)
(***************************************************************************)
Early == {"started", "spawn", "setPid", "checkRunning", "writeRunning"}
Started(s) == state[s] \notin {"fresh", "Pending"}

OneRunner ==
  \A q, r \in Runners : of[q] = of[r] /\ at[q] # "unborn" /\ at[r] # "unborn" => q = r

RunnersKnown ==
  \A r \in Runners :
    /\ at[r] # "unborn" => of[r] \in Sessions
    /\ at[r] \in Early => state[of[r]] = "Pending"

DaemonsWork ==
  \A c \in Callers : op[c] # NoOp =>
    /\ op[c].at \notin {"setPending", "delRow"}
    /\ op[c].at \in {"resolveCleanup", "resolveStop"} => op[c].kind # "launch"
    /\ op[c].at = "spawn" =>
         /\ op[c].kind = "launch" /\ state[op[c].on] = "Pending"
         /\ \A d \in Callers : op[d].on = op[c].on => c = d
    /\ op[c].kind = "launch" => \A r \in Runners : of[r] # op[c].on
    /\ op[c].kind # "delete"
    /\ op[c].kind # "launch" => Started(op[c].on)

DaemonInv ==
  /\ \A s \in Sessions : state[s] # "deleted"
  /\ OneRunner /\ RunnersKnown /\ DaemonsWork
  /\ AgentsAreAttended

\* The pid in the row leads to the agent, unless its runner has yet to record
\* it or died before it could.
PidKnown(r) ==
  \/ agent[r] # "alive" \/ at[r] = "setPid"
  \/ at[r] = "crashed" /\ state[of[r]] = "Pending"
  \/ pid[of[r]] = r

\* An operation past its kill, or with nothing to kill, is on a session whose
\* agent is gone; before it, the pid that was read is that of the only agent.
NothingLeft ==
  \A c \in Callers : op[c] # NoOp =>
    /\ op[c].kind = "enforce" => op[c].at \in {"kill", "forceFail"}
    /\ op[c].at = "kill" => AgentsOf(op[c].on) \subseteq {op[c].p}
    /\ op[c].at # "kill" => AgentsOf(op[c].on) = {}

TreeInv ==
  /\ \A s \in Sessions : state[s] # "Stale"
  /\ \A s \in Sessions : state[s] \in Terminal => AgentsOf(s) = {}
  /\ \A r \in Runners : PidKnown(r)
  /\ NothingLeft

\* What a runner that is under way may do, under that invariant.
RunnerEffect(r) ==
  LET s == of[r] IN
  /\ UNCHANGED <<of, op, disk>>
  /\ at[r] # "unborn" /\ at'[r] # "unborn"
  /\ \A x \in Sessions : x # s => state'[x] = state[x] /\ pid'[x] = pid[x]
  /\ \A q \in Runners : q # r => at'[q] = at[q] /\ agent'[q] = agent[q]
  /\ \/ state'[s] = state[s]
     \/ state'[s] = "Running"
     \/ state'[s] \in Terminal /\ agent'[r] # "alive"
  /\ agent'[r] = "alive" =>
       \/ agent[r] = "alive"
       \/ state[s] = "Pending" /\ state'[s] = "Pending"
  /\ at'[r] \in Early => state'[s] = "Pending"
  /\ agent'[r] = "alive" => at'[r] \in Unreaped \cup {"crashed"}
  /\ PidKnown(r) => PidKnown(r)'

LEMMA RunnerEffects ==
  ASSUME TypeOK, NoAgentYet, FreshIsUntouched, DaemonInv, NEW r \in Runners,
         RunnerStep(r) \/ AgentExits(r) \/ RunnerCrash(r)
  PROVE  RunnerEffect(r)
<1>1. /\ at[r] # "unborn" /\ of[r] \in Sessions /\ Present(of[r])
      /\ at[r] \in Early => state[of[r]] = "Pending"
      /\ agent[r] = "alive" => at[r] \in Unreaped \cup {"crashed"}
  <2>1. at[r] # "unborn"
    BY DEF NoAgentYet, RunnerStep, AgentExits, RunnerCrash, RunnerLive, AtRestPcs,
       RunnerSkips, RunnerAccepts, AgentSpawns, AgentSpawnFails, RecordPid,
       RunnerUpdatesPid, CheckRunning, RunnerChecks, WriteRunning, RunnerWrites,
       FirstBeat, Beat, ReapAgent, ClearPid, CheckFinal, WriteFinal, ErrClearPid,
       ErrCheckFailed, ErrWriteFailed
  <2>2. /\ of[r] \in Sessions /\ state[of[r]] # "fresh" /\ state[of[r]] # "deleted"
        /\ state[of[r]] \in SessionStates \cup {"fresh", "deleted"}
    BY <2>1 DEF DaemonInv, RunnersKnown, FreshIsUntouched, TypeOK
  <2> QED
    BY <2>1, <2>2 DEF Present, DaemonInv, RunnersKnown, AgentsAreAttended
<1> USE <1>1 DEF TypeOK, RunnerEffect, Early, PidKnown, Unreaped, Terminal, rowVars, runnerVars
<1>3. CASE RunnerSkips(r)
  BY <1>3 DEF RunnerSkips, Goto
<1>4. CASE RunnerAccepts(r)
  BY <1>4 DEF RunnerAccepts, Goto
<1>5. CASE AgentSpawnFails(r)
  BY <1>5 DEF AgentSpawnFails, Goto
<1>6. CASE CheckRunning(r)
  BY <1>6 DEF CheckRunning, RunnerChecks, Goto, can_transition_to, Edges
<1>7. CASE WriteRunning(r)
  BY <1>7 DEF WriteRunning, RunnerWrites, UpdateState, Goto
<1>8. CASE FirstBeat(r)
  BY <1>8 DEF FirstBeat, Goto
<1>9. CASE Beat(r)
  BY <1>9 DEF Beat
<1>10. CASE ReapAgent(r)
  BY <1>10 DEF ReapAgent, Goto
<1>11. CASE ClearPid(r)
  BY <1>11 DEF ClearPid, RunnerUpdatesPid, UpdatePid, Goto
<1>12. CASE CheckFinal(r)
  BY <1>12 DEF CheckFinal, RunnerChecks, Goto
<1>13. CASE WriteFinal(r)
  BY <1>13 DEF WriteFinal, RunnerWrites, UpdateState, Goto, Verdict
<1>14. CASE ErrClearPid(r)
  BY <1>14 DEF ErrClearPid, UpdatePid, Goto
<1>15. CASE ErrCheckFailed(r)
  BY <1>15 DEF ErrCheckFailed, RunnerChecks, Goto
<1>16. CASE ErrWriteFailed(r)
  BY <1>16 DEF ErrWriteFailed, RunnerWrites, UpdateState, Goto
<1>17. CASE AgentExits(r)
  BY <1>17 DEF AgentExits
<1>18. CASE RunnerCrash(r)
  BY <1>18 DEF RunnerCrash, Goto
<1>19. CASE AgentSpawns(r)
  BY <1>19 DEF AgentSpawns, Goto
<1>20. CASE RecordPid(r)
  BY <1>20 DEF RecordPid, RunnerUpdatesPid, UpdatePid, Goto
<1> QED
  BY <1>3, <1>4, <1>5, <1>6, <1>7, <1>8, <1>9, <1>10, <1>11, <1>12, <1>13, <1>14,
     <1>15, <1>16, <1>17, <1>18, <1>19, <1>20 DEF RunnerStep

LEMMA RunnerKeepsDaemon ==
  ASSUME TypeOK, DaemonInv, NEW r \in Runners, RunnerEffect(r)
  PROVE  DaemonInv'
<1>1. of[r] \in Sessions
  BY DEF RunnerEffect, DaemonInv, RunnersKnown
<1>2. \A x \in Sessions : /\ state'[x] # "deleted"
                          /\ Started(x) => Started(x)'
  BY DEF RunnerEffect, DaemonInv, Started, Terminal
<1>3. OneRunner' /\ AgentsAreAttended'
  <2>1. \A q \in Runners : at'[q] = "unborn" <=> at[q] = "unborn"
    BY DEF RunnerEffect
  <2> QED
    BY <2>1 DEF RunnerEffect, DaemonInv, OneRunner, AgentsAreAttended
<1>5. RunnersKnown'
  <2> SUFFICES ASSUME NEW q \in Runners, at'[q] # "unborn"
               PROVE  /\ of[q] \in Sessions
                      /\ at'[q] \in Early => state'[of[q]] = "Pending"
    BY DEF RunnersKnown, RunnerEffect, Early
  <2>1. CASE q = r
    BY <1>1, <2>1 DEF RunnerEffect
  <2>2. CASE q # r
    <3>1. at[q] # "unborn" /\ of[q] \in Sessions /\ of[q] # of[r] /\ at'[q] = at[q]
      BY <2>2 DEF RunnerEffect, DaemonInv, OneRunner, RunnersKnown
    <3>2. at[q] \in Early => state[of[q]] = "Pending"
      BY DEF DaemonInv, RunnersKnown
    <3> QED
      BY <3>1, <3>2 DEF RunnerEffect
  <2> QED
    BY <2>1, <2>2
<1>4. DaemonsWork'
  <2> SUFFICES ASSUME NEW c \in Callers, op[c] # NoOp
               PROVE  /\ op[c].at = "spawn" => state'[op[c].on] = "Pending"
                      /\ op[c].kind # "launch" => Started(op[c].on)'
    BY DEF DaemonsWork, DaemonInv, RunnerEffect
  <2>1. op[c].on \in Sessions
    BY DEF TypeOK, OpRecord
  <2>2. op[c].at = "spawn" => of[r] # op[c].on /\ state[op[c].on] = "Pending"
    BY DEF DaemonInv, DaemonsWork
  <2> QED
    BY <1>2, <2>1, <2>2 DEF DaemonInv, DaemonsWork, RunnerEffect
<1> QED
  BY <1>2, <1>3, <1>4, <1>5 DEF DaemonInv

LEMMA RunnerKeepsTrees ==
  ASSUME TypeOK, DaemonInv, TreeInv, NEW r \in Runners, RunnerEffect(r)
  PROVE  TreeInv'
<1>1. of[r] \in Sessions
  BY DEF RunnerEffect, DaemonInv, RunnersKnown
<1>2. \A x \in Sessions : state'[x] # "Stale"
  BY DEF RunnerEffect, TreeInv, Terminal
<1>3. \A q \in Runners : q # r /\ agent[q] = "alive" => of[q] # of[r]
  BY DEF RunnerEffect, DaemonInv, OneRunner, AgentsAreAttended, Unreaped
<1>4. \A s \in Sessions : state'[s] \in Terminal => AgentsOf(s)' = {}
  BY <1>3 DEF RunnerEffect, TreeInv, AgentsOf, Terminal
<1>5. \A q \in Runners : PidKnown(q)'
  <2> SUFFICES ASSUME NEW q \in Runners, q # r, agent[q] = "alive" PROVE PidKnown(q)'
    BY DEF TreeInv, RunnerEffect, PidKnown
  <2>1. of[q] \in Sessions /\ of[q] # of[r]
    BY <1>3 DEF DaemonInv, RunnersKnown, AgentsAreAttended, Unreaped
  <2> QED
    BY <2>1 DEF TreeInv, PidKnown, RunnerEffect
<1>6. NothingLeft'
  <2> SUFFICES ASSUME NEW c \in Callers, op[c] # NoOp
               PROVE  AgentsOf(op[c].on)' \subseteq AgentsOf(op[c].on)
    BY DEF NothingLeft, TreeInv, RunnerEffect, AgentsOf
  <2>1. of[r] = op[c].on => state[of[r]] # "Pending"
    BY DEF DaemonInv, DaemonsWork, Started
  <2> QED
    BY <2>1 DEF RunnerEffect, AgentsOf
<1> QED
  BY <1>2, <1>4, <1>5, <1>6 DEF TreeInv

\* What a caller under way may do, other than start a runner.
CallerEffect(c) ==
  LET s == op[c].on IN
  /\ UNCHANGED <<of, at>>
  /\ \A r \in Runners : agent'[r] = "alive" => agent[r] = "alive"
  /\ \A x \in Sessions : x # s => state'[x] = state[x] /\ pid'[x] = pid[x]
  /\ \A x \in Sessions : x = s =>
       /\ \/ state'[x] = state[x]
          \/ op[c].at \in {"write", "forceFail"} /\ state'[x] \in Terminal
          \/ op[c].at = "write" /\ op[c].kind = "enforce" /\ state'[x] = "Stale"
       /\ pid'[x] = pid[x] \/ op[c].at \in {"clearPid", "forceFail"}
  /\ \A d \in Callers : d # c => op'[d] = op[d]
  /\ \/ op'[c] = NoOp
     \/ /\ op'[c].on = s
        /\ op'[c].kind = op[c].kind \/ (op'[c].kind = "cleanup" /\ op[c].kind # "launch")
        /\ op'[c].at \in {"resolveStop", "kill", "clearPid", "check", "write",
                          "rmTree", "clearTree", "forceFail"}
        /\ op'[c].at = "resolveStop" => op'[c].kind = "cleanup"
        /\ op'[c].at = "kill" => op[c].at # "kill"
        /\ op[c].at = "kill" => \A r \in Runners : agent'[r] = "alive" => r # op[c].p
        /\ op'[c].kind = "enforce" => /\ op[c].at = "kill" => op'[c].at = "forceFail"
                                      /\ op[c].at # "forceFail"

\* The CASE table of FirstStep, read off for cleanup.
LEMMA CleanupSteps ==
  ASSUME NEW s PROVE FirstStep("cleanup", s) \in {"resolveStop", "rmTree"}
  BY DEF FirstStep

LEMMA CallerEffects ==
  ASSUME TypeOK, DaemonInv, NEW c \in Callers, OpStep(c) \/ CallerCrash(c),
         ~\E r \in Runners : Spawn(c, r)
  PROVE  op[c] # NoOp /\ CallerEffect(c)
<1>1. op[c].at # "idle"
  BY DEF OpStep, CallerCrash, ResolveCleanup, ResolveStop, Kill, OpClearPid, OpCheck,
     OpWrite, RemoveTree, ClearTree, ForceFail, SetPending, SpawnFails, DeleteRow,
     DeleteRowFails, TypeOK, OpRecord, OpPcs, NoOp
<1>2. /\ op[c] # NoOp /\ op[c] \in OpRecord /\ op[c].on \in Sessions
      /\ op[c].at \notin {"setPending", "delRow"} /\ op[c].kind # "delete"
      /\ op[c].at = "spawn" => op[c].kind = "launch"
  BY <1>1, Busy DEF NoOp, OpRecord, DaemonInv, DaemonsWork
<1> DEFINE
      s == op[c].on
      Others == \A d \in Callers : d # c => op'[d] = op[d]
      Same == op'[c].on = s /\ op'[c].kind = op[c].kind
<1>3. ASSUME NEW l \in OpPcs, Step(c, l) PROVE Same /\ Others /\ op'[c].at = l
  BY <1>1, <1>3, StepEffect
<1>4. ASSUME Done(c) PROVE op'[c] = NoOp /\ Others
  BY <1>4, DoneEffect
<1> HIDE DEF Same, Others
<1> DEFINE
      Still == UNCHANGED <<state, pid, of, at, agent>>
      Rows(x) == state'[x] = state[x] /\ pid'[x] = pid[x]
<1>5. CASE ResolveCleanup(c)
  <2>1. \/ Done(c)
        \/ Snapshot(c, "cleanup", s, FirstStep("cleanup", s))
    BY <1>5 DEF ResolveCleanup
  <2>2. /\ Others
        /\ \/ op'[c] = NoOp
           \/ /\ op'[c].on = s /\ op'[c].kind = "cleanup"
              /\ op'[c].at \in {"resolveStop", "rmTree"}
    BY <1>4, <2>1, SnapshotEffect, CleanupSteps DEF Others
  <2>3. op[c].kind # "launch" /\ op[c].at = "resolveCleanup"
    BY <1>2, <1>5 DEF ResolveCleanup, DaemonInv, DaemonsWork
  <2>4. Still
    BY <1>5 DEF ResolveCleanup, rowVars, runnerVars
  <2> QED
    BY <1>2, <2>2, <2>3, <2>4 DEF CallerEffect, Others
<1>6. CASE ResolveStop(c)
  <2>1. Done(c) \/ Snapshot(c, "cleanup", s, "kill")
    BY <1>6 DEF ResolveStop
  <2>2. /\ Others
        /\ \/ op'[c] = NoOp
           \/ op'[c].on = s /\ op'[c].kind = "cleanup" /\ op'[c].at = "kill"
    BY <1>4, <2>1, SnapshotEffect DEF Others
  <2>3. op[c].kind # "launch" /\ op[c].at = "resolveStop"
    BY <1>2, <1>6 DEF ResolveStop, DaemonInv, DaemonsWork
  <2>4. Still
    BY <1>6 DEF ResolveStop, rowVars, runnerVars
  <2> QED
    BY <1>2, <2>2, <2>3, <2>4 DEF CallerEffect, Others
<1>7. CASE Kill(c)
  <2>1. /\ UNCHANGED <<state, pid, of, at>> /\ op[c].at = "kill"
        /\ \A r \in Runners :
             agent'[r] = "alive" => agent[r] = "alive" /\ r # op[c].p
    BY <1>7 DEF Kill, rowVars
  <2>2. /\ Same /\ Others
        /\ op'[c].at = IF op[c].kind = "enforce" THEN "forceFail" ELSE "clearPid"
    BY <1>3, <1>7 DEF Kill, OpPcs
  <2> QED
    BY <1>2, <2>1, <2>2 DEF CallerEffect, Same, Others
<1>8. CASE OpClearPid(c)
  <2>1. UNCHANGED <<state, of, at, agent>> /\ op[c].at = "clearPid"
    BY <1>8 DEF OpClearPid, UpdatePid, rowVars, runnerVars
  <2>2. \A x \in Sessions : x # s => pid'[x] = pid[x]
    BY <1>8 DEF OpClearPid, UpdatePid, rowVars, TypeOK
  <2>3. Others /\ (op'[c] = NoOp \/ (Same /\ op'[c].at = "check"))
    BY <1>3, <1>4, <1>8 DEF OpClearPid, OpPcs
  <2> QED
    BY <1>2, <2>1, <2>2, <2>3 DEF CallerEffect, Same, Others
<1>9. CASE OpCheck(c)
  <2>1. Still /\ op[c].at = "check"
    BY <1>9 DEF OpCheck, rowVars, runnerVars
  <2>2. Others /\ (op'[c] = NoOp \/ (Same /\ op'[c].at = "write"))
    BY <1>3, <1>4, <1>9 DEF OpCheck, OpPcs
  <2> QED
    BY <1>2, <2>1, <2>2 DEF CallerEffect, Same, Others
<1>10. CASE OpWrite(c)
  <2>1. UNCHANGED <<pid, of, at, agent>> /\ op[c].at = "write"
    BY <1>10 DEF OpWrite, UpdateState, rowVars, runnerVars
  <2>2. \/ state' = state
        \/ state' = [state EXCEPT ![s] = Target(op[c].kind)]
    BY <1>10 DEF OpWrite, UpdateState, rowVars
  <2>3. /\ Target(op[c].kind) \in Terminal \cup {"Stale"}
        /\ Target(op[c].kind) = "Stale" => op[c].kind = "enforce"
    BY DEF Target, Terminal
  <2>4. Others /\ (op'[c] = NoOp \/ (Same /\ op'[c].at \in {"rmTree", "clearTree"}))
    BY <1>3, <1>4, <1>10 DEF OpWrite, AfterWrite, OpPcs
  <2> QED
    BY <1>2, <2>1, <2>2, <2>3, <2>4 DEF CallerEffect, Same, Others, TypeOK
<1>11. CASE RemoveTree(c)
  <2>1. Still /\ op[c].at = "rmTree"
    BY <1>11 DEF RemoveTree, rowVars, runnerVars
  <2>2. Others /\ (op'[c] = NoOp \/ (Same /\ op'[c].at = "clearTree"))
    BY <1>2, <1>3, <1>4, <1>11 DEF RemoveTree, OpPcs
  <2> QED
    BY <1>2, <2>1, <2>2 DEF CallerEffect, Same, Others
<1>12. CASE ForceFail(c)
  <2>1. UNCHANGED <<of, at, agent>> /\ op[c].at = "forceFail"
    BY <1>12 DEF ForceFail, runnerVars
  <2>2. \/ state' = state /\ pid' = pid
        \/ state' = [state EXCEPT ![s] = "Failed"] /\ pid' = [pid EXCEPT ![s] = None]
    BY <1>12 DEF ForceFail, update_state_and_pid, rowVars
  <2>3. Others /\ op'[c] = NoOp
    BY <1>4, <1>12 DEF ForceFail
  <2> QED
    BY <1>2, <2>1, <2>2, <2>3 DEF CallerEffect, Others, Terminal, TypeOK
<1>13. CASE SpawnFails(c)
  <2>1. Still /\ op[c].at = "spawn"
    BY <1>13 DEF SpawnFails, rowVars, runnerVars
  <2>2. Others /\ (op'[c] = NoOp \/ (Same /\ op'[c].at = "check"))
    BY <1>3, <1>4, <1>13 DEF SpawnFails, OpPcs
  <2> QED
    BY <1>2, <2>1, <2>2 DEF CallerEffect, Same, Others
<1>14. CASE ClearTree(c) \/ CallerCrash(c)
  <2>1. Still /\ (op[c].at = "clearTree" \/ CallerCrash(c))
    BY <1>14 DEF ClearTree, CallerCrash, rowVars, runnerVars
  <2>2. Others /\ op'[c] = NoOp
    BY <1>4, <1>14 DEF ClearTree, CallerCrash, Done
  <2> QED
    BY <1>2, <2>1, <2>2 DEF CallerEffect, Others
<1>15. ~SetPending(c) /\ ~DeleteRow(c) /\ ~DeleteRowFails(c)
  BY <1>2 DEF SetPending, DeleteRow, DeleteRowFails
<1> QED
  BY <1>5, <1>6, <1>7, <1>8, <1>9, <1>10, <1>11, <1>12, <1>13, <1>14, <1>15 DEF OpStep

LEMMA CallerKeepsDaemon ==
  ASSUME TypeOK, DaemonInv, NEW c \in Callers, op[c] # NoOp, CallerEffect(c)
  PROVE  DaemonInv'
<1>1. /\ op[c] \in OpRecord /\ op[c].on \in Sessions
      /\ op[c].kind # "launch" => Started(op[c].on)
      /\ op[c].kind = "launch" => \A r \in Runners : of[r] # op[c].on
  BY DEF TypeOK, OpRecord, DaemonInv, DaemonsWork
<1>2. \A x \in Sessions : /\ state'[x] # "deleted"
                          /\ Started(x) => Started(x)'
  BY DEF CallerEffect, DaemonInv, Started, Terminal
<1>3. \A x \in Sessions, r \in Runners :
        of[r] = x /\ state[x] = "Pending" => state'[x] = "Pending"
  BY <1>1 DEF CallerEffect, Started
<1>4. OneRunner' /\ AgentsAreAttended'
  BY DEF CallerEffect, DaemonInv, OneRunner, AgentsAreAttended
<1>5. RunnersKnown'
  <2> SUFFICES ASSUME NEW r \in Runners, at[r] # "unborn"
               PROVE  of[r] \in Sessions /\ (at[r] \in Early => state'[of[r]] = "Pending")
    BY DEF RunnersKnown, CallerEffect, Early
  <2>1. of[r] \in Sessions /\ (at[r] \in Early => state[of[r]] = "Pending")
    BY DEF DaemonInv, RunnersKnown
  <2> QED
    BY <1>3, <2>1
<1>6. DaemonsWork'
  <2> SUFFICES ASSUME NEW d \in Callers, op'[d] # NoOp
               PROVE  /\ op'[d].at \notin {"setPending", "delRow"}
                      /\ op'[d].at \in {"resolveCleanup", "resolveStop"}
                           => op'[d].kind # "launch"
                      /\ op'[d].at = "spawn" =>
                           /\ op'[d].kind = "launch" /\ state'[op'[d].on] = "Pending"
                           /\ \A e \in Callers : op'[e].on = op'[d].on => d = e
                      /\ op'[d].kind = "launch" => \A r \in Runners : of'[r] # op'[d].on
                      /\ op'[d].kind # "delete"
                      /\ op'[d].kind # "launch" => Started(op[d].on)'
    BY DEF DaemonsWork
  <2>1. CASE d = c
    BY <1>1, <1>2, <2>1 DEF CallerEffect, DaemonInv, DaemonsWork
  <2>2. CASE d # c
    <3>1. op'[d] = op[d] /\ op[d] # NoOp /\ op[d].on \in Sessions
      BY <2>2 DEF CallerEffect, TypeOK, OpRecord
    <3>2. \A e \in Callers : op'[e].on \in {op[e].on, None}
      BY DEF CallerEffect, NoOp
    <3>3. ASSUME op[d].at = "spawn"
          PROVE  /\ op[d].on # op[c].on /\ state'[op[d].on] = "Pending"
                 /\ \A e \in Callers : op'[e].on = op[d].on => d = e
      <4>1. op[d].on # op[c].on
        BY <2>2, <3>1, <3>3 DEF DaemonInv, DaemonsWork
      <4>2. state'[op[d].on] = state[op[d].on]
        BY <3>1, <4>1 DEF CallerEffect
      <4>3. /\ state[op[d].on] = "Pending"
            /\ \A e \in Callers : op[e].on = op[d].on => d = e
        BY <3>1, <3>3 DEF DaemonInv, DaemonsWork
      <4> QED
        BY <3>1, <3>2, <4>1, <4>2, <4>3, ConstantsAssumption
    <3>4. /\ op[d].kind = "launch" => \A r \in Runners : of'[r] # op[d].on
          /\ op[d].kind # "launch" => Started(op[d].on)'
      BY <1>2, <3>1 DEF CallerEffect, DaemonInv, DaemonsWork
    <3> QED
      BY <3>1, <3>3, <3>4 DEF DaemonInv, DaemonsWork
  <2> QED
    BY <2>1, <2>2
<1> QED
  BY <1>2, <1>4, <1>5, <1>6 DEF DaemonInv

LEMMA CallerKeepsTrees ==
  ASSUME TypeOK, DaemonInv, TreeInv, NEW c \in Callers, op[c] # NoOp, CallerEffect(c)
  PROVE  TreeInv'
<1>1. op[c] \in OpRecord /\ op[c].on \in Sessions
  BY DEF TypeOK, OpRecord
<1>2. \A x \in Sessions : AgentsOf(x)' \subseteq AgentsOf(x)
  BY DEF CallerEffect, AgentsOf
<1>3. op[c].at # "kill" => AgentsOf(op[c].on) = {}
  BY DEF TreeInv, NothingLeft
<1>4. \A x \in Sessions : state'[x] # "Stale"
  BY <1>1 DEF CallerEffect, TreeInv, NothingLeft, Terminal
<1>5. \A x \in Sessions : state'[x] \in Terminal => AgentsOf(x)' = {}
  BY <1>2, <1>3 DEF CallerEffect, TreeInv, Terminal
<1>6. \A r \in Runners : PidKnown(r)'
  <2> SUFFICES ASSUME NEW r \in Runners, agent'[r] = "alive", at[r] # "setPid",
                      ~(at[r] = "crashed" /\ state'[of[r]] = "Pending")
               PROVE  pid'[of[r]] = r
    BY DEF PidKnown, CallerEffect
  <2>1. agent[r] = "alive" /\ of[r] \in Sessions /\ r \in AgentsOf(of[r])
    BY DEF CallerEffect, DaemonInv, RunnersKnown, AgentsAreAttended, AgentsOf, Unreaped
  <2>2. CASE of[r] # op[c].on
    BY <2>1, <2>2 DEF CallerEffect, TreeInv, PidKnown
  <2>3. CASE of[r] = op[c].on
    <3>1. op[c].at = "kill"
      BY <1>3, <2>1, <2>3
    <3>2. state'[of[r]] = state[of[r]] /\ pid'[of[r]] = pid[of[r]]
      BY <2>1, <2>3, <3>1 DEF CallerEffect
    <3> QED
      BY <2>1, <3>2 DEF TreeInv, PidKnown
  <2> QED
    BY <2>2, <2>3
<1>7. NothingLeft'
  <2> SUFFICES ASSUME NEW d \in Callers, op'[d] # NoOp
               PROVE  /\ op'[d].kind = "enforce" => op'[d].at \in {"kill", "forceFail"}
                      /\ op'[d].at = "kill" => AgentsOf(op[d].on)' \subseteq {op'[d].p}
                      /\ op'[d].at # "kill" => AgentsOf(op[d].on)' = {}
    BY DEF NothingLeft
  <2>1. CASE d = c
    <3>1. op'[c].on = op[c].on
      BY <2>1 DEF CallerEffect
    <3>2. op'[c].kind = "enforce" => op'[c].at \in {"kill", "forceFail"}
      BY <2>1 DEF CallerEffect, TreeInv, NothingLeft
    <3>3. CASE op[c].at # "kill"
      BY <1>1, <1>2, <1>3, <2>1, <3>1, <3>2, <3>3
    <3>4. CASE op[c].at = "kill"
      <4>1. AgentsOf(op[c].on) \subseteq {op[c].p}
        BY <3>4 DEF TreeInv, NothingLeft
      <4>2. AgentsOf(op[c].on)' = {}
        BY <2>1, <3>1, <3>4, <4>1 DEF CallerEffect, AgentsOf
      <4> QED
        BY <2>1, <3>1, <3>2, <4>2
    <3> QED
      BY <3>3, <3>4
  <2>2. CASE d # c
    <3>1. op'[d] = op[d] /\ op[d] # NoOp /\ op[d].on \in Sessions
      BY <2>2 DEF CallerEffect, TypeOK, OpRecord
    <3>2. AgentsOf(op[d].on)' \subseteq AgentsOf(op[d].on)
      BY <1>2, <3>1
    <3> QED
      BY <3>1, <3>2 DEF TreeInv, NothingLeft
  <2> QED
    BY <2>1, <2>2
<1> QED
  BY <1>4, <1>5, <1>6, <1>7 DEF TreeInv

\* What the daemon's operations find when they begin.
LEMMA DaemonBegins ==
  ASSUME TypeOK, FreshIsUntouched, DaemonInv, NEW c \in Callers, NEW s \in Sessions,
         Ops \subseteq {"launch", "enforce", "recover", "prune", "merge"},
         NEW k \in Ops, Begin(c, s, k)
  PROVE  /\ k \in {"enforce", "recover", "prune", "merge"}
         /\ Started(s) /\ UNCHANGED <<state, pid, of, at, agent>>
         /\ k = "enforce" => state[s] \in {"Running", "Stale"}
         /\ k = "recover" => state[s] = "Running" /\ ~pid_is_alive(pid[s])
         /\ k \in {"prune", "merge"} => state[s] \in Terminal \cup {"Stale"}
         /\ op[c] = NoOp /\ op'[c].on = s /\ op'[c].kind = k /\ op'[c].p = pid[s]
         /\ op'[c].at = FirstStep(k, s)
         /\ \A d \in Callers : d # c => op'[d] = op[d]
<1>1. k \in {"enforce", "recover", "prune", "merge"} /\ Admits(k, s)
  BY DEF Begin, Admits
<1>2. state[s] \in SessionStates \cup {"fresh"} /\ (tree[s] => state[s] # "fresh")
  BY DEF TypeOK, DaemonInv, FreshIsUntouched
<1>3. /\ k = "enforce" => state[s] \in {"Running", "Stale"}
      /\ k = "recover" => state[s] = "Running" /\ ~pid_is_alive(pid[s])
      /\ k \in {"prune", "merge"} => state[s] \in Terminal \cup {"Stale"}
  BY <1>1, <1>2 DEF Admits, SessionStates, Active, Terminal
<1>4. Started(s)
  BY <1>1, <1>3 DEF Started, Terminal
<1> QED
  BY <1>1, <1>3, <1>4, SnapshotEffect DEF Begin, rowVars, runnerVars

LEMMA BeginKeepsDaemon ==
  ASSUME TypeOK, FreshIsUntouched, DaemonInv, NEW c \in Callers, NEW s \in Sessions,
         Ops \subseteq {"launch", "enforce", "recover", "prune", "merge"},
         NEW k \in Ops, Begin(c, s, k)
  PROVE  DaemonInv'
<1>1. /\ k \in {"enforce", "recover", "prune", "merge"}
      /\ Started(s) /\ UNCHANGED <<state, pid, of, at, agent>>
      /\ op'[c].on = s /\ op'[c].kind = k /\ op'[c].at = FirstStep(k, s)
      /\ \A d \in Callers : d # c => op'[d] = op[d]
  BY DaemonBegins
<1>2. op'[c].at \notin {"setPending", "delRow", "resolveStop", "spawn"}
  BY <1>1 DEF FirstStep
<1>3. OneRunner' /\ RunnersKnown' /\ AgentsAreAttended'
  BY <1>1 DEF DaemonInv, OneRunner, RunnersKnown, AgentsAreAttended
<1>4. DaemonsWork'
  <2>1. \A d \in Callers : op[d].at = "spawn" => op[d].on # s /\ op[d] # NoOp
    BY <1>1 DEF DaemonInv, DaemonsWork, NoOp, Started
  <2> QED
    BY <1>1, <1>2, <2>1 DEF DaemonInv, DaemonsWork, Started
<1> QED
  BY <1>1, <1>3, <1>4 DEF DaemonInv

LEMMA BeginKeepsTrees ==
  ASSUME TypeOK, FreshIsUntouched, DaemonInv, TreeInv, AutoTerminate,
         NEW c \in Callers, NEW s \in Sessions,
         Ops \subseteq {"launch", "enforce", "recover", "prune", "merge"},
         NEW k \in Ops, Begin(c, s, k)
  PROVE  TreeInv'
<1>1. /\ k \in {"enforce", "recover", "prune", "merge"}
      /\ Started(s) /\ UNCHANGED <<state, pid, of, at, agent>>
      /\ k = "enforce" => state[s] \in {"Running", "Stale"}
      /\ k = "recover" => state[s] = "Running" /\ ~pid_is_alive(pid[s])
      /\ k \in {"prune", "merge"} => state[s] \in Terminal \cup {"Stale"}
      /\ op'[c].on = s /\ op'[c].kind = k /\ op'[c].p = pid[s]
      /\ op'[c].at = FirstStep(k, s)
      /\ \A d \in Callers : d # c => op'[d] = op[d]
  BY DaemonBegins
<1>2. /\ k = "enforce" => op'[c].at = "kill"
      /\ op'[c].at = "kill" => k = "enforce"
  BY <1>1 DEF FirstStep
<1>3. AgentsOf(s) \subseteq {pid[s]}
  <2> SUFFICES ASSUME NEW r \in Runners, of[r] = s, agent[r] = "alive" PROVE r = pid[s]
    BY DEF AgentsOf
  <2>1. at[r] # "setPid" /\ state[s] # "Pending"
    BY <1>1 DEF DaemonInv, RunnersKnown, Early, Started
  <2> QED
    BY <2>1 DEF TreeInv, PidKnown
<1>4. k # "enforce" => AgentsOf(s) = {}
  <2>1. k = "recover" => AgentsOf(s) = {}
    BY <1>1, <1>3, ConstantsAssumption DEF pid_is_alive, AgentsOf
  <2>2. k \in {"prune", "merge"} => AgentsOf(s) = {}
    BY <1>1 DEF TreeInv
  <2> QED
    BY <1>1, <2>1, <2>2
<1>5. NothingLeft'
  <2> SUFFICES ASSUME NEW d \in Callers, op'[d] # NoOp
               PROVE  /\ op'[d].kind = "enforce" => op'[d].at \in {"kill", "forceFail"}
                      /\ op'[d].at = "kill" => AgentsOf(op'[d].on) \subseteq {op'[d].p}
                      /\ op'[d].at # "kill" => AgentsOf(op'[d].on) = {}
    BY <1>1 DEF NothingLeft, AgentsOf
  <2>1. CASE d = c
    BY <1>1, <1>2, <1>3, <1>4, <2>1
  <2>2. CASE d # c
    BY <1>1, <2>2 DEF TreeInv, NothingLeft
  <2> QED
    BY <2>1, <2>2
<1> QED
  BY <1>1, <1>5 DEF TreeInv, AgentsOf, PidKnown

LEMMA LaunchKeepsDaemon ==
  ASSUME TypeOK, FreshIsUntouched, DaemonInv, NEW c \in Callers, NEW s \in Sessions,
         NEW w \in BOOLEAN, Launch(c, s, w)
  PROVE  DaemonInv' /\ (TreeInv => TreeInv')
<1>1. /\ state' = [state EXCEPT ![s] = "Pending"] /\ UNCHANGED <<pid, of, at, agent>>
      /\ op[c] = NoOp /\ op'[c] # NoOp /\ op'[c].on = s /\ op'[c].kind = "launch"
      /\ op'[c].at = "spawn"
      /\ \A d \in Callers : d # c => op'[d] = op[d] /\ op[d].on # s
      /\ \A r \in Runners : of[r] # s
  BY DEF Launch, runnerVars, TypeOK, NoOp, FreshIsUntouched
<1>2. \A x \in Sessions : state'[x] = state[x] \/ (x = s /\ state'[x] = "Pending")
  BY <1>1 DEF TypeOK
<1>3. OneRunner' /\ RunnersKnown' /\ AgentsAreAttended'
  BY <1>1, <1>2 DEF DaemonInv, OneRunner, RunnersKnown, AgentsAreAttended
<1>4. DaemonsWork'
  <2> SUFFICES ASSUME NEW d \in Callers, op'[d] # NoOp, d # c
               PROVE  /\ op[d].at = "spawn" =>
                           /\ state'[op[d].on] = "Pending"
                           /\ \A e \in Callers : op'[e].on = op[d].on => d = e
                      /\ op[d].kind # "launch" => Started(op[d].on)'
    <3>1. state'[s] = "Pending"
      BY <1>1 DEF TypeOK
    <3> QED
      BY <1>1, <3>1 DEF DaemonInv, DaemonsWork
  <2>1. op[d] # NoOp /\ op[d].on \in Sessions /\ op[d].on # s
    BY <1>1 DEF TypeOK, OpRecord
  <2> QED
    BY <1>1, <1>2, <2>1 DEF DaemonInv, DaemonsWork, Started
<1>5. TreeInv => NothingLeft'
  <2> SUFFICES ASSUME TreeInv, NEW d \in Callers, op'[d] # NoOp
               PROVE  /\ op'[d].kind = "enforce" => op'[d].at \in {"kill", "forceFail"}
                      /\ op'[d].at = "kill" => AgentsOf(op'[d].on) \subseteq {op'[d].p}
                      /\ op'[d].at # "kill" => AgentsOf(op'[d].on) = {}
    BY <1>1 DEF NothingLeft, AgentsOf
  <2>1. CASE d = c
    BY <1>1, <2>1 DEF AgentsOf
  <2>2. CASE d # c
    BY <1>1, <2>2 DEF TreeInv, NothingLeft
  <2> QED
    BY <2>1, <2>2
<1>6. \A r \in Runners : PidKnown(r) => PidKnown(r)'
  BY <1>1, <1>2 DEF PidKnown, DaemonInv, RunnersKnown, AgentsAreAttended, Unreaped
<1> QED
  BY <1>1, <1>2, <1>3, <1>4, <1>5, <1>6 DEF DaemonInv, TreeInv, AgentsOf, Terminal

LEMMA SpawnKeepsDaemon ==
  ASSUME TypeOK, NoAgentYet, DaemonInv, NEW c \in Callers, NEW r \in Runners, Spawn(c, r)
  PROVE  DaemonInv' /\ (TreeInv => TreeInv')
<1>1. /\ op[c].at = "spawn" /\ op[c] # NoOp /\ op[c].on \in Sessions
      /\ at[r] = "unborn" /\ agent[r] = "none" /\ UNCHANGED <<state, pid, agent>>
      /\ of' = [of EXCEPT ![r] = op[c].on] /\ at' = [at EXCEPT ![r] = "started"]
  BY Busy DEF Spawn, Goto, rowVars, NoAgentYet, OpRecord, NoOp
<1>2. op'[c] = NoOp /\ \A d \in Callers : d # c => op'[d] = op[d]
  BY DoneEffect DEF Spawn
<1>3. /\ state[op[c].on] = "Pending"
      /\ \A d \in Callers : op[d].on = op[c].on => c = d
      /\ \A q \in Runners : of[q] # op[c].on
  BY <1>1 DEF DaemonInv, DaemonsWork
<1>4. \A q \in Runners : \/ q # r /\ of'[q] = of[q] /\ at'[q] = at[q]
                         \/ q = r /\ of'[q] = op[c].on /\ at'[q] = "started"
  BY <1>1 DEF TypeOK
<1>5. OneRunner' /\ RunnersKnown' /\ AgentsAreAttended'
  BY <1>1, <1>3, <1>4 DEF DaemonInv, OneRunner, RunnersKnown, AgentsAreAttended
<1>6. DaemonsWork'
  <2>1. \A d \in Callers : op'[d] # NoOp => d # c /\ op[d].on # op[c].on
    BY <1>2, <1>3
  <2>2. NoOp.on = None
    BY DEF NoOp
  <2>3. \A d, e \in Callers : /\ op'[d] # NoOp /\ op'[e].on = op'[d].on
                              => op[e].on = op[d].on
    BY <1>2, <2>1, <2>2, ConstantsAssumption DEF TypeOK, OpRecord
  <2> QED
    BY <1>1, <1>2, <1>4, <2>1, <2>3 DEF DaemonInv, DaemonsWork, Started
<1>7. \A x \in Sessions : AgentsOf(x)' = AgentsOf(x)
  BY <1>1, <1>4 DEF AgentsOf
<1>8. TreeInv => NothingLeft'
  <2> SUFFICES ASSUME TreeInv, NEW d \in Callers, op'[d] # NoOp
               PROVE  /\ op'[d].kind = "enforce" => op'[d].at \in {"kill", "forceFail"}
                      /\ op'[d].at = "kill" => AgentsOf(op[d].on)' \subseteq {op'[d].p}
                      /\ op'[d].at # "kill" => AgentsOf(op[d].on)' = {}
    BY DEF NothingLeft
  <2>1. op'[d] = op[d] /\ op[d].on \in Sessions
    BY <1>2 DEF TypeOK, OpRecord
  <2>2. AgentsOf(op[d].on)' = AgentsOf(op[d].on)
    BY <1>7, <2>1
  <2> QED
    BY <2>1, <2>2 DEF TreeInv, NothingLeft
<1>9. \A q \in Runners : PidKnown(q) => PidKnown(q)'
  BY <1>1, <1>4 DEF PidKnown
<1> QED
  BY <1>1, <1>5, <1>6, <1>7, <1>8, <1>9 DEF DaemonInv, TreeInv

\* One step of the daemon's world, for both invariants.
LEMMA DaemonStep ==
  ASSUME TypeOK, NoAgentYet, FreshIsUntouched, DaemonInv, [Next]_vars,
         Ops \subseteq {"launch", "enforce", "recover", "prune", "merge"}
  PROVE  DaemonInv' /\ (AutoTerminate /\ TreeInv => TreeInv')
<1>1. ASSUME NEW r \in Runners, RunnerStep(r) \/ AgentExits(r) \/ RunnerCrash(r)
      PROVE  DaemonInv' /\ (TreeInv => TreeInv')
  BY <1>1, RunnerEffects, RunnerKeepsDaemon, RunnerKeepsTrees
<1>2. ASSUME UNCHANGED <<state, pid, of, at, agent, op>>
      PROVE  DaemonInv' /\ (TreeInv => TreeInv')
  BY <1>2 DEF DaemonInv, OneRunner, RunnersKnown, DaemonsWork, AgentsAreAttended, Started,
     TreeInv, NothingLeft, PidKnown, AgentsOf
<1>3. ASSUME NEW s \in Sessions, Expire(s)
      PROVE  DaemonInv' /\ (TreeInv => TreeInv')
  BY <1>2, <1>3 DEF Expire, runnerVars
<1>4. ASSUME NEW c \in Callers, CallerStep(c)
      PROVE  DaemonInv' /\ (AutoTerminate /\ TreeInv => TreeInv')
  <2>1. ASSUME NEW r \in Runners, Spawn(c, r)
        PROVE  DaemonInv' /\ (TreeInv => TreeInv')
    BY <2>1, SpawnKeepsDaemon
  <2>2. ASSUME NEW s \in Sessions, NEW w \in BOOLEAN, Launch(c, s, w)
        PROVE  DaemonInv' /\ (TreeInv => TreeInv')
    BY <2>2, LaunchKeepsDaemon
  <2>3. ASSUME NEW s \in Sessions, NEW k \in Ops, Begin(c, s, k)
        PROVE  DaemonInv' /\ (AutoTerminate /\ TreeInv => TreeInv')
    BY <2>3, BeginKeepsDaemon, BeginKeepsTrees
  <2>4. ASSUME OpStep(c) \/ CallerCrash(c), ~\E r \in Runners : Spawn(c, r)
        PROVE  DaemonInv' /\ (TreeInv => TreeInv')
    BY <2>4, CallerEffects, CallerKeepsDaemon, CallerKeepsTrees
  <2> QED
    BY <1>4, <2>1, <2>2, <2>3, <2>4 DEF CallerStep
<1>5. CASE UNCHANGED vars
  BY <1>2, <1>5 DEF vars
<1> QED
  BY <1>1, <1>3, <1>4, <1>5 DEF Next

LEMMA DaemonInvariant ==
  ASSUME Ops \subseteq {"launch", "enforce", "recover", "prune", "merge"}
  PROVE  Spec => []DaemonInv
<1>1. Init => DaemonInv
  BY DEF Init, DaemonInv, OneRunner, RunnersKnown, DaemonsWork, AgentsAreAttended, Early
<1>2. TypeOK /\ SafetyInv /\ ClaimInv /\ DaemonInv /\ [Next]_vars => DaemonInv'
  BY DaemonStep DEF SafetyInv, ClaimInv
<1>3. QED
  BY <1>1, <1>2, TypeCorrect, SafetyInvariant, ClaimInvariant, PTL DEF Spec

LEMMA TreeInvariant ==
  ASSUME AutoTerminate,
         Ops \subseteq {"launch", "enforce", "recover", "prune", "merge"}
  PROVE  Spec => []TreeInv
<1>1. Init => TreeInv
  BY DEF Init, TreeInv, NothingLeft, PidKnown, AgentsOf, Terminal
<1>2. /\ TypeOK /\ SafetyInv /\ ClaimInv /\ DaemonInv /\ TreeInv /\ [Next]_vars
      => TreeInv'
  BY DaemonStep DEF SafetyInv, ClaimInv
<1>3. QED
  BY <1>1, <1>2, TypeCorrect, SafetyInvariant, ClaimInvariant, DaemonInvariant, PTL
  DEF Spec

\* While only the daemon touches sessions, no runner gives up on a session
\* whose agent goes on: its row is there and pending or running when it looks.
THEOREM AgentsAttended ==
  ASSUME Ops \subseteq {"launch", "enforce", "recover", "prune", "merge"}
  PROVE  Spec => []AgentsAreAttended
<1>1. DaemonInv => AgentsAreAttended
  BY DEF DaemonInv
<1> QED
  BY <1>1, DaemonInvariant, PTL

\* A worktree goes from disk only where no agent works on it: the daemon has
\* killed the agent the pid led to, or seen it gone, before the removal.
THEOREM TreesKeptUnderAgents ==
  ASSUME AutoTerminate,
         Ops \subseteq {"launch", "enforce", "recover", "prune", "merge"}
  PROVE  Spec => NoTreeRemovedUnderAgent
<1> DEFINE Kept == \A s \in Sessions : disk[s] /\ ~disk'[s] => AgentsOf(s) = {}
<1>1. TypeOK /\ SafetyInv /\ ClaimInv /\ DaemonInv /\ TreeInv /\ [Next]_vars => [Kept]_vars
  <2> SUFFICES ASSUME TypeOK, SafetyInv, ClaimInv, DaemonInv, TreeInv, Next,
                      NEW s \in Sessions, disk[s], ~disk'[s]
               PROVE  AgentsOf(s) = {}
    OBVIOUS
  <2>1. \A r \in Runners : ~(RunnerStep(r) \/ AgentExits(r) \/ RunnerCrash(r))
    BY RunnerEffects DEF RunnerEffect, SafetyInv, ClaimInv
  <2>2. \A x \in Sessions : ~Expire(x)
    BY DEF Expire
  <2>3. PICK c \in Callers : CallerStep(c)
    BY <2>1, <2>2 DEF Next
  <2>4. \/ RemoveTree(c)
        \/ \E x \in Sessions, w \in BOOLEAN : Launch(c, x, w)
    BY <2>3 DEF CallerStep, OpStep, Begin, CallerCrash, ResolveCleanup, ResolveStop, Kill,
       OpClearPid, OpCheck, OpWrite, ClearTree, ForceFail, SetPending, Spawn,
       SpawnFails, DeleteRow, DeleteRowFails
  <2>5. CASE RemoveTree(c)
    <3>1. op[c].at = "rmTree" /\ op[c].on = s
      BY <2>5 DEF RemoveTree, TypeOK
    <3> QED
      BY <3>1 DEF TreeInv, NothingLeft, NoOp
  <2>6. ASSUME NEW x \in Sessions, NEW w \in BOOLEAN, Launch(c, x, w)
        PROVE  AgentsOf(s) = {}
    <3>1. state[x] = "fresh" /\ x = s
      BY <2>6 DEF Launch, TypeOK
    <3> QED
      BY <3>1 DEF ClaimInv, FreshIsUntouched, AgentsOf
  <2> QED
    BY <2>4, <2>5, <2>6
<1>2. QED
  BY <1>1, TypeCorrect, SafetyInvariant, ClaimInvariant, DaemonInvariant, TreeInvariant, PTL
  DEF Spec, NoTreeRemovedUnderAgent
=============================================================================
