-------------------------- MODULE EnforcementProofs --------------------------
(***************************************************************************)
(* The types of the dashboard's enforcement and that a recorded conflict   *)
(* is enforced, proved for any number of sessions, files and dashboards,   *)
(* any log and either strategy.                                            *)
(***************************************************************************)
EXTENDS Enforcement, FiniteSetTheorems, TLAPS

Conflict == [file : Files, latest : Sessions, other : Sessions]

\* What a dashboard is doing.
Pass == [at : {"idle", "budget", "check", "open", "pause", "tell"},
         todo : SUBSET (Sessions \cup Conflict),
         once : SUBSET Sessions,
         cur : Conflict \cup {None}]

\* The part of TypeOK that the argument needs; a conflict is at hand while it
\* is handled.
Shape ==
  /\ pass \in [Dashboards -> Pass]
  /\ \A k \in Dashboards :
       /\ pass[k].at \in {"open", "pause", "tell"} => pass[k].cur # None
       /\ pass[k].at \notin {"idle", "budget"} => pass[k].todo \subseteq Conflict
  /\ DOMAIN state = Sessions /\ incident \in [Keys -> Sessions \cup {None}]

\* Who was stopped in this pass works only if a user has resumed it.
StoppedOnce ==
  \A k \in Dashboards : \A s \in pass[k].once : Working(s) => s \in resumed

\* The one that is to give way is about to be stopped by a dashboard that means
\* this one of the two, not the other.
PausedNext ==
  \A c \in Keys :
    incident[c] # None /\ Working(incident[c]) =>
      \/ incident[c] \in resumed \/ c \in cut
      \/ \E k \in Dashboards : /\ At(k, "pause") /\ Key(pass[k].cur) = c
                               /\ Paused(pass[k].cur) = incident[c]

EnforcedInv == Shape /\ StoppedOnce /\ PausedNext

LEMMA IdleIsPass ==
  /\ Idle \in Pass /\ Idle.at = "idle" /\ Idle.once = {} /\ Idle.cur = None
BY DEF Idle, Pass

(***************************************************************************)
(* What a step of a dashboard must and need not do.  The dashboard k goes  *)
(* on to q: it does not work on a session that it has stopped, and does    *)
(* not leave a session alone that it was to stop.                          *)
(***************************************************************************)
LEMMA DashboardStep ==
  ASSUME EnforcedInv, NEW k \in Dashboards, NEW q \in Pass,
         pass' = [pass EXCEPT ![k] = q],
         q.at \in {"open", "pause", "tell"} => q.cur # None,
         q.at \notin {"idle", "budget"} => q.todo \subseteq Conflict,
         DOMAIN state' = Sessions, UNCHANGED <<strategy, incident, resumed>>,
         \A s \in Sessions : Working(s)' => Working(s),
         cut \subseteq cut',
         \A s \in q.once : Working(s)' => s \in pass[k].once,
         At(k, "pause") =>
           \/ Key(pass[k].cur) \in cut'
           \/ \A s \in {Paused(pass[k].cur)} : Working(s)' => s \in resumed
  PROVE  EnforcedInv'
<1>1. Shape'
  BY DEF EnforcedInv, Shape
<1>2. StoppedOnce'
  <2>1. ASSUME NEW j \in Dashboards, NEW s \in pass'[j].once, Working(s)'
        PROVE  s \in resumed
    <3>1. s \in Sessions
      BY <1>1 DEF Shape, Pass
    <3>2. Working(s) /\ s \in pass[j].once
      BY <2>1, <3>1 DEF EnforcedInv, Shape
    <3>3. QED
      BY <3>2 DEF EnforcedInv, StoppedOnce
  <2>2. QED
    BY <2>1 DEF StoppedOnce
<1>3. PausedNext'
  <2>1. SUFFICES ASSUME NEW c \in Keys, incident[c] # None, Working(incident[c])',
                        incident[c] \notin resumed, c \notin cut'
                 PROVE  \E j \in Dashboards :
                          (/\ At(j, "pause") /\ Key(pass[j].cur) = c
                           /\ Paused(pass[j].cur) = incident[c])'
    BY DEF PausedNext
  <2>0. incident' = incident /\ \A s : (Working(s)' <=> state'[s] \in {"active", "stale"})
    BY DEF Working
  <2>2. Working(incident[c])
    BY <2>1 DEF EnforcedInv, Shape
  <2>3. PICK j \in Dashboards : /\ At(j, "pause") /\ Key(pass[j].cur) = c
                                /\ Paused(pass[j].cur) = incident[c]
    BY <2>1, <2>2 DEF EnforcedInv, PausedNext
  <2>4. j # k
    BY <2>0, <2>1, <2>3 DEF Working
  <2>5. pass'[j] = pass[j] /\ pass[j].at = "pause"
    BY <2>3, <2>4 DEF EnforcedInv, Shape, At
  <2>6. Paused(pass[j].cur)' = Paused(pass[j].cur) /\ Key(pass[j].cur)' = Key(pass[j].cur)
    BY <2>5 DEF Paused, Key
  <2>7. QED
    BY <2>3, <2>5, <2>6 DEF At
<1>4. QED
  BY <1>1, <1>2, <1>3 DEF EnforcedInv

LEMMA EnvironmentStep ==
  ASSUME EnforcedInv, UNCHANGED <<strategy, incident, pass, cut>>,
         DOMAIN state' = Sessions, resumed \subseteq resumed',
         \A s \in Sessions : Working(s)' => Working(s) \/ s \in resumed'
  PROVE  EnforcedInv'
<1>1. Shape'
  BY DEF EnforcedInv, Shape
<1>2. StoppedOnce'
  <2>1. \A k \in Dashboards : pass[k].once \subseteq Sessions
    BY DEF EnforcedInv, Shape, Pass
  <2>2. QED
    BY <2>1 DEF EnforcedInv, StoppedOnce
<1>3. PausedNext'
  <2>1. ASSUME NEW c \in Keys, incident[c] # None, Working(incident[c])',
               incident[c] \notin resumed', c \notin cut
        PROVE  \E j \in Dashboards : /\ At(j, "pause") /\ Key(pass[j].cur) = c
                                     /\ Paused(pass[j].cur) = incident[c]
    <3>1. incident[c] \in Sessions /\ incident' = incident
      BY <2>1 DEF EnforcedInv, Shape
    <3>2. Working(incident[c])
      BY <2>1, <3>1 DEF Working
    <3>3. QED
      BY <2>1, <3>2 DEF EnforcedInv, PausedNext
  <2>2. \A j \in Dashboards : /\ At(j, "pause")' = At(j, "pause")
                              /\ Key(pass[j].cur)' = Key(pass[j].cur)
                              /\ Paused(pass[j].cur)' = Paused(pass[j].cur)
    BY DEF At, Key, Paused
  <2>3. incident' = incident /\ cut' = cut
    OBVIOUS
  <2>4. QED
    BY <2>1, <2>2, <2>3 DEF PausedNext
<1>4. QED
  BY <1>1, <1>2, <1>3 DEF EnforcedInv

\* The incident is recorded and a dashboard is about to enforce it.
LEMMA UpsertStep ==
  ASSUME EnforcedInv, NEW k \in Dashboards, upsert_conflict_incident(k)
  PROVE  EnforcedInv'
<1> DEFINE p == pass[k] q == [p EXCEPT !.at = "pause"]
<1>1. /\ p \in Pass /\ p.at = "open" /\ p.cur \in Conflict /\ p.todo \subseteq Conflict
      /\ incident' = [incident EXCEPT ![Key(p.cur)] = Paused(p.cur)]
      /\ pass' = [pass EXCEPT ![k] = q]
      /\ UNCHANGED <<strategy, state, resumed, cut>>
  BY DEF upsert_conflict_incident, At, Go, history, EnforcedInv, Shape, Pass
<1>2. /\ q \in Pass /\ q.at = "pause" /\ q.cur = p.cur /\ q.once = p.once
      /\ q.todo = p.todo
  BY <1>1 DEF Pass
<1>3. Paused(p.cur) \in Sessions /\ p.cur # None
  BY <1>1, EnforcementAssumption DEF Paused, Conflict, EnforcementAssumption
<1> HIDE DEF p, q
<1>4. Shape'
  BY <1>1, <1>2, <1>3 DEF EnforcedInv, Shape, p
<1>5. StoppedOnce'
  <2>1. \A j \in Dashboards : pass'[j].once = pass[j].once
    BY <1>1, <1>2 DEF EnforcedInv, Shape, p
  <2>2. QED
    BY <2>1, <1>1 DEF EnforcedInv, StoppedOnce, Working
<1>6. PausedNext'
  <2>1. SUFFICES ASSUME NEW c \in Keys, incident'[c] # None, Working(incident[c])',
                        incident'[c] \notin resumed, c \notin cut
                 PROVE  \E j \in Dashboards :
                          (/\ At(j, "pause") /\ Key(pass[j].cur) = c
                           /\ Paused(pass[j].cur) = incident[c])'
    BY <1>1 DEF PausedNext
  <2>2. CASE c = Key(p.cur)
    <3>1. pass'[k] = q /\ incident'[c] = Paused(p.cur)
      BY <1>1, <2>2 DEF EnforcedInv, Shape
    <3>2. (At(k, "pause") /\ Key(pass[k].cur) = c /\ Paused(pass[k].cur) = incident[c])'
      BY <1>1, <1>2, <2>2, <3>1 DEF At, Key, Paused
    <3>3. QED
      BY <3>2
  <2>3. CASE c # Key(p.cur)
    <3>1. incident'[c] = incident[c]
      BY <1>1, <2>3 DEF EnforcedInv, Shape
    <3>2. Working(incident[c])
      BY <1>1, <2>1, <3>1 DEF Working
    <3>3. PICK j \in Dashboards : /\ At(j, "pause") /\ Key(pass[j].cur) = c
                                  /\ Paused(pass[j].cur) = incident[c]
      BY <2>1, <3>1, <3>2 DEF EnforcedInv, PausedNext
    <3>4. pass'[j] = pass[j]
      BY <1>1, <3>3 DEF EnforcedInv, Shape, At, p
    <3>5. (At(j, "pause") /\ Key(pass[j].cur) = c /\ Paused(pass[j].cur) = incident[c])'
      BY <1>1, <3>1, <3>3, <3>4 DEF At, Key, Paused
    <3>6. QED
      BY <3>5
  <2>4. QED
    BY <2>2, <2>3
<1>7. QED
  BY <1>4, <1>5, <1>6 DEF EnforcedInv

LEMMA PauseStep ==
  ASSUME EnforcedInv, NEW k \in Dashboards, Pause(k)
  PROVE  EnforcedInv'
<1> DEFINE p == pass[k] s == Paused(p.cur)
<1>1. /\ p \in Pass /\ p.at = "pause" /\ p.cur \in Conflict /\ p.todo \subseteq Conflict
      /\ p.cur # None /\ DOMAIN state = Sessions
      /\ UNCHANGED <<strategy, incident, resumed, cut>>
  BY DEF Pause, At, history, EnforcedInv, Shape, Pass
<1>2. s \in Sessions
  BY <1>1 DEF Paused, Conflict
<1>3. CASE s \in p.once
  <2> DEFINE q == [p EXCEPT !.at = "tell"]
  <2>1. state' = state /\ pass' = [pass EXCEPT ![k] = q]
    BY <1>3 DEF Pause, Go
  <2>2. q \in Pass /\ q.at = "tell" /\ q.cur = p.cur /\ q.once = p.once /\ q.todo = p.todo
    BY <1>1 DEF Pass
  <2>3. Working(s) => s \in resumed
    BY <1>3 DEF EnforcedInv, StoppedOnce
  <2>4. \A r : Working(r)' <=> Working(r)
    BY <2>1 DEF Working
  <2> HIDE DEF q
  <2>5. QED
    BY <1>1, <2>1, <2>2, <2>3, <2>4, DashboardStep
<1>4. CASE s \notin p.once /\ CanStop(s) /\ Stop(s)
           /\ Go(k, [p EXCEPT !.at = "tell", !.once = @ \cup {s}])
  <2> DEFINE q == [p EXCEPT !.at = "tell", !.once = @ \cup {s}]
  <2>1. state' = [state EXCEPT ![s] = "stopped"] /\ pass' = [pass EXCEPT ![k] = q]
    BY <1>4 DEF Go, Stop
  <2>2. /\ q \in Pass /\ q.at = "tell" /\ q.cur = p.cur /\ q.todo = p.todo
        /\ q.once = p.once \cup {s}
    BY <1>1, <1>2 DEF Pass
  <2>3. /\ \A r \in Sessions : Working(r)' => Working(r) /\ r # s
        /\ DOMAIN state' = Sessions
    BY <1>1, <1>2, <2>1 DEF Working
  <2> HIDE DEF q, s
  <2>4. \A r \in q.once : Working(r)' => r \in pass[k].once
    BY <1>1, <1>2, <2>2, <2>3 DEF Pass
  <2>5. \A r \in {Paused(pass[k].cur)} : Working(r)' => r \in resumed
    BY <1>2, <2>3 DEF s
  <2>6. QED
    BY <1>1, <2>1, <2>2, <2>3, <2>4, <2>5, DashboardStep
<1>5. CASE s \notin p.once /\ ~CanStop(s) /\ state' = state /\ Go(k, Idle)
  <2>1. pass' = [pass EXCEPT ![k] = Idle] /\ ~Working(s)
    BY <1>5 DEF Go, CanStop, Working
  <2>2. \A r : Working(r)' <=> Working(r)
    BY <1>5 DEF Working
  <2>3. QED
    BY <1>1, <1>5, <2>1, <2>2, IdleIsPass, DashboardStep
<1>6. QED
  BY <1>3, <1>4, <1>5 DEF Pause

\* Steps that stop nobody and leave no conflict that is to be enforced.
LEMMA OtherStep ==
  ASSUME EnforcedInv, NEW k \in Dashboards, NEW q \in Pass, ~At(k, "pause"),
         pass' = [pass EXCEPT ![k] = q],
         q.at \in {"open", "pause", "tell"} => q.cur # None,
         q.at \notin {"idle", "budget"} => q.todo \subseteq Conflict,
         q.once \subseteq pass[k].once,
         UNCHANGED <<strategy, state, incident, resumed, cut>>
  PROVE  EnforcedInv'
<1>1. \A r : Working(r)' <=> Working(r)
  BY DEF Working
<1>2. DOMAIN state' = Sessions
  BY DEF EnforcedInv, Shape
<1>3. QED
  BY <1>1, <1>2, DashboardStep

LEMMA QuietSteps ==
  ASSUME EnforcedInv, NEW k \in Dashboards,
         StartTick(k) \/ Look(k) \/ Check(k) \/ Tell(k) \/ EndTick(k)
  PROVE  EnforcedInv'
<1> DEFINE p == pass[k]
<1>1. p \in Pass /\ pass[k] = p
  BY DEF EnforcedInv, Shape
<1>2. UNCHANGED <<strategy, state, resumed, cut>> /\ incident' = incident /\ ~At(k, "pause")
  BY DEF StartTick, Look, Check, Tell, EndTick, At, history
<1>3. CASE StartTick(k)
  <2> DEFINE T == {s \in Sessions : OverBudget /\ state[s] = "active"}
             q == [Idle EXCEPT !.at = "budget", !.todo = T]
  <2>1. pass' = [pass EXCEPT ![k] = q]
    BY <1>3 DEF StartTick, Go
  <2>2. T \subseteq Sessions
    OBVIOUS
  <2> HIDE DEF T
  <2>3. q \in Pass /\ q.at = "budget" /\ q.once = {}
    BY <2>2, IdleIsPass DEF Pass
  <2> HIDE DEF q
  <2>4. QED
    BY <1>2, <2>1, <2>3, OtherStep
<1>4. CASE Look(k)
  <2> DEFINE q == [Idle EXCEPT !.at = "check", !.todo = Conflicts]
  <2>1. pass' = [pass EXCEPT ![k] = q]
    BY <1>4 DEF Look, Go
  <2>2. Conflicts \subseteq Conflict
    BY DEF Conflicts, Conflict
  <2>3. q \in Pass /\ q.at = "check" /\ q.once = {} /\ q.todo \subseteq Conflict
    BY <2>2, IdleIsPass DEF Pass
  <2> HIDE DEF q
  <2>4. QED
    BY <1>2, <2>1, <2>3, OtherStep
<1>5. CASE Check(k)
  <2>1. PICK c \in p.todo :
          LET r == [p EXCEPT !.todo = @ \ {c}] IN
          Go(k, IF incident[Key(c)] # None THEN r ELSE [r EXCEPT !.at = "open", !.cur = c])
    BY <1>5 DEF Check
  <2> DEFINE r == [p EXCEPT !.todo = @ \ {c}]
             q == [r EXCEPT !.at = "open", !.cur = c]
  <2>2. p.at = "check" /\ p.todo \subseteq Conflict /\ c \in Conflict
    BY <1>5 DEF Check, At, EnforcedInv, Shape
  <2>3. c # None
    BY <2>2, EnforcementAssumption DEF EnforcementAssumption, Conflict
  <2> HIDE DEF p
  <2>4. /\ r \in Pass /\ r.at = "check" /\ r.once = p.once /\ r.todo \subseteq Conflict
    BY <1>1, <2>2 DEF Pass
  <2>6. pass' = [pass EXCEPT ![k] = r] \/ pass' = [pass EXCEPT ![k] = q]
    BY <2>1 DEF Go
  <2> HIDE DEF r
  <2>5. /\ q \in Pass /\ q.at = "open" /\ q.cur = c /\ q.once = p.once
        /\ q.todo \subseteq Conflict
    BY <2>2, <2>4 DEF Pass
  <2> HIDE DEF q
  <2>7. CASE pass' = [pass EXCEPT ![k] = r]
    BY <1>1, <1>2, <2>4, <2>7, OtherStep
  <2>8. CASE pass' = [pass EXCEPT ![k] = q]
    BY <1>1, <1>2, <2>3, <2>5, <2>8, OtherStep
  <2>9. QED
    BY <2>6, <2>7, <2>8
<1>6. CASE Tell(k)
  <2> DEFINE q == [p EXCEPT !.at = "check", !.cur = None]
  <2>1. pass' = [pass EXCEPT ![k] = q] /\ p.todo \subseteq Conflict
    BY <1>6 DEF Tell, Go, At, EnforcedInv, Shape
  <2> HIDE DEF p
  <2>2. q \in Pass /\ q.at = "check" /\ q.once = p.once /\ q.todo \subseteq Conflict
    BY <1>1, <2>1 DEF Pass
  <2> HIDE DEF q
  <2>3. QED
    BY <1>1, <1>2, <2>1, <2>2, OtherStep
<1>7. CASE EndTick(k)
  <2>1. pass' = [pass EXCEPT ![k] = Idle]
    BY <1>7 DEF EndTick, Go
  <2>2. QED
    BY <1>2, <2>1, IdleIsPass, OtherStep
<1>8. QED
  BY <1>3, <1>4, <1>5, <1>6, <1>7

LEMMA BudgetStep ==
  ASSUME EnforcedInv, NEW k \in Dashboards, PauseForBudget(k)
  PROVE  EnforcedInv'
<1> DEFINE p == pass[k]
<1>1. /\ p \in Pass /\ p.at = "budget" /\ DOMAIN state = Sessions /\ pass[k] = p
      /\ UNCHANGED <<strategy, incident, resumed, cut>>
  BY DEF PauseForBudget, At, history, EnforcedInv, Shape
<1>2. PICK s \in p.todo :
        \/ CanStop(s) /\ Stop(s) /\ Go(k, [p EXCEPT !.todo = @ \ {s}])
        \/ ~CanStop(s) /\ state' = state /\ Go(k, [p EXCEPT !.todo = {}])
  BY DEF PauseForBudget
<1> DEFINE q == [p EXCEPT !.todo = @ \ {s}] r == [p EXCEPT !.todo = {}]
<1>3. /\ pass' = [pass EXCEPT ![k] = q] \/ pass' = [pass EXCEPT ![k] = r]
      /\ state' = [state EXCEPT ![s] = "stopped"] \/ state' = state
  BY <1>2 DEF Go, Stop
<1> HIDE DEF p
<1>4. q \in Pass /\ q.at = "budget" /\ q.once = p.once
  BY <1>1 DEF Pass
<1>5. r \in Pass /\ r.at = "budget" /\ r.once = p.once
  BY <1>1 DEF Pass
<1>6. DOMAIN state' = Sessions /\ \A t \in Sessions : Working(t)' => Working(t)
  BY <1>1, <1>3 DEF Working
<1>7. ~At(k, "pause")
  BY <1>1 DEF At
<1> HIDE DEF q, r
<1>8. CASE pass' = [pass EXCEPT ![k] = q]
  BY <1>1, <1>4, <1>6, <1>7, <1>8, DashboardStep
<1>9. CASE pass' = [pass EXCEPT ![k] = r]
  BY <1>1, <1>5, <1>6, <1>7, <1>9, DashboardStep
<1>10. QED
  BY <1>3, <1>8, <1>9

LEMMA FailStep ==
  ASSUME EnforcedInv, NEW k \in Dashboards, Fail(k)
  PROVE  EnforcedInv'
<1>1. /\ cut' = cut \cup {Key(c) : c \in {pass[k].cur} \ {None}}
      /\ pass' = [pass EXCEPT ![k] = Idle]
      /\ UNCHANGED <<strategy, state, incident, resumed>>
  BY DEF Fail, Go
<1>2. \A r : Working(r)' <=> Working(r)
  BY <1>1 DEF Working
<1>3. At(k, "pause") => Key(pass[k].cur) \in cut'
  BY <1>1 DEF At, EnforcedInv, Shape
<1>4. DOMAIN state' = Sessions /\ cut \subseteq cut'
  BY <1>1 DEF EnforcedInv, Shape
<1>5. QED
  BY <1>1, <1>2, <1>3, <1>4, IdleIsPass, DashboardStep

LEMMA EnforcedStep ==
  ASSUME EnforcedInv, [Next]_vars
  PROVE  EnforcedInv'
<1>d. DOMAIN state = Sessions
  BY DEF EnforcedInv, Shape
<1>1. ASSUME NEW s \in Sessions, NEW f \in Files, NEW how \in {"read", "write"}, Call(s, f, how)
      PROVE  EnforcedInv'
  BY <1>1, <1>d, EnvironmentStep DEF Call, history, Working
<1>2. ASSUME NEW s \in Sessions, NEW from, NEW to, Change(s, from, to),
             to \in {"active", "stale"} => from \subseteq {"active", "stale"}
      PROVE  EnforcedInv'
  <2>1. /\ DOMAIN state' = Sessions /\ \A r \in Sessions : Working(r)' => Working(r)
        /\ UNCHANGED <<strategy, incident, pass, cut, resumed>>
    BY <1>2, <1>d DEF Change, Working
  <2>2. QED
    BY <2>1, EnvironmentStep
<1>3. ASSUME NEW s \in Sessions, Resume(s) PROVE EnforcedInv'
  <2>1. /\ DOMAIN state' = Sessions /\ resumed \subseteq resumed'
        /\ \A r \in Sessions : Working(r)' => Working(r) \/ r \in resumed'
        /\ UNCHANGED <<strategy, incident, pass, cut>>
    BY <1>3, <1>d DEF Resume, Working
  <2>2. QED
    BY <2>1, EnvironmentStep
<1>4. CASE Environment
  <2>1. ASSUME NEW s \in Sessions,
               \/ Change(s, {"active", "stale"}, "ended") \/ Change(s, {"active"}, "stale")
               \/ Change(s, {"stale"}, "active")
               \/ Change(s, {"stale", "stopped", "ended"}, "deleted")
        PROVE  EnforcedInv'
    BY <2>1, <1>2
  <2>2. QED
    BY <1>1, <1>3, <1>4, <2>1, FailStep DEF Environment
<1>5. ASSUME NEW k \in Dashboards, Step(k) PROVE EnforcedInv'
  BY <1>5, QuietSteps, BudgetStep, UpsertStep, PauseStep DEF Step
<1>6. CASE UNCHANGED vars
  BY <1>6, <1>d, EnvironmentStep DEF vars, history, Working
<1>7. QED
  BY <1>4, <1>5, <1>6 DEF Next

LEMMA EnforcedInit == Init => EnforcedInv
<1> SUFFICES ASSUME Init PROVE EnforcedInv
  OBVIOUS
<1>1. pass = [k \in Dashboards |-> Idle]
  BY DEF Init
<1>2. Shape
  BY <1>1, IdleIsPass DEF Init, Shape
<1>3. StoppedOnce
  BY <1>1, IdleIsPass DEF StoppedOnce
<1>4. PausedNext
  BY DEF Init, PausedNext
<1>5. QED
  BY <1>2, <1>3, <1>4 DEF EnforcedInv

\* A conflict is reported once: the session that is to give way no longer works
\* (enforce_conflict_resolution), unless a user has resumed it or the dashboard
\* that was about to stop it could not finish, for any number of dashboards
\* that look at the same conflicts.
THEOREM ConflictsAreEnforced == Spec => []IncidentsAreEnforced
<1>1. EnforcedInv => IncidentsAreEnforced
  BY DEF EnforcedInv, PausedNext, IncidentsAreEnforced
<1>2. EnforcedInv /\ [Next]_vars => EnforcedInv'
  BY EnforcedStep
<1>3. QED
  BY EnforcedInit, <1>1, <1>2, PTL DEF Spec

(***************************************************************************)
(* Type correctness: a conflict that is handled is one of two sessions.    *)
(***************************************************************************)
Handled == {c \in Conflict : c.latest # c.other}

HandledOnly ==
  \A k \in Dashboards :
    /\ pass[k].cur \in Handled \cup {None}
    /\ pass[k].at \notin {"idle", "budget"} => pass[k].todo \subseteq Handled

TypeInv == EnforcedInv /\ HandledOnly /\ TypeOK

LEMMA HandledKey ==
  ASSUME NEW c \in Handled
  PROVE  Key(c) \in Keys /\ Paused(c) \in Key(c)[2] /\ Paused(c) \in Sessions
<1>1. c.file \in Files /\ c.latest \in Sessions /\ c.other \in Sessions /\ c.latest # c.other
  BY DEF Handled, Conflict
<1>2. Cardinality({c.latest, c.other}) = 2
  <2>1. IsFiniteSet({c.latest}) /\ Cardinality({c.latest}) = 1
    BY FS_Singleton
  <2>2. Cardinality({c.latest} \cup {c.other}) = 2
    <3>1. c.other \notin {c.latest}
      BY <1>1
    <3>2. Cardinality({c.latest} \cup {c.other}) = Cardinality({c.latest}) + 1
      BY <2>1, <3>1, FS_AddElement, Zenon
    <3>3. QED
      BY <2>1, <3>2
  <2>3. {c.latest} \cup {c.other} = {c.latest, c.other}
    OBVIOUS
  <2>4. QED
    BY <2>2, <2>3
<1>3. QED
  BY <1>1, <1>2 DEF Key, Keys, Paused

LEMMA ConflictsAreHandled == Conflicts \subseteq Handled
BY DEF Conflicts, Handled, Conflict

\* A dashboard goes on to q.
LEMMA HandledGo ==
  ASSUME TypeInv, NEW k \in Dashboards, NEW q, Go(k, q),
         q.cur \in Handled \cup {None},
         q.at \notin {"idle", "budget"} => q.todo \subseteq Handled
  PROVE  HandledOnly'
BY DEF TypeInv, EnforcedInv, Shape, HandledOnly, Go

LEMMA HandledStep ==
  ASSUME TypeInv, NEW k \in Dashboards, Step(k)
  PROVE  HandledOnly'
<1> DEFINE p == pass[k]
<1>1. /\ p \in Pass /\ p.cur \in Handled \cup {None}
      /\ p.at \notin {"idle", "budget"} => p.todo \subseteq Handled
  BY DEF TypeInv, EnforcedInv, Shape, HandledOnly
<1>2. Idle.cur = None /\ Idle.at = "idle"
  BY DEF Idle
<1>3. CASE StartTick(k)
  <2> DEFINE q(T) == [Idle EXCEPT !.at = "budget", !.todo = T]
  <2>1. \E T : Go(k, q(T))
    BY <1>3 DEF StartTick
  <2>2. \A T : q(T).cur = None /\ q(T).at = "budget"
    BY DEF Idle
  <2> HIDE DEF q
  <2>3. QED
    BY <2>1, <2>2, HandledGo
<1>4. CASE PauseForBudget(k)
  <2> DEFINE q(T) == [p EXCEPT !.todo = T]
  <2>1. (\E T : Go(k, q(T))) /\ p.at = "budget"
    BY <1>4 DEF PauseForBudget, At
  <2> HIDE DEF p
  <2>2. \A T : q(T).cur = p.cur /\ q(T).at = p.at
    BY <1>1 DEF Pass
  <2> HIDE DEF q
  <2>3. QED
    BY <1>1, <2>1, <2>2, HandledGo
<1>5. CASE Look(k)
  <2> DEFINE q == [Idle EXCEPT !.at = "check", !.todo = Conflicts]
  <2>1. Go(k, q)
    BY <1>5 DEF Look
  <2>2. q.cur = None /\ q.todo = Conflicts
    BY DEF Idle
  <2> HIDE DEF q
  <2>3. QED
    BY <2>1, <2>2, ConflictsAreHandled, HandledGo
<1>6. CASE Check(k)
  <2>1. PICK c \in p.todo :
          LET r == [p EXCEPT !.todo = @ \ {c}] IN
          Go(k, r) \/ Go(k, [r EXCEPT !.at = "open", !.cur = c])
    BY <1>6 DEF Check
  <2> DEFINE r == [p EXCEPT !.todo = @ \ {c}] q == [r EXCEPT !.at = "open", !.cur = c]
  <2>2. (Go(k, r) \/ Go(k, q)) /\ p.at = "check"
    BY <2>1, <1>6 DEF Check, At
  <2> HIDE DEF p
  <2>3. c \in Handled /\ r \in Pass /\ r.cur = p.cur /\ r.todo \subseteq Handled
    BY <1>1, <2>2 DEF Pass
  <2> HIDE DEF r
  <2>4. q.cur = c /\ q.todo = r.todo
    BY <2>3 DEF Pass
  <2> HIDE DEF q
  <2>5. QED
    BY <1>1, <2>2, <2>3, <2>4, HandledGo
<1>7. CASE upsert_conflict_incident(k)
  <2> DEFINE q == [p EXCEPT !.at = "pause"]
  <2>1. Go(k, q) /\ p.at = "open"
    BY <1>7 DEF upsert_conflict_incident, At
  <2> HIDE DEF p
  <2>2. q.cur = p.cur /\ q.todo = p.todo
    BY <1>1 DEF Pass
  <2> HIDE DEF q
  <2>3. QED
    BY <1>1, <2>1, <2>2, HandledGo
<1>8. CASE Pause(k)
  <2> DEFINE q(T) == [p EXCEPT !.at = "tell", !.once = T]
             r == [p EXCEPT !.at = "tell"]
  <2>1. (Go(k, Idle) \/ Go(k, r) \/ \E T : Go(k, q(T))) /\ p.at = "pause"
    BY <1>8 DEF Pause, At
  <2> HIDE DEF p
  <2>2. r.cur = p.cur /\ r.todo = p.todo /\ \A T : q(T).cur = p.cur /\ q(T).todo = p.todo
    BY <1>1 DEF Pass
  <2> HIDE DEF q, r
  <2>3. QED
    BY <1>1, <1>2, <2>1, <2>2, HandledGo
<1>9. CASE Tell(k)
  <2> DEFINE q == [p EXCEPT !.at = "check", !.cur = None]
  <2>1. Go(k, q) /\ p.at = "tell"
    BY <1>9 DEF Tell, At
  <2> HIDE DEF p
  <2>2. q.cur = None /\ q.todo = p.todo
    BY <1>1 DEF Pass
  <2> HIDE DEF q
  <2>3. QED
    BY <1>1, <2>1, <2>2, HandledGo
<1>10. CASE EndTick(k)
  BY <1>2, <1>10, HandledGo DEF EndTick
<1>11. QED
  BY <1>3, <1>4, <1>5, <1>6, <1>7, <1>8, <1>9, <1>10 DEF Step

Rows == [Sessions -> {"active", "stale", "stopped", "ended", "deleted"}]

LEMMA EnvironmentTypes ==
  ASSUME TypeInv, Environment
  PROVE  HandledOnly' /\ TypeOK'
<1>1. ASSUME NEW s \in Sessions, NEW f \in Files, NEW how \in {"read", "write"}, Call(s, f, how)
      PROVE  HandledOnly' /\ TypeOK'
  <2>1. log' \in Seq([who : Sessions, file : Files, how : {"read", "write"}])
    BY <1>1 DEF Call, TypeInv, TypeOK
  <2>2. QED
    BY <1>1, <2>1 DEF Call, history, TypeInv, TypeOK, HandledOnly
<1>2. ASSUME NEW s \in Sessions, NEW from, NEW to \in {"ended", "stale", "active", "deleted"},
             Change(s, from, to)
      PROVE  HandledOnly' /\ TypeOK'
  <2>1. turns' \in 0..MaxTurns
    BY <1>2, EnforcementAssumption DEF Change, Turn, TypeInv, TypeOK, EnforcementAssumption
  <2>2. state' \in Rows
    BY <1>2 DEF Change, TypeInv, TypeOK, Rows
  <2>3. QED
    BY <1>2, <2>1, <2>2 DEF Change, TypeInv, TypeOK, HandledOnly, Rows
<1>3. ASSUME NEW s \in Sessions, Resume(s) PROVE HandledOnly' /\ TypeOK'
  <2>1. turns' \in 0..MaxTurns
    BY <1>3, EnforcementAssumption DEF Resume, Turn, TypeInv, TypeOK, EnforcementAssumption
  <2>2. state' \in Rows
    BY <1>3 DEF Resume, TypeInv, TypeOK, Rows
  <2>3. QED
    BY <1>3, <2>1, <2>2 DEF Resume, TypeInv, TypeOK, HandledOnly, Rows
<1>4. ASSUME NEW k \in Dashboards, Fail(k) PROVE HandledOnly' /\ TypeOK'
  <2>1. HandledOnly'
    <3>1. Idle.cur = None /\ Idle.at = "idle" /\ Go(k, Idle)
      BY <1>4 DEF Idle, Fail
    <3>2. QED
      BY <3>1, HandledGo
  <2>2. turns' \in 0..MaxTurns
    BY <1>4, EnforcementAssumption DEF Fail, Turn, TypeInv, TypeOK, EnforcementAssumption
  <2>3. \A c \in {pass[k].cur} \ {None} : Key(c) \in Keys
    BY HandledKey DEF TypeInv, HandledOnly
  <2>4. cut' \subseteq Keys
    BY <1>4, <2>3 DEF Fail, TypeInv, TypeOK
  <2>5. QED
    BY <1>4, <2>1, <2>2, <2>4 DEF Fail, TypeInv, TypeOK
<1>5. QED
  BY <1>1, <1>2, <1>3, <1>4 DEF Environment

LEMMA DashboardTypes ==
  ASSUME TypeInv, NEW k \in Dashboards, Step(k)
  PROVE  TypeOK'
<1>1. pass[k].at \in {"open", "pause", "tell"} => pass[k].cur \in Handled
  BY DEF TypeInv, EnforcedInv, Shape, HandledOnly
<1>2. CASE UNCHANGED <<strategy, state, log, incident, told, history>>
  BY <1>2 DEF TypeInv, TypeOK, history
<1>3. CASE upsert_conflict_incident(k)
  <2> DEFINE c == pass[k].cur
  <2>1. /\ Key(c) \in Keys /\ Paused(c) \in Key(c)[2] /\ Paused(c) \in Sessions
        /\ incident' = [incident EXCEPT ![Key(c)] = Paused(c)]
    BY <1>1, <1>3, HandledKey DEF upsert_conflict_incident, At
  <2> HIDE DEF c
  <2>2. incident' \in [Keys -> Sessions \cup {None}]
    BY <2>1 DEF TypeInv, TypeOK
  <2>3. \A d \in Keys : incident'[d] # None => incident'[d] \in d[2]
    BY <2>1 DEF TypeInv, TypeOK
  <2>4. QED
    BY <1>3, <2>2, <2>3 DEF upsert_conflict_incident, TypeInv, TypeOK, history
<1>4. CASE Tell(k)
  <2>1. /\ Key(pass[k].cur) \in Keys /\ Paused(pass[k].cur) \in Key(pass[k].cur)[2]
        /\ told' = told \cup {<<Key(pass[k].cur), Paused(pass[k].cur)>>}
    BY <1>1, <1>4, HandledKey DEF Tell, At
  <2>2. QED
    BY <1>4, <2>1 DEF Tell, TypeInv, TypeOK, history
<1>5. CASE PauseForBudget(k) \/ Pause(k)
  <2>1. state' = state \/ \E s : state' = [state EXCEPT ![s] = "stopped"]
    BY <1>5 DEF PauseForBudget, Pause, Stop
  <2>2. state' \in Rows
    BY <2>1 DEF TypeInv, TypeOK, Rows
  <2>3. QED
    BY <1>5, <2>2 DEF PauseForBudget, Pause, TypeInv, TypeOK, Rows, history
<1>6. QED
  BY <1>2, <1>3, <1>4, <1>5 DEF Step, StartTick, Look, Check, EndTick

LEMMA TypeStep ==
  ASSUME TypeInv, [Next]_vars
  PROVE  TypeInv'
<1>1. EnforcedInv'
  BY EnforcedStep DEF TypeInv
<1>2. CASE UNCHANGED vars
  BY <1>1, <1>2 DEF vars, history, TypeInv, TypeOK, HandledOnly
<1>3. CASE Next
  BY <1>1, <1>3, EnvironmentTypes, HandledStep, DashboardTypes DEF Next, TypeInv
<1>4. QED
  BY <1>2, <1>3

LEMMA TypeInit == Init => TypeInv
<1> SUFFICES ASSUME Init PROVE TypeInv
  OBVIOUS
<1>1. EnforcedInv
  BY EnforcedInit
<1>2. HandledOnly
  BY DEF Init, HandledOnly, Idle
<1>3. log \in Seq([who : Sessions, file : Files, how : {"read", "write"}])
  BY EnforcementAssumption DEF Init, EnforcementAssumption
<1>4. TypeOK
  BY <1>3, EnforcementAssumption DEF Init, TypeOK, EnforcementAssumption
<1>5. QED
  BY <1>1, <1>2, <1>4 DEF TypeInv

\* Type correctness of the enforcement: an incident is of two sessions and a
\* file, and it is one of the two that is to give way and is told so, for any
\* number of dashboards.
THEOREM EnforcementTypeCorrect == Spec => []TypeOK
<1>1. TypeInv => TypeOK
  BY DEF TypeInv
<1>2. TypeInv /\ [Next]_vars => TypeInv'
  BY TypeStep
<1>3. QED
  BY TypeInit, <1>1, <1>2, PTL DEF Spec
=============================================================================
