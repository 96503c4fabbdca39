----------------------------- MODULE Enforcement -----------------------------
(***************************************************************************)
(* What a dashboard of ecc2 enforces in every tick: sessions are stopped   *)
(* when the token budget is used up, and when they have written to the     *)
(* same file.  Dashboards share the database of sessions, logged tool      *)
(* calls and conflict incidents.  Stopping a session takes more than a     *)
(* second, and meanwhile the agents, the users and the other dashboards go *)
(* on.                                                                     *)
(*                                                                         *)
(* A logged tool call costs one token and touches one file.  Of the calls  *)
(* of a session only the last few are looked at.  The runner behind a      *)
(* session is in SessionLifecycle.                                         *)
(***************************************************************************)
EXTENDS Naturals, Sequences, FiniteSets

CONSTANTS
  Sessions,
  Files,
  Dashboards,
  None,
  Strategies, \* what cfg.conflict_resolution.strategy may be
  Budget,     \* cfg.token_budget
  Window,     \* how many file events of a session are listed: 64
  Logs,       \* what may have been logged before
  MaxCalls,   \* bound: logged tool calls
  MaxTurns    \* bound: sessions ended, resumed, gone stale, deleted by others,
              \* and dashboards that fail

ASSUME EnforcementAssumption ==
  /\ Strategies \subseteq {"escalate", "last_write_wins", "merge"}
  /\ Budget \in Nat /\ Window \in Nat /\ MaxCalls \in Nat /\ MaxTurns \in Nat
  /\ None \notin Sessions \cup [file : Files, latest : Sessions, other : Sessions]
  /\ \A h \in Logs : h \in Seq([who : Sessions, file : Files, how : {"read", "write"}])

VARIABLES
  strategy,
  state,    \* a row: "active", "stale", "stopped", "ended" or "deleted"
  log,      \* the tool calls, in order of time
  incident, \* of two sessions and a file: the session to be paused, or None
  told,     \* the conflict messages sent: to whom, over which incident
  pass,     \* what each dashboard is doing
  turns,    \* history: turns so far
  resumed,  \* history: sessions resumed
  cut       \* history: incidents whose handling was cut off

history == <<turns, resumed, cut>>
vars == <<strategy, state, log, incident, told, pass, history>>

Keys == {<<f, P>> : f \in Files, P \in {Q \in SUBSET Sessions : Cardinality(Q) = 2}}

Idle ==
  [at |-> "idle",
   todo |-> {},  \* sessions to be stopped, or conflicts to be looked at
   once |-> {},  \* sessions stopped in this pass over the conflicts
   cur |-> None] \* the conflict being handled

Init ==
  /\ strategy \in Strategies
  /\ state = [s \in Sessions |-> "active"]
  /\ log \in Logs
  /\ incident = [c \in Keys |-> None]
  /\ told = {}
  /\ pass = [k \in Dashboards |-> Idle]
  /\ turns = 0 /\ resumed = {} /\ cut = {}

Go(k, p) == pass' = [pass EXCEPT ![k] = p]
At(k, l) == pass[k].at = l
Turn == turns < MaxTurns /\ turns' = turns + 1

(***************************************************************************)
(* Agents and users.                                                       *)
(***************************************************************************)
Call(s, f, how) ==
  /\ state[s] \in {"active", "stale"} /\ Len(log) < MaxCalls
  /\ log' = Append(log, [who |-> s, file |-> f, how |-> how])
  /\ UNCHANGED <<strategy, state, incident, told, pass, history>>

\* A session ends or is stopped, loses its heartbeat or has it again.
Change(s, from, to) ==
  /\ state[s] \in from /\ Turn
  /\ state' = [state EXCEPT ![s] = to]
  /\ UNCHANGED <<strategy, log, incident, told, pass, resumed, cut>>

Resume(s) ==
  /\ state[s] \in {"stopped", "ended"} /\ Turn
  /\ state' = [state EXCEPT ![s] = "active"]
  /\ resumed' = resumed \cup {s}
  /\ UNCHANGED <<strategy, log, incident, told, pass, cut>>

(***************************************************************************)
(* enforce_budget_hard_limits.                                             *)
(***************************************************************************)
OverBudget ==
  /\ Budget > 0
  /\ Cardinality({i \in 1..Len(log) : state[log[i].who] # "deleted"}) >= Budget

\* A stale session is left alone.
StartTick(k) ==
  /\ At(k, "idle")
  /\ Go(k, [Idle EXCEPT !.at = "budget",
              !.todo = {s \in Sessions : OverBudget /\ state[s] = "active"}])
  /\ UNCHANGED <<strategy, state, log, incident, told, history>>

\* stop_session_recorded: a session that has ended by itself is not stopped any
\* more, and that is an error.
CanStop(s) == state[s] \in {"active", "stale", "stopped"}

Stop(s) == state' = [state EXCEPT ![s] = "stopped"]

\* The pass over the budget ends with the first error.
PauseForBudget(k) ==
  LET p == pass[k] IN
  /\ At(k, "budget")
  /\ \E s \in p.todo :
       \/ CanStop(s) /\ Stop(s) /\ Go(k, [p EXCEPT !.todo = @ \ {s}])
       \/ ~CanStop(s) /\ state' = state /\ Go(k, [p EXCEPT !.todo = {}])
  /\ UNCHANGED <<strategy, log, incident, told, history>>

(***************************************************************************)
(* enforce_conflict_resolution.                                            *)
(***************************************************************************)
\* list_file_activity: a session's calls, the last ones only ...
Listed(s) == {i \in 1..Len(log) : /\ log[i].who = s
                                  /\ Cardinality({j \in i..Len(log) : log[j].who = s}) <= Window}
\* ... and of those the last on the file, if there is one.
LastCall(s, f) == {i \in Listed(s) : /\ log[i].file = f
                                     /\ \A j \in Listed(s) : j > i => log[j].file # f}
\* The sessions at work whose last call on the file was not a read.
Writers(f) ==
  {s \in Sessions : /\ state[s] \in {"active", "stale"}
                    /\ \E i \in LastCall(s, f) : log[i].how = "write"}
Later(s, r, f) == \E i \in LastCall(s, f), j \in LastCall(r, f) : i > j

\* Mutant: stale sessions are left alone, as with the budget.
ConflictsOfActive ==
  {c \in [file : Files, latest : Sessions, other : Sessions] :
     /\ c.latest \in Writers(c.file) /\ state[c.latest] = "active"
     /\ c.other \in Writers(c.file) \ {c.latest} /\ state[c.other] = "active"
     /\ \A r \in Writers(c.file) \ {c.latest} : Later(c.latest, r, c.file)}

\* The last to write, against each of the others.
Conflicts ==
  {c \in [file : Files, latest : Sessions, other : Sessions] :
     /\ c.latest \in Writers(c.file)
     /\ c.other \in Writers(c.file) \ {c.latest}
     /\ \A r \in Writers(c.file) \ {c.latest} : Later(c.latest, r, c.file)}
Key(c) == <<c.file, {c.latest, c.other}>>

\* choose_conflict_resolution.
Paused(c) == IF strategy = "last_write_wins" THEN c.other ELSE c.latest

\* Sessions and their activity are read once for the whole pass.
Look(k) ==
  /\ At(k, "budget") /\ pass[k].todo = {}
  /\ Go(k, [Idle EXCEPT !.at = "check", !.todo = Conflicts])
  /\ UNCHANGED <<strategy, state, log, incident, told, history>>

Check(k) ==
  LET p == pass[k] IN
  /\ At(k, "check")
  /\ \E c \in p.todo :
       LET q == [p EXCEPT !.todo = @ \ {c}] IN
       Go(k, IF incident[Key(c)] # None THEN q ELSE [q EXCEPT !.at = "open", !.cur = c])
  /\ UNCHANGED <<strategy, state, log, incident, told, history>>

upsert_conflict_incident(k) ==
  LET p == pass[k] IN
  /\ At(k, "open")
  /\ incident' = [incident EXCEPT ![Key(p.cur)] = Paused(p.cur)]
  /\ Go(k, [p EXCEPT !.at = "pause"])
  /\ UNCHANGED <<strategy, state, log, told, history>>

\* Mutant: one session is stopped in a pass.
PauseOnce(k) ==
  LET p == pass[k] s == Paused(p.cur) IN
  /\ At(k, "pause")
  /\ \/ p.once # {} /\ state' = state /\ Go(k, [p EXCEPT !.at = "tell"])
     \/ /\ p.once = {}
        /\ \/ CanStop(s) /\ Stop(s) /\ Go(k, [p EXCEPT !.at = "tell", !.once = @ \cup {s}])
           \/ ~CanStop(s) /\ state' = state /\ Go(k, Idle)
  /\ UNCHANGED <<strategy, log, incident, told, history>>

\* stop_session_recorded, once for each session that is to give way.
Pause(k) ==
  LET p == pass[k] s == Paused(p.cur) IN
  /\ At(k, "pause")
  /\ \/ s \in p.once /\ state' = state /\ Go(k, [p EXCEPT !.at = "tell"])
     \/ /\ s \notin p.once
        /\ \/ CanStop(s) /\ Stop(s) /\ Go(k, [p EXCEPT !.at = "tell", !.once = @ \cup {s}])
           \/ ~CanStop(s) /\ state' = state /\ Go(k, Idle)
  /\ UNCHANGED <<strategy, log, incident, told, history>>

\* comms::send to the session that was paused, and the decision log.
Tell(k) ==
  LET p == pass[k] IN
  /\ At(k, "tell")
  /\ told' = told \cup {<<Key(p.cur), Paused(p.cur)>>}
  /\ Go(k, [p EXCEPT !.at = "check", !.cur = None])
  /\ UNCHANGED <<strategy, state, log, incident, history>>

EndTick(k) ==
  /\ At(k, "check") /\ pass[k].todo = {}
  /\ Go(k, Idle)
  /\ UNCHANGED <<strategy, state, log, incident, told, history>>

\* An error of the database or of kill, or the dashboard is closed.
Fail(k) ==
  /\ ~At(k, "idle") /\ Turn
  /\ cut' = cut \cup {Key(c) : c \in {pass[k].cur} \ {None}}
  /\ Go(k, Idle)
  /\ UNCHANGED <<strategy, state, log, incident, told, resumed>>

Step(k) ==
  \/ StartTick(k) \/ PauseForBudget(k) \/ Look(k) \/ Check(k)
  \/ upsert_conflict_incident(k) \/ Pause(k) \/ Tell(k) \/ EndTick(k)

Environment ==
  \/ \E s \in Sessions :
       \/ \E f \in Files, how \in {"read", "write"} : Call(s, f, how)
       \/ Change(s, {"active", "stale"}, "ended") \/ Change(s, {"active"}, "stale")
       \/ Change(s, {"stale"}, "active")
       \/ Change(s, {"stale", "stopped", "ended"}, "deleted")
       \/ Resume(s)
  \/ \E k \in Dashboards : Fail(k)

Next == Environment \/ \E k \in Dashboards : Step(k)

Spec == Init /\ [][Next]_vars

\* The dashboards that are open go on ticking.
FairSpec == Spec /\ \A k \in Dashboards : WF_vars(Step(k))

(***************************************************************************)
(* Properties.                                                             *)
(***************************************************************************)
TypeOK ==
  /\ strategy \in Strategies
  /\ state \in [Sessions -> {"active", "stale", "stopped", "ended", "deleted"}]
  /\ log \in Seq([who : Sessions, file : Files, how : {"read", "write"}])
  /\ incident \in [Keys -> Sessions \cup {None}]
  /\ \A c \in Keys : incident[c] # None => incident[c] \in c[2]
  /\ \A m \in told : m[1] \in Keys /\ m[2] \in m[1][2]
  /\ turns \in 0..MaxTurns /\ resumed \subseteq Sessions /\ cut \subseteq Keys

Working(s) == state[s] \in {"active", "stale"}

\* Two sessions are told to be in conflict only once, so the one that is to
\* give way must not go on: it no longer works, unless a user has resumed it or
\* the dashboard that was about to stop it could not finish.
IncidentsAreEnforced ==
  \A c \in Keys :
    incident[c] # None /\ Working(incident[c]) =>
      \/ incident[c] \in resumed \/ c \in cut
      \/ \E k \in Dashboards : At(k, "pause") /\ Key(pass[k].cur) = c

\* The session works, and of all its calls on the file the last was a write.
Wrote(s, f) ==
  /\ Working(s)
  /\ \E i \in 1..Len(log) :
       /\ log[i] = [who |-> s, file |-> f, how |-> "write"]
       /\ \A j \in (i + 1)..Len(log) : ~(log[j].who = s /\ log[j].file = f)
\* It has touched other files so often since that the write is not listed.
OutOfSight(s, f) == \A i \in Listed(s) : log[i].file # f

\* What is to be enforced is enforced some time: nobody but a stale session
\* works on when the budget is used up, and of two sessions that have written
\* to one file one is told to stop, unless one of them gives its write up or it
\* drops off the list of that session's last calls before anybody looks.
NothingIsOverlooked ==
  /\ \A s \in Sessions :
       OverBudget /\ state[s] = "active" ~> ~OverBudget \/ state[s] # "active"
  /\ \A c \in Keys :
       (\A s \in c[2] : Wrote(s, c[1])) /\ incident[c] = None
         ~> \/ incident[c] # None
            \/ \E s \in c[2] : ~Wrote(s, c[1]) \/ OutOfSight(s, c[1])
=============================================================================
