----------------------------- MODULE TaskRouting -----------------------------
(***************************************************************************)
(* From a task to the session that works on it (ecc2).  A task arrives as  *)
(* an unread task_handoff message, as a remote dispatch request, as a due  *)
(* schedule or from `ecc assign`.  assign_session gives it to a lead's     *)
(* team: a new delegate while the team is below max_parallel_sessions, a   *)
(* busy delegate without a backlog otherwise, and else nobody.  Passes of  *)
(* the daemon, the command line and the dashboard do this for many leads,  *)
(* each in its own process over one SQLite file.                           *)
(*                                                                         *)
(* Idle, the state of a session no production code ever sets, is left out  *)
(* with its branches; all sessions use one harness; priorities and the     *)
(* match with the context graph only order messages and delegates, so      *)
(* that order is arbitrary here.  What a new session needs to start is in  *)
(* WorktreeQueue.                                                          *)
(***************************************************************************)
EXTENDS Naturals, Sequences, FiniteSets

CONSTANTS
  Sessions,   \* session ids
  Started,    \* the sessions that are active at the start
  Backlog,    \* the handoffs that are unread at the start
  Tasks,      \* tasks; an occurrence of a schedule is one
  Coordinators, \* processes that run passes
  None,       \* no session, no task
  MaxTeam,    \* cfg.max_parallel_sessions
  Limit,      \* cfg.auto_dispatch_limit_per_session
  LeadLimit,  \* how many leads, requests or occurrences a pass visits
  Arrivals,   \* the ways tasks arrive
  Contacts,   \* bound: who hands off to whom by hand
  Passes,     \* the passes each coordinator starts
  MaxSent,    \* bound: messages ever sent
  MaxPasses,  \* bound: passes and cycles ever begun
  MaxMishaps  \* bound: inboxes viewed, sessions ended, schedules dropped, passes
              \* that crash or cannot start a session

ASSUME RoutingAssumption ==
  /\ MaxTeam \in Nat /\ Limit \in Nat /\ LeadLimit \in Nat
  /\ MaxSent \in Nat /\ MaxPasses \in Nat /\ MaxMishaps \in Nat
  /\ Started \subseteq Sessions
  /\ Backlog \in Seq([from : Sessions, to : Sessions, task : Tasks])
  /\ \A i \in 1..Len(Backlog) : Backlog[i].to \in Started
  /\ Len(Backlog) <= MaxSent
  /\ None \notin Sessions \cup Tasks
  /\ Arrivals \in [Tasks -> SUBSET {"handoff", "assign", "pending", "due"}]

VARIABLES
  state,    \* a session's row: "none", "active", "ended", "deleting" (its messages
            \* are deleted) or "deleted"
  work,     \* the task a session was started with
  parent,   \* the lead it was spawned for
  sent,     \* messages ever sent, in the order of their ids
  stored,   \* the ids of those in the table
  unread,   \* the ids of those not read
  origin,   \* how a task arrived, and its status as a request or occurrence
  target,   \* the session a remote request names
  pass,     \* the pass of each coordinator
  begun,    \* history: passes and cycles begun
  mishaps,  \* history: mishaps so far
  viewed,   \* history: tasks in inboxes a user has viewed
  erased,   \* history: tasks of unread handoffs deleted with a session
  refused,  \* history: tasks `ecc assign` turned down
  mislaid,  \* history: tasks a rebalance took from a delegate and gave nobody
  cut,      \* history: tasks whose routing was cut off
  raced,    \* history: two passes were at work at one time, or a user handed
            \* off between a pass's look at the team and its assignment
  times,    \* history: how often a message was passed on
  ran       \* history: how often a task was passed on from its arrival

rows == <<state, work, parent>>
mail == <<sent, stored, unread>>
arrived == <<origin, target>>
history == <<begun, mishaps, viewed, erased, refused, mislaid, cut, raced, times, ran>>
vars == <<rows, mail, arrived, pass, history>>

Messages == 1..MaxSent
Least(a, b) == IF a < b THEN a ELSE b
\* The first n of a set whose order is left open.
Pick(S, n) == {T \in SUBSET S : Cardinality(T) = Least(n, Cardinality(S))}

NoPass ==
  [job |-> "none",   \* the kind of pass
   more |-> FALSE,   \* a rebalance follows
   at |-> "idle",
   leads |-> {},     \* leads, requests or occurrences still to be visited
   team |-> {},      \* delegates of the current lead still to be relieved
   batch |-> {},     \* messages still to be routed
   left |-> 0,       \* how many more may be moved away for this lead
   lead |-> None,    \* the lead whose team gets the task
   msg |-> 0,        \* the message being routed
   task |-> None,    \* the task being routed
   to |-> None]      \* the session it goes to, the lead when it is deferred

Init ==
  /\ state = [s \in Sessions |-> IF s \in Started THEN "active" ELSE "none"]
  /\ work = [s \in Sessions |-> None]
  /\ parent = [s \in Sessions |-> None]
  /\ sent = Backlog /\ stored = 1..Len(Backlog) /\ unread = 1..Len(Backlog)
  /\ origin = [t \in Tasks |-> IF \E i \in 1..Len(Backlog) : Backlog[i].task = t
                              THEN "handoff" ELSE "none"]
  /\ target = [t \in Tasks |-> None]
  /\ pass = [k \in Coordinators |-> NoPass]
  /\ begun = 0 /\ mishaps = 0
  /\ viewed = {} /\ erased = {} /\ refused = {} /\ mislaid = {} /\ cut = {}
  /\ raced = FALSE
  /\ times = [m \in Messages |-> 0]
  /\ ran = [t \in Tasks |-> 0]

Present(s) == state[s] \in {"active", "ended", "deleting"}
UnreadOf(s) == {m \in unread : sent[m].to = s}
\* unread_task_handoff_targets.
Targets == {sent[m].to : m \in unread}
\* direct_delegate_sessions: active sessions the lead has handed a task to.
Delegates(l) ==
  {s \in Sessions : /\ state[s] = "active"
                    /\ \E m \in stored : sent[m].from = l /\ sent[m].to = s}
HasCapacity(l) == Cardinality(Delegates(l)) < MaxTeam

Message(f, t, w) == [from |-> f, to |-> t, task |-> w]
Post(m) ==
  /\ Len(sent) < MaxSent
  /\ sent' = Append(sent, m)
  /\ stored' = stored \cup {Len(sent) + 1}
  /\ unread' = unread \cup {Len(sent) + 1}

Mishap == mishaps < MaxMishaps /\ mishaps' = mishaps + 1

(***************************************************************************)
(* Tasks arrive; users and agents do what they do.                         *)
(***************************************************************************)
Arrive(t, how) ==
  /\ how \in Arrivals[t] /\ origin[t] = "none"
  /\ origin' = [origin EXCEPT ![t] = how]

\* `ecc messages send`, and the same from the dashboard.
HandOff(f, l, t) ==
  /\ Arrive(t, "handoff")
  /\ <<f, l>> \in Contacts /\ Present(f) /\ Present(l)
  /\ Post(Message(f, l, t))
  /\ raced' = (raced \/ \E k \in Coordinators : pass[k].at = "decide")
  /\ UNCHANGED <<rows, target, pass,
                 begun, mishaps, viewed, erased, refused, mislaid, cut, times, ran>>

\* A pass has its own list of requests and occurrences, so those that arrive
\* while it runs might as well arrive before or after it.
Quiet == \A k \in Coordinators : pass[k].at = "idle"

\* create_remote_dispatch_request; a named target must exist.
Request(t, l) ==
  /\ Arrive(t, "pending") /\ Quiet
  /\ l # None => Present(l)
  /\ target' = [target EXCEPT ![t] = l]
  /\ UNCHANGED <<rows, mail, pass, history>>

\* The clock passes the next_run_at of a schedule.
ComeDue(t) ==
  /\ Arrive(t, "due") /\ Quiet
  /\ UNCHANGED <<rows, mail, target, pass, history>>

delete_scheduled_task(t) ==
  /\ origin[t] = "due" /\ Mishap
  /\ origin' = [origin EXCEPT ![t] = "dropped"]
  /\ UNCHANGED <<rows, mail, target, pass,
                 begun, viewed, erased, refused, mislaid, cut, raced, times, ran>>

\* mark_messages_read: somebody looks at an inbox.
View(s) ==
  /\ UnreadOf(s) # {} /\ Mishap
  /\ unread' = unread \ UnreadOf(s)
  /\ viewed' = viewed \cup {sent[m].task : m \in UnreadOf(s)}
  /\ UNCHANGED <<rows, sent, stored, arrived, pass,
                 begun, erased, refused, mislaid, cut, raced, times, ran>>

End(s) ==
  /\ state[s] = "active" /\ Mishap
  /\ state' = [state EXCEPT ![s] = "ended"]
  /\ UNCHANGED <<work, parent, mail, arrived, pass,
                 begun, viewed, erased, refused, mislaid, cut, raced, times, ran>>

\* store.delete_session for a session that has ended, in statements of their
\* own: every message from or to it,
Mentioning(s) == {m \in 1..Len(sent) : s \in {sent[m].from, sent[m].to}}
DeleteMessages(s) ==
  /\ state[s] \in {"ended", "deleting"}
  /\ state' = [state EXCEPT ![s] = "deleting"]
  /\ stored' = stored \ Mentioning(s)
  /\ unread' = unread \ Mentioning(s)
  /\ erased' = erased \cup {sent[m].task : m \in unread \cap Mentioning(s)}
  /\ UNCHANGED <<work, parent, sent, arrived, pass,
                 begun, mishaps, viewed, refused, mislaid, cut, raced, times, ran>>

\* then its row; a request loses its target (ON DELETE SET NULL).  What was
\* sent to it in between, or is sent to it now, stays unread for good.
DeleteRow(s) ==
  /\ state[s] = "deleting"
  /\ state' = [state EXCEPT ![s] = "deleted"]
  /\ target' = [t \in Tasks |-> IF target[t] = s THEN None ELSE target[t]]
  /\ UNCHANGED <<work, parent, mail, origin, pass, history>>

(***************************************************************************)
(* The passes of a coordinator.                                            *)
(***************************************************************************)
Set(k, p) == pass' = [pass EXCEPT ![k] = p]
At(k, l) == pass[k].at = l

Enter(k) ==
  /\ begun < MaxPasses /\ begun' = begun + 1
  /\ raced' = (raced \/ \E j \in Coordinators \ {k} : pass[j].at # "idle")
  /\ UNCHANGED <<mishaps, viewed, erased, refused, mislaid, cut, times, ran>>

StartPass(j, more, S) ==
  [NoPass EXCEPT !.job = j, !.more = more, !.at = "next", !.leads = S]

Begin(k, j, more, S) ==
  /\ At(k, "idle")
  /\ Set(k, StartPass(j, more, S))
  /\ Enter(k)
  /\ UNCHANGED <<rows, mail, arrived>>

ActiveLeads == {s \in Sessions : state[s] = "active"}

\* auto_dispatch_backlog and rebalance_all_teams for as many leads as the
\* daemon or the command line asks for, and coordinate_backlog, which does both.
StartDispatch(k, more) ==
  /\ (IF more THEN "coordinate" ELSE "dispatch") \in Passes[k]
  /\ \E S \in Pick(Targets, LeadLimit) : Begin(k, "dispatch", more, S)

StartRebalance(k) ==
  /\ "rebalance" \in Passes[k]
  /\ \E S \in Pick(ActiveLeads, LeadLimit) : Begin(k, "rebalance", FALSE, S)

\* `ecc assign`, or a delegation from the dashboard.
StartAssign(k, l, t) ==
  /\ "assign" \in Passes[k] /\ At(k, "idle")
  /\ Arrive(t, "assign") /\ Present(l)
  /\ Set(k, [NoPass EXCEPT !.job = "assign", !.at = "decide",
                           !.lead = l, !.task = t])
  /\ Enter(k)
  /\ UNCHANGED <<rows, mail, target>>

\* run_remote_dispatch_requests and run_due_schedules: rows are read once.
StartRemote(k) ==
  LET R == {t \in Tasks : origin[t] = "pending"} IN
  /\ "remote" \in Passes[k] /\ R # {}
  /\ \E S \in Pick(R, LeadLimit) : Begin(k, "remote", FALSE, {<<t, target[t]>> : t \in S})

StartDue(k) ==
  LET R == {t \in Tasks : origin[t] = "due"} IN
  /\ "due" \in Passes[k] /\ R # {}
  /\ \E S \in Pick(R, LeadLimit) : Begin(k, "due", FALSE, {<<t, None>> : t \in S})

EndPass(k) ==
  /\ At(k, "next")
  /\ pass[k].leads = {} /\ pass[k].team = {} /\ pass[k].batch = {}
  /\ IF pass[k].more
     THEN \E S \in Pick(ActiveLeads, LeadLimit) :
            Set(k, StartPass("rebalance", FALSE, S))
     ELSE Set(k, NoPass)
  /\ UNCHANGED <<rows, mail, arrived, history>>

\* drain_inbox and rebalance_team_backlog begin with the lead's row; without
\* it the ? ends the whole pass.
NextLead(k) ==
  LET p == pass[k] IN
  /\ At(k, "next") /\ p.job \in {"dispatch", "rebalance"}
  /\ p.batch = {} /\ p.team = {}
  /\ \E l \in p.leads :
       LET q == [p EXCEPT !.leads = @ \ {l}, !.lead = l] IN
       \/ ~Present(l) /\ Set(k, NoPass)
       \/ Present(l) /\ p.job = "dispatch"
          /\ \E B \in Pick(UnreadOf(l), Limit) : Set(k, [q EXCEPT !.batch = B])
       \/ Present(l) /\ p.job = "rebalance"
          /\ Set(k, [q EXCEPT !.left = Limit,
                              !.team = IF HasCapacity(l) /\ Limit > 0
                                       THEN {d \in Delegates(l) : Cardinality(UnreadOf(d)) > 1}
                                       ELSE {}])
  /\ UNCHANGED <<rows, mail, arrived, history>>

NextDelegate(k) ==
  LET p == pass[k] IN
  /\ At(k, "next") /\ p.batch = {}
  /\ \E d \in p.team : \E B \in Pick(UnreadOf(d), p.left) :
       Set(k, [p EXCEPT !.team = IF p.left = 0 THEN {} ELSE @ \ {d}, !.batch = B])
  /\ UNCHANGED <<rows, mail, arrived, history>>

\* A rebalance looks at the team again before every message, and leaves alone
\* what somebody else sent to the delegate.
NextMoved(k) ==
  LET p == pass[k] IN
  /\ At(k, "next") /\ p.job = "rebalance"
  /\ \E m \in p.batch :
       LET q == [p EXCEPT !.batch = @ \ {m}] IN
       Set(k, IF p.left = 0 \/ ~HasCapacity(p.lead) THEN [p EXCEPT !.batch = {}]
              ELSE IF sent[m].from # p.lead THEN q
              ELSE [q EXCEPT !.at = "decide", !.msg = m, !.task = sent[m].task])
  /\ UNCHANGED <<rows, mail, arrived, history>>

\* What the pass may route next.
Upcoming(p) ==
  IF p.at = "decide" THEN {p}
  ELSE IF p.at = "next" /\ p.job = "dispatch"
  THEN {[p EXCEPT !.batch = @ \ {m}, !.msg = m, !.task = sent[m].task] : m \in p.batch}
  ELSE IF p.at = "next" /\ p.job \in {"remote", "due"}
  THEN {[p EXCEPT !.leads = @ \ {r}, !.task = r[1], !.lead = r[2]] : r \in p.leads}
  ELSE {}

Clear(p) == [p EXCEPT !.at = "next", !.msg = 0, !.task = None, !.to = None]

\* Mutant: an error is an outcome like any other.
GiveUpAsDispatched(k, q) ==
  IF q.job = "remote"
  THEN origin' = [origin EXCEPT ![q.task] = "dispatched"] /\ Set(k, Clear(q))
  ELSE origin' = origin /\ Set(k, NoPass)

\* An error fails a remote request and ends every other pass.
GiveUp(k, q) ==
  IF q.job = "remote"
  THEN origin' = [origin EXCEPT ![q.task] = "failed"] /\ Set(k, Clear(q))
  ELSE origin' = origin /\ Set(k, NoPass)

Refuse(q) == refused' = IF q.job = "assign" THEN refused \cup {q.task} ELSE refused

\* assign_session without its lead.
LeadIsGone(k) ==
  /\ \E q \in Upcoming(pass[k]) :
       q.lead # None /\ state[q.lead] = "deleted" /\ GiveUp(k, q) /\ Refuse(q)
  /\ UNCHANGED <<rows, mail, target,
                 begun, mishaps, viewed, erased, mislaid, cut, raced, times, ran>>

Unchanging == UNCHANGED <<rows, mail, arrived,
                          begun, mishaps, viewed, erased, mislaid, cut, raced, times, ran>>

\* Mutant: a handoff that nobody took is settled like the others.
DeferAndSettle(k, q) ==
  /\ Set(k, CASE q.job \in {"rebalance", "dispatch"} -> [q EXCEPT !.at = "settle", !.to = q.lead]
              [] q.job = "assign" -> NoPass
              [] OTHER -> Clear(q))
  /\ Refuse(q)

\* Nobody has room: a handoff stays unread and a request pending; what was
\* assigned directly is in no inbox.
Defer(k, q) ==
  /\ Set(k, CASE q.job = "rebalance" -> [q EXCEPT !.at = "settle", !.to = q.lead]
              [] q.job = "assign" -> NoPass
              [] OTHER -> Clear(q))
  /\ Refuse(q)

\* assign_session: the team and its backlogs are read, then acted on.
Decide(k) ==
  /\ \E q \in Upcoming(pass[k]) :
       LET D == Delegates(q.lead) IN
       /\ q.lead # None => Present(q.lead)
       /\ \/ /\ q.lead = None \/ Cardinality(D) < MaxTeam \/ D = {}
             /\ Set(k, [q EXCEPT !.at = "queue"]) /\ refused' = refused
          \/ /\ q.lead # None /\ Cardinality(D) >= MaxTeam
             /\ \E d \in D :
                  \/ UnreadOf(d) # {} /\ Defer(k, q)
                  \/ UnreadOf(d) = {} /\ Set(k, [q EXCEPT !.at = "send", !.to = d])
                     /\ refused' = refused
  /\ Unchanging

NewSession(k, s, st) ==
  /\ At(k, "queue") /\ state[s] = "none"
  /\ state' = [state EXCEPT ![s] = st]
  /\ work' = [work EXCEPT ![s] = pass[k].task]
  /\ parent' = [parent EXCEPT ![s] = pass[k].lead]

PassedOn(p) ==
  /\ times' = IF p.msg = 0 THEN times ELSE [times EXCEPT ![p.msg] = @ + 1]
  /\ ran' = IF p.msg = 0 THEN [ran EXCEPT ![p.task] = @ + 1] ELSE ran

\* queue_session: a delegate, or without a lead a top-level session.
Queue(k, s) ==
  LET p == pass[k] IN
  /\ NewSession(k, s, "active")
  /\ Set(k, [p EXCEPT !.to = s, !.at = IF p.lead = None THEN "settle" ELSE "send"])
  /\ IF p.lead = None THEN PassedOn(p) ELSE UNCHANGED <<times, ran>>
  /\ UNCHANGED <<mail, arrived,
                 begun, mishaps, viewed, erased, refused, mislaid, cut, raced>>

CutOff(t) == cut' = cut \cup {t} /\ Mishap

\* Its worktree or runner cannot be had: no row, or one that has failed.
QueueFails(k) ==
  /\ At(k, "queue")
  /\ \/ UNCHANGED rows
     \/ \E s \in Sessions : NewSession(k, s, "ended")
  /\ GiveUp(k, pass[k]) /\ Refuse(pass[k])
  /\ CutOff(pass[k].task)
  /\ UNCHANGED <<mail, target,
                 begun, viewed, erased, mislaid, raced, times, ran>>

\* send_task_handoff.
Send(k) ==
  LET p == pass[k] IN
  /\ At(k, "send")
  /\ Post(Message(p.lead, p.to, p.task))
  /\ Set(k, [p EXCEPT !.at = "settle"])
  /\ PassedOn(p)
  /\ UNCHANGED <<rows, arrived,
                 begun, mishaps, viewed, erased, refused, mislaid, cut, raced>>

\* Mutant: a routed handoff stays unread.
SettleUnread(k) ==
  /\ At(k, "settle") /\ pass[k].job = "dispatch"
  /\ Set(k, Clear(pass[k]))
  /\ UNCHANGED <<rows, mail, arrived, history>>

\* drain_inbox: a handoff that was routed is read.
SettleHandoff(k) ==
  LET p == pass[k] IN
  /\ At(k, "settle") /\ p.job = "dispatch"
  /\ unread' = unread \ {p.msg}
  /\ Set(k, Clear(p))
  /\ UNCHANGED <<rows, sent, stored, arrived, history>>

\* rebalance_team_backlog: whatever the outcome, the handoff is read unless it
\* went to the delegate that had it.
SettleMoved(k) ==
  LET p == pass[k] IN
  /\ At(k, "settle") /\ p.job = "rebalance"
  /\ IF p.to = sent[p.msg].to
     THEN unread' = unread /\ Set(k, Clear(p)) /\ mislaid' = mislaid
     ELSE /\ unread' = unread \ {p.msg}
          /\ Set(k, [Clear(p) EXCEPT !.left = @ - 1])
          /\ mislaid' = IF p.to = p.lead THEN mislaid \cup {p.task} ELSE mislaid
  /\ UNCHANGED <<rows, sent, stored, arrived,
                 begun, mishaps, viewed, erased, refused, cut, raced, times, ran>>

\* record_remote_dispatch_success, by id and whatever the status has become.
SettleRequest(k) ==
  LET p == pass[k] IN
  /\ At(k, "settle") /\ p.job = "remote"
  /\ origin' = [origin EXCEPT ![p.task] = "dispatched"]
  /\ Set(k, Clear(p))
  /\ UNCHANGED <<rows, mail, target, history>>

record_scheduled_task_run(k) ==
  LET p == pass[k] IN
  /\ At(k, "settle") /\ p.job = "due"
  /\ origin' = [origin EXCEPT ![p.task] = IF @ = "due" THEN "ran" ELSE @]
  /\ Set(k, Clear(p))
  /\ UNCHANGED <<rows, mail, target, history>>

SettleAssign(k) ==
  /\ At(k, "settle") /\ pass[k].job = "assign"
  /\ Set(k, NoPass)
  /\ UNCHANGED <<rows, mail, arrived, history>>

Crash(k) ==
  /\ pass[k].at \in {"decide", "queue", "send", "settle"}
  /\ Set(k, NoPass)
  /\ CutOff(pass[k].task)
  /\ UNCHANGED <<rows, mail, arrived,
                 begun, viewed, erased, refused, mislaid, raced, times, ran>>

PassStep(k) ==
  \/ EndPass(k) \/ NextLead(k) \/ NextDelegate(k) \/ NextMoved(k)
  \/ LeadIsGone(k) \/ Decide(k) \/ Send(k)
  \/ SettleHandoff(k) \/ SettleMoved(k) \/ SettleRequest(k)
  \/ record_scheduled_task_run(k) \/ SettleAssign(k)
  \/ \E s \in Sessions : Queue(k, s)

Start(k) ==
  \/ StartRebalance(k) \/ StartRemote(k) \/ StartDue(k)
  \/ \E more \in BOOLEAN : StartDispatch(k, more)
  \/ \E l \in Sessions, t \in Tasks : StartAssign(k, l, t)

Environment ==
  \/ \E f, l \in Sessions, t \in Tasks : HandOff(f, l, t)
  \/ \E t \in Tasks : \/ ComeDue(t) \/ delete_scheduled_task(t)
                      \/ \E l \in Sessions \cup {None} : Request(t, l)
  \/ \E s \in Sessions : View(s) \/ End(s) \/ DeleteMessages(s) \/ DeleteRow(s)
  \/ \E k \in Coordinators : Crash(k) \/ QueueFails(k)

Next == Environment \/ \E k \in Coordinators : PassStep(k) \/ Start(k)

Spec == Init /\ [][Next]_vars

(***************************************************************************)
(* Properties.                                                             *)
(***************************************************************************)
TypeOK ==
  /\ state \in [Sessions -> {"none", "active", "ended", "deleting", "deleted"}]
  /\ work \in [Sessions -> Tasks \cup {None}]
  /\ parent \in [Sessions -> Sessions \cup {None}]
  /\ \A m \in 1..Len(sent) : sent[m] \in [from : Sessions, to : Sessions, task : Tasks]
  /\ unread \subseteq stored /\ stored \subseteq 1..Len(sent) /\ Len(sent) <= MaxSent
  /\ origin \in [Tasks -> {"none", "handoff", "assign", "pending", "dispatched",
                           "failed", "due", "ran", "dropped"}]
  /\ target \in [Tasks -> Sessions \cup {None}]
  /\ \A k \in Coordinators :
       /\ pass[k].left \in 0..Limit
       /\ pass[k].batch \subseteq 1..Len(sent)
       /\ pass[k].task \in Tasks \cup {None}
       /\ pass[k].lead \in Sessions \cup {None}
  /\ begun \in 0..MaxPasses /\ mishaps \in 0..MaxMishaps
  /\ viewed \subseteq Tasks /\ erased \subseteq Tasks /\ refused \subseteq Tasks
  /\ mislaid \subseteq Tasks /\ cut \subseteq Tasks
  /\ raced \in BOOLEAN

\* A task that has arrived and that somebody still has to do or has done.
Kept(t) ==
  \/ \E s \in Sessions : work[s] = t
  \/ \E m \in unread : sent[m].task = t
  \/ origin[t] \in {"none", "pending", "failed", "due", "dropped"}
  \/ \E k \in Coordinators : pass[k].job = "assign" /\ pass[k].task = t

\* No task is lost between inboxes: a crash, a lead that goes while it is
\* routed, a saturated team or a second pass at the same time may repeat it, but
\* it stays unread, on record or in work, unless somebody saw it (the inbox was
\* viewed, the command refused or died), a session was deleted that had it
\* unread or whose delegate did, or a rebalance ran beside another pass.
NoTaskLost ==
  \A t \in Tasks : \/ Kept(t)
                   \/ t \in viewed \cup erased \cup refused
                   \/ t \in cut /\ origin[t] = "assign"
                   \/ t \in mislaid /\ raced

\* One handoff leads to one assignment, and one request or occurrence of a
\* schedule too, unless its routing was cut off before it was settled or two
\* passes had both read it.
RoutedOnce ==
  /\ \A m \in 1..Len(sent) : times[m] <= 1 \/ sent[m].task \in cut \/ raced
  /\ \A t \in Tasks : ran[t] <= 1 \/ t \in cut \/ raced

\* A request reported as failed was not dispatched, and one reported as
\* dispatched was, unless two passes had it.
ReportedTruly ==
  \A t \in Tasks :
    /\ origin[t] = "failed" => ran[t] = 0 \/ t \in cut \/ raced
    /\ origin[t] \in {"dispatched", "ran"} => ran[t] >= 1
=============================================================================
