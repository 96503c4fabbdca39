---------------------------- MODULE RoutingProofs ----------------------------
(***************************************************************************)
(* Proofs about the way a task takes to a session, for any sessions,       *)
(* tasks, coordinators and limits: TaskRouting, which has the passes       *)
(* message by message, and (at the end, as Cycle) BacklogCycle, which has  *)
(* them lead by lead.                                                      *)
(***************************************************************************)
EXTENDS TaskRouting, DaemonActivity, FiniteSetTheorems, TLAPS

Handoff == [from : Sessions, to : Sessions, task : Tasks]
Lead == Sessions \cup {None}

Inboxes == {"dispatch", "rebalance"} \* passes that route handoffs
Listed == {"remote", "due"}          \* passes with a list of their own
Routing == {"decide", "queue", "send", "settle"}

Pass ==
  [job : {"none", "assign"} \cup Inboxes \cup Listed, more : BOOLEAN,
   at : {"idle", "next"} \cup Routing,
   leads : SUBSET (Sessions \cup (Tasks \X Lead)), team : SUBSET Sessions,
   batch : SUBSET Nat, left : 0..Limit, lead : Lead, msg : Nat,
   task : Tasks \cup {None}, to : Lead]

\* Sessions that have, or had, a row.
Born == {s \in Sessions : state[s] # "none"}

\* What hangs together in the local variables of a pass.
Shape(p, box, born) ==
  /\ p \in Pass
  /\ p.at = "idle" <=> p.job = "none"
  /\ p.at = "idle" => p = NoPass
  /\ p.job \in Inboxes => p.leads \subseteq Sessions
  /\ p.job \in Listed => p.leads \subseteq Tasks \X Lead
  /\ p.job = "assign" => p.at \in Routing /\ p.lead # None
  /\ p.at = "decide" => p.job \in {"assign", "rebalance"}
  /\ p.job \notin Inboxes => p.team = {} /\ p.batch = {} /\ p.msg = 0
  /\ p.batch \subseteq 1..Len(box) /\ p.msg \in 0..Len(box)
  /\ p.batch # {} \/ p.team # {} => p.lead # None
  /\ p.job # "rebalance" => p.team = {}
  /\ IF p.at \in Routing THEN p.task # None ELSE p.msg = 0
  /\ p.at \in Routing /\ p.job \in Inboxes =>
       p.lead # None /\ p.msg # 0 /\ p.task = box[p.msg].task
  /\ p.at \in Routing /\ p.job = "rebalance" => p.left > 0
  /\ p.at = "send" => p.lead # None
  /\ p.at \in {"send", "settle"} /\ p.to # None => p.to \in born
  /\ p.at = "send" => p.to # None
  /\ p.at \in {"queue", "send"} /\ p.lead # None => p.lead \in born

Shapes ==
  /\ pass \in [Coordinators -> Pass]
  /\ \A k \in Coordinators : Shape(pass[k], sent, Born)
  /\ sent \in Seq(Handoff)
  /\ \A m \in 1..Len(sent) : sent[m].to \in Born
  /\ \A s \in Sessions : state[s] = "none" => work[s] = None
  /\ times \in [Messages -> Nat] /\ ran \in [Tasks -> Nat]

TypeInv == TypeOK /\ Shapes

\* The mailbox only grows, and no session is unborn.
Grows ==
  /\ sent' \in Seq(Handoff) /\ Len(sent) <= Len(sent') /\ Len(sent') <= MaxSent
  /\ \A m \in 1..Len(sent) : sent'[m] = sent[m]
  /\ \A m \in 1..Len(sent') : sent'[m].to \in Born'
  /\ Born \subseteq Born'

LEMMA ShapeGrows ==
  ASSUME TypeInv, Grows, NEW p, Shape(p, sent, Born)
  PROVE  Shape(p, sent', Born')
<1>1. Len(sent) \in Nat /\ Len(sent') \in Nat /\ Len(sent) <= Len(sent')
  BY DEF Grows, TypeInv, Shapes
<1>2. 1..Len(sent) \subseteq 1..Len(sent') /\ 0..Len(sent) \subseteq 0..Len(sent')
  BY <1>1
<1>3. p.msg \in 0..Len(sent) /\ (p.msg # 0 => sent'[p.msg] = sent[p.msg])
  BY <1>1 DEF Shape, Grows
<1>4. Born \subseteq Born'
  BY DEF Grows
<1>5. QED
  BY <1>2, <1>3, <1>4 DEF Shape

\* A pass goes on to q.
LEMMA PassShapes ==
  ASSUME TypeInv, Grows, NEW k \in Coordinators, NEW q, Shape(q, sent', Born'),
         pass' = [pass EXCEPT ![k] = q],
         \A s \in Sessions : state'[s] = "none" => work'[s] = None,
         times' \in [Messages -> Nat], ran' \in [Tasks -> Nat]
  PROVE  Shapes'
<1>1. q \in Pass
  BY DEF Shape
<1>2. pass' \in [Coordinators -> Pass]
  BY <1>1 DEF TypeInv, Shapes
<1>3. ASSUME NEW j \in Coordinators PROVE Shape(pass'[j], sent', Born')
  <2>1. CASE j = k
    BY <2>1 DEF TypeInv, Shapes
  <2>2. CASE j # k
    <3>1. pass'[j] = pass[j] /\ Shape(pass[j], sent, Born)
      BY <2>2 DEF TypeInv, Shapes
    <3>2. QED
      BY <3>1, ShapeGrows
  <2>3. QED
    BY <2>1, <2>2
<1>4. QED
  BY <1>2, <1>3 DEF Shapes, Grows

\* The types of what is not a pass.
RowTypes ==
  /\ state \in [Sessions -> {"none", "active", "ended", "deleting", "deleted"}]
  /\ work \in [Sessions -> Tasks \cup {None}]
  /\ parent \in [Sessions -> Lead]
  /\ unread \subseteq stored /\ stored \subseteq 1..Len(sent)
  /\ unread \subseteq 1..Len(sent) /\ Len(sent) <= MaxSent
  /\ origin \in [Tasks -> {"none", "handoff", "assign", "pending", "dispatched",
                           "failed", "due", "ran", "dropped"}]
  /\ target \in [Tasks -> Lead]
  /\ begun \in 0..MaxPasses /\ mishaps \in 0..MaxMishaps
  /\ viewed \subseteq Tasks /\ erased \subseteq Tasks /\ refused \subseteq Tasks
  /\ mislaid \subseteq Tasks /\ cut \subseteq Tasks
  /\ raced \in BOOLEAN

LEMMA TypesAfter ==
  ASSUME Shapes', RowTypes'
  PROVE  TypeInv'
<1>1. \A m \in 1..Len(sent') : sent'[m] \in Handoff
  BY DEF Shapes
<1>2. ASSUME NEW k \in Coordinators
      PROVE  /\ pass'[k].left \in 0..Limit /\ pass'[k].batch \subseteq 1..Len(sent')
             /\ pass'[k].task \in Tasks \cup {None} /\ pass'[k].lead \in Sessions \cup {None}
  BY DEF Shapes, Shape, Pass, Lead
<1>3. QED
  BY <1>1, <1>2 DEF TypeInv, TypeOK, RowTypes, Handoff, Lead

LEMMA TypesNow ==
  ASSUME TypeInv
  PROVE  /\ RowTypes /\ Shapes
         /\ \A k \in Coordinators : pass[k] \in Pass /\ Shape(pass[k], sent, Born)
         /\ Len(sent) \in Nat /\ \A m \in 1..Len(sent) : sent[m] \in Handoff
         /\ \A m \in unread : m \in 1..Len(sent)
BY DEF TypeInv, TypeOK, RowTypes, Shapes, Lead

\* Sessions end and go, the rest of the rows and the mail stay.
LEMMA Fades ==
  ASSUME TypeInv, UNCHANGED <<sent, work>>,
         state' \in [Sessions -> {"none", "active", "ended", "deleting", "deleted"}],
         \A s \in Sessions : state'[s] = "none" <=> state[s] = "none"
  PROVE  /\ Grows /\ Born' = Born
         /\ \A s \in Sessions : state'[s] = "none" => work'[s] = None
<1>1. Born' = Born
  BY DEF Born
<1>2. QED
  BY <1>1 DEF Grows, TypeInv, TypeOK, Shapes

\* Nothing is sent and no row changes.
LEMMA Stays ==
  ASSUME TypeInv, UNCHANGED <<sent, rows>>
  PROVE  /\ Grows /\ Born' = Born
         /\ \A s \in Sessions : state'[s] = "none" => work'[s] = None
BY Fades DEF rows, TypeInv, TypeOK

LEMMA Posted ==
  ASSUME TypeInv, NEW m \in Handoff, m.to \in Born', Post(m), Born \subseteq Born'
  PROVE  /\ Grows /\ unread' \subseteq 1..Len(sent') /\ Len(sent') <= MaxSent
         /\ unread' \subseteq stored' /\ stored' \subseteq 1..Len(sent')
         /\ Len(sent') = Len(sent) + 1 /\ sent'[Len(sent) + 1] = m
         /\ unread' = unread \cup {Len(sent) + 1} /\ stored' = stored \cup {Len(sent) + 1}
<1> USE RoutingAssumption DEF RoutingAssumption
<1>1. sent \in Seq(Handoff) /\ Len(sent) \in Nat /\ Len(sent) < MaxSent
  BY DEF TypeInv, Shapes, Post
<1>2. /\ sent' = Append(sent, m) /\ unread' = unread \cup {Len(sent) + 1}
      /\ stored' = stored \cup {Len(sent) + 1}
  BY DEF Post
<1>3. /\ sent' \in Seq(Handoff) /\ Len(sent') = Len(sent) + 1 /\ sent'[Len(sent) + 1] = m
      /\ \A i \in 1..Len(sent) : sent'[i] = sent[i]
  BY <1>1, <1>2
<1>4. \A i \in 1..Len(sent') : sent'[i].to \in Born'
  <2>1. \A i \in 1..Len(sent) : sent[i].to \in Born
    BY DEF TypeInv, Shapes
  <2>2. \A i \in 1..Len(sent') : i \in 1..Len(sent) \/ i = Len(sent) + 1
    BY <1>1, <1>3
  <2>3. QED
    BY <1>3, <2>1, <2>2
<1>5. unread' \subseteq stored' /\ stored' \subseteq 1..Len(sent')
  <2>1. unread \subseteq stored /\ stored \subseteq 1..Len(sent)
    BY DEF TypeInv, TypeOK
  <2>2. 1..Len(sent) \subseteq 1..Len(sent') /\ Len(sent) + 1 \in 1..Len(sent')
    BY <1>1, <1>3
  <2>3. QED
    BY <1>2, <2>1, <2>2
<1>6. QED
  BY <1>1, <1>2, <1>3, <1>4, <1>5 DEF Grows

(***************************************************************************)
(* Types, action by action: first the environment.                         *)
(***************************************************************************)
\* The passes stay as they are.
LEMMA Elsewhere ==
  ASSUME TypeInv, Grows, RowTypes', UNCHANGED <<pass, times, ran>>,
         \A s \in Sessions : state'[s] = "none" => work'[s] = None
  PROVE  TypeInv'
<1>1. \A k \in Coordinators : Shape(pass[k], sent', Born')
  BY TypesNow, ShapeGrows
<1>2. Shapes'
  BY <1>1 DEF Shapes, Grows, TypeInv
<1>3. QED
  BY <1>2, TypesAfter

LEMMA HandOffTypes ==
  ASSUME TypeInv, NEW f \in Sessions, NEW s \in Sessions, NEW t \in Tasks, HandOff(f, s, t)
  PROVE  TypeInv'
<1>0. RowTypes
  BY TypesNow
<1>1. s \in Born /\ Message(f, s, t) \in Handoff /\ Message(f, s, t).to = s
  BY DEF HandOff, Present, Born, Message, Handoff
<1>2. Born' = Born
  BY DEF HandOff, rows, Born
<1>3. /\ Grows /\ unread' \subseteq 1..Len(sent') /\ Len(sent') <= MaxSent
      /\ unread' \subseteq stored' /\ stored' \subseteq 1..Len(sent')
  BY <1>1, <1>2, Posted DEF HandOff
<1>4. RowTypes'
  BY <1>0, <1>3 DEF HandOff, Arrive, RowTypes, rows
<1>5. \A r \in Sessions : state'[r] = "none" => work'[r] = None
  BY DEF HandOff, rows, TypeInv, Shapes
<1>6. QED
  BY <1>3, <1>4, <1>5, Elsewhere DEF HandOff

LEMMA ArrivalTypes ==
  ASSUME TypeInv, NEW t \in Tasks, NEW l \in Lead,
         Request(t, l) \/ ComeDue(t) \/ delete_scheduled_task(t)
  PROVE  TypeInv'
<1> USE RoutingAssumption DEF RoutingAssumption
<1>0. RowTypes
  BY TypesNow
<1>2. CASE Request(t, l)
  <2>1. RowTypes'
    BY <1>0, <1>2 DEF Request, Arrive, RowTypes, rows, mail, history
  <2>2. QED
    BY <1>2, <2>1, Stays, Elsewhere DEF Request, mail, history
<1>3. CASE ComeDue(t)
  <2>1. RowTypes'
    BY <1>0, <1>3 DEF ComeDue, Arrive, RowTypes, rows, mail, history
  <2>2. QED
    BY <1>3, <2>1, Stays, Elsewhere DEF ComeDue, mail, history
<1>4. CASE delete_scheduled_task(t)
  <2>1. RowTypes'
    BY <1>0, <1>4 DEF delete_scheduled_task, Mishap, RowTypes, rows, mail
  <2>2. QED
    BY <1>4, <2>1, Stays, Elsewhere DEF delete_scheduled_task, mail
<1>5. QED
  BY <1>2, <1>3, <1>4

LEMMA SessionTypes ==
  ASSUME TypeInv, NEW s \in Sessions, View(s) \/ End(s) \/ DeleteMessages(s) \/ DeleteRow(s)
  PROVE  TypeInv'
<1> USE RoutingAssumption DEF RoutingAssumption
<1>0. RowTypes
  BY TypesNow
<1>5. CASE View(s)
  <2> DEFINE seen == {sent[m].task : m \in UnreadOf(s)}
  <2>1. seen \subseteq Tasks
    BY TypesNow DEF UnreadOf, Handoff
  <2>2. RowTypes'
    <3>1. viewed' = viewed \cup seen
      BY <1>5 DEF View
    <3> HIDE DEF seen
    <3>2. viewed' \subseteq Tasks
      BY <1>0, <2>1, <3>1 DEF RowTypes
    <3>3. /\ unread' \subseteq stored' /\ stored' \subseteq 1..Len(sent')
          /\ unread' \subseteq 1..Len(sent')
      BY <1>0, <1>5 DEF View, RowTypes
    <3>4. QED
      BY <1>0, <1>5, <3>2, <3>3 DEF View, Mishap, RowTypes, rows, arrived
  <2>3. QED
    BY <1>5, <2>2, Stays, Elsewhere DEF View
<1>6. CASE End(s)
  <2>1. RowTypes'
    BY <1>0, <1>6 DEF End, Mishap, RowTypes, mail, arrived
  <2>2. \A r \in Sessions : state'[r] = "none" <=> state[r] = "none"
    BY <1>0, <1>6 DEF End, RowTypes
  <2>3. QED
    BY <1>6, <2>1, <2>2, Fades, Elsewhere DEF End, mail, RowTypes
<1>7. CASE DeleteMessages(s)
  <2> DEFINE lost == {sent[m].task : m \in unread \cap Mentioning(s)}
  <2>1. lost \subseteq Tasks
    BY TypesNow DEF Handoff
  <2>2. erased' = erased \cup lost
    BY <1>7 DEF DeleteMessages
  <2> HIDE DEF lost
  <2>3. RowTypes'
    <3>1. erased' \subseteq Tasks
      BY <1>0, <2>1, <2>2 DEF RowTypes
    <3>2. /\ unread' \subseteq stored' /\ stored' \subseteq 1..Len(sent')
          /\ unread' \subseteq 1..Len(sent')
      BY <1>0, <1>7 DEF DeleteMessages, RowTypes
    <3>3. QED
      BY <1>0, <1>7, <3>1, <3>2 DEF DeleteMessages, RowTypes, arrived
  <2>4. \A r \in Sessions : state'[r] = "none" <=> state[r] = "none"
    BY <1>0, <1>7 DEF DeleteMessages, RowTypes
  <2>5. QED
    BY <1>7, <2>3, <2>4, Fades, Elsewhere DEF DeleteMessages, RowTypes
<1>8. CASE DeleteRow(s)
  <2>1. RowTypes'
    BY <1>0, <1>8 DEF DeleteRow, RowTypes, mail, history, Lead
  <2>2. \A r \in Sessions : state'[r] = "none" <=> state[r] = "none"
    BY <1>0, <1>8 DEF DeleteRow, RowTypes
  <2>3. QED
    BY <1>8, <2>1, <2>2, Fades, Elsewhere DEF DeleteRow, mail, history, RowTypes
<1>9. QED
  BY <1>5, <1>6, <1>7, <1>8

(***************************************************************************)
(* Then the passes.                                                        *)
(***************************************************************************)
LEMMA Onward ==
  ASSUME TypeInv, Grows, RowTypes', NEW k \in Coordinators, NEW q,
         Shape(q, sent', Born'), pass' = [pass EXCEPT ![k] = q],
         \A s \in Sessions : state'[s] = "none" => work'[s] = None,
         times' \in [Messages -> Nat], ran' \in [Tasks -> Nat]
  PROVE  TypeInv'
BY PassShapes, TypesAfter

\* A pass that writes nothing but its own variables.
LEMMA OnwardAlone ==
  ASSUME TypeInv, RowTypes', NEW k \in Coordinators, NEW q, Shape(q, sent, Born),
         pass' = [pass EXCEPT ![k] = q], UNCHANGED <<rows, sent, times, ran>>
  PROVE  TypeInv'
<1>1. Grows /\ Born' = Born /\ \A s \in Sessions : state'[s] = "none" => work'[s] = None
  BY Stays
<1>2. times' \in [Messages -> Nat] /\ ran' \in [Tasks -> Nat]
  BY TypesNow DEF Shapes
<1>3. QED
  BY <1>1, <1>2, Onward

LEMMA NoPassShape ==
  ASSUME TypeInv
  PROVE  /\ Shape(NoPass, sent, Born) /\ NoPass \in Pass
         /\ NoPass.at = "idle" /\ NoPass.job = "none" /\ NoPass.msg = 0
         /\ NoPass.leads = {} /\ NoPass.batch = {}
<1>1. NoPass \in Pass
  BY RoutingAssumption DEF RoutingAssumption, NoPass, Pass, Routing, Lead, Inboxes, Listed
<1>2. 0 \in 0..Len(sent)
  BY TypesNow
<1>3. QED
  BY <1>1, <1>2 DEF Shape, NoPass, Routing, Inboxes, Listed

LEMMA StartPassShape ==
  ASSUME TypeInv, NEW j \in Inboxes \cup Listed, NEW more \in BOOLEAN, NEW S,
         j \in Inboxes => S \subseteq Sessions, j \in Listed => S \subseteq Tasks \X Lead
  PROVE  Shape(StartPass(j, more, S), sent, Born)
<1> DEFINE q == StartPass(j, more, S)
<1>1. /\ q.job = j /\ q.more = more /\ q.at = "next" /\ q.leads = S /\ q.team = {}
      /\ q.batch = {} /\ q.left = 0 /\ q.lead = None /\ q.msg = 0 /\ q.task = None
      /\ q.to = None
  BY DEF StartPass, NoPass
<1>2. q \in Pass
  <2>1. S \subseteq Sessions \cup (Tasks \X Lead)
    OBVIOUS
  <2>2. NoPass \in Pass
    BY NoPassShape
  <2>3. QED
    BY <2>1, <2>2 DEF StartPass, Pass
<1>3. 0 \in 0..Len(sent)
  BY TypesNow
<1>4. j \in {"dispatch", "rebalance", "remote", "due"}
  BY DEF Inboxes, Listed
<1> HIDE DEF q
<1>5. /\ q.at = "idle" <=> q.job = "none"
      /\ q.at = "idle" => q = NoPass
      /\ q.at \notin Routing
  BY <1>1, <1>4 DEF Routing
<1>6. /\ q.job \in Inboxes => q.leads \subseteq Sessions
      /\ q.job \in Listed => q.leads \subseteq Tasks \X Lead
  BY <1>1
<1>7. q.job # "assign"
  BY <1>1, <1>4
<1>8. q.batch \subseteq 1..Len(sent) /\ q.msg \in 0..Len(sent)
  BY <1>1, <1>3
<1>9. Shape(q, sent, Born)
  BY <1>1, <1>2, <1>5, <1>6, <1>7, <1>8 DEF Shape
<1>10. QED
  BY <1>9 DEF q

\* The passes begin.
LEMMA StartTypes ==
  ASSUME TypeInv, NEW k \in Coordinators, Start(k)
  PROVE  TypeInv'
<1> USE RoutingAssumption DEF RoutingAssumption
<1>0. RowTypes
  BY TypesNow
<1>1. ASSUME NEW j \in Inboxes \cup Listed, NEW more \in BOOLEAN, NEW S, Begin(k, j, more, S),
             j \in Inboxes => S \subseteq Sessions, j \in Listed => S \subseteq Tasks \X Lead
      PROVE  TypeInv'
  <2>1. RowTypes'
    BY <1>0, <1>1 DEF Begin, Enter, RowTypes, rows, mail, arrived
  <2>2. Shape(StartPass(j, more, S), sent, Born)
    BY <1>1, StartPassShape
  <2>3. QED
    BY <1>1, <2>1, <2>2, OnwardAlone DEF Begin, Set, Enter, mail
<1>2. ASSUME NEW more \in BOOLEAN, StartDispatch(k, more) PROVE TypeInv'
  <2>1. PICK S \in Pick(Targets, LeadLimit) : Begin(k, "dispatch", more, S)
    BY <1>2 DEF StartDispatch
  <2>2. S \subseteq Sessions
    BY TypesNow DEF Pick, Targets, Handoff
  <2>3. QED
    BY <1>1, <2>1, <2>2 DEF Inboxes, Listed
<1>3. CASE StartRebalance(k)
  <2>1. PICK S \in Pick(ActiveLeads, LeadLimit) : Begin(k, "rebalance", FALSE, S)
    BY <1>3 DEF StartRebalance
  <2>2. S \subseteq Sessions
    BY DEF Pick, ActiveLeads
  <2>3. QED
    BY <1>1, <2>1, <2>2 DEF Inboxes, Listed
<1>4. CASE StartRemote(k)
  <2> DEFINE R == {t \in Tasks : origin[t] = "pending"}
  <2>1. PICK S \in Pick(R, LeadLimit) :
          Begin(k, "remote", FALSE, {<<t, target[t]>> : t \in S})
    BY <1>4 DEF StartRemote
  <2>2. S \subseteq Tasks /\ \A t \in Tasks : target[t] \in Lead
    BY <1>0 DEF Pick, RowTypes
  <2>3. {<<t, target[t]>> : t \in S} \subseteq Tasks \X Lead
    BY <2>2
  <2>4. QED
    BY <1>1, <2>1, <2>3 DEF Inboxes, Listed
<1>5. CASE StartDue(k)
  <2> DEFINE R == {t \in Tasks : origin[t] = "due"}
  <2>1. PICK S \in Pick(R, LeadLimit) : Begin(k, "due", FALSE, {<<t, None>> : t \in S})
    BY <1>5 DEF StartDue
  <2>2. S \subseteq Tasks /\ None \in Lead
    BY DEF Pick, Lead
  <2>3. {<<t, None>> : t \in S} \subseteq Tasks \X Lead
    BY <2>2
  <2>4. QED
    BY <1>1, <2>1, <2>3 DEF Inboxes, Listed
<1>6. ASSUME NEW l \in Sessions, NEW t \in Tasks, StartAssign(k, l, t) PROVE TypeInv'
  <2> DEFINE q == [NoPass EXCEPT !.job = "assign", !.at = "decide", !.lead = l, !.task = t]
  <2>1. RowTypes'
    BY <1>0, <1>6 DEF StartAssign, Arrive, Enter, RowTypes, rows, mail
  <2>2. /\ q.job = "assign" /\ q.at = "decide" /\ q.leads = {} /\ q.team = {}
        /\ q.batch = {} /\ q.lead = l /\ q.msg = 0 /\ q.task = t /\ q.to = None
    BY DEF NoPass
  <2>3. q \in Pass
    BY NoPassShape DEF Pass, Routing, Lead
  <2>4. 0 \in 0..Len(sent)
    BY TypesNow
  <2>5. pass' = [pass EXCEPT ![k] = q] /\ UNCHANGED <<rows, sent, times, ran>>
    BY <1>6 DEF StartAssign, Set, Enter, mail
  <2> HIDE DEF q
  <2>6. Shape(q, sent, Born)
    BY <2>2, <2>3, <2>4 DEF Shape, Routing, Inboxes, Listed
  <2>7. QED
    BY <2>1, <2>5, <2>6, OnwardAlone
<1>7. QED
  BY <1>2, <1>3, <1>4, <1>5, <1>6 DEF Start

\* Passes that only look for what is next.
LEMMA LookTypes ==
  ASSUME TypeInv, NEW k \in Coordinators,
         EndPass(k) \/ NextLead(k) \/ NextDelegate(k) \/ NextMoved(k)
  PROVE  TypeInv'
<1> USE RoutingAssumption DEF RoutingAssumption
<1> DEFINE p == pass[k]
<1>0. RowTypes' /\ p \in Pass /\ Shape(p, sent, Born)
  BY TypesNow
     DEF EndPass, NextLead, NextDelegate, NextMoved, RowTypes, rows, mail, arrived, history
<1>1. ASSUME NEW q, Shape(q, sent, Born), Set(k, q) PROVE TypeInv'
  BY <1>0, <1>1, OnwardAlone
     DEF EndPass, NextLead, NextDelegate, NextMoved, Set, rows, mail, arrived, history
<1>2. CASE EndPass(k)
  <2>1. CASE p.more
    <3>1. PICK S \in Pick(ActiveLeads, LeadLimit) : Set(k, StartPass("rebalance", FALSE, S))
      BY <1>2, <2>1 DEF EndPass
    <3>2. S \subseteq Sessions
      BY DEF Pick, ActiveLeads
    <3>3. Shape(StartPass("rebalance", FALSE, S), sent, Born)
      BY <3>2, StartPassShape DEF Inboxes, Listed
    <3>4. QED
      BY <1>1, <3>1, <3>3
  <2>2. CASE ~p.more
    BY <1>1, <1>2, <2>2, NoPassShape DEF EndPass
  <2>3. QED
    BY <2>1, <2>2
<1>3. CASE NextLead(k)
  <2>1. PICK l \in p.leads :
          LET q == [p EXCEPT !.leads = @ \ {l}, !.lead = l] IN
          \/ Set(k, NoPass)
          \/ /\ p.job = "dispatch"
             /\ \E B \in Pick(UnreadOf(l), Limit) : Set(k, [q EXCEPT !.batch = B])
          \/ /\ p.job = "rebalance"
             /\ Set(k, [q EXCEPT !.left = Limit,
                                 !.team = IF HasCapacity(l) /\ Limit > 0
                                          THEN {d \in Delegates(l) : Cardinality(UnreadOf(d)) > 1}
                                          ELSE {}])
    BY <1>3 DEF NextLead
  <2>2. p.at = "next" /\ p.job \in Inboxes /\ p.batch = {} /\ p.team = {} /\ l \in Sessions
    BY <1>0, <1>3, <2>1 DEF NextLead, At, Inboxes, Shape
  <2>3. CASE Set(k, NoPass)
    BY <1>1, <2>3, NoPassShape
  <2>4. ASSUME p.job = "dispatch", NEW B \in Pick(UnreadOf(l), Limit),
               Set(k, [[p EXCEPT !.leads = @ \ {l}, !.lead = l] EXCEPT !.batch = B])
        PROVE  TypeInv'
    <3> DEFINE q == [[p EXCEPT !.leads = @ \ {l}, !.lead = l] EXCEPT !.batch = B]
    <3>1. B \subseteq 1..Len(sent) /\ B \subseteq Nat
      BY TypesNow DEF Pick, UnreadOf
    <3>2. /\ q \in Pass /\ q.at = p.at /\ q.job = p.job /\ q.leads \subseteq p.leads
          /\ q.team = p.team /\ q.batch = B /\ q.lead = l /\ q.msg = p.msg
      BY <1>0, <2>2, <3>1 DEF Pass, Lead
    <3> HIDE DEF q
    <3>3. Shape(q, sent, Born)
      BY <1>0, <2>2, <2>4, <3>1, <3>2 DEF Shape, Routing, Inboxes, Listed
    <3>4. QED
      BY <1>1, <2>4, <3>3 DEF q
  <2>5. ASSUME NEW D, D \subseteq Sessions, p.job = "rebalance",
               Set(k, [[p EXCEPT !.leads = @ \ {l}, !.lead = l] EXCEPT !.left = Limit, !.team = D])
        PROVE  TypeInv'
    <3> DEFINE q == [[p EXCEPT !.leads = @ \ {l}, !.lead = l] EXCEPT !.left = Limit, !.team = D]
    <3>2. /\ q \in Pass /\ q.at = p.at /\ q.job = p.job /\ q.leads \subseteq p.leads
          /\ q.batch = p.batch /\ q.lead = l /\ q.msg = p.msg
      <4>1. Limit \in 0..Limit
        OBVIOUS
      <4>2. QED
        BY <1>0, <2>2, <2>5, <4>1 DEF Pass, Lead
    <3> HIDE DEF q
    <3>3. Shape(q, sent, Born)
      BY <1>0, <2>2, <2>5, <3>2 DEF Shape, Routing, Inboxes, Listed
    <3>4. QED
      BY <1>1, <2>5, <3>3 DEF q
  <2> DEFINE relieved == IF HasCapacity(l) /\ Limit > 0
                         THEN {d \in Delegates(l) : Cardinality(UnreadOf(d)) > 1} ELSE {}
  <2>6. relieved \subseteq Sessions
    BY DEF Delegates
  <2>7. \/ Set(k, NoPass)
        \/ /\ p.job = "dispatch"
           /\ \E B \in Pick(UnreadOf(l), Limit) :
                Set(k, [[p EXCEPT !.leads = @ \ {l}, !.lead = l] EXCEPT !.batch = B])
        \/ /\ p.job = "rebalance"
           /\ Set(k, [[p EXCEPT !.leads = @ \ {l}, !.lead = l]
                        EXCEPT !.left = Limit, !.team = relieved])
    BY <2>1
  <2> HIDE DEF relieved
  <2>8. QED
    BY <2>3, <2>4, <2>5, <2>6, <2>7
<1>4. CASE NextDelegate(k)
  <2>1. PICK d \in p.team : \E B \in Pick(UnreadOf(d), p.left) :
          Set(k, [p EXCEPT !.team = IF p.left = 0 THEN {} ELSE @ \ {d}, !.batch = B])
    BY <1>4 DEF NextDelegate
  <2>2. PICK B \in Pick(UnreadOf(d), p.left) :
          Set(k, [p EXCEPT !.team = IF p.left = 0 THEN {} ELSE @ \ {d}, !.batch = B])
    BY <2>1
  <2> DEFINE q == [p EXCEPT !.team = IF p.left = 0 THEN {} ELSE @ \ {d}, !.batch = B]
  <2>3. B \subseteq 1..Len(sent) /\ B \subseteq Nat
    BY TypesNow DEF Pick, UnreadOf
  <2>4. /\ p.at = "next" /\ p.job = "rebalance" /\ p.lead # None
    BY <1>0, <1>4, <2>1 DEF NextDelegate, At, Shape
  <2>5. /\ q \in Pass /\ q.at = p.at /\ q.job = p.job /\ q.leads = p.leads
        /\ q.batch = B /\ q.lead = p.lead /\ q.msg = p.msg
    BY <1>0, <2>3 DEF Pass
  <2> HIDE DEF q
  <2>6. Shape(q, sent, Born)
    BY <1>0, <2>3, <2>4, <2>5 DEF Shape, Routing, Inboxes, Listed
  <2>7. QED
    BY <1>1, <2>2, <2>6 DEF q
<1>5. CASE NextMoved(k)
  <2>1. PICK m \in p.batch :
          LET q == [p EXCEPT !.batch = @ \ {m}] IN
          Set(k, IF p.left = 0 \/ ~HasCapacity(p.lead) THEN [p EXCEPT !.batch = {}]
                 ELSE IF sent[m].from # p.lead THEN q
                 ELSE [q EXCEPT !.at = "decide", !.msg = m, !.task = sent[m].task])
    BY <1>5 DEF NextMoved
  <2>2. /\ p.at = "next" /\ p.job = "rebalance" /\ p.lead # None
        /\ m \in 1..Len(sent) /\ m \in Nat /\ m # 0 /\ sent[m].task \in Tasks
    <3>1. /\ p.at = "next" /\ p.job = "rebalance" /\ p.lead # None
          /\ m \in 1..Len(sent)
      BY <1>0, <1>5, <2>1 DEF NextMoved, At, Shape
    <3>2. sent[m] \in Handoff /\ m \in Nat /\ m # 0
      BY <3>1, TypesNow
    <3>3. QED
      BY <3>1, <3>2 DEF Handoff
  <2>3. ASSUME NEW B, B \subseteq p.batch, Set(k, [p EXCEPT !.batch = B]) PROVE TypeInv'
    <3> DEFINE q == [p EXCEPT !.batch = B]
    <3>1. /\ q \in Pass /\ q.at = p.at /\ q.job = p.job /\ q.leads = p.leads
          /\ q.batch = B /\ q.lead = p.lead /\ q.msg = p.msg
      BY <1>0, <2>3 DEF Pass
    <3> HIDE DEF q
    <3>2. Shape(q, sent, Born)
      BY <1>0, <2>2, <2>3, <3>1 DEF Shape, Routing, Inboxes, Listed
    <3>3. QED
      BY <1>1, <2>3, <3>2 DEF q
  <2>4. ASSUME p.left # 0,
               Set(k, [[p EXCEPT !.batch = @ \ {m}]
                         EXCEPT !.at = "decide", !.msg = m, !.task = sent[m].task])
        PROVE  TypeInv'
    <3> DEFINE q == [[p EXCEPT !.batch = @ \ {m}]
                       EXCEPT !.at = "decide", !.msg = m, !.task = sent[m].task]
    <3>1. /\ q \in Pass /\ q.at = "decide" /\ q.job = p.job /\ q.leads = p.leads
          /\ q.batch \subseteq p.batch /\ q.lead = p.lead /\ q.msg = m
          /\ q.task = sent[m].task /\ q.left = p.left
      BY <1>0, <2>2 DEF Pass, Routing
    <3> HIDE DEF q
    <3>2. q.left > 0 /\ q.msg \in 0..Len(sent) /\ q.task # None
      BY <1>0, <2>2, <2>4, <3>1, TypesNow DEF Pass
    <3>3. Shape(q, sent, Born)
      BY <1>0, <2>2, <3>1, <3>2 DEF Shape, Routing, Inboxes, Listed
    <3>4. QED
      BY <1>1, <2>4, <3>3 DEF q
  <2>5. CASE p.left = 0 \/ ~HasCapacity(p.lead)
    <3>1. \E B : B \subseteq p.batch /\ Set(k, [p EXCEPT !.batch = B])
      BY <2>1, <2>5
    <3>2. QED
      BY <2>3, <3>1
  <2>6. CASE ~(p.left = 0 \/ ~HasCapacity(p.lead)) /\ sent[m].from # p.lead
    <3>1. Set(k, [p EXCEPT !.batch = p.batch \ {m}])
      BY <2>1, <2>6
    <3>2. QED
      BY <2>3, <3>1
  <2>7. CASE ~(p.left = 0 \/ ~HasCapacity(p.lead)) /\ sent[m].from = p.lead
    BY <2>1, <2>4, <2>7
  <2>8. QED
    BY <2>5, <2>6, <2>7
<1>6. QED
  BY <1>2, <1>3, <1>4, <1>5

\* A pass that has a task at hand.
Ready(p, box) ==
  /\ p \in Pass /\ p.job # "none" /\ p.task \in Tasks
  /\ p.job \in Inboxes =>
       /\ p.lead # None /\ p.leads \subseteq Sessions
       /\ p.msg \in 1..Len(box) /\ p.task = box[p.msg].task
  /\ p.job \in Listed => p.leads \subseteq Tasks \X Lead
  /\ p.job \notin Inboxes => p.team = {} /\ p.batch = {} /\ p.msg = 0
  /\ p.job = "assign" => p.lead # None
  /\ p.job = "rebalance" => p.left > 0
  /\ p.job # "rebalance" => p.team = {}
  /\ p.batch \subseteq 1..Len(box)

LEMMA ReadyShape ==
  ASSUME NEW p, NEW box, NEW born, Ready(p, box), Len(box) \in Nat,
         p.at \in {"queue", "send", "settle"},
         p.at \in {"send", "settle"} /\ p.to # None => p.to \in born,
         p.at = "send" => p.to # None /\ p.lead # None,
         p.at \in {"queue", "send"} /\ p.lead # None => p.lead \in born
  PROVE  Shape(p, box, born)
<1> USE RoutingAssumption DEF RoutingAssumption
<1>1. p.task # None /\ p.msg \in 0..Len(box) /\ (p.job \in Inboxes => p.msg # 0)
  BY DEF Ready
<1>2. p.batch # {} \/ p.team # {} => p.lead # None
  BY DEF Ready
<1>3. p.at \in Routing /\ p.at # "idle" /\ p.at # "decide"
  BY DEF Routing
<1>4. QED
  BY <1>1, <1>2, <1>3 DEF Ready, Shape

LEMMA ClearShape ==
  ASSUME NEW p, NEW box, NEW born, Ready(p, box), Len(box) \in Nat, p.job # "assign"
  PROVE  /\ Shape(Clear(p), box, born) /\ Clear(p).at = "next" /\ Clear(p).job = p.job
         /\ Clear(p).leads = p.leads /\ Clear(p).batch = p.batch /\ Clear(p).msg = 0
<1> USE RoutingAssumption DEF RoutingAssumption
<1> DEFINE q == Clear(p)
<1>1. /\ q \in Pass /\ q.job = p.job /\ q.at = "next" /\ q.leads = p.leads
      /\ q.team = p.team /\ q.batch = p.batch /\ q.left = p.left /\ q.lead = p.lead
      /\ q.msg = 0 /\ q.task = None /\ q.to = None
  BY DEF Clear, Ready, Pass, Lead, Routing
<1> HIDE DEF q
<1>2. q.msg \in 0..Len(box)
  BY <1>1
<1>3. q.batch # {} \/ q.team # {} => q.lead # None
  BY <1>1 DEF Ready
<1>4. q.at \notin Routing
  BY <1>1 DEF Routing
<1>5. Shape(q, box, born)
  BY <1>1, <1>2, <1>3, <1>4 DEF Ready, Shape
<1>6. QED
  BY <1>1, <1>5 DEF q

LEMMA RoutingReady ==
  ASSUME TypeInv, NEW k \in Coordinators, pass[k].at \in Routing
  PROVE  Ready(pass[k], sent) /\ pass[k].at # "idle"
<1>1. /\ Shape(pass[k], sent, Born) /\ pass[k] \in Pass /\ Len(sent) \in Nat
      /\ \A m \in 1..Len(sent) : sent[m] \in Handoff
  BY TypesNow
<1>2. pass[k].at # "idle" /\ pass[k].job # "none"
  BY <1>1 DEF Shape, Routing
<1>3. pass[k].task \in Tasks
  BY <1>1 DEF Shape, Pass
<1>4. pass[k].job \in Inboxes => pass[k].msg \in 1..Len(sent)
  BY <1>1 DEF Shape
<1>5. QED
  BY <1>1, <1>2, <1>3, <1>4 DEF Shape, Ready

\* What a pass routes next.
LEMMA UpcomingReady ==
  ASSUME TypeInv, NEW k \in Coordinators, NEW q \in Upcoming(pass[k])
  PROVE  /\ Ready(q, sent) /\ q.job = pass[k].job /\ q.at = pass[k].at
         /\ q.at \in {"next", "decide"} /\ q.batch \subseteq pass[k].batch
         /\ q.leads \subseteq pass[k].leads
         /\ pass[k].at = "decide" => q = pass[k]
         /\ pass[k].at = "next" /\ q.job = "dispatch" =>
              q.msg \in pass[k].batch /\ q.batch = pass[k].batch \ {q.msg}
         /\ pass[k].at = "next" /\ q.job \in Listed =>
              <<q.task, q.lead>> \in pass[k].leads /\ q.leads = pass[k].leads \ {<<q.task, q.lead>>}
         /\ pass[k].at = "next" => q.job \in {"dispatch"} \cup Listed
<1> DEFINE p == pass[k]
<1>0. /\ p \in Pass /\ Shape(p, sent, Born) /\ Len(sent) \in Nat
      /\ \A m \in 1..Len(sent) : sent[m] \in Handoff
  BY TypesNow
<1>1. CASE p.at = "decide"
  <2>1. q = p
    BY <1>1 DEF Upcoming
  <2>2. QED
    BY <1>1, <2>1, RoutingReady DEF Routing
<1>2. CASE p.at = "next" /\ p.job = "dispatch"
  <2>1. PICK m \in p.batch :
          q = [p EXCEPT !.batch = @ \ {m}, !.msg = m, !.task = sent[m].task]
    BY <1>2 DEF Upcoming
  <2>2. m \in 1..Len(sent) /\ m \in Nat
    BY <1>0, <2>1 DEF Shape
  <2>3. sent[m].task \in Tasks
    BY <1>0, <2>2 DEF Handoff
  <2>4. p.lead # None /\ p.leads \subseteq Sessions /\ p.team = {} /\ p.batch \subseteq 1..Len(sent)
    BY <1>0, <1>2, <2>1 DEF Shape, Inboxes
  <2>5. /\ q \in Pass /\ q.job = "dispatch" /\ q.at = "next" /\ q.leads = p.leads
        /\ q.team = p.team /\ q.batch = p.batch \ {m} /\ q.lead = p.lead /\ q.msg = m
        /\ q.task = sent[m].task
    BY <1>0, <1>2, <2>1, <2>2, <2>3 DEF Pass
  <2>6. Ready(q, sent)
    BY <2>2, <2>3, <2>4, <2>5 DEF Ready, Inboxes, Listed
  <2>7. QED
    BY <1>2, <2>1, <2>5, <2>6 DEF Listed
<1>3. CASE p.at = "next" /\ p.job \in Listed
  <2>1. PICK r \in p.leads : q = [p EXCEPT !.leads = @ \ {r}, !.task = r[1], !.lead = r[2]]
    BY <1>3 DEF Upcoming, Listed
  <2>2. r \in Tasks \X Lead
    BY <1>0, <1>3, <2>1 DEF Shape
  <2>3. r[1] \in Tasks /\ r[2] \in Lead /\ r = <<r[1], r[2]>>
    BY <2>2
  <2>4. p.leads \subseteq Tasks \X Lead /\ p.team = {} /\ p.batch = {} /\ p.msg = 0
    BY <1>0, <1>3 DEF Shape, Inboxes, Listed
  <2>5. /\ q \in Pass /\ q.job = p.job /\ q.at = "next" /\ q.leads = p.leads \ {r}
        /\ q.team = {} /\ q.batch = {} /\ q.lead = r[2] /\ q.msg = 0 /\ q.task = r[1]
    BY <1>0, <1>3, <2>1, <2>3, <2>4 DEF Pass
  <2>6. Ready(q, sent)
    BY <1>3, <2>3, <2>4, <2>5 DEF Ready, Inboxes, Listed
  <2>7. QED
    BY <1>3, <2>1, <2>3, <2>4, <2>5, <2>6 DEF Listed
<1>4. QED
  BY <1>1, <1>2, <1>3 DEF Upcoming, Listed

\* An error ends the routing of a task.
LEMMA GivenUp ==
  ASSUME TypeInv, NEW k \in Coordinators, NEW q, Ready(q, sent), GiveUp(k, q)
  PROVE  /\ origin' \in [Tasks -> {"none", "handoff", "assign", "pending", "dispatched",
                                   "failed", "due", "ran", "dropped"}]
         /\ \E r : /\ Shape(r, sent, Born) /\ pass' = [pass EXCEPT ![k] = r]
                   /\ r.at \in {"idle", "next"} /\ r.msg = 0
                   /\ \/ r = NoPass
                      \/ /\ q.job = "remote" /\ r = Clear(q)
                         /\ origin' = [origin EXCEPT ![q.task] = "failed"]
                   /\ q.job # "remote" => r = NoPass /\ origin' = origin
<1>0. RowTypes /\ q.task \in Tasks /\ Len(sent) \in Nat
  BY TypesNow DEF Ready
<1>1. CASE q.job = "remote"
  <2>1. Shape(Clear(q), sent, Born) /\ Clear(q).at = "next" /\ Clear(q).msg = 0
    BY <1>0, <1>1, ClearShape
  <2>2. origin' = [origin EXCEPT ![q.task] = "failed"] /\ pass' = [pass EXCEPT ![k] = Clear(q)]
    BY <1>1 DEF GiveUp, Set
  <2>3. QED
    BY <1>0, <1>1, <2>1, <2>2 DEF RowTypes
<1>2. CASE q.job # "remote"
  BY <1>0, <1>2, NoPassShape DEF GiveUp, Set, RowTypes
<1>3. QED
  BY <1>1, <1>2

LEMMA RefusedTasks ==
  ASSUME RowTypes, NEW q, q.task \in Tasks, Refuse(q)
  PROVE  refused' \subseteq Tasks
BY DEF Refuse, RowTypes

LEMMA LeadIsGoneTypes ==
  ASSUME TypeInv, NEW k \in Coordinators, LeadIsGone(k)
  PROVE  TypeInv'
<1>1. PICK q \in Upcoming(pass[k]) : GiveUp(k, q) /\ Refuse(q)
  BY DEF LeadIsGone
<1>2. Ready(q, sent) /\ q.task \in Tasks
  <2>1. Ready(q, sent)
    BY UpcomingReady
  <2>2. QED
    BY <2>1 DEF Ready
<1>3. PICK r : Shape(r, sent, Born) /\ pass' = [pass EXCEPT ![k] = r]
  BY <1>1, <1>2, GivenUp
<1>4. RowTypes'
  BY <1>1, <1>2, TypesNow, GivenUp, RefusedTasks DEF LeadIsGone, RowTypes, rows, mail
<1>5. QED
  BY <1>3, <1>4, OnwardAlone DEF LeadIsGone, mail

\* What assign_session decides.
LEMMA DecideCases ==
  ASSUME TypeInv, NEW k \in Coordinators, Decide(k)
  PROVE  \E q \in Upcoming(pass[k]) :
           /\ q.lead # None => Present(q.lead)
           /\ Ready(q, sent)
           /\ \/ refused' = refused /\ Set(k, [q EXCEPT !.at = "queue"])
              \/ /\ q.lead # None /\ Cardinality(Delegates(q.lead)) >= MaxTeam
                 /\ \E d \in Delegates(q.lead) : UnreadOf(d) # {} /\ Defer(k, q)
              \/ /\ q.lead # None /\ refused' = refused
                 /\ \E d \in Delegates(q.lead) :
                      UnreadOf(d) = {} /\ Set(k, [q EXCEPT !.at = "send", !.to = d])
<1>1. PICK q \in Upcoming(pass[k]) :
        /\ q.lead # None => Present(q.lead)
        /\ \/ Set(k, [q EXCEPT !.at = "queue"]) /\ refused' = refused
           \/ /\ q.lead # None /\ Cardinality(Delegates(q.lead)) >= MaxTeam
              /\ \E d \in Delegates(q.lead) :
                   \/ UnreadOf(d) # {} /\ Defer(k, q)
                   \/ UnreadOf(d) = {} /\ Set(k, [q EXCEPT !.at = "send", !.to = d])
                      /\ refused' = refused
  BY DEF Decide
<1>2. Ready(q, sent)
  BY UpcomingReady
<1>3. QED
  BY <1>1, <1>2

\* Where a deferral leaves the pass.
LEMMA Deferred ==
  ASSUME TypeInv, NEW k \in Coordinators, NEW q, Ready(q, sent), Defer(k, q),
         q.lead # None => q.lead \in Born
  PROVE  \E r : /\ Shape(r, sent, Born) /\ pass' = [pass EXCEPT ![k] = r]
                /\ \/ q.job = "rebalance" /\ r = [q EXCEPT !.at = "settle", !.to = q.lead]
                   \/ q.job = "assign" /\ r = NoPass
                   \/ q.job \in {"dispatch"} \cup Listed /\ r = Clear(q)
<1>0. Len(sent) \in Nat /\ q \in Pass /\ q.job \in {"assign", "rebalance", "dispatch"} \cup Listed
  BY TypesNow DEF Ready, Pass, Inboxes
<1>1. CASE q.job = "rebalance"
  <2> DEFINE r == [q EXCEPT !.at = "settle", !.to = q.lead]
  <2>1. /\ r \in Pass /\ r.at = "settle" /\ r.to = q.lead /\ r.job = q.job /\ r.task = q.task
        /\ r.lead = q.lead /\ r.leads = q.leads /\ r.msg = q.msg /\ r.team = q.team
        /\ r.batch = q.batch /\ r.left = q.left
    BY <1>0 DEF Pass, Routing
  <2>2. pass' = [pass EXCEPT ![k] = r]
    BY <1>1 DEF Defer, Set
  <2> HIDE DEF r
  <2>3. Ready(r, sent)
    BY <1>0, <2>1 DEF Ready
  <2>4. Shape(r, sent, Born)
    BY <1>0, <2>1, <2>3, ReadyShape
  <2>5. QED
    BY <1>1, <2>2, <2>4 DEF r
<1>2. CASE q.job = "assign"
  BY <1>2, NoPassShape DEF Defer, Set
<1>3. CASE q.job \in {"dispatch"} \cup Listed
  <2>1. pass' = [pass EXCEPT ![k] = Clear(q)]
    BY <1>3 DEF Defer, Set, Listed
  <2>2. Shape(Clear(q), sent, Born)
    BY <1>0, <1>3, ClearShape DEF Listed
  <2>3. QED
    BY <1>3, <2>1, <2>2
<1>4. QED
  BY <1>0, <1>1, <1>2, <1>3

LEMMA DecideTypes ==
  ASSUME TypeInv, NEW k \in Coordinators, Decide(k)
  PROVE  TypeInv'
<1>1. PICK q \in Upcoming(pass[k]) :
        /\ q.lead # None => Present(q.lead)
        /\ Ready(q, sent)
        /\ \/ refused' = refused /\ Set(k, [q EXCEPT !.at = "queue"])
           \/ Defer(k, q)
           \/ /\ q.lead # None /\ refused' = refused
              /\ \E d \in Delegates(q.lead) : Set(k, [q EXCEPT !.at = "send", !.to = d])
  BY DecideCases
<1>2. /\ Len(sent) \in Nat /\ q \in Pass /\ q.task \in Tasks
      /\ q.lead # None => q.lead \in Born
  BY <1>1, TypesNow DEF Ready, Present, Pass, Lead, Born
<1>3. RowTypes'
  <2>1. refused' \subseteq Tasks
    BY <1>1, <1>2, TypesNow, RefusedTasks DEF Defer, RowTypes
  <2>2. QED
    BY <2>1, TypesNow DEF Decide, Unchanging, RowTypes, rows, mail, arrived
<1>4. \E r : Shape(r, sent, Born) /\ pass' = [pass EXCEPT ![k] = r]
  <2>1. ASSUME NEW r \in Pass, r.at \in {"queue", "send"}, Set(k, r),
               r.at = "send" => q.lead # None /\ r.to \in Born /\ r.to # None,
               r.at = "queue" => r.to = q.to,
               r.job = q.job, r.task = q.task, r.lead = q.lead, r.leads = q.leads,
               r.msg = q.msg, r.team = q.team, r.batch = q.batch, r.left = q.left
        PROVE  Shape(r, sent, Born) /\ pass' = [pass EXCEPT ![k] = r]
    <3>1. Ready(r, sent)
      BY <1>1, <2>1 DEF Ready
    <3>2. QED
      BY <1>2, <2>1, <3>1, ReadyShape DEF Set
  <2>2. CASE Set(k, [q EXCEPT !.at = "queue"])
    <3> DEFINE r == [q EXCEPT !.at = "queue"]
    <3>1. /\ r \in Pass /\ r.at = "queue" /\ r.to = q.to /\ r.job = q.job /\ r.task = q.task
          /\ r.lead = q.lead /\ r.leads = q.leads /\ r.msg = q.msg /\ r.team = q.team
          /\ r.batch = q.batch /\ r.left = q.left
      BY <1>2 DEF Pass, Routing
    <3>2. Set(k, r)
      BY <2>2
    <3> HIDE DEF r
    <3>3. QED
      BY <2>1, <3>1, <3>2
  <2>3. ASSUME NEW d \in Delegates(q.lead), q.lead # None,
               Set(k, [q EXCEPT !.at = "send", !.to = d])
        PROVE  \E r : Shape(r, sent, Born) /\ pass' = [pass EXCEPT ![k] = r]
    <3> DEFINE r == [q EXCEPT !.at = "send", !.to = d]
    <3>0. d \in Sessions /\ d \in Born /\ d # None
      BY RoutingAssumption DEF RoutingAssumption, Delegates, Born
    <3>1. /\ r \in Pass /\ r.at = "send" /\ r.to = d /\ r.job = q.job /\ r.task = q.task
          /\ r.lead = q.lead /\ r.leads = q.leads /\ r.msg = q.msg /\ r.team = q.team
          /\ r.batch = q.batch /\ r.left = q.left
      BY <1>2, <3>0 DEF Pass, Routing, Lead
    <3>2. Set(k, r)
      BY <2>3
    <3> HIDE DEF r
    <3>3. QED
      BY <2>1, <2>3, <3>0, <3>1, <3>2
  <2>4. CASE Defer(k, q)
    BY <1>1, <1>2, <2>4, Deferred
  <2>5. QED
    BY <1>1, <2>2, <2>3, <2>4
<1>5. PICK r : Shape(r, sent, Born) /\ pass' = [pass EXCEPT ![k] = r]
  BY <1>4
<1>6. QED
  BY <1>3, <1>5, OnwardAlone DEF Decide, Unchanging, mail

\* A session is born, for the task of a pass that is about to start one.
LEMMA BornAnew ==
  ASSUME TypeInv, NEW k \in Coordinators, NEW s \in Sessions, NEW st \in {"active", "ended"},
         NewSession(k, s, st), UNCHANGED sent
  PROVE  /\ Grows /\ \A r \in Sessions : state'[r] = "none" => work'[r] = None
         /\ state' \in [Sessions -> {"none", "active", "ended", "deleting", "deleted"}]
         /\ work' \in [Sessions -> Tasks \cup {None}] /\ parent' \in [Sessions -> Lead]
         /\ Born' = Born \cup {s} /\ s \notin Born
         /\ work[s] = None /\ work' = [work EXCEPT ![s] = pass[k].task]
<1>1. /\ state' = [state EXCEPT ![s] = st] /\ work' = [work EXCEPT ![s] = pass[k].task]
      /\ parent' = [parent EXCEPT ![s] = pass[k].lead] /\ state[s] = "none"
      /\ pass[k].at = "queue"
  BY DEF NewSession, At
<1>2. /\ RowTypes /\ pass[k].task \in Tasks \cup {None} /\ pass[k].lead \in Lead
      /\ \A r \in Sessions : state[r] = "none" => work[r] = None
  BY TypesNow DEF Pass, Shapes
<1>3. Born' = Born \cup {s} /\ s \notin Born
  BY <1>1, <1>2 DEF Born, RowTypes
<1>4. Grows
  BY <1>3 DEF Grows, TypeInv, TypeOK, Shapes
<1>5. QED
  BY <1>1, <1>2, <1>3, <1>4 DEF RowTypes

LEMMA PassedOnTypes ==
  ASSUME TypeInv, NEW k \in Coordinators, PassedOn(pass[k]), Ready(pass[k], sent)
  PROVE  times' \in [Messages -> Nat] /\ ran' \in [Tasks -> Nat]
<1>1. times \in [Messages -> Nat] /\ ran \in [Tasks -> Nat]
  BY DEF TypeInv, Shapes
<1>2. /\ pass[k].msg # 0 => pass[k].msg \in Messages
      /\ pass[k].task \in Tasks
  <2>1. pass[k].msg \in 0..Len(sent) /\ Len(sent) \in Nat /\ Len(sent) <= MaxSent
    BY TypesNow DEF Shape, RowTypes
  <2>2. pass[k].task \in Tasks
    BY DEF Ready
  <2>3. QED
    BY <2>1, <2>2, RoutingAssumption DEF RoutingAssumption, Messages
<1>3. CASE pass[k].msg = 0
  BY <1>1, <1>2, <1>3 DEF PassedOn
<1>4. CASE pass[k].msg # 0
  BY <1>1, <1>2, <1>4 DEF PassedOn
<1>5. QED
  BY <1>3, <1>4

LEMMA QueueTypes ==
  ASSUME TypeInv, NEW k \in Coordinators, NEW s \in Sessions, Queue(k, s)
  PROVE  TypeInv'
<1> USE RoutingAssumption DEF RoutingAssumption
<1> DEFINE p == pass[k]
           q == [p EXCEPT !.to = s, !.at = IF p.lead = None THEN "settle" ELSE "send"]
<1>1. /\ p \in Pass /\ Shape(p, sent, Born) /\ p.at = "queue" /\ Len(sent) \in Nat /\ RowTypes
  BY TypesNow DEF Queue, NewSession, At
<1>2. Ready(p, sent)
  BY <1>1, RoutingReady DEF Routing
<1>3. /\ Grows /\ \A r \in Sessions : state'[r] = "none" => work'[r] = None
      /\ state' \in [Sessions -> {"none", "active", "ended", "deleting", "deleted"}]
      /\ work' \in [Sessions -> Tasks \cup {None}] /\ parent' \in [Sessions -> Lead]
      /\ Born' = Born \cup {s}
  BY BornAnew DEF Queue, mail
<1>4. /\ q \in Pass /\ q.to = s /\ q.job = p.job /\ q.task = p.task
      /\ q.lead = p.lead /\ q.leads = p.leads /\ q.msg = p.msg /\ q.team = p.team
      /\ q.batch = p.batch /\ q.left = p.left
      /\ q.at = (IF p.lead = None THEN "settle" ELSE "send")
  BY <1>1 DEF Pass, Routing, Lead
<1>5. pass' = [pass EXCEPT ![k] = q] /\ sent' = sent
  BY DEF Queue, Set, mail
<1> HIDE DEF q
<1>6. Ready(q, sent)
  BY <1>2, <1>4 DEF Ready
<1>7. Shape(q, sent', Born')
  <2>1. p.lead # None => p.lead \in Born
    BY <1>1 DEF Shape
  <2>2. s # None
    OBVIOUS
  <2>3. QED
    BY <1>1, <1>3, <1>4, <1>5, <1>6, <2>1, <2>2, ReadyShape
<1>8. times' \in [Messages -> Nat] /\ ran' \in [Tasks -> Nat]
  BY <1>1, <1>2, PassedOnTypes DEF Queue, TypeInv, Shapes
<1>9. RowTypes'
  BY <1>1, <1>3 DEF Queue, RowTypes, mail, arrived
<1>10. QED
  BY <1>3, <1>5, <1>7, <1>8, <1>9, Onward

LEMMA QueueFailsTypes ==
  ASSUME TypeInv, NEW k \in Coordinators, QueueFails(k)
  PROVE  TypeInv'
<1> USE RoutingAssumption DEF RoutingAssumption
<1>1. /\ pass[k].at = "queue" /\ RowTypes /\ sent' = sent
  BY TypesNow DEF QueueFails, At, mail
<1>2. Ready(pass[k], sent) /\ pass[k].task \in Tasks
  <2>1. Ready(pass[k], sent)
    BY <1>1, RoutingReady DEF Routing
  <2>2. QED
    BY <2>1 DEF Ready
<1>3. /\ Grows /\ \A r \in Sessions : state'[r] = "none" => work'[r] = None
      /\ state' \in [Sessions -> {"none", "active", "ended", "deleting", "deleted"}]
      /\ work' \in [Sessions -> Tasks \cup {None}] /\ parent' \in [Sessions -> Lead]
  <2>1. CASE UNCHANGED rows
    BY <1>1, <2>1, Stays DEF rows, RowTypes
  <2>2. ASSUME NEW s \in Sessions, NewSession(k, s, "ended") PROVE <1>3!1
    BY <1>1, <2>2, BornAnew
  <2>3. QED
    BY <2>1, BornAnew, <1>1 DEF QueueFails
<1>4. PICK r : Shape(r, sent, Born) /\ pass' = [pass EXCEPT ![k] = r]
  BY <1>2, GivenUp DEF QueueFails
<1>5. Shape(r, sent', Born')
  BY <1>3, <1>4, ShapeGrows
<1>6. RowTypes'
  BY <1>1, <1>2, <1>3, GivenUp, RefusedTasks DEF QueueFails, CutOff, Mishap, RowTypes, mail
<1>7. times' \in [Messages -> Nat] /\ ran' \in [Tasks -> Nat]
  BY DEF QueueFails, TypeInv, Shapes
<1>8. QED
  BY <1>3, <1>4, <1>5, <1>6, <1>7, Onward

LEMMA SendTypes ==
  ASSUME TypeInv, NEW k \in Coordinators, Send(k)
  PROVE  TypeInv'
<1> USE RoutingAssumption DEF RoutingAssumption
<1> DEFINE p == pass[k]
           q == [p EXCEPT !.at = "settle"]
<1>1. /\ p \in Pass /\ Shape(p, sent, Born) /\ p.at = "send" /\ Len(sent) \in Nat /\ RowTypes
  BY TypesNow DEF Send, At
<1>2. Ready(p, sent)
  BY <1>1, RoutingReady DEF Routing
<1>3. p.lead \in Sessions /\ p.to \in Sessions /\ p.to \in Born /\ p.task \in Tasks
  BY <1>1, <1>2 DEF Shape, Pass, Lead, Ready
<1>4. Born' = Born
  BY DEF Send, rows, Born
<1>5. /\ Grows /\ unread' \subseteq 1..Len(sent') /\ Len(sent') <= MaxSent
      /\ unread' \subseteq stored' /\ stored' \subseteq 1..Len(sent')
  BY <1>3, <1>4, Posted DEF Send, Message, Handoff
<1>6. /\ q \in Pass /\ q.at = "settle" /\ q.to = p.to /\ q.job = p.job /\ q.task = p.task
      /\ q.lead = p.lead /\ q.leads = p.leads /\ q.msg = p.msg /\ q.team = p.team
      /\ q.batch = p.batch /\ q.left = p.left
  BY <1>1 DEF Pass, Routing
<1>7. pass' = [pass EXCEPT ![k] = q]
  BY DEF Send, Set
<1> HIDE DEF q
<1>8. Ready(q, sent)
  BY <1>2, <1>6 DEF Ready
<1>9. Shape(q, sent', Born')
  BY <1>1, <1>3, <1>5, <1>6, <1>8, ReadyShape, ShapeGrows
<1>10. times' \in [Messages -> Nat] /\ ran' \in [Tasks -> Nat]
  BY <1>2, PassedOnTypes DEF Send
<1>11. RowTypes'
  BY <1>1, <1>5 DEF Send, RowTypes, rows, arrived
<1>12. \A r \in Sessions : state'[r] = "none" => work'[r] = None
  BY DEF Send, rows, TypeInv, Shapes
<1>13. QED
  BY <1>5, <1>7, <1>9, <1>10, <1>11, <1>12, Onward

LEMMA SettleTypes ==
  ASSUME TypeInv, NEW k \in Coordinators,
         \/ SettleHandoff(k) \/ SettleMoved(k) \/ SettleRequest(k)
         \/ record_scheduled_task_run(k) \/ SettleAssign(k) \/ Crash(k)
  PROVE  TypeInv'
<1> USE RoutingAssumption DEF RoutingAssumption
<1> DEFINE p == pass[k]
<1>1. p.at \in Routing
  BY DEF SettleHandoff, SettleMoved, SettleRequest, record_scheduled_task_run,
         SettleAssign, Crash, At, Routing
<1>2. Ready(p, sent) /\ RowTypes /\ Len(sent) \in Nat
  BY <1>1, RoutingReady, TypesNow
<1>3. p.task \in Tasks /\ p \in Pass
  BY <1>2 DEF Ready
<1>4. RowTypes'
  <2>1. CASE SettleHandoff(k)
    BY <1>2, <2>1 DEF SettleHandoff, RowTypes, rows, arrived, history
  <2>2. CASE SettleMoved(k)
    BY <1>2, <1>3, <2>2 DEF SettleMoved, RowTypes, rows, arrived
  <2>3. CASE SettleRequest(k)
    BY <1>2, <1>3, <2>3 DEF SettleRequest, RowTypes, rows, mail, history
  <2>4. CASE record_scheduled_task_run(k)
    BY <1>2, <1>3, <2>4 DEF record_scheduled_task_run, RowTypes, rows, mail, history
  <2>5. CASE SettleAssign(k)
    BY <1>2, <2>5 DEF SettleAssign, RowTypes, rows, mail, arrived, history
  <2>6. CASE Crash(k)
    BY <1>2, <1>3, <2>6 DEF Crash, CutOff, Mishap, RowTypes, rows, mail, arrived
  <2>7. QED
    BY <2>1, <2>2, <2>3, <2>4, <2>5, <2>6
<1>5. UNCHANGED <<rows, sent, times, ran>>
  BY DEF SettleHandoff, SettleMoved, SettleRequest, record_scheduled_task_run,
         SettleAssign, Crash, rows, mail, history
<1>6. \E r : Shape(r, sent, Born) /\ pass' = [pass EXCEPT ![k] = r]
  <2>1. CASE SettleAssign(k) \/ Crash(k)
    BY <2>1, NoPassShape DEF SettleAssign, Crash, Set
  <2>2. CASE p.job # "assign" /\ Set(k, Clear(p))
    BY <1>2, <2>2, ClearShape DEF Set
  <2>3. CASE SettleMoved(k) /\ Set(k, [Clear(p) EXCEPT !.left = @ - 1])
    <3> DEFINE c == Clear(p) q == [c EXCEPT !.left = @ - 1]
    <3>1. Shape(c, sent, Born) /\ c.at = "next" /\ c.job = "rebalance"
      BY <1>2, <2>3, ClearShape DEF SettleMoved
    <3>2. c.left = p.left /\ p.left \in 0..Limit /\ p.left > 0
      BY <1>2, <1>3, <2>3 DEF Clear, Pass, Ready, SettleMoved
    <3>3. c \in Pass
      BY <3>1 DEF Shape
    <3> HIDE DEF c
    <3>4. p.left - 1 \in 0..Limit
      BY <3>2
    <3>5. /\ q \in Pass /\ q.at = c.at /\ q.to = c.to /\ q.job = c.job /\ q.task = c.task
          /\ q.lead = c.lead /\ q.leads = c.leads /\ q.msg = c.msg /\ q.team = c.team
          /\ q.batch = c.batch
      BY <3>2, <3>3, <3>4 DEF Pass
    <3> HIDE DEF q
    <3>6. Shape(q, sent, Born)
      BY <3>1, <3>5 DEF Shape, Routing, Inboxes, Listed
    <3>7. pass' = [pass EXCEPT ![k] = q]
      BY <2>3 DEF Set, q, c
    <3>8. QED
      BY <3>6, <3>7
  <2>4. QED
    BY <2>1, <2>2, <2>3
       DEF SettleHandoff, SettleMoved, SettleRequest, record_scheduled_task_run
<1>7. QED
  BY <1>4, <1>5, <1>6, OnwardAlone

LEMMA StepTypes ==
  ASSUME TypeInv, [Next]_vars
  PROVE  TypeInv'
<1>1. CASE Environment
  <2>1. None \in Lead
    BY DEF Lead
  <2>2. QED
    BY <1>1, <2>1, HandOffTypes, ArrivalTypes, SessionTypes, SettleTypes, QueueFailsTypes
       DEF Environment, Lead
<1>2. ASSUME NEW k \in Coordinators, PassStep(k) PROVE TypeInv'
  BY <1>2, LookTypes, LeadIsGoneTypes, DecideTypes, QueueTypes, SendTypes, SettleTypes
     DEF PassStep
<1>3. ASSUME NEW k \in Coordinators, Start(k) PROVE TypeInv'
  BY <1>3, StartTypes
<1>4. CASE UNCHANGED vars
  <2>1. RowTypes'
    BY <1>4, TypesNow DEF RowTypes, vars, rows, mail, arrived, history
  <2>2. QED
    BY <1>4, <2>1, Stays, Elsewhere DEF vars, mail, history
<1>5. QED
  BY <1>1, <1>2, <1>3, <1>4 DEF Next

LEMMA InitTypes == Init => TypeInv
<1> SUFFICES ASSUME Init PROVE TypeInv
  OBVIOUS
<1> USE RoutingAssumption DEF RoutingAssumption
<1>0. sent = Backlog
  BY DEF Init
<1>1. Len(sent) \in Nat /\ sent \in Seq(Handoff) /\ Len(sent) <= MaxSent
  BY <1>0 DEF Handoff
<1>2. \A m \in 1..Len(sent) : sent[m] \in Handoff /\ sent[m].to \in Started
  BY <1>0, <1>1
<1>4. \A s \in Started : s \in Born
  BY DEF Init, Born
<1>5. RowTypes
  <2>1. origin \in [Tasks -> {"none", "handoff"}]
    BY DEF Init
  <2>2. /\ unread \subseteq stored /\ stored \subseteq 1..Len(sent)
        /\ unread \subseteq 1..Len(sent) /\ Len(sent) <= MaxSent
    BY <1>0, <1>1 DEF Init
  <2>3. /\ state \in [Sessions -> {"none", "active", "ended", "deleting", "deleted"}]
        /\ work \in [Sessions -> Tasks \cup {None}]
        /\ parent \in [Sessions -> Lead] /\ target \in [Tasks -> Lead]
    BY DEF Init, Lead
  <2>4. /\ begun \in 0..MaxPasses /\ mishaps \in 0..MaxMishaps
        /\ viewed \subseteq Tasks /\ erased \subseteq Tasks /\ refused \subseteq Tasks
        /\ mislaid \subseteq Tasks /\ cut \subseteq Tasks
    BY DEF Init
  <2>5. raced \in BOOLEAN
    BY DEF Init
  <2>6. QED
    BY <2>1, <2>2, <2>3, <2>4, <2>5 DEF RowTypes
<1>6. Shape(NoPass, sent, Born) /\ NoPass \in Pass
  <2>1. NoPass \in Pass
    BY DEF NoPass, Pass, Routing, Lead, Inboxes, Listed
  <2>2. 0 \in 0..Len(sent)
    BY <1>1
  <2>3. QED
    BY <2>1, <2>2 DEF Shape, NoPass, Routing, Inboxes, Listed
<1>7. Shapes
  <2>1. pass \in [Coordinators -> Pass] /\ \A k \in Coordinators : Shape(pass[k], sent, Born)
    BY <1>6 DEF Init
  <2>2. \A m \in 1..Len(sent) : sent[m].to \in Born
    BY <1>2, <1>4
  <2>3. \A s \in Sessions : state[s] = "none" => work[s] = None
    BY DEF Init
  <2>4. times \in [Messages -> Nat] /\ ran \in [Tasks -> Nat]
    BY DEF Init
  <2>5. QED
    BY <1>1, <2>1, <2>2, <2>3, <2>4 DEF Shapes
<1>8. QED
  BY <1>2, <1>5, <1>7 DEF TypeInv, TypeOK, RowTypes, Shapes, Shape, Pass, Lead, Handoff

\* Type correctness: what a pass keeps of messages, leads and requests stays among
\* those that there are, and no rebalance moves more than the limit.
THEOREM RoutingTypeCorrect == Spec => []TypeOK
<1>1. TypeInv /\ [Next]_vars => TypeInv'
  BY StepTypes
<1>2. TypeInv => TypeOK
  BY DEF TypeInv
<1>3. QED
  BY InitTypes, <1>1, <1>2, PTL DEF Spec

(***************************************************************************)
(* When two passes are at work at one time, raced says so.                 *)
(***************************************************************************)
AloneInv == \A j, k \in Coordinators : j # k => raced \/ At(j, "idle") \/ At(k, "idle")

\* A step is the environment's, or takes one pass on; only the start of a pass
\* wakes it.
LEMMA Moves ==
  ASSUME TypeInv, [Next]_vars
  PROVE  /\ raced => raced'
         /\ \/ pass' = pass
            \/ \E k \in Coordinators, q \in Pass :
                 /\ pass' = [pass EXCEPT ![k] = q]
                 /\ ~At(k, "idle") \/ Enter(k)
<1>1. CASE Environment /\ ~\E k \in Coordinators : Crash(k) \/ QueueFails(k)
  <2>1. ASSUME NEW f \in Sessions, NEW l \in Sessions, NEW t \in Tasks, HandOff(f, l, t)
        PROVE  (raced => raced') /\ pass' = pass
    <3>1. raced' <=> raced \/ \E k \in Coordinators : pass[k].at = "decide"
      BY <2>1 DEF HandOff
    <3>2. QED
      BY <2>1, <3>1 DEF HandOff
  <2>2. ASSUME NEW t \in Tasks, NEW l \in Lead,
               ComeDue(t) \/ delete_scheduled_task(t) \/ Request(t, l)
        PROVE  (raced => raced') /\ pass' = pass
    BY <2>2 DEF ComeDue, delete_scheduled_task, Request, history
  <2>3. ASSUME NEW s \in Sessions, View(s) \/ End(s) \/ DeleteMessages(s) \/ DeleteRow(s)
        PROVE  (raced => raced') /\ pass' = pass
    BY <2>3 DEF View, End, DeleteMessages, DeleteRow, history
  <2>4. None \in Lead
    BY DEF Lead
  <2>5. QED
    BY <1>1, <2>1, <2>2, <2>3, <2>4 DEF Environment, Lead
<1>2. ASSUME NEW k \in Coordinators, PassStep(k) \/ Start(k) \/ Crash(k) \/ QueueFails(k)
      PROVE  /\ raced => raced'
             /\ \E q : pass' = [pass EXCEPT ![k] = q]
             /\ ~At(k, "idle") \/ Enter(k)
  <2>1. CASE Start(k)
    <3>1. Enter(k) /\ \E q : Set(k, q)
      BY <2>1 DEF Start, StartDispatch, StartRebalance, StartRemote, StartDue, StartAssign,
                  Begin
    <3>2. raced' <=> raced \/ \E j \in Coordinators \ {k} : pass[j].at # "idle"
      BY <3>1 DEF Enter
    <3>3. QED
      BY <3>1, <3>2 DEF Set
  <2>2. CASE EndPass(k) \/ NextLead(k) \/ NextDelegate(k) \/ NextMoved(k)
    <3>1. \E q : Set(k, q)
      BY <2>2 DEF EndPass, NextLead, NextDelegate, NextMoved
    <3>2. At(k, "next") /\ raced' = raced
      BY <2>2 DEF EndPass, NextLead, NextDelegate, NextMoved, history
    <3>3. QED
      BY <3>1, <3>2 DEF At, Set
  <2>3. CASE LeadIsGone(k)
    <3>1. pass[k].at # "idle"
      BY <2>3 DEF LeadIsGone, Upcoming
    <3>2. QED
      BY <2>3, <3>1 DEF LeadIsGone, GiveUp, At, Set
  <2>4. CASE Decide(k)
    <3>1. pass[k].at # "idle"
      BY <2>4 DEF Decide, Upcoming
    <3>2. \E q : Set(k, q)
      BY <2>4 DEF Decide, Defer
    <3>3. QED
      BY <2>4, <3>1, <3>2 DEF Decide, Unchanging, At, Set
  <2>5. CASE Send(k) \/ \E s \in Sessions : Queue(k, s)
    <3>1. At(k, "send") \/ At(k, "queue")
      BY <2>5 DEF Send, Queue, NewSession
    <3>2. raced' = raced /\ \E q : Set(k, q)
      BY <2>5 DEF Send, Queue
    <3>3. QED
      BY <3>1, <3>2 DEF At, Set
  <2>6. CASE SettleHandoff(k) \/ SettleMoved(k) \/ SettleRequest(k)
             \/ record_scheduled_task_run(k) \/ SettleAssign(k)
    BY <2>6 DEF SettleHandoff, SettleMoved, SettleRequest, record_scheduled_task_run,
                SettleAssign, At, Set, history
  <2>7. CASE Crash(k) \/ QueueFails(k)
    BY <2>7 DEF Crash, QueueFails, GiveUp, At, Set
  <2>8. QED
    BY <1>2, <2>1, <2>2, <2>3, <2>4, <2>5, <2>6, <2>7 DEF PassStep
<1>3. CASE UNCHANGED vars
  BY <1>3 DEF vars, history
<1>4. ASSUME NEW k \in Coordinators, PassStep(k) \/ Start(k) \/ Crash(k) \/ QueueFails(k)
      PROVE  \E q \in Pass : pass' = [pass EXCEPT ![k] = q]
  <2>1. pass' \in [Coordinators -> Pass] /\ pass \in [Coordinators -> Pass]
    BY StepTypes DEF TypeInv, Shapes
  <2>2. PICK q : pass' = [pass EXCEPT ![k] = q]
    BY <1>2, <1>4
  <2>3. pass'[k] = q
    BY <2>1, <2>2
  <2>4. QED
    BY <2>1, <2>2, <2>3
<1>5. QED
  BY <1>1, <1>2, <1>3, <1>4 DEF Next, Environment

LEMMA AloneStep ==
  ASSUME TypeInv, AloneInv, [Next]_vars
  PROVE  AloneInv'
<1>1. raced => raced'
  BY Moves
<1>2. CASE pass' = pass
  BY <1>1, <1>2 DEF AloneInv, At
<1>3. ASSUME NEW k \in Coordinators, NEW q \in Pass, pass' = [pass EXCEPT ![k] = q],
             ~At(k, "idle") \/ Enter(k)
      PROVE  AloneInv'
  <2>1. \A j \in Coordinators : j # k => pass'[j] = pass[j]
    BY <1>3 DEF TypeInv, Shapes
  <2>2. CASE ~At(k, "idle")
    BY <1>1, <2>1, <2>2 DEF AloneInv, At
  <2>3. CASE Enter(k)
    <3>1. raced' <=> raced \/ \E j \in Coordinators \ {k} : pass[j].at # "idle"
      BY <2>3 DEF Enter
    <3>2. QED
      BY <2>1, <3>1 DEF AloneInv, At
  <2>4. QED
    BY <1>3, <2>2, <2>3
<1>4. QED
  BY <1>2, <1>3, Moves

LEMMA AloneInit == Init => AloneInv
BY DEF Init, AloneInv, At, NoPass

(***************************************************************************)
(* What the steps of a pass do, in the terms of the invariants below.      *)
(***************************************************************************)
\* The tasks of a list of requests or occurrences, each once.
Unsettled(p, org) ==
  /\ \A r \in p.leads : org[r[1]] = IF p.job = "remote" THEN "pending" ELSE "due"
  /\ \A r, u \in p.leads : r[1] = u[1] => r = u

LEMMA StartEffect ==
  ASSUME TypeInv, NEW k \in Coordinators, Start(k)
  PROVE  /\ At(k, "idle") /\ Enter(k) /\ UNCHANGED <<rows, mail, target>>
         /\ \E q : /\ Set(k, q) /\ q.batch = {} /\ q.msg = 0
                   /\ \/ origin' = origin /\ q.at = "next" /\ q.job \in Inboxes
                      \/ /\ origin' = origin /\ q.at = "next" /\ q.job \in Listed
                         /\ Unsettled(q, origin)
                      \/ /\ q.at = "decide" /\ q.job = "assign" /\ q.task \in Tasks
                         /\ q.leads = {} /\ origin[q.task] = "none"
                         /\ origin' = [origin EXCEPT ![q.task] = "assign"]
<1> DEFINE Inbox(q) == q.at = "next" /\ q.job \in Inboxes
           List(q) == q.at = "next" /\ q.job \in Listed /\ Unsettled(q, origin)
<1>1. ASSUME NEW j, NEW more, NEW S, Begin(k, j, more, S),
             \/ j \in Inboxes
             \/ j \in Listed /\ \A q : q.job = j /\ q.leads = S => Unsettled(q, origin)
      PROVE  /\ At(k, "idle") /\ Enter(k) /\ UNCHANGED <<rows, mail, target>>
             /\ \E q : /\ Set(k, q) /\ q.batch = {} /\ q.msg = 0 /\ origin' = origin
                       /\ Inbox(q) \/ List(q)
  <2> DEFINE q == StartPass(j, more, S)
  <2>1. Set(k, q) /\ At(k, "idle") /\ Enter(k) /\ UNCHANGED <<rows, mail, arrived>>
    BY <1>1 DEF Begin
  <2>2. q.batch = {} /\ q.msg = 0 /\ q.at = "next" /\ q.job = j /\ q.leads = S
    BY DEF StartPass, NoPass
  <2> HIDE DEF q
  <2>3. Inbox(q) \/ List(q)
    BY <1>1, <2>2
  <2> HIDE DEF Inbox, List
  <2>4. QED
    BY <2>1, <2>2, <2>3 DEF arrived
<1>2. CASE StartRebalance(k) \/ \E more \in BOOLEAN : StartDispatch(k, more)
  <2>1. \E j \in Inboxes : \E more, S : Begin(k, j, more, S)
    BY <1>2 DEF StartRebalance, StartDispatch, Inboxes
  <2>2. QED
    BY <1>1, <2>1
<1>3. CASE StartRemote(k)
  <2>1. PICK T \in Pick({u \in Tasks : origin[u] = "pending"}, LeadLimit) :
          Begin(k, "remote", FALSE, {<<t, target[t]>> : t \in T})
    BY <1>3 DEF StartRemote
  <2> DEFINE S == {<<t, target[t]>> : t \in T}
  <2>2. ASSUME NEW q, q.job = "remote", q.leads = S PROVE Unsettled(q, origin)
    <3>1. \A t \in T : t \in Tasks /\ origin[t] = "pending"
      BY DEF Pick
    <3>2. QED
      BY <2>2, <3>1 DEF Unsettled
  <2>3. Begin(k, "remote", FALSE, S)
    BY <2>1
  <2> HIDE DEF S
  <2>4. QED
    BY <1>1, <2>2, <2>3 DEF Listed
<1>4. CASE StartDue(k)
  <2>1. PICK T \in Pick({u \in Tasks : origin[u] = "due"}, LeadLimit) :
          Begin(k, "due", FALSE, {<<t, None>> : t \in T})
    BY <1>4 DEF StartDue
  <2> DEFINE S == {<<t, None>> : t \in T}
  <2>2. ASSUME NEW q, q.job = "due", q.leads = S PROVE Unsettled(q, origin)
    <3>1. \A t \in T : t \in Tasks /\ origin[t] = "due"
      BY DEF Pick
    <3>2. QED
      BY <2>2, <3>1 DEF Unsettled
  <2>3. Begin(k, "due", FALSE, S)
    BY <2>1
  <2> HIDE DEF S
  <2>4. QED
    BY <1>1, <2>2, <2>3 DEF Listed
<1>5. ASSUME NEW l \in Sessions, NEW t \in Tasks, StartAssign(k, l, t)
      PROVE  /\ At(k, "idle") /\ Enter(k) /\ UNCHANGED <<rows, mail, target>>
             /\ \E q : /\ Set(k, q) /\ q.batch = {} /\ q.msg = 0 /\ q.leads = {}
                       /\ q.at = "decide" /\ q.job = "assign" /\ q.task = t
                       /\ origin[t] = "none" /\ origin' = [origin EXCEPT ![t] = "assign"]
  <2> DEFINE q == [NoPass EXCEPT !.job = "assign", !.at = "decide", !.lead = l, !.task = t]
  <2>1. /\ Set(k, q) /\ At(k, "idle") /\ Enter(k) /\ UNCHANGED <<rows, mail, target>>
        /\ origin[t] = "none" /\ origin' = [origin EXCEPT ![t] = "assign"]
    BY <1>5 DEF StartAssign, Arrive
  <2>2. /\ q.batch = {} /\ q.msg = 0 /\ q.leads = {} /\ q.at = "decide" /\ q.job = "assign"
        /\ q.task = t
    BY DEF NoPass
  <2> HIDE DEF q
  <2>3. QED
    BY <2>1, <2>2
<1>6. CASE \E l \in Sessions, t \in Tasks : StartAssign(k, l, t)
  BY <1>5, <1>6
<1>7. QED
  BY <1>2, <1>3, <1>4, <1>6 DEF Start

LEMMA LookEffect ==
  ASSUME TypeInv, NEW k \in Coordinators,
         EndPass(k) \/ NextLead(k) \/ NextDelegate(k) \/ NextMoved(k)
  PROVE  /\ At(k, "next") /\ UNCHANGED <<rows, mail, arrived, history>>
         /\ \E q : /\ Set(k, q)
                   /\ \/ q = NoPass
                      \/ /\ q.at = "next" /\ q.job \in Inboxes /\ q.msg = 0
                         /\ q.batch \subseteq pass[k].batch \cup unread
                      \/ /\ q.at = "decide" /\ q.job = "rebalance"
                         /\ q.msg \in pass[k].batch /\ q.msg \notin q.batch
                         /\ q.batch \subseteq pass[k].batch
                         /\ HasCapacity(q.lead)
<1> DEFINE p == pass[k]
           Look(q) == /\ q.at = "next" /\ q.job \in Inboxes /\ q.msg = 0
                      /\ q.batch \subseteq p.batch \cup unread
           Move(q) == /\ q.at = "decide" /\ q.job = "rebalance"
                      /\ q.msg \in p.batch /\ q.msg \notin q.batch
                      /\ q.batch \subseteq p.batch /\ HasCapacity(q.lead)
<1>1. At(k, "next") /\ UNCHANGED <<rows, mail, arrived, history>>
  BY DEF EndPass, NextLead, NextDelegate, NextMoved
<1>0. p \in Pass /\ Shape(p, sent, Born) /\ NoPass.at = "idle" /\ p.at = "next" /\ p.msg = 0
  BY <1>1, TypesNow, NoPassShape DEF At, Shape, Routing
<1>2. CASE EndPass(k)
  <2>1. CASE p.more
    <3>1. PICK S \in Pick(ActiveLeads, LeadLimit) : Set(k, StartPass("rebalance", FALSE, S))
      BY <1>2, <2>1 DEF EndPass
    <3>2. Look(StartPass("rebalance", FALSE, S))
      BY DEF StartPass, NoPass, Inboxes
    <3> HIDE DEF Look
    <3>3. \E q : Set(k, q) /\ Look(q)
      BY <3>1, <3>2
    <3>4. QED
      BY <1>1, <3>3 DEF Look
  <2>2. CASE ~p.more
    BY <1>1, <1>2, <2>2 DEF EndPass
  <2>3. QED
    BY <2>1, <2>2
<1>3. ASSUME NextLead(k) \/ NextDelegate(k) PROVE \E q : Set(k, q) /\ (q = NoPass \/ Look(q))
  <2>1. ASSUME NEW l, p.job \in Inboxes, NEW B, B \subseteq unread
        PROVE  Look([[p EXCEPT !.leads = @ \ {l}, !.lead = l] EXCEPT !.batch = B])
    BY <1>0, <2>1 DEF Pass
  <2>2. ASSUME NEW l, p.job \in Inboxes, p.batch = {}, NEW n, NEW D
        PROVE  Look([[p EXCEPT !.leads = @ \ {l}, !.lead = l] EXCEPT !.left = n, !.team = D])
    BY <1>0, <2>2 DEF Pass
  <2>3. ASSUME NEW D, p.job \in Inboxes, NEW B, B \subseteq unread
        PROVE  Look([p EXCEPT !.team = D, !.batch = B])
    BY <1>0, <2>3 DEF Pass
  <2>4. \A l, n : \A B \in Pick(UnreadOf(l), n) : B \subseteq unread
    BY DEF Pick, UnreadOf
  <2> HIDE DEF Look
  <2>5. CASE NextLead(k)
    <3>1. p.job \in Inboxes /\ p.batch = {}
      BY <2>5 DEF NextLead, Inboxes
    <3>2. PICK l \in p.leads :
            \/ Set(k, NoPass)
            \/ \E B \in Pick(UnreadOf(l), Limit) :
                 Set(k, [[p EXCEPT !.leads = @ \ {l}, !.lead = l] EXCEPT !.batch = B])
            \/ \E D : Set(k, [[p EXCEPT !.leads = @ \ {l}, !.lead = l]
                                EXCEPT !.left = Limit, !.team = D])
      BY <2>5 DEF NextLead
    <3>3. QED
      BY <2>1, <2>2, <2>4, <3>1, <3>2
  <2>6. CASE NextDelegate(k)
    <3>1. PICK d \in p.team : \E B \in Pick(UnreadOf(d), p.left) : \E D :
            Set(k, [p EXCEPT !.team = D, !.batch = B])
      BY <2>6 DEF NextDelegate
    <3>2. p.job \in Inboxes
      BY <1>0, <3>1 DEF Shape, Inboxes
    <3>3. QED
      BY <2>3, <2>4, <3>1, <3>2
  <2>7. QED
    BY <1>3, <2>5, <2>6
<1>4. ASSUME NextMoved(k) PROVE \E q : Set(k, q) /\ (Look(q) \/ Move(q))
  <2>1. PICK m \in p.batch :
          LET q == [p EXCEPT !.batch = @ \ {m}] IN
          Set(k, IF p.left = 0 \/ ~HasCapacity(p.lead) THEN [p EXCEPT !.batch = {}]
                 ELSE IF sent[m].from # p.lead THEN q
                 ELSE [q EXCEPT !.at = "decide", !.msg = m, !.task = sent[m].task])
    BY <1>4 DEF NextMoved
  <2>2. p.job = "rebalance"
    BY <1>4 DEF NextMoved
  <2>3. ASSUME NEW B, B \subseteq p.batch PROVE Look([p EXCEPT !.batch = B])
    BY <1>0, <2>2, <2>3 DEF Pass, Inboxes
  <2> DEFINE d == [[p EXCEPT !.batch = @ \ {m}]
                     EXCEPT !.at = "decide", !.msg = m, !.task = sent[m].task]
  <2>4. /\ d.at = "decide" /\ d.job = "rebalance" /\ d.msg = m /\ d.batch = p.batch \ {m}
        /\ d.lead = p.lead
    BY <1>0, <2>2 DEF Pass
  <2>5. HasCapacity(p.lead) => Move(d)
    BY <2>1, <2>4
  <2> HIDE DEF Look, Move
  <2>6. \/ \E B : B \subseteq p.batch /\ Set(k, [p EXCEPT !.batch = B])
        \/ HasCapacity(p.lead) /\ Set(k, d)
    <3>1. CASE p.left = 0 \/ ~HasCapacity(p.lead)
      BY <2>1, <3>1
    <3>2. CASE ~(p.left = 0 \/ ~HasCapacity(p.lead)) /\ sent[m].from # p.lead
      <4>1. Set(k, [p EXCEPT !.batch = p.batch \ {m}])
        BY <2>1, <3>2
      <4>2. QED
        BY <4>1
    <3>3. CASE ~(p.left = 0 \/ ~HasCapacity(p.lead)) /\ sent[m].from = p.lead
      BY <2>1, <3>3
    <3>4. QED
      BY <3>1, <3>2, <3>3
  <2> HIDE DEF d
  <2>7. QED
    BY <2>3, <2>5, <2>6
<1>5. CASE NextLead(k) \/ NextDelegate(k) \/ NextMoved(k)
  <2>1. \E q : Set(k, q) /\ (q = NoPass \/ Look(q) \/ Move(q))
    BY <1>3, <1>4, <1>5
  <2>2. QED
    BY <1>1, <2>1
<1>6. QED
  BY <1>2, <1>5

\* A pass that goes on keeps its job, and takes its tasks from its list.
LEMMA GoesOn ==
  ASSUME TypeInv, NEW k \in Coordinators, PassStep(k) \/ Crash(k) \/ QueueFails(k)
  PROVE  \E q : /\ Set(k, q)
                /\ \/ q = NoPass \/ q.job \in Inboxes
                   \/ /\ q.job = pass[k].job /\ q.leads \subseteq pass[k].leads
                      /\ q.at \in Routing =>
                           \/ pass[k].at \in Routing /\ q.task = pass[k].task
                           \/ q.job \in Listed /\ \E l : <<q.task, l>> \in pass[k].leads
<1> DEFINE p == pass[k]
           Same(q) == /\ q.job = p.job /\ q.leads \subseteq p.leads
                      /\ q.at \in Routing =>
                           \/ p.at \in Routing /\ q.task = p.task
                           \/ q.job \in Listed /\ \E l : <<q.task, l>> \in p.leads
           Fine(q) == q = NoPass \/ q.job \in Inboxes \/ Same(q)
<1>0. p \in Pass
  BY TypesNow
<1>1. ASSUME NEW q, Fine(q), Set(k, q) PROVE \E r : Set(k, r) /\ Fine(r)
  BY <1>1
<1>2. Fine(NoPass)
  OBVIOUS
<1>3. ASSUME NEW q, q.job = p.job, q.leads = p.leads, p.at \in Routing,
             q.at \in Routing => q.task = p.task
      PROVE  Fine(q)
  BY <1>3
<1>4. ASSUME NEW c, c \in Pass
      PROVE  /\ Clear(c).job = c.job /\ Clear(c).leads = c.leads /\ Clear(c).at \notin Routing
             /\ [Clear(c) EXCEPT !.left = @ - 1].job = c.job
  BY <1>4 DEF Clear, Pass, Routing
<1>5. CASE EndPass(k) \/ NextLead(k) \/ NextDelegate(k) \/ NextMoved(k)
  <2>1. \E q : Set(k, q) /\ (q = NoPass \/ q.job \in Inboxes)
    BY <1>5, LookEffect DEF Inboxes
  <2>2. QED
    BY <2>1
<1>6. ASSUME NEW u \in Upcoming(p)
      PROVE  /\ u \in Pass /\ u.job = p.job /\ u.leads \subseteq p.leads
             /\ \/ u.job \in Inboxes
                \/ p.at \in Routing /\ u.task = p.task
                \/ u.job \in Listed /\ \E l : <<u.task, l>> \in p.leads
  <2>1. /\ u.job = p.job /\ u.leads \subseteq p.leads /\ u \in Pass
        /\ u.at = p.at /\ u.at \in {"next", "decide"}
        /\ p.at = "decide" => u = p
        /\ p.at = "next" /\ u.job \in Listed => <<u.task, u.lead>> \in p.leads
        /\ p.at = "next" => u.job \in {"dispatch"} \cup Listed
    BY UpcomingReady DEF Ready
  <2>2. CASE p.at = "next"
    BY <2>1, <2>2 DEF Inboxes
  <2>3. CASE p.at = "decide"
    BY <2>1, <2>3 DEF Routing
  <2>4. QED
    BY <2>1, <2>2, <2>3
<1>7. ASSUME NEW u \in Upcoming(p), NEW q, q.job = u.job, q.leads = u.leads,
             q.at \in Routing => q.task = u.task
      PROVE  Fine(q)
  <2>1. /\ u.job = p.job /\ u.leads \subseteq p.leads
        /\ \/ u.job \in Inboxes
           \/ p.at \in Routing /\ u.task = p.task
           \/ u.job \in Listed /\ \E l : <<u.task, l>> \in p.leads
    BY <1>6
  <2>2. u.job \notin Inboxes => Same(q)
    BY <1>7, <2>1
  <2>3. QED
    BY <1>7, <2>2
<1>8. CASE LeadIsGone(k)
  <2>1. PICK u \in Upcoming(p) : GiveUp(k, u)
    BY <1>8 DEF LeadIsGone
  <2>2. Fine(Clear(u))
    BY <1>4, <1>6, <1>7
  <2> HIDE DEF Fine
  <2>3. \E q : Set(k, q) /\ Fine(q)
    BY <1>2, <2>1, <2>2 DEF GiveUp
  <2>4. QED
    BY <2>3 DEF Fine
<1>9. CASE Decide(k)
  <2>1. PICK u \in Upcoming(p) :
          \/ Set(k, [u EXCEPT !.at = "queue"])
          \/ Defer(k, u)
          \/ \E d : Set(k, [u EXCEPT !.at = "send", !.to = d])
    BY <1>9, DecideCases
  <2>2. Fine(Clear(u))
    BY <1>4, <1>6, <1>7
  <2>3. u \in Pass
    BY <1>6
  <2>4. Fine([u EXCEPT !.at = "queue"])
    BY <1>7, <2>3 DEF Pass
  <2>5. ASSUME NEW d PROVE Fine([u EXCEPT !.at = "send", !.to = d])
    BY <1>7, <2>3 DEF Pass
  <2>6. Fine([u EXCEPT !.at = "settle", !.to = u.lead])
    BY <1>7, <2>3 DEF Pass
  <2> HIDE DEF Fine
  <2>7. \E q : Set(k, q) /\ Fine(q)
    BY <1>2, <2>1, <2>2, <2>4, <2>5, <2>6 DEF Defer
  <2>8. QED
    BY <2>7 DEF Fine
<1>10. CASE Send(k)
  <2>1. Set(k, [p EXCEPT !.at = "settle"]) /\ p.at \in Routing
    BY <1>10 DEF Send, At, Routing
  <2>2. Fine([p EXCEPT !.at = "settle"])
    BY <1>0, <1>3, <2>1 DEF Pass
  <2> HIDE DEF Fine
  <2>3. \E q : Set(k, q) /\ Fine(q)
    BY <2>1, <2>2
  <2>4. QED
    BY <2>3 DEF Fine
<1>11. ASSUME NEW s \in Sessions, Queue(k, s) PROVE \E q : Set(k, q) /\ Fine(q)
  <2> DEFINE q == [p EXCEPT !.to = s, !.at = IF p.lead = None THEN "settle" ELSE "send"]
  <2>1. Set(k, q) /\ p.at \in Routing
    BY <1>11 DEF Queue, NewSession, At, Routing
  <2>2. q.job = p.job /\ q.leads = p.leads /\ q.task = p.task
    BY <1>0 DEF Pass
  <2> HIDE DEF q
  <2>3. Fine(q)
    BY <1>3, <2>1, <2>2
  <2>4. QED
    BY <2>1, <2>3
<1>12. CASE \/ SettleHandoff(k) \/ SettleMoved(k) \/ SettleRequest(k)
            \/ record_scheduled_task_run(k) \/ SettleAssign(k) \/ Crash(k) \/ QueueFails(k)
  <2>1. p.at \in Routing
    BY <1>12 DEF SettleHandoff, SettleMoved, SettleRequest, record_scheduled_task_run,
                 SettleAssign, Crash, QueueFails, At, Routing
  <2>2. Fine(Clear(p))
    BY <1>0, <1>3, <1>4, <2>1
  <2>3. p.job = "rebalance" => Fine([Clear(p) EXCEPT !.left = @ - 1])
    BY <1>0, <1>4 DEF Inboxes
  <2> HIDE DEF Fine
  <2>4. CASE SettleMoved(k)
    <3>1. \E q : Set(k, q) /\ Fine(q)
      BY <2>2, <2>3, <2>4 DEF SettleMoved
    <3>2. QED
      BY <3>1 DEF Fine
  <2>5. CASE ~SettleMoved(k)
    <3>1. \E q : Set(k, q) /\ Fine(q)
      BY <1>2, <1>12, <2>2, <2>5
         DEF SettleHandoff, SettleRequest, record_scheduled_task_run, SettleAssign, Crash,
             QueueFails, GiveUp
    <3>2. QED
      BY <3>1 DEF Fine
  <2>6. QED
    BY <2>4, <2>5
<1>13. CASE \E s \in Sessions : Queue(k, s)
  BY <1>11, <1>13
<1>14. QED
  BY <1>5, <1>8, <1>9, <1>10, <1>12, <1>13 DEF PassStep

(***************************************************************************)
(* What a pass has taken from the lists of requests and occurrences stays  *)
(* a request or an occurrence.                                             *)
(***************************************************************************)
Asked == {"pending", "dispatched", "failed"}
Planned == {"due", "dropped", "ran"}

OriginOf(p, org) ==
  /\ p.job = "remote" => /\ \A r \in p.leads : org[r[1]] \in Asked
                         /\ p.at \in Routing => org[p.task] \in Asked
  /\ p.job = "due" => /\ \A r \in p.leads : org[r[1]] \in Planned
                      /\ p.at \in Routing => org[p.task] \in Planned
  /\ p.job = "assign" => org[p.task] = "assign"
OriginInv == \A k \in Coordinators : OriginOf(pass[k], origin)

\* One task gets another origin, or none does.
LEMMA OriginChanges ==
  ASSUME TypeInv, [Next]_vars
  PROVE  \/ origin' = origin
         \/ \E t \in Tasks : \E o :
              /\ origin' = [origin EXCEPT ![t] = o]
              /\ \/ origin[t] = "none" /\ pass' = pass /\ o \in {"handoff", "pending", "due"}
                 \/ origin[t] = "due" /\ pass' = pass /\ o = "dropped"
                 \/ /\ origin[t] = "none" /\ o = "assign"
                    /\ \E k \in Coordinators : At(k, "idle") /\ Start(k)
                 \/ /\ o = "failed"
                    /\ \E k \in Coordinators : \E u :
                         /\ u.job = "remote" /\ u.task = t
                         /\ \/ u \in Upcoming(pass[k])
                            \/ u = pass[k] /\ pass[k].at = "queue"
                 \/ /\ o = "dispatched"
                    /\ \E k \in Coordinators :
                         pass[k].at = "settle" /\ pass[k].job = "remote" /\ pass[k].task = t
                 \/ /\ o = "ran" /\ origin[t] = "due"
                    /\ \E k \in Coordinators :
                         pass[k].at = "settle" /\ pass[k].job = "due" /\ pass[k].task = t
<1> DEFINE Changed(t, o) == origin' = [origin EXCEPT ![t] = o]
<1>0. RowTypes
  BY TypesNow
<1>1. ASSUME NEW t \in Tasks, NEW o, Arrive(t, o) PROVE Changed(t, o) /\ origin[t] = "none"
  BY <1>1 DEF Arrive
<1>2. CASE \E f, l \in Sessions, t \in Tasks : HandOff(f, l, t)
  BY <1>1, <1>2 DEF HandOff
<1>3. CASE \E t \in Tasks : \/ ComeDue(t) \/ delete_scheduled_task(t)
                           \/ \E l \in Sessions \cup {None} : Request(t, l)
  BY <1>1, <1>3 DEF ComeDue, delete_scheduled_task, Request
<1>4. CASE \E s \in Sessions : View(s) \/ End(s) \/ DeleteMessages(s) \/ DeleteRow(s)
  BY <1>4 DEF View, End, DeleteMessages, DeleteRow, mail, arrived
<1>5. ASSUME NEW k \in Coordinators, Start(k)
      PROVE  \/ origin' = origin
             \/ \E t \in Tasks : /\ Changed(t, "assign") /\ origin[t] = "none"
                                /\ At(k, "idle") /\ Start(k)
  BY <1>5, StartEffect
<1>6. ASSUME NEW k \in Coordinators, NEW u, GiveUp(k, u), u.task \in Tasks
      PROVE  origin' = origin \/ (u.job = "remote" /\ Changed(u.task, "failed"))
  <2>1. CASE u.job = "remote"
    BY <1>6, <2>1 DEF GiveUp
  <2>2. CASE u.job # "remote"
    BY <1>6, <2>2 DEF GiveUp
  <2>3. QED
    BY <2>1, <2>2
<1>7. ASSUME NEW k \in Coordinators, LeadIsGone(k)
      PROVE  \/ origin' = origin
             \/ \E t \in Tasks, u \in Upcoming(pass[k]) :
                  u.job = "remote" /\ u.task = t /\ Changed(t, "failed")
  <2>1. PICK u \in Upcoming(pass[k]) : GiveUp(k, u)
    BY <1>7 DEF LeadIsGone
  <2>2. u.task \in Tasks
    BY UpcomingReady DEF Ready
  <2>3. QED
    BY <1>6, <2>1, <2>2
<1>8. ASSUME NEW k \in Coordinators, QueueFails(k)
      PROVE  \/ origin' = origin
             \/ \E t \in Tasks : /\ pass[k].job = "remote" /\ pass[k].task = t
                                /\ pass[k].at = "queue" /\ Changed(t, "failed")
  <2>1. pass[k].at = "queue"
    BY <1>8 DEF QueueFails, At
  <2>2. pass[k].task \in Tasks
    BY <2>1, RoutingReady DEF Ready, Routing
  <2>3. QED
    BY <1>6, <1>8, <2>1, <2>2 DEF QueueFails
<1>9. ASSUME NEW k \in Coordinators, SettleRequest(k) \/ record_scheduled_task_run(k)
      PROVE  \/ origin' = origin
             \/ \E t \in Tasks :
                  /\ pass[k].at = "settle" /\ pass[k].task = t
                  /\ \/ pass[k].job = "remote" /\ Changed(t, "dispatched")
                     \/ pass[k].job = "due" /\ origin[t] = "due" /\ Changed(t, "ran")
  <2>1. pass[k].at = "settle"
    BY <1>9 DEF SettleRequest, record_scheduled_task_run, At
  <2>2. pass[k].task \in Tasks
    BY <2>1, RoutingReady DEF Ready, Routing
  <2>3. CASE SettleRequest(k)
    BY <2>1, <2>2, <2>3 DEF SettleRequest
  <2>4. CASE record_scheduled_task_run(k) /\ origin[pass[k].task] = "due"
    BY <2>1, <2>2, <2>4 DEF record_scheduled_task_run
  <2>5. CASE record_scheduled_task_run(k) /\ origin[pass[k].task] # "due"
    BY <1>0, <2>5 DEF record_scheduled_task_run, RowTypes
  <2>6. QED
    BY <1>9, <2>3, <2>4, <2>5
<1>10. ASSUME NEW k \in Coordinators,
              \/ EndPass(k) \/ NextLead(k) \/ NextDelegate(k) \/ NextMoved(k)
              \/ Decide(k) \/ Send(k) \/ SettleHandoff(k) \/ SettleMoved(k) \/ SettleAssign(k)
              \/ Crash(k) \/ \E s \in Sessions : Queue(k, s)
       PROVE  origin' = origin
  BY <1>10 DEF EndPass, NextLead, NextDelegate, NextMoved, Decide, Unchanging, Send,
               SettleHandoff, SettleMoved, SettleAssign, Crash, Queue, arrived
<1>11. CASE UNCHANGED vars
  BY <1>11 DEF vars, arrived
<1>12. CASE \E k \in Coordinators : PassStep(k)
  <2>1. PICK k \in Coordinators : PassStep(k)
    BY <1>12
  <2>2. CASE LeadIsGone(k)
    BY <1>7, <2>2
  <2>3. CASE SettleRequest(k) \/ record_scheduled_task_run(k)
    BY <1>9, <2>3
  <2>4. CASE ~LeadIsGone(k) /\ ~SettleRequest(k) /\ ~record_scheduled_task_run(k)
    BY <1>10, <2>1, <2>4 DEF PassStep
  <2>5. QED
    BY <2>2, <2>3, <2>4
<1>13. CASE \E k \in Coordinators : Start(k)
  BY <1>5, <1>13
<1>14. CASE \E k \in Coordinators : Crash(k) \/ QueueFails(k)
  BY <1>8, <1>10, <1>14
<1>15. QED
  BY <1>2, <1>3, <1>4, <1>11, <1>12, <1>13, <1>14 DEF Next, Environment

\* The task a pass has taken from its list is of the list's kind.
LEMMA ListedOrigin ==
  ASSUME TypeInv, OriginInv, NEW k \in Coordinators, NEW u,
         u \in Upcoming(pass[k]) \/ (u = pass[k] /\ pass[k].at \in Routing)
  PROVE  /\ u.job = "remote" => origin[u.task] \in Asked
         /\ u.job = "due" => origin[u.task] \in Planned
         /\ u.job = "assign" => origin[u.task] = "assign"
<1>1. CASE u = pass[k] /\ pass[k].at \in Routing
  BY <1>1 DEF OriginInv, OriginOf
<1>2. ASSUME u \in Upcoming(pass[k])
      PROVE  /\ u.job = "remote" => origin[u.task] \in Asked
             /\ u.job = "due" => origin[u.task] \in Planned
             /\ u.job = "assign" => origin[u.task] = "assign"
  <2>1. /\ u.job = pass[k].job /\ pass[k].at \in {"next", "decide"}
        /\ pass[k].at = "decide" => u = pass[k]
        /\ pass[k].at = "next" /\ u.job \in Listed => <<u.task, u.lead>> \in pass[k].leads
        /\ pass[k].at = "next" => u.job \in {"dispatch"} \cup Listed
    BY <1>2, UpcomingReady
  <2>2. CASE pass[k].at = "decide"
    BY <1>1, <2>1, <2>2 DEF Routing
  <2>3. CASE pass[k].at = "next"
    BY <2>1, <2>3 DEF OriginInv, OriginOf, Listed
  <2>4. QED
    BY <2>1, <2>2, <2>3
<1>3. QED
  BY <1>1, <1>2

OriginsLast ==
  \A t \in Tasks : /\ origin[t] \in Asked => origin'[t] \in Asked
                   /\ origin[t] \in Planned \cup {"due"} => origin'[t] \in Planned
                   /\ origin[t] = "assign" => origin'[t] = "assign"

LEMMA OriginsStay ==
  ASSUME TypeInv, OriginInv, [Next]_vars
  PROVE  OriginsLast
<1>0. RowTypes
  BY TypesNow
<1>1. CASE origin' = origin
  BY <1>1 DEF OriginsLast, Planned
<1>2. ASSUME NEW t \in Tasks, NEW o, origin' = [origin EXCEPT ![t] = o],
             \/ origin[t] = "none"
             \/ origin[t] = "due" /\ o \in {"dropped", "ran"}
             \/ origin[t] \in Asked /\ o \in {"failed", "dispatched"}
      PROVE  OriginsLast
  BY <1>0, <1>2 DEF OriginsLast, RowTypes, Asked, Planned
<1>3. ASSUME NEW t \in Tasks, NEW k \in Coordinators, NEW u, u.job = "remote", u.task = t,
             u \in Upcoming(pass[k]) \/ (u = pass[k] /\ pass[k].at \in Routing)
      PROVE  origin[t] \in Asked
  BY <1>3, ListedOrigin
<1>4. QED
  BY <1>1, <1>2, <1>3, OriginChanges DEF Routing

LEMMA OriginStep ==
  ASSUME TypeInv, OriginInv, [Next]_vars
  PROVE  OriginInv'
<1>0. OriginsLast /\ \A k \in Coordinators : Shape(pass[k], sent, Born)
  BY OriginsStay, TypesNow
<1>1. ASSUME NEW k \in Coordinators PROVE OriginOf(pass[k], origin')
  <2>1. OriginOf(pass[k], origin) /\ Shape(pass[k], sent, Born) /\ pass[k] \in Pass
    BY TypesNow DEF OriginInv
  <2>2. pass[k].job \in Listed => \A r \in pass[k].leads : r[1] \in Tasks
    BY <2>1 DEF Shape
  <2>3. /\ pass[k].at \in Routing => pass[k].task \in Tasks
        /\ pass[k].job = "assign" => pass[k].at \in Routing
    BY <2>1 DEF Shape, Pass
  <2>4. QED
    BY <1>0, <2>1, <2>2, <2>3 DEF OriginOf, OriginsLast, Listed
<1>2. CASE pass' = pass
  BY <1>1, <1>2 DEF OriginInv
<1>3. ASSUME NEW k \in Coordinators, NEW q, Set(k, q), OriginOf(q, origin') PROVE OriginInv'
  BY <1>1, <1>3 DEF OriginInv, Set, TypeInv, Shapes
<1>4. OriginOf(NoPass, origin')
  BY DEF OriginOf, NoPass
<1>5. ASSUME NEW q, q.job \in Inboxes PROVE OriginOf(q, origin')
  BY <1>5 DEF OriginOf, Inboxes
<1>6. ASSUME NEW k \in Coordinators, PassStep(k) \/ Crash(k) \/ QueueFails(k)
      PROVE  OriginInv'
  <2>1. PICK q : /\ Set(k, q)
                 /\ \/ q = NoPass \/ q.job \in Inboxes
                    \/ /\ q.job = pass[k].job /\ q.leads \subseteq pass[k].leads
                       /\ q.at \in Routing =>
                            \/ pass[k].at \in Routing /\ q.task = pass[k].task
                            \/ q.job \in Listed /\ \E l : <<q.task, l>> \in pass[k].leads
    BY <1>6, GoesOn
  <2>2. CASE q = NoPass \/ q.job \in Inboxes
    BY <1>3, <1>4, <1>5, <2>1, <2>2
  <2>3. CASE ~(q = NoPass \/ q.job \in Inboxes)
    <3>1. OriginOf(pass[k], origin')
      BY <1>1
    <3>2. q.job = "assign" => q.at \in Routing
      <4>1. Shape(pass'[k], sent', Born') /\ pass'[k] = q
        BY <2>1, StepTypes DEF TypeInv, Shapes, Set
      <4>2. QED
        BY <4>1 DEF Shape
    <3>3. OriginOf(q, origin')
      BY <2>1, <2>3, <3>1, <3>2 DEF OriginOf, Listed
    <3>4. QED
      BY <1>3, <2>1, <3>3
  <2>4. QED
    BY <2>2, <2>3
<1>7. ASSUME NEW k \in Coordinators, Start(k) PROVE OriginInv'
  <2>1. PICK q : /\ Set(k, q)
                 /\ \/ q.job \in Inboxes
                    \/ origin' = origin /\ q.at = "next" /\ q.job \in Listed
                       /\ Unsettled(q, origin)
                    \/ /\ q.job = "assign" /\ q.task \in Tasks
                       /\ origin' = [origin EXCEPT ![q.task] = "assign"]
    BY <1>7, StartEffect
  <2>2. CASE q.job \in Inboxes
    BY <1>3, <1>5, <2>1, <2>2
  <2>3. CASE origin' = origin /\ q.at = "next" /\ q.job \in Listed /\ Unsettled(q, origin)
    <3>1. OriginOf(q, origin')
      BY <2>3 DEF OriginOf, Unsettled, Listed, Routing, Asked, Planned
    <3>2. QED
      BY <1>3, <2>1, <3>1
  <2>4. CASE /\ q.job = "assign" /\ q.task \in Tasks
             /\ origin' = [origin EXCEPT ![q.task] = "assign"]
    <3>1. OriginOf(q, origin')
      BY <2>4, TypesNow DEF OriginOf, RowTypes
    <3>2. QED
      BY <1>3, <2>1, <3>1
  <2>5. QED
    BY <2>1, <2>2, <2>3, <2>4
<1>8. QED
  <2>1. \/ pass' = pass
        \/ \E k \in Coordinators : PassStep(k) \/ Crash(k) \/ QueueFails(k) \/ Start(k)
    BY DEF Next, Environment, HandOff, ComeDue, delete_scheduled_task, Request, View, End,
           DeleteMessages, DeleteRow, vars
  <2>2. QED
    BY <1>2, <1>6, <1>7, <2>1

LEMMA OriginInit == Init => OriginInv
BY DEF Init, OriginInv, OriginOf, NoPass

(***************************************************************************)
(* A rebalance that is about to assign found room in the team, and has     *)
(* it still unless another pass or a user came in between.                 *)
(***************************************************************************)
Roomy == {l \in Sessions : HasCapacity(l)}
RoomInv ==
  \A k \in Coordinators :
    pass[k].at = "decide" /\ pass[k].job = "rebalance" => raced \/ pass[k].lead \in Roomy

LEMMA TeamIsFinite ==
  ASSUME TypeInv, NEW l
  PROVE  IsFiniteSet(Delegates(l))
<1> DEFINE T == {sent[m].to : m \in 1..Len(sent)}
           f == [m \in 1..Len(sent) |-> sent[m].to]
<1>1. IsFiniteSet(1..Len(sent))
  BY TypesNow, FS_Interval
<1>2. f \in Surjection(1..Len(sent), T)
  BY DEF Surjection
<1>3. IsFiniteSet(T)
  <2> HIDE DEF T, f
  <2>1. QED
    BY <1>1, <1>2, FS_Surjection
<1>4. Delegates(l) \subseteq T
  <2>1. stored \subseteq 1..Len(sent)
    BY TypesNow DEF RowTypes
  <2>2. QED
    BY <2>1 DEF Delegates
<1> HIDE DEF T
<1>5. QED
  BY <1>3, <1>4, FS_Subset

\* Sessions end, messages go, and nothing is sent: no team grows.
LEMMA RoomStays ==
  ASSUME TypeInv, sent' = sent, stored' \subseteq stored,
         \A s \in Sessions : state'[s] = "active" => state[s] = "active"
  PROVE  Roomy \subseteq Roomy'
<1>1. ASSUME NEW l \in Sessions, l \in Roomy PROVE l \in Roomy'
  <2> DEFINE D == {s \in Sessions : /\ state'[s] = "active"
                                    /\ \E m \in stored' :
                                         sent'[m].from = l /\ sent'[m].to = s}
  <2>1. D \subseteq Delegates(l)
    BY DEF Delegates
  <2>2. Cardinality(Delegates(l)) < MaxTeam
    BY <1>1 DEF Roomy, HasCapacity
  <2>3. Cardinality(D) < MaxTeam
    <3> HIDE DEF D
    <3>1. /\ Cardinality(D) <= Cardinality(Delegates(l))
          /\ Cardinality(D) \in Nat /\ Cardinality(Delegates(l)) \in Nat
      <4>1. IsFiniteSet(Delegates(l)) /\ IsFiniteSet(D)
        BY <2>1, TeamIsFinite, FS_Subset
      <4>2. QED
        BY <2>1, <4>1, FS_Subset, FS_CardinalityType
    <3>2. QED
      BY <2>2, <3>1, RoutingAssumption DEF RoutingAssumption
  <2>4. QED
    BY <2>3 DEF Roomy, HasCapacity, Delegates
<1>2. QED
  BY <1>1 DEF Roomy

\* Only a rebalance that looks for its next message comes to a decision.
LEMMA ComesToDecide ==
  ASSUME TypeInv, NEW k \in Coordinators, PassStep(k) \/ Crash(k) \/ QueueFails(k),
         ~NextMoved(k)
  PROVE  pass'[k].at # "decide"
<1> DEFINE p == pass[k]
<1>0. p \in Pass /\ NoPass.at = "idle" /\ \A u \in Upcoming(p) : u \in Pass
  BY TypesNow, NoPassShape, UpcomingReady DEF Ready
<1>1. ASSUME NEW q, Set(k, q), q.at # "decide" PROVE pass'[k].at # "decide"
  BY <1>1 DEF Set, TypeInv, Shapes
<1>2. ASSUME NEW c \in Pass
      PROVE  /\ Clear(c).at = "next" /\ [Clear(c) EXCEPT !.left = @ - 1].at = "next"
             /\ [c EXCEPT !.at = "queue"].at = "queue"
             /\ [c EXCEPT !.at = "settle"].at = "settle"
             /\ \A d : /\ [c EXCEPT !.at = "send", !.to = d].at = "send"
                       /\ [c EXCEPT !.at = "settle", !.to = d].at = "settle"
                       /\ [c EXCEPT !.to = d, !.at = "settle"].at = "settle"
                       /\ [c EXCEPT !.to = d, !.at = "send"].at = "send"
  BY DEF Clear, Pass
<1>3. ASSUME NEW u \in Pass, GiveUp(k, u) PROVE pass'[k].at # "decide"
  BY <1>0, <1>1, <1>2, <1>3 DEF GiveUp
<1>4. CASE EndPass(k)
  BY <1>0, <1>1, <1>4 DEF EndPass, StartPass, NoPass
<1>5. CASE NextLead(k) \/ NextDelegate(k)
  <2>1. p.at = "next"
    BY <1>5 DEF NextLead, NextDelegate, At
  <2>2. \A l, B : [[p EXCEPT !.leads = @ \ {l}, !.lead = l] EXCEPT !.batch = B].at = "next"
    BY <1>0, <2>1 DEF Pass
  <2>3. \A l, n, D : [[p EXCEPT !.leads = @ \ {l}, !.lead = l]
                        EXCEPT !.left = n, !.team = D].at = "next"
    BY <1>0, <2>1 DEF Pass
  <2>4. \A D, B : [p EXCEPT !.team = D, !.batch = B].at = "next"
    BY <1>0, <2>1 DEF Pass
  <2>5. CASE NextLead(k)
    BY <1>0, <1>1, <2>2, <2>3, <2>5 DEF NextLead
  <2>6. CASE NextDelegate(k)
    BY <1>1, <2>4, <2>6 DEF NextDelegate
  <2>7. QED
    BY <1>5, <2>5, <2>6
<1>6. CASE LeadIsGone(k)
  BY <1>0, <1>3, <1>6 DEF LeadIsGone
<1>7. CASE Decide(k)
  <2>1. PICK u \in Upcoming(p) :
          \/ Set(k, [u EXCEPT !.at = "queue"])
          \/ Defer(k, u)
          \/ \E d : Set(k, [u EXCEPT !.at = "send", !.to = d])
    BY <1>7, DecideCases
  <2>2. u \in Pass
    BY <1>0
  <2>3. CASE Defer(k, u)
    BY <1>0, <1>1, <1>2, <2>2, <2>3 DEF Defer
  <2>4. QED
    BY <1>1, <1>2, <2>1, <2>2, <2>3
<1>8. CASE Send(k)
  BY <1>0, <1>1, <1>2, <1>8 DEF Send
<1>9. ASSUME NEW s \in Sessions, Queue(k, s) PROVE pass'[k].at # "decide"
  <2>1. Set(k, [p EXCEPT !.to = s, !.at = IF p.lead = None THEN "settle" ELSE "send"])
    BY <1>9 DEF Queue
  <2>2. QED
    BY <1>0, <1>1, <1>2, <2>1
<1>10. CASE \/ SettleHandoff(k) \/ SettleMoved(k) \/ SettleRequest(k)
            \/ record_scheduled_task_run(k) \/ SettleAssign(k) \/ Crash(k)
  BY <1>0, <1>1, <1>2, <1>10
     DEF SettleHandoff, SettleMoved, SettleRequest, record_scheduled_task_run, SettleAssign,
         Crash
<1>11. CASE QueueFails(k)
  BY <1>0, <1>3, <1>11 DEF QueueFails
<1>12. QED
  BY <1>4, <1>5, <1>6, <1>7, <1>8, <1>9, <1>10, <1>11 DEF PassStep

\* A step that moves pass k, while another is at work, is noticed.
LEMMA Noticed ==
  ASSUME TypeInv, AloneInv, [Next]_vars, NEW j \in Coordinators, NEW k \in Coordinators, j # k,
         ~At(j, "idle"), PassStep(k) \/ Start(k) \/ Crash(k) \/ QueueFails(k)
  PROVE  raced'
<1>1. raced => raced'
  BY Moves
<1>2. CASE Start(k)
  <2>1. Enter(k)
    BY <1>2, StartEffect
  <2>2. QED
    BY <2>1 DEF Enter, At
<1>3. CASE ~Start(k)
  <2>1. ~At(k, "idle")
    <3>1. ASSUME At(k, "idle") PROVE Upcoming(pass[k]) = {}
      BY <3>1 DEF At, Upcoming
    <3>2. QED
      BY <1>3, <3>1
         DEF PassStep, EndPass, NextLead, NextDelegate, NextMoved, LeadIsGone, Decide, Send,
             SettleHandoff, SettleMoved, SettleRequest, record_scheduled_task_run,
             SettleAssign, Queue, NewSession, Crash, QueueFails, At
  <2>2. QED
    BY <1>1, <2>1 DEF AloneInv
<1>4. QED
  BY <1>2, <1>3

LEMMA RoomStep ==
  ASSUME TypeInv, AloneInv, RoomInv, [Next]_vars
  PROVE  RoomInv'
<1>1. raced => raced'
  BY Moves
<1>2. ASSUME pass' = pass, Roomy \subseteq Roomy' PROVE RoomInv'
  BY <1>1, <1>2 DEF RoomInv
<1>3. ASSUME sent' = sent, stored' = stored, state' = state PROVE Roomy \subseteq Roomy'
  BY <1>3, RoomStays
<1>4. CASE \E f, l \in Sessions, t \in Tasks : HandOff(f, l, t)
  <2>1. pass' = pass /\ (raced' <=> raced \/ \E k \in Coordinators : pass[k].at = "decide")
    BY <1>4 DEF HandOff
  <2>2. QED
    BY <2>1 DEF RoomInv
<1>5. CASE \/ UNCHANGED vars
           \/ \E t \in Tasks : \/ ComeDue(t) \/ delete_scheduled_task(t)
                               \/ \E l \in Sessions \cup {None} : Request(t, l)
           \/ \E s \in Sessions : View(s)
  BY <1>2, <1>3, <1>5
     DEF vars, rows, mail, ComeDue, delete_scheduled_task, Request, View
<1>6. CASE \E s \in Sessions : End(s) \/ DeleteMessages(s) \/ DeleteRow(s)
  <2>1. sent' = sent /\ stored' \subseteq stored /\ pass' = pass
    BY <1>6 DEF End, DeleteMessages, DeleteRow, mail
  <2>2. \A s \in Sessions : state'[s] = "active" => state[s] = "active"
    BY <1>6, TypesNow DEF End, DeleteMessages, DeleteRow, RowTypes
  <2>3. QED
    BY <1>2, <2>1, <2>2, RoomStays
<1>7. ASSUME NEW k \in Coordinators, PassStep(k) \/ Start(k) \/ Crash(k) \/ QueueFails(k)
      PROVE  RoomInv'
  <2>1. PICK q : pass' = [pass EXCEPT ![k] = q]
    <3>1. CASE Start(k)
      BY <3>1, StartEffect DEF Set
    <3>2. CASE PassStep(k) \/ Crash(k) \/ QueueFails(k)
      BY <3>2, GoesOn DEF Set
    <3>3. QED
      BY <1>7, <3>1, <3>2
  <2>2. ASSUME NEW j \in Coordinators, j # k, pass'[j].at = "decide" PROVE raced'
    <3>1. pass'[j] = pass[j] /\ ~At(j, "idle")
      BY <2>1, <2>2 DEF TypeInv, Shapes, At
    <3>2. QED
      BY <1>7, <2>2, <3>1, Noticed
  <2>3. ASSUME pass'[k].at = "decide", pass'[k].job = "rebalance"
        PROVE  pass'[k].lead \in Roomy'
    <3>1. pass'[k] \in Pass /\ Shape(pass'[k], sent', Born')
      BY StepTypes DEF TypeInv, Shapes
    <3>2. CASE Start(k)
      <4>1. PICK r : /\ Set(k, r) /\ (r.at = "next" \/ r.job = "assign")
        BY <3>2, StartEffect
      <4>2. QED
        BY <2>3, <4>1 DEF Set, TypeInv, Shapes
    <3>3. CASE NextMoved(k)
      <4>1. PICK r : /\ Set(k, r)
                     /\ \/ r = NoPass \/ r.at = "next"
                        \/ HasCapacity(r.lead)
        BY <3>3, LookEffect
      <4>2. pass'[k] = r /\ NoPass.at = "idle"
        BY <4>1, NoPassShape DEF Set, TypeInv, Shapes
      <4>3. pass'[k].lead \in Roomy
        <5>1. pass'[k].lead # None
          <6>1. "decide" \in Routing /\ "rebalance" \in Inboxes
            BY DEF Routing, Inboxes
          <6>2. QED
            BY <2>3, <3>1, <6>1 DEF Shape
        <5>2. QED
          BY <2>3, <3>1, <4>1, <4>2, <5>1 DEF Roomy, Pass, Lead
      <4>4. QED
        BY <1>3, <3>3, <4>3 DEF NextMoved, rows, mail
    <3>4. CASE ~Start(k) /\ ~NextMoved(k)
      BY <1>7, <2>3, <3>4, ComesToDecide
    <3>5. QED
      BY <3>2, <3>3, <3>4
  <2>4. QED
    BY <2>2, <2>3 DEF RoomInv
<1>8. QED
  BY <1>4, <1>5, <1>6, <1>7 DEF Next, Environment

LEMMA RoomInit == Init => RoomInv
BY DEF Init, RoomInv, NoPass

(***************************************************************************)
(* Where a task may be.                                                    *)
(***************************************************************************)
\* A pass is about to mark the message read, and what it took over is not just
\* deferred beside another pass.
Dooms(p, m, box, rc) ==
  /\ p.at = "settle" /\ p.msg = m
  /\ \/ p.job = "dispatch"
     \/ p.job = "rebalance" /\ p.to # box[m].to /\ (p.to # p.lead \/ ~rc)
Doomed == {m \in 1..Len(sent) : \E k \in Coordinators : Dooms(pass[k], m, sent, raced)}
\* A pass is about to settle the request or the occurrence.
Closes(p, t) == p.at = "settle" /\ p.job \in Listed /\ p.task = t
Closing == {t \in Tasks : \E k \in Coordinators : Closes(pass[k], t)}
\* `ecc assign` still has it.
Assigns(p, t) == p.at # "settle" /\ p.job = "assign" /\ p.task = t
Assigning == {t \in Tasks : \E k \in Coordinators : Assigns(pass[k], t)}

Working == {work[s] : s \in Sessions}
Waiting == {sent[m].task : m \in unread \ Doomed}
Recorded == {"none", "pending", "failed", "due", "dropped"}
OnRecord == {t \in Tasks : origin[t] \in Recorded} \ Closing
Excused ==
  {t \in Tasks : \/ t \in viewed \cup erased \cup refused
                 \/ t \in cut /\ origin[t] = "assign"
                 \/ t \in mislaid /\ raced}
Accounted == Working \cup Waiting \cup OnRecord \cup Assigning \cup Excused

KeepInv == Tasks \subseteq Accounted

LEMMA StepGrows ==
  ASSUME TypeInv, [Next]_vars
  PROVE  Grows
<1>1. TypeInv'
  BY StepTypes
<1>2. sent' = sent \/ \E m : sent' = Append(sent, m)
  <2>1. ASSUME NEW k \in Coordinators, PassStep(k) PROVE sent' = sent \/ \E m : sent' = Append(sent, m)
    BY <2>1 DEF PassStep, EndPass, NextLead, NextDelegate, NextMoved, LeadIsGone, Decide,
                Unchanging, Send, Post, SettleHandoff, SettleMoved, SettleRequest,
                record_scheduled_task_run, SettleAssign, Queue, mail
  <2>2. ASSUME NEW k \in Coordinators, Start(k) \/ Crash(k) \/ QueueFails(k) PROVE sent' = sent
    BY <2>2, StartEffect DEF Crash, QueueFails, mail
  <2>3. CASE UNCHANGED vars
    BY <2>3 DEF vars, mail
  <2>4. CASE Environment
    BY <2>2, <2>4 DEF Environment, HandOff, Post, ComeDue, delete_scheduled_task, Request,
                      View, End, DeleteMessages, DeleteRow, mail
  <2>5. QED
    BY <2>1, <2>2, <2>3, <2>4 DEF Next
<1>3. \A s \in Sessions : state[s] # "none" => state'[s] # "none"
  <2>0. RowTypes
    BY TypesNow
  <2>1. ASSUME NEW k \in Coordinators, NEW s \in Sessions, NEW st, NewSession(k, s, st), st # "none"
        PROVE  \A r \in Sessions : state[r] # "none" => state'[r] # "none"
    BY <2>0, <2>1 DEF NewSession, RowTypes
  <2>2. ASSUME NEW k \in Coordinators, PassStep(k) \/ Start(k) \/ Crash(k) \/ QueueFails(k)
        PROVE  \/ state' = state
               \/ \E s \in Sessions : NewSession(k, s, "active") \/ NewSession(k, s, "ended")
    <3>1. CASE PassStep(k)
      BY <3>1 DEF PassStep, EndPass, NextLead, NextDelegate, NextMoved, LeadIsGone, Decide,
                  Unchanging, Send, SettleHandoff, SettleMoved, SettleRequest,
                  record_scheduled_task_run, SettleAssign, Queue, rows
    <3>2. CASE Start(k) \/ Crash(k) \/ QueueFails(k)
      BY <3>2, StartEffect DEF Crash, QueueFails, rows
    <3>3. QED
      BY <2>2, <3>1, <3>2
  <2>3. CASE \E s \in Sessions : End(s) \/ DeleteMessages(s) \/ DeleteRow(s)
    BY <2>0, <2>3 DEF End, DeleteMessages, DeleteRow, RowTypes
  <2>4. CASE UNCHANGED vars
    BY <2>4 DEF vars, rows
  <2>5. CASE Environment
    BY <2>1, <2>2, <2>3, <2>5 DEF Environment, HandOff, ComeDue, delete_scheduled_task, Request,
                                 View, rows
  <2>6. QED
    BY <2>1, <2>2, <2>4, <2>5 DEF Next
<1>4. Born \subseteq Born'
  BY <1>3 DEF Born
<1>5. Len(sent) <= Len(sent') /\ \A m \in 1..Len(sent) : sent'[m] = sent[m]
  BY <1>2 DEF TypeInv, Shapes
<1>6. QED
  BY <1>1, <1>4, <1>5 DEF Grows, TypeInv, TypeOK, Shapes

LEMMA HistoryStays ==
  ASSUME TypeInv, [Next]_vars
  PROVE  /\ viewed \subseteq viewed' /\ erased \subseteq erased' /\ refused \subseteq refused'
         /\ cut \subseteq cut' /\ mislaid \subseteq mislaid'
<1> DEFINE Goal == /\ viewed \subseteq viewed' /\ erased \subseteq erased'
                   /\ refused \subseteq refused'
                   /\ cut \subseteq cut' /\ mislaid \subseteq mislaid'
<1>1. CASE UNCHANGED vars
  BY <1>1 DEF vars, history
<1>2. ASSUME NEW k \in Coordinators, PassStep(k) PROVE Goal
  <2>1. CASE LeadIsGone(k)
    BY <2>1 DEF LeadIsGone, Refuse
  <2>2. CASE Decide(k)
    <3>1. refused' = refused \/ \E u : Refuse(u)
      BY <2>2 DEF Decide, Defer
    <3>2. QED
      BY <2>2, <3>1 DEF Decide, Unchanging, Refuse
  <2>3. CASE ~LeadIsGone(k) /\ ~Decide(k)
    BY <1>2, <2>3
       DEF PassStep, EndPass, NextLead, NextDelegate, NextMoved, Send, SettleHandoff,
           SettleMoved, SettleRequest, record_scheduled_task_run, SettleAssign, Queue, history
  <2>4. QED
    BY <2>1, <2>2, <2>3
<1>3. ASSUME NEW k \in Coordinators, Start(k) \/ Crash(k) \/ QueueFails(k) PROVE Goal
  BY <1>3, StartEffect DEF Enter, Crash, QueueFails, CutOff, Refuse
<1>4. CASE Environment
  BY <1>3, <1>4 DEF Environment, HandOff, ComeDue, delete_scheduled_task, Request, View, End,
                    DeleteMessages, DeleteRow, history
<1>5. QED
  BY <1>1, <1>2, <1>3, <1>4 DEF Next

\* Nothing that is worked on is dropped, and no excuse is withdrawn.
LEMMA WorkStays ==
  ASSUME TypeInv, OriginInv, [Next]_vars
  PROVE  Working \cap Tasks \subseteq Working' /\ Excused \subseteq Excused'
<1>1. Excused \subseteq Excused'
  <2>1. raced => raced'
    BY Moves
  <2>2. \A t \in Tasks : origin[t] = "assign" => origin'[t] = "assign"
    BY OriginsStay DEF OriginsLast
  <2>3. ASSUME NEW t \in mislaid, raced PROVE t \in mislaid' /\ raced'
    BY <2>1, <2>3, HistoryStays
  <2>4. QED
    BY <2>2, <2>3, HistoryStays DEF Excused
<1>2. RowTypes /\ \A s \in Sessions : state[s] = "none" => work[s] = None
  BY TypesNow DEF Shapes
<1>3. ASSUME NEW k \in Coordinators, NEW s \in Sessions, NEW st, NewSession(k, s, st)
      PROVE  \A r \in Sessions : work[r] # None => work'[r] = work[r]
  BY <1>2, <1>3 DEF NewSession, RowTypes
<1>4. ASSUME NEW k \in Coordinators, PassStep(k) \/ Start(k) \/ Crash(k) \/ QueueFails(k)
      PROVE  \/ work' = work
             \/ \E s \in Sessions : NewSession(k, s, "active") \/ NewSession(k, s, "ended")
  <2>1. CASE PassStep(k)
    BY <2>1 DEF PassStep, EndPass, NextLead, NextDelegate, NextMoved, LeadIsGone, Decide,
                Unchanging, Send, SettleHandoff, SettleMoved, SettleRequest,
                record_scheduled_task_run, SettleAssign, Queue, rows
  <2>2. CASE Start(k) \/ Crash(k) \/ QueueFails(k)
    BY <2>2, StartEffect DEF Crash, QueueFails, rows
  <2>3. QED
    BY <1>4, <2>1, <2>2
<1>5. \A r \in Sessions : work[r] # None => work'[r] = work[r]
  <2>1. CASE UNCHANGED vars
    BY <2>1 DEF vars, rows
  <2>2. CASE Environment
    BY <1>3, <1>4, <2>2 DEF Environment, HandOff, ComeDue, delete_scheduled_task, Request,
                            View, End, DeleteMessages, DeleteRow, rows
  <2>3. CASE \E k \in Coordinators : PassStep(k) \/ Start(k)
    BY <1>3, <1>4, <2>3
  <2>4. QED
    BY <2>1, <2>2, <2>3 DEF Next
<1>6. None \notin Tasks
  BY RoutingAssumption DEF RoutingAssumption
<1>7. QED
  BY <1>1, <1>5, <1>6 DEF Working

\* No pass comes to settle something, or only a rebalance beside another pass
\* that gave it to nobody.
LEMMA NobodySettles ==
  ASSUME TypeInv, [Next]_vars,
         \A j \in Coordinators :
           \/ pass'[j] = pass[j] \/ pass'[j].at # "settle"
           \/ pass'[j].job = "rebalance" /\ pass'[j].to = pass'[j].lead /\ raced'
  PROVE  Doomed' \subseteq Doomed /\ Closing' \subseteq Closing
<1>1. Grows /\ Len(sent) \in Nat
  BY StepGrows, TypesNow
<1>2. raced => raced'
  BY Moves
<1>3. ASSUME NEW m \in 1..Len(sent'), NEW j \in Coordinators, Dooms(pass'[j], m, sent', raced')
      PROVE  m \in 1..Len(sent) /\ Dooms(pass[j], m, sent, raced)
  <2>1. pass'[j] = pass[j]
    BY <1>3, Zenon DEF Dooms
  <2>2. pass[j].msg \in 0..Len(sent)
    BY TypesNow DEF Shape
  <2>3. m \in 1..Len(sent) /\ sent'[m] = sent[m]
    BY <1>1, <1>3, <2>1, <2>2 DEF Dooms, Grows
  <2>4. QED
    BY <1>2, <1>3, <2>1, <2>3 DEF Dooms
<1>4. Doomed' \subseteq Doomed
  BY <1>3 DEF Doomed
<1>5. Closing' \subseteq Closing
  <2>1. "rebalance" \notin Listed
    BY DEF Listed
  <2>2. QED
    BY <2>1 DEF Closing, Closes
<1>6. QED
  BY <1>4, <1>5

LEMMA WaitingStays ==
  ASSUME TypeInv, [Next]_vars, NEW R, unread \ R \subseteq unread', Doomed' \subseteq Doomed
  PROVE  \A m \in unread \ (R \cup Doomed) : sent[m].task \in Waiting'
<1>1. Grows /\ \A m \in unread : m \in 1..Len(sent)
  BY StepGrows, TypesNow
<1>2. ASSUME NEW m \in unread \ (R \cup Doomed) PROVE sent[m].task \in Waiting'
  <2>1. m \in unread' \ Doomed' /\ sent'[m] = sent[m]
    BY <1>1 DEF Grows
  <2>2. QED
    BY <2>1 DEF Waiting
<1>3. QED
  BY <1>2

\* What is sent waits for its reader.
LEMMA SentWaits ==
  ASSUME TypeInv, [Next]_vars, NEW m \in Handoff, Post(m),
         \A j \in Coordinators : pass'[j].msg \in 0..Len(sent)
  PROVE  m.task \in Waiting' /\ unread \subseteq unread'
<1>1. Len(sent) \in Nat /\ sent \in Seq(Handoff)
  BY TypesNow DEF Shapes
<1>2. sent'[Len(sent) + 1] = m /\ Len(sent) + 1 \in unread' /\ unread \subseteq unread'
  BY <1>1 DEF Post
<1>3. Len(sent) + 1 \notin Doomed'
  BY <1>1 DEF Doomed, Dooms
<1>4. QED
  BY <1>2, <1>3 DEF Waiting

LEMMA RecordStays ==
  ASSUME Closing' \subseteq Closing
  PROVE  \A t \in OnRecord : origin'[t] = origin[t] => t \in OnRecord'
BY DEF OnRecord

\* A pass that is not `ecc assign`, or stays at its task.
LEMMA AssigningStays ==
  ASSUME TypeInv, NEW k \in Coordinators,
         \A j \in Coordinators : j # k => pass'[j] = pass[j],
         \/ pass[k].job # "assign"
         \/ pass[k].at = "settle"
         \/ Assigns(pass'[k], pass[k].task)
  PROVE  Assigning \subseteq Assigning'
BY DEF Assigning, Assigns

LEMMA KeepFrame ==
  ASSUME TypeInv, OriginInv, KeepInv, [Next]_vars,
         \A m \in unread \ Doomed : sent[m].task \in Accounted',
         \A t \in OnRecord : t \in Accounted',
         \A t \in Assigning : t \in Accounted'
  PROVE  KeepInv'
<1>1. Waiting \subseteq Accounted'
  BY DEF Waiting
<1>2. Working \cap Tasks \subseteq Accounted' /\ Excused \subseteq Accounted'
  BY WorkStays DEF Accounted
<1>3. QED
  BY <1>1, <1>2 DEF KeepInv, Accounted

\* What the environment does.
LEMMA KeepEnvironment ==
  ASSUME TypeInv, OriginInv, KeepInv, [Next]_vars,
         \/ UNCHANGED vars
         \/ \E f, l \in Sessions, t \in Tasks : HandOff(f, l, t)
         \/ \E t \in Tasks : \/ ComeDue(t) \/ delete_scheduled_task(t)
                             \/ \E l \in Sessions \cup {None} : Request(t, l)
         \/ \E s \in Sessions : View(s) \/ End(s) \/ DeleteMessages(s) \/ DeleteRow(s)
  PROVE  KeepInv'
<1>1. pass' = pass
  BY DEF vars, HandOff, ComeDue, delete_scheduled_task, Request, View, End, DeleteMessages,
         DeleteRow
<1>2. Doomed' \subseteq Doomed /\ Closing' \subseteq Closing
  BY <1>1, NobodySettles
<1>3. Assigning \subseteq Assigning' /\ Assigning \subseteq Accounted'
  BY <1>1 DEF Assigning, Accounted
<1>4. RowTypes /\ \A j \in Coordinators : pass'[j].msg \in 0..Len(sent)
  BY <1>1, TypesNow DEF Shape
<1>5. ASSUME unread \subseteq unread' PROVE \A m \in unread \ Doomed : sent[m].task \in Accounted'
  <2>1. \A m \in unread \ ({} \cup Doomed) : sent[m].task \in Waiting'
    BY <1>2, <1>5, WaitingStays
  <2>2. QED
    BY <2>1 DEF Accounted
<1>6. ASSUME \A t \in OnRecord : origin'[t] \in Recorded PROVE \A t \in OnRecord : t \in Accounted'
  BY <1>2, <1>6 DEF OnRecord, Accounted
<1>7. ASSUME NEW f \in Sessions, NEW l \in Sessions, NEW t \in Tasks, HandOff(f, l, t)
      PROVE  KeepInv'
  <2>1. Message(f, l, t) \in Handoff /\ Message(f, l, t).task = t
    BY DEF Message, Handoff
  <2>2. t \in Waiting' /\ unread \subseteq unread'
    BY <1>4, <1>7, <2>1, SentWaits DEF HandOff
  <2>3. \A u \in OnRecord : u \in Accounted'
    <3>1. origin' = [origin EXCEPT ![t] = "handoff"]
      BY <1>7 DEF HandOff, Arrive
    <3>2. \A u \in OnRecord : u = t \/ origin'[u] = origin[u]
      BY <1>4, <3>1 DEF OnRecord, RowTypes
    <3>3. QED
      BY <1>2, <2>2, <3>2, RecordStays DEF Accounted
  <2>4. QED
    BY <1>3, <1>5, <2>2, <2>3, KeepFrame
<1>8. ASSUME NEW t \in Tasks, NEW l, ComeDue(t) \/ delete_scheduled_task(t) \/ Request(t, l)
      PROVE  KeepInv'
  <2>1. unread' = unread /\ \E o \in Recorded : origin' = [origin EXCEPT ![t] = o]
    BY <1>8 DEF ComeDue, delete_scheduled_task, Request, Arrive, Recorded, mail
  <2>2. \A u \in OnRecord : origin'[u] \in Recorded
    BY <1>4, <2>1 DEF OnRecord, RowTypes
  <2>3. QED
    BY <1>3, <1>5, <1>6, <2>1, <2>2, KeepFrame
<1>9. ASSUME NEW s \in Sessions, View(s) PROVE KeepInv'
  <2>1. /\ unread' = unread \ UnreadOf(s) /\ origin' = origin
        /\ viewed' = viewed \cup {sent[m].task : m \in UnreadOf(s)}
    BY <1>9 DEF View, arrived
  <2>2. \A m \in unread \ (UnreadOf(s) \cup Doomed) : sent[m].task \in Accounted'
    <3>1. unread \ UnreadOf(s) \subseteq unread'
      BY <2>1
    <3>2. QED
      BY <1>2, <3>1, WaitingStays DEF Accounted
  <2>3. \A m \in UnreadOf(s) : sent[m].task \in Accounted'
    <3>1. \A m \in UnreadOf(s) : sent[m].task \in viewed' /\ sent[m].task \in Tasks
      BY <2>1, TypesNow DEF UnreadOf, Handoff
    <3>2. QED
      BY <3>1 DEF Accounted, Excused
  <2>4. \A u \in OnRecord : origin'[u] \in Recorded
    BY <2>1 DEF OnRecord
  <2>5. QED
    BY <1>3, <1>6, <2>2, <2>3, <2>4, KeepFrame
<1>10. ASSUME NEW s \in Sessions, DeleteMessages(s) PROVE KeepInv'
  <2> DEFINE R == unread \cap Mentioning(s)
  <2>1. /\ unread' = unread \ R /\ origin' = origin
        /\ erased' = erased \cup {sent[m].task : m \in R}
    BY <1>10 DEF DeleteMessages, arrived
  <2>2. \A m \in R : sent[m].task \in Accounted'
    <3>1. \A m \in R : sent[m].task \in erased' /\ sent[m].task \in Tasks
      BY <2>1, TypesNow DEF Handoff
    <3>2. QED
      BY <3>1 DEF Accounted, Excused
  <2> HIDE DEF R
  <2>3. \A m \in unread \ (R \cup Doomed) : sent[m].task \in Accounted'
    <3>1. unread \ R \subseteq unread'
      BY <2>1
    <3>2. QED
      BY <1>2, <3>1, WaitingStays DEF Accounted
  <2>4. \A u \in OnRecord : origin'[u] \in Recorded
    BY <2>1 DEF OnRecord
  <2>5. QED
    BY <1>3, <1>6, <2>2, <2>3, <2>4, KeepFrame
<1>11. CASE UNCHANGED vars \/ \E s \in Sessions : End(s) \/ DeleteRow(s)
  <2>1. unread' = unread /\ origin' = origin
    BY <1>11 DEF vars, mail, arrived, End, DeleteRow
  <2>2. \A u \in OnRecord : origin'[u] \in Recorded
    BY <2>1 DEF OnRecord
  <2>3. QED
    BY <1>3, <1>5, <1>6, <2>1, <2>2, KeepFrame
<1>12. QED
  BY <1>7, <1>8, <1>9, <1>10, <1>11

\* A pass that has nothing to settle, or nothing any more.
LEMMA KeepUnsettled ==
  ASSUME TypeInv, OriginInv, KeepInv, [Next]_vars, NEW k \in Coordinators, NEW q, Set(k, q),
         \/ q.at # "settle"
         \/ q.job = "rebalance" /\ q.to = q.lead /\ raced',
         \/ unread' = unread
         \/ \E r : /\ unread' = unread \ {r}
                   /\ r \in unread => r \in Doomed \/ sent[r].task \in Accounted',
         \A t \in OnRecord : origin'[t] \in Recorded,
         \/ pass[k].job # "assign" \/ pass[k].at = "settle"
         \/ Assigns(q, pass[k].task) \/ pass[k].task \in Accounted'
  PROVE  KeepInv'
<1>1. \A j \in Coordinators : pass'[j] = IF j = k THEN q ELSE pass[j]
  BY DEF Set, TypeInv, Shapes
<1>2. Doomed' \subseteq Doomed /\ Closing' \subseteq Closing
  <2>1. \A j \in Coordinators :
           \/ pass'[j] = pass[j] \/ pass'[j].at # "settle"
           \/ pass'[j].job = "rebalance" /\ pass'[j].to = pass'[j].lead /\ raced'
    BY <1>1, Zenon
  <2>2. QED
    BY <2>1, NobodySettles
<1>3. \A m \in unread \ Doomed : sent[m].task \in Accounted'
  <2>1. ASSUME NEW R, unread \ R \subseteq unread'
        PROVE  \A m \in unread \ (R \cup Doomed) : sent[m].task \in Accounted'
    BY <1>2, <2>1, WaitingStays DEF Accounted
  <2>2. CASE unread' = unread
    <3>1. \A m \in unread \ ({} \cup Doomed) : sent[m].task \in Accounted'
      BY <2>1, <2>2
    <3>2. QED
      BY <3>1
  <2>3. ASSUME NEW r, unread' = unread \ {r},
               r \in unread => r \in Doomed \/ sent[r].task \in Accounted'
        PROVE  \A m \in unread \ Doomed : sent[m].task \in Accounted'
    <3>1. \A m \in unread \ ({r} \cup Doomed) : sent[m].task \in Accounted'
      BY <2>1, <2>3
    <3>2. QED
      BY <2>3, <3>1
  <2>4. QED
    BY <2>2, <2>3
<1>4. \A t \in OnRecord : t \in Accounted'
  BY <1>2 DEF OnRecord, Accounted
<1>5. \A t \in Assigning : t \in Accounted'
  <2>1. ASSUME NEW t \in Assigning, ~Assigns(pass[k], t) PROVE t \in Assigning'
    BY <1>1, <2>1 DEF Assigning
  <2>2. ASSUME NEW t \in Assigning, Assigns(pass[k], t) PROVE t \in Accounted'
    <3>1. t \in Tasks /\ t = pass[k].task /\ (Assigns(q, t) \/ t \in Accounted')
      BY <2>2 DEF Assigning, Assigns
    <3>2. CASE Assigns(q, t)
      BY <1>1, <3>1, <3>2 DEF Assigning, Accounted
    <3>3. QED
      BY <3>1, <3>2
  <2>3. QED
    BY <2>1, <2>2 DEF Accounted
<1>6. QED
  BY <1>3, <1>4, <1>5, KeepFrame

\* A pass that comes to settle what it has given to somebody.
LEMMA KeepSettling ==
  ASSUME TypeInv, OriginInv, KeepInv, [Next]_vars, NEW k \in Coordinators, NEW q, Set(k, q),
         unread \subseteq unread', origin' = origin,
         q.task = pass[k].task, q.task \in Accounted',
         q.job \in Inboxes => /\ q.msg \in 1..Len(sent) /\ q.task = sent[q.msg].task
  PROVE  KeepInv'
<1>1. \A j \in Coordinators : pass'[j] = IF j = k THEN q ELSE pass[j]
  BY DEF Set, TypeInv, Shapes
<1>2. Grows /\ Len(sent) \in Nat /\ (raced => raced')
  BY StepGrows, TypesNow, Moves
<1>3. ASSUME NEW m \in unread \ Doomed PROVE sent[m].task \in Accounted'
  <2>1. m \in unread' /\ m \in 1..Len(sent) /\ sent'[m] = sent[m]
    BY <1>2, TypesNow DEF Grows
  <2>2. CASE m \in Doomed'
    <3>1. PICK j \in Coordinators : Dooms(pass'[j], m, sent', raced')
      BY <2>2 DEF Doomed
    <3>2. j = k
      <4>1. ASSUME pass'[j] = pass[j] PROVE Dooms(pass[j], m, sent, raced)
        BY <1>2, <2>1, <3>1, <4>1 DEF Dooms
      <4>2. QED
        BY <1>1, <2>1, <4>1 DEF Doomed
    <3>3. q.msg = m /\ q.job \in Inboxes
      BY <1>1, <3>1, <3>2, Zenon DEF Dooms, Inboxes
    <3>4. QED
      BY <3>3
  <2>3. CASE m \notin Doomed'
    BY <2>1, <2>3 DEF Waiting, Accounted
  <2>4. QED
    BY <2>2, <2>3
<1>4. ASSUME NEW t \in OnRecord PROVE t \in Accounted'
  <2>1. t \in Closing' => t \in Closing \/ t = q.task
    BY <1>1 DEF Closing, Closes
  <2>2. CASE t = q.task
    BY <2>2
  <2>3. CASE t # q.task
    BY <2>1, <2>3 DEF OnRecord, Accounted
  <2>4. QED
    BY <2>2, <2>3
<1>5. ASSUME NEW t \in Assigning PROVE t \in Accounted'
  <2>1. CASE Assigns(pass[k], t)
    BY <2>1 DEF Assigns
  <2>2. CASE ~Assigns(pass[k], t)
    BY <1>1, <2>2 DEF Assigning, Accounted
  <2>3. QED
    BY <2>1, <2>2
<1>6. QED
  BY <1>3, <1>4, <1>5, KeepFrame

\* The passes begin, or look for what is next.
LEMMA KeepLook ==
  ASSUME TypeInv, OriginInv, KeepInv, [Next]_vars, NEW k \in Coordinators,
         \/ Start(k)
         \/ EndPass(k) \/ NextLead(k) \/ NextDelegate(k) \/ NextMoved(k)
  PROVE  KeepInv'
<1>1. CASE EndPass(k) \/ NextLead(k) \/ NextDelegate(k) \/ NextMoved(k)
  <2>1. At(k, "next") /\ UNCHANGED <<mail, arrived>>
    BY <1>1, LookEffect
  <2>2. PICK q : Set(k, q) /\ (q = NoPass \/ q.at \in {"next", "decide"})
    BY <1>1, LookEffect
  <2>3. q.at # "settle"
    BY <2>2, NoPassShape
  <2>4. pass[k].job # "assign"
    BY <2>1, TypesNow DEF At, Shape, Routing
  <2>5. unread' = unread /\ \A t \in OnRecord : origin'[t] \in Recorded
    BY <2>1 DEF mail, arrived, OnRecord
  <2>6. QED
    BY <2>2, <2>3, <2>4, <2>5, KeepUnsettled
<1>2. CASE Start(k)
  <2>1. PICK q : /\ Set(k, q) /\ q.at \in {"next", "decide"}
                 /\ \/ origin' = origin
                    \/ /\ q.at = "decide" /\ q.job = "assign" /\ q.task \in Tasks
                       /\ origin' = [origin EXCEPT ![q.task] = "assign"]
    BY <1>2, StartEffect
  <2>2. unread' = unread /\ pass[k].job = "none"
    <3>1. At(k, "idle") /\ unread' = unread
      BY <1>2, StartEffect DEF mail
    <3>2. QED
      BY <3>1, TypesNow DEF At, Shape
  <2>3. CASE origin' = origin
    <3>1. \A t \in OnRecord : origin'[t] \in Recorded
      BY <2>3 DEF OnRecord
    <3>2. QED
      BY <2>1, <2>2, <3>1, KeepUnsettled
  <2>4. CASE /\ q.at = "decide" /\ q.job = "assign" /\ q.task \in Tasks
             /\ origin' = [origin EXCEPT ![q.task] = "assign"]
    <3>1. \A j \in Coordinators : pass'[j] = IF j = k THEN q ELSE pass[j]
      BY <2>1 DEF Set, TypeInv, Shapes
    <3>2. Doomed' \subseteq Doomed /\ Closing' \subseteq Closing
      BY <2>4, <3>1, NobodySettles
    <3>3. q.task \in Assigning'
      BY <2>4, <3>1 DEF Assigning, Assigns
    <3>4. \A m \in unread \ Doomed : sent[m].task \in Accounted'
      <4>1. \A m \in unread \ ({} \cup Doomed) : sent[m].task \in Waiting'
        BY <2>2, <3>2, WaitingStays
      <4>2. QED
        BY <4>1 DEF Accounted
    <3>5. \A t \in OnRecord : t \in Accounted'
      <4>1. \A t \in OnRecord : t = q.task \/ origin'[t] = origin[t]
        BY <2>4, TypesNow DEF OnRecord, RowTypes
      <4>2. QED
        BY <3>2, <3>3, <4>1, RecordStays DEF Accounted
    <3>6. \A t \in Assigning : t \in Accounted'
      BY <2>2, <3>1 DEF Assigning, Assigns, Accounted
    <3>7. QED
      BY <3>4, <3>5, <3>6, KeepFrame
  <2>5. QED
    BY <2>1, <2>3, <2>4
<1>3. QED
  BY <1>1, <1>2

\* A direct assignment that was turned down is excused.
LEMMA TurnedDown ==
  ASSUME TypeInv, NEW u, Refuse(u), u.task \in Tasks, u.job = "assign"
  PROVE  u.task \in Accounted'
BY DEF Refuse, Accounted, Excused

\* An error ends the routing.
LEMMA KeepGivenUp ==
  ASSUME TypeInv, OriginInv, KeepInv, [Next]_vars, NEW k \in Coordinators, NEW u,
         GiveUp(k, u), Refuse(u), Ready(u, sent), u.job = pass[k].job,
         u.job = "assign" => u.task = pass[k].task, unread' = unread
  PROVE  KeepInv'
<1>1. PICK r : Set(k, r) /\ r.at \in {"idle", "next"}
  BY GivenUp DEF Set
<1>2. \A t \in OnRecord : origin'[t] \in Recorded
  <2>1. CASE u.job = "remote"
    BY <2>1, TypesNow DEF GiveUp, OnRecord, RowTypes, Recorded
  <2>2. CASE u.job # "remote"
    BY <2>2 DEF GiveUp, OnRecord
  <2>3. QED
    BY <2>1, <2>2
<1>3. pass[k].job = "assign" => pass[k].task \in Accounted'
  BY TurnedDown DEF Ready
<1>4. QED
  BY <1>1, <1>2, <1>3, KeepUnsettled

\* A team without room for a delegate that a rebalance would give to.
LEMMA NoRoom ==
  ASSUME TypeInv, RoomInv, NEW k \in Coordinators, pass[k].at = "decide",
         pass[k].job = "rebalance", Cardinality(Delegates(pass[k].lead)) >= MaxTeam
  PROVE  raced
<1>1. pass[k].lead \notin Roomy
  <2>1. Cardinality(Delegates(pass[k].lead)) \in Nat /\ MaxTeam \in Nat
    BY TeamIsFinite, FS_CardinalityType, RoutingAssumption DEF RoutingAssumption
  <2>2. QED
    BY <2>1 DEF Roomy, HasCapacity
<1>2. QED
  BY <1>1 DEF RoomInv

LEMMA KeepDecide ==
  ASSUME TypeInv, OriginInv, RoomInv, KeepInv, [Next]_vars, NEW k \in Coordinators,
         LeadIsGone(k) \/ Decide(k)
  PROVE  KeepInv'
<1>0. ASSUME NEW u \in Upcoming(pass[k])
      PROVE  /\ Ready(u, sent) /\ u \in Pass /\ u.task \in Tasks /\ u.job = pass[k].job
             /\ u.job \in {"assign", "rebalance"} => u = pass[k] /\ u.at = "decide"
  <2>1. /\ Ready(u, sent) /\ u.job = pass[k].job /\ u.at = pass[k].at
        /\ u.at \in {"next", "decide"}
        /\ pass[k].at = "decide" => u = pass[k]
        /\ pass[k].at = "next" => u.job \in {"dispatch"} \cup Listed
    BY UpcomingReady
  <2>2. u \in Pass /\ u.task \in Tasks
    BY <2>1 DEF Ready
  <2>3. QED
    BY <2>1, <2>2 DEF Listed
<1>1. CASE LeadIsGone(k)
  <2>1. PICK u \in Upcoming(pass[k]) : GiveUp(k, u) /\ Refuse(u)
    BY <1>1 DEF LeadIsGone
  <2>2. unread' = unread
    BY <1>1 DEF LeadIsGone, mail
  <2>3. QED
    BY <1>0, <2>1, <2>2, KeepGivenUp
<1>2. CASE Decide(k)
  <2>0. unread' = unread /\ origin' = origin /\ raced' = raced
    BY <1>2 DEF Decide, Unchanging, mail, arrived
  <2>1. \A t \in OnRecord : origin'[t] \in Recorded
    BY <2>0 DEF OnRecord
  <2>2. PICK u \in Upcoming(pass[k]) :
          \/ Set(k, [u EXCEPT !.at = "queue"])
          \/ Cardinality(Delegates(u.lead)) >= MaxTeam /\ Defer(k, u)
          \/ \E d : Set(k, [u EXCEPT !.at = "send", !.to = d])
    BY <1>2, DecideCases
  <2>3. u \in Pass /\ u.task \in Tasks
    BY <1>0
  <2>4. ASSUME NEW q, Set(k, q), q.at \in {"queue", "send"}, q.job = u.job, q.task = u.task
        PROVE  KeepInv'
    <3>1. q.at # "settle" /\ (pass[k].job # "assign" \/ Assigns(q, pass[k].task))
      BY <1>0, <2>4 DEF Assigns
    <3>2. QED
      BY <2>0, <2>1, <2>4, <3>1, KeepUnsettled
  <2>5. CASE Set(k, [u EXCEPT !.at = "queue"])
    BY <2>3, <2>4, <2>5 DEF Pass
  <2>6. ASSUME NEW d, Set(k, [u EXCEPT !.at = "send", !.to = d]) PROVE KeepInv'
    BY <2>3, <2>4, <2>6 DEF Pass
  <2>7. CASE Cardinality(Delegates(u.lead)) >= MaxTeam /\ Defer(k, u)
    <3>1. CASE u.job = "rebalance"
      <4> DEFINE q == [u EXCEPT !.at = "settle", !.to = u.lead]
      <4>1. q.job = "rebalance" /\ q.to = q.lead
        BY <2>3, <3>1 DEF Pass, Routing
      <4>2. Set(k, q)
        BY <2>7, <3>1 DEF Defer
      <4>3. raced'
        <5>1. raced
          BY <1>0, <2>7, <3>1, NoRoom
        <5>2. QED
          BY <5>1, Moves
      <4>4. pass[k].job # "assign"
        BY <1>0, <3>1
      <4> HIDE DEF q
      <4>5. QED
        BY <2>0, <2>1, <4>1, <4>2, <4>3, <4>4, KeepUnsettled
    <3>2. CASE u.job # "rebalance"
      <4>1. PICK q : Set(k, q) /\ q.at # "settle"
        <5>1. Clear(u).at = "next"
          BY <2>3 DEF Clear, Pass
        <5>2. QED
          BY <2>7, <3>2, <5>1, NoPassShape DEF Defer
      <4>2. pass[k].job = "assign" => pass[k].task \in Accounted'
        BY <1>0, <2>7, TurnedDown DEF Defer
      <4>3. QED
        BY <2>0, <2>1, <4>1, <4>2, KeepUnsettled
    <3>3. QED
      BY <3>1, <3>2
  <2>8. QED
    BY <2>2, <2>5, <2>6, <2>7
<1>3. QED
  BY <1>1, <1>2

LEMMA KeepQueue ==
  ASSUME TypeInv, OriginInv, KeepInv, [Next]_vars, NEW k \in Coordinators,
         QueueFails(k) \/ Send(k) \/ \E s \in Sessions : Queue(k, s)
  PROVE  KeepInv'
<1> DEFINE p == pass[k]
<1>0. /\ p.at \in {"queue", "send"} /\ p \in Pass /\ Shape(p, sent, Born)
      /\ Ready(p, sent) /\ p.task \in Tasks /\ Len(sent) \in Nat
  <2>1. p.at \in {"queue", "send"}
    BY DEF QueueFails, Send, Queue, NewSession, At
  <2>2. Ready(p, sent)
    BY <2>1, RoutingReady DEF Routing
  <2>3. QED
    BY <2>1, <2>2, TypesNow DEF Ready
<1>1. CASE QueueFails(k)
  <2>1. GiveUp(k, p) /\ Refuse(p) /\ unread' = unread
    BY <1>1 DEF QueueFails, mail
  <2>2. QED
    BY <1>0, <2>1, KeepGivenUp
<1>2. CASE Send(k)
  <2> DEFINE q == [p EXCEPT !.at = "settle"]
             m == Message(p.lead, p.to, p.task)
  <2>1. /\ Set(k, q) /\ q.task = p.task /\ q.msg = p.msg /\ q.job = p.job
        /\ Post(m) /\ origin' = origin
    BY <1>0, <1>2 DEF Send, Pass, arrived
  <2>2. m \in Handoff /\ m.task = p.task
    <3>1. p.lead \in Sessions /\ p.to \in Sessions
      BY <1>0, <1>2 DEF Send, At, Shape, Pass, Lead
    <3>2. QED
      BY <1>0, <3>1 DEF Message, Handoff
  <2> HIDE DEF q, m
  <2>3. \A j \in Coordinators : pass'[j].msg \in 0..Len(sent)
    <3>1. \A j \in Coordinators : pass[j].msg \in 0..Len(sent)
      BY TypesNow DEF Shape
    <3>2. QED
      BY <2>1, <3>1 DEF Set, TypeInv, Shapes
  <2>4. p.task \in Accounted' /\ unread \subseteq unread'
    BY <2>1, <2>2, <2>3, SentWaits DEF Accounted
  <2>5. q.job \in Inboxes => q.msg \in 1..Len(sent) /\ q.task = sent[q.msg].task
    BY <1>0, <2>1 DEF Ready
  <2>6. QED
    BY <2>1, <2>4, <2>5, KeepSettling
<1>3. ASSUME NEW s \in Sessions, Queue(k, s) PROVE KeepInv'
  <2> DEFINE q == [p EXCEPT !.to = s, !.at = IF p.lead = None THEN "settle" ELSE "send"]
  <2>1. /\ Set(k, q) /\ q.task = p.task /\ q.msg = p.msg /\ q.job = p.job
        /\ q.at = (IF p.lead = None THEN "settle" ELSE "send")
    BY <1>0, <1>3 DEF Queue, Pass
  <2>2. unread' = unread /\ origin' = origin
    BY <1>3 DEF Queue, mail, arrived
  <2> HIDE DEF q
  <2>3. p.task \in Accounted'
    <3>1. work' = [work EXCEPT ![s] = p.task] /\ work \in [Sessions -> Tasks \cup {None}]
      BY <1>3, TypesNow DEF Queue, NewSession, RowTypes
    <3>2. QED
      BY <3>1 DEF Accounted, Working
  <2>4. q.job \in Inboxes => q.msg \in 1..Len(sent) /\ q.task = sent[q.msg].task
    BY <1>0, <2>1 DEF Ready
  <2>5. QED
    BY <2>1, <2>2, <2>3, <2>4, KeepSettling
<1>4. QED
  BY <1>1, <1>2, <1>3

LEMMA KeepSettle ==
  ASSUME TypeInv, OriginInv, KeepInv, [Next]_vars, NEW k \in Coordinators,
         \/ SettleHandoff(k) \/ SettleMoved(k) \/ SettleRequest(k)
         \/ record_scheduled_task_run(k) \/ SettleAssign(k) \/ Crash(k)
  PROVE  KeepInv'
<1> DEFINE p == pass[k]
<1>0. p.at \in Routing /\ Ready(p, sent) /\ p.task \in Tasks /\ p \in Pass
  <2>1. p.at \in Routing
    BY DEF SettleHandoff, SettleMoved, SettleRequest, record_scheduled_task_run, SettleAssign,
           Crash, At, Routing
  <2>2. Ready(p, sent)
    BY <2>1, RoutingReady
  <2>3. QED
    BY <2>1, <2>2 DEF Ready
<1>1. /\ Clear(p).at = "next" /\ [Clear(p) EXCEPT !.left = @ - 1].at = "next"
      /\ NoPass.at = "idle"
  BY <1>0, NoPassShape DEF Clear, Pass
<1>2. \E q : Set(k, q) /\ q.at # "settle"
  BY <1>1 DEF SettleHandoff, SettleMoved, SettleRequest, record_scheduled_task_run,
              SettleAssign, Crash
<1>3. PICK q : Set(k, q) /\ q.at # "settle"
  BY <1>2
<1>4. ASSUME origin' = origin PROVE \A t \in OnRecord : origin'[t] \in Recorded
  BY <1>4 DEF OnRecord
<1>5. CASE SettleHandoff(k)
  <2>1. p.at = "settle" /\ p.job = "dispatch" /\ unread' = unread \ {p.msg} /\ origin' = origin
    BY <1>5 DEF SettleHandoff, At, arrived
  <2>2. p.msg \in unread => p.msg \in Doomed
    BY <2>1, TypesNow DEF Doomed, Dooms
  <2>3. QED
    BY <1>3, <1>4, <2>1, <2>2, KeepUnsettled
<1>6. CASE SettleMoved(k)
  <2>1. p.at = "settle" /\ p.job = "rebalance" /\ origin' = origin
    BY <1>6 DEF SettleMoved, At, arrived
  <2>2. CASE p.to = sent[p.msg].to
    <3>1. unread' = unread
      BY <1>6, <2>2 DEF SettleMoved
    <3>2. QED
      BY <1>3, <1>4, <2>1, <3>1, KeepUnsettled
  <2>3. CASE p.to # sent[p.msg].to
    <3>1. /\ unread' = unread \ {p.msg}
          /\ mislaid' = IF p.to = p.lead THEN mislaid \cup {p.task} ELSE mislaid
          /\ raced' = raced
      BY <1>6, <2>3 DEF SettleMoved
    <3>2. CASE p.to # p.lead \/ ~raced
      <4>1. p.msg \in unread => p.msg \in Doomed
        BY <2>1, <2>3, <3>2, TypesNow DEF Doomed, Dooms
      <4>2. QED
        BY <1>3, <1>4, <2>1, <3>1, <4>1, KeepUnsettled
    <3>3. CASE p.to = p.lead /\ raced
      <4>1. p.task = sent[p.msg].task
        BY <1>0, <2>1 DEF Ready, Inboxes
      <4>2. p.task \in mislaid' /\ raced'
        BY <3>1, <3>3
      <4>3. sent[p.msg].task \in Accounted'
        BY <1>0, <4>1, <4>2 DEF Accounted, Excused
      <4>4. QED
        BY <1>3, <1>4, <2>1, <3>1, <4>3, KeepUnsettled
    <3>4. QED
      BY <3>2, <3>3
  <2>4. QED
    BY <2>2, <2>3
<1>7. CASE SettleRequest(k) \/ record_scheduled_task_run(k)
  <2>1. /\ p.at = "settle" /\ p.job \in Listed /\ unread' = unread
        /\ \E o : origin' = [origin EXCEPT ![p.task] = o]
    BY <1>7 DEF SettleRequest, record_scheduled_task_run, At, Listed, mail
  <2>2. p.task \in Closing
    BY <1>0, <2>1 DEF Closing, Closes
  <2>3. \A t \in OnRecord : origin'[t] \in Recorded
    BY <2>1, <2>2, TypesNow DEF OnRecord, RowTypes
  <2>4. QED
    BY <1>3, <2>1, <2>3, KeepUnsettled
<1>8. CASE SettleAssign(k)
  <2>1. p.at = "settle" /\ unread' = unread /\ origin' = origin
    BY <1>8 DEF SettleAssign, At, mail, arrived
  <2>2. QED
    BY <1>3, <1>4, <2>1, KeepUnsettled
<1>9. CASE Crash(k)
  <2>1. unread' = unread /\ origin' = origin /\ cut' = cut \cup {p.task}
    BY <1>9 DEF Crash, CutOff, mail, arrived
  <2>2. p.job = "assign" => p.task \in Accounted'
    <3>1. p.job = "assign" => origin[p.task] = "assign"
      BY <1>0, ListedOrigin
    <3>2. QED
      BY <1>0, <2>1, <3>1 DEF Accounted, Excused
  <2>3. QED
    BY <1>3, <1>4, <2>1, <2>2, KeepUnsettled
<1>10. QED
  BY <1>5, <1>6, <1>7, <1>8, <1>9

LEMMA KeepStep ==
  ASSUME TypeInv, OriginInv, RoomInv, KeepInv, [Next]_vars
  PROVE  KeepInv'
<1>1. ASSUME NEW k \in Coordinators, PassStep(k) \/ Start(k) \/ Crash(k) \/ QueueFails(k)
      PROVE  KeepInv'
  BY <1>1, KeepLook, KeepDecide, KeepQueue, KeepSettle DEF PassStep
<1>2. CASE ~\E k \in Coordinators : PassStep(k) \/ Start(k) \/ Crash(k) \/ QueueFails(k)
  BY <1>2, KeepEnvironment DEF Next, Environment
<1>3. QED
  BY <1>1, <1>2

LEMMA KeepInit == Init => KeepInv
<1> SUFFICES ASSUME Init, NEW t \in Tasks PROVE t \in Accounted
  BY DEF KeepInv
<1>1. Closing = {} /\ Doomed = {}
  BY DEF Init, Closing, Closes, Doomed, Dooms, NoPass
<1>2. CASE \E i \in 1..Len(Backlog) : Backlog[i].task = t
  BY <1>1, <1>2 DEF Init, Accounted, Waiting
<1>3. CASE ~\E i \in 1..Len(Backlog) : Backlog[i].task = t
  BY <1>1, <1>3 DEF Init, Accounted, OnRecord, Recorded
<1>4. QED
  BY <1>2, <1>3

\* No task is lost between inboxes: whatever crashes, is deleted, is saturated or
\* runs at the same time, a task that has arrived is in work, unread, on record or
\* with `ecc assign`, or somebody was told.
THEOREM NoTaskIsLost == Spec => []NoTaskLost
<1> DEFINE IInv == TypeInv /\ AloneInv /\ OriginInv /\ RoomInv /\ KeepInv
<1>1. Init => IInv
  BY InitTypes, AloneInit, OriginInit, RoomInit, KeepInit
<1>2. IInv /\ [Next]_vars => IInv'
  BY StepTypes, AloneStep, OriginStep, RoomStep, KeepStep
<1>3. IInv => NoTaskLost
  <2>1. ASSUME NEW t \in Tasks, t \in Working \cup Waiting \cup OnRecord \cup Assigning PROVE Kept(t)
    BY <2>1 DEF Working, Waiting, OnRecord, Recorded, Assigning, Assigns, Kept
  <2>2. QED
    BY <2>1 DEF KeepInv, Accounted, Excused, NoTaskLost
<1> HIDE DEF IInv
<1>4. QED
  BY <1>1, <1>2, <1>3, PTL DEF Spec

(***************************************************************************)
(* No handoff is routed twice.  Two passes at a time can do it, and a pass *)
(* that is cut off before it settles: otherwise one pass has the field.    *)
(***************************************************************************)
\* Messages that nobody has passed on yet, unless the routing was cut off.
Unpassed == {m \in 1..Len(sent) : times[m] = 0 \/ sent[m].task \in cut}
\* Messages passed on that their pass is about to mark read.
Holds(p, m, box) ==
  /\ p.at = "settle" /\ p.msg = m
  /\ p.job = "dispatch" \/ (p.job = "rebalance" /\ p.to # box[m].to)
Held == {m \in 1..Len(sent) : \E k \in Coordinators : Holds(pass[k], m, sent)}

MailOf(p, fresh, box, ur) ==
  /\ p.batch \subseteq fresh
  /\ p.at \in Routing => p.msg \notin p.batch
  /\ p.at \in {"decide", "queue", "send"} /\ p.job \in Inboxes => p.msg \in fresh
  /\ p.at \in {"send", "settle"} /\ p.job = "rebalance" =>
       p.to # box[p.msg].to \/ p.msg \notin ur

MailOnce ==
  /\ \A m \in Messages : m > Len(sent) => times[m] = 0
  /\ \A m \in 1..Len(sent) : times[m] <= 1 \/ sent[m].task \in cut
  /\ unread \subseteq Unpassed \cup Held
  /\ \A k \in Coordinators : MailOf(pass[k], Unpassed, sent, unread)
MailInv == raced \/ MailOnce

\* A pass that nobody has come in the way of is alone.
LEMMA Solo ==
  ASSUME TypeInv, AloneInv, [Next]_vars, ~raced', NEW k \in Coordinators,
         PassStep(k) \/ Start(k) \/ Crash(k) \/ QueueFails(k)
  PROVE  ~raced /\ \A j \in Coordinators : j # k => pass[j] = NoPass
<1>1. ~raced
  BY Moves
<1>2. ASSUME NEW j \in Coordinators, j # k PROVE pass[j] = NoPass
  <2>1. At(j, "idle")
    BY <1>2, Noticed
  <2>2. QED
    BY <2>1, TypesNow DEF At, Shape
<1>3. QED
  BY <1>1, <1>2

LEMMA NoPassMail ==
  ASSUME TypeInv, NEW F, NEW b, NEW u
  PROVE  MailOf(NoPass, F, b, u)
BY DEF NoPass, MailOf, Routing

LEMMA FreshStays ==
  ASSUME TypeInv, [Next]_vars, times' = times
  PROVE  Unpassed \subseteq Unpassed'
<1>1. Grows /\ cut \subseteq cut' /\ Len(sent) \in Nat
  BY StepGrows, HistoryStays, TypesNow
<1>2. 1..Len(sent) \subseteq 1..Len(sent')
  BY <1>1 DEF Grows
<1>3. QED
  BY <1>1, <1>2 DEF Unpassed, Grows

\* Whatever else happens, what has just been sent has not been passed on.
LEMMA NewIsFresh ==
  ASSUME TypeInv, [Next]_vars, MailOnce, NEW m \in 1..Len(sent'), m \notin 1..Len(sent)
  PROVE  m \in Messages /\ m \notin unread /\ times[m] = 0
<1>1. Len(sent) \in Nat /\ Len(sent') \in Nat /\ Len(sent') <= MaxSent /\ unread \subseteq 1..Len(sent)
  BY StepGrows, TypesNow DEF Grows, RowTypes
<1>2. m \in Messages /\ m > Len(sent)
  BY <1>1, RoutingAssumption DEF Messages, RoutingAssumption
<1>3. QED
  BY <1>1, <1>2 DEF MailOnce

\* A step that passes nothing on.
LEMMA MailFrame ==
  ASSUME TypeInv, MailOnce, [Next]_vars, times' = times,
         \A m \in unread' : m \in unread \/ m \notin 1..Len(sent),
         unread' \cap Held \subseteq Unpassed' \cup Held',
         \A k \in Coordinators : MailOf(pass'[k], Unpassed', sent', unread')
  PROVE  MailOnce'
<1>1. Grows /\ Len(sent) \in Nat /\ Len(sent') \in Nat /\ cut \subseteq cut'
  BY StepGrows, HistoryStays, TypesNow DEF Grows
<1>2. unread' \subseteq 1..Len(sent') /\ Unpassed \subseteq Unpassed'
  BY StepTypes, FreshStays DEF TypeInv, TypeOK
<1>3. \A m \in 1..Len(sent') : m \notin 1..Len(sent) => times[m] = 0
  BY NewIsFresh
<1>4. unread' \subseteq Unpassed' \cup Held'
  <2>1. ASSUME NEW m \in unread', m \notin 1..Len(sent) PROVE m \in Unpassed'
    BY <1>2, <1>3, <2>1 DEF Unpassed
  <2>2. ASSUME NEW m \in unread', m \in unread PROVE m \in Unpassed' \cup Held'
    BY <1>2, <2>2 DEF MailOnce
  <2>3. QED
    BY <2>1, <2>2
<1>5. \A m \in 1..Len(sent') : times'[m] <= 1 \/ sent'[m].task \in cut'
  <2>1. ASSUME NEW m \in 1..Len(sent'), m \in 1..Len(sent)
        PROVE  times'[m] <= 1 \/ sent'[m].task \in cut'
    BY <1>1, <2>1 DEF MailOnce, Grows
  <2>2. ASSUME NEW m \in 1..Len(sent'), m \notin 1..Len(sent)
        PROVE  times'[m] <= 1 \/ sent'[m].task \in cut'
    BY <1>3, <2>2
  <2>3. QED
    BY <2>1, <2>2
<1>6. \A m \in Messages : m > Len(sent') => times'[m] = 0
  BY <1>1 DEF MailOnce, Grows, Messages
<1>7. QED
  BY <1>4, <1>5, <1>6 DEF MailOnce

\* The environment reads and sends messages, but passes none on.
LEMMA MailEnvironment ==
  ASSUME TypeInv, MailOnce, [Next]_vars, pass' = pass, times' = times,
         \/ unread' \subseteq unread
         \/ \E m \in Handoff : Post(m)
  PROVE  MailOnce'
<1>1. Grows /\ Len(sent) \in Nat
  BY StepGrows, TypesNow
<1>2. Unpassed \subseteq Unpassed'
  BY FreshStays
<1>3. \A m \in unread' : m \in unread \/ m \notin 1..Len(sent)
  BY <1>1 DEF Post
<1>4. Held \subseteq Held'
  BY <1>1 DEF Held, Holds, Grows
<1>5. ASSUME NEW k \in Coordinators PROVE MailOf(pass'[k], Unpassed', sent', unread')
  <2>1. MailOf(pass[k], Unpassed, sent, unread) /\ Shape(pass[k], sent, Born)
    BY TypesNow DEF MailOnce
  <2>2. pass[k].at \in Routing /\ pass[k].job \in Inboxes =>
          pass[k].msg \in 1..Len(sent) /\ sent'[pass[k].msg] = sent[pass[k].msg]
    BY <1>1, <2>1 DEF Shape, Grows
  <2>3. \A m \in 1..Len(sent) : m \notin unread => m \notin unread'
    BY <1>3
  <2>4. QED
    BY <1>2, <2>1, <2>2, <2>3 DEF MailOf, Routing, Inboxes
<1>6. QED
  BY <1>3, <1>4, <1>5, MailFrame

\* A pass that is alone goes on to q.
LEMMA MailAlone ==
  ASSUME TypeInv, MailOnce, [Next]_vars, times' = times, sent' = sent,
         NEW k \in Coordinators, NEW q, Set(k, q),
         \A j \in Coordinators : j # k => pass[j] = NoPass,
         unread' \subseteq unread,
         \A m \in unread' : Holds(pass[k], m, sent) => sent[m].task \in cut' \/ Holds(q, m, sent),
         MailOf(q, Unpassed, sent, unread)
  PROVE  MailOnce'
<1>1. \A j \in Coordinators : pass'[j] = IF j = k THEN q ELSE pass[j]
  BY DEF Set, TypeInv, Shapes
<1>2. Unpassed \subseteq Unpassed'
  BY FreshStays
<1>3. unread' \cap Held \subseteq Unpassed' \cup Held'
  <2>1. ASSUME NEW m \in unread', m \in Held PROVE m \in Unpassed' \cup Held'
    <3>1. m \in 1..Len(sent) /\ Holds(pass[k], m, sent)
      <4>1. \A j \in Coordinators : j # k => ~Holds(pass[j], m, sent)
        BY NoPassShape DEF Holds
      <4>2. QED
        BY <2>1, <4>1 DEF Held
    <3>2. CASE sent[m].task \in cut'
      BY <3>1, <3>2 DEF Unpassed
    <3>3. CASE Holds(q, m, sent)
      BY <1>1, <3>1, <3>3 DEF Held
    <3>4. QED
      BY <2>1, <3>1, <3>2, <3>3
  <2>2. QED
    BY <2>1
<1>4. ASSUME NEW j \in Coordinators PROVE MailOf(pass'[j], Unpassed', sent', unread')
  <2>1. CASE j = k
    BY <1>1, <1>2, <2>1 DEF MailOf
  <2>2. CASE j # k
    BY <1>1, <2>2, NoPassMail
  <2>3. QED
    BY <2>1, <2>2
<1>5. QED
  BY <1>3, <1>4, MailFrame

LEMMA MailLook ==
  ASSUME TypeInv, MailOnce, [Next]_vars, NEW k \in Coordinators,
         \A j \in Coordinators : j # k => pass[j] = NoPass,
         \/ Start(k)
         \/ EndPass(k) \/ NextLead(k) \/ NextDelegate(k) \/ NextMoved(k)
  PROVE  MailOnce'
<1>1. CASE Start(k)
  <2>1. PICK q : /\ Set(k, q) /\ q.batch = {}
                 /\ q.at = "next" \/ (q.at = "decide" /\ q.job = "assign")
    BY <1>1, StartEffect
  <2>2. /\ At(k, "idle") /\ times' = times /\ UNCHANGED mail
    BY <1>1, StartEffect DEF Enter
  <2>3. MailOf(q, Unpassed, sent, unread)
    BY <2>1 DEF MailOf, Routing, Inboxes
  <2>4. \A m : ~Holds(pass[k], m, sent)
    BY <2>2 DEF Holds, At
  <2>5. QED
    BY <2>1, <2>2, <2>3, <2>4, MailAlone DEF mail
<1>2. CASE EndPass(k) \/ NextLead(k) \/ NextDelegate(k) \/ NextMoved(k)
  <2>1. /\ At(k, "next") /\ times' = times /\ UNCHANGED mail
    BY <1>2, LookEffect DEF history
  <2>2. PICK q : /\ Set(k, q)
                 /\ \/ q = NoPass
                    \/ q.at = "next" /\ q.batch \subseteq pass[k].batch \cup unread
                    \/ /\ q.at = "decide" /\ q.msg \in pass[k].batch /\ q.msg \notin q.batch
                       /\ q.batch \subseteq pass[k].batch
    BY <1>2, LookEffect
  <2>3. \A j \in Coordinators : \A m : ~Holds(pass[j], m, sent)
    BY <2>1, NoPassShape DEF Holds, At
  <2>4. pass[k].batch \subseteq Unpassed /\ unread \subseteq Unpassed
    BY <2>3 DEF MailOnce, MailOf, Held
  <2>5. MailOf(q, Unpassed, sent, unread)
    <3>1. CASE q = NoPass
      BY <3>1, NoPassMail
    <3>2. CASE q # NoPass
      BY <2>2, <2>4, <3>2 DEF MailOf, Routing
    <3>3. QED
      BY <3>1, <3>2
  <2>6. QED
    BY <2>1, <2>2, <2>3, <2>5, MailAlone DEF mail
<1>3. QED
  BY <1>1, <1>2

\* What a pass comes to route has not been passed on.
LEMMA MailUpcoming ==
  ASSUME TypeInv, MailOnce, NEW k \in Coordinators, NEW u \in Upcoming(pass[k])
  PROVE  /\ u.batch \subseteq Unpassed /\ u.msg \notin u.batch
         /\ u.job \in Inboxes => u.msg \in Unpassed
<1>1. /\ u.job = pass[k].job /\ u.at = pass[k].at /\ u.at \in {"next", "decide"}
      /\ u.batch \subseteq pass[k].batch
      /\ pass[k].at = "decide" => u = pass[k]
      /\ pass[k].at = "next" /\ u.job = "dispatch" =>
           u.msg \in pass[k].batch /\ u.batch = pass[k].batch \ {u.msg}
      /\ pass[k].at = "next" => u.job \in {"dispatch"} \cup Listed
      /\ u.job \notin Inboxes => u.batch = {}
  BY UpcomingReady DEF Ready
<1>2. MailOf(pass[k], Unpassed, sent, unread)
  BY DEF MailOnce
<1>3. QED
  BY <1>1, <1>2 DEF MailOf, Routing, Inboxes, Listed

\* An error: the rest of the batch is dropped, or the next request follows.
LEMMA GivenUpMail ==
  ASSUME TypeInv, MailOnce, NEW k \in Coordinators, NEW u, GiveUp(k, u), Ready(u, sent)
  PROVE  \E r : Set(k, r) /\ MailOf(r, Unpassed, sent, unread)
<1>1. CASE u.job = "remote"
  <2>1. Clear(u).at = "next" /\ Clear(u).batch = {}
    <3>1. u \in Pass /\ u.batch = {}
      BY <1>1 DEF Ready, Inboxes
    <3>2. QED
      BY <3>1 DEF Clear, Pass
  <2>2. MailOf(Clear(u), Unpassed, sent, unread)
    BY <2>1 DEF MailOf, Routing
  <2>3. QED
    BY <1>1, <2>2 DEF GiveUp
<1>2. CASE u.job # "remote"
  BY <1>2, NoPassMail DEF GiveUp
<1>3. QED
  BY <1>1, <1>2

LEMMA MailDecide ==
  ASSUME TypeInv, RoomInv, MailOnce, [Next]_vars, ~raced, NEW k \in Coordinators,
         \A j \in Coordinators : j # k => pass[j] = NoPass,
         LeadIsGone(k) \/ Decide(k)
  PROVE  MailOnce'
<1>1. times' = times /\ sent' = sent /\ unread' = unread
  BY DEF LeadIsGone, Decide, Unchanging, mail
<1>2. PICK u \in Upcoming(pass[k]) :
        \/ GiveUp(k, u)
        \/ Set(k, [u EXCEPT !.at = "queue"])
        \/ Cardinality(Delegates(u.lead)) >= MaxTeam /\ Defer(k, u)
        \/ \E d : UnreadOf(d) = {} /\ Set(k, [u EXCEPT !.at = "send", !.to = d])
  BY DecideCases DEF LeadIsGone
<1>3. /\ Ready(u, sent) /\ u \in Pass /\ u.at \in {"next", "decide"}
      /\ pass[k].at = "decide" => u = pass[k]
      /\ pass[k].at = u.at /\ u.job = pass[k].job
      /\ pass[k].at = "next" => u.job \in {"dispatch"} \cup Listed
      /\ u.batch \subseteq Unpassed /\ u.msg \notin u.batch
      /\ u.job \in Inboxes => u.msg \in Unpassed
  <2>1. Ready(u, sent)
    BY UpcomingReady
  <2>2. u \in Pass
    BY <2>1 DEF Ready
  <2>3. /\ u.batch \subseteq Unpassed /\ u.msg \notin u.batch
        /\ u.job \in Inboxes => u.msg \in Unpassed
    BY MailUpcoming
  <2>4. QED
    BY <2>1, <2>2, <2>3, UpcomingReady
<1>4. \A m : ~Holds(pass[k], m, sent)
  BY <1>3 DEF Holds
<1>5. ASSUME NEW q, Set(k, q), MailOf(q, Unpassed, sent, unread) PROVE MailOnce'
  BY <1>1, <1>4, <1>5, MailAlone
<1>6. CASE GiveUp(k, u)
  BY <1>3, <1>5, <1>6, GivenUpMail
<1>7. CASE Set(k, [u EXCEPT !.at = "queue"])
  <2> DEFINE q == [u EXCEPT !.at = "queue"]
  <2>1. q.at = "queue" /\ q.job = u.job /\ q.batch = u.batch /\ q.msg = u.msg
    BY <1>3 DEF Pass
  <2> HIDE DEF q
  <2>2. MailOf(q, Unpassed, sent, unread)
    BY <1>3, <2>1 DEF MailOf
  <2>3. QED
    BY <1>5, <1>7, <2>2 DEF q
<1>8. ASSUME NEW d, UnreadOf(d) = {}, Set(k, [u EXCEPT !.at = "send", !.to = d]) PROVE MailOnce'
  <2> DEFINE q == [u EXCEPT !.at = "send", !.to = d]
  <2>1. q.at = "send" /\ q.job = u.job /\ q.batch = u.batch /\ q.msg = u.msg /\ q.to = d
    BY <1>3 DEF Pass
  <2> HIDE DEF q
  <2>2. d # sent[u.msg].to \/ u.msg \notin unread
    BY <1>8 DEF UnreadOf
  <2>3. MailOf(q, Unpassed, sent, unread)
    BY <1>3, <2>1, <2>2 DEF MailOf
  <2>4. QED
    BY <1>5, <1>8, <2>3 DEF q
<1>9. CASE Cardinality(Delegates(u.lead)) >= MaxTeam /\ Defer(k, u)
  <2>1. u.job # "rebalance"
    BY <1>3, <1>9, NoRoom DEF Listed
  <2>2. MailOf(Clear(u), Unpassed, sent, unread)
    <3>1. Clear(u).at = "next" /\ Clear(u).batch = u.batch
      BY <1>3 DEF Clear, Pass
    <3>2. QED
      BY <1>3, <3>1 DEF MailOf, Routing
  <2>3. QED
    BY <1>5, <1>9, <2>1, <2>2, NoPassMail DEF Defer
<1>10. QED
  BY <1>2, <1>6, <1>7, <1>8, <1>9

LEMMA MailQueue ==
  ASSUME TypeInv, MailOnce, [Next]_vars, NEW k \in Coordinators,
         \A j \in Coordinators : j # k => pass[j] = NoPass,
         QueueFails(k) \/ \E s \in Sessions : Queue(k, s)
  PROVE  MailOnce'
<1> DEFINE p == pass[k]
<1>0. /\ p.at = "queue" /\ p \in Pass /\ Shape(p, sent, Born) /\ Ready(p, sent)
      /\ MailOf(p, Unpassed, sent, unread)
  <2>1. p.at = "queue"
    BY DEF QueueFails, Queue, NewSession, At
  <2>2. QED
    BY <2>1, RoutingReady, TypesNow DEF Routing, MailOnce
<1>1. sent' = sent /\ unread' = unread /\ \A m : ~Holds(p, m, sent)
  BY <1>0 DEF QueueFails, Queue, mail, Holds
<1>2. CASE QueueFails(k)
  <2>1. times' = times /\ GiveUp(k, p)
    BY <1>2 DEF QueueFails
  <2>2. PICK r : Set(k, r) /\ MailOf(r, Unpassed, sent, unread)
    BY <1>0, <2>1, GivenUpMail
  <2>3. QED
    BY <1>1, <2>1, <2>2, MailAlone
<1>3. ASSUME NEW s \in Sessions, Queue(k, s) PROVE MailOnce'
  <2> DEFINE q == [p EXCEPT !.to = s, !.at = IF p.lead = None THEN "settle" ELSE "send"]
  <2>1. /\ q.job = p.job /\ q.batch = p.batch /\ q.msg = p.msg /\ q.to = s
        /\ q.at = (IF p.lead = None THEN "settle" ELSE "send")
    BY <1>0 DEF Pass
  <2>2. Set(k, q)
    BY <1>3 DEF Queue
  <2>3. p.lead = None => p.msg = 0
    BY <1>0 DEF Shape, Routing
  <2>4. times' = times
    BY <1>3, <2>3 DEF Queue, PassedOn
  <2> HIDE DEF q
  <2>5. p.job \in Inboxes => s # sent[p.msg].to
    <3>1. s \notin Born
      BY <1>3 DEF Queue, NewSession, Born
    <3>2. p.job \in Inboxes => sent[p.msg].to \in Born
      BY <1>0 DEF Ready, TypeInv, Shapes
    <3>3. QED
      BY <3>1, <3>2
  <2>6. MailOf(q, Unpassed, sent, unread)
    BY <1>0, <2>1, <2>5 DEF MailOf, Routing, Inboxes
  <2>7. QED
    BY <1>1, <2>2, <2>4, <2>6, MailAlone
<1>4. QED
  BY <1>2, <1>3

LEMMA MailSettle ==
  ASSUME TypeInv, MailOnce, [Next]_vars, NEW k \in Coordinators,
         \A j \in Coordinators : j # k => pass[j] = NoPass,
         \/ SettleHandoff(k) \/ SettleMoved(k) \/ SettleRequest(k)
         \/ record_scheduled_task_run(k) \/ SettleAssign(k) \/ Crash(k)
  PROVE  MailOnce'
<1> DEFINE p == pass[k]
<1>0. p.at \in Routing /\ Ready(p, sent) /\ p \in Pass /\ MailOf(p, Unpassed, sent, unread)
  <2>1. p.at \in Routing
    BY DEF SettleHandoff, SettleMoved, SettleRequest, record_scheduled_task_run, SettleAssign,
           Crash, At, Routing
  <2>2. QED
    BY <2>1, RoutingReady DEF Ready, MailOnce
<1>1. times' = times /\ sent' = sent
  BY DEF SettleHandoff, SettleMoved, SettleRequest, record_scheduled_task_run, SettleAssign,
         Crash, history, mail
<1>2. PICK q : /\ Set(k, q)
               /\ q \in {NoPass, Clear(p), [Clear(p) EXCEPT !.left = @ - 1]}
  BY DEF SettleHandoff, SettleMoved, SettleRequest, record_scheduled_task_run, SettleAssign, Crash
<1>3. MailOf(q, Unpassed, sent, unread)
  <2>1. \/ q = NoPass
        \/ q.at = "next" /\ q.batch = p.batch
    BY <1>0, <1>2 DEF Clear, Pass
  <2>2. QED
    BY <1>0, <2>1, NoPassMail DEF MailOf, Routing
<1>4. unread' \subseteq unread
  BY DEF SettleHandoff, SettleMoved, SettleRequest, record_scheduled_task_run, SettleAssign,
         Crash, mail
<1>5. ASSUME NEW m \in unread', Holds(p, m, sent) PROVE sent[m].task \in cut'
  <2>1. p.msg = m /\ p.job \in Inboxes /\ p.task = sent[m].task
    BY <1>0, <1>5 DEF Holds, Inboxes, Ready
  <2>2. CASE Crash(k)
    BY <2>1, <2>2 DEF Crash, CutOff
  <2>3. CASE SettleHandoff(k)
    BY <1>5, <2>1, <2>3 DEF SettleHandoff
  <2>4. CASE SettleMoved(k)
    BY <1>5, <2>1, <2>4 DEF SettleMoved, Holds
  <2>5. CASE SettleRequest(k) \/ record_scheduled_task_run(k) \/ SettleAssign(k)
    BY <2>1, <2>5 DEF SettleRequest, record_scheduled_task_run, SettleAssign, Inboxes
  <2>6. QED
    BY <2>2, <2>3, <2>4, <2>5
<1>6. QED
  BY <1>1, <1>2, <1>3, <1>4, <1>5, MailAlone

LEMMA MailSend ==
  ASSUME TypeInv, MailOnce, [Next]_vars, NEW k \in Coordinators,
         \A j \in Coordinators : j # k => pass[j] = NoPass, Send(k)
  PROVE  MailOnce'
<1> DEFINE p == pass[k]
           q == [p EXCEPT !.at = "settle"]
           new == Len(sent) + 1
<1>0. /\ p.at = "send" /\ p \in Pass /\ Shape(p, sent, Born) /\ Ready(p, sent)
      /\ MailOf(p, Unpassed, sent, unread)
  <2>1. p.at = "send"
    BY DEF Send, At
  <2>2. QED
    BY <2>1, RoutingReady, TypesNow DEF Routing, MailOnce
<1>1. /\ q.at = "settle" /\ q.job = p.job /\ q.batch = p.batch /\ q.msg = p.msg /\ q.to = p.to
      /\ Set(k, q) /\ Post(Message(p.lead, p.to, p.task)) /\ cut' = cut
  BY <1>0 DEF Send, Pass
<1> HIDE DEF q
<1>2. \A j \in Coordinators : pass'[j] = IF j = k THEN q ELSE NoPass
  BY <1>1 DEF Set, TypeInv, Shapes
<1>3. /\ Grows /\ Len(sent) \in Nat /\ sent \in Seq(Handoff)
      /\ times \in [Messages -> Nat] /\ unread \subseteq 1..Len(sent)
  BY StepGrows, TypesNow DEF Shapes, RowTypes
<1>4. /\ Len(sent') = new /\ unread' = unread \cup {new} /\ new <= MaxSent
      /\ \A m \in 1..Len(sent) : sent'[m] = sent[m]
  BY <1>1, <1>3 DEF Post, Grows
<1>5. /\ \A m \in Messages : m # p.msg => times'[m] = times[m]
      /\ p.msg # 0 => p.msg \in 1..Len(sent) /\ times'[p.msg] = times[p.msg] + 1
      /\ p.msg # 0 => p.job \in Inboxes
  <2>1. p.msg # 0 => p.job \in Inboxes
    BY <1>0 DEF Ready
  <2>2. p.msg # 0 => p.msg \in 1..Len(sent) /\ p.msg \in Messages
    <3>1. p.job \in Inboxes => p.msg \in 1..Len(sent)
      BY <1>0 DEF Ready
    <3>2. 1..Len(sent) \subseteq Messages
      BY <1>3, <1>4, RoutingAssumption DEF Messages, RoutingAssumption
    <3>3. QED
      BY <2>1, <3>1, <3>2
  <2>3. times' = IF p.msg = 0 THEN times ELSE [times EXCEPT ![p.msg] = @ + 1]
    BY DEF Send, PassedOn
  <2>4. QED
    BY <1>3, <2>1, <2>2, <2>3
<1>6. 1..Len(sent) \subseteq Messages /\ new \in Messages /\ new \notin 1..Len(sent)
  BY <1>3, <1>4, RoutingAssumption DEF Messages, RoutingAssumption
<1>7. \A m \in 1..Len(sent') : m \in 1..Len(sent) \/ m = new
  BY <1>3, <1>4
<1>8. times[new] = 0 /\ times'[new] = 0
  <2>1. times[new] = 0
    BY <1>3, <1>6 DEF MailOnce
  <2>2. new # p.msg
    BY <1>3, <1>5
  <2>3. QED
    BY <1>5, <1>6, <2>1, <2>2
<1>9. \A m \in Unpassed : m # p.msg => m \in Unpassed'
  BY <1>1, <1>3, <1>4, <1>5, <1>6 DEF Unpassed
<1>10. Held = {}
  BY <1>0, NoPassShape DEF Held, Holds
<1>11. \A m \in Messages : m > Len(sent') => times'[m] = 0
  <2>1. ASSUME NEW m \in Messages, m > new PROVE m # p.msg /\ m > Len(sent)
    BY <1>3, <1>5, <2>1 DEF Messages
  <2>2. QED
    BY <1>4, <1>5, <2>1 DEF MailOnce
<1>12. \A m \in 1..Len(sent') : times'[m] <= 1 \/ sent'[m].task \in cut'
  <2>1. CASE p.msg # 0
    <3>1. times'[p.msg] <= 1 \/ sent'[p.msg].task \in cut'
      <4>1. p.msg \in Unpassed
        BY <1>0, <1>5, <2>1 DEF MailOf
      <4>2. QED
        BY <1>1, <1>4, <1>5, <2>1, <4>1 DEF Unpassed
    <3>2. ASSUME NEW m \in 1..Len(sent), m # p.msg
          PROVE  times'[m] <= 1 \/ sent'[m].task \in cut'
      BY <1>1, <1>4, <1>5, <1>6, <3>2 DEF MailOnce
    <3>3. QED
      BY <1>7, <1>8, <3>1, <3>2
  <2>2. CASE p.msg = 0
    <3>1. ASSUME NEW m \in 1..Len(sent) PROVE times'[m] <= 1 \/ sent'[m].task \in cut'
      BY <1>1, <1>4, <1>5, <1>6, <2>2 DEF MailOnce
    <3>2. QED
      BY <1>7, <1>8, <3>1
  <2>3. QED
    BY <2>1, <2>2
<1>13. unread' \subseteq Unpassed' \cup Held'
  <2>1. new \in Unpassed'
    BY <1>3, <1>4, <1>8 DEF Unpassed
  <2>2. ASSUME NEW m \in unread, m # p.msg PROVE m \in Unpassed'
    BY <1>9, <1>10, <2>2 DEF MailOnce
  <2>3. ASSUME p.msg \in unread PROVE p.msg \in Held'
    <3>1. p.msg \in 1..Len(sent') /\ p.job \in Inboxes /\ p.msg # 0
      BY <1>3, <1>4, <1>5, <2>3
    <3>2. p.job = "rebalance" => q.to # sent'[p.msg].to
      BY <1>0, <1>1, <1>3, <1>4, <2>3 DEF MailOf
    <3>3. Holds(q, p.msg, sent')
      BY <1>1, <3>1, <3>2 DEF Holds, Inboxes
    <3>4. QED
      BY <1>2, <3>1, <3>3 DEF Held
  <2>4. QED
    BY <1>4, <2>1, <2>2, <2>3
<1>14. ASSUME NEW j \in Coordinators PROVE MailOf(pass'[j], Unpassed', sent', unread')
  <2>1. CASE j = k
    <3>1. q.batch \subseteq Unpassed' /\ q.msg \notin q.batch
      BY <1>0, <1>1, <1>9 DEF MailOf, Routing
    <3>2. q.job = "rebalance" => q.to # sent'[q.msg].to \/ q.msg \notin unread'
      <4>1. q.job = "rebalance" => p.msg \in 1..Len(sent)
        BY <1>0, <1>1 DEF Ready, Inboxes
      <4>2. q.job = "rebalance" => p.to # sent[p.msg].to \/ p.msg \notin unread
        BY <1>0, <1>1 DEF MailOf
      <4>3. QED
        BY <1>1, <1>4, <1>6, <4>1, <4>2
    <3>3. MailOf(q, Unpassed', sent', unread')
      BY <1>1, <3>1, <3>2 DEF MailOf
    <3>4. QED
      BY <1>2, <2>1, <3>3
  <2>2. CASE j # k
    BY <1>2, <2>2, NoPassMail
  <2>3. QED
    BY <2>1, <2>2
<1>15. QED
  BY <1>11, <1>12, <1>13, <1>14 DEF MailOnce

LEMMA MailStep ==
  ASSUME TypeInv, AloneInv, RoomInv, MailInv, [Next]_vars
  PROVE  MailInv'
<1>1. CASE raced'
  BY <1>1 DEF MailInv
<1>2. ASSUME ~raced', NEW k \in Coordinators,
             PassStep(k) \/ Start(k) \/ Crash(k) \/ QueueFails(k)
      PROVE  MailOnce'
  <2>1. ~raced /\ \A j \in Coordinators : j # k => pass[j] = NoPass
    BY <1>2, Solo
  <2>2. MailOnce
    BY <2>1 DEF MailInv
  <2>3. QED
    BY <1>2, <2>1, <2>2, MailLook, MailDecide, MailQueue, MailSend, MailSettle DEF PassStep
<1>3. ASSUME ~raced', \/ UNCHANGED vars
                      \/ Environment /\ ~\E k \in Coordinators : Crash(k) \/ QueueFails(k)
      PROVE  MailOnce'
  <2>1. MailOnce
    <3>1. ~raced
      BY <1>3, Moves
    <3>2. QED
      BY <3>1 DEF MailInv
  <2>2. pass' = pass /\ times' = times
    BY <1>3 DEF vars, history, Environment, HandOff, ComeDue, delete_scheduled_task, Request, View,
                End, DeleteMessages, DeleteRow
  <2>3. unread' \subseteq unread \/ \E m \in Handoff : Post(m)
    <3>1. \A f, l \in Sessions, t \in Tasks : Message(f, l, t) \in Handoff
      BY DEF Message, Handoff
    <3>2. QED
      BY <1>3, <3>1
         DEF vars, Environment, HandOff, ComeDue, delete_scheduled_task, Request, View,
             End, DeleteMessages, DeleteRow, mail
  <2>4. QED
    BY <2>1, <2>2, <2>3, MailEnvironment
<1>4. CASE ~raced'
  BY <1>2, <1>3, <1>4 DEF MailInv, Next, Environment
<1>5. QED
  BY <1>1, <1>4

LEMMA MailInit == Init => MailInv
<1> SUFFICES ASSUME Init PROVE MailOnce
  BY DEF MailInv
<1>1. TypeInv /\ Unpassed = 1..Len(sent)
  <2>1. TypeInv
    BY InitTypes
  <2>2. \A m \in 1..Len(sent) : times[m] = 0
    <3>1. \A m \in 1..Len(sent) : m \in Messages
      BY <2>1, TypesNow, RoutingAssumption DEF RowTypes, Messages, RoutingAssumption
    <3>2. QED
      BY <3>1 DEF Init
  <2>3. QED
    BY <2>1, <2>2 DEF Unpassed
<1>2. unread = 1..Len(sent) /\ \A m \in Messages : times[m] = 0
  BY DEF Init
<1>3. \A m \in 1..Len(sent) : times[m] <= 1
  BY <1>1, <1>2, TypesNow, RoutingAssumption DEF RowTypes, Messages, RoutingAssumption
<1>4. \A k \in Coordinators : MailOf(pass[k], Unpassed, sent, unread)
  BY <1>1, NoPassMail DEF Init
<1>5. QED
  BY <1>1, <1>2, <1>3, <1>4 DEF MailOnce

(***************************************************************************)
(* No request and no occurrence is routed twice, again unless two passes   *)
(* are at work or one is cut off; and what the records say is true.        *)
(***************************************************************************)
\* Tasks that nobody has passed on yet, unless the routing was cut off.
Unran == {t \in Tasks : ran[t] = 0 \/ t \in cut}

ListOf(p, fresh, org) ==
  /\ p.job \in Listed =>
       /\ \A r \in p.leads : r[1] \in fresh
       /\ \A r, u \in p.leads : r[1] = u[1] => r = u
       /\ p.at \in Routing => \A r \in p.leads : r[1] # p.task
  /\ p.job = "remote" => /\ \A r \in p.leads : org[r[1]] = "pending"
                         /\ p.at \in {"queue", "send"} => org[p.task] = "pending"
  /\ p.job \notin Inboxes /\ p.at \in {"decide", "queue", "send"} => p.task \in fresh

ListOnce ==
  /\ \A t \in Tasks : ran[t] <= 1 \/ t \in cut
  /\ \A t \in Tasks : origin[t] = "none" => ran[t] = 0
  /\ \A t \in Tasks : origin[t] = "failed" => t \in Unran
  /\ \A t \in Tasks : origin[t] \in {"pending", "due"} => t \in Unran \cup Closing
  /\ \A k \in Coordinators : ListOf(pass[k], Unran, origin)
ListInv == raced \/ ListOnce

\* A step counts nothing, or the task of a pass that has no message.
LEMMA Counts ==
  ASSUME TypeInv, [Next]_vars
  PROVE  \/ ran' = ran
         \/ \E k \in Coordinators :
              /\ pass[k].at \in {"queue", "send"} /\ pass'[k].at = "settle"
              /\ pass[k].job \notin Inboxes /\ pass[k].task \in Tasks
              /\ Send(k) \/ \E s \in Sessions : Queue(k, s)
              /\ ran' = [ran EXCEPT ![pass[k].task] = @ + 1]
<1>1. ASSUME NEW k \in Coordinators, pass[k].at \in {"queue", "send"}, PassedOn(pass[k]),
             ran' # ran
      PROVE  /\ pass[k].job \notin Inboxes /\ pass[k].task \in Tasks
             /\ ran' = [ran EXCEPT ![pass[k].task] = @ + 1]
  <2>1. Ready(pass[k], sent)
    BY <1>1, RoutingReady DEF Routing
  <2>2. pass[k].msg = 0 /\ ran' = [ran EXCEPT ![pass[k].task] = @ + 1]
    BY <1>1 DEF PassedOn
  <2>3. QED
    BY <2>1, <2>2 DEF Ready
<1>2. ASSUME NEW k \in Coordinators, Send(k), ran' # ran
      PROVE  /\ pass[k].at \in {"queue", "send"} /\ PassedOn(pass[k]) /\ pass'[k].at = "settle"
  <2>1. pass[k] \in Pass /\ Set(k, [pass[k] EXCEPT !.at = "settle"])
    BY <1>2, TypesNow DEF Send
  <2>2. pass'[k].at = "settle"
    BY <2>1 DEF Set, Pass, TypeInv, Shapes
  <2>3. QED
    BY <1>2, <2>2 DEF Send, At
<1>3. ASSUME NEW k \in Coordinators, NEW s \in Sessions, Queue(k, s), ran' # ran
      PROVE  /\ pass[k].at \in {"queue", "send"} /\ PassedOn(pass[k]) /\ pass'[k].at = "settle"
  <2>1. pass[k].lead = None /\ PassedOn(pass[k]) /\ At(k, "queue")
    BY <1>3 DEF Queue, NewSession
  <2>2. pass[k] \in Pass /\ Set(k, [pass[k] EXCEPT !.to = s, !.at = "settle"])
    BY <1>3, <2>1, TypesNow DEF Queue
  <2>3. pass'[k].at = "settle"
    BY <2>2 DEF Set, Pass, TypeInv, Shapes
  <2>4. QED
    BY <2>1, <2>3 DEF At
<1>4. ASSUME NEW k \in Coordinators, PassStep(k), ~Send(k), ~\E s \in Sessions : Queue(k, s)
      PROVE  ran' = ran
  BY <1>4 DEF PassStep, EndPass, NextLead, NextDelegate, NextMoved, LeadIsGone, Decide,
              Unchanging, SettleHandoff, SettleMoved, SettleRequest, record_scheduled_task_run,
              SettleAssign, history
<1>5. ASSUME NEW k \in Coordinators, Start(k) \/ Crash(k) \/ QueueFails(k) PROVE ran' = ran
  BY <1>5, StartEffect DEF Enter, Crash, QueueFails
<1>6. CASE UNCHANGED vars
  BY <1>6 DEF vars, history
<1>7. CASE Environment
  BY <1>5, <1>7 DEF Environment, HandOff, ComeDue, delete_scheduled_task, Request, View, End,
                    DeleteMessages, DeleteRow, history
<1>8. CASE \E k \in Coordinators : PassStep(k)
  BY <1>1, <1>2, <1>3, <1>4, <1>8
<1>9. QED
  BY <1>5, <1>6, <1>7, <1>8 DEF Next

(***************************************************************************)
(* What the records say.                                                   *)
(***************************************************************************)
DoneInv ==
  /\ \A t \in Tasks : origin[t] \in {"dispatched", "ran"} => ran[t] >= 1
  /\ \A k \in Coordinators :
       pass[k].at = "settle" /\ pass[k].job \notin Inboxes => ran[pass[k].task] >= 1

\* A pass comes to settle what is not from an inbox only after it has passed it on.
LEMMA ComesToSettle ==
  ASSUME TypeInv, [Next]_vars, NEW k \in Coordinators, pass'[k].at = "settle",
         pass'[k].job \notin Inboxes, pass'[k] # pass[k]
  PROVE  /\ pass'[k].task = pass[k].task /\ pass[k].task \in Tasks
         /\ ran' = [ran EXCEPT ![pass[k].task] = @ + 1]
<1> DEFINE p == pass[k]
<1>0. /\ p \in Pass /\ NoPass.at = "idle" /\ pass \in [Coordinators -> Pass]
      /\ \A u \in Upcoming(p) : u \in Pass
  BY TypesNow, NoPassShape, UpcomingReady DEF Ready, Shapes
<1>1. ASSUME NEW q, Set(k, q) PROVE q.at = "settle" /\ q.job \notin Inboxes /\ q # p
  BY <1>0, <1>1 DEF Set
<1>2. ASSUME NEW c \in Pass
      PROVE  /\ Clear(c).at = "next" /\ [Clear(c) EXCEPT !.left = @ - 1].at = "next"
             /\ [c EXCEPT !.at = "queue"].at = "queue"
             /\ \A d : /\ [c EXCEPT !.at = "send", !.to = d].at = "send"
                       /\ [c EXCEPT !.at = "settle", !.to = d].job = c.job
                       /\ [c EXCEPT !.to = d, !.at = "send"].at = "send"
  BY DEF Clear, Pass
<1>3. PassStep(k) \/ Start(k) \/ Crash(k) \/ QueueFails(k)
  <2>1. ASSUME NEW j \in Coordinators, j # k,
               PassStep(j) \/ Start(j) \/ Crash(j) \/ QueueFails(j)
        PROVE  FALSE
    <3>1. \E q : Set(j, q)
      BY <2>1, StartEffect, GoesOn
    <3>2. QED
      BY <1>0, <2>1, <3>1 DEF Set
  <2>2. pass' # pass
    OBVIOUS
  <2>3. QED
    BY <2>1, <2>2 DEF Next, Environment, HandOff, ComeDue, delete_scheduled_task, Request, View,
                      End, DeleteMessages, DeleteRow, vars
<1>4. ASSUME NEW u \in Pass, GiveUp(k, u) PROVE FALSE
  BY <1>0, <1>1, <1>2, <1>4 DEF GiveUp
<1>5. CASE Start(k)
  BY <1>1, <1>5, StartEffect
<1>6. CASE EndPass(k) \/ NextLead(k) \/ NextDelegate(k) \/ NextMoved(k)
  BY <1>0, <1>1, <1>6, LookEffect
<1>7. CASE LeadIsGone(k) \/ QueueFails(k)
  BY <1>0, <1>4, <1>7 DEF LeadIsGone, QueueFails
<1>8. CASE Decide(k)
  <2>1. PICK u \in Upcoming(p) :
          \/ Set(k, [u EXCEPT !.at = "queue"])
          \/ Defer(k, u)
          \/ \E d : Set(k, [u EXCEPT !.at = "send", !.to = d])
    BY <1>8, DecideCases
  <2>2. u \in Pass
    BY <1>0
  <2>3. CASE Defer(k, u)
    <3>1. CASE u.job = "rebalance"
      <4>1. Set(k, [u EXCEPT !.at = "settle", !.to = u.lead])
        BY <2>3, <3>1 DEF Defer
      <4>2. [u EXCEPT !.at = "settle", !.to = u.lead].job = u.job
        BY <1>2, <2>2
      <4>3. QED
        BY <1>1, <3>1, <4>1, <4>2 DEF Inboxes
    <3>2. CASE u.job # "rebalance"
      BY <1>0, <1>1, <1>2, <2>2, <2>3, <3>2 DEF Defer
    <3>3. QED
      BY <3>1, <3>2
  <2>4. QED
    BY <1>1, <1>2, <2>1, <2>2, <2>3
<1>9. CASE \/ SettleHandoff(k) \/ SettleMoved(k) \/ SettleRequest(k)
           \/ record_scheduled_task_run(k) \/ SettleAssign(k) \/ Crash(k)
  BY <1>0, <1>1, <1>2, <1>9
     DEF SettleHandoff, SettleMoved, SettleRequest, record_scheduled_task_run, SettleAssign,
         Crash
<1>10. ASSUME PassedOn(p), pass'[k].task = p.task, pass'[k].job = p.job,
              p.at \in {"queue", "send"}
       PROVE  /\ pass'[k].task = p.task /\ p.task \in Tasks
              /\ ran' = [ran EXCEPT ![p.task] = @ + 1]
  <2>1. Ready(p, sent)
    BY <1>10, RoutingReady DEF Routing
  <2>2. p.msg = 0 /\ p.task \in Tasks
    BY <1>10, <2>1 DEF Ready
  <2>3. QED
    BY <1>10, <2>2 DEF PassedOn
<1>11. CASE Send(k)
  <2>1. Set(k, [p EXCEPT !.at = "settle"]) /\ PassedOn(p) /\ p.at = "send"
    BY <1>11 DEF Send, At
  <2>2. pass'[k].task = p.task /\ pass'[k].job = p.job
    BY <1>0, <2>1 DEF Set, Pass
  <2>3. QED
    BY <1>10, <2>1, <2>2
<1>12. CASE \E s \in Sessions : Queue(k, s)
  <2>1. PICK s \in Sessions : Queue(k, s)
    BY <1>12
  <2>2. CASE p.lead # None
    BY <1>0, <1>1, <1>2, <2>1, <2>2 DEF Queue
  <2>3. CASE p.lead = None
    <3>1. Set(k, [p EXCEPT !.to = s, !.at = "settle"]) /\ PassedOn(p) /\ p.at = "queue"
      BY <2>1, <2>3 DEF Queue, NewSession, At
    <3>2. pass'[k].task = p.task /\ pass'[k].job = p.job
      BY <1>0, <3>1 DEF Set, Pass
    <3>3. QED
      BY <1>10, <3>1, <3>2
  <2>4. QED
    BY <2>2, <2>3
<1>13. QED
  BY <1>3, <1>5, <1>6, <1>7, <1>8, <1>9, <1>11, <1>12 DEF PassStep

LEMMA DoneStep ==
  ASSUME TypeInv, DoneInv, [Next]_vars
  PROVE  DoneInv'
<1>0. /\ RowTypes /\ ran \in [Tasks -> Nat] /\ ran' \in [Tasks -> Nat]
      /\ \A k \in Coordinators : pass[k].at = "settle" => pass[k].task \in Tasks
  <2>1. \A k \in Coordinators : pass[k].at = "settle" => pass[k].task \in Tasks
    BY RoutingReady DEF Ready, Routing
  <2>2. QED
    BY <2>1, StepTypes, TypesNow DEF TypeInv, Shapes
<1>1. \A t \in Tasks : ran'[t] >= ran[t]
  BY <1>0, Counts
<1>2. ASSUME NEW t \in Tasks, origin'[t] \in {"dispatched", "ran"} PROVE ran'[t] >= 1
  <2>1. \/ origin[t] \in {"dispatched", "ran"}
        \/ \E k \in Coordinators :
             pass[k].at = "settle" /\ pass[k].job \in Listed /\ pass[k].task = t
    BY <1>0, <1>2, OriginChanges DEF RowTypes, Listed
  <2>2. ran[t] >= 1
    BY <2>1 DEF DoneInv, Listed, Inboxes
  <2>3. QED
    BY <1>0, <1>1, <2>2
<1>3. ASSUME NEW k \in Coordinators, pass'[k].at = "settle", pass'[k].job \notin Inboxes
      PROVE  ran'[pass'[k].task] >= 1
  <2>1. CASE pass'[k] = pass[k]
    BY <1>0, <1>1, <1>3, <2>1 DEF DoneInv
  <2>2. CASE pass'[k] # pass[k]
    BY <1>0, <1>3, <2>2, ComesToSettle
  <2>3. QED
    BY <2>1, <2>2
<1>4. QED
  BY <1>2, <1>3 DEF DoneInv

LEMMA DoneInit == Init => DoneInv
BY DEF Init, DoneInv, NoPass

(***************************************************************************)
(* Requests and occurrences, while one pass has the field.                 *)
(***************************************************************************)
LEMMA NoPassList ==
  ASSUME NEW F, NEW o
  PROVE  ListOf(NoPass, F, o)
BY DEF NoPass, ListOf, Listed

LEMMA UnranStays ==
  ASSUME TypeInv, [Next]_vars, ran' = ran
  PROVE  Unran \subseteq Unran'
BY HistoryStays DEF Unran

\* A step that passes no request on.
LEMMA ListFrame ==
  ASSUME TypeInv, ListOnce, [Next]_vars, ran' = ran,
         \A t \in Tasks : /\ origin'[t] = "none" => origin[t] = "none"
                          /\ origin'[t] = "failed" => t \in Unran \/ origin[t] = "failed"
                          /\ origin'[t] \in {"pending", "due"} =>
                               \/ origin[t] = "none"
                               \/ /\ origin[t] = origin'[t]
                                  /\ t \in Closing => t \in Unran' \cup Closing',
         \A k \in Coordinators : ListOf(pass'[k], Unran', origin')
  PROVE  ListOnce'
<1>1. Unran \subseteq Unran' /\ cut \subseteq cut'
  BY UnranStays, HistoryStays
<1>2. \A t \in Tasks : origin[t] = "none" => t \in Unran
  BY DEF ListOnce, Unran
<1>3. \A t \in Tasks : origin'[t] \in {"pending", "due"} => t \in Unran' \cup Closing'
  BY <1>1, <1>2 DEF ListOnce
<1>4. \A t \in Tasks : origin'[t] = "failed" => t \in Unran'
  BY <1>1 DEF ListOnce
<1>5. \A t \in Tasks : origin'[t] = "none" => ran'[t] = 0
  BY DEF ListOnce
<1>6. \A t \in Tasks : ran'[t] <= 1 \/ t \in cut'
  BY <1>1 DEF ListOnce
<1>7. QED
  BY <1>3, <1>4, <1>5, <1>6 DEF ListOnce

\* What the environment adds is new.
LEMMA ListEnvironment ==
  ASSUME TypeInv, ListOnce, [Next]_vars,
         \/ UNCHANGED vars
         \/ Environment /\ ~\E k \in Coordinators : Crash(k) \/ QueueFails(k)
  PROVE  ListOnce'
<1>1. RowTypes /\ pass' = pass /\ ran' = ran
  BY TypesNow DEF vars, history, Environment, HandOff, ComeDue, delete_scheduled_task, Request,
                  View, End, DeleteMessages, DeleteRow
<1>2. Unran \subseteq Unran' /\ Closing' = Closing
  BY <1>1, UnranStays DEF Closing
<1>3. \/ origin' = origin
      \/ \E t \in Tasks : \E o :
           /\ origin' = [origin EXCEPT ![t] = o]
           /\ \/ origin[t] = "none" /\ o \in {"handoff", "pending", "due"}
              \/ origin[t] = "due" /\ o = "dropped"
  BY DEF vars, arrived, Environment, HandOff, Arrive, ComeDue, delete_scheduled_task, Request,
         View, End, DeleteMessages, DeleteRow
<1>4. \A t \in Tasks : /\ origin'[t] # origin[t] => /\ origin[t] \in {"none", "due"}
                                                    /\ origin'[t] \notin {"none", "failed"}
                       /\ origin'[t] # origin[t] /\ origin[t] = "due" => origin'[t] = "dropped"
  BY <1>1, <1>3 DEF RowTypes
<1>5. ASSUME NEW k \in Coordinators PROVE ListOf(pass'[k], Unran', origin')
  <2>1. /\ ListOf(pass[k], Unran, origin)
        /\ pass[k].job \in Listed => \A r \in pass[k].leads : r[1] \in Tasks
        /\ pass[k].at \in {"queue", "send"} => pass[k].task \in Tasks
    <3>1. pass[k].job \in Listed => pass[k].leads \subseteq Tasks \X Lead
      BY TypesNow DEF Shape
    <3>2. pass[k].at \in {"queue", "send"} => pass[k].task \in Tasks
      BY RoutingReady DEF Ready, Routing
    <3>3. QED
      BY <3>1, <3>2 DEF ListOnce
  <2>2. QED
    BY <1>1, <1>2, <1>4, <2>1 DEF ListOf, Listed
<1>6. QED
  BY <1>1, <1>2, <1>4, <1>5, ListFrame

\* A pass that is alone goes on to q without passing anything on.
LEMMA ListAlone ==
  ASSUME TypeInv, ListOnce, [Next]_vars, ran' = ran,
         NEW k \in Coordinators, NEW q, Set(k, q),
         \A j \in Coordinators : j # k => pass[j] = NoPass,
         \A t \in Tasks : \/ origin'[t] = origin[t]
                          \/ origin'[t] \notin {"none", "pending", "due", "failed"}
                          \/ origin'[t] = "failed" /\ t \in Unran,
         \A t \in Tasks : Closes(pass[k], t) /\ origin'[t] \in {"pending", "due"} => t \in cut',
         ListOf(q, Unran, origin')
  PROVE  ListOnce'
<1>1. \A j \in Coordinators : pass'[j] = IF j = k THEN q ELSE NoPass
  BY DEF Set, TypeInv, Shapes
<1>2. Unran \subseteq Unran'
  BY UnranStays
<1>3. \A t \in Closing : Closes(pass[k], t)
  <2>1. ASSUME NEW j \in Coordinators, j # k, NEW t PROVE ~Closes(pass[j], t)
    BY <2>1, NoPassShape DEF Closes
  <2>2. QED
    BY <2>1 DEF Closing
<1>4. \A t \in Closing : origin'[t] \in {"pending", "due"} => t \in Unran'
  BY <1>3 DEF Closing, Unran
<1>5. ASSUME NEW j \in Coordinators PROVE ListOf(pass'[j], Unran', origin')
  <2>1. CASE j = k
    BY <1>1, <1>2, <2>1 DEF ListOf
  <2>2. CASE j # k
    BY <1>1, <2>2, NoPassList
  <2>3. QED
    BY <2>1, <2>2
<1>6. QED
  BY <1>4, <1>5, ListFrame

\* A task at hand that nobody has passed on, and the rest of the list as well.
Unspent(u, fresh, org) ==
  /\ u.job \in Listed => /\ \A r \in u.leads : r[1] \in fresh /\ r[1] # u.task
                         /\ \A r, w \in u.leads : r[1] = w[1] => r = w
  /\ u.job = "remote" => org[u.task] = "pending" /\ \A r \in u.leads : org[r[1]] = "pending"
  /\ u.job \notin Inboxes => u.task \in fresh

LEMMA UnspentList ==
  ASSUME NEW u, NEW q, NEW F, NEW o, Unspent(u, F, o),
         q.job = u.job, q.leads = u.leads, q.task = u.task \/ q.at = "next"
  PROVE  ListOf(q, F, o)
BY DEF Unspent, ListOf, Routing

\* So it is with what a pass comes to route.
LEMMA ListUpcoming ==
  ASSUME TypeInv, ListOnce, NEW k \in Coordinators, NEW u,
         u \in Upcoming(pass[k]) \/ (u = pass[k] /\ pass[k].at \in {"queue", "send"})
  PROVE  Unspent(u, Unran, origin)
<1> DEFINE p == pass[k]
<1>1. ListOf(p, Unran, origin)
  BY DEF ListOnce
<1>2. CASE u = p /\ p.at \in {"decide", "queue", "send"}
  <2>1. p.at = "decide" => p.job \notin Listed
    BY TypesNow DEF Shape, Listed
  <2>2. QED
    BY <1>1, <1>2, <2>1 DEF ListOf, Unspent, Routing, Listed
<1>3. CASE u \in Upcoming(p) /\ p.at = "next" /\ u.job \in Listed
  <2> DEFINE r == <<u.task, u.lead>>
  <2>1. u.job = p.job /\ r \in p.leads /\ u.leads = p.leads \ {r} /\ r[1] = u.task
    BY <1>3, UpcomingReady
  <2> HIDE DEF r
  <2>2. \A w \in u.leads : w \in p.leads /\ w # r
    BY <2>1
  <2>3. QED
    BY <1>1, <1>3, <2>1, <2>2 DEF ListOf, Unspent
<1>4. CASE u \in Upcoming(p) /\ p.at = "next" /\ u.job \notin Listed
  <2>1. u.job \in Inboxes /\ u.job # "remote"
    BY <1>4, UpcomingReady DEF Inboxes, Listed
  <2>2. QED
    BY <1>4, <2>1 DEF Unspent
<1>5. QED
  BY <1>2, <1>3, <1>4, UpcomingReady

\* An error: the request has failed and the next one follows, or the pass ends.
LEMMA ListGivenUp ==
  ASSUME TypeInv, ListOnce, [Next]_vars, ran' = ran, NEW k \in Coordinators, NEW u,
         \A j \in Coordinators : j # k => pass[j] = NoPass,
         pass[k].at # "settle", Ready(u, sent), Unspent(u, Unran, origin), GiveUp(k, u)
  PROVE  ListOnce'
<1>1. \A t \in Tasks : ~Closes(pass[k], t)
  BY DEF Closes
<1>2. CASE u.job = "remote"
  <2>1. origin' = [origin EXCEPT ![u.task] = "failed"] /\ Set(k, Clear(u))
    BY <1>2 DEF GiveUp
  <2>2. Clear(u).at = "next" /\ Clear(u).job = "remote" /\ Clear(u).leads = u.leads
    BY <1>2 DEF Clear, Ready, Pass
  <2>3. u.task \in Unran /\ u.leads \subseteq Tasks \X Lead /\ RowTypes
    BY <1>2, TypesNow DEF Unspent, Inboxes, Ready, Listed
  <2>4. \A r \in u.leads : r[1] \in Unran /\ r[1] # u.task /\ origin'[r[1]] = "pending"
    <3>1. \A r \in u.leads : r[1] \in Tasks
      BY <2>3
    <3>2. QED
      BY <1>2, <2>1, <2>3, <3>1 DEF Unspent, Listed, RowTypes
  <2>5. ListOf(Clear(u), Unran, origin')
    BY <1>2, <2>2, <2>4 DEF ListOf, Unspent, Routing, Listed
  <2>6. \A t \in Tasks : origin'[t] = origin[t] \/ (origin'[t] = "failed" /\ t \in Unran)
    BY <2>1, <2>3 DEF RowTypes
  <2>7. QED
    BY <1>1, <2>1, <2>5, <2>6, ListAlone
<1>3. CASE u.job # "remote"
  <2>1. origin' = origin /\ Set(k, NoPass)
    BY <1>3 DEF GiveUp
  <2>2. QED
    BY <1>1, <2>1, NoPassList, ListAlone
<1>4. QED
  BY <1>2, <1>3

\* A pass that has nothing to settle goes on, and no origin changes.
LEMMA ListGoesOn ==
  ASSUME TypeInv, ListOnce, [Next]_vars, ran' = ran, origin' = origin,
         NEW k \in Coordinators, NEW q, Set(k, q),
         \A j \in Coordinators : j # k => pass[j] = NoPass,
         pass[k].at # "settle" \/ pass[k].job \notin Listed, ListOf(q, Unran, origin)
  PROVE  ListOnce'
<1>1. \A t \in Tasks : ~Closes(pass[k], t)
  BY DEF Closes
<1>2. QED
  BY <1>1, ListAlone

\* The passes begin, or look for what is next.
LEMMA ListLook ==
  ASSUME TypeInv, ListOnce, [Next]_vars, NEW k \in Coordinators,
         \A j \in Coordinators : j # k => pass[j] = NoPass,
         \/ Start(k)
         \/ EndPass(k) \/ NextLead(k) \/ NextDelegate(k) \/ NextMoved(k)
  PROVE  ListOnce'
<1>1. CASE Start(k)
  <2>1. pass[k].at = "idle" /\ ran' = ran
    BY <1>1, StartEffect DEF At, Enter
  <2>2. PICK q :
          /\ Set(k, q)
          /\ \/ origin' = origin /\ q.at = "next" /\ q.job \in Inboxes
             \/ origin' = origin /\ q.at = "next" /\ q.job \in Listed /\ Unsettled(q, origin)
             \/ /\ q.at = "decide" /\ q.job = "assign" /\ q.task \in Tasks
                /\ origin[q.task] = "none"
                /\ origin' = [origin EXCEPT ![q.task] = "assign"]
    BY <1>1, StartEffect
  <2>3. CASE origin' = origin /\ q.at = "next" /\ q.job \in Inboxes
    <3>1. ListOf(q, Unran, origin)
      BY <2>3 DEF ListOf, Inboxes, Listed
    <3>2. QED
      BY <2>1, <2>2, <2>3, <3>1, ListGoesOn
  <2>4. CASE origin' = origin /\ q.at = "next" /\ q.job \in Listed /\ Unsettled(q, origin)
    <3>1. \A r \in q.leads : r[1] \in Tasks
      <4>1. TypeInv' /\ pass'[k] = q
        BY <2>2, StepTypes DEF Set, TypeInv, Shapes
      <4>2. Shape(q, sent', Born')
        BY <4>1 DEF TypeInv, Shapes
      <4>3. QED
        BY <2>4, <4>2 DEF Shape
    <3>2. Closing = {}
      <4>1. \A j \in Coordinators : pass[j].at # "settle"
        BY <2>1, NoPassShape
      <4>2. QED
        BY <4>1 DEF Closing, Closes
    <3>3. \A r \in q.leads : r[1] \in Unran
      BY <2>4, <3>1, <3>2 DEF Unsettled, ListOnce
    <3>4. ListOf(q, Unran, origin)
      BY <2>4, <3>3 DEF ListOf, Unsettled, Routing
    <3>5. QED
      BY <2>1, <2>2, <2>4, <3>4, ListGoesOn
  <2>5. CASE /\ q.at = "decide" /\ q.job = "assign" /\ q.task \in Tasks
             /\ origin[q.task] = "none"
             /\ origin' = [origin EXCEPT ![q.task] = "assign"]
    <3>1. q.task \in Unran
      BY <2>5 DEF ListOnce, Unran
    <3>2. ListOf(q, Unran, origin')
      BY <2>5, <3>1 DEF ListOf, Listed
    <3>3. \A t \in Tasks : origin'[t] = origin[t] \/ origin'[t] = "assign"
      BY <2>5, TypesNow DEF RowTypes
    <3>4. \A t \in Tasks : ~Closes(pass[k], t)
      BY <2>1 DEF Closes
    <3>5. QED
      BY <2>1, <2>2, <3>2, <3>3, <3>4, ListAlone
  <2>6. QED
    BY <2>2, <2>3, <2>4, <2>5
<1>2. CASE EndPass(k) \/ NextLead(k) \/ NextDelegate(k) \/ NextMoved(k)
  <2>1. pass[k].at = "next" /\ ran' = ran /\ origin' = origin
    BY <1>2, LookEffect DEF At, history, arrived
  <2>2. PICK q : Set(k, q) /\ (q = NoPass \/ q.job \in Inboxes)
    BY <1>2, LookEffect DEF Inboxes
  <2>3. ListOf(q, Unran, origin)
    <3>1. CASE q = NoPass
      BY <3>1, NoPassList
    <3>2. CASE q.job \in Inboxes
      BY <3>2 DEF ListOf, Inboxes, Listed
    <3>3. QED
      BY <2>2, <3>1, <3>2
  <2>4. QED
    BY <2>1, <2>2, <2>3, ListGoesOn
<1>3. QED
  BY <1>1, <1>2

LEMMA ListDecide ==
  ASSUME TypeInv, ListOnce, [Next]_vars, NEW k \in Coordinators,
         \A j \in Coordinators : j # k => pass[j] = NoPass,
         LeadIsGone(k) \/ Decide(k)
  PROVE  ListOnce'
<1>1. CASE LeadIsGone(k)
  <2>1. ran' = ran
    BY <1>1 DEF LeadIsGone
  <2>2. PICK u \in Upcoming(pass[k]) : GiveUp(k, u)
    BY <1>1 DEF LeadIsGone
  <2>3. Ready(u, sent) /\ pass[k].at # "settle"
    BY UpcomingReady
  <2>4. Unspent(u, Unran, origin)
    BY ListUpcoming
  <2>5. QED
    BY <2>1, <2>2, <2>3, <2>4, ListGivenUp
<1>2. CASE Decide(k)
  <2>1. ran' = ran /\ origin' = origin
    BY <1>2 DEF Decide, Unchanging, arrived
  <2>2. PICK u \in Upcoming(pass[k]) :
          \/ Set(k, [u EXCEPT !.at = "queue"])
          \/ Defer(k, u)
          \/ \E d : Set(k, [u EXCEPT !.at = "send", !.to = d])
    BY <1>2, DecideCases
  <2>3. u \in Pass /\ pass[k].at # "settle"
    BY UpcomingReady DEF Ready
  <2>4. Unspent(u, Unran, origin)
    BY ListUpcoming
  <2>5. ASSUME NEW q, Set(k, q), ListOf(q, Unran, origin) PROVE ListOnce'
    BY <2>1, <2>3, <2>5, ListGoesOn
  <2>6. CASE Set(k, [u EXCEPT !.at = "queue"])
    <3>1. ListOf([u EXCEPT !.at = "queue"], Unran, origin)
      <4> DEFINE q == [u EXCEPT !.at = "queue"]
      <4>1. q.job = u.job /\ q.leads = u.leads /\ q.task = u.task
        BY <2>3 DEF Pass
      <4> HIDE DEF q
      <4>2. ListOf(q, Unran, origin)
        BY <2>4, <4>1, UnspentList
      <4>3. QED
        BY <4>2 DEF q
    <3>2. QED
      BY <2>5, <2>6, <3>1
  <2>7. ASSUME NEW d, Set(k, [u EXCEPT !.at = "send", !.to = d]) PROVE ListOnce'
    <3> DEFINE q == [u EXCEPT !.at = "send", !.to = d]
    <3>1. q.job = u.job /\ q.leads = u.leads /\ q.task = u.task
      BY <2>3 DEF Pass
    <3>2. Set(k, q)
      BY <2>7
    <3> HIDE DEF q
    <3>3. ListOf(q, Unran, origin)
      BY <2>4, <3>1, UnspentList
    <3>4. QED
      BY <2>5, <3>2, <3>3
  <2>8. CASE Defer(k, u)
    <3>1. CASE u.job = "rebalance"
      <4> DEFINE q == [u EXCEPT !.at = "settle", !.to = u.lead]
      <4>1. q.job = u.job /\ q.leads = u.leads /\ q.task = u.task
        BY <2>3 DEF Pass
      <4>2. Set(k, q)
        BY <2>8, <3>1 DEF Defer
      <4> HIDE DEF q
      <4>3. ListOf(q, Unran, origin)
        BY <2>4, <4>1, UnspentList
      <4>4. QED
        BY <2>5, <4>2, <4>3
    <3>2. CASE u.job = "assign"
      <4>1. Set(k, NoPass)
        BY <2>8, <3>2 DEF Defer
      <4>2. QED
        BY <2>5, <4>1, NoPassList
    <3>3. CASE u.job \notin {"rebalance", "assign"}
      <4>1. Set(k, Clear(u))
        BY <2>8, <3>3 DEF Defer
      <4>2. Clear(u).job = u.job /\ Clear(u).leads = u.leads /\ Clear(u).at = "next"
        BY <2>3 DEF Clear, Pass
      <4>3. ListOf(Clear(u), Unran, origin)
        BY <2>4, <4>2, UnspentList
      <4>4. QED
        BY <2>5, <4>1, <4>3
    <3>4. QED
      BY <3>1, <3>2, <3>3
  <2>9. QED
    BY <2>2, <2>6, <2>7, <2>8
<1>3. QED
  BY <1>1, <1>2

\* A pass passes its task on and comes to settle it.
LEMMA ListPassedOn ==
  ASSUME TypeInv, OriginInv, ListOnce, [Next]_vars, NEW k \in Coordinators, NEW q, Set(k, q),
         \A j \in Coordinators : j # k => pass[j] = NoPass,
         pass[k].at \in {"queue", "send"}, PassedOn(pass[k]), UNCHANGED <<origin, cut>>,
         q.at = "settle", q.job = pass[k].job, q.task = pass[k].task, q.leads = pass[k].leads
  PROVE  ListOnce'
<1> DEFINE p == pass[k]
<1>0. Ready(p, sent) /\ Unspent(p, Unran, origin)
  BY RoutingReady, ListUpcoming DEF Routing
<1>1. CASE p.job \in Inboxes
  <2>1. ran' = ran
    BY <1>0, <1>1, TypesNow DEF PassedOn, Ready
  <2>2. ListOf(q, Unran, origin) /\ p.at # "settle"
    BY <1>0, UnspentList
  <2>3. QED
    BY <2>1, <2>2, ListGoesOn
<1>2. CASE p.job \notin Inboxes
  <2>1. p.task \in Tasks /\ p.task \in Unran /\ p.job \in {"assign"} \cup Listed
    BY <1>0, <1>2 DEF Ready, Unspent, Pass
  <2>2. ran' = [ran EXCEPT ![p.task] = @ + 1] /\ ran \in [Tasks -> Nat]
    BY <1>0, <1>2, TypesNow DEF PassedOn, Ready, Shapes
  <2>3. \A t \in Tasks : t # p.task => ran'[t] = ran[t] /\ (t \in Unran => t \in Unran')
    BY <2>2 DEF Unran
  <2>4. ran'[p.task] <= 1 \/ p.task \in cut'
    BY <2>1, <2>2 DEF Unran
  <2>5. /\ p.job = "remote" => origin[p.task] = "pending"
        /\ p.job = "due" => origin[p.task] \in Planned
        /\ p.job = "assign" => origin[p.task] = "assign"
    BY <1>0, ListedOrigin DEF Unspent, Routing
  <2>6. origin[p.task] \notin {"none", "failed"}
    BY <2>1, <2>5 DEF Planned, Listed
  <2>7. \A j \in Coordinators : pass'[j] = IF j = k THEN q ELSE NoPass
    BY DEF Set, TypeInv, Shapes
  <2>8. p.job \in Listed => p.task \in Closing'
    BY <2>1, <2>7 DEF Closing, Closes
  <2>9. Closing = {}
    BY NoPassShape DEF Closing, Closes
  <2>10. \A t \in Tasks : origin[t] \in {"pending", "due"} => t \in Unran' \cup Closing'
    <3>1. origin[p.task] \in {"pending", "due"} => p.task \in Closing'
      BY <2>1, <2>5, <2>8
    <3>2. QED
      BY <2>3, <2>9, <3>1 DEF ListOnce
  <2>11. ListOf(q, Unran', origin)
    <3>1. p.job \in Listed => \A r \in p.leads : r[1] \in Tasks
      BY <1>0 DEF Ready
    <3>2. p.job \in Listed => \A r \in p.leads : r[1] \in Unran'
      BY <1>0, <2>3, <3>1 DEF Unspent
    <3>3. p.job = "remote" => \A r \in p.leads : origin[r[1]] = "pending"
      BY <1>0 DEF Unspent
    <3>4. QED
      BY <1>0, <3>2, <3>3 DEF ListOf, Unspent, Listed
  <2>12. \A j \in Coordinators : ListOf(pass'[j], Unran', origin')
    BY <2>7, <2>11, NoPassList
  <2>13. \A t \in Tasks : ran'[t] <= 1 \/ t \in cut'
    BY <2>3, <2>4 DEF ListOnce
  <2>14. \A t \in Tasks : /\ origin'[t] = "none" => ran'[t] = 0
                          /\ origin'[t] = "failed" => t \in Unran'
    BY <2>3, <2>6 DEF ListOnce
  <2>15. QED
    BY <2>10, <2>12, <2>13, <2>14 DEF ListOnce
<1>3. QED
  BY <1>1, <1>2

LEMMA ListQueue ==
  ASSUME TypeInv, OriginInv, ListOnce, [Next]_vars, NEW k \in Coordinators,
         \A j \in Coordinators : j # k => pass[j] = NoPass,
         QueueFails(k) \/ Send(k) \/ \E s \in Sessions : Queue(k, s)
  PROVE  ListOnce'
<1> DEFINE p == pass[k]
<1>0. p \in Pass
  BY TypesNow
<1>1. CASE QueueFails(k)
  <2>1. p.at = "queue" /\ ran' = ran /\ GiveUp(k, p)
    BY <1>1 DEF QueueFails, At
  <2>2. Ready(p, sent) /\ Unspent(p, Unran, origin)
    BY <2>1, RoutingReady, ListUpcoming DEF Routing
  <2>3. QED
    BY <2>1, <2>2, ListGivenUp
<1>2. CASE Send(k)
  <2> DEFINE q == [p EXCEPT !.at = "settle"]
  <2>1. p.at = "send" /\ Set(k, q) /\ PassedOn(p) /\ UNCHANGED <<origin, cut>>
    BY <1>2 DEF Send, At, arrived
  <2>2. q.at = "settle" /\ q.job = p.job /\ q.task = p.task /\ q.leads = p.leads
    BY <1>0 DEF Pass
  <2> HIDE DEF q
  <2>3. QED
    BY <2>1, <2>2, ListPassedOn
<1>3. ASSUME NEW s \in Sessions, Queue(k, s) PROVE ListOnce'
  <2>1. p.at = "queue" /\ UNCHANGED <<origin, cut>>
    BY <1>3 DEF Queue, NewSession, At, arrived
  <2>2. CASE p.lead = None
    <3> DEFINE q == [p EXCEPT !.to = s, !.at = "settle"]
    <3>1. Set(k, q) /\ PassedOn(p)
      BY <1>3, <2>2 DEF Queue
    <3>2. q.at = "settle" /\ q.job = p.job /\ q.task = p.task /\ q.leads = p.leads
      BY <1>0 DEF Pass
    <3> HIDE DEF q
    <3>3. QED
      BY <2>1, <3>1, <3>2, ListPassedOn
  <2>3. CASE p.lead # None
    <3> DEFINE q == [p EXCEPT !.to = s, !.at = "send"]
    <3>1. Set(k, q) /\ ran' = ran
      BY <1>3, <2>3 DEF Queue
    <3>2. q.job = p.job /\ q.task = p.task /\ q.leads = p.leads
      BY <1>0 DEF Pass
    <3> HIDE DEF q
    <3>3. ListOf(q, Unran, origin)
      BY <2>1, <3>2, ListUpcoming, UnspentList
    <3>4. QED
      BY <2>1, <3>1, <3>3, ListGoesOn
  <2>4. QED
    BY <2>2, <2>3
<1>4. QED
  BY <1>1, <1>2, <1>3

LEMMA ListSettle ==
  ASSUME TypeInv, OriginInv, ListOnce, [Next]_vars, NEW k \in Coordinators,
         \A j \in Coordinators : j # k => pass[j] = NoPass,
         \/ SettleHandoff(k) \/ SettleMoved(k) \/ SettleRequest(k)
         \/ record_scheduled_task_run(k) \/ SettleAssign(k) \/ Crash(k)
  PROVE  ListOnce'
<1> DEFINE p == pass[k]
<1>0. p \in Pass /\ RowTypes /\ ListOf(p, Unran, origin)
  BY TypesNow DEF ListOnce
<1>1. ran' = ran
  BY DEF SettleHandoff, SettleMoved, SettleRequest, record_scheduled_task_run, SettleAssign, Crash,
         history
<1>2. Clear(p).at = "next" /\ Clear(p).job = p.job /\ Clear(p).leads = p.leads
  BY <1>0 DEF Clear, Pass
<1>3. CASE SettleHandoff(k) \/ SettleMoved(k)
  <2>1. /\ p.job \in Inboxes /\ origin' = origin
        /\ Set(k, Clear(p)) \/ Set(k, [Clear(p) EXCEPT !.left = @ - 1])
    BY <1>3 DEF SettleHandoff, SettleMoved, Inboxes, arrived
  <2>2. [Clear(p) EXCEPT !.left = @ - 1].job = p.job
    BY <1>0 DEF Clear, Pass
  <2>3. \A q : q.job = p.job => ListOf(q, Unran, origin)
    BY <2>1 DEF ListOf, Inboxes, Listed
  <2>4. p.job \notin Listed
    BY <2>1 DEF Inboxes, Listed
  <2>5. QED
    BY <1>1, <1>2, <2>1, <2>2, <2>3, <2>4, ListGoesOn
<1>4. CASE SettleAssign(k)
  <2>1. p.job \notin Listed /\ origin' = origin /\ Set(k, NoPass)
    BY <1>4 DEF SettleAssign, arrived, Listed
  <2>2. QED
    BY <1>1, <2>1, NoPassList, ListGoesOn
<1>5. CASE Crash(k)
  <2>1. origin' = origin /\ Set(k, NoPass) /\ p.task \in cut'
    BY <1>5 DEF Crash, CutOff, arrived
  <2>2. \A t \in Tasks : Closes(p, t) => t \in cut'
    BY <2>1 DEF Closes
  <2>3. QED
    BY <1>1, <2>1, <2>2, NoPassList, ListAlone
<1>6. CASE SettleRequest(k) \/ record_scheduled_task_run(k)
  <2>1. /\ p.at = "settle" /\ p.job \in Listed /\ Set(k, Clear(p)) /\ Ready(p, sent)
        /\ IF p.job = "remote" THEN origin' = [origin EXCEPT ![p.task] = "dispatched"]
           ELSE origin' = [origin EXCEPT ![p.task] = IF @ = "due" THEN "ran" ELSE @]
    <3>1. /\ p.at = "settle" /\ p.job \in Listed /\ Set(k, Clear(p))
          /\ IF p.job = "remote" THEN origin' = [origin EXCEPT ![p.task] = "dispatched"]
             ELSE origin' = [origin EXCEPT ![p.task] = IF @ = "due" THEN "ran" ELSE @]
      BY <1>6 DEF SettleRequest, record_scheduled_task_run, At, Listed
    <3>2. QED
      BY <3>1, RoutingReady DEF Routing
  <2>2. p.task \in Tasks /\ p.leads \subseteq Tasks \X Lead
    BY <2>1 DEF Ready
  <2>3. p.job = "due" => origin[p.task] \in Planned
    BY <2>1, ListedOrigin DEF Routing
  <2>4. /\ \A t \in Tasks : t # p.task => origin'[t] = origin[t]
        /\ origin'[p.task] \in {"dispatched", "ran", "dropped"}
    BY <1>0, <2>1, <2>2, <2>3 DEF RowTypes, Planned, Listed
  <2>5. \A t \in Tasks : origin'[t] = origin[t] \/ origin'[t] \in {"dispatched", "ran", "dropped"}
    BY <2>4
  <2>6. \A t \in Tasks : ~(Closes(p, t) /\ origin'[t] \in {"pending", "due"})
    BY <2>4 DEF Closes
  <2>7. ListOf(Clear(p), Unran, origin')
    <3>1. \A r \in p.leads : r[1] \in Tasks
      BY <2>2
    <3>2. \A r \in p.leads : r[1] \in Unran /\ r[1] # p.task
      BY <1>0, <2>1 DEF ListOf, Routing
    <3>3. p.job = "remote" => \A r \in p.leads : origin[r[1]] = "pending"
      BY <1>0 DEF ListOf
    <3>4. p.job = "remote" => \A r \in p.leads : origin'[r[1]] = "pending"
      BY <2>4, <3>1, <3>2, <3>3
    <3>5. \A r, u \in p.leads : r[1] = u[1] => r = u
      BY <1>0, <2>1 DEF ListOf
    <3>6. QED
      BY <1>2, <3>2, <3>4, <3>5 DEF ListOf, Routing
  <2>8. QED
    BY <1>1, <2>1, <2>5, <2>6, <2>7, ListAlone
<1>7. QED
  BY <1>3, <1>4, <1>5, <1>6

LEMMA ListStep ==
  ASSUME TypeInv, AloneInv, OriginInv, ListInv, [Next]_vars
  PROVE  ListInv'
<1>1. CASE raced'
  BY <1>1 DEF ListInv
<1>2. ASSUME ~raced', NEW k \in Coordinators,
             PassStep(k) \/ Start(k) \/ Crash(k) \/ QueueFails(k)
      PROVE  ListOnce'
  <2>1. ~raced /\ \A j \in Coordinators : j # k => pass[j] = NoPass
    BY <1>2, Solo
  <2>2. ListOnce
    BY <2>1 DEF ListInv
  <2>3. QED
    BY <1>2, <2>1, <2>2, ListLook, ListDecide, ListQueue, ListSettle DEF PassStep
<1>3. ASSUME ~raced', \/ UNCHANGED vars
                      \/ Environment /\ ~\E k \in Coordinators : Crash(k) \/ QueueFails(k)
      PROVE  ListOnce'
  <2>1. ListOnce
    <3>1. ~raced
      BY <1>3, Moves
    <3>2. QED
      BY <3>1 DEF ListInv
  <2>2. QED
    BY <1>3, <2>1, ListEnvironment
<1>4. CASE ~raced'
  BY <1>2, <1>3, <1>4 DEF ListInv, Next, Environment
<1>5. QED
  BY <1>1, <1>4

LEMMA ListInit == Init => ListInv
<1> SUFFICES ASSUME Init PROVE ListOnce
  BY DEF ListInv
<1>1. /\ \A t \in Tasks : ran[t] = 0 /\ origin[t] \in {"none", "handoff"}
      /\ \A k \in Coordinators : pass[k] = NoPass
  BY DEF Init
<1>2. Unran = Tasks
  BY <1>1 DEF Unran
<1>3. \A k \in Coordinators : ListOf(pass[k], Unran, origin)
  BY <1>1, NoPassList
<1>4. QED
  BY <1>1, <1>2, <1>3 DEF ListOnce

RoutingInv == TypeInv /\ AloneInv /\ OriginInv /\ RoomInv /\ MailInv /\ ListInv /\ DoneInv

LEMMA RoutingInvariant == Spec => []RoutingInv
<1>1. Init => RoutingInv
  BY InitTypes, AloneInit, OriginInit, RoomInit, MailInit, ListInit, DoneInit DEF RoutingInv
<1>2. RoutingInv /\ [Next]_vars => RoutingInv'
  BY StepTypes, AloneStep, OriginStep, RoomStep, MailStep, ListStep, DoneStep DEF RoutingInv
<1>3. QED
  BY <1>1, <1>2, PTL DEF Spec

\* One handoff leads to one assignment, one request or occurrence to one
\* session (auto_dispatch_backlog, rebalance_team_backlog,
\* run_remote_dispatch_requests, run_due_schedules), unless two passes were at
\* work or the routing was cut off.
THEOREM RoutedOnlyOnce == Spec => []RoutedOnce
<1>1. RoutingInv => RoutedOnce
  <2>1. MailInv => \A m \in 1..Len(sent) : times[m] <= 1 \/ sent[m].task \in cut \/ raced
    BY DEF MailInv, MailOnce
  <2>2. ListInv => \A t \in Tasks : ran[t] <= 1 \/ t \in cut \/ raced
    BY DEF ListInv, ListOnce
  <2>3. QED
    BY <2>1, <2>2 DEF RoutingInv, RoutedOnce
<1>2. QED
  BY <1>1, RoutingInvariant, PTL

\* A request recorded as failed reached nobody, and one recorded as dispatched,
\* like an occurrence recorded as run, has a session
\* (record_remote_dispatch_success, record_remote_dispatch_failure,
\* record_scheduled_task_run).
THEOREM ReportsAreTrue == Spec => []ReportedTruly
<1>1. RoutingInv => ReportedTruly
  <2>1. ListInv => \A t \in Tasks : origin[t] = "failed" => ran[t] = 0 \/ t \in cut \/ raced
    BY DEF ListInv, ListOnce, Unran
  <2>2. DoneInv => \A t \in Tasks : origin[t] \in {"dispatched", "ran"} => ran[t] >= 1
    BY DEF DoneInv
  <2>3. QED
    BY <2>1, <2>2 DEF RoutingInv, ReportedTruly
<1>2. QED
  BY <1>1, RoutingInvariant, PTL

(***************************************************************************)
(* The cycles of the daemon: BacklogCycle, with the team size and the      *)
(* limits of above.                                                        *)
(***************************************************************************)
CONSTANTS Leads, MaxWaiting, MaxStreak
VARIABLES waiting, room, piled, gone, mode, todo, routed, held, moved, faults
Cycle == INSTANCE BacklogCycle WITH mishaps <- faults

\* What the row of daemon_activity says hangs together: a streak comes with
\* deferred handoffs that no recovery has followed.
StreakPrefersRebalance == streak > 0 => Cycle!prefers_rebalance_first

\* A cycle begins with a dispatch pass only when there is no streak.
FirstDispatchIsFresh ==
  at = "dispatch" /\ mode \in {"first", "stable"} => streak = 0

\* A recovery is recorded for handoffs that were given out.
RecoveryGaveOut == at = "recover" => routed > 0

StreakInv ==
  /\ Cycle!TypeOK
  /\ StreakPrefersRebalance
  /\ FirstDispatchIsFresh
  /\ RecoveryGaveOut
  /\ Cycle!StreakMeansStuck

LEMMA StreakInit ==
  ASSUME Cycle!CycleAssumption
  PROVE  Cycle!Init => StreakInv
<1> USE DEF Cycle!CycleAssumption
<1>1. ASSUME Cycle!Init PROVE Cycle!TypeOK
  <2>1. /\ MaxTeam \in 0..MaxTeam /\ 0 \in 0..MaxTeam /\ 0 \in Nat
        /\ \A l \in Leads : 0 <= MaxWaiting[l]
        /\ 0 \in 0..MaxStreak /\ 0 \in 0..MaxMishaps
    OBVIOUS
  <2>2. /\ waiting \in [Leads -> Nat] /\ \A l \in Leads : waiting[l] <= MaxWaiting[l]
        /\ room \in [Leads -> 0..MaxTeam]
        /\ piled \in [Leads -> 0..MaxTeam] /\ \A l \in Leads : piled[l] <= room[l]
    BY <1>1, <2>1 DEF Cycle!Init
  <2>3. mute \in BOOLEAN
    BY <1>1 DEF Cycle!Init
  <2>4. QED
    BY <1>1, <2>1, <2>2, <2>3 DEF Cycle!Init, Cycle!TypeOK
<1>2. Cycle!Init => StreakPrefersRebalance /\ FirstDispatchIsFresh /\ RecoveryGaveOut
              /\ Cycle!StreakMeansStuck
  BY DEF Cycle!Init, StreakPrefersRebalance, FirstDispatchIsFresh, RecoveryGaveOut,
         Cycle!StreakMeansStuck
<1>3. QED
  BY <1>1, <1>2 DEF StreakInv

(***************************************************************************)
(* Type correctness, action by action.                                     *)
(***************************************************************************)
LEMMA AroundTypes ==
  ASSUME Cycle!CycleAssumption, Cycle!TypeOK, Cycle!Environment
  PROVE  Cycle!TypeOK'
<1> USE DEF Cycle!CycleAssumption
<1>1. ASSUME NEW l \in Leads, Cycle!HandOff(l) PROVE Cycle!TypeOK'
  BY <1>1 DEF Cycle!TypeOK, Cycle!HandOff, Cycle!activity, Cycle!cycle, Cycle!history
<1>2. ASSUME NEW l \in Leads, Cycle!View(l) PROVE Cycle!TypeOK'
  BY <1>2 DEF Cycle!TypeOK, Cycle!View, Cycle!activity, Cycle!cycle, Cycle!history
<1>3. ASSUME NEW l \in Leads, Cycle!TeamChanges(l) PROVE Cycle!TypeOK'
  BY <1>3 DEF Cycle!TypeOK, Cycle!TeamChanges, Cycle!activity, Cycle!cycle, Cycle!history
<1>4. ASSUME NEW l \in Leads, Cycle!delete_session(l) PROVE Cycle!TypeOK'
  BY <1>4 DEF Cycle!TypeOK, Cycle!delete_session, Cycle!Mishap, Cycle!activity, Cycle!cycle
<1>5. ASSUME NEW l \in Leads, Cycle!LateHandOff(l) PROVE Cycle!TypeOK'
  BY <1>5 DEF Cycle!TypeOK, Cycle!LateHandOff, Cycle!activity, Cycle!cycle, Cycle!history
<1>6. QED
  BY <1>1, <1>2, <1>3, <1>4, <1>5 DEF Cycle!Environment

LEMMA DrainTypes ==
  ASSUME Cycle!CycleAssumption, Cycle!TypeOK, NEW l \in Leads, Cycle!Drain(l)
  PROVE  Cycle!TypeOK'
<1> DEFINE batch == Cycle!Least(waiting[l], Limit)
           given == Cycle!Least(batch, room[l])
<1> USE DEF Cycle!CycleAssumption
<1>1. /\ waiting[l] \in Nat /\ waiting[l] <= MaxWaiting[l] /\ room[l] \in 0..MaxTeam
      /\ piled[l] \in 0..MaxTeam
  BY DEF Cycle!TypeOK
<1>2. /\ batch \in 0..waiting[l] /\ given \in 0..batch /\ given <= room[l]
  BY <1>1 DEF Cycle!Least
<1>3. /\ waiting' = [waiting EXCEPT ![l] = @ - given]
      /\ room' = [room EXCEPT ![l] = @ - given]
      /\ piled' = [piled EXCEPT ![l] = Cycle!Least(@, room[l] - given)]
      /\ todo' = todo \ {l}
      /\ routed' = routed + given /\ held' = held + (batch - given)
      /\ UNCHANGED <<gone, Cycle!activity, at, mode, moved, Cycle!history>>
  BY DEF Cycle!Drain
<1> HIDE DEF batch, given
<1>4. /\ Cycle!Least(piled[l], room[l] - given) \in 0..MaxTeam
      /\ Cycle!Least(piled[l], room[l] - given) <= room[l] - given
  BY <1>1, <1>2 DEF Cycle!Least
<1>5. QED
  BY <1>1, <1>2, <1>3, <1>4 DEF Cycle!TypeOK, Cycle!activity, Cycle!history

LEMMA RelieveTypes ==
  ASSUME Cycle!CycleAssumption, Cycle!TypeOK, NEW l \in Leads, Cycle!Relieve(l)
  PROVE  Cycle!TypeOK'
<1> DEFINE n == Cycle!Least(piled[l], Limit)
<1> USE DEF Cycle!CycleAssumption
<1>1. room[l] \in 0..MaxTeam /\ piled[l] \in 0..MaxTeam /\ piled[l] <= room[l]
  BY DEF Cycle!TypeOK
<1>2. n \in 0..piled[l]
  BY <1>1 DEF Cycle!Least
<1>3. /\ room' = [room EXCEPT ![l] = @ - n]
      /\ piled' = [piled EXCEPT ![l] = @ - n]
      /\ todo' = todo \ {l} /\ moved' = moved + n
      /\ UNCHANGED <<waiting, gone, Cycle!activity, at, mode, routed, held, Cycle!history>>
  BY DEF Cycle!Relieve
<1> HIDE DEF n
<1>4. QED
  BY <1>1, <1>2, <1>3 DEF Cycle!TypeOK, Cycle!activity, Cycle!history

\* A pass visits leads.
LEMMA Visited ==
  ASSUME NEW m, Cycle!StartDispatch(m) \/ Cycle!StartRebalance(m)
  PROVE  todo' \subseteq Leads
BY DEF Cycle!StartDispatch, Cycle!StartRebalance, Cycle!Pick, Cycle!Waiters

LEMMA CycleTypes ==
  ASSUME Cycle!CycleAssumption, Cycle!TypeOK, [Cycle!Next]_(Cycle!vars)
  PROVE  Cycle!TypeOK'
<1> USE DEF Cycle!CycleAssumption
<1>1. CASE Cycle!Environment
  BY <1>1, AroundTypes
<1>2. CASE Cycle!Begin
  <2>1. PICK m : Cycle!StartDispatch(m) \/ Cycle!StartRebalance(m)
    BY <1>2 DEF Cycle!Begin
  <2>2. todo' \subseteq Leads
    BY <2>1, Visited
  <2>3. /\ at' \in {"dispatch", "rebalance"}
        /\ mode' \in {"first", "stable", "relieve", "cooloff", "again"}
        /\ routed' \in Nat /\ held' \in Nat /\ moved' \in Nat
    BY <1>2 DEF Cycle!TypeOK, Cycle!Begin, Cycle!StartRebalance, Cycle!StartDispatch
  <2>4. QED
    BY <1>2, <2>2, <2>3
       DEF Cycle!TypeOK, Cycle!Begin, Cycle!backlog, Cycle!activity, Cycle!history
<1>3. CASE Cycle!RecordDispatch
  <2>1. /\ UNCHANGED <<Cycle!backlog, faults, mute>>
        /\ deferred' = held /\ latest' \in {"dispatch", "later"}
        /\ streak' \in 0..MaxStreak /\ dry' \in 0..MaxStreak
    BY <1>3 DEF Cycle!TypeOK, Cycle!RecordDispatch, Cycle!Least
  <2>2. todo' \subseteq Leads
    BY <1>3, Visited DEF Cycle!TypeOK, Cycle!RecordDispatch, Cycle!Rest
  <2>3. /\ at' \in {"idle", "rebalance", "recover"}
        /\ mode' \in {"first", "stable", "relieve", "cooloff", "again"}
        /\ routed' \in Nat /\ held' \in Nat /\ moved' \in Nat
    BY <1>3 DEF Cycle!TypeOK, Cycle!RecordDispatch, Cycle!StartRebalance, Cycle!Rest
  <2>4. QED
    BY <2>1, <2>2, <2>3 DEF Cycle!TypeOK, Cycle!backlog
<1>4. CASE Cycle!RecordRecovery
  BY <1>4 DEF Cycle!TypeOK, Cycle!RecordRecovery, Cycle!Rest, Cycle!backlog, Cycle!history
<1>5. CASE Cycle!Rebalanced
  BY <1>5, Visited DEF Cycle!TypeOK, Cycle!Rebalanced, Cycle!StartDispatch, Cycle!Rest,
                       Cycle!backlog, Cycle!activity, Cycle!history
<1>6. CASE Cycle!LeadIsGone
  BY <1>6 DEF Cycle!TypeOK, Cycle!LeadIsGone, Cycle!Abort, Cycle!Rest, Cycle!backlog,
              Cycle!activity
<1>7. CASE Cycle!Fail
  BY <1>7 DEF Cycle!TypeOK, Cycle!Fail, Cycle!Mishap, Cycle!Abort, Cycle!Rest, Cycle!backlog,
              Cycle!activity
<1>8. ASSUME NEW l \in Leads, Cycle!Drain(l) \/ Cycle!Relieve(l) PROVE Cycle!TypeOK'
  BY <1>8, DrainTypes, RelieveTypes
<1>9. CASE UNCHANGED Cycle!vars
  BY <1>9 DEF Cycle!TypeOK, Cycle!vars, Cycle!backlog, Cycle!activity, Cycle!cycle, Cycle!history
<1>10. QED
  BY <1>1, <1>2, <1>3, <1>4, <1>5, <1>6, <1>7, <1>8, <1>9 DEF Cycle!Next, Cycle!Cycle

(***************************************************************************)
(* The streak.                                                             *)
(***************************************************************************)
LEMMA StreakStep ==
  ASSUME Cycle!CycleAssumption, StreakInv, [Cycle!Next]_(Cycle!vars)
  PROVE  /\ StreakPrefersRebalance' /\ FirstDispatchIsFresh'
         /\ RecoveryGaveOut' /\ Cycle!StreakMeansStuck'
<1> USE DEF Cycle!CycleAssumption, StreakPrefersRebalance, FirstDispatchIsFresh,
            RecoveryGaveOut, Cycle!StreakMeansStuck, Cycle!prefers_rebalance_first
<1> DEFINE Goal == /\ StreakPrefersRebalance' /\ FirstDispatchIsFresh'
                   /\ RecoveryGaveOut' /\ Cycle!StreakMeansStuck'
<1>0. /\ streak \in 0..MaxStreak /\ dry \in 0..MaxStreak /\ deferred \in Nat
      /\ held \in Nat /\ routed \in Nat /\ mute \in BOOLEAN
      /\ latest \in {"none", "dispatch", "recovery", "later"}
      /\ mode \in {"first", "stable", "relieve", "cooloff", "again"}
  BY DEF StreakInv, Cycle!TypeOK
<1>1. CASE Cycle!Environment
  BY <1>1 DEF StreakInv, Cycle!Environment, Cycle!HandOff, Cycle!View, Cycle!TeamChanges,
              Cycle!delete_session, Cycle!LateHandOff, Cycle!activity, Cycle!cycle,
              Cycle!history
<1>2. CASE Cycle!Begin
  BY <1>0, <1>2 DEF StreakInv, Cycle!Begin, Cycle!StartRebalance, Cycle!StartDispatch,
                    Cycle!activity, Cycle!history
<1>3. CASE Cycle!RecordDispatch
  <2>1. /\ deferred' = held /\ latest' \in {"dispatch", "later"} /\ mute' = mute
        /\ streak' = (IF held > 0 THEN Cycle!Least(streak + 1, MaxStreak) ELSE 0)
        /\ dry' = (IF routed > 0 THEN 0 ELSE Cycle!Least(dry + 1, MaxStreak))
        /\ at = "dispatch" /\ at' # "dispatch"
    BY <1>0, <1>3 DEF Cycle!RecordDispatch, Cycle!StartRebalance, Cycle!Rest
  <2>2. StreakPrefersRebalance' /\ FirstDispatchIsFresh'
    BY <1>0, <2>1
  <2>3. RecoveryGaveOut'
    BY <1>3 DEF Cycle!RecordDispatch, Cycle!StartRebalance, Cycle!Rest
  <2>4. ASSUME routed = 0 PROVE Cycle!StreakMeansStuck'
    <3>1. streak <= dry + 1 \/ mute
      BY <2>1 DEF StreakInv
    <3>2. dry' = Cycle!Least(dry + 1, MaxStreak) /\ streak' <= Cycle!Least(streak + 1, MaxStreak)
      BY <1>0, <2>1, <2>4 DEF Cycle!Least
    <3>3. mute \/ streak' <= dry' + 1
      BY <1>0, <2>1, <3>1, <3>2 DEF Cycle!Least
    <3>4. QED
      BY <2>1, <3>3
  <2>5. ASSUME routed > 0, mode \in {"first", "stable"} PROVE Cycle!StreakMeansStuck'
    <3>1. streak = 0
      BY <2>1, <2>5 DEF StreakInv
    <3>2. QED
      BY <1>0, <2>1, <2>5, <3>1 DEF Cycle!Least
  <2>6. ASSUME routed > 0, mode \notin {"first", "stable"} PROVE Cycle!StreakMeansStuck'
    BY <1>0, <1>3, <2>6 DEF Cycle!RecordDispatch
  <2>7. Cycle!StreakMeansStuck'
    BY <1>0, <2>4, <2>5, <2>6
  <2>8. QED
    BY <2>2, <2>3, <2>7
<1>4. CASE Cycle!RecordRecovery
  BY <1>0, <1>4 DEF Cycle!RecordRecovery, Cycle!Rest, Cycle!history
<1>5. CASE Cycle!Rebalanced
  BY <1>0, <1>5 DEF StreakInv, Cycle!Rebalanced, Cycle!StartDispatch, Cycle!Rest, Cycle!activity,
                    Cycle!history
<1>6. CASE Cycle!LeadIsGone \/ Cycle!Fail
  BY <1>0, <1>6 DEF StreakInv, Cycle!LeadIsGone, Cycle!Fail, Cycle!Abort, Cycle!Rest,
                    Cycle!activity
<1>7. ASSUME NEW l \in Leads, Cycle!Drain(l) \/ Cycle!Relieve(l) PROVE Goal
  BY <1>0, <1>7 DEF StreakInv, Cycle!Drain, Cycle!Relieve, Cycle!activity, Cycle!history
<1>8. CASE UNCHANGED Cycle!vars
  BY <1>8 DEF StreakInv, Cycle!vars, Cycle!activity, Cycle!cycle, Cycle!history
<1>9. QED
  BY <1>1, <1>2, <1>3, <1>4, <1>5, <1>6, <1>7, <1>8 DEF Cycle!Next, Cycle!Cycle

LEMMA StreakInvariant ==
  ASSUME Cycle!CycleAssumption
  PROVE  Cycle!Spec => []StreakInv
<1>1. StreakInv /\ [Cycle!Next]_(Cycle!vars) => StreakInv'
  BY CycleTypes, StreakStep DEF StreakInv
<1>2. QED
  BY StreakInit, <1>1, PTL DEF Cycle!Spec

\* Type correctness: the passes never give out more handoffs than wait, nor
\* more than the team has places, whatever the limits.
THEOREM BacklogTypeCorrect ==
  ASSUME Cycle!CycleAssumption
  PROVE  Cycle!Spec => []Cycle!TypeOK
BY StreakInvariant, PTL DEF StreakInv

\* The streak that throttles the daemon (daemon_activity.
\* chronic_saturation_streak) never counts a pass that gave something out,
\* unless a pass broke off before it had recorded that.
THEOREM StreaksMeanStuck ==
  ASSUME Cycle!CycleAssumption
  PROVE  Cycle!Spec => []StreakMeansStuck
<1>1. StreakInv => StreakMeansStuck
  BY DEF StreakInv, StreakMeansStuck, Cycle!StreakMeansStuck
<1>2. QED
  BY StreakInvariant, <1>1, PTL
=============================================================================
